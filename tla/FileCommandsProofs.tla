-------------------------- MODULE FileCommandsProofs --------------------------
(***************************************************************************)
(* Theorems about FileCommands, for any number of sessions, users, names   *)
(* and i-nodes: type correctness, and, when commands overlap but every     *)
(* client makes changes under names of its own, that no record outlives    *)
(* its file and that files and records agree on the owner.                 *)
(***************************************************************************)
EXTENDS FileCommands, TLAPS

FileState == [kind : {"none", "file", "dir"}, authors : SUBSET User,
              sealed : User \cup {NoUser}]

\* A command that runs has a user and an argument, RNTO a name to rename from, and a
\* call of the database a key.
NamedState ==
  {r \in SessionState : /\ r.pc # "idle" => r.arg \in Name /\ r.user \in User
                        /\ r.pc = "rename" => r.from \in Name
                        /\ r.pc \in {"delete", "put"} => r.key \in Inode}

\* The locations that ask nothing of the state of the session.
Plain == Locations \ {"rename", "delete", "put"}
USE DEF Plain

TypeInv == TypeOK /\ ses \in [Session -> NamedState]

DirType(d) == d \in [Name -> Inode \cup {NoInode}]
HandleType(h) == h \in [Session -> Inode \cup {NoInode}]
FileType(f) == f \in [Inode -> FileState]
RecType(r) == r \in [Inode -> User \cup {NoUser}]

LEMMA TypeInvDef ==
  TypeInv <=> /\ DirType(dir) /\ HandleType(handle) /\ FileType(file) /\ RecType(rec)
              /\ ses \in [Session -> NamedState]
  BY DEF TypeInv, TypeOK, DirType, HandleType, FileType, RecType, FileState, NamedState

LEMMA TypeInvNext ==
  TypeInv' <=> /\ DirType(dir') /\ HandleType(handle') /\ FileType(file') /\ RecType(rec')
               /\ ses' \in [Session -> NamedState]
  BY DEF TypeInv, TypeOK, DirType, HandleType, FileType, RecType, FileState, NamedState

LEMMA Names ==
  /\ \A l \in {"idle", "get", "open", "connect", "transfer", "putkey", "put",
               "delkey", "delete", "rename", "unlink"} : l \in Locations
  /\ \A op \in {"none", "RETR", "DELE", "RMD", "RNFR", "STOR", "APPE", "STOU", "MKD",
                "RNTO"} : op \in Operations
  BY DEF Locations, Operations

LEMMA NewTypes ==
  /\ NewSession \in NamedState /\ NoFile \in FileState
  /\ \A kind \in {"file", "dir"} : NewFile(kind) \in FileState
  BY Names DEF NewSession, NamedState, SessionState, NoFile, NewFile, FileState

-----------------------------------------------------------------------------
(***************************************************************************)
(* What a step does to one session, and to the file system.                *)
(***************************************************************************)
LEMMA SessionType ==
  ASSUME TypeInv, NEW s \in Session, NEW r \in NamedState, ses' = [ses EXCEPT ![s] = r]
  PROVE  ses' \in [Session -> NamedState]
  BY TypeInvDef

LEMMA GoToType ==
  ASSUME TypeInv, NEW s \in Session, NEW l \in Plain,
         ses[s].pc # "idle", GoTo(s, l)
  PROVE  ses' \in [Session -> NamedState]
<1>1. ses[s] \in NamedState
  BY TypeInvDef
<1>2. [ses[s] EXCEPT !.pc = l] \in NamedState
  BY <1>1 DEF NamedState, SessionState
<1> QED
  BY <1>2, SessionType DEF GoTo

LEMMA DoneType ==
  ASSUME TypeInv, NEW s \in Session, Done(s)
  PROVE  ses' \in [Session -> NamedState]
<1>1. ses[s] \in NamedState
  BY TypeInvDef
<1>2. [ses[s] EXCEPT !.pc = "idle", !.op = "none", !.arg = NoName, !.key = NoInode,
                     !.owner = NoUser] \in NamedState
  BY <1>1, Names DEF NamedState, SessionState
<1> QED
  BY <1>2, SessionType DEF Done

LEMMA ReplyType ==
  ASSUME TypeInv, NEW s \in Session, Reply(s)
  PROVE  ses' \in [Session -> NamedState]
<1>1. ses[s] \in NamedState
  BY TypeInvDef
<1>2. [ses[s] EXCEPT !.pc = "idle", !.op = "none", !.arg = NoName, !.key = NoInode,
                     !.owner = NoUser,
                     !.from = IF ses[s].op = "RNTO" THEN NoName ELSE ses[s].from] \in NamedState
  BY <1>1, Names DEF NamedState, SessionState
<1> QED
  BY <1>2, SessionType, NewTypes DEF Reply

LEMMA StartType ==
  ASSUME TypeInv, NEW s \in Session, NEW op \in Operations, NEW n \in Name,
         NEW key \in Inode \cup {NoInode}, NEW l \in Locations \ {"delete", "put"},
         ses[s].user # NoUser, l = "rename" => ses[s].from # NoName, Start(s, op, n, key, l)
  PROVE  ses' \in [Session -> NamedState]
<1>1. ses[s] \in NamedState
  BY TypeInvDef
<1>2. [ses[s] EXCEPT !.op = op, !.arg = n, !.key = key, !.pc = l] \in NamedState
  BY <1>1 DEF NamedState, SessionState
<1> QED
  BY <1>2, SessionType DEF Start

LEMMA DiskType ==
  ASSUME NEW d, NEW h, NEW f, DirType(d), HandleType(h), FileType(f), Disk(d, h, f)
  PROVE  DirType(dir') /\ HandleType(handle') /\ FileType(file')
  BY NewTypes DEF Disk, DirType, HandleType, FileType

LEMMA CloseType ==
  ASSUME TypeInv, NEW s \in Session, Close(s)
  PROVE  DirType(dir') /\ HandleType(handle') /\ FileType(file')
<1>1. HandleType([handle EXCEPT ![s] = NoInode])
  BY TypeInvDef DEF HandleType
<1> QED
  BY <1>1, DiskType, TypeInvDef DEF Close

\* A name is taken away.
LEMMA UnlinkType ==
  ASSUME TypeInv, NEW n \in Name, Disk([dir EXCEPT ![n] = NoInode], handle, file)
  PROVE  DirType(dir') /\ HandleType(handle') /\ FileType(file')
<1>1. DirType([dir EXCEPT ![n] = NoInode])
  BY TypeInvDef DEF DirType
<1> QED
  BY <1>1, DiskType, TypeInvDef

-----------------------------------------------------------------------------
(***************************************************************************)
(* Type correctness, one lemma per group of actions.                       *)
(***************************************************************************)
LEMMA UnchangedType ==
  ASSUME TypeInv
  PROVE  /\ UNCHANGED dir => DirType(dir')
         /\ UNCHANGED handle => HandleType(handle')
         /\ UNCHANGED file => FileType(file')
         /\ UNCHANGED rec => RecType(rec')
         /\ UNCHANGED ses => ses' \in [Session -> NamedState]
  BY TypeInvDef

\* What the state of a session says of its fields.
LEMMA Fields ==
  ASSUME TypeInv, NEW s \in Session
  PROVE  /\ ses[s] \in NamedState
         /\ ses[s].user \in User \cup {NoUser} /\ ses[s].owner \in User \cup {NoUser}
         /\ ses[s].info.owner \in User \cup {NoUser}
         /\ ses[s].key \in Inode \cup {NoInode}
         /\ ses[s].arg \in Name \cup {NoName} /\ ses[s].from \in Name \cup {NoName}
         /\ ses[s].pc # "idle" => ses[s].arg \in Name /\ ses[s].user \in User
         /\ ses[s].pc = "rename" => ses[s].from \in Name
  BY TypeInvDef DEF NamedState, SessionState

LEMMA CommandType ==
  ASSUME TypeInv, NEW s \in Session,
         \/ \E u \in User : Login(s, u)
         \/ Rein(s)
         \/ RntoRefused(s)
         \/ \E n \in Name :
              \/ \E op \in {"RETR", "DELE", "RMD", "RNFR"} : Inspect(s, op, n)
              \/ \E op \in {"STOR", "APPE", "STOU"} : Upload(s, op, n)
              \/ Mkd(s, n)
              \/ Rnto(s, n)
  PROVE  TypeInv'
<1> USE UnchangedType
<1>1. ASSUME NEW u \in User, Login(s, u) PROVE TypeInv'
  <2>1. [ses[s] EXCEPT !.user = u] \in NamedState
    BY <1>1, Fields DEF NamedState, SessionState, Login
  <2> QED
    BY <1>1, <2>1, SessionType, TypeInvNext DEF Login
<1>2. CASE Rein(s)
  <2>1. [ses[s] EXCEPT !.user = NoUser] \in NamedState
    BY <1>2, Fields DEF NamedState, SessionState, Rein, Ready
  <2> QED
    BY <1>2, <2>1, SessionType, TypeInvNext DEF Rein
<1>3. CASE RntoRefused(s)
  <2>1. [ses[s] EXCEPT !.from = NoName] \in NamedState
    BY <1>3, Fields DEF NamedState, SessionState, RntoRefused, Ready
  <2> QED
    BY <1>3, <2>1, SessionType, TypeInvNext DEF RntoRefused
<1>4. ASSUME NEW n \in Name, NEW op \in {"RETR", "DELE", "RMD", "RNFR"}, Inspect(s, op, n)
      PROVE  TypeInv'
  <2>1. dir[n] \in Inode \cup {NoInode}
    BY TypeInvDef DEF DirType
  <2>2. ses' \in [Session -> NamedState]
    BY <1>4, <2>1, Names, StartType DEF Inspect, Ready
  <2> QED
    BY <1>4, <2>2, TypeInvNext DEF Inspect
<1>5. ASSUME NEW n \in Name, NEW op \in {"STOR", "APPE", "STOU"}, Upload(s, op, n)
      PROVE  TypeInv'
  <2>1. ses' \in [Session -> NamedState]
    BY <1>5, Names, StartType DEF Upload, Ready
  <2> QED
    BY <1>5, <2>1, TypeInvNext DEF Upload
<1>6. ASSUME NEW n \in Name, Mkd(s, n) PROVE TypeInv'
  <2>1. ses' \in [Session -> NamedState]
    BY <1>6, Names, StartType DEF Mkd, Ready
  <2>2. PICK i \in Free :
          Disk([dir EXCEPT ![n] = i], handle, [file EXCEPT ![i] = NewFile("dir")])
    BY <1>6 DEF Mkd
  <2>3. DirType([dir EXCEPT ![n] = i]) /\ FileType([file EXCEPT ![i] = NewFile("dir")])
    BY NewTypes, TypeInvDef DEF Free, DirType, FileType
  <2>4. DirType(dir') /\ HandleType(handle') /\ FileType(file')
    BY <2>2, <2>3, DiskType, TypeInvDef
  <2> QED
    BY <1>6, <2>1, <2>4, TypeInvNext DEF Mkd
<1>7. ASSUME NEW n \in Name, Rnto(s, n) PROVE TypeInv'
  <2>1. ses' \in [Session -> NamedState]
    BY <1>7, Names, StartType DEF Rnto, Ready
  <2> QED
    BY <1>7, <2>1, TypeInvNext DEF Rnto
<1> QED
  BY <1>1, <1>2, <1>3, <1>4, <1>5, <1>6, <1>7

LEMMA DatabaseType ==
  ASSUME TypeInv, NEW s \in Session,
         Get(s) \/ PutKey(s) \/ Put(s) \/ DeleteKey(s) \/ Delete(s)
  PROVE  TypeInv'
<1> USE UnchangedType
<1>1. CASE Get(s)
  <2>1. PICK o \in User \cup {NoUser} :
          CASE ses[s].op = "RETR" ->
                 IF MayRead(ses[s].user, o) THEN GoTo(s, "open") ELSE Done(s)
            [] ses[s].op = "RNFR" ->
                 ses' = [ses EXCEPT ![s] =
                   [@ EXCEPT !.pc = "idle", !.op = "none", !.arg = NoName, !.key = NoInode,
                             !.info = [name |-> ses[s].arg, owner |-> o],
                             !.from = IF MayWrite(ses[s].user, o) THEN ses[s].arg
                                                                  ELSE ses[s].from]]
            [] OTHER ->
                 IF MayWrite(ses[s].user, o) /\ ses[s].user \in Writers
                 THEN ses' = [ses EXCEPT ![s].owner = o, ![s].pc = "delkey"]
                 ELSE Done(s)
    BY <1>1, Fields, TypeInvDef DEF Get, RecType
  <2>2. ses[s].pc = "get"
    BY <1>1 DEF Get
  <2>3. GoTo(s, "open") \/ Done(s) => ses' \in [Session -> NamedState]
    <3>1. "open" \in Plain
      BY Names
    <3> QED
      BY <2>2, <3>1, GoToType, DoneType
  <2>4. [ses[s] EXCEPT !.pc = "idle", !.op = "none", !.arg = NoName, !.key = NoInode,
                       !.info = [name |-> ses[s].arg, owner |-> o],
                       !.from = IF MayWrite(ses[s].user, o) THEN ses[s].arg
                                                            ELSE ses[s].from] \in NamedState
    BY Fields, Names DEF NamedState, SessionState
  <2>5. [ses[s] EXCEPT !.owner = o, !.pc = "delkey"] \in NamedState
    <3>1. [ses[s] EXCEPT !.owner = o, !.pc = "delkey"] \in SessionState
      BY Fields, Names DEF NamedState, SessionState
    <3> QED
      BY <2>2, <3>1, Fields DEF NamedState, SessionState
  <2>6. ses' \in [Session -> NamedState]
    <3>1. CASE ses[s].op = "RETR"
      BY <2>1, <2>3, <3>1
    <3>2. CASE ses[s].op = "RNFR"
      BY <2>1, <2>4, <3>2, SessionType
    <3>3. CASE ses[s].op \notin {"RETR", "RNFR"}
      <4>1. \/ ses' = [ses EXCEPT ![s].owner = o, ![s].pc = "delkey"]
            \/ Done(s)
        BY <2>1, <3>3
      <4>2. ses' = [ses EXCEPT ![s].owner = o, ![s].pc = "delkey"]
              => ses' = [ses EXCEPT ![s] = [ses[s] EXCEPT !.owner = o, !.pc = "delkey"]]
        BY TypeInvDef
      <4> QED
        BY <2>3, <2>5, <4>1, <4>2, SessionType
    <3> QED
      BY <3>1, <3>2, <3>3
  <2> QED
    BY <1>1, <2>6, TypeInvNext DEF Get
<1>2. CASE PutKey(s)
  <2>1. dir[ses[s].arg] \in Inode \cup {NoInode} /\ ses[s].pc = "putkey"
    BY <1>2, Fields, TypeInvDef DEF PutKey, DirType
  <2>2. dir[ses[s].arg] # NoInode
        => [ses[s] EXCEPT !.key = dir[ses[s].arg], !.pc = "put"] \in NamedState
    BY <2>1, Fields, Names DEF NamedState, SessionState
  <2>3. ses' \in [Session -> NamedState]
    <3>1. CASE Reply(s)
      BY <3>1, ReplyType
    <3>2. CASE /\ ses' = [ses EXCEPT ![s].key = dir[ses[s].arg], ![s].pc = "put"]
               /\ dir[ses[s].arg] # NoInode
      <4>1. ses' = [ses EXCEPT ![s] = [ses[s] EXCEPT !.key = dir[ses[s].arg], !.pc = "put"]]
        BY <3>2, TypeInvDef
      <4>2. [ses[s] EXCEPT !.key = dir[ses[s].arg], !.pc = "put"] \in NamedState
        BY <2>2, <3>2
      <4> QED
        BY <4>1, <4>2, SessionType
    <3> QED
      BY <1>2, <3>1, <3>2 DEF PutKey
  <2> QED
    BY <1>2, <2>3, TypeInvNext DEF PutKey
<1>3. CASE Put(s)
  <2>1. NewOwner(ses[s]) \in User \cup {NoUser}
    BY Fields DEF NewOwner
  <2>2. RecType(rec')
    BY <1>3, <2>1, TypeInvDef DEF Put, RecType
  <2>3. FileType(file')
    BY <1>3, Fields, TypeInvDef DEF Put, FileType, FileState
  <2> QED
    BY <1>3, <2>2, <2>3, ReplyType, TypeInvNext DEF Put
<1>4. CASE DeleteKey(s)
  <2> DEFINE key == IF ses[s].op # "RNTO" THEN dir[ses[s].arg]
                    ELSE IF ses[s].info.name = NoName THEN NoInode
                    ELSE dir[ses[s].info.name]
  <2>1. ses[s].arg \in Name /\ ses[s].info.name \in Name \cup {NoName}
    BY <1>4, Fields DEF DeleteKey, NamedState, SessionState
  <2>2. key \in Inode \cup {NoInode}
    BY <2>1, TypeInvDef DEF DirType
  <2>3. ses' = [ses EXCEPT ![s].key = key,
                           ![s].pc = IF key = NoInode THEN "unlink" ELSE "delete"]
    BY <1>4 DEF DeleteKey
  <2> HIDE DEF key
  <2>4. [ses[s] EXCEPT !.key = key, !.pc = IF key = NoInode THEN "unlink" ELSE "delete"]
          \in NamedState
    <3>1. (IF key = NoInode THEN "unlink" ELSE "delete") \in Locations \ {"idle", "rename", "put"}
      BY Names
    <3> QED
      <4>1. SUFFICES ASSUME NEW l \in Locations \ {"idle", "rename", "put"},
                            l = "delete" => key # NoInode
                     PROVE  [ses[s] EXCEPT !.key = key, !.pc = l] \in NamedState
        BY <3>1
      <4>2. ses[s].pc # "idle"
        BY <1>4 DEF DeleteKey
      <4>3. [ses[s] EXCEPT !.key = key, !.pc = l] \in SessionState
        BY <2>2, Fields DEF NamedState, SessionState
      <4>4. l = "delete" => key \in Inode
        BY <2>2, <4>1
      <4> QED
        BY <4>2, <4>3, <4>4, Fields DEF NamedState, SessionState
  <2>5. ses' \in [Session -> NamedState]
    <3>1. ses' = [ses EXCEPT ![s] = [ses[s] EXCEPT
                    !.key = key, !.pc = IF key = NoInode THEN "unlink" ELSE "delete"]]
      BY <2>3, TypeInvDef
    <3> QED
      BY <2>4, <3>1, SessionType
  <2> QED
    BY <1>4, <2>5, TypeInvNext DEF DeleteKey
<1>5. CASE Delete(s)
  <2>1. ses' \in [Session -> NamedState]
    BY <1>5, Names, GoToType DEF Delete
  <2>2. RecType(rec')
    BY <1>5, TypeInvDef DEF Delete, RecType
  <2> QED
    BY <1>5, <2>1, <2>2, TypeInvNext DEF Delete
<1> QED
  BY <1>1, <1>2, <1>3, <1>4, <1>5

LEMMA SystemType ==
  ASSUME TypeInv, NEW s \in Session,
         \/ OpenToRead(s) \/ OpenToWrite(s) \/ Connect(s)
         \/ Receive(s) \/ Transferred(s) \/ Aborted(s)
         \/ Rename(s) \/ Remove(s) \/ UnlinkFrom(s) \/ End(s)
  PROVE  TypeInv'
<1> USE UnchangedType
<1>1. CASE OpenToRead(s)
  <2>1. ses[s].arg \in Name /\ ses[s].pc # "idle" /\ "connect" \in Plain
    BY <1>1, Fields, Names DEF OpenToRead
  <2>2. HandleType(handle')
    BY <1>1, <2>1, TypeInvDef DEF OpenToRead, HandleType, DirType
  <2>3. ses' \in [Session -> NamedState]
    BY <1>1, <2>1, GoToType, DoneType DEF OpenToRead
  <2> QED
    BY <1>1, <2>2, <2>3, TypeInvNext DEF OpenToRead
<1>2. CASE OpenToWrite(s)
  <2> DEFINE n == ses[s].arg
  <2>1. n \in Name /\ ses[s].pc # "idle" /\ "connect" \in Plain
    BY <1>2, Fields, Names DEF OpenToWrite
  <2>2. ses' \in [Session -> NamedState]
    BY <1>2, <2>1, GoToType, DoneType DEF OpenToWrite
  <2>3. ASSUME NEW i \in Free,
               Disk([dir EXCEPT ![n] = i], [handle EXCEPT ![s] = i],
                    [file EXCEPT ![i] = NewFile("file")])
        PROVE  DirType(dir') /\ HandleType(handle') /\ FileType(file')
    <3>1. /\ DirType([dir EXCEPT ![n] = i]) /\ HandleType([handle EXCEPT ![s] = i])
          /\ FileType([file EXCEPT ![i] = NewFile("file")])
      BY NewTypes, TypeInvDef DEF Free, DirType, FileType, HandleType
    <3> QED
      BY <2>3, <3>1, DiskType
  <2>4. HandleType([handle EXCEPT ![s] = dir[n]])
    BY <2>1, TypeInvDef DEF DirType, HandleType
  <2>5. FileType([file EXCEPT ![dir[n]] = NewFile("file")])
    BY NewTypes, TypeInvDef DEF FileType
  <2>6. Disk(dir, [handle EXCEPT ![s] = dir[n]], [file EXCEPT ![dir[n]] = NewFile("file")])
          => DirType(dir') /\ HandleType(handle') /\ FileType(file')
    BY <2>4, <2>5, DiskType, TypeInvDef
  <2>7. Disk(dir, [handle EXCEPT ![s] = dir[n]], file)
          => DirType(dir') /\ HandleType(handle') /\ FileType(file')
    BY <2>4, DiskType, TypeInvDef
  <2>8. DirType(dir') /\ HandleType(handle') /\ FileType(file')
    BY <1>2, <2>3, <2>6, <2>7 DEF OpenToWrite
  <2> QED
    BY <1>2, <2>2, <2>8, TypeInvNext DEF OpenToWrite
<1>3. CASE Connect(s) \/ Transferred(s) \/ Aborted(s)
  <2>1. {"transfer", "putkey"} \subseteq Plain /\ ses[s].pc # "idle"
    BY <1>3, Names DEF Connect, Transferred, Aborted
  <2>2. ses' \in [Session -> NamedState]
    BY <1>3, <2>1, GoToType, DoneType DEF Connect, Transferred, Aborted
  <2>3. DirType(dir') /\ HandleType(handle') /\ FileType(file')
    BY <1>3, CloseType DEF Connect, Transferred, Aborted
  <2> QED
    BY <1>3, <2>2, <2>3, TypeInvNext DEF Connect, Transferred, Aborted
<1>4. CASE Receive(s)
  <2>1. ses[s].user \in User
    BY <1>4, Fields DEF Receive
  <2> DEFINE i == handle[s]
             authors == file[i].authors \cup {ses[s].user}
  <2>2. ASSUME i \in Inode PROVE [file[i] EXCEPT !.authors = authors] \in FileState
    BY <2>1, <2>2, TypeInvDef DEF FileType, FileState
  <2>3. file' = [file EXCEPT ![i] = [file[i] EXCEPT !.authors = authors]]
    BY <1>4, TypeInvDef DEF Receive, FileType
  <2>4. FileType(file')
    BY <2>2, <2>3, TypeInvDef DEF FileType
  <2> QED
    BY <1>4, <2>4, TypeInvNext DEF Receive
<1>5. CASE Rename(s)
  <2>1. ses[s].arg \in Name /\ ses[s].from \in Name /\ "delkey" \in Plain
        /\ ses[s].pc # "idle"
    BY <1>5, Fields, Names DEF Rename
  <2>2. DirType(IF ses[s].from = ses[s].arg THEN dir
                ELSE [dir EXCEPT ![ses[s].from] = NoInode, ![ses[s].arg] = dir[ses[s].from]])
    BY <2>1, TypeInvDef DEF DirType
  <2>3. DirType(dir') /\ HandleType(handle') /\ FileType(file')
    BY <1>5, <2>2, DiskType, TypeInvDef DEF Rename
  <2>4. [ses[s] EXCEPT !.pc = "idle", !.op = "none", !.arg = NoName, !.from = NoName]
          \in NamedState
    BY Fields, Names DEF NamedState, SessionState
  <2>5. ses' \in [Session -> NamedState]
    BY <1>5, <2>1, <2>4, GoToType, SessionType DEF Rename
  <2> QED
    BY <1>5, <2>3, <2>5, TypeInvNext DEF Rename
<1>6. CASE Remove(s)
  <2>1. ses[s].arg \in Name /\ "putkey" \in Plain /\ ses[s].pc # "idle"
    BY <1>6, Fields, Names DEF Remove
  <2>2. ses' \in [Session -> NamedState]
    BY <1>6, <2>1, GoToType, DoneType DEF Remove
  <2>3. DirType(dir') /\ HandleType(handle') /\ FileType(file')
    BY <1>6, <2>1, UnlinkType DEF Remove
  <2> QED
    BY <1>6, <2>2, <2>3, TypeInvNext DEF Remove
<1>7. CASE UnlinkFrom(s)
  <2>1. ses[s].arg \in Name
    BY <1>7, Fields DEF UnlinkFrom
  <2>2. [ses[s] EXCEPT !.info.name = ses[s].arg, !.pc = "putkey"] \in NamedState
    BY <1>7, <2>1, Fields, Names DEF NamedState, SessionState, UnlinkFrom
  <2>3. ses' = [ses EXCEPT ![s] = [ses[s] EXCEPT !.info.name = ses[s].arg, !.pc = "putkey"]]
    BY <1>7, TypeInvDef DEF UnlinkFrom
  <2>4. ses' \in [Session -> NamedState]
    BY <2>2, <2>3, SessionType
  <2>5. ses[s].from \in Name \/ [dir EXCEPT ![ses[s].from] = NoInode] = dir
    BY TypeInvDef DEF DirType
  <2>6. DirType(dir') /\ HandleType(handle') /\ FileType(file')
    BY <1>7, <2>5, UnlinkType, DiskType, TypeInvDef DEF UnlinkFrom
  <2> QED
    BY <1>7, <2>4, <2>6, TypeInvNext DEF UnlinkFrom
<1>8. CASE End(s)
  <2>1. ses' \in [Session -> NamedState]
    BY <1>8, NewTypes, SessionType DEF End
  <2> QED
    BY <1>8, <2>1, CloseType, TypeInvNext DEF End
<1> QED
  BY <1>1, <1>2, <1>3, <1>4, <1>5, <1>6, <1>7, <1>8

LEMMA TypeInit == Init => TypeInv
  BY NewTypes, TypeInvDef DEF Init, DirType, HandleType, FileType, RecType

LEMMA TypeNext == TypeInv /\ [Next]_vars => TypeInv'
<1> SUFFICES ASSUME TypeInv, [Next]_vars PROVE TypeInv'
  OBVIOUS
<1>1. CASE UNCHANGED vars
  BY <1>1, UnchangedType, TypeInvNext DEF vars
<1>2. ASSUME NEW s \in Session, Step(s) PROVE TypeInv'
  BY <1>2, DatabaseType, SystemType DEF Step
<1> QED
  BY <1>1, <1>2, CommandType, SystemType DEF Next

\* Whatever the clients do and whatever fails, every variable of FileCommands keeps its
\* type: a command that runs (ftpcommands.cpp) has its argument, RNTO its old name.
THEOREM TypeCorrect == Spec => []TypeOK
<1>1. TypeInv => TypeOK
  BY DEF TypeInv
<1> QED
  BY <1>1, TypeInit, TypeNext, PTL DEF Spec

-----------------------------------------------------------------------------
(***************************************************************************)
(* What the building blocks of the actions do to the state.                *)
(***************************************************************************)
\* No file becomes somebody's by a step, and its i-node keeps its user until it is freed.
SealsKept == \A i \in Inode : file'[i].sealed \in {NoUser, file[i].sealed}

\* A record that s must see to: the file is there, or no longer there.
Concern(s, i) ==
  Changing(s) /\ ses[s].pc \in {"unlink", "putkey", "put"} /\ Subject(s) = i

SesFrame(s) == \A t \in Session \ {s} : ses'[t] = ses[t]

\* s keeps what it knows of its user and of the file that it renames.
Keeps(s) == /\ ses'[s].user = ses[s].user /\ ses'[s].from = ses[s].from
            /\ ses'[s].info = ses[s].info /\ ses'[s].owner = ses[s].owner

LEMMA GoToEffect ==
  ASSUME TypeInv, NEW s \in Session, NEW l, GoTo(s, l)
  PROVE  /\ SesFrame(s) /\ Keeps(s) /\ ses'[s].pc = l
         /\ ses'[s].op = ses[s].op /\ ses'[s].arg = ses[s].arg /\ ses'[s].key = ses[s].key
<1>1. ses[s] \in SessionState
  BY Fields DEF NamedState
<1>2. SesFrame(s) /\ ses'[s] = [ses[s] EXCEPT !.pc = l]
  BY TypeInvDef DEF GoTo, SesFrame
<1> QED
  BY <1>1, <1>2 DEF Keeps, SessionState

LEMMA StartEffect ==
  ASSUME TypeInv, NEW s \in Session, NEW op, NEW n, NEW key, NEW l, Start(s, op, n, key, l)
  PROVE  /\ SesFrame(s) /\ Keeps(s) /\ ses'[s].pc = l
         /\ ses'[s].op = op /\ ses'[s].arg = n /\ ses'[s].key = key
<1>1. ses[s] \in SessionState
  BY Fields DEF NamedState
<1>2. SesFrame(s) /\ ses'[s] = [ses[s] EXCEPT !.op = op, !.arg = n, !.key = key, !.pc = l]
  BY TypeInvDef DEF Start, SesFrame
<1> QED
  BY <1>1, <1>2 DEF Keeps, SessionState

LEMMA DoneEffect ==
  ASSUME TypeInv, NEW s \in Session, Done(s)
  PROVE  /\ SesFrame(s) /\ ses'[s].pc = "idle" /\ ses'[s].op = "none"
         /\ ses'[s].from = ses[s].from
<1>1. ses[s] \in SessionState
  BY Fields DEF NamedState
<1>2. /\ SesFrame(s)
      /\ ses'[s] = [ses[s] EXCEPT !.pc = "idle", !.op = "none", !.arg = NoName,
                                  !.key = NoInode, !.owner = NoUser]
  BY TypeInvDef DEF Done, SesFrame
<1> QED
  BY <1>1, <1>2 DEF SessionState

LEMMA ReplyEffect ==
  ASSUME TypeInv, NEW s \in Session, Reply(s)
  PROVE  /\ SesFrame(s) /\ ses'[s].pc = "idle" /\ ses'[s].op = "none"
         /\ ses'[s].from \in {NoName, ses[s].from}
         /\ ses[s].op = "RNTO" => ses'[s].from = NoName
<1> DEFINE r == [ses[s] EXCEPT !.pc = "idle", !.op = "none", !.arg = NoName, !.key = NoInode,
                               !.owner = NoUser,
                               !.from = IF ses[s].op = "RNTO" THEN NoName ELSE ses[s].from]
<1>1. ses[s] \in SessionState
  BY Fields DEF NamedState
<1>2. SesFrame(s) /\ (ses'[s] = r \/ ses'[s] = NewSession)
  BY TypeInvDef DEF Reply, SesFrame
<1>3. NewSession.pc = "idle" /\ NewSession.op = "none" /\ NewSession.from = NoName
  BY DEF NewSession
<1>4. r.pc = "idle" /\ r.op = "none" /\ r.from = IF ses[s].op = "RNTO" THEN NoName ELSE ses[s].from
  BY <1>1 DEF SessionState
<1> QED
  BY <1>2, <1>3, <1>4

\* The file system: where the names and the handles lead, and which files are gone.
LEMMA DiskEffect ==
  ASSUME TypeInv, NEW d, NEW h, NEW f, FileType(f), Disk(d, h, f),
         \A i \in Inode : f[i].sealed \in {NoUser, file[i].sealed}
  PROVE  /\ dir' = d /\ handle' = h /\ SealsKept
         /\ \A i \in Inode \ (Range(d) \cup Range(h)) : file'[i].sealed = NoUser
<1>1. NoFile.sealed = NoUser
  BY DEF NoFile
<1> QED
  BY <1>1 DEF Disk, SealsKept

LEMMA CloseEffect ==
  ASSUME TypeInv, NEW s \in Session, Close(s)
  PROVE  /\ dir' = dir /\ SealsKept /\ handle'[s] = NoInode
         /\ \A t \in Session \ {s} : handle'[t] = handle[t]
         /\ \A i \in Inode \ (Range(dir') \cup Range(handle')) : file'[i].sealed = NoUser
<1>1. FileType(file)
  BY TypeInvDef
<1>2. /\ dir' = dir /\ handle' = [handle EXCEPT ![s] = NoInode] /\ SealsKept
      /\ \A i \in Inode \ (Range(dir') \cup Range(handle')) : file'[i].sealed = NoUser
  BY <1>1, DiskEffect DEF Close
<1> QED
  BY <1>2, TypeInvDef DEF HandleType

\* A name that is not free belongs to an i-node.
LEMMA Bound ==
  ASSUME TypeInv, NEW n \in Name
  PROVE  /\ dir[n] \in Inode \cup {NoInode}
         /\ Kind(n) # "none" => dir[n] \in Inode
  BY TypeInvDef DEF Kind, DirType

LEMMA FreeEffect ==
  ASSUME TypeInv, NEW i \in Free
  PROVE  i \in Inode /\ \A n \in Name : dir[n] # i
  BY TypeInvDef DEF Free, Range, DirType

-----------------------------------------------------------------------------
(***************************************************************************)
(* Commands that overlap, of clients that make changes under names of      *)
(* their own and do not rename.  The others may be anywhere in a command,  *)
(* but a step of s changes only its own handle and its own names, so that  *)
(* nothing the others have read of THEIR names is stale.                   *)
(***************************************************************************)
OwnNames ==
  /\ \A s, t \in Session : s # t => MayName[s] \cap MayName[t] = {}
  /\ "RNFR" \notin Commands /\ "RNTO" \notin Commands

HandleFrame(s) == \A t \in Session \ {s} : handle'[t] = handle[t]
Local(s) == /\ SesFrame(s) /\ HandleFrame(s)
            /\ \A n \in Name \ MayName[s] : dir'[n] = dir[n]

\* A finished file that somebody had open is still there.
Stays == \A i \in Inode : i \in Range(handle) /\ file'[i].sealed # NoUser
                            => i \in Range(dir') \cup Range(handle')

\* What each step has to keep, and which faults it may meet while it does.
RecordsKept == RecordsInv /\ "delete" \notin Faults => RecordsInv'
AgreeKept == AgreeInv /\ "put" \notin Faults /\ "kill" \notin Faults => AgreeInv'

LEMMA Ranges ==
  ASSUME TypeInv
  PROVE  /\ \A i : i \in Range(dir) <=> \E n \in Name : dir[n] = i
         /\ \A i : i \in Range(handle) <=> \E t \in Session : handle[t] = i
  BY TypeInvDef DEF Range, DirType, HandleType

LEMMA RangesNext ==
  ASSUME TypeInv'
  PROVE  /\ \A i : i \in Range(dir') <=> \E n \in Name : dir'[n] = i
         /\ \A i : i \in Range(handle') <=> \E t \in Session : handle'[t] = i
  BY TypeInvNext DEF Range, DirType, HandleType

LEMMA OwnedNames == \A s \in Session : MayName[s] \subseteq Name
  BY ClientAssumption

\* What a command that changes something works on is bound to its own name.
LEMMA OwnSubject ==
  ASSUME TypeInv, NEW t \in Session, Apart(t), Changing(t)
  PROVE  ses[t].arg \in MayName[t] /\ Subject(t) = dir[ses[t].arg]
  BY DEF Apart, Changing, Subject

LEMMA Others ==
  ASSUME OwnNames, TypeInv, NEW s \in Session, Local(s), NEW t \in Session \ {s}, Apart(t)
  PROVE  /\ Apart(t)' /\ (Changing(t)' <=> Changing(t))
         /\ Changing(t) => Subject(t)' = Subject(t)
         /\ ses[t].pc = "unlink" => dir'[ses[t].arg] = dir[ses[t].arg]
<1>1. ses'[t] = ses[t] /\ handle'[t] = handle[t]
  BY DEF Local, SesFrame, HandleFrame
<1>2. ses[t].op \notin {"none", "RETR"} => dir'[ses[t].arg] = dir[ses[t].arg]
  BY OwnedNames DEF OwnNames, Local, Apart
<1>3. Apart(t)'
  BY <1>1, <1>2 DEF Apart
<1>4. (Changing(t)' <=> Changing(t)) /\ (Changing(t) => Subject(t)' = Subject(t))
  BY <1>1, <1>2 DEF Changing, Subject
<1>5. ses[t].pc = "unlink" => dir'[ses[t].arg] = dir[ses[t].arg]
  BY <1>2 DEF Apart
<1> QED
  BY <1>3, <1>4, <1>5

\* Nobody else works on a file that has a name of s.
LEMMA NotTheirs ==
  ASSUME OwnNames, TypeInv, OneName, NEW s \in Session, NEW t \in Session \ {s}, Apart(t),
         NEW n \in MayName[s], dir[n] # NoInode
  PROVE  /\ Changing(t) => Subject(t) # dir[n]
         /\ ses[t].pc = "unlink" => dir[ses[t].arg] # dir[n]
<1>1. ses[t].op \notin {"none", "RETR"} => dir[ses[t].arg] # dir[n]
  BY OwnedNames DEF OwnNames, OneName, Apart
<1> QED
  BY <1>1, OwnSubject DEF Apart, Changing

(***************************************************************************)
(* What is left to show of a step of s.                                    *)
(***************************************************************************)
LEMMA ApartStep ==
  ASSUME OwnNames, ApartInv, TypeInv, TypeInv', NEW s \in Session, Local(s), OneName', Apart(s)'
  PROVE  ApartInv'
<1>1. \A t \in Session : Apart(t)'
  BY Others DEF ApartInv
<1> QED
  BY <1>1 DEF ApartInv, TypeInv

LEMMA RecordsStep ==
  ASSUME OwnNames, RecordsInv, TypeInv, ApartInv', NEW s \in Session, Local(s), Unrecorded(s)',
         \A i \in Inode : rec'[i] # NoUser => i \in Range(dir'),
         \A i \in Inode : rec'[i] \in {rec[i], NoUser} \/ \E n \in MayName[s] : dir[n] = i
  PROVE  RecordsInv'
<1>1. ApartInv /\ OneName
  BY DEF RecordsInv, ApartInv
<1>2. ASSUME NEW t \in Session \ {s} PROVE Unrecorded(t)'
  <2>1. Apart(t) /\ Unrecorded(t)
    BY DEF RecordsInv, ApartInv
  <2>2. ses'[t] = ses[t]
    BY DEF Local, SesFrame
  <2>3. SUFFICES ASSUME ses[t].pc = "unlink", dir'[ses[t].arg] # NoInode
                 PROVE  rec'[dir'[ses[t].arg]] = NoUser
    BY <2>2 DEF Unrecorded
  <2>4. dir'[ses[t].arg] = dir[ses[t].arg] /\ ses[t].arg \in Name
    BY <2>1, <2>3, Others, Fields
  <2>5. dir[ses[t].arg] \in Inode /\ rec[dir[ses[t].arg]] = NoUser
    BY <2>1, <2>3, <2>4, Bound DEF Unrecorded
  <2>6. \A n \in MayName[s] : dir[n] # dir[ses[t].arg]
    BY <1>1, <2>1, <2>3, <2>4, NotTheirs
  <2> QED
    BY <2>4, <2>5, <2>6
<1> QED
  BY <1>2 DEF RecordsInv

LEMMA AgreeStep ==
  ASSUME OwnNames, AgreeInv, TypeInv, ApartInv', NEW s \in Session, Local(s), Entitled(s)',
         \A i \in Inode : \/ file'[i].sealed \in {NoUser, file[i].sealed}
                          \/ \E n \in MayName[s] : dir[n] = i,
         \A i \in Inode : file'[i].sealed # NoUser =>
            \/ rec'[i] = file'[i].sealed
            \/ Concern(s, i)'
            \/ i \in Range(handle') \ Range(dir')
            \/ /\ rec'[i] = rec[i] /\ file'[i].sealed = file[i].sealed /\ ~Concern(s, i)
               /\ i \in Range(handle) \ Range(dir) => i \in Range(handle') \ Range(dir')
  PROVE  AgreeInv'
<1>1. /\ ApartInv /\ OneName /\ RecordedOrGone
      /\ \A t \in Session : Apart(t) /\ Entitled(t)
  BY DEF AgreeInv, ApartInv
<1>2. ASSUME NEW t \in Session \ {s}
      PROVE  Entitled(t)' /\ \A i \in Inode : Concern(t, i) => Concern(t, i)'
  <2>1. ses'[t] = ses[t]
    BY DEF Local, SesFrame
  <2>2. (Changing(t)' <=> Changing(t)) /\ (Changing(t) => Subject(t)' = Subject(t))
    BY <1>1, Others
  <2>3. CASE ~Changing(t)
    BY <2>2, <2>3 DEF Entitled, Concern
  <2>4. CASE Changing(t)
    <3>1. ses[t].arg \in Name /\ Subject(t) = dir[ses[t].arg]
      BY <1>1, <2>4, OwnSubject, OwnedNames
    <3>2. Subject(t) \in Inode \cup {NoInode}
      BY <3>1, Bound
    <3>3. \A n \in MayName[s] : Subject(t) # NoInode => dir[n] # Subject(t)
      BY <1>1, <2>4, NotTheirs
    <3>4. Subject(t) # NoInode => file'[Subject(t)].sealed \in {NoUser, file[Subject(t)].sealed}
      BY <3>2, <3>3
    <3>5. Entitled(t)'
      BY <1>1, <2>1, <2>2, <2>4, <3>4 DEF Entitled
    <3>6. \A i \in Inode : Concern(t, i) => Concern(t, i)'
      BY <2>1, <2>2, <2>4 DEF Concern
    <3> QED
      BY <3>5, <3>6
  <2> QED
    BY <2>3, <2>4
<1>3. ASSUME NEW i \in Inode, file'[i].sealed # NoUser
      PROVE  \/ rec'[i] = file'[i].sealed
             \/ \E t \in Session : Concern(t, i)'
             \/ i \in Range(handle') \ Range(dir')
  <2>1. SUFFICES ASSUME rec'[i] = rec[i], file'[i].sealed = file[i].sealed, ~Concern(s, i),
                        i \in Range(handle) \ Range(dir) => i \in Range(handle') \ Range(dir')
                 PROVE  \/ rec'[i] = file'[i].sealed
                        \/ \E t \in Session : Concern(t, i)'
                        \/ i \in Range(handle') \ Range(dir')
    BY <1>3
  <2>2. \/ rec[i] = file[i].sealed
        \/ \E t \in Session : Concern(t, i)
        \/ i \in Range(handle) \ Range(dir)
    BY <1>1, <1>3, <2>1 DEF RecordedOrGone, Concern
  <2> QED
    BY <1>2, <2>1, <2>2
<1>4. RecordedOrGone'
  BY <1>3 DEF RecordedOrGone, Concern
<1> QED
  BY <1>2, <1>4 DEF AgreeInv

\* A step that changes no name and no record, and finishes no file.
LEMMA Still ==
  ASSUME OwnNames, ApartInv, TypeInv, TypeInv', NEW s \in Session, SesFrame(s), HandleFrame(s),
         UNCHANGED <<dir, rec>>, SealsKept, Stays, Apart(s)'
  PROVE  /\ ApartInv'
         /\ RecordsInv /\ Unrecorded(s)' => RecordsInv'
         /\ AgreeInv /\ Entitled(s)' /\ (\A i \in Inode : Concern(s, i) => Concern(s, i)')
              => AgreeInv'
<1>1. Local(s)
  BY DEF Local
<1>2. OneName'
  BY DEF ApartInv, OneName
<1>3. ApartInv'
  BY <1>1, <1>2, ApartStep
<1>4. ASSUME RecordsInv, Unrecorded(s)' PROVE RecordsInv'
  <2>1. \A i \in Inode : rec'[i] # NoUser => i \in Range(dir')
    BY <1>4 DEF RecordsInv
  <2> QED
    BY <1>1, <1>3, <1>4, <2>1, RecordsStep
<1>5. ASSUME AgreeInv, Entitled(s)', \A i \in Inode : Concern(s, i) => Concern(s, i)'
      PROVE  AgreeInv'
  <2>1. ASSUME NEW i \in Inode, file'[i].sealed # NoUser
        PROVE  \/ Concern(s, i)'
               \/ /\ rec'[i] = rec[i] /\ file'[i].sealed = file[i].sealed /\ ~Concern(s, i)
                  /\ i \in Range(handle) \ Range(dir) => i \in Range(handle') \ Range(dir')
    BY <1>5, <2>1 DEF SealsKept, Stays
  <2> QED
    BY <1>1, <1>3, <1>5, <2>1, AgreeStep DEF SealsKept
<1> QED
  BY <1>3, <1>4, <1>5

\* The same for a step after which s has no command.
LEMMA Rest ==
  ASSUME OwnNames, ApartInv, TypeInv, TypeInv', NEW s \in Session, SesFrame(s), HandleFrame(s),
         UNCHANGED <<dir, rec>>, SealsKept, Stays, handle'[s] = NoInode,
         ses'[s].pc = "idle", ses'[s].from = NoName,
         ses'[s].op = "none" \/ (ses'[s].op = ses[s].op /\ ses'[s].arg = ses[s].arg)
  PROVE  /\ ApartInv' /\ RecordsKept
         /\ (\A i \in Inode : ~Concern(s, i)) => AgreeKept
<1>1. Apart(s)
  BY DEF ApartInv
<1>2. Apart(s)' /\ Unrecorded(s)' /\ Entitled(s)'
  BY <1>1 DEF Apart, Unrecorded, Entitled, Changing
<1> QED
  BY <1>2, Still DEF RecordsKept, AgreeKept

LEMMA FramesOf ==
  ASSUME NEW s \in Session
  PROVE  /\ UNCHANGED handle => HandleFrame(s)
         /\ UNCHANGED file => SealsKept
         /\ UNCHANGED <<dir, handle>> => Stays
  BY DEF HandleFrame, SealsKept, Stays

\* Closing a file leaves every other file that was open.
LEMMA CloseStays ==
  ASSUME TypeInv, NEW s \in Session, Close(s)
  PROVE  UNCHANGED dir /\ SealsKept /\ HandleFrame(s) /\ handle'[s] = NoInode /\ Stays
  BY CloseEffect DEF HandleFrame, Stays

-----------------------------------------------------------------------------
(***************************************************************************)
(* The actions, for commands that overlap.                                 *)
(***************************************************************************)
LEMMA ApartBetween ==
  ASSUME OwnNames, ApartInv, TypeInv, TypeInv', NEW s \in Session,
         (\E u \in User : Login(s, u)) \/ Rein(s) \/ RntoRefused(s) \/ End(s)
  PROVE  ApartInv' /\ RecordsKept /\ AgreeKept
<1>1. Apart(s) /\ ses[s] \in SessionState
  BY Fields DEF ApartInv, NamedState
<1>2. (\E u \in User : Login(s, u)) \/ Rein(s) \/ End(s)
  BY DEF RntoRefused, Ready, OwnNames
<1>3. CASE End(s)
  <2>1. ses' = [ses EXCEPT ![s] = NewSession] /\ Close(s) /\ UNCHANGED rec
    BY <1>3 DEF End
  <2>2. SesFrame(s) /\ ses'[s] = NewSession
    BY <2>1, TypeInvDef DEF SesFrame
  <2>3. ses'[s].pc = "idle" /\ ses'[s].from = NoName /\ ses'[s].op = "none"
    BY <2>2 DEF NewSession
  <2>4. ApartInv' /\ RecordsKept /\ ((\A i \in Inode : ~Concern(s, i)) => AgreeKept)
    BY <2>1, <2>2, <2>3, CloseStays, Rest
  <2>5. "kill" \notin Faults => \A i \in Inode : ~Concern(s, i)
    BY <1>3 DEF End, Concern
  <2> QED
    BY <2>4, <2>5 DEF AgreeKept
<1>4. CASE (\E u \in User : Login(s, u)) \/ Rein(s)
  <2>1. PICK u \in User \cup {NoUser} : ses' = [ses EXCEPT ![s].user = u]
    BY <1>4 DEF Login, Rein
  <2>2. ses[s].pc = "idle" /\ UNCHANGED <<dir, file, handle, rec>>
    BY <1>4 DEF Login, Rein, Ready
  <2>3. SesFrame(s) /\ ses'[s] = [ses[s] EXCEPT !.user = u]
    BY <2>1, TypeInvDef DEF SesFrame
  <2>4. /\ ses'[s].pc = ses[s].pc /\ ses'[s].from = ses[s].from
        /\ ses'[s].op = ses[s].op /\ ses'[s].arg = ses[s].arg
    BY <1>1, <2>3 DEF SessionState
  <2>5. handle[s] = NoInode /\ ses[s].from = NoName /\ \A i \in Inode : ~Concern(s, i)
    BY <1>1, <2>2 DEF Apart, Concern
  <2> QED
    BY <2>2, <2>3, <2>4, <2>5, FramesOf, Rest
<1> QED
  BY <1>2, <1>3, <1>4

LEMMA ApartStart ==
  ASSUME OwnNames, ApartInv, TypeInv, TypeInv', NEW s \in Session, NEW n \in Name,
         \/ \E op \in {"RETR", "DELE", "RMD", "RNFR"} : Inspect(s, op, n)
         \/ \E op \in {"STOR", "APPE", "STOU"} : Upload(s, op, n)
         \/ Rnto(s, n)
  PROVE  ApartInv' /\ RecordsKept /\ AgreeKept
<1>1. Apart(s)
  BY DEF ApartInv
<1>2. PICK op \in {"RETR", "DELE", "RMD", "STOR", "APPE", "STOU"},
           key \in Inode \cup {NoInode}, l \in {"get", "open"} :
        /\ Start(s, op, n, key, l)
        /\ op # "RETR" => n \in MayName[s]
        /\ l = "get" => key = dir[n] /\ op \in {"RETR", "DELE", "RMD"}
        /\ l = "open" => op \in {"STOR", "APPE", "STOU"}
        /\ ses[s].pc = "idle" /\ UNCHANGED <<dir, file, handle, rec>>
  <2>1. ~Rnto(s, n) /\ ~Inspect(s, "RNFR", n)
    BY DEF Rnto, Inspect, Ready, OwnNames
  <2>2. CASE \E op \in {"STOR", "APPE", "STOU"} : Upload(s, op, n)
    BY <2>2 DEF Upload, Ready
  <2>3. CASE \E op \in {"RETR", "DELE", "RMD"} : Inspect(s, op, n)
    BY <2>3, Bound DEF Inspect, Ready
  <2> QED
    BY <2>1, <2>2, <2>3
<1>3. /\ SesFrame(s) /\ Keeps(s) /\ ses'[s].pc = l
      /\ ses'[s].op = op /\ ses'[s].arg = n /\ ses'[s].key = key
  BY <1>2, StartEffect
<1>4. Apart(s)'
  BY <1>1, <1>2, <1>3 DEF Apart, Keeps
<1>5. Unrecorded(s)' /\ Entitled(s)' /\ \A i \in Inode : ~Concern(s, i)
  BY <1>2, <1>3 DEF Unrecorded, Entitled, Changing, Concern
<1> QED
  BY <1>2, <1>3, <1>4, <1>5, FramesOf, Still DEF RecordsKept, AgreeKept

\* A finished file that has a name of s, which no command of s is at work on, is recorded.
LEMMA OwnRecord ==
  ASSUME OwnNames, AgreeInv, TypeInv, NEW s \in Session, NEW n \in MayName[s], dir[n] # NoInode,
         ~Concern(s, dir[n]), file[dir[n]].sealed # NoUser
  PROVE  rec[dir[n]] = file[dir[n]].sealed
<1>1. n \in Name /\ dir[n] \in Inode /\ dir[n] \in Range(dir)
  BY OwnedNames, Bound, Ranges
<1>2. ASSUME NEW t \in Session \ {s} PROVE ~Concern(t, dir[n])
  BY NotTheirs DEF AgreeInv, ApartInv, Concern
<1> QED
  BY <1>1, <1>2 DEF AgreeInv, RecordedOrGone, Concern

LEMMA ApartGet ==
  ASSUME OwnNames, ApartInv, TypeInv, TypeInv', NEW s \in Session, Get(s)
  PROVE  ApartInv' /\ RecordsKept /\ AgreeKept
<1> DEFINE me == ses[s]
<1>1. me.pc = "get" /\ UNCHANGED <<dir, file, handle, rec>> /\ Apart(s) /\ me \in SessionState
  BY Fields DEF Get, ApartInv, NamedState
<1>2. /\ me.from = NoName /\ handle[s] = NoInode /\ me.op \in {"RETR", "DELE", "RMD"}
      /\ me.op # "RETR" => me.key = dir[me.arg] /\ me.arg \in MayName[s]
  BY <1>1 DEF Apart
<1>3. HandleFrame(s) /\ SealsKept /\ Stays /\ \A i \in Inode : ~Concern(s, i)
  BY <1>1, FramesOf DEF Concern
<1>4. CASE Done(s)
  BY <1>1, <1>2, <1>3, <1>4, DoneEffect, Rest
<1>5. CASE me.op = "RETR" /\ GoTo(s, "open")
  <2>1. /\ SesFrame(s) /\ Keeps(s) /\ ses'[s].pc = "open" /\ ses'[s].op = "RETR"
    BY <1>5, GoToEffect
  <2>2. Apart(s)' /\ Unrecorded(s)' /\ Entitled(s)'
    BY <1>1, <1>2, <2>1 DEF Apart, Keeps, Unrecorded, Entitled, Changing
  <2> QED
    BY <1>1, <1>3, <2>1, <2>2, Still DEF RecordsKept, AgreeKept
<1>6. ASSUME NEW o \in {IF me.key = NoInode THEN NoUser ELSE rec[me.key], NoUser},
             me.op # "RETR", MayWrite(me.user, o),
             ses' = [ses EXCEPT ![s].owner = o, ![s].pc = "delkey"]
      PROVE  ApartInv' /\ RecordsKept /\ AgreeKept
  <2>1. /\ SesFrame(s) /\ ses'[s].pc = "delkey" /\ ses'[s].owner = o
        /\ ses'[s].op = me.op /\ ses'[s].arg = me.arg /\ ses'[s].user = me.user
        /\ ses'[s].from = me.from
    BY <1>1, <1>6, TypeInvDef DEF SesFrame, SessionState
  <2>2. o = me.user /\ dir[me.arg] \in Inode /\ rec[dir[me.arg]] = me.user
    BY <1>1, <1>2, <1>6, Bound, Fields DEF MayWrite
  <2>3. Apart(s)' /\ Unrecorded(s)'
    BY <1>1, <1>2, <1>6, <2>1 DEF Apart, Unrecorded
  <2>4. ASSUME AgreeInv PROVE Entitled(s)'
    <3>1. file[dir[me.arg]].sealed \in {NoUser, me.user}
      BY <1>2, <1>3, <1>6, <2>2, <2>4, OwnRecord, NullAssumption
    <3> QED
      BY <1>1, <2>1, <2>2, <3>1 DEF Entitled, Changing, Subject
  <2> QED
    BY <1>1, <1>3, <2>1, <2>3, <2>4, Still DEF RecordsKept, AgreeKept
<1> QED
  BY <1>1, <1>2, <1>4, <1>5, <1>6 DEF Get

LEMMA ApartKeys ==
  ASSUME OwnNames, ApartInv, TypeInv, TypeInv', NEW s \in Session, PutKey(s) \/ DeleteKey(s)
  PROVE  ApartInv' /\ RecordsKept /\ AgreeKept
<1> DEFINE me == ses[s]
           key == dir[me.arg]
<1>1. /\ me.pc \in {"putkey", "delkey"} /\ UNCHANGED <<dir, file, handle, rec>>
      /\ Apart(s) /\ me \in SessionState
  BY Fields DEF PutKey, DeleteKey, ApartInv, NamedState
<1>2. /\ me.from = NoName /\ handle[s] = NoInode /\ me.arg \in MayName[s]
      /\ me.pc = "delkey" => me.op \in {"DELE", "RMD"}
      /\ me.pc = "putkey" => me.op \in {"STOR", "APPE", "STOU", "MKD", "DELE", "RMD"}
  BY <1>1 DEF Apart
<1>3. HandleFrame(s) /\ SealsKept /\ Stays
  BY <1>1, FramesOf
<1>4. CASE me.pc = "putkey" /\ key = NoInode /\ Reply(s)
  <2>1. \A i \in Inode : ~Concern(s, i)
    BY <1>4, NullAssumption DEF Concern, Subject
  <2> QED
    BY <1>1, <1>2, <1>3, <1>4, <2>1, ReplyEffect, Rest
<1>5. ASSUME NEW l, ses' = [ses EXCEPT ![s].key = key, ![s].pc = l],
             me.pc = "putkey" => l = "put" /\ key # NoInode,
             me.pc = "delkey" => l = IF key = NoInode THEN "unlink" ELSE "delete"
      PROVE  ApartInv' /\ RecordsKept /\ AgreeKept
  <2>1. /\ SesFrame(s) /\ Keeps(s) /\ ses'[s].pc = l /\ ses'[s].key = key
        /\ ses'[s].op = me.op /\ ses'[s].arg = me.arg
    BY <1>1, <1>5, TypeInvDef DEF SesFrame, Keeps, SessionState
  <2>2. Apart(s)'
    BY <1>1, <1>2, <1>5, <2>1 DEF Apart, Keeps
  <2>3. Unrecorded(s)'
    BY <1>1, <1>5, <2>1 DEF Unrecorded
  <2>4. (Changing(s)' <=> Changing(s)) /\ Subject(s)' = Subject(s)
    BY <1>1, <1>5, <2>1 DEF Changing, Subject
  <2>5. Entitled(s) => Entitled(s)'
    BY <1>1, <2>1, <2>4 DEF Entitled, Keeps
  <2>6. \A i \in Inode : Concern(s, i) => Concern(s, i)'
    BY <1>1, <1>5, <2>1, <2>4 DEF Concern
  <2> QED
    BY <1>1, <1>3, <2>1, <2>2, <2>3, <2>5, <2>6, Still DEF RecordsKept, AgreeKept, AgreeInv
<1>6. CASE PutKey(s)
  BY <1>4, <1>5, <1>6 DEF PutKey
<1>7. CASE DeleteKey(s)
  <2>1. me.op # "RNTO" /\ me.pc = "delkey"
    BY <1>2, <1>7 DEF DeleteKey
  <2>2. ses' = [ses EXCEPT ![s].key = key, ![s].pc = IF key = NoInode THEN "unlink" ELSE "delete"]
    BY <1>7, <2>1 DEF DeleteKey
  <2> QED
    BY <1>5, <2>1, <2>2
<1> QED
  BY <1>6, <1>7

LEMMA ApartPut ==
  ASSUME OwnNames, ApartInv, TypeInv, TypeInv', NEW s \in Session, Put(s)
  PROVE  ApartInv' /\ RecordsKept /\ AgreeKept
<1> DEFINE me == ses[s]
           uploads == {"STOR", "APPE", "STOU", "MKD"}
<1>1. /\ me.pc = "put" /\ UNCHANGED <<dir, handle>> /\ Reply(s) /\ Apart(s)
      /\ \/ rec' = [rec EXCEPT ![me.key] = NewOwner(me)]
         \/ "put" \in Faults /\ UNCHANGED rec
      /\ file' = IF me.op \in uploads /\ file[me.key] # NoFile
                 THEN [file EXCEPT ![me.key].sealed = me.user] ELSE file
  BY DEF Put, ApartInv
<1>2. /\ me.from = NoName /\ handle[s] = NoInode /\ me.key = dir[me.arg] /\ me.key \in Inode
      /\ me.op \in uploads \cup {"DELE", "RMD"} /\ me.arg \in MayName[s] /\ me.arg \in Name
  BY <1>1, Fields, OwnedNames DEF Apart
<1>3. /\ SesFrame(s) /\ ses'[s].pc = "idle" /\ ses'[s].op = "none" /\ ses'[s].from = NoName
  BY <1>1, <1>2, ReplyEffect
<1>4. \A i \in Inode \ {me.key} : file'[i] = file[i] /\ rec'[i] = rec[i]
  BY <1>1, TypeInvDef DEF FileType, RecType
<1>5. Local(s) /\ OneName' /\ Apart(s)' /\ Unrecorded(s)' /\ Entitled(s)'
  <2>1. Local(s) /\ OneName'
    BY <1>1, <1>3 DEF Local, HandleFrame, ApartInv, OneName
  <2>2. Apart(s)' /\ Unrecorded(s)' /\ Entitled(s)'
    BY <1>1, <1>2, <1>3 DEF Apart, Unrecorded, Entitled, Changing
  <2> QED
    BY <2>1, <2>2
<1>6. ApartInv'
  BY <1>5, ApartStep
<1>7. RecordsKept
  <2>1. \A i \in Inode : rec'[i] \in {rec[i], NoUser} \/ \E n \in MayName[s] : dir[n] = i
    BY <1>2, <1>4
  <2>2. me.key \in Range(dir)
    BY <1>2, Ranges
  <2>3. RecordsInv => \A i \in Inode : rec'[i] # NoUser => i \in Range(dir')
    BY <1>1, <1>4, <2>2 DEF RecordsInv
  <2> QED
    BY <1>5, <1>6, <2>1, <2>3, RecordsStep DEF RecordsKept
<1>8. AgreeKept
  <2>1. SUFFICES ASSUME AgreeInv, "put" \notin Faults PROVE AgreeInv'
    BY DEF AgreeKept
  <2>2. Entitled(s)
    BY <2>1 DEF AgreeInv
  <2>3. rec'[me.key] = me.user
    <3>1. NewOwner(me) = me.user
      BY <1>1, <1>2, <2>2 DEF NewOwner, Entitled, Changing
    <3> QED
      BY <1>1, <1>2, <2>1, <3>1, TypeInvDef DEF RecType
  <2>4. file'[me.key].sealed \in {NoUser, me.user}
    <3>1. CASE me.op \in uploads
      <4>1. file[me.key] = NoFile => file[me.key].sealed = NoUser
        BY DEF NoFile
      <4>2. file[me.key] \in FileState
        BY <1>2, TypeInvDef DEF FileType
      <4> QED
        BY <1>1, <1>2, <3>1, <4>1, <4>2, TypeInvDef DEF FileType, FileState
    <3>2. CASE me.op \notin uploads
      BY <1>1, <1>2, <2>2, <3>2, NullAssumption DEF Entitled, Changing, Subject
    <3> QED
      BY <3>1, <3>2
  <2>5. ASSUME NEW i \in Inode, i # me.key
        PROVE  /\ rec'[i] = rec[i] /\ file'[i].sealed = file[i].sealed /\ ~Concern(s, i)
               /\ i \in Range(handle) \ Range(dir) => i \in Range(handle') \ Range(dir')
    BY <1>1, <1>4, <2>5 DEF Concern, Subject
  <2>6. \A i \in Inode : file'[i].sealed # NoUser =>
            \/ rec'[i] = file'[i].sealed
            \/ /\ rec'[i] = rec[i] /\ file'[i].sealed = file[i].sealed /\ ~Concern(s, i)
               /\ i \in Range(handle) \ Range(dir) => i \in Range(handle') \ Range(dir')
    BY <2>3, <2>4, <2>5
  <2>7. \A i \in Inode : \/ file'[i].sealed \in {NoUser, file[i].sealed}
                         \/ \E n \in MayName[s] : dir[n] = i
    BY <1>2, <1>4
  <2> QED
    BY <1>5, <1>6, <2>1, <2>6, <2>7, AgreeStep
<1> QED
  BY <1>6, <1>7, <1>8

LEMMA ApartDelete ==
  ASSUME OwnNames, ApartInv, TypeInv, TypeInv', NEW s \in Session, Delete(s)
  PROVE  ApartInv' /\ RecordsKept /\ AgreeKept
<1> DEFINE me == ses[s]
<1>1. /\ me.pc = "delete" /\ UNCHANGED <<dir, file, handle>> /\ GoTo(s, "unlink") /\ Apart(s)
      /\ \/ rec' = [rec EXCEPT ![me.key] = NoUser]
         \/ "delete" \in Faults /\ UNCHANGED rec
  BY DEF Delete, ApartInv
<1>2. /\ me.from = NoName /\ handle[s] = NoInode /\ me.key = dir[me.arg] /\ me.key \in Inode
      /\ me.op \in {"DELE", "RMD"} /\ me.arg \in MayName[s]
  BY <1>1, Fields DEF Apart
<1>3. /\ SesFrame(s) /\ Keeps(s) /\ ses'[s].pc = "unlink"
      /\ ses'[s].op = me.op /\ ses'[s].arg = me.arg
  BY <1>1, GoToEffect
<1>4. \A i \in Inode : \/ rec'[i] = rec[i]
                       \/ i = me.key /\ rec'[i] = NoUser
  BY <1>1, TypeInvDef DEF RecType
<1>5. Local(s) /\ OneName' /\ Apart(s)'
  BY <1>1, <1>2, <1>3 DEF Local, HandleFrame, ApartInv, OneName, Apart, Keeps
<1>6. ApartInv'
  BY <1>5, ApartStep
<1>7. RecordsKept
  <2>1. SUFFICES ASSUME RecordsInv, "delete" \notin Faults PROVE RecordsInv'
    BY DEF RecordsKept
  <2>2. rec'[me.key] = NoUser
    BY <1>1, <1>2, <2>1, TypeInvDef DEF RecType
  <2>3. Unrecorded(s)'
    BY <1>1, <1>2, <1>3, <2>2 DEF Unrecorded
  <2>4. \A i \in Inode : rec'[i] # NoUser => i \in Range(dir')
    BY <1>1, <1>4, <2>1 DEF RecordsInv
  <2> QED
    BY <1>4, <1>5, <1>6, <2>1, <2>3, <2>4, RecordsStep
<1>8. AgreeKept
  <2>1. SUFFICES ASSUME AgreeInv PROVE AgreeInv'
    BY DEF AgreeKept
  <2>2. Entitled(s)'
    BY <1>1, <1>2, <1>3, <2>1 DEF AgreeInv, Entitled, Keeps, Changing, Subject
  <2>3. \A i \in Inode : ~Concern(s, i) /\ (i = me.key => Concern(s, i)')
    BY <1>1, <1>2, <1>3 DEF Concern, Changing, Subject
  <2>4. ASSUME NEW i \in Inode
        PROVE  \/ Concern(s, i)'
               \/ /\ rec'[i] = rec[i] /\ file'[i].sealed = file[i].sealed /\ ~Concern(s, i)
                  /\ i \in Range(handle) \ Range(dir) => i \in Range(handle') \ Range(dir')
    BY <1>1, <1>4, <2>3
  <2>5. \A i \in Inode : file'[i].sealed \in {NoUser, file[i].sealed}
    BY <1>1
  <2> QED
    BY <1>5, <1>6, <2>1, <2>2, <2>4, <2>5, AgreeStep
<1> QED
  BY <1>6, <1>7, <1>8

\* A new file or directory under a name of s.
LEMMA Grown ==
  ASSUME OwnNames, ApartInv, TypeInv, TypeInv', NEW s \in Session, SesFrame(s), HandleFrame(s),
         NEW n \in MayName[s], dir[n] = NoInode, NEW i \in Free, dir' = [dir EXCEPT ![n] = i],
         UNCHANGED rec, SealsKept, file'[i].sealed = NoUser, Stays, Apart(s)',
         ses'[s].pc \in {"connect", "putkey"}, ~Changing(s), ~Changing(s)'
  PROVE  ApartInv' /\ RecordsKept /\ AgreeKept
<1>1. n \in Name /\ i \in Inode /\ \A m \in Name : dir[m] # i
  BY OwnedNames, FreeEffect
<1>2. \A m \in Name : dir'[m] = IF m = n THEN i ELSE dir[m]
  BY TypeInvDef DEF DirType
<1>3. Local(s) /\ OneName'
  BY <1>1, <1>2 DEF Local, ApartInv, OneName
<1>4. ApartInv'
  BY <1>3, ApartStep
<1>5. ASSUME NEW j \in Inode PROVE j \in Range(dir') <=> j \in Range(dir) \/ j = i
  <2>1. ASSUME NEW m \in Name, dir[m] = j PROVE dir'[m] = j
    BY <1>2, <2>1, NullAssumption
  <2>2. ASSUME NEW m \in Name, dir'[m] = j PROVE dir[m] = j \/ j = i
    BY <1>2, <2>2
  <2>3. dir'[n] = i
    BY <1>1, <1>2
  <2> QED
    BY <1>1, <2>1, <2>2, <2>3, Ranges, RangesNext
<1>6. Unrecorded(s)' /\ Entitled(s)' /\ \A j \in Inode : ~Concern(s, j)
  BY DEF Unrecorded, Entitled, Concern
<1>7. RecordsKept
  <2>1. RecordsInv => \A j \in Inode : rec'[j] # NoUser => j \in Range(dir')
    BY <1>5 DEF RecordsInv
  <2> QED
    BY <1>3, <1>4, <1>6, <2>1, RecordsStep DEF RecordsKept
<1>8. AgreeKept
  <2>1. ASSUME NEW j \in Inode, file'[j].sealed # NoUser
        PROVE  /\ rec'[j] = rec[j] /\ file'[j].sealed = file[j].sealed /\ ~Concern(s, j)
               /\ j \in Range(handle) \ Range(dir) => j \in Range(handle') \ Range(dir')
    BY <1>5, <1>6, <2>1 DEF SealsKept, Stays
  <2> QED
    BY <1>3, <1>4, <1>6, <2>1, AgreeStep DEF AgreeKept, SealsKept
<1> QED
  BY <1>4, <1>7, <1>8

LEMMA ApartMkd ==
  ASSUME OwnNames, ApartInv, TypeInv, TypeInv', NEW s \in Session, NEW n \in Name, Mkd(s, n)
  PROVE  ApartInv' /\ RecordsKept /\ AgreeKept
<1>1. PICK i \in Free : Disk([dir EXCEPT ![n] = i], handle, [file EXCEPT ![i] = NewFile("dir")])
  BY DEF Mkd
<1>2. /\ ses[s].pc = "idle" /\ n \in MayName[s] /\ dir[n] = NoInode /\ UNCHANGED rec
      /\ Start(s, "MKD", n, NoInode, "putkey") /\ Apart(s)
  BY DEF Mkd, Ready, ApartInv
<1> DEFINE f == [file EXCEPT ![i] = NewFile("dir")]
<1>3. /\ FileType(f) /\ f[i].sealed = NoUser
      /\ \A j \in Inode : f[j].sealed \in {NoUser, file[j].sealed}
  BY FreeEffect, NewTypes, TypeInvDef DEF FileType, NewFile
<1>4. /\ dir' = [dir EXCEPT ![n] = i] /\ UNCHANGED handle /\ SealsKept
      /\ \A j \in Inode \ (Range(dir') \cup Range(handle')) : file'[j].sealed = NoUser
  BY <1>1, <1>3, DiskEffect
<1>5. file'[i].sealed = NoUser /\ Stays /\ HandleFrame(s)
  <2>1. file'[i] \in {f[i], NoFile}
    BY <1>1, FreeEffect DEF Disk
  <2> QED
    BY <1>3, <1>4, <2>1 DEF NoFile, Stays, HandleFrame
<1>6. /\ SesFrame(s) /\ Keeps(s) /\ ses'[s].pc = "putkey"
      /\ ses'[s].op = "MKD" /\ ses'[s].arg = n
  BY <1>2, StartEffect
<1>7. Apart(s)' /\ ~Changing(s) /\ ~Changing(s)'
  BY <1>2, <1>4, <1>6 DEF Apart, Keeps, Changing
<1> QED
  BY <1>2, <1>4, <1>5, <1>6, <1>7, Grown

\* Opening, transferring and closing a file change no name and no record.
LEMMA ApartTransfer ==
  ASSUME OwnNames, ApartInv, TypeInv, TypeInv', NEW s \in Session,
         OpenToRead(s) \/ Connect(s) \/ Receive(s) \/ Transferred(s) \/ Aborted(s)
  PROVE  ApartInv' /\ RecordsKept /\ AgreeKept
<1> DEFINE me == ses[s]
<1>1. /\ me.pc \in {"open", "connect", "transfer"} /\ UNCHANGED <<dir, rec>> /\ Apart(s)
      /\ \A i \in Inode : ~Concern(s, i)
  BY DEF OpenToRead, Connect, Receive, Transferred, Aborted, Close, Disk, ApartInv, Concern
<1>2. /\ me.from = NoName /\ me.op \in {"RETR", "STOR", "APPE", "STOU"}
      /\ me.pc = "open" => handle[s] = NoInode
      /\ me.op # "RETR" => me.arg \in MayName[s]
  BY <1>1 DEF Apart
\* The two ways in which such a step ends.
<1>3. ASSUME SesFrame(s), Keeps(s), ses'[s].op = me.op, ses'[s].arg = me.arg,
             \/ ses'[s].pc \in {"connect", "transfer"}
             \/ ses'[s].pc = "putkey" /\ me.op # "RETR" /\ handle'[s] = NoInode,
             SealsKept, HandleFrame(s), Stays
      PROVE  ApartInv' /\ RecordsKept /\ AgreeKept
  <2>1. Apart(s)'
    BY <1>1, <1>2, <1>3 DEF Apart, Keeps
  <2>2. Unrecorded(s)' /\ Entitled(s)'
    BY <1>2, <1>3 DEF Unrecorded, Entitled, Changing
  <2> QED
    BY <1>1, <1>3, <2>1, <2>2, Still DEF RecordsKept, AgreeKept
<1>4. ASSUME Done(s), handle'[s] = NoInode, SealsKept, HandleFrame(s), Stays
      PROVE  ApartInv' /\ RecordsKept /\ AgreeKept
  BY <1>1, <1>2, <1>4, DoneEffect, Rest
<1>5. CASE OpenToRead(s)
  <2>1. UNCHANGED <<dir, file>> /\ handle[s] = NoInode /\ SealsKept
    BY <1>2, <1>5, FramesOf DEF OpenToRead
  <2>2. HandleFrame(s)
    BY <1>5, TypeInvDef DEF OpenToRead, HandleType, HandleFrame
  <2>3. Stays
    <3>1. SUFFICES ASSUME NEW i \in Inode, NEW t \in Session, handle[t] = i
                   PROVE  i \in Range(handle')
      BY Ranges DEF Stays
    <3>2. t # s
      BY <2>1, <3>1, NullAssumption
    <3> QED
      BY <2>2, <3>1, <3>2, RangesNext DEF HandleFrame
  <2>4. CASE GoTo(s, "connect")
    BY <1>3, <2>1, <2>2, <2>3, <2>4, GoToEffect
  <2>5. CASE Done(s) /\ UNCHANGED handle
    BY <1>4, <2>1, <2>2, <2>3, <2>5
  <2> QED
    BY <1>5, <2>4, <2>5 DEF OpenToRead
<1>6. CASE Connect(s)
  <2>1. CASE GoTo(s, "transfer") /\ UNCHANGED <<dir, file, handle>>
    BY <1>3, <2>1, FramesOf, GoToEffect
  <2>2. CASE Close(s) /\ Done(s)
    BY <1>4, <2>2, CloseStays
  <2> QED
    BY <1>6, <2>1, <2>2 DEF Connect
<1>7. CASE Receive(s)
  <2>1. me.pc = "transfer" /\ UNCHANGED <<dir, handle, rec, ses>>
    BY <1>7 DEF Receive
  <2>2. \A i \in Inode : file'[i].sealed = file[i].sealed
    BY <1>7, TypeInvDef DEF Receive, FileType, FileState
  <2>3. SealsKept /\ SesFrame(s) /\ Keeps(s)
    BY <2>1, <2>2 DEF SealsKept, SesFrame, Keeps
  <2> QED
    BY <1>3, <2>1, <2>3, FramesOf
<1>8. CASE Transferred(s)
  <2>1. CASE me.op = "RETR"
    BY <1>4, <1>8, <2>1, CloseStays DEF Transferred
  <2>2. CASE me.op # "RETR"
    BY <1>3, <1>8, <2>2, CloseStays, GoToEffect DEF Transferred
  <2> QED
    BY <2>1, <2>2
<1>9. CASE Aborted(s)
  BY <1>4, <1>9, CloseStays DEF Aborted
<1> QED
  BY <1>5, <1>6, <1>7, <1>8, <1>9

LEMMA ApartOpen ==
  ASSUME OwnNames, ApartInv, TypeInv, TypeInv', NEW s \in Session, OpenToWrite(s)
  PROVE  ApartInv' /\ RecordsKept /\ AgreeKept
<1> DEFINE me == ses[s]
<1>1. /\ me.pc = "open" /\ me.op \in {"STOR", "APPE", "STOU"} /\ UNCHANGED rec /\ Apart(s)
      /\ ~Changing(s) /\ \A i \in Inode : ~Concern(s, i)
  BY DEF OpenToWrite, ApartInv, Changing, Concern
<1>2. /\ me.from = NoName /\ handle[s] = NoInode /\ me.arg \in MayName[s] /\ me.arg \in Name
  BY <1>1, OwnedNames DEF Apart
<1>3. CASE Done(s) /\ UNCHANGED <<dir, file, handle>>
  BY <1>1, <1>2, <1>3, FramesOf, DoneEffect, Rest
\* A file that is opened is opened by s, and nobody closes one.
<1>4. ASSUME NEW h \in Inode \cup {NoInode}, handle' = [handle EXCEPT ![s] = h]
      PROVE  HandleFrame(s) /\ Stays
  <2>1. HandleFrame(s)
    BY <1>4, TypeInvDef DEF HandleFrame, HandleType
  <2>2. ASSUME NEW i \in Inode, NEW t \in Session, handle[t] = i PROVE i \in Range(handle')
    <3>1. t # s
      BY <1>2, <2>2, NullAssumption
    <3> QED
      BY <2>1, <2>2, <3>1, RangesNext DEF HandleFrame
  <2>3. Stays
    BY <2>2, Ranges DEF Stays
  <2> QED
    BY <2>1, <2>3
<1>5. ASSUME GoTo(s, "connect")
      PROVE  /\ SesFrame(s) /\ ses'[s].pc = "connect" /\ Apart(s)' /\ ~Changing(s)'
             /\ Unrecorded(s)' /\ Entitled(s)'
  <2>1. /\ SesFrame(s) /\ Keeps(s) /\ ses'[s].pc = "connect"
        /\ ses'[s].op = me.op /\ ses'[s].arg = me.arg
    BY <1>5, GoToEffect
  <2>2. Apart(s)' /\ ~Changing(s)' /\ Unrecorded(s)'
    BY <1>1, <1>2, <2>1 DEF Apart, Keeps, Changing, Unrecorded
  <2> QED
    BY <2>1, <2>2 DEF Entitled
<1>6. ASSUME GoTo(s, "connect"), NEW i \in Free,
             Disk([dir EXCEPT ![me.arg] = i], [handle EXCEPT ![s] = i],
                  [file EXCEPT ![i] = NewFile("file")]),
             dir[me.arg] = NoInode
      PROVE  ApartInv' /\ RecordsKept /\ AgreeKept
  <2> DEFINE f == [file EXCEPT ![i] = NewFile("file")]
  <2>1. /\ FileType(f) /\ f[i].sealed = NoUser
        /\ \A j \in Inode : f[j].sealed \in {NoUser, file[j].sealed}
    BY FreeEffect, NewTypes, TypeInvDef DEF FileType, NewFile
  <2>2. /\ dir' = [dir EXCEPT ![me.arg] = i] /\ handle' = [handle EXCEPT ![s] = i] /\ SealsKept
    BY <1>6, <2>1, DiskEffect
  <2>3. file'[i].sealed = NoUser
    <3>1. file'[i] \in {f[i], NoFile}
      BY <1>6, FreeEffect DEF Disk
    <3> QED
      BY <2>1, <3>1 DEF NoFile
  <2>4. HandleFrame(s) /\ Stays
    BY <1>4, <2>2, FreeEffect
  <2> QED
    BY <1>1, <1>2, <1>5, <1>6, <2>2, <2>3, <2>4, Grown
<1>7. ASSUME GoTo(s, "connect"), NEW f, FileType(f), Kind(me.arg) = "file",
             \A j \in Inode : f[j].sealed \in {NoUser, file[j].sealed},
             Disk(dir, [handle EXCEPT ![s] = dir[me.arg]], f)
      PROVE  ApartInv' /\ RecordsKept /\ AgreeKept
  <2>1. dir' = dir /\ handle' = [handle EXCEPT ![s] = dir[me.arg]] /\ SealsKept
    BY <1>7, DiskEffect
  <2>2. HandleFrame(s) /\ Stays
    BY <1>2, <1>4, <2>1, Bound
  <2> QED
    BY <1>1, <1>5, <1>7, <2>1, <2>2, Still DEF RecordsKept, AgreeKept
<1>8. ASSUME GoTo(s, "connect"), Kind(me.arg) = "file",
             Disk(dir, [handle EXCEPT ![s] = dir[me.arg]],
                  [file EXCEPT ![dir[me.arg]] = NewFile("file")])
      PROVE  ApartInv' /\ RecordsKept /\ AgreeKept
  <2> DEFINE f == [file EXCEPT ![dir[me.arg]] = NewFile("file")]
  <2>1. FileType(f) /\ \A j \in Inode : f[j].sealed \in {NoUser, file[j].sealed}
    BY NewTypes, TypeInvDef DEF FileType, NewFile
  <2> QED
    BY <1>7, <1>8, <2>1
<1>9. ASSUME GoTo(s, "connect"), Kind(me.arg) = "file",
             Disk(dir, [handle EXCEPT ![s] = dir[me.arg]], file)
      PROVE  ApartInv' /\ RecordsKept /\ AgreeKept
  BY <1>7, <1>9, TypeInvDef
<1> QED
  BY <1>3, <1>6, <1>8, <1>9 DEF OpenToWrite

LEMMA ApartRemove ==
  ASSUME OwnNames, ApartInv, TypeInv, TypeInv', NEW s \in Session, Remove(s)
  PROVE  ApartInv' /\ RecordsKept /\ AgreeKept
<1> DEFINE me == ses[s]
<1>1. me.pc = "unlink" /\ me.op \in {"DELE", "RMD"} /\ UNCHANGED rec /\ Apart(s)
  BY DEF Remove, ApartInv
<1>2. /\ me.from = NoName /\ handle[s] = NoInode /\ me.arg \in MayName[s] /\ me.arg \in Name
  BY <1>1, OwnedNames DEF Apart
<1>3. CASE GoTo(s, "putkey") /\ UNCHANGED <<dir, file, handle>>
  <2>1. /\ SesFrame(s) /\ Keeps(s) /\ ses'[s].pc = "putkey"
        /\ ses'[s].op = me.op /\ ses'[s].arg = me.arg
    BY <1>3, GoToEffect
  <2>2. Apart(s)' /\ Unrecorded(s)'
    BY <1>1, <1>2, <1>3, <2>1 DEF Apart, Keeps, Unrecorded
  <2>3. (Changing(s)' <=> Changing(s)) /\ Subject(s)' = Subject(s)
    BY <1>1, <1>3, <2>1 DEF Changing, Subject
  <2>4. Entitled(s) => Entitled(s)'
    BY <1>3, <2>1, <2>3 DEF Entitled, Keeps
  <2>5. \A i \in Inode : Concern(s, i) => Concern(s, i)'
    BY <2>1, <2>3 DEF Concern
  <2> QED
    BY <1>1, <1>3, <2>1, <2>2, <2>4, <2>5, FramesOf, Still DEF RecordsKept, AgreeKept, AgreeInv
<1>4. CASE Disk([dir EXCEPT ![me.arg] = NoInode], handle, file) /\ Done(s) /\ dir[me.arg] \in Inode
  <2>1. /\ dir' = [dir EXCEPT ![me.arg] = NoInode] /\ UNCHANGED handle /\ SealsKept
        /\ \A i \in Inode \ (Range(dir') \cup Range(handle')) : file'[i].sealed = NoUser
    BY <1>4, DiskEffect, TypeInvDef
  <2>2. \A m \in Name : dir'[m] = IF m = me.arg THEN NoInode ELSE dir[m]
    BY <2>1, TypeInvDef DEF DirType
  <2>3. SesFrame(s) /\ ses'[s].pc = "idle" /\ ses'[s].op = "none" /\ ses'[s].from = NoName
    BY <1>2, <1>4, DoneEffect
  <2>4. Local(s) /\ OneName'
    BY <1>2, <2>1, <2>2, <2>3 DEF Local, HandleFrame, ApartInv, OneName
  <2>5. Apart(s)' /\ Unrecorded(s)' /\ Entitled(s)'
    BY <1>2, <2>1, <2>3 DEF Apart, Unrecorded, Entitled, Changing
  <2>6. ApartInv'
    BY <2>4, <2>5, ApartStep
  <2>7. ASSUME NEW i \in Inode
        PROVE  i \in Range(dir') <=> i \in Range(dir) /\ i # dir[me.arg]
    <3>1. ASSUME NEW m \in Name, dir[m] = i, i # dir[me.arg] PROVE dir'[m] = i
      BY <2>2, <3>1
    <3>2. ASSUME NEW m \in Name, dir'[m] = i PROVE dir[m] = i /\ i # dir[me.arg]
      BY <1>2, <2>2, <3>2, NullAssumption DEF ApartInv, OneName
    <3> QED
      BY <3>1, <3>2, Ranges, RangesNext
  <2>8. RecordsKept
    <3>1. SUFFICES ASSUME RecordsInv PROVE RecordsInv'
      BY DEF RecordsKept
    <3>2. rec[dir[me.arg]] = NoUser
      BY <1>1, <1>4, <3>1, NullAssumption DEF RecordsInv, Unrecorded
    <3>3. \A i \in Inode : rec'[i] # NoUser => i \in Range(dir')
      BY <1>1, <2>7, <3>1, <3>2 DEF RecordsInv
    <3> QED
      BY <1>1, <2>4, <2>5, <2>6, <3>1, <3>3, RecordsStep
  <2>9. AgreeKept
    <3>1. SUFFICES ASSUME AgreeInv PROVE AgreeInv'
      BY DEF AgreeKept
    <3>2. ASSUME NEW i \in Inode, file'[i].sealed # NoUser
          PROVE  \/ i \in Range(handle') \ Range(dir')
                 \/ /\ rec'[i] = rec[i] /\ file'[i].sealed = file[i].sealed /\ ~Concern(s, i)
                    /\ i \in Range(handle) \ Range(dir) => i \in Range(handle') \ Range(dir')
      <4>1. CASE i = dir[me.arg]
        BY <2>1, <2>7, <3>2, <4>1
      <4>2. CASE i # dir[me.arg]
        <5>1. ~Concern(s, i)
          BY <1>1, <4>2 DEF Concern, Subject
        <5> QED
          BY <1>1, <2>1, <2>7, <3>2, <4>2, <5>1 DEF SealsKept
      <4> QED
        BY <4>1, <4>2
    <3> QED
      BY <2>1, <2>4, <2>5, <2>6, <3>1, <3>2, AgreeStep DEF SealsKept
  <2> QED
    BY <2>6, <2>8, <2>9
<1> QED
  BY <1>2, <1>3, <1>4, Bound DEF Remove

-----------------------------------------------------------------------------
LEMMA ApartInit == Init => ApartInv /\ RecordsInv /\ AgreeInv
<1> SUFFICES ASSUME Init PROVE ApartInv /\ RecordsInv /\ AgreeInv
  OBVIOUS
<1>1. TypeOK
  BY TypeInit DEF TypeInv
<1>2. ASSUME NEW s \in Session PROVE Apart(s) /\ Unrecorded(s) /\ Entitled(s)
  <2>1. /\ ses[s].pc = "idle" /\ ses[s].op = "none" /\ ses[s].from = NoName
        /\ handle[s] = NoInode
    BY DEF Init, NewSession
  <2> QED
    BY <2>1 DEF Apart, Unrecorded, Entitled, Changing
<1>3. OneName /\ RecordedOrGone /\ \A i \in Inode : rec[i] = NoUser
  BY DEF Init, OneName, RecordedOrGone, NoFile
<1> QED
  BY <1>1, <1>2, <1>3 DEF ApartInv, RecordsInv, AgreeInv

LEMMA ApartNext ==
  ASSUME OwnNames, ApartInv, TypeInv, [Next]_vars
  PROVE  ApartInv' /\ RecordsKept /\ AgreeKept
<1>1. TypeInv'
  BY TypeNext
<1>2. CASE UNCHANGED vars
  <2>1. UNCHANGED <<dir, file, handle, rec, ses>>
    BY <1>2 DEF vars
  <2>2. ApartInv'
    BY <2>1 DEF ApartInv, TypeOK, OneName, Apart
  <2>3. RecordsKept
    BY <2>1, <2>2 DEF RecordsKept, RecordsInv, Unrecorded
  <2>4. AgreeInv => RecordedOrGone' /\ \A s \in Session : Entitled(s)'
    BY <2>1 DEF AgreeInv, RecordedOrGone, Entitled, Changing, Subject
  <2> QED
    BY <2>2, <2>3, <2>4 DEF AgreeKept, AgreeInv
<1>3. ASSUME NEW s \in Session, Step(s) PROVE ApartInv' /\ RecordsKept /\ AgreeKept
  <2>1. Apart(s)
    BY DEF ApartInv
  <2>2. ~Rename(s) /\ ~UnlinkFrom(s)
    BY <2>1 DEF Rename, UnlinkFrom, Apart
  <2> QED
    BY <1>1, <1>3, <2>2, ApartGet, ApartKeys, ApartPut, ApartDelete, ApartTransfer, ApartOpen,
       ApartRemove DEF Step
<1> QED
  BY <1>1, <1>2, <1>3, ApartBetween, ApartStart, ApartMkd DEF Next

\* Records are only of files that have a name, as long as every client makes changes under
\* names of its own and DeleteFileInfo does not fail: commands of different clients may
\* overlap in any way, processes may be killed anywhere, and every other call may fail.
THEOREM RecordsInvariant ==
  ASSUME OwnNames, "delete" \notin Faults PROVE Spec => []RecordsInv
<1>1. TypeInv /\ RecordsInv /\ [Next]_vars => TypeInv' /\ RecordsInv'
  BY TypeNext, ApartNext DEF RecordsKept, RecordsInv
<1>2. Init => TypeInv /\ RecordsInv
  BY TypeInit, ApartInit
<1> QED
  BY <1>1, <1>2, PTL DEF Spec

\* ... so an i-node goes back to the file system without a record (ftpcommands.cpp: DELE and
\* RMD call DeleteFileInfo before unlink and rmdir, and PutFileInfo records only what stat
\* finds).
THEOREM NoRecordOutlivesItsFile ==
  ASSUME OwnNames, "delete" \notin Faults PROVE Spec => []NoStaleRecord
<1>1. TypeInv /\ RecordsInv => NoStaleRecord
  BY FreeEffect, Ranges DEF RecordsInv, NoStaleRecord
<1>2. Spec => []TypeInv
  BY TypeInit, TypeNext, PTL DEF Spec
<1> QED
  BY <1>1, <1>2, RecordsInvariant, PTL

\* A finished file is recorded, unless its command is putting the record back or a download
\* holds on to what is gone, when every client makes changes under names of its own,
\* PutFileInfo does not fail and no process is killed; DeleteFileInfo may fail.
THEOREM AgreeInvariant ==
  ASSUME OwnNames, "put" \notin Faults, "kill" \notin Faults PROVE Spec => []AgreeInv
<1>1. TypeInv /\ AgreeInv /\ [Next]_vars => TypeInv' /\ AgreeInv'
  BY TypeNext, ApartNext DEF AgreeKept, AgreeInv
<1>2. Init => TypeInv /\ AgreeInv
  BY TypeInit, ApartInit
<1> QED
  BY <1>1, <1>2, PTL DEF Spec

\* ... so what STOR, APPE, STOU and MKD have reported as done is recorded as its user's
\* whenever no command is at work on it, also when commands of other clients run at the
\* same time.
THEOREM ApartOwnersAgree ==
  ASSUME OwnNames, "put" \notin Faults, "kill" \notin Faults PROVE Spec => []OwnersAgree
<1>1. TypeInv /\ AgreeInv => OwnersAgree
  <2> SUFFICES ASSUME TypeInv, AgreeInv, NEW i \in Inode, file[i].sealed # NoUser, ~InUse(i)
               PROVE  rec[i] = file[i].sealed
    BY DEF OwnersAgree
  <2>1. ASSUME NEW s \in Session, Concern(s, i) PROVE InUse(i)
    <3>1. ses[s].arg \in Name /\ ses[s].pc # "idle" /\ Subject(s) = dir[ses[s].arg]
      BY <2>1, OwnSubject, Fields DEF AgreeInv, ApartInv, Concern, Changing
    <3>2. ses[s].arg # NoName
      BY <3>1, NullAssumption
    <3> QED
      BY <2>1, <3>1, <3>2 DEF Concern, InUse
  <2>2. i \notin Range(handle)
    <3>1. ASSUME NEW s \in Session, handle[s] = i PROVE InUse(i)
      <4>1. Apart(s) /\ i # NoInode
        BY NullAssumption DEF AgreeInv, ApartInv
      <4>2. ses[s].pc # "idle"
        BY <3>1, <4>1 DEF Apart
      <4> QED
        BY <3>1, <4>2 DEF InUse
    <3> QED
      BY <3>1, Ranges
  <2> QED
    BY <2>1, <2>2 DEF AgreeInv, RecordedOrGone, Concern
<1>2. Spec => []TypeInv
  BY TypeInit, TypeNext, PTL DEF Spec
<1> QED
  BY <1>1, <1>2, AgreeInvariant, PTL

\* ... and DELE and RMD take no finished file away from anybody but its owner, though other
\* clients create and remove files, and i-nodes change hands, between the check and unlink.
THEOREM ApartOwnersRemove ==
  ASSUME OwnNames, "put" \notin Faults, "kill" \notin Faults PROVE Spec => OnlyOwnerRemoves
<1>1. AgreeInv /\ [Next]_vars =>
        [\A s \in Session :
           LET n == ses[s].arg IN
           /\ ses[s].op \in {"DELE", "RMD"} /\ ses[s].pc = "unlink"
           /\ dir[n] # NoInode /\ dir'[n] = NoInode
           => file[dir[n]].sealed \in {NoUser, ses[s].user}]_vars
  BY DEF AgreeInv, Entitled, Changing, Subject
<1> QED
  BY <1>1, AgreeInvariant, PTL DEF Spec, OnlyOwnerRemoves
================================================================================
