--------------------------- MODULE FileOwnersProofs ---------------------------
(***************************************************************************)
(* When the clients take turns, files, i-nodes and the database of owners  *)
(* stay in agreement: OwnersInv is an inductive invariant of FileCommands, *)
(* for any number of sessions, users, names and i-nodes.                   *)
(***************************************************************************)
EXTENDS FileCommandsProofs

\* Commands do not overlap, PutFileInfo does not fail, and no process is killed
\* inside a command.  Data connections, ABOR, GetFileInfo and DeleteFileInfo may fail.
Turns == TakeTurns /\ StrictClients /\ "put" \notin Faults /\ "kill" \notin Faults

\* The others do nothing, and a step of s leaves them alone.
OthersQuiet(s) == \A t \in Session \ {s} : ~Active(t)
Frame(s) == \A t \in Session \ {s} : ses'[t] = ses[t] /\ handle'[t] = handle[t]

LEMMA OwnersType == OwnersInv => TypeInv
<1> SUFFICES ASSUME OwnersInv PROVE TypeInv
  OBVIOUS
<1>1. TypeOK
  BY DEF OwnersInv
<1>2. ASSUME NEW s \in Session PROVE ses[s] \in NamedState
  <2>1. ses[s] \in SessionState
    BY <1>1 DEF TypeOK
  <2>2. Orderly(s)
    BY DEF OwnersInv
  <2>3. ses[s].user \in User \cup {NoUser} /\ ses[s].from \in Name \cup {NoName}
    BY <2>1 DEF SessionState
  <2>4. ses[s].pc # "idle" => ses[s].arg \in Name /\ ses[s].user # NoUser
    BY <2>2 DEF Orderly, Active
  <2>5. ses[s].pc = "rename" => ses[s].from # NoName
    BY <2>2 DEF Orderly
  <2>6. ses[s].pc \in {"delete", "put"} => ses[s].key \in Inode
    BY <1>1 DEF TypeOK
  <2> QED
    BY <2>1, <2>3, <2>4, <2>5, <2>6 DEF NamedState
<1>3. ses \in [Session -> NamedState]
  BY <1>1, <1>2 DEF TypeOK
<1> QED
  BY <1>1, <1>3 DEF TypeInv

\* The parts of the invariant.
LEMMA Parts ==
  ASSUME OwnersInv
  PROVE  /\ TypeInv /\ OneAtATime /\ OneName
         /\ \A s \in Session : Orderly(s) /\ Pledged(s) /\ Entitled(s)
         /\ \A i \in Inode : /\ file[i].sealed # NoUser
                             /\ \A s \in Session : ~Concern(s, i)
                             => rec[i] = file[i].sealed
  BY OwnersType DEF OwnersInv, Recorded, Concern

\* A session without a command, and without a file to rename, is no concern.
LEMMA QuietHandle ==
  ASSUME OwnersInv, NEW t \in Session, ses[t].pc = "idle"
  PROVE  handle[t] = NoInode
  BY Parts DEF Orderly

LEMMA AtRest ==
  ASSUME NEW t \in Session, ~Active(t)', handle'[t] = NoInode
  PROVE  Orderly(t)' /\ Pledged(t)' /\ Entitled(t)'
<1>1. ses'[t].pc = "idle" /\ ses'[t].from = NoName
  BY DEF Active
<1>2. Orderly(t)'
  BY <1>1 DEF Orderly
<1>3. Pledged(t)'
  BY <1>1 DEF Pledged
<1>4. Entitled(t)'
  BY <1>1 DEF Entitled, Changing
<1> QED
  BY <1>2, <1>3, <1>4

\* While s is active the others are quiet.
LEMMA Turn ==
  ASSUME OwnersInv, NEW s \in Session, Active(s)
  PROVE  OthersQuiet(s)
  BY Parts DEF OneAtATime, OthersQuiet

LEMMA ReadyTurn ==
  ASSUME Turns, NEW s \in Session, NEW op, Ready(s, op)
  PROVE  OthersQuiet(s)
  BY DEF Turns, Ready, OthersQuiet, Active

(***************************************************************************)
(* What is left to show of a step of s when the others are quiet.          *)
(***************************************************************************)
LEMMA Alone ==
  ASSUME OwnersInv, NEW s \in Session, OthersQuiet(s), Frame(s), TypeInv', OneName',
         Orderly(s)', Pledged(s)', Entitled(s)',
         \A i \in Inode : file'[i].sealed # NoUser
                            => rec'[i] = file'[i].sealed \/ Concern(s, i)'
  PROVE  OwnersInv'
<1>1. ASSUME NEW t \in Session \ {s}
      PROVE  ~Active(t)' /\ Orderly(t)' /\ Pledged(t)' /\ Entitled(t)'
  <2>1. ~Active(t) /\ ses'[t] = ses[t] /\ handle'[t] = handle[t]
    BY DEF OthersQuiet, Frame
  <2>2. ~Active(t)' /\ handle'[t] = NoInode
    BY <2>1, QuietHandle DEF Active
  <2> QED
    BY <2>2, AtRest
<1>2. OneAtATime'
  BY <1>1 DEF OneAtATime
<1>3. Recorded'
  BY DEF Recorded, Concern
<1>4. TypeOK'
  BY DEF TypeInv
<1> QED
  BY <1>1, <1>2, <1>3, <1>4 DEF OwnersInv

\* The same for a step after which s has no command and no file to rename.
LEMMA AloneAtRest ==
  ASSUME OwnersInv, NEW s \in Session, OthersQuiet(s), Frame(s), TypeInv', OneName',
         ~Active(s)', handle'[s] = NoInode,
         \A i \in Inode : file'[i].sealed # NoUser => rec'[i] = file'[i].sealed
  PROVE  OwnersInv'
  BY Alone, AtRest

\* A step between two commands: a session that is idle stays so.
LEMMA Between ==
  ASSUME OwnersInv, NEW s \in Session, ses[s].pc = "idle", ~Active(s)', Frame(s), TypeInv',
         handle'[s] = NoInode, UNCHANGED <<dir, rec>>, SealsKept
  PROVE  OwnersInv'
<1> USE Parts
<1>1. Orderly(s)' /\ Pledged(s)' /\ Entitled(s)'
  BY AtRest
<1>2. ASSUME NEW t \in Session \ {s}
      PROVE  /\ Active(t)' <=> Active(t)
             /\ Changing(t)' <=> Changing(t)
             /\ Subject(t)' = Subject(t)
             /\ Orderly(t)' /\ Pledged(t)' /\ Entitled(t)'
  <2>1. ses'[t] = ses[t] /\ handle'[t] = handle[t]
    BY DEF Frame
  <2>2. (Active(t)' <=> Active(t)) /\ (Changing(t)' <=> Changing(t))
        /\ Subject(t)' = Subject(t)
    BY <2>1 DEF Active, Changing, Subject
  <2>3. Orderly(t)' /\ Pledged(t)'
    BY <2>1, <2>2 DEF Orderly, Pledged
  <2>4. Entitled(t)'
    <3>1. Changing(t) /\ Subject(t) # NoInode => Subject(t) \in Inode
      BY Fields, TypeInvDef DEF Changing, Subject, DirType
    <3> QED
      BY <2>1, <2>2, <3>1 DEF Entitled, SealsKept
  <2> QED
    BY <2>2, <2>3, <2>4
<1>3. OneAtATime'
  BY <1>2 DEF OneAtATime
<1>4. Recorded'
  <2> SUFFICES ASSUME NEW i \in Inode, file'[i].sealed # NoUser, rec'[i] # file'[i].sealed
               PROVE  \E t \in Session : Concern(t, i)'
    BY DEF Recorded, Concern
  <2>1. file'[i].sealed = file[i].sealed
    BY DEF SealsKept
  <2>2. PICK t \in Session : Concern(t, i)
    BY <2>1
  <2>3. t # s
    BY <2>2 DEF Concern
  <2> QED
    BY <1>2, <2>2, <2>3 DEF Concern, Frame
<1>5. TypeOK' /\ OneName'
  BY DEF TypeInv, OneName
<1> QED
  BY <1>1, <1>2, <1>3, <1>4, <1>5 DEF OwnersInv

-----------------------------------------------------------------------------
\* Taking a name away from the file system.
LEMMA UnlinkEffect ==
  ASSUME OwnersInv, NEW n \in Name, dir[n] # NoInode,
         \A t \in Session : handle[t] = NoInode,
         Disk([dir EXCEPT ![n] = NoInode], handle, file)
  PROVE  /\ dir' = [dir EXCEPT ![n] = NoInode] /\ handle' = handle /\ SealsKept /\ OneName'
         /\ file'[dir[n]].sealed = NoUser
<1> USE Parts
<1>1. FileType(file) /\ dir[n] \in Inode
  BY Bound, TypeInvDef
<1>2. /\ dir' = [dir EXCEPT ![n] = NoInode] /\ handle' = handle /\ SealsKept
      /\ \A i \in Inode \ (Range([dir EXCEPT ![n] = NoInode]) \cup Range(handle)) :
            file'[i].sealed = NoUser
  BY <1>1, DiskEffect
<1>3. dir[n] \notin Range([dir EXCEPT ![n] = NoInode])
  BY TypeInvDef DEF OneName, Range, DirType
<1>4. dir[n] \notin Range(handle)
  BY <1>1, NullAssumption, TypeInvDef DEF Range, HandleType
<1>5. OneName'
  BY <1>2, TypeInvDef DEF OneName, DirType
<1> QED
  BY <1>1, <1>2, <1>3, <1>4, <1>5

-----------------------------------------------------------------------------
(***************************************************************************)
(* The invariant is kept: between commands, and where they start.          *)
(***************************************************************************)
LEMMA KeptBetween ==
  ASSUME Turns, OwnersInv, TypeInv', NEW s \in Session,
         (\E u \in User : Login(s, u)) \/ Rein(s) \/ RntoRefused(s) \/ End(s)
  PROVE  OwnersInv'
<1> USE Parts
<1>1. ses[s].pc = "idle"
  BY DEF Login, Rein, RntoRefused, End, Ready, Turns
<1>2. handle[s] = NoInode
  BY <1>1, QuietHandle
<1>3. SesFrame(s) /\ ~Active(s)'
  <2>1. ses[s] \in SessionState /\ Orderly(s)
    BY Fields DEF NamedState
  <2>2. CASE \E u \in User : Login(s, u)
    <3>1. PICK u \in User : Login(s, u)
      BY <2>2
    <3>2. ses[s].from = NoName
      BY <2>1, <3>1 DEF Login, Orderly, Active
    <3>3. SesFrame(s) /\ ses'[s] = [ses[s] EXCEPT !.user = u]
      BY <3>1, TypeInvDef DEF Login, SesFrame
    <3> QED
      BY <1>1, <2>1, <3>2, <3>3 DEF Active, SessionState
  <2>3. CASE Rein(s)
    <3>1. ses[s].from = NoName
      BY <2>3 DEF Rein, Ready, Turns
    <3>2. SesFrame(s) /\ ses'[s] = [ses[s] EXCEPT !.user = NoUser]
      BY <2>3, TypeInvDef DEF Rein, SesFrame
    <3> QED
      BY <1>1, <2>1, <3>1, <3>2 DEF Active, SessionState
  <2>4. CASE RntoRefused(s)
    <3>1. SesFrame(s) /\ ses'[s] = [ses[s] EXCEPT !.from = NoName]
      BY <2>4, TypeInvDef DEF RntoRefused, SesFrame
    <3> QED
      BY <1>1, <2>1, <3>1 DEF Active, SessionState
  <2>5. CASE End(s)
    <3>1. SesFrame(s) /\ ses'[s] = NewSession
      BY <2>5, TypeInvDef DEF End, SesFrame
    <3> QED
      BY <3>1 DEF Active, NewSession
  <2> QED
    BY <2>2, <2>3, <2>4, <2>5
<1>4. UNCHANGED rec
  BY DEF Login, Rein, RntoRefused, End
<1>5. CASE End(s)
  <2>1. /\ dir' = dir /\ SealsKept /\ handle'[s] = NoInode
        /\ \A t \in Session \ {s} : handle'[t] = handle[t]
    BY <1>5, CloseEffect DEF End
  <2> QED
    BY <1>1, <1>3, <1>4, <2>1, Between DEF Frame, SesFrame
<1>6. CASE UNCHANGED <<dir, file, handle>>
  BY <1>1, <1>2, <1>3, <1>4, <1>6, Between DEF Frame, SesFrame, SealsKept
<1> QED
  BY <1>5, <1>6 DEF Login, Rein, RntoRefused

\* A command that has not changed anything yet.
LEMMA KeptAtStart ==
  ASSUME Turns, OwnersInv, TypeInv', NEW s \in Session, NEW n \in Name,
         \/ \E op \in {"RETR", "DELE", "RMD", "RNFR"} : Inspect(s, op, n)
         \/ \E op \in {"STOR", "APPE", "STOU"} : Upload(s, op, n)
         \/ Rnto(s, n)
  PROVE  OwnersInv'
<1> USE Parts
<1>1. PICK op \in {"RETR", "DELE", "RMD", "RNFR", "STOR", "APPE", "STOU", "RNTO"},
           key \in {dir[n], NoInode}, l \in {"get", "open", "rename"} :
        /\ Ready(s, op) /\ Start(s, op, n, key, l)
        /\ l = "get" => op \in {"RETR", "DELE", "RMD", "RNFR"} /\ key = dir[n]
        /\ l = "open" => op \in {"STOR", "APPE", "STOU"}
        /\ l = "rename" => op = "RNTO"
  BY DEF Inspect, Upload, Rnto
<1>2. UNCHANGED <<dir, file, handle, rec>>
  BY DEF Inspect, Upload, Rnto
<1>3. OthersQuiet(s)
  BY <1>1, ReadyTurn
<1>4. ses[s].pc = "idle" /\ ses[s].user # NoUser /\ (op = "RNTO" <=> ses[s].from # NoName)
  BY <1>1 DEF Ready, Turns
<1>5. handle[s] = NoInode
  BY <1>4, QuietHandle
<1>6. /\ SesFrame(s) /\ Keeps(s) /\ ses'[s].pc = l
      /\ ses'[s].op = op /\ ses'[s].arg = n /\ ses'[s].key = key
  BY <1>1, StartEffect
<1>7. Orderly(s)'
  BY <1>1, <1>2, <1>4, <1>5, <1>6 DEF Orderly, Active, Keeps
<1>8. Pledged(s)'
  <2>1. Pledged(s)
    OBVIOUS
  <2> QED
    BY <1>1, <1>2, <1>4, <1>6, <2>1 DEF Pledged, Keeps
<1>9. Entitled(s)'
  BY <1>1, <1>6 DEF Entitled, Changing
<1>10. ASSUME NEW i \in Inode, file'[i].sealed # NoUser PROVE rec'[i] = file'[i].sealed
  <2>1. ASSUME NEW t \in Session PROVE ~Concern(t, i)
    BY <1>3, <1>4 DEF Concern, OthersQuiet, Active
  <2> QED
    BY <1>2, <1>10, <2>1
<1>11. OneName' /\ Frame(s)
  BY <1>2, <1>6 DEF OneName, Frame, SesFrame
<1> QED
  BY <1>3, <1>7, <1>8, <1>9, <1>10, <1>11, Alone

LEMMA KeptByMkd ==
  ASSUME Turns, OwnersInv, TypeInv', NEW s \in Session, NEW n \in Name, Mkd(s, n)
  PROVE  OwnersInv'
<1> USE Parts
<1>1. PICK i \in Free :
        Disk([dir EXCEPT ![n] = i], handle, [file EXCEPT ![i] = NewFile("dir")])
  BY DEF Mkd
<1>2. Ready(s, "MKD") /\ Start(s, "MKD", n, NoInode, "putkey") /\ UNCHANGED rec
  BY DEF Mkd
<1>3. OthersQuiet(s)
  BY <1>2, ReadyTurn
<1>4. ses[s].pc = "idle" /\ ses[s].user # NoUser /\ ses[s].from = NoName
  BY <1>2 DEF Ready, Turns
<1>5. handle[s] = NoInode
  BY <1>4, QuietHandle
<1>6. /\ SesFrame(s) /\ Keeps(s) /\ ses'[s].pc = "putkey"
      /\ ses'[s].op = "MKD" /\ ses'[s].arg = n
  BY <1>2, StartEffect
<1>7. dir' = [dir EXCEPT ![n] = i] /\ handle' = handle /\ SealsKept
  <2>1. FileType([file EXCEPT ![i] = NewFile("dir")])
    BY FreeEffect, NewTypes, TypeInvDef DEF FileType
  <2>2. \A j \in Inode : [file EXCEPT ![i] = NewFile("dir")][j].sealed
                           \in {NoUser, file[j].sealed}
    BY FreeEffect, TypeInvDef DEF FileType, NewFile
  <2> QED
    BY <1>1, <2>1, <2>2, DiskEffect
<1>8. Orderly(s)'
  BY <1>4, <1>5, <1>6, <1>7 DEF Orderly, Active, Keeps
<1>9. Pledged(s)' /\ Entitled(s)'
  BY <1>4, <1>6 DEF Pledged, Entitled, Changing, Keeps
<1>10. ASSUME NEW j \in Inode, file'[j].sealed # NoUser PROVE rec'[j] = file'[j].sealed
  <2>1. ASSUME NEW t \in Session PROVE ~Concern(t, j)
    BY <1>3, <1>4 DEF Concern, OthersQuiet, Active
  <2> QED
    BY <1>2, <1>7, <1>10, <2>1 DEF SealsKept
<1>11. OneName'
  BY <1>7, FreeEffect, TypeInvDef DEF OneName, DirType
<1>12. Frame(s)
  BY <1>6, <1>7 DEF Frame, SesFrame
<1> QED
  BY <1>3, <1>8, <1>9, <1>10, <1>11, <1>12, Alone

-----------------------------------------------------------------------------
(***************************************************************************)
(* The invariant is kept: database calls.                                  *)
(***************************************************************************)
\* At "get" and before the file is changed no record needs s.
LEMMA NoConcern ==
  ASSUME OwnersInv, NEW s \in Session, OthersQuiet(s),
         ses[s].pc \notin {"unlink", "putkey", "put"}
  PROVE  \A i \in Inode : file[i].sealed # NoUser => rec[i] = file[i].sealed
<1>1. ASSUME NEW t \in Session, NEW i \in Inode PROVE ~Concern(t, i)
  BY DEF Concern, OthersQuiet, Active
<1> QED
  BY <1>1, Parts

\* Elsewhere, only s sees to a record.
LEMMA OwnConcern ==
  ASSUME OwnersInv, NEW s \in Session, OthersQuiet(s)
  PROVE  \A i \in Inode : file[i].sealed # NoUser
                             => rec[i] = file[i].sealed \/ Concern(s, i)
<1>1. ASSUME NEW t \in Session \ {s}, NEW i \in Inode PROVE ~Concern(t, i)
  BY DEF Concern, OthersQuiet, Active
<1> QED
  BY <1>1, Parts

LEMMA KeptByGet ==
  ASSUME Turns, OwnersInv, TypeInv', NEW s \in Session, Get(s)
  PROVE  OwnersInv'
<1> USE Parts
<1> DEFINE me == ses[s]
<1>1. me.pc = "get" /\ UNCHANGED <<dir, file, handle, rec>>
  BY DEF Get
<1>2. OthersQuiet(s) /\ Orderly(s)
  BY <1>1, Turn DEF Active
<1>3. /\ me.key = dir[me.arg] /\ me.op \in {"RETR", "DELE", "RMD", "RNFR"}
      /\ me.from = NoName /\ me.arg \in Name /\ me.user # NoUser /\ handle[s] = NoInode
  BY <1>1, <1>2 DEF Orderly, Active
<1>4. \A i \in Inode : file[i].sealed # NoUser => rec[i] = file[i].sealed
  BY <1>1, <1>2, NoConcern
<1>5. PICK o \in {IF me.key = NoInode THEN NoUser ELSE rec[me.key], NoUser} :
        CASE me.op = "RETR" -> IF MayRead(me.user, o) THEN GoTo(s, "open") ELSE Done(s)
          [] me.op = "RNFR" ->
               ses' = [ses EXCEPT ![s] =
                 [@ EXCEPT !.pc = "idle", !.op = "none", !.arg = NoName, !.key = NoInode,
                           !.info = [name |-> me.arg, owner |-> o],
                           !.from = IF MayWrite(me.user, o) THEN me.arg ELSE me.from]]
          [] OTHER ->
               IF MayWrite(me.user, o) /\ me.user \in Writers
               THEN ses' = [ses EXCEPT ![s].owner = o, ![s].pc = "delkey"]
               ELSE Done(s)
  BY DEF Get
<1>6. MayWrite(me.user, o) => /\ o = me.user /\ dir[me.arg] \in Inode
                              /\ rec[dir[me.arg]] = me.user
                              /\ file[dir[me.arg]].sealed \in {NoUser, me.user}
  BY <1>3, <1>4, <1>5, Bound DEF MayWrite
<1>7. me \in SessionState
  BY Fields DEF NamedState
<1>8. OneName' /\ \A i \in Inode : file'[i].sealed # NoUser => rec'[i] = file'[i].sealed
  BY <1>1, <1>4 DEF OneName
<1>9. SesFrame(s) => Frame(s)
  BY <1>1 DEF SesFrame, Frame
<1>10. CASE Done(s)
  <2>1. SesFrame(s) /\ ~Active(s)'
    BY <1>3, <1>10, DoneEffect DEF Active
  <2> QED
    BY <1>1, <1>2, <1>3, <1>8, <1>9, <2>1, AloneAtRest
<1>11. CASE me.op = "RETR" /\ GoTo(s, "open")
  <2>1. /\ SesFrame(s) /\ Keeps(s) /\ ses'[s].pc = "open"
        /\ ses'[s].op = "RETR" /\ ses'[s].arg = me.arg
    BY <1>11, GoToEffect
  <2>2. Orderly(s)' /\ Pledged(s)' /\ Entitled(s)'
    BY <1>1, <1>3, <2>1 DEF Keeps, Orderly, Pledged, Entitled, Changing, Active
  <2> QED
    BY <1>2, <1>8, <1>9, <2>1, <2>2, Alone
<1>12. CASE ses' = [ses EXCEPT ![s] =
              [@ EXCEPT !.pc = "idle", !.op = "none", !.arg = NoName, !.key = NoInode,
                        !.info = [name |-> me.arg, owner |-> o],
                        !.from = IF MayWrite(me.user, o) THEN me.arg ELSE me.from]]
  <2>1. /\ SesFrame(s) /\ ses'[s].pc = "idle" /\ ses'[s].op = "none"
        /\ ses'[s].user = me.user /\ ses'[s].info = [name |-> me.arg, owner |-> o]
        /\ ses'[s].from = IF MayWrite(me.user, o) THEN me.arg ELSE me.from
    BY <1>7, <1>12, TypeInvDef DEF SesFrame, SessionState
  <2>2. CASE MayWrite(me.user, o)
    <3>1. Orderly(s)' /\ Entitled(s)'
      BY <1>1, <1>3, <2>1 DEF Orderly, Entitled, Changing, Active
    <3>2. Pledged(s)'
      BY <1>1, <1>6, <2>1, <2>2, NullAssumption DEF Pledged
    <3> QED
      BY <1>2, <1>8, <1>9, <2>1, <3>1, <3>2, Alone
  <2>3. CASE ~MayWrite(me.user, o)
    <3>1. ~Active(s)'
      BY <1>3, <2>1, <2>3 DEF Active
    <3> QED
      BY <1>1, <1>2, <1>3, <1>8, <1>9, <2>1, <3>1, AloneAtRest
  <2> QED
    BY <2>2, <2>3
<1>13. CASE /\ me.op \in {"DELE", "RMD"} /\ MayWrite(me.user, o)
            /\ ses' = [ses EXCEPT ![s].owner = o, ![s].pc = "delkey"]
  <2>1. /\ SesFrame(s) /\ ses'[s].pc = "delkey" /\ ses'[s].owner = o
        /\ ses'[s].op = me.op /\ ses'[s].arg = me.arg /\ ses'[s].user = me.user
        /\ ses'[s].from = me.from
    BY <1>7, <1>13, TypeInvDef DEF SesFrame, SessionState
  <2>2. Orderly(s)' /\ Pledged(s)'
    BY <1>1, <1>3, <1>13, <2>1 DEF Orderly, Pledged, Active
  <2>3. Entitled(s)'
    BY <1>1, <1>6, <1>13, <2>1 DEF Entitled, Changing, Subject
  <2> QED
    BY <1>2, <1>8, <1>9, <2>1, <2>2, <2>3, Alone
<1> QED
  <2>1. CASE me.op = "RETR"
    BY <1>5, <1>10, <1>11, <2>1
  <2>2. CASE me.op = "RNFR"
    BY <1>5, <1>12, <2>2
  <2>3. CASE me.op \in {"DELE", "RMD"}
    BY <1>5, <1>10, <1>13, <2>3
  <2> QED
    BY <1>3, <2>1, <2>2, <2>3

LEMMA KeptByPutKey ==
  ASSUME Turns, OwnersInv, TypeInv', NEW s \in Session, PutKey(s)
  PROVE  OwnersInv'
<1> USE Parts
<1> DEFINE me == ses[s]
           key == dir[me.arg]
<1>1. me.pc = "putkey" /\ UNCHANGED <<dir, file, handle, rec>>
  BY DEF PutKey
<1>2. OthersQuiet(s) /\ Orderly(s) /\ Pledged(s) /\ Entitled(s)
  BY <1>1, Turn DEF Active
<1>3. /\ me.arg \in Name /\ me.user # NoUser /\ handle[s] = NoInode
      /\ me.from # NoName <=> me.op = "RNTO"
      /\ me.op \notin {"none", "RETR", "RNFR"}
  BY <1>1, <1>2 DEF Orderly, Active
<1>4. \A i \in Inode : file[i].sealed # NoUser => rec[i] = file[i].sealed \/ Concern(s, i)
  BY <1>2, OwnConcern
<1>5. SesFrame(s) => Frame(s) /\ OneName'
  BY <1>1 DEF SesFrame, Frame, OneName
<1>6. CASE key # NoInode
  <2>1. ses' = [ses EXCEPT ![s].key = key, ![s].pc = "put"] /\ me \in SessionState
    BY <1>6, Fields DEF PutKey, NamedState
  <2>2. /\ SesFrame(s) /\ Keeps(s) /\ ses'[s].pc = "put" /\ ses'[s].key = key
        /\ ses'[s].op = me.op /\ ses'[s].arg = me.arg
    BY <2>1, TypeInvDef DEF SesFrame, Keeps, SessionState
  <2>3. Orderly(s)'
    BY <1>1, <1>3, <1>6, <2>2 DEF Orderly, Active, Keeps
  <2>4. Pledged(s)'
    BY <1>1, <1>2, <2>2 DEF Pledged, Keeps
  <2>5. Subject(s)' = Subject(s) /\ (Changing(s)' <=> Changing(s))
    BY <1>1, <2>2 DEF Subject, Changing
  <2>6. Entitled(s)'
    BY <1>1, <1>2, <2>2, <2>5 DEF Entitled, Keeps
  <2>7. ASSUME NEW i \in Inode, file'[i].sealed # NoUser
        PROVE  rec'[i] = file'[i].sealed \/ Concern(s, i)'
    BY <1>1, <1>4, <2>2, <2>5, <2>7 DEF Concern
  <2> QED
    BY <1>2, <1>5, <2>2, <2>3, <2>4, <2>6, <2>7, Alone
<1>7. CASE key = NoInode
  <2>1. SesFrame(s) /\ ~Active(s)'
    BY <1>3, <1>7, ReplyEffect DEF PutKey, Active
  <2>2. ASSUME NEW i \in Inode, file'[i].sealed # NoUser PROVE rec'[i] = file'[i].sealed
    BY <1>1, <1>4, <1>7, <2>2, NullAssumption DEF Concern, Subject
  <2> QED
    BY <1>1, <1>2, <1>3, <1>5, <2>1, <2>2, AloneAtRest
<1> QED
  BY <1>6, <1>7

LEMMA KeptByPut ==
  ASSUME Turns, OwnersInv, TypeInv', NEW s \in Session, Put(s)
  PROVE  OwnersInv'
<1> USE Parts
<1> DEFINE me == ses[s]
           uploads == {"STOR", "APPE", "STOU", "MKD"}
<1>1. /\ me.pc = "put" /\ UNCHANGED <<dir, handle>> /\ Reply(s)
      /\ rec' = [rec EXCEPT ![me.key] = NewOwner(me)]
      /\ file' = IF me.op \in uploads /\ file[me.key] # NoFile
                 THEN [file EXCEPT ![me.key].sealed = me.user] ELSE file
  BY DEF Put, Turns
<1>2. OthersQuiet(s) /\ Orderly(s) /\ Pledged(s) /\ Entitled(s)
  BY <1>1, Turn DEF Active
<1>3. /\ me.user # NoUser /\ handle[s] = NoInode /\ me.key \in Inode
      /\ me.from # NoName <=> me.op = "RNTO"
      /\ me.op \in uploads \cup {"DELE", "RMD", "RNTO"}
  <2>1. me.op \in Operations /\ me.key \in Inode \cup {NoInode}
    BY Fields DEF NamedState, SessionState
  <2> QED
    BY <1>1, <1>2, <2>1 DEF Orderly, Active, Operations
<1>4. NewOwner(me) = me.user
  BY <1>1, <1>2, <1>3 DEF NewOwner, Pledged, Entitled, Changing
<1>5. file'[me.key].sealed \in {NoUser, me.user}
  <2>1. CASE me.op \in uploads
    <3>1. file[me.key] = NoFile => file[me.key].sealed = NoUser
      BY DEF NoFile
    <3>2. file[me.key] \in FileState
      BY <1>3, TypeInvDef DEF FileType
    <3> QED
      BY <1>1, <1>3, <2>1, <3>1, <3>2, TypeInvDef DEF FileType, FileState
  <2>2. CASE me.op \notin uploads
    BY <1>1, <1>2, <1>3, <2>2, NullAssumption DEF Entitled, Changing, Subject
  <2> QED
    BY <2>1, <2>2
<1>6. ASSUME NEW i \in Inode, file'[i].sealed # NoUser PROVE rec'[i] = file'[i].sealed
  <2>1. CASE i = me.key
    BY <1>1, <1>3, <1>4, <1>5, <1>6, <2>1, TypeInvDef DEF RecType
  <2>2. CASE i # me.key
    <3>1. file'[i] = file[i] /\ rec'[i] = rec[i]
      BY <1>1, <2>2, TypeInvDef DEF FileType, RecType
    <3>2. ~Concern(s, i)
      BY <1>1, <2>2 DEF Concern, Subject
    <3> QED
      BY <1>2, <1>6, <3>1, <3>2, OwnConcern
  <2> QED
    BY <2>1, <2>2
<1>7. SesFrame(s) /\ ~Active(s)'
  BY <1>1, <1>3, ReplyEffect DEF Active
<1>8. Frame(s) /\ OneName' /\ handle'[s] = NoInode
  BY <1>1, <1>3, <1>7 DEF Frame, SesFrame, OneName
<1> QED
  BY <1>2, <1>6, <1>7, <1>8, AloneAtRest

LEMMA KeptByDeletion ==
  ASSUME Turns, OwnersInv, TypeInv', NEW s \in Session, DeleteKey(s) \/ Delete(s)
  PROVE  OwnersInv'
<1> USE Parts
<1> DEFINE me == ses[s]
<1>1. me.pc \in {"delkey", "delete"} /\ UNCHANGED <<dir, file, handle>>
  BY DEF DeleteKey, Delete
<1>2. OthersQuiet(s) /\ Orderly(s) /\ Pledged(s) /\ Entitled(s)
  BY <1>1, Turn DEF Active
<1>3. /\ me.arg \in Name /\ me.user # NoUser /\ handle[s] = NoInode
      /\ me.from # NoName <=> me.op = "RNTO"
      /\ me.op \in {"DELE", "RMD", "RNTO"}
  BY <1>1, <1>2 DEF Orderly, Active
<1>4. \A i \in Inode : file[i].sealed # NoUser => rec[i] = file[i].sealed
  BY <1>1, <1>2, NoConcern
<1>5. me \in SessionState
  BY Fields DEF NamedState
\* What both have in common: s goes on, and knows its key.
<1>6. ASSUME SesFrame(s), Keeps(s), ses'[s].op = me.op, ses'[s].arg = me.arg,
             ses'[s].pc \in {"delete", "unlink"},
             ses'[s].pc = "delete" => ses'[s].key = dir[me.arg] /\ ses'[s].key # NoInode,
             \A i \in Inode : rec'[i] = rec[i] \/ Concern(s, i)'
      PROVE  OwnersInv'
  <2>1. Orderly(s)'
    BY <1>1, <1>3, <1>6 DEF Orderly, Active, Keeps
  <2>2. Pledged(s)'
    BY <1>1, <1>2, <1>6 DEF Pledged, Keeps
  <2>3. Entitled(s)'
    BY <1>1, <1>2, <1>6 DEF Entitled, Keeps, Changing, Subject
  <2>4. OneName' /\ Frame(s)
    BY <1>1, <1>6 DEF OneName, Frame, SesFrame
  <2> QED
    BY <1>1, <1>2, <1>4, <1>6, <2>1, <2>2, <2>3, <2>4, Alone
<1>7. CASE DeleteKey(s)
  <2> DEFINE key == IF me.op # "RNTO" THEN dir[me.arg]
                    ELSE IF me.info.name = NoName THEN NoInode ELSE dir[me.info.name]
  <2>1. ses' = [ses EXCEPT ![s].key = key,
                           ![s].pc = IF key = NoInode THEN "unlink" ELSE "delete"]
        /\ UNCHANGED rec /\ me.pc = "delkey"
    BY <1>7 DEF DeleteKey
  <2>2. key # NoInode => key = dir[me.arg]
    BY <1>2, <1>3, <2>1 DEF Pledged
  <2> HIDE DEF key
  <2>3. /\ SesFrame(s) /\ Keeps(s) /\ ses'[s].op = me.op /\ ses'[s].arg = me.arg
        /\ ses'[s].key = key /\ ses'[s].pc = IF key = NoInode THEN "unlink" ELSE "delete"
    BY <1>5, <2>1, TypeInvDef DEF SesFrame, Keeps, SessionState
  <2> QED
    BY <1>6, <2>1, <2>2, <2>3
<1>8. CASE Delete(s)
  <2>1. /\ SesFrame(s) /\ Keeps(s) /\ ses'[s].pc = "unlink"
        /\ ses'[s].op = me.op /\ ses'[s].arg = me.arg
    BY <1>8, GoToEffect DEF Delete
  <2>2. me.key = dir[me.arg]
    BY <1>2, <1>8 DEF Delete, Orderly
  <2>3. ASSUME NEW i \in Inode PROVE rec'[i] = rec[i] \/ Concern(s, i)'
    <3>1. CASE i = me.key
      BY <1>1, <1>3, <2>1, <2>2, <3>1 DEF Concern, Changing, Subject
    <3>2. CASE i # me.key
      BY <1>8, <3>2, TypeInvDef DEF Delete, RecType
    <3> QED
      BY <3>1, <3>2
  <2> QED
    BY <1>6, <2>1, <2>3
<1> QED
  BY <1>7, <1>8

-----------------------------------------------------------------------------
(***************************************************************************)
(* The invariant is kept: system calls.                                    *)
(***************************************************************************)
\* Opening, transferring and closing a file change no name and no record.
LEMMA KeptByTransfer ==
  ASSUME Turns, OwnersInv, TypeInv', NEW s \in Session,
         \/ OpenToRead(s) \/ OpenToWrite(s) \/ Connect(s)
         \/ Receive(s) \/ Transferred(s) \/ Aborted(s)
  PROVE  OwnersInv'
<1> USE Parts
<1> DEFINE me == ses[s]
<1>1. me.pc \in {"open", "connect", "transfer"} /\ UNCHANGED rec
  BY DEF OpenToRead, OpenToWrite, Connect, Receive, Transferred, Aborted
<1>2. OthersQuiet(s) /\ Orderly(s)
  BY <1>1, Turn DEF Active
<1>3. /\ me.arg \in Name /\ me.user # NoUser /\ me.from = NoName
      /\ me.op \in {"RETR", "STOR", "APPE", "STOU"}
      /\ me.pc = "open" => handle[s] = NoInode
  BY <1>1, <1>2 DEF Orderly, Active
<1>4. \A i \in Inode : file[i].sealed # NoUser => rec[i] = file[i].sealed
  BY <1>1, <1>2, NoConcern
\* The two ways in which such a step ends.
<1>5. ASSUME SesFrame(s), Keeps(s), ses'[s].op = me.op, ses'[s].arg = me.arg,
             \/ ses'[s].pc \in {"connect", "transfer"}
             \/ ses'[s].pc = "putkey" /\ me.op # "RETR" /\ handle'[s] = NoInode,
             SealsKept, OneName', \A t \in Session \ {s} : handle'[t] = handle[t]
      PROVE  OwnersInv'
  <2>1. Orderly(s)'
    BY <1>3, <1>5 DEF Orderly, Active, Keeps
  <2>2. Pledged(s)' /\ Entitled(s)'
    BY <1>3, <1>5 DEF Pledged, Entitled, Changing, Keeps
  <2>3. \A i \in Inode : file'[i].sealed # NoUser => rec'[i] = file'[i].sealed
    BY <1>1, <1>4, <1>5 DEF SealsKept
  <2> QED
    BY <1>2, <1>5, <2>1, <2>2, <2>3, Alone DEF Frame, SesFrame
<1>6. ASSUME Done(s), handle'[s] = NoInode, UNCHANGED dir, SealsKept,
             \A t \in Session \ {s} : handle'[t] = handle[t]
      PROVE  OwnersInv'
  <2>1. SesFrame(s) /\ ~Active(s)'
    BY <1>3, <1>6, DoneEffect DEF Active
  <2>2. \A i \in Inode : file'[i].sealed # NoUser => rec'[i] = file'[i].sealed
    BY <1>1, <1>4, <1>6 DEF SealsKept
  <2>3. OneName' /\ Frame(s)
    BY <1>6, <2>1 DEF OneName, Frame, SesFrame
  <2> QED
    BY <1>2, <1>6, <2>1, <2>2, <2>3, AloneAtRest
<1>7. UNCHANGED dir => OneName'
  BY DEF OneName
<1>8. UNCHANGED file => SealsKept
  BY DEF SealsKept
<1>9. CASE OpenToRead(s)
  <2>1. UNCHANGED <<dir, file>> /\ me.pc = "open"
    BY <1>9 DEF OpenToRead
  <2>2. \A t \in Session \ {s} : handle'[t] = handle[t]
    BY <1>9, TypeInvDef DEF OpenToRead, HandleType
  <2>3. CASE GoTo(s, "connect")
    BY <1>5, <1>7, <1>8, <2>1, <2>2, <2>3, GoToEffect
  <2>4. CASE Done(s) /\ UNCHANGED handle
    BY <1>3, <1>6, <1>8, <2>1, <2>4
  <2> QED
    BY <1>9, <2>3, <2>4 DEF OpenToRead
<1>10. CASE OpenToWrite(s)
  <2>1. me.pc = "open"
    BY <1>10 DEF OpenToWrite
  <2>2. CASE Done(s) /\ UNCHANGED <<dir, file, handle>>
    BY <1>3, <1>6, <1>8, <2>1, <2>2
  <2>3. ASSUME GoTo(s, "connect"), NEW h \in Inode \cup {NoInode},
               handle' = [handle EXCEPT ![s] = h], SealsKept, OneName'
        PROVE  OwnersInv'
    <3>1. \A t \in Session \ {s} : handle'[t] = handle[t]
      BY <2>3, TypeInvDef DEF HandleType
    <3> QED
      BY <1>5, <2>3, <3>1, GoToEffect
  <2>4. ASSUME GoTo(s, "connect"), NEW i \in Free,
               Disk([dir EXCEPT ![me.arg] = i], [handle EXCEPT ![s] = i],
                    [file EXCEPT ![i] = NewFile("file")])
        PROVE  OwnersInv'
    <3>1. FileType([file EXCEPT ![i] = NewFile("file")])
      BY FreeEffect, NewTypes, TypeInvDef DEF FileType
    <3>2. \A j \in Inode : [file EXCEPT ![i] = NewFile("file")][j].sealed
                             \in {NoUser, file[j].sealed}
      BY FreeEffect, TypeInvDef DEF FileType, NewFile
    <3>3. /\ dir' = [dir EXCEPT ![me.arg] = i] /\ SealsKept
          /\ handle' = [handle EXCEPT ![s] = i]
      BY <2>4, <3>1, <3>2, DiskEffect
    <3>4. OneName'
      BY <1>3, <3>3, FreeEffect, TypeInvDef DEF OneName, DirType
    <3> QED
      BY <2>3, <2>4, <3>3, <3>4, FreeEffect
  <2>5. ASSUME GoTo(s, "connect"),
               Disk(dir, [handle EXCEPT ![s] = dir[me.arg]],
                    [file EXCEPT ![dir[me.arg]] = NewFile("file")])
        PROVE  OwnersInv'
    <3> DEFINE f == [file EXCEPT ![dir[me.arg]] = NewFile("file")]
    <3>1. FileType(f) /\ \A j \in Inode : f[j].sealed \in {NoUser, file[j].sealed}
      BY NewTypes, TypeInvDef DEF FileType, NewFile
    <3>2. dir' = dir /\ SealsKept /\ handle' = [handle EXCEPT ![s] = dir[me.arg]]
      BY <2>5, <3>1, DiskEffect
    <3> QED
      BY <1>3, <1>7, <2>3, <2>5, <3>2, Bound
  <2>6. ASSUME GoTo(s, "connect"), Disk(dir, [handle EXCEPT ![s] = dir[me.arg]], file)
        PROVE  OwnersInv'
    <3>1. dir' = dir /\ SealsKept /\ handle' = [handle EXCEPT ![s] = dir[me.arg]]
      BY <2>6, DiskEffect, TypeInvDef
    <3> QED
      BY <1>3, <1>7, <2>3, <2>6, <3>1, Bound
  <2> QED
    BY <1>10, <2>2, <2>4, <2>5, <2>6 DEF OpenToWrite
<1>11. CASE Close(s) /\ (Done(s) \/ (GoTo(s, "putkey") /\ me.op # "RETR"))
  <2>1. /\ dir' = dir /\ SealsKept /\ handle'[s] = NoInode
        /\ \A t \in Session \ {s} : handle'[t] = handle[t]
    BY <1>11, CloseEffect
  <2> QED
    BY <1>5, <1>6, <1>7, <1>11, <2>1, GoToEffect
<1>12. CASE GoTo(s, "transfer") /\ UNCHANGED <<dir, file, handle>>
  BY <1>5, <1>7, <1>8, <1>12, GoToEffect
<1>13. CASE Receive(s)
  <2>1. /\ UNCHANGED <<dir, handle, ses>> /\ me.pc = "transfer"
        /\ SesFrame(s) /\ Keeps(s)
    BY <1>13 DEF Receive, SesFrame, Keeps
  <2>2. SealsKept
    <3>1. file' = [file EXCEPT ![handle[s]].authors = @ \cup {me.user}]
      BY <1>13 DEF Receive
    <3> QED
      BY <3>1, TypeInvDef DEF SealsKept, FileType, FileState
  <2> QED
    BY <1>5, <1>7, <2>1, <2>2
<1> QED
  BY <1>9, <1>10, <1>11, <1>12, <1>13 DEF Connect, Transferred, Aborted

LEMMA KeptByRename ==
  ASSUME Turns, OwnersInv, TypeInv', NEW s \in Session, Rename(s)
  PROVE  OwnersInv'
<1> USE Parts
<1> DEFINE a == ses[s].from
           b == ses[s].arg
           d == IF a = b THEN dir ELSE [dir EXCEPT ![a] = NoInode, ![b] = dir[a]]
<1>1. ses[s].pc = "rename" /\ UNCHANGED rec
  BY DEF Rename
<1>2. OthersQuiet(s) /\ Orderly(s) /\ Pledged(s)
  BY <1>1, Turn DEF Active
<1>3. /\ a \in Name /\ b \in Name /\ ses[s].user # NoUser /\ handle[s] = NoInode
      /\ a # NoName /\ ses[s].op = "RNTO"
  BY <1>1, <1>2, Fields, NullAssumption DEF Orderly, Active
<1>4. \A i \in Inode : file[i].sealed # NoUser => rec[i] = file[i].sealed
  BY <1>1, <1>2, NoConcern
<1>5. /\ dir[a] \in Inode /\ rec[dir[a]] = ses[s].user
      /\ ses[s].info.name = a /\ ses[s].info.owner = ses[s].user
  BY <1>1, <1>2, <1>3, Bound DEF Pledged
<1>6. CASE Disk(d, handle, file) /\ GoTo(s, "delkey")
  <2>1. dir' = d /\ handle' = handle /\ SealsKept
    BY <1>6, DiskEffect, TypeInvDef
  <2>2. dir'[b] = dir[a] /\ (a # b => dir'[a] = NoInode)
    BY <1>3, <2>1, TypeInvDef DEF DirType
  <2>3. OneName'
    BY <1>3, <2>1, TypeInvDef DEF OneName, DirType
  <2>4. /\ SesFrame(s) /\ Keeps(s) /\ ses'[s].pc = "delkey"
        /\ ses'[s].op = "RNTO" /\ ses'[s].arg = b
    BY <1>3, <1>6, GoToEffect
  <2>5. Orderly(s)'
    BY <1>3, <2>1, <2>4 DEF Orderly, Active, Keeps
  <2>6. Pledged(s)'
    BY <1>5, <2>2, <2>4, NullAssumption DEF Pledged, Keeps
  <2>7. Entitled(s)'
    BY <1>4, <1>5, <2>1, <2>2, <2>4 DEF Entitled, Changing, Subject, SealsKept, Keeps
  <2>8. \A i \in Inode : file'[i].sealed # NoUser => rec'[i] = file'[i].sealed
    BY <1>1, <1>4, <2>1 DEF SealsKept
  <2>9. Frame(s)
    BY <2>1, <2>4 DEF Frame, SesFrame
  <2> QED
    BY <1>2, <2>3, <2>5, <2>6, <2>7, <2>8, <2>9, Alone
<1>7. CASE /\ ses' = [ses EXCEPT ![s] = [@ EXCEPT !.pc = "idle", !.op = "none",
                                                   !.arg = NoName, !.from = NoName]]
           /\ UNCHANGED <<dir, file, handle>>
  <2>1. SesFrame(s) /\ ~Active(s)'
    <3>1. ses[s] \in SessionState
      BY Fields DEF NamedState
    <3> QED
      BY <1>7, <3>1, TypeInvDef DEF SesFrame, SessionState, Active
  <2>2. Frame(s) /\ OneName' /\ handle'[s] = NoInode
    BY <1>3, <1>7, <2>1 DEF Frame, SesFrame, OneName
  <2> QED
    BY <1>1, <1>2, <1>4, <1>7, <2>1, <2>2, AloneAtRest
<1> QED
  BY <1>6, <1>7 DEF Rename

LEMMA KeptByUnlink ==
  ASSUME Turns, OwnersInv, TypeInv', NEW s \in Session, Remove(s) \/ UnlinkFrom(s)
  PROVE  OwnersInv'
<1> USE Parts
<1> DEFINE me == ses[s]
<1>1. me.pc = "unlink" /\ UNCHANGED rec
  BY DEF Remove, UnlinkFrom
<1>2. OthersQuiet(s) /\ Orderly(s) /\ Pledged(s) /\ Entitled(s)
  BY <1>1, Turn DEF Active
<1>3. /\ me.arg \in Name /\ me.user # NoUser /\ handle[s] = NoInode
      /\ me.from # NoName <=> me.op = "RNTO"
      /\ me.op \in {"DELE", "RMD", "RNTO"}
  BY <1>1, <1>2 DEF Orderly, Active
<1>4. \A t \in Session : handle[t] = NoInode
  BY <1>2, <1>3, QuietHandle DEF OthersQuiet, Active
<1>5. \A i \in Inode : file[i].sealed # NoUser => rec[i] = file[i].sealed \/ Concern(s, i)
  BY <1>2, OwnConcern
<1>6. \A i \in Inode : Concern(s, i) <=> dir[me.arg] = i
  BY <1>1, <1>3 DEF Concern, Changing, Subject
\* The file is gone: no record is a concern any more.
<1>7. ASSUME Disk([dir EXCEPT ![me.arg] = NoInode], handle, file), dir[me.arg] # NoInode
      PROVE  /\ dir' = [dir EXCEPT ![me.arg] = NoInode] /\ handle' = handle /\ OneName'
             /\ \A i \in Inode : file'[i].sealed # NoUser => rec'[i] = file'[i].sealed
  <2>1. /\ dir' = [dir EXCEPT ![me.arg] = NoInode] /\ handle' = handle /\ OneName'
        /\ SealsKept /\ file'[dir[me.arg]].sealed = NoUser
    BY <1>3, <1>4, <1>7, UnlinkEffect
  <2> QED
    BY <1>1, <1>5, <1>6, <2>1 DEF SealsKept
\* It is still there: the record is to be put back, or to be written anew.
<1>8. ASSUME UNCHANGED <<dir, file, handle>>, SesFrame(s), ses'[s].pc = "putkey",
             ses'[s].op = me.op, ses'[s].arg = me.arg, ses'[s].user = me.user,
             ses'[s].owner = me.owner, ses'[s].from = me.from,
             ses'[s].info.owner = me.info.owner
      PROVE  OwnersInv'
  <2>1. Orderly(s)'
    BY <1>3, <1>8 DEF Orderly, Active
  <2>2. Pledged(s)'
    BY <1>1, <1>2, <1>8 DEF Pledged
  <2>3. Entitled(s)'
    BY <1>1, <1>2, <1>8 DEF Entitled, Changing, Subject
  <2>4. \A i \in Inode : file'[i].sealed # NoUser
                             => rec'[i] = file'[i].sealed \/ Concern(s, i)'
    BY <1>1, <1>3, <1>5, <1>6, <1>8 DEF Concern, Changing, Subject
  <2>5. OneName' /\ Frame(s)
    BY <1>8 DEF OneName, Frame, SesFrame
  <2> QED
    BY <1>2, <2>1, <2>2, <2>3, <2>4, <2>5, Alone
<1>9. Kind(me.arg) # "none" => dir[me.arg] # NoInode
  BY DEF Kind
<1>10. CASE Remove(s)
  <2>1. CASE Disk([dir EXCEPT ![me.arg] = NoInode], handle, file) /\ Done(s)
             /\ Kind(me.arg) # "none"
    <3>1. SesFrame(s) /\ ~Active(s)'
      BY <1>3, <1>10, <2>1, DoneEffect DEF Active, Remove
    <3>2. Frame(s)
      BY <1>7, <1>9, <2>1, <3>1 DEF Frame, SesFrame
    <3> QED
      BY <1>2, <1>3, <1>7, <1>9, <2>1, <3>1, <3>2, AloneAtRest
  <2>2. CASE GoTo(s, "putkey") /\ UNCHANGED <<dir, file, handle>>
    BY <1>8, <2>2, GoToEffect DEF Keeps
  <2> QED
    BY <1>10, <2>1, <2>2 DEF Remove
<1>11. CASE UnlinkFrom(s)
  <2>1. me \in SessionState /\ me.op = "RNTO"
    BY <1>11, Fields DEF NamedState, UnlinkFrom
  <2>2. /\ SesFrame(s) /\ ses'[s].pc = "putkey"
        /\ ses'[s].op = me.op /\ ses'[s].arg = me.arg /\ ses'[s].user = me.user
        /\ ses'[s].owner = me.owner /\ ses'[s].from = me.from
        /\ ses'[s].info.owner = me.info.owner
    BY <1>11, <2>1, TypeInvDef DEF UnlinkFrom, SesFrame, SessionState
  <2>3. CASE UNCHANGED <<dir, file, handle>>
    BY <1>8, <2>2, <2>3
  <2>4. CASE Disk([dir EXCEPT ![me.from] = NoInode], handle, file) /\ Kind(me.from) = "file"
    <3>1. me.from = me.arg
      BY <1>1, <1>2, <2>1, <2>4 DEF Pledged, Kind
    <3>2. /\ dir' = [dir EXCEPT ![me.arg] = NoInode] /\ handle' = handle /\ OneName'
          /\ \A i \in Inode : file'[i].sealed # NoUser => rec'[i] = file'[i].sealed
      BY <1>7, <1>9, <2>4, <3>1
    <3>3. Orderly(s)'
      BY <1>3, <2>1, <2>2, <3>2 DEF Orderly, Active
    <3>4. Pledged(s)'
      BY <1>2, <2>2, <3>1 DEF Pledged
    <3>5. dir'[me.arg] = NoInode
      BY <1>3, <3>2, TypeInvDef DEF DirType
    <3>6. Entitled(s)'
      BY <2>1, <2>2, <3>5 DEF Entitled, Changing, Subject
    <3>7. Frame(s)
      BY <2>2, <3>2 DEF Frame, SesFrame
    <3> QED
      BY <1>2, <3>2, <3>3, <3>4, <3>6, <3>7, Alone
  <2> QED
    BY <1>11, <2>3, <2>4 DEF UnlinkFrom
<1> QED
  BY <1>10, <1>11

-----------------------------------------------------------------------------
LEMMA OwnersInit == Init => OwnersInv
<1> SUFFICES ASSUME Init PROVE OwnersInv
  OBVIOUS
<1>1. TypeOK
  BY TypeInit DEF TypeInv
<1>2. ASSUME NEW s \in Session
      PROVE  ~Active(s) /\ Orderly(s) /\ Pledged(s) /\ Entitled(s)
  <2>1. ses[s].pc = "idle" /\ ses[s].from = NoName /\ handle[s] = NoInode
    BY DEF Init, NewSession
  <2> QED
    BY <2>1 DEF Active, Orderly, Pledged, Entitled, Changing
<1>3. OneAtATime /\ OneName /\ Recorded
  BY <1>2 DEF Init, OneAtATime, OneName, Recorded, NoFile
<1> QED
  BY <1>1, <1>2, <1>3 DEF OwnersInv

LEMMA OwnersNext == ASSUME Turns PROVE OwnersInv /\ [Next]_vars => OwnersInv'
<1> SUFFICES ASSUME OwnersInv, [Next]_vars PROVE OwnersInv'
  OBVIOUS
<1>1. TypeInv'
  BY OwnersType, TypeNext
<1>2. CASE UNCHANGED vars
  <2>1. UNCHANGED <<dir, file, handle, rec, ses>>
    BY <1>2 DEF vars
  <2>2. TypeOK'
    BY <1>1 DEF TypeInv
  <2>3. OneAtATime' /\ OneName' /\ Recorded'
    BY <2>1 DEF OwnersInv, OneAtATime, Active, OneName, Recorded, Changing, Subject
  <2>4. ASSUME NEW s \in Session PROVE Orderly(s)' /\ Pledged(s)' /\ Entitled(s)'
    BY <2>1 DEF OwnersInv, Orderly, Active, Pledged, Entitled, Changing, Subject
  <2> QED
    BY <2>2, <2>3, <2>4 DEF OwnersInv
<1>3. ASSUME NEW s \in Session, Step(s) PROVE OwnersInv'
  BY <1>1, <1>3, KeptByGet, KeptByPutKey, KeptByPut, KeptByDeletion, KeptByTransfer,
     KeptByRename, KeptByUnlink DEF Step
<1> QED
  BY <1>1, <1>2, <1>3, KeptBetween, KeptAtStart, KeptByMkd DEF Next

-----------------------------------------------------------------------------
\* When the clients take turns (Turns), OwnersInv holds throughout.
THEOREM OwnersInvariant == ASSUME Turns PROVE Spec => []OwnersInv
  BY OwnersInit, OwnersNext, PTL DEF Spec

\* ... so a file that STOR, APPE, STOU or MKD has reported as done is recorded as its
\* user's whenever no command is at work on it (ftpcommands.cpp: PutFileInfo after an
\* upload, and what DELE, RMD and RNTO do with the record), also when the database
\* fails to delete a record.
THEOREM OwnersAlwaysAgree == ASSUME Turns PROVE Spec => []OwnersAgree
<1>1. OwnersInv => OwnersAgree
  <2> SUFFICES ASSUME OwnersInv, NEW i \in Inode, file[i].sealed # NoUser, ~InUse(i)
               PROVE  rec[i] = file[i].sealed
    BY DEF OwnersAgree
  <2>1. ASSUME NEW s \in Session, Concern(s, i) PROVE InUse(i)
    <3>1. ses[s].arg \in Name /\ ses[s].pc # "idle"
      BY <2>1, Parts, Fields DEF Concern, Changing
    <3>2. ses[s].arg # NoName
      BY <3>1, NullAssumption
    <3> QED
      BY <2>1, <3>1, <3>2 DEF Concern, Subject, InUse
  <2> QED
    BY <2>1, Parts
<1> QED
  BY <1>1, OwnersInvariant, PTL

\* ... DELE and RMD remove nobody else's finished file, because the owner is compared
\* on the i-node that they go on to remove (ftpcommands.cpp, GetFileInfo before unlink).
THEOREM OwnersRemove == ASSUME Turns PROVE Spec => OnlyOwnerRemoves
<1>1. OwnersInv /\ [Next]_vars =>
        [\A s \in Session :
           LET n == ses[s].arg IN
           /\ ses[s].op \in {"DELE", "RMD"} /\ ses[s].pc = "unlink"
           /\ dir[n] # NoInode /\ dir'[n] = NoInode
           => file[dir[n]].sealed \in {NoUser, ses[s].user}]_vars
  BY Parts DEF Entitled, Changing, Subject
<1> QED
  BY <1>1, OwnersInvariant, PTL DEF Spec, OnlyOwnerRemoves

\* ... RNTO moves a file that is recorded as its user's, though it was RNFR that looked.
THEOREM OwnersRename == ASSUME Turns PROVE Spec => RenameAuthorised
<1>1. OwnersInv /\ [Next]_vars =>
        [\A s \in Session :
           ses[s].pc = "rename" /\ ses'[s].pc = "delkey"
             => rec[dir[ses[s].from]] = ses[s].user]_vars
  BY Parts DEF Orderly, Pledged
<1> QED
  BY <1>1, OwnersInvariant, PTL DEF Spec, RenameAuthorised

\* ... and an RNTO that replies 250 has left the file under its new name alone, whatever
\* was there before and although it unlinks the old name once more.
THEOREM RenamesKeepFiles == ASSUME Turns PROVE Spec => RenameKeepsFile
<1>1. OwnersInv /\ [Next]_vars =>
        [\A s \in Session :
           /\ ses[s].op = "RNTO" /\ ses[s].from # ses[s].arg
           /\ ses[s].pc \in {"putkey", "put"} /\ ses'[s].pc = "idle"
           => dir'[ses[s].arg] # NoInode /\ dir'[ses[s].from] = NoInode]_vars
  <2> SUFFICES ASSUME OwnersInv, Next, NEW s \in Session,
                      ses[s].op = "RNTO", ses[s].from # ses[s].arg,
                      ses[s].pc \in {"putkey", "put"}, ses'[s].pc = "idle"
               PROVE  dir'[ses[s].arg] # NoInode /\ dir'[ses[s].from] = NoInode
    BY DEF vars
  <2>1. dir[ses[s].arg] # NoInode /\ dir[ses[s].from] = NoInode
    BY Parts DEF Pledged
  <2>2. OthersQuiet(s)
    BY Turn DEF Active
  <2>3. ASSUME NEW t \in Session, NEW n \in Name, Mkd(t, n) PROVE FALSE
    <3>1. OthersQuiet(t) /\ ses[t].pc = "idle"
      BY <2>3, ReadyTurn DEF Mkd, Ready
    <3> QED
      BY <3>1 DEF OthersQuiet, Active
  <2>4. ASSUME NEW t \in Session, Step(t) PROVE UNCHANGED dir
    <3>1. ses[t].pc # "idle"
      BY <2>4 DEF Step, Get, PutKey, Put, DeleteKey, Delete, OpenToRead, OpenToWrite, Connect,
                  Receive, Transferred, Aborted, Rename, Remove, UnlinkFrom
    <3>2. ses[t].pc \in {"putkey", "put"}
      BY <2>2, <3>1 DEF OthersQuiet, Active
    <3>3. PutKey(t) \/ Put(t)
      BY <2>4, <3>2 DEF Step, Get, DeleteKey, Delete, OpenToRead, OpenToWrite, Connect,
                        Receive, Transferred, Aborted, Rename, Remove, UnlinkFrom
    <3> QED
      BY <3>3 DEF PutKey, Put
  <2>5. UNCHANGED dir
    BY <2>3, <2>4 DEF Next, Login, Rein, RntoRefused, Inspect, Upload, Rnto, End, Close, Disk
  <2> QED
    BY <2>1, <2>5
<1> QED
  BY <1>1, OwnersInvariant, PTL DEF Spec, RenameKeepsFile

-----------------------------------------------------------------------------
(***************************************************************************)
(* If moreover no upload breaks off or is appended to another one, nobody  *)
(* is sent the bytes of somebody else's file: the bytes of a file are      *)
(* those of the user it is recorded for.                                   *)
(***************************************************************************)
\* Besides: no upload is aborted, the record of a file can be read, and a file that is
\* there is replaced by an upload, not appended to.
WholeUploads ==
  /\ Turns /\ "abort" \notin Faults /\ "get" \notin Faults
  /\ "APPE" \notin Commands /\ "REST" \notin Commands

\* An upload after its file was opened, until its owner is recorded.
Uploading(s) ==
  /\ ses[s].op \in {"STOR", "STOU", "MKD"}
  /\ ses[s].pc \in {"connect", "transfer", "putkey", "put"}

\* A command works on the file that its argument names: an upload has put nothing but its
\* user's bytes there, and a download was allowed to read them.
Sound(s) ==
  LET me == ses[s] IN
  me.pc # "idle" =>
    /\ me.op # "APPE"
    /\ me.pc \in {"connect", "transfer"} => handle[s] = dir[me.arg] /\ dir[me.arg] # NoInode
    /\ me.pc = "put" => me.key = dir[me.arg]
    /\ Uploading(s) /\ dir[me.arg] # NoInode =>
         file[dir[me.arg]].authors \subseteq (IF me.pc = "connect" THEN {} ELSE {me.user})
    /\ me.op = "RETR" /\ me.pc \in {"open", "connect", "transfer"} /\ dir[me.arg] # NoInode =>
         file[dir[me.arg]].authors \subseteq {me.user, Anonymous}

\* Any other file holds the bytes of the user who was told that it is complete.
Attributed(i) ==
  (\A s \in Session : Uploading(s) => dir[ses[s].arg] # i)
    => file[i].authors \subseteq {file[i].sealed}

ReadInv == (\A s \in Session : Sound(s)) /\ (\A i \in Inode : Attributed(i))

\* No file changes, but for those that go.
Kept == \A i \in Inode : file'[i] = file[i] \/ file'[i].authors = {}

-----------------------------------------------------------------------------
LEMMA SoundAtRest == ASSUME NEW s \in Session, ses'[s].pc = "idle" PROVE Sound(s)'
  BY DEF Sound

\* What is left to show of a step of s when the others are quiet.
LEMMA AloneReads ==
  ASSUME NEW s \in Session, OthersQuiet(s), SesFrame(s), Sound(s)',
         \A i \in Inode : (Uploading(s)' /\ dir'[ses'[s].arg] = i)
                            \/ file'[i].authors \subseteq {file'[i].sealed}
  PROVE  ReadInv'
<1>1. ASSUME NEW t \in Session, t # s PROVE Sound(t)' /\ ~Uploading(t)'
  BY <1>1 DEF OthersQuiet, Active, SesFrame, Sound, Uploading
<1>2. \A t \in Session : Sound(t)'
  BY <1>1
<1>3. ASSUME NEW i \in Inode PROVE Attributed(i)'
  BY <1>1 DEF Attributed
<1> QED
  BY <1>2, <1>3 DEF ReadInv

\* What the invariant says when the others are quiet.
LEMMA OwnFile ==
  ASSUME ReadInv, NEW s \in Session, OthersQuiet(s)
  PROVE  \A i \in Inode : (Uploading(s) /\ dir[ses[s].arg] = i)
                            \/ file[i].authors \subseteq {file[i].sealed}
  BY DEF ReadInv, Attributed, OthersQuiet, Active, Uploading

\* A command that ends, or goes on without an upload.
LEMMA EndsReads ==
  ASSUME ReadInv, NEW s \in Session, OthersQuiet(s), SesFrame(s), Kept, Sound(s)',
         \A i \in Inode : ~(Uploading(s) /\ dir[ses[s].arg] = i)
  PROVE  ReadInv'
  BY OwnFile, AloneReads DEF Kept

\* The files after the file system has given back what nobody uses.
LEMMA DiskFiles ==
  ASSUME NEW d, NEW h, NEW f, Disk(d, h, f)
  PROVE  /\ dir' = d /\ handle' = h
         /\ \A i \in Inode : file'[i] = f[i] \/ file'[i].authors = {}
         /\ \A i \in Inode : i \in Range(d) => file'[i] = f[i]
<1>1. NoFile.authors = {}
  BY DEF NoFile
<1> QED
  BY <1>1 DEF Disk

LEMMA InRange == ASSUME TypeInv, NEW n \in Name PROVE dir[n] \in Range(dir)
  BY TypeInvDef DEF DirType, Range

-----------------------------------------------------------------------------
(***************************************************************************)
(* ReadInv is kept.                                                        *)
(***************************************************************************)
LEMMA ReadsBetween ==
  ASSUME WholeUploads, OwnersInv, ReadInv, NEW s \in Session,
         (\E u \in User : Login(s, u)) \/ Rein(s) \/ RntoRefused(s) \/ End(s)
  PROVE  ReadInv'
<1> USE Parts
<1>1. ses[s].pc = "idle"
  BY DEF Login, Rein, RntoRefused, End, Ready, WholeUploads, Turns
<1>2. SesFrame(s) /\ ses'[s].pc = "idle"
  <2>1. ses[s] \in SessionState
    BY Fields DEF NamedState
  <2>2. CASE \E u \in User : Login(s, u)
    BY <1>1, <2>1, <2>2, TypeInvDef DEF Login, SesFrame, SessionState
  <2>3. CASE Rein(s)
    BY <1>1, <2>1, <2>3, TypeInvDef DEF Rein, SesFrame, SessionState
  <2>4. CASE RntoRefused(s)
    BY <1>1, <2>1, <2>4, TypeInvDef DEF RntoRefused, SesFrame, SessionState
  <2>5. CASE End(s)
    BY <2>5, TypeInvDef DEF End, SesFrame, NewSession
  <2> QED
    BY <2>2, <2>3, <2>4, <2>5
<1>3. UNCHANGED dir /\ Kept /\ \A i \in Inode : i \in Range(dir) => file'[i] = file[i]
  <2>1. CASE End(s)
    BY <2>1, DiskFiles DEF End, Close, Kept
  <2>2. CASE UNCHANGED <<dir, file, handle>>
    BY <2>2 DEF Kept
  <2> QED
    BY <2>1, <2>2 DEF Login, Rein, RntoRefused
<1>4. \A t \in Session : t # s => handle'[t] = handle[t]
  <2>1. CASE End(s)
    BY <2>1, CloseEffect DEF End
  <2>2. CASE UNCHANGED <<dir, file, handle>>
    BY <2>2
  <2> QED
    BY <2>1, <2>2 DEF Login, Rein, RntoRefused
<1>5. ASSUME NEW t \in Session, t # s PROVE Sound(t)' /\ (Uploading(t)' <=> Uploading(t))
  <2>1. ses'[t] = ses[t] /\ handle'[t] = handle[t] /\ Sound(t)
    BY <1>2, <1>4, <1>5 DEF SesFrame, ReadInv
  <2>2. ASSUME ses[t].pc # "idle", dir[ses[t].arg] # NoInode
        PROVE  file'[dir[ses[t].arg]] = file[dir[ses[t].arg]]
    <3>1. ses[t].arg \in Name
      BY <2>2, Fields
    <3>2. dir[ses[t].arg] \in Inode /\ dir[ses[t].arg] \in Range(dir)
      BY <2>2, <3>1, Bound, InRange
    <3> QED
      BY <1>3, <3>2
  <2> QED
    BY <1>3, <2>1, <2>2 DEF Sound, Uploading
<1>6. ASSUME NEW i \in Inode PROVE Attributed(i)'
  <2>1. ~Uploading(s)' /\ ~Uploading(s)
    BY <1>1, <1>2 DEF Uploading
  <2>2. Attributed(i)
    BY DEF ReadInv
  <2>3. \A t \in Session : t # s => ses'[t] = ses[t]
    BY <1>2 DEF SesFrame
  <2> QED
    BY <1>3, <1>5, <2>1, <2>2, <2>3 DEF Attributed, Kept
<1> QED
  BY <1>2, <1>5, <1>6, SoundAtRest DEF ReadInv

LEMMA ReadsAtStart ==
  ASSUME WholeUploads, OwnersInv, ReadInv, NEW s \in Session, NEW n \in Name,
         \/ \E op \in {"RETR", "DELE", "RMD", "RNFR"} : Inspect(s, op, n)
         \/ \E op \in {"STOR", "APPE", "STOU"} : Upload(s, op, n)
         \/ Rnto(s, n)
  PROVE  ReadInv'
<1> USE Parts
<1>1. ASSUME NEW op, NEW key, NEW l \in {"get", "open", "rename"}, Ready(s, op),
             Start(s, op, n, key, l), UNCHANGED <<dir, file, handle>>, l = "open" => op # "RETR"
      PROVE  ReadInv'
  <2>1. op \in Commands /\ ses[s].pc = "idle" /\ OthersQuiet(s)
    BY <1>1, ReadyTurn DEF Ready, WholeUploads
  <2>2. SesFrame(s) /\ ses'[s].pc = l /\ ses'[s].op = op
    BY <1>1, StartEffect
  <2>3. Sound(s)'
    BY <1>1, <2>1, <2>2 DEF Sound, Uploading, WholeUploads
  <2>4. Kept /\ ~Uploading(s)
    BY <1>1, <2>1 DEF Kept, Uploading
  <2> QED
    BY <2>1, <2>2, <2>3, <2>4, EndsReads
<1>2. CASE Rnto(s, n)
  BY <1>1, <1>2 DEF Rnto
<1>3. ASSUME NEW op \in {"RETR", "DELE", "RMD", "RNFR"}, Inspect(s, op, n) PROVE ReadInv'
  BY <1>1, <1>3 DEF Inspect
<1>4. ASSUME NEW op \in {"STOR", "APPE", "STOU"}, Upload(s, op, n) PROVE ReadInv'
  <2>1. op # "RETR"
    OBVIOUS
  <2> QED
    BY <1>1, <1>4, <2>1 DEF Upload
<1> QED
  BY <1>2, <1>3, <1>4

LEMMA ReadsByMkd ==
  ASSUME WholeUploads, OwnersInv, ReadInv, NEW s \in Session, NEW n \in Name, Mkd(s, n)
  PROVE  ReadInv'
<1> USE Parts
<1>1. PICK i \in Free :
        Disk([dir EXCEPT ![n] = i], handle, [file EXCEPT ![i] = NewFile("dir")])
  BY DEF Mkd
<1>2. Ready(s, "MKD") /\ Start(s, "MKD", n, NoInode, "putkey")
  BY DEF Mkd
<1>3. OthersQuiet(s) /\ ses[s].pc = "idle"
  BY <1>2, ReadyTurn DEF Ready, WholeUploads
<1>4. SesFrame(s) /\ ses'[s].pc = "putkey" /\ ses'[s].op = "MKD" /\ ses'[s].arg = n
  BY <1>2, StartEffect
<1>5. i \in Inode /\ NewFile("dir").authors = {}
  BY <1>1, FreeEffect DEF NewFile
<1> DEFINE f == [file EXCEPT ![i] = NewFile("dir")]
<1>a. f[i].authors = {} /\ \A j \in Inode : j # i => f[j] = file[j]
  BY <1>5, TypeInvDef DEF FileType
<1> HIDE DEF f
<1>b. /\ dir' = [dir EXCEPT ![n] = i]
      /\ \A j \in Inode : file'[j] = f[j] \/ file'[j].authors = {}
  BY <1>1, DiskFiles DEF f
<1>6. \A j \in Inode : file'[j] = file[j] \/ file'[j].authors = {}
  BY <1>a, <1>b
<1>7. dir'[n] = i /\ file'[i].authors = {}
  BY <1>5, <1>a, <1>b, TypeInvDef DEF DirType
<1>8. Sound(s)'
  BY <1>4, <1>7 DEF Sound
<1>9. ~Uploading(s)
  BY <1>3 DEF Uploading
<1> QED
  BY <1>3, <1>4, <1>6, <1>8, <1>9, OwnFile, AloneReads

\* RETR may read the file: its user is the one who was told that it is complete.
LEMMA ReadsByGet ==
  ASSUME WholeUploads, OwnersInv, ReadInv, NEW s \in Session, Get(s)
  PROVE  ReadInv'
<1> USE Parts
<1> DEFINE me == ses[s]
           o == IF me.key = NoInode THEN NoUser ELSE rec[me.key]
<1>1. me.pc = "get" /\ UNCHANGED <<dir, file, handle, rec>>
  BY DEF Get
<1>2. OthersQuiet(s) /\ Orderly(s) /\ Sound(s)
  BY <1>1, Turn DEF Active, ReadInv
<1>3. me.op # "APPE" /\ ~Uploading(s) /\ Kept /\ me.arg \in Name
  BY <1>1, <1>2, Fields DEF Sound, Uploading, Kept
<1>4. ASSUME SesFrame(s), Sound(s)' PROVE ReadInv'
  BY <1>2, <1>3, <1>4, EndsReads
<1>5. CASE Done(s)
  BY <1>4, <1>5, DoneEffect, SoundAtRest
<1>6. CASE me.op = "RETR" /\ MayRead(me.user, o) /\ GoTo(s, "open")
  <2>1. /\ SesFrame(s) /\ ses'[s].pc = "open" /\ ses'[s].op = "RETR"
        /\ ses'[s].arg = me.arg /\ ses'[s].user = me.user
    BY <1>6, GoToEffect DEF Keeps
  <2>2. ASSUME dir[me.arg] # NoInode
        PROVE  file[dir[me.arg]].authors \subseteq {me.user, Anonymous}
    <3> DEFINE i == dir[me.arg]
    <3>1. i \in Inode /\ me.key = i
      BY <1>1, <1>2, <1>3, <2>2, Bound DEF Orderly
    <3>2. file[i].authors \subseteq {file[i].sealed} /\ file[i].authors \subseteq User
      BY <1>2, <1>3, <3>1, OwnFile, TypeInvDef DEF FileType, FileState
    <3>3. file[i].sealed # NoUser => rec[i] = file[i].sealed
      BY <1>1, <1>2, <3>1, NoConcern
    <3>4. rec[i] \in {me.user, NoUser, Anonymous}
      BY <1>6, <2>2, <3>1 DEF MayRead
    <3> HIDE DEF i
    <3> QED
      BY <3>2, <3>3, <3>4, NullAssumption DEF i
  <2>3. Sound(s)'
    BY <1>1, <2>1, <2>2 DEF Sound, Uploading
  <2> QED
    BY <1>4, <2>1, <2>3
<1>7. CASE me.op = "RNFR" /\ \E u :
             ses' = [ses EXCEPT ![s] =
               [@ EXCEPT !.pc = "idle", !.op = "none", !.arg = NoName, !.key = NoInode,
                         !.info = [name |-> me.arg, owner |-> u],
                         !.from = IF MayWrite(me.user, u) THEN me.arg ELSE me.from]]
  <2>1. SesFrame(s) /\ ses'[s].pc = "idle"
    BY <1>7, Fields, TypeInvDef DEF SesFrame, NamedState, SessionState
  <2> QED
    BY <1>4, <2>1, SoundAtRest
<1>8. CASE me.op \notin {"RETR", "RNFR"} /\ \E u :
             ses' = [ses EXCEPT ![s].owner = u, ![s].pc = "delkey"]
  <2>1. SesFrame(s) /\ ses'[s].pc = "delkey" /\ ses'[s].op = me.op
    BY <1>8, Fields, TypeInvDef DEF SesFrame, NamedState, SessionState
  <2>2. Sound(s)'
    BY <1>3, <2>1 DEF Sound, Uploading
  <2> QED
    BY <1>4, <2>1, <2>2
<1> HIDE DEF me, o
<1>9. o \in {o} \cup (IF "get" \in Faults THEN {NoUser} ELSE {})
      /\ (IF "get" \in Faults THEN {NoUser} ELSE {}) = {}
  BY DEF WholeUploads
<1> QED
  BY <1>5, <1>6, <1>7, <1>8, <1>9 DEF Get, me, o

LEMMA ReadsByRecording ==
  ASSUME WholeUploads, OwnersInv, ReadInv, NEW s \in Session, PutKey(s) \/ Put(s)
  PROVE  ReadInv'
<1> USE Parts
<1> DEFINE me == ses[s]
<1>1. me.pc \in {"putkey", "put"} /\ UNCHANGED <<dir, handle>>
  BY DEF PutKey, Put
<1>2. OthersQuiet(s) /\ Orderly(s) /\ Sound(s)
  BY <1>1, Turn DEF Active, ReadInv
<1>3. me.op # "APPE" /\ me.arg \in Name
  BY <1>1, <1>2, Fields DEF Sound
<1>4. CASE PutKey(s)
  <2> DEFINE key == dir[me.arg]
  <2>1. UNCHANGED file
    BY <1>4 DEF PutKey
  <2>2. CASE key = NoInode
    <3>1. SesFrame(s) /\ ses'[s].pc = "idle"
      BY <1>4, <2>2, ReplyEffect DEF PutKey
    <3>2. Kept /\ \A i \in Inode : key # i
      BY <2>1, <2>2, NullAssumption DEF Kept
    <3> QED
      BY <1>2, <3>1, <3>2, SoundAtRest, EndsReads
  <2>3. CASE key # NoInode
    <3>1. ses' = [ses EXCEPT ![s].key = key, ![s].pc = "put"] /\ me.pc = "putkey"
      BY <1>4, <2>3 DEF PutKey
    <3>2. /\ SesFrame(s) /\ ses'[s].pc = "put" /\ ses'[s].key = key /\ ses'[s].op = me.op
          /\ ses'[s].arg = me.arg /\ ses'[s].user = me.user
      BY <3>1, Fields, TypeInvDef DEF SesFrame, NamedState, SessionState
    <3>3. Uploading(s)' <=> Uploading(s)
      BY <3>1, <3>2 DEF Uploading
    <3>4. Sound(s)'
      BY <1>1, <1>2, <2>1, <3>1, <3>2, <3>3 DEF Sound
    <3> QED
      BY <1>1, <1>2, <2>1, <3>2, <3>3, <3>4, OwnFile, AloneReads
  <2> QED
    BY <2>2, <2>3
<1>5. CASE Put(s)
  <2>1. SesFrame(s) /\ ses'[s].pc = "idle"
    BY <1>5, ReplyEffect DEF Put
  <2>2. me.key \in Inode /\ me.key = dir[me.arg] /\ me.pc = "put"
    BY <1>2, <1>5, Fields DEF Put, Orderly, Sound
  <2>3. CASE Uploading(s)
    <3>1. file[me.key].authors \subseteq {me.user}
      BY <1>2, <2>2, <2>3, NullAssumption DEF Sound
    <3>2. CASE file[me.key] = NoFile
      <4>1. UNCHANGED file /\ file[me.key].authors = {}
        BY <1>5, <3>2 DEF Put, NoFile
      <4> QED
        BY <1>2, <2>1, <2>2, <4>1, SoundAtRest, OwnFile, AloneReads
    <3>3. CASE file[me.key] # NoFile
      <4>1. file' = [file EXCEPT ![me.key].sealed = me.user]
        BY <1>5, <2>3, <3>3 DEF Put, Uploading
      <4>2. file'[me.key].authors = file[me.key].authors /\ file'[me.key].sealed = me.user
        BY <2>2, <4>1, TypeInvDef DEF FileType, FileState
      <4>3. \A i \in Inode : i # me.key => file'[i] = file[i]
        BY <4>1, TypeInvDef DEF FileType
      <4> QED
        BY <1>2, <2>1, <2>2, <3>1, <4>2, <4>3, SoundAtRest, OwnFile, AloneReads
    <3> QED
      BY <3>2, <3>3
  <2>4. CASE ~Uploading(s)
    <3>1. UNCHANGED file
      BY <1>3, <1>5, <2>2, <2>4 DEF Put, Uploading
    <3> QED
      BY <1>2, <2>1, <2>4, <3>1, SoundAtRest, EndsReads DEF Kept
  <2> QED
    BY <2>3, <2>4
<1> QED
  BY <1>4, <1>5

LEMMA ReadsByDeletion ==
  ASSUME WholeUploads, OwnersInv, ReadInv, NEW s \in Session, DeleteKey(s) \/ Delete(s)
  PROVE  ReadInv'
<1> USE Parts
<1> DEFINE me == ses[s]
<1>1. me.pc \in {"delkey", "delete"} /\ UNCHANGED <<dir, file, handle>>
  BY DEF DeleteKey, Delete
<1>2. OthersQuiet(s) /\ Sound(s)
  BY <1>1, Turn DEF Active, ReadInv
<1>3. me.op # "APPE" /\ ~Uploading(s) /\ Kept
  BY <1>1, <1>2 DEF Sound, Uploading, Kept
<1>4. SesFrame(s) /\ ses'[s].op = me.op /\ ses'[s].pc \in {"delete", "unlink"}
  <2>1. CASE Delete(s)
    BY <2>1, GoToEffect DEF Delete
  <2>2. CASE DeleteKey(s)
    <3> DEFINE key == IF me.op # "RNTO" THEN dir[me.arg]
                      ELSE IF me.info.name = NoName THEN NoInode ELSE dir[me.info.name]
               l   == IF key = NoInode THEN "unlink" ELSE "delete"
    <3>1. ses' = [ses EXCEPT ![s].key = key, ![s].pc = l]
      BY <2>2 DEF DeleteKey
    <3>2. l \in {"delete", "unlink"}
      OBVIOUS
    <3> HIDE DEF key, l
    <3> QED
      BY <3>1, <3>2, Fields, TypeInvDef DEF SesFrame, NamedState, SessionState
  <2> QED
    BY <2>1, <2>2
<1>5. Sound(s)'
  BY <1>3, <1>4 DEF Sound, Uploading
<1> QED
  BY <1>2, <1>3, <1>4, <1>5, EndsReads

LEMMA ReadsByOpening ==
  ASSUME WholeUploads, OwnersInv, ReadInv, NEW s \in Session, OpenToRead(s) \/ OpenToWrite(s)
  PROVE  ReadInv'
<1> USE Parts
<1> DEFINE me == ses[s]
<1>1. me.pc = "open"
  BY DEF OpenToRead, OpenToWrite
<1>2. OthersQuiet(s) /\ Sound(s)
  BY <1>1, Turn DEF Active, ReadInv
<1>3. me.op # "APPE" /\ ~Uploading(s) /\ me.arg \in Name
  BY <1>1, <1>2, Fields DEF Sound, Uploading
<1>4. CASE Done(s) /\ UNCHANGED <<dir, file, handle>>
  BY <1>2, <1>3, <1>4, DoneEffect, SoundAtRest, EndsReads DEF Kept
<1>5. ASSUME GoTo(s, "connect")
      PROVE  /\ SesFrame(s) /\ ses'[s].pc = "connect" /\ ses'[s].op = me.op
             /\ ses'[s].arg = me.arg /\ ses'[s].user = me.user
  BY <1>5, GoToEffect DEF Keeps
<1>6. CASE /\ OpenToRead(s) /\ Kind(me.arg) = "file" /\ GoTo(s, "connect")
            /\ handle' = [handle EXCEPT ![s] = dir[me.arg]]
  <2>1. handle' = [handle EXCEPT ![s] = dir[me.arg]] /\ GoTo(s, "connect")
        /\ UNCHANGED <<dir, file>> /\ me.op = "RETR"
    BY <1>6 DEF OpenToRead
  <2>2. handle'[s] = dir[me.arg] /\ dir[me.arg] # NoInode
    BY <1>6, <2>1, TypeInvDef DEF HandleType, Kind
  <2>3. Sound(s)'
    BY <1>1, <1>2, <1>5, <2>1, <2>2 DEF Sound, Uploading
  <2> QED
    BY <1>2, <1>3, <1>5, <2>1, <2>3, EndsReads DEF Kept
\* A file that is new, or empty.
<1>7. ASSUME OpenToWrite(s), GoTo(s, "connect"), NEW i \in Inode, dir'[me.arg] = i,
             handle' = [handle EXCEPT ![s] = i], file'[i].authors = {}, Kept
      PROVE  ReadInv'
  <2>1. handle'[s] = i /\ i # NoInode
    BY <1>7, TypeInvDef, NullAssumption DEF HandleType
  <2>2. me.op # "RETR"
    BY <1>7 DEF OpenToWrite
  <2>3. Sound(s)'
    BY <1>3, <1>5, <1>7, <2>1, <2>2 DEF Sound, Uploading
  <2> QED
    BY <1>2, <1>3, <1>5, <1>7, <2>3, EndsReads
<1>8. NewFile("file").authors = {}
  BY DEF NewFile
<1>9. ASSUME OpenToWrite(s), GoTo(s, "connect"), NEW i \in Inode, NEW d,
             Disk(d, [handle EXCEPT ![s] = i], [file EXCEPT ![i] = NewFile("file")]),
             d[me.arg] = i
      PROVE  ReadInv'
  <2> DEFINE f == [file EXCEPT ![i] = NewFile("file")]
  <2>1. f[i].authors = {} /\ \A j \in Inode : j # i => f[j] = file[j]
    BY <1>8, TypeInvDef DEF FileType
  <2> HIDE DEF f
  <2>2. /\ dir' = d /\ handle' = [handle EXCEPT ![s] = i]
        /\ \A j \in Inode : file'[j] = f[j] \/ file'[j].authors = {}
    BY <1>9, DiskFiles DEF f
  <2> QED
    BY <1>7, <1>9, <2>1, <2>2 DEF Kept
<1>10. CASE OpenToWrite(s)
  <2>1. ASSUME NEW i \in Free, GoTo(s, "connect"),
               Disk([dir EXCEPT ![me.arg] = i], [handle EXCEPT ![s] = i],
                    [file EXCEPT ![i] = NewFile("file")])
        PROVE  ReadInv'
    <3>1. i \in Inode /\ [dir EXCEPT ![me.arg] = i][me.arg] = i
      BY <1>3, FreeEffect, TypeInvDef DEF DirType
    <3> QED
      BY <1>9, <1>10, <2>1, <3>1
  <2>2. ASSUME Kind(me.arg) = "file", GoTo(s, "connect"),
               Disk(dir, [handle EXCEPT ![s] = dir[me.arg]],
                    [file EXCEPT ![dir[me.arg]] = NewFile("file")])
        PROVE  ReadInv'
    <3>1. dir[me.arg] \in Inode
      BY <1>3, <2>2, Bound
    <3> QED
      BY <1>9, <1>10, <2>2, <3>1
  <2>3. ~(me.op = "APPE" \/ (me.op = "STOR" /\ "REST" \in Commands))
    BY <1>3 DEF WholeUploads
  <2> QED
    BY <1>4, <1>10, <2>1, <2>2, <2>3 DEF OpenToWrite
<1> QED
  BY <1>4, <1>6, <1>10 DEF OpenToRead

LEMMA ReadsByTransfer ==
  ASSUME WholeUploads, OwnersInv, ReadInv, NEW s \in Session,
         Connect(s) \/ Receive(s) \/ Transferred(s) \/ Aborted(s)
  PROVE  ReadInv'
<1> USE Parts
<1> DEFINE me == ses[s]
           i == dir[me.arg]
<1>1. me.pc \in {"connect", "transfer"}
  BY DEF Connect, Receive, Transferred, Aborted
<1>2. OthersQuiet(s) /\ Orderly(s) /\ Sound(s)
  BY <1>1, Turn DEF Active, ReadInv
<1>3. /\ me.op \in {"RETR", "STOR", "STOU"} /\ me.arg \in Name
      /\ handle[s] = i /\ i \in Inode /\ i \in Range(dir)
  <2>1. me.op \in {"RETR", "STOR", "STOU"} /\ me.arg \in Name /\ handle[s] = i /\ i # NoInode
    BY <1>1, <1>2, Fields DEF Orderly, Sound
  <2> QED
    BY <2>1, Bound, InRange
<1>4. Uploading(s) <=> me.op # "RETR"
  BY <1>1, <1>3 DEF Uploading
<1>5. Uploading(s) => file[i].authors \subseteq (IF me.pc = "connect" THEN {} ELSE {me.user})
  BY <1>1, <1>2, <1>3, NullAssumption DEF Sound
<1>6. Close(s) => UNCHANGED dir /\ Kept /\ file'[i] = file[i]
  BY <1>3, DiskFiles DEF Close, Kept
\* A transfer that has not begun, or a download, ends.
<1>7. CASE Close(s) /\ Done(s) /\ (me.op = "RETR" \/ me.pc = "connect")
  <2>1. SesFrame(s) /\ ses'[s].pc = "idle"
    BY <1>7, DoneEffect
  <2>2. \A j \in Inode : file'[j].authors \subseteq {file'[j].sealed}
    BY <1>2, <1>3, <1>4, <1>5, <1>6, <1>7, OwnFile DEF Kept
  <2> QED
    BY <1>2, <2>1, <2>2, SoundAtRest, AloneReads
\* It goes on with the same file.
<1>8. ASSUME NEW l \in {"transfer", "putkey"}, GoTo(s, l), UNCHANGED dir, Kept,
             file'[i] = file[i], l = "transfer" => UNCHANGED handle,
             l = "putkey" => me.op # "RETR"
      PROVE  ReadInv'
  <2>1. /\ SesFrame(s) /\ ses'[s].pc = l /\ ses'[s].op = me.op
        /\ ses'[s].arg = me.arg /\ ses'[s].user = me.user
    BY <1>8, GoToEffect DEF Keeps
  <2>2. Uploading(s)' <=> Uploading(s)
    BY <1>1, <1>8, <2>1 DEF Uploading
  <2>3. Sound(s)'
    BY <1>1, <1>2, <1>3, <1>5, <1>8, <2>1, <2>2, NullAssumption DEF Sound
  <2> QED
    BY <1>2, <1>8, <2>1, <2>2, <2>3, OwnFile, AloneReads DEF Kept
<1>9. CASE Connect(s)
  <2>1. CASE GoTo(s, "transfer") /\ UNCHANGED <<dir, file, handle>>
    BY <1>8, <2>1 DEF Kept
  <2> QED
    BY <1>7, <1>9, <2>1 DEF Connect
<1>10. CASE Transferred(s)
  <2>1. CASE me.op # "RETR"
    BY <1>6, <1>8, <1>10, <2>1 DEF Transferred
  <2> QED
    BY <1>7, <1>10, <2>1 DEF Transferred
<1>11. CASE Receive(s)
  <2>1. /\ file' = [file EXCEPT ![i].authors = file[i].authors \cup {me.user}]
        /\ UNCHANGED <<dir, handle, ses>> /\ me.op # "RETR" /\ me.pc = "transfer"
    BY <1>3, <1>11 DEF Receive
  <2>2. file'[i].authors = file[i].authors \cup {me.user} /\ \A j \in Inode : j # i => file'[j] = file[j]
    BY <1>3, <2>1, TypeInvDef DEF FileType, FileState
  <2>3. file'[i].authors \subseteq {me.user}
    BY <1>4, <1>5, <2>1, <2>2
  <2>4. Sound(s)'
    BY <1>1, <1>2, <2>1, <2>3 DEF Sound, Uploading
  <2> QED
    BY <1>2, <1>3, <1>4, <2>1, <2>2, <2>4, OwnFile, AloneReads DEF SesFrame, Uploading
<1> QED
  BY <1>9, <1>10, <1>11 DEF Aborted, WholeUploads

LEMMA ReadsByNaming ==
  ASSUME WholeUploads, OwnersInv, ReadInv, NEW s \in Session,
         Rename(s) \/ Remove(s) \/ UnlinkFrom(s)
  PROVE  ReadInv'
<1> USE Parts
<1> DEFINE me == ses[s]
<1>1. me.pc \in {"rename", "unlink"}
  BY DEF Rename, Remove, UnlinkFrom
<1>2. OthersQuiet(s) /\ Orderly(s)
  BY <1>1, Turn DEF Active
<1>3. ~Uploading(s) /\ me.op \in {"DELE", "RMD", "RNTO"}
  BY <1>1, <1>2 DEF Uploading, Orderly
<1>4. Kept
  <2>1. ASSUME NEW d, Disk(d, handle, file) PROVE Kept
    BY <2>1, DiskFiles DEF Kept
  <2>2. CASE UNCHANGED file
    BY <2>2 DEF Kept
  <2> QED
    BY <2>1, <2>2 DEF Rename, Remove, UnlinkFrom
<1>5. /\ SesFrame(s)
      /\ ses'[s].pc = "idle" \/ (ses'[s].pc \in {"delkey", "putkey"} /\ ses'[s].op = me.op)
  <2>1. CASE GoTo(s, "delkey") \/ GoTo(s, "putkey")
    BY <2>1, GoToEffect
  <2>2. CASE Done(s)
    BY <2>2, DoneEffect
  <2>3. CASE ses' = [ses EXCEPT ![s] = [@ EXCEPT !.pc = "idle", !.op = "none",
                                                 !.arg = NoName, !.from = NoName]]
    BY <2>3, Fields, TypeInvDef DEF SesFrame, NamedState, SessionState
  <2>4. CASE ses' = [ses EXCEPT ![s].info.name = me.arg, ![s].pc = "putkey"]
    BY <2>4, Fields, TypeInvDef DEF SesFrame, NamedState, SessionState
  <2> QED
    BY <2>1, <2>2, <2>3, <2>4 DEF Rename, Remove, UnlinkFrom
<1>6. Sound(s)'
  BY <1>3, <1>5 DEF Sound, Uploading
<1> QED
  BY <1>2, <1>3, <1>4, <1>5, <1>6, EndsReads

-----------------------------------------------------------------------------
LEMMA ReadsNext == ASSUME WholeUploads PROVE OwnersInv /\ ReadInv /\ [Next]_vars => ReadInv'
<1> SUFFICES ASSUME OwnersInv, ReadInv, [Next]_vars PROVE ReadInv'
  OBVIOUS
<1>1. CASE UNCHANGED vars
  BY <1>1 DEF vars, ReadInv, Sound, Attributed, Uploading
<1>2. ASSUME NEW s \in Session, Step(s) PROVE ReadInv'
  BY <1>2, ReadsByGet, ReadsByRecording, ReadsByDeletion, ReadsByOpening, ReadsByTransfer,
     ReadsByNaming DEF Step
<1> QED
  BY <1>1, <1>2, ReadsBetween, ReadsAtStart, ReadsByMkd DEF Next

\* Under these conditions (WholeUploads) a download never sends the bytes of another user
\* than the one who downloads and "anonymous": the owner is that of the bytes when RETR
\* looks, and when it sends (ftpcommands.cpp Fretr, VFS.cpp GetFileInfo).
THEOREM ReadersAreOwners == ASSUME WholeUploads PROVE Spec => []NoForeignRead
<1>1. Init => ReadInv
  <2>1. ASSUME Init PROVE ReadInv
    <3>1. NewSession.pc = "idle" /\ NoFile.authors = {}
      BY DEF NewSession, NoFile
    <3> QED
      BY <2>1, <3>1 DEF Init, ReadInv, Sound, Attributed
  <2> QED
    BY <2>1
<1>2. Turns
  BY DEF WholeUploads
<1>3. OwnersInv /\ ReadInv /\ [Next]_vars => ReadInv'
  BY ReadsNext
<1>4. ReadInv => NoForeignRead
  BY DEF ReadInv, Sound, NoForeignRead
<1>5. Spec => []OwnersInv
  BY <1>2, OwnersInvariant
<1> QED
  BY <1>1, <1>3, <1>4, <1>5, PTL DEF Spec
================================================================================
