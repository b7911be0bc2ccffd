----------------------------- MODULE FileCommands -----------------------------
(***************************************************************************)
(* The file commands of src/src/ftpcommands.cpp: RETR, STOR, APPE, STOU,   *)
(* DELE, MKD, RMD, RNFR and RNTO, run by several sessions (forked children)*)
(* on the names of one directory of the virtual tree.                      *)
(*                                                                         *)
(* Two stores have to be kept in agreement: the file system, where a name  *)
(* is bound to an i-node and an i-node goes when its last name and its     *)
(* last open file go, and the database of owners, which is keyed by i-node *)
(* and is only told about a file by its NAME: every database call asks     *)
(* stat() for the key first and reaches the record later.  A step is one   *)
(* system call or one database call; the three database calls are the      *)
(* atomic ones of FileInfoStore.                                           *)
(*                                                                         *)
(* The program only ever stores the rights "all for the owner, nothing for *)
(* the others", so a record is its owner.                                  *)
(***************************************************************************)
EXTENDS Naturals, FiniteSets, Functions

CONSTANTS Session, User, Name, Inode,
          NoUser, NoName, NoInode, \* "none"
          Anonymous,        \* the user "anonymous", whose files everybody may read
          Writers,          \* the users that may write to the directory
          Commands,         \* the commands the clients use
          MayName,          \* session -> names its client makes changes under
          Faults,           \* "connect": no data connection, "abort": ABOR or a
                            \*   lost connection, "get", "put", "delete": that
                            \*   database call fails, "kill": a process is killed
          TakeTurns,        \* a command, or a pair of RNFR and RNTO, starts only
                            \*   when no other one is running
          StrictClients     \* RNTO directly follows its RNFR, as RFC 959 wants it

ASSUME NullAssumption ==
  NoUser \notin User /\ NoName \notin Name /\ NoInode \notin Inode
ASSUME ClientAssumption ==
  /\ MayName \in [Session -> SUBSET Name]
  /\ Writers \subseteq User
  /\ Faults \subseteq {"connect", "abort", "get", "put", "delete", "kill"}
  /\ TakeTurns \in BOOLEAN /\ StrictClients \in BOOLEAN

VARIABLES dir,    \* name -> i-node: the entries of the directory
          file,   \* i-node -> what it is and whose bytes it holds
          handle, \* session -> i-node of the file it has open
          rec,    \* i-node -> owner, or NoUser: the database
          ses     \* session -> the globals and locals of its process

vars == <<dir, file, handle, rec, ses>>

\* sealed is a history field: the user who was told 226 (or 257) for it last.
NoFile == [kind |-> "none", authors |-> {}, sealed |-> NoUser]
NewFile(kind) == [kind |-> kind, authors |-> {}, sealed |-> NoUser]

\* user: current_user; from, info: rename_from, rename_from_info; the rest are
\* locals of the command that runs: its name, argument, key and file owner.
NewSession ==
  [user |-> NoUser, pc |-> "idle", op |-> "none", arg |-> NoName, key |-> NoInode,
   owner |-> NoUser, from |-> NoName, info |-> [name |-> NoName, owner |-> NoUser]]

Init ==
  /\ dir = [n \in Name |-> NoInode]
  /\ file = [i \in Inode |-> NoFile]
  /\ handle = [s \in Session |-> NoInode]
  /\ rec = [i \in Inode |-> NoUser]
  /\ ses = [s \in Session |-> NewSession]

-----------------------------------------------------------------------------
Kind(n) == IF dir[n] = NoInode THEN "none" ELSE file[dir[n]].kind

Free == {i \in Inode : i \notin Range(dir) \cup Range(handle)}

(***************************************************************************)
(* The file system after a step: i-nodes without a name and without an     *)
(* open file are given back.                                               *)
(***************************************************************************)
Disk(d, h, f) ==
  /\ dir' = d
  /\ handle' = h
  /\ file' = [i \in Inode |-> IF i \in Range(d) \cup Range(h) THEN f[i] ELSE NoFile]

\* Session s goes on at pc l, or ends its command.
GoTo(s, l) == ses' = [ses EXCEPT ![s].pc = l]
Done(s) ==
  ses' = [ses EXCEPT ![s] = [@ EXCEPT !.pc = "idle", !.op = "none", !.arg = NoName,
                                      !.key = NoInode, !.owner = NoUser]]

\* The command replies: RNTO forgets rename_from, and MKD, which falls off the end
\* of its function without a return value, may end the session with it.
Reply(s) ==
  \/ ses' = [ses EXCEPT ![s] =
       [@ EXCEPT !.pc = "idle", !.op = "none", !.arg = NoName, !.key = NoInode,
                 !.owner = NoUser,
                 !.from = IF ses[s].op = "RNTO" THEN NoName ELSE ses[s].from]]
  \/ ses[s].op = "MKD" /\ ses' = [ses EXCEPT ![s] = NewSession]

\* Mutant of MayRead: any user that has logged in may read.
MayReadLoggedIn(u, o) == u # NoUser

\* Mutant of MayWrite: the owner is not compared.
MayWriteLoggedIn(u, o) == u # NoUser

\* The rights checks: of RETR, and of DELE, RMD and RNFR, on the owner o that
\* GetFileInfo gave (no record: R_READ for everybody, R_WRITE for nobody).
MayRead(u, o) == o \in {u, NoUser, Anonymous}
MayWrite(u, o) == u # NoUser /\ o = u

-----------------------------------------------------------------------------
(***************************************************************************)
(* Commands.                                                               *)
(***************************************************************************)
Ready(s, op) ==
  /\ ses[s].pc = "idle" /\ ses[s].user # NoUser
  /\ op \in Commands
  /\ TakeTurns => \A t \in Session \ {s} : ses[t].pc = "idle" /\ ses[t].from = NoName
  /\ StrictClients => (op = "RNTO" <=> ses[s].from # NoName)

Start(s, op, n, key, l) ==
  ses' = [ses EXCEPT ![s] = [@ EXCEPT !.op = op, !.arg = n, !.key = key, !.pc = l]]

\* These ask GetFileInfo about their file first; its key is read at once.
Inspect(s, op, n) ==
  /\ op \in {"RETR", "DELE", "RMD", "RNFR"} /\ Ready(s, op)
  /\ op # "RETR" => n \in MayName[s]
  /\ Start(s, op, n, dir[n], "get")
  /\ UNCHANGED <<dir, file, handle, rec>>

\* These ask AllowedToWriteToDir only, whatever the name is bound to.
Upload(s, op, n) ==
  /\ op \in {"STOR", "APPE", "STOU"} /\ Ready(s, op)
  /\ ses[s].user \in Writers /\ n \in MayName[s]
  /\ Start(s, op, n, NoInode, "open")
  /\ UNCHANGED <<dir, file, handle, rec>>

Mkd(s, n) ==
  /\ Ready(s, "MKD")
  /\ ses[s].user \in Writers /\ n \in MayName[s]
  /\ dir[n] = NoInode
  /\ \E i \in Free :
       Disk([dir EXCEPT ![n] = i], handle, [file EXCEPT ![i] = NewFile("dir")])
  /\ Start(s, "MKD", n, NoInode, "putkey")
  /\ UNCHANGED rec

Rnto(s, n) ==
  /\ Ready(s, "RNTO")
  /\ ses[s].from # NoName
  /\ ses[s].user \in Writers /\ n \in MayName[s]
  /\ Start(s, "RNTO", n, NoInode, "rename")
  /\ UNCHANGED <<dir, file, handle, rec>>

\* The new name lies in a directory that the user may not write to.
RntoRefused(s) ==
  /\ Ready(s, "RNTO")
  /\ ses[s].from # NoName
  /\ ses' = [ses EXCEPT ![s].from = NoName]
  /\ UNCHANGED <<dir, file, handle, rec>>

\* USER and PASS; REIN logs the user out and keeps rename_from.
Login(s, u) ==
  /\ ses[s].pc = "idle" /\ ses[s].user = NoUser
  /\ ses' = [ses EXCEPT ![s].user = u]
  /\ UNCHANGED <<dir, file, handle, rec>>

Rein(s) ==
  /\ Ready(s, "REIN")
  /\ ses' = [ses EXCEPT ![s].user = NoUser]
  /\ UNCHANGED <<dir, file, handle, rec>>

-----------------------------------------------------------------------------
(***************************************************************************)
(* Database calls.  A failed GetFileInfo counts as "no record"; the result *)
(* of PutFileInfo and DeleteFileInfo is never looked at.                   *)
(***************************************************************************)
\* Mutant of Get: DELE and RMD remove the file first and its record afterwards.
GetUnlinkFirst(s) ==
  LET me == ses[s]
      o == IF me.key = NoInode THEN NoUser ELSE rec[me.key]
  IN
  /\ me.pc = "get"
  /\ IF me.op = "RETR" /\ MayRead(me.user, o) THEN GoTo(s, "open")
     ELSE IF me.op # "RETR" /\ MayWrite(me.user, o) THEN GoTo(s, "unlink")
     ELSE Done(s)
  /\ UNCHANGED <<dir, file, handle, rec>>

Get(s) ==
  LET me == ses[s] IN
  /\ me.pc = "get"
  /\ \E o \in {IF me.key = NoInode THEN NoUser ELSE rec[me.key]}
              \cup (IF "get" \in Faults THEN {NoUser} ELSE {}) :
       CASE me.op = "RETR" ->
              IF MayRead(me.user, o) THEN GoTo(s, "open") ELSE Done(s)
         [] me.op = "RNFR" ->
              ses' = [ses EXCEPT ![s] =
                [@ EXCEPT !.pc = "idle", !.op = "none", !.arg = NoName, !.key = NoInode,
                          !.info = [name |-> me.arg, owner |-> o],
                          !.from = IF MayWrite(me.user, o) THEN me.arg ELSE me.from]]
         [] OTHER ->
              IF MayWrite(me.user, o) /\ me.user \in Writers
              THEN ses' = [ses EXCEPT ![s].owner = o, ![s].pc = "delkey"]
              ELSE Done(s)
  /\ UNCHANGED <<dir, file, handle, rec>>

\* Mutant of PutKey: the result of File2Key is not looked at.
PutKeyUnchecked(s) ==
  /\ ses[s].pc = "putkey"
  /\ ses' = [ses EXCEPT ![s].key = dir[ses[s].arg], ![s].pc = "put"]
  /\ UNCHANGED <<dir, file, handle, rec>>

\* PutFileInfo stats the name; a file that is gone is not recorded.
PutKey(s) ==
  LET key == dir[ses[s].arg] IN
  /\ ses[s].pc = "putkey"
  /\ IF key # NoInode
     THEN ses' = [ses EXCEPT ![s].key = key, ![s].pc = "put"]
     ELSE Reply(s)
  /\ UNCHANGED <<dir, file, handle, rec>>

\* What a command records: an upload its user, RNTO the owner that RNFR saw,
\* DELE and RMD the owner they had removed.
NewOwner(me) ==
  CASE me.op \in {"STOR", "APPE", "STOU", "MKD"} -> me.user
    [] me.op = "RNTO" -> me.info.owner
    [] OTHER -> me.owner

Put(s) ==
  LET me == ses[s] IN
  /\ me.pc = "put"
  /\ \/ rec' = [rec EXCEPT ![me.key] = NewOwner(me)]
     \/ "put" \in Faults /\ UNCHANGED rec
  /\ file' = IF me.op \in {"STOR", "APPE", "STOU", "MKD"} /\ file[me.key] # NoFile
             THEN [file EXCEPT ![me.key].sealed = me.user] ELSE file
  /\ Reply(s)
  /\ UNCHANGED <<dir, handle>>

\* DeleteFileInfo: RNTO names the file that RNFR asked about last.
DeleteKey(s) ==
  LET me  == ses[s]
      key == IF me.op # "RNTO" THEN dir[me.arg]
             ELSE IF me.info.name = NoName THEN NoInode ELSE dir[me.info.name]
  IN
  /\ me.pc = "delkey"
  /\ ses' = [ses EXCEPT ![s].key = key,
                        ![s].pc = IF key = NoInode THEN "unlink" ELSE "delete"]
  /\ UNCHANGED <<dir, file, handle, rec>>

Delete(s) ==
  /\ ses[s].pc = "delete"
  /\ \/ rec' = [rec EXCEPT ![ses[s].key] = NoUser]
     \/ "delete" \in Faults /\ UNCHANGED rec
  /\ GoTo(s, "unlink")
  /\ UNCHANGED <<dir, file, handle>>

-----------------------------------------------------------------------------
(***************************************************************************)
(* System calls on files.  Each may fail for a reason of its own: rights,  *)
(* a directory that is not empty, a full disk.                             *)
(***************************************************************************)
\* fopen(name, "r"); a directory can be opened but not read.
OpenToRead(s) ==
  LET n == ses[s].arg IN
  /\ ses[s].pc = "open" /\ ses[s].op = "RETR"
  /\ \/ Kind(n) = "file" /\ handle' = [handle EXCEPT ![s] = dir[n]] /\ GoTo(s, "connect")
     \/ Done(s) /\ UNCHANGED handle
  /\ UNCHANGED <<dir, file, rec>>

\* fopen(name, "w") of STOR empties the file; fopen(name, "a") of APPE, and of
\* a STOR that a REST preceded, keeps it; open(O_EXCL) of STOU wants a new name.
OpenToWrite(s) ==
  LET me == ses[s]
      n  == me.arg
      create == /\ dir[n] = NoInode
                /\ \E i \in Free :
                     Disk([dir EXCEPT ![n] = i], [handle EXCEPT ![s] = i],
                          [file EXCEPT ![i] = NewFile("file")])
      empty  == /\ Kind(n) = "file" /\ me.op = "STOR"
                /\ Disk(dir, [handle EXCEPT ![s] = dir[n]],
                        [file EXCEPT ![dir[n]] = NewFile("file")])
      keep   == /\ Kind(n) = "file"
                /\ me.op = "APPE" \/ (me.op = "STOR" /\ "REST" \in Commands)
                /\ Disk(dir, [handle EXCEPT ![s] = dir[n]], file)
  IN
  /\ me.pc = "open" /\ me.op \in {"STOR", "APPE", "STOU"}
  /\ \/ (create \/ empty \/ keep) /\ GoTo(s, "connect")
     \/ Done(s) /\ UNCHANGED <<dir, file, handle>>
  /\ UNCHANGED rec

Close(s) == Disk(dir, [handle EXCEPT ![s] = NoInode], file)

\* CreateDataConnection; the file is open already.
Connect(s) ==
  /\ ses[s].pc = "connect"
  /\ \/ GoTo(s, "transfer") /\ UNCHANGED <<dir, file, handle>>
     \/ "connect" \in Faults /\ Close(s) /\ Done(s)
  /\ UNCHANGED rec

Receive(s) ==
  LET i == handle[s] IN
  /\ ses[s].pc = "transfer" /\ ses[s].op # "RETR"
  /\ ses[s].user \notin file[i].authors
  /\ file' = [file EXCEPT ![i].authors = @ \cup {ses[s].user}]
  /\ UNCHANGED <<dir, handle, rec, ses>>

\* End of the file: an upload is closed and goes on to PutFileInfo.
Transferred(s) ==
  /\ ses[s].pc = "transfer"
  /\ Close(s)
  /\ IF ses[s].op = "RETR" THEN Done(s) ELSE GoTo(s, "putkey")
  /\ UNCHANGED rec

\* ABOR, a lost data connection, a write error: the command just returns.
Aborted(s) ==
  /\ ses[s].pc = "transfer" /\ "abort" \in Faults
  /\ Close(s)
  /\ Done(s)
  /\ UNCHANGED rec

\* rename(rename_from, rename_to) replaces a file by a file, a directory by a
\* directory, and does nothing when the two names are one.
Rename(s) ==
  LET a == ses[s].from
      b == ses[s].arg
  IN
  /\ ses[s].pc = "rename"
  /\ \/ /\ Kind(a) # "none" /\ Kind(b) \in {Kind(a), "none"}
        /\ Disk(IF a = b THEN dir ELSE [dir EXCEPT ![a] = NoInode, ![b] = dir[a]],
                handle, file)
        /\ GoTo(s, "delkey")
     \/ /\ ses' = [ses EXCEPT ![s] = [@ EXCEPT !.pc = "idle", !.op = "none",
                                               !.arg = NoName, !.from = NoName]]
        /\ UNCHANGED <<dir, file, handle>>
  /\ UNCHANGED rec

\* Mutant of Remove: the record is not put back.
RemoveForgetful(s) ==
  LET me == ses[s] IN
  /\ me.pc = "unlink" /\ me.op \in {"DELE", "RMD"}
  /\ \/ /\ Kind(me.arg) = (IF me.op = "DELE" THEN "file" ELSE "dir")
        /\ Disk([dir EXCEPT ![me.arg] = NoInode], handle, file)
     \/ UNCHANGED <<dir, file, handle>>
  /\ Done(s)
  /\ UNCHANGED rec

\* DELE unlinks a file, RMD removes a directory; if that fails they put the
\* record back.
Remove(s) ==
  LET me == ses[s] IN
  /\ me.pc = "unlink" /\ me.op \in {"DELE", "RMD"}
  /\ \/ /\ Kind(me.arg) = (IF me.op = "DELE" THEN "file" ELSE "dir")
        /\ Disk([dir EXCEPT ![me.arg] = NoInode], handle, file)
        /\ Done(s)
     \/ GoTo(s, "putkey") /\ UNCHANGED <<dir, file, handle>>
  /\ UNCHANGED rec

\* Mutant of UnlinkFrom: the name of the file is taken from its new record.
UnlinkTo(s) ==
  LET me == ses[s] IN
  /\ me.pc = "unlink" /\ me.op = "RNTO"
  /\ \/ Kind(me.arg) = "file" /\ Disk([dir EXCEPT ![me.arg] = NoInode], handle, file)
     \/ UNCHANGED <<dir, file, handle>>
  /\ ses' = [ses EXCEPT ![s].info.name = me.arg, ![s].pc = "putkey"]
  /\ UNCHANGED rec

\* RNTO unlinks the old name once more, and goes on to record the new one; it does
\* not look at the result of unlink().
UnlinkFrom(s) ==
  LET me == ses[s] IN
  /\ me.pc = "unlink" /\ me.op = "RNTO"
  /\ \/ Kind(me.from) = "file" /\ Disk([dir EXCEPT ![me.from] = NoInode], handle, file)
     \/ UNCHANGED <<dir, file, handle>>
  /\ ses' = [ses EXCEPT ![s].info.name = me.arg, ![s].pc = "putkey"]
  /\ UNCHANGED rec

-----------------------------------------------------------------------------
\* The client leaves, or its process is killed; the kernel closes its file.
End(s) ==
  /\ ses[s].user # NoUser
  /\ ses[s].pc = "idle" \/ "kill" \in Faults
  /\ ses' = [ses EXCEPT ![s] = NewSession]
  /\ Close(s)
  /\ UNCHANGED rec

Step(s) ==
  \/ Get(s) \/ PutKey(s) \/ Put(s) \/ DeleteKey(s) \/ Delete(s)
  \/ OpenToRead(s) \/ OpenToWrite(s) \/ Connect(s)
  \/ Receive(s) \/ Transferred(s) \/ Aborted(s)
  \/ Rename(s) \/ Remove(s) \/ UnlinkFrom(s)

Next ==
  \E s \in Session :
    \/ \E u \in User : Login(s, u)
    \/ Rein(s)
    \/ RntoRefused(s)
    \/ \E n \in Name :
         \/ \E op \in {"RETR", "DELE", "RMD", "RNFR"} : Inspect(s, op, n)
         \/ \E op \in {"STOR", "APPE", "STOU"} : Upload(s, op, n)
         \/ Mkd(s, n)
         \/ Rnto(s, n)
    \/ Step(s)
    \/ End(s)

Spec == Init /\ [][Next]_vars

-----------------------------------------------------------------------------
Locations == {"idle", "get", "open", "connect", "transfer", "putkey", "put",
              "delkey", "delete", "rename", "unlink"}

Operations == {"none", "RETR", "DELE", "RMD", "RNFR", "STOR", "APPE", "STOU",
               "MKD", "RNTO"}

SessionState ==
  [user : User \cup {NoUser}, pc : Locations, op : Operations,
   arg : Name \cup {NoName}, key : Inode \cup {NoInode}, owner : User \cup {NoUser},
   from : Name \cup {NoName},
   info : [name : Name \cup {NoName}, owner : User \cup {NoUser}]]

\* Every variable has its type, and no record is written or deleted without the
\* key that File2Key was asked for.
TypeOK ==
  /\ dir \in [Name -> Inode \cup {NoInode}]
  /\ file \in [Inode -> [kind : {"none", "file", "dir"}, authors : SUBSET User,
                         sealed : User \cup {NoUser}]]
  /\ handle \in [Session -> Inode \cup {NoInode}]
  /\ rec \in [Inode -> User \cup {NoUser}]
  /\ ses \in [Session -> SessionState]
  /\ \A s \in Session : ses[s].pc \in {"delete", "put"} => ses[s].key \in Inode

\* A command is running on the file that i is the i-node of.
InUse(i) ==
  \E s \in Session : /\ ses[s].pc # "idle"
                     /\ \/ i \in {ses[s].key, handle[s]}
                        \/ \E n \in {ses[s].arg, ses[s].from} \ {NoName} : dir[n] = i

\* Uploaders become the owners of what they upload (user_manual.rtf): the file
\* that STOR, APPE, STOU or MKD reported as done is recorded as the user's who
\* was told so, as long as no command is at work on it.
OwnersAgree ==
  \A i \in Inode :
    file[i].sealed # NoUser /\ ~InUse(i) => rec[i] = file[i].sealed

\* Only the owner can download an uploaded file (user_manual.rtf): a RETR that
\* is sending never sends bytes that another user uploaded, "anonymous" apart.
NoForeignRead ==
  \A s \in Session :
    ses[s].pc = "transfer" /\ ses[s].op = "RETR"
      => file[handle[s]].authors \subseteq {ses[s].user, Anonymous}

\* An i-node goes back to the file system without a record, so that a later
\* file that gets it does not inherit the owner of a dead one.
NoStaleRecord ==
  \A i \in Free : rec[i] # NoUser => InUse(i)

\* DELE and RMD take away a finished file or directory from nobody but its owner,
\* though the record may be lost or outlive its file.
OnlyOwnerRemoves ==
  [][\A s \in Session :
       LET n == ses[s].arg IN
       /\ ses[s].op \in {"DELE", "RMD"} /\ ses[s].pc = "unlink"
       /\ dir[n] # NoInode /\ dir'[n] = NoInode
       => file[dir[n]].sealed \in {NoUser, ses[s].user}]_vars

\* RNTO renames (ftpcommands.cpp:1767): when it has replied 250 the file is
\* there under its new name, and no longer under its old one.  (A file that is
\* renamed to the name it has is deleted, see the README.)
RenameKeepsFile ==
  [][\A s \in Session :
       /\ ses[s].op = "RNTO" /\ ses[s].from # ses[s].arg
       /\ ses[s].pc \in {"putkey", "put"} /\ ses'[s].pc = "idle"
       => dir'[ses[s].arg] # NoInode /\ dir'[ses[s].from] = NoInode]_vars

\* RNTO checks the rights to the file (ftpcommands.cpp:1768): what it moves is
\* recorded as the file of the user who is logged in.
RenameAuthorised ==
  [][\A s \in Session :
       ses[s].pc = "rename" /\ ses'[s].pc = "delkey"
         => rec[dir[ses[s].from]] = ses[s].user]_vars

-----------------------------------------------------------------------------
(***************************************************************************)
(* What makes OwnersAgree, OnlyOwnerRemoves, RenameKeepsFile and           *)
(* RenameAuthorised inductive when clients take turns.                     *)
(***************************************************************************)
Active(s) == ses[s].pc # "idle" \/ ses[s].from # NoName
OneAtATime == \A s, t \in Session : Active(s) /\ Active(t) => s = t

OneName == \A m, n \in Name : dir[m] = dir[n] /\ dir[m] # NoInode => m = n

\* Where each command may be, what it has read, and who may run it.
Orderly(s) ==
  LET me == ses[s] IN
  /\ Active(s) => me.user # NoUser
  /\ handle[s] # NoInode => me.pc \in {"connect", "transfer"}
  /\ me.pc # "idle" => me.arg \in Name /\ (me.from # NoName <=> me.op = "RNTO")
  /\ me.pc = "get" => me.op \in {"RETR", "DELE", "RMD", "RNFR"} /\ me.key = dir[me.arg]
  /\ me.pc \in {"open", "connect", "transfer"} => me.op \in {"RETR", "STOR", "APPE", "STOU"}
  /\ me.pc \in {"delkey", "delete", "unlink"} => me.op \in {"DELE", "RMD", "RNTO"}
  /\ me.pc = "delete" => me.key = dir[me.arg] /\ me.key # NoInode
  /\ me.pc = "rename" => me.op = "RNTO"
  /\ me.pc \in {"putkey", "put"} => me.op \notin {"none", "RETR", "RNFR"}
  /\ me.pc = "put" => me.key # NoInode

\* A file that RNFR has named stays its user's until RNTO moves it; then it is there
\* under its new name and no longer under its old one, if these differ.
Pledged(s) ==
  LET me == ses[s] IN
  /\ me.from # NoName => me.info.owner = me.user
  /\ me.from # NoName /\ me.pc \in {"idle", "rename"}
       => me.info.name = me.from /\ dir[me.from] # NoInode /\ rec[dir[me.from]] = me.user
  /\ me.op = "RNTO" /\ me.pc \in {"delkey", "delete", "unlink"} => me.info.name = me.from
  /\ me.op = "RNTO" /\ me.pc \in {"delkey", "delete", "unlink", "putkey", "put"}
       => me.from = me.arg \/ (dir[me.from] = NoInode /\ dir[me.arg] # NoInode)

\* DELE, RMD and RNTO after the check of the rights, and the i-node they work on.
Changing(s) ==
  /\ ses[s].op \in {"DELE", "RMD", "RNTO"}
  /\ ses[s].pc \in {"delkey", "delete", "unlink", "putkey", "put"}
Subject(s) == IF ses[s].pc = "put" THEN ses[s].key ELSE dir[ses[s].arg]

\* It is a file of their user, or an unfinished one.
Entitled(s) ==
  Changing(s) =>
    /\ ses[s].op # "RNTO" => ses[s].owner = ses[s].user
    /\ Subject(s) # NoInode => file[Subject(s)].sealed \in {NoUser, ses[s].user}

\* A finished file is recorded, unless a command is just about to remove it or to put
\* its record back.
Recorded ==
  \A i \in Inode :
    file[i].sealed # NoUser =>
      \/ rec[i] = file[i].sealed
      \/ \E s \in Session : Changing(s) /\ ses[s].pc \in {"unlink", "putkey", "put"}
                            /\ Subject(s) = i

OwnersInv ==
  /\ TypeOK /\ OneAtATime /\ OneName /\ Recorded
  /\ \A s \in Session : Orderly(s) /\ Pledged(s) /\ Entitled(s)

-----------------------------------------------------------------------------
(***************************************************************************)
(* What makes OwnersAgree and NoStaleRecord inductive when the commands    *)
(* overlap, but every client makes changes under names of its own.         *)
(***************************************************************************)
\* Where each command may be, and what it has read of its own name stays true.
Apart(s) ==
  LET me == ses[s] IN
  /\ me.from = NoName /\ me.pc # "rename"
  /\ me.op \notin {"none", "RETR"} => me.arg \in MayName[s]
  /\ handle[s] # NoInode => me.pc \in {"connect", "transfer"}
  /\ me.pc = "get" => me.op \in {"RETR", "DELE", "RMD"} /\ (me.op # "RETR" => me.key = dir[me.arg])
  /\ me.pc \in {"open", "connect", "transfer"} => me.op \in {"RETR", "STOR", "APPE", "STOU"}
  /\ me.pc \in {"delkey", "delete", "unlink"} => me.op \in {"DELE", "RMD"}
  /\ me.pc \in {"putkey", "put"} => me.op \in {"STOR", "APPE", "STOU", "MKD", "DELE", "RMD"}
  /\ me.pc \in {"delete", "put"} => me.key = dir[me.arg] /\ me.key # NoInode

ApartInv == TypeOK /\ OneName /\ \A s \in Session : Apart(s)

\* What has a record has a name, and what is about to lose its name has no record.
Unrecorded(s) ==
  ses[s].pc = "unlink" /\ dir[ses[s].arg] # NoInode => rec[dir[ses[s].arg]] = NoUser

RecordsInv ==
  /\ ApartInv /\ \A s \in Session : Unrecorded(s)
  /\ \A i \in Inode : rec[i] # NoUser => i \in Range(dir)

\* A finished file is recorded, unless its record is being put back, or it is gone and
\* only kept by a download.
RecordedOrGone ==
  \A i \in Inode :
    file[i].sealed # NoUser =>
      \/ rec[i] = file[i].sealed
      \/ \E s \in Session : Changing(s) /\ ses[s].pc \in {"unlink", "putkey", "put"}
                            /\ Subject(s) = i
      \/ i \in Range(handle) \ Range(dir)

AgreeInv == ApartInv /\ RecordedOrGone /\ \A s \in Session : Entitled(s)
================================================================================
