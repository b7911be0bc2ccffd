-------------------------- MODULE DirectoryDatabase --------------------------
(***************************************************************************)
(* src/src/DirectoryDatabase.cpp: the gdbm file that maps an i-node to the *)
(* owner and the rights of a file, shared by the parent server and the     *)
(* children it forks, and guarded by a lock FILE made with O_CREAT|O_EXCL. *)
(*                                                                         *)
(* A process is a server process and its one DirectoryDatabase object.     *)
(* Server runs the constructor when it starts and no call after that; the  *)
(* others are its children, each serving one client.  A step is one system *)
(* call or one call of the gdbm library.                                   *)
(***************************************************************************)
EXTENDS Naturals

CONSTANTS Process,         \* process slots
          Server,          \* the slot of the parent server
          Inode, Info, NoInfo,
          LockingTimeout,  \* LOCKING_TIMEOUT: attempts before a call gives up
          IOErrors,        \* the calls below that may fail for their own reasons
          CarefulAdmin,    \* the administrator deletes the lock file only when
                           \*   no live process relies on it
          MayCrash         \* the processes that may be killed at any point

ASSUME ProcessAssumption == Server \in Process
ASSUME InfoAssumption == NoInfo \notin Info
ASSUME TimeoutAssumption == LockingTimeout \in Nat \ {0}
ASSUME ErrorAssumption ==
  /\ IOErrors \subseteq {"create", "gdbm_open", "gdbm_access", "unlink"}
  /\ CarefulAdmin \in BOOLEAN
  /\ MayCrash \subseteq Process

VARIABLES lockFile,   \* does <db_name>_gdbm_lock exist?
          db,         \* content of the gdbm file
          handle,     \* per process: "closed", or how it has the gdbm file open
          pc,         \* per process: where it is
          call,       \* per process: operation, key and record of its call
          pokus,      \* per process: attempts made by LockDatabase
          locked,     \* per process: the member locked of its object
          ret,        \* per process: the answer of its call
          complained, \* has a constructor told the administrator to delete the
                      \*   lock file, and he has not done so yet?
          uncleanEnd  \* history: did a process end in the middle of a call,
                      \*   killed or by a constructor that threw with the lock?

vars == <<lockFile, db, handle, pc, call, pokus, locked, ret, complained, uncleanEnd>>

NoCall == [op |-> "none", key |-> "none", info |-> NoInfo]

NoReply == [code |-> "none", info |-> NoInfo]

(***************************************************************************)
(* The code of a call that the lock or the database let down: the          *)
(* constructor throws, the other operations return -2 or -3.               *)
(***************************************************************************)
Failure(p, code) ==
  [code |-> IF call[p].op = "open" THEN "exception" ELSE code, info |-> NoInfo]

-----------------------------------------------------------------------------
Init ==
  /\ lockFile = FALSE
  /\ db = [i \in Inode |-> NoInfo]
  /\ handle = [p \in Process |-> "closed"]
  /\ pc = [p \in Process |-> "dead"]
  /\ call = [p \in Process |-> NoCall]
  /\ pokus = [p \in Process |-> 0]
  /\ locked = [p \in Process |-> FALSE]
  /\ ret = [p \in Process |-> NoReply]
  /\ complained = FALSE
  /\ uncleanEnd = FALSE

(***************************************************************************)
(* A call begins.  The key has been read with stat() (File2Key) before the *)
(* lock is asked for; a file that stat() does not find never gets here     *)
(* (the operation returns -1 at once).                                     *)
(***************************************************************************)
Begin(p, op, key, info) ==
  /\ pc' = [pc EXCEPT ![p] = "lock"]
  /\ call' = [call EXCEPT ![p] = [op |-> op, key |-> key, info |-> info]]
  /\ UNCHANGED <<lockFile, db, handle, pokus, ret, complained, uncleanEnd>>

\* The parent starts: the constructor sets locked to false and goes on to lock.
Construct ==
  /\ pc[Server] = "dead"
  /\ locked' = [locked EXCEPT ![Server] = FALSE]
  /\ \E key \in Inode : Begin(Server, "open", key, NoInfo)

\* The parent forks a child, which inherits a copy of the object.
Fork(p) ==
  /\ p # Server /\ pc[Server] = "idle" /\ pc[p] = "dead"
  /\ pc' = [pc EXCEPT ![p] = "idle"]
  /\ locked' = [locked EXCEPT ![p] = locked[Server]]
  /\ UNCHANGED <<lockFile, db, handle, call, pokus, ret, complained, uncleanEnd>>

\* A child calls PutFileInfo, GetFileInfo or DeleteFileInfo.
Call(p, op, key, info) ==
  /\ p # Server /\ pc[p] = "idle"
  /\ Begin(p, op, key, info)
  /\ UNCHANGED locked

(***************************************************************************)
(* LockDatabase: while (!locked && pokus < LOCKING_TIMEOUT) open(O_EXCL).  *)
(***************************************************************************)
\* The object already believes that it has the lock: no attempt is made.
SkipLock(p) ==
  /\ pc[p] = "lock" /\ locked[p]
  /\ pc' = [pc EXCEPT ![p] = "open"]
  /\ UNCHANGED <<lockFile, db, handle, call, pokus, locked, ret, complained, uncleanEnd>>

\* Mutant of CreateLock: open() without O_EXCL.
CreateLockShared(p) ==
  /\ pc[p] = "lock" /\ ~locked[p] /\ pokus[p] < LockingTimeout
  /\ lockFile' = TRUE
  /\ locked' = [locked EXCEPT ![p] = TRUE]
  /\ pokus' = [pokus EXCEPT ![p] = 0]
  /\ pc' = [pc EXCEPT ![p] = "open"]
  /\ UNCHANGED <<db, handle, call, ret, complained, uncleanEnd>>

CreateLock(p) ==
  /\ pc[p] = "lock" /\ ~locked[p] /\ pokus[p] < LockingTimeout
  /\ ~lockFile
  /\ lockFile' = TRUE
  /\ locked' = [locked EXCEPT ![p] = TRUE]
  /\ pokus' = [pokus EXCEPT ![p] = 0]
  /\ pc' = [pc EXCEPT ![p] = "open"]
  /\ UNCHANGED <<db, handle, call, ret, complained, uncleanEnd>>

\* Mutants of RetryLock: one attempt too many; attempts that are not counted.
RetryLockOnceMore(p) ==
  /\ pc[p] = "lock" /\ ~locked[p] /\ pokus[p] <= LockingTimeout
  /\ lockFile \/ "create" \in IOErrors
  /\ pokus' = [pokus EXCEPT ![p] = @ + 1]
  /\ UNCHANGED <<lockFile, db, handle, pc, call, locked, ret, complained, uncleanEnd>>

RetryLockUncounted(p) ==
  /\ pc[p] = "lock" /\ ~locked[p] /\ pokus[p] < LockingTimeout
  /\ lockFile \/ "create" \in IOErrors
  /\ UNCHANGED vars

\* The attempt fails and the process sleeps LOCKING_SLEEP_TIME.
RetryLock(p) ==
  /\ pc[p] = "lock" /\ ~locked[p] /\ pokus[p] < LockingTimeout
  /\ lockFile \/ "create" \in IOErrors
  /\ pokus' = [pokus EXCEPT ![p] = @ + 1]
  /\ UNCHANGED <<lockFile, db, handle, pc, call, locked, ret, complained, uncleanEnd>>

\* Mutant of GiveUpLock: a lock that does not go away is taken for a stale one.
GiveUpLockByForce(p) ==
  /\ pc[p] = "lock" /\ ~locked[p] /\ pokus[p] = LockingTimeout
  /\ ret' = [ret EXCEPT ![p] = Failure(p, "lock_error")]
  /\ pokus' = [pokus EXCEPT ![p] = 0]
  /\ pc' = [pc EXCEPT ![p] = "return"]
  /\ lockFile' = FALSE
  /\ UNCHANGED <<db, handle, call, locked, complained, uncleanEnd>>

\* The constructor's exception says: check that <lock_name> does not exist, and
\* delete it.
GiveUpLock(p) ==
  /\ pc[p] = "lock" /\ ~locked[p] /\ pokus[p] = LockingTimeout
  /\ ret' = [ret EXCEPT ![p] = Failure(p, "lock_error")]
  /\ pokus' = [pokus EXCEPT ![p] = 0]
  /\ pc' = [pc EXCEPT ![p] = "return"]
  /\ complained' = (complained \/ call[p].op = "open")
  /\ UNCHANGED <<lockFile, db, handle, call, locked, uncleanEnd>>

(***************************************************************************)
(* The critical section: gdbm_open, the operation, gdbm_close.  gdbm       *)
(* itself admits many readers or one writer, and otherwise refuses to open.*)
(***************************************************************************)
Mode(op) == IF op = "get" THEN "reader" ELSE "writer"

GdbmAdmits(p) ==
  \A q \in Process \ {p} :
    handle[q] = "closed" \/ (handle[q] = "reader" /\ Mode(call[p].op) = "reader")

GdbmOpen(p) ==
  /\ pc[p] = "open" /\ GdbmAdmits(p)
  /\ handle' = [handle EXCEPT ![p] = Mode(call[p].op)]
  /\ pc' = [pc EXCEPT ![p] = "access"]
  /\ UNCHANGED <<lockFile, db, call, pokus, locked, ret, complained, uncleanEnd>>

\* Mutant of GdbmOpenFails: the operations return as the constructor throws, locked.
GdbmOpenFailsLocked(p) ==
  /\ pc[p] = "open"
  /\ ~GdbmAdmits(p) \/ "gdbm_open" \in IOErrors
  /\ ret' = [ret EXCEPT ![p] = Failure(p, "db_error")]
  /\ pc' = [pc EXCEPT ![p] = "return"]
  /\ UNCHANGED <<lockFile, db, handle, call, pokus, locked, complained, uncleanEnd>>

\* The operations unlock and return -3; the constructor throws as it is.
GdbmOpenFails(p) ==
  /\ pc[p] = "open"
  /\ ~GdbmAdmits(p) \/ "gdbm_open" \in IOErrors
  /\ ret' = [ret EXCEPT ![p] = Failure(p, "db_error")]
  /\ pc' = [pc EXCEPT ![p] = IF call[p].op = "open" THEN "return" ELSE "unlock"]
  /\ UNCHANGED <<lockFile, db, handle, call, pokus, locked, complained, uncleanEnd>>

\* Mutant of Access: the result of gdbm_delete is not looked at.
AccessUnchecked(p) ==
  LET c == call[p] IN
  /\ pc[p] = "access"
  /\ c.op = "get" => db[c.key] # NoInfo
  /\ db' = CASE c.op = "put"    -> [db EXCEPT ![c.key] = c.info]
             [] c.op = "delete" -> [db EXCEPT ![c.key] = NoInfo]
             [] OTHER           -> db
  /\ ret' = [ret EXCEPT ![p] = [code |-> "ok",
                                info |-> IF c.op = "get" THEN db[c.key] ELSE NoInfo]]
  /\ pc' = [pc EXCEPT ![p] = "close"]
  /\ UNCHANGED <<lockFile, handle, call, pokus, locked, complained, uncleanEnd>>

\* gdbm_store, gdbm_fetch, gdbm_delete; the constructor only opens and closes.
Access(p) ==
  LET c == call[p] IN
  /\ pc[p] = "access"
  /\ c.op \in {"get", "delete"} => db[c.key] # NoInfo
  /\ db' = CASE c.op = "put"    -> [db EXCEPT ![c.key] = c.info]
             [] c.op = "delete" -> [db EXCEPT ![c.key] = NoInfo]
             [] OTHER           -> db
  /\ ret' = [ret EXCEPT ![p] = [code |-> "ok",
                                info |-> IF c.op = "get" THEN db[c.key] ELSE NoInfo]]
  /\ pc' = [pc EXCEPT ![p] = "close"]
  /\ UNCHANGED <<lockFile, handle, call, pokus, locked, complained, uncleanEnd>>

\* Mutant of AccessFails: the error path closes the database but does not unlock it.
AccessFailsLocked(p) ==
  LET c == call[p] IN
  /\ pc[p] = "access" /\ c.op # "open"
  /\ (c.op \in {"get", "delete"} /\ db[c.key] = NoInfo) \/ "gdbm_access" \in IOErrors
  /\ ret' = [ret EXCEPT ![p] = Failure(p, "db_error")]
  /\ handle' = [handle EXCEPT ![p] = "closed"]
  /\ pc' = [pc EXCEPT ![p] = "return"]
  /\ UNCHANGED <<lockFile, db, call, pokus, locked, complained, uncleanEnd>>

AccessFails(p) ==
  LET c == call[p] IN
  /\ pc[p] = "access" /\ c.op # "open"
  /\ (c.op \in {"get", "delete"} /\ db[c.key] = NoInfo) \/ "gdbm_access" \in IOErrors
  /\ ret' = [ret EXCEPT ![p] = Failure(p, "db_error")]
  /\ pc' = [pc EXCEPT ![p] = "close"]
  /\ UNCHANGED <<lockFile, db, handle, call, pokus, locked, complained, uncleanEnd>>

GdbmClose(p) ==
  /\ pc[p] = "close"
  /\ handle' = [handle EXCEPT ![p] = "closed"]
  /\ pc' = [pc EXCEPT ![p] = "unlock"]
  /\ UNCHANGED <<lockFile, db, call, pokus, locked, ret, complained, uncleanEnd>>

(***************************************************************************)
(* UnlockDatabase.                                                         *)
(***************************************************************************)
Unlock(p) ==
  /\ pc[p] = "unlock" /\ lockFile
  /\ lockFile' = FALSE
  /\ locked' = [locked EXCEPT ![p] = FALSE]
  /\ pc' = [pc EXCEPT ![p] = "return"]
  /\ UNCHANGED <<db, handle, call, pokus, ret, complained, uncleanEnd>>

\* Mutant of UnlockFails: nobody looks at the result of UnlockDatabase.
UnlockFailsSilently(p) ==
  /\ pc[p] = "unlock"
  /\ ~lockFile \/ "unlink" \in IOErrors
  /\ pc' = [pc EXCEPT ![p] = "return"]
  /\ UNCHANGED <<lockFile, db, handle, call, pokus, locked, ret, complained, uncleanEnd>>

\* unlink() fails: locked stays true, and a call that had succeeded returns -2
\* (the constructor throws).
UnlockFails(p) ==
  /\ pc[p] = "unlock"
  /\ ~lockFile \/ "unlink" \in IOErrors
  /\ ret' = [ret EXCEPT ![p] = IF @.code = "ok" THEN Failure(p, "lock_error") ELSE @]
  /\ pc' = [pc EXCEPT ![p] = "return"]
  /\ UNCHANGED <<lockFile, db, handle, call, pokus, locked, complained, uncleanEnd>>

\* The caller takes the answer.  An exception of the constructor ends main(), and
\* nobody unlocks what it had locked.
Return(p) ==
  /\ pc[p] = "return"
  /\ pc' = [pc EXCEPT ![p] = IF ret[p].code = "exception" THEN "dead" ELSE "idle"]
  /\ locked' = [locked EXCEPT ![p] = @ /\ ret[p].code # "exception"]
  /\ ret' = [ret EXCEPT ![p] = NoReply]
  /\ call' = [call EXCEPT ![p] = NoCall]
  /\ uncleanEnd' = (uncleanEnd \/ (locked[p] /\ ret[p].code = "exception"))
  /\ UNCHANGED <<lockFile, db, handle, pokus, complained>>

-----------------------------------------------------------------------------
(***************************************************************************)
(* The environment.  A process ends between two calls, or is killed        *)
(* anywhere: the kernel closes its gdbm file, nobody removes its lock file *)
(* and nothing but the lock file tells that it had the lock.  The          *)
(* administrator deletes the lock file when a constructor's message asks.  *)
(***************************************************************************)
End(p) ==
  /\ pc[p] = "idle" \/ (pc[p] # "dead" /\ p \in MayCrash)
  /\ pc' = [pc EXCEPT ![p] = "dead"]
  /\ handle' = [handle EXCEPT ![p] = "closed"]
  /\ locked' = [locked EXCEPT ![p] = FALSE]
  /\ ret' = [ret EXCEPT ![p] = NoReply]
  /\ call' = [call EXCEPT ![p] = NoCall]
  /\ pokus' = [pokus EXCEPT ![p] = 0]
  /\ uncleanEnd' = (uncleanEnd \/ pc[p] # "idle")
  /\ UNCHANGED <<lockFile, db, complained>>

DeleteLockFile ==
  /\ complained /\ lockFile
  /\ CarefulAdmin => \A p \in Process : ~locked[p]
  /\ lockFile' = FALSE
  /\ complained' = FALSE
  /\ UNCHANGED <<db, handle, pc, call, pokus, locked, ret, uncleanEnd>>

Step(p) ==
  \/ SkipLock(p) \/ CreateLock(p) \/ RetryLock(p) \/ GiveUpLock(p)
  \/ GdbmOpen(p) \/ GdbmOpenFails(p)
  \/ Access(p) \/ AccessFails(p) \/ GdbmClose(p)
  \/ Unlock(p) \/ UnlockFails(p) \/ Return(p)

Next ==
  \/ Construct
  \/ \E p \in Process :
       \/ Fork(p)
       \/ \E key \in Inode :
            \/ \E info \in Info : Call(p, "put", key, info)
            \/ \E op \in {"get", "delete"} : Call(p, op, key, NoInfo)
       \/ Step(p)
       \/ End(p)
  \/ DeleteLockFile

\* A live process inside a call is scheduled; calls, forks, ends and the
\* administrator are up to the environment.
Fairness == \A p \in Process : WF_vars(Step(p))

Spec == Init /\ [][Next]_vars

FairSpec == Spec /\ Fairness

-----------------------------------------------------------------------------
Location == {"dead", "idle", "lock", "open", "access", "close", "unlock", "return"}

Operation == {NoCall} \cup [op : {"put"}, key : Inode, info : Info]
                \cup [op : {"open", "get", "delete"}, key : Inode, info : {NoInfo}]

Reply == [code : {"none", "ok", "db_error", "lock_error", "exception"},
          info : Info \cup {NoInfo}]

\* Every variable has its type; LockDatabase never counts past LOCKING_TIMEOUT.
TypeOK ==
  /\ lockFile \in BOOLEAN
  /\ db \in [Inode -> Info \cup {NoInfo}]
  /\ handle \in [Process -> {"closed", "reader", "writer"}]
  /\ pc \in [Process -> Location]
  /\ call \in [Process -> Operation]
  /\ pokus \in [Process -> 0..LockingTimeout]
  /\ locked \in [Process -> BOOLEAN]
  /\ ret \in [Process -> Reply]
  /\ complained \in BOOLEAN
  /\ uncleanEnd \in BOOLEAN

CriticalSection == {"open", "access", "close", "unlock"}

\* The class promises (DirectoryDatabase.h:79-81) that one process at a time
\* works with the database: no two are between LockDatabase and UnlockDatabase.
ExclusiveAccess ==
  \A p, q \in Process :
    pc[p] \in CriticalSection /\ pc[q] \in CriticalSection => p = q

\* What makes ExclusiveAccess inductive.  Whoever relies on the lock has the lock
\* file, nobody else relies on it, and it is held throughout the critical section;
\* the parent, whose object the children inherit, never forks with the lock.
OneHolder ==
  /\ \A p \in Process : locked[p] => lockFile
  /\ \A p, q \in Process : locked[p] /\ locked[q] => p = q

HeldInside == \A p \in Process : pc[p] \in CriticalSection => locked[p]

ServerForksUnlocked ==
  /\ pc[Server] \notin {"dead", "idle"} => call[Server].op = "open"
  /\ pc[Server] \in {"close", "unlock"} => ret[Server].code = "ok"
  /\ pc[Server] = "return" /\ ret[Server].code # "exception" => ~locked[Server]
  /\ pc[Server] = "idle" => ~locked[Server]

LockInv == TypeOK /\ OneHolder /\ HeldInside /\ ServerForksUnlocked

\* The lock file never disappears under a process that relies on it: it goes
\* when that process itself unlocks, so nobody removes the lock of another.
LockKept ==
  [][lockFile /\ ~lockFile' => \A p \in Process : locked[p] => pc[p] = "unlock"]_vars

\* The constructor blames a lock that does not go away on a program that was not
\* ended cleanly (DirectoryDatabase.cpp:48-56).  Without such an end, whatever gdbm
\* calls fail, a live process has the lock and will remove it.
StaleLockMeansUncleanEnd ==
  lockFile /\ ~uncleanEnd => \E p \in Process : locked[p]

\* Every call comes back, even when the lock file is never removed.
CallEnds ==
  \A p \in Process : pc[p] = "lock" ~> pc[p] \in {"idle", "dead"}

\* Whoever locks unlocks, on every error path of PutFileInfo, GetFileInfo and
\* DeleteFileInfo: after gdbm_open (DirectoryDatabase.cpp:248, 311, 387) and after
\* the access.  (The constructor that cannot open the database throws locked; its
\* object is gone and the lock file stays.)
LockReleased ==
  \A p \in Process : locked[p] ~> ~locked[p]

-----------------------------------------------------------------------------
(***************************************************************************)
(* The refinement.  A call waits in todo until the database is accessed,   *)
(* and its answer is in reply from then on: the database is the abstract   *)
(* one, and the lock, the retries and the open file are hidden.            *)
(***************************************************************************)
Waiting == {"lock", "open", "access"}
Answering == {"close", "unlock", "return"}

Store == INSTANCE FileInfoStore WITH
  rec   <- db,
  todo  <- [p \in Process |-> IF pc[p] \in Waiting THEN call[p] ELSE NoCall],
  reply <- [p \in Process |-> IF pc[p] \in Answering THEN ret[p] ELSE NoReply]

\* Calls of concurrent processes take effect one after the other, at most once
\* each, and the answer of a call tells what became of it.
ImplementsStore == Store!Spec
================================================================================
