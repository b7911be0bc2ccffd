----------------------- MODULE DirectoryDatabaseProofs -----------------------
(***************************************************************************)
(* Theorems about DirectoryDatabase, for any number of processes, files    *)
(* and attempts, and whatever calls fail and processes are killed.         *)
(***************************************************************************)
EXTENDS DirectoryDatabase, TLAPS

\* No call and no answer are values of call and ret.
LEMMA NullTypes == NoCall \in Operation /\ NoReply \in Reply
  BY DEF NoCall, Operation, NoReply, Reply

LEMMA TypeInit == Init => TypeOK
<1> SUFFICES ASSUME Init
             PROVE  TypeOK
  OBVIOUS
<1>1. 0 \in 0..LockingTimeout
  BY TimeoutAssumption
<1> QED
  BY <1>1, NullTypes DEF Init, TypeOK, Location

LEMMA TypeStep == TypeOK /\ [Next]_vars => TypeOK'
<1> SUFFICES ASSUME TypeOK, [Next]_vars
             PROVE  TypeOK'
  OBVIOUS
<1> USE ProcessAssumption, InfoAssumption, TimeoutAssumption
<1>1. CASE Construct
  BY <1>1 DEF Construct, Begin, TypeOK, Location, Operation
<1>2. ASSUME NEW p \in Process, Fork(p)
      PROVE  TypeOK'
  BY <1>2 DEF Fork, TypeOK, Location
<1>3. ASSUME NEW p \in Process, NEW key \in Inode, NEW info \in Info,
             Call(p, "put", key, info)
      PROVE  TypeOK'
  BY <1>3 DEF Call, Begin, TypeOK, Location, Operation
<1>4. ASSUME NEW p \in Process, NEW key \in Inode, NEW op \in {"get", "delete"},
             Call(p, op, key, NoInfo)
      PROVE  TypeOK'
  BY <1>4 DEF Call, Begin, TypeOK, Location, Operation
<1>5. ASSUME NEW p \in Process, Step(p)
      PROVE  TypeOK'
  <2>1. CASE SkipLock(p)
    BY <2>1 DEF SkipLock, TypeOK, Location
  <2>2. CASE CreateLock(p)
    BY <2>2 DEF CreateLock, TypeOK, Location
  <2>3. CASE RetryLock(p)
    BY <2>3 DEF RetryLock, TypeOK
  <2>4. CASE GiveUpLock(p)
    BY <2>4 DEF GiveUpLock, Failure, TypeOK, Location, Reply
  <2>5. CASE GdbmOpen(p)
    BY <2>5 DEF GdbmOpen, Mode, TypeOK, Location
  <2>6. CASE GdbmOpenFails(p)
    BY <2>6 DEF GdbmOpenFails, Failure, TypeOK, Location, Reply
  <2>7. CASE Access(p)
    <3>1. call[p] \in Operation
      BY DEF TypeOK
    <3>2. PICK c : c = call[p]
      OBVIOUS
    <3>3. db' \in [Inode -> Info \cup {NoInfo}]
      <4>1. CASE c.op = "put"
        BY <2>7, <3>1, <3>2, <4>1 DEF Access, TypeOK, Operation, NoCall
      <4>2. CASE c.op = "delete"
        BY <2>7, <3>2, <4>2 DEF Access, TypeOK
      <4>3. CASE c.op \notin {"put", "delete"}
        BY <2>7, <3>2, <4>3 DEF Access, TypeOK
      <4> QED
        BY <4>1, <4>2, <4>3
    <3>4. ret' \in [Process -> Reply]
      <4>1. PICK i \in Info \cup {NoInfo} : ret' = [ret EXCEPT ![p] = [code |-> "ok", info |-> i]]
        <5>1. CASE c.op = "get"
          <6>1. db[c.key] \in Info \cup {NoInfo}
            BY <3>1, <3>2, <5>1 DEF TypeOK, Operation, NoCall
          <6> QED
            BY <2>7, <3>2, <5>1, <6>1 DEF Access
        <5>2. CASE c.op # "get"
          BY <2>7, <3>2, <5>2 DEF Access
        <5> QED
          BY <5>1, <5>2
      <4> QED
        BY <4>1 DEF TypeOK, Reply
    <3> QED
      BY <2>7, <3>3, <3>4 DEF Access, TypeOK, Location
  <2>8. CASE AccessFails(p)
    BY <2>8 DEF AccessFails, Failure, TypeOK, Location, Reply
  <2>9. CASE GdbmClose(p)
    BY <2>9 DEF GdbmClose, TypeOK, Location
  <2>10. CASE Unlock(p)
    BY <2>10 DEF Unlock, TypeOK, Location
  <2>11. CASE UnlockFails(p)
    BY <2>11 DEF UnlockFails, Failure, TypeOK, Location, Reply
  <2>12. CASE Return(p)
    BY <2>12, NullTypes DEF Return, TypeOK, Location
  <2> QED
    BY <1>5, <2>1, <2>2, <2>3, <2>4, <2>5, <2>6, <2>7, <2>8, <2>9, <2>10, <2>11, <2>12
    DEF Step
<1>6. ASSUME NEW p \in Process, End(p)
      PROVE  TypeOK'
  BY <1>6, NullTypes DEF End, TypeOK, Location
<1>7. CASE DeleteLockFile
  BY <1>7 DEF DeleteLockFile, TypeOK
<1>8. CASE UNCHANGED vars
  BY <1>8 DEF vars, TypeOK
<1> QED
  BY <1>1, <1>2, <1>3, <1>4, <1>5, <1>6, <1>7, <1>8 DEF Next

\* Every variable keeps its type; in particular a call never makes more than
\* LOCKING_TIMEOUT attempts to create the lock file.
THEOREM TypeCorrect == Spec => []TypeOK
  BY TypeInit, TypeStep, PTL DEF Spec

-----------------------------------------------------------------------------
LEMMA LockInit == Init => LockInv
<1> SUFFICES ASSUME Init
             PROVE  LockInv
  OBVIOUS
<1>1. TypeOK
  BY TypeInit
<1>2. OneHolder /\ HeldInside
  BY DEF Init, OneHolder, HeldInside, CriticalSection
<1>3. ServerForksUnlocked
  BY ProcessAssumption DEF Init, ServerForksUnlocked
<1> QED
  BY <1>1, <1>2, <1>3 DEF LockInv

\* The administrator has to be careful: a lock file deleted under a live process
\* lets two processes in.
LEMMA LockStep ==
  ASSUME CarefulAdmin, LockInv, [Next]_vars
  PROVE  LockInv'
<1> USE ProcessAssumption
<1>0. TypeOK /\ TypeOK'
  BY TypeStep DEF LockInv
<1> SUFFICES OneHolder' /\ HeldInside' /\ ServerForksUnlocked'
  BY <1>0 DEF LockInv
<1> USE <1>0 DEF LockInv, TypeOK, OneHolder, HeldInside, ServerForksUnlocked,
                 CriticalSection
<1>1. CASE Construct
  BY <1>1 DEF Construct, Begin
<1>2. ASSUME NEW p \in Process, Fork(p)
      PROVE  OneHolder' /\ HeldInside' /\ ServerForksUnlocked'
  BY <1>2 DEF Fork
<1>3. ASSUME NEW p \in Process, NEW key, NEW op, NEW info, Call(p, op, key, info)
      PROVE  OneHolder' /\ HeldInside' /\ ServerForksUnlocked'
  BY <1>3 DEF Call, Begin
<1>4. ASSUME NEW p \in Process, Step(p)
      PROVE  OneHolder' /\ HeldInside' /\ ServerForksUnlocked'
  <2>1. CASE SkipLock(p)
    BY <2>1 DEF SkipLock
  <2>2. CASE CreateLock(p)
    BY <2>2 DEF CreateLock
  <2>3. CASE RetryLock(p)
    BY <2>3 DEF RetryLock
  <2>4. CASE GiveUpLock(p)
    BY <2>4 DEF GiveUpLock
  <2>5. CASE GdbmOpen(p)
    BY <2>5 DEF GdbmOpen
  <2>6. CASE GdbmOpenFails(p)
    BY <2>6 DEF GdbmOpenFails, Failure
  <2>7. CASE Access(p)
    BY <2>7 DEF Access
  <2>8. CASE AccessFails(p)
    BY <2>8 DEF AccessFails
  <2>9. CASE GdbmClose(p)
    BY <2>9 DEF GdbmClose
  <2>10. CASE Unlock(p)
    BY <2>10 DEF Unlock
  <2>11. CASE UnlockFails(p)
    BY <2>11 DEF UnlockFails, Failure
  <2>12. CASE Return(p)
    BY <2>12 DEF Return
  <2> QED
    BY <1>4, <2>1, <2>2, <2>3, <2>4, <2>5, <2>6, <2>7, <2>8, <2>9, <2>10, <2>11, <2>12
    DEF Step
<1>5. ASSUME NEW p \in Process, End(p)
      PROVE  OneHolder' /\ HeldInside' /\ ServerForksUnlocked'
  BY <1>5 DEF End
<1>6. CASE DeleteLockFile
  BY <1>6 DEF DeleteLockFile
<1>7. CASE UNCHANGED vars
  BY <1>7 DEF vars
<1> QED
  BY <1>1, <1>2, <1>3, <1>4, <1>5, <1>6, <1>7 DEF Next

\* Nobody removes the lock file of somebody else (UnlockDatabase is reached by the
\* holder only), when the administrator is careful.
LEMMA LockKeptStep ==
  ASSUME CarefulAdmin, LockInv, [Next]_vars, lockFile, ~lockFile'
  PROVE  \A p \in Process : locked[p] => pc[p] = "unlock"
<1> USE DEF LockInv, OneHolder, HeldInside, CriticalSection
<1>1. CASE Construct
  BY <1>1 DEF Construct, Begin
<1>2. ASSUME NEW p \in Process, Fork(p)
      PROVE  FALSE
  BY <1>2 DEF Fork
<1>3. ASSUME NEW p \in Process, NEW key, NEW op, NEW info, Call(p, op, key, info)
      PROVE  FALSE
  BY <1>3 DEF Call, Begin
<1>4. ASSUME NEW p \in Process, Step(p)
      PROVE  \A q \in Process : locked[q] => pc[q] = "unlock"
  <2>1. pc[p] = "unlock"
    BY <1>4 DEF Step, SkipLock, CreateLock, RetryLock, GiveUpLock, GdbmOpen,
                GdbmOpenFails, Access, AccessFails, GdbmClose, Unlock, UnlockFails, Return
  <2> QED
    BY <2>1
<1>5. ASSUME NEW p \in Process, End(p)
      PROVE  FALSE
  BY <1>5 DEF End
<1>6. CASE DeleteLockFile
  BY <1>6 DEF DeleteLockFile
<1>7. CASE UNCHANGED vars
  BY <1>7 DEF vars
<1> QED
  BY <1>1, <1>2, <1>3, <1>4, <1>5, <1>6, <1>7 DEF Next

\* The lock file is there while somebody relies on it, one process does so at a time,
\* and the parent never forks with the lock.
THEOREM LockInvariant == ASSUME CarefulAdmin PROVE Spec => []LockInv
<1>1. LockInv /\ [Next]_vars => LockInv'
  BY LockStep
<1> QED
  BY <1>1, LockInit, PTL DEF Spec

\* At most one process is between LockDatabase and UnlockDatabase, whatever fails
\* and whoever is killed, as long as no lock file is deleted under its holder.
THEOREM MutualExclusion == ASSUME CarefulAdmin PROVE Spec => []ExclusiveAccess
<1>1. LockInv => ExclusiveAccess
  BY DEF LockInv, OneHolder, HeldInside, ExclusiveAccess
<1> QED
  BY <1>1, LockInvariant, PTL

\* The lock file goes away under the process that unlocks, and under no other.
THEOREM LockIsKept == ASSUME CarefulAdmin PROVE Spec => LockKept
<1>1. LockInv /\ [Next]_vars
        => [lockFile /\ ~lockFile' => \A p \in Process : locked[p] => pc[p] = "unlock"]_vars
  BY LockKeptStep
<1> QED
  BY <1>1, LockInvariant, PTL DEF Spec, LockKept

-----------------------------------------------------------------------------
(***************************************************************************)
(* A lock file that nobody holds.                                          *)
(***************************************************************************)
\* unlink() of the lock file does not fail for reasons of its own.
Removable == CarefulAdmin /\ "unlink" \notin IOErrors

\* Then a process has the lock only inside, or on its way out of a constructor that
\* could not open the database.
LockedInside ==
  \A p \in Process :
    locked[p] => \/ pc[p] \in CriticalSection
                 \/ pc[p] = "return" /\ ret[p].code = "exception"

StaleInv == LockInv /\ LockedInside /\ StaleLockMeansUncleanEnd

LEMMA StaleStep ==
  ASSUME Removable, StaleInv, [Next]_vars
  PROVE  LockedInside' /\ StaleLockMeansUncleanEnd'
<1> USE ProcessAssumption DEF Removable, StaleInv, LockInv, TypeOK, OneHolder, HeldInside,
        ServerForksUnlocked, LockedInside, StaleLockMeansUncleanEnd,
        CriticalSection
<1>1. CASE Construct
  BY <1>1 DEF Construct, Begin
<1>2. ASSUME NEW p \in Process, Fork(p)
      PROVE  LockedInside' /\ StaleLockMeansUncleanEnd'
  BY <1>2 DEF Fork
<1>3. ASSUME NEW p \in Process, NEW key, NEW op, NEW info, Call(p, op, key, info)
      PROVE  LockedInside' /\ StaleLockMeansUncleanEnd'
  BY <1>3 DEF Call, Begin
<1>4. ASSUME NEW p \in Process, Step(p)
      PROVE  LockedInside' /\ StaleLockMeansUncleanEnd'
  <2>1. CASE SkipLock(p) \/ RetryLock(p) \/ GiveUpLock(p)
    BY <2>1 DEF SkipLock, RetryLock, GiveUpLock
  <2>2. CASE CreateLock(p)
    BY <2>2 DEF CreateLock
  <2>3. CASE GdbmOpen(p)
    BY <2>3 DEF GdbmOpen, Mode
  <2>4. CASE GdbmOpenFails(p)
    BY <2>4 DEF GdbmOpenFails, Failure
  <2>5. CASE Access(p) \/ AccessFails(p) \/ GdbmClose(p)
    BY <2>5 DEF Access, AccessFails, GdbmClose
  <2>6. CASE Unlock(p)
    BY <2>6 DEF Unlock
  <2>7. CASE UnlockFails(p)
    BY <2>7 DEF UnlockFails
  <2>8. CASE Return(p)
    BY <2>8 DEF Return
  <2> QED
    BY <1>4, <2>1, <2>2, <2>3, <2>4, <2>5, <2>6, <2>7, <2>8 DEF Step
<1>5. ASSUME NEW p \in Process, End(p)
      PROVE  LockedInside' /\ StaleLockMeansUncleanEnd'
  BY <1>5 DEF End
<1>6. CASE DeleteLockFile
  BY <1>6 DEF DeleteLockFile
<1>7. CASE UNCHANGED vars
  BY <1>7 DEF vars
<1> QED
  BY <1>1, <1>2, <1>3, <1>4, <1>5, <1>6, <1>7 DEF Next

\* A lock file that is there although no process holds it was left by a process that
\* was killed inside a call, or by a constructor that gave up with the lock: every
\* other path out of an operation, with an error of gdbm too, removes it.
THEOREM StaleLockExplained == ASSUME Removable PROVE Spec => []StaleLockMeansUncleanEnd
<1>1. Init => StaleInv
  BY LockInit DEF Init, StaleInv, LockedInside, StaleLockMeansUncleanEnd
<1>2. StaleInv /\ [Next]_vars => StaleInv'
  BY LockStep, StaleStep DEF StaleInv, Removable
<1>3. StaleInv => StaleLockMeansUncleanEnd
  BY DEF StaleInv
<1> QED
  BY <1>1, <1>2, <1>3, PTL DEF Spec

-----------------------------------------------------------------------------
(***************************************************************************)
(* The refinement of FileInfoStore.  It needs no mutual exclusion: a call  *)
(* takes effect in the one step that accesses the database.                *)
(***************************************************************************)
\* A process in a call has a call, a process on its way back has an answer, and
\* the answer of a call that did not succeed carries no record.
Underway ==
  \A p \in Process :
    /\ pc[p] \in Waiting => call[p] # NoCall
    /\ pc[p] \in Answering => ret[p].code # "none"
    /\ ret[p].code # "ok" => ret[p].info = NoInfo

LEMMA UnderwayStep ==
  ASSUME TypeOK, Underway, [Next]_vars
  PROVE  Underway'
<1> USE ProcessAssumption DEF Underway, Waiting, Answering, TypeOK, NoCall, NoReply
<1>1. CASE Construct
  BY <1>1 DEF Construct, Begin
<1>2. ASSUME NEW p \in Process, Fork(p)
      PROVE  Underway'
  BY <1>2 DEF Fork
<1>3. ASSUME NEW p \in Process, NEW key \in Inode, NEW op \in {"put", "get", "delete"}, NEW info,
             Call(p, op, key, info)
      PROVE  Underway'
  BY <1>3 DEF Call, Begin
<1>4. ASSUME NEW p \in Process, Step(p)
      PROVE  Underway'
  <2>1. CASE SkipLock(p)
    BY <2>1 DEF SkipLock
  <2>2. CASE CreateLock(p)
    BY <2>2 DEF CreateLock
  <2>3. CASE RetryLock(p)
    BY <2>3 DEF RetryLock
  <2>4. CASE GiveUpLock(p)
    BY <2>4 DEF GiveUpLock, Failure
  <2>5. CASE GdbmOpen(p)
    BY <2>5 DEF GdbmOpen
  <2>6. CASE GdbmOpenFails(p)
    BY <2>6 DEF GdbmOpenFails, Failure
  <2>7. CASE Access(p)
    BY <2>7 DEF Access
  <2>8. CASE AccessFails(p)
    BY <2>8 DEF AccessFails, Failure
  <2>9. CASE GdbmClose(p)
    BY <2>9 DEF GdbmClose
  <2>10. CASE Unlock(p)
    BY <2>10 DEF Unlock
  <2>11. CASE UnlockFails(p)
    BY <2>11 DEF UnlockFails, Failure
  <2>12. CASE Return(p)
    BY <2>12 DEF Return
  <2> QED
    BY <1>4, <2>1, <2>2, <2>3, <2>4, <2>5, <2>6, <2>7, <2>8, <2>9, <2>10, <2>11, <2>12
    DEF Step
<1>5. ASSUME NEW p \in Process, End(p)
      PROVE  Underway'
  BY <1>5 DEF End
<1>6. CASE DeleteLockFile
  BY <1>6 DEF DeleteLockFile
<1>7. CASE UNCHANGED vars
  BY <1>7 DEF vars
<1> QED
  BY <1>1, <1>2, <1>3, <1>4, <1>5, <1>6, <1>7 DEF Next

\* Every step of the code is a step of the store or leaves the store alone.
LEMMA RefinementStep ==
  ASSUME TypeOK, Underway, [Next]_vars
  PROVE  [Store!Next]_(Store!vars)
<1> USE ProcessAssumption DEF TypeOK, Underway, Waiting, Answering, NoCall, NoReply,
        Store!NoCall, Store!NoReply, Store!Answer
<1>1. CASE Construct
  <2>1. PICK key \in Inode : Begin(Server, "open", key, NoInfo)
    BY <1>1 DEF Construct
  <2> DEFINE c == [op |-> "open", key |-> key, info |-> NoInfo]
  <2>2. c \in Store!Call
    BY DEF Store!Call
  <2>3. Store!Invoke(Server, c)
    BY <1>1, <2>1 DEF Construct, Begin, Store!Invoke
  <2> QED
    BY <2>2, <2>3 DEF Store!Next
<1>2. ASSUME NEW p \in Process, Fork(p)
      PROVE  UNCHANGED Store!vars
  BY <1>2 DEF Fork, Store!vars
<1>3. ASSUME NEW p \in Process, NEW key \in Inode, NEW info \in Info,
             Call(p, "put", key, info)
      PROVE  Store!Next
  <2> DEFINE c == [op |-> "put", key |-> key, info |-> info]
  <2>1. c \in Store!Call
    BY DEF Store!Call
  <2>2. Store!Invoke(p, c)
    BY <1>3 DEF Call, Begin, Store!Invoke
  <2> QED
    BY <2>1, <2>2 DEF Store!Next
<1>4. ASSUME NEW p \in Process, NEW key \in Inode, NEW op \in {"get", "delete"},
             Call(p, op, key, NoInfo)
      PROVE  Store!Next
  <2> DEFINE c == [op |-> op, key |-> key, info |-> NoInfo]
  <2>1. c \in Store!Call
    BY DEF Store!Call
  <2>2. Store!Invoke(p, c)
    BY <1>4 DEF Call, Begin, Store!Invoke
  <2> QED
    BY <2>1, <2>2 DEF Store!Next
<1>5. ASSUME NEW p \in Process, Step(p)
      PROVE  [Store!Next]_(Store!vars)
  <2>1. CASE SkipLock(p)
    BY <2>1 DEF SkipLock, Store!vars
  <2>2. CASE CreateLock(p)
    BY <2>2 DEF CreateLock, Store!vars
  <2>3. CASE RetryLock(p)
    BY <2>3 DEF RetryLock, Store!vars
  <2>4. CASE GiveUpLock(p)
    <3>1. \E code \in {"lock_error", "exception"} : Store!Fail(p, code)
      BY <2>4 DEF GiveUpLock, Failure, Store!Fail
    <3> QED
      BY <3>1 DEF Store!Next, Store!Code
  <2>5. CASE GdbmOpen(p)
    BY <2>5 DEF GdbmOpen, Store!vars
  <2>6. CASE GdbmOpenFails(p)
    <3>1. \E code \in {"db_error", "exception"} : Store!Fail(p, code)
      BY <2>6 DEF GdbmOpenFails, Failure, Store!Fail
    <3> QED
      BY <3>1 DEF Store!Next, Store!Code
  <2>7. CASE Access(p)
    <3>1. Store!Succeed(p)
      BY <2>7 DEF Access, Operation, Store!Succeed
    <3> QED
      BY <3>1 DEF Store!Next
  <2>8. CASE AccessFails(p)
    <3>1. Store!Fail(p, "db_error")
      BY <2>8 DEF AccessFails, Failure, Store!Fail
    <3> QED
      BY <3>1 DEF Store!Next, Store!Code
  <2>9. CASE GdbmClose(p)
    BY <2>9 DEF GdbmClose, Store!vars
  <2>10. CASE Unlock(p)
    BY <2>10 DEF Unlock, Store!vars
  <2>11. CASE UnlockFails(p)
    <3>1. CASE ret[p].code = "ok"
      <4>1. Store!LoseOutcome(p)
        BY <2>11, <3>1 DEF UnlockFails, Failure, Store!LoseOutcome
      <4> QED
        BY <4>1 DEF Store!Next
    <3>2. CASE ret[p].code # "ok"
      BY <2>11, <3>2 DEF UnlockFails, Store!vars
    <3> QED
      BY <3>1, <3>2
  <2>12. CASE Return(p)
    <3>1. pc' = [pc EXCEPT ![p] = "dead"] \/ pc' = [pc EXCEPT ![p] = "idle"]
      BY <2>12 DEF Return
    <3>2. pc[p] = "return" /\ ret' = [ret EXCEPT ![p] = NoReply]
            /\ call' = [call EXCEPT ![p] = NoCall] /\ db' = db
      BY <2>12 DEF Return
    <3>3. ret[p] # NoReply
      BY <3>2
    <3>4. Store!Return(p)
      BY <3>1, <3>2, <3>3 DEF Store!Return
    <3> QED
      BY <3>4 DEF Store!Next
  <2> QED
    BY <1>5, <2>1, <2>2, <2>3, <2>4, <2>5, <2>6, <2>7, <2>8, <2>9, <2>10, <2>11, <2>12
    DEF Step
<1>6. ASSUME NEW p \in Process, End(p)
      PROVE  Store!Next
  <2>1. Store!Crash(p)
    BY <1>6 DEF End, Store!Crash
  <2> QED
    BY <2>1 DEF Store!Next
<1>7. CASE DeleteLockFile
  BY <1>7 DEF DeleteLockFile, Store!vars
<1>8. CASE UNCHANGED vars
  BY <1>8 DEF vars, Store!vars
<1> QED
  BY <1>1, <1>2, <1>3, <1>4, <1>5, <1>6, <1>7, <1>8 DEF Next

\* The lock, the retries and the gdbm file together are the atomic store of
\* FileInfoStore: calls take effect one at a time, at most once each, and their
\* answers say what became of them, even when the administrator is not careful.
THEOREM Refinement == Spec => ImplementsStore
<1>1. Init => Store!Init /\ Underway
  BY DEF Init, Store!Init, Underway, Waiting, Answering, NoCall, NoReply,
         Store!NoCall, Store!NoReply, Store!Answer
<1>2. TypeOK /\ Underway /\ [Next]_vars => Underway'
  BY UnderwayStep
<1>3. TypeOK /\ Underway /\ [Next]_vars => [Store!Next]_(Store!vars)
  BY RefinementStep
<1> QED
  BY <1>1, <1>2, <1>3, TypeCorrect, PTL DEF Spec, ImplementsStore, Store!Spec
================================================================================
