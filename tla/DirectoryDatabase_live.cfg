\* The lock comes free: child c1 may be killed with it, and gdbm fails anywhere.
CONSTANTS
  server = server
  c1 = c1
  c2 = c2
  Process = {server, c1, c2}
  Server = server
  Inode = {i1}
  Info = {a}
  NoInfo = NoInfo
  LockingTimeout = 2
  IOErrors = {"create", "gdbm_open", "gdbm_access"}
  CarefulAdmin = TRUE
  MayCrash = {c1}
SPECIFICATION FairSpec
INVARIANTS StaleLockMeansUncleanEnd
PROPERTIES CallEnds LockReleased
