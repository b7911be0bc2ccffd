\* A parent and two children that may be killed anywhere, every error allowed.
CONSTANTS
  server = server
  c1 = c1
  c2 = c2
  Process = {server, c1, c2}
  Server = server
  Inode = {i1}
  Info = {a, b}
  NoInfo = NoInfo
  LockingTimeout = 2
  IOErrors = {"create", "gdbm_open", "gdbm_access", "unlink"}
  CarefulAdmin = TRUE
  MayCrash = {server, c1, c2}
SYMMETRY Children
SPECIFICATION Spec
INVARIANTS TypeOK LockInv ExclusiveAccess
PROPERTIES LockKept ImplementsStore
