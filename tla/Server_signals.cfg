\* One server, three children: DENYIP by several at once, SIGHUP; system calls and files fail.
CONSTANTS
  v1 = v1
  v2 = v2
  k1 = k1
  k2 = k2
  k3 = k3
  a1 = a1
  a2 = a2
  NoServer = NoServer
  Server = {v1}
  Child = {k1, k2, k3}
  Addr = {a1}
  Events = {"DENYIP", "HUP", "syscall", "file"}
  MaxEdits = 1
SYMMETRY Symmetry
SPECIFICATION Spec
INVARIANTS TypeOK ReapNeverBlocks PidFileKept DenyEnforced ReloadRemembered
CHECK_DEADLOCK FALSE
