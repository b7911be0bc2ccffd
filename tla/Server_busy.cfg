\* FINISH while clients keep coming and going; children are stopped or get SIGTERM.
CONSTANTS
  v1 = v1
  v2 = v2
  k1 = k1
  k2 = k2
  k3 = k3
  a1 = a1
  a2 = a2
  NoServer = NoServer
  Server = {v1, v2}
  Child = {k1, k2}
  Addr = {a1}
  Events = {"FINISH", "TERM", "stop", "syscall"}
  MaxEdits = 0
SPECIFICATION BusySpec
INVARIANTS OneLateClient
PROPERTIES FinishEnds
CHECK_DEADLOCK FALSE
