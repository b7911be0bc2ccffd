\* ABOR during LIST, or too late, or when the connection is closed as well.
CONSTANTS
  Commands = {"PORT", "RETR", "LIST", "USER", "ABOR"}
  Faults = {"lost"}
  MaxFd = 5
  MaxLost = 1
SPECIFICATION Spec
PROPERTIES AbortOnlyRunning
CHECK_DEADLOCK FALSE
