\* Every command, every fault, ABOR at any time; descriptors may run out.
CONSTANTS
  Commands = {"PASV", "PORT", "REST", "RETR", "STOR", "APPE", "LIST", "USER", "ABOR"}
  Faults <- AllFaults
  MaxFd = 4
  MaxLost = 3
SPECIFICATION FairSpec
INVARIANTS TypeOK PassiveMeansListening ConnectsAsTold
PROPERTIES AborEndsTransfer EndIsAnswered
CHECK_DEADLOCK FALSE
