\* Clients take turns, on shared names; deleting a record may fail.
CONSTANTS
  s1 = s1
  s2 = s2
  f = f
  g = g
  i1 = i1
  i2 = i2
  alice = alice
  bob = bob
  Session = {s1, s2}
  User = {alice, bob}
  Name = {f, g}
  Inode = {i1, i2}
  NoUser = NoUser
  NoName = NoName
  NoInode = NoInode
  Anonymous = Anonymous
  Writers = {alice, bob}
  Commands = {"RETR", "STOR", "STOU", "DELE", "RMD", "MKD", "RNFR", "RNTO", "REIN"}
  MayName <- Shared
  Faults = {"delete"}
  TakeTurns = TRUE
  StrictClients = TRUE
SYMMETRY Symmetry
SPECIFICATION Spec
INVARIANTS TypeOK OwnersInv NoForeignRead
PROPERTIES OnlyOwnerRemoves RenameAuthorised RenameKeepsFile
