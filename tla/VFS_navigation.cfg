\* One session on a disk with links, shared, closed and shadowed directories.
CONSTANTS
  Directory <- Disk
  Closed <- Locked
  Link <- Links
  Begins <- Beginnings
  User = {"alice", "bob"}
  File <- Files
  Record <- Db
  Configs <- Files2
  Paths <- Dirs
  FilePaths <- FileDirs
  Faults = {"connect"}
SPECIFICATION Spec
CHECK_DEADLOCK FALSE
INVARIANTS TypeOK PlaceConsistent  ListAgreesWithGet RoundTrip RetrSendsChecked StorWritesChecked
PROPERTIES StaysPut
