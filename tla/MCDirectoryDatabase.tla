------------------------- MODULE MCDirectoryDatabase -------------------------
(***************************************************************************)
(* Small instances of DirectoryDatabase.                                   *)
(***************************************************************************)
EXTENDS DirectoryDatabase, TLC

CONSTANTS server, c1, c2

\* The children are interchangeable (safety runs only).
Children == Permutations({c1, c2})
================================================================================
