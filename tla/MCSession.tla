------------------------------ MODULE MCSession ------------------------------
(***************************************************************************)
(* Small instances of Session: the bounds are in the .cfg files.           *)
(***************************************************************************)
EXTENDS Session

AllFaults ==
  {"refused", "offset", "syntax", "connect", "lost", "local", "system", "control"}
================================================================================
