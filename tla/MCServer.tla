------------------------------- MODULE MCServer -------------------------------
(***************************************************************************)
(* Small instances of Server.                                              *)
(***************************************************************************)
EXTENDS Server, TLC

CONSTANTS v1, v2, k1, k2, k3, a1, a2

\* Child processes are alike, and so are addresses (not for liveness).
Symmetry == Permutations(Child) \cup Permutations(Addr)
================================================================================
