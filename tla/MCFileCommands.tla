---------------------------- MODULE MCFileCommands ----------------------------
(***************************************************************************)
(* Small instances of FileCommands: two sessions, two users, two names.    *)
(***************************************************************************)
EXTENDS FileCommands, TLC

CONSTANTS s1, s2, f, g, i1, i2, alice, bob

\* Every session names any file, or each has a name of its own.
Shared == [s \in Session |-> Name]
Disjoint == (s1 :> {f}) @@ (s2 :> {g})

Symmetry == Permutations({i1, i2})
================================================================================
