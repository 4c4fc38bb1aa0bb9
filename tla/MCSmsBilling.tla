---------------------------- MODULE MCSmsBilling ----------------------------
(***************************************************************************)
(* A small instance of SmsBilling for TLC.                                 *)
(***************************************************************************)
EXTENDS SmsBilling, TLC

CONSTANTS j1, j2

Symmetry == Permutations(Reports) \cup Permutations(MessageIds)

====
