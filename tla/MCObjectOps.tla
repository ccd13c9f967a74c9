---------------------------- MODULE MCObjectOps ----------------------------
(* A small instance of ObjectOps for TLC. *)
EXTENDS ObjectOps, TLC

Symmetric == Permutations(Client)
=============================================================================
