----------------------------- MODULE MCProjectChat -----------------------------
(* Small instances of ProjectChat for TLC. *)
EXTENDS ProjectChat, TLC

CONSTANTS customer, manager

Symmetry == Permutations(Message) \cup Permutations(Change) \cup Permutations(Session)
=============================================================================
