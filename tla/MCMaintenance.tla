---------------------------- MODULE MCMaintenance ----------------------------
(* Small instances of Maintenance for TLC. *)
EXTENDS Maintenance, TLC

Symmetry == Permutations(Deletion) \cup Permutations(Session) \cup Permutations(Admin)
=============================================================================
