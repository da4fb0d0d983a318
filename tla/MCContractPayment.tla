-------------------------- MODULE MCContractPayment --------------------------
(* Small instances of ContractPayment for TLC. *)
EXTENDS ContractPayment, TLC

\* Keys, events and requests are interchangeable.
Symmetry == Permutations(Key) \cup Permutations(Event) \cup Permutations(Request)
=============================================================================
