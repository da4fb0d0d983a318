--------------------------- MODULE MCDeploymentGate ---------------------------
(* Small instances of DeploymentGate for TLC. *)
EXTENDS DeploymentGate, TLC

\* Only plans are ordered.
Symmetry == Permutations(Approval) \cup Permutations(Execution) \cup Permutations(Request)
=============================================================================
