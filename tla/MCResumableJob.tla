---------------------------- MODULE MCResumableJob ----------------------------
(* Small instances of ResumableJob for TLC. *)
EXTENDS ResumableJob, TLC

Symmetry == Permutations(Worker) \cup Permutations(Answer)
=============================================================================
