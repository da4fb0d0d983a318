--------------------------- MODULE MCOutboxWorker ---------------------------
(* Small instances of OutboxWorker for TLC. *)
EXTENDS OutboxWorker, TLC

\* Jobs and administrators are interchangeable; so are workers in runs without
\* temporal properties.
Symmetry == Permutations(Job) \cup Permutations(Worker) \cup Permutations(Admin)
=============================================================================
