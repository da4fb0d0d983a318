--------------------------- MODULE AtLeastOnceQueue ---------------------------
(***************************************************************************)
(* What the job queue promises to the code that enqueues work, without     *)
(* workers, leases or time.  A job is open until it is either done or      *)
(* buried.  Its effect is applied only while it is open, it is done only   *)
(* after its effect was applied, and done is for ever.  A buried job is    *)
(* reopened by an administrator only.                                      *)
(***************************************************************************)
CONSTANT Job

VARIABLES
    phase,      \* "open", "done" or "buried"
    applied     \* the jobs whose effect is in the database, once or more often

vars == <<phase, applied>>

Phase == {"open", "done", "buried"}

TypeOK ==
    /\ phase \in [Job -> Phase]
    /\ applied \subseteq Job

Init ==
    /\ phase = [j \in Job |-> "open"]
    /\ applied = {}

\* Applying an effect a second time changes nothing here: delivery is at least once.
Apply(j) ==
    /\ phase[j] = "open"
    /\ applied' = applied \cup {j}
    /\ UNCHANGED phase

Finish(j) ==
    /\ phase[j] = "open"
    /\ j \in applied
    /\ phase' = [phase EXCEPT ![j] = "done"]
    /\ UNCHANGED applied

\* A job may be buried although an earlier execution applied its effect.
Bury(j) ==
    /\ phase[j] = "open"
    /\ phase' = [phase EXCEPT ![j] = "buried"]
    /\ UNCHANGED applied

Reopen(j) ==
    /\ phase[j] = "buried"
    /\ phase' = [phase EXCEPT ![j] = "open"]
    /\ UNCHANGED applied

Next == \E j \in Job : Apply(j) \/ Finish(j) \/ Bury(j) \/ Reopen(j)

Spec == Init /\ [][Next]_vars
=============================================================================
