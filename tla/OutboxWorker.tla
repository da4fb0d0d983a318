------------------------------ MODULE OutboxWorker ------------------------------
(***************************************************************************)
(* The durable job queue: the table outbox_events as the worker processes  *)
(* of app/workers see it.  A row is claimed under a lease                  *)
(* (outbox.claim), a daemon thread renews the lease (LeaseHeartbeat), the  *)
(* handler runs in a database transaction of its own, a compare-and-set    *)
(* completes the row (complete_owned), and a failure is recorded by a      *)
(* read followed by an unconditional write (runner.run_once, fail).        *)
(*                                                                         *)
(* PostgreSQL runs these transactions at READ COMMITTED.  A statement that *)
(* re-checks its condition under the row lock (claim, heartbeat_owned,     *)
(* complete_owned) is one step.  A transaction that first reads the row    *)
(* and later writes it by primary key is two steps, because other          *)
(* transactions commit in between.                                         *)
(*                                                                         *)
(* Time is counted down: a Tick lowers the remaining life of every lease   *)
(* and the remaining delay of every row that is not available yet.         *)
(*                                                                         *)
(* The order in which eligible rows are claimed (ORDER BY available_at,    *)
(* created_at, id) is left open, because SKIP LOCKED may pass over any     *)
(* row a concurrent transaction holds.                                     *)
(***************************************************************************)
EXTENDS Integers

CONSTANTS
    Job,            \* rows of outbox_events
    Worker,         \* worker processes; the id "hostname:pid" survives a restart
    Admin,          \* concurrent requests of POST /dead-letters/{job_id}/retry
    None,           \* SQL NULL, and "no job"
    MaxAttempts,    \* OutboxEvent.max_attempts
    AttemptCap,     \* bound: attempt_count is counted up to this value
    LeaseTicks,     \* --lease-seconds, in ticks
    MaxBackoff,     \* bound: the longest retry delay, in ticks
    MaxLapses,      \* bound: crashes, lost leases, database errors, requeues per job
    Timely          \* TRUE: no lease runs out while its worker is still on the job

ASSUME NoneAssumption == None \notin Job /\ None \notin Worker
ASSUME BoundsAssumption ==
    /\ MaxAttempts \in Nat \ {0}
    /\ AttemptCap \in Nat /\ AttemptCap > MaxAttempts
    /\ LeaseTicks \in Nat \ {0}
    /\ MaxBackoff \in Nat \ {0}
    /\ MaxLapses \in Nat
    /\ Timely \in BOOLEAN

VARIABLES
    row,        \* the table: one record per job
    proc,       \* the local state of each worker process
    pending,    \* the row each administrator's request has read and not yet written
    latest,     \* history: the worker that claimed the job last
    effects,    \* history: how often a handler transaction of the job has committed
    lapses      \* history: the events after which a second execution is legitimate

vars == <<row, proc, pending, latest, effects, lapses>>

-----------------------------------------------------------------------------
(* Types.  "queued" stands for the legacy "pending" too: claim treats them alike. *)

NoLease == -1   \* lease_expires_at IS NULL

Status == {"queued", "processing", "retry_wait", "completed", "dead_letter"}

Row == [status : Status, lockedBy : Worker \cup {None},
        lease : NoLease .. LeaseTicks,      \* 0: lease_expires_at < now
        attempts : 0 .. AttemptCap,
        wait : 0 .. MaxBackoff]             \* 0: available_at <= now

\* Where run_once stands.  The heartbeat thread lives in the first three.
Guarded == {"claimed", "handling", "committing"}
Busy == Guarded \cup {"completing", "failing", "recording"}

Proc == [pc : Busy \cup {"poll"}, job : Job \cup {None},
         lost : BOOLEAN,                    \* LeaseHeartbeat.lost
         fatal : BOOLEAN,                   \* the exception is non-retryable
         seen : 0 .. AttemptCap]            \* attempt_count as fail() has loaded it

TypeOK ==
    /\ row \in [Job -> Row]
    /\ proc \in [Worker -> Proc]
    /\ \A w \in Worker : proc[w].pc \in Busy => proc[w].job \in Job
    /\ pending \in [Admin -> Job \cup {None}]
    /\ latest \in [Job -> Worker \cup {None}]
    /\ effects \in [Job -> Nat]
    /\ lapses \in [Job -> 0 .. MaxLapses]

-----------------------------------------------------------------------------
(* Reading a row. *)

\* Mutant of Claimable: the lease of a processing row is not looked at.
ClaimableIgnoringLease(j) ==
    row[j].wait = 0 /\ row[j].status \in {"queued", "retry_wait", "processing"}

\* Mutant of Claimable: rows in processing are never taken over.
ClaimableWithoutRecovery(j) ==
    row[j].wait = 0 /\ row[j].status \in {"queued", "retry_wait"}

\* outbox.claim's WHERE clause.
Claimable(j) ==
    /\ row[j].wait = 0
    /\ \/ row[j].status \in {"queued", "retry_wait"}
       \/ row[j].status = "processing" /\ row[j].lease = 0

\* The select and the check of run_once: the owner, whatever the lease says.
Owns(w, j) == row[j].status = "processing" /\ row[j].lockedBy = w

\* Mutant of OwnsLive: the compare-and-set without lease_expires_at >= now.
OwnsLiveIgnoringLease(w, j) == Owns(w, j)

\* The compare-and-set of heartbeat_owned and complete_owned.
OwnsLive(w, j) == Owns(w, j) /\ row[j].lease > 0

\* fail()'s choice between dead_letter and retry_wait.
ExhaustedOffByOne(count) == count > MaxAttempts     \* mutant of Exhausted
Exhausted(count) == count >= MaxAttempts

CanLapse(j) == lapses[j] < MaxLapses
Lapse(j) == lapses' = [lapses EXCEPT ![j] = @ + 1]

Idle == [pc |-> "poll", job |-> None, lost |-> FALSE, fatal |-> FALSE, seen |-> 0]

Goto(w, label) == proc' = [proc EXCEPT ![w].pc = label]
Raise(w, nonRetryable) ==
    proc' = [proc EXCEPT ![w].pc = "failing", ![w].fatal = nonRetryable]
Return(w) == proc' = [proc EXCEPT ![w] = Idle]

-----------------------------------------------------------------------------
Init ==
    /\ row = [j \in Job |-> [status |-> "queued", lockedBy |-> None, lease |-> NoLease,
                             attempts |-> 0, wait |-> 0]]
    /\ proc = [w \in Worker |-> Idle]
    /\ pending = [a \in Admin |-> None]
    /\ latest = [j \in Job |-> None]
    /\ effects = [j \in Job |-> 0]
    /\ lapses = [j \in Job |-> 0]

\* Mutant of Granted: lease_expires_at is not set.
GrantedWithoutLease(r, w) ==
    [r EXCEPT !.status = "processing", !.lockedBy = w,
              !.attempts = IF @ < AttemptCap THEN @ + 1 ELSE @]

\* The row as claim() leaves it: nothing here looks at max_attempts.
Granted(r, w) ==
    [r EXCEPT !.status = "processing", !.lockedBy = w, !.lease = LeaseTicks,
              !.attempts = IF @ < AttemptCap THEN @ + 1 ELSE @]

Claim(w, j) ==
    /\ proc[w].pc = "poll"
    /\ Claimable(j)
    /\ row' = [row EXCEPT ![j] = Granted(@, w)]
    /\ proc' = [proc EXCEPT ![w] = [Idle EXCEPT !.pc = "claimed", !.job = j]]
    /\ latest' = [latest EXCEPT ![j] = w]
    /\ UNCHANGED <<pending, effects, lapses>>

\* LeaseHeartbeat._run: renew by compare-and-set, or set lost and end the thread.
Heartbeat(w) ==
    /\ proc[w].pc \in Guarded
    /\ ~proc[w].lost
    /\ \/ /\ OwnsLive(w, proc[w].job)
          /\ row' = [row EXCEPT ![proc[w].job].lease = LeaseTicks]
          /\ UNCHANGED proc
       \/ /\ ~OwnsLive(w, proc[w].job)
          /\ proc' = [proc EXCEPT ![w].lost = TRUE]
          /\ UNCHANGED row
    /\ UNCHANGED <<pending, latest, effects, lapses>>

\* A database error in the heartbeat thread: ownership cannot be verified any more.
HeartbeatError(w) ==
    /\ proc[w].pc \in Guarded
    /\ ~proc[w].lost
    /\ proc' = [proc EXCEPT ![w].lost = TRUE]
    /\ UNCHANGED <<row, pending, latest, effects, lapses>>

\* The handler's transaction opens: it re-reads the row, but not the lease.
BeginHandler(w) ==
    /\ proc[w].pc = "claimed"
    /\ IF Owns(w, proc[w].job) /\ ~proc[w].lost
       THEN Goto(w, "handling")
       ELSE Raise(w, TRUE)
    /\ UNCHANGED <<row, pending, latest, effects, lapses>>

\* Mutant of HandlerRaises: the exception is swallowed and the job completed.
HandlerSwallows(w) ==
    /\ proc[w].pc = "handling"
    /\ Goto(w, "completing")
    /\ UNCHANGED <<row, pending, latest, effects, lapses>>

\* handler.execute or registry.get raises; the transaction rolls back.
HandlerRaises(w) ==
    /\ proc[w].pc = "handling"
    /\ \E nonRetryable \in BOOLEAN : Raise(w, nonRetryable)
    /\ UNCHANGED <<row, pending, latest, effects, lapses>>

\* handler.execute returns and is flushed; the last look at heartbeat.lost.
HandlerReturns(w) ==
    /\ proc[w].pc = "handling"
    /\ IF proc[w].lost THEN Raise(w, TRUE) ELSE Goto(w, "committing")
    /\ UNCHANGED <<row, pending, latest, effects, lapses>>

CommitHandler(w) ==
    /\ proc[w].pc = "committing"
    /\ effects' = [effects EXCEPT ![proc[w].job] = @ + 1]
    /\ Goto(w, "completing")
    /\ UNCHANGED <<row, pending, latest, lapses>>

\* The commit raises: it did not happen, or it did and the answer was lost.
CommitError(w) ==
    /\ proc[w].pc = "committing"
    /\ Raise(w, FALSE)
    /\ \/ UNCHANGED <<effects, lapses>>
       \/ /\ CanLapse(proc[w].job)
          /\ effects' = [effects EXCEPT ![proc[w].job] = @ + 1]
          /\ Lapse(proc[w].job)
    /\ UNCHANGED <<row, pending, latest>>

\* Mutant of Completed: the status emit_project_event writes.
CompletedAsProcessed(r) ==
    [r EXCEPT !.status = "processed", !.lockedBy = None, !.lease = NoLease]

Completed(r) == [r EXCEPT !.status = "completed", !.lockedBy = None, !.lease = NoLease]

CompleteOwned(w) ==
    /\ proc[w].pc = "completing"
    /\ \/ /\ OwnsLive(w, proc[w].job)
          /\ row' = [row EXCEPT ![proc[w].job] = Completed(@)]
          /\ Return(w)
       \/ /\ ~OwnsLive(w, proc[w].job)
          /\ Raise(w, TRUE)
          /\ UNCHANGED row
    /\ UNCHANGED <<pending, latest, effects, lapses>>

\* The completing transaction raises, again with or without having committed.
CompleteError(w) ==
    /\ proc[w].pc = "completing"
    /\ Raise(w, FALSE)
    /\ \/ /\ CanLapse(proc[w].job)
          /\ Lapse(proc[w].job)
          /\ UNCHANGED row
       \/ /\ OwnsLive(w, proc[w].job)
          /\ row' = [row EXCEPT ![proc[w].job] = Completed(@)]
          /\ UNCHANGED lapses
    /\ UNCHANGED <<pending, latest, effects>>

\* Mutant of ReadForFailure: the failure is recorded whoever owns the row.
ReadForFailureUnchecked(w) ==
    /\ proc[w].pc = "failing"
    /\ proc' = [proc EXCEPT ![w].pc = "recording",
                            ![w].seen = row[proc[w].job].attempts]
    /\ UNCHANGED <<row, pending, latest, effects, lapses>>

\* run_once's except clause, first half: session.get and the ownership check.
ReadForFailure(w) ==
    /\ proc[w].pc = "failing"
    /\ IF Owns(w, proc[w].job)
       THEN proc' = [proc EXCEPT ![w].pc = "recording",
                                 ![w].seen = row[proc[w].job].attempts]
       ELSE Return(w)
    /\ UNCHANGED <<row, pending, latest, effects, lapses>>

\* Second half: fail() and the flush, an UPDATE by primary key of the columns
\* that differ from what was loaded.
RecordFailure(w) ==
    LET j == proc[w].job
        count == IF proc[w].fatal THEN MaxAttempts ELSE proc[w].seen
        written == [row[j] EXCEPT !.lockedBy = None, !.lease = NoLease,
                       !.attempts = IF count = proc[w].seen THEN @ ELSE count]
    IN /\ proc[w].pc = "recording"
       /\ \/ /\ Exhausted(count)
             /\ row' = [row EXCEPT ![j] = [written EXCEPT !.status = "dead_letter"]]
          \/ /\ ~Exhausted(count)
             /\ \E delay \in 1 .. MaxBackoff :
                  row' = [row EXCEPT ![j] = [written EXCEPT !.status = "retry_wait",
                                                            !.wait = delay]]
       /\ Return(w)
       /\ UNCHANGED <<pending, latest, effects, lapses>>

\* The process dies (or run_once lets an exception through) and is started again
\* under the same id.  What it had not committed is gone; the row keeps its lock.
Crash(w) ==
    /\ proc[w].pc \in Busy
    /\ IF Owns(w, proc[w].job)
       THEN CanLapse(proc[w].job) /\ Lapse(proc[w].job)
       ELSE UNCHANGED lapses
    /\ Return(w)
    /\ UNCHANGED <<row, pending, latest, effects>>

\* POST /dead-letters/{job_id}/retry: session.get and retry_dead_letter's check ...
RetryRead(a, j) ==
    /\ pending[a] = None
    /\ row[j].status = "dead_letter"
    /\ pending' = [pending EXCEPT ![a] = j]
    /\ UNCHANGED <<row, proc, latest, effects, lapses>>

\* ... and the commit of its assignments, which do not touch locked_by or the lease.
RetryWrite(a) ==
    /\ pending[a] # None
    /\ CanLapse(pending[a])
    /\ Lapse(pending[a])
    /\ row' = [row EXCEPT ![pending[a]].status = "queued", ![pending[a]].attempts = 0,
                          ![pending[a]].wait = 0]
    /\ pending' = [pending EXCEPT ![a] = None]
    /\ UNCHANGED <<proc, latest, effects>>

\* A worker is still inside run_once for the job it holds the row of.
Held(j) == \E w \in Worker : proc[w].pc \in Busy /\ proc[w].job = j /\ Owns(w, j)

\* One unit of time.  A lease may run out under its worker (a long pause, a slow
\* database, no renewal in time) unless Timely rules it out.
Tick ==
    LET Expiring == {j \in Job : row[j].lease = 1 /\ Held(j)}
    IN /\ \E j \in Job : row[j].lease > 0 \/ row[j].wait > 0
       /\ Timely => Expiring = {}
       /\ \A j \in Expiring : CanLapse(j)
       /\ row' = [j \in Job |->
                    [row[j] EXCEPT !.lease = IF @ > 0 THEN @ - 1 ELSE @,
                                   !.wait = IF @ > 0 THEN @ - 1 ELSE @]]
       /\ lapses' = [j \in Job |-> IF j \in Expiring THEN lapses[j] + 1 ELSE lapses[j]]
       /\ UNCHANGED <<proc, pending, latest, effects>>

-----------------------------------------------------------------------------
\* What a worker process does of its own accord.
RunOnce(w) ==
    \/ \E j \in Job : Claim(w, j)
    \/ BeginHandler(w)
    \/ HandlerRaises(w)
    \/ HandlerReturns(w)
    \/ CommitHandler(w)
    \/ CommitError(w)
    \/ CompleteOwned(w)
    \/ CompleteError(w)
    \/ ReadForFailure(w)
    \/ RecordFailure(w)

Next ==
    \/ \E w \in Worker : RunOnce(w) \/ Heartbeat(w) \/ HeartbeatError(w) \/ Crash(w)
    \/ \E a \in Admin : RetryWrite(a) \/ \E j \in Job : RetryRead(a, j)
    \/ Tick

Spec == Init /\ [][Next]_vars

\* main() calls run_once for ever and time passes.  Nothing obliges a process to
\* crash, a database call to fail, or an administrator to act.
Fairness == (\A w \in Worker : WF_vars(RunOnce(w))) /\ WF_vars(Tick)

FairSpec == Spec /\ Fairness

-----------------------------------------------------------------------------
(* Properties that hold whatever the timing: leases may run out under a worker. *)

\* A row in processing names an owner and carries a lease, and nothing delays it:
\* SQL's NULL < now is not true, so a processing row without lease_expires_at would
\* never be claimed again.
ProcessingIsReclaimable ==
    \A j \in Job : row[j].status = "processing" =>
        row[j].lockedBy # None /\ row[j].lease # NoLease /\ row[j].wait = 0

\* A job is completed only when a handler transaction of it has committed, however
\* often it was claimed, lost, failed and requeued before.
CompletedHasEffect ==
    \A j \in Job : row[j].status = "completed" => effects[j] > 0

\* The handler's transaction commits once, and once more at most for every crash of
\* the owner, lease lost under it, unknown commit outcome or requeue of the job.
DuplicatesNeedALapse == \A j \in Job : effects[j] <= 1 + lapses[j]

\* Only the worker that claimed the job last completes it, and only within its lease:
\* complete_owned is fenced against every worker whose claim was superseded.
FencedCompletion ==
    [][\A j \in Job :
         row[j].status # "completed" /\ row'[j].status = "completed" =>
            /\ row[j].lease > 0
            /\ \E w \in Worker : /\ latest[j] = w
                                 /\ proc[w].pc = "completing" /\ proc[w].job = j]_vars

-----------------------------------------------------------------------------
(* Properties of timely workers (Timely = TRUE) with one administrator. *)

\* A handler's effect reaches the database only while its worker holds the row and a live lease.
CommitUnderLease ==
    [][\A w \in Worker :
         proc[w].pc = "committing" /\ proc'[w].pc = "completing" =>
            OwnsLive(w, proc[w].job)]_vars

\* While a live lease is held, the owner of the row and its status change by a step
\* of the worker that holds it, and of no other process.
LeaseExclusive ==
    [][\A j \in Job, w \in Worker :
         /\ OwnsLive(w, j)
         /\ row'[j].status # row[j].status \/ row'[j].lockedBy # row[j].lockedBy
         => /\ proc[w].job = j /\ proc'[w] # proc[w]
            /\ \A v \in Worker \ {w} : proc'[v] = proc[v]]_vars

\* attempt_count, max_attempts and the status agree: a job waits for a retry only with
\* attempts left, is buried only without, and a fresh or requeued one starts at zero.
AttemptAccounting ==
    \A j \in Job :
        /\ row[j].status = "queued" => row[j].attempts = 0
        /\ row[j].status = "processing" => row[j].attempts > 0
        /\ row[j].status = "retry_wait" => row[j].attempts \in 1 .. MaxAttempts - 1
        /\ row[j].status = "dead_letter" => row[j].attempts >= MaxAttempts

Phase(r) == CASE r.status = "completed" -> "done"
              [] r.status = "dead_letter" -> "buried"
              [] OTHER -> "open"

Queue == INSTANCE AtLeastOnceQueue WITH
            phase <- [j \in Job |-> Phase(row[j])],
            applied <- {j \in Job : effects[j] > 0}

\* The queue keeps the promise of AtLeastOnceQueue; in particular a completed job is
\* never executed again and no effect is applied after the job was closed.
ImplementsQueue == Queue!Spec

\* Every job ends completed or in the dead letters, through crashes, failed handlers
\* and failed database calls: a job whose worker died is found again.
JobsSettle ==
    \A j \in Job : row[j].status \notin {"completed", "dead_letter"}
                      ~> row[j].status \in {"completed", "dead_letter"}
=============================================================================
