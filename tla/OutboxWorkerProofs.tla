-------------------------- MODULE OutboxWorkerProofs --------------------------
(***************************************************************************)
(* Proofs about OutboxWorker for every set of jobs, workers and            *)
(* administrators and every value of the bounds.                           *)
(*                                                                         *)
(* Nothing is assumed of the timing: leases may run out under a worker.    *)
(* TypeCorrect comes first; from the inductive invariant QueueInv follow   *)
(* that a completed job has a committed effect, that a processing row can  *)
(* be claimed again, and that only the latest claimant completes a job;    *)
(* from BooksInv how often its handler may commit.                         *)
(*                                                                         *)
(* The second part is about leases that do not run out under a worker, and *)
(* one administrator at a time who retries dead letters: TimelyInv says    *)
(* that a worker between claim and completion holds the row with a live    *)
(* lease.  From it follow the lease properties, the attempt accounting and *)
(* the implementation of AtLeastOnceQueue.                                 *)
(***************************************************************************)
EXTENDS OutboxWorker, FiniteSetTheorems, TLAPS

-----------------------------------------------------------------------------
(* Type correctness. *)

ProcTyped ==
    /\ proc \in [Worker -> Proc]
    /\ \A w \in Worker : proc[w].pc \in Busy => proc[w].job \in Job

LEMMA InitType == Init => TypeOK
  BY NoneAssumption, BoundsAssumption
     DEF Init, TypeOK, Row, Proc, Status, NoLease, Busy, Guarded, Idle

\* The rows the actions write.
LEMMA GrantedType ==
  ASSUME NEW r \in Row, NEW w \in Worker
  PROVE  Granted(r, w) \in Row
  <1>1. /\ r.attempts \in 0 .. AttemptCap
        /\ "processing" \in Status
        /\ LeaseTicks \in NoLease .. LeaseTicks
    BY BoundsAssumption DEF Row, Status, NoLease
  <1>2. (IF r.attempts < AttemptCap THEN r.attempts + 1 ELSE r.attempts) \in 0 .. AttemptCap
    BY <1>1, BoundsAssumption
  <1> QED
    BY <1>1, <1>2 DEF Row, Granted

LEMMA CompletedType ==
  ASSUME NEW r \in Row
  PROVE  Completed(r) \in Row
  <1>1. "completed" \in Status /\ NoLease \in NoLease .. LeaseTicks
    BY BoundsAssumption DEF Status, NoLease
  <1> QED
    BY <1>1 DEF Row, Completed

LEMMA IdleType == Idle \in Proc /\ Idle.pc \notin Busy
  BY BoundsAssumption DEF Idle, Proc, Busy, Guarded

\* The ways in which the actions write the local state of one process.
LEMMA ProcWrite ==
  ASSUME TypeOK, NEW w \in Worker, NEW p \in Proc, p.pc \in Busy => p.job \in Job,
         proc' = [proc EXCEPT ![w] = p]
  PROVE  ProcTyped'
  BY DEF TypeOK, ProcTyped

LEMMA ReturnType ==
  ASSUME TypeOK, NEW w \in Worker, Return(w)
  PROVE  ProcTyped'
  BY IdleType, ProcWrite DEF Return

LEMMA GotoWrite ==
  ASSUME TypeOK, NEW w \in Worker, proc[w].pc \in Busy, NEW label \in Busy, Goto(w, label)
  PROVE  \E p \in Proc : /\ proc' = [proc EXCEPT ![w] = p]
                         /\ p.pc = label /\ p.job = proc[w].job /\ p.job \in Job
  <1> DEFINE p == [proc[w] EXCEPT !.pc = label]
  <1>1. proc[w] \in Proc /\ proc[w].job \in Job
    BY DEF TypeOK
  <1>2. p \in Proc /\ p.pc = label /\ p.job = proc[w].job
    BY <1>1 DEF Proc
  <1>3. proc' = [proc EXCEPT ![w] = p]
    BY <1>1 DEF Goto, TypeOK
  <1> QED
    BY <1>1, <1>2, <1>3

LEMMA GotoType ==
  ASSUME TypeOK, NEW w \in Worker, proc[w].pc \in Busy, NEW label \in Busy, Goto(w, label)
  PROVE  ProcTyped'
  BY GotoWrite, ProcWrite

LEMMA RaiseWrite ==
  ASSUME TypeOK, NEW w \in Worker, proc[w].pc \in Busy, NEW b \in BOOLEAN, Raise(w, b)
  PROVE  \E p \in Proc : /\ proc' = [proc EXCEPT ![w] = p]
                         /\ p.pc = "failing" /\ p.job = proc[w].job /\ p.job \in Job
  <1> DEFINE p == [proc[w] EXCEPT !.pc = "failing", !.fatal = b]
  <1>1. "failing" \in Busy /\ proc[w] \in Proc /\ proc[w].job \in Job
    BY DEF TypeOK, Busy
  <1>2. p \in Proc /\ p.pc = "failing" /\ p.job = proc[w].job
    BY <1>1 DEF Proc
  <1>3. proc' = [proc EXCEPT ![w] = p]
    BY <1>1 DEF Raise, TypeOK
  <1> QED
    BY <1>1, <1>2, <1>3

LEMMA RaiseType ==
  ASSUME TypeOK, NEW w \in Worker, proc[w].pc \in Busy, NEW b \in BOOLEAN, Raise(w, b)
  PROVE  ProcTyped'
  BY RaiseWrite, ProcWrite

LEMMA LapseType ==
  ASSUME TypeOK, NEW j \in Job, CanLapse(j), Lapse(j)
  PROVE  lapses' \in [Job -> 0 .. MaxLapses]
  BY BoundsAssumption DEF CanLapse, Lapse, TypeOK

\* What fail() writes: the row is unlocked and waits for a retry or is buried.
LEMMA FailureRow ==
  ASSUME TypeOK, NEW w \in Worker, RecordFailure(w)
  PROVE  \E r \in Row :
            /\ row' = [row EXCEPT ![proc[w].job] = r]
            /\ r.status \in {"dead_letter", "retry_wait"} /\ r.lockedBy = None
  <1> DEFINE j == proc[w].job
             count == IF proc[w].fatal THEN MaxAttempts ELSE proc[w].seen
             written == [row[j] EXCEPT !.lockedBy = None, !.lease = NoLease,
                            !.attempts = IF count = proc[w].seen THEN @ ELSE count]
  <1>1. j \in Job /\ row[j] \in Row /\ count \in 0 .. AttemptCap
    <2>1. proc[w].pc \in Busy
      BY DEF RecordFailure, Busy
    <2>2. proc[w] \in Proc /\ j \in Job
      BY <2>1 DEF TypeOK
    <2>3. proc[w].seen \in 0 .. AttemptCap
      BY <2>2 DEF Proc
    <2> QED
      BY <2>2, <2>3, BoundsAssumption DEF TypeOK
  <1>2. (IF count = proc[w].seen THEN row[j].attempts ELSE count) \in 0 .. AttemptCap
    BY <1>1 DEF Row
  <1>3. NoLease \in NoLease .. LeaseTicks
    BY BoundsAssumption DEF NoLease
  <1>4. written \in Row /\ written.lockedBy = None
    BY <1>1, <1>2, <1>3 DEF Row
  <1>5. CASE Exhausted(count)
    <2>1. row' = [row EXCEPT ![j] = [written EXCEPT !.status = "dead_letter"]]
      BY <1>5 DEF RecordFailure
    <2> HIDE DEF written
    <2>2. /\ [written EXCEPT !.status = "dead_letter"] \in Row
          /\ [written EXCEPT !.status = "dead_letter"].lockedBy = None
          /\ [written EXCEPT !.status = "dead_letter"].status = "dead_letter"
      BY <1>4 DEF Row, Status
    <2> QED
      BY <2>1, <2>2
  <1>6. CASE ~Exhausted(count)
    <2>1. PICK delay \in 1 .. MaxBackoff :
            row' = [row EXCEPT ![j] = [written EXCEPT !.status = "retry_wait",
                                                      !.wait = delay]]
      BY <1>6 DEF RecordFailure
    <2> HIDE DEF written
    <2> DEFINE r == [written EXCEPT !.status = "retry_wait", !.wait = delay]
    <2>2. "retry_wait" \in Status /\ delay \in 0 .. MaxBackoff
      BY BoundsAssumption DEF Status
    <2>3. r \in Row /\ r.lockedBy = None /\ r.status = "retry_wait"
      BY <1>4, <2>2 DEF Row
    <2> QED
      BY <2>1, <2>3
  <1> QED
    BY <1>5, <1>6

LEMMA StepType == TypeOK /\ [Next]_vars => TypeOK'
  <1> SUFFICES ASSUME TypeOK, [Next]_vars PROVE TypeOK'
    OBVIOUS
  <1> DEFINE Labels == /\ "handling" \in Busy /\ "committing" \in Busy
                       /\ "completing" \in Busy /\ "recording" \in Busy
                       /\ "claimed" \in Busy /\ "failing" \in Busy
                       /\ Guarded \subseteq Busy
  <1>a. Labels
    BY DEF Busy, Guarded
  <1>b. TypeOK <=> /\ row \in [Job -> Row] /\ ProcTyped
                   /\ pending \in [Admin -> Job \cup {None}]
                   /\ latest \in [Job -> Worker \cup {None}]
                   /\ effects \in [Job -> Nat]
                   /\ lapses \in [Job -> 0 .. MaxLapses]
    BY DEF TypeOK, ProcTyped
  <1>c. (/\ row \in [Job -> Row] /\ ProcTyped
         /\ pending \in [Admin -> Job \cup {None}]
         /\ latest \in [Job -> Worker \cup {None}]
         /\ effects \in [Job -> Nat]
         /\ lapses \in [Job -> 0 .. MaxLapses])' => TypeOK'
    BY DEF TypeOK, ProcTyped
  <1>1. ASSUME NEW w \in Worker, NEW j \in Job, Claim(w, j) PROVE TypeOK'
    <2>1. row' \in [Job -> Row]
      BY <1>1, GrantedType DEF Claim, TypeOK
    <2> DEFINE p == [Idle EXCEPT !.pc = "claimed", !.job = j]
    <2>2. p \in Proc /\ p.job \in Job
      BY <1>a, IdleType DEF Idle, Proc
    <2>3. ProcTyped'
      BY <1>1, <2>2, ProcWrite DEF Claim
    <2> QED
      BY <1>1, <1>b, <1>c, <2>1, <2>3 DEF Claim
  <1>2. ASSUME NEW w \in Worker, Heartbeat(w) PROVE TypeOK'
    <2>1. proc[w].job \in Job
      BY <1>2, <1>a DEF Heartbeat, TypeOK
    <2>2. CASE OwnsLive(w, proc[w].job)
      <3>1. LeaseTicks \in NoLease .. LeaseTicks
        BY BoundsAssumption DEF NoLease
      <3>2. row' \in [Job -> Row]
        BY <1>2, <2>1, <2>2, <3>1 DEF Heartbeat, TypeOK, Row
      <3> QED
        BY <1>2, <2>2, <3>2 DEF Heartbeat, TypeOK
    <2>3. CASE ~OwnsLive(w, proc[w].job)
      <3> DEFINE p == [proc[w] EXCEPT !.lost = TRUE]
      <3>1. p \in Proc /\ p.job \in Job /\ proc' = [proc EXCEPT ![w] = p]
        BY <1>2, <2>1, <2>3 DEF Heartbeat, TypeOK, Proc
      <3> QED
        BY <1>2, <2>3, <3>1, <1>b, <1>c, ProcWrite DEF Heartbeat
    <2> QED
      BY <2>2, <2>3
  <1>3. ASSUME NEW w \in Worker, HeartbeatError(w) PROVE TypeOK'
    BY <1>3 DEF HeartbeatError, TypeOK, Proc
  <1>4. ASSUME NEW w \in Worker, BeginHandler(w) PROVE TypeOK'
    BY <1>4, <1>a, <1>b, <1>c, GotoType, RaiseType DEF BeginHandler
  <1>5. ASSUME NEW w \in Worker, HandlerRaises(w) PROVE TypeOK'
    BY <1>5, <1>a, <1>b, <1>c, RaiseType DEF HandlerRaises
  <1>6. ASSUME NEW w \in Worker, HandlerReturns(w) PROVE TypeOK'
    BY <1>6, <1>a, <1>b, <1>c, GotoType, RaiseType DEF HandlerReturns
  <1>7. ASSUME NEW w \in Worker, CommitHandler(w) PROVE TypeOK'
    <2>1. proc[w].job \in Job
      BY <1>7, <1>a DEF CommitHandler, TypeOK
    <2>2. effects' = [effects EXCEPT ![proc[w].job] = effects[proc[w].job] + 1]
      BY <1>7 DEF CommitHandler
    <2>3. effects' \in [Job -> Nat]
      BY <2>1, <2>2 DEF TypeOK
    <2> QED
      BY <1>7, <2>3, <1>a, <1>b, <1>c, GotoType DEF CommitHandler
  <1>8. ASSUME NEW w \in Worker, CommitError(w) PROVE TypeOK'
    <2>1. proc[w].job \in Job
      BY <1>8, <1>a DEF CommitError, TypeOK
    <2>2. effects' \in [Job -> Nat]
      BY <1>8 DEF CommitError, TypeOK
    <2>3. lapses' \in [Job -> 0 .. MaxLapses]
      BY <1>8, <2>1, LapseType DEF CommitError, TypeOK
    <2> QED
      BY <1>8, <2>2, <2>3, <1>a, <1>b, <1>c, RaiseType DEF CommitError
  <1>9. ASSUME NEW w \in Worker, CompleteOwned(w) PROVE TypeOK'
    <2>1. proc[w].job \in Job
      BY <1>9, <1>a DEF CompleteOwned, TypeOK
    <2>2. Completed(row[proc[w].job]) \in Row
      BY <2>1, CompletedType DEF TypeOK
    <2>3. \/ row' = [row EXCEPT ![proc[w].job] = Completed(row[proc[w].job])]
          \/ row' = row
      BY <1>9 DEF CompleteOwned
    <2>4. row' \in [Job -> Row]
      BY <2>2, <2>3 DEF TypeOK
    <2> QED
      BY <1>9, <2>4, <1>a, <1>b, <1>c, ReturnType, RaiseType DEF CompleteOwned
  <1>10. ASSUME NEW w \in Worker, CompleteError(w) PROVE TypeOK'
    <2>1. proc[w].job \in Job
      BY <1>10, <1>a DEF CompleteError, TypeOK
    <2>2. row' \in [Job -> Row]
      BY <1>10, <2>1, CompletedType DEF CompleteError, TypeOK
    <2>3. lapses' \in [Job -> 0 .. MaxLapses]
      BY <1>10, <2>1, LapseType DEF CompleteError, TypeOK
    <2> QED
      BY <1>10, <2>2, <2>3, <1>a, <1>b, <1>c, RaiseType DEF CompleteError
  <1>11. ASSUME NEW w \in Worker, ReadForFailure(w) PROVE TypeOK'
    <2>1. proc[w].job \in Job /\ row[proc[w].job].attempts \in 0 .. AttemptCap
      BY <1>11, <1>a DEF ReadForFailure, TypeOK, Row
    <2>2. CASE Owns(w, proc[w].job)
      <3>1. ProcTyped'
        BY <1>11, <1>a, <2>1, <2>2 DEF ReadForFailure, TypeOK, Proc, ProcTyped
      <3> QED
        BY <1>11, <3>1, <1>b, <1>c DEF ReadForFailure
    <2>3. CASE ~Owns(w, proc[w].job)
      BY <1>11, <2>3, <1>b, <1>c, ReturnType DEF ReadForFailure
    <2> QED
      BY <2>2, <2>3
  <1>12. ASSUME NEW w \in Worker, RecordFailure(w) PROVE TypeOK'
    <2>1. row' \in [Job -> Row]
      BY <1>12, FailureRow DEF TypeOK
    <2> QED
      BY <1>12, <2>1, <1>b, <1>c, ReturnType DEF RecordFailure
  <1>13. ASSUME NEW w \in Worker, Crash(w) PROVE TypeOK'
    <2>1. lapses' \in [Job -> 0 .. MaxLapses]
      BY <1>13, LapseType DEF Crash, TypeOK
    <2> QED
      BY <1>13, <2>1, <1>b, <1>c, ReturnType DEF Crash
  <1>14. ASSUME NEW a \in Admin, NEW j \in Job, RetryRead(a, j) PROVE TypeOK'
    BY <1>14 DEF RetryRead, TypeOK
  <1>15. ASSUME NEW a \in Admin, RetryWrite(a) PROVE TypeOK'
    <2>1. pending[a] \in Job
      BY <1>15 DEF RetryWrite, TypeOK
    <2> DEFINE r == [row[pending[a]] EXCEPT !.status = "queued", !.attempts = 0, !.wait = 0]
    <2>2. row' \in [Job -> Row]
      <3>1. /\ "queued" \in Status /\ 0 \in 0 .. AttemptCap /\ 0 \in 0 .. MaxBackoff
            /\ row[pending[a]] \in Row
        BY <2>1, BoundsAssumption DEF Status, TypeOK
      <3>2. r \in Row
        BY <3>1 DEF Row
      <3>3. row' = [row EXCEPT ![pending[a]] = r]
        BY <1>15, <2>1 DEF RetryWrite, TypeOK
      <3> QED
        BY <2>1, <3>2, <3>3 DEF TypeOK
    <2>3. lapses' \in [Job -> 0 .. MaxLapses]
      BY <1>15, <2>1, LapseType DEF RetryWrite
    <2> QED
      BY <1>15, <2>2, <2>3 DEF RetryWrite, TypeOK
  <1>16. ASSUME Tick PROVE TypeOK'
    <2>1. ASSUME NEW j \in Job PROVE row'[j] \in Row
      <3>1. row[j] \in Row
        BY DEF TypeOK
      <3>2. /\ (IF row[j].lease > 0 THEN row[j].lease - 1 ELSE row[j].lease)
                  \in NoLease .. LeaseTicks
            /\ (IF row[j].wait > 0 THEN row[j].wait - 1 ELSE row[j].wait)
                  \in 0 .. MaxBackoff
        BY <3>1, BoundsAssumption DEF Row, NoLease
      <3> QED
        BY <1>16, <3>1, <3>2 DEF Tick, Row
    <2>2. row' \in [Job -> Row]
      BY <1>16, <2>1 DEF Tick
    <2>3. lapses' \in [Job -> 0 .. MaxLapses]
      <3>1. ASSUME NEW j \in Job PROVE lapses'[j] \in 0 .. MaxLapses
        <4>1. lapses[j] \in 0 .. MaxLapses
          BY DEF TypeOK
        <4>2. \/ lapses'[j] = lapses[j]
              \/ lapses'[j] = lapses[j] + 1 /\ lapses[j] < MaxLapses
          BY <1>16 DEF Tick, CanLapse
        <4> QED
          BY <4>1, <4>2, BoundsAssumption
      <3> QED
        BY <1>16, <3>1 DEF Tick
    <2> QED
      BY <1>16, <2>2, <2>3 DEF Tick, TypeOK
  <1>17. CASE UNCHANGED vars
    BY <1>17 DEF vars, TypeOK
  <1> QED
    BY <1>1, <1>2, <1>3, <1>4, <1>5, <1>6, <1>7, <1>8, <1>9, <1>10, <1>11, <1>12,
       <1>13, <1>14, <1>15, <1>16, <1>17 DEF Next, RunOnce

\* The variables keep their types; in particular a busy process always has a job.
THEOREM TypeCorrect == Spec => []TypeOK
  BY InitType, StepType, PTL DEF Spec

\* The only steps that complete a row are the owner's, within its lease.
LEMMA OnlyCompletion ==
  ASSUME TypeOK, Next, NEW j \in Job,
         row[j].status # "completed", row'[j].status = "completed"
  PROVE  \E w \in Worker : /\ proc[w].pc = "completing" /\ proc[w].job = j
                           /\ OwnsLive(w, j)
  <1>1. ASSUME NEW w \in Worker, NEW k \in Job, Claim(w, k) PROVE FALSE
    <2>1. row'[j] = row[j] \/ row'[j].status = "processing"
      BY <1>1 DEF Claim, Granted, TypeOK, Row
    <2> QED
      BY <2>1
  <1>2. ASSUME NEW w \in Worker, Heartbeat(w) PROVE FALSE
    BY <1>2 DEF Heartbeat, TypeOK, Row
  <1>3. ASSUME NEW w \in Worker,
               \/ HeartbeatError(w) \/ BeginHandler(w) \/ HandlerRaises(w)
               \/ HandlerReturns(w) \/ CommitHandler(w) \/ CommitError(w)
               \/ ReadForFailure(w) \/ Crash(w)
        PROVE FALSE
    BY <1>3 DEF HeartbeatError, BeginHandler, HandlerRaises, HandlerReturns, CommitHandler,
                CommitError, ReadForFailure, Crash
  <1>4. ASSUME NEW w \in Worker, CompleteOwned(w) \/ CompleteError(w)
        PROVE proc[w].pc = "completing" /\ proc[w].job = j /\ OwnsLive(w, j)
    BY <1>4 DEF CompleteOwned, CompleteError, TypeOK
  <1>5. ASSUME NEW w \in Worker, RecordFailure(w) PROVE FALSE
    <2>1. row'[j] = row[j] \/ row'[j].status \in {"dead_letter", "retry_wait"}
      BY <1>5, FailureRow DEF TypeOK
    <2> QED
      BY <2>1
  <1>6. ASSUME NEW a \in Admin, NEW k \in Job, RetryRead(a, k) PROVE FALSE
    BY <1>6 DEF RetryRead
  <1>7. ASSUME NEW a \in Admin, RetryWrite(a) PROVE FALSE
    <2>1. row'[j] = row[j] \/ row'[j].status = "queued"
      BY <1>7 DEF RetryWrite, TypeOK, Row
    <2> QED
      BY <2>1
  <1>8. ASSUME Tick PROVE FALSE
    BY <1>8 DEF Tick, TypeOK, Row
  <1> QED
    BY <1>1, <1>2, <1>3, <1>4, <1>5, <1>6, <1>7, <1>8 DEF Next, RunOnce

-----------------------------------------------------------------------------
(* Any timing: the inductive invariant of the queue. *)

CompletingHasEffect ==
    \A w \in Worker : proc[w].pc = "completing" => effects[proc[w].job] > 0

LockedByLatest == \A j \in Job : row[j].lockedBy # None => row[j].lockedBy = latest[j]

\* CompletedHasEffect alone is not inductive: complete_owned looks at the row only, so
\* the worker that is about to complete it must be known to have committed.
QueueInv ==
    /\ TypeOK
    /\ ProcessingIsReclaimable
    /\ CompletedHasEffect
    /\ CompletingHasEffect
    /\ LockedByLatest

LEMMA InitQueue == Init => QueueInv
  BY InitType
     DEF Init, QueueInv, ProcessingIsReclaimable, CompletedHasEffect,
         CompletingHasEffect, LockedByLatest, Idle

\* An action that writes neither rows, claims nor effects and does not bring a process
\* to the completion preserves the invariant.
LEMMA ProcOnly ==
  ASSUME QueueInv, TypeOK', UNCHANGED <<row, latest, effects>>,
         NEW w \in Worker, NEW p, proc' = [proc EXCEPT ![w] = p], p.pc # "completing"
  PROVE  QueueInv'
  <1>1. ASSUME NEW v \in Worker, proc'[v].pc = "completing" PROVE proc'[v] = proc[v]
    BY <1>1 DEF QueueInv, TypeOK
  <1> QED
    BY <1>1 DEF QueueInv, ProcessingIsReclaimable, CompletedHasEffect,
                CompletingHasEffect, LockedByLatest

\* So does one that writes one row, provided that the new row is in order.
LEMMA RowWrite ==
  ASSUME QueueInv, TypeOK', UNCHANGED <<latest, effects>>,
         NEW j \in Job, NEW r \in Row, row' = [row EXCEPT ![j] = r],
         r.status = "processing" => r.lockedBy # None /\ r.lease # NoLease /\ r.wait = 0,
         r.status = "completed" => effects[j] > 0,
         r.lockedBy \in {None, row[j].lockedBy},
         \A v \in Worker : proc'[v].pc = "completing" => proc'[v] = proc[v]
  PROVE  QueueInv'
  <1>1. /\ row'[j] = r
        /\ \A k \in Job \ {j} : row'[k] = row[k]
    BY DEF QueueInv, TypeOK
  <1>2. ProcessingIsReclaimable'
    BY <1>1 DEF QueueInv, ProcessingIsReclaimable
  <1>3. CompletedHasEffect'
    BY <1>1 DEF QueueInv, CompletedHasEffect
  <1>4. CompletingHasEffect'
    BY DEF QueueInv, CompletingHasEffect
  <1>5. LockedByLatest'
    BY <1>1 DEF QueueInv, LockedByLatest
  <1> QED
    BY <1>2, <1>3, <1>4, <1>5 DEF QueueInv

LEMMA StepQueue == QueueInv /\ [Next]_vars => QueueInv'
  <1> SUFFICES ASSUME QueueInv, [Next]_vars PROVE QueueInv'
    OBVIOUS
  <1>t. TypeOK /\ TypeOK'
    BY StepType DEF QueueInv
  <1>b. {"claimed", "handling", "committing", "completing", "failing", "recording"} = Busy
    BY DEF Busy, Guarded
  <1>1. ASSUME NEW w \in Worker, NEW j \in Job, Claim(w, j) PROVE QueueInv'
    <2> DEFINE r == Granted(row[j], w)
    <2>1. /\ row'[j] = r
          /\ \A k \in Job \ {j} : row'[k] = row[k] /\ latest'[k] = latest[k]
          /\ latest'[j] = w
      BY <1>1, <1>t DEF Claim, TypeOK
    <2>2. /\ r.status = "processing" /\ r.lockedBy = w /\ r.lease = LeaseTicks
          /\ r.wait = 0
      BY <1>1, <1>t DEF Claim, Claimable, Granted, TypeOK, Row
    <2>3. w # None /\ LeaseTicks # NoLease
      BY NoneAssumption, BoundsAssumption DEF NoLease
    <2>4. \A v \in Worker : proc'[v].pc = "completing" => proc'[v] = proc[v]
      BY <1>1, <1>t DEF Claim, TypeOK, Idle
    <2>5. effects' = effects
      BY <1>1 DEF Claim
    <2> HIDE DEF r
    <2>6. ProcessingIsReclaimable'
      BY <2>1, <2>2, <2>3 DEF QueueInv, ProcessingIsReclaimable
    <2>7. CompletedHasEffect'
      BY <2>1, <2>2, <2>5 DEF QueueInv, CompletedHasEffect
    <2>8. CompletingHasEffect'
      BY <2>4, <2>5 DEF QueueInv, CompletingHasEffect
    <2>9. LockedByLatest'
      BY <2>1, <2>2 DEF QueueInv, LockedByLatest
    <2> QED
      BY <2>6, <2>7, <2>8, <2>9, <1>t DEF QueueInv
  <1>2. ASSUME NEW w \in Worker, Heartbeat(w) PROVE QueueInv'
    <2>1. proc[w].job \in Job /\ row[proc[w].job] \in Row
      BY <1>2, <1>t, <1>b DEF Heartbeat, TypeOK, Guarded
    <2>2. CASE OwnsLive(w, proc[w].job)
      <3> DEFINE r == [row[proc[w].job] EXCEPT !.lease = LeaseTicks]
      <3>1. LeaseTicks \in NoLease .. LeaseTicks /\ LeaseTicks # NoLease
        BY BoundsAssumption DEF NoLease
      <3>2. r \in Row /\ row' = [row EXCEPT ![proc[w].job] = r]
        BY <1>2, <1>t, <2>1, <2>2, <3>1 DEF Heartbeat, TypeOK, Row
      <3>3. /\ r.status = row[proc[w].job].status /\ r.lockedBy = row[proc[w].job].lockedBy
            /\ r.wait = row[proc[w].job].wait /\ r.lease = LeaseTicks
        BY <2>1 DEF Row
      <3>4. UNCHANGED <<proc, latest, effects>>
        BY <1>2, <2>2 DEF Heartbeat
      <3> HIDE DEF r
      <3> QED
        BY <1>t, <2>1, <3>1, <3>2, <3>3, <3>4, RowWrite
           DEF QueueInv, ProcessingIsReclaimable, CompletedHasEffect
    <2>3. CASE ~OwnsLive(w, proc[w].job)
      <3>1. /\ proc' = [proc EXCEPT ![w] = [proc[w] EXCEPT !.lost = TRUE]]
            /\ [proc[w] EXCEPT !.lost = TRUE].pc # "completing"
            /\ UNCHANGED <<row, latest, effects>>
        BY <1>2, <1>t, <2>3 DEF Heartbeat, Guarded, TypeOK, Proc
      <3> QED
        BY <1>t, <3>1, ProcOnly
    <2> QED
      BY <2>2, <2>3
  <1>3. ASSUME NEW w \in Worker, HeartbeatError(w) PROVE QueueInv'
    <2>1. /\ proc' = [proc EXCEPT ![w] = [proc[w] EXCEPT !.lost = TRUE]]
          /\ [proc[w] EXCEPT !.lost = TRUE].pc # "completing"
          /\ UNCHANGED <<row, latest, effects>>
      BY <1>3, <1>t DEF HeartbeatError, Guarded, TypeOK, Proc
    <2> QED
      BY <1>t, <2>1, ProcOnly
  <1>4. ASSUME NEW w \in Worker, BeginHandler(w) PROVE QueueInv'
    <2>1. \E p : /\ proc' = [proc EXCEPT ![w] = p] /\ p.pc # "completing"
                 /\ UNCHANGED <<row, latest, effects>>
      <3>1. CASE Goto(w, "handling")
        BY <1>4, <1>t, <1>b, <3>1, GotoWrite DEF BeginHandler
      <3>2. CASE Raise(w, TRUE)
        BY <1>4, <1>t, <1>b, <3>2, RaiseWrite DEF BeginHandler
      <3> QED
        BY <1>4, <3>1, <3>2 DEF BeginHandler
    <2> QED
      BY <1>t, <2>1, ProcOnly
  <1>5. ASSUME NEW w \in Worker, HandlerRaises(w) PROVE QueueInv'
    <2>1. \E p : /\ proc' = [proc EXCEPT ![w] = p] /\ p.pc # "completing"
                 /\ UNCHANGED <<row, latest, effects>>
      BY <1>5, <1>t, <1>b, RaiseWrite DEF HandlerRaises
    <2> QED
      BY <1>t, <2>1, ProcOnly
  <1>6. ASSUME NEW w \in Worker, HandlerReturns(w) PROVE QueueInv'
    <2>1. \E p : /\ proc' = [proc EXCEPT ![w] = p] /\ p.pc # "completing"
                 /\ UNCHANGED <<row, latest, effects>>
      <3>1. CASE Goto(w, "committing")
        BY <1>6, <1>t, <1>b, <3>1, GotoWrite DEF HandlerReturns
      <3>2. CASE Raise(w, TRUE)
        BY <1>6, <1>t, <1>b, <3>2, RaiseWrite DEF HandlerReturns
      <3> QED
        BY <1>6, <3>1, <3>2 DEF HandlerReturns
    <2> QED
      BY <1>t, <2>1, ProcOnly
  <1>7. ASSUME NEW w \in Worker, CommitHandler(w) PROVE QueueInv'
    <2>1. proc[w].job \in Job
      BY <1>7, <1>t, <1>b DEF CommitHandler, TypeOK
    <2>2. /\ effects'[proc[w].job] = effects[proc[w].job] + 1
          /\ \A j \in Job : effects'[j] >= effects[j]
          /\ row' = row /\ latest' = latest
          /\ proc'[w].job = proc[w].job
          /\ \A v \in Worker \ {w} : proc'[v] = proc[v]
      BY <1>7, <1>t, <2>1 DEF CommitHandler, Goto, TypeOK, Proc
    <2>3. \A j \in Job : effects[j] \in Nat /\ effects'[j] \in Nat
      BY <1>t DEF TypeOK
    <2>4. \A v \in Worker : proc[v].pc = "completing" => proc[v].job \in Job
      BY <1>t, <1>b DEF TypeOK
    <2>5. CompletingHasEffect'
      BY <2>1, <2>2, <2>3, <2>4 DEF QueueInv, CompletingHasEffect
    <2>6. CompletedHasEffect'
      BY <2>2, <2>3 DEF QueueInv, CompletedHasEffect
    <2> QED
      BY <1>t, <2>2, <2>5, <2>6 DEF QueueInv, ProcessingIsReclaimable, LockedByLatest
  <1>8. ASSUME NEW w \in Worker, CommitError(w) PROVE QueueInv'
    <2>1. proc[w].job \in Job
      BY <1>8, <1>t, <1>b DEF CommitError, TypeOK
    <2>2. /\ \A j \in Job : effects'[j] >= effects[j]
          /\ row' = row /\ latest' = latest
          /\ proc'[w].pc = "failing"
          /\ \A v \in Worker \ {w} : proc'[v] = proc[v]
      BY <1>8, <1>t, <2>1 DEF CommitError, Raise, TypeOK, Proc
    <2>3. \A j \in Job : effects[j] \in Nat /\ effects'[j] \in Nat
      BY <1>t DEF TypeOK
    <2>4. \A v \in Worker : proc[v].pc = "completing" => proc[v].job \in Job
      BY <1>t, <1>b DEF TypeOK
    <2>5. CompletingHasEffect'
      BY <2>2, <2>3, <2>4 DEF QueueInv, CompletingHasEffect
    <2>6. CompletedHasEffect'
      BY <2>2, <2>3 DEF QueueInv, CompletedHasEffect
    <2> QED
      BY <1>t, <2>2, <2>5, <2>6 DEF QueueInv, ProcessingIsReclaimable, LockedByLatest
  <1>9. ASSUME NEW w \in Worker, CompleteOwned(w) \/ CompleteError(w) PROVE QueueInv'
    <2> DEFINE j == proc[w].job
               r == Completed(row[j])
    <2>1. j \in Job /\ row[j] \in Row /\ r \in Row /\ effects[j] > 0
      <3>1. proc[w].pc = "completing"
        BY <1>9 DEF CompleteOwned, CompleteError
      <3>2. j \in Job /\ row[j] \in Row
        BY <3>1, <1>t, <1>b DEF TypeOK
      <3> QED
        BY <3>1, <3>2, CompletedType DEF QueueInv, CompletingHasEffect
    <2>2. /\ UNCHANGED <<latest, effects>>
          /\ \E p : proc' = [proc EXCEPT ![w] = p] /\ p.pc # "completing"
      <3>1. /\ UNCHANGED <<latest, effects>>
            /\ Return(w) \/ \E b \in BOOLEAN : Raise(w, b)
            /\ proc[w].pc \in Busy
        BY <1>9, <1>b DEF CompleteOwned, CompleteError
      <3>2. CASE Return(w)
        <4>1. Idle.pc # "completing"
          BY DEF Idle
        <4> QED
          BY <3>1, <3>2, <4>1 DEF Return
      <3>3. CASE \E b \in BOOLEAN : Raise(w, b)
        BY <1>t, <3>1, <3>3, RaiseWrite
      <3> QED
        BY <3>1, <3>2, <3>3
    <2>3. row' = [row EXCEPT ![j] = r] \/ row' = row
      BY <1>9 DEF CompleteOwned, CompleteError
    <2>4. CASE row' = row
      BY <1>t, <2>2, <2>4, ProcOnly
    <2>5. CASE row' = [row EXCEPT ![j] = r]
      <3>1. r.status = "completed" /\ r.lockedBy = None
        BY <2>1 DEF Completed, Row
      <3>2. \A v \in Worker : proc'[v].pc = "completing" => proc'[v] = proc[v]
        BY <1>t, <2>2 DEF TypeOK
      <3> HIDE DEF r
      <3> QED
        BY <1>t, <2>1, <2>2, <2>5, <3>1, <3>2, RowWrite
    <2> QED
      BY <2>3, <2>4, <2>5
  <1>11. ASSUME NEW w \in Worker, ReadForFailure(w) PROVE QueueInv'
    <2>1. \E p : /\ proc' = [proc EXCEPT ![w] = p] /\ p.pc # "completing"
                 /\ UNCHANGED <<row, latest, effects>>
      <3>1. CASE Owns(w, proc[w].job)
        BY <1>11, <1>t, <3>1 DEF ReadForFailure, TypeOK, Proc
      <3>2. CASE ~Owns(w, proc[w].job)
        BY <1>11, <3>2 DEF ReadForFailure, Return, Idle
      <3> QED
        BY <3>1, <3>2
    <2> QED
      BY <1>t, <2>1, ProcOnly
  <1>12. ASSUME NEW w \in Worker, RecordFailure(w) PROVE QueueInv'
    <2>1. proc[w].job \in Job /\ row[proc[w].job] \in Row
      BY <1>12, <1>t, <1>b DEF RecordFailure, TypeOK
    <2>2. \E r \in Row : /\ row' = [row EXCEPT ![proc[w].job] = r]
                         /\ r.status \in {"dead_letter", "retry_wait"} /\ r.lockedBy = None
      BY <1>12, <1>t, <2>1, FailureRow DEF QueueInv
    <2>3. \A v \in Worker : proc'[v].pc = "completing" => proc'[v] = proc[v]
      BY <1>12, <1>t DEF RecordFailure, Return, Idle, TypeOK
    <2>4. UNCHANGED <<latest, effects>>
      BY <1>12 DEF RecordFailure
    <2> QED
      BY <1>t, <2>1, <2>2, <2>3, <2>4, RowWrite
  <1>13. ASSUME NEW w \in Worker, Crash(w) PROVE QueueInv'
    <2>1. /\ proc' = [proc EXCEPT ![w] = Idle] /\ Idle.pc # "completing"
          /\ UNCHANGED <<row, latest, effects>>
      BY <1>13 DEF Crash, Return, Idle
    <2> QED
      BY <1>t, <2>1, ProcOnly
  <1>14. ASSUME NEW a \in Admin, NEW j \in Job, RetryRead(a, j) PROVE QueueInv'
    BY <1>14, <1>t DEF RetryRead, QueueInv, ProcessingIsReclaimable, CompletedHasEffect,
                       CompletingHasEffect, LockedByLatest
  <1>15. ASSUME NEW a \in Admin, RetryWrite(a) PROVE QueueInv'
    <2>1. pending[a] \in Job /\ row[pending[a]] \in Row
      BY <1>15, <1>t DEF RetryWrite, TypeOK
    <2> DEFINE r == [row[pending[a]] EXCEPT !.status = "queued", !.attempts = 0, !.wait = 0]
    <2>2. row' = [row EXCEPT ![pending[a]] = r]
      BY <1>15, <1>t, <2>1 DEF RetryWrite, TypeOK
    <2>3. r \in Row /\ r.status = "queued" /\ r.lockedBy = row[pending[a]].lockedBy
      <3>1. row'[pending[a]] = r
        BY <2>1, <2>2, <1>t DEF TypeOK
      <3>2. r.status = "queued" /\ r.lockedBy = row[pending[a]].lockedBy
        BY <2>1 DEF Row
      <3> QED
        BY <2>1, <3>1, <3>2, <1>t DEF TypeOK
    <2>4. UNCHANGED <<proc, latest, effects>>
      BY <1>15 DEF RetryWrite
    <2> HIDE DEF r
    <2> QED
      BY <1>t, <2>1, <2>2, <2>3, <2>4, RowWrite
  <1>16. ASSUME Tick PROVE QueueInv'
    <2>1. ASSUME NEW j \in Job
          PROVE /\ row'[j].status = row[j].status /\ row'[j].lockedBy = row[j].lockedBy
                /\ row'[j].lease = NoLease <=> row[j].lease = NoLease
                /\ row[j].wait = 0 => row'[j].wait = 0
      <3>1. row[j] \in Row
        BY <1>t DEF TypeOK
      <3>2. row'[j] = [row[j] EXCEPT
                         !.lease = IF row[j].lease > 0 THEN row[j].lease - 1 ELSE row[j].lease,
                         !.wait = IF row[j].wait > 0 THEN row[j].wait - 1 ELSE row[j].wait]
        BY <1>16 DEF Tick
      <3> QED
        BY <3>1, <3>2, BoundsAssumption DEF Row, NoLease
    <2>2. UNCHANGED <<proc, latest, effects>>
      BY <1>16 DEF Tick
    <2> QED
      BY <1>t, <2>1, <2>2 DEF QueueInv, ProcessingIsReclaimable, CompletedHasEffect,
                              CompletingHasEffect, LockedByLatest
  <1>17. CASE UNCHANGED vars
    BY <1>17, <1>t DEF vars, QueueInv, ProcessingIsReclaimable, CompletedHasEffect,
                       CompletingHasEffect, LockedByLatest
  <1> QED
    BY <1>1, <1>2, <1>3, <1>4, <1>5, <1>6, <1>7, <1>8, <1>9, <1>11, <1>12,
       <1>13, <1>14, <1>15, <1>16, <1>17 DEF Next, RunOnce

\* The invariant holds of every execution of claim, heartbeat, handler, completion,
\* failure, crash and administrative retry.
THEOREM QueueInvariant == Spec => []QueueInv
  BY InitQueue, StepQueue, PTL DEF Spec

\* A row in processing can always be claimed again once its lease has run out.
THEOREM NeverOrphaned == Spec => []ProcessingIsReclaimable
  BY QueueInvariant, PTL DEF QueueInv

\* A job is completed only after a handler transaction of it has committed, whatever
\* leases were lost, processes crashed, failures overwritten and retries requested.
THEOREM CompletionFollowsEffect == Spec => []CompletedHasEffect
  BY QueueInvariant, PTL DEF QueueInv

\* Completion is fenced: only the worker that claimed the job last, within its lease.
THEOREM CompletionIsFenced == Spec => FencedCompletion
  <1> DEFINE Fenced == \A j \in Job :
         row[j].status # "completed" /\ row'[j].status = "completed" =>
            /\ row[j].lease > 0
            /\ \E w \in Worker : /\ latest[j] = w
                                 /\ proc[w].pc = "completing" /\ proc[w].job = j
  <1>1. QueueInv /\ [Next]_vars => [Fenced]_vars
    <2> SUFFICES ASSUME QueueInv, Next, NEW j \in Job,
                        row[j].status # "completed", row'[j].status = "completed"
                 PROVE  /\ row[j].lease > 0
                        /\ \E w \in Worker : /\ latest[j] = w
                                             /\ proc[w].pc = "completing" /\ proc[w].job = j
      OBVIOUS
    <2>1. PICK w \in Worker : /\ proc[w].pc = "completing" /\ proc[w].job = j
                              /\ OwnsLive(w, j)
      BY OnlyCompletion DEF QueueInv
    <2>2. w # None
      BY NoneAssumption
    <2> QED
      BY <2>1, <2>2 DEF OwnsLive, Owns, QueueInv, LockedByLatest
  <1> QED
    BY <1>1, QueueInvariant, PTL DEF Spec, FencedCompletion

-----------------------------------------------------------------------------
(* Any timing: how often a handler may still commit. *)

\* Worker w, in local state q, may still commit the handler, or return the job whose row
\* is r to the queue.
Credit(q, w, r, j) ==
    /\ q.job = j
    /\ \/ q.pc \in Guarded
       \/ ~q.fatal /\ q.pc = "recording"
       \/ ~q.fatal /\ q.pc = "failing" /\ r.status = "processing" /\ r.lockedBy = w

Creditors(j) == {w \in Worker : Credit(proc[w], w, row[j], j)}

Holds(q, w, r, j) ==
    q.pc \in Busy /\ q.job = j /\ r.status = "processing" /\ r.lockedBy = w

\* A worker may claim the job without a further lapse.
Free(j) ==
    \/ row[j].status \in {"queued", "retry_wait"}
    \/ /\ row[j].status = "processing"
       /\ row[j].lease = 0 \/ \A w \in Worker : ~Holds(proc[w], w, row[j], j)

\* Each commit made and each that is still possible is paid for: one by the job itself,
\* the others by lapses.
Balanced(j) ==
    /\ IsFiniteSet(Creditors(j))
    /\ effects[j] + Cardinality(Creditors(j)) + (IF Free(j) THEN 1 ELSE 0) <= 1 + lapses[j]

LEMMA Sizes ==
  ASSUME NEW C, NEW D, NEW w, IsFiniteSet(C), D \subseteq C \cup {w}
  PROVE  /\ IsFiniteSet(D) /\ Cardinality(C) \in Nat /\ Cardinality(D) \in Nat
         /\ Cardinality(D) <= Cardinality(C) + 1
         /\ D \subseteq C => Cardinality(D) <= Cardinality(C)
         /\ D \subseteq C \ {w} /\ w \in C => Cardinality(D) <= Cardinality(C) - 1
  <1>1. IsFiniteSet(C \cup {w}) /\ Cardinality(C) \in Nat /\ Cardinality(C \cup {w}) \in Nat
        /\ Cardinality(C \cup {w}) <= Cardinality(C) + 1
    <2>1. IsFiniteSet(C \cup {w}) /\ Cardinality(C \cup {w}) =
            IF w \in C THEN Cardinality(C) ELSE Cardinality(C) + 1
      BY FS_AddElement
    <2>2. Cardinality(C) \in Nat /\ Cardinality(C \cup {w}) \in Nat
      BY <2>1, FS_CardinalityType
    <2> QED
      BY <2>1, <2>2
  <1>2. IsFiniteSet(D) /\ Cardinality(D) <= Cardinality(C \cup {w}) /\ Cardinality(D) \in Nat
    BY <1>1, FS_Subset, FS_CardinalityType
  <1>3. D \subseteq C => Cardinality(D) <= Cardinality(C)
    BY FS_Subset
  <1>4. ASSUME D \subseteq C \ {w}, w \in C PROVE Cardinality(D) <= Cardinality(C) - 1
    <2>1. IsFiniteSet(C \ {w}) /\ Cardinality(C \ {w}) = Cardinality(C) - 1
      BY <1>4, FS_RemoveElement
    <2> QED
      BY <1>4, <2>1, FS_Subset
  <1> QED
    BY <1>1, <1>2, <1>3, <1>4

\* The books of a step: creditor w leaves, stays or joins.
LEMMA Books ==
  ASSUME TypeOK, TypeOK', NEW j \in Job, Balanced(j), NEW w,
         \/ /\ Creditors(j)' \subseteq Creditors(j) \ {w} /\ w \in Creditors(j)
            /\ \/ effects'[j] = effects[j]
               \/ effects'[j] = effects[j] + 1 /\ (Free(j)' => Free(j))
            /\ lapses'[j] = lapses[j]
         \/ /\ Creditors(j)' \subseteq Creditors(j)
            /\ effects'[j] = effects[j]
            /\ \/ lapses'[j] = lapses[j] /\ (Free(j)' => Free(j))
               \/ lapses'[j] = lapses[j] + 1
         \/ /\ Creditors(j)' \subseteq Creditors(j)
            /\ effects'[j] = effects[j] + 1 /\ lapses'[j] = lapses[j] + 1
            /\ Free(j)' => Free(j)
         \/ /\ Creditors(j)' \subseteq Creditors(j) \cup {w}
            /\ effects'[j] = effects[j]
            /\ \/ lapses'[j] = lapses[j] /\ Free(j) /\ ~Free(j)'
               \/ lapses'[j] = lapses[j] + 1 /\ (Free(j)' => Free(j))
  PROVE  Balanced(j)'
  <1> DEFINE C == Creditors(j)
             D == Creditors(j)'
             f == IF Free(j) THEN 1 ELSE 0
             g == IF Free(j)' THEN 1 ELSE 0
  <1>1. IsFiniteSet(C) /\ effects[j] + Cardinality(C) + f <= 1 + lapses[j]
    BY DEF Balanced
  <1>2. effects[j] \in Nat /\ lapses[j] \in Nat /\ effects'[j] \in Nat /\ lapses'[j] \in Nat
    BY BoundsAssumption DEF TypeOK
  <1>3. D \subseteq C \cup {w}
    OBVIOUS
  <1>4. f \in 0..1 /\ g \in 0..1 /\ (Free(j) => f = 1) /\ (~Free(j)' => g = 0)
        /\ ((Free(j)' => Free(j)) => g <= f)
    OBVIOUS
  <1>5. /\ IsFiniteSet(D) /\ Cardinality(C) \in Nat /\ Cardinality(D) \in Nat
        /\ Cardinality(D) <= Cardinality(C) + 1
        /\ D \subseteq C => Cardinality(D) <= Cardinality(C)
        /\ D \subseteq C \ {w} /\ w \in C => Cardinality(D) <= Cardinality(C) - 1
    BY <1>1, <1>3, Sizes
  <1>6. effects'[j] + Cardinality(D) + g <= 1 + lapses'[j]
    <2> DEFINE x == Cardinality(C)
               y == Cardinality(D)
    <2>1. \/ y <= x - 1 /\ effects'[j] <= effects[j] + 1 /\ lapses'[j] = lapses[j]
             /\ (effects'[j] = effects[j] \/ g <= f)
          \/ y <= x /\ effects'[j] = effects[j] /\ lapses'[j] = lapses[j] /\ g <= f
          \/ y <= x /\ effects'[j] = effects[j] /\ lapses'[j] = lapses[j] + 1
          \/ y <= x /\ effects'[j] = effects[j] + 1 /\ lapses'[j] = lapses[j] + 1 /\ g <= f
          \/ y <= x + 1 /\ effects'[j] = effects[j] /\ lapses'[j] = lapses[j] /\ f = 1 /\ g = 0
          \/ y <= x + 1 /\ effects'[j] = effects[j] /\ lapses'[j] = lapses[j] + 1 /\ g <= f
      BY <1>2, <1>4, <1>5
    <2> HIDE DEF C, D, f, g
    <2>2. x \in Nat /\ y \in Nat /\ effects[j] + x + f <= 1 + lapses[j] /\ f \in 0..1 /\ g \in 0..1
      BY <1>1, <1>4, <1>5
    <2> HIDE DEF x, y
    <2>3. effects'[j] + y + g <= 1 + lapses'[j]
      BY <1>2, <2>1, <2>2
    <2> QED
      BY <2>3 DEF x, y
  <1> QED
    BY <1>5, <1>6 DEF Balanced

LEMMA InitBalanced == Init => \A j \in Job : Balanced(j)
  <1> SUFFICES ASSUME Init, NEW j \in Job PROVE Balanced(j)
    OBVIOUS
  <1>1. Creditors(j) = {}
    BY NoneAssumption DEF Init, Creditors, Credit, Idle
  <1>2. effects[j] = 0 /\ lapses[j] = 0
    BY DEF Init
  <1> QED
    BY <1>1, <1>2, FS_EmptySet DEF Balanced

\* What a step of worker w does to the creditors of a job.
LEMMA CreditsMove ==
  ASSUME TypeOK, NEW j \in Job, NEW w, NEW p, proc' = [proc EXCEPT ![w] = p],
         row'[j].status = "processing" /\ row'[j].lockedBy # w
            => row[j].status = "processing" /\ row[j].lockedBy = row'[j].lockedBy
  PROVE  /\ Creditors(j)' \subseteq Creditors(j) \cup {w}
         /\ (Credit(p, w, row'[j], j) => Credit(proc[w], w, row[j], j))
               => Creditors(j)' \subseteq Creditors(j)
         /\ ~Credit(p, w, row'[j], j) => Creditors(j)' \subseteq Creditors(j) \ {w}
         /\ w \in Worker => (w \in Creditors(j) <=> Credit(proc[w], w, row[j], j))
  <1>1. (w \in Worker => proc'[w] = p) /\ \A v \in Worker \ {w} : proc'[v] = proc[v]
    BY DEF TypeOK
  <1>2. Creditors(j)' = {v \in Worker : Credit(proc'[v], v, row'[j], j)}
    BY DEF Creditors, Credit
  <1>3. \A v \in Worker \ {w} :
           Credit(proc'[v], v, row'[j], j) => Credit(proc[v], v, row[j], j)
    BY <1>1 DEF Credit
  <1> QED
    BY <1>1, <1>2, <1>3 DEF Creditors

\* While the worker stays on the job, nobody else may claim it.
LEMMA FreeKept ==
  ASSUME TypeOK, NEW j \in Job, NEW w, NEW p, proc' = [proc EXCEPT ![w] = p],
         row'[j].status = row[j].status, row'[j].lockedBy = row[j].lockedBy,
         row'[j].lease = 0 => row[j].lease = 0,
         Holds(proc[w], w, row[j], j) => Holds(p, w, row[j], j)
  PROVE  Free(j)' => Free(j)
  <1>1. (w \in Worker => proc'[w] = p) /\ \A v \in Worker \ {w} : proc'[v] = proc[v]
    BY DEF TypeOK
  <1>2. \A v \in Worker : Holds(proc[v], v, row[j], j) => Holds(proc'[v], v, row'[j], j)
    BY <1>1 DEF Holds
  <1>3. Free(j)' <=> \/ row'[j].status \in {"queued", "retry_wait"}
                    \/ /\ row'[j].status = "processing"
                       /\ row'[j].lease = 0
                            \/ \A v \in Worker : ~Holds(proc'[v], v, row'[j], j)
    BY DEF Free, Holds
  <1> QED
    BY <1>2, <1>3 DEF Free

\* Steps after which nothing has to be paid for: w gains no credit and does not let go of
\* a row that it holds.
LEMMA Stay ==
  ASSUME TypeOK, TypeOK', NEW j \in Job, Balanced(j),
         NEW w, NEW p, proc' = [proc EXCEPT ![w] = p],
         row'[j].status = row[j].status, row'[j].lockedBy = row[j].lockedBy,
         row'[j].lease = 0 => row[j].lease = 0,
         effects'[j] = effects[j], lapses'[j] = lapses[j],
         Credit(p, w, row[j], j) => Credit(proc[w], w, row[j], j),
         Holds(proc[w], w, row[j], j) => Holds(p, w, row[j], j)
  PROVE  Balanced(j)'
  <1>1. Credit(p, w, row'[j], j) => Credit(proc[w], w, row[j], j)
    BY DEF Credit
  <1>2. Creditors(j)' \subseteq Creditors(j)
    BY <1>1, CreditsMove
  <1>3. Free(j)' => Free(j)
    BY FreeKept
  <1> QED
    BY <1>2, <1>3, Books

\* A step of w does not touch the books of a job w is not busy with.
LEMMA Elsewhere ==
  ASSUME TypeOK, TypeOK', NEW j \in Job, Balanced(j),
         NEW w \in Worker, NEW p, proc' = [proc EXCEPT ![w] = p],
         proc[w].job # j \/ proc[w].pc = "poll", p.job # j \/ p.pc = "poll",
         row'[j] = row[j], effects'[j] = effects[j], lapses'[j] = lapses[j]
  PROVE  Balanced(j)'
  <1>1. ~Credit(p, w, row[j], j) /\ ~Holds(proc[w], w, row[j], j)
    BY DEF Credit, Holds, Busy, Guarded
  <1> QED
    BY <1>1, Stay

\* The local state after an exception.
LEMMA RaiseState ==
  ASSUME TypeOK, NEW w \in Worker, proc[w].pc \in Busy, NEW b \in BOOLEAN, Raise(w, b)
  PROVE  \E p : /\ proc' = [proc EXCEPT ![w] = p]
                /\ p.pc = "failing" /\ p.job = proc[w].job /\ p.fatal = b
  <1> DEFINE p == [proc[w] EXCEPT !.pc = "failing", !.fatal = b]
  <1>1. proc[w] \in Proc
    BY DEF TypeOK
  <1>2. p.pc = "failing" /\ p.job = proc[w].job /\ p.fatal = b
    BY <1>1 DEF Proc
  <1>3. proc' = [proc EXCEPT ![w] = p]
    BY <1>1 DEF Raise, TypeOK
  <1> QED
    BY <1>2, <1>3

\* Claim takes the place of the one execution that is free.
LEMMA ClaimBalanced ==
  ASSUME TypeOK, TypeOK', NEW j \in Job, Balanced(j), NEW w \in Worker, NEW k \in Job, Claim(w, k)
  PROVE  Balanced(j)'
  <1> DEFINE p == [Idle EXCEPT !.pc = "claimed", !.job = k]
  <1>1. /\ proc' = [proc EXCEPT ![w] = p] /\ p.pc = "claimed" /\ p.job = k
        /\ proc[w].pc = "poll" /\ effects' = effects /\ lapses' = lapses
    BY DEF Claim, Idle
  <1>2. proc'[w] = p
    BY <1>1 DEF TypeOK
  <1> HIDE DEF p
  <1>3. CASE j # k
    <2>1. row'[j] = row[j]
      BY <1>3 DEF Claim, TypeOK
    <2> QED
      BY <1>1, <1>3, <2>1, Elsewhere
  <1>4. CASE j = k
    <2>1. row'[j].status = "processing" /\ row'[j].lockedBy = w /\ row'[j].lease = LeaseTicks
      BY <1>4 DEF Claim, Granted, TypeOK, Row
    <2>2. Free(j)
      BY <1>4 DEF Claim, Claimable, Free
    <2>3. ~Free(j)'
      <3>1. Holds(proc'[w], w, row'[j], j)
        BY <1>1, <1>2, <1>4, <2>1 DEF Holds, Busy, Guarded
      <3> QED
        BY <2>1, <3>1, BoundsAssumption DEF Free, Holds
    <2>4. Creditors(j)' \subseteq Creditors(j) \cup {w}
      <3>1. row'[j].status = "processing" /\ row'[j].lockedBy # w
              => row[j].status = "processing" /\ row[j].lockedBy = row'[j].lockedBy
        BY <2>1
      <3> QED
        BY <1>1, <3>1, CreditsMove
    <2> QED
      BY <1>1, <2>2, <2>3, <2>4, Books
  <1> QED
    BY <1>3, <1>4

\* The heartbeat thread.
LEMMA HeartbeatBalanced ==
  ASSUME TypeOK, TypeOK', NEW j \in Job, Balanced(j), NEW w \in Worker,
         Heartbeat(w) \/ HeartbeatError(w)
  PROVE  Balanced(j)'
  <1>1. proc[w] \in Proc /\ proc[w].job \in Job
    BY DEF Heartbeat, HeartbeatError, TypeOK, Busy
  <1> DEFINE lost == [proc[w] EXCEPT !.lost = TRUE]
  <1>2. \/ proc' = [proc EXCEPT ![w] = lost] /\ row' = row
        \/ /\ proc' = [proc EXCEPT ![w] = proc[w]]
           /\ row' = [row EXCEPT ![proc[w].job].lease = LeaseTicks]
    BY DEF Heartbeat, HeartbeatError, TypeOK
  <1>3. effects' = effects /\ lapses' = lapses
    BY DEF Heartbeat, HeartbeatError
  <1>4. lost.pc = proc[w].pc /\ lost.job = proc[w].job /\ lost.fatal = proc[w].fatal
    BY <1>1 DEF Proc
  <1>5. CASE proc' = [proc EXCEPT ![w] = lost] /\ row' = row
    <2>1. /\ Credit(lost, w, row[j], j) => Credit(proc[w], w, row[j], j)
          /\ Holds(proc[w], w, row[j], j) => Holds(lost, w, row[j], j)
      BY <1>4 DEF Credit, Holds
    <2> HIDE DEF lost
    <2> QED
      BY <1>3, <1>5, <2>1, Stay
  <1>6. CASE /\ proc' = [proc EXCEPT ![w] = proc[w]]
             /\ row' = [row EXCEPT ![proc[w].job].lease = LeaseTicks]
    <2>1. /\ row'[j].status = row[j].status /\ row'[j].lockedBy = row[j].lockedBy
          /\ row'[j].lease = 0 => row[j].lease = 0
      BY <1>6, BoundsAssumption DEF TypeOK, Row
    <2> QED
      BY <1>3, <1>6, <2>1, Stay
  <1> QED
    BY <1>2, <1>5, <1>6

\* The handler up to its commit, and a failure read: no commit is earned.
LEMMA HandlingBalanced ==
  ASSUME TypeOK, TypeOK', NEW j \in Job, Balanced(j), NEW w \in Worker,
         BeginHandler(w) \/ HandlerRaises(w) \/ HandlerReturns(w)
  PROVE  Balanced(j)'
  <1>1. proc[w].pc \in Guarded /\ Guarded \subseteq Busy /\ "handling" \in Guarded
        /\ "committing" \in Guarded /\ "failing" \in Busy
    BY DEF BeginHandler, HandlerRaises, HandlerReturns, Busy, Guarded
  <1>2. UNCHANGED <<row, effects, lapses>>
    BY DEF BeginHandler, HandlerRaises, HandlerReturns
  <1>3. \/ Goto(w, "handling") \/ Goto(w, "committing") \/ \E b \in BOOLEAN : Raise(w, b)
    BY DEF BeginHandler, HandlerRaises, HandlerReturns
  <1>4. \E p : /\ proc' = [proc EXCEPT ![w] = p] /\ p.job = proc[w].job /\ p.pc \in Busy
    <2>1. CASE \E b \in BOOLEAN : Raise(w, b)
      BY <1>1, <2>1, RaiseState
    <2>2. CASE Goto(w, "handling") \/ Goto(w, "committing")
      BY <1>1, <2>2, GotoWrite
    <2> QED
      BY <1>3, <2>1, <2>2
  <1>5. PICK p : /\ proc' = [proc EXCEPT ![w] = p] /\ p.job = proc[w].job /\ p.pc \in Busy
    BY <1>4
  <1>6. /\ Credit(p, w, row[j], j) => Credit(proc[w], w, row[j], j)
        /\ Holds(proc[w], w, row[j], j) => Holds(p, w, row[j], j)
    BY <1>1, <1>5 DEF Credit, Holds
  <1> QED
    BY <1>2, <1>5, <1>6, Stay

\* The commit uses up its worker's credit; if its outcome is unknown it was a lapse.
LEMMA CommitBalanced ==
  ASSUME TypeOK, TypeOK', NEW j \in Job, Balanced(j), NEW w \in Worker,
         CommitHandler(w) \/ CommitError(w)
  PROVE  Balanced(j)'
  <1>1. /\ proc[w].pc = "committing" /\ "committing" \in Guarded /\ row' = row
        /\ "completing" \in Busy /\ "completing" \notin Guarded /\ "failing" \in Busy
        /\ proc[w].pc \in Busy
    BY DEF CommitHandler, CommitError, Busy, Guarded
  <1>2. proc[w].job \in Job
    BY <1>1 DEF TypeOK
  <1>3. effects[j] \in Nat /\ lapses[j] \in Nat
    BY BoundsAssumption DEF TypeOK
  <1>4. PICK p : /\ proc' = [proc EXCEPT ![w] = p] /\ p.job = proc[w].job /\ p.pc \in Busy
                 /\ CommitHandler(w) => p.pc = "completing"
    <2>1. CASE CommitHandler(w)
      BY <1>1, <2>1, GotoWrite DEF CommitHandler
    <2>2. CASE CommitError(w) /\ ~CommitHandler(w)
      <3>1. \E b \in BOOLEAN : Raise(w, b)
        BY <2>2 DEF CommitError
      <3> QED
        BY <1>1, <2>2, <3>1, RaiseState
    <2> QED
      BY <2>1, <2>2
  <1>5. /\ Credit(p, w, row[j], j) => Credit(proc[w], w, row[j], j)
        /\ Holds(proc[w], w, row[j], j) => Holds(p, w, row[j], j)
    BY <1>1, <1>4 DEF Credit, Holds
  <1>6. Free(j)' => Free(j)
    BY <1>1, <1>4, <1>5, FreeKept
  <1>7. CASE j # proc[w].job
    <2>1. effects'[j] = effects[j] /\ lapses'[j] = lapses[j]
      BY <1>7 DEF CommitHandler, CommitError, Lapse, TypeOK
    <2> QED
      BY <1>1, <1>4, <1>5, <2>1, Stay
  <1>8. CASE j = proc[w].job /\ CommitHandler(w)
    <2>1. effects'[j] = effects[j] + 1 /\ lapses'[j] = lapses[j]
      BY <1>8 DEF CommitHandler, TypeOK
    <2>2. ~Credit(p, w, row'[j], j) /\ Credit(proc[w], w, row[j], j)
      BY <1>1, <1>4, <1>8 DEF Credit, Guarded
    <2>3. Creditors(j)' \subseteq Creditors(j) \ {w} /\ w \in Creditors(j)
      BY <1>1, <1>4, <2>2, CreditsMove
    <2> QED
      BY <1>6, <2>1, <2>3, Books
  <1>9. CASE j = proc[w].job /\ CommitError(w)
    <2>1. \/ effects'[j] = effects[j] /\ lapses'[j] = lapses[j]
          \/ effects'[j] = effects[j] + 1 /\ lapses'[j] = lapses[j] + 1
      BY <1>2, <1>9 DEF CommitError, Lapse, TypeOK
    <2>2. Creditors(j)' \subseteq Creditors(j)
      BY <1>1, <1>4, <1>5, CreditsMove
    <2> QED
      BY <1>6, <2>1, <2>2, Books
  <1> QED
    BY <1>7, <1>8, <1>9

\* After the commit: the row is completed, or fail() has nothing to return to the queue,
\* or a database error makes the failure retryable, which is a lapse.
LEMMA CompletionBalanced ==
  ASSUME TypeOK, TypeOK', NEW j \in Job, Balanced(j), NEW w \in Worker,
         CompleteOwned(w) \/ CompleteError(w)
  PROVE  Balanced(j)'
  <1>1. /\ proc[w].pc = "completing" /\ proc[w].pc \in Busy /\ effects' = effects
        /\ "failing" \notin Guarded /\ "failing" \in Busy
    BY DEF CompleteOwned, CompleteError, Busy, Guarded
  <1>2. proc[w].job \in Job /\ row[proc[w].job] \in Row
    BY <1>1 DEF TypeOK
  <1> DEFINE r == Completed(row[proc[w].job])
  <1>3. r.status = "completed" /\ r.lockedBy = None
    BY <1>2 DEF Completed, Row
  <1>4. \/ Return(w) /\ row' = [row EXCEPT ![proc[w].job] = r] /\ lapses' = lapses
        \/ Raise(w, TRUE) /\ row' = row /\ lapses' = lapses
        \/ Raise(w, FALSE) /\ row' = row /\ Lapse(proc[w].job)
        \/ Raise(w, FALSE) /\ row' = [row EXCEPT ![proc[w].job] = r] /\ lapses' = lapses
    BY DEF CompleteOwned, CompleteError
  <1> HIDE DEF r
  <1>5. CASE row' = [row EXCEPT ![proc[w].job] = r] /\ lapses' = lapses
    <2>1. PICK p : /\ proc' = [proc EXCEPT ![w] = p]
                   /\ \/ p.job = proc[w].job /\ p.pc = "failing"
                      \/ p.pc = "poll"
      <3>1. CASE Return(w)
        <4>1. Idle.pc = "poll"
          BY DEF Idle
        <4> QED
          BY <3>1, <4>1 DEF Return
      <3>2. CASE \E b \in BOOLEAN : Raise(w, b)
        BY <1>1, <3>2, RaiseState
      <3> QED
        BY <1>4, <3>1, <3>2
    <2>2. CASE j = proc[w].job
      <3>1. row'[j] = r
        BY <1>2, <1>5, <2>2 DEF TypeOK
      <3>2. ~Credit(p, w, row'[j], j) /\ ~Free(j)'
        BY <1>1, <1>3, <2>1, <3>1 DEF Credit, Free, Guarded
      <3>3. Creditors(j)' \subseteq Creditors(j)
        BY <1>3, <2>1, <3>1, <3>2, CreditsMove
      <3> QED
        BY <1>1, <1>5, <3>2, <3>3, Books
    <2>3. CASE j # proc[w].job
      <3>1. row'[j] = row[j]
        BY <1>5, <2>3 DEF TypeOK
      <3> QED
        BY <1>1, <1>5, <2>1, <2>3, <3>1, Elsewhere
    <2> QED
      BY <2>2, <2>3
  <1>6. CASE Raise(w, TRUE) /\ row' = row /\ lapses' = lapses
    <2>1. PICK p : /\ proc' = [proc EXCEPT ![w] = p]
                   /\ p.pc = "failing" /\ p.job = proc[w].job /\ p.fatal = TRUE
      BY <1>1, <1>6, RaiseState
    <2>2. /\ Credit(p, w, row[j], j) => Credit(proc[w], w, row[j], j)
          /\ Holds(proc[w], w, row[j], j) => Holds(p, w, row[j], j)
      BY <1>1, <2>1 DEF Credit, Holds
    <2> QED
      BY <1>1, <1>6, <2>1, <2>2, Stay
  <1>7. CASE Raise(w, FALSE) /\ row' = row /\ Lapse(proc[w].job)
    <2>1. PICK p : proc' = [proc EXCEPT ![w] = p] /\ p.pc = "failing" /\ p.job = proc[w].job
      BY <1>1, <1>7, RaiseState
    <2>2. Holds(proc[w], w, row[j], j) => Holds(p, w, row[j], j)
      BY <1>1, <2>1 DEF Holds
    <2>3. CASE j = proc[w].job
      <3>1. lapses'[j] = lapses[j] + 1
        BY <1>7, <2>3 DEF Lapse, TypeOK
      <3>2. Free(j)' => Free(j)
        BY <1>7, <2>1, <2>2, FreeKept
      <3>3. Creditors(j)' \subseteq Creditors(j) \cup {w}
        BY <1>7, <2>1, CreditsMove
      <3> QED
        BY <1>1, <3>1, <3>2, <3>3, Books
    <2>4. CASE j # proc[w].job
      <3>1. lapses'[j] = lapses[j]
        BY <1>7, <2>4 DEF Lapse, TypeOK
      <3> QED
        BY <1>1, <1>7, <2>1, <2>4, <3>1, Elsewhere
    <2> QED
      BY <2>3, <2>4
  <1> QED
    BY <1>4, <1>5, <1>6, <1>7

\* A failure that is recorded as retryable was a credit; one that is fatal closes the job.
LEMMA FailureBalanced ==
  ASSUME TypeOK, TypeOK', NEW j \in Job, Balanced(j), NEW w \in Worker,
         ReadForFailure(w) \/ RecordFailure(w)
  PROVE  Balanced(j)'
  <1>1. /\ proc[w].pc \in {"failing", "recording"} /\ proc[w].pc \in Busy
        /\ effects' = effects /\ lapses' = lapses
        /\ "recording" \notin Guarded /\ "recording" \in Busy /\ Idle.pc = "poll"
        /\ "poll" \notin Guarded
    BY DEF ReadForFailure, RecordFailure, Busy, Guarded, Idle
  <1>2. proc[w] \in Proc /\ proc[w].job \in Job /\ row[proc[w].job] \in Row
    BY <1>1 DEF TypeOK
  <1>3. CASE ReadForFailure(w) /\ Owns(w, proc[w].job)
    <2> DEFINE p == [proc[w] EXCEPT !.pc = "recording", !.seen = row[proc[w].job].attempts]
    <2>1. /\ proc' = [proc EXCEPT ![w] = p] /\ row' = row /\ proc[w].pc = "failing"
      BY <1>3 DEF ReadForFailure, TypeOK
    <2>2. p.pc = "recording" /\ p.job = proc[w].job /\ p.fatal = proc[w].fatal
      BY <1>2 DEF Proc
    <2> HIDE DEF p
    <2>3. /\ Credit(p, w, row[j], j) => Credit(proc[w], w, row[j], j)
          /\ Holds(proc[w], w, row[j], j) => Holds(p, w, row[j], j)
      BY <1>1, <1>3, <2>1, <2>2 DEF Credit, Holds, Owns
    <2> QED
      BY <1>1, <2>1, <2>3, Stay
  <1>4. CASE ReadForFailure(w) /\ ~Owns(w, proc[w].job)
    <2>1. proc' = [proc EXCEPT ![w] = Idle] /\ row' = row
      BY <1>4 DEF ReadForFailure, Return
    <2>2. ~Credit(Idle, w, row[j], j) /\ ~Holds(proc[w], w, row[j], j)
      BY <1>1, <1>4 DEF Credit, Holds, Owns
    <2> QED
      BY <1>1, <2>1, <2>2, Stay
  <1>5. CASE RecordFailure(w)
    <2>1. PICK r \in Row :
            /\ row' = [row EXCEPT ![proc[w].job] = r]
            /\ r.status \in {"dead_letter", "retry_wait"} /\ r.lockedBy = None
            /\ proc[w].fatal => r.status = "dead_letter"
      <3>1. CASE ~proc[w].fatal
        BY <1>5, <3>1, FailureRow
      <3>2. CASE proc[w].fatal
        <4>1. Exhausted(MaxAttempts)
          BY BoundsAssumption DEF Exhausted
        <4>2. PICK r \in Row : /\ row' = [row EXCEPT ![proc[w].job] = r]
                                /\ r.status \in {"dead_letter", "retry_wait"} /\ r.lockedBy = None
          BY <1>5, FailureRow
        <4>3. row'[proc[w].job] = r
          BY <1>2, <4>2 DEF TypeOK
        <4>4. row'[proc[w].job].status = "dead_letter"
          <5> DEFINE written == [row[proc[w].job] EXCEPT !.lockedBy = None, !.lease = NoLease,
                !.attempts = IF MaxAttempts = proc[w].seen THEN @ ELSE MaxAttempts]
          <5>1. row' = [row EXCEPT ![proc[w].job] = [written EXCEPT !.status = "dead_letter"]]
            BY <1>5, <3>2, <4>1 DEF RecordFailure
          <5>2. [written EXCEPT !.status = "dead_letter"].status = "dead_letter"
            BY <1>2 DEF Row
          <5> QED
            BY <1>2, <5>1, <5>2 DEF TypeOK
        <4> QED
          BY <4>2, <4>3, <4>4
      <3> QED
        BY <3>1, <3>2
    <2>2. proc' = [proc EXCEPT ![w] = Idle] /\ proc[w].pc = "recording"
      BY <1>5 DEF RecordFailure, Return
    <2>3. CASE j # proc[w].job
      <3>1. row'[j] = row[j]
        BY <2>1, <2>3 DEF TypeOK
      <3> QED
        BY <1>1, <2>2, <2>3, <3>1, Elsewhere
    <2>4. CASE j = proc[w].job
      <3>1. row'[j] = r
        BY <1>2, <2>1, <2>4 DEF TypeOK
      <3>2. ~Credit(Idle, w, row'[j], j)
        BY <1>1 DEF Credit
      <3>3. Creditors(j)' \subseteq Creditors(j) /\ Creditors(j)' \subseteq Creditors(j) \ {w}
        BY <2>1, <2>2, <3>1, <3>2, CreditsMove
      <3>4. CASE proc[w].fatal
        <4>1. ~Free(j)'
          BY <2>1, <3>1, <3>4 DEF Free
        <4> QED
          BY <1>1, <3>3, <4>1, Books
      <3>5. CASE ~proc[w].fatal
        <4>1. w \in Creditors(j)
          BY <2>2, <2>4, <3>5 DEF Creditors, Credit
        <4> QED
          BY <1>1, <3>3, <4>1, Books
      <3> QED
        BY <3>4, <3>5
    <2> QED
      BY <2>3, <2>4
  <1> QED
    BY <1>3, <1>4, <1>5

\* The death of an owner is a lapse; a worker that has lost its row takes nothing with it.
LEMMA CrashBalanced ==
  ASSUME TypeOK, TypeOK', NEW j \in Job, Balanced(j), NEW w \in Worker, Crash(w)
  PROVE  Balanced(j)'
  <1>1. /\ proc[w].pc \in Busy /\ proc' = [proc EXCEPT ![w] = Idle]
        /\ row' = row /\ effects' = effects /\ Idle.pc = "poll" /\ "poll" \notin Guarded
    BY DEF Crash, Return, Idle, Guarded
  <1>2. proc[w].job \in Job
    BY <1>1 DEF TypeOK
  <1>3. ~Credit(Idle, w, row[j], j)
    BY <1>1 DEF Credit
  <1>4. CASE j = proc[w].job /\ Owns(w, j)
    <2>1. lapses'[j] = lapses[j] + 1
      BY <1>2, <1>4 DEF Crash, Lapse, TypeOK
    <2>2. Creditors(j)' \subseteq Creditors(j)
      BY <1>1, <1>3, CreditsMove
    <2> QED
      BY <1>1, <2>1, <2>2, Books
  <1>5. CASE ~(j = proc[w].job /\ Owns(w, j))
    <2>1. lapses'[j] = lapses[j]
      BY <1>2, <1>5 DEF Crash, Lapse, TypeOK
    <2>2. ~Holds(proc[w], w, row[j], j)
      BY <1>5 DEF Holds, Owns
    <2> QED
      BY <1>1, <1>3, <2>1, <2>2, Stay
  <1> QED
    BY <1>4, <1>5

\* A dead letter put back into the queue is a lapse.
LEMMA RetryBalanced ==
  ASSUME TypeOK, TypeOK', NEW j \in Job, Balanced(j), NEW a \in Admin, RetryWrite(a), NEW w
  PROVE  Balanced(j)'
  <1>1. pending[a] \in Job /\ proc' = [proc EXCEPT ![w] = proc[w]] /\ effects' = effects
    BY DEF RetryWrite, TypeOK
  <1>2. CASE j = pending[a]
    <2>1. row'[j].status = "queued" /\ lapses'[j] = lapses[j] + 1
      BY <1>1, <1>2 DEF RetryWrite, Lapse, TypeOK, Row
    <2>2. Credit(proc[w], w, row'[j], j) => Credit(proc[w], w, row[j], j)
      BY <2>1 DEF Credit
    <2>3. Creditors(j)' \subseteq Creditors(j)
      BY <1>1, <2>1, <2>2, CreditsMove
    <2> QED
      BY <1>1, <2>1, <2>3, Books
  <1>3. CASE j # pending[a]
    <2>1. row'[j] = row[j] /\ lapses'[j] = lapses[j]
      BY <1>1, <1>3 DEF RetryWrite, Lapse, TypeOK
    <2> QED
      BY <1>1, <2>1, Stay
  <1> QED
    BY <1>2, <1>3

\* A lease that runs out under its worker is a lapse; one that nobody holds was free before.
LEMMA TickBalanced ==
  ASSUME TypeOK, TypeOK', NEW j \in Job, Balanced(j), Tick, NEW w
  PROVE  Balanced(j)'
  <1>1. /\ proc' = [proc EXCEPT ![w] = proc[w]] /\ effects' = effects /\ row[j] \in Row
    BY DEF Tick, TypeOK
  <1>2. /\ row'[j].status = row[j].status /\ row'[j].lockedBy = row[j].lockedBy
        /\ row'[j].lease = 0 => row[j].lease = 0 \/ row[j].lease = 1
    <2>1. row'[j] = [row[j] EXCEPT
                       !.lease = IF row[j].lease > 0 THEN row[j].lease - 1 ELSE row[j].lease,
                       !.wait = IF row[j].wait > 0 THEN row[j].wait - 1 ELSE row[j].wait]
      BY DEF Tick
    <2> QED
      BY <1>1, <2>1, BoundsAssumption DEF Row, NoLease
  <1>3. Credit(proc[w], w, row'[j], j) => Credit(proc[w], w, row[j], j)
    BY <1>2 DEF Credit
  <1>4. Creditors(j)' \subseteq Creditors(j)
    BY <1>1, <1>2, <1>3, CreditsMove
  <1>5. CASE row[j].lease = 1 /\ Held(j)
    <2>1. lapses'[j] = lapses[j] + 1
      BY <1>5 DEF Tick
    <2> QED
      BY <1>1, <1>4, <2>1, Books
  <1>6. CASE ~(row[j].lease = 1 /\ Held(j))
    <2>1. lapses'[j] = lapses[j]
      BY <1>6 DEF Tick
    <2>2. Free(j)' => Free(j)
      <3>1. CASE row[j].lease = 1
        <4>1. \A v \in Worker : ~Holds(proc[v], v, row[j], j)
          BY <1>6, <3>1 DEF Held, Holds, Owns
        <4> QED
          BY <1>2, <4>1 DEF Free
      <3>2. CASE row[j].lease # 1
        BY <1>1, <1>2, <3>2, FreeKept
      <3> QED
        BY <3>1, <3>2
    <2> QED
      BY <1>1, <1>4, <2>1, <2>2, Books
  <1> QED
    BY <1>5, <1>6

\* Every job's books balance.
BooksInv == TypeOK /\ \A j \in Job : Balanced(j)

LEMMA StepBalanced == BooksInv /\ [Next]_vars => BooksInv'
  <1> SUFFICES ASSUME BooksInv, [Next]_vars PROVE BooksInv'
    OBVIOUS
  <1>1. TypeOK /\ TypeOK'
    BY StepType DEF BooksInv
  <1> SUFFICES ASSUME NEW j \in Job PROVE Balanced(j)'
    BY <1>1 DEF BooksInv
  <1>2. Balanced(j)
    BY DEF BooksInv
  <1>3. ASSUME NEW w \in Worker, RunOnce(w) PROVE Balanced(j)'
    <2>1. CASE \E k \in Job : Claim(w, k)
      BY <1>1, <1>2, <2>1, ClaimBalanced
    <2>2. CASE BeginHandler(w) \/ HandlerRaises(w) \/ HandlerReturns(w)
      BY <1>1, <1>2, <2>2, HandlingBalanced
    <2>3. CASE CommitHandler(w) \/ CommitError(w)
      BY <1>1, <1>2, <2>3, CommitBalanced
    <2>4. CASE CompleteOwned(w) \/ CompleteError(w)
      BY <1>1, <1>2, <2>4, CompletionBalanced
    <2>5. CASE ReadForFailure(w) \/ RecordFailure(w)
      BY <1>1, <1>2, <2>5, FailureBalanced
    <2> QED
      BY <1>3, <2>1, <2>2, <2>3, <2>4, <2>5 DEF RunOnce
  <1>4. ASSUME NEW w \in Worker, Heartbeat(w) \/ HeartbeatError(w) PROVE Balanced(j)'
    BY <1>1, <1>2, <1>4, HeartbeatBalanced
  <1>5. ASSUME NEW w \in Worker, Crash(w) PROVE Balanced(j)'
    BY <1>1, <1>2, <1>5, CrashBalanced
  <1>6. ASSUME NEW a \in Admin, RetryWrite(a) PROVE Balanced(j)'
    BY <1>1, <1>2, <1>6, RetryBalanced
  <1>7. ASSUME (\E a \in Admin : \E k \in Job : RetryRead(a, k)) \/ UNCHANGED vars
        PROVE  Balanced(j)'
    <2>1. UNCHANGED <<row, proc, effects, lapses>>
      BY <1>7 DEF RetryRead, vars
    <2>2. Creditors(j)' = Creditors(j) /\ (Free(j)' <=> Free(j))
      BY <2>1 DEF Creditors, Credit, Free, Holds
    <2> QED
      BY <1>2, <2>1, <2>2 DEF Balanced
  <1>8. ASSUME Tick PROVE Balanced(j)'
    BY <1>1, <1>2, <1>8, TickBalanced
  <1> QED
    BY <1>1, <1>3, <1>4, <1>5, <1>6, <1>7, <1>8 DEF Next

\* A handler commits once, and again only for a crash of the owner, a lease lost under
\* it, an unknown outcome or a retry by hand: never because of the order of the steps.
THEOREM DuplicatesCounted == Spec => []DuplicatesNeedALapse
  <1>1. Init => BooksInv
    BY InitType, InitBalanced DEF BooksInv
  <1>2. BooksInv => DuplicatesNeedALapse
    <2> SUFFICES ASSUME BooksInv, NEW j \in Job PROVE effects[j] <= 1 + lapses[j]
      BY DEF DuplicatesNeedALapse
    <2>1. Cardinality(Creditors(j)) \in Nat
      BY FS_CardinalityType DEF BooksInv, Balanced
    <2>2. effects[j] \in Nat /\ lapses[j] \in Nat
      BY BoundsAssumption DEF BooksInv, TypeOK
    <2>3. effects[j] + Cardinality(Creditors(j)) + (IF Free(j) THEN 1 ELSE 0) <= 1 + lapses[j]
      BY DEF BooksInv, Balanced
    <2> QED
      BY <2>1, <2>2, <2>3
  <1> QED
    BY <1>1, <1>2, StepBalanced, PTL DEF Spec

-----------------------------------------------------------------------------
(* Timely leases and one administrator. *)

\* One request of POST /dead-letters/{job_id}/retry at a time.
OneAdmin == \A a, b \in Admin : a = b

-----------------------------------------------------------------------------
(* The inductive invariant of timely leases. *)

\* What a busy process w with the local state p may rely on in the row r of its job.
\* A process that is failing may have completed the row already (CompleteError).
Keeps(w, p, r) ==
    /\ p.pc # "failing" => r.status = "processing" /\ r.lockedBy = w
    /\ r.status = "processing" /\ r.lockedBy = w => r.lease > 0
    /\ p.pc = "recording" => p.seen = r.attempts

InHand == \A w \in Worker : proc[w].pc \in Busy => Keeps(w, proc[w], row[proc[w].job])

BuriedWhilePending ==
    \A a \in Admin : pending[a] # None => row[pending[a]].status = "dead_letter"

Accounted(r) ==
    /\ r.status = "queued" => r.attempts = 0
    /\ r.status = "processing" => r.attempts > 0
    /\ r.status = "retry_wait" => r.attempts \in 1 .. MaxAttempts - 1
    /\ r.status = "dead_letter" => r.attempts >= MaxAttempts

TimelyInv ==
    /\ QueueInv
    /\ InHand
    /\ BuriedWhilePending
    /\ AttemptAccounting

LEMMA Accounting == AttemptAccounting <=> \A j \in Job : Accounted(row[j])
  BY DEF AttemptAccounting, Accounted

LEMMA InitTimely == Init => TimelyInv
  BY InitQueue, BoundsAssumption
     DEF Init, TimelyInv, InHand, BuriedWhilePending, AttemptAccounting, Idle, Busy, Guarded

\* A step of w that writes its local state only.
LEMMA TimelyProcWrite ==
  ASSUME TimelyInv, QueueInv', UNCHANGED <<row, pending>>,
         NEW w \in Worker, NEW p, proc' = [proc EXCEPT ![w] = p],
         p.pc \in Busy => Keeps(w, p, row[p.job])
  PROVE  TimelyInv'
  <1>1. /\ proc'[w] = p
        /\ \A v \in Worker \ {w} : proc'[v] = proc[v]
    BY DEF TimelyInv, QueueInv, TypeOK
  <1>2. InHand'
    BY <1>1 DEF TimelyInv, InHand, Keeps
  <1> QED
    BY <1>2 DEF TimelyInv, BuriedWhilePending, AttemptAccounting

\* A step of w that writes its local state and one row that is neither buried nor in the
\* hands of another process.
LEMMA TimelyRowWrite ==
  ASSUME TimelyInv, QueueInv', UNCHANGED pending,
         NEW w \in Worker, NEW p, proc' = [proc EXCEPT ![w] = p],
         NEW j \in Job, NEW r \in Row, row' = [row EXCEPT ![j] = r],
         row[j].status # "dead_letter",
         \A v \in Worker \ {w} : ~(proc[v].pc \in Busy /\ proc[v].job = j /\ Owns(v, j)),
         r.lockedBy \in {None, w},
         Accounted(r),
         p.pc \in Busy => p.job = j /\ Keeps(w, p, r)
  PROVE  TimelyInv'
  <1>1. /\ proc'[w] = p /\ row'[j] = r
        /\ \A v \in Worker \ {w} : proc'[v] = proc[v]
        /\ \A k \in Job \ {j} : row'[k] = row[k]
        /\ \A v \in Worker : proc[v].pc \in Busy => proc[v].job \in Job
        /\ \A a \in Admin : pending[a] # None => pending[a] \in Job
    BY DEF TimelyInv, QueueInv, TypeOK
  <1>2. InHand'
    <2> SUFFICES ASSUME NEW v \in Worker, proc'[v].pc \in Busy
                 PROVE  Keeps(v, proc'[v], row'[proc'[v].job])
      BY DEF InHand, Keeps
    <2>1. CASE v = w
      BY <1>1, <2>1
    <2>2. CASE v # w /\ proc[v].job # j
      BY <1>1, <2>2 DEF TimelyInv, InHand
    <2>3. CASE v # w /\ proc[v].job = j
      <3>1. Keeps(v, proc[v], row[j]) /\ proc[v].pc \in Busy
        BY <1>1, <2>3 DEF TimelyInv, InHand
      <3>2. proc[v].pc = "failing"
        BY <2>3, <3>1 DEF Keeps, Owns
      <3>3. r.lockedBy # v
        BY <2>3, NoneAssumption
      <3> QED
        BY <1>1, <2>3, <3>2, <3>3 DEF Keeps
    <2> QED
      BY <2>1, <2>2, <2>3
  <1>3. BuriedWhilePending'
    BY <1>1 DEF TimelyInv, BuriedWhilePending
  <1>4. AttemptAccounting'
    <2>1. \A k \in Job : Accounted(row'[k])
      BY <1>1, Accounting DEF TimelyInv
    <2> QED
      BY <2>1 DEF AttemptAccounting, Accounted
  <1> QED
    BY <1>2, <1>3, <1>4 DEF TimelyInv

\* fail(), called with the row's own attempt_count, keeps count and status in agreement.
LEMMA FailureAccounted ==
  ASSUME TypeOK, NEW w \in Worker, RecordFailure(w),
         proc[w].seen = row[proc[w].job].attempts, row[proc[w].job].attempts > 0
  PROVE  \E r \in Row : /\ row' = [row EXCEPT ![proc[w].job] = r]
                        /\ r.lockedBy = None /\ Accounted(r)
                        /\ r.status \in {"dead_letter", "retry_wait"}
  <1> DEFINE j == proc[w].job
             count == IF proc[w].fatal THEN MaxAttempts ELSE proc[w].seen
             written == [row[j] EXCEPT !.lockedBy = None, !.lease = NoLease,
                            !.attempts = IF count = proc[w].seen THEN @ ELSE count]
  <1>1. j \in Job /\ row[j] \in Row /\ count \in 0 .. AttemptCap /\ count > 0
    <2>1. proc[w].pc \in Busy
      BY DEF RecordFailure, Busy
    <2>2. proc[w] \in Proc /\ j \in Job
      BY <2>1 DEF TypeOK
    <2>3. proc[w].seen \in 0 .. AttemptCap
      BY <2>2 DEF Proc
    <2> QED
      BY <2>2, <2>3, BoundsAssumption DEF TypeOK
  <1>2. (IF count = proc[w].seen THEN row[j].attempts ELSE count) = count
    OBVIOUS
  <1>3. NoLease \in NoLease .. LeaseTicks
    BY BoundsAssumption DEF NoLease
  <1>4. written \in Row /\ written.lockedBy = None /\ written.attempts = count
    BY <1>1, <1>2, <1>3 DEF Row
  <1>5. CASE Exhausted(count)
    <2>1. row' = [row EXCEPT ![j] = [written EXCEPT !.status = "dead_letter"]]
      BY <1>5 DEF RecordFailure
    <2> HIDE DEF written
    <2> DEFINE r == [written EXCEPT !.status = "dead_letter"]
    <2>2. r \in Row /\ r.lockedBy = None /\ r.status = "dead_letter" /\ r.attempts = count
      BY <1>4 DEF Row, Status
    <2> HIDE DEF r, count
    <2>3. Accounted(r)
      BY <1>5, <2>2 DEF Accounted, Exhausted
    <2> QED
      BY <2>1, <2>2, <2>3 DEF r
  <1>6. CASE ~Exhausted(count)
    <2>1. PICK delay \in 1 .. MaxBackoff :
            row' = [row EXCEPT ![j] = [written EXCEPT !.status = "retry_wait",
                                                      !.wait = delay]]
      BY <1>6 DEF RecordFailure
    <2> HIDE DEF written
    <2> DEFINE r == [written EXCEPT !.status = "retry_wait", !.wait = delay]
    <2>2. "retry_wait" \in Status /\ delay \in 0 .. MaxBackoff
      BY BoundsAssumption DEF Status
    <2>3. r \in Row /\ r.lockedBy = None /\ r.status = "retry_wait" /\ r.attempts = count
      BY <1>4, <2>2 DEF Row
    <2> HIDE DEF r, count
    <2>4. count \in Nat
      BY <1>1
    <2>5. Accounted(r)
      BY <1>1, <1>6, <2>3, <2>4, BoundsAssumption DEF Accounted, Exhausted
    <2> QED
      BY <2>1, <2>3, <2>5 DEF r
  <1> QED
    BY <1>5, <1>6

LEMMA StepTimely ==
  ASSUME Timely, OneAdmin
  PROVE  TimelyInv /\ [Next]_vars => TimelyInv'
  <1> SUFFICES ASSUME TimelyInv, [Next]_vars PROVE TimelyInv'
    OBVIOUS
  <1>q. QueueInv /\ QueueInv'
    BY StepQueue DEF TimelyInv
  <1>t. TypeOK /\ TypeOK'
    BY <1>q DEF QueueInv
  <1>b. {"claimed", "handling", "committing", "completing", "failing", "recording"} = Busy
    BY DEF Busy, Guarded
  <1>i. \A w \in Worker : proc[w].pc \in Busy =>
           proc[w].job \in Job /\ Keeps(w, proc[w], row[proc[w].job])
    BY <1>t DEF TimelyInv, InHand, TypeOK
  <1>n. Idle.pc \notin Busy
    BY IdleType
  <1>1. ASSUME NEW w \in Worker, NEW j \in Job, Claim(w, j) PROVE TimelyInv'
    <2> DEFINE p == [Idle EXCEPT !.pc = "claimed", !.job = j]
               r == Granted(row[j], w)
    <2>1. proc' = [proc EXCEPT ![w] = p] /\ row' = [row EXCEPT ![j] = r] /\ UNCHANGED pending
      BY <1>1 DEF Claim
    <2>2. p.pc = "claimed" /\ p.job = j
      BY DEF Idle
    <2>3. row[j] \in Row /\ r \in Row
      BY <1>t, GrantedType DEF TypeOK
    <2>4. r.status = "processing" /\ r.lockedBy = w /\ r.lease = LeaseTicks /\ r.attempts > 0
      <3>1. /\ row[j].attempts \in 0 .. AttemptCap
            /\ r.attempts = IF row[j].attempts < AttemptCap
                            THEN row[j].attempts + 1 ELSE row[j].attempts
            /\ r.status = "processing" /\ r.lockedBy = w /\ r.lease = LeaseTicks
        BY <2>3 DEF Granted, Row
      <3> QED
        BY <3>1, BoundsAssumption
    <2>5. row[j].status # "dead_letter"
      BY <1>1 DEF Claim, Claimable
    <2>6. \A v \in Worker \ {w} : ~(proc[v].pc \in Busy /\ proc[v].job = j /\ Owns(v, j))
      BY <1>1, <1>i DEF Claim, Claimable, Keeps, Owns
    <2> HIDE DEF p, r
    <2>7. Accounted(r) /\ Keeps(w, p, r)
      BY <2>2, <2>4, BoundsAssumption DEF Accounted, Keeps
    <2> QED
      BY <1>q, <2>1, <2>2, <2>3, <2>4, <2>5, <2>6, <2>7, TimelyRowWrite
  <1>2. ASSUME NEW w \in Worker, Heartbeat(w) PROVE TimelyInv'
    <2>1. proc[w].pc \in Busy /\ proc[w].pc # "recording"
      BY <1>2, <1>b DEF Heartbeat, Guarded
    <2>2. CASE OwnsLive(w, proc[w].job)
      <3> DEFINE j == proc[w].job
                 r == [row[j] EXCEPT !.lease = LeaseTicks]
      <3>1. LeaseTicks \in NoLease .. LeaseTicks /\ LeaseTicks > 0
        BY BoundsAssumption DEF NoLease
      <3>2. j \in Job /\ row[j] \in Row
        BY <1>i, <1>t, <2>1 DEF TypeOK
      <3>3. r \in Row /\ row' = [row EXCEPT ![j] = r] /\ UNCHANGED <<proc, pending>>
        BY <1>2, <1>t, <2>2, <3>1, <3>2 DEF Heartbeat, TypeOK, Row
      <3>4. /\ r.status = row[j].status /\ r.lockedBy = row[j].lockedBy
            /\ r.attempts = row[j].attempts /\ r.lease > 0
        BY <3>1, <3>2 DEF Row
      <3>5. proc' = [proc EXCEPT ![w] = proc[w]]
        BY <1>t, <3>3 DEF TypeOK
      <3>6. Accounted(row[j])
        BY <3>2, Accounting DEF TimelyInv
      <3>7. row[j].status = "processing" /\ row[j].lockedBy = w
        BY <2>2 DEF OwnsLive, Owns
      <3> HIDE DEF r
      <3>8. Accounted(r) /\ Keeps(w, proc[w], r)
        BY <1>i, <2>1, <3>4, <3>6 DEF Accounted, Keeps
      <3>9. \A v \in Worker \ {w} : ~Owns(v, j)
        BY <3>7 DEF Owns
      <3> QED
        BY <1>q, <3>2, <3>3, <3>4, <3>5, <3>7, <3>8, <3>9, TimelyRowWrite
    <2>3. CASE ~OwnsLive(w, proc[w].job)
      <3> DEFINE p == [proc[w] EXCEPT !.lost = TRUE]
      <3>1. /\ proc' = [proc EXCEPT ![w] = p] /\ UNCHANGED <<row, pending>>
            /\ p.pc = proc[w].pc /\ p.job = proc[w].job /\ p.seen = proc[w].seen
        BY <1>2, <1>t, <2>3 DEF Heartbeat, TypeOK, Proc
      <3> HIDE DEF p
      <3>2. p.pc \in Busy => Keeps(w, p, row[p.job])
        BY <1>i, <3>1 DEF Keeps
      <3> QED
        BY <1>q, <3>1, <3>2, TimelyProcWrite
    <2> QED
      BY <2>2, <2>3
  <1>3. ASSUME NEW w \in Worker, HeartbeatError(w) PROVE TimelyInv'
    <2> DEFINE p == [proc[w] EXCEPT !.lost = TRUE]
    <2>1. /\ proc' = [proc EXCEPT ![w] = p] /\ UNCHANGED <<row, pending>>
          /\ p.pc = proc[w].pc /\ p.job = proc[w].job /\ p.seen = proc[w].seen
      BY <1>3, <1>t DEF HeartbeatError, TypeOK, Proc
    <2> HIDE DEF p
    <2>2. p.pc \in Busy => Keeps(w, p, row[p.job])
      BY <1>i, <2>1 DEF Keeps
    <2> QED
      BY <1>q, <2>1, <2>2, TimelyProcWrite
  <1>g. ASSUME NEW w \in Worker, NEW label \in Busy, label # "recording", Goto(w, label),
               proc[w].pc \in Busy, proc[w].pc # "failing", UNCHANGED <<row, pending>>
        PROVE TimelyInv'
    BY <1>g, <1>i, <1>q, <1>t, GotoWrite, TimelyProcWrite DEF Keeps
  <1>r. ASSUME NEW w \in Worker, NEW b \in BOOLEAN, Raise(w, b),
               proc[w].pc \in Busy, UNCHANGED <<row, pending>>
        PROVE TimelyInv'
    BY <1>r, <1>i, <1>q, <1>t, RaiseWrite, TimelyProcWrite DEF Keeps
  <1>f. ASSUME NEW w \in Worker, Return(w), UNCHANGED <<row, pending>> PROVE TimelyInv'
    BY <1>f, <1>n, <1>q, TimelyProcWrite DEF Return
  <1>4. ASSUME NEW w \in Worker,
               \/ BeginHandler(w) \/ HandlerRaises(w) \/ HandlerReturns(w)
               \/ CommitHandler(w) \/ CommitError(w)
        PROVE TimelyInv'
    <2>1. UNCHANGED <<row, pending>> /\ proc[w].pc \in Busy /\ proc[w].pc # "failing"
      BY <1>4, <1>b DEF BeginHandler, HandlerRaises, HandlerReturns, CommitHandler, CommitError
    <2>2. \/ \E b \in BOOLEAN : Raise(w, b)
          \/ \E label \in Busy \ {"recording"} : Goto(w, label)
      BY <1>4, <1>b DEF BeginHandler, HandlerRaises, HandlerReturns, CommitHandler, CommitError
    <2> QED
      BY <1>g, <1>r, <2>1, <2>2
  <1>9. ASSUME NEW w \in Worker, CompleteOwned(w) \/ CompleteError(w) PROVE TimelyInv'
    <2> DEFINE j == proc[w].job
               r == Completed(row[j])
    <2>1. /\ proc[w].pc \in Busy /\ UNCHANGED pending
          /\ Return(w) \/ \E b \in BOOLEAN : Raise(w, b)
      BY <1>9, <1>b DEF CompleteOwned, CompleteError
    <2>2. j \in Job /\ row[j] \in Row /\ r \in Row
      BY <1>i, <1>t, <2>1, CompletedType DEF TypeOK
    <2>3. CASE row' = row
      BY <1>r, <1>f, <2>1, <2>3
    <2>4. CASE row' # row
      <3>1. OwnsLive(w, j) /\ row' = [row EXCEPT ![j] = r]
        BY <1>9, <2>4 DEF CompleteOwned, CompleteError
      <3>2. r.status = "completed" /\ r.lockedBy = None
        BY <2>2 DEF Completed, Row
      <3>3. \E p : /\ proc' = [proc EXCEPT ![w] = p]
                   /\ p.pc \in Busy => p.pc = "failing" /\ p.job = j
        <4>1. CASE Return(w)
          BY <1>n, <4>1 DEF Return
        <4>2. CASE \E b \in BOOLEAN : Raise(w, b)
          BY <1>t, <2>1, <4>2, RaiseWrite
        <4> QED
          BY <2>1, <4>1, <4>2
      <3>4. /\ row[j].status # "dead_letter"
            /\ \A v \in Worker \ {w} : ~Owns(v, j)
        BY <3>1 DEF OwnsLive, Owns
      <3> HIDE DEF r
      <3>5. Accounted(r)
        BY <3>2 DEF Accounted
      <3>6. \A p : p.pc = "failing" => Keeps(w, p, r)
        BY <3>2 DEF Keeps
      <3> QED
        BY <1>q, <2>1, <2>2, <3>1, <3>2, <3>3, <3>4, <3>5, <3>6, TimelyRowWrite
    <2> QED
      BY <2>3, <2>4
  <1>11. ASSUME NEW w \in Worker, ReadForFailure(w) PROVE TimelyInv'
    <2>1. proc[w].pc = "failing" /\ proc[w].pc \in Busy /\ UNCHANGED <<row, pending>>
      BY <1>11, <1>b DEF ReadForFailure
    <2>2. CASE Owns(w, proc[w].job)
      <3> DEFINE p == [proc[w] EXCEPT !.pc = "recording",
                                      !.seen = row[proc[w].job].attempts]
      <3>1. /\ proc' = [proc EXCEPT ![w] = p]
            /\ p.pc = "recording" /\ p.job = proc[w].job
            /\ p.seen = row[proc[w].job].attempts
        BY <1>11, <1>t, <2>2 DEF ReadForFailure, TypeOK, Proc
      <3> HIDE DEF p
      <3> QED
        BY <1>i, <1>q, <2>1, <2>2, <3>1, TimelyProcWrite DEF Keeps, Owns
    <2>3. CASE ~Owns(w, proc[w].job)
      BY <1>11, <1>f, <2>1, <2>3 DEF ReadForFailure
    <2> QED
      BY <2>2, <2>3
  <1>12. ASSUME NEW w \in Worker, RecordFailure(w) PROVE TimelyInv'
    <2> DEFINE j == proc[w].job
    <2>1. /\ proc[w].pc = "recording" /\ proc[w].pc \in Busy
          /\ UNCHANGED pending /\ Return(w)
      BY <1>12, <1>b DEF RecordFailure
    <2>2. /\ j \in Job /\ row[j].status = "processing" /\ row[j].lockedBy = w
          /\ proc[w].seen = row[j].attempts
      BY <1>i, <2>1 DEF Keeps
    <2>3. row[j].attempts > 0
      BY <2>2, Accounting DEF TimelyInv, Accounted
    <2>4. PICK r \in Row : /\ row' = [row EXCEPT ![j] = r]
                           /\ r.lockedBy = None /\ Accounted(r)
      BY <1>12, <1>t, <2>2, <2>3, FailureAccounted
    <2>5. \A v \in Worker \ {w} : ~Owns(v, j)
      BY <2>2 DEF Owns
    <2> QED
      BY <1>n, <1>q, <2>1, <2>2, <2>4, <2>5, TimelyRowWrite DEF Return
  <1>13. ASSUME NEW w \in Worker, Crash(w) PROVE TimelyInv'
    BY <1>13, <1>f DEF Crash
  <1>14. ASSUME NEW a \in Admin, NEW j \in Job, RetryRead(a, j) PROVE TimelyInv'
    BY <1>14, <1>q, <1>t
       DEF RetryRead, TimelyInv, InHand, BuriedWhilePending, AttemptAccounting, TypeOK
  <1>15. ASSUME NEW a \in Admin, RetryWrite(a) PROVE TimelyInv'
    <2> DEFINE j == pending[a]
               r == [row[j] EXCEPT !.status = "queued", !.attempts = 0, !.wait = 0]
    <2>1. j \in Job /\ row[j] \in Row /\ row[j].status = "dead_letter"
      BY <1>15, <1>t DEF RetryWrite, TypeOK, TimelyInv, BuriedWhilePending
    <2>2. row' = [row EXCEPT ![j] = r] /\ r.status = "queued" /\ r.attempts = 0
      BY <1>15, <1>t, <2>1 DEF RetryWrite, TypeOK, Row
    <2> HIDE DEF r
    <2>3. /\ row'[j] = r /\ \A k \in Job \ {j} : row'[k] = row[k]
          /\ proc' = proc
      BY <1>15, <1>t, <2>1, <2>2 DEF RetryWrite, TypeOK
    <2>4. InHand'
      <3> SUFFICES ASSUME NEW v \in Worker, proc[v].pc \in Busy
                   PROVE  Keeps(v, proc[v], row'[proc[v].job])
        BY <2>3 DEF InHand, Keeps
      <3>1. proc[v].job \in Job /\ Keeps(v, proc[v], row[proc[v].job])
        BY <1>i
      <3>2. CASE proc[v].job = j
        BY <2>1, <2>2, <2>3, <3>1, <3>2 DEF Keeps
      <3>3. CASE proc[v].job # j
        BY <2>3, <3>1, <3>3
      <3> QED
        BY <3>2, <3>3
    <2>5. BuriedWhilePending'
      <3>1. \A b \in Admin : pending'[b] = None
        BY <1>15, <1>t DEF RetryWrite, TypeOK, OneAdmin
      <3> QED
        BY <3>1 DEF BuriedWhilePending
    <2>6. AttemptAccounting'
      BY <2>2, <2>3 DEF TimelyInv, AttemptAccounting
    <2> QED
      BY <1>q, <2>4, <2>5, <2>6 DEF TimelyInv
  <1>16. ASSUME Tick PROVE TimelyInv'
    <2>1. ASSUME NEW j \in Job
          PROVE /\ row'[j].status = row[j].status /\ row'[j].lockedBy = row[j].lockedBy
                /\ row'[j].attempts = row[j].attempts
                /\ row[j].lease \in Int
                /\ row[j].lease > 1 => row'[j].lease > 0
      <3>1. row[j] \in Row
        BY <1>t DEF TypeOK
      <3>2. row'[j] = [row[j] EXCEPT
                         !.lease = IF row[j].lease > 0 THEN row[j].lease - 1 ELSE row[j].lease,
                         !.wait = IF row[j].wait > 0 THEN row[j].wait - 1 ELSE row[j].wait]
        BY <1>16 DEF Tick
      <3> QED
        BY <3>1, <3>2, BoundsAssumption DEF Row, NoLease
    <2>2. UNCHANGED <<proc, pending>>
      BY <1>16 DEF Tick
    <2>3. \A j \in Job : row[j].lease = 1 => ~Held(j)
      BY <1>16 DEF Tick
    <2>4. InHand'
      <3> SUFFICES ASSUME NEW v \in Worker, proc[v].pc \in Busy
                   PROVE  Keeps(v, proc[v], row'[proc[v].job])
        BY <2>2 DEF InHand, Keeps
      <3> DEFINE j == proc[v].job
      <3>1. j \in Job /\ Keeps(v, proc[v], row[j])
        BY <1>i
      <3>2. Owns(v, j) => row[j].lease > 0 /\ row[j].lease # 1
        BY <2>3, <3>1 DEF Held, Keeps, Owns
      <3>3. Owns(v, j) => row'[j].lease > 0
        BY <2>1, <3>1, <3>2
      <3> QED
        BY <2>1, <3>1, <3>3 DEF Keeps, Owns
    <2>5. BuriedWhilePending'
      BY <1>t, <2>1, <2>2 DEF TimelyInv, BuriedWhilePending, TypeOK
    <2>6. AttemptAccounting'
      BY <2>1 DEF TimelyInv, AttemptAccounting
    <2> QED
      BY <1>q, <2>4, <2>5, <2>6 DEF TimelyInv
  <1>17. CASE UNCHANGED vars
    BY <1>17, <1>q DEF vars, TimelyInv, InHand, BuriedWhilePending, AttemptAccounting, Keeps
  <1> QED
    BY <1>1, <1>2, <1>3, <1>4, <1>9, <1>11, <1>12, <1>13, <1>14, <1>15, <1>16, <1>17
       DEF Next, RunOnce

\* Between claim and completion a worker of run_once holds the row with a live lease,
\* and the row an administrator has read is still in the dead letters when written.
THEOREM TimelyInvariant ==
  ASSUME Timely, OneAdmin
  PROVE  Spec => []TimelyInv
  BY InitTimely, StepTimely, PTL DEF Spec

-----------------------------------------------------------------------------
(* What follows from it. *)

\* Status and attempt_count agree with max_attempts: no job is buried with attempts
\* left, and none waits for a retry without.
THEOREM AttemptsAddUp ==
  ASSUME Timely, OneAdmin
  PROVE  Spec => []AttemptAccounting
  BY TimelyInvariant, PTL DEF TimelyInv

\* Only the worker that holds the row with a live lease commits a handler's effect.
THEOREM EffectsUnderLease ==
  ASSUME Timely, OneAdmin
  PROVE  Spec => CommitUnderLease
  <1> DEFINE Held2 == \A w \in Worker :
         proc[w].pc = "committing" /\ proc'[w].pc = "completing" => OwnsLive(w, proc[w].job)
  <1>1. TimelyInv /\ [Next]_vars => [Held2]_vars
    BY DEF TimelyInv, InHand, Keeps, OwnsLive, Owns, Busy, Guarded
  <1> QED
    BY <1>1, TimelyInvariant, PTL DEF Spec, CommitUnderLease

\* A row that its owner w holds with a live lease changes hands or status by a step of w.
LEMMA HolderSteps ==
  ASSUME TimelyInv, Next, NEW j \in Job, NEW w \in Worker, OwnsLive(w, j),
         row'[j].status # row[j].status \/ row'[j].lockedBy # row[j].lockedBy
  PROVE  /\ proc[w].job = j /\ proc'[w] # proc[w]
         /\ \A v \in Worker \ {w} : proc'[v] = proc[v]
  <1>t. TypeOK
    BY DEF TimelyInv, QueueInv
  <1>o. row[j].status = "processing" /\ row[j].lockedBy = w /\ row[j].lease > 0
    BY DEF OwnsLive, Owns
  <1>1. ASSUME NEW v \in Worker, NEW k \in Job, Claim(v, k) PROVE FALSE
    BY <1>1, <1>t, <1>o DEF Claim, Claimable, TypeOK
  <1>2. ASSUME NEW v \in Worker, Heartbeat(v) PROVE FALSE
    BY <1>2, <1>t DEF Heartbeat, TypeOK, Row
  <1>3. ASSUME NEW v \in Worker,
               \/ HeartbeatError(v) \/ BeginHandler(v) \/ HandlerRaises(v)
               \/ HandlerReturns(v) \/ CommitHandler(v) \/ CommitError(v)
               \/ ReadForFailure(v) \/ Crash(v)
        PROVE FALSE
    BY <1>3 DEF HeartbeatError, BeginHandler, HandlerRaises, HandlerReturns, CommitHandler,
                CommitError, ReadForFailure, Crash
  <1>4. ASSUME NEW v \in Worker, CompleteOwned(v) \/ CompleteError(v)
        PROVE /\ proc[v].pc = "completing" /\ proc[v].job = j /\ Owns(v, j)
              /\ Return(v) \/ \E b \in BOOLEAN : Raise(v, b)
    <2> DEFINE k == proc[v].job
    <2>1. /\ proc[v].pc = "completing"
          /\ Return(v) \/ \E b \in BOOLEAN : Raise(v, b)
          /\ \/ row' = row
             \/ OwnsLive(v, k) /\ row' = [row EXCEPT ![k] = Completed(row[k])]
      BY <1>4 DEF CompleteOwned, CompleteError
    <2>2. k = j /\ OwnsLive(v, k)
      BY <1>t, <2>1 DEF TypeOK
    <2> QED
      BY <2>1, <2>2 DEF OwnsLive
  <1>5. ASSUME NEW v \in Worker, RecordFailure(v)
        PROVE proc[v].pc = "recording" /\ proc[v].job = j /\ Owns(v, j) /\ Return(v)
    <2>1. proc[v].pc = "recording" /\ proc[v].pc \in Busy /\ Return(v)
      BY <1>5 DEF RecordFailure, Busy
    <2>2. Owns(v, proc[v].job)
      BY <2>1 DEF TimelyInv, InHand, Keeps, Owns
    <2>3. proc[v].job = j
      BY <1>5, <1>t, FailureRow DEF TypeOK
    <2> QED
      BY <2>1, <2>2, <2>3
  <1>6. ASSUME NEW a \in Admin, NEW k \in Job, RetryRead(a, k) PROVE FALSE
    BY <1>6 DEF RetryRead
  <1>7. ASSUME NEW a \in Admin, RetryWrite(a) PROVE FALSE
    <2>1. row[pending[a]].status = "dead_letter" /\ pending[a] \in Job
      BY <1>7, <1>t DEF RetryWrite, TypeOK, TimelyInv, BuriedWhilePending
    <2>2. row'[j] = row[j]
      BY <1>7, <1>t, <1>o, <2>1 DEF RetryWrite, TypeOK
    <2> QED
      BY <2>2
  <1>8. ASSUME Tick PROVE FALSE
    BY <1>8, <1>t DEF Tick, TypeOK, Row
  <1>9. ASSUME NEW v \in Worker, proc[v].pc \in {"completing", "recording"},
               proc[v].job = j, Owns(v, j),
               Return(v) \/ \E b \in BOOLEAN : Raise(v, b)
        PROVE /\ v = w /\ proc[w].job = j /\ proc'[w] # proc[w]
              /\ \A u \in Worker \ {w} : proc'[u] = proc[u]
    <2>1. v = w
      BY <1>9, <1>o DEF Owns
    <2>2. proc[v].pc \in Busy
      BY <1>9 DEF Busy
    <2>3. \E p : proc' = [proc EXCEPT ![v] = p] /\ p.pc \notin {"completing", "recording"}
      <3>1. CASE Return(v)
        <4>1. Idle.pc \notin {"completing", "recording"}
          BY DEF Idle
        <4> QED
          BY <3>1, <4>1 DEF Return
      <3>2. CASE \E b \in BOOLEAN : Raise(v, b)
        BY <1>t, <2>2, <3>2, RaiseWrite
      <3> QED
        BY <1>9, <3>1, <3>2
    <2> QED
      BY <1>9, <1>t, <2>1, <2>3 DEF TypeOK
  <1>10. CASE \E v \in Worker : CompleteOwned(v) \/ CompleteError(v)
    BY <1>4, <1>9, <1>10
  <1>11. CASE \E v \in Worker : RecordFailure(v)
    BY <1>5, <1>9, <1>11
  <1> QED
    BY <1>1, <1>2, <1>3, <1>6, <1>7, <1>8, <1>10, <1>11 DEF Next, RunOnce

\* Mutual exclusion of the lease, as seen in the row.
THEOREM LeaseIsExclusive ==
  ASSUME Timely, OneAdmin
  PROVE  Spec => LeaseExclusive
  <1> DEFINE Exclusive == \A j \in Job, w \in Worker :
         /\ OwnsLive(w, j)
         /\ row'[j].status # row[j].status \/ row'[j].lockedBy # row[j].lockedBy
         => /\ proc[w].job = j /\ proc'[w] # proc[w]
            /\ \A v \in Worker \ {w} : proc'[v] = proc[v]
  <1>1. TimelyInv /\ [Next]_vars => [Exclusive]_vars
    BY HolderSteps
  <1> QED
    BY <1>1, TimelyInvariant, PTL DEF Spec, LeaseExclusive

-----------------------------------------------------------------------------
(* The queue implements AtLeastOnceQueue. *)

QPhase == [j \in Job |-> Phase(row[j])]
QApplied == {j \in Job : effects[j] > 0}

LEMMA QueueStutter ==
  ASSUME UNCHANGED effects, \A j \in Job : Phase(row'[j]) = Phase(row[j])
  PROVE  UNCHANGED Queue!vars
  <1>1. QPhase' = QPhase /\ QApplied' = QApplied
    BY DEF QPhase, QApplied
  <1> QED
    BY <1>1 DEF Queue!vars, QPhase, QApplied

\* Writing one row changes one phase.
LEMMA QueueWrite ==
  ASSUME TypeOK, UNCHANGED effects, NEW j \in Job, NEW r \in Row,
         row' = [row EXCEPT ![j] = r]
  PROVE  QPhase' = [QPhase EXCEPT ![j] = Phase(r)] /\ QApplied' = QApplied
  <1>1. \A k \in Job : Phase(row'[k]) = IF k = j THEN Phase(r) ELSE Phase(row[k])
    <2>1. row'[j] = r /\ \A k \in Job \ {j} : row'[k] = row[k]
      BY DEF TypeOK
    <2> QED
      BY <2>1
  <1>2. QPhase' = [QPhase EXCEPT ![j] = Phase(r)]
    BY <1>1 DEF QPhase
  <1>3. QApplied' = QApplied
    BY DEF QApplied
  <1> QED
    BY <1>2, <1>3

LEMMA QueueApply ==
  ASSUME TypeOK, UNCHANGED row, NEW j \in Job, row[j].status = "processing",
         effects' = [effects EXCEPT ![j] = effects[j] + 1]
  PROVE  Queue!Next
  <1>1. \A k \in Job : effects[k] \in Nat
    BY DEF TypeOK
  <1>2. QPhase' = QPhase
    BY DEF QPhase
  <1>3. QApplied' = QApplied \cup {j}
    <2>1. effects'[j] = effects[j] + 1 /\ \A k \in Job \ {j} : effects'[k] = effects[k]
      BY DEF TypeOK
    <2>2. effects'[j] > 0
      BY <1>1, <2>1
    <2> QED
      BY <2>1, <2>2 DEF QApplied
  <1>4. QPhase[j] = "open"
    BY DEF QPhase, Phase
  <1>5. Queue!Apply(j)
    BY <1>2, <1>3, <1>4 DEF Queue!Apply, QPhase, QApplied
  <1> QED
    BY <1>5 DEF Queue!Next

LEMMA InitImplements == Init => Queue!Init
  <1> SUFFICES ASSUME Init PROVE Queue!Init
    OBVIOUS
  <1>1. \A j \in Job : row[j].status = "queued" /\ effects[j] = 0
    BY DEF Init
  <1>2. \A j \in Job : Phase(row[j]) = "open"
    BY <1>1 DEF Phase
  <1>3. QApplied = {}
    BY <1>1 DEF QApplied
  <1>4. QPhase = [j \in Job |-> "open"]
    BY <1>2 DEF QPhase
  <1> QED
    BY <1>3, <1>4 DEF Queue!Init, QPhase, QApplied

LEMMA StepImplements ==
  ASSUME Timely, OneAdmin
  PROVE  TimelyInv /\ [Next]_vars => [Queue!Next]_(Queue!vars)
  <1> SUFFICES ASSUME TimelyInv, [Next]_vars PROVE Queue!Next \/ UNCHANGED Queue!vars
    OBVIOUS
  <1>q. QueueInv
    BY DEF TimelyInv
  <1>t. TypeOK
    BY <1>q DEF QueueInv
  <1>b. {"claimed", "handling", "committing", "completing", "failing", "recording"} = Busy
    BY DEF Busy, Guarded
  <1>i. \A w \in Worker : proc[w].pc \in Busy =>
           proc[w].job \in Job /\ Keeps(w, proc[w], row[proc[w].job])
    BY <1>t DEF TimelyInv, InHand, TypeOK
  <1>s. ASSUME UNCHANGED <<row, effects>> PROVE UNCHANGED Queue!vars
    BY <1>s, QueueStutter
  <1>1. ASSUME NEW w \in Worker, NEW j \in Job, Claim(w, j) PROVE UNCHANGED Queue!vars
    <2>1. /\ row' = [row EXCEPT ![j] = Granted(row[j], w)] /\ UNCHANGED effects
          /\ Granted(row[j], w).status = "processing"
          /\ row[j].status \in {"queued", "retry_wait", "processing"}
      BY <1>1, <1>t DEF Claim, Claimable, Granted, TypeOK, Row
    <2>2. Phase(row[j]) = "open" /\ Phase(Granted(row[j], w)) = "open"
      BY <2>1 DEF Phase
    <2>3. \A k \in Job : Phase(row'[k]) = Phase(row[k])
      BY <1>t, <2>1, <2>2 DEF TypeOK
    <2> QED
      BY <2>1, <2>3, QueueStutter
  <1>2. ASSUME NEW w \in Worker, Heartbeat(w) PROVE UNCHANGED Queue!vars
    <2>1. \A k \in Job : row'[k].status = row[k].status
      BY <1>2, <1>t DEF Heartbeat, TypeOK, Row
    <2> QED
      BY <1>2, <2>1, QueueStutter DEF Heartbeat, Phase
  <1>3. ASSUME NEW w \in Worker,
               \/ HeartbeatError(w) \/ BeginHandler(w) \/ HandlerRaises(w)
               \/ HandlerReturns(w) \/ ReadForFailure(w) \/ Crash(w)
        PROVE UNCHANGED Queue!vars
    BY <1>3, <1>s DEF HeartbeatError, BeginHandler, HandlerRaises, HandlerReturns,
                      ReadForFailure, Crash
  <1>4. ASSUME NEW w \in Worker, CommitHandler(w) \/ CommitError(w)
        PROVE Queue!Next \/ UNCHANGED Queue!vars
    <2> DEFINE j == proc[w].job
    <2>1. /\ proc[w].pc = "committing" /\ UNCHANGED row
          /\ \/ UNCHANGED effects
             \/ effects' = [effects EXCEPT ![j] = effects[j] + 1]
      BY <1>4 DEF CommitHandler, CommitError
    <2>2. j \in Job /\ row[j].status = "processing"
      BY <1>b, <1>i, <2>1 DEF Keeps
    <2> QED
      BY <1>s, <1>t, <2>1, <2>2, QueueApply
  <1>5. ASSUME NEW w \in Worker, CompleteOwned(w) \/ CompleteError(w)
        PROVE Queue!Next \/ UNCHANGED Queue!vars
    <2> DEFINE j == proc[w].job
    <2>1. /\ proc[w].pc = "completing" /\ UNCHANGED effects
          /\ UNCHANGED row \/ row' = [row EXCEPT ![j] = Completed(row[j])]
      BY <1>5 DEF CompleteOwned, CompleteError
    <2>2. j \in Job /\ row[j].status = "processing" /\ effects[j] > 0
      BY <1>b, <1>i, <1>q, <2>1 DEF Keeps, QueueInv, CompletingHasEffect
    <2>3. CASE UNCHANGED row
      BY <1>s, <2>1, <2>3
    <2>4. CASE row' = [row EXCEPT ![j] = Completed(row[j])]
      <3>1. Completed(row[j]).status = "completed"
        BY <1>t, <2>2 DEF Completed, TypeOK, Row
      <3>2. Phase(Completed(row[j])) = "done" /\ QPhase[j] = "open" /\ j \in QApplied
        BY <2>2, <3>1 DEF Phase, QPhase, QApplied
      <3>3. QPhase' = [QPhase EXCEPT ![j] = "done"] /\ QApplied' = QApplied
        <4> DEFINE r == Completed(row[j])
        <4>1. row' = [row EXCEPT ![j] = r] /\ Phase(r) = "done" /\ r \in Row
          BY <1>t, <2>2, <2>4, <3>2, CompletedType DEF TypeOK
        <4> HIDE DEF r
        <4>2. QPhase' = [QPhase EXCEPT ![j] = Phase(r)] /\ QApplied' = QApplied
          BY <1>t, <2>1, <2>2, <4>1, QueueWrite
        <4> QED
          BY <4>1, <4>2
      <3>4. Queue!Finish(j)
        BY <3>2, <3>3 DEF Queue!Finish, QPhase, QApplied
      <3> QED
        BY <2>2, <3>4 DEF Queue!Next
    <2> QED
      BY <2>1, <2>3, <2>4
  <1>6. ASSUME NEW w \in Worker, RecordFailure(w) PROVE Queue!Next \/ UNCHANGED Queue!vars
    <2> DEFINE j == proc[w].job
    <2>1. proc[w].pc = "recording" /\ UNCHANGED effects
      BY <1>6 DEF RecordFailure
    <2>2. j \in Job /\ row[j].status = "processing"
      BY <1>b, <1>i, <2>1 DEF Keeps
    <2>3. PICK r \in Row : /\ row' = [row EXCEPT ![j] = r]
                           /\ r.status \in {"dead_letter", "retry_wait"}
      BY <1>6, <1>t, FailureRow
    <2>4. QPhase' = [QPhase EXCEPT ![j] = Phase(r)] /\ QApplied' = QApplied
      BY <1>t, <2>1, <2>2, <2>3, QueueWrite
    <2>5. QPhase[j] = "open"
      BY <2>2 DEF QPhase, Phase
    <2>6. CASE r.status = "dead_letter"
      <3>1. Phase(r) = "buried"
        BY <2>6 DEF Phase
      <3>2. Queue!Bury(j)
        BY <2>4, <2>5, <3>1 DEF Queue!Bury, QPhase, QApplied
      <3> QED
        BY <2>2, <3>2 DEF Queue!Next
    <2>7. CASE r.status = "retry_wait"
      <3>1. Phase(r) = "open" /\ Phase(row[j]) = "open"
        BY <2>2, <2>7 DEF Phase
      <3>2. \A k \in Job : Phase(row'[k]) = Phase(row[k])
        BY <1>t, <2>2, <2>3, <3>1 DEF TypeOK
      <3> QED
        BY <2>1, <3>2, QueueStutter
    <2> QED
      BY <2>3, <2>6, <2>7
  <1>7. ASSUME NEW a \in Admin, NEW j \in Job, RetryRead(a, j) PROVE UNCHANGED Queue!vars
    BY <1>7, <1>s DEF RetryRead
  <1>8. ASSUME NEW a \in Admin, RetryWrite(a) PROVE Queue!Next
    <2> DEFINE j == pending[a]
               r == [row[j] EXCEPT !.status = "queued", !.attempts = 0, !.wait = 0]
    <2>1. j \in Job /\ row[j] \in Row /\ row[j].status = "dead_letter" /\ UNCHANGED effects
      BY <1>8, <1>t DEF RetryWrite, TypeOK, TimelyInv, BuriedWhilePending
    <2>2. row' = [row EXCEPT ![j] = r] /\ r.status = "queued"
      BY <1>8, <1>t, <2>1 DEF RetryWrite, TypeOK, Row
    <2> HIDE DEF r
    <2>3. Phase(r) = "open" /\ QPhase[j] = "buried"
      BY <2>1, <2>2 DEF Phase, QPhase
    <2>4. QPhase' = [QPhase EXCEPT ![j] = "open"] /\ QApplied' = QApplied
      <3>1. r \in Row
        <4>1. "queued" \in Status /\ 0 \in 0 .. AttemptCap /\ 0 \in 0 .. MaxBackoff
          BY BoundsAssumption DEF Status
        <4> QED
          BY <2>1, <4>1 DEF r, Row
      <3>2. QPhase' = [QPhase EXCEPT ![j] = Phase(r)] /\ QApplied' = QApplied
        BY <1>t, <2>1, <2>2, <3>1, QueueWrite
      <3> QED
        BY <2>3, <3>2
    <2>5. Queue!Reopen(j)
      BY <2>3, <2>4 DEF Queue!Reopen, QPhase, QApplied
    <2> QED
      BY <2>1, <2>5 DEF Queue!Next
  <1>9. ASSUME Tick PROVE UNCHANGED Queue!vars
    <2>1. \A j \in Job : row'[j].status = row[j].status
      BY <1>9, <1>t DEF Tick, TypeOK, Row
    <2> QED
      BY <1>9, <2>1, QueueStutter DEF Tick, Phase
  <1>10. CASE UNCHANGED vars
    BY <1>10, <1>s DEF vars
  <1> QED
    BY <1>1, <1>2, <1>3, <1>4, <1>5, <1>6, <1>7, <1>8, <1>9, <1>10 DEF Next, RunOnce

\* The table, the leases and the workers together behave as the abstract queue: a
\* completed job is executed no more, and only after its effect a job is completed.
THEOREM QueueImplemented ==
  ASSUME Timely, OneAdmin
  PROVE  Spec => ImplementsQueue
  BY InitImplements, StepImplements, TimelyInvariant, PTL
     DEF Spec, ImplementsQueue, Queue!Spec
=============================================================================
