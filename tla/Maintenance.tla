------------------------------ MODULE Maintenance ------------------------------
(***************************************************************************)
(* The delinquency of one maintenance contract: payment failure, the       *)
(* ageing job, recovery, cancellation, and the deletion requests that      *)
(* ageing creates and two administrators approve (app/services/billing.py, *)
(* app/api/billing.py, app/workers/maintenance.py).                        *)
(*                                                                         *)
(* The contract and the requests have version columns.  A session loads    *)
(* the contract (or, to approve, a request), may search other rows later,  *)
(* and writes at the end in one transaction, which fails if a row it       *)
(* updates has been updated meanwhile.  An insert updates no row: it is    *)
(* protected by nothing.  MaintenanceStatusEvents are inserts, of which    *)
(* only the retry of day 7 is ever read.                                   *)
(***************************************************************************)
EXTENDS Integers

CONSTANTS
    Day7, Day30, Day60, Day90,  \* ages of a delinquency at which something changes
    MaxTime,                    \* bound on the clock
    MaxRetry,                   \* bound on the retry events
    Deletion,                   \* identities of deletion requests
    Session,                    \* sessions open at the same time
    Admin,                      \* administrators
    None                        \* NULL

ASSUME AgesAssumption ==
    /\ {Day7, Day30, Day60, Day90} \subseteq Nat
    /\ 0 < Day7 /\ Day7 < Day30 /\ Day30 < Day60 /\ Day60 < Day90
ASSUME BoundsAssumption == MaxTime \in Nat /\ MaxRetry \in Nat
ASSUME NoneAssumption == None \notin Admin \cup Deletion \cup Nat

VARIABLES
    now,        \* the clock
    contract,   \* MaintenanceContract: status, grace_period_started_at
    retries,    \* MaintenanceStatusEvents with reason_code invoice_retry_day_7
    deletion,   \* ResourceDeletionRequest: status, approved_by_first, approved_by_second
    session,    \* the sessions in flight
    since,      \* history: the first payment failure after the last recovery
    consent,    \* history: the administrators whose approval was committed
    overtaken   \* history: requests inserted by an ageing job that a recovery overtook

vars == <<now, contract, retries, deletion, session, since, consent, overtaken>>

-----------------------------------------------------------------------------
Delinquent == {"past_due", "grace_period", "suspended", "deletion_scheduled"}
Status == {"none", "active", "terminated"} \cup Delinquent
Moment == 0..MaxTime
MomentOrNull == Moment \cup {None}

Open == {"pending_first_approval", "pending_second_approval", "approved"}
RequestStatus == {"none", "cancelled"} \cup Open
RequestRow == [status : RequestStatus, first : Admin \cup {None}, second : Admin \cup {None}]

Idle == [op |-> "idle", status |-> "none", failed |-> None, at |-> 0, rows |-> {},
         found |-> FALSE, by |-> None, searched |-> FALSE, stale |-> FALSE, behind |-> FALSE]

\* Rows with a version column: the requests and the contract.
TheContract == None
Row == Deletion \cup {TheContract}

SessionState ==
    [op : {"idle", "fail", "advance", "recover", "cancel", "approve"}, status : Status,
     failed : MomentOrNull, at : Moment, rows : SUBSET Row, found : BOOLEAN,
     by : Admin \cup {None}, searched : BOOLEAN, stale : BOOLEAN, behind : BOOLEAN]

TypeOK ==
    /\ now \in Moment
    /\ contract \in [status : Status, failed : MomentOrNull]
    /\ retries \in 0..MaxRetry
    /\ deletion \in [Deletion -> RequestRow]
    /\ session \in [Session -> SessionState]
    /\ since \in MomentOrNull
    /\ consent \in [Deletion -> SUBSET Admin]
    /\ overtaken \subseteq Deletion

OpenRequests == {d \in Deletion : deletion[d].status \in Open}

-----------------------------------------------------------------------------
(* Sessions. *)

\* The session loads the contract.
Load(s, op) ==
    /\ session[s].op = "idle"
    /\ session' = [session EXCEPT ![s] =
         [Idle EXCEPT !.op = op, !.status = contract.status, !.failed = contract.failed,
                      !.at = now, !.rows = {TheContract}]]
    /\ UNCHANGED <<now, contract, retries, deletion, since, consent, overtaken>>

\* Mutant of Fresh: the models without version_id_col.
FreshUnversioned(s) == TRUE

\* UPDATE ... WHERE version = :loaded finds its rows.
Fresh(s) == ~session[s].stale

\* The session ends and has updated the rows; who has loaded one of them is stale.
Finish(s, updated, recovery) ==
    session' = [t \in Session |->
      IF t = s THEN Idle
      ELSE [session[t] EXCEPT !.stale = @ \/ session[t].rows \cap updated # {},
                              !.behind = @ \/ (recovery /\ session[t].op = "advance")]]

\* An error: the transaction rolls back.
Abort(s) ==
    /\ session[s].op # "idle"
    /\ Finish(s, {}, FALSE)
    /\ UNCHANGED <<now, contract, retries, deletion, since, consent, overtaken>>

-----------------------------------------------------------------------------
Init ==
    /\ now = 0
    /\ contract = [status |-> "none", failed |-> None]
    /\ retries = 0
    /\ deletion = [d \in Deletion |-> [status |-> "none", first |-> None, second |-> None]]
    /\ session = [s \in Session |-> Idle]
    /\ since = None
    /\ consent = [d \in Deletion |-> {}]
    /\ overtaken = {}

Tick ==
    /\ now < MaxTime
    /\ now' = now + 1
    /\ UNCHANGED <<contract, retries, deletion, session, since, consent, overtaken>>

\* create_maintenance_contract: uq_maintenance_contracts_contract admits one row.
Create ==
    /\ contract.status = "none"
    /\ contract' = [contract EXCEPT !.status = "active"]
    /\ UNCHANGED <<now, retries, deletion, session, since, consent, overtaken>>

\* mark_maintenance_payment_failed; the age counts from the first failure.
BeginFail(s) == contract.status \in {"active", "past_due"} /\ Load(s, "fail")

\* A contract that is past due already is not written.
WriteFail(s) ==
    LET q == session[s]
        changed == q.status = "active" \/ q.failed = None
    IN  /\ q.op = "fail"
        /\ IF changed
           THEN /\ Fresh(s)
                /\ contract' = [status |-> "past_due", failed |-> IF q.failed = None THEN q.at ELSE q.failed]
                /\ since' = IF since = None THEN q.at ELSE since
           ELSE UNCHANGED <<contract, since>>
        /\ Finish(s, IF changed THEN {TheContract} ELSE {}, FALSE)
        /\ UNCHANGED <<now, retries, deletion, consent, overtaken>>

-----------------------------------------------------------------------------
(* advance_maintenance_delinquency, by MaintenanceHandler. *)

BeginAdvance(s) ==
    /\ contract.failed # None
    /\ contract.status \in Delinquent
    /\ Load(s, "advance")

Age(s) == session[s].at - session[s].failed

Target(age) == CASE age >= Day90 -> "deletion_scheduled"
                 [] age >= Day60 /\ age < Day90 -> "suspended"
                 [] age >= Day30 /\ age < Day60 -> "grace_period"
                 [] OTHER -> "past_due"

Order == [status \in Delinquent |->
            CASE status = "past_due" -> 1 [] status = "grace_period" -> 2
              [] status = "suspended" -> 3 [] OTHER -> 4]

\* The status the session's contract has after the transition: it only moves up.
Aged(s) == LET target == Target(Age(s)) IN
           IF Order[target] > Order[session[s].status] THEN target ELSE session[s].status

RetryDue(s) == Day7 <= Age(s) /\ Age(s) < Day30

\* Before Day30 the search is for a retry event, from Day90 on for an open request.
Search(s) ==
    /\ session[s].op = "advance"
    /\ ~session[s].searched
    /\ session' = [session EXCEPT ![s].searched = TRUE,
         ![s].found = \/ RetryDue(s) /\ retries > 0
                      \/ Aged(s) = "deletion_scheduled" /\ OpenRequests # {}]
    /\ UNCHANGED <<now, contract, retries, deletion, since, consent, overtaken>>

Escalates(s) == Aged(s) # session[s].status
Schedules(s) == Aged(s) = "deletion_scheduled" /\ ~session[s].found

InsertRequest(s) ==
    IF Schedules(s)
    THEN \E d \in Deletion :
           /\ deletion[d].status = "none"
           /\ deletion' = [deletion EXCEPT ![d].status = "pending_first_approval"]
           /\ overtaken' = IF session[s].behind THEN overtaken \cup {d} ELSE overtaken
    ELSE UNCHANGED <<deletion, overtaken>>

\* Without an escalation the contract is not written and its version is not compared.
WriteAdvance(s) ==
    /\ session[s].op = "advance"
    /\ session[s].searched
    /\ IF Escalates(s)
       THEN Fresh(s) /\ contract' = [contract EXCEPT !.status = Aged(s)]
       ELSE UNCHANGED contract
    /\ IF RetryDue(s) /\ ~session[s].found
       THEN retries < MaxRetry /\ retries' = retries + 1
       ELSE UNCHANGED retries
    /\ InsertRequest(s)
    /\ Finish(s, IF Escalates(s) THEN {TheContract} ELSE {}, FALSE)
    /\ UNCHANGED <<now, since, consent>>

-----------------------------------------------------------------------------
(* Recovery and cancellation. *)

BeginRecover(s) == contract.status \in Delinquent /\ Load(s, "recover")

\* Mutant of Cancellable: an approved request is left to its executor.
CancellablePending == {"pending_first_approval", "pending_second_approval"}

Cancellable == Open

SearchRequests(s) ==
    /\ session[s].op = "recover"
    /\ ~session[s].searched
    /\ session' = [session EXCEPT ![s].searched = TRUE,
         ![s].rows = @ \cup {d \in Deletion : deletion[d].status \in Cancellable}]
    /\ UNCHANGED <<now, contract, retries, deletion, since, consent, overtaken>>

\* Mutant of Recovered: the start of the grace period is kept.
RecoveredKeepingClock(row) == [row EXCEPT !.status = "active"]

\* Mutant of Recovered: a status that ck_maintenance_contracts_status does not know.
RecoveredAsRestored(row) == [status |-> "restored", failed |-> None]

Recovered(row) == [status |-> "active", failed |-> None]

WriteRecover(s) ==
    LET rows == session[s].rows IN
    /\ session[s].op = "recover"
    /\ session[s].searched
    /\ Fresh(s)
    /\ contract' = Recovered(contract)
    /\ deletion' = [d \in Deletion |-> IF d \in rows THEN [deletion[d] EXCEPT !.status = "cancelled"]
                                                     ELSE deletion[d]]
    /\ since' = None
    /\ Finish(s, rows, TRUE)
    /\ UNCHANGED <<now, retries, consent, overtaken>>

\* cancel_maintenance_contract leaves the requests alone.
BeginCancel(s) == contract.status \notin {"none", "terminated"} /\ Load(s, "cancel")

WriteCancel(s) ==
    /\ session[s].op = "cancel"
    /\ Fresh(s)
    /\ contract' = [contract EXCEPT !.status = "terminated"]
    /\ Finish(s, {TheContract}, FALSE)
    /\ UNCHANGED <<now, retries, deletion, since, consent, overtaken>>

-----------------------------------------------------------------------------
(* approve_deletion_request looks at the request only. *)

\* Mutant of Entitled: the second approver may be the first.
EntitledAnyone(a, row) == row.status \in {"pending_first_approval", "pending_second_approval"}

Entitled(a, row) ==
    \/ row.status = "pending_first_approval"
    \/ row.status = "pending_second_approval" /\ row.first # a

BeginApprove(s, d, a) ==
    /\ session[s].op = "idle"
    /\ Entitled(a, deletion[d])
    /\ session' = [session EXCEPT ![s] =
         [Idle EXCEPT !.op = "approve", !.rows = {d}, !.by = a,
                      !.found = deletion[d].status = "pending_second_approval"]]
    /\ UNCHANGED <<now, contract, retries, deletion, since, consent, overtaken>>

WriteApprove(s, d) ==
    LET a == session[s].by IN
    /\ session[s].op = "approve"
    /\ d \in session[s].rows
    /\ Fresh(s)
    /\ deletion' = [deletion EXCEPT ![d] =
         IF session[s].found THEN [@ EXCEPT !.status = "approved", !.second = a]
         ELSE [@ EXCEPT !.status = "pending_second_approval", !.first = a]]
    /\ consent' = [consent EXCEPT ![d] = @ \cup {a}]
    /\ Finish(s, {d}, FALSE)
    /\ UNCHANGED <<now, contract, retries, since, overtaken>>

-----------------------------------------------------------------------------
Next ==
    \/ Tick
    \/ Create
    \/ \E s \in Session :
         \/ BeginFail(s)
         \/ WriteFail(s)
         \/ BeginAdvance(s)
         \/ Search(s)
         \/ WriteAdvance(s)
         \/ BeginRecover(s)
         \/ SearchRequests(s)
         \/ WriteRecover(s)
         \/ BeginCancel(s)
         \/ WriteCancel(s)
         \/ \E d \in Deletion, a \in Admin : BeginApprove(s, d, a)
         \/ \E d \in Deletion : WriteApprove(s, d)
         \/ Abort(s)

Spec == Init /\ [][Next]_vars

-----------------------------------------------------------------------------
(* Properties. *)

\* A contract is suspended, or its resources are scheduled for deletion, only when the
\* first payment failure since the last recovery is that many days ago: neither an earlier
\* delinquency nor a job that started before the recovery shortens the period.
PeriodsAreGranted ==
    /\ contract.status = "grace_period" => now - since >= Day30
    /\ contract.status = "suspended" => now - since >= Day60
    /\ contract.status = "deletion_scheduled" => now - since >= Day90

\* A request is open only for a contract that is scheduled for deletion, or that was
\* cancelled, unless an ageing job that had loaded the contract before a recovery
\* inserted it after that recovery.
OpenNeedsSchedule ==
    \A d \in OpenRequests : \/ contract.status \in {"deletion_scheduled", "terminated"}
                            \/ d \in overtaken

\* Of the approvals that succeed each is recorded, also when two administrators approve
\* at the same moment, and an approved request has two different approvers.
ApprovalsAreKept ==
    \A d \in Deletion :
        /\ consent[d] = {deletion[d].first, deletion[d].second} \ {None}
        /\ deletion[d].status = "approved" => \E a, b \in consent[d] : a # b

\* An approval that was under way when the payment was recovered does not revive the
\* request.
CancelledIsFinal ==
    [][\A d \in Deletion : deletion[d].status = "cancelled" => deletion'[d] = deletion[d]]_vars
=============================================================================
