----------------------------- MODULE DeploymentGate -----------------------------
(***************************************************************************)
(* From a staging deployment plan of one project to its (fake) apply:      *)
(* plans and their security gate (app/services/deployment.py), protected   *)
(* approvals (approvals.py), execution records (terraform_executor.py) and *)
(* the fake executor (fake_terraform_apply.py).                            *)
(*                                                                         *)
(* None of these rows has a version column.  A request loads its rows and  *)
(* writes, at its commit, the columns whose value differs from the loaded  *)
(* one, whatever the row has become meanwhile.  The fake executor takes a  *)
(* row lock, but the row it decides by was loaded before: SELECT ... FOR   *)
(* UPDATE does not refresh an object its session already holds.            *)
(*                                                                         *)
(* Checks that compare immutable data with the caller's context (digests,  *)
(* account, region, root, state, environment, the gate recomputed from the *)
(* document, permissions) may pass or fail: their result is an input.      *)
(***************************************************************************)
EXTENDS Integers, FiniteSets

CONSTANTS
    MaxCheck,   \* bound on the security checks
    MaxPlan,    \* bound on the plans created; plans are numbered by created_at
    Approval,   \* protected approvals of the plans
    Execution,  \* deployment executions
    Request,    \* requests being served at the same time
    None        \* no approval, no execution

ASSUME BoundsAssumption == MaxPlan \in Nat /\ MaxCheck \in Nat
ASSUME NoneAssumption == None \notin Approval \cup Execution

VARIABLES
    plan,       \* DeploymentPlan: status, gate, approval_id, superseded_by_id set
    approval,   \* ProtectedApproval: status, resource_id, approved by its requester
    execution,  \* DeploymentExecution: status, plan, approval
    checked,    \* security checks so far
    created,    \* plans whose transaction has begun
    granted,    \* history: the approvals ever approved, and if by their requester
    req         \* the requests in flight

vars == <<plan, approval, execution, checked, created, granted, req>>

-----------------------------------------------------------------------------
Plan == 1..MaxPlan
Superseding == {"created", "security_checked", "approval_requested", "approved"}
Active == {"requested", "prepared"}       \* of the four, what is ever committed
Applied == {"executed", "failed"}

PlanRow == [status : Superseding \cup {"none", "superseded"},
            gate : {"open", "blocked"},
            approval : Approval \cup {None}, replaced : BOOLEAN]
ApprovalRow == [status : {"none", "requested", "approved", "rejected"},
                plan : Plan \cup {0}, own : BOOLEAN]
ExecutionRow == [status : {"none", "blocked"} \cup Active \cup Applied,
                 plan : Plan \cup {0}, approval : Approval \cup {None}]

NoPlan == [status |-> "none", gate |-> "open", approval |-> None, replaced |-> FALSE]
NoApproval == [status |-> "none", plan |-> 0, own |-> FALSE]
NoExecution == [status |-> "none", plan |-> 0, approval |-> None]

\* A request: its input, the status it will write, and whether the row had that status
\* already when it was loaded.
Idle == [op |-> "idle", p |-> 0, a |-> None, e |-> None, own |-> FALSE,
         want |-> "none", same |-> FALSE, olds |-> {}]

RequestState ==
    [op : {"idle", "create", "insert", "check", "ask", "approved", "rejected", "order", "prepare",
           "execute", "apply"},
     p : Plan \cup {0}, a : Approval \cup {None}, e : Execution \cup {None},
     own : BOOLEAN, want : {"none", "blocked"} \cup Superseding \cup Active \cup Applied,
     same : BOOLEAN, olds : SUBSET Plan]

TypeOK ==
    /\ plan \in [Plan -> PlanRow]
    /\ approval \in [Approval -> ApprovalRow]
    /\ execution \in [Execution -> ExecutionRow]
    /\ checked \in 0..MaxCheck
    /\ created \in 0..MaxPlan
    /\ granted \subseteq Approval \X BOOLEAN
    /\ req \in [Request -> RequestState]

\* UPDATE writes a column only if the request has changed it.
Put(r, now) == IF req[r].same THEN now ELSE req[r].want

Begin(r, request) == req[r].op = "idle" /\ req' = [req EXCEPT ![r] = request]

\* Begins a request that is to change a status from "was" to "want".
BeginChange(r, request, was, want) ==
    Begin(r, [request EXCEPT !.want = want, !.same = (want = was)])

End(r) == req' = [req EXCEPT ![r] = Idle]

Init ==
    /\ plan = [p \in Plan |-> NoPlan]
    /\ approval = [a \in Approval |-> NoApproval]
    /\ execution = [e \in Execution |-> NoExecution]
    /\ checked = 0
    /\ created = 0
    /\ granted = {}
    /\ req = [r \in Request |-> Idle]

\* An error, a denied permission, a violated index or a crash: nothing is committed.
Abort(r) ==
    /\ req[r].op # "idle"
    /\ End(r)
    /\ UNCHANGED <<plan, approval, execution, checked, created, granted>>

-----------------------------------------------------------------------------
(* Plans. *)

\* created_at is the start of the transaction.
BeginCreatePlan(r) ==
    /\ created < MaxPlan
    /\ created' = created + 1
    /\ Begin(r, [Idle EXCEPT !.op = "create", !.p = created + 1])
    /\ UNCHANGED <<plan, approval, execution, checked, granted>>

\* The artifact is stored, then the plans to supersede are loaded.
LoadLatest(r) ==
    /\ req[r].op = "create"
    /\ req' = [req EXCEPT ![r].op = "insert",
                          ![r].olds = {q \in Plan : plan[q].status \in Superseding}]
    /\ UNCHANGED <<plan, approval, execution, checked, created, granted>>

InsertPlan(r) ==
    /\ req[r].op = "insert"
    /\ plan' = [q \in Plan |->
                  IF q = req[r].p THEN [NoPlan EXCEPT !.status = "created"]
                  ELSE IF q \in req[r].olds
                       THEN [plan[q] EXCEPT !.status = "superseded", !.replaced = TRUE]
                       ELSE plan[q]]
    /\ End(r)
    /\ UNCHANGED <<approval, execution, checked, created, granted>>

\* security_check_plan asks for no status: not even "superseded" is in its way.
BeginSecurityCheck(r, p) ==
    /\ plan[p].status # "none"
    /\ BeginChange(r, [Idle EXCEPT !.op = "check", !.p = p],
                   plan[p].status, "security_checked")
    /\ checked < MaxCheck
    /\ checked' = checked + 1
    /\ UNCHANGED <<plan, approval, execution, created, granted>>

\* "not_checked", "pass" and "review_required" are told apart by no write: all "open".
WriteSecurityCheck(r, gate) ==
    LET p == req[r].p
    IN /\ req[r].op = "check"
       /\ plan' = [plan EXCEPT ![p].gate = gate, ![p].status = Put(r, @)]
       /\ End(r)
       /\ UNCHANGED <<approval, execution, checked, created, granted>>

-----------------------------------------------------------------------------
(* Approvals. *)

BeginAskApproval(r, p) ==
    /\ plan[p].status # "none"
    /\ plan[p].gate # "blocked"
    /\ BeginChange(r, [Idle EXCEPT !.op = "ask", !.p = p],
                   plan[p].status, "approval_requested")
    /\ UNCHANGED <<plan, approval, execution, checked, created, granted>>

\* request_staging_approval: a new approval, to which the plan is rebound.
WriteAskApproval(r, a) ==
    LET p == req[r].p
    IN /\ req[r].op = "ask"
       /\ approval[a] = NoApproval
       /\ approval' = [approval EXCEPT ![a] =
             [status |-> "requested", plan |-> p, own |-> FALSE]]
       /\ plan' = [plan EXCEPT ![p].approval = a, ![p].status = Put(r, @)]
       /\ End(r)
       /\ UNCHANGED <<execution, checked, created, granted>>

\* Mutant of Decided: a status that ck_deployment_plans_status does not know.
DecidedVerbatim(verdict) == verdict

\* A rejection takes the plan back to its beginning.
Decided(verdict) == IF verdict = "approved" THEN "approved" ELSE "created"

\* decide_approval; the plan is written only if the approval is the plan's own.  The
\* decider may be the requester ("own"), which matters to approvals only.
BeginDecide(r, a, own, verdict) ==
    /\ approval[a].status = "requested"
    /\ verdict = "approved" => ~own
    /\ LET p == approval[a].plan
       IN BeginChange(r, [Idle EXCEPT !.op = verdict, !.a = a,
                                      !.own = own /\ verdict = "approved",
                                      !.p = IF plan[p].approval = a THEN p ELSE 0],
                      plan[p].status, Decided(verdict))
    /\ UNCHANGED <<plan, approval, execution, checked, created, granted>>

WriteDecide(r) ==
    LET p == req[r].p
        a == req[r].a
        verdict == req[r].op
    IN /\ verdict \in {"approved", "rejected"}
       /\ approval' = [approval EXCEPT ![a].status = verdict, ![a].own = req[r].own]
       /\ plan' = IF p = 0 THEN plan
                  ELSE [plan EXCEPT ![p].status = Put(r, @)]
       /\ granted' = IF verdict = "approved" THEN granted \cup {<<a, req[r].own>>} ELSE granted
       /\ End(r)
       /\ UNCHANGED <<execution, checked, created>>

-----------------------------------------------------------------------------
(* Executions. *)

Locked(e) == \E r \in Request : req[r].op = "apply" /\ req[r].e = e

\* uq_deployment_executions_active_project_environment
ActiveIndex(e, status) ==
    status \in Active => \A f \in Execution \ {e} : execution[f].status \notin Active

\* SafeStagingTerraformExecutor.request; an active execution of the project, of
\* whatever plan, is returned instead.
BeginOrder(r, p) ==
    /\ plan[p].approval # None
    /\ \A e \in Execution : execution[e].status \notin Active
    /\ Begin(r, [Idle EXCEPT !.op = "order", !.p = p, !.a = plan[p].approval])
    /\ UNCHANGED <<plan, approval, execution, checked, created, granted>>

InsertExecution(r, e) ==
    /\ req[r].op = "order"
    /\ execution[e] = NoExecution
    /\ ActiveIndex(e, "requested")
    /\ execution' = [execution EXCEPT ![e] =
          [status |-> "requested", plan |-> req[r].p, approval |-> req[r].a]]
    /\ End(r)
    /\ UNCHANGED <<plan, approval, checked, created, granted>>

\* Mutant of Current: without the search for a newer active plan.
CurrentByFlag(p) == ~plan[p].replaced /\ plan[p].status # "superseded"

\* A plan that is not superseded, and older than no other that could be deployed.
Current(p) ==
    /\ ~plan[p].replaced
    /\ plan[p].status # "superseded"
    /\ \A q \in Plan : q > p => plan[q].status \notin Superseding

\* Mutant of Granted: any approval that is not rejected will do.
GrantedUnlessRejected(a) == approval[a].status # "rejected"

Granted(a) ==
    /\ approval[a].status = "approved"
    /\ ~approval[a].own

\* The checks of SafeStagingTerraformExecutor.authorize that depend on other rows.
Authorized(p, a) == approval[a].plan = p /\ Granted(a) /\ Current(p)

\* prepare accepts a "blocked" or "failed" execution as it does a new one.
BeginPrepare(r, e, checks) ==
    /\ execution[e].status \notin {"none", "prepared", "executed"}
    /\ BeginChange(r, [Idle EXCEPT !.op = "prepare", !.e = e], execution[e].status,
                   IF checks /\ Authorized(execution[e].plan, execution[e].approval)
                   THEN "prepared" ELSE "blocked")
    /\ UNCHANGED <<plan, approval, execution, checked, created, granted>>

WritePrepare(r) ==
    LET e == req[r].e
        status == Put(r, execution[e].status)
    IN /\ req[r].op = "prepare"
       /\ ~Locked(e)
       /\ ActiveIndex(e, status)
       /\ execution' = [execution EXCEPT ![e].status = status]
       /\ End(r)
       /\ UNCHANGED <<plan, approval, checked, created, granted>>

\* The caller of FakeTerraformApplyExecutor.execute loads the execution.  A terminal
\* one is returned as it is.
BeginExecute(r, e) ==
    /\ execution[e].status \in Active
    /\ Begin(r, [Idle EXCEPT !.op = "execute", !.e = e, !.want = execution[e].status])
    /\ UNCHANGED <<plan, approval, execution, checked, created, granted>>

\* With the row locked everything is checked again, except the execution's own status.
LockAndApply(r, outcome) ==
    LET e == req[r].e
    IN /\ req[r].op = "execute"
       /\ ~Locked(e)
       /\ outcome \in Applied =>
             /\ req[r].want = "prepared"
             /\ Authorized(execution[e].plan, execution[e].approval)
       /\ req' = [req EXCEPT ![r].op = "apply", ![r].want = outcome]
       /\ UNCHANGED <<plan, approval, execution, checked, created, granted>>

CommitApply(r) ==
    /\ req[r].op = "apply"
    /\ execution' = [execution EXCEPT ![req[r].e].status = req[r].want]
    /\ End(r)
    /\ UNCHANGED <<plan, approval, checked, created, granted>>

-----------------------------------------------------------------------------
Next ==
    \E r \in Request :
       \/ BeginCreatePlan(r)
       \/ LoadLatest(r)
       \/ InsertPlan(r)
       \/ \E p \in Plan : BeginSecurityCheck(r, p) \/ BeginOrder(r, p)
       \/ \E gate \in {"open", "blocked"} : WriteSecurityCheck(r, gate)
       \/ \E p \in Plan : BeginAskApproval(r, p)
       \/ \E a \in Approval : WriteAskApproval(r, a)
       \/ \E a \in Approval, own \in BOOLEAN, v \in {"approved", "rejected"} :
             BeginDecide(r, a, own, v)
       \/ WriteDecide(r)
       \/ \E e \in Execution : InsertExecution(r, e)
       \/ \E e \in Execution, checks \in BOOLEAN : BeginPrepare(r, e, checks)
       \/ WritePrepare(r)
       \/ \E e \in Execution : BeginExecute(r, e)
       \/ \E outcome \in Applied \cup {"blocked"} : LockAndApply(r, outcome)
       \/ CommitApply(r)
       \/ Abort(r)

Spec == Init /\ [][Next]_vars

-----------------------------------------------------------------------------
(* Properties. *)

\* Four eyes, whatever decisions race: what has been prepared or applied was approved,
\* for that very plan, by somebody other than the requester of the approval.
TwoPeople ==
    \A e \in Execution : execution[e].status \in {"prepared"} \cup Applied =>
        LET a == execution[e].approval
        IN /\ approval[a].plan = execution[e].plan
           /\ <<a, FALSE>> \in granted

\* However plans are created concurrently, superseded, checked again and approved
\* again, the executor accepts at most one plan of the project at a time.
OneDeployablePlan ==
    \A a, b \in Approval :
        Authorized(approval[a].plan, a) /\ Authorized(approval[b].plan, b)
            => approval[a].plan = approval[b].plan

\* "two sessions attempting the same execution therefore produce one result, never two
\* fake applies" (docs/saved_plan_execution_boundary.md): no apply of an execution
\* starts when one is already recorded.
NeverAppliedTwice ==
    [][\A r \in Request :
         req[r].op = "execute" /\ req'[r].op = "apply" /\ req'[r].want \in Applied
            => execution[req[r].e].status \notin Applied]_vars
=============================================================================
