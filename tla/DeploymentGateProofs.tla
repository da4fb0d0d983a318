-------------------------- MODULE DeploymentGateProofs --------------------------
(***************************************************************************)
(* Proofs about DeploymentGate for all numbers of plans and checks and all *)
(* sets of approvals, executions and concurrent requests.                  *)
(*                                                                         *)
(* No row here has a version column, so statuses may be overwritten.  What *)
(* the argument rests on is what no step changes: the plan of an approval, *)
(* plan and approval of an execution, and that an approval was granted.    *)
(***************************************************************************)
EXTENDS DeploymentGate, TLAPS

-----------------------------------------------------------------------------
(* The invariant. *)

\* The execution's approval was granted for its plan, by somebody else.
Backed(e) ==
    /\ execution[e].approval \in Approval
    /\ approval[execution[e].approval].plan = execution[e].plan
    /\ <<execution[e].approval, FALSE>> \in granted

ApprovalsBacked ==
    \A a \in Approval :
      /\ approval[a].status # "none" =>
           approval[a].plan \in Plan /\ plan[approval[a].plan].status # "none"
      /\ approval[a].status = "approved" => <<a, FALSE>> \in granted
      /\ <<a, FALSE>> \in granted => approval[a].status # "none"

ExecutionsBacked ==
    \A e \in Execution :
      /\ execution[e].status # "none" => execution[e].approval \in Approval
      /\ execution[e].status \in {"prepared"} \cup Applied => Backed(e)

\* What each request has made sure of and no other one can undo.
Sure(q) ==
    /\ q.op \in {"check", "ask"} => q.p \in Plan /\ plan[q.p].status # "none"
    /\ q.op \in {"check", "ask", "approved", "rejected"} => q.want \in Superseding
    /\ q.op \in {"approved", "rejected"} =>
         /\ q.a \in Approval /\ approval[q.a].status # "none"
         /\ q.own = FALSE
         /\ q.p # 0 => plan[q.p].status # "none"
    /\ q.op \in {"create", "insert", "order"} => q.p \in Plan
    /\ q.op = "order" => q.a \in Approval
    /\ q.op \in {"prepare", "execute", "apply"} =>
         q.e \in Execution /\ execution[q.e].status # "none"
    /\ q.op = "prepare" => q.want \in {"prepared", "blocked"}
    /\ q.op = "apply" => q.want \in Applied \cup {"blocked"}
    /\ q.op \in {"prepare", "apply"} /\ q.want \in {"prepared"} \cup Applied => Backed(q.e)

GateInv ==
    /\ TypeOK
    /\ ApprovalsBacked
    /\ ExecutionsBacked
    /\ \A r \in Request : Sure(req[r])

-----------------------------------------------------------------------------
LEMMA IdleSure == Idle \in RequestState /\ Sure(Idle) /\ Sure(Idle)'
  BY DEF Idle, RequestState, Sure

LEMMA InitInv == Init => GateInv
  <1> SUFFICES ASSUME Init PROVE GateInv
    OBVIOUS
  <1>1. TypeOK
    BY IdleSure, BoundsAssumption
       DEF Init, TypeOK, NoPlan, NoApproval, NoExecution, PlanRow, ApprovalRow, ExecutionRow,
           BoundsAssumption
  <1>2. ApprovalsBacked /\ ExecutionsBacked
    BY DEF Init, ApprovalsBacked, ExecutionsBacked, NoApproval, NoExecution, Applied
  <1>3. \A r \in Request : Sure(req[r])
    BY IdleSure DEF Init
  <1> QED
    BY <1>1, <1>2, <1>3 DEF GateInv

-----------------------------------------------------------------------------
(* What no step undoes. *)

Grows ==
    /\ \A p \in Plan : plan[p].status # "none" => plan'[p].status # "none"
    /\ \A a \in Approval : approval[a].status # "none" =>
         approval'[a].plan = approval[a].plan /\ approval'[a].status # "none"
    /\ \A e \in Execution : execution[e].status # "none" =>
         /\ execution'[e].plan = execution[e].plan
         /\ execution'[e].approval = execution[e].approval
         /\ execution'[e].status # "none"
    /\ granted \subseteq granted'

LEMMA BackedStays ==
  ASSUME GateInv, Grows, NEW e \in Execution, execution[e].status # "none", Backed(e)
  PROVE  Backed(e)'
  BY DEF Backed, GateInv, ApprovalsBacked, Grows

LEMMA SureStays ==
  ASSUME GateInv, Grows, NEW q \in RequestState, Sure(q)
  PROVE  Sure(q)'
  <1>1. q.p \in Plan \cup {0}
    BY DEF RequestState
  <1>2. q.op \in {"check", "ask"} => q.p \in Plan /\ plan'[q.p].status # "none"
    BY DEF Sure, Grows
  <1>3. q.op \in {"approved", "rejected"} =>
          /\ q.a \in Approval /\ approval'[q.a].status # "none"
          /\ q.own = FALSE
          /\ q.p # 0 => plan'[q.p].status # "none"
    BY <1>1 DEF Sure, Grows
  <1>4. q.op \in {"prepare", "execute", "apply"} =>
          q.e \in Execution /\ execution'[q.e].status # "none"
    BY DEF Sure, Grows
  <1>5. q.op \in {"prepare", "apply"} /\ q.want \in {"prepared"} \cup Applied => Backed(q.e)'
    BY BackedStays DEF Sure
  <1> QED
    BY <1>2, <1>3, <1>4, <1>5 DEF Sure

\* A step of request r that changes its own entry.
LEMMA RequestStep ==
  ASSUME GateInv, Grows, NEW r \in Request, NEW q \in RequestState,
         req' = [req EXCEPT ![r] = q], Sure(q),
         plan' \in [Plan -> PlanRow], approval' \in [Approval -> ApprovalRow],
         execution' \in [Execution -> ExecutionRow], checked' \in 0..MaxCheck,
         created' \in 0..MaxPlan, granted' \subseteq Approval \X BOOLEAN,
         ApprovalsBacked', ExecutionsBacked'
  PROVE  GateInv'
  <1>1. req' \in [Request -> RequestState]
    BY DEF GateInv, TypeOK
  <1>2. \A t \in Request : \E x \in RequestState : req'[t] = x /\ Sure(x)
    BY DEF GateInv, TypeOK
  <1>3. \A t \in Request : Sure(req[t])'
    <2> TAKE t \in Request
    <2>1. PICK x \in RequestState : req'[t] = x /\ Sure(x)
      BY <1>2
    <2>2. Sure(x)'
      BY <2>1, SureStays
    <2> QED
      BY <2>1, <2>2 DEF Sure, Backed
  <1>4. TypeOK'
    BY <1>1 DEF TypeOK
  <1> QED
    BY <1>3, <1>4 DEF GateInv

-----------------------------------------------------------------------------
(* Steps that write no row. *)

LEMMA BeginStep ==
  ASSUME GateInv, NEW r \in Request, NEW q \in RequestState, Sure(q),
         req' = [req EXCEPT ![r] = q],
         UNCHANGED <<plan, approval, execution, granted>>,
         checked' \in 0..MaxCheck, created' \in 0..MaxPlan
  PROVE  GateInv'
  <1>1. Grows
    BY DEF Grows
  <1>2. ApprovalsBacked' /\ ExecutionsBacked'
    BY DEF GateInv, ApprovalsBacked, ExecutionsBacked, Backed
  <1> QED
    BY <1>1, <1>2, RequestStep DEF GateInv, TypeOK

LEMMA AbortStep ==
  ASSUME GateInv, NEW r \in Request, Abort(r)
  PROVE  GateInv'
  BY IdleSure, BeginStep DEF Abort, End, GateInv, TypeOK

LEMMA BeginCreateStep ==
  ASSUME GateInv, NEW r \in Request, BeginCreatePlan(r)
  PROVE  GateInv'
  <1> DEFINE q == [Idle EXCEPT !.op = "create", !.p = created + 1]
  <1>1. created \in Nat /\ created < MaxPlan /\ created + 1 \in Plan /\ created' \in 0..MaxPlan
    BY BoundsAssumption DEF BeginCreatePlan, GateInv, TypeOK, Plan, BoundsAssumption
  <1>2. q.op = "create" /\ q.p = created + 1 /\ q \in RequestState
    BY <1>1 DEF Idle, RequestState
  <1>3. req' = [req EXCEPT ![r] = q] /\ UNCHANGED <<plan, approval, execution, checked, granted>>
    BY DEF BeginCreatePlan, Begin
  <1> HIDE DEF q
  <1>4. Sure(q)
    BY <1>1, <1>2 DEF Sure
  <1> QED
    BY <1>1, <1>2, <1>3, <1>4, BeginStep DEF GateInv, TypeOK

LEMMA LoadLatestStep ==
  ASSUME GateInv, NEW r \in Request, LoadLatest(r)
  PROVE  GateInv'
  <1> DEFINE olds == {p \in Plan : plan[p].status \in Superseding}
             q == [req[r] EXCEPT !.op = "insert", !.olds = olds]
  <1>1. req[r] \in RequestState /\ req[r].op = "create" /\ Sure(req[r])
    BY DEF LoadLatest, GateInv, TypeOK
  <1>2. req' = [req EXCEPT ![r] = q] /\ UNCHANGED <<plan, approval, execution, checked, created, granted>>
    BY DEF LoadLatest, GateInv, TypeOK
  <1>3. olds \subseteq Plan
    OBVIOUS
  <1> HIDE DEF olds
  <1>4. q.op = "insert" /\ q.p = req[r].p /\ q \in RequestState
    BY <1>1, <1>3 DEF RequestState
  <1> HIDE DEF q
  <1>5. Sure(q)
    BY <1>1, <1>4 DEF Sure
  <1> QED
    BY <1>2, <1>4, <1>5, BeginStep DEF GateInv, TypeOK

LEMMA BeginCheckStep ==
  ASSUME GateInv, NEW r \in Request, NEW p \in Plan,
         BeginSecurityCheck(r, p) \/ BeginAskApproval(r, p)
  PROVE  GateInv'
  <1>1. plan[p].status # "none"
    BY DEF BeginSecurityCheck, BeginAskApproval
  <1>2. CASE BeginSecurityCheck(r, p)
    <2> DEFINE already == "security_checked" = plan[p].status
               q == [Idle EXCEPT !.op = "check", !.p = p, !.want = "security_checked",
                                 !.same = already]
    <2>1. req' = [req EXCEPT ![r] = q] /\ UNCHANGED <<plan, approval, execution, created, granted>>
      BY <1>2 DEF BeginSecurityCheck, BeginChange, Begin, Idle
    <2>2. checked' \in 0..MaxCheck
      BY <1>2, BoundsAssumption DEF BeginSecurityCheck, GateInv, TypeOK, BoundsAssumption
    <2>3. already \in BOOLEAN
      OBVIOUS
    <2> HIDE DEF already
    <2>4. q.op = "check" /\ q.p = p /\ q.want = "security_checked" /\ q \in RequestState
      BY <2>3 DEF Idle, RequestState, Superseding
    <2> HIDE DEF q
    <2>5. Sure(q)
      BY <1>1, <2>4 DEF Sure, Superseding
    <2> QED
      BY <2>1, <2>2, <2>4, <2>5, BeginStep DEF GateInv, TypeOK
  <1>3. CASE BeginAskApproval(r, p)
    <2> DEFINE already == "approval_requested" = plan[p].status
               q == [Idle EXCEPT !.op = "ask", !.p = p, !.want = "approval_requested",
                                 !.same = already]
    <2>1. req' = [req EXCEPT ![r] = q]
          /\ UNCHANGED <<plan, approval, execution, checked, created, granted>>
      BY <1>3 DEF BeginAskApproval, BeginChange, Begin, Idle
    <2>3. already \in BOOLEAN
      OBVIOUS
    <2> HIDE DEF already
    <2>4. q.op = "ask" /\ q.p = p /\ q.want = "approval_requested" /\ q \in RequestState
      BY <2>3 DEF Idle, RequestState, Superseding
    <2> HIDE DEF q
    <2>5. Sure(q)
      BY <1>1, <2>4 DEF Sure, Superseding
    <2> QED
      BY <2>1, <2>4, <2>5, BeginStep DEF GateInv, TypeOK
  <1> QED
    BY <1>2, <1>3

LEMMA BeginDecideStep ==
  ASSUME GateInv, NEW r \in Request, NEW a \in Approval, NEW own \in BOOLEAN,
         NEW v \in {"approved", "rejected"}, BeginDecide(r, a, own, v)
  PROVE  GateInv'
  <1> DEFINE x == approval[a].plan
             target == IF plan[x].approval = a THEN x ELSE 0
             self == own /\ v = "approved"
             already == Decided(v) = plan[x].status
             q == [Idle EXCEPT !.op = v, !.a = a, !.own = self, !.p = target,
                               !.want = Decided(v), !.same = already]
  <1>1. /\ approval[a].status # "none" /\ self = FALSE
        /\ req' = [req EXCEPT ![r] = q]
        /\ UNCHANGED <<plan, approval, execution, checked, created, granted>>
    BY DEF BeginDecide, BeginChange, Begin, Idle
  <1>2. x \in Plan /\ plan[x].status # "none"
    BY <1>1 DEF GateInv, ApprovalsBacked
  <1>3. target \in Plan \cup {0} /\ (target # 0 => plan[target].status # "none")
        /\ already \in BOOLEAN /\ Decided(v) \in Superseding
    BY <1>2 DEF Decided, Superseding
  <1> HIDE DEF target, self, already
  <1>4. /\ q.op = v /\ q.a = a /\ q.own = FALSE /\ q.p = target /\ q.want = Decided(v)
        /\ q \in RequestState
    BY <1>1, <1>3 DEF Idle, RequestState
  <1> HIDE DEF q
  <1>5. Sure(q)
    BY <1>1, <1>3, <1>4 DEF Sure
  <1> QED
    BY <1>1, <1>4, <1>5, BeginStep DEF GateInv, TypeOK

LEMMA BeginOrderStep ==
  ASSUME GateInv, NEW r \in Request, NEW p \in Plan, BeginOrder(r, p)
  PROVE  GateInv'
  <1> DEFINE a == plan[p].approval
             q == [Idle EXCEPT !.op = "order", !.p = p, !.a = a]
  <1>1. /\ a # None /\ req' = [req EXCEPT ![r] = q]
        /\ UNCHANGED <<plan, approval, execution, checked, created, granted>>
    BY DEF BeginOrder, Begin
  <1>2. a \in Approval
    BY <1>1 DEF GateInv, TypeOK, PlanRow
  <1> HIDE DEF a
  <1>3. q.op = "order" /\ q.p = p /\ q.a = a /\ q \in RequestState
    BY <1>2 DEF Idle, RequestState
  <1> HIDE DEF q
  <1>4. Sure(q)
    BY <1>2, <1>3 DEF Sure
  <1> QED
    BY <1>1, <1>3, <1>4, BeginStep DEF GateInv, TypeOK

\* Authorization finds an approval that is granted, for ever.
LEMMA AuthorizedBacked ==
  ASSUME GateInv, NEW e \in Execution, execution[e].status # "none",
         Authorized(execution[e].plan, execution[e].approval)
  PROVE  Backed(e)
  BY DEF GateInv, ExecutionsBacked, ApprovalsBacked, Authorized, Granted, Backed

LEMMA BeginPrepareStep ==
  ASSUME GateInv, NEW r \in Request, NEW e \in Execution, NEW checks \in BOOLEAN,
         BeginPrepare(r, e, checks)
  PROVE  GateInv'
  <1> DEFINE ok == checks /\ Authorized(execution[e].plan, execution[e].approval)
             want == IF ok THEN "prepared" ELSE "blocked"
             already == want = execution[e].status
             q == [Idle EXCEPT !.op = "prepare", !.e = e, !.want = want, !.same = already]
  <1>1. /\ execution[e].status # "none"
        /\ req' = [req EXCEPT ![r] = q]
        /\ UNCHANGED <<plan, approval, execution, checked, created, granted>>
    BY DEF BeginPrepare, BeginChange, Begin, Idle
  <1>2. want = "prepared" => Backed(e)
    BY <1>1, AuthorizedBacked
  <1>3. want \in {"prepared", "blocked"} /\ already \in BOOLEAN
    OBVIOUS
  <1> HIDE DEF ok, want, already
  <1>4. /\ q.op = "prepare" /\ q.e = e /\ q.want = want /\ q \in RequestState
    BY <1>3 DEF Idle, RequestState, Active
  <1> HIDE DEF q
  <1>5. Sure(q)
    BY <1>1, <1>2, <1>3, <1>4 DEF Sure, Applied
  <1> QED
    BY <1>1, <1>4, <1>5, BeginStep DEF GateInv, TypeOK

LEMMA BeginExecuteStep ==
  ASSUME GateInv, NEW r \in Request, NEW e \in Execution, BeginExecute(r, e)
  PROVE  GateInv'
  <1> DEFINE status == execution[e].status
             q == [Idle EXCEPT !.op = "execute", !.e = e, !.want = status]
  <1>1. /\ status \in Active /\ req' = [req EXCEPT ![r] = q]
        /\ UNCHANGED <<plan, approval, execution, checked, created, granted>>
    BY DEF BeginExecute, Begin
  <1>2. status # "none"
    BY <1>1 DEF Active
  <1>3. q.op = "execute" /\ q.e = e /\ q \in RequestState
    BY <1>1 DEF Idle, RequestState
  <1>4. Sure(q)
    BY <1>2, <1>3 DEF Sure
  <1> QED
    BY <1>1, <1>3, <1>4, BeginStep DEF GateInv, TypeOK

LEMMA LockStep ==
  ASSUME GateInv, NEW r \in Request, NEW outcome \in Applied \cup {"blocked"},
         LockAndApply(r, outcome)
  PROVE  GateInv'
  <1> DEFINE e == req[r].e
             q == [req[r] EXCEPT !.op = "apply", !.want = outcome]
  <1>1. /\ req[r] \in RequestState /\ req[r].op = "execute" /\ Sure(req[r])
        /\ outcome \in Applied => Authorized(execution[e].plan, execution[e].approval)
        /\ UNCHANGED <<plan, approval, execution, checked, created, granted>>
    BY DEF LockAndApply, GateInv, TypeOK
  <1>2. req' = [req EXCEPT ![r] = q]
    BY DEF LockAndApply, GateInv, TypeOK
  <1>3. e \in Execution /\ execution[e].status # "none"
    BY <1>1 DEF Sure
  <1>4. outcome \in Applied => Backed(e)
    BY <1>1, <1>3, AuthorizedBacked
  <1>5. q.op = "apply" /\ q.want = outcome /\ q.e = e /\ q \in RequestState
    BY <1>1 DEF RequestState
  <1> HIDE DEF q
  <1>6. Sure(q)
    BY <1>3, <1>4, <1>5 DEF Sure, Applied
  <1> QED
    BY <1>1, <1>2, <1>5, <1>6, BeginStep DEF GateInv, TypeOK

-----------------------------------------------------------------------------
(* Steps that write rows. *)

\* One that writes plans only, and takes none of them back to nothing.
LEMMA PlanStep ==
  ASSUME GateInv, NEW r \in Request, req' = [req EXCEPT ![r] = Idle],
         UNCHANGED <<approval, execution, checked, created, granted>>,
         plan' \in [Plan -> PlanRow],
         \A p \in Plan : plan[p].status # "none" => plan'[p].status # "none"
  PROVE  GateInv'
  <1>1. Grows
    BY DEF Grows
  <1>2. ApprovalsBacked' /\ ExecutionsBacked'
    BY DEF GateInv, ApprovalsBacked, ExecutionsBacked, Backed
  <1> QED
    BY <1>1, <1>2, IdleSure, RequestStep DEF GateInv, TypeOK

LEMMA InsertPlanStep ==
  ASSUME GateInv, NEW r \in Request, InsertPlan(r)
  PROVE  GateInv'
  <1> DEFINE new(q) == IF q = req[r].p THEN [NoPlan EXCEPT !.status = "created"]
                       ELSE IF q \in req[r].olds
                            THEN [plan[q] EXCEPT !.status = "superseded", !.replaced = TRUE]
                            ELSE plan[q]
  <1>1. /\ plan' = [q \in Plan |-> new(q)] /\ req' = [req EXCEPT ![r] = Idle]
        /\ UNCHANGED <<approval, execution, checked, created, granted>>
    BY DEF InsertPlan, End
  <1>2. \A q \in Plan : new(q) \in PlanRow /\ (plan[q].status # "none" => new(q).status # "none")
    BY DEF GateInv, TypeOK, PlanRow, NoPlan, Superseding
  <1> HIDE DEF new
  <1> QED
    BY <1>1, <1>2, PlanStep

LEMMA SecurityCheckStep ==
  ASSUME GateInv, NEW r \in Request, NEW gate \in {"open", "blocked"},
         WriteSecurityCheck(r, gate)
  PROVE  GateInv'
  <1> DEFINE p == req[r].p
             status == Put(r, plan[p].status)
             row == [plan[p] EXCEPT !.gate = gate, !.status = status]
  <1>1. /\ req[r].op = "check" /\ Sure(req[r]) /\ req' = [req EXCEPT ![r] = Idle]
        /\ UNCHANGED <<approval, execution, checked, created, granted>>
    BY DEF WriteSecurityCheck, End, GateInv
  <1>2. p \in Plan /\ plan[p].status # "none" /\ req[r].want \in Superseding
    BY <1>1 DEF Sure
  <1>3. plan[p] \in PlanRow
    BY <1>2 DEF GateInv, TypeOK
  <1>4. plan' = [plan EXCEPT ![p] = row]
    BY <1>2, <1>3 DEF WriteSecurityCheck, GateInv, TypeOK, PlanRow
  <1>5. status # "none" /\ status \in Superseding \cup {"none", "superseded"}
    BY <1>2, <1>3 DEF Put, PlanRow, Superseding
  <1> HIDE DEF status
  <1>6. row \in PlanRow /\ row.status # "none"
    BY <1>3, <1>5 DEF PlanRow
  <1> HIDE DEF row, p
  <1>7. plan' \in [Plan -> PlanRow]
        /\ \A q \in Plan : plan[q].status # "none" => plan'[q].status # "none"
    BY <1>2, <1>4, <1>6 DEF GateInv, TypeOK
  <1> QED
    BY <1>1, <1>7, PlanStep

LEMMA AskApprovalStep ==
  ASSUME GateInv, NEW r \in Request, NEW a \in Approval, WriteAskApproval(r, a)
  PROVE  GateInv'
  <1> DEFINE p == req[r].p
             status == Put(r, plan[p].status)
             row == [plan[p] EXCEPT !.approval = a, !.status = status]
             ask == [status |-> "requested", plan |-> p, own |-> FALSE]
  <1>1. /\ req[r].op = "ask" /\ Sure(req[r]) /\ req' = [req EXCEPT ![r] = Idle]
        /\ approval[a] = NoApproval /\ approval' = [approval EXCEPT ![a] = ask]
        /\ UNCHANGED <<execution, checked, created, granted>>
    BY DEF WriteAskApproval, End, GateInv
  <1>2. p \in Plan /\ plan[p].status # "none" /\ req[r].want \in Superseding
    BY <1>1 DEF Sure
  <1>3. plan[p] \in PlanRow
    BY <1>2 DEF GateInv, TypeOK
  <1>4. plan' = [plan EXCEPT ![p] = row]
    BY <1>2, <1>3 DEF WriteAskApproval, GateInv, TypeOK, PlanRow
  <1>5. status # "none" /\ status \in Superseding \cup {"none", "superseded"}
    BY <1>2, <1>3 DEF Put, PlanRow, Superseding
  <1> HIDE DEF status
  <1>6. row \in PlanRow /\ row.status # "none"
    BY <1>3, <1>5 DEF PlanRow
  <1>7. ask \in ApprovalRow /\ ask.status = "requested" /\ ask.plan = p
    BY <1>2 DEF ApprovalRow
  <1> HIDE DEF row, p, ask
  <1>8. plan' \in [Plan -> PlanRow] /\ plan'[p].status # "none"
        /\ \A q \in Plan : plan[q].status # "none" => plan'[q].status # "none"
    BY <1>2, <1>4, <1>6 DEF GateInv, TypeOK
  <1>9. /\ approval' \in [Approval -> ApprovalRow] /\ approval'[a] = ask
        /\ \A b \in Approval \ {a} : approval'[b] = approval[b]
        /\ approval[a].status = "none"
    BY <1>1, <1>7 DEF GateInv, TypeOK, NoApproval
  <1>10. Grows
    BY <1>1, <1>8, <1>9 DEF Grows
  <1>11. ApprovalsBacked'
    BY <1>1, <1>2, <1>7, <1>8, <1>9 DEF GateInv, ApprovalsBacked
  <1>12. ExecutionsBacked'
    BY <1>1, <1>10, BackedStays DEF GateInv, ExecutionsBacked, Applied
  <1> QED
    BY <1>1, <1>8, <1>9, <1>10, <1>11, <1>12, IdleSure, RequestStep DEF GateInv, TypeOK

LEMMA DecideStep ==
  ASSUME GateInv, NEW r \in Request, WriteDecide(r)
  PROVE  GateInv'
  <1> DEFINE p == req[r].p
             a == req[r].a
             verdict == req[r].op
             row == [approval[a] EXCEPT !.status = verdict, !.own = req[r].own]
  <1>1. /\ verdict \in {"approved", "rejected"} /\ Sure(req[r])
        /\ req' = [req EXCEPT ![r] = Idle]
        /\ granted' = IF verdict = "approved" THEN granted \cup {<<a, req[r].own>>} ELSE granted
        /\ UNCHANGED <<execution, checked, created>>
    BY DEF WriteDecide, End, GateInv
  <1>2. /\ a \in Approval /\ approval[a].status # "none" /\ req[r].own = FALSE
        /\ p # 0 => plan[p].status # "none"
        /\ p \in Plan \cup {0} /\ req[r].want \in Superseding
    BY <1>1 DEF Sure, GateInv, TypeOK, RequestState
  <1>3. approval[a] \in ApprovalRow
    BY <1>2 DEF GateInv, TypeOK
  <1>4. approval' = [approval EXCEPT ![a] = row]
    BY <1>2, <1>3 DEF WriteDecide, GateInv, TypeOK, ApprovalRow
  <1>5. /\ row \in ApprovalRow /\ row.status = verdict /\ row.plan = approval[a].plan
    BY <1>1, <1>2, <1>3 DEF ApprovalRow
  <1> HIDE DEF row
  <1>6. /\ approval' \in [Approval -> ApprovalRow] /\ approval'[a] = row
        /\ \A b \in Approval \ {a} : approval'[b] = approval[b]
    BY <1>2, <1>4, <1>5 DEF GateInv, TypeOK
  <1>7. plan' \in [Plan -> PlanRow]
        /\ \A q \in Plan : plan[q].status # "none" => plan'[q].status # "none"
    <2>1. CASE p = 0
      BY <2>1 DEF WriteDecide, GateInv, TypeOK
    <2>2. CASE p \in Plan
      <3> DEFINE status == Put(r, plan[p].status)
                 line == [plan[p] EXCEPT !.status = status]
      <3>1. plan[p] \in PlanRow /\ plan[p].status # "none" /\ p # 0
        BY <1>2, <2>2 DEF GateInv, TypeOK, Plan
      <3>2. plan' = [plan EXCEPT ![p] = line]
        BY <2>2, <3>1 DEF WriteDecide, GateInv, TypeOK, PlanRow
      <3>3. status # "none" /\ status \in Superseding \cup {"none", "superseded"}
        BY <1>2, <3>1 DEF Put, PlanRow, Superseding
      <3> HIDE DEF status
      <3>4. line \in PlanRow /\ line.status # "none"
        BY <3>1, <3>3 DEF PlanRow
      <3> HIDE DEF line, p
      <3> QED
        BY <2>2, <3>2, <3>4 DEF GateInv, TypeOK
    <2> QED
      BY <1>2, <2>1, <2>2
  <1> HIDE DEF p
  <1>8. granted \subseteq granted' /\ granted' \subseteq Approval \X BOOLEAN
        /\ (verdict = "approved" => <<a, FALSE>> \in granted')
        /\ \A b \in Approval \ {a} : <<b, FALSE>> \in granted' => <<b, FALSE>> \in granted
    <2>1. /\ granted \subseteq Approval \X BOOLEAN /\ a \in Approval
          /\ granted' = IF verdict = "approved" THEN granted \cup {<<a, FALSE>>} ELSE granted
      BY <1>1, <1>2 DEF GateInv, TypeOK
    <2> HIDE DEF a, verdict
    <2>2. CASE verdict = "approved"
      <3>1. granted' = granted \cup {<<a, FALSE>>}
        BY <2>1, <2>2
      <3>2. <<a, FALSE>> \in Approval \X BOOLEAN
        BY <2>1
      <3>3. granted' \subseteq Approval \X BOOLEAN /\ granted \subseteq granted'
        BY <2>1, <3>1, <3>2
      <3>4. \A b \in Approval \ {a} : <<b, FALSE>> \in granted' => <<b, FALSE>> \in granted
        <4> TAKE b \in Approval \ {a}
        <4>1. <<b, FALSE>> # <<a, FALSE>>
          OBVIOUS
        <4> QED
          BY <3>1, <4>1
      <3>5. <<a, FALSE>> \in granted'
        BY <3>1
      <3> QED
        BY <3>3, <3>4, <3>5
    <2>3. CASE verdict # "approved"
      <3>1. granted' = granted
        BY <2>1, <2>3
      <3> QED
        BY <2>1, <2>3, <3>1
    <2> QED
      BY <2>2, <2>3
  <1> HIDE DEF a, verdict
  <1>9. Grows
    BY <1>1, <1>2, <1>5, <1>6, <1>7, <1>8 DEF Grows
  <1>10. ApprovalsBacked'
    <2> SUFFICES ASSUME NEW b \in Approval
                 PROVE  /\ approval'[b].status # "none" =>
                             approval'[b].plan \in Plan /\ plan'[approval'[b].plan].status # "none"
                        /\ approval'[b].status = "approved" => <<b, FALSE>> \in granted'
                        /\ <<b, FALSE>> \in granted' => approval'[b].status # "none"
      BY DEF ApprovalsBacked
    <2>1. CASE b = a
      BY <2>1, <1>1, <1>2, <1>5, <1>6, <1>7, <1>8 DEF GateInv, ApprovalsBacked
    <2>2. CASE b # a
      BY <2>2, <1>6, <1>7, <1>8 DEF GateInv, ApprovalsBacked
    <2> QED
      BY <2>1, <2>2
  <1>11. ExecutionsBacked'
    BY <1>1, <1>9, BackedStays DEF GateInv, ExecutionsBacked, Applied
  <1> QED
    BY <1>1, <1>6, <1>7, <1>8, <1>9, <1>10, <1>11, IdleSure, RequestStep DEF GateInv, TypeOK

\* One that writes an execution, whose plan and approval stay if it existed.
LEMMA ExecutionStep ==
  ASSUME GateInv, NEW r \in Request, req' = [req EXCEPT ![r] = Idle],
         UNCHANGED <<plan, approval, checked, created, granted>>,
         NEW e \in Execution, NEW row \in ExecutionRow,
         execution' = [execution EXCEPT ![e] = row],
         row.status # "none", row.approval \in Approval,
         execution[e].status # "none" =>
           row.plan = execution[e].plan /\ row.approval = execution[e].approval,
         row.status \in {"prepared"} \cup Applied =>
           /\ approval[row.approval].plan = row.plan
           /\ <<row.approval, FALSE>> \in granted
  PROVE  GateInv'
  <1>1. /\ execution' \in [Execution -> ExecutionRow] /\ execution'[e] = row
        /\ \A f \in Execution \ {e} : execution'[f] = execution[f]
    BY DEF GateInv, TypeOK
  <1>2. Grows
    BY <1>1 DEF Grows
  <1>3. ApprovalsBacked'
    BY DEF GateInv, ApprovalsBacked
  <1>4. ExecutionsBacked'
    <2> SUFFICES ASSUME NEW f \in Execution
                 PROVE  /\ execution'[f].status # "none" => execution'[f].approval \in Approval
                        /\ execution'[f].status \in {"prepared"} \cup Applied =>
                             /\ execution'[f].approval \in Approval
                             /\ approval[execution'[f].approval].plan = execution'[f].plan
                             /\ <<execution'[f].approval, FALSE>> \in granted
      BY DEF ExecutionsBacked, Backed
    <2>1. CASE f = e
      BY <2>1, <1>1
    <2>2. CASE f # e
      BY <2>2, <1>1 DEF GateInv, ExecutionsBacked, Backed
    <2> QED
      BY <2>1, <2>2
  <1> QED
    BY <1>1, <1>2, <1>3, <1>4, IdleSure, RequestStep DEF GateInv, TypeOK

LEMMA InsertExecutionStep ==
  ASSUME GateInv, NEW r \in Request, NEW e \in Execution, InsertExecution(r, e)
  PROVE  GateInv'
  <1> DEFINE row == [status |-> "requested", plan |-> req[r].p, approval |-> req[r].a]
  <1>1. /\ req[r].op = "order" /\ Sure(req[r]) /\ req' = [req EXCEPT ![r] = Idle]
        /\ execution[e].status = "none" /\ execution' = [execution EXCEPT ![e] = row]
        /\ UNCHANGED <<plan, approval, checked, created, granted>>
    BY DEF InsertExecution, End, GateInv, NoExecution
  <1>2. req[r].p \in Plan /\ req[r].a \in Approval
    BY <1>1 DEF Sure
  <1>3. row \in ExecutionRow /\ row.status = "requested" /\ row.approval \in Approval
    BY <1>2 DEF ExecutionRow, Active
  <1> HIDE DEF row
  <1> QED
    BY <1>1, <1>3, ExecutionStep DEF Applied

\* A status is written to an execution that is backed if the status says so.
LEMMA StatusStep ==
  ASSUME GateInv, NEW r \in Request, req' = [req EXCEPT ![r] = Idle],
         UNCHANGED <<plan, approval, checked, created, granted>>,
         NEW e \in Execution, execution[e].status # "none",
         NEW status \in {"blocked"} \cup Active \cup Applied,
         execution' = [execution EXCEPT ![e].status = status],
         status \in {"prepared"} \cup Applied => Backed(e)
  PROVE  GateInv'
  <1> DEFINE row == [execution[e] EXCEPT !.status = status]
  <1>1. execution[e] \in ExecutionRow /\ execution[e].approval \in Approval
    BY DEF GateInv, TypeOK, ExecutionsBacked
  <1>2. execution' = [execution EXCEPT ![e] = row]
    BY <1>1 DEF GateInv, TypeOK, ExecutionRow
  <1>3. /\ row \in ExecutionRow /\ row.status = status
        /\ row.plan = execution[e].plan /\ row.approval = execution[e].approval
    BY <1>1 DEF ExecutionRow
  <1> HIDE DEF row
  <1>4. status # "none"
    BY DEF Active, Applied
  <1> QED
    BY <1>1, <1>2, <1>3, <1>4, ExecutionStep DEF Backed

LEMMA PrepareStep ==
  ASSUME GateInv, NEW r \in Request, WritePrepare(r)
  PROVE  GateInv'
  <1> DEFINE e == req[r].e
             status == Put(r, execution[e].status)
  <1>1. /\ req[r].op = "prepare" /\ Sure(req[r]) /\ req' = [req EXCEPT ![r] = Idle]
        /\ execution' = [execution EXCEPT ![e].status = status]
        /\ UNCHANGED <<plan, approval, checked, created, granted>>
    BY DEF WritePrepare, End, GateInv
  <1>2. /\ e \in Execution /\ execution[e].status # "none"
        /\ req[r].want \in {"prepared", "blocked"}
        /\ req[r].want = "prepared" => Backed(e)
    BY <1>1 DEF Sure
  <1>3. status \in {"blocked"} \cup Active \cup Applied
    BY <1>2 DEF GateInv, TypeOK, ExecutionRow, Put, Active
  <1>4. status \in {"prepared"} \cup Applied => Backed(e)
    BY <1>2 DEF GateInv, ExecutionsBacked, Put, Applied
  <1> HIDE DEF e, status
  <1> QED
    BY <1>1, <1>2, <1>3, <1>4, StatusStep

LEMMA ApplyStep ==
  ASSUME GateInv, NEW r \in Request, CommitApply(r)
  PROVE  GateInv'
  <1> DEFINE e == req[r].e
             status == req[r].want
  <1>1. /\ req[r].op = "apply" /\ Sure(req[r]) /\ req' = [req EXCEPT ![r] = Idle]
        /\ execution' = [execution EXCEPT ![e].status = status]
        /\ UNCHANGED <<plan, approval, checked, created, granted>>
    BY DEF CommitApply, End, GateInv
  <1>2. /\ e \in Execution /\ execution[e].status # "none"
        /\ status \in Applied \cup {"blocked"}
        /\ status \in {"prepared"} \cup Applied => Backed(e)
    BY <1>1 DEF Sure
  <1> HIDE DEF e, status
  <1> QED
    BY <1>1, <1>2, StatusStep

-----------------------------------------------------------------------------
LEMMA StutterStep == GateInv /\ UNCHANGED vars => GateInv'
  <1> SUFFICES ASSUME GateInv, UNCHANGED vars PROVE GateInv'
    OBVIOUS
  <1>1. UNCHANGED <<plan, approval, execution, checked, created, granted, req>>
    BY DEF vars
  <1>2. TypeOK' /\ ApprovalsBacked' /\ ExecutionsBacked'
    BY <1>1 DEF GateInv, TypeOK, ApprovalsBacked, ExecutionsBacked, Backed
  <1>3. \A r \in Request : Sure(req[r])'
    BY <1>1 DEF GateInv, Sure, Backed
  <1> QED
    BY <1>2, <1>3 DEF GateInv

LEMMA NextStep == GateInv /\ [Next]_vars => GateInv'
  <1> SUFFICES ASSUME GateInv, Next PROVE GateInv'
    BY StutterStep
  <1>1. PICK r \in Request :
          \/ BeginCreatePlan(r) \/ LoadLatest(r) \/ InsertPlan(r)
          \/ \E p \in Plan : BeginSecurityCheck(r, p) \/ BeginOrder(r, p)
          \/ \E gate \in {"open", "blocked"} : WriteSecurityCheck(r, gate)
          \/ \E p \in Plan : BeginAskApproval(r, p)
          \/ \E a \in Approval : WriteAskApproval(r, a)
          \/ \E a \in Approval, own \in BOOLEAN, v \in {"approved", "rejected"} :
                BeginDecide(r, a, own, v)
          \/ WriteDecide(r)
          \/ \E e \in Execution : InsertExecution(r, e)
          \/ \E e \in Execution, checks \in BOOLEAN : BeginPrepare(r, e, checks)
          \/ WritePrepare(r)
          \/ \E e \in Execution : BeginExecute(r, e)
          \/ \E outcome \in Applied \cup {"blocked"} : LockAndApply(r, outcome)
          \/ CommitApply(r) \/ Abort(r)
    BY DEF Next
  <1> QED
    BY <1>1, BeginCreateStep, LoadLatestStep, InsertPlanStep, BeginCheckStep, BeginOrderStep,
       SecurityCheckStep, AskApprovalStep, BeginDecideStep, DecideStep, InsertExecutionStep,
       BeginPrepareStep, PrepareStep, BeginExecuteStep, LockStep, ApplyStep, AbortStep

-----------------------------------------------------------------------------
(* The theorems. *)

\* However requests for the rows of the gate interleave and whatever they overwrite, an
\* approval once granted for a plan by somebody else stays behind every execution that is
\* prepared or applied, and behind every request that is about to record one.
THEOREM GateInvariant == Spec => []GateInv
  BY InitInv, NextStep, PTL DEF Spec

\* The rows keep their types, and so no status the tables' checks would refuse is written.
THEOREM GateTypes == Spec => []TypeOK
  <1>1. GateInv => TypeOK
    BY DEF GateInv
  <1> QED
    BY <1>1, GateInvariant, PTL

\* What has been prepared or applied was approved, for that plan, by somebody other than
\* the requester of the approval (approvals.py and authorize of terraform_executor.py).
THEOREM FourEyes == Spec => []TwoPeople
  <1>1. GateInv => TwoPeople
    BY DEF GateInv, ExecutionsBacked, Backed, TwoPeople
  <1> QED
    BY <1>1, GateInvariant, PTL

\* The executor accepts at most one plan of the project at a time, however many requests
\* create, supersede and approve plans concurrently (_is_current of terraform_executor.py).
THEOREM OnePlan == Spec => []OneDeployablePlan
  <1>1. GateInv => OneDeployablePlan
    <2> SUFFICES ASSUME GateInv, NEW a \in Approval, NEW b \in Approval,
                        Authorized(approval[a].plan, a), Authorized(approval[b].plan, b)
                 PROVE  approval[a].plan = approval[b].plan
      BY DEF OneDeployablePlan
    <2> DEFINE p == approval[a].plan
               q == approval[b].plan
    <2>1. /\ p \in Plan /\ plan[p].status # "none" /\ Current(p)
          /\ q \in Plan /\ plan[q].status # "none" /\ Current(q)
      BY DEF Authorized, Granted, GateInv, ApprovalsBacked
    <2> HIDE DEF p, q
    <2>2. plan[p].status \in Superseding /\ plan[q].status \in Superseding
      BY <2>1 DEF GateInv, TypeOK, PlanRow, Current
    <2>3. ~(p > q) /\ ~(q > p)
      BY <2>1, <2>2 DEF Current
    <2>4. p \in Int /\ q \in Int
      BY <2>1, BoundsAssumption DEF Plan, BoundsAssumption
    <2>5. p = q
      BY <2>3, <2>4
    <2> QED
      BY <2>5 DEF p, q
  <1> QED
    BY <1>1, GateInvariant, PTL
=============================================================================
