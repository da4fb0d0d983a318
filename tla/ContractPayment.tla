---------------------------- MODULE ContractPayment ----------------------------
(***************************************************************************)
(* From the estimate to the paid contract of one project                   *)
(* (app/services/billing.py): the estimate's approval, the contract's two  *)
(* acceptances, payment intents and their confirmation with the payment    *)
(* provider, the provider's webhooks, and the project's first phases.      *)
(*                                                                         *)
(* A request loads its rows, may call the provider, and writes at the end, *)
(* in one transaction.  Every row has a SQLAlchemy version column: an      *)
(* UPDATE of a row that another transaction has updated since it was       *)
(* loaded raises StaleDataError.  Instead of counting versions, the rows   *)
(* a request has loaded and another one has updated since are remembered   *)
(* in the request's set "stale".                                           *)
(*                                                                         *)
(* An estimate has at most one contract (uq_contracts_estimate), so the    *)
(* two share a name; a payment intent is named by its idempotency key      *)
(* (uq_payment_intents_idempotency).                                       *)
(***************************************************************************)
EXTENDS Integers, FiniteSets

CONSTANTS
    Contract,   \* estimates of the project, each with its contract
    Key,        \* idempotency keys, each with its payment intent
    Event,      \* provider_event_id of the provider's webhooks
    Request,    \* requests being served at the same time
    None        \* no contract, key or event

ASSUME NoneAssumption == None \notin Contract \cup Key \cup Event

VARIABLES
    estimate,   \* Estimate.status
    lapsed,     \* valid_until < today
    contract,   \* Contract: status and the two acceptances
    intent,     \* PaymentIntent: status and contract
    project,    \* Project.current_phase
    provider,   \* the intents in the memory of MockPaymentProvider
    events,     \* the rows of payment_events
    announced,  \* what emit_project_event has recorded
    req         \* the requests in flight

vars == <<estimate, lapsed, contract, intent, project, provider, events, announced,
          req>>

-----------------------------------------------------------------------------
Party == {"customer", "provider"}
Outcome == {"succeeded", "failed", "processing"}
Live == {"requires_confirmation", "processing", "succeeded"}
Confirmable == {"requires_confirmation", "failed", "processing"}

EstimateStatus == {"draft", "customer_review", "approved", "rejected", "expired"}
ContractRow == [status : {"none", "draft", "awaiting_customer", "awaiting_provider", "active"},
                customer : BOOLEAN, provider : BOOLEAN]
IntentRow == [status : {"none"} \cup Live \cup Confirmable, contract : Contract \cup {None}]
Phase == {"hearing", "estimate", "requirements"}

\* What emit_project_event is told about an estimate, a contract or an intent.
Announced ==
    ({"estimate_submitted", "estimate_approved", "contract_activated"} \X Contract)
    \cup ({"payment_succeeded", "payment_failed", "payment_processing"} \X Key)

NoContract == [status |-> "none", customer |-> FALSE, provider |-> FALSE]
NoIntent == [status |-> "none", contract |-> None]

EstimateId(c) == <<"estimate", c>>
ContractId(c) == <<"contract", c>>
IntentId(k) == <<"intent", k>>
ProjectId == <<"project", None>>
RowId == ({"estimate", "contract"} \X Contract) \cup ({"intent"} \X Key) \cup {ProjectId}

\* What a request holds: its input, and the columns it has read and decides by.
Idle == [op |-> "idle", want |-> "none", c |-> None, k |-> None, e |-> None,
         agreed |-> FALSE, status |-> "none", phase |-> "none", stale |-> {}]

RequestState ==
    [op : {"idle", "transition", "accept", "create", "confirm", "settle", "webhook", "start"},
     want : {"none", "submit", "approve", "reject"} \cup Party \cup Outcome,
     c : Contract \cup {None}, k : Key \cup {None}, e : Event \cup {None},
     agreed : BOOLEAN,                                  \* the other party had accepted
     status : {"none"} \cup Live \cup Confirmable,      \* the intent's status as loaded
     phase : {"none"} \cup Phase,                       \* the project's phase as loaded
     stale : SUBSET RowId]

TypeOK ==
    /\ estimate \in [Contract -> EstimateStatus]
    /\ lapsed \in [Contract -> BOOLEAN]
    /\ contract \in [Contract -> ContractRow]
    /\ intent \in [Key -> IntentRow]
    /\ project \in Phase
    /\ provider \subseteq Key
    /\ events \subseteq Event
    /\ announced \subseteq Announced
    /\ req \in [Request -> RequestState]

-----------------------------------------------------------------------------
(* Optimistic locking. *)

\* The rows a request has loaded and may update.
Loaded(q) ==
    CASE q.op = "transition" -> {EstimateId(q.c)}
      [] q.op = "accept" -> {ContractId(q.c)}
      [] q.op \in {"confirm", "settle", "webhook"} -> {IntentId(q.k), ProjectId}
      [] q.op = "start" -> {ProjectId}
      [] OTHER -> {}

Begin(r, request) ==
    /\ req[r].op = "idle"
    /\ req' = [req EXCEPT ![r] = request]

\* The request ends; whoever has loaded a row that it has updated holds a stale copy.
Finish(r, updated) ==
    req' = [q \in Request |->
              IF q = r THEN Idle
              ELSE [req[q] EXCEPT !.stale = @ \cup (updated \cap Loaded(req[q]))]]

\* Mutant of Fresh: the model without version_id_col.
FreshUnversioned(r, updated) == TRUE

\* UPDATE ... WHERE version = :loaded finds its row.
Fresh(r, updated) == req[r].stale \cap updated = {}

\* VERSION_CONFLICT, PAYMENT_PROVIDER_UNAVAILABLE, a unique constraint or a database
\* error: the transaction rolls back.
Abort(r) ==
    /\ req[r].op # "idle"
    /\ Finish(r, {})
    /\ UNCHANGED <<estimate, lapsed, contract, intent, project, provider, events,
                   announced>>

-----------------------------------------------------------------------------
Init ==
    /\ estimate = [c \in Contract |-> "draft"]
    /\ lapsed = [c \in Contract |-> FALSE]
    /\ contract = [c \in Contract |-> NoContract]
    /\ intent = [k \in Key |-> NoIntent]
    /\ project = "hearing"
    /\ provider = {}
    /\ events = {}
    /\ announced = {}
    /\ req = [r \in Request |-> Idle]

(* The estimate. *)

\* The day after valid_until begins.
Lapse(c) ==
    /\ ~lapsed[c]
    /\ lapsed' = [lapsed EXCEPT ![c] = TRUE]
    /\ UNCHANGED <<estimate, contract, intent, project, provider, events, announced, req>>

\* Mutant of Expires: run_daily looks for every estimate whose validity has ended.
ExpiresAny(c) == estimate[c] # "expired" /\ lapsed[c]

Expires(c) == estimate[c] = "draft" /\ lapsed[c]

\* run_daily: a bulk UPDATE, which leaves the version column alone.
RunDaily ==
    /\ \E c \in Contract : Expires(c)
    /\ estimate' = [c \in Contract |-> IF Expires(c) THEN "expired" ELSE estimate[c]]
    /\ UNCHANGED <<lapsed, contract, intent, project, provider, events, announced, req>>

\* Mutant of Transition: the status run_daily looks for.
TransitionSubmitted ==
    [submit |-> "submitted", approve |-> "approved", reject |-> "rejected"]

Transition == [submit |-> "customer_review", approve |-> "approved", reject |-> "rejected"]

BeginTransition(r, c, action) ==
    /\ estimate[c] = IF action = "submit" THEN "draft" ELSE "customer_review"
    /\ action = "approve" => ~lapsed[c]
    /\ Begin(r, [Idle EXCEPT !.op = "transition", !.want = action, !.c = c])
    /\ UNCHANGED <<estimate, lapsed, contract, intent, project, provider, events,
                   announced>>

WriteTransition(r) ==
    LET c == req[r].c
        action == req[r].want
    IN /\ req[r].op = "transition"
       /\ Fresh(r, {EstimateId(c)})
       /\ estimate' = [estimate EXCEPT ![c] = Transition[action]]
       /\ announced' = announced \cup
             (CASE action = "submit" -> {<<"estimate_submitted", c>>}
                [] action = "approve" -> {<<"estimate_approved", c>>}
                [] OTHER -> {})
       /\ Finish(r, {EstimateId(c)})
       /\ UNCHANGED <<lapsed, contract, intent, project, provider, events>>

BeginStart(r) ==
    /\ project = "hearing"
    /\ Begin(r, [Idle EXCEPT !.op = "start"])
    /\ UNCHANGED <<estimate, lapsed, contract, intent, project, provider, events,
                   announced>>

\* start_project_estimate
WriteStart(r) ==
    /\ req[r].op = "start"
    /\ Fresh(r, {ProjectId})
    /\ project' = "estimate"
    /\ Finish(r, {ProjectId})
    /\ UNCHANGED <<estimate, lapsed, contract, intent, provider, events, announced>>

-----------------------------------------------------------------------------
(* The contract. *)

CreateContract(c) ==
    /\ contract[c] = NoContract
    /\ estimate[c] = "approved"
    /\ ~lapsed[c]
    /\ contract' = [contract EXCEPT ![c].status = "draft"]
    /\ UNCHANGED <<estimate, lapsed, intent, project, provider, events, announced, req>>

Other(party) == IF party = "customer" THEN "provider" ELSE "customer"
Awaiting(party) == IF party = "customer" THEN "awaiting_customer" ELSE "awaiting_provider"

BeginAccept(r, c, party) ==
    /\ contract[c].status \in {"draft", Awaiting(party)}
    /\ ~contract[c][party]
    /\ Begin(r, [Idle EXCEPT !.op = "accept", !.want = party, !.c = c,
                             !.agreed = contract[c][Other(party)]])
    /\ UNCHANGED <<estimate, lapsed, contract, intent, project, provider, events,
                   announced>>

\* The status follows from the acceptances as they were loaded.
WriteAccept(r) ==
    LET c == req[r].c
        party == req[r].want
    IN /\ req[r].op = "accept"
       /\ Fresh(r, {ContractId(c)})
       /\ contract' = [contract EXCEPT ![c] =
             [[@ EXCEPT ![party] = TRUE] EXCEPT
                !.status = IF req[r].agreed THEN "active" ELSE Awaiting(Other(party))]]
       /\ announced' = announced \cup
             (IF req[r].agreed THEN {<<"contract_activated", c>>} ELSE {})
       /\ Finish(r, {ContractId(c)})
       /\ UNCHANGED <<estimate, lapsed, intent, project, provider, events>>

-----------------------------------------------------------------------------
(* The payment. *)

LivePayments(c) == {k \in Key : intent[k].contract = c /\ intent[k].status \in Live}

BeginCreate(r, k, c) ==
    /\ contract[c].status = "active"
    /\ estimate[c] = "approved"
    /\ ~lapsed[c]
    /\ intent[k] = NoIntent
    /\ LivePayments(c) = {}
    /\ Begin(r, [Idle EXCEPT !.op = "create", !.c = c, !.k = k])
    /\ UNCHANGED <<estimate, lapsed, contract, intent, project, provider, events,
                   announced>>

\* The provider's intent and the row of payment_intents, unique by its key.
InsertIntent(r) ==
    LET k == req[r].k
    IN /\ req[r].op = "create"
       /\ intent[k] = NoIntent
       /\ intent' = [intent EXCEPT ![k] = [status |-> "requires_confirmation",
                                           contract |-> req[r].c]]
       /\ provider' = provider \cup {k}
       /\ Finish(r, {})
       /\ UNCHANGED <<estimate, lapsed, contract, project, events, announced>>

BeginConfirm(r, k) ==
    /\ intent[k].status \in Confirmable
    /\ contract[intent[k].contract].status = "active"
    /\ Begin(r, [Idle EXCEPT !.op = "confirm", !.k = k, !.status = intent[k].status,
                             !.phase = project])
    /\ UNCHANGED <<estimate, lapsed, contract, intent, project, provider, events,
                   announced>>

\* The provider answers before anything is written here.
ProviderConfirm(r, outcome) ==
    /\ req[r].op = "confirm"
    /\ req[r].k \in provider
    /\ req' = [req EXCEPT ![r].op = "settle", ![r].want = outcome]
    /\ UNCHANGED <<estimate, lapsed, contract, intent, project, provider, events,
                   announced>>

\* Mutant of Advances: the project moves on although the payment failed.
AdvancesAlways(r) == req[r].phase # "requirements"

\* The project is written: by the success of an active contract's payment, if that
\* changes the project.
Advances(r) ==
    /\ req[r].want = "succeeded"
    /\ contract[intent[req[r].k].contract].status = "active"
    /\ req[r].phase # "requirements"

\* The rows a settled payment updates; assigning what was loaded issues no UPDATE.
Updated(r) ==
    (IF req[r].want # req[r].status THEN {IntentId(req[r].k)} ELSE {})
       \cup (IF Advances(r) THEN {ProjectId} ELSE {})

WriteOutcome(r) ==
    /\ Fresh(r, Updated(r))
    /\ intent' = IF IntentId(req[r].k) \in Updated(r)
                 THEN [intent EXCEPT ![req[r].k].status = req[r].want] ELSE intent
    /\ project' = IF Advances(r) THEN "requirements" ELSE project
    /\ Finish(r, Updated(r))

Announcement == [succeeded |-> "payment_succeeded", failed |-> "payment_failed",
                 processing |-> "payment_processing"]

\* confirm_contract_payment after the provider's answer
Settle(r) ==
    /\ req[r].op = "settle"
    /\ WriteOutcome(r)
    /\ announced' = announced \cup {<<Announcement[req[r].want], req[r].k>>}
    /\ UNCHANGED <<estimate, lapsed, contract, provider, events>>

\* A webhook is delivered, again perhaps, about an intent the database may not know.
BeginWebhook(r, e, k, outcome) ==
    /\ e \notin events
    /\ Begin(r, [Idle EXCEPT !.op = "webhook", !.want = outcome, !.e = e, !.k = k,
                             !.status = intent[k].status, !.phase = project])
    /\ UNCHANGED <<estimate, lapsed, contract, intent, project, provider, events,
                   announced>>

NewEvent(r) == req[r].e \notin events

\* A webhook writes the intent unless it is unknown or settled already.
ApplyWebhook(r) ==
    /\ req[r].op = "webhook"
    /\ NewEvent(r)
    /\ events' = events \cup {req[r].e}
    /\ IF req[r].status \in {"none", "succeeded"}
       THEN Finish(r, {}) /\ UNCHANGED <<intent, project>>
       ELSE /\ WriteOutcome(r)
    /\ UNCHANGED <<estimate, lapsed, contract, provider, announced>>

\* The API process restarts: its requests die, and so does the provider's memory.
Restart ==
    /\ req' = [r \in Request |-> Idle]
    /\ provider' = {}
    /\ <<req, provider>>' # <<req, provider>>
    /\ UNCHANGED <<estimate, lapsed, contract, intent, project, events, announced>>

-----------------------------------------------------------------------------
Next ==
    \/ RunDaily
    \/ Restart
    \/ \E c \in Contract : Lapse(c) \/ CreateContract(c)
    \/ \E r \in Request :
         \/ \E c \in Contract, a \in DOMAIN Transition : BeginTransition(r, c, a)
         \/ \E c \in Contract, party \in Party : BeginAccept(r, c, party)
         \/ \E c \in Contract, k \in Key : BeginCreate(r, k, c)
         \/ \E k \in Key : BeginConfirm(r, k)
         \/ \E outcome \in Outcome : ProviderConfirm(r, outcome)
         \/ \E e \in Event, k \in Key, outcome \in Outcome : BeginWebhook(r, e, k, outcome)
         \/ BeginStart(r)
         \/ WriteTransition(r)
         \/ WriteAccept(r)
         \/ InsertIntent(r)
         \/ Settle(r)
         \/ ApplyWebhook(r)
         \/ WriteStart(r)
         \/ Abort(r)

Spec == Init /\ [][Next]_vars

-----------------------------------------------------------------------------
(* Properties. *)

\* Two parties may accept at the same moment: a contract is active exactly when both
\* have accepted, and never waits for a party that has.
ActiveMeansBothAccepted ==
    \A c \in Contract :
        /\ contract[c].status = "active" <=> contract[c].customer /\ contract[c].provider
        /\ \A party \in Party : contract[c].status = Awaiting(party) => ~contract[c][party]

\* Development starts exactly when a payment has succeeded: no success is recorded
\* without its project, no project moves on without a success.
PaidMeansRequirements ==
    project = "requirements" <=> \E k \in Key : intent[k].status = "succeeded"

\* Confirmations and webhooks race and arrive out of order: a succeeded payment is
\* never overwritten by a late or repeated answer.
SucceededIsFinal ==
    [][\A k \in Key : intent[k].status = "succeeded" => intent'[k].status = "succeeded"]_vars

Order == INSTANCE Purchase WITH
            agreed <- {c \in Contract : estimate[c] = "approved"},
            accepted <- [c \in Contract |-> {party \in Party : contract[c][party]}],
            charged <- [k \in Key |-> intent[k].contract],
            paid <- {k \in Key : intent[k].status = "succeeded"},
            phase <- project

\* The requests, webhooks and restarts together keep the promise of Purchase: an approved
\* estimate is never expired or rejected by whoever had loaded it before, both parties have
\* accepted what is charged, and a payment and the project's phase change in one step.
ImplementsPurchase == Order!Spec
=============================================================================
