------------------------- MODULE ContractPaymentProofs -------------------------
(***************************************************************************)
(* Proofs about ContractPayment for every set of contracts, idempotency    *)
(* keys, webhook events and concurrent requests.                           *)
(*                                                                         *)
(* The invariant ties what a request has loaded to the rows: as long as    *)
(* nobody has updated a row since (it is not in the request's "stale"),    *)
(* the request's copy agrees with it.  That is what version_id_col is for, *)
(* and from it follow the agreement of acceptances and activity, that of   *)
(* payments and the project's phase, and that success is final.            *)
(***************************************************************************)
EXTENDS ContractPayment, TLAPS

-----------------------------------------------------------------------------
(* What a request holds. *)

\* An acceptance was possible in the contract as loaded.
AcceptCopy(q) ==
    q.op = "accept" =>
      /\ q.c \in Contract /\ q.want \in Party
      /\ ContractId(q.c) \notin q.stale =>
           /\ contract[q.c].status \in {"draft", Awaiting(q.want)}
           /\ ~contract[q.c][q.want]
           /\ q.agreed = contract[q.c][Other(q.want)]

\* A payment is created for a contract that was active, and stays so.
CreateCopy(q) ==
    q.op = "create" => q.c \in Contract /\ q.k \in Key /\ contract[q.c].status = "active"

\* The intent and the project as loaded by a confirmation or a webhook.
PayCopy(q) ==
    q.op \in {"confirm", "settle", "webhook"} =>
      /\ q.k \in Key
      /\ q.op \in {"confirm", "settle"} => q.status \in Confirmable
      /\ q.op \in {"settle", "webhook"} => q.want \in Outcome
      /\ q.op = "webhook" => q.e \in Event
      /\ q.status # "none" => intent[q.k].status # "none"
      /\ q.status # "none" /\ IntentId(q.k) \notin q.stale => q.status = intent[q.k].status
      /\ q.phase = "requirements" => project = "requirements"

StartCopy(q) == q.op = "start" /\ ProjectId \notin q.stale => project = "hearing"

TransitionCopy(q) == q.op = "transition" => q.c \in Contract /\ q.want \in DOMAIN Transition

Copies(q) == AcceptCopy(q) /\ CreateCopy(q) /\ PayCopy(q) /\ StartCopy(q) /\ TransitionCopy(q)

\* A payment belongs to an active contract.
PaymentsActive ==
    \A k \in Key : intent[k].status # "none" =>
        intent[k].contract \in Contract /\ contract[intent[k].contract].status = "active"

PaymentInv ==
    /\ TypeOK
    /\ ActiveMeansBothAccepted
    /\ PaidMeansRequirements
    /\ PaymentsActive
    /\ \A r \in Request : Copies(req[r])

-----------------------------------------------------------------------------
LEMMA InitInv == Init => PaymentInv
  <1> SUFFICES ASSUME Init PROVE PaymentInv
    OBVIOUS
  <1>1. TypeOK
    BY DEF Init, TypeOK, EstimateStatus, ContractRow, NoContract, IntentRow, NoIntent, Phase,
           RequestState, Idle
  <1>2. ActiveMeansBothAccepted
    BY DEF Init, ActiveMeansBothAccepted, NoContract, Awaiting
  <1>3. PaidMeansRequirements /\ PaymentsActive
    BY DEF Init, PaidMeansRequirements, PaymentsActive, NoIntent
  <1>4. \A r \in Request : Copies(req[r])
    BY DEF Init, Copies, AcceptCopy, CreateCopy, PayCopy, StartCopy, TransitionCopy, Idle
  <1> QED
    BY <1>1, <1>2, <1>3, <1>4 DEF PaymentInv

-----------------------------------------------------------------------------
(* How the requests change. *)

\* A request other than r is what it was, except for rows that it must no longer update.
Unmoved(q, p, updated) ==
    /\ p.op = q.op /\ p.want = q.want /\ p.c = q.c /\ p.k = q.k /\ p.e = q.e
    /\ p.agreed = q.agreed /\ p.status = q.status /\ p.phase = q.phase
    /\ q.stale \subseteq p.stale
    /\ updated \cap Loaded(q) \subseteq p.stale

LEMMA IdleCopies == Copies(Idle) /\ Copies(Idle)' /\ Idle \in RequestState
  BY DEF Copies, AcceptCopy, CreateCopy, PayCopy, StartCopy, TransitionCopy, Idle, RequestState

LEMMA FinishMoves ==
  ASSUME TypeOK, NEW r \in Request, NEW updated \in SUBSET RowId, Finish(r, updated)
  PROVE  /\ req' \in [Request -> RequestState]
         /\ req'[r] = Idle
         /\ \A q \in Request \ {r} : Unmoved(req[q], req'[q], updated)
  <1>1. \A q \in Request \ {r} :
           req'[q] = [req[q] EXCEPT !.stale = @ \cup (updated \cap Loaded(req[q]))]
    BY DEF Finish
  <1>2. \A q \in Request : req[q] \in RequestState
    BY DEF TypeOK
  <1>3. \A q \in Request \ {r} : Unmoved(req[q], req'[q], updated) /\ req'[q] \in RequestState
    <2> TAKE q \in Request \ {r}
    <2> DEFINE gone == updated \cap Loaded(req[q])
    <2>1. gone \subseteq RowId
      OBVIOUS
    <2>2. req'[q] = [req[q] EXCEPT !.stale = @ \cup gone]
      BY <1>1
    <2> HIDE DEF gone
    <2>3. req'[q] \in RequestState /\ req'[q].stale = req[q].stale \cup gone
      BY <1>2, <2>1, <2>2 DEF RequestState
    <2>4. /\ req'[q].op = req[q].op /\ req'[q].want = req[q].want /\ req'[q].c = req[q].c
          /\ req'[q].k = req[q].k /\ req'[q].e = req[q].e /\ req'[q].agreed = req[q].agreed
          /\ req'[q].status = req[q].status /\ req'[q].phase = req[q].phase
      BY <1>2, <2>2 DEF RequestState
    <2> QED
      BY <2>3, <2>4 DEF Unmoved, gone
  <1>4. req'[r] = Idle
    BY DEF Finish
  <1>5. req' = [q \in Request |-> req'[q]]
    BY DEF Finish
  <1> QED
    BY <1>3, <1>4, <1>5, IdleCopies

LEMMA BeginMoves ==
  ASSUME TypeOK, NEW r \in Request, NEW q \in RequestState, Begin(r, q)
  PROVE  /\ req' \in [Request -> RequestState]
         /\ req'[r] = q
         /\ \A x \in Request \ {r} : req'[x] = req[x]
  BY DEF Begin, TypeOK

\* Nothing a request holds is affected if the rows it has loaded stay as they are.
LEMMA BeginCopies ==
  ASSUME PaymentInv, NEW r \in Request, NEW q \in RequestState, Begin(r, q), Copies(q),
         UNCHANGED <<contract, intent, project>>
  PROVE  \A x \in Request : Copies(req[x])'
  <1>1. \A x \in Request : Copies(req'[x])
    BY BeginMoves DEF PaymentInv
  <1> QED
    BY <1>1 DEF Copies, AcceptCopy, CreateCopy, PayCopy, StartCopy, TransitionCopy

\* A step that writes only rows in "updated", or rows that nobody can have loaded.
Writes(updated) ==
    /\ \A c \in Contract : \/ contract'[c] = contract[c]
                           \/ ContractId(c) \in updated
                           \/ contract[c].status = "none"
    /\ \A c \in Contract : contract[c].status = "active" => contract'[c].status = "active"
    /\ \A k \in Key : intent[k].status # "none" =>
                        /\ intent'[k] = intent[k] \/ IntentId(k) \in updated
                        /\ intent'[k].status # "none"
    /\ project' = project \/ ProjectId \in updated
    /\ project = "requirements" => project' = "requirements"

\* Copies are kept by such a step: who has loaded an updated row is stale.
LEMMA KeepCopies ==
  ASSUME PaymentInv, NEW x \in Request, NEW updated \in SUBSET RowId,
         Unmoved(req[x], req'[x], updated), Writes(updated)
  PROVE  Copies(req[x])'
  <1> DEFINE q == req[x]
             p == req'[x]
  <1>0. Copies(q) /\ q \in RequestState
    BY DEF PaymentInv, TypeOK
  <1> USE DEF Unmoved
  <1>1. AcceptCopy(req[x])'
    <2> SUFFICES ASSUME p.op = "accept"
                 PROVE  /\ p.c \in Contract /\ p.want \in Party
                        /\ ContractId(p.c) \notin p.stale =>
                             /\ contract'[p.c].status \in {"draft", Awaiting(p.want)}
                             /\ ~contract'[p.c][p.want]
                             /\ p.agreed = contract'[p.c][Other(p.want)]
      BY DEF AcceptCopy
    <2>1. q.op = "accept" /\ q.c = p.c /\ q.want = p.want /\ q.agreed = p.agreed
      OBVIOUS
    <2>2. p.c \in Contract /\ p.want \in Party
      BY <1>0, <2>1 DEF Copies, AcceptCopy
    <2>3. ASSUME ContractId(p.c) \notin p.stale
          PROVE  contract'[p.c] = contract[p.c] /\ ContractId(q.c) \notin q.stale
      <3>1. ContractId(q.c) \in Loaded(q)
        BY <2>1 DEF Loaded
      <3>2. ContractId(q.c) \notin q.stale /\ ContractId(q.c) \notin updated
        BY <2>1, <2>3, <3>1
      <3>3. contract[q.c].status # "none"
        BY <1>0, <2>1, <3>2 DEF Copies, AcceptCopy, Awaiting
      <3> QED
        BY <2>1, <2>2, <3>2, <3>3 DEF Writes
    <2> QED
      BY <1>0, <2>1, <2>2, <2>3 DEF Copies, AcceptCopy
  <1>2. CreateCopy(req[x])'
    BY <1>0 DEF Copies, CreateCopy, Writes
  <1>3. PayCopy(req[x])'
    <2> SUFFICES ASSUME p.op \in {"confirm", "settle", "webhook"}
                 PROVE  PayCopy(req[x])'
      BY DEF PayCopy
    <2>1. /\ q.op = p.op /\ q.k = p.k /\ q.want = p.want /\ q.status = p.status
          /\ q.phase = p.phase /\ q.e = p.e
      OBVIOUS
    <2>2. PayCopy(q) /\ q.k \in Key
      BY <1>0, <2>1 DEF Copies, PayCopy
    <2>3. q.status # "none" => intent[q.k].status # "none" /\ intent'[q.k].status # "none"
      BY <2>1, <2>2 DEF PayCopy, Writes
    <2>4. ASSUME q.status # "none", IntentId(p.k) \notin p.stale
          PROVE  p.status = intent'[p.k].status
      <3>1. IntentId(q.k) \in Loaded(q)
        BY <2>1 DEF Loaded
      <3>2. IntentId(q.k) \notin q.stale /\ IntentId(q.k) \notin updated
        BY <2>1, <2>4, <3>1
      <3> QED
        BY <2>1, <2>2, <2>3, <2>4, <3>2 DEF PayCopy, Writes
    <2>5. p.phase = "requirements" => project' = "requirements"
      BY <2>1, <2>2 DEF PayCopy, Writes
    <2> QED
      BY <2>1, <2>2, <2>3, <2>4, <2>5 DEF PayCopy
  <1>4. StartCopy(req[x])'
    <2> SUFFICES ASSUME p.op = "start", ProjectId \notin p.stale PROVE project' = "hearing"
      BY DEF StartCopy
    <2>1. ProjectId \in Loaded(q)
      BY DEF Loaded
    <2>2. ProjectId \notin updated /\ ProjectId \notin q.stale
      BY <2>1
    <2> QED
      BY <1>0, <2>2 DEF Copies, StartCopy, Writes
  <1>5. TransitionCopy(req[x])'
    BY <1>0 DEF Copies, TransitionCopy
  <1> QED
    BY <1>1, <1>2, <1>3, <1>4, <1>5 DEF Copies

LEMMA WriteCopies ==
  ASSUME PaymentInv, NEW r \in Request, NEW updated \in SUBSET RowId, Finish(r, updated),
         Writes(updated)
  PROVE  req' \in [Request -> RequestState] /\ \A x \in Request : Copies(req[x])'
  <1>1. /\ req' \in [Request -> RequestState]
        /\ req'[r] = Idle
        /\ \A q \in Request \ {r} : Unmoved(req[q], req'[q], updated)
    BY FinishMoves DEF PaymentInv
  <1>2. \A x \in Request \ {r} : Copies(req[x])'
    BY <1>1, KeepCopies
  <1>3. Copies(req[r])'
    BY <1>1, IdleCopies DEF Copies, AcceptCopy, CreateCopy, PayCopy, StartCopy, TransitionCopy, Idle
  <1> QED
    BY <1>1, <1>2, <1>3

-----------------------------------------------------------------------------
(* Steps that leave contract, intents and project alone. *)

LEMMA QuietStep ==
  ASSUME PaymentInv, TypeOK', UNCHANGED <<contract, intent, project>>,
         \A x \in Request : Copies(req[x])'
  PROVE  PaymentInv'
  BY DEF PaymentInv, ActiveMeansBothAccepted, PaidMeansRequirements, PaymentsActive

\* A request begins: it has to be shown that its copy agrees with the rows.
LEMMA BeginStep ==
  ASSUME PaymentInv, NEW r \in Request, NEW q \in RequestState, Begin(r, q), Copies(q),
         UNCHANGED <<estimate, lapsed, contract, intent, project, provider, events, announced>>
  PROVE  PaymentInv'
  <1>1. TypeOK'
    BY BeginMoves DEF PaymentInv, TypeOK
  <1> QED
    BY <1>1, BeginCopies, QuietStep

\* The requests do not move.
LEMMA StillCopies ==
  ASSUME PaymentInv, UNCHANGED <<contract, intent, project, req>>
  PROVE  \A x \in Request : Copies(req[x])'
  BY DEF PaymentInv, Copies, AcceptCopy, CreateCopy, PayCopy, StartCopy, TransitionCopy

LEMMA TimeStep ==
  ASSUME PaymentInv, RunDaily \/ \E c \in Contract : Lapse(c)
  PROVE  PaymentInv'
  <1>1. TypeOK' /\ UNCHANGED <<contract, intent, project, req>>
    BY DEF PaymentInv, TypeOK, RunDaily, Lapse, EstimateStatus
  <1> QED
    BY <1>1, StillCopies, QuietStep

LEMMA AbortStep ==
  ASSUME PaymentInv, NEW r \in Request, Abort(r)
  PROVE  PaymentInv'
  <1>1. Finish(r, {}) /\ UNCHANGED <<estimate, lapsed, contract, intent, project, provider, events, announced>>
    BY DEF Abort
  <1>2. Writes({})
    BY <1>1 DEF Writes
  <1>3. req' \in [Request -> RequestState] /\ \A x \in Request : Copies(req[x])'
    BY <1>1, <1>2, WriteCopies
  <1>4. TypeOK'
    BY <1>1, <1>3 DEF PaymentInv, TypeOK
  <1> QED
    BY <1>1, <1>3, <1>4, QuietStep

LEMMA RestartStep ==
  ASSUME PaymentInv, Restart
  PROVE  PaymentInv'
  <1>1. /\ \A r \in Request : req'[r] = Idle
        /\ UNCHANGED <<estimate, lapsed, contract, intent, project, events, announced>>
    BY DEF Restart
  <1>2. TypeOK'
    BY <1>1, IdleCopies DEF Restart, PaymentInv, TypeOK
  <1>3. \A x \in Request : Copies(req[x])'
    BY <1>1, IdleCopies DEF Copies, AcceptCopy, CreateCopy, PayCopy, StartCopy, TransitionCopy, Idle
  <1> QED
    BY <1>1, <1>2, <1>3, QuietStep

\* Copies of requests that hold no intent and no contract as a condition.
LEMMA BeginTransitionStep ==
  ASSUME PaymentInv, NEW r \in Request, NEW c \in Contract, NEW a \in DOMAIN Transition,
         BeginTransition(r, c, a)
  PROVE  PaymentInv'
  <1> DEFINE q == [Idle EXCEPT !.op = "transition", !.want = a, !.c = c]
  <1>1. q \in RequestState /\ Copies(q)
    BY DEF Idle, RequestState, Copies, AcceptCopy, CreateCopy, PayCopy, StartCopy,
           TransitionCopy, Transition
  <1> QED
    BY <1>1, BeginStep DEF BeginTransition

LEMMA BeginStartStep ==
  ASSUME PaymentInv, NEW r \in Request, BeginStart(r)
  PROVE  PaymentInv'
  <1> DEFINE q == [Idle EXCEPT !.op = "start"]
  <1>1. q \in RequestState /\ Copies(q)
    BY DEF Idle, RequestState, Copies, AcceptCopy, CreateCopy, PayCopy, StartCopy,
           TransitionCopy, BeginStart
  <1> QED
    BY <1>1, BeginStep DEF BeginStart

LEMMA BeginAcceptStep ==
  ASSUME PaymentInv, NEW r \in Request, NEW c \in Contract, NEW party \in Party,
         BeginAccept(r, c, party)
  PROVE  PaymentInv'
  <1> DEFINE q == [Idle EXCEPT !.op = "accept", !.want = party, !.c = c,
                               !.agreed = contract[c][Other(party)]]
  <1>1. contract[c] \in ContractRow /\ contract[c][Other(party)] \in BOOLEAN
    BY DEF PaymentInv, TypeOK, ContractRow, Other
  <1>2. q \in RequestState
    BY <1>1 DEF Idle, RequestState, Party
  <1>3. q.op = "accept" /\ q.c = c /\ q.want = party /\ q.agreed = contract[c][Other(party)]
    BY DEF Idle
  <1>4. Copies(q)
    BY <1>3 DEF Copies, AcceptCopy, CreateCopy, PayCopy, StartCopy, TransitionCopy, BeginAccept
  <1> QED
    BY <1>2, <1>4, BeginStep DEF BeginAccept

LEMMA BeginCreateStep ==
  ASSUME PaymentInv, NEW r \in Request, NEW c \in Contract, NEW k \in Key, BeginCreate(r, k, c)
  PROVE  PaymentInv'
  <1> DEFINE q == [Idle EXCEPT !.op = "create", !.c = c, !.k = k]
  <1>1. q \in RequestState /\ Copies(q)
    BY DEF Idle, RequestState, Copies, AcceptCopy, CreateCopy, PayCopy, StartCopy,
           TransitionCopy, BeginCreate
  <1> QED
    BY <1>1, BeginStep DEF BeginCreate

LEMMA BeginConfirmStep ==
  ASSUME PaymentInv, NEW r \in Request, NEW k \in Key, BeginConfirm(r, k)
  PROVE  PaymentInv'
  <1> DEFINE q == [Idle EXCEPT !.op = "confirm", !.k = k, !.status = intent[k].status,
                               !.phase = project]
  <1>1. q \in RequestState
    BY DEF Idle, RequestState, BeginConfirm, PaymentInv, TypeOK
  <1>2. q.op = "confirm" /\ q.k = k /\ q.status = intent[k].status /\ q.phase = project
    BY DEF Idle
  <1>3. Copies(q)
    BY <1>2 DEF Copies, AcceptCopy, CreateCopy, PayCopy, StartCopy, TransitionCopy, BeginConfirm
  <1> QED
    BY <1>1, <1>3, BeginStep DEF BeginConfirm

LEMMA BeginWebhookStep ==
  ASSUME PaymentInv, NEW r \in Request, NEW e \in Event, NEW k \in Key, NEW outcome \in Outcome,
         BeginWebhook(r, e, k, outcome)
  PROVE  PaymentInv'
  <1> DEFINE q == [Idle EXCEPT !.op = "webhook", !.want = outcome, !.e = e, !.k = k,
                               !.status = intent[k].status, !.phase = project]
  <1>1. intent[k].status \in {"none"} \cup Live \cup Confirmable
    BY DEF PaymentInv, TypeOK, IntentRow
  <1>2. q \in RequestState
    BY <1>1 DEF Idle, RequestState, PaymentInv, TypeOK
  <1>3. /\ q.op = "webhook" /\ q.k = k /\ q.status = intent[k].status /\ q.phase = project
        /\ q.e = e /\ q.want = outcome
    BY DEF Idle
  <1>4. Copies(q)
    BY <1>3 DEF Copies, AcceptCopy, CreateCopy, PayCopy, StartCopy, TransitionCopy
  <1> QED
    BY <1>2, <1>4, BeginStep DEF BeginWebhook

\* The provider's answer is added to what the confirmation holds.
LEMMA ProviderConfirmStep ==
  ASSUME PaymentInv, NEW r \in Request, NEW outcome \in Outcome, ProviderConfirm(r, outcome)
  PROVE  PaymentInv'
  <1> DEFINE q == [req[r] EXCEPT !.op = "settle", !.want = outcome]
  <1>1. req[r] \in RequestState /\ req[r].op = "confirm" /\ Copies(req[r])
    BY DEF PaymentInv, TypeOK, ProviderConfirm
  <1>2. q \in RequestState
    BY <1>1 DEF RequestState
  <1>3. /\ q.op = "settle" /\ q.want = outcome /\ q.k = req[r].k /\ q.status = req[r].status
        /\ q.phase = req[r].phase /\ q.stale = req[r].stale
    BY <1>1 DEF RequestState
  <1>4. Copies(q)
    BY <1>1, <1>3 DEF Copies, AcceptCopy, CreateCopy, PayCopy, StartCopy, TransitionCopy
  <1>5. /\ req' \in [Request -> RequestState]
        /\ req'[r] = q
        /\ \A x \in Request \ {r} : req'[x] = req[x]
    BY <1>2 DEF ProviderConfirm, PaymentInv, TypeOK
  <1>6. UNCHANGED <<estimate, lapsed, contract, intent, project, provider, events, announced>>
    BY DEF ProviderConfirm
  <1>7. TypeOK'
    BY <1>5, <1>6 DEF PaymentInv, TypeOK
  <1>8. \A x \in Request : Copies(req'[x])
    BY <1>4, <1>5 DEF PaymentInv
  <1>9. \A x \in Request : Copies(req[x])'
    BY <1>6, <1>8 DEF Copies, AcceptCopy, CreateCopy, PayCopy, StartCopy, TransitionCopy
  <1> QED
    BY <1>6, <1>7, <1>9, QuietStep

LEMMA WriteTransitionStep ==
  ASSUME PaymentInv, NEW r \in Request, WriteTransition(r)
  PROVE  PaymentInv'
  <1> DEFINE c == req[r].c
             action == req[r].want
  <1>1. c \in Contract /\ action \in DOMAIN Transition
    BY DEF WriteTransition, PaymentInv, Copies, TransitionCopy
  <1>2. {EstimateId(c)} \in SUBSET RowId /\ Finish(r, {EstimateId(c)})
    BY <1>1 DEF WriteTransition, RowId, EstimateId
  <1>3. UNCHANGED <<lapsed, contract, intent, project, provider, events>>
    BY DEF WriteTransition
  <1>4. Writes({EstimateId(c)})
    BY <1>3 DEF Writes
  <1>5. req' \in [Request -> RequestState] /\ \A x \in Request : Copies(req[x])'
    BY <1>2, <1>4, WriteCopies
  <1>6. estimate' \in [Contract -> EstimateStatus]
    BY <1>1 DEF WriteTransition, PaymentInv, TypeOK, Transition, EstimateStatus
  <1>7. announced' \subseteq Announced
    <2>1. announced' \subseteq announced \cup {<<"estimate_submitted", c>>, <<"estimate_approved", c>>}
      BY <1>1 DEF WriteTransition
    <2>2. /\ <<"estimate_submitted", c>> \in Announced
          /\ <<"estimate_approved", c>> \in Announced
      BY <1>1 DEF Announced
    <2>3. announced \subseteq Announced
      BY DEF PaymentInv, TypeOK
    <2> QED
      BY <2>1, <2>2, <2>3
  <1>8. TypeOK'
    BY <1>3, <1>5, <1>6, <1>7 DEF PaymentInv, TypeOK
  <1> QED
    BY <1>3, <1>5, <1>8, QuietStep

-----------------------------------------------------------------------------
(* Steps that write contract, intents or project. *)

\* A contract is created in a row that nobody can have loaded.
LEMMA CreateContractStep ==
  ASSUME PaymentInv, NEW c \in Contract, CreateContract(c)
  PROVE  PaymentInv'
  <1>1. /\ contract[c] = NoContract
        /\ contract' = [contract EXCEPT ![c] = [NoContract EXCEPT !.status = "draft"]]
        /\ UNCHANGED <<estimate, lapsed, intent, project, provider, events, announced, req>>
    BY DEF CreateContract
  <1>2. contract \in [Contract -> ContractRow]
    BY DEF PaymentInv, TypeOK
  <1>3. contract'[c] = [status |-> "draft", customer |-> FALSE, provider |-> FALSE]
    BY <1>1, <1>2 DEF NoContract
  <1>4. \A d \in Contract \ {c} : contract'[d] = contract[d]
    BY <1>1, <1>2
  <1>5. contract' \in [Contract -> ContractRow]
    BY <1>1, <1>2 DEF NoContract, ContractRow
  <1>6. TypeOK'
    BY <1>1, <1>5 DEF PaymentInv, TypeOK
  <1>7. ActiveMeansBothAccepted'
    BY <1>3, <1>4 DEF PaymentInv, ActiveMeansBothAccepted, Awaiting
  <1>8. Writes({})
    BY <1>1, <1>3, <1>4 DEF Writes, NoContract
  <1>9. \A x \in Request : Copies(req[x])'
    <2> TAKE x \in Request
    <2>1. Unmoved(req[x], req'[x], {})
      BY <1>1 DEF Unmoved
    <2> QED
      BY <1>8, <2>1, KeepCopies
  <1>10. PaidMeansRequirements'
    BY <1>1 DEF PaymentInv, PaidMeansRequirements
  <1>11. PaymentsActive'
    BY <1>1, <1>4, <1>3 DEF PaymentInv, PaymentsActive, NoContract
  <1> QED
    BY <1>6, <1>7, <1>9, <1>10, <1>11 DEF PaymentInv

\* The acceptance: the row is as it was loaded, so the other party's is known.
LEMMA WriteAcceptStep ==
  ASSUME PaymentInv, NEW r \in Request, WriteAccept(r)
  PROVE  PaymentInv'
  <1> DEFINE c == req[r].c
             party == req[r].want
             row == [[contract[c] EXCEPT ![party] = TRUE] EXCEPT
                       !.status = IF req[r].agreed THEN "active" ELSE Awaiting(Other(party))]
             updated == {ContractId(c)}
  <1>1. /\ c \in Contract /\ party \in Party
        /\ contract[c].status \in {"draft", Awaiting(party)}
        /\ ~contract[c][party]
        /\ req[r].agreed = contract[c][Other(party)]
    BY DEF WriteAccept, Fresh, PaymentInv, Copies, AcceptCopy
  <1>2. /\ contract' = [contract EXCEPT ![c] = row]
        /\ Finish(r, updated)
        /\ UNCHANGED <<estimate, lapsed, intent, project, provider, events>>
    BY DEF WriteAccept
  <1>3. contract \in [Contract -> ContractRow] /\ contract[c] \in ContractRow
    BY <1>1 DEF PaymentInv, TypeOK
  <1>4. /\ row \in ContractRow
        /\ row[party] = TRUE
        /\ row[Other(party)] = contract[c][Other(party)]
        /\ row.status = IF contract[c][Other(party)] THEN "active" ELSE Awaiting(Other(party))
    BY <1>1, <1>3 DEF ContractRow, Party, Other, Awaiting
  <1> HIDE DEF row
  <1>5. contract'[c] = row /\ \A d \in Contract \ {c} : contract'[d] = contract[d]
    BY <1>1, <1>2, <1>3
  <1>6. announced' \subseteq Announced
    <2>1. announced' \subseteq announced \cup {<<"contract_activated", c>>}
      BY DEF WriteAccept
    <2> QED
      BY <1>1, <2>1 DEF Announced, PaymentInv, TypeOK
  <1>7. ActiveMeansBothAccepted'
    <2>1. /\ row.status = "active" <=> row.customer /\ row.provider
          /\ \A p \in Party : row.status = Awaiting(p) => ~row[p]
      BY <1>1, <1>4 DEF Party, Other, Awaiting
    <2> QED
      BY <1>5, <2>1 DEF PaymentInv, ActiveMeansBothAccepted
  <1>8. contract[c].status # "active"
    BY <1>1 DEF Awaiting
  <1>9. Writes(updated)
    BY <1>2, <1>5, <1>8 DEF Writes
  <1>10. updated \in SUBSET RowId
    BY <1>1 DEF RowId, ContractId
  <1>11. req' \in [Request -> RequestState] /\ \A x \in Request : Copies(req[x])'
    BY <1>2, <1>9, <1>10, WriteCopies
  <1>12. contract' \in [Contract -> ContractRow]
    BY <1>2, <1>3, <1>4
  <1>13. TypeOK'
    BY <1>2, <1>6, <1>11, <1>12 DEF PaymentInv, TypeOK
  <1>14. PaidMeansRequirements'
    BY <1>2 DEF PaymentInv, PaidMeansRequirements
  <1>15. PaymentsActive'
    BY <1>2, <1>5, <1>8 DEF PaymentInv, PaymentsActive
  <1> QED
    BY <1>7, <1>11, <1>13, <1>14, <1>15 DEF PaymentInv

LEMMA InsertIntentStep ==
  ASSUME PaymentInv, NEW r \in Request, InsertIntent(r)
  PROVE  PaymentInv'
  <1> DEFINE k == req[r].k
             row == [status |-> "requires_confirmation", contract |-> req[r].c]
  <1>1. k \in Key /\ req[r].c \in Contract /\ contract[req[r].c].status = "active"
    BY DEF InsertIntent, PaymentInv, Copies, CreateCopy
  <1>2. /\ intent[k] = NoIntent
        /\ intent' = [intent EXCEPT ![k] = row]
        /\ provider' = provider \cup {k}
        /\ Finish(r, {})
        /\ UNCHANGED <<estimate, lapsed, contract, project, events, announced>>
    BY DEF InsertIntent
  <1>3. intent \in [Key -> IntentRow] /\ row \in IntentRow
    BY <1>1 DEF PaymentInv, TypeOK, IntentRow, Live
  <1>4. intent'[k] = row /\ \A l \in Key \ {k} : intent'[l] = intent[l]
    BY <1>1, <1>2, <1>3
  <1>5. Writes({})
    BY <1>2, <1>4 DEF Writes, NoIntent
  <1>6. req' \in [Request -> RequestState] /\ \A x \in Request : Copies(req[x])'
    BY <1>2, <1>5, WriteCopies
  <1>7. intent' \in [Key -> IntentRow]
    BY <1>2, <1>3
  <1>8. TypeOK'
    BY <1>1, <1>2, <1>6, <1>7 DEF PaymentInv, TypeOK
  <1>9. PaidMeansRequirements'
    BY <1>1, <1>2, <1>4 DEF PaymentInv, PaidMeansRequirements, NoIntent
  <1>10. PaymentsActive'
    BY <1>1, <1>2, <1>4 DEF PaymentInv, PaymentsActive
  <1>11. ActiveMeansBothAccepted'
    BY <1>2 DEF PaymentInv, ActiveMeansBothAccepted
  <1> QED
    BY <1>6, <1>8, <1>9, <1>10, <1>11 DEF PaymentInv

\* start_project_estimate: the project is still in its first phase.
LEMMA WriteStartStep ==
  ASSUME PaymentInv, NEW r \in Request, WriteStart(r)
  PROVE  PaymentInv'
  <1>1. project = "hearing"
    BY DEF WriteStart, Fresh, PaymentInv, Copies, StartCopy
  <1>2. /\ project' = "estimate"
        /\ Finish(r, {ProjectId})
        /\ UNCHANGED <<estimate, lapsed, contract, intent, provider, events, announced>>
    BY DEF WriteStart
  <1>3. Writes({ProjectId}) /\ {ProjectId} \in SUBSET RowId
    BY <1>1, <1>2 DEF Writes, RowId
  <1>4. req' \in [Request -> RequestState] /\ \A x \in Request : Copies(req[x])'
    BY <1>2, <1>3, WriteCopies
  <1>5. TypeOK'
    BY <1>2, <1>4 DEF PaymentInv, TypeOK, Phase
  <1> QED
    BY <1>1, <1>2, <1>4, <1>5
       DEF PaymentInv, ActiveMeansBothAccepted, PaidMeansRequirements, PaymentsActive

\* What a settled payment writes, by a confirmation or a webhook.
LEMMA OutcomeStep ==
  ASSUME PaymentInv, NEW r \in Request, req[r].op \in {"settle", "webhook"},
         req[r].status \notin {"none", "succeeded"}, WriteOutcome(r),
         UNCHANGED contract
  PROVE  /\ intent' \in [Key -> IntentRow] /\ project' \in Phase
         /\ req' \in [Request -> RequestState]
         /\ \A x \in Request : Copies(req[x])'
         /\ ActiveMeansBothAccepted' /\ PaidMeansRequirements' /\ PaymentsActive'
         /\ \A k \in Key : intent[k].status = "succeeded" => intent'[k].status = "succeeded"
  <1> DEFINE q == req[r]
             k == req[r].k
  <1>1. /\ k \in Key /\ q.want \in Outcome /\ intent[k].status # "none"
        /\ IntentId(k) \notin q.stale => q.status = intent[k].status
        /\ q.phase = "requirements" => project = "requirements"
    BY DEF PaymentInv, Copies, PayCopy
  <1>2. /\ intent \in [Key -> IntentRow] /\ intent[k] \in IntentRow
        /\ project \in Phase
    BY <1>1 DEF PaymentInv, TypeOK
  <1>3. contract[intent[k].contract].status = "active" /\ intent[k].contract \in Contract
    BY <1>1 DEF PaymentInv, PaymentsActive
  <1>4. /\ q.stale \cap Updated(r) = {}
        /\ Finish(r, Updated(r))
        /\ intent' = IF IntentId(k) \in Updated(r)
                     THEN [intent EXCEPT ![k].status = q.want] ELSE intent
        /\ project' = IF Advances(r) THEN "requirements" ELSE project
    BY DEF WriteOutcome, Fresh
  <1>5. /\ IntentId(k) \in Updated(r) <=> q.want # q.status
        /\ Advances(r) <=> q.want = "succeeded" /\ q.phase # "requirements"
        /\ Advances(r) => ProjectId \in Updated(r)
        /\ Updated(r) \in SUBSET RowId
    BY <1>1, <1>3 DEF Updated, Advances, IntentId, ProjectId, RowId
  <1>6. \A l \in Key \ {k} : intent'[l] = intent[l]
    BY <1>1, <1>2, <1>4
  <1>7. /\ q.want = q.status => intent'[k] = intent[k]
        /\ q.want # q.status => /\ intent'[k] = [intent[k] EXCEPT !.status = q.want]
                                /\ intent[k].status = q.status
    BY <1>1, <1>2, <1>4, <1>5
  <1>8. /\ intent'[k] \in IntentRow
        /\ intent'[k].contract = intent[k].contract
        /\ intent'[k].status # "none"
    BY <1>1, <1>2, <1>7 DEF IntentRow, Outcome, Live, Confirmable
  <1>9. intent' \in [Key -> IntentRow]
    BY <1>2, <1>4, <1>6, <1>8
  <1>10. project' \in Phase /\ (project = "requirements" => project' = "requirements")
    BY <1>2, <1>4 DEF Phase
  <1>11. Writes(Updated(r))
    BY <1>4, <1>5, <1>6, <1>8, <1>10 DEF Writes
  <1>12. req' \in [Request -> RequestState] /\ \A x \in Request : Copies(req[x])'
    BY <1>4, <1>5, <1>11, WriteCopies
  <1>13. \A l \in Key : intent[l].status = "succeeded" => intent'[l].status = "succeeded"
    BY <1>6, <1>7
  <1>14. PaidMeansRequirements'
    <2>1. CASE q.want = "succeeded"
      <3>1. intent'[k].status = "succeeded"
        BY <1>2, <1>7, <2>1 DEF IntentRow
      <3>2. project' = "requirements"
        BY <1>1, <1>4, <1>5, <2>1
      <3> QED
        BY <1>1, <3>1, <3>2 DEF PaidMeansRequirements
    <2>2. CASE q.want # "succeeded"
      <3>1. project' = project
        BY <1>4, <1>5, <2>2
      <3>2. intent'[k].status = "succeeded" => intent[k].status = "succeeded"
        BY <1>2, <1>7, <2>2 DEF IntentRow
      <3> QED
        BY <1>6, <1>13, <3>1, <3>2 DEF PaymentInv, PaidMeansRequirements
    <2> QED
      BY <2>1, <2>2
  <1>15. PaymentsActive'
    BY <1>6, <1>8, <1>1 DEF PaymentInv, PaymentsActive
  <1>16. ActiveMeansBothAccepted'
    BY DEF PaymentInv, ActiveMeansBothAccepted
  <1> QED
    BY <1>9, <1>10, <1>12, <1>13, <1>14, <1>15, <1>16

\* confirm_contract_payment writes: it had loaded an intent that could be confirmed.
LEMMA SettleStep ==
  ASSUME PaymentInv, NEW r \in Request, Settle(r)
  PROVE  /\ PaymentInv'
         /\ \A k \in Key : intent[k].status = "succeeded" => intent'[k].status = "succeeded"
  <1>1. /\ req[r].k \in Key /\ req[r].want \in Outcome
        /\ req[r].status \in Confirmable
    BY DEF Settle, PaymentInv, Copies, PayCopy
  <1>2. /\ WriteOutcome(r) /\ req[r].op = "settle"
        /\ announced' = announced \cup {<<Announcement[req[r].want], req[r].k>>}
        /\ UNCHANGED <<estimate, lapsed, contract, provider, events>>
    BY DEF Settle
  <1>3. req[r].status \notin {"none", "succeeded"}
    BY <1>1 DEF Confirmable
  <1>4. /\ intent' \in [Key -> IntentRow] /\ project' \in Phase
        /\ req' \in [Request -> RequestState]
        /\ \A x \in Request : Copies(req[x])'
        /\ ActiveMeansBothAccepted' /\ PaidMeansRequirements' /\ PaymentsActive'
        /\ \A k \in Key : intent[k].status = "succeeded" => intent'[k].status = "succeeded"
    BY <1>2, <1>3, OutcomeStep
  <1>5. announced' \subseteq Announced
    BY <1>1, <1>2 DEF Announced, Announcement, Outcome, PaymentInv, TypeOK
  <1>6. TypeOK'
    BY <1>2, <1>4, <1>5 DEF PaymentInv, TypeOK
  <1> QED
    BY <1>4, <1>6 DEF PaymentInv

\* A webhook writes only an intent that it had loaded and that was not settled.
LEMMA ApplyWebhookStep ==
  ASSUME PaymentInv, NEW r \in Request, ApplyWebhook(r)
  PROVE  /\ PaymentInv'
         /\ \A k \in Key : intent[k].status = "succeeded" => intent'[k].status = "succeeded"
  <1>1. /\ req[r].op = "webhook" /\ req[r].e \in Event
        /\ events' = events \cup {req[r].e}
        /\ UNCHANGED <<estimate, lapsed, contract, provider, announced>>
    BY DEF ApplyWebhook, PaymentInv, Copies, PayCopy
  <1>2. events' \subseteq Event
    BY <1>1 DEF PaymentInv, TypeOK
  <1>3. CASE req[r].status \in {"none", "succeeded"}
    <2>1. Finish(r, {}) /\ UNCHANGED <<intent, project>>
      BY <1>3 DEF ApplyWebhook
    <2>2. Writes({})
      BY <1>1, <2>1 DEF Writes
    <2>3. req' \in [Request -> RequestState] /\ \A x \in Request : Copies(req[x])'
      BY <2>1, <2>2, WriteCopies
    <2>4. TypeOK'
      BY <1>1, <1>2, <2>1, <2>3 DEF PaymentInv, TypeOK
    <2> QED
      BY <1>1, <2>1, <2>3, <2>4, QuietStep
  <1>4. CASE req[r].status \notin {"none", "succeeded"}
    <2>1. WriteOutcome(r)
      BY <1>4 DEF ApplyWebhook
    <2>2. /\ intent' \in [Key -> IntentRow] /\ project' \in Phase
          /\ req' \in [Request -> RequestState]
          /\ \A x \in Request : Copies(req[x])'
          /\ ActiveMeansBothAccepted' /\ PaidMeansRequirements' /\ PaymentsActive'
          /\ \A k \in Key : intent[k].status = "succeeded" => intent'[k].status = "succeeded"
      BY <1>1, <1>4, <2>1, OutcomeStep
    <2>3. TypeOK'
      BY <1>1, <1>2, <2>2 DEF PaymentInv, TypeOK
    <2> QED
      BY <2>2, <2>3 DEF PaymentInv
  <1> QED
    BY <1>3, <1>4

-----------------------------------------------------------------------------
(* Every step. *)

LEMMA NextStep ==
  ASSUME PaymentInv, [Next]_vars
  PROVE  /\ PaymentInv'
         /\ \A k \in Key : intent[k].status = "succeeded" => intent'[k].status = "succeeded"
  <1>1. CASE UNCHANGED vars
    <2>1. UNCHANGED <<contract, intent, project, req>> /\ TypeOK'
      BY <1>1 DEF vars, PaymentInv, TypeOK
    <2> QED
      BY <2>1, StillCopies, QuietStep
  <1>2. CASE RunDaily \/ \E c \in Contract : Lapse(c)
    BY <1>2, TimeStep DEF RunDaily, Lapse
  <1>3. CASE Restart
    BY <1>3, RestartStep DEF Restart
  <1>4. ASSUME NEW c \in Contract, CreateContract(c)
        PROVE  PaymentInv' /\ UNCHANGED intent
    BY <1>4, CreateContractStep DEF CreateContract
  <1>5. ASSUME NEW r \in Request, NEW c \in Contract,
               \/ \E a \in DOMAIN Transition : BeginTransition(r, c, a)
               \/ \E party \in Party : BeginAccept(r, c, party)
               \/ \E k \in Key : BeginCreate(r, k, c)
        PROVE  PaymentInv' /\ UNCHANGED intent
    <2>1. ASSUME NEW a \in DOMAIN Transition, BeginTransition(r, c, a)
          PROVE  PaymentInv' /\ UNCHANGED intent
      BY <2>1, BeginTransitionStep DEF BeginTransition
    <2>2. ASSUME NEW party \in Party, BeginAccept(r, c, party)
          PROVE  PaymentInv' /\ UNCHANGED intent
      BY <2>2, BeginAcceptStep DEF BeginAccept
    <2>3. ASSUME NEW k \in Key, BeginCreate(r, k, c)
          PROVE  PaymentInv' /\ UNCHANGED intent
      BY <2>3, BeginCreateStep DEF BeginCreate
    <2> QED
      BY <1>5, <2>1, <2>2, <2>3
  <1>6. ASSUME NEW r \in Request,
               \/ \E k \in Key : BeginConfirm(r, k)
               \/ \E outcome \in Outcome : ProviderConfirm(r, outcome)
               \/ \E e \in Event, k \in Key, outcome \in Outcome : BeginWebhook(r, e, k, outcome)
        PROVE  PaymentInv' /\ UNCHANGED intent
    <2>1. ASSUME NEW k \in Key, BeginConfirm(r, k)
          PROVE  PaymentInv' /\ UNCHANGED intent
      BY <2>1, BeginConfirmStep DEF BeginConfirm
    <2>2. ASSUME NEW outcome \in Outcome, ProviderConfirm(r, outcome)
          PROVE  PaymentInv' /\ UNCHANGED intent
      BY <2>2, ProviderConfirmStep DEF ProviderConfirm
    <2>3. ASSUME NEW e \in Event, NEW k \in Key, NEW outcome \in Outcome,
                 BeginWebhook(r, e, k, outcome)
          PROVE  PaymentInv' /\ UNCHANGED intent
      BY <2>3, BeginWebhookStep DEF BeginWebhook
    <2> QED
      BY <1>6, <2>1, <2>2, <2>3
  <1>7. ASSUME NEW r \in Request,
               BeginStart(r) \/ WriteStart(r) \/ WriteTransition(r) \/ WriteAccept(r) \/ Abort(r)
        PROVE  PaymentInv' /\ UNCHANGED intent
    <2>1. CASE BeginStart(r)
      BY <2>1, BeginStartStep DEF BeginStart
    <2>2. CASE WriteStart(r)
      BY <2>2, WriteStartStep DEF WriteStart
    <2>3. CASE WriteTransition(r)
      BY <2>3, WriteTransitionStep DEF WriteTransition
    <2>4. CASE WriteAccept(r)
      BY <2>4, WriteAcceptStep DEF WriteAccept
    <2>5. CASE Abort(r)
      BY <2>5, AbortStep DEF Abort
    <2> QED
      BY <1>7, <2>1, <2>2, <2>3, <2>4, <2>5
  <1>8. ASSUME NEW r \in Request, InsertIntent(r)
        PROVE  /\ PaymentInv'
               /\ \A k \in Key : intent[k].status = "succeeded" => intent'[k] = intent[k]
    <2>1. /\ intent[req[r].k] = NoIntent
          /\ \A k \in Key \ {req[r].k} : intent'[k] = intent[k]
      BY <1>8 DEF InsertIntent, PaymentInv, TypeOK
    <2> QED
      BY <1>8, <2>1, InsertIntentStep DEF NoIntent
  <1>9. ASSUME NEW r \in Request, Settle(r) \/ ApplyWebhook(r)
        PROVE  /\ PaymentInv'
               /\ \A k \in Key : intent[k].status = "succeeded" => intent'[k].status = "succeeded"
    BY <1>9, SettleStep, ApplyWebhookStep
  <1>10. CASE \E c \in Contract : Lapse(c) \/ CreateContract(c)
    BY <1>2, <1>4, <1>10
  <1>11. ASSUME NEW r \in Request,
                \/ \E c \in Contract, a \in DOMAIN Transition : BeginTransition(r, c, a)
                \/ \E c \in Contract, party \in Party : BeginAccept(r, c, party)
                \/ \E c \in Contract, k \in Key : BeginCreate(r, k, c)
                \/ \E k \in Key : BeginConfirm(r, k)
                \/ \E outcome \in Outcome : ProviderConfirm(r, outcome)
                \/ \E e \in Event, k \in Key, outcome \in Outcome :
                     BeginWebhook(r, e, k, outcome)
                \/ BeginStart(r)
                \/ WriteTransition(r)
                \/ WriteAccept(r)
                \/ InsertIntent(r)
                \/ Settle(r)
                \/ ApplyWebhook(r)
                \/ WriteStart(r)
                \/ Abort(r)
         PROVE  /\ PaymentInv'
                /\ \A k \in Key : intent[k].status = "succeeded" => intent'[k].status = "succeeded"
    BY <1>5, <1>6, <1>7, <1>8, <1>9, <1>11
  <1> QED
    BY <1>1, <1>2, <1>3, <1>10, <1>11 DEF Next

-----------------------------------------------------------------------------
(* Theorems. *)

\* Whatever the interleaving of requests, failures and restarts, the copies that requests
\* hold agree with the rows or are stale, and the rows agree with each other.
THEOREM PaymentInvariant == Spec => []PaymentInv
  <1>1. PaymentInv /\ [Next]_vars => PaymentInv'
    BY NextStep
  <1> QED
    BY <1>1, InitInv, PTL DEF Spec

\* Rows and requests keep their types.
THEOREM PaymentTypes == Spec => []TypeOK
  <1>1. PaymentInv => TypeOK
    BY DEF PaymentInv
  <1> QED
    BY <1>1, PaymentInvariant, PTL

\* accept_contract: a contract is active exactly when both parties have accepted, also
\* when they accept at the same moment.
THEOREM ActivityAgrees == Spec => []ActiveMeansBothAccepted
  <1>1. PaymentInv => ActiveMeansBothAccepted
    BY DEF PaymentInv
  <1> QED
    BY <1>1, PaymentInvariant, PTL

\* confirm_contract_payment, process_mock_webhook and start_project_estimate: the
\* project is in its requirements phase exactly when a payment has succeeded.
THEOREM PaidAgrees == Spec => []PaidMeansRequirements
  <1>1. PaymentInv => PaidMeansRequirements
    BY DEF PaymentInv
  <1> QED
    BY <1>1, PaymentInvariant, PTL

\* confirm_contract_payment and process_mock_webhook: no late or repeated answer of
\* the provider overwrites a success.
THEOREM SuccessIsFinal == Spec => SucceededIsFinal
  <1>1. PaymentInv /\ [Next]_vars
          => [\A k \in Key : intent[k].status = "succeeded" => intent'[k].status = "succeeded"]_vars
    BY NextStep
  <1> QED
    BY <1>1, PaymentInvariant, PTL DEF Spec, SucceededIsFinal

-----------------------------------------------------------------------------
(* The component implements Purchase. *)

Agreed == {c \in Contract : estimate[c] = "approved"}
Accepted == [c \in Contract |-> {party \in Party : contract[c][party]}]
Charged == [k \in Key |-> intent[k].contract]
Paid == {k \in Key : intent[k].status = "succeeded"}

\* The statuses that a transition may find when it writes: run_daily may have expired a
\* draft under it, since that leaves the version column alone.
Expected(action) == IF action = "submit" THEN {"draft", "expired"} ELSE {"customer_review"}

EstimateCopy(q) ==
    q.op = "transition" /\ EstimateId(q.c) \notin q.stale => estimate[q.c] \in Expected(q.want)

\* A contract exists for an approved estimate only.
Backed == \A c \in Contract : contract[c].status # "none" => estimate[c] = "approved"

PurchaseInv ==
    /\ PaymentInv
    /\ \A r \in Request : EstimateCopy(req[r])
    /\ Backed

LEMMA OrderStutter ==
  ASSUME UNCHANGED <<Agreed, Accepted, Charged, Paid, project>>
  PROVE  UNCHANGED Order!vars
  BY DEF Order!vars, Agreed, Accepted, Charged, Paid

\* A request that is no transition, or the one it was.
SameTransition(p, q) ==
    \/ p.op # "transition"
    \/ p.op = q.op /\ p.c = q.c /\ p.want = q.want /\ q.stale \subseteq p.stale

LEMMA EstimateKept ==
  ASSUME PurchaseInv, PaymentInv', UNCHANGED estimate, Backed',
         \A r \in Request : SameTransition(req'[r], req[r])
  PROVE  PurchaseInv'
  <1>1. \A r \in Request : EstimateCopy(req[r])'
    BY DEF PurchaseInv, EstimateCopy, SameTransition
  <1> QED
    BY <1>1 DEF PurchaseInv

\* Steps that change requests only, and no transition.
LEMMA QuietOrder ==
  ASSUME PurchaseInv, PaymentInv', UNCHANGED <<estimate, contract, intent, project>>,
         \A r \in Request : SameTransition(req'[r], req[r])
  PROVE  PurchaseInv' /\ UNCHANGED Order!vars
  <1>1. Backed'
    BY DEF PurchaseInv, Backed
  <1>2. UNCHANGED <<Agreed, Accepted, Charged, Paid, project>>
    BY DEF Agreed, Accepted, Charged, Paid
  <1> QED
    BY <1>1, <1>2, EstimateKept, OrderStutter

LEMMA BegunSame ==
  ASSUME TypeOK, NEW r \in Request, NEW q, Begin(r, q), q.op # "transition"
  PROVE  \A x \in Request : SameTransition(req'[x], req[x])
  BY DEF Begin, TypeOK, SameTransition

LEMMA FinishedSame ==
  ASSUME TypeOK, NEW r \in Request, NEW updated \in SUBSET RowId, Finish(r, updated)
  PROVE  \A x \in Request : SameTransition(req'[x], req[x])
  <1>1. req'[r] = Idle /\ \A q \in Request \ {r} : Unmoved(req[q], req'[q], updated)
    BY FinishMoves
  <1>2. Idle.op # "transition"
    BY DEF Idle
  <1> QED
    BY <1>1, <1>2 DEF Unmoved, SameTransition

LEMMA BeginOrder ==
  ASSUME PurchaseInv, PaymentInv', NEW r \in Request,
         \/ \E c \in Contract, party \in Party : BeginAccept(r, c, party)
         \/ \E c \in Contract, k \in Key : BeginCreate(r, k, c)
         \/ \E k \in Key : BeginConfirm(r, k)
         \/ \E e \in Event, k \in Key, outcome \in Outcome : BeginWebhook(r, e, k, outcome)
         \/ BeginStart(r)
  PROVE  PurchaseInv' /\ UNCHANGED Order!vars
  <1>1. UNCHANGED <<estimate, contract, intent, project>>
    BY DEF BeginAccept, BeginCreate, BeginConfirm, BeginWebhook, BeginStart
  <1>2. \E q : Begin(r, q) /\ q.op # "transition"
    <2>1. CASE \E c \in Contract, party \in Party : BeginAccept(r, c, party)
      <3>1. PICK c \in Contract, party \in Party : BeginAccept(r, c, party)
        BY <2>1
      <3> DEFINE q == [Idle EXCEPT !.op = "accept", !.want = party, !.c = c,
                                   !.agreed = contract[c][Other(party)]]
      <3>2. Begin(r, q) /\ q.op # "transition"
        BY <3>1 DEF BeginAccept, Idle
      <3> QED
        BY <3>2
    <2>2. CASE \E c \in Contract, k \in Key : BeginCreate(r, k, c)
      <3>1. PICK c \in Contract, k \in Key : BeginCreate(r, k, c)
        BY <2>2
      <3> DEFINE q == [Idle EXCEPT !.op = "create", !.c = c, !.k = k]
      <3>2. Begin(r, q) /\ q.op # "transition"
        BY <3>1 DEF BeginCreate, Idle
      <3> QED
        BY <3>2
    <2>3. CASE \E k \in Key : BeginConfirm(r, k)
      <3>1. PICK k \in Key : BeginConfirm(r, k)
        BY <2>3
      <3> DEFINE q == [Idle EXCEPT !.op = "confirm", !.k = k, !.status = intent[k].status,
                                   !.phase = project]
      <3>2. Begin(r, q) /\ q.op # "transition"
        BY <3>1 DEF BeginConfirm, Idle
      <3> QED
        BY <3>2
    <2>4. CASE \E e \in Event, k \in Key, outcome \in Outcome : BeginWebhook(r, e, k, outcome)
      <3>1. PICK e \in Event, k \in Key, outcome \in Outcome : BeginWebhook(r, e, k, outcome)
        BY <2>4
      <3> DEFINE q == [Idle EXCEPT !.op = "webhook", !.want = outcome, !.e = e, !.k = k,
                                   !.status = intent[k].status, !.phase = project]
      <3>2. Begin(r, q) /\ q.op # "transition"
        BY <3>1 DEF BeginWebhook, Idle
      <3> QED
        BY <3>2
    <2>5. CASE BeginStart(r)
      <3> DEFINE q == [Idle EXCEPT !.op = "start"]
      <3>1. Begin(r, q) /\ q.op # "transition"
        BY <2>5 DEF BeginStart, Idle
      <3> QED
        BY <3>1
    <2> QED
      BY <2>1, <2>2, <2>3, <2>4, <2>5
  <1>3. \A x \in Request : SameTransition(req'[x], req[x])
    BY <1>2, BegunSame DEF PurchaseInv, PaymentInv
  <1> QED
    BY <1>1, <1>3, QuietOrder

LEMMA BeginTransitionOrder ==
  ASSUME PurchaseInv, PaymentInv', NEW r \in Request, NEW c \in Contract,
         NEW a \in DOMAIN Transition, BeginTransition(r, c, a)
  PROVE  PurchaseInv' /\ UNCHANGED Order!vars
  <1> DEFINE q == [Idle EXCEPT !.op = "transition", !.want = a, !.c = c]
  <1>1. UNCHANGED <<estimate, contract, intent, project>> /\ Begin(r, q)
    BY DEF BeginTransition
  <1>2. q.want = a /\ q.c = c
    BY DEF Idle
  <1> HIDE DEF q
  <1>3. req'[r] = q /\ \A x \in Request \ {r} : req'[x] = req[x]
    BY <1>1 DEF Begin, PurchaseInv, PaymentInv, TypeOK
  <1>4. estimate[c] \in Expected(a)
    BY DEF BeginTransition, Expected
  <1>5. \A x \in Request : EstimateCopy(req'[x])
    BY <1>2, <1>3, <1>4 DEF PurchaseInv, EstimateCopy
  <1>6. \A x \in Request : EstimateCopy(req[x])'
    BY <1>1, <1>5 DEF EstimateCopy
  <1>7. Backed' /\ UNCHANGED <<Agreed, Accepted, Charged, Paid, project>>
    BY <1>1 DEF PurchaseInv, Backed, Agreed, Accepted, Charged, Paid
  <1> QED
    BY <1>6, <1>7, OrderStutter DEF PurchaseInv

LEMMA QuietRequestOrder ==
  ASSUME PurchaseInv, PaymentInv',
         \/ Restart
         \/ \E c \in Contract : Lapse(c)
         \/ \E r \in Request : Abort(r) \/ \E outcome \in Outcome : ProviderConfirm(r, outcome)
  PROVE  PurchaseInv' /\ UNCHANGED Order!vars
  <1>1. UNCHANGED <<estimate, contract, intent, project>>
    BY DEF Restart, Lapse, Abort, ProviderConfirm
  <1>2. \A x \in Request : SameTransition(req'[x], req[x])
    <2>1. CASE Restart
      BY <2>1 DEF Restart, SameTransition, Idle
    <2>2. CASE \E c \in Contract : Lapse(c)
      BY <2>2 DEF Lapse, SameTransition
    <2>3. CASE \E r \in Request : Abort(r)
      <3>1. {} \in SUBSET RowId
        OBVIOUS
      <3> QED
        BY <2>3, <3>1, FinishedSame DEF Abort, PurchaseInv, PaymentInv
    <2>4. CASE \E r \in Request : \E outcome \in Outcome : ProviderConfirm(r, outcome)
      <3>1. PICK r \in Request, outcome \in Outcome : ProviderConfirm(r, outcome)
        BY <2>4
      <3>2. req'[r].op = "settle" /\ \A x \in Request \ {r} : req'[x] = req[x]
        BY <3>1 DEF ProviderConfirm, PurchaseInv, PaymentInv, TypeOK, RequestState
      <3> QED
        BY <3>2 DEF SameTransition
    <2> QED
      BY <2>1, <2>2, <2>3, <2>4
  <1> QED
    BY <1>1, <1>2, QuietOrder

LEMMA RunDailyOrder ==
  ASSUME PurchaseInv, PaymentInv', RunDaily
  PROVE  PurchaseInv' /\ UNCHANGED Order!vars
  <1>1. /\ \A c \in Contract : estimate'[c] = IF Expires(c) THEN "expired" ELSE estimate[c]
        /\ UNCHANGED <<contract, intent, project, req>>
    BY DEF RunDaily
  <1>2. \A c \in Contract : estimate[c] = "draft" \/ estimate'[c] = estimate[c]
    BY <1>1 DEF Expires
  <1>3. \A c \in Contract : estimate'[c] = "approved" <=> estimate[c] = "approved"
    BY <1>1 DEF Expires
  <1>4. \A r \in Request : EstimateCopy(req[r])'
    <2> TAKE r \in Request
    <2>1. req[r].op = "transition" => req[r].c \in Contract
      BY DEF PurchaseInv, PaymentInv, Copies, TransitionCopy
    <2>2. EstimateCopy(req[r])
      BY DEF PurchaseInv
    <2> QED
      BY <1>1, <2>1, <2>2 DEF EstimateCopy, Expected, Expires
  <1>5. Backed'
    BY <1>1, <1>3 DEF PurchaseInv, Backed
  <1>6. UNCHANGED <<Agreed, Accepted, Charged, Paid, project>>
    BY <1>1, <1>3 DEF Agreed, Accepted, Charged, Paid
  <1> QED
    BY <1>4, <1>5, <1>6, OrderStutter DEF PurchaseInv

\* Whoever writes an estimate has found it as the transition expects it, or expired by the
\* daily job; in both cases it is not approved yet.
LEMMA WriteTransitionOrder ==
  ASSUME PurchaseInv, PaymentInv', NEW r \in Request, WriteTransition(r)
  PROVE  PurchaseInv' /\ (Order!Next \/ UNCHANGED Order!vars)
  <1>1. PICK c \in Contract, a \in DOMAIN Transition :
          /\ c = req[r].c /\ a = req[r].want /\ estimate[c] \in Expected(a)
    BY DEF WriteTransition, Fresh, PurchaseInv, PaymentInv, Copies, TransitionCopy, EstimateCopy
  <1>2. /\ estimate' = [estimate EXCEPT ![c] = Transition[a]]
        /\ Finish(r, {EstimateId(c)})
        /\ UNCHANGED <<contract, intent, project>>
    BY <1>1 DEF WriteTransition
  <1>3. /\ estimate'[c] = Transition[a] /\ estimate[c] # "approved"
        /\ \A d \in Contract \ {c} : estimate'[d] = estimate[d]
    BY <1>1, <1>2 DEF PurchaseInv, PaymentInv, TypeOK, Expected
  <1>4. {EstimateId(c)} \in SUBSET RowId
    BY DEF EstimateId, RowId
  <1>5. req'[r] = Idle /\ \A q \in Request \ {r} : Unmoved(req[q], req'[q], {EstimateId(c)})
    BY <1>2, <1>4, FinishMoves DEF PurchaseInv, PaymentInv
  <1>6. \A x \in Request : EstimateCopy(req[x])'
    <2> TAKE x \in Request
    <2>1. CASE x = r
      BY <1>5, <2>1 DEF EstimateCopy, Idle
    <2>2. CASE x # r
      <3> SUFFICES ASSUME req'[x].op = "transition", EstimateId(req'[x].c) \notin req'[x].stale
                   PROVE  estimate'[req'[x].c] \in Expected(req'[x].want)
        BY DEF EstimateCopy
      <3>1. /\ req[x].op = "transition" /\ req[x].c = req'[x].c /\ req[x].want = req'[x].want
            /\ req[x].stale \subseteq req'[x].stale
            /\ {EstimateId(c)} \cap Loaded(req[x]) \subseteq req'[x].stale
        BY <1>5, <2>2 DEF Unmoved
      <3>2. req[x].c \in Contract
        BY <3>1 DEF PurchaseInv, PaymentInv, Copies, TransitionCopy
      <3>3. req[x].c # c
        BY <3>1 DEF Loaded
      <3> QED
        BY <1>3, <3>1, <3>2, <3>3 DEF PurchaseInv, EstimateCopy
    <2> QED
      BY <2>1, <2>2
  <1>7. Backed'
    BY <1>2, <1>3 DEF PurchaseInv, Backed
  <1>8. UNCHANGED <<Accepted, Charged, Paid, project>>
    BY <1>2 DEF Accepted, Charged, Paid
  <1>9. CASE a = "approve"
    <2>1. c \notin Agreed /\ Agreed' = Agreed \cup {c}
      BY <1>3, <1>9 DEF Agreed, Transition
    <2>2. Order!Agree(c)
      BY <1>8, <2>1 DEF Order!Agree, Agreed, Accepted, Charged, Paid
    <2> QED
      BY <1>6, <1>7, <2>2 DEF Order!Next, PurchaseInv
  <1>10. CASE a # "approve"
    <2>1. Transition[a] # "approved"
      BY <1>10 DEF Transition
    <2>2. Agreed' = Agreed
      BY <1>3, <2>1 DEF Agreed
    <2> QED
      BY <1>6, <1>7, <1>8, <2>2, OrderStutter DEF PurchaseInv
  <1> QED
    BY <1>9, <1>10

LEMMA CreateContractOrder ==
  ASSUME PurchaseInv, PaymentInv', NEW c \in Contract, CreateContract(c)
  PROVE  PurchaseInv' /\ UNCHANGED Order!vars
  <1>1. /\ contract[c] = NoContract /\ estimate[c] = "approved"
        /\ UNCHANGED <<estimate, intent, project, req>>
        /\ contract'[c] = [NoContract EXCEPT !.status = "draft"]
        /\ \A d \in Contract \ {c} : contract'[d] = contract[d]
    BY DEF CreateContract, PurchaseInv, PaymentInv, TypeOK
  <1>2. \A d \in Contract, party \in Party : contract'[d][party] = contract[d][party]
    BY <1>1 DEF NoContract, Party
  <1>3. Backed'
    BY <1>1 DEF PurchaseInv, Backed
  <1>4. \A x \in Request : SameTransition(req'[x], req[x])
    BY <1>1 DEF SameTransition
  <1>5. UNCHANGED <<Agreed, Accepted, Charged, Paid, project>>
    BY <1>1, <1>2 DEF Agreed, Accepted, Charged, Paid
  <1> QED
    BY <1>1, <1>3, <1>4, <1>5, EstimateKept, OrderStutter

LEMMA WriteAcceptOrder ==
  ASSUME PurchaseInv, PaymentInv', NEW r \in Request, WriteAccept(r)
  PROVE  PurchaseInv' /\ Order!Next
  <1>1. PICK c \in Contract, party \in Party :
          /\ c = req[r].c /\ party = req[r].want
          /\ contract[c].status \in {"draft", Awaiting(party)}
          /\ ~contract[c][party]
    BY DEF WriteAccept, Fresh, PurchaseInv, PaymentInv, Copies, AcceptCopy
  <1> DEFINE status == IF req[r].agreed THEN "active" ELSE Awaiting(Other(party))
             row == [[contract[c] EXCEPT ![party] = TRUE] EXCEPT !.status = status]
  <1>2. /\ contract' = [contract EXCEPT ![c] = row]
        /\ Finish(r, {ContractId(c)})
        /\ UNCHANGED <<estimate, intent, project>>
    BY <1>1 DEF WriteAccept
  <1>3. contract \in [Contract -> ContractRow]
    BY DEF PurchaseInv, PaymentInv, TypeOK
  <1>4. \A p \in Party : row[p] = (p = party \/ contract[c][p])
    <2> HIDE DEF status
    <2> QED
      BY <1>1, <1>3 DEF ContractRow, Party
  <1> HIDE DEF row
  <1>5. contract'[c] = row /\ \A d \in Contract \ {c} : contract'[d] = contract[d]
    BY <1>2, <1>3
  <1>6. estimate[c] = "approved"
    BY <1>1 DEF PurchaseInv, Backed, Awaiting
  <1>7. Backed'
    BY <1>2, <1>5, <1>6 DEF PurchaseInv, Backed
  <1>8. {ContractId(c)} \in SUBSET RowId
    BY DEF ContractId, RowId
  <1>9. PurchaseInv'
    BY <1>2, <1>7, <1>8, FinishedSame, EstimateKept DEF PurchaseInv, PaymentInv
  <1>10. Accepted' = [Accepted EXCEPT ![c] = @ \cup {party}]
    <2>1. {p \in Party : contract'[c][p]} = {p \in Party : contract[c][p]} \cup {party}
      BY <1>4, <1>5
    <2> QED
      BY <1>5, <2>1 DEF Accepted
  <1>11. c \in Agreed /\ party \notin Accepted[c]
    BY <1>1, <1>6 DEF Agreed, Accepted
  <1>12. UNCHANGED <<Agreed, Charged, Paid, project>>
    BY <1>2 DEF Agreed, Charged, Paid
  <1>13. Order!Accept(c, party)
    BY <1>10, <1>11, <1>12 DEF Order!Accept, Agreed, Accepted, Charged, Paid
  <1> QED
    BY <1>9, <1>13 DEF Order!Next

LEMMA InsertIntentOrder ==
  ASSUME PurchaseInv, PaymentInv', NEW r \in Request, InsertIntent(r)
  PROVE  PurchaseInv' /\ Order!Next
  <1>1. PICK c \in Contract, k \in Key :
          c = req[r].c /\ k = req[r].k /\ contract[c].status = "active"
    BY DEF InsertIntent, PurchaseInv, PaymentInv, Copies, CreateCopy
  <1> DEFINE row == [status |-> "requires_confirmation", contract |-> c]
  <1>2. /\ intent[k] = NoIntent
        /\ intent' = [intent EXCEPT ![k] = row]
        /\ Finish(r, {})
        /\ UNCHANGED <<estimate, contract, project>>
    BY <1>1 DEF InsertIntent
  <1>3. intent'[k] = row /\ \A l \in Key \ {k} : intent'[l] = intent[l]
    BY <1>2 DEF PurchaseInv, PaymentInv, TypeOK
  <1>4. Accepted[c] = Party
    <2>1. contract[c].customer /\ contract[c].provider
      BY <1>1 DEF PurchaseInv, PaymentInv, ActiveMeansBothAccepted
    <2> QED
      BY <2>1 DEF Accepted, Party
  <1>5. Charged[k] = None /\ Charged' = [Charged EXCEPT ![k] = c]
    <2>1. /\ intent'[k].contract = c /\ intent[k].contract = None
          /\ \A l \in Key \ {k} : intent'[l].contract = intent[l].contract
      BY <1>2, <1>3 DEF NoIntent
    <2> HIDE DEF row
    <2> QED
      BY <2>1 DEF Charged
  <1>6. Paid' = Paid
    BY <1>2, <1>3 DEF Paid, NoIntent
  <1>7. UNCHANGED <<Agreed, Accepted, project>>
    BY <1>2 DEF Agreed, Accepted
  <1>8. Order!Charge(k, c)
    BY <1>4, <1>5, <1>6, <1>7 DEF Order!Charge, Agreed, Accepted, Charged, Paid
  <1>9. PurchaseInv'
    <2>1. {} \in SUBSET RowId
      OBVIOUS
    <2>2. \A x \in Request : SameTransition(req'[x], req[x])
      BY <1>2, <2>1, FinishedSame DEF PurchaseInv, PaymentInv
    <2>3. Backed'
      BY <1>2 DEF PurchaseInv, Backed
    <2> QED
      BY <1>2, <2>2, <2>3, EstimateKept
  <1> QED
    BY <1>8, <1>9 DEF Order!Next

LEMMA WriteStartOrder ==
  ASSUME PurchaseInv, PaymentInv', NEW r \in Request, WriteStart(r)
  PROVE  PurchaseInv' /\ Order!Next
  <1>1. project = "hearing"
    BY DEF WriteStart, Fresh, PurchaseInv, PaymentInv, Copies, StartCopy
  <1>2. /\ project' = "estimate"
        /\ Finish(r, {ProjectId})
        /\ UNCHANGED <<estimate, contract, intent>>
    BY DEF WriteStart
  <1>3. Order!StartEstimate
    BY <1>1, <1>2 DEF Order!StartEstimate
  <1>4. {ProjectId} \in SUBSET RowId /\ Backed'
    BY <1>2 DEF RowId, PurchaseInv, Backed
  <1>5. PurchaseInv'
    BY <1>2, <1>4, FinishedSame, EstimateKept DEF PurchaseInv, PaymentInv
  <1> QED
    BY <1>3, <1>5 DEF Order!Next

\* The provider's answer: success is written with the project's phase, and only over an
\* intent that had not succeeded; anything else pays nothing.
LEMMA OutcomeOrder ==
  ASSUME PurchaseInv, PaymentInv', NEW r \in Request, req[r].op \in {"settle", "webhook"},
         req[r].status \notin {"none", "succeeded"}, WriteOutcome(r),
         UNCHANGED <<estimate, contract>>
  PROVE  PurchaseInv' /\ (Order!Next \/ UNCHANGED Order!vars)
  <1> DEFINE q == req[r]
             k == req[r].k
  <1>1. /\ k \in Key /\ intent[k].status # "none"
        /\ IntentId(k) \notin q.stale => q.status = intent[k].status
        /\ q.phase = "requirements" => project = "requirements"
    BY DEF PurchaseInv, PaymentInv, Copies, PayCopy
  <1>2. intent \in [Key -> IntentRow] /\ intent[k] \in IntentRow
    BY <1>1 DEF PurchaseInv, PaymentInv, TypeOK
  <1>3. intent[k].contract \in Contract /\ contract[intent[k].contract].status = "active"
    BY <1>1 DEF PurchaseInv, PaymentInv, PaymentsActive
  <1>4. /\ q.stale \cap Updated(r) = {}
        /\ Finish(r, Updated(r))
        /\ intent' = IF IntentId(k) \in Updated(r)
                     THEN [intent EXCEPT ![k].status = q.want] ELSE intent
        /\ project' = IF Advances(r) THEN "requirements" ELSE project
    BY DEF WriteOutcome, Fresh
  <1>5. /\ IntentId(k) \in Updated(r) <=> q.want # q.status
        /\ Advances(r) <=> q.want = "succeeded" /\ q.phase # "requirements"
        /\ Updated(r) \in SUBSET RowId
    BY <1>1, <1>3 DEF Updated, Advances, IntentId, ProjectId, RowId
  <1>6. \A l \in Key \ {k} : intent'[l] = intent[l]
    BY <1>1, <1>2, <1>4
  <1>7. /\ intent'[k].contract = intent[k].contract
        /\ q.want = q.status => intent'[k] = intent[k]
        /\ q.want # q.status => intent'[k].status = q.want /\ intent[k].status = q.status
    <2>1. CASE q.want = q.status
      BY <1>4, <1>5, <2>1
    <2>2. CASE q.want # q.status
      <3>1. intent'[k] = [intent[k] EXCEPT !.status = q.want] /\ intent[k].status = q.status
        BY <1>1, <1>2, <1>4, <1>5, <2>2
      <3> QED
        BY <1>2, <2>2, <3>1 DEF IntentRow
    <2> QED
      BY <2>1, <2>2
  <1>8. \A l \in Key : intent'[l].contract = intent[l].contract
    BY <1>6, <1>7
  <1>9. UNCHANGED <<Agreed, Accepted, Charged>>
    BY <1>8 DEF Agreed, Accepted, Charged
  <1>10. PurchaseInv'
    <2>1. \A x \in Request : SameTransition(req'[x], req[x])
      BY <1>4, <1>5, FinishedSame DEF PurchaseInv, PaymentInv
    <2>2. Backed'
      BY DEF PurchaseInv, Backed
    <2> QED
      BY <2>1, <2>2, EstimateKept
  <1>11. CASE q.want = "succeeded"
    <2>1. k \notin Paid /\ Paid' = Paid \cup {k}
      BY <1>1, <1>6, <1>7, <1>11 DEF Paid
    <2>2. project' = "requirements"
      BY <1>1, <1>4, <1>5, <1>11
    <2>3. Charged[k] # None
      BY <1>1, <1>3, NoneAssumption DEF Charged
    <2>4. ASSUME NEW l \in Key, l = k
          PROVE  Order!Pay(l)
      BY <1>9, <2>1, <2>2, <2>3, <2>4 DEF Order!Pay, Agreed, Accepted, Charged, Paid
    <2>5. \E l \in Key : Order!Pay(l)
      BY <1>1, <2>4
    <2> QED
      BY <1>10, <2>5 DEF Order!Next
  <1>12. CASE q.want # "succeeded"
    <2>1. project' = project
      BY <1>4, <1>5, <1>12
    <2>2. intent'[k].status = "succeeded" <=> intent[k].status = "succeeded"
      BY <1>7, <1>12
    <2>3. Paid' = Paid
      BY <1>6, <2>2 DEF Paid
    <2> QED
      BY <1>9, <1>10, <2>1, <2>3, OrderStutter
  <1> QED
    BY <1>11, <1>12

LEMMA SettleOrder ==
  ASSUME PurchaseInv, PaymentInv', NEW r \in Request, Settle(r)
  PROVE  PurchaseInv' /\ (Order!Next \/ UNCHANGED Order!vars)
  <1>1. req[r].op = "settle" /\ WriteOutcome(r) /\ UNCHANGED <<estimate, contract>>
    BY DEF Settle
  <1>2. req[r].status \notin {"none", "succeeded"}
    BY <1>1 DEF PurchaseInv, PaymentInv, Copies, PayCopy, Confirmable
  <1> QED
    BY <1>1, <1>2, OutcomeOrder

LEMMA ApplyWebhookOrder ==
  ASSUME PurchaseInv, PaymentInv', NEW r \in Request, ApplyWebhook(r)
  PROVE  PurchaseInv' /\ (Order!Next \/ UNCHANGED Order!vars)
  <1>1. req[r].op = "webhook" /\ UNCHANGED <<estimate, contract>>
    BY DEF ApplyWebhook
  <1>2. CASE req[r].status \in {"none", "succeeded"}
    <2>1. Finish(r, {}) /\ UNCHANGED <<intent, project>>
      BY <1>2 DEF ApplyWebhook
    <2>2. {} \in SUBSET RowId
      OBVIOUS
    <2>3. \A x \in Request : SameTransition(req'[x], req[x])
      BY <2>1, <2>2, FinishedSame DEF PurchaseInv, PaymentInv
    <2> QED
      BY <1>1, <2>1, <2>3, QuietOrder
  <1>3. CASE req[r].status \notin {"none", "succeeded"}
    <2>1. WriteOutcome(r)
      BY <1>3 DEF ApplyWebhook
    <2> QED
      BY <1>1, <1>3, <2>1, OutcomeOrder
  <1> QED
    BY <1>2, <1>3

LEMMA InitOrder == Init => PurchaseInv /\ Order!Init
  <1> SUFFICES ASSUME Init PROVE PurchaseInv /\ Order!Init
    OBVIOUS
  <1>1. \A r \in Request : EstimateCopy(req[r])
    BY DEF Init, EstimateCopy, Idle
  <1>2. Backed
    BY DEF Init, Backed, NoContract
  <1>3. Agreed = {} /\ Paid = {} /\ project = "hearing"
    BY DEF Init, Agreed, Paid, NoIntent
  <1>4. Accepted = [c \in Contract |-> {}]
    <2>1. \A c \in Contract, party \in Party : ~contract[c][party]
      BY DEF Init, NoContract, Party
    <2> QED
      BY <2>1 DEF Accepted
  <1>5. Charged = [k \in Key |-> None]
    BY DEF Init, Charged, NoIntent
  <1>6. Order!Init
    BY <1>3, <1>4, <1>5 DEF Order!Init, Agreed, Accepted, Charged, Paid
  <1> QED
    BY <1>1, <1>2, <1>6, InitInv DEF PurchaseInv

LEMMA NextOrder ==
  ASSUME PurchaseInv, [Next]_vars
  PROVE  PurchaseInv' /\ [Order!Next]_(Order!vars)
  <1>1. PaymentInv'
    BY NextStep DEF PurchaseInv
  <1>2. CASE UNCHANGED vars
    <2>1. \A x \in Request : SameTransition(req'[x], req[x])
      BY <1>2 DEF vars, SameTransition
    <2> QED
      BY <1>1, <1>2, <2>1, QuietOrder DEF vars
  <1>3. CASE RunDaily
    BY <1>1, <1>3, RunDailyOrder
  <1>4. CASE \/ Restart
             \/ \E c \in Contract : Lapse(c)
             \/ \E r \in Request : Abort(r) \/ \E outcome \in Outcome : ProviderConfirm(r, outcome)
    BY <1>1, <1>4, QuietRequestOrder
  <1>5. ASSUME NEW c \in Contract, CreateContract(c)
        PROVE  PurchaseInv' /\ [Order!Next]_(Order!vars)
    BY <1>1, <1>5, CreateContractOrder
  <1>6. ASSUME NEW r \in Request,
               \/ \E c \in Contract, party \in Party : BeginAccept(r, c, party)
               \/ \E c \in Contract, k \in Key : BeginCreate(r, k, c)
               \/ \E k \in Key : BeginConfirm(r, k)
               \/ \E e \in Event, k \in Key, outcome \in Outcome : BeginWebhook(r, e, k, outcome)
               \/ BeginStart(r)
        PROVE  PurchaseInv' /\ [Order!Next]_(Order!vars)
    BY <1>1, <1>6, BeginOrder
  <1>7. ASSUME NEW r \in Request, NEW c \in Contract, NEW a \in DOMAIN Transition,
               BeginTransition(r, c, a)
        PROVE  PurchaseInv' /\ [Order!Next]_(Order!vars)
    BY <1>1, <1>7, BeginTransitionOrder
  <1>8. ASSUME NEW r \in Request,
               \/ WriteTransition(r) \/ WriteAccept(r) \/ InsertIntent(r)
               \/ Settle(r) \/ ApplyWebhook(r) \/ WriteStart(r)
        PROVE  PurchaseInv' /\ [Order!Next]_(Order!vars)
    BY <1>1, <1>8, WriteTransitionOrder, WriteAcceptOrder, InsertIntentOrder, SettleOrder,
       ApplyWebhookOrder, WriteStartOrder
  <1> QED
    BY <1>2, <1>3, <1>4, <1>5, <1>6, <1>7, <1>8 DEF Next

\* app/services/billing.py as a whole: whatever requests, webhooks, the daily job and
\* restarts do, what was agreed, accepted, charged and paid grows in the order that
\* Purchase allows and is never taken back.
THEOREM PurchaseImplemented == Spec => ImplementsPurchase
  <1>1. PurchaseInv /\ [Next]_vars => PurchaseInv' /\ [Order!Next]_(Order!vars)
    BY NextOrder
  <1> QED
    BY <1>1, InitOrder, PTL DEF Spec, ImplementsPurchase, Order!Spec
=============================================================================
