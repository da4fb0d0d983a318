--------------------------- MODULE EstimateDocuments ---------------------------
(***************************************************************************)
(* What an estimate charges and which documents a project gets:            *)
(* create_estimate of app/services/billing.py and generate_document of     *)
(* app/services/communications.py.  They meet in the project's artifacts:  *)
(* a generated document is one, and the next estimate charges for it.      *)
(*                                                                         *)
(* An estimate is created in one transaction that reads the completed AI   *)
(* runs, and later the artifacts, as they are committed at that moment.    *)
(* A document's transaction searches for a completed job of its payload,   *)
(* puts the content into the artifact storage, which is no part of the     *)
(* transaction, and commits the job with its artifact.  The unique         *)
(* constraint uq_document_jobs_idempotency does not hold back two requests *)
(* that have both found nothing: its column template_id is NULL in every   *)
(* row this code inserts, and NULLs are distinct in a unique constraint.   *)
(*                                                                         *)
(* Amounts are integers, in quanta of 0.00000001.  An estimate has at most *)
(* one contract, so the two share a name; the races of their approval and  *)
(* acceptance are those of ContractPayment.                                *)
(***************************************************************************)
EXTENDS Integers, FiniteSets, Functions

CONSTANTS
    Estimate,
    Run, Cost,          \* AI runs of the project, and the calculated cost of each
    Upload,             \* artifacts that are no generated documents
    OrganizationRule,   \* enabled pricing rules: the price of an artifact type, or None
    SystemRule,
    DefaultPrice,       \* DEFAULT_ARTIFACT_PRICES
    Input,              \* the item lists clients send with an estimate
    Format,             \* output formats
    Attempt,            \* requests to generate a document
    None

Type == {"estimate", "detailed_design", "basic_design", "uploaded"}

ASSUME PricesAssumption ==
    /\ Cost \in [Run -> Nat]
    /\ OrganizationRule \in [Type -> Nat \cup {None}]
    /\ SystemRule \in [Type -> Nat \cup {None}]
    /\ DefaultPrice \in [Type -> Nat]

\* An item: what it amounts to, whether it is a tax item, and the AI run or the artifact
\* it names as its source.
Item == [amount : Int, tax : BOOLEAN, names : Run \cup Upload \cup Attempt \cup {None}]

\* A request carries finitely many items.
ASSUME InputAssumption ==
    /\ Input \subseteq SUBSET Item
    /\ \A given \in Input : IsFiniteSet(given)

VARIABLES
    completed,  \* AI runs that are completed
    artifacts,  \* committed artifacts of the project
    estimate,   \* Estimate with its items
    contract,   \* whether there is a contract of the estimate
    attempt,    \* DocumentGenerationJob of each request
    stored      \* the attempts whose content is in the storage

vars == <<completed, artifacts, estimate, contract, attempt, stored>>

-----------------------------------------------------------------------------
\* A document shows an estimate, the contract of one, or the project.
Source == ({"estimate", "contract"} \X Estimate) \cup {<<"basic_design", None>>}
Artifact == Upload \cup Attempt

\* The first three are a transaction that creates the estimate.
Creating == {"given", "runs", "artifacts"}
EstimateRow == [status : {"none"} \cup Creating \cup {"draft", "customer_review", "approved", "rejected"},
                given : Input \cup {{}}, runs : SUBSET Run, artifacts : SUBSET Artifact,
                subtotal : Nat, tax : Nat, total : Nat]
AttemptRow == [status : {"none", "processing", "stored", "completed", "refused"},
               source : Source, format : Format,
               before : SUBSET Attempt]     \* history: completed when it began

NoEstimate == [status |-> "none", given |-> {}, runs |-> {}, artifacts |-> {},
               subtotal |-> 0, tax |-> 0, total |-> 0]

TypeOK ==
    /\ completed \subseteq Run
    /\ artifacts \subseteq Artifact
    /\ estimate \in [Estimate -> EstimateRow]
    /\ contract \subseteq Estimate
    /\ attempt \in [Attempt -> AttemptRow]
    /\ stored \subseteq Attempt

Init ==
    /\ completed = {}
    /\ artifacts = {}
    /\ estimate = [e \in Estimate |-> NoEstimate]
    /\ contract = {}
    /\ attempt \in [Attempt -> [status : {"none"}, source : Source, format : Format, before : {{}}]]
    /\ stored = {}

\* apply_ai_cost has set the calculated cost of a run that is completed.
CompleteRun(r) ==
    /\ completed' = completed \cup {r}
    /\ UNCHANGED <<artifacts, estimate, contract, attempt, stored>>

CreateArtifact(a) ==
    /\ artifacts' = artifacts \cup {a}
    /\ UNCHANGED <<completed, estimate, contract, attempt, stored>>

-----------------------------------------------------------------------------
(* Prices. *)

ArtifactType(a) ==
    IF a \in Upload THEN "uploaded"
    ELSE CASE attempt[a].source[1] = "contract" -> "detailed_design"
           [] OTHER -> attempt[a].source[1]

\* resolve_artifact_pricing and calculate_artifact_value, with all counts 0
ArtifactPrice(type) ==
    CASE OrganizationRule[type] # None -> OrganizationRule[type]
      [] OrganizationRule[type] = None /\ SystemRule[type] # None -> SystemRule[type]
      [] OTHER -> DefaultPrice[type]

\* calculate_tax: ten per cent, rounded half up
Tax(subtotal) == (subtotal + 5) \div 10

\* Mutant of Subtotal: what was charged before the artifacts were read.
SubtotalWithoutArtifacts(row) ==
    SumFunction([i \in {j \in row.given : ~j.tax} |-> i.amount])
    + SumFunction([r \in row.runs |-> Cost[r]])

\* recalculate_estimate: the sum of the items that are no tax items
Subtotal(row) ==
    SumFunction([i \in {j \in row.given : ~j.tax} |-> i.amount])
    + SumFunction([r \in row.runs |-> Cost[r]])
    + SumFunction([a \in row.artifacts |-> ArtifactPrice(ArtifactType(a))])

-----------------------------------------------------------------------------
(* Creating an estimate. *)

Put(e, row) ==
    /\ estimate' = [estimate EXCEPT ![e] = row]
    /\ UNCHANGED <<completed, artifacts, contract, attempt, stored>>

Create(e, given) ==
    /\ estimate[e].status = "none"
    /\ Put(e, [NoEstimate EXCEPT !.status = "given", !.given = given])

\* What the client has given an item for is not charged again.
Named(e) == {i.names : i \in estimate[e].given}

\* generate_ai_run_items
ChargeRuns(e) ==
    /\ estimate[e].status = "given"
    /\ Put(e, [estimate[e] EXCEPT !.status = "runs", !.runs = completed \ Named(e)])

\* generate_artifact_value_items
ChargeArtifacts(e) ==
    /\ estimate[e].status = "runs"
    /\ Put(e, [estimate[e] EXCEPT !.status = "artifacts", !.artifacts = artifacts \ Named(e)])

\* include_ai_runs or include_artifacts is false.
SkipCharge(e) ==
    /\ estimate[e].status \in {"given", "runs"}
    /\ Put(e, [estimate[e] EXCEPT !.status = IF @ = "given" THEN "runs" ELSE "artifacts"])

\* Mutant of Payable: discounts may exceed what they discount.
PayableNegative(row) == TRUE

Payable(row) == Subtotal(row) >= 0

CommitEstimate(e) ==
    LET row == estimate[e]
        subtotal == Subtotal(row)
    IN  /\ row.status = "artifacts"
        /\ Payable(row)
        /\ Put(e, [row EXCEPT !.status = "draft", !.subtotal = subtotal,
                              !.tax = Tax(subtotal), !.total = subtotal + Tax(subtotal)])

\* INVALID_AMOUNT or a database error
AbortEstimate(e) ==
    /\ estimate[e].status \in Creating
    /\ Put(e, NoEstimate)

\* transition_estimate
Transition(e, from, to) ==
    /\ <<from, to>> \in {<<"draft", "customer_review">>, <<"customer_review", "approved">>,
                         <<"customer_review", "rejected">>}
    /\ estimate[e].status = from
    /\ Put(e, [estimate[e] EXCEPT !.status = to])

CreateContract(e) ==
    /\ estimate[e].status = "approved"
    /\ contract' = contract \cup {e}
    /\ UNCHANGED <<completed, artifacts, estimate, attempt, stored>>

-----------------------------------------------------------------------------
(* Generating a document. *)

Finished == {a \in Attempt : attempt[a].status = "completed"}

SamePayload(a, b) ==
    attempt[a].source = attempt[b].source /\ attempt[a].format = attempt[b].format

\* Mutant of Generated: the search looks for jobs that are being processed.
GeneratedProcessing(a) ==
    \E b \in Attempt : attempt[b].status \in {"processing", "stored"} /\ SamePayload(a, b)

\* The search for a completed job of the payload: source and format.
Generated(a) == \E b \in Finished : SamePayload(a, b)

\* An estimate has to be approved, a contract to exist.
Available(source) ==
    /\ source[1] = "estimate" => estimate[source[2]].status = "approved"
    /\ source[1] = "contract" => source[2] \in contract

\* The search, then the inserts of the job and its artifact; or a refusal.
Begin(a) ==
    /\ attempt[a].status = "none"
    /\ attempt' = [attempt EXCEPT ![a] =
         IF ~Generated(a) /\ Available(@.source)
         THEN [@ EXCEPT !.status = "processing", !.before = Finished]
         ELSE [@ EXCEPT !.status = "refused"]]
    /\ UNCHANGED <<completed, artifacts, estimate, contract, stored>>

\* put_object, under the key of a new version
Store(a) ==
    /\ attempt[a].status = "processing"
    /\ attempt' = [attempt EXCEPT ![a].status = "stored"]
    /\ stored' = stored \cup {a}
    /\ UNCHANGED <<completed, artifacts, estimate, contract>>

\* Job, artifact and version; the event document_generated is committed with them.
Commit(a) ==
    /\ attempt[a].status = "stored"
    /\ attempt' = [attempt EXCEPT ![a].status = "completed"]
    /\ artifacts' = artifacts \cup {a}
    /\ UNCHANGED <<completed, estimate, contract, stored>>

\* A failure of rendering, storage or database: what has been stored stays.
Abort(a) ==
    /\ attempt[a].status \in {"processing", "stored"}
    /\ attempt' = [attempt EXCEPT ![a].status = "refused"]
    /\ UNCHANGED <<completed, artifacts, estimate, contract, stored>>

-----------------------------------------------------------------------------
Billing(e) ==
    \/ \E given \in Input : Create(e, given)
    \/ ChargeRuns(e)
    \/ ChargeArtifacts(e)
    \/ SkipCharge(e)
    \/ CommitEstimate(e)
    \/ AbortEstimate(e)
    \/ \E from, to \in {"draft", "customer_review", "approved", "rejected"} : Transition(e, from, to)
    \/ CreateContract(e)

Next ==
    \/ \E r \in Run : CompleteRun(r)
    \/ \E a \in Upload : CreateArtifact(a)
    \/ \E e \in Estimate : Billing(e)
    \/ \E a \in Attempt : Begin(a) \/ Store(a) \/ Commit(a) \/ Abort(a)

Spec == Init /\ [][Next]_vars

-----------------------------------------------------------------------------
(* Properties. *)

Committed == {e \in Estimate : estimate[e].status \notin {"none"} \cup Creating}

GivenFor(e, x) == \E i \in estimate[e].given : i.names = x

\* The amounts of an estimate are those of its items, whatever is completed, generated
\* and charged elsewhere while it is created and after; what the client has given an item
\* for is charged once.
AmountsMatchItems ==
    \A e \in Committed :
      LET row == estimate[e]
          priced == SumFunction([a \in row.artifacts |->
                      IF GivenFor(e, a) THEN 0 ELSE ArtifactPrice(ArtifactType(a))])
          used == SumFunction([r \in row.runs |-> IF GivenFor(e, r) THEN 0 ELSE Cost[r]])
          sent == SumFunction([i \in row.given |-> IF i.tax THEN 0 ELSE i.amount])
      IN  /\ row.subtotal = sent + used + priced
          /\ row.total = row.subtotal + row.tax
          /\ 10 * row.tax - row.subtotal \in -4..5

\* Two documents of one payload were generated at the same time: a request that begins
\* after one is completed is refused, also when the source has changed since.
RepeatsNeedOverlap ==
    \A a, b \in Finished : a # b /\ SamePayload(a, b) => a \notin attempt[b].before
=============================================================================
