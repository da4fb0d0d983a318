# TLA+ models of System Development Automation

The program is a portal in which a customer orders a software system and an
organisation delivers it: estimate, contract, payment, artifacts with reviews,
a gated staging deployment, maintenance, and worker processes that execute
queued jobs. It is a FastAPI application (`src/app/api`, `src/app/services`)
and workers (`src/app/workers`) over one PostgreSQL database. No component
calls another over a network; everything interacts through rows, and what can
go wrong is what several transactions do to the same rows, and what a process
does not finish. That is what the modules here describe.

- [1. Inventory](#1-inventory)
- [2. Modules: state and actions against the code](#2-modules)
- [3. Runs and bounds](#3-runs-and-bounds)
- [4. Fairness](#4-fairness)
- [5. What is proved](#5-what-is-proved)
- [6. Where code and documents disagree](#6-where-code-and-documents-disagree)
- [7. Abstractions and what is not modelled](#7-abstractions)
- [8. Plan](#8-plan)

## 1. Inventory

| Component | State | Operations | What is hard | What makes it correct |
|---|---|---|---|---|
| Durable job queue (`workers/outbox.py`, `runner.py`) | rows of `outbox_events`; per process the claimed job, the heartbeat thread's `lost` flag | claim, heartbeat, handler transaction, completion, failure, dead-letter retry | leases against slow workers, crashes, unknown commit outcomes, reads without locks | no job orphaned, none completed without its effect, completion fenced, every job settles |
| Estimate, contract, payment (`services/billing.py` to line 655, webhooks) | estimates, contracts, payment intents, payment events, the project's phase, the provider's memory | submit / approve / reject, accept, create intent, confirm, webhook, daily expiry | requests that hold stale rows while they call the provider, repeated and reordered webhooks, restarts | a contract active exactly when both parties accepted, success final, phase and payment agree, nobody charged for what both have not accepted |
| Staging deployment gate (`services/deployment.py`, `approvals.py`, `terraform_executor.py`, `fake_terraform_apply.py`) | deployment plans, protected approvals, execution records | create (and supersede) plan, security check, ask approval, decide, request execution, prepare, execute | rows without version columns, a row lock that does not refresh what was loaded | two people, one deployable plan, applied once |
| Resumable jobs (`workers/workflows.py`, `documents.py`, `snapshots.py`, `services/storage.py`) | immutable snapshot, step ledger, artifact version, AI run, two files per stored object | execute (again) after a crash at any point | files and rows are not one transaction; a second execution of a finished job | every version has its complete file with the recorded hash; executions do not regress the artifact or undo a decision |
| Artifact review (`services/workflow.py`, `automation.py`) | artifacts, versions, reviews, comments, upload intents | add version, submit, review, comment, approve, request changes, auto-revise | max + 1 version numbers, comment against approval, new version of an approved artifact | what is approved was reviewed and has no open critical comment |
| Maintenance (`services/billing.py` 655-910) | maintenance contracts, status events, deletion requests | create, payment failed, daily advance, recover, two approvals, cancel | tiers over time, repeated delinquency, ageing and approval against recovery | every period granted in full, nothing approved for deletion without two people |
| Notifications, e-mail (`services/communications.py`, `workers/notifications.py`) | preferences, notifications, deliveries, e-mails | create, deliver, read, send, resend | retry owned by two layers, a row read while it is being delivered, e-mail sent by request and by worker | attempts within their limit, one send per key, reading is not undone by a delivery under way |
| Chat, change requests (`services/communications.py`) | rooms, messages, attachments, change requests, impacts | post, edit, delete, attach, create, analyze, decide | edit against delete, two analyses, approve against reject | deletion final, one analysis, announced is decided |
| Documents and amounts (`generate_document`, `create_estimate`) | generation jobs, stored files, artifacts, estimate items | create estimate, generate document | amounts read in several statements, idempotency by search and insert | amounts agree with items, repeats need overlap |
| Pure rules | none | delivery time, security gate of a plan, AI minutes | midnight, rounding, boundaries | equal to a reference definition |
| Access control, list endpoints, health file, Terraform CLI runner, disabled apply boundary, front end, infrastructure | fixed tables or none | read-only, refusals, I/O | | out of scope, see section 7 |

How they interact: the API calls the services in one transaction per request
(`db/session.py`). Services of every component call `emit_project_event`,
which stores an outbox row and notifications in the caller's transaction and
marks the row `processed` at once, so those rows never reach a worker. Worker
jobs are rows of the same table in status `queued`. `start_project_estimate`
(workflow) and `confirm_contract_payment` (billing) both write the project's
phase, and so does a webhook. The daily job (`workers/maintenance.py`) expires
estimates behind the API's back. Approvals connect plans to executions.

Generated documents are artifacts, and `create_estimate` charges for the
artifacts of its project.

`PROJECT.json` lists, under `hazards`, each place where this code is hard to
test, with the properties that watch it.

## 2. Modules

| Module | Models | |
|---|---|---|
| `OutboxWorker` | the queue and its workers | core |
| `AtLeastOnceQueue` | what the queue promises, without workers, leases or time | abstract specification |
| `OutboxWorkerProofs` | theorems about `OutboxWorker`, first under any timing, then with timely workers | proofs |
| `ContractPayment` | estimate, contract, payment, webhook, phase | |
| `Purchase` | what ordering a system promises, without requests, webhooks or row versions | abstract specification |
| `DeploymentGate` | plan, approval, execution | |
| `ArtifactReview` | versions, reviews, comments, approval of an artifact | |
| `ResumableJob` | what executing a document or AI job does to an artifact and its files | |
| `VersionLog` | what executing jobs promises for the versions of an artifact | abstract specification |
| `Maintenance` | one maintenance contract and its deletion requests | |
| `Notifications` | one notification with its delivery, one document e-mail | |
| `ProjectChat` | messages and change requests of a project | |
| `EstimateDocuments` | amounts of estimates, documents on request | |
| `Rules` | pure functions against references | |
| `ContractPaymentProofs`, `DeploymentGateProofs`, `ResumableJobProofs`, `ArtifactReviewProofs`, `MaintenanceProofs` | theorems about the modules they are named after | proofs |
| `CommunicationsProofs` | theorems about `ProjectChat` and `Notifications` | proofs |
| `ComputationProofs` | theorems about `EstimateDocuments` and `Rules`; sums over finite sets | proofs |
| `MC...`, one per module above that is checked | values of constants and symmetry sets for TLC | |

All modules treat the database the same way. PostgreSQL runs at READ COMMITTED
and SQLAlchemy writes, at the flush, an UPDATE by primary key of the columns
that differ from what was loaded. Hence a statement that re-checks its own
condition under the row lock (a claim with SKIP LOCKED, a compare-and-set) is
one action; a transaction that reads a row and writes it later is two, and
other transactions commit in between. Definitions named "Mutant of ..." are
deliberately wrong variants; no specification uses them.

### OutboxWorker

`row[j]` is a row of `outbox_events` (status, locked_by, lease, attempt_count,
delay until `available_at`), `proc[w]` the local state of a worker in
`run_once`, `pending[a]` the row that an administrator's retry has read.

| Action | Code |
|---|---|
| `Claim` | `outbox.claim`: eligible rows, lease, `attempt_count + 1` |
| `Heartbeat`, `HeartbeatError` | `LeaseHeartbeat._run`, `heartbeat_owned` |
| `BeginHandler`, `HandlerRaises`, `HandlerReturns`, `CommitHandler`, `CommitError` | the handler's transaction, with the two looks at `heartbeat.lost` and a commit whose outcome may be unknown |
| `CompleteOwned`, `CompleteError` | `complete_owned` and its transaction |
| `ReadForFailure`, `RecordFailure` | the except clause: read and check, then `fail()` and the UPDATE |
| `Crash` | the process dies anywhere and is started again under the same id |
| `RetryRead`, `RetryWrite` | `POST /dead-letters/{job_id}/retry` |
| `Tick` | a unit of time passes for leases and retry delays |

`latest`, `effects` and `lapses` are history variables: who claimed the job
last, how often its handler's transaction committed, and how many events
occurred that justify another execution (crash of the owner, lease lost under
it, unknown outcome of a commit, administrative retry). `AtLeastOnceQueue` has
only a phase per job (open, done, buried) and the set of jobs whose effect is
applied; `OutboxWorker` maps to it by status and `effects`.

### ContractPayment

One record per row: estimate status, contract (status and two acceptances),
payment intent (named by its idempotency key), project phase; `provider` is the
memory of the mock payment provider, which a `Restart` empties; `events` are
the rows of `payment_events`; `announced` what `emit_project_event` recorded.
These rows have a version column. Instead of counting versions, each request in
`req` carries the set `stale` of rows that it has loaded and another
transaction has updated since: an update of such a row is a VERSION_CONFLICT
(`Fresh`), which is an `Abort`.

| Action | Code |
|---|---|
| `BeginTransition`, `WriteTransition` | `transition_estimate` |
| `BeginStart`, `WriteStart` | `start_project_estimate` |
| `CreateContract` | `create_contract` |
| `BeginAccept`, `WriteAccept` | `accept_contract` |
| `BeginCreate`, `InsertIntent` | `create_contract_payment_intent` |
| `BeginConfirm`, `ProviderConfirm`, `WriteOutcome` | `confirm_contract_payment` |
| `BeginWebhook`, `ApplyWebhook` | `process_mock_webhook` |
| `RunDaily`, `Lapse` | `run_daily`; the day on which an estimate's validity ends |
| `Abort`, `Restart` | any rollback; a restart of the API process |

`Purchase` knows no requests. An estimate is agreed, a party accepts what was
agreed, a charge is made for what both have accepted, and paying a charge moves
the project on in the same step; nothing of this is ever taken back.
`ContractPayment` maps to it by the approved estimates, the acceptances, the
contract of each intent and the succeeded intents.

### DeploymentGate

Plans are numbered by `created_at`, the start of their transaction. Approvals
and executions are records of status and reference. These rows have no version
column, so a request remembers only the status it will write and whether the
loaded row already had it (`same`: then the UPDATE leaves the column alone).

| Action | Code |
|---|---|
| `BeginCreatePlan`, `LoadLatest`, `InsertPlan` | `create_deployment_plan`, with the superseding of the newest older plan |
| `BeginSecurityCheck`, `WriteSecurityCheck` | `security_check_plan` |
| `BeginAskApproval`, `WriteAskApproval` | `request_staging_approval` |
| `BeginDecide`, `WriteDecide` | `decide_approval` |
| `BeginOrder`, `InsertExecution` | `SafeStagingTerraformExecutor.request`, with the partial unique index |
| `BeginPrepare`, `WritePrepare` | `prepare`, which calls `authorize` |
| `BeginExecute`, `LockAndApply`, `CommitApply` | `FakeTerraformApplyExecutor.execute` |

### ArtifactReview

One artifact. A version is its number and `current` the number of the current
one; `reviewed` and `passed` are the versions with a review, and with a passed
AI review; `comment` and `upload` the rows of those tables. A request loads one
row that has a version column, the artifact or a review, and is `stale` when
another transaction has updated it since. The insert of a review or a comment
updates no row and therefore makes nobody stale.

| Action | Code |
|---|---|
| `BeginVersion`, `InsertVersion` | `add_artifact_version` |
| `CreateUploadIntent`, `BeginUpload`, `InsertVersion` | `create_upload_intent`, `complete_upload` |
| `PostReview`, `PostComment` | `create_review`, `add_review_comment` |
| `BeginComment`, `WriteComment` | `transition_comment` |
| `BeginSubmit`, `WriteSubmit` | `submit_version` |
| `BeginHuman`, `WriteHuman` | `move_to_human_review` |
| `BeginDecision`, `WriteDecision` | `approve_version`, `request_changes` |
| `BeginRevise`, `WriteRevise` | `run_auto_revision` |

`approved` is the set of versions with an approval event; `decided` counts the
decisions of the present round of human review; `late` are the comments whose
insert came after the approving request had looked for comments.

### ResumableJob

One artifact, whose versions are numbered; `version[n]` is who made number n.
`file[j]` is the job's stored object, its content and its `.metadata` file.
`run[w]` is an execution: what it loaded and how far it is. This module takes
from `OutboxWorker` that a job may be executed again and by two workers at the
same time, and details what an execution is.

| Action | Code |
|---|---|
| `TakeSnapshot`, `Block` | `create_snapshot`; an execution without one |
| `Begin`, `Reserve` | load job and artifact; the step ledger and the search for the version |
| `Produce`, `PutContent`, `PutMetadata` | provider or renderer, `head_object`, `put_object` |
| `Finish`, `Replay` | the commit that inserts the version; the commit that finds it |
| `Abort` | crash or any error |
| `AddVersion`, `ToHumanReview`, `Decide` | the requests of `ArtifactReview`, one step each |

`VersionLog` knows no executions. The versions are a log to which people and
jobs append, each job once; an entry never changes, and a job may make its own
entry the current one again unless it is a workflow that has settled.
`ResumableJob` maps to it by its version numbers; the content of a job's entry
is what a reader of the two files finds if the hash is the recorded one, so a
file that a later execution touched would show as a changed entry.

### Maintenance

`contract` has the status and the start of the delinquency; `deletion[d]` is a
deletion request with its two approvers; `retries` counts the status events of
day 7. A session loads the contract (or a request), may search other rows, and
writes at the end. `since`, `consent` and `overtaken` are history: the first
failure since the last recovery, the administrators whose approval was
committed, and the requests inserted by an ageing job that a recovery overtook.

| Action | Code |
|---|---|
| `Create`, `BeginCancel`, `WriteCancel` | `create_maintenance_contract`, `cancel_maintenance_contract` |
| `BeginFail`, `WriteFail` | `mark_maintenance_payment_failed` |
| `BeginAdvance`, `Search`, `WriteAdvance` | `advance_maintenance_delinquency`, called by `MaintenanceHandler` |
| `BeginRecover`, `SearchRequests`, `WriteRecover` | `recover_maintenance_payment` |
| `BeginApprove`, `WriteApprove` | `approve_deletion_request` |
| `Tick` | time passes |

### Notifications

`note`, `delivery` and `mail` are the rows; `service[s]` is a request or a
worker's handler that is under way, with the rows it has loaded and whether it
is `stale`. `mailed` is history: how many accepted sends were committed.

| Action | Code |
|---|---|
| `UpdatePreference`, `Create` | `update_preference`; `create_notification` with `scheduled_delivery_time` |
| `BeginRead`, `WriteRead` | `mark_notification_read`, `read_all_notifications` |
| `Queue`, `BeginDeliver`, `SkipDeliver`, `Send`, `CommitDelivery`, `CommitFailure`, `Bury`, `Complete` | `NotificationHandler.execute` around `deliver_notification`, and the queue's completion |
| `BeginEmail`, `InsertEmail`, `BeginResend`, `SendEmail`, `CommitEmail` | `send_document_email` and `EmailHandler` around `send_email_message` |

### ProjectChat

| Action | Code |
|---|---|
| `CreateRoom`, `Post`, `PostAI`, `Attach` | `create_chat_room`, `post_chat_message`, `post_ai_chat_message`, `attach_chat_artifact` |
| `BeginEdit`, `BeginDelete`, `WriteMessage` | `edit_chat_message`, `delete_chat_message` |
| `CreateChange`, `BeginAnalyze`, `CommitAnalysis` | `create_change_request`, `analyze_change_request` |
| `BeginDecide`, `CommitDecision` | `decide_change_request` |

### EstimateDocuments

`estimate[e]` passes through `given`, `runs` and `artifacts` while its
transaction runs, because the AI runs and the artifacts are read by separate
statements; other requests complete runs and artifacts in between.
`attempt[a]` is one request for a document of one source and format.

| Action | Code |
|---|---|
| `Create`, `ChargeRuns`, `ChargeArtifacts`, `SkipCharge`, `CommitEstimate`, `AbortEstimate` | `create_estimate`, `recalculate_estimate` |
| `Transition`, `CreateContract` | `transition_estimate`, `create_contract`, in detail in `ContractPayment` |
| `CompleteRun`, `CreateArtifact` | `apply_ai_cost`, `post_artifact` |
| `Begin`, `Store`, `Commit`, `Abort` | `generate_document` |

### Rules

No state of the program: `input` grows from step to step, so that TLC visits
every preference and moment, every plan and every duration within the bounds.

## 3. Runs and bounds

| Run | Instance | Distinct states | Shows |
|---|---|---|---|
| `outbox_any_timing` | 1 job, 3 workers, 2 administrators, leases of 2 ticks, 3 lapses, `max_attempts` 2 | 435 thousand | leases may run out under a worker: no row is orphaned, completion is fenced and follows an effect, duplicates have a cause |
| `outbox_timely` | 2 jobs, 2 workers, 1 administrator, 1 lapse per job | 195 thousand | leases do not run out under a worker: exclusion, attempt accounting, refinement of `AtLeastOnceQueue`, and liveness |
| `payment_races` | 1 contract, 2 payment intents, 1 webhook event, 2 concurrent requests | 381 thousand | activity and acceptances agree, phase and payment agree; refinement of `Purchase` |
| `deployment_races` | 2 plans, 2 approvals, 2 executions, 2 concurrent requests, 1 security check | 5.4 million | two people, one deployable plan |
| `deployment_double_apply` | the same | | a documented claim that the code does not keep (section 6) |
| `artifact_races` | 1 artifact, 3 versions, 1 critical comment, 1 upload, 2 concurrent requests, revisions of up to 2 versions | 359 thousand | approval concerns the current version and no critical comment known, one decision per round |
| `resumable_jobs` | a document job and an AI job, 2 workers, 2 answers, 3 versions | 2.8 million | versions and files agree under any overlap and crash; refinement of `VersionLog`; a decision survives what is under way |
| `maintenance_races` | 1 contract, tiers at 1, 2, 3 and 4 of 7 units of time, 3 deletion requests, 2 administrators, 2 sessions | 1.5 million | periods granted, two approvers, and what a recovery can and cannot prevent |
| `notification_races` | 1 notification, 2 attempts, 1 e-mail, 2 sessions, 2 units of time | 4.3 million | attempts, reading, one send |
| `project_chat` | 2 messages, 2 change requests, a customer and a manager, 2 sessions | 904 thousand | deletions and decisions stand |
| `estimate_documents` | 2 estimates, 1 AI run, 1 artifact, 3 item lists, 2 documents in 2 formats | 1.3 million | amounts and items agree; repeats need overlap |
| `rules` | a day of 12 units, 2 days of events; plans of up to 3 resources; 10 units of duration | 307 thousand | the rules agree with their references |

Why the bounds suffice. A race over a row needs two writers; the third worker
in `outbox_any_timing` is the one that claims after a lease has been lost
twice. Two ticks of lease separate "about to expire" from "renewed". With
`max_attempts` 2, a failure meets both sides of the comparison. Three lapses
allow a crash, a lost lease and a requeue of the same job. Two intents are
needed for a confirmation that overtakes another,
two requests for every stale write; a webhook may arrive any number of times.
Two plans suffice for superseding and for a plan that comes back after it;
two executions for the unique index. Three versions leave room for one before,
one during and one after a review; comments do not affect each other, and with
two of them TLC finds no more (4.5 million states). Of the two jobs of `resumable_jobs` one is
rendered and one generated, with two answers that a second execution may mix
up; three versions leave a person one before and one beside a job's. Seven
units of time hold a full delinquency of four, a recovery and half of the
next; three deletion requests one per delinquency and one that is overtaken.
Two attempts meet both sides of the limit. Two messages and two change requests
show that a write reaches its own row. The item lists of `MCInput` contain a
tax item, one that names an AI run, one that names an artifact, and a discount
larger than what it is taken from. Counters are capped where the code has
none (`AttemptCap`, `MaxBackoff`, `MaxLapses`, `MaxPlan`, `MaxCheck`, `MaxVersion`,
`MaxTime`, `MaxRetry`, `LastEvent`, `MaxChanges`, `MaxDuration`); each is
a named constant with the meaning written beside its declaration.

Deadlock is not checked (`CHECK_DEADLOCK FALSE`) because each system may
rightly come to rest: a queue whose jobs are all completed, a paid contract,
an applied plan, an approved artifact, a terminated maintenance contract. That
a queue does not come to rest early is what `JobsSettle` says. Symmetry is used only in runs without liveness properties.

## 4. Fairness

Only `outbox_timely` has a liveness property. `FairSpec` assumes weak fairness
of `RunOnce(w)`, the steps a worker takes of its own accord, because `main()`
calls `run_once` in an endless loop and a supervisor restarts a process that
dies, and of `Tick`, because time passes. Nothing obliges a handler to return
rather than raise, and no fairness is put on crashes, errors, heartbeats or
administrators. Crashes and unknown outcomes are limited by `MaxLapses`;
without a limit a job could kill its worker for ever, since `claim` does not
look at `max_attempts`.

The other modules state no liveness. Requests come from people and jobs from
outside `app/services`, and the code schedules neither; a failed delivery is in
fact never tried again unless somebody queues its job (section 6).

## 5. What is proved

TLAPS checks these for every set of jobs, workers, requests, sessions and rows
and all values of the bounds that the assumptions of each module admit
(`NoneAssumption`: `None` is no member of the sets it stands beside;
`BoundsAssumption`, `BoundAssumption`: bounds are natural numbers; `JobAssumption`:
document jobs are jobs, and a person is not one; `AgesAssumption`: the tiers of
a delinquency increase; `RolesAssumption`: who may do what is among the users;
`PricesAssumption`: prices and costs are natural numbers; `InputAssumption`: a
client gives finitely many items; `RulesAssumption`: hours divide a day, and
digests go out on the hour). `Notifications` and `Rules` name their
specifications `NotificationSpec` and `RulesSpec` so that they can stand in one
proof module beside another component.

| Theorem | States |
|---|---|
| **OutboxWorkerProofs** | |
| `TypeCorrect` | `Spec => []TypeOK` |
| `NeverOrphaned` | `Spec => []ProcessingIsReclaimable` |
| `CompletionFollowsEffect` | `Spec => []CompletedHasEffect` |
| `CompletionIsFenced` | `Spec => FencedCompletion` |
| `DuplicatesCounted` | `Spec => []DuplicatesNeedALapse` |
| with timely workers and one administrator | |
| `AttemptsAddUp` | `Spec => []AttemptAccounting` |
| `EffectsUnderLease` | `Spec => CommitUnderLease` |
| `LeaseIsExclusive` | `Spec => LeaseExclusive` |
| `QueueImplemented` | `Spec => ImplementsQueue` |
| **ContractPaymentProofs** | |
| `PaymentTypes` | `Spec => []TypeOK` |
| `ActivityAgrees` | `Spec => []ActiveMeansBothAccepted` |
| `PaidAgrees` | `Spec => []PaidMeansRequirements` |
| `SuccessIsFinal` | `Spec => SucceededIsFinal` |
| `PurchaseImplemented` | `Spec => ImplementsPurchase` |
| **DeploymentGateProofs** | |
| `GateTypes` | `Spec => []TypeOK` |
| `FourEyes` | `Spec => []TwoPeople` |
| `OnePlan` | `Spec => []OneDeployablePlan` |
| **ResumableJobProofs** | |
| `ResumeTypes` | `Spec => []TypeOK` |
| `VersionsHaveFiles` | `Spec => []VersionMatchesFile` |
| `ReplaysRegress` | `Spec => OnlyReplayRegresses` |
| `DecisionsSurvive` | `Spec => DecisionsSurviveRunning` |
| `LogImplemented` | `Spec => ImplementsLog` |
| **ArtifactReviewProofs** | |
| `ReviewTypes` | `Spec => []TypeOK` |
| `OneDecision` | `Spec => []DecidedOnce` |
| `CriticalBlocks` | `Spec => []KnownCriticalBlocks` |
| `ApprovalOfCurrent` | `Spec => ApprovesTheCurrent` |
| **MaintenanceProofs** | |
| `MaintenanceTypes` | `Spec => []TypeOK` |
| `PeriodsGranted` | `Spec => []PeriodsAreGranted` |
| `OpenOnSchedule` | `Spec => []OpenNeedsSchedule` |
| `ApprovalsKept` | `Spec => []ApprovalsAreKept` |
| `CancelledStays` | `Spec => CancelledIsFinal` |
| **CommunicationsProofs** | |
| `ChatTypes` | `Spec => []TypeOK` |
| `DecidedOnce` | `Spec => []RequestsAreDecidedOnce` |
| `DeletedStays` | `Spec => DeletedIsFinal` |
| `NotifyTypes` | `NotificationSpec => []NotificationTypeOK` |
| `EmailOnce` | `NotificationSpec => []MailedOnce` |
| `ReadIsKept` | `NotificationSpec => ReadSurvivesRunning` |
| **ComputationProofs** | |
| `EstimateTypes` | `Spec => []TypeOK` |
| `EstimateAmounts` | `Spec => []AmountsMatchItems` |
| `RepeatsOverlap` | `Spec => []RepeatsNeedOverlap` |
| `RulesHold` | `RulesSpec => []RulesAgree` |

The queue. The argument has two layers. `QueueInv` holds under any timing: the
type invariant, the shape of a processing row, `CompletingHasEffect` (a worker
that is about to complete has committed the handler) and `LockedByLatest` (a
processing row is locked by the worker that claimed it last). The last two are
what makes the invariant inductive: completion follows an effect only because
the worker that completes is the one that committed, and it is fenced only
because owner and last claimer coincide. `TimelyInv` adds, for `Timely` and at
most one administrator, that each busy worker holds its row under a live lease
(`InHand`), that a row being failed is unchanged since it was read (`Keeps`)
and that the row an administrator has read is still buried
(`BuriedWhilePending`). The refinement then has one lemma per kind of abstract
step: every step either leaves the mapped phase and effects alone or is an
`Apply`, `Finish`, `Bury` or `Reopen`. Both hypotheses are needed: without them
TLC finds the counterexamples of section 6.

`DuplicatesCounted` is a matter of bookkeeping. A worker has a credit for a job
while it may still commit the handler, or return the job to the queue by a
retryable failure; one more execution is due while the job is free to be
claimed. `Balanced` says that commits made, credits and the free claim never
exceed one plus the lapses. A claim turns the free execution into a credit, a
commit turns the credit into an effect, a retryable failure gives it back, and
whatever creates one out of nothing is a lapse. The bound on the effects alone
is not inductive, because it does not see the executions under way.

Rows with version columns (`ContractPayment`, `ArtifactReview`, `Maintenance`,
`ProjectChat`). Each invariant says of every request what it has loaded and
that the row is still like that unless the request is stale. That alone makes
the safety properties inductive, because a stale request cannot write. Each
proof has one lemma for requests that only read, one for what a write does to
the copies of the others, and one per action. Where a program reads rows that
it does not version, the invariant says what may have happened to them:

- `PaymentsActive`: a payment is created for a contract loaded earlier, which
  is harmless because no operation deactivates a contract.
- `ApprovalCopy`: a critical comment on the version being approved was inserted
  after the approving request had looked (`late`).
- `AdvanceCopy`, `RecoverCopy`: an ageing job that inserts a deletion request
  without writing the contract would be stale to nobody. Either it finds an
  open request, or the age it has reached makes it write the contract, or a
  recovery has overtaken it (`behind`); only the last leaves a request open.

The refinement of `Purchase` (`PurchaseInv`) needs two facts that none of the
others did. A contract exists for an approved estimate only (`Backed`), so
whoever accepts accepts what was agreed. And whoever is about to write an
estimate and is not stale finds it as it was loaded, or as a draft that the
daily job has expired meanwhile (`EstimateCopy`): the job's bulk UPDATE makes
nobody stale, so a submission does overwrite an expiry, but since the job finds
nothing but drafts, no approval is ever lost to it or to another request. Both
facts and the copies of `PaymentInv` give each write its place in `Purchase`.
`SucceededIsFinal` follows, and no run checks it on its own.

Rows without (`DeploymentGate`). Here a copy says nothing about the row. The
invariant rests on what no step changes, however stale: the plan of an
approval, the plan and approval of an execution, and that an approval was
granted (`Grows`). A request that is about to write `prepared` or the result of
an apply has seen the approval granted for that plan, and this stays true.
`OnePlan` needs no history: the executor compares with every other plan when it
looks, and two plans that both have no newer rival are the same.

Files and rows (`ResumableJob`). `ResumeInv` says that one execution at a time
is past the insert of a job's first ledger row (`Exclusive`), so that each
object's two files are written by one execution, in order, and by none once
the job's version is committed; and that the versions are numbered without
gaps while the numbers in the snapshots run ahead by at most one (`Numbered`),
so that a version number that is still free is the next one.

The refinement of `VersionLog` (`LogInv`) needs three facts more. What an
execution has loaded is behind every free number (`LoadedBehind`), so that the
first commit always writes the artifact and makes every other execution stale.
Whoever still executes a settled workflow is therefore stale (`SettledStale`)
and ends without touching the artifact: optimistic locking, not the check at
the start of the handler, is what protects a settled workflow from executions
that had already passed it. And a workflow's status is what its version and
review give it (`Reported`), so a replay settles nothing. Each step then appends
an entry, revisits one, or leaves the log alone. `OnlyReplayRegresses` follows,
and no run checks it on its own.

Loaded rows and the one row of a key (`Notifications`). `NotifyInv` says of a
delivery that its copy of the notification is the row until it commits or is
stale (`Delivering`), of a resend the same about the message, and of a request
that has inserted its message that no other has, so that the row it will
commit is the first (`Mailing`). `mailed` is then 1 exactly when the row's
status says that a send was accepted, which is what makes `EmailOnce`
inductive. That attempts stay within their limit needs the copy of the delivery
row, which has no version column: a delivery that has its answer loaded fewer
attempts than the limit, and the number it writes is one more than it loaded.

Sums (`EstimateDocuments`). An amount is a sum over a set, which the library
defines as an iteration. `MinimalSet` takes the place of an induction: a
non-empty family of finite sets has a member that contains no other. From a
smallest set for which a claim about its sum fails follow in turn that the
iteration exists (`TotalRecursion`), that a sum is a number (`TotalType`), that
any element can be taken out first (`TotalRemove`) and that what adds nothing
may be left out (`TotalKept`). `RowSound` then says of every committed estimate
that its subtotal is that of the items, runs and artifacts its transaction has
read, all of them finite sets, and that no item the client gave names a run or
an artifact charged beside it. The other half of `EstimateInv`, `BeforeDiffers`,
says that no document completed before a request began is the one it asks for,
since the request would have found it.

Arithmetic (`Rules`). Each rule is a calculation in the code and a minimum or a
count in its reference, so the proof shows that the calculated moment is in the
reference's set and that nothing smaller is: quotient and remainder are unique
(`Divided`), and two moments with the same remainder are a whole day apart
(`Apart`). A quiet range is followed from its beginning rather than from
midnight (`QuietFor`), which treats ranges within a day and over midnight alike.
That no delivery is quiet except a digest that the next quiet hours have
overtaken rests on two lemmas: the release is not quiet (`ReleasedAt`), and a
quiet moment after one that is not quiet has the beginning of quiet hours in
between (`QuietBegan`). The lemmas about the delivery time hold at every natural
number, not only up to `LastEvent`.

Only model-checked: the liveness of `JobsSettle`, because the prover does not
handle fairness. Every other property of the runs is stated by a theorem.

## 6. Where code and documents disagree

One run ends in a counterexample to a sentence of the documentation.

- `deployment_double_apply`: "two sessions attempting the same execution
  therefore produce one result, never two fake applies"
  (`docs/saved_plan_execution_boundary.md:63`). `SELECT ... FOR UPDATE` does
  not refresh the object the session has loaded.

The models contain more of what the documents do not say. Where a property
names the exception, it says that nothing else leads there.

- Queue. "a lease-lost worker cannot commit"
  (`docs/web_portal_and_workers.md:46`): the completion is fenced, the handler's
  own transaction is not (`runner.py:102`; `CommitUnderLease` holds with timely
  workers only). "completed jobs are never claimed" (`:17`): of two concurrent
  retries of a dead letter the second may reopen the job after it was completed
  (`outbox.py:117`). "When `max_attempts` is reached, the job becomes
  `dead_letter`" (`:17`): a job whose worker dies never passes `fail()`
  (`outbox.py:34`).
- Payment. "another live contract payment returns `DUPLICATE_PAYMENT`"
  (`docs/estimate_contract_payment.md:50`): search and insert are two steps
  (`billing.py:551`), and concurrent requests create two. Both may then succeed,
  and so may two that were never requested together: when the first has failed,
  a second may be created, and neither a confirmation (`billing.py:603`) nor a
  webhook (`billing.py:953`) of the first asks whether the contract has been
  paid meanwhile. `PaidMeansRequirements` asks for one success, not for only one.
- Deployment. Approvals have no version column, so of two decisions that race
  both are taken, both are audited, and the later commit stands
  (`approvals.py:147`). `TwoPeople` holds nonetheless: nothing is prepared that
  nobody but its requester has ever approved.
- Artifact. "draft -> ai_reviewing -> human_reviewing -> approved", and a new
  version goes through `ai_reviewing` again (`docs/project_artifact_review.md:19`):
  a version added during human review becomes the current one without changing
  the status, and can be approved (`workflow.py:164`).
- Resumable job. A document job that is completed is executed again when it is
  queued again, and moves the artifact back to its own version
  (`documents.py:145`). `OnlyReplayRegresses` says that only this does. The
  number of the version a workflow writes is fixed in its snapshot: when
  somebody else's version takes it first, every execution fails on the unique
  constraint until the job is dead (`workflows.py:145`). `ImplementsLog` says
  that the other version is then left alone, not that the job ends well.
- Maintenance. An ageing job that loaded the contract before a recovery and
  does not change its status inserts a deletion request after it
  (`billing.py:816`); cancelling a contract leaves its request open.
  `OpenNeedsSchedule` says that a request is open without a schedule for these
  two reasons only. The retry of day 7 is searched for over the contract's
  whole history, so a second delinquency gets none (`billing.py:763`); nor is
  its past-due event announced, because the notification's deduplication key is
  the same.
- Notification. A failed delivery with attempts left completes its job
  (`workers/notifications.py:41`), and nothing queues it for the `scheduled_at`
  that `docs/notifications_documents_chat.md:15` describes. A delivery that
  loads a notification already read sets it to delivered; `ReadSurvivesRunning`
  says that one under way does not. No code sets `Notification.expires_at`, so
  nothing expires.
- Documents. Equal documents can be generated twice by overlapping requests,
  because the unique constraint contains a column that is always NULL
  (`docs/notifications_documents_chat.md:50`). `RepeatsNeedOverlap` says that
  only overlapping requests do. A contract's document that was generated before
  the acceptances stands in for the one asked for afterwards, which is refused
  as already generated although it would show the acceptances. A generated document is an artifact, and the next estimate
  charges for it.
- Rules. The quiet hours an event falls into delay it, but the hour or the day
  of a digest is added afterwards (`communications.py:155-160`), and the moment
  that results is not compared with the quiet hours again: with quiet hours from
  22:00 to 7:00, the hourly digest of an event at 21:30 goes out at 22:00.
  `DeliveryWaits` says that a delivery is quiet for this reason only, unless the
  whole day is. A daily digest for an event before midnight, within overnight quiet
  hours, goes out at 9:00 on the day after the quiet hours end. A range that
  ends where it begins is the whole day.

## 7. Abstractions

Queue. The order of claims is left open, since SKIP LOCKED may pass over any
row. `pending` and `queued` are one status, as in `claim`. Clock readings are
countdowns. The heartbeat thread is taken to end with the handler's block;
a thread that outlives its join timeout is left out. The handler is opaque: it
commits an effect or raises.

Payment. Amounts, currency and tax are fixed with the estimate and left out.
The rows a request reads are taken as one snapshot. An `expected_version` that
does not match, and a repeated idempotency key, end a request without a change
and are therefore stuttering steps. The provider's call and the insert of the
intent are one step, because the provider's memory is written by no one else
under that key. A confirmation that turns failed into failed again rewrites the
failure code only and is taken as no update of the row's status. The daily
bulk UPDATE leaves the version column alone; it looks for drafts and for the
status `submitted`, which no transition yields.

Deployment. Digests, account, region, state and permission checks, and the
rules of the security gate, may pass or fail freely. Gate results that do not
block are one value. The statuses `validating` and `authorized` are never
committed, because sessions do not autoflush. A plan's approval has no expiry,
so expiry is left out. Users are abstracted to "the requester or somebody
else". Creation times do not tie.

Artifact. All comments are critical, because no transition depends on the
others. The reviews of a version count as one row for optimistic locking. What
a request reads is one snapshot: if anything it decides by changes, the
artifact's row changes too and the request is stale, except for comments and
reviews, whose inserts are separate actions. That an upload has expired or does
not match its intent is an `Abort`. The status `superseded` is written by no
code. `move_to_human_review` and `run_auto_revision` are called by services and
tests only, but are part of the services' contract. The workers' handlers write
artifacts directly; they belong to `ResumableJob`.

Resumable job. The database undoes what a dead worker has not committed, the
storage does not; a worker that has lost its lease goes on and may write files
until its commit. The insert of a ledger row that another execution has
inserted and not committed waits; here it is simply not enabled. The snapshot is
what is decided by it, the target number and whether this attempt is the last;
its encoding and hash are left out. Requests of people are single steps, since
`ArtifactReview` shows their races.

Maintenance. One contract. Time is symbolic: the tiers are units of time, not
days. A session's clock is read once. Notifications and audit rows are left out.

Notifications. One notification and one e-mail. The preference is read once,
in the transaction that creates the notification. The clock stops at `MaxTime`,
and what is scheduled beyond it counts as scheduled then. `app/services` queues
no job for a delivery or a message, so `Queue` and the worker's e-mail begin at
any time. `MailedOnce` counts the commits of a send that the provider accepted,
not the calls of the provider: a session that rolls back after the call may
call again.

Chat. What never changes once it is stored (text, author, room, scope, hash)
is read in the step that uses it. The version that the client names and the
version column agree when the row is loaded; if they do not, the request ends
without a change.

Documents and amounts. Amounts are integers in the quanta of the columns, one
tax rate applies, and the content of a document is what it is generated from.
Sessions do not autoflush, so a request sees no row of its own.

Rules. Local time without shifts of the clock; hours, days and minutes are
scaled down, keeping their ratio of divisibility.

Not modelled, by intent: token verification and the permission table (no
transitions), list and admin read endpoints, the health file, rendering,
templates and sanitizers, the Terraform command-line runner, the disabled real
apply boundary, the mock AI provider, the front end, migrations, Terraform
files, scripts, seeds and performance tests. These have no transitions of
their own, or none that depends on another component's. Partly modelled:
the gate of other protected actions (with an expiry that plans do not use),
`evaluate_staging_plan`, AI settings and generation runs, e-mail templates and
digests as messages of their own.

## 8. Plan

The modules, in order of importance: `OutboxWorker` with `AtLeastOnceQueue`,
`ContractPayment`, `DeploymentGate`, `ResumableJob`, `ArtifactReview`,
`Maintenance`, `Notifications`, `ProjectChat`, `EstimateDocuments`, `Rules`.
All are written, checked and proved about.

Left to model:

1. `evaluate_staging_plan`, which looks at the status only and so may authorize
   a superseded plan that a late security check revived.
2. Protected approvals of other actions, with expiry and the audit of a denial
   that the rollback of the same request discards.
3. `ResumableJob` and `OutboxWorker` in one module, so that the lapses of the
   queue are the causes of a second execution.

Left to prove: that `DeploymentGate` implements an abstract specification too, a
gate that only two people open, as the queue, the executions and the payments
implement theirs.
