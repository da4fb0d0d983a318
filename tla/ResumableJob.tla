----------------------------- MODULE ResumableJob -----------------------------
(***************************************************************************)
(* What executing a document or AI revision job does to one artifact       *)
(* (app/workers/workflows.py, documents.py, snapshots.py and               *)
(* app/services/storage.py).                                               *)
(*                                                                         *)
(* The queue executes a job at least once (AtLeastOnceQueue): again after  *)
(* a crash, a lost lease or an administrator's retry, and by two workers   *)
(* at the same time.  Every execution is one database transaction, but the *)
(* file is stored before it commits.  The rows of the step ledger have     *)
(* deterministic keys, so an insert of the first step waits for, and fails *)
(* after, another execution of the same job that has not been committed    *)
(* when it looked.                                                         *)
(*                                                                         *)
(* People work on the artifact meanwhile; their requests are detailed in   *)
(* ArtifactReview and are single steps here.                               *)
(***************************************************************************)
EXTENDS Integers

CONSTANTS
    Job,            \* jobs with the artifact as their target
    Document,       \* those that are document jobs; the others are AI workflows
    Worker,         \* executions at the same time
    Answer,         \* contents the provider may return
    Text,           \* content rendered from the snapshot of a document job
    MaxVersion,     \* bound on the version numbers
    Person,         \* author of the versions that no job has made
    None            \* NULL

ASSUME JobAssumption == Document \subseteq Job /\ Person \notin Job
ASSUME BoundAssumption == MaxVersion \in Nat \ {0}
ASSUME NoneAssumption == None \notin Job \cup Answer \cup {Text, Person}

VARIABLES
    artifact,   \* Artifact: number of current_version_id, status
    version,    \* who made the version of each number
    hash,       \* ArtifactVersion.content_hash of the jobs' versions
    file,       \* the jobs' storage objects: content, and hash in the .metadata file
    job,        \* WorkflowJob or DocumentGenerationJob: status
    snapshot,   \* WorkflowJobInput: target_version_number, and whether the last attempt
    review,     \* status of the AI review with the job's deterministic identifier
    run         \* the executions in flight

vars == <<artifact, version, hash, file, job, snapshot, review, run>>

-----------------------------------------------------------------------------
Number == 1..MaxVersion
Content == Answer \cup {Text}
ArtifactStatus == {"revision_requested", "human_reviewing", "approved"}
ArtifactRow == [current : 0..MaxVersion, status : ArtifactStatus]

Idle == [pc |-> "idle", job |-> None, art |-> [current |-> 0, status |-> "revision_requested"],
         answer |-> None, staleArtifact |-> FALSE, staleJob |-> FALSE, decided |-> FALSE]

TypeOK ==
    /\ artifact \in ArtifactRow
    /\ version \in [Number -> Job \cup {Person, None}]
    /\ hash \in [Job -> Content \cup {None}]
    /\ file \in [Job -> [content : Content \cup {None}, meta : Content \cup {None}]]
    /\ job \in [Job -> {"pending", "completed", "escalated", "failed"}]
    /\ snapshot \in [Job -> [number : 0..MaxVersion, last : BOOLEAN]]
    /\ review \in [Job -> {"none", "passed", "failed"}]
    /\ run \in [Worker ->
         [pc : {"idle", "loaded", "reserved", "content", "meta", "finish", "replay"},
          job : Job \cup {None}, art : ArtifactRow, answer : Content \cup {None},
          staleArtifact : BOOLEAN, staleJob : BOOLEAN, decided : BOOLEAN]]

Count == CHOOSE n \in 0..MaxVersion :
           /\ n > 0 => version[n] # None
           /\ \A k \in Number : k > n => version[k] = None

\* The job's version has been committed.
Made(j) == \E n \in Number : version[n] = j

Init ==
    /\ artifact = [current |-> 1, status |-> "revision_requested"]
    /\ version = [n \in Number |-> IF n = 1 THEN Person ELSE None]
    /\ hash = [j \in Job |-> None]
    /\ file = [j \in Job |-> [content |-> None, meta |-> None]]
    /\ job \in [Job -> {"pending", "completed"}]
    /\ \A j \in Job : job[j] = "completed" => j \in Document  \* made by generate_document
    /\ snapshot = [j \in Job |-> [number |-> 0, last |-> FALSE]]
    /\ review = [j \in Job |-> "none"]
    /\ run = [w \in Worker |-> Idle]

-----------------------------------------------------------------------------
(* People.  Whoever has loaded the artifact is stale afterwards. *)

ArtifactWritten(decision) ==
    run' = [w \in Worker |->
      IF run[w].pc = "idle" THEN run[w]
      ELSE [run[w] EXCEPT !.staleArtifact = TRUE, !.decided = @ \/ decision]]

AddVersion ==
    /\ Count < MaxVersion
    /\ version' = [version EXCEPT ![Count + 1] = Person]
    /\ artifact' = [artifact EXCEPT !.current = Count + 1]
    /\ ArtifactWritten(FALSE)
    /\ UNCHANGED <<hash, file, job, snapshot, review>>

\* submit_version, a passed AI review and move_to_human_review
ToHumanReview ==
    /\ artifact.status = "revision_requested"
    /\ artifact' = [artifact EXCEPT !.status = "human_reviewing"]
    /\ ArtifactWritten(FALSE)
    /\ UNCHANGED <<version, hash, file, job, snapshot, review>>

\* approve_version, request_changes
Decide(decision) ==
    /\ artifact.status = "human_reviewing"
    /\ artifact' = [artifact EXCEPT !.status = decision]
    /\ ArtifactWritten(TRUE)
    /\ UNCHANGED <<version, hash, file, job, snapshot, review>>

\* create_snapshot: the number of the version to be made is part of the immutable payload.
TakeSnapshot(j, last) ==
    /\ snapshot[j].number = 0
    /\ last => j \notin Document
    /\ Count < MaxVersion
    /\ snapshot' = [snapshot EXCEPT ![j] = [number |-> Count + 1, last |-> last]]
    /\ UNCHANGED <<artifact, version, hash, file, job, review, run>>

-----------------------------------------------------------------------------
(* One execution. *)

\* Mutant of Executable: a settled workflow is executed like any other.
ExecutableSettled(j) == TRUE

\* A workflow that is completed or escalated is not executed again; a document job is.
Executable(j) == j \in Document \/ job[j] \notin {"completed", "escalated"}

\* RESUME_SNAPSHOT_MISSING: fails closed.
Block(j) ==
    /\ snapshot[j].number = 0
    /\ Executable(j)
    /\ job[j] # "failed"
    /\ job' = [job EXCEPT ![j] = "failed"]
    /\ UNCHANGED <<artifact, version, hash, file, snapshot, review, run>>

Begin(w, j) ==
    /\ run[w].pc = "idle"
    /\ snapshot[j].number # 0
    /\ Executable(j)
    /\ run' = [run EXCEPT ![w] = [Idle EXCEPT !.pc = "loaded", !.job = j, !.art = artifact]]
    /\ UNCHANGED <<artifact, version, hash, file, job, snapshot, review>>

\* Mutant of LedgerFree: the first step's row is not inserted before the storage is used.
LedgerFreeAlways(w) == TRUE

\* No other execution of the job has inserted the ledger's first row and is undecided.
LedgerFree(w) ==
    \A x \in Worker \ {w} : run[x].job = run[w].job => run[x].pc \in {"loaded", "replay"}

\* The ledger, and then the search for the version.
Reserve(w) ==
    /\ run[w].pc = "loaded"
    /\ Made(run[w].job) \/ LedgerFree(w)
    /\ run' = [run EXCEPT ![w].pc = IF Made(run[w].job) THEN "replay" ELSE "reserved"]
    /\ UNCHANGED <<artifact, version, hash, file, job, snapshot, review>>

Produces(j) == IF j \in Document THEN {Text} ELSE Answer

\* head_object finds the object only if both files are there.
Stored(j) == file[j].content # None /\ file[j].meta # None

Reusable(j, a) == file[j].meta = a

\* The content is made; an object with the same hash is reused, one with another is an
\* error that buries the job (Abort).
Produce(w, a) ==
    LET j == run[w].job IN
    /\ run[w].pc = "reserved"
    /\ a \in Produces(j)
    /\ Stored(j) => Reusable(j, a)
    /\ run' = [run EXCEPT ![w].answer = a, ![w].pc = IF Stored(j) THEN "finish" ELSE "content"]
    /\ UNCHANGED <<artifact, version, hash, file, job, snapshot, review>>

\* put_object: the content, then its metadata.
PutContent(w) ==
    /\ run[w].pc = "content"
    /\ file' = [file EXCEPT ![run[w].job].content = run[w].answer]
    /\ run' = [run EXCEPT ![w].pc = "meta"]
    /\ UNCHANGED <<artifact, version, hash, job, snapshot, review>>

PutMetadata(w) ==
    /\ run[w].pc = "meta"
    /\ file' = [file EXCEPT ![run[w].job].meta = run[w].answer]
    /\ run' = [run EXCEPT ![w].pc = "finish"]
    /\ UNCHANGED <<artifact, version, hash, job, snapshot, review>>

\* The primary key and the unique number of the version.
Insertable(j) == ~Made(j) /\ version[snapshot[j].number] = None

\* The artifact and the job after the execution, given the status of the review.
ArtifactAfter(w, passed) ==
    LET j == run[w].job IN
    [current |-> snapshot[j].number,
     status |-> IF j \in Document THEN run[w].art.status
                ELSE IF passed THEN "human_reviewing" ELSE "revision_requested"]

\* Mutant of JobAfter: a status that ck_workflow_jobs_status does not know.
JobAfterRetry(j, passed) == IF j \in Document \/ passed THEN "completed" ELSE "retry"

JobAfter(j, passed) ==
    CASE j \in Document \/ passed -> "completed"
      [] j \notin Document /\ ~passed /\ snapshot[j].last -> "escalated"
      [] OTHER -> "failed"

\* Mutant of MayWrite: the models without version_id_col.
MayWriteUnversioned(w, changed) == TRUE

\* A row that is not changed is not written, and its version is not compared.
MayWrite(w, changed) == changed => ~run[w].staleArtifact

\* The commit of an execution: artifact and job rows, and the end of its ledger lock.
\* A document job's row is always written, for its completed_at.
WriteBack(w, passed) ==
    LET j == run[w].job
        after == ArtifactAfter(w, passed)
        changed == after # run[w].art
        jobChanged == j \in Document \/ JobAfter(j, passed) # job[j]
    IN  /\ MayWrite(w, changed)
        /\ jobChanged => ~run[w].staleJob
        /\ artifact' = IF changed THEN after ELSE artifact
        /\ job' = [job EXCEPT ![j] = JobAfter(j, passed)]
        /\ run' = [x \in Worker |->
             IF x = w THEN Idle
             ELSE [run[x] EXCEPT
                     !.staleArtifact = @ \/ (changed /\ run[x].pc # "idle"),
                     !.staleJob = @ \/ (jobChanged /\ run[x].job = j)]]

\* The first execution that commits: version, review, artifact and job.
Finish(w, passed) ==
    LET j == run[w].job IN
    /\ run[w].pc = "finish"
    /\ Insertable(j)
    /\ version' = [version EXCEPT ![snapshot[j].number] = j]
    /\ hash' = [hash EXCEPT ![j] = run[w].answer]
    /\ review' = IF j \in Document THEN review
                 ELSE [review EXCEPT ![j] = IF passed THEN "passed" ELSE "failed"]
    /\ WriteBack(w, passed)
    /\ UNCHANGED <<file, snapshot>>

\* A later one finds the version, compares its file and writes artifact and job again.
Replay(w) ==
    LET j == run[w].job IN
    /\ run[w].pc = "replay"
    /\ Stored(j) /\ file[j].meta = hash[j]
    /\ WriteBack(w, review[j] = "passed")
    /\ UNCHANGED <<version, hash, file, snapshot, review>>

\* A crash, or any error: the transaction rolls back, the file stays.  The database does
\* not roll back under a worker that goes on writing files.
Abort(w) ==
    /\ run[w].pc # "idle"
    /\ run' = [run EXCEPT ![w] = Idle]
    /\ UNCHANGED <<artifact, version, hash, file, job, snapshot, review>>

-----------------------------------------------------------------------------
Next ==
    \/ AddVersion
    \/ ToHumanReview
    \/ \E decision \in {"approved", "revision_requested"} : Decide(decision)
    \/ \E j \in Job, last \in BOOLEAN : TakeSnapshot(j, last)
    \/ \E j \in Job : Block(j)
    \/ \E w \in Worker :
         \/ \E j \in Job : Begin(w, j)
         \/ Reserve(w)
         \/ \E a \in Content : Produce(w, a)
         \/ PutContent(w)
         \/ PutMetadata(w)
         \/ \E passed \in BOOLEAN : Finish(w, passed)
         \/ Replay(w)
         \/ Abort(w)

Spec == Init /\ [][Next]_vars

-----------------------------------------------------------------------------
(* Properties. *)

\* Every committed version has its file, complete and with the recorded hash, whatever
\* the provider answered in the executions before, and although two executions of the job
\* may run at the same time.
VersionMatchesFile ==
    \A j \in Job : Made(j) => hash[j] # None /\ file[j] = [content |-> hash[j], meta |-> hash[j]]

\* The version number was fixed when the snapshot was taken; still, the execution that
\* first commits makes the newest version, never one behind a person's.  Only a replay
\* moves the artifact back to an older version.
OnlyReplayRegresses ==
    [][artifact'.current < artifact.current =>
         \E j \in Job : Made(j) /\ artifact'.current = snapshot[j].number]_vars

\* An execution that was under way when a person decided does not undo the decision; only
\* one that loaded the artifact after the decision can.
DecisionsSurviveRunning ==
    [][\A w \in Worker : run[w].decided /\ run[w].pc \in {"finish", "replay"} /\ run'[w].pc = "idle"
         => artifact' = artifact]_vars

\* What a reader of the version that j has made finds: nothing unless both files are there
\* and the hash is the recorded one.
Shown(j) == IF j \in Job /\ file[j].meta = hash[j] THEN file[j].content ELSE None

Log == INSTANCE VersionLog WITH
          log <- [n \in 1..Count |-> [author |-> version[n], content |-> Shown(version[n])]],
          current <- artifact.current,
          settled <- {j \in Job \ Document : job[j] \in {"completed", "escalated"}}

\* The executions keep the promise of VersionLog: through crashes, repetitions and overlaps a
\* job appends one version, at the end, whose content never changes, and a workflow that is
\* completed or escalated never touches the artifact again.
ImplementsLog == Log!Spec
=============================================================================
