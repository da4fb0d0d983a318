----------------------------- MODULE ArtifactReview -----------------------------
(***************************************************************************)
(* The life of one artifact: its versions, their reviews and comments, and *)
(* the way from draft through AI review and human review to approval       *)
(* (app/services/workflow.py, app/services/automation.py).                 *)
(*                                                                         *)
(* Artifacts and reviews have a version column, versions and comments do   *)
(* not.  Every request loads one row that has such a column, the artifact  *)
(* or a review, decides, and writes at the end in one transaction; the     *)
(* write fails if another transaction has updated the row meanwhile.  A    *)
(* review or a comment that is only inserted updates no row at all.        *)
(*                                                                         *)
(* A version is named by its number.  Comments are critical ones: of the   *)
(* others no transition depends.                                           *)
(***************************************************************************)
EXTENDS Integers

CONSTANTS
    MaxVersion,     \* bound on the versions of the artifact
    MaxRevision,    \* max_auto_revision_count: the versions one automatic revision may add
    Comment,        \* critical review comments
    Upload,         \* upload intents
    Request,        \* requests being served at the same time
    None            \* no comment, no upload intent

ASSUME BoundsAssumption == MaxVersion \in Nat \ {0} /\ MaxRevision \in Nat
ASSUME NoneAssumption == None \notin Comment \cup Upload

VARIABLES
    status,     \* Artifact.status
    current,    \* number of Artifact.current_version_id, 0 for NULL
    count,      \* versions of the artifact; they are numbered 1..count
    reviewed,   \* versions with a review of any kind
    passed,     \* versions with a passed AI review
    comment,    \* ReviewComment: version of its review, status
    upload,     \* ArtifactUploadIntent.status
    req,        \* the requests in flight
    approved,   \* history: versions with an approval event "approved"
    decided,    \* history: decisions since the artifact last entered human review
    late        \* history: comments inserted while, or after, their version was approved

vars == <<status, current, count, reviewed, passed, comment, upload, req, approved,
          decided, late>>
history == <<approved, decided, late>>

-----------------------------------------------------------------------------
Version == 1..MaxVersion
Status == {"draft", "ai_reviewing", "human_reviewing", "revision_requested", "approved"}
CommentStatus == {"open", "accepted", "rejected", "resolved"}

\* transition_comment's table of allowed transitions
Allowed == {<<"open", "accepted">>, <<"open", "rejected">>, <<"open", "resolved">>,
            <<"accepted", "resolved">>}

ArtifactOps == {"version", "upload", "submit", "human", "approve", "changes", "revise"}

Idle == [op |-> "idle", v |-> 0, c |-> None, u |-> None, want |-> "none", stale |-> FALSE]

RequestState == [op : {"idle", "comment"} \cup ArtifactOps, v : 0..MaxVersion,
                 c : Comment \cup {None}, u : Upload \cup {None},
                 want : {"none"} \cup CommentStatus, stale : BOOLEAN]

TypeOK ==
    /\ status \in Status
    /\ count \in 0..MaxVersion
    /\ current \in 0..count
    /\ reviewed \subseteq 1..count
    /\ passed \subseteq reviewed
    /\ comment \in [Comment -> [version : 0..count, status : {"none"} \cup CommentStatus]]
    /\ upload \in [Upload -> {"none", "pending", "completed"}]
    /\ req \in [Request -> RequestState]
    /\ approved \subseteq 1..count
    /\ decided \in 0..2
    /\ late \subseteq Comment

-----------------------------------------------------------------------------
(* Optimistic locking. *)

\* Rows with a version column: 0 is the artifact, v the review of version v.
NoRow == -1
Loaded(q) == CASE q.op \in ArtifactOps -> 0
               [] q.op = "comment" -> q.v
               [] OTHER -> NoRow

Begin(r, request) == req[r].op = "idle" /\ req' = [req EXCEPT ![r] = request]

\* The request ends and has updated a row; who has loaded that row is stale.
Finish(r, updated) ==
    req' = [q \in Request |->
              IF q = r THEN Idle
              ELSE [req[q] EXCEPT !.stale = @ \/ (updated # NoRow /\ Loaded(req[q]) = updated)]]

\* Mutant of Fresh: the models without version_id_col.
FreshUnversioned(r) == TRUE

\* UPDATE ... WHERE version = :loaded finds its row.
Fresh(r) == ~req[r].stale

\* VERSION_CONFLICT or any other error: the transaction rolls back.
Abort(r) ==
    /\ req[r].op # "idle"
    /\ Finish(r, NoRow)
    /\ UNCHANGED <<status, current, count, reviewed, passed, comment, upload, history>>

-----------------------------------------------------------------------------
Init ==
    /\ status = "draft"
    /\ current = 0
    /\ count = 0
    /\ reviewed = {}
    /\ passed = {}
    /\ comment = [c \in Comment |-> [version |-> 0, status |-> "none"]]
    /\ upload = [u \in Upload |-> "none"]
    /\ req = [r \in Request |-> Idle]
    /\ approved = {}
    /\ decided = 0
    /\ late = {}

(* Versions.  A new version becomes the current one whatever the status is. *)

\* The number a request computes is max + 1 of what it sees.
BeginVersion(r) ==
    /\ count < MaxVersion
    /\ Begin(r, [Idle EXCEPT !.op = "version", !.v = count + 1])
    /\ UNCHANGED <<status, current, count, reviewed, passed, comment, upload, history>>

CreateUploadIntent(u) ==
    /\ upload[u] = "none"
    /\ upload' = [upload EXCEPT ![u] = "pending"]
    /\ UNCHANGED <<status, current, count, reviewed, passed, comment, req, history>>

\* complete_upload: the intent is pending and the stored object matches it.
BeginUpload(r, u) ==
    /\ upload[u] = "pending"
    /\ count < MaxVersion
    /\ Begin(r, [Idle EXCEPT !.op = "upload", !.v = count + 1, !.u = u])
    /\ UNCHANGED <<status, current, count, reviewed, passed, comment, upload, history>>

\* uq_artifact_versions_number
NumberFree(v) == v > count

InsertVersion(r) ==
    /\ req[r].op \in {"version", "upload"}
    /\ NumberFree(req[r].v)
    /\ Fresh(r)
    /\ count' = req[r].v
    /\ current' = req[r].v
    /\ upload' = [u \in Upload |-> IF u = req[r].u THEN "completed" ELSE upload[u]]
    /\ Finish(r, 0)
    /\ UNCHANGED <<status, reviewed, passed, comment, history>>

-----------------------------------------------------------------------------
(* Reviews and comments. *)

\* Mutant of Exists: the review is stored under an identifier nobody looked up.
ExistsUnchecked(v) == TRUE

Exists(v) == v <= count

\* create_review, of any version at any time
PostReview(v, ai) ==
    /\ Exists(v)
    /\ reviewed' = reviewed \cup {v}
    /\ passed' = IF ai THEN passed \cup {v} ELSE passed
    /\ <<reviewed, passed>>' # <<reviewed, passed>>
    /\ UNCHANGED <<status, current, count, comment, upload, req, history>>

\* The approval of a version has been decided upon, or committed.
Approving(v) == v \in approved \/ \E r \in Request : req[r].op = "approve" /\ req[r].v = v

\* add_review_comment: an insert that touches neither the review nor the artifact
PostComment(c, v) ==
    /\ comment[c].status = "none"
    /\ v \in reviewed
    /\ comment' = [comment EXCEPT ![c] = [version |-> v, status |-> "open"]]
    /\ late' = IF Approving(v) THEN late \cup {c} ELSE late
    /\ UNCHANGED <<status, current, count, reviewed, passed, upload, req, approved, decided>>

BeginComment(r, c, action) ==
    /\ <<comment[c].status, action>> \in Allowed
    /\ Begin(r, [Idle EXCEPT !.op = "comment", !.c = c, !.v = comment[c].version,
                             !.want = action])
    /\ UNCHANGED <<status, current, count, reviewed, passed, comment, upload, history>>

\* The comment's row is protected by the version of its review, which is counted up.
WriteComment(r) ==
    /\ req[r].op = "comment"
    /\ Fresh(r)
    /\ comment' = [comment EXCEPT ![req[r].c].status = req[r].want]
    /\ Finish(r, req[r].v)
    /\ UNCHANGED <<status, current, count, reviewed, passed, upload, history>>

-----------------------------------------------------------------------------
(* The artifact's status. *)

BeginSubmit(r) ==
    /\ current # 0
    /\ status \in {"draft", "revision_requested"}
    /\ Begin(r, [Idle EXCEPT !.op = "submit", !.v = current])
    /\ UNCHANGED <<status, current, count, reviewed, passed, comment, upload, history>>

WriteSubmit(r) ==
    /\ req[r].op = "submit"
    /\ Fresh(r)
    /\ status' = "ai_reviewing"
    /\ Finish(r, 0)
    /\ UNCHANGED <<current, count, reviewed, passed, comment, upload, history>>

PassedAI(v) == v \in passed

\* move_to_human_review
BeginHuman(r) ==
    /\ status = "ai_reviewing"
    /\ PassedAI(current)
    /\ Begin(r, [Idle EXCEPT !.op = "human", !.v = current])
    /\ UNCHANGED <<status, current, count, reviewed, passed, comment, upload, history>>

WriteHuman(r) ==
    /\ req[r].op = "human"
    /\ Fresh(r)
    /\ status' = "human_reviewing"
    /\ decided' = 0
    /\ Finish(r, 0)
    /\ UNCHANGED <<current, count, reviewed, passed, comment, upload, approved, late>>

\* Mutant of Blocking: an accepted comment does not block.
BlockingOpenOnly(v) == {c \in Comment : comment[c].version = v /\ comment[c].status = "open"}

\* The unresolved critical comments on any review of the version.
Blocking(v) == {c \in Comment : comment[c].version = v /\ comment[c].status \in {"open", "accepted"}}

\* approve_version and request_changes of the current version
BeginDecision(r, op) ==
    /\ status = "human_reviewing"
    /\ op = "approve" => Blocking(current) = {}
    /\ Begin(r, [Idle EXCEPT !.op = op, !.v = current])
    /\ UNCHANGED <<status, current, count, reviewed, passed, comment, upload, history>>

WriteDecision(r) ==
    /\ req[r].op \in {"approve", "changes"}
    /\ Fresh(r)
    /\ IF req[r].op = "approve"
       THEN status' = "approved" /\ approved' = approved \cup {req[r].v}
       ELSE status' = "revision_requested" /\ UNCHANGED approved
    /\ decided' = decided + 1
    /\ Finish(r, 0)
    /\ UNCHANGED <<current, count, reviewed, passed, comment, upload, late>>

BeginRevise(r) ==
    /\ status = "revision_requested"
    /\ current # 0
    /\ Begin(r, [Idle EXCEPT !.op = "revise"])
    /\ UNCHANGED <<status, current, count, reviewed, passed, comment, upload, history>>

\* run_auto_revision: n versions with their AI reviews in one transaction; all fail, or
\* the last one passes and is moved to human review.
WriteRevise(r, n, pass) ==
    /\ req[r].op = "revise"
    /\ Fresh(r)
    /\ n = MaxRevision \/ pass
    /\ count + n <= MaxVersion
    /\ count' = count + n
    /\ current' = count + n
    /\ reviewed' = reviewed \cup (count + 1 .. count + n)
    /\ IF pass
       THEN /\ passed' = passed \cup {count + n}
            /\ status' = "human_reviewing"
            /\ decided' = 0
       ELSE UNCHANGED <<passed, status, decided>>
    /\ Finish(r, 0)
    /\ UNCHANGED <<comment, upload, approved, late>>

-----------------------------------------------------------------------------
Next ==
    \/ \E u \in Upload : CreateUploadIntent(u)
    \/ \E v \in Version, ai \in BOOLEAN : PostReview(v, ai)
    \/ \E c \in Comment, v \in Version : PostComment(c, v)
    \/ \E r \in Request :
         \/ BeginVersion(r)
         \/ \E u \in Upload : BeginUpload(r, u)
         \/ \E c \in Comment, action \in CommentStatus : BeginComment(r, c, action)
         \/ BeginSubmit(r)
         \/ BeginHuman(r)
         \/ \E op \in {"approve", "changes"} : BeginDecision(r, op)
         \/ BeginRevise(r)
         \/ InsertVersion(r)
         \/ WriteComment(r)
         \/ WriteSubmit(r)
         \/ WriteHuman(r)
         \/ WriteDecision(r)
         \/ \E n \in 1..MaxRevision, pass \in BOOLEAN : WriteRevise(r, n, pass)
         \/ Abort(r)

Spec == Init /\ [][Next]_vars

-----------------------------------------------------------------------------
(* Properties. *)

\* Approval concerns the version that is current when it is committed, not the one that
\* was current when the request looked.
ApprovesTheCurrent ==
    [][\A v \in approved' \ approved : current = v /\ status = "human_reviewing"]_vars

\* A round of human review ends with one decision: of an approval and a request for
\* changes made at the same time, one fails.
DecidedOnce == decided <= 1

\* A critical comment stays unresolved on an approved version only if it was made after
\* the approving request had looked for such comments.
KnownCriticalBlocks ==
    \A c \in Comment :
        comment[c].version \in approved /\ comment[c].status \in {"open", "accepted"} => c \in late
=============================================================================
