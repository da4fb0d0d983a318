-------------------------- MODULE ArtifactReviewProofs --------------------------
(***************************************************************************)
(* Proofs about ArtifactReview for every number of versions and            *)
(* revisions, and all sets of comments, uploads and concurrent requests.   *)
(*                                                                         *)
(* A request that is not stale decides by the artifact as it is, so a      *)
(* round of human review is decided once and for the current version.      *)
(* Comments are inserted without touching a version column; for them the   *)
(* invariant says what an approving request can have overlooked.           *)
(***************************************************************************)
EXTENDS ArtifactReview, TLAPS

-----------------------------------------------------------------------------
(* The invariant. *)

\* Numbers of new versions follow no rule but the unique index; statuses are as loaded.
ArtifactCopy(q) ==
    /\ q.op = "submit" => current # 0
    /\ q.op = "human" /\ ~q.stale => status = "ai_reviewing"
    /\ q.op \in {"approve", "changes"} =>
         /\ q.v \in 1..count
         /\ ~q.stale => status = "human_reviewing" /\ q.v = current
    /\ q.op = "revise" => current # 0

\* The comment as loaded, under the version column of its review.
CommentCopy(q) ==
    q.op = "comment" =>
      /\ q.c \in Comment
      /\ comment[q.c].version = q.v
      /\ comment[q.c].status # "none"
      /\ q.want \in CommentStatus
      /\ ~q.stale => <<comment[q.c].status, q.want>> \in Allowed

\* What blocks a version that is being approved was inserted since.
ApprovalCopy(q) == q.op = "approve" => Blocking(q.v) \subseteq late

Copies(q) == ArtifactCopy(q) /\ CommentCopy(q) /\ ApprovalCopy(q)

Undecided == status = "human_reviewing" => decided = 0
Begun == status # "draft" => current # 0

ReviewInv ==
    /\ TypeOK
    /\ DecidedOnce
    /\ Undecided
    /\ Begun
    /\ KnownCriticalBlocks
    /\ \A r \in Request : Copies(req[r])

\* What an approval may be given to.
Approves == \A v \in approved' \ approved : current = v /\ status = "human_reviewing"

-----------------------------------------------------------------------------
LEMMA Bounds == MaxVersion \in Nat /\ 0 \in 0..MaxVersion
  BY BoundsAssumption DEF BoundsAssumption

LEMMA InitInv == Init => ReviewInv
  <1> SUFFICES ASSUME Init PROVE ReviewInv
    OBVIOUS
  <1>1. TypeOK
    BY Bounds DEF Init, TypeOK, Status, RequestState, Idle
  <1>2. DecidedOnce /\ Undecided /\ Begun /\ KnownCriticalBlocks
    BY DEF Init, DecidedOnce, Undecided, Begun, KnownCriticalBlocks
  <1>3. \A r \in Request : Copies(req[r])
    BY DEF Init, Idle, Copies, ArtifactCopy, CommentCopy, ApprovalCopy
  <1> QED
    BY <1>1, <1>2, <1>3 DEF ReviewInv

-----------------------------------------------------------------------------
(* How requests keep their copies. *)

Unmoved(q, p, updated) ==
    /\ p.op = q.op /\ p.v = q.v /\ p.c = q.c /\ p.u = q.u /\ p.want = q.want
    /\ p.stale = (q.stale \/ (updated # NoRow /\ Loaded(q) = updated))

LEMMA IdleCopies == Idle \in RequestState /\ Copies(Idle) /\ Copies(Idle)'
  BY Bounds DEF Idle, RequestState, Copies, ArtifactCopy, CommentCopy, ApprovalCopy

LEMMA FinishMoves ==
  ASSUME TypeOK, NEW r \in Request, NEW updated, Finish(r, updated)
  PROVE  /\ req' \in [Request -> RequestState]
         /\ req'[r] = Idle
         /\ \A t \in Request \ {r} : Unmoved(req[t], req'[t], updated)
  <1>1. ASSUME NEW t \in Request \ {r}
        PROVE  req'[t] \in RequestState /\ Unmoved(req[t], req'[t], updated)
    <2> DEFINE late2 == req[t].stale \/ (updated # NoRow /\ Loaded(req[t]) = updated)
    <2>1. req'[t] = [req[t] EXCEPT !.stale = late2]
      BY DEF Finish
    <2>2. late2 \in BOOLEAN /\ req[t] \in RequestState
      BY DEF TypeOK, RequestState
    <2> HIDE DEF late2
    <2>3. /\ req'[t] \in RequestState /\ req'[t].stale = late2
          /\ req'[t].op = req[t].op /\ req'[t].v = req[t].v /\ req'[t].c = req[t].c
          /\ req'[t].u = req[t].u /\ req'[t].want = req[t].want
      BY <2>1, <2>2 DEF RequestState
    <2> QED
      BY <2>3 DEF Unmoved, late2
  <1>2. req'[r] = Idle
    BY DEF Finish
  <1>3. req' = [t \in Request |-> req'[t]]
    BY DEF Finish
  <1> QED
    BY <1>1, <1>2, <1>3, IdleCopies

\* What a step does to the rows that other requests have loaded.
Writes(updated) ==
    /\ updated = 0 \/ UNCHANGED <<status, current>>
    /\ current # 0 => current' # 0
    /\ count' \in Nat /\ count <= count'
    /\ \A c \in Comment : comment[c].status # "none" =>
         /\ comment'[c].version = comment[c].version
         /\ comment'[c].status # "none"
         /\ comment'[c] = comment[c] \/ comment[c].version = updated
    /\ \A t \in Request : req[t].op = "approve" =>
         {c \in Comment : comment'[c].version = req[t].v /\ comment'[c].status \in {"open", "accepted"}}
           \subseteq Blocking(req[t].v) \cup late'
    /\ late \subseteq late'

LEMMA KeepCopies ==
  ASSUME ReviewInv, NEW t \in Request, NEW updated \in {NoRow} \cup 0..MaxVersion,
         Unmoved(req[t], req'[t], updated), Writes(updated)
  PROVE  Copies(req[t])'
  <1> DEFINE q == req[t]
             p == req'[t]
  <1>1. Copies(q) /\ q \in RequestState /\ count \in Nat
    BY DEF ReviewInv, TypeOK
  <1>2. /\ p.op = q.op /\ p.v = q.v /\ p.c = q.c /\ p.want = q.want
        /\ ~p.stale => ~q.stale /\ (updated = NoRow \/ Loaded(q) # updated)
    BY DEF Unmoved
  <1>3. ASSUME q.op \in ArtifactOps, ~p.stale PROVE UNCHANGED <<status, current>>
    <2>1. Loaded(q) = 0
      BY <1>3 DEF Loaded, ArtifactOps
    <2>2. updated # 0
      BY <1>2, <1>3, <2>1 DEF NoRow
    <2> QED
      BY <2>2 DEF Writes
  <1>4. ArtifactCopy(req[t])'
    <2>1. ArtifactCopy(q) /\ (current # 0 => current' # 0) /\ 1..count \subseteq 1..count'
      BY <1>1 DEF Copies, Writes
    <2> QED
      BY <1>2, <1>3, <2>1 DEF ArtifactCopy, ArtifactOps
  <1>5. CommentCopy(req[t])'
    <2> SUFFICES ASSUME q.op = "comment" PROVE CommentCopy(req[t])'
      BY <1>2 DEF CommentCopy
    <2>1. CommentCopy(q)
      BY <1>1 DEF Copies
    <2>2. /\ q.c \in Comment /\ comment[q.c].version = q.v /\ comment[q.c].status # "none"
          /\ q.want \in CommentStatus
          /\ ~q.stale => <<comment[q.c].status, q.want>> \in Allowed
      BY <2>1 DEF CommentCopy
    <2>3. ~p.stale => comment'[q.c] = comment[q.c]
      <3>1. Loaded(q) = q.v /\ q.v \in 0..MaxVersion
        BY <1>1 DEF Loaded, RequestState, ArtifactOps
      <3> QED
        BY <1>2, <2>2, <3>1 DEF Writes, NoRow
    <2>4. comment'[q.c].version = q.v /\ comment'[q.c].status # "none"
      BY <2>2 DEF Writes
    <2> QED
      BY <1>2, <2>2, <2>3, <2>4 DEF CommentCopy
  <1>6. ApprovalCopy(req[t])'
    <2> SUFFICES ASSUME q.op = "approve"
                 PROVE  {c \in Comment : comment'[c].version = q.v
                                         /\ comment'[c].status \in {"open", "accepted"}} \subseteq late'
      BY <1>2 DEF ApprovalCopy, Blocking
    <2>1. Blocking(q.v) \subseteq late
      BY <1>1 DEF Copies, ApprovalCopy
    <2> QED
      BY <2>1 DEF Writes
  <1> QED
    BY <1>4, <1>5, <1>6 DEF Copies

LEMMA FinishKeeps ==
  ASSUME ReviewInv, NEW r \in Request, NEW updated \in {NoRow} \cup 0..MaxVersion,
         Finish(r, updated), Writes(updated)
  PROVE  req' \in [Request -> RequestState] /\ \A t \in Request : Copies(req[t])'
  <1>1. /\ req' \in [Request -> RequestState]
        /\ req'[r] = Idle
        /\ \A t \in Request \ {r} : Unmoved(req[t], req'[t], updated)
    BY FinishMoves DEF ReviewInv
  <1>2. \A t \in Request \ {r} : Copies(req[t])'
    BY <1>1, KeepCopies
  <1>3. Copies(req[r])'
    BY <1>1, IdleCopies DEF Copies, ArtifactCopy, CommentCopy, ApprovalCopy, Idle
  <1> QED
    BY <1>1, <1>2, <1>3

\* The requests do not move.
LEMMA StillKeeps ==
  ASSUME ReviewInv, UNCHANGED req, Writes(NoRow)
  PROVE  req' \in [Request -> RequestState] /\ \A t \in Request : Copies(req[t])'
  <1>1. \A t \in Request : Unmoved(req[t], req'[t], NoRow)
    BY DEF Unmoved, ReviewInv, TypeOK, RequestState
  <1> QED
    BY <1>1, KeepCopies DEF ReviewInv, TypeOK

Rows == <<status, current, count, reviewed, passed, comment, upload, approved, decided, late>>

\* A request begins with a copy of the rows.
LEMMA BeginStep ==
  ASSUME ReviewInv, NEW r \in Request, NEW q \in RequestState, Begin(r, q), Copies(q),
         UNCHANGED Rows
  PROVE  ReviewInv' /\ Approves
  <1>1. req' = [req EXCEPT ![r] = q] /\ req' \in [Request -> RequestState]
    BY DEF Begin, ReviewInv, TypeOK
  <1>2. \A t \in Request : Copies(req'[t])
    BY <1>1 DEF ReviewInv, TypeOK
  <1>3. \A t \in Request : Copies(req[t])'
    BY <1>2 DEF Rows, Copies, ArtifactCopy, CommentCopy, ApprovalCopy, Blocking
  <1>4. TypeOK'
    BY <1>1 DEF ReviewInv, TypeOK, Rows
  <1>5. DecidedOnce' /\ Undecided' /\ Begun' /\ KnownCriticalBlocks'
    BY DEF ReviewInv, Rows, DecidedOnce, Undecided, Begun, KnownCriticalBlocks
  <1> QED
    BY <1>3, <1>4, <1>5 DEF ReviewInv, Approves, Rows

LEMMA BeginVersionStep ==
  ASSUME ReviewInv, NEW r \in Request, BeginVersion(r) \/ \E u \in Upload : BeginUpload(r, u)
  PROVE  ReviewInv' /\ Approves
  <1>1. count \in Nat
    BY DEF ReviewInv, TypeOK
  <1>2. CASE BeginVersion(r)
    <2> DEFINE q == [Idle EXCEPT !.op = "version", !.v = count + 1]
    <2>1. q \in RequestState /\ q.op = "version"
      <3>1. count + 1 \in 0..MaxVersion
        BY <1>1, <1>2, Bounds DEF BeginVersion
      <3> QED
        BY <3>1 DEF Idle, RequestState, ArtifactOps
    <2>2. Copies(q)
      BY <2>1 DEF Copies, ArtifactCopy, CommentCopy, ApprovalCopy
    <2> QED
      BY <1>2, <2>1, <2>2, BeginStep DEF BeginVersion, Rows, history
  <1>3. ASSUME NEW u \in Upload, BeginUpload(r, u)
        PROVE  ReviewInv' /\ Approves
    <2> DEFINE q == [Idle EXCEPT !.op = "upload", !.v = count + 1, !.u = u]
    <2>1. q \in RequestState /\ q.op = "upload"
      <3>1. count < MaxVersion
        BY <1>3 DEF BeginUpload
      <3>2. count + 1 \in 0..MaxVersion
        BY <1>1, <3>1, Bounds
      <3> QED
        BY <3>2 DEF Idle, RequestState, ArtifactOps
    <2>2. Copies(q)
      BY <2>1 DEF Copies, ArtifactCopy, CommentCopy, ApprovalCopy
    <2> QED
      BY <1>3, <2>1, <2>2, BeginStep DEF BeginUpload, Rows, history
  <1> QED
    BY <1>2, <1>3

LEMMA BeginCommentStep ==
  ASSUME ReviewInv, NEW r \in Request, NEW c \in Comment, NEW action \in CommentStatus,
         BeginComment(r, c, action)
  PROVE  ReviewInv' /\ Approves
  <1> DEFINE q == [Idle EXCEPT !.op = "comment", !.c = c, !.v = comment[c].version, !.want = action]
  <1>1. /\ comment[c].version \in 0..MaxVersion
        /\ <<comment[c].status, action>> \in Allowed
        /\ comment[c].status # "none"
    BY Bounds DEF ReviewInv, TypeOK, BeginComment, Allowed
  <1>2. /\ q.op = "comment" /\ q.c = c /\ q.v = comment[c].version /\ q.want = action
        /\ q.stale = FALSE
    BY DEF Idle
  <1>3. q \in RequestState
    BY <1>1 DEF Idle, RequestState
  <1> HIDE DEF q
  <1>4. Copies(q)
    BY <1>1, <1>2 DEF Copies, ArtifactCopy, CommentCopy, ApprovalCopy
  <1> QED
    BY <1>3, <1>4, BeginStep DEF BeginComment, Rows, history, q

LEMMA BeginStatusStep ==
  ASSUME ReviewInv, NEW r \in Request,
         \/ BeginSubmit(r) \/ BeginHuman(r) \/ BeginRevise(r)
         \/ \E op \in {"approve", "changes"} : BeginDecision(r, op)
  PROVE  ReviewInv' /\ Approves
  <1>1. current \in 0..MaxVersion /\ current \in 0..count /\ count \in Nat
        /\ (status # "draft" => current # 0)
    BY Bounds DEF ReviewInv, TypeOK, Begun
  <1>2. CASE BeginSubmit(r)
    <2> DEFINE q == [Idle EXCEPT !.op = "submit", !.v = current]
    <2>1. q \in RequestState /\ Copies(q)
      BY <1>1, <1>2 DEF BeginSubmit, Idle, RequestState, ArtifactOps, Copies, ArtifactCopy,
                        CommentCopy, ApprovalCopy
    <2> QED
      BY <1>2, <2>1, BeginStep DEF BeginSubmit, Rows, history
  <1>3. CASE BeginHuman(r)
    <2> DEFINE q == [Idle EXCEPT !.op = "human", !.v = current]
    <2>1. q \in RequestState /\ Copies(q)
      BY <1>1, <1>3 DEF BeginHuman, Idle, RequestState, ArtifactOps, Copies, ArtifactCopy,
                        CommentCopy, ApprovalCopy
    <2> QED
      BY <1>3, <2>1, BeginStep DEF BeginHuman, Rows, history
  <1>4. CASE BeginRevise(r)
    <2> DEFINE q == [Idle EXCEPT !.op = "revise"]
    <2>1. q \in RequestState /\ q.op = "revise"
      BY Bounds DEF Idle, RequestState, ArtifactOps
    <2>2. Copies(q)
      BY <1>1, <1>4, <2>1 DEF BeginRevise, Copies, ArtifactCopy, CommentCopy, ApprovalCopy
    <2> QED
      BY <1>4, <2>1, <2>2, BeginStep DEF BeginRevise, Rows, history
  <1>5. ASSUME NEW op \in {"approve", "changes"}, BeginDecision(r, op)
        PROVE  ReviewInv' /\ Approves
    <2> DEFINE q == [Idle EXCEPT !.op = op, !.v = current]
    <2>1. q.op = op /\ q.v = current /\ q.stale = FALSE /\ q \in RequestState
      BY <1>1 DEF Idle, RequestState, ArtifactOps
    <2> HIDE DEF q
    <2>2. Copies(q)
      BY <1>1, <1>5, <2>1 DEF BeginDecision, Copies, ArtifactCopy, CommentCopy, ApprovalCopy
    <2> QED
      BY <1>5, <2>1, <2>2, BeginStep DEF BeginDecision, Rows, history, q
  <1> QED
    BY <1>2, <1>3, <1>4, <1>5

-----------------------------------------------------------------------------
(* Steps that change rows. *)

LEMMA UploadIntentStep ==
  ASSUME ReviewInv, NEW u \in Upload, CreateUploadIntent(u)
  PROVE  ReviewInv' /\ Approves
  <1>1. /\ upload' = [upload EXCEPT ![u] = "pending"]
        /\ UNCHANGED <<status, current, count, reviewed, passed, comment, req, approved, decided, late>>
    BY DEF CreateUploadIntent, history
  <1>2. TypeOK'
    BY <1>1 DEF ReviewInv, TypeOK
  <1>3. \A t \in Request : Copies(req[t])'
    BY <1>1 DEF ReviewInv, Copies, ArtifactCopy, CommentCopy, ApprovalCopy, Blocking
  <1>4. DecidedOnce' /\ Undecided' /\ Begun' /\ KnownCriticalBlocks' /\ Approves
    BY <1>1 DEF ReviewInv, DecidedOnce, Undecided, Begun, KnownCriticalBlocks, Approves
  <1> QED
    BY <1>2, <1>3, <1>4 DEF ReviewInv

LEMMA PostReviewStep ==
  ASSUME ReviewInv, NEW v \in Version, NEW ai \in BOOLEAN, PostReview(v, ai)
  PROVE  ReviewInv' /\ Approves
  <1>1. /\ v <= count
        /\ reviewed' = reviewed \cup {v}
        /\ passed' \subseteq passed \cup {v}
        /\ UNCHANGED <<status, current, count, comment, upload, req, approved, decided, late>>
    BY DEF PostReview, Exists, history
  <1>2. v \in 1..count
    BY <1>1, Bounds DEF Version, ReviewInv, TypeOK
  <1>3. TypeOK'
    BY <1>1, <1>2 DEF ReviewInv, TypeOK
  <1>4. \A t \in Request : Copies(req[t])'
    BY <1>1 DEF ReviewInv, Copies, ArtifactCopy, CommentCopy, ApprovalCopy, Blocking
  <1>5. DecidedOnce' /\ Undecided' /\ Begun' /\ KnownCriticalBlocks' /\ Approves
    BY <1>1 DEF ReviewInv, DecidedOnce, Undecided, Begun, KnownCriticalBlocks, Approves
  <1> QED
    BY <1>3, <1>4, <1>5 DEF ReviewInv

\* A comment is inserted; if its version is being approved, it comes late.
LEMMA PostCommentStep ==
  ASSUME ReviewInv, NEW c \in Comment, NEW v \in Version, PostComment(c, v)
  PROVE  ReviewInv' /\ Approves
  <1>1. /\ comment[c].status = "none" /\ v \in reviewed
        /\ comment' = [comment EXCEPT ![c] = [version |-> v, status |-> "open"]]
        /\ late' = IF Approving(v) THEN late \cup {c} ELSE late
        /\ UNCHANGED <<status, current, count, reviewed, passed, upload, req, approved, decided>>
    BY DEF PostComment
  <1>2. v \in 1..count /\ count \in Nat
    BY <1>1 DEF ReviewInv, TypeOK
  <1>3. /\ comment'[c] = [version |-> v, status |-> "open"]
        /\ \A d \in Comment \ {c} : comment'[d] = comment[d]
        /\ late \subseteq late' /\ (Approving(v) => c \in late')
    BY <1>1 DEF ReviewInv, TypeOK
  <1>4. TypeOK'
    <2>1. comment' \in [Comment -> [version : 0..count', status : {"none"} \cup CommentStatus]]
      BY <1>1, <1>2 DEF ReviewInv, TypeOK, CommentStatus
    <2>2. late' \subseteq Comment
      BY <1>1 DEF ReviewInv, TypeOK
    <2> QED
      BY <1>1, <2>1, <2>2 DEF ReviewInv, TypeOK
  <1>5. ASSUME NEW t \in Request, req[t].op = "approve"
        PROVE  {d \in Comment : comment'[d].version = req[t].v
                                /\ comment'[d].status \in {"open", "accepted"}}
                 \subseteq Blocking(req[t].v) \cup late'
    <2>1. req[t].v = v => c \in late'
      BY <1>3, <1>5 DEF Approving
    <2> QED
      BY <1>3, <2>1 DEF Blocking
  <1>6. Writes(NoRow)
    <2>1. \A d \in Comment : comment[d].status # "none" => comment'[d] = comment[d]
      BY <1>1, <1>3
    <2> QED
      BY <1>1, <1>2, <1>3, <1>5, <2>1 DEF Writes
  <1>7. \A t \in Request : Copies(req[t])'
    BY <1>1, <1>6, StillKeeps
  <1>8. KnownCriticalBlocks'
    <2> SUFFICES ASSUME NEW d \in Comment, comment'[d].version \in approved',
                        comment'[d].status \in {"open", "accepted"}
                 PROVE  d \in late'
      BY DEF KnownCriticalBlocks
    <2>1. CASE d = c
      BY <1>1, <1>3, <2>1 DEF Approving
    <2>2. CASE d # c
      BY <1>1, <1>3, <2>2 DEF ReviewInv, KnownCriticalBlocks
    <2> QED
      BY <2>1, <2>2
  <1>9. DecidedOnce' /\ Undecided' /\ Begun' /\ Approves
    BY <1>1 DEF ReviewInv, DecidedOnce, Undecided, Begun, Approves
  <1> QED
    BY <1>4, <1>7, <1>8, <1>9 DEF ReviewInv

\* The comment is as it was loaded: no decision on it is ever taken back.
LEMMA WriteCommentStep ==
  ASSUME ReviewInv, NEW r \in Request, WriteComment(r)
  PROVE  ReviewInv' /\ Approves
  <1> DEFINE c == req[r].c
             v == req[r].v
             want == req[r].want
  <1>1. /\ req[r].op = "comment" /\ ~req[r].stale
        /\ comment' = [comment EXCEPT ![c].status = want]
        /\ Finish(r, v)
        /\ UNCHANGED <<status, current, count, reviewed, passed, upload, approved, decided, late>>
    BY DEF WriteComment, Fresh, history
  <1>2. /\ c \in Comment /\ comment[c].version = v /\ comment[c].status # "none"
        /\ want \in CommentStatus /\ <<comment[c].status, want>> \in Allowed
    BY <1>1 DEF ReviewInv, Copies, CommentCopy
  <1>3. /\ v \in 0..MaxVersion /\ count \in Nat
        /\ comment[c] \in [version : 0..count, status : {"none"} \cup CommentStatus]
    BY <1>2 DEF ReviewInv, TypeOK, RequestState
  <1>4. /\ comment'[c] = [comment[c] EXCEPT !.status = want]
        /\ \A d \in Comment \ {c} : comment'[d] = comment[d]
    BY <1>1, <1>2 DEF ReviewInv, TypeOK
  <1>5. /\ comment'[c].status = want /\ comment'[c].version = v /\ want # "none"
        /\ want \in {"open", "accepted"} => comment[c].status \in {"open", "accepted"}
    BY <1>2, <1>3, <1>4 DEF Allowed
  <1>6. Writes(v)
    <2>1. \A w : {d \in Comment : comment'[d].version = w /\ comment'[d].status \in {"open", "accepted"}}
                   \subseteq Blocking(w)
      BY <1>2, <1>4, <1>5 DEF Blocking
    <2> QED
      BY <1>1, <1>2, <1>3, <1>4, <1>5, <2>1 DEF Writes
  <1>7. req' \in [Request -> RequestState] /\ \A t \in Request : Copies(req[t])'
    BY <1>1, <1>3, <1>6, FinishKeeps
  <1>8. TypeOK'
    <2>1. comment' \in [Comment -> [version : 0..count', status : {"none"} \cup CommentStatus]]
      BY <1>1, <1>2 DEF ReviewInv, TypeOK
    <2> QED
      BY <1>1, <1>7, <2>1 DEF ReviewInv, TypeOK
  <1>9. KnownCriticalBlocks'
    BY <1>1, <1>2, <1>4, <1>5 DEF ReviewInv, KnownCriticalBlocks
  <1>10. DecidedOnce' /\ Undecided' /\ Begun' /\ Approves
    BY <1>1 DEF ReviewInv, DecidedOnce, Undecided, Begun, Approves
  <1> QED
    BY <1>7, <1>8, <1>9, <1>10 DEF ReviewInv

\* Steps that update the artifact's row and no comment.
LEMMA ArtifactWrites ==
  ASSUME ReviewInv, NEW r \in Request, Finish(r, 0), UNCHANGED <<comment, late>>,
         count' \in Nat, count <= count', current # 0 => current' # 0
  PROVE  req' \in [Request -> RequestState] /\ \A t \in Request : Copies(req[t])'
  <1>1. Writes(0)
    BY DEF Writes, Blocking
  <1> QED
    BY <1>1, Bounds, FinishKeeps

LEMMA InsertVersionStep ==
  ASSUME ReviewInv, NEW r \in Request, InsertVersion(r)
  PROVE  ReviewInv' /\ Approves
  <1>1. /\ count' = req[r].v /\ current' = req[r].v /\ req[r].v > count
        /\ upload' = [u \in Upload |-> IF u = req[r].u THEN "completed" ELSE upload[u]]
        /\ Finish(r, 0)
        /\ UNCHANGED <<status, reviewed, passed, comment, approved, decided, late>>
    BY DEF InsertVersion, NumberFree, history
  <1>2. req[r].v \in 0..MaxVersion /\ count \in Nat
    BY DEF ReviewInv, TypeOK, RequestState
  <1>3. req' \in [Request -> RequestState] /\ \A t \in Request : Copies(req[t])'
    BY <1>1, <1>2, Bounds, ArtifactWrites
  <1>4. /\ count' \in 0..MaxVersion /\ current' \in 0..count' /\ current' # 0
        /\ 0..count \subseteq 0..count' /\ 1..count \subseteq 1..count'
    BY <1>1, <1>2, Bounds
  <1>5. TypeOK'
    <2>1. comment' \in [Comment -> [version : 0..count', status : {"none"} \cup CommentStatus]]
      BY <1>1, <1>4 DEF ReviewInv, TypeOK
    <2>2. upload' \in [Upload -> {"none", "pending", "completed"}]
      BY <1>1 DEF ReviewInv, TypeOK
    <2> QED
      BY <1>1, <1>3, <1>4, <2>1, <2>2 DEF ReviewInv, TypeOK
  <1>6. DecidedOnce' /\ Undecided' /\ Begun' /\ KnownCriticalBlocks' /\ Approves
    BY <1>1, <1>4 DEF ReviewInv, DecidedOnce, Undecided, Begun, KnownCriticalBlocks, Approves
  <1> QED
    BY <1>3, <1>5, <1>6 DEF ReviewInv

LEMMA WriteSubmitStep ==
  ASSUME ReviewInv, NEW r \in Request, WriteSubmit(r)
  PROVE  ReviewInv' /\ Approves
  <1>1. /\ status' = "ai_reviewing" /\ Finish(r, 0) /\ current # 0
        /\ UNCHANGED <<current, count, reviewed, passed, comment, upload, approved, decided, late>>
    BY DEF WriteSubmit, history, ReviewInv, Copies, ArtifactCopy
  <1>2. req' \in [Request -> RequestState] /\ \A t \in Request : Copies(req[t])'
    BY <1>1, ArtifactWrites DEF ReviewInv, TypeOK
  <1>3. TypeOK'
    BY <1>1, <1>2 DEF ReviewInv, TypeOK, Status
  <1>4. DecidedOnce' /\ Undecided' /\ Begun' /\ KnownCriticalBlocks' /\ Approves
    BY <1>1 DEF ReviewInv, DecidedOnce, Undecided, Begun, KnownCriticalBlocks, Approves
  <1> QED
    BY <1>2, <1>3, <1>4 DEF ReviewInv

LEMMA WriteHumanStep ==
  ASSUME ReviewInv, NEW r \in Request, WriteHuman(r)
  PROVE  ReviewInv' /\ Approves
  <1>1. /\ status' = "human_reviewing" /\ decided' = 0 /\ Finish(r, 0)
        /\ status = "ai_reviewing"
        /\ UNCHANGED <<current, count, reviewed, passed, comment, upload, approved, late>>
    BY DEF WriteHuman, Fresh, ReviewInv, Copies, ArtifactCopy
  <1>2. req' \in [Request -> RequestState] /\ \A t \in Request : Copies(req[t])'
    BY <1>1, ArtifactWrites DEF ReviewInv, TypeOK
  <1>3. TypeOK'
    BY <1>1, <1>2 DEF ReviewInv, TypeOK, Status
  <1>4. DecidedOnce' /\ Undecided' /\ Begun' /\ KnownCriticalBlocks' /\ Approves
    BY <1>1 DEF ReviewInv, DecidedOnce, Undecided, Begun, KnownCriticalBlocks, Approves
  <1> QED
    BY <1>2, <1>3, <1>4 DEF ReviewInv

\* The artifact is as the deciding request has loaded it.
LEMMA WriteDecisionStep ==
  ASSUME ReviewInv, NEW r \in Request, WriteDecision(r)
  PROVE  ReviewInv' /\ Approves
  <1> DEFINE v == req[r].v
  <1>1. /\ req[r].op \in {"approve", "changes"} /\ ~req[r].stale
        /\ status' \in {"approved", "revision_requested"}
        /\ \/ approved' = approved
           \/ req[r].op = "approve" /\ approved' = approved \cup {v}
        /\ decided' = decided + 1
        /\ Finish(r, 0)
        /\ UNCHANGED <<current, count, reviewed, passed, comment, upload, late>>
    BY DEF WriteDecision, Fresh
  <1>2. status = "human_reviewing" /\ v = current /\ v \in 1..count
    BY <1>1 DEF ReviewInv, Copies, ArtifactCopy
  <1>3. decided' = 1
    BY <1>1, <1>2 DEF ReviewInv, Undecided
  <1>4. req' \in [Request -> RequestState] /\ \A t \in Request : Copies(req[t])'
    BY <1>1, ArtifactWrites DEF ReviewInv, TypeOK
  <1>5. TypeOK'
    <2>1. approved' \subseteq 1..count
      <3>1. approved \subseteq 1..count
        BY DEF ReviewInv, TypeOK
      <3>2. approved' \subseteq approved \cup {v}
        BY <1>1
      <3> QED
        BY <1>2, <3>1, <3>2
    <2>2. status' \in Status /\ decided' \in 0..2
      BY <1>1, <1>3 DEF Status
    <2> QED
      BY <1>1, <1>4, <2>1, <2>2 DEF ReviewInv, TypeOK
  <1>6. KnownCriticalBlocks'
    <2>1. req[r].op = "approve" => Blocking(v) \subseteq late
      BY DEF ReviewInv, Copies, ApprovalCopy
    <2> QED
      BY <1>1, <2>1 DEF ReviewInv, KnownCriticalBlocks, Blocking
  <1>7. DecidedOnce' /\ Undecided' /\ Begun' /\ Approves
    BY <1>1, <1>2, <1>3 DEF ReviewInv, DecidedOnce, Undecided, Begun, Approves
  <1> QED
    BY <1>4, <1>5, <1>6, <1>7 DEF ReviewInv

LEMMA WriteReviseStep ==
  ASSUME ReviewInv, NEW r \in Request, NEW n \in 1..MaxRevision, NEW pass \in BOOLEAN,
         WriteRevise(r, n, pass)
  PROVE  ReviewInv' /\ Approves
  <1>1. /\ count + n <= MaxVersion /\ count' = count + n /\ current' = count + n
        /\ reviewed' = reviewed \cup (count + 1 .. count + n)
        /\ passed' \subseteq passed \cup {count + n}
        /\ \/ status' = status /\ decided' = decided
           \/ status' = "human_reviewing" /\ decided' = 0
        /\ Finish(r, 0)
        /\ UNCHANGED <<comment, upload, approved, late>>
    BY DEF WriteRevise
  <1>2. count \in Nat /\ n \in Nat \ {0} /\ MaxVersion \in Nat
    BY Bounds, BoundsAssumption DEF ReviewInv, TypeOK, BoundsAssumption
  <1>3. /\ count' \in 0..MaxVersion /\ current' \in 0..count' /\ current' # 0
        /\ 0..count \subseteq 0..count' /\ 1..count \subseteq 1..count'
        /\ count + n \in count + 1 .. count + n /\ count + 1 .. count + n \subseteq 1..count'
    BY <1>1, <1>2
  <1>4. req' \in [Request -> RequestState] /\ \A t \in Request : Copies(req[t])'
    BY <1>1, <1>2, <1>3, ArtifactWrites
  <1>5. TypeOK'
    <2>1. comment' \in [Comment -> [version : 0..count', status : {"none"} \cup CommentStatus]]
      BY <1>1, <1>3 DEF ReviewInv, TypeOK
    <2>2. /\ reviewed' \subseteq 1..count' /\ approved' \subseteq 1..count'
          /\ passed' \subseteq reviewed'
      BY <1>1, <1>3 DEF ReviewInv, TypeOK
    <2>3. status' \in Status /\ decided' \in 0..2
      BY <1>1 DEF ReviewInv, TypeOK, Status
    <2> QED
      BY <1>1, <1>3, <1>4, <2>1, <2>2, <2>3 DEF ReviewInv, TypeOK
  <1>6. DecidedOnce' /\ Undecided' /\ Begun' /\ KnownCriticalBlocks' /\ Approves
    BY <1>1, <1>3 DEF ReviewInv, DecidedOnce, Undecided, Begun, KnownCriticalBlocks, Approves
  <1> QED
    BY <1>4, <1>5, <1>6 DEF ReviewInv

LEMMA AbortStep ==
  ASSUME ReviewInv, NEW r \in Request, Abort(r)
  PROVE  ReviewInv' /\ Approves
  <1>1. Finish(r, NoRow) /\ UNCHANGED Rows
    BY DEF Abort, Rows, history
  <1>2. count \in Nat
    BY DEF ReviewInv, TypeOK
  <1>3. Writes(NoRow)
    BY <1>1, <1>2 DEF Writes, Rows, Blocking
  <1>4. req' \in [Request -> RequestState] /\ \A t \in Request : Copies(req[t])'
    BY <1>1, <1>3, FinishKeeps
  <1>5. TypeOK'
    BY <1>1, <1>4 DEF ReviewInv, TypeOK, Rows
  <1>6. DecidedOnce' /\ Undecided' /\ Begun' /\ KnownCriticalBlocks' /\ Approves
    BY <1>1 DEF Rows, ReviewInv, DecidedOnce, Undecided, Begun, KnownCriticalBlocks, Approves
  <1> QED
    BY <1>4, <1>5, <1>6 DEF ReviewInv

-----------------------------------------------------------------------------
(* Every step. *)

LEMMA NextStep ==
  ASSUME ReviewInv, [Next]_vars
  PROVE  ReviewInv' /\ Approves
  <1>1. CASE UNCHANGED vars
    <2>1. UNCHANGED Rows /\ UNCHANGED req /\ count \in Nat
      BY <1>1 DEF vars, Rows, ReviewInv, TypeOK
    <2>2. Writes(NoRow)
      BY <2>1 DEF Writes, Rows, Blocking
    <2>3. \A t \in Request : Copies(req[t])'
      BY <2>1, <2>2, StillKeeps
    <2>4. TypeOK' /\ DecidedOnce' /\ Undecided' /\ Begun' /\ KnownCriticalBlocks' /\ Approves
      BY <2>1 DEF Rows, ReviewInv, TypeOK, DecidedOnce, Undecided, Begun, KnownCriticalBlocks, Approves
    <2> QED
      BY <2>3, <2>4 DEF ReviewInv
  <1>2. ASSUME NEW u \in Upload, CreateUploadIntent(u) PROVE ReviewInv' /\ Approves
    BY <1>2, UploadIntentStep
  <1>3. ASSUME NEW v \in Version, NEW ai \in BOOLEAN, PostReview(v, ai)
        PROVE  ReviewInv' /\ Approves
    BY <1>3, PostReviewStep
  <1>4. ASSUME NEW c \in Comment, NEW v \in Version, PostComment(c, v)
        PROVE  ReviewInv' /\ Approves
    BY <1>4, PostCommentStep
  <1>5. ASSUME NEW r \in Request,
               \/ BeginVersion(r) \/ \E u \in Upload : BeginUpload(r, u)
        PROVE  ReviewInv' /\ Approves
    BY <1>5, BeginVersionStep
  <1>6. ASSUME NEW r \in Request, NEW c \in Comment, NEW action \in CommentStatus,
               BeginComment(r, c, action)
        PROVE  ReviewInv' /\ Approves
    BY <1>6, BeginCommentStep
  <1>7. ASSUME NEW r \in Request,
               \/ BeginSubmit(r) \/ BeginHuman(r) \/ BeginRevise(r)
               \/ \E op \in {"approve", "changes"} : BeginDecision(r, op)
        PROVE  ReviewInv' /\ Approves
    BY <1>7, BeginStatusStep
  <1>8. ASSUME NEW r \in Request,
               \/ InsertVersion(r) \/ WriteComment(r) \/ WriteSubmit(r) \/ WriteHuman(r)
               \/ WriteDecision(r) \/ Abort(r)
        PROVE  ReviewInv' /\ Approves
    BY <1>8, InsertVersionStep, WriteCommentStep, WriteSubmitStep, WriteHumanStep,
       WriteDecisionStep, AbortStep
  <1>9. ASSUME NEW r \in Request, NEW n \in 1..MaxRevision, NEW pass \in BOOLEAN,
               WriteRevise(r, n, pass)
        PROVE  ReviewInv' /\ Approves
    BY <1>9, WriteReviseStep
  <1> QED
    BY <1>1, <1>2, <1>3, <1>4, <1>5, <1>6, <1>7, <1>8, <1>9 DEF Next

-----------------------------------------------------------------------------
(* Theorems. *)

\* Copies agree with the artifact, and with the comments, or are stale.
THEOREM ReviewInvariant == Spec => []ReviewInv
  <1>1. ReviewInv /\ [Next]_vars => ReviewInv'
    BY NextStep
  <1> QED
    BY <1>1, InitInv, PTL DEF Spec

\* Versions, reviews, comments and requests keep their types.
THEOREM ReviewTypes == Spec => []TypeOK
  <1>1. ReviewInv => TypeOK
    BY DEF ReviewInv
  <1> QED
    BY <1>1, ReviewInvariant, PTL

\* approve_version and request_changes: a round of human review has one decision.
THEOREM OneDecision == Spec => []DecidedOnce
  <1>1. ReviewInv => DecidedOnce
    BY DEF ReviewInv
  <1> QED
    BY <1>1, ReviewInvariant, PTL

\* approve_version: critical comments it could see are resolved.
THEOREM CriticalBlocks == Spec => []KnownCriticalBlocks
  <1>1. ReviewInv => KnownCriticalBlocks
    BY DEF ReviewInv
  <1> QED
    BY <1>1, ReviewInvariant, PTL

\* approve_version: what is approved is current when the approval commits.
THEOREM ApprovalOfCurrent == Spec => ApprovesTheCurrent
  <1>1. ReviewInv /\ [Next]_vars
          => [\A v \in approved' \ approved : current = v /\ status = "human_reviewing"]_vars
    BY NextStep DEF Approves
  <1> QED
    BY <1>1, ReviewInvariant, PTL DEF Spec, ApprovesTheCurrent
=============================================================================
