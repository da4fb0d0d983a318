-------------------------- MODULE CommunicationsProofs --------------------------
(***************************************************************************)
(* Proofs about the two halves of app/services/communications.py, for      *)
(* every set of users, messages, change requests, sessions and every bound *)
(* on attempts and time.                                                   *)
(*                                                                         *)
(* ProjectChat and Notifications share no variable and no step; each has   *)
(* its own specification here.                                             *)
(*                                                                         *)
(* Chat: what a request decided by still stands in the row unless the      *)
(* request is stale.  Notifications: the same for the loaded notification  *)
(* and the loaded message, and an e-mail row inserted and not yet          *)
(* committed is the only one.                                              *)
(***************************************************************************)
EXTENDS ProjectChat, Notifications, FiniteSetTheorems, TLAPS

-----------------------------------------------------------------------------
\* An edit was begun on a message that was not deleted.
EditCopy(q) ==
    q.op \in {"edit", "delete"} =>
      /\ q.m \in Message /\ q.c = None
      /\ q.op = "edit" /\ ~q.stale => message[q.m].status \in {"active", "edited"}
      /\ message[q.m].status # "none"

\* An analysis holds a draft, a decision an analyzed change request.
ReviewCopy(q) ==
    q.op \in {"analyze", "decide"} =>
      /\ q.c \in Change /\ q.m = None
      /\ q.op = "analyze" /\ ~q.stale => change[q.c].status = "draft"
      /\ q.op = "decide" /\ ~q.stale => change[q.c].status = "awaiting_customer_approval"
      /\ q.op = "decide" => q.want \in Decision
      /\ change[q.c].status # "none"

Copies(q) == EditCopy(q) /\ ReviewCopy(q)

ChatInv ==
    /\ TypeOK
    /\ RequestsAreDecidedOnce
    /\ \A s \in Session : Copies(session[s])

\* What a step may never do to the message or the change request that requests hold.
Kept ==
    \A m \in Message : message[m].status = "deleted" => message'[m].status = "deleted"

-----------------------------------------------------------------------------
LEMMA InitInv == Init => ChatInv
  <1> SUFFICES ASSUME Init PROVE ChatInv
    OBVIOUS
  <1>1. TypeOK
    BY DEF Init, TypeOK, MessageRow, ChangeRow, SessionState, Idle, Scope
  <1>2. RequestsAreDecidedOnce
    BY DEF Init, RequestsAreDecidedOnce
  <1>3. \A s \in Session : Copies(session[s])
    BY DEF Init, Idle, Copies, EditCopy, ReviewCopy
  <1> QED
    BY <1>1, <1>2, <1>3 DEF ChatInv

\* A request begins with a copy of its row.
LEMMA BeginStep ==
  ASSUME ChatInv, NEW s \in Session, NEW q \in SessionState, Begin(s, q), Copies(q)
  PROVE  ChatInv' /\ Kept
  <1>1. /\ session' = [session EXCEPT ![s] = q]
        /\ UNCHANGED <<room, message, attached, change, impacts, announced>>
    BY DEF Begin
  <1>2. TypeOK'
    BY <1>1 DEF ChatInv, TypeOK
  <1>3. \A t \in Session : Copies(session'[t])
    BY <1>1 DEF ChatInv, TypeOK
  <1>4. \A t \in Session : Copies(session[t])'
    BY <1>1, <1>3 DEF Copies, EditCopy, ReviewCopy
  <1>5. RequestsAreDecidedOnce' /\ Kept
    BY <1>1 DEF ChatInv, RequestsAreDecidedOnce, Kept
  <1> QED
    BY <1>2, <1>4, <1>5 DEF ChatInv

LEMMA AbortStep ==
  ASSUME ChatInv, NEW s \in Session, Abort(s)
  PROVE  ChatInv' /\ Kept
  <1>1. /\ session' = [session EXCEPT ![s] = Idle]
        /\ UNCHANGED <<room, message, attached, change, impacts, announced>>
    BY DEF Abort
  <1>2. Idle \in SessionState /\ Copies(Idle)
    BY DEF Idle, SessionState, Copies, EditCopy, ReviewCopy
  <1>3. TypeOK'
    BY <1>1, <1>2 DEF ChatInv, TypeOK
  <1>4. \A t \in Session : Copies(session'[t])
    BY <1>1, <1>2 DEF ChatInv, TypeOK
  <1>5. \A t \in Session : Copies(session[t])'
    BY <1>1, <1>4 DEF Copies, EditCopy, ReviewCopy
  <1>6. RequestsAreDecidedOnce' /\ Kept
    BY <1>1 DEF ChatInv, RequestsAreDecidedOnce, Kept
  <1> QED
    BY <1>3, <1>5, <1>6 DEF ChatInv

\* A request that ends: the others are as they were, or stale.
LEMMA FinishMoves ==
  ASSUME ChatInv, NEW s \in Session, Finish(s)
  PROVE  /\ session' \in [Session -> SessionState]
         /\ Copies(session[s])'
         /\ \A t \in Session \ {s} :
              /\ session'[t].op = session[t].op /\ session'[t].m = session[t].m
              /\ session'[t].c = session[t].c /\ session'[t].want = session[t].want
              /\ session'[t].stale = (session[t].stale \/ SameRow(s, t))
  <1>1. \A t \in Session : session[t] \in SessionState
    BY DEF ChatInv, TypeOK
  <1>2. session'[s] = Idle
    BY DEF Finish
  <1>3. ASSUME NEW t \in Session \ {s}
        PROVE  /\ session'[t] \in SessionState
               /\ session'[t].op = session[t].op /\ session'[t].m = session[t].m
               /\ session'[t].c = session[t].c /\ session'[t].want = session[t].want
               /\ session'[t].stale = (session[t].stale \/ SameRow(s, t))
    <2> DEFINE late == session[t].stale \/ SameRow(s, t)
    <2>1. session'[t] = [session[t] EXCEPT !.stale = late]
      BY DEF Finish
    <2>2. late \in BOOLEAN
      BY DEF SameRow
    <2> HIDE DEF late
    <2>3. /\ session'[t] \in SessionState
          /\ session'[t].op = session[t].op /\ session'[t].m = session[t].m
          /\ session'[t].c = session[t].c /\ session'[t].want = session[t].want
          /\ session'[t].stale = late
      BY <1>1, <2>1, <2>2 DEF SessionState
    <2> QED
      BY <2>3 DEF late
  <1>4. Idle \in SessionState /\ Copies(session[s])'
    BY <1>2 DEF Idle, SessionState, Copies, EditCopy, ReviewCopy
  <1>5. session' = [t \in Session |-> session'[t]]
    BY DEF Finish
  <1> QED
    BY <1>2, <1>3, <1>4, <1>5

-----------------------------------------------------------------------------
(* Steps that no request in flight depends on. *)

\* New rows and reads by no request: rows that requests hold stay as they are.
LEMMA QuietStep ==
  ASSUME ChatInv, TypeOK', RequestsAreDecidedOnce', UNCHANGED session,
         \A m \in Message : message'[m] = message[m] \/ message[m].status = "none",
         \A c \in Change : change'[c] = change[c] \/ change[c].status = "none"
  PROVE  ChatInv' /\ Kept
  <1>1. \A s \in Session : Copies(session[s])'
    BY DEF ChatInv, Copies, EditCopy, ReviewCopy
  <1> QED
    BY <1>1 DEF ChatInv, Kept

LEMMA RoomStep ==
  ASSUME ChatInv,
         \/ \E u \in User : CreateRoom(u)
         \/ \E m \in Message, v \in Version : Attach(m, v)
  PROVE  ChatInv' /\ Kept
  <1>1. UNCHANGED <<message, change, impacts, announced, session>>
    BY DEF CreateRoom, Attach
  <1>2. TypeOK'
    <2>1. CASE \E u \in User : CreateRoom(u)
      BY <2>1 DEF ChatInv, TypeOK, CreateRoom
    <2>2. ASSUME NEW m \in Message, NEW v \in Version, Attach(m, v)
          PROVE  TypeOK'
      <3>1. attached' = attached \cup {<<m, v>>} /\ UNCHANGED room
        BY <2>2 DEF Attach
      <3>2. attached' \subseteq Message \X Version
        BY <3>1 DEF ChatInv, TypeOK
      <3> QED
        BY <1>1, <3>1, <3>2 DEF ChatInv, TypeOK
    <2> QED
      BY <2>1, <2>2
  <1>3. RequestsAreDecidedOnce'
    BY <1>1 DEF ChatInv, RequestsAreDecidedOnce
  <1> QED
    BY <1>1, <1>2, <1>3, QuietStep

LEMMA PostStep ==
  ASSUME ChatInv, NEW m \in Message, (\E u \in User : Post(u, m)) \/ PostAI(m)
  PROVE  ChatInv' /\ Kept
  <1>1. PICK a \in User \cup {None} :
           message' = [message EXCEPT ![m] = [status |-> "active", author |-> a]]
    BY DEF Post, PostAI
  <1>2. /\ message[m].status = "none"
        /\ announced' \subseteq announced \cup {<<"chat_message_received", m>>}
        /\ announced \subseteq announced'
        /\ UNCHANGED <<room, attached, change, impacts, session>>
    BY DEF Post, PostAI
  <1>3. TypeOK'
    BY <1>1, <1>2 DEF ChatInv, TypeOK, MessageRow, Event
  <1>4. RequestsAreDecidedOnce'
    BY <1>2 DEF ChatInv, RequestsAreDecidedOnce
  <1>5. \A n \in Message : message'[n] = message[n] \/ message[n].status = "none"
    BY <1>1, <1>2 DEF ChatInv, TypeOK
  <1> QED
    BY <1>2, <1>3, <1>4, <1>5, QuietStep

LEMMA CreateChangeStep ==
  ASSUME ChatInv, NEW u \in User, NEW c \in Change, NEW m \in Message, NEW scope \in Scope,
         CreateChange(u, c, m, scope)
  PROVE  ChatInv' /\ Kept
  <1>1. /\ change[c].status = "none"
        /\ change' = [change EXCEPT ![c] = [status |-> "draft", scope |-> scope, message |-> m]]
        /\ announced' = announced \cup {<<"change_request_submitted", c>>}
        /\ UNCHANGED <<room, message, attached, impacts, session>>
    BY DEF CreateChange
  <1>2. TypeOK'
    BY <1>1 DEF ChatInv, TypeOK, ChangeRow, Event
  <1>3. change'[c].status = "draft" /\ \A d \in Change \ {c} : change'[d] = change[d]
    BY <1>1 DEF ChatInv, TypeOK
  <1>4. RequestsAreDecidedOnce'
    BY <1>1, <1>3 DEF ChatInv, RequestsAreDecidedOnce
  <1> QED
    BY <1>1, <1>2, <1>3, <1>4, QuietStep

-----------------------------------------------------------------------------
(* The beginning of each request. *)

LEMMA BeginMessageStep ==
  ASSUME ChatInv, NEW s \in Session, NEW u \in User, NEW m \in Message,
         BeginEdit(s, u, m) \/ BeginDelete(s, u, m)
  PROVE  ChatInv' /\ Kept
  <1>1. CASE BeginEdit(s, u, m)
    <2> DEFINE q == [Idle EXCEPT !.op = "edit", !.m = m]
    <2>1. q \in SessionState /\ Copies(q)
      BY <1>1 DEF BeginEdit, Idle, SessionState, Copies, EditCopy, ReviewCopy
    <2> QED
      BY <1>1, <2>1, BeginStep DEF BeginEdit
  <1>2. CASE BeginDelete(s, u, m)
    <2> DEFINE q == [Idle EXCEPT !.op = "delete", !.m = m]
    <2>1. q \in SessionState /\ Copies(q)
      BY <1>2 DEF BeginDelete, Idle, SessionState, Copies, EditCopy, ReviewCopy
    <2> QED
      BY <1>2, <2>1, BeginStep DEF BeginDelete
  <1> QED
    BY <1>1, <1>2

LEMMA BeginReviewStep ==
  ASSUME ChatInv, NEW s \in Session, NEW c \in Change,
         BeginAnalyze(s, c) \/ \E u \in User, want \in Decision : BeginDecide(s, u, c, want)
  PROVE  ChatInv' /\ Kept
  <1>1. CASE BeginAnalyze(s, c)
    <2> DEFINE q == [Idle EXCEPT !.op = "analyze", !.c = c]
    <2>1. q \in SessionState /\ Copies(q)
      BY <1>1 DEF BeginAnalyze, Analyzable, Idle, SessionState, Copies, EditCopy, ReviewCopy
    <2> QED
      BY <1>1, <2>1, BeginStep DEF BeginAnalyze
  <1>2. ASSUME NEW u \in User, NEW want \in Decision, BeginDecide(s, u, c, want)
        PROVE  ChatInv' /\ Kept
    <2> DEFINE q == [Idle EXCEPT !.op = "decide", !.c = c, !.want = want]
    <2>1. q \in SessionState /\ Copies(q)
      BY <1>2 DEF BeginDecide, Idle, SessionState, Copies, EditCopy, ReviewCopy
    <2> QED
      BY <1>2, <2>1, BeginStep DEF BeginDecide
  <1> QED
    BY <1>1, <1>2

-----------------------------------------------------------------------------
(* The end of each request. *)

LEMMA WriteMessageStep ==
  ASSUME ChatInv, NEW s \in Session, WriteMessage(s)
  PROVE  ChatInv' /\ Kept
  <1> DEFINE m == session[s].m
             new == IF session[s].op = "edit" THEN "edited" ELSE "deleted"
  <1>1. /\ session[s].op \in {"edit", "delete"} /\ ~session[s].stale
        /\ m \in Message /\ session[s].c = None
        /\ session[s].op = "edit" => message[m].status \in {"active", "edited"}
    BY DEF WriteMessage, Fresh, ChatInv, Copies, EditCopy
  <1>2. /\ message' = [message EXCEPT ![m].status = new]
        /\ Finish(s)
        /\ UNCHANGED <<room, attached, change, impacts, announced>>
    BY DEF WriteMessage
  <1>3. message \in [Message -> MessageRow] /\ message[m] \in MessageRow
    BY <1>1 DEF ChatInv, TypeOK
  <1>4. /\ message'[m] = [message[m] EXCEPT !.status = new]
        /\ \A n \in Message \ {m} : message'[n] = message[n]
    BY <1>1, <1>2, <1>3
  <1>5. message'[m].status = new /\ message'[m] \in MessageRow
    BY <1>3, <1>4 DEF MessageRow
  <1>6. /\ session' \in [Session -> SessionState]
        /\ Copies(session[s])'
        /\ \A t \in Session \ {s} :
             /\ session'[t].op = session[t].op /\ session'[t].m = session[t].m
             /\ session'[t].c = session[t].c /\ session'[t].want = session[t].want
             /\ session'[t].stale = (session[t].stale \/ SameRow(s, t))
    BY <1>2, FinishMoves
  <1>7. ASSUME NEW t \in Session \ {s} PROVE Copies(session[t])'
    <2>1. Copies(session[t])
      BY DEF ChatInv
    <2>2. ReviewCopy(session[t])'
      BY <1>2, <1>6, <2>1 DEF Copies, ReviewCopy
    <2>3. EditCopy(session[t])'
      <3>1. CASE session[t].op \in {"edit", "delete"} /\ session[t].m = m
        <4>1. SameRow(s, t)
          BY <1>1, <2>1, <3>1 DEF SameRow, Copies, EditCopy
        <4> QED
          BY <1>5, <1>6, <2>1, <3>1, <4>1 DEF Copies, EditCopy
      <3>2. CASE session[t].op \in {"edit", "delete"} /\ session[t].m # m
        <4>1. EditCopy(session[t]) /\ session[t].m \in Message \ {m}
          BY <2>1, <3>2 DEF Copies, EditCopy
        <4>2. message'[session[t].m] = message[session[t].m]
          BY <1>4, <4>1
        <4>3. session[t].stale => session'[t].stale
          BY <1>6
        <4> QED
          BY <1>6, <4>1, <4>2, <4>3 DEF EditCopy
      <3>3. CASE session[t].op \notin {"edit", "delete"}
        BY <1>4, <1>6, <3>3 DEF EditCopy
      <3> QED
        BY <3>1, <3>2, <3>3
    <2> QED
      BY <2>2, <2>3 DEF Copies
  <1>8. TypeOK'
    <2>1. message' \in [Message -> MessageRow]
      BY <1>2, <1>3, <1>4, <1>5
    <2> QED
      BY <1>2, <1>6, <2>1 DEF ChatInv, TypeOK
  <1>9. RequestsAreDecidedOnce'
    BY <1>2 DEF ChatInv, RequestsAreDecidedOnce
  <1>10. Kept
    BY <1>1, <1>4, <1>5 DEF Kept
  <1> QED
    BY <1>6, <1>7, <1>8, <1>9, <1>10 DEF ChatInv

\* What an analysis and a decision have in common: the others that hold the row are stale.
LEMMA ReviewMoves ==
  ASSUME ChatInv, NEW s \in Session, session[s].op \in {"analyze", "decide"}, Finish(s),
         NEW status \in {"awaiting_customer_approval"} \cup Decision,
         change' = [change EXCEPT ![session[s].c].status = status],
         UNCHANGED message
  PROVE  /\ session' \in [Session -> SessionState]
         /\ \A t \in Session : Copies(session[t])'
         /\ change' \in [Change -> ChangeRow]
         /\ change'[session[s].c].status = status
         /\ \A d \in Change \ {session[s].c} : change'[d] = change[d]
  <1> DEFINE c == session[s].c
  <1>1. c \in Change /\ session[s].m = None
    BY DEF ChatInv, Copies, ReviewCopy
  <1>2. change \in [Change -> ChangeRow] /\ change[c] \in ChangeRow
    BY <1>1 DEF ChatInv, TypeOK
  <1>3. /\ change'[c] = [change[c] EXCEPT !.status = status]
        /\ \A d \in Change \ {c} : change'[d] = change[d]
    BY <1>1, <1>2
  <1>4. change'[c].status = status /\ change'[c] \in ChangeRow
    BY <1>2, <1>3 DEF ChangeRow
  <1>5. /\ session' \in [Session -> SessionState]
        /\ Copies(session[s])'
        /\ \A t \in Session \ {s} :
             /\ session'[t].op = session[t].op /\ session'[t].m = session[t].m
             /\ session'[t].c = session[t].c /\ session'[t].want = session[t].want
             /\ session'[t].stale = (session[t].stale \/ SameRow(s, t))
    BY FinishMoves
  <1>6. ASSUME NEW t \in Session \ {s} PROVE Copies(session[t])'
    <2>1. Copies(session[t])
      BY DEF ChatInv
    <2>2. EditCopy(session[t])'
      BY <1>5, <2>1 DEF Copies, EditCopy
    <2>3. ReviewCopy(session[t])'
      <3>1. CASE session[t].op \in {"analyze", "decide"} /\ session[t].c = c
        <4>1. SameRow(s, t)
          BY <1>1, <2>1, <3>1 DEF SameRow, Copies, ReviewCopy
        <4>2. change'[c].status # "none"
          BY <1>4 DEF Decision
        <4> QED
          BY <1>5, <2>1, <3>1, <4>1, <4>2 DEF Copies, ReviewCopy
      <3>2. CASE session[t].op \in {"analyze", "decide"} /\ session[t].c # c
        <4>1. ReviewCopy(session[t]) /\ session[t].c \in Change \ {c}
          BY <2>1, <3>2 DEF Copies, ReviewCopy
        <4>2. change'[session[t].c] = change[session[t].c]
          BY <1>3, <4>1
        <4>3. session[t].stale => session'[t].stale
          BY <1>5
        <4> QED
          BY <1>5, <4>1, <4>2, <4>3 DEF ReviewCopy
      <3>3. CASE session[t].op \notin {"analyze", "decide"}
        BY <1>3, <1>5, <3>3 DEF ReviewCopy
      <3> QED
        BY <3>1, <3>2, <3>3
    <2> QED
      BY <2>2, <2>3 DEF Copies
  <1>7. change' \in [Change -> ChangeRow]
    BY <1>2, <1>3, <1>4
  <1> QED
    BY <1>3, <1>4, <1>5, <1>6, <1>7

\* The draft is still one, so this is its first analysis.
LEMMA CommitAnalysisStep ==
  ASSUME ChatInv, NEW s \in Session, CommitAnalysis(s)
  PROVE  ChatInv' /\ Kept
  <1> DEFINE c == session[s].c
  <1>1. /\ c \in Change /\ change[c].status = "draft" /\ session[s].op = "analyze"
        /\ UNCHANGED <<room, message, attached, announced>>
        /\ impacts' = [impacts EXCEPT ![c] = @ + 1]
    BY DEF CommitAnalysis, Fresh, ChatInv, Copies, ReviewCopy
  <1>2. change' = [change EXCEPT ![c].status = "awaiting_customer_approval"] /\ Finish(s)
    BY DEF CommitAnalysis, Analyzed
  <1>3. /\ session' \in [Session -> SessionState]
        /\ \A t \in Session : Copies(session[t])'
        /\ change' \in [Change -> ChangeRow]
        /\ change'[c].status = "awaiting_customer_approval"
        /\ \A d \in Change \ {c} : change'[d] = change[d]
    BY <1>1, <1>2, ReviewMoves
  <1>4. /\ impacts' \in [Change -> Nat]
        /\ impacts'[c] = 1
        /\ \A d \in Change \ {c} : impacts'[d] = impacts[d]
    <2>1. impacts \in [Change -> Nat] /\ impacts[c] = 0
      BY <1>1 DEF ChatInv, TypeOK, RequestsAreDecidedOnce
    <2> QED
      BY <1>1, <2>1
  <1>5. TypeOK'
    BY <1>1, <1>3, <1>4 DEF ChatInv, TypeOK
  <1>6. RequestsAreDecidedOnce'
    BY <1>1, <1>3, <1>4 DEF ChatInv, RequestsAreDecidedOnce
  <1> QED
    BY <1>1, <1>3, <1>5, <1>6 DEF ChatInv, Kept

\* The change request still awaits its decision, so nothing else has been announced of it.
LEMMA CommitDecisionStep ==
  ASSUME ChatInv, NEW s \in Session, CommitDecision(s)
  PROVE  ChatInv' /\ Kept
  <1> DEFINE c == session[s].c
             want == session[s].want
  <1>1. /\ c \in Change /\ change[c].status = "awaiting_customer_approval"
        /\ session[s].op = "decide" /\ want \in Decision
        /\ UNCHANGED <<room, message, attached, impacts>>
        /\ announced' = IF want = "approved"
                        THEN announced \cup {<<"change_request_approved", c>>} ELSE announced
    BY DEF CommitDecision, Fresh, ChatInv, Copies, ReviewCopy
  <1>2. change' = [change EXCEPT ![c].status = want] /\ Finish(s)
    BY DEF CommitDecision
  <1>3. /\ session' \in [Session -> SessionState]
        /\ \A t \in Session : Copies(session[t])'
        /\ change' \in [Change -> ChangeRow]
        /\ change'[c].status = want
        /\ \A d \in Change \ {c} : change'[d] = change[d]
    BY <1>1, <1>2, ReviewMoves
  <1>4. TypeOK'
    BY <1>1, <1>3 DEF ChatInv, TypeOK, Event
  <1>5. RequestsAreDecidedOnce'
    BY <1>1, <1>3 DEF ChatInv, RequestsAreDecidedOnce, Decision
  <1> QED
    BY <1>1, <1>3, <1>4, <1>5 DEF ChatInv, Kept

-----------------------------------------------------------------------------
(* Every step. *)

LEMMA NextStep ==
  ASSUME ChatInv, [Next]_vars
  PROVE  ChatInv' /\ Kept
  <1>1. CASE UNCHANGED vars
    <2>1. TypeOK' /\ RequestsAreDecidedOnce' /\ UNCHANGED <<message, change, session>>
      BY <1>1 DEF vars, ChatInv, TypeOK, RequestsAreDecidedOnce
    <2> QED
      BY <2>1, QuietStep
  <1>2. CASE (\E u \in User : CreateRoom(u)) \/ \E m \in Message, v \in Version : Attach(m, v)
    BY <1>2, RoomStep
  <1>3. CASE (\E u \in User, m \in Message : Post(u, m)) \/ \E m \in Message : PostAI(m)
    BY <1>3, PostStep
  <1>4. CASE \E u \in User, c \in Change, m \in Message, scope \in Scope :
               CreateChange(u, c, m, scope)
    BY <1>4, CreateChangeStep
  <1>5. ASSUME NEW s \in Session, Chat(s) PROVE ChatInv' /\ Kept
    BY <1>5, BeginMessageStep, WriteMessageStep DEF Chat
  <1>6. ASSUME NEW s \in Session, Review(s) PROVE ChatInv' /\ Kept
    BY <1>6, BeginReviewStep, CommitAnalysisStep, CommitDecisionStep DEF Review
  <1>7. ASSUME NEW s \in Session, Abort(s) PROVE ChatInv' /\ Kept
    BY <1>7, AbortStep
  <1> QED
    BY <1>1, <1>2, <1>3, <1>4, <1>5, <1>6, <1>7 DEF Next

-----------------------------------------------------------------------------
(* Theorems. *)

\* Whatever overlaps, a request that is not stale holds a row as it is.
THEOREM ChatInvariant == Spec => []ChatInv
  <1>1. ChatInv /\ [Next]_vars => ChatInv'
    BY NextStep
  <1> QED
    BY <1>1, InitInv, PTL DEF Spec

\* Rows, events and requests keep their types.
THEOREM ChatTypes == Spec => []TypeOK
  <1>1. ChatInv => TypeOK
    BY DEF ChatInv
  <1> QED
    BY <1>1, ChatInvariant, PTL

\* analyze_change_request and decide_change_request: one analysis, and an approval is
\* announced exactly when it stands.
THEOREM DecidedOnce == Spec => []RequestsAreDecidedOnce
  <1>1. ChatInv => RequestsAreDecidedOnce
    BY DEF ChatInv
  <1> QED
    BY <1>1, ChatInvariant, PTL

\* edit_chat_message: a deleted message is never brought back.
THEOREM DeletedStays == Spec => DeletedIsFinal
  <1>1. ChatInv /\ [Next]_vars
          => [\A m \in Message : message[m].status = "deleted"
                                   => message'[m].status = "deleted"]_vars
    BY NextStep DEF Kept
  <1> QED
    BY <1>1, ChatInvariant, PTL DEF Spec, DeletedIsFinal

-----------------------------------------------------------------------------
(* Notifications and e-mail. *)

\* What a delivery under way knows: until it commits, and unless it is stale, the
\* notification is as loaded.
Delivering(q, n) ==
    q.op = "deliver" =>
        /\ n # "none"
        /\ ~q.stale /\ q.pc # "committed" => q.note = n
        /\ q.pc = "answered" => q.row.attempts < MaxAttempts

\* What a send under way knows: a request that has inserted its message is the first.
Mailing(q, m) ==
    /\ q.op = "email" => q.pc # "committed" /\ (q.pc # "loaded" => m = "none")
    /\ q.op = "resend" =>
         /\ m # "none"
         /\ ~q.stale => q.mail = m
         /\ q.pc # "loaded" => q.mail \notin {"sent", "delivered"}
    /\ q.op \in {"email", "resend"} /\ q.pc = "answered" => q.outcome \in Outcome

\* The inductive invariant of Notifications.
NotifyInv ==
    /\ NotificationTypeOK
    /\ delivery.status # "none" \/ duty # "none" => note # "none"
    /\ \A s \in Service : Delivering(service[s], note) /\ Mailing(service[s], mail)
    /\ \A s, t \in Service : /\ s # t /\ service[s].op = "email" /\ service[t].op = "email"
                             /\ service[s].pc # "loaded"
                             => service[t].pc = "loaded"
    /\ mailed = IF mail \in {"sent", "delivered"} THEN 1 ELSE 0

\* A step of s leaves the other sessions as they are, and makes some of them stale.
OthersKeep(s, stales) ==
    \A t \in Service \ {s} :
       /\ service'[t].op = service[t].op /\ service'[t].pc = service[t].pc
       /\ service'[t].note = service[t].note /\ service'[t].row = service[t].row
       /\ service'[t].mail = service[t].mail /\ service'[t].outcome = service[t].outcome
       /\ ~service'[t].stale => ~service[t].stale /\ service[t].op \notin stales

\* The back-off is a number: 2^n counts the subsets of 1..n.
LEMMA PowerType == ASSUME NEW n \in Nat PROVE 2^n \in Nat
  <1>1. IsFiniteSet(1..n) /\ Cardinality(1..n) = n
    BY FS_Interval
  <1>2. IsFiniteSet(SUBSET (1..n)) /\ Cardinality(SUBSET (1..n)) = 2^n
    BY <1>1, FS_SUBSET
  <1> QED
    BY <1>2, FS_CardinalityType

\* A session that has nothing under way is a session.
LEMMA NotifyIdle ==
  /\ IdleService \in ServiceState /\ IdleService.op = "idle"
  /\ IdleService.pc = "loaded"
  BY BoundsAssumption DEF BoundsAssumption, IdleService, ServiceState, DeliveryRow,
         NoteStatus, MailStatus, Moment

\* The session's next state, and what the others keep.
LEMMA Continues ==
  ASSUME NotificationTypeOK, NEW s \in Service, NEW q \in ServiceState, NEW stales,
         Continue(s, q, stales)
  PROVE  /\ service' \in [Service -> ServiceState]
         /\ service'[s] = q
         /\ OthersKeep(s, stales)
  <1>1. \A t \in Service : service[t] \in ServiceState
    BY DEF NotificationTypeOK
  <1>2. ASSUME NEW t \in Service \ {s}
        PROVE  /\ service'[t] = [service[t] EXCEPT !.stale = @ \/ service[t].op \in stales]
               /\ service'[t] \in ServiceState
    <2>1. service'[t] = [service[t] EXCEPT !.stale = @ \/ service[t].op \in stales]
      BY DEF Continue
    <2>2. (service[t].stale \/ service[t].op \in stales) \in BOOLEAN
      OBVIOUS
    <2> QED
      BY <1>1, <2>1, <2>2 DEF ServiceState
  <1>3. service'[s] = q
    BY DEF Continue
  <1>4. service' \in [Service -> ServiceState]
    BY <1>2, <1>3 DEF Continue
  <1>5. ASSUME NEW t \in Service \ {s}
        PROVE  /\ service'[t].op = service[t].op /\ service'[t].pc = service[t].pc
               /\ service'[t].note = service[t].note /\ service'[t].row = service[t].row
               /\ service'[t].mail = service[t].mail
               /\ service'[t].outcome = service[t].outcome
               /\ service'[t].stale = (service[t].stale \/ service[t].op \in stales)
    BY <1>1, <1>2 DEF ServiceState
  <1> QED
    BY <1>3, <1>4, <1>5 DEF OthersKeep

\* What a step of one session must establish; the others keep theirs.
LEMMA SessionStep ==
  ASSUME NotifyInv, NEW s \in Service, NEW stales,
         service' \in [Service -> ServiceState],
         OthersKeep(s, stales),
         now' = now, security' = security, preference' = preference,
         note' \in NoteStatus, delivery' \in DeliveryRow,
         duty' \in {"none", "ready", "completed", "dead"}, mail' \in MailStatus,
         delivery'.status # "none" \/ duty' # "none" => note' # "none",
         mailed' = IF mail' \in {"sent", "delivered"} THEN 1 ELSE 0,
         note # "none" => note' # "none",
         note' # note => "deliver" \in stales,
         mail' # mail => /\ mail' # "none"
                         /\ "resend" \in stales
                         /\ \A t \in Service \ {s} :
                              service[t].op = "email" => service[t].pc = "loaded",
         Delivering(service'[s], note'), Mailing(service'[s], mail'),
         service'[s].op = "email" /\ service'[s].pc # "loaded" =>
           \A t \in Service \ {s} : service[t].op = "email" => service[t].pc = "loaded"
  PROVE  NotifyInv'
  <1>2. NotificationTypeOK'
    BY DEF NotifyInv, NotificationTypeOK, Moment
  <1>3. ASSUME NEW t \in Service \ {s}
        PROVE  Delivering(service'[t], note') /\ Mailing(service'[t], mail')
    BY <1>3 DEF NotifyInv, Delivering, Mailing, OthersKeep
  <1>5. ASSUME NEW t \in Service, NEW u \in Service, t # u,
               service'[t].op = "email", service'[u].op = "email",
               service'[t].pc # "loaded"
        PROVE  service'[u].pc = "loaded"
    BY <1>5 DEF NotifyInv, OthersKeep
  <1> QED
    BY <1>2, <1>3, <1>5 DEF NotifyInv

LEMMA NotifyParts ==
  ASSUME NotifyInv
  PROVE  /\ note \in NoteStatus /\ delivery \in DeliveryRow
         /\ duty \in {"none", "ready", "completed", "dead"} /\ mail \in MailStatus
         /\ delivery.status # "none" \/ duty # "none" => note # "none"
         /\ mailed = IF mail \in {"sent", "delivered"} THEN 1 ELSE 0
  BY DEF NotifyInv, NotificationTypeOK

\* A session that ends, or is given up, knows nothing.
LEMMA NotifyIdleKnows ==
  ASSUME NEW n, NEW m
  PROVE  Delivering(IdleService, n) /\ Mailing(IdleService, m)
  BY NotifyIdle DEF Delivering, Mailing

LEMMA NotifyInit ==
  ASSUME NotificationInit
  PROVE  NotifyInv
  <1>1. \A s \in Service : service[s] = IdleService
    BY DEF NotificationInit
  <1>2. NotificationTypeOK
    BY NotifyIdle, BoundsAssumption
    DEF BoundsAssumption, NotificationInit, NotificationTypeOK, Moment,
      DeliveryRow, NoteStatus, MailStatus, Digest
  <1> QED
    BY <1>1, <1>2, NotifyIdle DEF NotifyInv, Delivering, Mailing, NotificationInit

LEMMA NotifyTick ==
  ASSUME NotifyInv, Tick
  PROVE  NotifyInv'
  <1>1. NotificationTypeOK'
    BY BoundsAssumption DEF NotifyInv, NotificationTypeOK, Tick, Moment, BoundsAssumption,
      DeliveryRow, ServiceState
  <1> QED
    BY <1>1 DEF NotifyInv, Delivering, Mailing, Tick

LEMMA NotifyPreference ==
  ASSUME NotifyInv, NEW in_app \in BOOLEAN,
         NEW digest \in Digest \cup {Nothing}, UpdatePreference(in_app, digest)
  PROVE  NotifyInv'
  <1>1. preference' \in [in_app : BOOLEAN, digest : Digest]
    BY DEF NotifyInv, NotificationTypeOK, UpdatePreference, Adjusted, Digest
  <1>2. NotificationTypeOK'
    BY <1>1 DEF NotifyInv, NotificationTypeOK, UpdatePreference
  <1> QED
    BY <1>2 DEF NotifyInv, Delivering, Mailing, UpdatePreference

LEMMA NotifyCreate ==
  ASSUME NotifyInv, NEW critical \in BOOLEAN,
         Create(critical)
  PROVE  NotifyInv'
  <1>1. Schedules(critical) \subseteq Moment
    BY DEF Schedules, NotifyInv, NotificationTypeOK
  <1>2. delivery' \in DeliveryRow
    BY <1>1, BoundsAssumption DEF Create, NotifyInv, NotificationTypeOK, DeliveryRow,
      BoundsAssumption
  <1>3. NotificationTypeOK'
    BY <1>2 DEF NotifyInv, NotificationTypeOK, Create, NoteStatus
  <1> QED
    BY <1>3 DEF NotifyInv, Delivering, Mailing, Create

LEMMA NotifyQueue ==
  ASSUME NotifyInv, Queue
  PROVE  NotifyInv'
  <1>1. NotificationTypeOK'
    BY DEF NotifyInv, NotificationTypeOK, Queue
  <1> QED
    BY <1>1 DEF NotifyInv, Delivering, Mailing, Queue

\* A session that begins loads what the database holds.
LEMMA NotifyBegin ==
  ASSUME NotifyInv, NEW s \in Service,
         NEW op \in {"deliver", "read", "email", "resend"}, BeginService(s, op),
         op = "deliver" => note # "none",
         op = "resend" => mail # "none"
  PROVE  NotifyInv'
  <1> DEFINE q == CASE op = "deliver" -> [IdleService EXCEPT !.op = op, !.note = note,
                                                  !.row = delivery, !.at = now]
                    [] op = "resend" -> [IdleService EXCEPT !.op = op, !.mail = mail]
                    [] OTHER -> [IdleService EXCEPT !.op = op]
  <1>1. /\ q \in ServiceState
        /\ q.op = op /\ q.pc = "loaded" /\ ~q.stale
        /\ op = "deliver" => q.note = note
        /\ op = "resend" => q.mail = mail
    <2>1. q = [op |-> op, pc |-> "loaded", stale |-> FALSE,
               note |-> IF op = "deliver" THEN note ELSE "none",
               row |-> IF op = "deliver" THEN delivery
                       ELSE [status |-> "none", attempts |-> 0, at |-> 0],
               mail |-> IF op = "resend" THEN mail ELSE "none",
               at |-> IF op = "deliver" THEN now ELSE 0, outcome |-> Nothing]
      BY DEF IdleService
    <2> HIDE DEF q
    <2> QED
      BY <2>1, BoundsAssumption DEF NotifyInv, NotificationTypeOK, ServiceState, BoundsAssumption,
        DeliveryRow, NoteStatus, MailStatus, Moment
  <1>2. service' = [service EXCEPT ![s] = q]
    BY DEF BeginService
  <1>3. /\ service' \in [Service -> ServiceState]
        /\ service'[s] = q
        /\ \A t \in Service \ {s} : service'[t] = service[t]
    BY <1>1, <1>2 DEF NotifyInv, NotificationTypeOK
  <1>4. NotificationTypeOK'
    BY <1>3 DEF NotifyInv, NotificationTypeOK, BeginService
  <1>5. \A t \in Service : Delivering(service'[t], note') /\ Mailing(service'[t], mail')
    BY <1>1, <1>3 DEF NotifyInv, Delivering, Mailing, BeginService
  <1> HIDE DEF q
  <1> QED
    BY <1>1, <1>3, <1>4, <1>5 DEF NotifyInv, BeginService

LEMMA NotifyKnown ==
  ASSUME NotifyInv, NEW s \in Service
  PROVE  /\ service[s] \in ServiceState
         /\ Delivering(service[s], note) /\ Mailing(service[s], mail)
  BY DEF NotifyInv, NotificationTypeOK

LEMMA NotifyWriteRead ==
  ASSUME NotifyInv, NEW s \in Service, WriteRead(s)
  PROVE  NotifyInv'
  <1>2. /\ IdleService \in ServiceState /\ IdleService.op # "email"
        /\ Delivering(IdleService, note') /\ Mailing(IdleService, mail')
    BY NotifyIdle, NotifyIdleKnows
  <1>3. /\ service' \in [Service -> ServiceState]
        /\ service'[s] = IdleService
        /\ OthersKeep(s, NoteUsers)
    BY <1>2, NotifyKnown, Continues DEF NotifyInv, WriteRead
  <1>4. /\ now' = now /\ security' = security /\ preference' = preference
        /\ note' \in NoteStatus /\ delivery' \in DeliveryRow
        /\ duty' \in {"none", "ready", "completed", "dead"} /\ mail' \in MailStatus
        /\ delivery'.status # "none" \/ duty' # "none" => note' # "none"
        /\ mailed' = IF mail' \in {"sent", "delivered"} THEN 1 ELSE 0
        /\ note' # "none" /\ mail' = mail
    BY NotifyParts DEF WriteRead, NoteStatus
  <1> QED
    BY <1>2, <1>3, <1>4, SessionStep DEF NoteUsers

LEMMA NotifyAbort ==
  ASSUME NotifyInv, NEW s \in Service, AbortService(s)
  PROVE  NotifyInv'
  <1>2. /\ IdleService \in ServiceState /\ IdleService.op # "email"
        /\ Delivering(IdleService, note') /\ Mailing(IdleService, mail')
    BY NotifyIdle, NotifyIdleKnows
  <1>3. /\ service' \in [Service -> ServiceState]
        /\ service'[s] = IdleService
        /\ OthersKeep(s, {})
    BY <1>2, NotifyKnown, Continues DEF NotifyInv, AbortService
  <1>4. /\ now' = now /\ security' = security /\ preference' = preference
        /\ note' \in NoteStatus /\ delivery' \in DeliveryRow
        /\ duty' \in {"none", "ready", "completed", "dead"} /\ mail' \in MailStatus
        /\ delivery'.status # "none" \/ duty' # "none" => note' # "none"
        /\ mailed' = IF mail' \in {"sent", "delivered"} THEN 1 ELSE 0
        /\ note' = note /\ mail' = mail
    BY NotifyParts DEF AbortService
  <1> QED
    BY <1>2, <1>3, <1>4, SessionStep

LEMMA NotifyBury ==
  ASSUME NotifyInv, NEW s \in Service, Bury(s)
  PROVE  NotifyInv'
  <1>1. note # "none"
    BY NotifyKnown DEF Bury, Delivering
  <1>2. /\ IdleService \in ServiceState /\ IdleService.op # "email"
        /\ Delivering(IdleService, note') /\ Mailing(IdleService, mail')
    BY NotifyIdle, NotifyIdleKnows
  <1>3. /\ service' \in [Service -> ServiceState]
        /\ service'[s] = IdleService
        /\ OthersKeep(s, {})
    BY <1>2, NotifyKnown, Continues DEF NotifyInv, Bury
  <1>4. /\ now' = now /\ security' = security /\ preference' = preference
        /\ note' \in NoteStatus /\ delivery' \in DeliveryRow
        /\ duty' \in {"none", "ready", "completed", "dead"} /\ mail' \in MailStatus
        /\ delivery'.status # "none" \/ duty' # "none" => note' # "none"
        /\ mailed' = IF mail' \in {"sent", "delivered"} THEN 1 ELSE 0
        /\ note' = note /\ mail' = mail
    BY NotifyParts, <1>1 DEF Bury
  <1> QED
    BY <1>2, <1>3, <1>4, SessionStep

LEMMA NotifyComplete ==
  ASSUME NotifyInv, NEW s \in Service, Complete(s)
  PROVE  NotifyInv'
  <1>1. note # "none"
    BY NotifyKnown DEF Complete, Delivering
  <1>2. /\ IdleService \in ServiceState /\ IdleService.op # "email"
        /\ Delivering(IdleService, note') /\ Mailing(IdleService, mail')
    BY NotifyIdle, NotifyIdleKnows
  <1>3. /\ service' \in [Service -> ServiceState]
        /\ service'[s] = IdleService
        /\ OthersKeep(s, {})
    BY <1>2, NotifyKnown, Continues DEF NotifyInv, Complete
  <1>4. /\ now' = now /\ security' = security /\ preference' = preference
        /\ note' \in NoteStatus /\ delivery' \in DeliveryRow
        /\ duty' \in {"none", "ready", "completed", "dead"} /\ mail' \in MailStatus
        /\ delivery'.status # "none" \/ duty' # "none" => note' # "none"
        /\ mailed' = IF mail' \in {"sent", "delivered"} THEN 1 ELSE 0
        /\ note' = note /\ mail' = mail
    BY NotifyParts, <1>1 DEF Complete
  <1> QED
    BY <1>2, <1>3, <1>4, SessionStep

LEMMA NotifySkipDeliver ==
  ASSUME NotifyInv, NEW s \in Service, SkipDeliver(s)
  PROVE  NotifyInv'
  <1> DEFINE q == [service[s] EXCEPT !.pc = "committed"]
  <1>1. /\ q \in ServiceState /\ q.op = "deliver" /\ q.pc = "committed"
        /\ note # "none"
    BY NotifyKnown DEF ServiceState, SkipDeliver, Delivering
  <1>2. Delivering(q, note') /\ Mailing(q, mail')
    BY <1>1 DEF Delivering, Mailing, SkipDeliver
  <1>3. /\ service' \in [Service -> ServiceState]
        /\ service'[s] = q
        /\ OthersKeep(s, {})
    BY <1>1, NotifyKnown, Continues DEF NotifyInv, SkipDeliver
  <1>4. /\ now' = now /\ security' = security /\ preference' = preference
        /\ note' \in NoteStatus /\ delivery' \in DeliveryRow
        /\ duty' \in {"none", "ready", "completed", "dead"} /\ mail' \in MailStatus
        /\ delivery'.status # "none" \/ duty' # "none" => note' # "none"
        /\ mailed' = IF mail' \in {"sent", "delivered"} THEN 1 ELSE 0
        /\ note' = note /\ mail' = mail
    BY NotifyParts, <1>1 DEF SkipDeliver, DeliveryRow
  <1> HIDE DEF q
  <1> QED
    BY <1>1, <1>2, <1>3, <1>4, SessionStep

LEMMA NotifySend ==
  ASSUME NotifyInv, NEW s \in Service, NEW outcome \in Outcome,
         Send(s, outcome)
  PROVE  NotifyInv'
  <1> DEFINE q == [service[s] EXCEPT !.pc = "answered", !.outcome = outcome]
  <1>1. /\ q \in ServiceState /\ q.op = "deliver" /\ q.pc = "answered"
        /\ q.stale = service[s].stale /\ q.note = service[s].note
        /\ q.row = service[s].row
    BY NotifyKnown DEF ServiceState, Send
  <1>2. Delivering(q, note') /\ Mailing(q, mail')
    BY <1>1, NotifyKnown DEF Delivering, Mailing, Send, Due
  <1>3. /\ service' \in [Service -> ServiceState]
        /\ service'[s] = q
        /\ OthersKeep(s, {})
    BY <1>1, NotifyKnown, Continues DEF NotifyInv, Send
  <1>4. /\ now' = now /\ security' = security /\ preference' = preference
        /\ note' \in NoteStatus /\ delivery' \in DeliveryRow
        /\ duty' \in {"none", "ready", "completed", "dead"} /\ mail' \in MailStatus
        /\ delivery'.status # "none" \/ duty' # "none" => note' # "none"
        /\ mailed' = IF mail' \in {"sent", "delivered"} THEN 1 ELSE 0
        /\ note' = note /\ mail' = mail
    BY NotifyParts DEF Send
  <1> HIDE DEF q
  <1> QED
    BY <1>1, <1>2, <1>3, <1>4, SessionStep

LEMMA NotifyCommitFailure ==
  ASSUME NotifyInv, NEW s \in Service, CommitFailure(s)
  PROVE  NotifyInv'
  <1> DEFINE q == [service[s] EXCEPT !.pc = "committed"]
             n == service[s].row.attempts + 1
  <1>1. /\ q \in ServiceState /\ q.op = "deliver" /\ q.pc = "committed"
        /\ note # "none"
    BY NotifyKnown DEF ServiceState, CommitFailure, Delivering
  <1>2. Delivering(q, note') /\ Mailing(q, mail')
    BY <1>1 DEF Delivering, Mailing, CommitFailure
  <1>5. delivery' \in DeliveryRow
    <2>1. /\ n \in Nat /\ n < MaxAttempts /\ service[s].at \in Moment
          /\ MaxAttempts \in Nat /\ BackoffUnit \in Nat /\ BackoffCap \in Nat
          /\ MaxTime \in Nat
      BY NotifyKnown, BoundsAssumption DEF CommitFailure, ServiceState, DeliveryRow,
        BoundsAssumption
    <2>2. 2^n * BackoffUnit \in Nat
      <3>1. 2^n \in Nat
        BY <2>1, PowerType
      <3> QED
        BY <2>1, <3>1
    <2>3. Backoff(n) \in Nat
      <3>1. \A a, b \in Nat : Min({a, b}) \in Nat
        BY DEF Min
      <3> QED
        BY <2>1, <2>2, <3>1 DEF Backoff
    <2>4. Min({MaxTime, service[s].at + Backoff(n)}) \in Moment
      BY <2>1, <2>3 DEF Min, Moment
    <2> QED
      BY <2>1, <2>4 DEF CommitFailure, DeliveryRow
  <1>3. /\ service' \in [Service -> ServiceState]
        /\ service'[s] = q
        /\ OthersKeep(s, {})
    BY <1>1, NotifyKnown, Continues DEF NotifyInv, CommitFailure
  <1>4. /\ now' = now /\ security' = security /\ preference' = preference
        /\ note' \in NoteStatus /\ delivery' \in DeliveryRow
        /\ duty' \in {"none", "ready", "completed", "dead"} /\ mail' \in MailStatus
        /\ delivery'.status # "none" \/ duty' # "none" => note' # "none"
        /\ mailed' = IF mail' \in {"sent", "delivered"} THEN 1 ELSE 0
        /\ note' = note /\ mail' = mail
    BY NotifyParts, <1>1, <1>5 DEF CommitFailure
  <1> HIDE DEF q
  <1> QED
    BY <1>1, <1>2, <1>3, <1>4, SessionStep

LEMMA NotifyCommitDelivery ==
  ASSUME NotifyInv, NEW s \in Service, CommitDelivery(s)
  PROVE  NotifyInv'
  <1> DEFINE q == [service[s] EXCEPT !.pc = "committed"]
             writes == service[s].outcome = "delivered" /\ service[s].note # "delivered"
             stales == IF writes THEN NoteUsers ELSE {}
  <1>1. /\ q \in ServiceState /\ q.op = "deliver" /\ q.pc = "committed"
        /\ note # "none" /\ service[s].row.attempts < MaxAttempts
    BY NotifyKnown DEF ServiceState, CommitDelivery, Delivering
  <1>5. note' # "none" /\ (note' # note => writes)
    BY <1>1 DEF CommitDelivery
  <1>2. Delivering(q, note') /\ Mailing(q, mail')
    BY <1>1, <1>5 DEF Delivering, Mailing
  <1>6. delivery' \in DeliveryRow
    <2>1. /\ service[s].row.attempts + 1 \in 0..MaxAttempts
          /\ service[s].outcome \in {"sent", "delivered"}
      BY <1>1, NotifyKnown, BoundsAssumption
      DEF ServiceState, DeliveryRow, BoundsAssumption, CommitDelivery
    <2> QED
      BY <2>1, NotifyParts DEF DeliveryRow, CommitDelivery
  <1>3. /\ service' \in [Service -> ServiceState]
        /\ service'[s] = q
        /\ OthersKeep(s, stales)
    BY <1>1, NotifyKnown, Continues DEF NotifyInv, CommitDelivery
  <1>4. /\ now' = now /\ security' = security /\ preference' = preference
        /\ note' \in NoteStatus /\ delivery' \in DeliveryRow
        /\ duty' \in {"none", "ready", "completed", "dead"} /\ mail' \in MailStatus
        /\ delivery'.status # "none" \/ duty' # "none" => note' # "none"
        /\ mailed' = IF mail' \in {"sent", "delivered"} THEN 1 ELSE 0
        /\ mail' = mail
    BY NotifyParts, <1>5, <1>6 DEF CommitDelivery, NoteStatus
  <1>7. note' # note => "deliver" \in stales
    BY <1>5 DEF NoteUsers
  <1> HIDE DEF q, stales
  <1> QED
    BY <1>1, <1>2, <1>3, <1>4, <1>5, <1>7, SessionStep

LEMMA NotifyInsertEmail ==
  ASSUME NotifyInv, NEW s \in Service, InsertEmail(s)
  PROVE  NotifyInv'
  <1> DEFINE q == [service[s] EXCEPT !.pc = "inserted"]
  <1>1. q \in ServiceState /\ q.op = "email" /\ q.pc = "inserted"
    BY NotifyKnown DEF ServiceState, InsertEmail
  <1>2. Delivering(q, note') /\ Mailing(q, mail')
    BY <1>1 DEF Delivering, Mailing, InsertEmail, KeyFree
  <1>3. /\ service' \in [Service -> ServiceState]
        /\ service'[s] = q
        /\ OthersKeep(s, {})
    BY <1>1, NotifyKnown, Continues DEF NotifyInv, InsertEmail
  <1>4. /\ now' = now /\ security' = security /\ preference' = preference
        /\ note' \in NoteStatus /\ delivery' \in DeliveryRow
        /\ duty' \in {"none", "ready", "completed", "dead"} /\ mail' \in MailStatus
        /\ delivery'.status # "none" \/ duty' # "none" => note' # "none"
        /\ mailed' = IF mail' \in {"sent", "delivered"} THEN 1 ELSE 0
        /\ note' = note /\ mail' = mail
    BY NotifyParts DEF InsertEmail
  <1>5. \A t \in Service \ {s} : service[t].op = "email" => service[t].pc = "loaded"
    BY DEF InsertEmail, KeyFree
  <1> HIDE DEF q
  <1> QED
    BY <1>1, <1>2, <1>3, <1>4, <1>5, SessionStep

LEMMA NotifySendEmail ==
  ASSUME NotifyInv, NEW s \in Service, NEW outcome \in Outcome,
         SendEmail(s, outcome)
  PROVE  NotifyInv'
  <1> DEFINE q == [service[s] EXCEPT !.pc = "answered", !.outcome = outcome]
  <1>1. /\ q \in ServiceState /\ q.op = service[s].op /\ q.pc = "answered"
        /\ q.stale = service[s].stale /\ q.mail = service[s].mail /\ q.outcome = outcome
    BY NotifyKnown DEF ServiceState
  <1>2. Delivering(q, note') /\ Mailing(q, mail')
    BY <1>1, NotifyKnown DEF Delivering, Mailing, SendEmail, Unsent
  <1>3. /\ service' \in [Service -> ServiceState]
        /\ service'[s] = q
        /\ OthersKeep(s, {})
    BY <1>1, NotifyKnown, Continues DEF NotifyInv, SendEmail
  <1>4. /\ now' = now /\ security' = security /\ preference' = preference
        /\ note' \in NoteStatus /\ delivery' \in DeliveryRow
        /\ duty' \in {"none", "ready", "completed", "dead"} /\ mail' \in MailStatus
        /\ delivery'.status # "none" \/ duty' # "none" => note' # "none"
        /\ mailed' = IF mail' \in {"sent", "delivered"} THEN 1 ELSE 0
        /\ note' = note /\ mail' = mail
    BY NotifyParts DEF SendEmail
  <1>5. q.op = "email" =>
          \A t \in Service \ {s} : service[t].op = "email" => service[t].pc = "loaded"
    BY <1>1 DEF NotifyInv, SendEmail
  <1> HIDE DEF q
  <1> QED
    BY <1>1, <1>2, <1>3, <1>4, <1>5, SessionStep

LEMMA NotifyCommitEmail ==
  ASSUME NotifyInv, NEW s \in Service, CommitEmail(s)
  PROVE  NotifyInv'
  <1>1. mail \notin {"sent", "delivered"}
    BY NotifyKnown DEF CommitEmail, Mailing, FreshService
  <1>2. /\ IdleService \in ServiceState /\ IdleService.op # "email"
        /\ Delivering(IdleService, note') /\ Mailing(IdleService, mail')
    BY NotifyIdle, NotifyIdleKnows
  <1>3. /\ service' \in [Service -> ServiceState]
        /\ service'[s] = IdleService
        /\ OthersKeep(s, MailUsers)
    BY <1>2, NotifyKnown, Continues DEF NotifyInv, CommitEmail
  <1>5. service[s].outcome \in Outcome
    BY NotifyKnown DEF CommitEmail, Mailing
  <1>4. /\ now' = now /\ security' = security /\ preference' = preference
        /\ note' \in NoteStatus /\ delivery' \in DeliveryRow
        /\ duty' \in {"none", "ready", "completed", "dead"} /\ mail' \in MailStatus
        /\ delivery'.status # "none" \/ duty' # "none" => note' # "none"
        /\ mailed' = IF mail' \in {"sent", "delivered"} THEN 1 ELSE 0
        /\ note' = note /\ mail' # "none"
    BY NotifyParts, <1>1, <1>5 DEF CommitEmail, MailStatus, Outcome
  <1>6. \A t \in Service \ {s} : service[t].op = "email" => service[t].pc = "loaded"
    <2>1. CASE service[s].op = "email"
      BY <2>1 DEF NotifyInv, CommitEmail
    <2>2. CASE service[s].op = "resend"
      BY <2>2, NotifyKnown DEF NotifyInv, Mailing
    <2> QED
      BY <2>1, <2>2 DEF CommitEmail
  <1> QED
    BY <1>2, <1>3, <1>4, <1>6, SessionStep DEF MailUsers

LEMMA NotifyStep ==
  ASSUME NotifyInv, [NotificationNext]_notificationVars
  PROVE  NotifyInv'
  <1>1. CASE Tick
    BY <1>1, NotifyTick
  <1>2. CASE \E in_app \in BOOLEAN, digest \in Digest \cup {Nothing} :
               UpdatePreference(in_app, digest)
    BY <1>2, NotifyPreference
  <1>3. CASE \E critical \in BOOLEAN : Create(critical)
    BY <1>3, NotifyCreate
  <1>4. CASE Queue
    BY <1>4, NotifyQueue
  <1>5. ASSUME NEW s \in Service, Deliver(s)
        PROVE  NotifyInv'
    <2>1. CASE BeginDeliver(s)
      <3>1. note # "none"
        BY <2>1 DEF BeginDeliver, NotifyInv
      <3> QED
        BY <2>1, <3>1, NotifyBegin DEF BeginDeliver
    <2>2. CASE SkipDeliver(s)
      BY <2>2, NotifySkipDeliver
    <2>3. CASE \E outcome \in Outcome : Send(s, outcome)
      BY <2>3, NotifySend
    <2>4. CASE CommitFailure(s)
      BY <2>4, NotifyCommitFailure
    <2>5. CASE Bury(s)
      BY <2>5, NotifyBury
    <2>6. CASE CommitDelivery(s)
      BY <2>6, NotifyCommitDelivery
    <2>7. CASE Complete(s)
      BY <2>7, NotifyComplete
    <2> QED
      BY <1>5, <2>1, <2>2, <2>3, <2>4, <2>5, <2>6, <2>7 DEF Deliver
  <1>6. ASSUME NEW s \in Service, Request(s)
        PROVE  NotifyInv'
    <2>1. CASE BeginRead(s)
      BY <2>1, NotifyBegin DEF BeginRead
    <2>2. CASE WriteRead(s)
      BY <2>2, NotifyWriteRead
    <2>3. CASE BeginEmail(s)
      BY <2>3, NotifyBegin DEF BeginEmail
    <2>4. CASE InsertEmail(s)
      BY <2>4, NotifyInsertEmail
    <2>5. CASE BeginResend(s)
      BY <2>5, NotifyBegin DEF BeginResend
    <2>6. CASE \E outcome \in Outcome : SendEmail(s, outcome)
      BY <2>6, NotifySendEmail
    <2>7. CASE CommitEmail(s)
      BY <2>7, NotifyCommitEmail
    <2>8. CASE AbortService(s)
      BY <2>8, NotifyAbort
    <2> QED
      BY <1>6, <2>1, <2>2, <2>3, <2>4, <2>5, <2>6, <2>7, <2>8 DEF Request
  <1>7. CASE UNCHANGED notificationVars
    <2>1. NotificationTypeOK'
      BY <1>7 DEF NotifyInv, NotificationTypeOK, notificationVars, Moment
    <2> QED
      BY <1>7, <2>1 DEF NotifyInv, Delivering, Mailing, notificationVars
  <1> QED
    BY <1>1, <1>2, <1>3, <1>4, <1>5, <1>6, <1>7 DEF NotificationNext

-----------------------------------------------------------------------------
(* Theorems of Notifications. *)

\* Until it commits, and unless it is stale, a session holds the row as it is.
THEOREM NotifyInvariant == NotificationSpec => []NotifyInv
  <1>1. NotificationInit => NotifyInv
    BY NotifyInit
  <1>2. NotifyInv /\ [NotificationNext]_notificationVars => NotifyInv'
    BY NotifyStep
  <1> QED
    BY <1>1, <1>2, PTL DEF NotificationSpec

\* The types of the notification, its delivery, the e-mail and what is under way.
THEOREM NotifyTypes == NotificationSpec => []NotificationTypeOK
  <1>1. NotifyInv => NotificationTypeOK
    BY DEF NotifyInv
  <1> QED
    BY <1>1, NotifyInvariant, PTL

\* send_document_email and EmailHandler: at most one accepted send is recorded, however
\* many requests carry the key and however often the job is executed.
THEOREM EmailOnce == NotificationSpec => []MailedOnce
  <1>1. NotifyInv => MailedOnce
    BY DEF NotifyInv, MailedOnce
  <1> QED
    BY <1>1, NotifyInvariant, PTL

\* deliver_notification and mark_notification_read: what was read is "delivered" again
\* only by a delivery that had loaded it as read.
THEOREM ReadIsKept == NotificationSpec => ReadSurvivesRunning
  <1> DEFINE StaysRead == note = "read" /\ note' # "read" =>
                       \E s \in Service : service[s].op = "deliver" /\ service[s].note = "read"
  <1>1. NotifyInv /\ [NotificationNext]_notificationVars => [StaysRead]_notificationVars
    <2> SUFFICES ASSUME NotifyInv, NotificationNext, note = "read", note' # "read"
                 PROVE  \E s \in Service : service[s].op = "deliver" /\ service[s].note = "read"
      OBVIOUS
    <2>1. PICK s \in Service : CommitDelivery(s)
      BY DEF NotificationNext, Deliver, Request, Tick, UpdatePreference,
        Create, Queue, BeginDeliver, SkipDeliver, Send,
        CommitFailure, Bury, Complete, BeginRead, WriteRead,
        BeginEmail, InsertEmail, BeginResend, SendEmail,
        CommitEmail, AbortService, BeginService
    <2>2. /\ service[s].op = "deliver" /\ service[s].pc = "answered"
          /\ ~service[s].stale
      BY <2>1 DEF CommitDelivery, FreshService
    <2>3. service[s].note = note
      BY <2>2, NotifyKnown DEF Delivering
    <2> QED
      BY <2>2, <2>3
  <1>2. NotificationSpec => [][StaysRead]_notificationVars
    BY <1>1, NotifyInvariant, PTL DEF NotificationSpec
  <1> QED
    BY <1>2 DEF ReadSurvivesRunning
=============================================================================
