------------------------------ MODULE ProjectChat ------------------------------
(***************************************************************************)
(* The chat of one project and the change requests that come out of it     *)
(* (app/services/communications.py, app/api/communications.py).            *)
(*                                                                         *)
(* Messages and change requests have version columns.  A request is        *)
(* answered in one transaction: it loads the row, compares the version the *)
(* client has seen, decides by what it has loaded, and updates the row     *)
(* WHERE its version is the loaded one.  "stale" marks a request whose row *)
(* another transaction has updated since.                                  *)
(*                                                                         *)
(* A message's text, its author and its room, a change request's message   *)
(* and scope and an artifact version's hash never change once they are     *)
(* stored, so an operation that reads only those is a single step.  No     *)
(* operation archives or closes a room, or moderates a message.            *)
(***************************************************************************)
EXTENDS Integers

CONSTANTS
    User,           \* who has access to the organization
    Participant,    \* members of the project and privileged roles
    Privileged,     \* PRIVILEGED_PROJECT_ROLES
    Approver,       \* customers, owners and administrators of the organization
    Message,
    Change,         \* change requests
    Version,        \* artifact versions of the project that can be attached
    Session,        \* requests answered at the same time
    None            \* the author of an AI message; no message, no change request

ASSUME RolesAssumption ==
    /\ Participant \cup Privileged \cup Approver \subseteq User
    /\ None \notin User \cup Message \cup Change

VARIABLES
    room,           \* whether the project's chat room exists
    message,        \* ChatMessage: status, sender_user_id
    attached,       \* rows of chat_attachments
    change,         \* ChangeRequest: status, scope, chat_message_id
    impacts,        \* how many ChangeRequestImpact rows each change request has
    announced,      \* events emitted by emit_project_event
    session         \* what is in flight

vars == <<room, message, attached, change, impacts, announced, session>>

-----------------------------------------------------------------------------
Scope == {"minor", "major"}     \* major: major_change, new_feature, infrastructure
Decision == {"approved", "rejected"}
Event == ({"chat_message_received"} \X Message)
         \cup ({"change_request_submitted", "change_request_approved"} \X Change)

MessageRow == [status : {"none", "active", "edited", "deleted"}, author : User \cup {None}]
ChangeRow == [status : {"none", "draft", "awaiting_customer_approval"} \cup Decision,
              scope : Scope, message : Message \cup {None}]
SessionState == [op : {"idle", "edit", "delete", "analyze", "decide"},
                 m : Message \cup {None}, c : Change \cup {None},
                 want : Decision \cup {"none"}, stale : BOOLEAN]

Idle == [op |-> "idle", m |-> None, c |-> None, want |-> "none", stale |-> FALSE]

TypeOK ==
    /\ room \in BOOLEAN
    /\ message \in [Message -> MessageRow]
    /\ attached \subseteq Message \X Version
    /\ change \in [Change -> ChangeRow]
    /\ impacts \in [Change -> Nat]
    /\ announced \subseteq Event
    /\ session \in [Session -> SessionState]

Init ==
    /\ room = FALSE
    /\ message = [m \in Message |-> [status |-> "none", author |-> None]]
    /\ attached = {}
    /\ change = [c \in Change |-> [status |-> "none", scope |-> "minor", message |-> None]]
    /\ impacts = [c \in Change |-> 0]
    /\ announced = {}
    /\ session = [s \in Session |-> Idle]

-----------------------------------------------------------------------------
(* Transactions. *)

Begin(s, request) ==
    /\ session[s].op = "idle"
    /\ session' = [session EXCEPT ![s] = request]
    /\ UNCHANGED <<room, message, attached, change, impacts, announced>>

\* Mutant of Fresh: the models without version_id_col.
FreshUnversioned(s) == TRUE

\* The UPDATE finds the row as it was loaded (safe_flush).
Fresh(s) == ~session[s].stale

SameRow(s, t) == session[t].op # "idle" /\ session[t].m = session[s].m /\ session[t].c = session[s].c

\* s ends after updating its row; the other requests that hold the row are stale.
Finish(s) ==
    session' = [t \in Session |->
      IF t = s THEN Idle
      ELSE [session[t] EXCEPT !.stale = @ \/ SameRow(s, t)]]

\* VERSION_CONFLICT, an AppError of the provider or a lost connection: rolled back.
Abort(s) ==
    /\ session[s].op # "idle"
    /\ session' = [session EXCEPT ![s] = Idle]
    /\ UNCHANGED <<room, message, attached, change, impacts, announced>>

-----------------------------------------------------------------------------
(* Rooms and messages. *)

CreateRoom(u) ==
    /\ u \in Participant
    /\ room' = TRUE
    /\ UNCHANGED <<message, attached, change, impacts, announced, session>>

\* post_chat_message; a message replied to only has to be of the same room.
Post(u, m) ==
    /\ room
    /\ u \in Participant
    /\ message[m].status = "none"
    /\ message' = [message EXCEPT ![m] = [status |-> "active", author |-> u]]
    /\ announced' = announced \cup {<<"chat_message_received", m>>}
    /\ UNCHANGED <<room, attached, change, impacts, session>>

\* post_ai_chat_message has no author and announces nothing.
PostAI(m) ==
    /\ room
    /\ message[m].status = "none"
    /\ message' = [message EXCEPT ![m] = [status |-> "active", author |-> None]]
    /\ UNCHANGED <<room, attached, change, impacts, announced, session>>

BeginEdit(s, u, m) ==
    /\ message[m].author = u
    /\ message[m].status \in {"active", "edited"}
    /\ Begin(s, [Idle EXCEPT !.op = "edit", !.m = m])

\* The author or a privileged user; a message may be deleted again.
BeginDelete(s, u, m) ==
    /\ message[m].status # "none"
    /\ message[m].author = u \/ u \in Privileged
    /\ Begin(s, [Idle EXCEPT !.op = "delete", !.m = m])

WriteMessage(s) ==
    /\ session[s].op \in {"edit", "delete"}
    /\ Fresh(s)
    /\ message' = [message EXCEPT ![session[s].m].status =
                     IF session[s].op = "edit" THEN "edited" ELSE "deleted"]
    /\ Finish(s)
    /\ UNCHANGED <<room, attached, change, impacts, announced>>

\* attach_chat_artifact: one attachment of a version per message (uq_chat_attachments_version),
\* of whatever status, by whoever has access to the organization.
Attach(m, v) ==
    /\ message[m].status # "none"
    /\ <<m, v>> \notin attached
    /\ attached' = attached \cup {<<m, v>>}
    /\ UNCHANGED <<room, message, change, impacts, announced, session>>

-----------------------------------------------------------------------------
(* Change requests. *)

\* create_change_request: from any message that exists, a deleted one too.
CreateChange(u, c, m, scope) ==
    /\ change[c].status = "none"
    /\ message[m].status # "none"
    /\ message[m].author = u \/ u \in Privileged
    /\ change' = [change EXCEPT ![c] = [status |-> "draft", scope |-> scope, message |-> m]]
    /\ announced' = announced \cup {<<"change_request_submitted", c>>}
    /\ UNCHANGED <<room, message, attached, impacts, session>>

\* Mutant of Analyzable: a change request that was analyzed may be analyzed again.
AnalyzableAgain(c) == change[c].status \in {"draft", "awaiting_customer_approval"}

Analyzable(c) == change[c].status = "draft"

BeginAnalyze(s, c) ==
    /\ Analyzable(c)
    /\ Begin(s, [Idle EXCEPT !.op = "analyze", !.c = c])

\* Mutant of Analyzed: without the last assignment of the status.
AnalyzedHalf == "analyzing"

\* The status an analysis ends with; it sets "analyzing" first, which is never committed.
Analyzed == "awaiting_customer_approval"

\* The impact row and the new status are stored together.
CommitAnalysis(s) ==
    LET c == session[s].c IN
    /\ session[s].op = "analyze"
    /\ Fresh(s)
    /\ change' = [change EXCEPT ![c].status = Analyzed]
    /\ impacts' = [impacts EXCEPT ![c] = @ + 1]
    /\ Finish(s)
    /\ UNCHANGED <<room, message, attached, announced>>

BeginDecide(s, u, c, want) ==
    /\ u \in Approver
    /\ change[c].status = "awaiting_customer_approval"
    /\ (want = "approved" /\ change[c].scope = "major" => impacts[c] > 0)
    /\ Begin(s, [Idle EXCEPT !.op = "decide", !.c = c, !.want = want])

CommitDecision(s) ==
    LET c == session[s].c IN
    /\ session[s].op = "decide"
    /\ Fresh(s)
    /\ change' = [change EXCEPT ![c].status = session[s].want]
    /\ announced' = IF session[s].want = "approved"
                    THEN announced \cup {<<"change_request_approved", c>>} ELSE announced
    /\ Finish(s)
    /\ UNCHANGED <<room, message, attached, impacts>>

-----------------------------------------------------------------------------
Chat(s) ==
    \/ \E u \in User, m \in Message : BeginEdit(s, u, m) \/ BeginDelete(s, u, m)
    \/ WriteMessage(s)

Review(s) ==
    \/ \E c \in Change : BeginAnalyze(s, c)
    \/ CommitAnalysis(s)
    \/ \E u \in User, c \in Change, want \in Decision : BeginDecide(s, u, c, want)
    \/ CommitDecision(s)

Next ==
    \/ \E u \in User : CreateRoom(u)
    \/ \E u \in User, m \in Message : Post(u, m)
    \/ \E m \in Message : PostAI(m)
    \/ \E m \in Message, v \in Version : Attach(m, v)
    \/ \E u \in User, c \in Change, m \in Message, scope \in Scope : CreateChange(u, c, m, scope)
    \/ \E s \in Session : Chat(s) \/ Review(s) \/ Abort(s)

Spec == Init /\ [][Next]_vars

-----------------------------------------------------------------------------
(* Properties. *)

\* A message stays deleted: an edit that was under way when it was deleted fails
\* instead of bringing its text back.
DeletedIsFinal ==
    [][\A m \in Message : message[m].status = "deleted" => message'[m].status = "deleted"]_vars

\* However analyses and decisions of one change request overlap, it has one analysis when
\* it is past its draft, and an approval is announced exactly when it is what stands.
RequestsAreDecidedOnce ==
    \A c \in Change :
      /\ impacts[c] = IF change[c].status \in {"none", "draft"} THEN 0 ELSE 1
      /\ <<"change_request_approved", c>> \in announced <=> change[c].status = "approved"
=============================================================================
