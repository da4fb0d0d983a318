----------------------------- MODULE Notifications -----------------------------
(***************************************************************************)
(* One notification of one user with its in-app delivery, and one document *)
(* e-mail (app/services/communications.py, app/api/communications.py,      *)
(* app/workers/notifications.py).                                          *)
(*                                                                         *)
(* Preferences, notifications and e-mail messages have version columns,    *)
(* deliveries have none.  A handler of the queue loads its rows, calls the *)
(* provider, and commits; the queue completes the job in a second          *)
(* transaction, or executes it again.  The jobs of deliveries and messages *)
(* are queued from outside app/services.                                   *)
(*                                                                         *)
(* Notification.expires_at is never set, so nothing expires; nothing sets  *)
(* the status dismissed.                                                   *)
(***************************************************************************)
EXTENDS Integers, FiniteSetsExt

CONSTANTS
    Service,        \* requests and workers at the same time
    MaxAttempts,    \* NotificationDelivery.max_attempts
    BackoffUnit,    \* 60 seconds
    BackoffCap,     \* 3600 seconds
    MaxTime,        \* bound on the clock; what is scheduled later counts as MaxTime
    Nothing            \* no digest mode given, no outcome yet

ASSUME BoundsAssumption ==
    /\ MaxAttempts \in Nat \ {0}
    /\ {BackoffUnit, BackoffCap, MaxTime} \subseteq Nat

VARIABLES
    now,
    security,       \* the event's type is one of SECURITY_EVENT_TYPES
    preference,     \* NotificationPreference: in_app_enabled, digest_mode
    note,           \* Notification.status
    delivery,       \* NotificationDelivery: status, attempt_count, scheduled_at
    duty,           \* the queue's job for the delivery
    mail,           \* EmailMessage.status
    service,        \* what is in flight
    mailed          \* history: commits of a send that the e-mail provider accepted

notificationVars == <<now, security, preference, note, delivery, duty, mail, service, mailed>>

-----------------------------------------------------------------------------
Moment == 0..MaxTime
Digest == {"immediate", "later", "none"}    \* later: hourly, daily
Outcome == {"sent", "delivered", "unavailable"}
DeliveryRow == [status : {"none", "scheduled", "sent", "delivered", "failed"},
                attempts : 0..MaxAttempts, at : Moment]

NoteStatus == {"none", "pending", "delivered", "read"}
MailStatus == {"none", "sent", "delivered", "failed"}

ServiceState == [op : {"idle", "deliver", "read", "email", "resend"},
                 pc : {"loaded", "inserted", "answered", "committed"},
                 stale : BOOLEAN,
                 note : NoteStatus, row : DeliveryRow, mail : MailStatus,    \* as loaded
                 at : Moment, outcome : Outcome \cup {Nothing}]

IdleService == [op |-> "idle", pc |-> "loaded", note |-> "none", stale |-> FALSE,
         row |-> [status |-> "none", attempts |-> 0, at |-> 0],
         mail |-> "none", at |-> 0, outcome |-> Nothing]

NotificationTypeOK ==
    /\ now \in Moment
    /\ security \in BOOLEAN
    /\ preference \in [in_app : BOOLEAN, digest : Digest]
    /\ note \in NoteStatus
    /\ delivery \in DeliveryRow
    /\ duty \in {"none", "ready", "completed", "dead"}
    /\ mail \in MailStatus
    /\ service \in [Service -> ServiceState]
    /\ mailed \in Nat

NotificationInit ==
    /\ now = 0
    /\ security \in BOOLEAN
    /\ preference = [in_app |-> TRUE, digest |-> "immediate"]
    /\ note = "none"
    /\ delivery = [status |-> "none", attempts |-> 0, at |-> 0]
    /\ duty = "none"
    /\ mail = "none"
    /\ service = [s \in Service |-> IdleService]
    /\ mailed = 0

Tick ==
    /\ now < MaxTime
    /\ now' = now + 1
    /\ UNCHANGED <<security, preference, note, delivery, duty, mail, service, mailed>>

-----------------------------------------------------------------------------
(* Sessions and optimistic locking. *)

BeginService(s, op) ==
    /\ service[s].op = "idle"
    /\ service' = [service EXCEPT ![s] =
         CASE op = "deliver" -> [IdleService EXCEPT !.op = op, !.note = note, !.row = delivery, !.at = now]
           [] op = "resend" -> [IdleService EXCEPT !.op = op, !.mail = mail]
           [] OTHER -> [IdleService EXCEPT !.op = op]]
    /\ UNCHANGED <<now, security, preference, note, delivery, duty, mail, mailed>>

\* Mutant of FreshService: the models without version_id_col.
FreshServiceUnversioned(s) == TRUE

\* UPDATE ... WHERE version = :loaded finds its row.
FreshService(s) == ~service[s].stale

\* The session's next state, and which sessions its write makes stale.
Continue(s, next, stales) ==
    service' = [t \in Service |->
      IF t = s THEN next
      ELSE [service[t] EXCEPT !.stale = @ \/ service[t].op \in stales]]

NoteUsers == {"deliver", "read"}
MailUsers == {"resend"}

\* VERSION_CONFLICT, a unique key, EmailHandler's RuntimeError, a database error or a crash
AbortService(s) ==
    /\ service[s].op # "idle"
    /\ Continue(s, IdleService, {})
    /\ UNCHANGED <<now, security, preference, note, delivery, duty, mail, mailed>>

-----------------------------------------------------------------------------
(* Preferences and creation. *)

\* The values stored by update_preference.
Adjusted(in_app, digest) ==
    IF security THEN [in_app |-> TRUE, digest |-> IF digest = "none" THEN "immediate" ELSE digest]
                ELSE [in_app |-> in_app, digest |-> digest]

\* One row, read and written under its version; a field may be left as it is.  Once the
\* notification exists the preference is not read again.
UpdatePreference(in_app, digest) ==
    /\ note = "none"
    /\ preference' = Adjusted(in_app, IF digest = Nothing THEN preference.digest ELSE digest)
    /\ UNCHANGED <<now, security, note, delivery, duty, mail, service, mailed>>

\* scheduled_delivery_time: at once, or later because of the digest or quiet hours.
Schedules(critical) ==
    CASE critical -> {now}
      [] ~critical /\ preference.digest = "none" -> {}
      [] OTHER -> {t \in Moment : t >= now}

\* create_notification for an event of its aggregate; uq_notifications_deduplication
\* admits one row, and emit_project_event creates none if there is one.
Create(critical) ==
    /\ note = "none"
    /\ note' = "pending"
    /\ IF Schedules(critical) # {} /\ (preference.in_app \/ critical)
       THEN \E t \in Schedules(critical) :
              delivery' = [status |-> "scheduled", attempts |-> 0, at |-> t]
       ELSE UNCHANGED delivery
    /\ UNCHANGED <<now, security, preference, duty, mail, service, mailed>>

\* mark_notification_read and read_all_notifications
BeginRead(s) == note # "none" /\ BeginService(s, "read")

WriteRead(s) ==
    /\ service[s].op = "read"
    /\ FreshService(s)
    /\ note' = "read"
    /\ Continue(s, IdleService, NoteUsers)
    /\ UNCHANGED <<now, security, preference, delivery, duty, mail, mailed>>

-----------------------------------------------------------------------------
(* NotificationHandler and deliver_notification. *)

\* A job for the delivery is queued, or an administrator queues a dead one again.
Queue ==
    /\ delivery.status # "none"
    /\ duty \in {"none", "dead"}
    /\ duty' = "ready"
    /\ UNCHANGED <<now, security, preference, note, delivery, mail, service, mailed>>

BeginDeliver(s) == duty = "ready" /\ BeginService(s, "deliver")

\* Mutant of Due: one attempt too many.
DueOffByOne(s) == LET row == service[s].row IN
    /\ row.status # "delivered"
    /\ row.attempts <= MaxAttempts
    /\ row.at <= service[s].at

\* The attempt the handler makes with the row it has loaded.
Due(s) == LET row == service[s].row IN
    /\ row.status # "delivered"
    /\ row.attempts < MaxAttempts
    /\ row.at <= service[s].at

\* Nothing is sent; but a failed delivery has become scheduled again.
SkipDeliver(s) ==
    LET row == service[s].row IN
    /\ service[s].op = "deliver" /\ service[s].pc = "loaded"
    /\ ~Due(s)
    /\ delivery' = IF row.status = "failed" /\ row.attempts < MaxAttempts
                   THEN [delivery EXCEPT !.status = "scheduled"] ELSE delivery
    /\ Continue(s, [service[s] EXCEPT !.pc = "committed"], {})
    /\ UNCHANGED <<now, security, preference, note, duty, mail, mailed>>

Send(s, outcome) ==
    /\ service[s].op = "deliver" /\ service[s].pc = "loaded"
    /\ Due(s)
    /\ Continue(s, [service[s] EXCEPT !.pc = "answered", !.outcome = outcome], {})
    /\ UNCHANGED <<now, security, preference, note, delivery, duty, mail, mailed>>

Backoff(n) == Min({BackoffCap, 2^n * BackoffUnit})

\* A failure with attempts left is committed, and the handler returns normally.
CommitFailure(s) ==
    LET attempt == service[s].row.attempts + 1 IN
    /\ service[s].op = "deliver" /\ service[s].pc = "answered"
    /\ service[s].outcome = "unavailable"
    /\ attempt < MaxAttempts
    /\ delivery' = [status |-> "failed", attempts |-> attempt,
                    at |-> Min({MaxTime, service[s].at + Backoff(attempt)})]
    /\ Continue(s, [service[s] EXCEPT !.pc = "committed"], {})
    /\ UNCHANGED <<now, security, preference, note, duty, mail, mailed>>

\* After the last attempt NonRetryableWorkerError rolls the attempt back.
Bury(s) ==
    /\ service[s].op = "deliver" /\ service[s].pc = "answered"
    /\ service[s].outcome = "unavailable"
    /\ service[s].row.attempts + 1 >= MaxAttempts
    /\ duty' = "dead"
    /\ Continue(s, IdleService, {})
    /\ UNCHANGED <<now, security, preference, note, delivery, mail, mailed>>

\* "delivered" also goes to the notification, whatever its status was when it was loaded;
\* an unchanged notification is not written.
CommitDelivery(s) ==
    LET q == service[s]
        writes == q.outcome = "delivered" /\ q.note # "delivered"
    IN  /\ q.op = "deliver" /\ q.pc = "answered"
        /\ q.outcome \in {"sent", "delivered"}
        /\ writes => FreshService(s)
        /\ delivery' = [delivery EXCEPT !.status = q.outcome, !.attempts = q.row.attempts + 1]
        /\ note' = IF writes THEN "delivered" ELSE note
        /\ Continue(s, [q EXCEPT !.pc = "committed"], IF writes THEN NoteUsers ELSE {})
        /\ UNCHANGED <<now, security, preference, duty, mail, mailed>>

\* complete_owned
Complete(s) ==
    /\ service[s].op = "deliver" /\ service[s].pc = "committed"
    /\ duty' = "completed"
    /\ Continue(s, IdleService, {})
    /\ UNCHANGED <<now, security, preference, note, delivery, mail, mailed>>

-----------------------------------------------------------------------------
(* The document e-mail: send_document_email and EmailHandler. *)

BeginEmail(s) == mail = "none" /\ BeginService(s, "email")

\* Mutant of KeyFree: neither key is unique in the database.
KeyFreeAlways(s) == TRUE

\* The unique keys of notification and message: the insert waits for another one that
\* is not committed, and fails after it.
KeyFree(s) == mail = "none" /\ \A t \in Service \ {s} :
                service[t].op = "email" => service[t].pc = "loaded"

InsertEmail(s) ==
    /\ service[s].op = "email" /\ service[s].pc = "loaded"
    /\ KeyFree(s)
    /\ Continue(s, [service[s] EXCEPT !.pc = "inserted"], {})
    /\ UNCHANGED <<now, security, preference, note, delivery, duty, mail, mailed>>

\* EmailHandler executes a message again, at least once.
BeginResend(s) == mail # "none" /\ BeginService(s, "resend")

Unsent(s) == service[s].mail \notin {"sent", "delivered"}

SendEmail(s, outcome) ==
    /\ \/ service[s].op = "email" /\ service[s].pc = "inserted"
       \/ service[s].op = "resend" /\ service[s].pc = "loaded" /\ Unsent(s)
    /\ Continue(s, [service[s] EXCEPT !.pc = "answered", !.outcome = outcome], {})
    /\ UNCHANGED <<now, security, preference, note, delivery, duty, mail, mailed>>

\* The request commits a failure too; the handler raises instead (Abort).
CommitEmail(s) ==
    LET q == service[s] IN
    /\ q.pc = "answered"
    /\ \/ q.op = "email"
       \/ q.op = "resend" /\ q.outcome # "unavailable" /\ FreshService(s)
    /\ mail' = IF q.outcome = "unavailable" THEN "failed" ELSE q.outcome
    /\ mailed' = IF q.outcome = "unavailable" THEN mailed ELSE mailed + 1
    /\ Continue(s, IdleService, MailUsers)
    /\ UNCHANGED <<now, security, preference, note, delivery, duty>>

-----------------------------------------------------------------------------
Deliver(s) ==
    \/ BeginDeliver(s)
    \/ SkipDeliver(s)
    \/ \E outcome \in Outcome : Send(s, outcome)
    \/ CommitFailure(s)
    \/ Bury(s)
    \/ CommitDelivery(s)
    \/ Complete(s)

Request(s) ==
    \/ BeginRead(s)
    \/ WriteRead(s)
    \/ BeginEmail(s)
    \/ InsertEmail(s)
    \/ BeginResend(s)
    \/ \E outcome \in Outcome : SendEmail(s, outcome)
    \/ CommitEmail(s)
    \/ AbortService(s)

NotificationNext ==
    \/ Tick
    \/ \E in_app \in BOOLEAN, digest \in Digest \cup {Nothing} : UpdatePreference(in_app, digest)
    \/ \E critical \in BOOLEAN : Create(critical)
    \/ Queue
    \/ \E s \in Service : Deliver(s) \/ Request(s)

NotificationSpec == NotificationInit /\ [][NotificationNext]_notificationVars

-----------------------------------------------------------------------------
(* Properties. *)

\* A notification that was read becomes "delivered" again only by a delivery that had
\* loaded it as read; one that was under way when it was read fails.
ReadSurvivesRunning ==
    [][note = "read" /\ note' # "read" =>
         \E s \in Service : service[s].op = "deliver" /\ service[s].note = "read"]_notificationVars

\* However often a document e-mail is requested under its key and its job is executed, at
\* most one send is recorded.
MailedOnce == mailed <= 1
=============================================================================
