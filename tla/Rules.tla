--------------------------------- MODULE Rules ---------------------------------
(***************************************************************************)
(* Rules that are pure functions: when a notification is delivered         *)
(* (scheduled_delivery_time of app/services/communications.py), what the   *)
(* security gate says of a Terraform plan (check_security_gate of          *)
(* app/services/deployment.py) and how many minutes an AI run is billed    *)
(* (calculate_ai_cost of app/services/automation.py).  Each is compared    *)
(* with a reference that says what its result means.                       *)
(*                                                                         *)
(* A behaviour follows one rule while its input grows: the event comes     *)
(* later, the plan has one more resource, the run lasts longer.  Time is   *)
(* the user's local time since some midnight, without shifts of the clock. *)
(***************************************************************************)
EXTENDS Integers, Sequences, FiniteSetsExt

CONSTANTS
    Hour, Day,      \* length of an hour and of a day in units of time
    DigestAt,       \* when daily digests are sent, 9:00
    LastEvent,      \* bound on the time of the event
    Address,        \* what a plan is for: account, region, state and root together
    Expected,       \* the expected one
    MaxChanges,     \* bound on the resources of a plan
    Minute,         \* 60000 milliseconds
    MaxDuration,    \* bound on the duration of a run
    NoHint,
    Never           \* the delivery time of what is not delivered

ASSUME RulesAssumption ==
    /\ {Hour, Day, DigestAt, LastEvent, MaxChanges, Minute, MaxDuration} \subseteq Nat
    /\ Hour > 0 /\ Minute > 0
    /\ Day % Hour = 0 /\ DigestAt % Hour = 0 /\ DigestAt < Day
    /\ Expected \in Address

VARIABLE input

-----------------------------------------------------------------------------
(* scheduled_delivery_time *)

Digest == {"immediate", "hourly", "daily", "none"}

\* An event and, if it is known, what its user prefers for events of its type.
Preference == [rule : {"delivery"}, critical : BOOLEAN, known : BOOLEAN,
               start : 0..Day - 1, end : 0..Day - 1, limited : BOOLEAN,
               digest : Digest, now : 0..LastEvent]

\* The event falls into the quiet hours; a range that ends where it begins is the whole day.
Quiet(p) == LET current == p.now % Day IN
    /\ p.limited
    /\ IF p.start < p.end THEN p.start <= current /\ current < p.end
                          ELSE current >= p.start \/ current < p.end

\* Mutant of QuietEnd: an overnight range ends on the day it began.
QuietEndSameDay(p) == (p.now \div Day) * Day + p.end

\* An overnight range ends on the next day for an event before midnight.
QuietEnd(p) ==
    LET midnight == p.start >= p.end /\ p.now % Day >= p.start
    IN  (p.now \div Day + (IF midnight THEN 1 ELSE 0)) * Day + p.end

\* Critical events and those without a preference are delivered at once; the others after
\* the quiet hours, at the next full hour or at 9:00 of the next day, or not at all.
Delivery(p) ==
    LET local == IF Quiet(p) THEN QuietEnd(p) ELSE p.now IN
    IF p.critical \/ ~p.known THEN p.now ELSE
    CASE p.digest = "none" -> Never
      [] p.digest = "immediate" -> local
      [] p.digest = "hourly" -> (local \div Hour + 1) * Hour
      [] p.digest = "daily" -> (local \div Day + 1) * Day + DigestAt

-----------------------------------------------------------------------------
(* check_security_gate *)

\* What the text of a plan hints at; the first four block it.
Hint == {"production", "dns", "iam", "secret", "snapshot"}
Blocking == Hint \ {"snapshot"}
Action == {<<"no-op">>, <<"create">>, <<"update">>, <<"delete">>,
           <<"delete", "create">>, <<"create", "delete">>}
Change == [actions : Action, hint : Hint \cup {NoHint}]

Has(actions, action) == \E i \in DOMAIN actions : actions[i] = action

\* summarize_plan: what a resource counts as
Counted(change) ==
    CASE change.actions = <<"create">> -> "add"
      [] change.actions = <<"update">> -> "change"
      [] Has(change.actions, "delete") /\ Has(change.actions, "create") -> "replace"
      [] Has(change.actions, "delete") /\ ~Has(change.actions, "create") -> "destroy"
      [] OTHER -> "nothing"

Count(plan, kind) == Cardinality({i \in DOMAIN plan.changes : Counted(plan.changes[i]) = kind})

Contains(plan, hint) == \E i \in DOMAIN plan.changes : plan.changes[i].hint = hint

Reasons(plan) ==
    {reason \in {"WRONG_ENVIRONMENT", "WRONG_TARGET"} \cup Hint
                \cup {"SNAPSHOT_DELETE_DETECTED", "UNEXPECTED_DESTROY"} :
       \/ reason = "WRONG_ENVIRONMENT" /\ ~plan.staging
       \/ reason = "WRONG_TARGET" /\ plan.address # Expected
       \/ reason \in Blocking /\ Contains(plan, reason)
       \/ reason = "SNAPSHOT_DELETE_DETECTED" /\ Count(plan, "destroy") > 0 /\ Contains(plan, "snapshot")
       \/ reason = "UNEXPECTED_DESTROY" /\ Count(plan, "destroy") > 0}

Gate(plan) ==
    CASE Reasons(plan) # {} -> "blocked"
      [] Reasons(plan) = {} /\ \E kind \in {"add", "change", "replace"} : Count(plan, kind) > 0
           -> "review_required"
      [] OTHER -> "pass"

-----------------------------------------------------------------------------
(* calculate_ai_cost *)

BilledMinutes(run) == IF run.duration = 0 THEN 0 ELSE (run.duration + Minute - 1) \div Minute

-----------------------------------------------------------------------------
RulesInit ==
    \/ input \in {p \in Preference : p.now = 0}
    \/ input \in [rule : {"gate"}, staging : BOOLEAN, address : Address, changes : {<<>>}]
    \/ input = [rule |-> "cost", duration |-> 0]

Later ==
    /\ input.rule = "delivery"
    /\ input.now < LastEvent
    /\ input' = [input EXCEPT !.now = @ + 1]

Extend(change) ==
    /\ input.rule = "gate"
    /\ Len(input.changes) < MaxChanges
    /\ input' = [input EXCEPT !.changes = Append(@, change)]

Longer ==
    /\ input.rule = "cost"
    /\ input.duration < MaxDuration
    /\ input' = [input EXCEPT !.duration = @ + 1]

RulesNext == Later \/ (\E change \in Change : Extend(change)) \/ Longer

RulesSpec == RulesInit /\ [][RulesNext]_input

-----------------------------------------------------------------------------
(* References and properties. *)

\* Counted around the clock from its start, a time is within the quiet hours.
QuietAt(p, t) ==
    p.limited /\ (p.start = p.end \/ (t - p.start) % Day < (p.end - p.start) % Day)

\* The first moment, not before the event, that is not quiet; where all are, the next end
Released(p) ==
    IF p.limited /\ p.start = p.end
    THEN Min({t \in p.now + 1..p.now + Day : t % Day = p.end})
    ELSE Min({t \in p.now..p.now + Day : ~QuietAt(p, t)})

\* An immediate delivery is made on release, a digest at the first full hour after it, or
\* at 9:00 of the first day after it, whether that moment is quiet or not.
FirstMoment(p) ==
    CASE p.digest = "immediate" -> Released(p)
      [] p.digest = "hourly" -> Min({t \in Released(p) + 1..Released(p) + Hour : t % Hour = 0})
      [] p.digest = "daily" -> Min({t \in Released(p) + 1..Released(p) + 2 * Day :
                                      /\ t % Day = DigestAt
                                      /\ t \div Day > Released(p) \div Day})

\* Between release and delivery other quiet hours begin.
QuietBegins(p) == \E t \in Released(p) + 1..Delivery(p) : t % Day = p.start

\* What is neither critical nor without a preference waits until the quiet hours that it
\* falls into are over.  A delivery at a quiet moment is then a digest that the next quiet
\* hours have overtaken, unless the whole day is quiet.
DeliveryWaits(p) ==
    IF p.critical \/ ~p.known THEN Delivery(p) = p.now
    ELSE IF p.digest = "none" THEN Delivery(p) = Never
    ELSE /\ Delivery(p) = FirstMoment(p)
         /\ QuietAt(p, Delivery(p)) /\ p.start # p.end =>
               p.digest # "immediate" /\ QuietBegins(p)

\* A plan is blocked exactly when it is meant for something else, hints at something
\* protected or loses a resource for good, and passes only if it changes nothing.
GateIsSound(plan) ==
    LET changes == {plan.changes[i] : i \in DOMAIN plan.changes}
        lost == \E c \in changes : c.actions = <<"delete">>
    IN  /\ Gate(plan) = "blocked" <=>
             ~plan.staging \/ plan.address # Expected \/ lost \/ \E c \in changes : c.hint \in Blocking
        /\ Gate(plan) = "pass" => \A c \in changes : c.actions = <<"no-op">>

\* A run is billed the fewest whole minutes that cover it.
MinutesCover(run) ==
    BilledMinutes(run) = Min({m \in 0..run.duration : m * Minute >= run.duration})

\* The rules compute what they are said to: a delivery that waits out the quiet hours of its
\* event, also across midnight and when they have no end, although not those that begin
\* before its digest; a gate that lets nothing protected pass; whole minutes.
RulesAgree ==
    CASE input.rule = "delivery" -> DeliveryWaits(input)
      [] input.rule = "gate" -> GateIsSound(input)
      [] input.rule = "cost" -> MinutesCover(input)

=============================================================================
