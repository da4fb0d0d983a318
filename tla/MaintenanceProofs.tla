---------------------------- MODULE MaintenanceProofs ----------------------------
(***************************************************************************)
(* Proofs about Maintenance for all ages, bounds, deletion requests,       *)
(* sessions and administrators.                                            *)
(*                                                                         *)
(* As long as nobody has updated its rows, a session's copy is the row.    *)
(* What an ageing job inserts is protected by no version; there the        *)
(* argument is that a job which would insert without writing the contract  *)
(* finds an open request, unless a recovery has overtaken it.              *)
(***************************************************************************)
EXTENDS Maintenance, TLAPS

USE AgesAssumption, BoundsAssumption, NoneAssumption

-----------------------------------------------------------------------------
(* The invariant. *)

\* A request's approvers are as far as its status says.
RowShape(row) ==
    /\ row.status \in {"none", "pending_first_approval"} => row.first = None /\ row.second = None
    /\ row.status = "pending_second_approval" => row.first \in Admin /\ row.second = None
    /\ row.status = "approved" => row.first \in Admin /\ row.second \in Admin /\ row.first # row.second

Recorded(d) == consent[d] = {deletion[d].first, deletion[d].second} \ {None}

\* The clock of the delinquency is the first failure since the last recovery.
Clock ==
    /\ since = contract.failed
    /\ contract.failed # None => contract.failed <= now
    /\ contract.status \in Delinquent => contract.failed # None

Scheduled == contract.status = "deletion_scheduled" => OpenRequests # {}

HasContract(q) == q.op \in {"fail", "advance", "recover", "cancel"}

\* The copy of the contract.
ContractCopy(q) ==
    HasContract(q) =>
      /\ TheContract \in q.rows
      /\ q.at <= now
      /\ ~q.stale => q.status = contract.status /\ q.failed = contract.failed
      /\ q.op = "fail" => q.status \in {"active", "past_due"}
      /\ q.op \in {"advance", "recover"} => q.status \in Delinquent
      /\ q.op = "cancel" => q.status \notin {"none", "terminated"}

\* An ageing job: what it has found is still there unless a recovery came in between.
AdvanceCopy(q, aged) ==
    q.op = "advance" =>
      /\ q.failed # None /\ q.failed <= q.at
      /\ ~q.behind /\ q.status = "deletion_scheduled" =>
           /\ contract.status \in {"deletion_scheduled", "terminated"}
           /\ OpenRequests # {}
           /\ q.searched => q.found
      /\ q.searched /\ q.found /\ ~q.stale /\ aged = "deletion_scheduled" => OpenRequests # {}

\* A recovery: open requests that it has not found were inserted by a job behind another one.
RecoverCopy(q) ==
    q.op = "recover" /\ q.searched /\ ~q.stale => OpenRequests \subseteq q.rows \cup overtaken

\* An approval: the request still waits for it.
ApproveCopy(q) ==
    q.op = "approve" =>
      /\ q.by \in Admin
      /\ \E d \in Deletion :
           /\ q.rows = {d}
           /\ ~q.stale => /\ Entitled(q.by, deletion[d])
                          /\ q.found = (deletion[d].status = "pending_second_approval")

SessionOK(s) ==
    /\ ContractCopy(session[s])
    /\ AdvanceCopy(session[s], Aged(s))
    /\ RecoverCopy(session[s])
    /\ ApproveCopy(session[s])

Inv ==
    /\ TypeOK
    /\ \A d \in Deletion : RowShape(deletion[d]) /\ Recorded(d)
    /\ Clock
    /\ PeriodsAreGranted
    /\ Scheduled
    /\ OpenNeedsSchedule
    /\ \A s \in Session : SessionOK(s)

-----------------------------------------------------------------------------
(* The tiers. *)

LEMMA TierFacts ==
  ASSUME NEW age \in Int
  PROVE  /\ Target(age) \in Delinquent
         /\ age < Day30 => Target(age) = "past_due"
         /\ Target(age) = "grace_period" => age >= Day30
         /\ Target(age) = "suspended" => age >= Day60
         /\ Target(age) = "deletion_scheduled" => age >= Day90
  BY DEF Target, Delinquent

LEMMA OrderFacts ==
  /\ Order["past_due"] = 1 /\ Order["grace_period"] = 2 /\ Order["suspended"] = 3
  /\ Order["deletion_scheduled"] = 4
  BY DEF Order, Delinquent

LEMMA AgedFacts ==
  ASSUME TypeOK, NEW s \in Session, session[s].op = "advance", SessionOK(s)
  PROVE  /\ Aged(s) \in Delinquent
         /\ session[s].status = "deletion_scheduled" => Aged(s) = "deletion_scheduled"
         /\ Age(s) \in Int /\ Age(s) = session[s].at - session[s].failed
         /\ Aged(s) # session[s].status => Aged(s) = Target(Age(s))
         /\ RetryDue(s) /\ Aged(s) = "deletion_scheduled" => session[s].status = "deletion_scheduled"
  <1>1. session[s].status \in Delinquent /\ session[s].failed \in Nat /\ session[s].at \in Nat
    BY DEF TypeOK, SessionState, Moment, MomentOrNull, SessionOK, ContractCopy, AdvanceCopy,
           HasContract
  <1>2. Age(s) \in Int /\ Age(s) = session[s].at - session[s].failed
    BY <1>1 DEF Age
  <1>3. Target(Age(s)) \in Delinquent /\ (Age(s) < Day30 => Target(Age(s)) = "past_due")
    BY <1>2, TierFacts
  <1>4. Aged(s) = IF Order[Target(Age(s))] > Order[session[s].status]
                  THEN Target(Age(s)) ELSE session[s].status
    BY DEF Aged
  <1>5. session[s].status = "deletion_scheduled" => Aged(s) = "deletion_scheduled"
    BY <1>3, <1>4, OrderFacts DEF Delinquent
  <1>6. RetryDue(s) /\ Aged(s) = "deletion_scheduled" => session[s].status = "deletion_scheduled"
    BY <1>3, <1>4 DEF RetryDue
  <1> QED
    BY <1>1, <1>2, <1>3, <1>4, <1>5, <1>6

-----------------------------------------------------------------------------
LEMMA InitInv == Init => Inv
  <1> SUFFICES ASSUME Init PROVE Inv
    OBVIOUS
  <1>1. TypeOK
    BY DEF Init, TypeOK, Moment, MomentOrNull, Status, RequestRow, RequestStatus, SessionState, Idle
  <1>2. \A d \in Deletion : RowShape(deletion[d]) /\ Recorded(d)
    BY DEF Init, RowShape, Recorded
  <1>3. Clock /\ PeriodsAreGranted /\ Scheduled
    BY DEF Init, Clock, PeriodsAreGranted, Scheduled, Delinquent
  <1>4. OpenNeedsSchedule
    BY DEF Init, OpenNeedsSchedule, OpenRequests, Open
  <1>5. \A s \in Session : SessionOK(s)
    BY DEF Init, SessionOK, ContractCopy, HasContract, AdvanceCopy, RecoverCopy, ApproveCopy, Idle
  <1> QED
    BY <1>1, <1>2, <1>3, <1>4, <1>5 DEF Inv

-----------------------------------------------------------------------------
(* How sessions keep their copies. *)

Unmoved(t, updated, recovery) ==
    /\ session'[t].op = session[t].op /\ session'[t].status = session[t].status
    /\ session'[t].failed = session[t].failed /\ session'[t].at = session[t].at
    /\ session'[t].rows = session[t].rows /\ session'[t].found = session[t].found
    /\ session'[t].by = session[t].by /\ session'[t].searched = session[t].searched
    /\ session'[t].stale = (session[t].stale \/ session[t].rows \cap updated # {})
    /\ session'[t].behind = (session[t].behind \/ (recovery /\ session[t].op = "advance"))

LEMMA FinishMoves ==
  ASSUME TypeOK, NEW s \in Session, NEW updated, NEW recovery \in BOOLEAN,
         Finish(s, updated, recovery)
  PROVE  /\ session' \in [Session -> SessionState]
         /\ session'[s] = Idle
         /\ \A t \in Session \ {s} : Unmoved(t, updated, recovery)
  <1>1. ASSUME NEW t \in Session \ {s}
        PROVE  session'[t] \in SessionState /\ Unmoved(t, updated, recovery)
    <2> DEFINE late == session[t].stale \/ session[t].rows \cap updated # {}
               past == session[t].behind \/ (recovery /\ session[t].op = "advance")
    <2>1. session'[t] = [session[t] EXCEPT !.stale = late, !.behind = past]
      BY DEF Finish
    <2>2. late \in BOOLEAN /\ past \in BOOLEAN /\ session[t] \in SessionState
      BY DEF TypeOK
    <2> HIDE DEF late, past
    <2>3. /\ session'[t] \in SessionState
          /\ session'[t].stale = late /\ session'[t].behind = past
          /\ session'[t].op = session[t].op /\ session'[t].status = session[t].status
          /\ session'[t].failed = session[t].failed /\ session'[t].at = session[t].at
          /\ session'[t].rows = session[t].rows /\ session'[t].found = session[t].found
          /\ session'[t].by = session[t].by /\ session'[t].searched = session[t].searched
      BY <2>1, <2>2 DEF SessionState
    <2> QED
      BY <2>3 DEF Unmoved, late, past
  <1>2. session'[s] = Idle
    BY DEF Finish
  <1>3. Idle \in SessionState
    BY DEF Idle, SessionState, Status, Moment, MomentOrNull
  <1>4. session' = [t \in Session |-> session'[t]]
    BY DEF Finish
  <1> QED
    BY <1>1, <1>2, <1>3, <1>4

LEMMA IdleOK ==
  ASSUME NEW s, session'[s] = Idle
  PROVE  SessionOK(s)'
  BY DEF SessionOK, ContractCopy, HasContract, AdvanceCopy, RecoverCopy, ApproveCopy, Idle

\* What a step does to the rows that other sessions have loaded.
Writes(updated, recovery) ==
    /\ \/ TheContract \in updated
       \/ contract' = contract
       \/ contract.status = "none"
    /\ \A d \in Deletion : d \in updated \/ deletion'[d] = deletion[d] \/ deletion[d].status = "none"
    /\ now <= now'
    /\ \/ recovery /\ TheContract \in updated
       \/ /\ contract.status \in {"deletion_scheduled", "terminated"}
                => contract'.status \in {"deletion_scheduled", "terminated"}
          /\ OpenRequests \subseteq OpenRequests'
    /\ TheContract \in updated \/ OpenRequests' \subseteq OpenRequests \cup overtaken'
    /\ overtaken \subseteq overtaken'

LEMMA SessionKept ==
  ASSUME Inv, NEW t \in Session, NEW updated, NEW recovery \in BOOLEAN,
         Unmoved(t, updated, recovery), Writes(updated, recovery),
         now' \in Nat
  PROVE  SessionOK(t)'
  <1> DEFINE q == session[t]
             p == session'[t]
  <1>0. SessionOK(t) /\ q \in SessionState /\ now \in Nat
    BY DEF Inv, TypeOK, Moment
  <1>1. /\ p.op = q.op /\ p.status = q.status /\ p.failed = q.failed /\ p.at = q.at
        /\ p.rows = q.rows /\ p.found = q.found /\ p.by = q.by /\ p.searched = q.searched
        /\ ~p.stale => ~q.stale /\ q.rows \cap updated = {}
        /\ ~p.behind => ~q.behind /\ ~(recovery /\ q.op = "advance")
    BY DEF Unmoved
  <1>2. ASSUME HasContract(q), ~p.stale
        PROVE  contract' = contract /\ ~q.stale /\ ~(recovery /\ TheContract \in updated)
               /\ TheContract \notin updated
    <2>1. TheContract \in q.rows /\ ~q.stale /\ contract.status = q.status /\ q.status # "none"
      BY <1>0, <1>1, <1>2 DEF SessionOK, ContractCopy, HasContract, Delinquent
    <2>2. TheContract \notin updated
      BY <1>1, <1>2, <2>1
    <2> QED
      BY <2>1, <2>2 DEF Writes
  <1>3. ContractCopy(session[t])'
    <2>1. ContractCopy(q)
      BY <1>0 DEF SessionOK
    <2>2. HasContract(q) => q.at <= now'
      BY <1>0, <2>1 DEF ContractCopy, Writes, SessionState, Moment
    <2> QED
      BY <1>1, <1>2, <2>1, <2>2 DEF ContractCopy, HasContract
  <1>4. AdvanceCopy(session[t], Aged(t))'
    <2> SUFFICES ASSUME q.op = "advance" PROVE AdvanceCopy(session[t], Aged(t))'
      BY <1>1 DEF AdvanceCopy
    <2>1. AdvanceCopy(q, Aged(t))
      BY <1>0 DEF SessionOK
    <2>2. Aged(t)' = Aged(t)
      BY <1>1 DEF Aged, Age
    <2>3. ~p.behind => /\ contract.status \in {"deletion_scheduled", "terminated"}
                            => contract'.status \in {"deletion_scheduled", "terminated"}
                       /\ OpenRequests \subseteq OpenRequests'
      BY <1>1 DEF Writes
    <2>4. ~p.stale => OpenRequests \subseteq OpenRequests'
      BY <1>2 DEF Writes, HasContract
    <2> HIDE DEF q, p
    <2> QED
      BY <1>1, <2>1, <2>2, <2>3, <2>4 DEF AdvanceCopy, p, q
  <1>5. RecoverCopy(session[t])'
    <2> SUFFICES ASSUME p.op = "recover", p.searched, ~p.stale
                 PROVE  OpenRequests' \subseteq p.rows \cup overtaken'
      BY DEF RecoverCopy
    <2>1. OpenRequests \subseteq q.rows \cup overtaken
      BY <1>0, <1>1 DEF SessionOK, RecoverCopy
    <2>2. OpenRequests' \subseteq OpenRequests \cup overtaken' /\ overtaken \subseteq overtaken'
      BY <1>1, <1>2 DEF Writes, HasContract
    <2> QED
      BY <1>1, <2>1, <2>2
  <1>6. ApproveCopy(session[t])'
    <2> SUFFICES ASSUME q.op = "approve" PROVE ApproveCopy(session[t])'
      BY <1>1 DEF ApproveCopy
    <2>1. PICK d \in Deletion :
            /\ q.rows = {d}
            /\ ~q.stale => /\ Entitled(q.by, deletion[d])
                           /\ q.found = (deletion[d].status = "pending_second_approval")
      BY <1>0 DEF SessionOK, ApproveCopy
    <2>2. ASSUME ~p.stale PROVE deletion'[d] = deletion[d] /\ ~q.stale
      <3>1. d \notin updated /\ ~q.stale
        BY <1>1, <2>1, <2>2
      <3>2. deletion[d].status # "none"
        BY <2>1, <3>1 DEF Entitled
      <3> QED
        BY <3>1, <3>2 DEF Writes
    <2>3. q.by \in Admin
      BY <1>0 DEF SessionOK, ApproveCopy
    <2> QED
      BY <1>1, <2>1, <2>2, <2>3 DEF ApproveCopy, Entitled
  <1> QED
    BY <1>3, <1>4, <1>5, <1>6 DEF SessionOK

LEMMA FinishKeeps ==
  ASSUME Inv, NEW s \in Session, NEW updated, NEW recovery \in BOOLEAN,
         Finish(s, updated, recovery), Writes(updated, recovery), now' \in Nat
  PROVE  session' \in [Session -> SessionState] /\ \A t \in Session : SessionOK(t)'
  <1>1. /\ session' \in [Session -> SessionState]
        /\ session'[s] = Idle
        /\ \A t \in Session \ {s} : Unmoved(t, updated, recovery)
    BY FinishMoves DEF Inv
  <1>2. \A t \in Session \ {s} : SessionOK(t)'
    BY <1>1, SessionKept
  <1>3. SessionOK(s)'
    BY <1>1, IdleOK
  <1> QED
    BY <1>1, <1>2, <1>3

\* The sessions do not move.
LEMMA StillKeeps ==
  ASSUME Inv, UNCHANGED session, Writes({}, FALSE), now' \in Nat
  PROVE  session' \in [Session -> SessionState] /\ \A t \in Session : SessionOK(t)'
  <1>1. \A t \in Session : Unmoved(t, {}, FALSE)
    BY DEF Unmoved, Inv, TypeOK, SessionState
  <1> QED
    BY <1>1, SessionKept DEF Inv, TypeOK

Rows == <<now, contract, retries, deletion, since, consent, overtaken>>

\* Only session s moves, and no row.
LEMMA OneMoves ==
  ASSUME Inv, NEW s \in Session, NEW q \in SessionState, UNCHANGED Rows,
         session' = [session EXCEPT ![s] = q], SessionOK(s)'
  PROVE  Inv'
  <1>1. session'[s] = q /\ \A t \in Session \ {s} : session'[t] = session[t]
    BY DEF Inv, TypeOK
  <1>2. now \in Nat
    BY DEF Inv, TypeOK, Moment
  <1>3. OpenRequests' = OpenRequests
    BY DEF OpenRequests, Rows
  <1>4. Writes({}, FALSE)
    BY <1>2, <1>3 DEF Writes, Rows
  <1>5. ASSUME NEW t \in Session \ {s} PROVE SessionOK(t)'
    <2>1. Unmoved(t, {}, FALSE)
      BY <1>1 DEF Unmoved, Inv, TypeOK, SessionState
    <2> QED
      BY <1>2, <1>4, <2>1, SessionKept DEF Rows
  <1>6. TypeOK'
    BY DEF Inv, TypeOK, Rows
  <1>7. \A d \in Deletion : RowShape(deletion[d])' /\ Recorded(d)'
    BY DEF Inv, Rows, Recorded, RowShape
  <1>8. Clock' /\ PeriodsAreGranted' /\ Scheduled' /\ OpenNeedsSchedule'
    BY <1>3 DEF Inv, Rows, Clock, PeriodsAreGranted, Scheduled, OpenNeedsSchedule
  <1> QED
    BY <1>5, <1>6, <1>7, <1>8 DEF Inv

\* Where no deletion request changes and the contract becomes no further overdue.
LEMMA AbortStep ==
  ASSUME Inv, NEW s \in Session, Abort(s)
  PROVE  Inv'
  <1>1. Finish(s, {}, FALSE) /\ UNCHANGED Rows
    BY DEF Abort, Rows
  <1>2. /\ session' \in [Session -> SessionState]
        /\ session'[s] = Idle
        /\ \A t \in Session \ {s} : Unmoved(t, {}, FALSE)
    BY <1>1, FinishMoves DEF Inv
  <1>3. Idle \in SessionState /\ SessionOK(s)'
    BY <1>2, IdleOK DEF Inv, TypeOK
  <1>4. session' = [session EXCEPT ![s] = Idle]
    <2>1. \A t \in Session \ {s} : session'[t] = [session[t] EXCEPT !.stale = @, !.behind = @]
      BY <1>1, <1>2 DEF Finish, Inv, TypeOK, SessionState
    <2>2. \A t \in Session \ {s} : session'[t] = session[t]
      BY <2>1 DEF Inv, TypeOK, SessionState
    <2> QED
      BY <1>2, <2>2 DEF Inv, TypeOK
  <1> QED
    BY <1>1, <1>2, <1>3, <1>4, OneMoves

-----------------------------------------------------------------------------
(* Sessions begin and search. *)

LEMMA LoadStep ==
  ASSUME Inv, NEW s \in Session, NEW op \in {"fail", "advance", "recover", "cancel"},
         Load(s, op),
         op = "fail" => contract.status \in {"active", "past_due"},
         op = "advance" => contract.failed # None,
         op \in {"advance", "recover"} => contract.status \in Delinquent,
         op = "cancel" => contract.status \notin {"none", "terminated"}
  PROVE  Inv'
  <1> DEFINE q == [Idle EXCEPT !.op = op, !.status = contract.status, !.failed = contract.failed,
                               !.at = now, !.rows = {TheContract}]
  <1>1. session' = [session EXCEPT ![s] = q] /\ UNCHANGED Rows
    BY DEF Load, Rows
  <1>2. /\ q.op = op /\ q.status = contract.status /\ q.failed = contract.failed /\ q.at = now
        /\ q.rows = {TheContract} /\ q.searched = FALSE /\ q.stale = FALSE /\ q.behind = FALSE
        /\ q.found = FALSE
    BY DEF Idle
  <1>3. q \in SessionState
    BY DEF Idle, SessionState, Inv, TypeOK, Row, Status, MomentOrNull
  <1>4. now \in Nat /\ (contract.failed # None => contract.failed <= now)
    BY DEF Inv, TypeOK, Moment, Clock
  <1>5. session'[s] = q
    BY <1>1 DEF Inv, TypeOK
  <1> HIDE DEF q
  <1>6. ContractCopy(session[s])'
    BY <1>1, <1>2, <1>4, <1>5 DEF ContractCopy, HasContract, Rows
  <1>7. AdvanceCopy(session[s], Aged(s))'
    <2>1. op = "advance" /\ contract.status = "deletion_scheduled" => OpenRequests # {}
      BY DEF Inv, Scheduled
    <2>2. OpenRequests' = OpenRequests
      BY <1>1 DEF OpenRequests, Rows
    <2> QED
      BY <1>1, <1>2, <1>4, <1>5, <2>1, <2>2 DEF AdvanceCopy, Rows
  <1>8. RecoverCopy(session[s])' /\ ApproveCopy(session[s])'
    BY <1>2, <1>5 DEF RecoverCopy, ApproveCopy
  <1>9. SessionOK(s)'
    BY <1>6, <1>7, <1>8 DEF SessionOK
  <1> QED
    BY <1>1, <1>3, <1>9, OneMoves

LEMMA BeginStep ==
  ASSUME Inv, NEW s \in Session,
         BeginFail(s) \/ BeginAdvance(s) \/ BeginRecover(s) \/ BeginCancel(s)
  PROVE  Inv' /\ UNCHANGED deletion
  BY LoadStep DEF BeginFail, BeginAdvance, BeginRecover, BeginCancel, Load

LEMMA SearchStep ==
  ASSUME Inv, NEW s \in Session, Search(s)
  PROVE  Inv'
  <1> DEFINE seen == \/ RetryDue(s) /\ retries > 0
                     \/ Aged(s) = "deletion_scheduled" /\ OpenRequests # {}
             q == [session[s] EXCEPT !.searched = TRUE, !.found = seen]
  <1>1. session[s] \in SessionState /\ session[s].op = "advance" /\ SessionOK(s)
    BY DEF Search, Inv, TypeOK
  <1>2. session' = [session EXCEPT ![s] = q] /\ UNCHANGED Rows
    BY DEF Search, Rows, Inv, TypeOK
  <1>3. seen \in BOOLEAN
    BY DEF RetryDue
  <1>4. /\ session[s].status = "deletion_scheduled" => Aged(s) = "deletion_scheduled"
        /\ RetryDue(s) /\ Aged(s) = "deletion_scheduled" => session[s].status = "deletion_scheduled"
    BY <1>1, AgedFacts DEF Inv
  <1>5. /\ session[s].status = "deletion_scheduled" /\ OpenRequests # {} => seen
        /\ seen /\ Aged(s) = "deletion_scheduled"
             => session[s].status = "deletion_scheduled" \/ OpenRequests # {}
    BY <1>4
  <1> HIDE DEF seen
  <1>6. /\ q \in SessionState
        /\ q.op = "advance" /\ q.status = session[s].status /\ q.failed = session[s].failed
        /\ q.at = session[s].at /\ q.rows = session[s].rows /\ q.by = session[s].by
        /\ q.stale = session[s].stale /\ q.behind = session[s].behind
        /\ q.searched = TRUE /\ q.found = seen
    BY <1>1, <1>3 DEF SessionState
  <1>7. session'[s] = q
    BY <1>2 DEF Inv, TypeOK
  <1> HIDE DEF q
  <1>8. Aged(s)' = Aged(s)
    BY <1>6, <1>7 DEF Aged, Age
  <1>9. OpenRequests' = OpenRequests
    BY <1>2 DEF OpenRequests, Rows
  <1>10. ContractCopy(session[s])'
    BY <1>1, <1>2, <1>6, <1>7 DEF SessionOK, ContractCopy, HasContract, Rows
  <1>11. AdvanceCopy(session[s], Aged(s))'
    <2>1. AdvanceCopy(session[s], Aged(s)) /\ ContractCopy(session[s])
      BY <1>1 DEF SessionOK
    <2>2. /\ session[s].failed # None /\ session[s].failed <= session[s].at
          /\ ~session[s].behind /\ session[s].status = "deletion_scheduled" =>
               /\ contract.status \in {"deletion_scheduled", "terminated"}
               /\ OpenRequests # {}
      BY <1>1, <2>1 DEF AdvanceCopy
    <2>3. ~session[s].stale /\ session[s].status = "deletion_scheduled" => OpenRequests # {}
      BY <1>1, <2>1 DEF ContractCopy, HasContract, Inv, Scheduled
    <2>4. contract' = contract
      BY <1>2 DEF Rows
    <2>5. /\ session'[s].failed # None /\ session'[s].failed <= session'[s].at
          /\ ~session'[s].behind /\ session'[s].status = "deletion_scheduled" =>
               /\ contract'.status \in {"deletion_scheduled", "terminated"}
               /\ OpenRequests' # {}
               /\ session'[s].found
          /\ session'[s].found /\ ~session'[s].stale /\ Aged(s)' = "deletion_scheduled"
               => OpenRequests' # {}
      BY <1>5, <1>6, <1>7, <1>8, <1>9, <2>2, <2>3, <2>4
    <2> QED
      BY <2>5 DEF AdvanceCopy
  <1>12. RecoverCopy(session[s])' /\ ApproveCopy(session[s])'
    BY <1>6, <1>7 DEF RecoverCopy, ApproveCopy
  <1>13. SessionOK(s)'
    BY <1>10, <1>11, <1>12 DEF SessionOK
  <1> QED
    BY <1>2, <1>6, <1>13, OneMoves

LEMMA SearchRequestsStep ==
  ASSUME Inv, NEW s \in Session, SearchRequests(s)
  PROVE  Inv'
  <1> DEFINE all == session[s].rows \cup OpenRequests
             q == [session[s] EXCEPT !.searched = TRUE, !.rows = all]
  <1>1. session[s] \in SessionState /\ session[s].op = "recover" /\ SessionOK(s)
    BY DEF SearchRequests, Inv, TypeOK
  <1>2. session' = [session EXCEPT ![s] = q] /\ UNCHANGED Rows
    BY DEF SearchRequests, Rows, Cancellable, OpenRequests, Inv, TypeOK
  <1>3. all \in SUBSET Row
    BY <1>1 DEF OpenRequests, Row, SessionState
  <1> HIDE DEF all
  <1>4. /\ q \in SessionState
        /\ q.op = "recover" /\ q.status = session[s].status /\ q.failed = session[s].failed
        /\ q.at = session[s].at /\ q.rows = all /\ q.stale = session[s].stale
    BY <1>1, <1>3 DEF SessionState
  <1>5. session'[s] = q
    BY <1>2 DEF Inv, TypeOK
  <1> HIDE DEF q
  <1>6. ContractCopy(session[s])'
    BY <1>1, <1>2, <1>4, <1>5 DEF SessionOK, ContractCopy, HasContract, Rows, all
  <1>7. OpenRequests' = OpenRequests
    BY <1>2 DEF OpenRequests, Rows
  <1>8. RecoverCopy(session[s])'
    BY <1>2, <1>4, <1>5, <1>7 DEF RecoverCopy, Rows, all
  <1>9. AdvanceCopy(session[s], Aged(s))' /\ ApproveCopy(session[s])'
    BY <1>4, <1>5 DEF AdvanceCopy, ApproveCopy
  <1>10. SessionOK(s)'
    BY <1>6, <1>8, <1>9 DEF SessionOK
  <1> QED
    BY <1>2, <1>4, <1>10, OneMoves

LEMMA BeginApproveStep ==
  ASSUME Inv, NEW s \in Session, NEW d \in Deletion, NEW a \in Admin, BeginApprove(s, d, a)
  PROVE  Inv'
  <1> DEFINE second == deletion[d].status = "pending_second_approval"
             q == [Idle EXCEPT !.op = "approve", !.rows = {d}, !.by = a, !.found = second]
  <1>1. session' = [session EXCEPT ![s] = q] /\ UNCHANGED Rows /\ Entitled(a, deletion[d])
    BY DEF BeginApprove, Rows
  <1>2. second \in BOOLEAN
    OBVIOUS
  <1>3. q.op = "approve" /\ q.rows = {d} /\ q.by = a /\ q.found = second /\ q.stale = FALSE
    BY DEF Idle
  <1> HIDE DEF second
  <1>4. q \in SessionState
    <2>1. Idle \in SessionState
      BY DEF Idle, SessionState, Status, Moment, MomentOrNull
    <2>2. {d} \in SUBSET Row
      BY DEF Row
    <2> QED
      BY <1>2, <2>1, <2>2 DEF SessionState
  <1>5. session'[s] = q
    BY <1>1 DEF Inv, TypeOK
  <1> HIDE DEF q
  <1>6. ApproveCopy(session[s])'
    BY <1>1, <1>3, <1>5 DEF ApproveCopy, Entitled, Rows, second
  <1>7. ContractCopy(session[s])' /\ AdvanceCopy(session[s], Aged(s))' /\ RecoverCopy(session[s])'
    BY <1>3, <1>5 DEF ContractCopy, HasContract, AdvanceCopy, RecoverCopy
  <1>8. SessionOK(s)'
    BY <1>6, <1>7 DEF SessionOK
  <1> QED
    BY <1>1, <1>4, <1>8, OneMoves

-----------------------------------------------------------------------------
(* Steps that change rows. *)

\* Where the deletion requests stay as they are.
LEMMA SameRequests ==
  ASSUME Inv, UNCHANGED <<deletion, consent, overtaken>>
  PROVE  /\ OpenRequests' = OpenRequests
         /\ \A d \in Deletion : RowShape(deletion[d])' /\ Recorded(d)'
  BY DEF Inv, OpenRequests, RowShape, Recorded

LEMMA TickStep ==
  ASSUME Inv, Tick
  PROVE  Inv'
  <1>1. now \in Nat /\ now' = now + 1 /\ now' \in Moment
    BY DEF Tick, Inv, TypeOK, Moment
  <1>2. UNCHANGED <<contract, retries, deletion, session, since, consent, overtaken>>
    BY DEF Tick
  <1>3. OpenRequests' = OpenRequests /\ \A d \in Deletion : RowShape(deletion[d])' /\ Recorded(d)'
    BY <1>2, SameRequests
  <1>4. Writes({}, FALSE)
    BY <1>1, <1>2, <1>3 DEF Writes
  <1>5. \A s \in Session : SessionOK(s)'
    BY <1>1, <1>2, <1>4, StillKeeps
  <1>6. TypeOK'
    BY <1>1, <1>2 DEF Inv, TypeOK
  <1>7. contract.failed \in Nat \cup {None} /\ since = contract.failed
        /\ (contract.status \in Delinquent => contract.failed # None)
        /\ (contract.failed # None => contract.failed <= now)
    BY DEF Inv, TypeOK, MomentOrNull, Moment, Clock
  <1>8. Clock' /\ Scheduled' /\ OpenNeedsSchedule'
    BY <1>1, <1>2, <1>3, <1>7 DEF Inv, Clock, Scheduled, OpenNeedsSchedule
  <1>9. PeriodsAreGranted'
    BY <1>1, <1>2, <1>7 DEF Inv, PeriodsAreGranted, Delinquent
  <1> QED
    BY <1>3, <1>5, <1>6, <1>8, <1>9 DEF Inv

LEMMA CreateStep ==
  ASSUME Inv, Create
  PROVE  Inv'
  <1>1. /\ contract.status = "none"
        /\ contract' = [contract EXCEPT !.status = "active"]
        /\ UNCHANGED <<now, retries, deletion, session, since, consent, overtaken>>
    BY DEF Create
  <1>2. contract'.status = "active" /\ contract'.failed = contract.failed
        /\ contract' \in [status : Status, failed : MomentOrNull]
    BY <1>1 DEF Inv, TypeOK, Status
  <1>3. OpenRequests' = OpenRequests /\ \A d \in Deletion : RowShape(deletion[d])' /\ Recorded(d)'
    BY <1>1, SameRequests
  <1>4. now \in Nat
    BY DEF Inv, TypeOK, Moment
  <1>5. Writes({}, FALSE)
    BY <1>1, <1>3, <1>4 DEF Writes
  <1>6. \A s \in Session : SessionOK(s)'
    BY <1>1, <1>4, <1>5, StillKeeps
  <1>7. TypeOK'
    BY <1>1, <1>2 DEF Inv, TypeOK
  <1>8. Clock' /\ Scheduled' /\ PeriodsAreGranted'
    BY <1>1, <1>2 DEF Inv, Clock, Scheduled, PeriodsAreGranted, Delinquent
  <1>9. OpenNeedsSchedule'
    BY <1>1, <1>3 DEF Inv, OpenNeedsSchedule
  <1> QED
    BY <1>3, <1>6, <1>7, <1>8, <1>9 DEF Inv

\* A contract that is cancelled, or whose payment failed, becomes no further overdue.
LEMMA ContractStep ==
  ASSUME Inv, NEW s \in Session, Finish(s, {TheContract}, FALSE),
         UNCHANGED <<now, retries, deletion, consent, overtaken>>,
         contract' \in [status : {"past_due", "terminated"}, failed : MomentOrNull],
         contract'.status = "past_due" =>
            contract.status \in {"active", "past_due"} /\ contract'.failed # None,
         since' = contract'.failed,
         contract'.failed # None => contract'.failed <= now
  PROVE  Inv'
  <1>1. OpenRequests' = OpenRequests /\ \A d \in Deletion : RowShape(deletion[d])' /\ Recorded(d)'
    BY SameRequests
  <1>2. now \in Nat /\ contract'.status \in {"past_due", "terminated"} /\ contract'.failed \in MomentOrNull
    BY DEF Inv, TypeOK, Moment
  <1>3. Writes({TheContract}, FALSE)
    BY <1>1, <1>2 DEF Writes
  <1>4. session' \in [Session -> SessionState] /\ \A t \in Session : SessionOK(t)'
    BY <1>2, <1>3, FinishKeeps
  <1>5. TypeOK'
    BY <1>2, <1>4 DEF Inv, TypeOK, Status, Delinquent
  <1>6. Clock' /\ Scheduled' /\ PeriodsAreGranted'
    BY <1>2 DEF Inv, Clock, Scheduled, PeriodsAreGranted, Delinquent
  <1>7. OpenNeedsSchedule'
    BY <1>1, <1>2 DEF Inv, OpenNeedsSchedule
  <1> QED
    BY <1>1, <1>4, <1>5, <1>6, <1>7 DEF Inv

\* Nothing is written but the session.
LEMMA IdleStep ==
  ASSUME Inv, NEW s \in Session, Finish(s, {}, FALSE), UNCHANGED Rows, session[s].op # "idle"
  PROVE  Inv'
  BY AbortStep DEF Abort, Rows

LEMMA WriteFailStep ==
  ASSUME Inv, NEW s \in Session, WriteFail(s)
  PROVE  Inv'
  <1> DEFINE q == session[s]
             changed == q.status = "active" \/ q.failed = None
  <1>1. q.op = "fail" /\ SessionOK(s) /\ q \in SessionState
        /\ UNCHANGED <<now, retries, deletion, consent, overtaken>>
    BY DEF WriteFail, Inv, TypeOK
  <1>2. CASE ~changed
    BY <1>1, <1>2, IdleStep DEF WriteFail, Rows
  <1>3. CASE changed
    <2>1. /\ ~q.stale /\ Finish(s, {TheContract}, FALSE)
          /\ contract' = [status |-> "past_due", failed |-> IF q.failed = None THEN q.at ELSE q.failed]
          /\ since' = IF since = None THEN q.at ELSE since
      BY <1>3 DEF WriteFail, Fresh
    <2>2. /\ q.status = contract.status /\ q.failed = contract.failed /\ q.at <= now
          /\ q.status \in {"active", "past_due"}
      BY <1>1, <2>1 DEF SessionOK, ContractCopy, HasContract
    <2>3. /\ q.at \in Moment /\ q.failed \in MomentOrNull /\ q.at # None
      BY <1>1 DEF SessionState, Moment
    <2>4. since = contract.failed /\ (contract.failed # None => contract.failed <= now)
      BY DEF Inv, Clock
    <2>5. /\ contract'.status = "past_due" /\ contract'.failed # None
          /\ contract'.failed \in MomentOrNull /\ contract'.failed <= now
          /\ since' = contract'.failed
          /\ contract' \in [status : {"past_due", "terminated"}, failed : MomentOrNull]
      BY <2>1, <2>2, <2>3, <2>4 DEF MomentOrNull
    <2> QED
      BY <1>1, <2>1, <2>2, <2>5, ContractStep
  <1> QED
    BY <1>2, <1>3

LEMMA WriteCancelStep ==
  ASSUME Inv, NEW s \in Session, WriteCancel(s)
  PROVE  Inv'
  <1>1. /\ contract' = [contract EXCEPT !.status = "terminated"]
        /\ Finish(s, {TheContract}, FALSE)
        /\ UNCHANGED <<now, retries, deletion, since, consent, overtaken>>
    BY DEF WriteCancel
  <1>2. /\ contract'.status = "terminated" /\ contract'.failed = contract.failed
        /\ contract' \in [status : {"past_due", "terminated"}, failed : MomentOrNull]
    BY <1>1 DEF Inv, TypeOK
  <1> QED
    BY <1>1, <1>2, ContractStep DEF Inv, Clock

\* The recovery cancels every open request but those of overtaken jobs.
LEMMA WriteRecoverStep ==
  ASSUME Inv, NEW s \in Session, WriteRecover(s)
  PROVE  Inv' /\ \A d \in Deletion : deletion[d].status = "cancelled" => deletion'[d] = deletion[d]
  <1> DEFINE rows == session[s].rows
  <1>1. /\ session[s].op = "recover" /\ session[s].searched /\ ~session[s].stale
        /\ contract' = [status |-> "active", failed |-> None]
        /\ deletion' = [d \in Deletion |-> IF d \in rows THEN [deletion[d] EXCEPT !.status = "cancelled"]
                                                         ELSE deletion[d]]
        /\ since' = None
        /\ Finish(s, rows, TRUE)
        /\ UNCHANGED <<now, retries, consent, overtaken>>
    BY DEF WriteRecover, Fresh, Recovered
  <1>2. OpenRequests \subseteq rows \cup overtaken /\ TheContract \in rows
    BY <1>1 DEF Inv, SessionOK, RecoverCopy, ContractCopy, HasContract
  <1>3. \A d \in Deletion : deletion[d] \in RequestRow /\ RowShape(deletion[d]) /\ Recorded(d)
    BY DEF Inv, TypeOK
  <1>4. ASSUME NEW d \in Deletion
        PROVE  /\ deletion'[d] \in RequestRow
               /\ deletion'[d].first = deletion[d].first /\ deletion'[d].second = deletion[d].second
               /\ d \in rows => deletion'[d].status = "cancelled"
               /\ d \notin rows => deletion'[d] = deletion[d]
               /\ deletion[d].status = "cancelled" => deletion'[d] = deletion[d]
    <2>1. CASE d \in rows
      <3>1. deletion'[d] = [deletion[d] EXCEPT !.status = "cancelled"]
        BY <1>1, <2>1
      <3> QED
        BY <1>3, <2>1, <3>1 DEF RequestRow, RequestStatus
    <2>2. CASE d \notin rows
      BY <1>1, <1>3, <2>2
    <2> QED
      BY <2>1, <2>2
  <1>5. \A d \in Deletion : RowShape(deletion[d])' /\ Recorded(d)'
    BY <1>1, <1>3, <1>4 DEF RowShape, Recorded
  <1>6. OpenRequests' \subseteq OpenRequests \cap overtaken'
    BY <1>1, <1>2, <1>4 DEF OpenRequests, Open
  <1>7. now \in Nat
    BY DEF Inv, TypeOK, Moment
  <1>8. Writes(rows, TRUE)
    BY <1>1, <1>2, <1>4, <1>6, <1>7 DEF Writes
  <1>9. session' \in [Session -> SessionState] /\ \A t \in Session : SessionOK(t)'
    BY <1>1, <1>7, <1>8, FinishKeeps
  <1>10. TypeOK'
    <2>1. deletion' \in [Deletion -> RequestRow]
      BY <1>1, <1>4
    <2> QED
      BY <1>1, <1>9, <2>1 DEF Inv, TypeOK, Status, MomentOrNull
  <1>11. Clock' /\ Scheduled' /\ PeriodsAreGranted'
    BY <1>1 DEF Clock, Scheduled, PeriodsAreGranted, Delinquent
  <1>12. OpenNeedsSchedule'
    BY <1>6 DEF OpenNeedsSchedule
  <1> QED
    BY <1>4, <1>5, <1>9, <1>10, <1>11, <1>12 DEF Inv

\* The approval of one administrator; the request is as it was loaded.
LEMMA WriteApproveStep ==
  ASSUME Inv, NEW s \in Session, NEW d \in Deletion, WriteApprove(s, d)
  PROVE  Inv' /\ \A e \in Deletion : deletion[e].status = "cancelled" => deletion'[e] = deletion[e]
  <1> DEFINE a == session[s].by
             row == deletion[d]
             new == IF session[s].found THEN [row EXCEPT !.status = "approved", !.second = a]
                    ELSE [row EXCEPT !.status = "pending_second_approval", !.first = a]
  <1>1. /\ session[s].op = "approve" /\ d \in session[s].rows /\ ~session[s].stale
        /\ deletion' = [deletion EXCEPT ![d] = new]
        /\ consent' = [consent EXCEPT ![d] = @ \cup {a}]
        /\ Finish(s, {d}, FALSE)
        /\ UNCHANGED <<now, contract, retries, since, overtaken>>
    BY DEF WriteApprove, Fresh
  <1>2. /\ a \in Admin /\ Entitled(a, row)
        /\ session[s].found = (row.status = "pending_second_approval")
    BY <1>1 DEF Inv, SessionOK, ApproveCopy
  <1>3. row \in RequestRow /\ RowShape(row) /\ consent[d] = {row.first, row.second} \ {None}
    BY DEF Inv, TypeOK, Recorded
  <1>4. /\ new \in RequestRow /\ RowShape(new)
        /\ new.status \in {"pending_second_approval", "approved"}
        /\ consent[d] \cup {a} = {new.first, new.second} \ {None}
    <2>1. CASE session[s].found
      <3>1. /\ new.status = "approved" /\ new.first = row.first /\ new.second = a
            /\ new \in RequestRow
        BY <1>2, <1>3, <2>1 DEF RequestRow, RequestStatus, Open
      <3>2. row.first \in Admin /\ row.second = None /\ row.first # a
        BY <1>2, <1>3, <2>1 DEF RowShape, Entitled
      <3> HIDE DEF new
      <3> QED
        BY <1>2, <1>3, <3>1, <3>2 DEF RowShape
    <2>2. CASE ~session[s].found
      <3>1. /\ new.status = "pending_second_approval" /\ new.first = a /\ new.second = row.second
            /\ new \in RequestRow
        BY <1>2, <1>3, <2>2 DEF RequestRow, RequestStatus, Open
      <3>2. row.first = None /\ row.second = None
        BY <1>2, <1>3, <2>2 DEF RowShape, Entitled
      <3> HIDE DEF new
      <3> QED
        BY <1>2, <1>3, <3>1, <3>2 DEF RowShape
    <2> QED
      BY <2>1, <2>2
  <1> HIDE DEF new
  <1>5. /\ deletion'[d] = new /\ \A e \in Deletion \ {d} : deletion'[e] = deletion[e]
        /\ consent'[d] = consent[d] \cup {a} /\ \A e \in Deletion \ {d} : consent'[e] = consent[e]
    BY <1>1 DEF Inv, TypeOK
  <1>6. \A e \in Deletion : RowShape(deletion[e])' /\ Recorded(e)'
    BY <1>4, <1>5 DEF Inv, RowShape, Recorded
  <1>7. OpenRequests' = OpenRequests
    BY <1>2, <1>4, <1>5 DEF OpenRequests, Open, Entitled
  <1>8. now \in Nat
    BY DEF Inv, TypeOK, Moment
  <1>9. Writes({d}, FALSE)
    BY <1>1, <1>5, <1>7, <1>8 DEF Writes
  <1>10. session' \in [Session -> SessionState] /\ \A t \in Session : SessionOK(t)'
    BY <1>1, <1>8, <1>9, FinishKeeps
  <1>11. deletion' \in [Deletion -> RequestRow] /\ consent' \in [Deletion -> SUBSET Admin]
    BY <1>1, <1>2, <1>4 DEF Inv, TypeOK
  <1>12. TypeOK'
    BY <1>1, <1>10, <1>11 DEF Inv, TypeOK
  <1>13. Clock' /\ Scheduled' /\ PeriodsAreGranted' /\ OpenNeedsSchedule'
    BY <1>1, <1>7 DEF Inv, Clock, Scheduled, PeriodsAreGranted, OpenNeedsSchedule
  <1>14. row.status # "cancelled"
    BY <1>2 DEF Entitled
  <1> QED
    BY <1>5, <1>6, <1>10, <1>12, <1>13, <1>14 DEF Inv

\* What an ageing job writes to the contract: only upwards, and only when the age is reached.
LEMMA Escalation ==
  ASSUME Inv, NEW s \in Session, session[s].op = "advance", Escalates(s), Fresh(s),
         contract' = [contract EXCEPT !.status = Aged(s)]
  PROVE  /\ contract' \in [status : Status, failed : MomentOrNull]
         /\ contract'.status = Aged(s) /\ contract'.status \in Delinquent
         /\ contract'.failed = contract.failed /\ contract.failed \in Nat
         /\ contract.status \notin {"deletion_scheduled", "terminated"}
         /\ contract'.status = "grace_period" => now - contract.failed >= Day30
         /\ contract'.status = "suspended" => now - contract.failed >= Day60
         /\ contract'.status = "deletion_scheduled" => now - contract.failed >= Day90
  <1>1. SessionOK(s) /\ ~session[s].stale /\ session[s] \in SessionState /\ now \in Nat
    BY DEF Inv, Fresh, TypeOK, Moment
  <1>2. /\ session[s].status = contract.status /\ session[s].failed = contract.failed
        /\ contract.status \in Delinquent /\ session[s].at <= now
        /\ session[s].failed # None
    BY <1>1 DEF SessionOK, ContractCopy, AdvanceCopy, HasContract
  <1>3. contract.failed \in Nat /\ session[s].at \in Nat
    BY <1>1, <1>2 DEF SessionState, MomentOrNull, Moment
  <1>4. /\ Aged(s) \in Delinquent
        /\ session[s].status = "deletion_scheduled" => Aged(s) = "deletion_scheduled"
        /\ Age(s) \in Int /\ Age(s) = session[s].at - session[s].failed
        /\ Aged(s) = Target(Age(s))
    BY <1>1, AgedFacts DEF Inv, Escalates
  <1>5. /\ Aged(s) = "grace_period" => Age(s) >= Day30
        /\ Aged(s) = "suspended" => Age(s) >= Day60
        /\ Aged(s) = "deletion_scheduled" => Age(s) >= Day90
    BY <1>4, TierFacts
  <1>6. /\ contract'.status = Aged(s) /\ contract'.failed = contract.failed
        /\ contract' \in [status : Status, failed : MomentOrNull]
    BY <1>4 DEF Inv, TypeOK, Status
  <1>7. contract.status \notin {"deletion_scheduled", "terminated"}
    BY <1>2, <1>4 DEF Escalates, Delinquent
  <1>8. now - contract.failed >= Age(s)
    BY <1>1, <1>2, <1>3, <1>4
  <1> QED
    BY <1>1, <1>3, <1>4, <1>5, <1>6, <1>7, <1>8

\* The request that an ageing job inserts, if any.
LEMMA Insertion ==
  ASSUME Inv, NEW s \in Session, InsertRequest(s), UNCHANGED consent
  PROVE  /\ deletion' \in [Deletion -> RequestRow]
         /\ overtaken' \subseteq Deletion /\ overtaken \subseteq overtaken'
         /\ \A d \in Deletion : RowShape(deletion[d])' /\ Recorded(d)'
         /\ \A d \in Deletion : deletion'[d] = deletion[d] \/ deletion[d].status = "none"
         /\ OpenRequests \subseteq OpenRequests'
         /\ Schedules(s) => OpenRequests' # {}
         /\ ~Schedules(s) => OpenRequests' = OpenRequests
         /\ session[s].behind => OpenRequests' \subseteq OpenRequests \cup overtaken'
  <1>1. CASE ~Schedules(s)
    <2>1. UNCHANGED <<deletion, overtaken>>
      BY <1>1 DEF InsertRequest
    <2>2. OpenRequests' = OpenRequests /\ \A d \in Deletion : RowShape(deletion[d])' /\ Recorded(d)'
      BY <2>1, SameRequests
    <2> QED
      BY <1>1, <2>1, <2>2 DEF Inv, TypeOK
  <1>2. CASE Schedules(s)
    <2>1. PICK d \in Deletion :
            /\ deletion[d].status = "none"
            /\ deletion' = [deletion EXCEPT ![d].status = "pending_first_approval"]
            /\ overtaken' = IF session[s].behind THEN overtaken \cup {d} ELSE overtaken
      BY <1>2 DEF InsertRequest
    <2>2. deletion[d] \in RequestRow /\ RowShape(deletion[d]) /\ Recorded(d)
      BY DEF Inv, TypeOK
    <2>3. /\ deletion'[d] = [deletion[d] EXCEPT !.status = "pending_first_approval"]
          /\ \A e \in Deletion \ {d} : deletion'[e] = deletion[e]
      BY <2>1 DEF Inv, TypeOK
    <2>4. /\ deletion'[d] \in RequestRow
          /\ deletion'[d].status = "pending_first_approval"
          /\ deletion'[d].first = deletion[d].first /\ deletion'[d].second = deletion[d].second
      BY <2>2, <2>3 DEF RequestRow, RequestStatus, Open
    <2>5. deletion' \in [Deletion -> RequestRow]
      BY <2>1, <2>3, <2>4 DEF Inv, TypeOK
    <2>6. \A e \in Deletion : RowShape(deletion[e])' /\ Recorded(e)'
      BY <2>1, <2>2, <2>3, <2>4 DEF Inv, RowShape, Recorded
    <2>7. OpenRequests' = OpenRequests \cup {d}
      BY <2>1, <2>3, <2>4 DEF OpenRequests, Open
    <2>8. overtaken' \subseteq Deletion
      BY <2>1 DEF Inv, TypeOK
    <2> QED
      BY <1>2, <2>1, <2>3, <2>5, <2>6, <2>7, <2>8
  <1> QED
    BY <1>1, <1>2

LEMMA WriteAdvanceStep ==
  ASSUME Inv, NEW s \in Session, WriteAdvance(s)
  PROVE  Inv' /\ \A d \in Deletion : deletion[d].status = "cancelled" => deletion'[d] = deletion[d]
  <1> DEFINE updated == IF Escalates(s) THEN {TheContract} ELSE {}
  <1>1. /\ session[s].op = "advance" /\ session[s].searched
        /\ Escalates(s) => Fresh(s) /\ contract' = [contract EXCEPT !.status = Aged(s)]
        /\ ~Escalates(s) => contract' = contract
        /\ InsertRequest(s)
        /\ Finish(s, updated, FALSE)
        /\ UNCHANGED <<now, since, consent>>
    BY DEF WriteAdvance
  <1>2. retries' \in 0..MaxRetry
    BY DEF WriteAdvance, Inv, TypeOK
  <1>3. SessionOK(s) /\ now \in Nat /\ contract \in [status : Status, failed : MomentOrNull]
    BY DEF Inv, TypeOK, Moment
  <1>4. /\ deletion' \in [Deletion -> RequestRow]
        /\ overtaken' \subseteq Deletion /\ overtaken \subseteq overtaken'
        /\ \A d \in Deletion : RowShape(deletion[d])' /\ Recorded(d)'
        /\ \A d \in Deletion : deletion'[d] = deletion[d] \/ deletion[d].status = "none"
        /\ OpenRequests \subseteq OpenRequests'
        /\ Schedules(s) => OpenRequests' # {}
        /\ ~Schedules(s) => OpenRequests' = OpenRequests
        /\ session[s].behind => OpenRequests' \subseteq OpenRequests \cup overtaken'
    BY <1>1, Insertion
  <1>5. ~Escalates(s) => OpenRequests' \subseteq OpenRequests \cup overtaken'
    <2>1. SUFFICES ASSUME ~Escalates(s), Schedules(s) PROVE session[s].behind
      BY <1>4
    <2>2. session[s].status = "deletion_scheduled" /\ ~session[s].found
      BY <2>1 DEF Escalates, Schedules
    <2> QED
      BY <1>1, <1>3, <2>2 DEF SessionOK, AdvanceCopy
  <1>6. Escalates(s) =>
          /\ contract' \in [status : Status, failed : MomentOrNull]
          /\ contract'.status = Aged(s) /\ contract'.status \in Delinquent
          /\ contract'.failed = contract.failed /\ contract.failed \in Nat
          /\ contract.status \notin {"deletion_scheduled", "terminated"}
          /\ contract'.status = "grace_period" => now - contract.failed >= Day30
          /\ contract'.status = "suspended" => now - contract.failed >= Day60
          /\ contract'.status = "deletion_scheduled" => now - contract.failed >= Day90
    BY <1>1, Escalation
  <1>7. Writes(updated, FALSE)
    BY <1>1, <1>3, <1>4, <1>5, <1>6 DEF Writes
  <1>8. session' \in [Session -> SessionState] /\ \A t \in Session : SessionOK(t)'
    BY <1>1, <1>3, <1>7, FinishKeeps
  <1>9. TypeOK'
    BY <1>1, <1>2, <1>3, <1>4, <1>6, <1>8 DEF Inv, TypeOK
  <1>10. Clock' /\ PeriodsAreGranted'
    BY <1>1, <1>6 DEF Inv, Clock, PeriodsAreGranted
  <1>11. Scheduled'
    <2> SUFFICES ASSUME contract'.status = "deletion_scheduled" PROVE OpenRequests' # {}
      BY DEF Scheduled
    <2>1. CASE ~Escalates(s)
      BY <1>1, <1>4, <2>1 DEF Inv, Scheduled
    <2>2. CASE Escalates(s) /\ ~session[s].found
      BY <1>4, <1>6, <2>2 DEF Schedules
    <2>3. CASE Escalates(s) /\ session[s].found
      BY <1>1, <1>3, <1>4, <1>6, <2>3 DEF SessionOK, AdvanceCopy, Fresh
    <2> QED
      BY <2>1, <2>2, <2>3
  <1>12. OpenNeedsSchedule'
    <2> SUFFICES ASSUME NEW d \in OpenRequests'
                 PROVE  \/ contract'.status \in {"deletion_scheduled", "terminated"}
                        \/ d \in overtaken'
      BY DEF OpenNeedsSchedule
    <2>1. d \in OpenRequests => \/ contract.status \in {"deletion_scheduled", "terminated"}
                                \/ d \in overtaken'
      BY <1>4 DEF Inv, OpenNeedsSchedule
    <2>2. CASE ~Escalates(s)
      BY <1>1, <1>5, <2>1, <2>2
    <2>3. CASE Escalates(s) /\ Schedules(s)
      BY <1>6, <2>3 DEF Schedules
    <2>4. CASE Escalates(s) /\ ~Schedules(s)
      BY <1>4, <1>6, <2>1, <2>4
    <2> QED
      BY <2>2, <2>3, <2>4
  <1>13. \A d \in Deletion : deletion[d].status = "cancelled" => deletion'[d] = deletion[d]
    BY <1>4
  <1> QED
    BY <1>4, <1>8, <1>9, <1>10, <1>11, <1>12, <1>13 DEF Inv

-----------------------------------------------------------------------------
(* Every step. *)

LEMMA NextStep ==
  ASSUME Inv, [Next]_vars
  PROVE  Inv' /\ \A d \in Deletion : deletion[d].status = "cancelled" => deletion'[d] = deletion[d]
  <1>1. CASE UNCHANGED vars
    <2>1. UNCHANGED Rows /\ UNCHANGED session /\ now \in Nat
      BY <1>1 DEF vars, Rows, Inv, TypeOK, Moment
    <2>2. OpenRequests' = OpenRequests /\ \A d \in Deletion : RowShape(deletion[d])' /\ Recorded(d)'
      BY <2>1, SameRequests DEF Rows
    <2>3. Writes({}, FALSE)
      BY <2>1, <2>2 DEF Writes, Rows
    <2>4. \A t \in Session : SessionOK(t)'
      BY <2>1, <2>3, StillKeeps DEF Rows
    <2>5. TypeOK' /\ Clock' /\ PeriodsAreGranted' /\ Scheduled' /\ OpenNeedsSchedule'
      BY <2>1, <2>2 DEF Inv, TypeOK, Rows, Clock, PeriodsAreGranted, Scheduled, OpenNeedsSchedule
    <2> QED
      BY <2>1, <2>2, <2>4, <2>5 DEF Inv, Rows
  <1>2. CASE Tick
    BY <1>2, TickStep DEF Tick
  <1>3. CASE Create
    BY <1>3, CreateStep DEF Create
  <1>4. ASSUME NEW s \in Session,
               BeginFail(s) \/ BeginAdvance(s) \/ BeginRecover(s) \/ BeginCancel(s)
        PROVE  Inv' /\ UNCHANGED deletion
    BY <1>4, BeginStep
  <1>5. ASSUME NEW s \in Session, Search(s) \/ SearchRequests(s) \/ Abort(s)
        PROVE  Inv' /\ UNCHANGED deletion
    BY <1>5, SearchStep, SearchRequestsStep, AbortStep DEF Search, SearchRequests, Abort
  <1>6. ASSUME NEW s \in Session, WriteFail(s) \/ WriteCancel(s)
        PROVE  Inv' /\ UNCHANGED deletion
    BY <1>6, WriteFailStep, WriteCancelStep DEF WriteFail, WriteCancel
  <1>7. ASSUME NEW s \in Session, WriteAdvance(s) \/ WriteRecover(s)
        PROVE  Inv' /\ \A d \in Deletion : deletion[d].status = "cancelled" => deletion'[d] = deletion[d]
    BY <1>7, WriteAdvanceStep, WriteRecoverStep
  <1>8. ASSUME NEW s \in Session, NEW d \in Deletion, NEW a \in Admin, BeginApprove(s, d, a)
        PROVE  Inv' /\ UNCHANGED deletion
    BY <1>8, BeginApproveStep DEF BeginApprove
  <1>9. ASSUME NEW s \in Session, NEW d \in Deletion, WriteApprove(s, d)
        PROVE  Inv' /\ \A e \in Deletion : deletion[e].status = "cancelled" => deletion'[e] = deletion[e]
    BY <1>9, WriteApproveStep
  <1> QED
    BY <1>1, <1>2, <1>3, <1>4, <1>5, <1>6, <1>7, <1>8, <1>9 DEF Next

-----------------------------------------------------------------------------
(* Theorems. *)

\* Copies agree with rows or are stale, and the rows with each other and with time.
THEOREM MaintenanceInvariant == Spec => []Inv
  <1>1. Inv /\ [Next]_vars => Inv'
    BY NextStep
  <1> QED
    BY <1>1, InitInv, PTL DEF Spec

\* Rows, sessions and history keep their types.
THEOREM MaintenanceTypes == Spec => []TypeOK
  <1>1. Inv => TypeOK
    BY DEF Inv
  <1> QED
    BY <1>1, MaintenanceInvariant, PTL

\* advance_maintenance_delinquency: no tier is reached before its age, counted from the
\* first failure since the last recovery.
THEOREM PeriodsGranted == Spec => []PeriodsAreGranted
  <1>1. Inv => PeriodsAreGranted
    BY DEF Inv
  <1> QED
    BY <1>1, MaintenanceInvariant, PTL

\* recover_maintenance_payment: it leaves no request open but those of jobs it overtook.
THEOREM OpenOnSchedule == Spec => []OpenNeedsSchedule
  <1>1. Inv => OpenNeedsSchedule
    BY DEF Inv
  <1> QED
    BY <1>1, MaintenanceInvariant, PTL

\* approve_deletion_request: each approval is recorded, and two people have approved what
\* is approved.
THEOREM ApprovalsKept == Spec => []ApprovalsAreKept
  <1>1. Inv => ApprovalsAreKept
    <2> SUFFICES ASSUME Inv, NEW d \in Deletion
                 PROVE  /\ consent[d] = {deletion[d].first, deletion[d].second} \ {None}
                        /\ deletion[d].status = "approved" => \E a, b \in consent[d] : a # b
      BY DEF ApprovalsAreKept
    <2>1. RowShape(deletion[d]) /\ consent[d] = {deletion[d].first, deletion[d].second} \ {None}
      BY DEF Inv, Recorded
    <2>2. ASSUME deletion[d].status = "approved" PROVE \E a, b \in consent[d] : a # b
      <3>1. /\ deletion[d].first \in consent[d] /\ deletion[d].second \in consent[d]
            /\ deletion[d].first # deletion[d].second
        BY <2>1, <2>2 DEF RowShape
      <3> QED
        BY <3>1
    <2> QED
      BY <2>1, <2>2
  <1> QED
    BY <1>1, MaintenanceInvariant, PTL

\* approve_deletion_request and recover_maintenance_payment: an approval under way does
\* not revive a cancelled request.
THEOREM CancelledStays == Spec => CancelledIsFinal
  <1>1. Inv /\ [Next]_vars
          => [\A d \in Deletion : deletion[d].status = "cancelled" => deletion'[d] = deletion[d]]_vars
    BY NextStep
  <1> QED
    BY <1>1, MaintenanceInvariant, PTL DEF Spec, CancelledIsFinal
=============================================================================
