------------------------------ MODULE Purchase ------------------------------
(***************************************************************************)
(* What ordering a system promises, without requests, webhooks, the        *)
(* provider's memory or row versions.  A party accepts only what was       *)
(* agreed, once; a charge is made only for what both have accepted, and    *)
(* keeps its contract; nothing agreed, accepted, charged or paid is ever   *)
(* taken back; and the project goes on to its requirements in the very     *)
(* step of its first payment.                                              *)
(***************************************************************************)
CONSTANTS
    Contract,
    Key,        \* charges
    Party,
    None        \* no contract

VARIABLES
    agreed,     \* contracts whose estimate the customer has approved
    accepted,   \* the parties that have accepted each contract
    charged,    \* the contract of each charge
    paid,       \* the charges that have been paid
    phase       \* the project: "hearing", "estimate" or "requirements"

vars == <<agreed, accepted, charged, paid, phase>>

TypeOK ==
    /\ agreed \subseteq Contract
    /\ accepted \in [Contract -> SUBSET Party]
    /\ charged \in [Key -> Contract \cup {None}]
    /\ paid \subseteq Key
    /\ phase \in {"hearing", "estimate", "requirements"}

Init ==
    /\ agreed = {}
    /\ accepted = [c \in Contract |-> {}]
    /\ charged = [k \in Key |-> None]
    /\ paid = {}
    /\ phase = "hearing"

Agree(c) ==
    /\ c \notin agreed
    /\ agreed' = agreed \cup {c}
    /\ UNCHANGED <<accepted, charged, paid, phase>>

Accept(c, party) ==
    /\ c \in agreed
    /\ party \notin accepted[c]
    /\ accepted' = [accepted EXCEPT ![c] = @ \cup {party}]
    /\ UNCHANGED <<agreed, charged, paid, phase>>

Charge(k, c) ==
    /\ charged[k] = None
    /\ accepted[c] = Party
    /\ charged' = [charged EXCEPT ![k] = c]
    /\ UNCHANGED <<agreed, accepted, paid, phase>>

Pay(k) ==
    /\ charged[k] # None
    /\ k \notin paid
    /\ paid' = paid \cup {k}
    /\ phase' = "requirements"
    /\ UNCHANGED <<agreed, accepted, charged>>

StartEstimate ==
    /\ phase = "hearing"
    /\ phase' = "estimate"
    /\ UNCHANGED <<agreed, accepted, charged, paid>>

Next ==
    \/ StartEstimate
    \/ \E c \in Contract : Agree(c) \/ \E party \in Party : Accept(c, party)
    \/ \E k \in Key : Pay(k) \/ \E c \in Contract : Charge(k, c)

Spec == Init /\ [][Next]_vars
=============================================================================
