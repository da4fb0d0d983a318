----------------------------- MODULE VersionLog -----------------------------
(***************************************************************************)
(* What executing jobs promises for the versions of an artifact, without   *)
(* workers, transactions or files.  The versions are a log to which people *)
(* and jobs append.  A job appends once, however often it is executed, the *)
(* entry and the content it shows never change, and what is appended is    *)
(* the current version.  A job that has appended may make its own version  *)
(* the current one again, unless it is a workflow that has settled, which  *)
(* it does by appending.                                                   *)
(***************************************************************************)
EXTENDS Naturals, Sequences

CONSTANTS
    Job,
    Person,     \* author of the entries that no job has made
    Content,    \* what a job's version may contain
    None        \* the content of a person's version, left out

VARIABLES
    log,        \* the versions: author and content
    current,    \* index of the current version
    settled     \* the workflows that are completed or escalated

vars == <<log, current, settled>>

Entry(author, content) == [author |-> author, content |-> content]

Appended(j) == \E n \in 1..Len(log) : log[n].author = j

TypeOK ==
    /\ log \in Seq([author : Job \cup {Person}, content : Content \cup {None}])
    /\ current \in 1..Len(log)
    /\ settled \subseteq Job

Init ==
    /\ log = <<Entry(Person, None)>>
    /\ current = 1
    /\ settled = {}

AppendEntry(author, contents) ==
    /\ current' = Len(log) + 1
    /\ \E content \in contents : log' = Append(log, Entry(author, content))

PersonAppends ==
    /\ AppendEntry(Person, {None})
    /\ UNCHANGED settled

JobAppends(j) ==
    /\ AppendEntry(j, Content)
    /\ ~Appended(j)
    /\ settled' \in {settled, settled \cup {j}}

Revisit(j) ==
    /\ j \notin settled
    /\ \E n \in 1..Len(log) : current' = n /\ log[n].author = j
    /\ UNCHANGED <<log, settled>>

Next == PersonAppends \/ \E j \in Job : JobAppends(j) \/ Revisit(j)

Spec == Init /\ [][Next]_vars
=============================================================================
