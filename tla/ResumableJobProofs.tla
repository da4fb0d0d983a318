--------------------------- MODULE ResumableJobProofs ---------------------------
(***************************************************************************)
(* Proofs about ResumableJob for all sets of jobs, workers and answers and *)
(* every bound on the versions.                                            *)
(*                                                                         *)
(* A job's file is written by one execution at a time, the one that holds  *)
(* the ledger, and by none once the job's version is committed.  A version *)
(* number that is still free is the next one, because the numbers in the   *)
(* snapshots run ahead of the versions by one at most.                     *)
(***************************************************************************)
EXTENDS ResumableJob, Sequences, TLAPS

USE JobAssumption, BoundAssumption, NoneAssumption

-----------------------------------------------------------------------------
(* The invariant. *)

RunRecord ==
    [pc : {"idle", "loaded", "reserved", "content", "meta", "finish", "replay"},
     job : Job \cup {None}, art : ArtifactRow, answer : Content \cup {None},
     staleArtifact : BOOLEAN, staleJob : BOOLEAN, decided : BOOLEAN]

\* From the insert of the ledger's first row to the commit.
Working == {"reserved", "content", "meta", "finish"}

MadeJobs == {j \in Job : Made(j)}

\* The versions are numbered without gaps.
Filled(c) ==
    /\ c \in 0..MaxVersion
    /\ \A k \in Number : version[k] # None <=> k <= c

\* A job's version has the number of its snapshot.
Targets == \A n \in Number : version[n] \in Job => snapshot[version[n]].number = n

Numbered ==
    /\ Targets
    /\ \E c \in 0..MaxVersion :
         /\ Filled(c)
         /\ artifact.current <= c
         /\ \A j \in Job : snapshot[j].number <= c + 1

\* What execution q knows of the jobs made, the files and the snapshots.
RunOK(q, made, files, snaps) ==
    /\ q.decided => q.staleArtifact
    /\ q.pc # "idle" => q.job \in Job /\ snaps[q.job].number # 0
    /\ q.pc \in Working => q.job \notin made
    /\ q.pc = "replay" => q.job \in made
    /\ q.pc \in {"content", "meta", "finish"} => q.answer \in Content
    /\ q.pc \in {"content", "meta"} => files[q.job].meta = None
    /\ q.pc \in {"meta", "finish"} => files[q.job].content = q.answer
    /\ q.pc = "finish" => files[q.job].meta = q.answer

\* One execution of a job at a time is past the insert into its ledger.
Exclusive ==
    \A w, x \in Worker :
        w # x /\ run[w].pc \in Working /\ run[x].pc \in Working => run[w].job # run[x].job

FilesAgree == \A j \in Job : file[j].meta # None => file[j].content = file[j].meta

MadeComplete ==
    \A j \in MadeJobs : hash[j] # None /\ file[j].content = hash[j] /\ file[j].meta = hash[j]

ResumeInv ==
    /\ TypeOK
    /\ Numbered
    /\ \A w \in Worker : RunOK(run[w], MadeJobs, file, snapshot)
    /\ Exclusive
    /\ FilesAgree
    /\ MadeComplete

-----------------------------------------------------------------------------
LEMMA Bounds == MaxVersion \in Nat /\ MaxVersion > 0 /\ 1 \in Number
  BY DEF Number

LEMMA IdleOK ==
  /\ Idle \in RunRecord
  /\ \A made, files, snaps : RunOK(Idle, made, files, snaps)
  /\ Idle.pc = "idle"
  BY Bounds DEF Idle, RunRecord, RunOK, Working, ArtifactRow, ArtifactStatus

LEMMA CountIs ==
  ASSUME NEW c \in 0..MaxVersion, Filled(c)
  PROVE  Count = c
  <1> DEFINE Last(n) == /\ n > 0 => version[n] # None
                        /\ \A k \in Number : k > n => version[k] = None
  <1>1. Last(c)
    BY Bounds DEF Filled, Number
  <1>2. \A n \in 0..MaxVersion : Last(n) => n = c
    <2> SUFFICES ASSUME NEW n \in 0..MaxVersion, Last(n), n # c PROVE FALSE
      OBVIOUS
    <2>1. CASE n > c
      <3>1. n \in Number
        BY <2>1, Bounds DEF Number
      <3> QED
        BY <2>1, <3>1, Bounds DEF Filled
    <2>2. CASE n < c
      <3>1. c \in Number
        BY <2>2, Bounds DEF Number
      <3> QED
        BY <2>2, <3>1, Bounds DEF Filled
    <2> QED
      BY <2>1, <2>2, Bounds
  <1>3. Count = CHOOSE n \in 0..MaxVersion : Last(n)
    BY DEF Count
  <1> HIDE DEF Last
  <1> QED
    BY <1>1, <1>2, <1>3

LEMMA InitInv == Init => ResumeInv
  <1> SUFFICES ASSUME Init PROVE ResumeInv
    OBVIOUS
  <1>1. TypeOK
    BY IdleOK, Bounds
       DEF Init, TypeOK, RunRecord, ArtifactRow, ArtifactStatus
  <1>2. Numbered
    <2>1. 1 \in 0..MaxVersion /\ Filled(1)
      BY Bounds DEF Init, Filled, Number
    <2> QED
      BY <2>1, Bounds DEF Init, Numbered, Targets, Number
  <1>3. MadeJobs = {}
    BY DEF Init, MadeJobs, Made
  <1>4. \A w \in Worker : RunOK(run[w], MadeJobs, file, snapshot)
    BY IdleOK DEF Init
  <1>5. Exclusive
    BY IdleOK DEF Init, Exclusive, Working
  <1>6. FilesAgree /\ MadeComplete
    BY <1>3 DEF Init, FilesAgree, MadeComplete
  <1> QED
    BY <1>1, <1>2, <1>4, <1>5, <1>6 DEF ResumeInv

-----------------------------------------------------------------------------
(* The properties follow from the invariant. *)

LEMMA InvMatches == ResumeInv => VersionMatchesFile
  <1> SUFFICES ASSUME ResumeInv, NEW j \in Job, Made(j)
               PROVE  hash[j] # None /\ file[j] = [content |-> hash[j], meta |-> hash[j]]
    BY DEF VersionMatchesFile
  <1>1. j \in MadeJobs
    BY DEF MadeJobs
  <1> QED
    BY <1>1 DEF ResumeInv, MadeComplete, TypeOK

-----------------------------------------------------------------------------
(* Runs that a step leaves as they were, but perhaps stale. *)

SameRun(p, q) ==
    p.pc = q.pc /\ p.job = q.job /\ p.answer = q.answer /\ (p.decided => p.staleArtifact)

LEMMA RunKept ==
  ASSUME NEW p, NEW q, NEW made, NEW made2, NEW files, NEW files2, NEW snaps, NEW snaps2,
         SameRun(p, q), RunOK(q, made, files, snaps),
         q.pc # "idle" /\ snaps[q.job].number # 0 => snaps2[q.job].number # 0,
         q.pc \in Working /\ q.job \notin made => q.job \notin made2,
         made \subseteq made2,
         q.pc \in Working => files2[q.job] = files[q.job]
  PROVE  RunOK(p, made2, files2, snaps2)
  BY DEF SameRun, RunOK, Working

\* A step that writes no file, makes no version of a job, and takes back no snapshot.
LEMMA QuietStep ==
  ASSUME ResumeInv, TypeOK', Numbered', UNCHANGED <<file, hash>>, MadeJobs' = MadeJobs,
         \A j \in Job : snapshot[j].number # 0 => snapshot'[j].number # 0,
         \A w \in Worker : RunOK(run'[w], MadeJobs, file, snapshot),
         Exclusive'
  PROVE  ResumeInv'
  <1>1. \A w \in Worker : RunOK(run'[w], MadeJobs, file, snapshot')
    BY DEF RunOK
  <1>2. FilesAgree' /\ MadeComplete'
    BY DEF ResumeInv, FilesAgree, MadeComplete
  <1> QED
    BY <1>1, <1>2 DEF ResumeInv

\* All runs stay as they were, but perhaps stale.
LEMMA StaleStep ==
  ASSUME ResumeInv, TypeOK', Numbered', UNCHANGED <<file, hash>>, MadeJobs' = MadeJobs,
         \A j \in Job : snapshot[j].number # 0 => snapshot'[j].number # 0,
         \A w \in Worker : SameRun(run'[w], run[w])
  PROVE  ResumeInv'
  <1>1. \A w \in Worker : RunOK(run'[w], MadeJobs, file, snapshot)
    BY DEF ResumeInv, RunOK, SameRun
  <1>2. Exclusive'
    BY DEF ResumeInv, Exclusive, SameRun
  <1> QED
    BY <1>1, <1>2, QuietStep

\* Only run w moves; nothing else changes.
LEMMA RunStep ==
  ASSUME ResumeInv, NEW w \in Worker, NEW q \in RunRecord, run' = [run EXCEPT ![w] = q],
         UNCHANGED <<artifact, version, hash, file, job, snapshot, review>>,
         RunOK(q, MadeJobs, file, snapshot),
         q.pc \in Working => \A x \in Worker \ {w} :
             run[x].pc \in Working => run[x].job # q.job
  PROVE  ResumeInv'
  <1>1. run \in [Worker -> RunRecord]
    BY DEF ResumeInv, TypeOK, RunRecord
  <1>2. /\ run' \in [Worker -> RunRecord] /\ run'[w] = q
        /\ \A x \in Worker \ {w} : run'[x] = run[x]
    BY <1>1
  <1>3. TypeOK'
    BY <1>2 DEF ResumeInv, TypeOK, RunRecord
  <1>4. Numbered' /\ MadeJobs' = MadeJobs
    BY DEF ResumeInv, Numbered, Targets, Filled, MadeJobs, Made
  <1>5. \A x \in Worker : RunOK(run'[x], MadeJobs, file, snapshot)
    BY <1>2 DEF ResumeInv
  <1>6. Exclusive'
    BY <1>2 DEF ResumeInv, Exclusive
  <1> QED
    BY <1>3, <1>4, <1>5, <1>6, QuietStep

-----------------------------------------------------------------------------
(* People, snapshots and executions without one. *)

LEMMA WrittenOK ==
  ASSUME ResumeInv, NEW decision \in BOOLEAN, ArtifactWritten(decision)
  PROVE  run' \in [Worker -> RunRecord] /\ \A w \in Worker : SameRun(run'[w], run[w])
  <1>1. run \in [Worker -> RunRecord]
    BY DEF ResumeInv, TypeOK, RunRecord
  <1>2. \A w \in Worker : run[w].decided => run[w].staleArtifact
    BY DEF ResumeInv, RunOK
  <1> DEFINE next(w) == IF run[w].pc = "idle" THEN run[w]
                        ELSE [run[w] EXCEPT !.staleArtifact = TRUE, !.decided = @ \/ decision]
  <1>3. \A w \in Worker : next(w) \in RunRecord /\ SameRun(next(w), run[w])
    <2> TAKE w \in Worker
    <2>1. run[w] \in RunRecord
      BY <1>1
    <2>2. CASE run[w].pc = "idle"
      BY <2>1, <2>2, <1>2 DEF SameRun
    <2>3. CASE run[w].pc # "idle"
      <3> DEFINE d == run[w].decided \/ decision
      <3>1. d \in BOOLEAN
        OBVIOUS
      <3>2. next(w) = [run[w] EXCEPT !.staleArtifact = TRUE, !.decided = d]
        BY <2>1, <2>3 DEF RunRecord
      <3> HIDE DEF d, next
      <3> QED
        BY <2>1, <3>1, <3>2 DEF RunRecord, SameRun
    <2> QED
      BY <2>2, <2>3
  <1>4. run' = [w \in Worker |-> next(w)]
    BY DEF ArtifactWritten
  <1> HIDE DEF next
  <1> QED
    BY <1>3, <1>4

LEMMA AddVersionStep ==
  ASSUME ResumeInv, AddVersion
  PROVE  ResumeInv' /\ artifact'.current > artifact.current
  <1>1. PICK c \in 0..MaxVersion :
          /\ Filled(c) /\ artifact.current <= c
          /\ \A j \in Job : snapshot[j].number <= c + 1
    BY DEF ResumeInv, Numbered
  <1>2. Count = c
    BY <1>1, CountIs
  <1>3. /\ c < MaxVersion /\ c + 1 \in Number
        /\ version' = [version EXCEPT ![c + 1] = Person]
        /\ artifact' = [artifact EXCEPT !.current = c + 1]
        /\ UNCHANGED <<hash, file, job, snapshot, review>>
    BY <1>1, <1>2, Bounds DEF AddVersion, Number
  <1>4. run' \in [Worker -> RunRecord] /\ \A w \in Worker : SameRun(run'[w], run[w])
    BY WrittenOK DEF AddVersion
  <1>5. artifact \in ArtifactRow /\ artifact' \in ArtifactRow /\ artifact'.current = c + 1
    BY <1>1, <1>3, Bounds DEF ResumeInv, TypeOK, ArtifactRow
  <1>6. /\ version' \in [Number -> Job \cup {Person, None}] /\ version'[c + 1] = Person
        /\ \A k \in Number \ {c + 1} : version'[k] = version[k]
        /\ version[c + 1] = None
    BY <1>1, <1>3, Bounds DEF ResumeInv, TypeOK, Filled
  <1>7. TypeOK'
    BY <1>3, <1>4, <1>5, <1>6 DEF ResumeInv, TypeOK, RunRecord
  <1>8. Numbered'
    <2>1. c + 1 \in 0..MaxVersion
      BY <1>1, <1>3, Bounds
    <2>2. \A k \in Number : version'[k] # None <=> k <= c + 1
      <3> TAKE k \in Number
      <3>1. k \in Int /\ c \in Int
        BY <1>1, Bounds DEF Number
      <3> QED
        BY <1>1, <1>6, <3>1 DEF Filled
    <2>3. \A j \in Job : snapshot'[j].number <= c + 1 + 1
      BY <1>1, <1>3, Bounds DEF ResumeInv, TypeOK
    <2> QED
      BY <1>3, <1>5, <1>6, <2>1, <2>2, <2>3 DEF ResumeInv, Numbered, Targets, Filled
  <1>9. MadeJobs' = MadeJobs
    <2>1. \A j \in Job : (\E n \in Number : version'[n] = j) <=> \E n \in Number : version[n] = j
      BY <1>3, <1>6
    <2> QED
      BY <2>1 DEF MadeJobs, Made
  <1>10. ResumeInv'
    BY <1>3, <1>4, <1>7, <1>8, <1>9, StaleStep
  <1> QED
    BY <1>1, <1>5, <1>10 DEF ArtifactRow

LEMMA StatusStep ==
  ASSUME ResumeInv, NEW s \in ArtifactStatus, artifact' = [artifact EXCEPT !.status = s],
         NEW decision \in BOOLEAN, ArtifactWritten(decision),
         UNCHANGED <<version, hash, file, job, snapshot, review>>
  PROVE  ResumeInv' /\ artifact'.current = artifact.current
  <1>1. run' \in [Worker -> RunRecord] /\ \A w \in Worker : SameRun(run'[w], run[w])
    BY WrittenOK
  <1>2. artifact \in ArtifactRow /\ artifact' \in ArtifactRow
        /\ artifact'.current = artifact.current
    BY DEF ResumeInv, TypeOK, ArtifactRow
  <1>3. TypeOK'
    BY <1>1, <1>2 DEF ResumeInv, TypeOK, RunRecord
  <1>4. Numbered' /\ MadeJobs' = MadeJobs
    BY <1>2 DEF ResumeInv, Numbered, Targets, Filled, MadeJobs, Made
  <1> QED
    BY <1>1, <1>2, <1>3, <1>4, StaleStep

LEMMA PeopleStep ==
  ASSUME ResumeInv, ToHumanReview \/ \E decision \in {"approved", "revision_requested"} : Decide(decision)
  PROVE  ResumeInv' /\ artifact'.current = artifact.current
  BY StatusStep DEF ToHumanReview, Decide, ArtifactStatus

LEMMA SnapshotStep ==
  ASSUME ResumeInv, NEW j \in Job, NEW last \in BOOLEAN, TakeSnapshot(j, last)
  PROVE  ResumeInv'
  <1>1. PICK c \in 0..MaxVersion :
          /\ Filled(c) /\ artifact.current <= c
          /\ \A i \in Job : snapshot[i].number <= c + 1
    BY DEF ResumeInv, Numbered
  <1>2. Count = c
    BY <1>1, CountIs
  <1> DEFINE taken == [number |-> c + 1, last |-> last]
  <1>3. /\ snapshot' = [snapshot EXCEPT ![j] = taken]
        /\ c + 1 \in 0..MaxVersion
        /\ UNCHANGED <<artifact, version, hash, file, job, review, run>>
    BY <1>1, <1>2, Bounds DEF TakeSnapshot
  <1>4. taken \in [number : 0..MaxVersion, last : BOOLEAN] /\ taken.number = c + 1
    BY <1>3
  <1> HIDE DEF taken
  <1>5. /\ snapshot' \in [Job -> [number : 0..MaxVersion, last : BOOLEAN]]
        /\ snapshot'[j].number = c + 1
        /\ \A i \in Job \ {j} : snapshot'[i] = snapshot[i]
    BY <1>3, <1>4 DEF ResumeInv, TypeOK
  <1>6. TypeOK'
    BY <1>3, <1>5 DEF ResumeInv, TypeOK
  <1>7. Numbered' /\ MadeJobs' = MadeJobs
    <2>1. snapshot[j].number = 0
      BY DEF TakeSnapshot
    <2>2. Targets'
      BY <1>3, <1>5, <2>1, Bounds DEF ResumeInv, Numbered, Targets, Number
    <2>3. MadeJobs' = MadeJobs
      BY <1>3 DEF MadeJobs, Made
    <2> QED
      BY <1>1, <1>3, <1>5, <2>2, <2>3, Bounds DEF Numbered, Filled
  <1>8. \A w \in Worker : SameRun(run'[w], run[w])
    BY <1>3 DEF ResumeInv, RunOK, SameRun
  <1>9. \A i \in Job : snapshot[i].number # 0 => snapshot'[i].number # 0
    BY <1>1, <1>5, Bounds
  <1> QED
    BY <1>3, <1>6, <1>7, <1>8, <1>9, StaleStep

LEMMA BlockStep ==
  ASSUME ResumeInv, NEW j \in Job, Block(j)
  PROVE  ResumeInv'
  <1>1. TypeOK'
    BY DEF Block, ResumeInv, TypeOK
  <1>2. Numbered' /\ MadeJobs' = MadeJobs
    BY DEF Block, ResumeInv, Numbered, Targets, Filled, MadeJobs, Made
  <1>3. \A w \in Worker : SameRun(run'[w], run[w])
    BY DEF Block, ResumeInv, RunOK, SameRun
  <1> QED
    BY <1>1, <1>2, <1>3, StaleStep DEF Block

-----------------------------------------------------------------------------
(* One execution. *)

LEMMA RunTypes ==
  ASSUME ResumeInv, NEW w \in Worker
  PROVE  /\ run[w] \in RunRecord
         /\ RunOK(run[w], MadeJobs, file, snapshot)
         /\ run[w].pc # "idle" => run[w].job \in Job /\ file[run[w].job] \in
              [content : Content \cup {None}, meta : Content \cup {None}]
  BY DEF ResumeInv, TypeOK, RunRecord, RunOK

LEMMA AbortStep ==
  ASSUME ResumeInv, NEW w \in Worker, Abort(w)
  PROVE  ResumeInv'
  BY IdleOK, RunStep DEF Abort, Working

LEMMA BeginStep ==
  ASSUME ResumeInv, NEW w \in Worker, NEW j \in Job, Begin(w, j)
  PROVE  ResumeInv'
  <1> DEFINE q == [Idle EXCEPT !.pc = "loaded", !.job = j, !.art = artifact]
  <1>1. /\ run' = [run EXCEPT ![w] = q] /\ snapshot[j].number # 0
        /\ UNCHANGED <<artifact, version, hash, file, job, snapshot, review>>
    BY DEF Begin
  <1>2. q \in RunRecord /\ q.pc = "loaded" /\ q.job = j /\ q.decided = FALSE
    BY DEF Idle, RunRecord, ResumeInv, TypeOK
  <1> HIDE DEF q
  <1>3. RunOK(q, MadeJobs, file, snapshot)
    BY <1>1, <1>2 DEF RunOK, Working
  <1> QED
    BY <1>1, <1>2, <1>3, RunStep DEF Working

LEMMA ReserveStep ==
  ASSUME ResumeInv, NEW w \in Worker, Reserve(w)
  PROVE  ResumeInv'
  <1> DEFINE j == run[w].job
             pc == IF Made(j) THEN "replay" ELSE "reserved"
             q == [run[w] EXCEPT !.pc = pc]
  <1>1. /\ run[w].pc = "loaded" /\ (Made(j) \/ LedgerFree(w))
        /\ UNCHANGED <<artifact, version, hash, file, job, snapshot, review>>
    BY DEF Reserve
  <1>2. run[w] \in RunRecord /\ RunOK(run[w], MadeJobs, file, snapshot) /\ j \in Job
    BY <1>1, RunTypes
  <1>3. run' = [run EXCEPT ![w] = q]
    BY <1>2 DEF Reserve, ResumeInv, TypeOK, RunRecord
  <1>4. pc \in {"replay", "reserved"} /\ (pc = "replay" <=> j \in MadeJobs)
    BY <1>2 DEF MadeJobs
  <1>5. pc = "reserved" => \A x \in Worker \ {w} : run[x].pc \in Working => run[x].job # j
    BY <1>1 DEF LedgerFree, Working
  <1> HIDE DEF pc
  <1>6. /\ q \in RunRecord /\ q.pc = pc /\ q.job = j
        /\ q.decided = run[w].decided /\ q.staleArtifact = run[w].staleArtifact
    BY <1>2, <1>4 DEF RunRecord
  <1> HIDE DEF q
  <1>7. RunOK(q, MadeJobs, file, snapshot)
    BY <1>1, <1>2, <1>4, <1>6 DEF RunOK, Working
  <1> QED
    BY <1>1, <1>3, <1>4, <1>5, <1>6, <1>7, RunStep DEF Working

LEMMA ProduceStep ==
  ASSUME ResumeInv, NEW w \in Worker, NEW a \in Content, Produce(w, a)
  PROVE  ResumeInv'
  <1> DEFINE j == run[w].job
             pc == IF Stored(j) THEN "finish" ELSE "content"
             q == [run[w] EXCEPT !.answer = a, !.pc = pc]
  <1>1. /\ run[w].pc = "reserved" /\ (Stored(j) => file[j].meta = a)
        /\ UNCHANGED <<artifact, version, hash, file, job, snapshot, review>>
    BY DEF Produce, Reusable
  <1>2. run[w] \in RunRecord /\ RunOK(run[w], MadeJobs, file, snapshot) /\ j \in Job
    BY <1>1, RunTypes
  <1>3. run' = [run EXCEPT ![w] = q]
    BY <1>2 DEF Produce, ResumeInv, TypeOK, RunRecord
  <1>4. a # None
    BY DEF Content
  <1>5. /\ pc \in {"content", "finish"}
        /\ pc = "finish" => file[j].meta = a /\ file[j].content = a
        /\ pc = "content" => file[j].meta = None
    BY <1>1, <1>2, <1>4 DEF Stored, ResumeInv, FilesAgree, TypeOK
  <1> HIDE DEF pc
  <1>6. /\ q \in RunRecord /\ q.pc = pc /\ q.job = j /\ q.answer = a
        /\ q.decided = run[w].decided /\ q.staleArtifact = run[w].staleArtifact
    BY <1>2, <1>5 DEF RunRecord
  <1>7. \A x \in Worker \ {w} : run[x].pc \in Working => run[x].job # j
    BY <1>1 DEF ResumeInv, Exclusive, Working
  <1> HIDE DEF q
  <1>8. RunOK(q, MadeJobs, file, snapshot)
    BY <1>1, <1>2, <1>5, <1>6 DEF RunOK, Working
  <1> QED
    BY <1>1, <1>3, <1>6, <1>7, <1>8, RunStep

\* The execution that holds the ledger writes the job's file.
LEMMA FileStep ==
  ASSUME ResumeInv, NEW w \in Worker, run[w].pc \in {"content", "meta"},
         NEW pc \in {"meta", "finish"}, run' = [run EXCEPT ![w].pc = pc],
         NEW f \in [content : Content \cup {None}, meta : Content \cup {None}],
         file' = [file EXCEPT ![run[w].job] = f],
         f.content = run[w].answer,
         f.meta = IF pc = "meta" THEN None ELSE run[w].answer,
         UNCHANGED <<artifact, version, hash, job, snapshot, review>>
  PROVE  ResumeInv'
  <1> DEFINE j == run[w].job
             q == [run[w] EXCEPT !.pc = pc]
  <1>1. run[w] \in RunRecord /\ RunOK(run[w], MadeJobs, file, snapshot) /\ j \in Job
        /\ run \in [Worker -> RunRecord]
    BY RunTypes DEF ResumeInv, TypeOK, RunRecord
  <1>2. run' = [run EXCEPT ![w] = q]
    BY <1>1 DEF RunRecord
  <1>3. /\ q \in RunRecord /\ q.pc = pc /\ q.job = j /\ q.answer = run[w].answer
        /\ q.decided = run[w].decided /\ q.staleArtifact = run[w].staleArtifact
    BY <1>1 DEF RunRecord
  <1> HIDE DEF q
  <1>4. /\ run' \in [Worker -> RunRecord] /\ run'[w] = q
        /\ \A x \in Worker \ {w} : run'[x] = run[x]
    BY <1>1, <1>2, <1>3
  <1>5. /\ file' \in [Job -> [content : Content \cup {None}, meta : Content \cup {None}]]
        /\ file'[j] = f /\ \A i \in Job \ {j} : file'[i] = file[i]
    BY <1>1 DEF ResumeInv, TypeOK
  <1>6. \A x \in Worker \ {w} : run[x].pc \in Working => run[x].job # j
    BY DEF ResumeInv, Exclusive, Working
  <1>7. j \notin MadeJobs /\ run[w].answer \in Content
    BY <1>1 DEF RunOK, Working
  <1> HIDE DEF j
  <1>8. TypeOK'
    BY <1>4, <1>5 DEF ResumeInv, TypeOK, RunRecord
  <1>9. Numbered' /\ MadeJobs' = MadeJobs
    BY DEF ResumeInv, Numbered, Targets, Filled, MadeJobs, Made
  <1>10. \A x \in Worker : RunOK(run'[x], MadeJobs, file', snapshot)
    <2> TAKE x \in Worker
    <2>1. CASE x = w
      <3>1. RunOK(q, MadeJobs, file', snapshot)
        BY <1>1, <1>3, <1>5, <1>7 DEF RunOK, Working, j
      <3> QED
        BY <2>1, <3>1, <1>4
    <2>2. CASE x # w
      <3>1. RunOK(run[x], MadeJobs, file, snapshot)
        BY DEF ResumeInv
      <3>2. run[x].pc \in Working => file'[run[x].job] = file[run[x].job]
        BY <2>2, <3>1, <1>5, <1>6 DEF RunOK, Working
      <3>3. RunOK(run[x], MadeJobs, file', snapshot)
        BY <3>1, <3>2 DEF RunOK, Working
      <3> QED
        BY <2>2, <3>3, <1>4
    <2> QED
      BY <2>1, <2>2
  <1>11. Exclusive'
    BY <1>3, <1>4, <1>6 DEF ResumeInv, Exclusive
  <1>12. FilesAgree'
    BY <1>5 DEF ResumeInv, FilesAgree
  <1>13. MadeComplete'
    BY <1>5, <1>7, <1>9 DEF ResumeInv, MadeComplete, MadeJobs
  <1> QED
    BY <1>8, <1>9, <1>10, <1>11, <1>12, <1>13 DEF ResumeInv

LEMMA PutStep ==
  ASSUME ResumeInv, NEW w \in Worker, PutContent(w) \/ PutMetadata(w)
  PROVE  ResumeInv'
  <1> DEFINE j == run[w].job
  <1>1. run[w].pc \in {"content", "meta"}
    BY DEF PutContent, PutMetadata
  <1>2. /\ RunOK(run[w], MadeJobs, file, snapshot) /\ j \in Job
        /\ file[j] \in [content : Content \cup {None}, meta : Content \cup {None}]
    BY <1>1, RunTypes
  <1>3. run[w].answer \in Content /\ file[j].meta = None
        /\ (run[w].pc = "meta" => file[j].content = run[w].answer)
    BY <1>1, <1>2 DEF RunOK
  <1>4. CASE PutContent(w)
    <2> DEFINE f == [file[j] EXCEPT !.content = run[w].answer]
    <2>1. file' = [file EXCEPT ![j] = f]
      BY <1>2, <1>4 DEF PutContent, ResumeInv, TypeOK
    <2>2. /\ f \in [content : Content \cup {None}, meta : Content \cup {None}]
          /\ f.content = run[w].answer /\ f.meta = None
      BY <1>2, <1>3
    <2> HIDE DEF f
    <2> QED
      BY <1>1, <1>4, <2>1, <2>2, FileStep DEF PutContent
  <1>5. CASE PutMetadata(w)
    <2> DEFINE f == [file[j] EXCEPT !.meta = run[w].answer]
    <2>1. file' = [file EXCEPT ![j] = f]
      BY <1>2, <1>5 DEF PutMetadata, ResumeInv, TypeOK
    <2>2. /\ f \in [content : Content \cup {None}, meta : Content \cup {None}]
          /\ f.content = run[w].answer /\ f.meta = run[w].answer
      BY <1>2, <1>3, <1>5 DEF PutMetadata
    <2> HIDE DEF f
    <2> QED
      BY <1>1, <1>5, <2>1, <2>2, FileStep DEF PutMetadata
  <1> QED
    BY <1>4, <1>5

-----------------------------------------------------------------------------
(* The commit. *)

LEMMA WriteBackOK ==
  ASSUME ResumeInv, NEW w \in Worker, NEW passed \in BOOLEAN, WriteBack(w, passed),
         run[w].pc \in {"finish", "replay"}
  PROVE  /\ artifact' \in ArtifactRow
         /\ job' \in [Job -> {"pending", "completed", "escalated", "failed"}]
         /\ run' \in [Worker -> RunRecord]
         /\ run'[w] = Idle
         /\ \A x \in Worker \ {w} : SameRun(run'[x], run[x])
         /\ artifact' = artifact \/ artifact'.current = snapshot[run[w].job].number
         /\ run[w].decided => artifact' = artifact
  <1> DEFINE j == run[w].job
             after == ArtifactAfter(w, passed)
             changed == after # run[w].art
             jobChanged == j \in Document \/ JobAfter(j, passed) # job[j]
             next(x) == IF x = w THEN Idle
                        ELSE [run[x] EXCEPT
                                !.staleArtifact = @ \/ (changed /\ run[x].pc # "idle"),
                                !.staleJob = @ \/ (jobChanged /\ run[x].job = j)]
  <1>1. /\ run[w] \in RunRecord /\ RunOK(run[w], MadeJobs, file, snapshot) /\ j \in Job
        /\ run \in [Worker -> RunRecord]
    BY RunTypes DEF ResumeInv, TypeOK, RunRecord
  <1>2. after \in ArtifactRow /\ after.current = snapshot[j].number
    BY <1>1 DEF ArtifactAfter, ArtifactRow, ArtifactStatus, RunRecord, ResumeInv, TypeOK
  <1>3. /\ artifact' = IF changed THEN after ELSE artifact
        /\ changed => ~run[w].staleArtifact
        /\ job' = [job EXCEPT ![j] = JobAfter(j, passed)]
        /\ run' = [x \in Worker |-> next(x)]
    BY DEF WriteBack, MayWrite
  <1>4. JobAfter(j, passed) \in {"pending", "completed", "escalated", "failed"}
    BY DEF JobAfter
  <1>5. job' \in [Job -> {"pending", "completed", "escalated", "failed"}]
    BY <1>1, <1>3, <1>4 DEF ResumeInv, TypeOK
  <1>6. changed \in BOOLEAN /\ jobChanged \in BOOLEAN
    OBVIOUS
  <1>7. run[w].decided => ~changed
    BY <1>1, <1>3 DEF RunOK
  <1>8. artifact \in ArtifactRow
    BY DEF ResumeInv, TypeOK
  <1>9. next(w) = Idle
    OBVIOUS
  <1> HIDE DEF after, changed, jobChanged
  <1>10. \A x \in Worker \ {w} : next(x) \in RunRecord /\ SameRun(next(x), run[x])
    <2> TAKE x \in Worker \ {w}
    <2> DEFINE sa == run[x].staleArtifact \/ (changed /\ run[x].pc # "idle")
               sj == run[x].staleJob \/ (jobChanged /\ run[x].job = j)
    <2>1. run[x] \in RunRecord /\ (run[x].decided => run[x].staleArtifact)
      BY <1>1, RunTypes DEF RunOK
    <2>2. next(x) = [run[x] EXCEPT !.staleArtifact = sa, !.staleJob = sj]
      BY <2>1 DEF RunRecord
    <2>3. sa \in BOOLEAN /\ sj \in BOOLEAN /\ (run[x].staleArtifact => sa)
      OBVIOUS
    <2> HIDE DEF sa, sj, next
    <2> QED
      BY <2>1, <2>2, <2>3 DEF RunRecord, SameRun
  <1> HIDE DEF next
  <1>11. \A x \in Worker : run'[x] = next(x) /\ next(x) \in RunRecord
    BY <1>3, <1>9, <1>10, IdleOK
  <1>12. run' \in [Worker -> RunRecord]
    BY <1>3, <1>11
  <1> QED
    BY <1>2, <1>3, <1>5, <1>7, <1>8, <1>9, <1>10, <1>11, <1>12

LEMMA ReplayStep ==
  ASSUME ResumeInv, NEW w \in Worker, Replay(w)
  PROVE  /\ ResumeInv'
         /\ artifact' = artifact \/
              \E j \in Job : Made(j) /\ artifact'.current = snapshot[j].number
         /\ run[w].decided => artifact' = artifact
         /\ \A x \in Worker \ {w} : run'[x].pc = run[x].pc
  <1> DEFINE passed == review[run[w].job] = "passed"
  <1>1. /\ run[w].pc = "replay" /\ WriteBack(w, passed) /\ passed \in BOOLEAN
        /\ UNCHANGED <<version, hash, file, snapshot, review>>
    BY DEF Replay
  <1> HIDE DEF passed
  <1>2. /\ artifact' \in ArtifactRow
        /\ job' \in [Job -> {"pending", "completed", "escalated", "failed"}]
        /\ run' \in [Worker -> RunRecord]
        /\ run'[w] = Idle
        /\ \A x \in Worker \ {w} : SameRun(run'[x], run[x])
        /\ artifact' = artifact \/ artifact'.current = snapshot[run[w].job].number
        /\ run[w].decided => artifact' = artifact
    BY <1>1, WriteBackOK
  <1>3. run[w].job \in Job /\ Made(run[w].job)
    BY <1>1, RunTypes DEF RunOK, MadeJobs
  <1>4. TypeOK'
    BY <1>1, <1>2 DEF ResumeInv, TypeOK, RunRecord
  <1>5. Numbered'
    <2>1. PICK c \in 0..MaxVersion :
            /\ Filled(c) /\ artifact.current <= c
            /\ \A i \in Job : snapshot[i].number <= c + 1
      BY DEF ResumeInv, Numbered
    <2>2. PICK n \in Number : version[n] = run[w].job
      BY <1>3 DEF Made
    <2>3. snapshot[run[w].job].number = n /\ n <= c
      BY <1>3, <2>1, <2>2 DEF ResumeInv, Numbered, Targets, Filled
    <2>4. artifact'.current <= c
      BY <1>2, <2>1, <2>3
    <2> QED
      BY <1>1, <2>1, <2>4 DEF ResumeInv, Numbered, Targets, Filled
  <1>6. MadeJobs' = MadeJobs
    BY <1>1 DEF MadeJobs, Made
  <1>7. \A x \in Worker : RunOK(run'[x], MadeJobs, file, snapshot)
    BY <1>2, IdleOK DEF ResumeInv, RunOK, SameRun
  <1>8. Exclusive'
    BY <1>2, IdleOK DEF ResumeInv, Exclusive, SameRun, Working
  <1> QED
    BY <1>1, <1>2, <1>3, <1>4, <1>5, <1>6, <1>7, <1>8, QuietStep DEF SameRun

\* A number that is still free is the next one.
LEMMA FinishStep ==
  ASSUME ResumeInv, NEW w \in Worker, NEW passed \in BOOLEAN, Finish(w, passed)
  PROVE  /\ ResumeInv'
         /\ artifact'.current >= artifact.current
         /\ run[w].decided => artifact' = artifact
         /\ \A x \in Worker \ {w} : run'[x].pc = run[x].pc
  <1> DEFINE j == run[w].job
             n == snapshot[j].number
             a == run[w].answer
  <1>1. /\ run[w].pc = "finish" /\ WriteBack(w, passed)
        /\ ~Made(j) /\ version[n] = None
        /\ version' = [version EXCEPT ![n] = j]
        /\ hash' = [hash EXCEPT ![j] = a]
        /\ UNCHANGED <<file, snapshot>>
    BY DEF Finish, Insertable
  <1>2. /\ artifact' \in ArtifactRow
        /\ job' \in [Job -> {"pending", "completed", "escalated", "failed"}]
        /\ run' \in [Worker -> RunRecord]
        /\ run'[w] = Idle
        /\ \A x \in Worker \ {w} : SameRun(run'[x], run[x])
        /\ artifact' = artifact \/ artifact'.current = n
        /\ run[w].decided => artifact' = artifact
    BY <1>1, WriteBackOK
  <1>3. /\ j \in Job /\ n # 0 /\ a \in Content
        /\ file[j].content = a /\ file[j].meta = a
    BY <1>1, RunTypes DEF RunOK
  <1>4. PICK c \in 0..MaxVersion :
          /\ Filled(c) /\ artifact.current <= c
          /\ \A i \in Job : snapshot[i].number <= c + 1
    BY DEF ResumeInv, Numbered
  <1>5. n \in 0..MaxVersion /\ artifact.current \in 0..MaxVersion
    BY <1>3 DEF ResumeInv, TypeOK, ArtifactRow
  <1>6. n \in Number /\ n = c + 1
    BY <1>1, <1>3, <1>4, <1>5, Bounds DEF Filled, Number
  <1>7. \A x \in Worker \ {w} : run[x].pc \in Working => run[x].job # j
    BY <1>1 DEF ResumeInv, Exclusive, Working
  <1>8. review' \in [Job -> {"none", "passed", "failed"}]
    BY <1>3 DEF Finish, ResumeInv, TypeOK
  <1> HIDE DEF n, a, j
  <1>9. /\ version' \in [Number -> Job \cup {Person, None}] /\ version'[n] = j
        /\ \A k \in Number \ {n} : version'[k] = version[k]
    BY <1>1, <1>3, <1>6 DEF ResumeInv, TypeOK
  <1>10. /\ hash' \in [Job -> Content \cup {None}] /\ hash'[j] = a
         /\ \A i \in Job \ {j} : hash'[i] = hash[i]
    BY <1>1, <1>3 DEF ResumeInv, TypeOK
  <1>11. TypeOK'
    BY <1>1, <1>2, <1>8, <1>9, <1>10 DEF ResumeInv, TypeOK, RunRecord
  <1>12. MadeJobs' = MadeJobs \cup {j}
    <2>1. \A i \in Job \ {j} : (\E k \in Number : version'[k] = i) <=> \E k \in Number : version[k] = i
      BY <1>1, <1>6, <1>9
    <2>2. \E k \in Number : version'[k] = j
      BY <1>6, <1>9
    <2> QED
      BY <1>3, <2>1, <2>2 DEF MadeJobs, Made
  <1>13. Targets'
    BY <1>1, <1>6, <1>9 DEF ResumeInv, Numbered, Targets, n, j
  <1>14. Numbered'
    <2>1. \A k \in Number : version'[k] # None <=> k <= c + 1
      <3> TAKE k \in Number
      <3>1. k \in Int /\ c \in Int
        BY <1>4, Bounds DEF Number
      <3>2. k # n => (version'[k] # None <=> k <= c)
        BY <1>4, <1>9 DEF Filled
      <3>3. k = n => version'[k] # None
        BY <1>3, <1>9
      <3> QED
        BY <1>6, <3>1, <3>2, <3>3
    <2>2. c + 1 \in 0..MaxVersion
      BY <1>5, <1>6
    <2>3. artifact'.current <= c + 1
      BY <1>2, <1>4, <1>5, <1>6, Bounds
    <2>4. \A i \in Job : snapshot'[i].number <= c + 1 + 1
      BY <1>1, <1>4, Bounds DEF ResumeInv, TypeOK
    <2> QED
      BY <1>13, <2>1, <2>2, <2>3, <2>4 DEF Numbered, Filled
  <1>15. \A x \in Worker : RunOK(run'[x], MadeJobs', file', snapshot')
    <2> TAKE x \in Worker
    <2>1. CASE x = w
      BY <2>1, <1>2, IdleOK
    <2>2. CASE x # w
      <3>1. RunOK(run[x], MadeJobs, file, snapshot)
        BY DEF ResumeInv
      <3>2. SameRun(run'[x], run[x])
        BY <2>2, <1>2
      <3>3. run[x].pc \in Working /\ run[x].job \notin MadeJobs => run[x].job \notin MadeJobs'
        BY <2>2, <1>7, <1>12
      <3> QED
        BY <3>1, <3>2, <3>3, <1>1, <1>12, RunKept
    <2> QED
      BY <2>1, <2>2
  <1>16. Exclusive'
    BY <1>2, IdleOK DEF ResumeInv, Exclusive, SameRun, Working
  <1>17. FilesAgree' /\ MadeComplete'
    <2>1. a # None
      BY <1>3 DEF Content
    <2>2. j \notin MadeJobs
      BY <1>1 DEF MadeJobs
    <2> QED
      BY <2>1, <2>2, <1>1, <1>3, <1>10, <1>12 DEF ResumeInv, FilesAgree, MadeComplete, MadeJobs
  <1>18. artifact'.current >= artifact.current
    BY <1>2, <1>4, <1>5, <1>6, Bounds
  <1> QED
    BY <1>2, <1>11, <1>14, <1>15, <1>16, <1>17, <1>18 DEF ResumeInv, SameRun

-----------------------------------------------------------------------------
(* Every step. *)

\* What a step does to the artifact, given the runs it ends.
Respects ==
    /\ artifact'.current < artifact.current =>
         \E j \in Job : Made(j) /\ artifact'.current = snapshot[j].number
    /\ \A w \in Worker :
         run[w].decided /\ run[w].pc \in {"finish", "replay"} /\ run'[w].pc = "idle"
           => artifact' = artifact

LEMMA CurrentIsNumber == ResumeInv => artifact.current \in Int
  BY Bounds DEF ResumeInv, TypeOK, ArtifactRow

LEMMA QuietRespects ==
  ASSUME ResumeInv, artifact' = artifact
  PROVE  Respects
  BY CurrentIsNumber DEF Respects

LEMMA PeopleRespect ==
  ASSUME ResumeInv, artifact'.current >= artifact.current, artifact'.current \in Int,
         \A w \in Worker : SameRun(run'[w], run[w])
  PROVE  Respects
  BY CurrentIsNumber DEF Respects, SameRun

LEMMA StutterStep == ResumeInv /\ UNCHANGED vars => ResumeInv' /\ Respects
  <1> SUFFICES ASSUME ResumeInv, UNCHANGED vars PROVE ResumeInv' /\ Respects
    OBVIOUS
  <1>1. UNCHANGED <<artifact, version, hash, file, job, snapshot, review, run>>
    BY DEF vars
  <1>2. TypeOK' /\ Numbered' /\ MadeJobs' = MadeJobs
    BY <1>1 DEF ResumeInv, TypeOK, Numbered, Targets, Filled, MadeJobs, Made
  <1>3. \A w \in Worker : SameRun(run'[w], run[w])
    BY <1>1 DEF ResumeInv, RunOK, SameRun
  <1> QED
    BY <1>1, <1>2, <1>3, StaleStep, QuietRespects

LEMMA NextStep == ResumeInv /\ [Next]_vars => ResumeInv' /\ Respects
  <1> SUFFICES ASSUME ResumeInv, Next PROVE ResumeInv' /\ Respects
    BY StutterStep
  <1>1. CASE AddVersion
    <2>1. ResumeInv' /\ artifact'.current > artifact.current
      BY <1>1, AddVersionStep
    <2>2. artifact'.current \in Int
      BY <2>1, Bounds DEF ResumeInv, TypeOK, ArtifactRow
    <2>3. \A w \in Worker : SameRun(run'[w], run[w])
      BY <1>1, WrittenOK DEF AddVersion
    <2> QED
      BY <2>1, <2>2, <2>3, CurrentIsNumber, PeopleRespect
  <1>2. CASE ToHumanReview \/ \E decision \in {"approved", "revision_requested"} : Decide(decision)
    <2>1. ResumeInv' /\ artifact'.current = artifact.current
      BY <1>2, PeopleStep
    <2>2. \A w \in Worker : SameRun(run'[w], run[w])
      BY <1>2, WrittenOK DEF ToHumanReview, Decide
    <2> QED
      BY <2>1, <2>2, CurrentIsNumber, PeopleRespect
  <1>3. CASE \E j \in Job, last \in BOOLEAN : TakeSnapshot(j, last)
    BY <1>3, SnapshotStep, QuietRespects DEF TakeSnapshot
  <1>4. CASE \E j \in Job : Block(j)
    BY <1>4, BlockStep, QuietRespects DEF Block
  <1>5. CASE \E w \in Worker :
               \/ \E j \in Job : Begin(w, j)
               \/ Reserve(w)
               \/ \E a \in Content : Produce(w, a)
               \/ PutContent(w)
               \/ PutMetadata(w)
               \/ Abort(w)
    BY <1>5, BeginStep, ReserveStep, ProduceStep, PutStep, AbortStep, QuietRespects
       DEF Begin, Reserve, Produce, PutContent, PutMetadata, Abort
  <1>6. CASE \E w \in Worker : \E passed \in BOOLEAN : Finish(w, passed)
    <2>1. PICK w \in Worker, passed \in BOOLEAN : Finish(w, passed)
      BY <1>6
    <2>2. /\ ResumeInv'
          /\ artifact'.current >= artifact.current
          /\ run[w].decided => artifact' = artifact
          /\ \A x \in Worker \ {w} : run'[x].pc = run[x].pc
      BY <2>1, FinishStep
    <2>3. artifact'.current \in Int
      BY <2>2, Bounds DEF ResumeInv, TypeOK, ArtifactRow
    <2> QED
      BY <2>2, <2>3, CurrentIsNumber DEF Respects
  <1>7. CASE \E w \in Worker : Replay(w)
    <2>1. PICK w \in Worker : Replay(w)
      BY <1>7
    <2>2. /\ ResumeInv'
          /\ artifact' = artifact \/
               \E j \in Job : Made(j) /\ artifact'.current = snapshot[j].number
          /\ run[w].decided => artifact' = artifact
          /\ \A x \in Worker \ {w} : run'[x].pc = run[x].pc
      BY <2>1, ReplayStep
    <2> QED
      BY <2>2, CurrentIsNumber DEF Respects
  <1> QED
    BY <1>1, <1>2, <1>3, <1>4, <1>5, <1>6, <1>7 DEF Next

-----------------------------------------------------------------------------
(* The theorems. *)

\* Whatever executions overlap, crash or are repeated, one at a time holds a job's ledger,
\* and files, versions and snapshots agree.
THEOREM ResumeInvariant == Spec => []ResumeInv
  BY InitInv, NextStep, PTL DEF Spec

\* Rows, files and executions keep their types.
THEOREM ResumeTypes == Spec => []TypeOK
  <1>1. ResumeInv => TypeOK
    BY DEF ResumeInv
  <1> QED
    BY <1>1, ResumeInvariant, PTL

\* put_object and the handlers' commit: a committed version has its complete file with the
\* recorded hash, and no later execution touches it.
THEOREM VersionsHaveFiles == Spec => []VersionMatchesFile
  BY InvMatches, ResumeInvariant, PTL

\* workflows.py and documents.py: an execution that commits first makes the newest version,
\* though its number was fixed by create_snapshot.
THEOREM ReplaysRegress == Spec => OnlyReplayRegresses
  <1>1. ResumeInv /\ [Next]_vars
          => [artifact'.current < artifact.current =>
                \E j \in Job : Made(j) /\ artifact'.current = snapshot[j].number]_vars
    BY NextStep DEF Respects
  <1> QED
    BY <1>1, ResumeInvariant, PTL DEF Spec, OnlyReplayRegresses

\* workflows.py and documents.py: an execution under way does not undo a person's decision.
THEOREM DecisionsSurvive == Spec => DecisionsSurviveRunning
  <1>1. ResumeInv /\ [Next]_vars
          => [\A w \in Worker :
                run[w].decided /\ run[w].pc \in {"finish", "replay"} /\ run'[w].pc = "idle"
                  => artifact' = artifact]_vars
    BY NextStep DEF Respects
  <1> QED
    BY <1>1, ResumeInvariant, PTL DEF Spec, DecisionsSurviveRunning

-----------------------------------------------------------------------------
(* The executions implement VersionLog. *)

LogView == [n \in 1..Count |-> [author |-> version[n], content |-> Shown(version[n])]]

Settled == {j \in Job \ Document : job[j] \in {"completed", "escalated"}}

\* What an execution has loaded is behind every number that is free.
LoadedBehind ==
    \A w \in Worker, n \in Number : version[n] = None => run[w].art.current < n

\* A workflow has the status that its version and review give it.
Reported ==
    \A j \in Job \ Document :
        IF j \in MadeJobs THEN job[j] = JobAfter(j, review[j] = "passed")
                          ELSE job[j] \notin {"completed", "escalated"}

\* Whoever still executes a settled workflow has loaded the artifact before.
SettledStale ==
    \A w \in Worker : run[w].pc # "idle" /\ run[w].job \in Settled => run[w].staleArtifact

LogInv == ResumeInv /\ LoadedBehind /\ Reported /\ SettledStale

LEMMA CountOf ==
  ASSUME ResumeInv
  PROVE  \E c \in 0..MaxVersion :
           /\ Count = c /\ Filled(c) /\ artifact.current <= c
           /\ \A j \in Job : snapshot[j].number <= c + 1
  BY CountIs DEF ResumeInv, Numbered

LEMMA ViewKept ==
  ASSUME ResumeInv, UNCHANGED version,
         \A j \in MadeJobs : file'[j] = file[j] /\ hash'[j] = hash[j]
  PROVE  LogView' = LogView
  <1>1. PICK c \in 0..MaxVersion : Count = c
    BY CountOf
  <1>2. Count' = Count
    BY DEF Count
  <1>3. \A n \in 1..c : Shown(version[n])' = Shown(version[n])
    <2> TAKE n \in 1..c
    <2>1. n \in Number
      BY <1>1, Bounds DEF Number
    <2>2. version[n] \in Job => version[n] \in MadeJobs
      BY <2>1 DEF MadeJobs, Made
    <2> QED
      BY <2>2 DEF Shown
  <1> QED
    BY <1>1, <1>2, <1>3 DEF LogView

\* A step that VersionLog does not see.
LEMMA LogStutter ==
  ASSUME LogView' = LogView, artifact'.current = artifact.current, Settled' = Settled
  PROVE  UNCHANGED Log!vars
  BY DEF Log!vars, LogView, Settled

\* A new version is a new entry at the end.
LEMMA ViewAppend ==
  ASSUME ResumeInv, NEW c \in 0..MaxVersion, Filled(c), c + 1 \in Number,
         NEW a \in Job \cup {Person}, NEW shown,
         version' = [version EXCEPT ![c + 1] = a],
         Count' = c + 1,
         \A j \in MadeJobs : file'[j] = file[j] /\ hash'[j] = hash[j],
         shown = IF a \in Job /\ file'[a].meta = hash'[a] THEN file'[a].content ELSE None
  PROVE  /\ LogView' = Append(LogView, [author |-> a, content |-> shown])
         /\ Len(LogView) = c
  <1>1. Count = c
    BY CountIs
  <1> DEFINE entry == [author |-> a, content |-> shown]
             old(n) == [author |-> version[n], content |-> Shown(version[n])]
             new(n) == [author |-> version'[n], content |-> Shown(version[n])']
  <1>2. LogView = [n \in 1..c |-> old(n)] /\ c \in Nat
    BY <1>1, Bounds DEF LogView
  <1>3. LogView' = [n \in 1..(c + 1) |-> new(n)]
    BY DEF LogView
  <1>4. version'[c + 1] = a /\ \A n \in 1..c : n \in Number /\ version'[n] = version[n]
    BY Bounds DEF ResumeInv, TypeOK, Number
  <1>5. \A n \in 1..c : new(n) = old(n)
    <2> TAKE n \in 1..c
    <2>1. version[n] \in Job => version[n] \in MadeJobs
      BY <1>4 DEF MadeJobs, Made
    <2> QED
      BY <1>4, <2>1 DEF Shown
  <1>6. new(c + 1) = entry
    BY <1>4 DEF Shown
  <1> HIDE DEF entry, old, new
  <1>7. LogView' = [n \in 1..(c + 1) |-> IF n = c + 1 THEN entry ELSE old(n)]
    BY <1>2, <1>3, <1>5, <1>6
  <1>8. Len(LogView) = c
    BY <1>2
  <1>9. Append(LogView, entry) = [n \in 1..(c + 1) |-> IF n = c + 1 THEN entry ELSE old(n)]
    BY <1>2, <1>8
  <1> QED
    BY <1>7, <1>8, <1>9 DEF entry

\* A step that makes no version and settles no workflow keeps the invariant if the runs do.
LEMMA LogInvKept ==
  ASSUME LogInv, ResumeInv', UNCHANGED <<version, review>>,
         \A j \in MadeJobs : snapshot'[j] = snapshot[j],
         \A j \in Job \ Document : job'[j] = job[j] \/ (j \notin MadeJobs /\ job'[j] = "failed"),
         \A w \in Worker, n \in Number : version[n] = None => run'[w].art.current < n,
         \A w \in Worker : run'[w].pc # "idle" /\ run'[w].job \in Settled => run'[w].staleArtifact
  PROVE  LogInv' /\ Settled' = Settled
  <1>1. MadeJobs' = MadeJobs
    BY DEF MadeJobs, Made
  <1>2. Reported'
    <2>1. \A j \in MadeJobs : JobAfter(j, review[j] = "passed")' = JobAfter(j, review[j] = "passed")
      BY DEF JobAfter
    <2> QED
      BY <1>1, <2>1 DEF LogInv, Reported
  <1>3. Settled' = Settled
    BY DEF LogInv, Reported, Settled
  <1>4. LoadedBehind' /\ SettledStale'
    BY <1>3 DEF LoadedBehind, SettledStale
  <1> QED
    BY <1>2, <1>3, <1>4 DEF LogInv

\* A run after a step in which its execution does not load, commit or end.
LaterRun(p, q) ==
    /\ p.pc = "idle" \/ (q.pc # "idle" /\ p.job = q.job)
    /\ p.art = q.art
    /\ q.staleArtifact => p.staleArtifact

\* Requests of people and steps of executions that write no row.
LEMMA QuietLog ==
  ASSUME LogInv, ResumeInv', UNCHANGED <<version, review, job, hash>>,
         \A j \in MadeJobs : snapshot'[j] = snapshot[j] /\ file'[j] = file[j],
         artifact'.current = artifact.current,
         \A w \in Worker : LaterRun(run'[w], run[w]) \/ run'[w] = Idle
  PROVE  LogInv' /\ UNCHANGED Log!vars
  <1>1. \A w \in Worker, n \in Number : version[n] = None => run'[w].art.current < n
    <2> TAKE w \in Worker, n \in Number
    <2>1. Idle.art.current < n
      BY Bounds DEF Idle, Number
    <2> QED
      BY <2>1 DEF LogInv, LoadedBehind, LaterRun
  <1>2. \A w \in Worker : run'[w].pc # "idle" /\ run'[w].job \in Settled => run'[w].staleArtifact
    BY IdleOK DEF LogInv, SettledStale, LaterRun
  <1>3. LogInv' /\ Settled' = Settled
    <2>1. \A j \in Job : job'[j] = job[j]
      OBVIOUS
    <2> QED
      BY <1>1, <1>2, <2>1, LogInvKept
  <1>4. LogView' = LogView
    BY ViewKept DEF LogInv
  <1> QED
    BY <1>3, <1>4, LogStutter

LEMMA WrittenLater ==
  ASSUME ResumeInv, NEW decision \in BOOLEAN, ArtifactWritten(decision)
  PROVE  \A w \in Worker : LaterRun(run'[w], run[w])
  <1> TAKE w \in Worker
  <1>1. run[w] \in RunRecord
    BY RunTypes
  <1> QED
    BY <1>1 DEF ArtifactWritten, LaterRun, RunRecord

LEMMA StatusLog ==
  ASSUME LogInv, ToHumanReview \/ \E decision \in {"approved", "revision_requested"} : Decide(decision)
  PROVE  LogInv' /\ UNCHANGED Log!vars
  <1>1. ResumeInv' /\ artifact'.current = artifact.current
    BY PeopleStep DEF LogInv
  <1>2. UNCHANGED <<version, hash, file, job, snapshot, review>>
    BY DEF ToHumanReview, Decide
  <1>3. \A w \in Worker : LaterRun(run'[w], run[w])
    BY WrittenLater DEF LogInv, ToHumanReview, Decide
  <1> QED
    BY <1>1, <1>2, <1>3, QuietLog

LEMMA SnapshotLog ==
  ASSUME LogInv, NEW j \in Job, NEW last \in BOOLEAN, TakeSnapshot(j, last)
  PROVE  LogInv' /\ UNCHANGED Log!vars
  <1>1. ResumeInv'
    BY SnapshotStep DEF LogInv
  <1>2. /\ UNCHANGED <<artifact, version, hash, file, job, review, run>>
        /\ snapshot[j].number = 0
        /\ \A i \in Job \ {j} : snapshot'[i] = snapshot[i]
    BY DEF TakeSnapshot, LogInv, ResumeInv, TypeOK
  <1>3. j \notin MadeJobs
    BY <1>2, Bounds DEF MadeJobs, Made, LogInv, ResumeInv, Numbered, Targets, Number
  <1>4. \A i \in MadeJobs : snapshot'[i] = snapshot[i]
    BY <1>2, <1>3 DEF MadeJobs
  <1>5. \A w \in Worker : LaterRun(run'[w], run[w])
    BY <1>2 DEF LaterRun
  <1> QED
    BY <1>1, <1>2, <1>4, <1>5, QuietLog

LEMMA BlockLog ==
  ASSUME LogInv, NEW j \in Job, Block(j)
  PROVE  LogInv' /\ UNCHANGED Log!vars
  <1>1. ResumeInv'
    BY BlockStep DEF LogInv
  <1>2. /\ UNCHANGED <<artifact, version, hash, file, snapshot, review, run>>
        /\ snapshot[j].number = 0
        /\ job'[j] = "failed"
        /\ \A i \in Job \ {j} : job'[i] = job[i]
    BY DEF Block, LogInv, ResumeInv, TypeOK
  <1>3. j \notin MadeJobs
    BY <1>2, Bounds DEF MadeJobs, Made, LogInv, ResumeInv, Numbered, Targets, Number
  <1>4. LogInv' /\ Settled' = Settled
    <2>1. \A i \in Job \ Document :
            job'[i] = job[i] \/ (i \notin MadeJobs /\ job'[i] = "failed")
      BY <1>2, <1>3
    <2>2. \A w \in Worker, n \in Number : version[n] = None => run'[w].art.current < n
      BY <1>2 DEF LogInv, LoadedBehind
    <2>3. \A w \in Worker :
            run'[w].pc # "idle" /\ run'[w].job \in Settled => run'[w].staleArtifact
      BY <1>2 DEF LogInv, SettledStale
    <2>4. \A i \in MadeJobs : snapshot'[i] = snapshot[i]
      BY <1>2
    <2> QED
      BY <1>1, <1>2, <2>1, <2>2, <2>3, <2>4, LogInvKept
  <1>5. LogView' = LogView
    BY <1>2, ViewKept DEF LogInv
  <1> QED
    BY <1>2, <1>4, <1>5, LogStutter

\* Whoever begins has loaded the current artifact, and a workflow that has not settled.
LEMMA BeginLog ==
  ASSUME LogInv, NEW w \in Worker, NEW j \in Job, Begin(w, j)
  PROVE  LogInv' /\ UNCHANGED Log!vars
  <1> DEFINE q == [Idle EXCEPT !.pc = "loaded", !.job = j, !.art = artifact]
  <1>1. /\ ResumeInv'
        /\ UNCHANGED <<artifact, version, hash, file, job, snapshot, review>>
        /\ Executable(j)
        /\ run' = [run EXCEPT ![w] = q]
    BY BeginStep DEF Begin, LogInv
  <1>2. q.job = j /\ q.art = artifact
    BY DEF Idle
  <1> HIDE DEF q
  <1>3. run'[w] = q /\ \A x \in Worker \ {w} : run'[x] = run[x]
    BY <1>1 DEF LogInv, ResumeInv, TypeOK
  <1>4. j \notin Settled
    BY <1>1 DEF Executable, Settled
  <1>5. \A n \in Number : version[n] = None => artifact.current < n
    <2>1. PICK c \in 0..MaxVersion : Filled(c) /\ artifact.current <= c
      BY DEF LogInv, ResumeInv, Numbered
    <2>2. artifact.current \in Int /\ c \in Int /\ \A n \in Number : n \in Int
      BY CurrentIsNumber, Bounds DEF LogInv, Number
    <2> QED
      BY <2>1, <2>2 DEF Filled
  <1>6. LogInv' /\ Settled' = Settled
    <2>1. \A x \in Worker, n \in Number : version[n] = None => run'[x].art.current < n
      BY <1>2, <1>3, <1>5 DEF LogInv, LoadedBehind
    <2>2. \A x \in Worker :
            run'[x].pc # "idle" /\ run'[x].job \in Settled => run'[x].staleArtifact
      BY <1>2, <1>3, <1>4 DEF LogInv, SettledStale
    <2>3. /\ \A i \in Job : job'[i] = job[i]
          /\ \A i \in MadeJobs : snapshot'[i] = snapshot[i]
      BY <1>1
    <2> QED
      BY <1>1, <2>1, <2>2, <2>3, LogInvKept
  <1>7. LogView' = LogView
    BY <1>1, ViewKept DEF LogInv
  <1> QED
    BY <1>1, <1>6, <1>7, LogStutter

LEMMA WorkLog ==
  ASSUME LogInv, NEW w \in Worker,
         \/ Reserve(w)
         \/ \E a \in Content : Produce(w, a)
         \/ PutContent(w)
         \/ PutMetadata(w)
         \/ Abort(w)
  PROVE  LogInv' /\ UNCHANGED Log!vars
  <1>1. ResumeInv'
    BY ReserveStep, ProduceStep, PutStep, AbortStep DEF LogInv
  <1>2. UNCHANGED <<artifact, version, hash, job, snapshot, review>>
    BY DEF Reserve, Produce, PutContent, PutMetadata, Abort
  <1>3. /\ run[w] \in RunRecord /\ run \in [Worker -> RunRecord]
        /\ RunOK(run[w], MadeJobs, file, snapshot)
    BY RunTypes DEF LogInv, ResumeInv, TypeOK, RunRecord
  <1>4. \A i \in MadeJobs : file'[i] = file[i]
    <2>1. CASE PutContent(w) \/ PutMetadata(w)
      <3>1. run[w].job \in Job \ MadeJobs
        BY <1>3, <2>1 DEF RunOK, Working, PutContent, PutMetadata
      <3> QED
        BY <2>1, <3>1 DEF PutContent, PutMetadata, LogInv, ResumeInv, TypeOK, MadeJobs
    <2> QED
      BY <2>1 DEF Reserve, Produce, Abort
  <1>5. \A x \in Worker : LaterRun(run'[x], run[x]) \/ run'[x] = Idle
    <2>1. \A x \in Worker \ {w} : run'[x] = run[x]
      BY <1>3 DEF Reserve, Produce, PutContent, PutMetadata, Abort
    <2>2. ASSUME Reserve(w) PROVE LaterRun(run'[w], run[w])
      BY <1>3, <2>2 DEF Reserve, LaterRun, RunRecord
    <2>3. ASSUME \E a \in Content : Produce(w, a) PROVE LaterRun(run'[w], run[w])
      <3>1. PICK a \in Content : Produce(w, a)
        BY <2>3
      <3> DEFINE pc == IF Stored(run[w].job) THEN "finish" ELSE "content"
                 q == [run[w] EXCEPT !.answer = a, !.pc = pc]
      <3>2. run' = [run EXCEPT ![w] = q] /\ run[w].pc = "reserved"
        BY <1>3, <3>1 DEF Produce, RunRecord
      <3>3. LaterRun(q, run[w])
        <4> HIDE DEF pc
        <4> QED
          BY <1>3, <3>2 DEF LaterRun, RunRecord
      <3> HIDE DEF q
      <3> QED
        BY <1>3, <3>2, <3>3
    <2>4. ASSUME PutContent(w) \/ PutMetadata(w) PROVE LaterRun(run'[w], run[w])
      BY <1>3, <2>4 DEF PutContent, PutMetadata, LaterRun, RunRecord
    <2>5. ASSUME Abort(w) PROVE run'[w] = Idle
      <3>1. run' = [run EXCEPT ![w] = Idle]
        BY <2>5 DEF Abort
      <3> QED
        BY <1>3, <3>1
    <2>6. LaterRun(run'[w], run[w]) \/ run'[w] = Idle
      BY <2>2, <2>3, <2>4, <2>5
    <2> QED
      BY <2>1, <2>6 DEF LaterRun
  <1> QED
    BY <1>1, <1>2, <1>4, <1>5, QuietLog

\* The number of versions after one more.
LEMMA CountAfter ==
  ASSUME ResumeInv, NEW c \in 0..MaxVersion, Filled(c), c + 1 \in Number,
         version'[c + 1] # None,
         \A k \in Number \ {c + 1} : version'[k] = version[k]
  PROVE  /\ Count' = c + 1
         /\ \A k \in Number : version'[k] = None => k > c + 1
  <1> DEFINE Last(n) == /\ n > 0 => version'[n] # None
                        /\ \A k \in Number : k > n => version'[k] = None
  <1>1. \A k \in Number : version'[k] # None <=> k <= c + 1
    <2> TAKE k \in Number
    <2>1. k \in Int /\ c \in Int
      BY Bounds DEF Number
    <2> QED
      BY <2>1 DEF Filled
  <1>2. c + 1 \in 0..MaxVersion
    BY Bounds DEF Number
  <1>3. Last(c + 1)
    BY <1>1, <1>2, Bounds DEF Number
  <1>4. \A n \in 0..MaxVersion : Last(n) => n = c + 1
    <2> SUFFICES ASSUME NEW n \in 0..MaxVersion, Last(n), n # c + 1 PROVE FALSE
      OBVIOUS
    <2>1. CASE n > c + 1
      <3>1. n \in Number
        BY <2>1, Bounds DEF Number
      <3> QED
        BY <2>1, <3>1, <1>1, Bounds
    <2>2. CASE n < c + 1
      BY <2>2, Bounds
    <2> QED
      BY <2>1, <2>2, Bounds
  <1>5. Count' = CHOOSE n \in 0..MaxVersion : Last(n)
    BY DEF Count
  <1>6. \A k \in Number : version'[k] = None => k > c + 1
    BY <1>1, <1>2, Bounds DEF Number
  <1> HIDE DEF Last
  <1> QED
    BY <1>2, <1>3, <1>4, <1>5, <1>6

\* A version that no job has made leaves the jobs made as they are.
LEMMA SameMade ==
  ASSUME ResumeInv, NEW c \in 0..MaxVersion, Filled(c), c + 1 \in Number,
         version'[c + 1] = Person,
         \A k \in Number \ {c + 1} : version'[k] = version[k]
  PROVE  MadeJobs' = MadeJobs
  <1>1. version[c + 1] = None
    BY Bounds DEF Filled, Number
  <1>2. \A j \in Job : (\E n \in Number : version'[n] = j) <=> \E n \in Number : version[n] = j
    BY <1>1
  <1> QED
    BY <1>2 DEF MadeJobs, Made

\* A step of VersionLog that appends.
LEMMA LogAppends ==
  ASSUME LogInv, NEW c \in 0..MaxVersion, Filled(c), c + 1 \in Number, Count' = c + 1,
         NEW a \in Job \cup {Person}, NEW shown,
         version' = [version EXCEPT ![c + 1] = a],
         artifact'.current = c + 1,
         \A j \in MadeJobs : file'[j] = file[j] /\ hash'[j] = hash[j],
         shown = IF a \in Job /\ file'[a].meta = hash'[a] THEN file'[a].content ELSE None
  PROVE  \A contents : shown \in contents => Log!AppendEntry(a, contents)
  <1>1. /\ LogView' = Append(LogView, [author |-> a, content |-> shown])
        /\ Len(LogView) = c
    BY ViewAppend DEF LogInv
  <1> QED
    BY <1>1 DEF Log!AppendEntry, Log!Entry, LogView

LEMMA AuthorsMade ==
  ASSUME ResumeInv, NEW j \in Job
  PROVE  Log!Appended(j) <=> Made(j)
  <1>1. PICK c \in 0..MaxVersion : Count = c /\ Filled(c)
    BY CountOf
  <1>2. Len(LogView) = c /\ \A n \in 1..c : LogView[n].author = version[n]
    BY <1>1, Bounds DEF LogView
  <1>3. Log!Appended(j) <=> \E n \in 1..c : version[n] = j
    BY <1>2 DEF Log!Appended, LogView
  <1>4. Made(j) <=> \E n \in 1..c : version[n] = j
    <2>1. \A n \in 1..c : n \in Number
      BY <1>1, Bounds DEF Number
    <2>2. \A n \in Number : version[n] = j => n \in 1..c
      BY <1>1, Bounds DEF Filled, Number
    <2> QED
      BY <2>1, <2>2 DEF Made
  <1> QED
    BY <1>3, <1>4

LEMMA AddVersionLog ==
  ASSUME LogInv, AddVersion
  PROVE  LogInv' /\ Log!PersonAppends
  <1>1. PICK c \in 0..MaxVersion : Count = c /\ Filled(c) /\ artifact.current <= c
    BY CountOf DEF LogInv
  <1>2. /\ c < MaxVersion /\ c + 1 \in Number
        /\ version' = [version EXCEPT ![c + 1] = Person]
        /\ artifact' = [artifact EXCEPT !.current = c + 1]
        /\ UNCHANGED <<hash, file, job, snapshot, review>>
    BY <1>1, Bounds DEF AddVersion, Number
  <1>3. ResumeInv'
    BY AddVersionStep DEF LogInv
  <1>4. /\ artifact'.current = c + 1
        /\ version'[c + 1] = Person
        /\ \A k \in Number \ {c + 1} : version'[k] = version[k]
    BY <1>2 DEF LogInv, ResumeInv, TypeOK, ArtifactRow
  <1>5. /\ Count' = c + 1
        /\ \A k \in Number : version'[k] = None => k > c + 1
    BY <1>1, <1>2, <1>4, CountAfter DEF LogInv
  <1>6. \A w \in Worker : LaterRun(run'[w], run[w])
    BY WrittenLater DEF LogInv, AddVersion
  <1>7. MadeJobs' = MadeJobs
    BY <1>1, <1>2, <1>4, SameMade DEF LogInv
  <1>8. LoadedBehind'
    <2>1. \A n \in Number : version'[n] = None => version[n] = None
      BY <1>4, NoneAssumption
    <2> QED
      BY <1>6, <2>1 DEF LogInv, LoadedBehind, LaterRun
  <1>9. Reported'
    BY <1>2, <1>7 DEF LogInv, Reported, JobAfter
  <1>10. Settled' = Settled /\ SettledStale'
    <2>1. Settled' = Settled
      BY <1>2 DEF Settled
    <2> QED
      BY <1>6, <2>1 DEF LogInv, SettledStale, LaterRun
  <1>11. Log!AppendEntry(Person, {None})
    <2>1. \A j \in MadeJobs : file'[j] = file[j] /\ hash'[j] = hash[j]
      BY <1>2
    <2>2. None = IF Person \in Job /\ file'[Person].meta = hash'[Person]
                 THEN file'[Person].content ELSE None
      OBVIOUS
    <2> QED
      BY <1>1, <1>2, <1>4, <1>5, <2>1, <2>2, LogAppends
  <1> QED
    BY <1>3, <1>8, <1>9, <1>10, <1>11 DEF LogInv, Log!PersonAppends, Settled

\* What the commit of w does to the rows, and to what the others know.
LEMMA CommitFacts ==
  ASSUME ResumeInv, NEW w \in Worker, NEW passed \in BOOLEAN, WriteBack(w, passed),
         run[w].pc \in {"finish", "replay"}
  PROVE  /\ job'[run[w].job] = JobAfter(run[w].job, passed)
         /\ \A j \in Job \ {run[w].job} : job'[j] = job[j]
         /\ run'[w] = Idle
         /\ \A x \in Worker \ {w} : LaterRun(run'[x], run[x])
         /\ run[w].staleArtifact => artifact' = artifact
         /\ artifact' = artifact \/ artifact'.current = snapshot[run[w].job].number
         /\ snapshot[run[w].job].number # run[w].art.current =>
              /\ artifact'.current = snapshot[run[w].job].number
              /\ \A x \in Worker \ {w} : run[x].pc # "idle" => run'[x].staleArtifact
  <1> DEFINE j == run[w].job
             after == ArtifactAfter(w, passed)
             changed == after # run[w].art
             jobChanged == j \in Document \/ JobAfter(j, passed) # job[j]
             next(x) == IF x = w THEN Idle
                        ELSE [run[x] EXCEPT
                                !.staleArtifact = @ \/ (changed /\ run[x].pc # "idle"),
                                !.staleJob = @ \/ (jobChanged /\ run[x].job = j)]
  <1>1. run \in [Worker -> RunRecord] /\ j \in Job
    BY RunTypes DEF ResumeInv, TypeOK, RunRecord
  <1>2. after.current = snapshot[j].number
    BY DEF ArtifactAfter
  <1>3. /\ artifact' = IF changed THEN after ELSE artifact
        /\ changed => ~run[w].staleArtifact
        /\ job' = [job EXCEPT ![j] = JobAfter(j, passed)]
        /\ run' = [x \in Worker |-> next(x)]
    BY DEF WriteBack, MayWrite
  <1>4. job'[j] = JobAfter(j, passed) /\ \A i \in Job \ {j} : job'[i] = job[i]
    BY <1>1, <1>3 DEF ResumeInv, TypeOK
  <1>5. snapshot[j].number # run[w].art.current => changed
    BY <1>2
  <1>6. changed \in BOOLEAN /\ jobChanged \in BOOLEAN
    OBVIOUS
  <1>7. next(w) = Idle
    OBVIOUS
  <1> HIDE DEF after, changed, jobChanged
  <1>8. \A x \in Worker \ {w} :
           LaterRun(next(x), run[x]) /\ (changed /\ run[x].pc # "idle" => next(x).staleArtifact)
    <2> TAKE x \in Worker \ {w}
    <2> DEFINE sa == run[x].staleArtifact \/ (changed /\ run[x].pc # "idle")
               sj == run[x].staleJob \/ (jobChanged /\ run[x].job = j)
    <2>1. run[x] \in RunRecord
      BY <1>1
    <2>2. next(x) = [run[x] EXCEPT !.staleArtifact = sa, !.staleJob = sj]
      BY <2>1 DEF RunRecord
    <2>3. /\ sa \in BOOLEAN /\ sj \in BOOLEAN /\ (run[x].staleArtifact => sa)
          /\ changed /\ run[x].pc # "idle" => sa
      OBVIOUS
    <2> HIDE DEF sa, sj, next
    <2> QED
      BY <2>1, <2>2, <2>3 DEF RunRecord, LaterRun
  <1> HIDE DEF next
  <1>9. \A x \in Worker : run'[x] = next(x)
    BY <1>3
  <1> QED
    BY <1>2, <1>3, <1>4, <1>5, <1>7, <1>8, <1>9

\* A later commit finds the version: it may move the artifact back to it, but not for a
\* workflow that has settled.
LEMMA ReplayLog ==
  ASSUME LogInv, NEW w \in Worker, Replay(w)
  PROVE  LogInv' /\ (Log!Next \/ UNCHANGED Log!vars)
  <1> DEFINE passed == review[run[w].job] = "passed"
  <1>1. /\ run[w].pc = "replay" /\ WriteBack(w, passed) /\ passed \in BOOLEAN
        /\ UNCHANGED <<version, hash, file, snapshot, review>>
    BY DEF Replay
  <1>2. PICK j \in Job : j = run[w].job /\ j \in MadeJobs
    BY <1>1, RunTypes DEF LogInv, RunOK
  <1>3. /\ job'[j] = JobAfter(j, passed)
        /\ \A i \in Job \ {j} : job'[i] = job[i]
        /\ run'[w] = Idle
        /\ \A x \in Worker \ {w} : LaterRun(run'[x], run[x])
        /\ run[w].staleArtifact => artifact' = artifact
        /\ artifact' = artifact \/ artifact'.current = snapshot[j].number
    BY <1>1, <1>2, CommitFacts DEF LogInv
  <1>4. ResumeInv'
    BY ReplayStep DEF LogInv
  <1>5. \A i \in Job \ Document : job'[i] = job[i]
    BY <1>2, <1>3 DEF LogInv, Reported
  <1>6. LogInv' /\ Settled' = Settled
    <2>1. \A x \in Worker, n \in Number : version[n] = None => run'[x].art.current < n
      <3>1. \A n \in Number : Idle.art.current < n
        BY Bounds DEF Idle, Number
      <3> QED
        BY <1>3, <3>1 DEF LogInv, LoadedBehind, LaterRun
    <2>2. \A x \in Worker :
            run'[x].pc # "idle" /\ run'[x].job \in Settled => run'[x].staleArtifact
      BY <1>3, IdleOK DEF LogInv, SettledStale, LaterRun
    <2>3. \A i \in MadeJobs : snapshot'[i] = snapshot[i]
      BY <1>1
    <2> HIDE DEF passed
    <2> QED
      BY <1>1, <1>4, <1>5, <2>1, <2>2, <2>3, LogInvKept
  <1>7. LogView' = LogView
    BY <1>1, ViewKept DEF LogInv
  <1>8. CASE artifact' = artifact
    BY <1>6, <1>7, <1>8, LogStutter
  <1>9. CASE artifact' # artifact
    <2>1. j \notin Settled
      BY <1>1, <1>2, <1>3, <1>9 DEF LogInv, SettledStale
    <2>2. PICK n \in 1..Len(LogView) : LogView[n].author = j /\ artifact'.current = n
      <3>1. PICK n \in Number : version[n] = j
        BY <1>2 DEF MadeJobs, Made
      <3>2. snapshot[j].number = n
        BY <3>1 DEF LogInv, ResumeInv, Numbered, Targets
      <3>3. PICK c \in 0..MaxVersion : Count = c /\ Filled(c)
        BY CountOf DEF LogInv
      <3>4. n \in 1..c
        BY <3>1, <3>3, Bounds DEF Filled, Number
      <3>5. Len(LogView) = c /\ LogView[n].author = j
        BY <3>1, <3>3, <3>4, Bounds DEF LogView
      <3> QED
        BY <1>3, <1>9, <3>2, <3>4, <3>5
    <2>3. Log!Revisit(j)
      BY <1>6, <1>7, <2>1, <2>2 DEF Log!Revisit, LogView, Settled
    <2> QED
      BY <1>6, <2>3 DEF Log!Next
  <1> QED
    BY <1>8, <1>9

\* The first commit appends the job's version, which is newer than what anybody has loaded.
LEMMA FinishLog ==
  ASSUME LogInv, NEW w \in Worker, NEW passed \in BOOLEAN, Finish(w, passed)
  PROVE  LogInv' /\ Log!Next
  <1>1. /\ run[w].pc = "finish" /\ WriteBack(w, passed)
        /\ ~Made(run[w].job) /\ version[snapshot[run[w].job].number] = None
        /\ version' = [version EXCEPT ![snapshot[run[w].job].number] = run[w].job]
        /\ hash' = [hash EXCEPT ![run[w].job] = run[w].answer]
        /\ UNCHANGED <<file, snapshot>>
    BY DEF Finish, Insertable
  <1>2. PICK j \in Job, a \in Content : j = run[w].job /\ a = run[w].answer
    BY <1>1, RunTypes DEF LogInv, RunOK
  <1>3. /\ snapshot[j].number # 0 /\ snapshot[j].number \in 0..MaxVersion
        /\ file[j].content = a /\ file[j].meta = a
    BY <1>1, <1>2, RunTypes DEF LogInv, RunOK, ResumeInv, TypeOK
  <1>4. PICK c \in 0..MaxVersion :
          Count = c /\ Filled(c) /\ \A i \in Job : snapshot[i].number <= c + 1
    BY CountOf DEF LogInv
  <1>5. c + 1 \in Number /\ snapshot[j].number = c + 1
    BY <1>1, <1>2, <1>3, <1>4, Bounds DEF Filled, Number
  <1>6. /\ version' = [version EXCEPT ![c + 1] = j]
        /\ version[c + 1] = None
        /\ version'[c + 1] = j
        /\ \A k \in Number \ {c + 1} : version'[k] = version[k]
    BY <1>1, <1>2, <1>5 DEF LogInv, ResumeInv, TypeOK
  <1>7. /\ hash'[j] = a /\ \A i \in Job \ {j} : hash'[i] = hash[i]
    BY <1>1, <1>2 DEF LogInv, ResumeInv, TypeOK
  <1>8. run[w].art.current < c + 1
    BY <1>5, <1>6 DEF LogInv, LoadedBehind
  <1>9. run[w].art.current \in Int /\ c \in Int
    BY RunTypes, Bounds DEF LogInv, RunRecord, ArtifactRow
  <1>10. /\ job'[j] = JobAfter(j, passed)
         /\ \A i \in Job \ {j} : job'[i] = job[i]
         /\ run'[w] = Idle
         /\ \A x \in Worker \ {w} : LaterRun(run'[x], run[x])
         /\ artifact'.current = c + 1
         /\ \A x \in Worker \ {w} : run[x].pc # "idle" => run'[x].staleArtifact
    <2>1. snapshot[j].number # run[w].art.current
      BY <1>5, <1>8, <1>9
    <2> QED
      BY <1>1, <1>2, <1>5, <2>1, CommitFacts DEF LogInv
  <1>11. ResumeInv'
    BY FinishStep DEF LogInv
  <1>12. j \notin MadeJobs /\ MadeJobs' = MadeJobs \cup {j}
    <2>1. \A i \in Job \ {j} : (\E k \in Number : version'[k] = i) <=> \E k \in Number : version[k] = i
      BY <1>6
    <2>2. \E k \in Number : version'[k] = j
      BY <1>5, <1>6
    <2> QED
      BY <1>1, <1>2, <2>1, <2>2 DEF MadeJobs, Made
  <1>13. Count' = c + 1
    <2>1. j # None
      OBVIOUS
    <2> QED
      BY <1>4, <1>5, <1>6, <2>1, CountAfter DEF LogInv
  <1>14. LoadedBehind'
    <2>1. \A n \in Number : version'[n] = None => version[n] = None
      BY <1>6
    <2>2. \A n \in Number : Idle.art.current < n
      BY Bounds DEF Idle, Number
    <2> QED
      BY <1>10, <2>1, <2>2 DEF LogInv, LoadedBehind, LaterRun
  <1>15. Reported'
    <2>1. ASSUME j \notin Document
          PROVE  (review'[j] = "passed") = passed
      BY <1>2, <2>1 DEF Finish, LogInv, ResumeInv, TypeOK
    <2>2. \A i \in Job \ {j} : review'[i] = review[i]
      BY <1>2 DEF Finish, LogInv, ResumeInv, TypeOK
    <2>3. \A i \in Job : \A p : JobAfter(i, p)' = JobAfter(i, p)
      BY <1>1 DEF JobAfter
    <2> QED
      BY <1>10, <1>12, <2>1, <2>2, <2>3 DEF LogInv, Reported
  <1>16. Settled' \in {Settled, Settled \cup {j}}
    <2>1. \A i \in Job \ {j} : i \in Settled' <=> i \in Settled
      BY <1>10 DEF Settled
    <2>2. j \notin Settled
      BY <1>12 DEF LogInv, Reported, Settled
    <2>3. Settled \subseteq Job /\ Settled' \subseteq Job
      BY DEF Settled
    <2> QED
      BY <2>1, <2>2, <2>3
  <1>17. SettledStale'
    BY <1>10, IdleOK DEF SettledStale, LaterRun
  <1>18. Log!AppendEntry(j, Content)
    <2>1. \A i \in MadeJobs : file'[i] = file[i] /\ hash'[i] = hash[i]
      BY <1>1, <1>7, <1>12 DEF MadeJobs
    <2>2. a = IF j \in Job /\ file'[j].meta = hash'[j] THEN file'[j].content ELSE None
      BY <1>1, <1>3, <1>7
    <2> QED
      BY <1>4, <1>5, <1>6, <1>10, <1>13, <2>1, <2>2, LogAppends
  <1>19. ~Log!Appended(j)
    BY <1>12, AuthorsMade DEF LogInv, MadeJobs
  <1>20. Log!JobAppends(j)
    BY <1>16, <1>18, <1>19 DEF Log!JobAppends, Settled
  <1> QED
    BY <1>11, <1>14, <1>15, <1>17, <1>20 DEF LogInv, Log!Next

LEMMA InitLog == Init => LogInv /\ Log!Init
  <1> SUFFICES ASSUME Init PROVE LogInv /\ Log!Init
    OBVIOUS
  <1>1. ResumeInv
    BY InitInv
  <1>2. MadeJobs = {} /\ Settled = {}
    BY DEF Init, MadeJobs, Made, Settled
  <1>3. LoadedBehind /\ Reported /\ SettledStale
    BY <1>2, IdleOK, Bounds
       DEF Init, LoadedBehind, Reported, SettledStale, Settled, Idle, Number
  <1>4. Count = 1
    <2>1. 1 \in 0..MaxVersion /\ Filled(1)
      BY Bounds DEF Init, Filled, Number
    <2> QED
      BY <2>1, CountIs
  <1>5. LogView = <<[author |-> Person, content |-> None]>>
    <2>1. version[1] = Person /\ Shown(Person) = None
      BY Bounds DEF Init, Shown
    <2> QED
      BY <1>4, <2>1 DEF LogView
  <1>6. artifact.current = 1
    BY DEF Init
  <1> QED
    BY <1>1, <1>2, <1>3, <1>5, <1>6 DEF LogInv, Log!Init, Log!Entry, LogView, Settled

LEMMA NextLog == LogInv /\ [Next]_vars => LogInv' /\ [Log!Next]_(Log!vars)
  <1> SUFFICES ASSUME LogInv, [Next]_vars PROVE LogInv' /\ (Log!Next \/ UNCHANGED Log!vars)
    OBVIOUS
  <1>1. CASE AddVersion
    BY <1>1, AddVersionLog DEF Log!Next
  <1>2. CASE ToHumanReview \/ \E decision \in {"approved", "revision_requested"} : Decide(decision)
    BY <1>2, StatusLog
  <1>3. CASE \E j \in Job, last \in BOOLEAN : TakeSnapshot(j, last)
    BY <1>3, SnapshotLog
  <1>4. CASE \E j \in Job : Block(j)
    BY <1>4, BlockLog
  <1>5. CASE \E w \in Worker : \E j \in Job : Begin(w, j)
    BY <1>5, BeginLog
  <1>6. CASE \E w \in Worker :
               \/ Reserve(w)
               \/ \E a \in Content : Produce(w, a)
               \/ PutContent(w)
               \/ PutMetadata(w)
               \/ Abort(w)
    BY <1>6, WorkLog
  <1>7. CASE \E w \in Worker : \E passed \in BOOLEAN : Finish(w, passed)
    BY <1>7, FinishLog
  <1>8. CASE \E w \in Worker : Replay(w)
    BY <1>8, ReplayLog
  <1>9. CASE UNCHANGED vars
    <2>1. UNCHANGED <<artifact, version, hash, file, job, snapshot, review, run>>
      BY <1>9 DEF vars
    <2>2. ResumeInv'
      BY <1>9, StutterStep DEF LogInv
    <2>3. \A w \in Worker : LaterRun(run'[w], run[w])
      BY <2>1 DEF LaterRun
    <2> QED
      BY <2>1, <2>2, <2>3, QuietLog
  <1> QED
    BY <1>1, <1>2, <1>3, <1>4, <1>5, <1>6, <1>7, <1>8, <1>9 DEF Next

\* workflows.py, documents.py and storage.py together: for the versions of an artifact, all
\* executions of a job are one, which appends a version whose content never changes; a
\* workflow that is completed or escalated is never seen again.
THEOREM LogImplemented == Spec => ImplementsLog
  BY InitLog, NextLog, PTL DEF Spec, ImplementsLog, Log!Spec
=============================================================================
