---------------------------- MODULE ComputationProofs ----------------------------
(***************************************************************************)
(* Proofs about what the code computes, for every value of the constants.  *)
(*                                                                         *)
(* EstimateDocuments (extended): the amounts of an estimate and the        *)
(* documents of a project.  SumFunction is an iteration over the subsets   *)
(* of its domain; each fact about it is proved from a smallest set that    *)
(* violates it, because the theorems of induction take an operator.        *)
(*                                                                         *)
(* Rules (extended): when a notification is delivered, what the security   *)
(* gate says of a plan, how many minutes are billed.  The two modules      *)
(* share no variable.                                                      *)
(***************************************************************************)
EXTENDS EstimateDocuments, Rules, FiniteSetTheorems, WellFoundedInduction, TLAPS

-----------------------------------------------------------------------------
(* Induction over finite sets. *)

\* Among the sets of a non-empty family of finite sets one contains no other of the family.
LEMMA MinimalSet ==
  ASSUME NEW D, IsFiniteSet(D), NEW Bad \in SUBSET (SUBSET D), Bad # {}
  PROVE  \E s \in Bad : \A t \in SUBSET s : t # s => t \notin Bad
  <1> DEFINE R == StrictSubsetOrdering(D)
  <1>1. IsWellFoundedOn(R, FiniteSubsetsOf(D))
    BY FS_StrictSubsetOrderingWellFounded
  <1>2. Bad \subseteq FiniteSubsetsOf(D)
    BY FS_Subset DEF FiniteSubsetsOf
  <1>3. \A s, t \in SUBSET D : t \subseteq s /\ t # s => <<t, s>> \in R
    BY DEF StrictSubsetOrdering
  <1> HIDE DEF R
  <1>4. PICK s \in Bad : \A t \in Bad : <<t, s>> \notin R
    BY <1>1, <1>2, WFMin
  <1> QED
    BY <1>3, <1>4

-----------------------------------------------------------------------------
(* Sums over finite sets. *)

Total(f, S) == SumFunctionOnSet(f, S)

Chosen(s) == CHOOSE x \in s : TRUE

\* The equation that defines the iteration behind SumFunctionOnSet.
Sums(g, f, S) ==
    g = [s \in SUBSET S |-> IF s = {} THEN 0 ELSE f[Chosen(s)] + g[s \ {Chosen(s)}]]

LEMMA TotalIsIteration ==
  ASSUME NEW f, NEW S, NEW h, Sums(h, f, S), \A g : Sums(g, f, S) => g = h
  PROVE  Total(f, S) = h[S]
  <1>1. Total(f, S) = (CHOOSE g : Sums(g, f, S))[S]
    BY DEF Total, SumFunctionOnSet, FoldFunctionOnSet, MapThenFoldSet, Sums, Chosen
  <1>2. (CHOOSE g : Sums(g, f, S)) = h
    OBVIOUS
  <1> QED
    BY <1>1, <1>2

LEMMA ChosenIn == ASSUME NEW s, s # {} PROVE Chosen(s) \in s
  BY DEF Chosen

Recursive(f, s) ==
    Total(f, s) = IF s = {} THEN 0 ELSE f[Chosen(s)] + Total(f, s \ {Chosen(s)})

Unique(f, s) ==
    \A g : Sums(g, f, s) => g = [t \in SUBSET s |-> Total(f, t)]

LEMMA TotalStep ==
  ASSUME NEW f, NEW D, \A s \in SUBSET D : s # D => Recursive(f, s) /\ Unique(f, s)
  PROVE  Recursive(f, D) /\ Unique(f, D)
  <1> DEFINE top == IF D = {} THEN 0 ELSE f[Chosen(D)] + Total(f, D \ {Chosen(D)})
             h == [s \in SUBSET D |-> IF s = D THEN top ELSE Total(f, s)]
  <1>1. D # {} => D \ {Chosen(D)} \in SUBSET D /\ D \ {Chosen(D)} # D
    BY ChosenIn
  <1>2. \A s \in SUBSET D : s # {} => s \ {Chosen(s)} \in SUBSET D /\ s \ {Chosen(s)} # D
    BY ChosenIn
  <1>3. Sums(h, f, D)
    <2> DEFINE k == [s \in SUBSET D |-> IF s = {} THEN 0 ELSE f[Chosen(s)] + h[s \ {Chosen(s)}]]
    <2>1. ASSUME NEW s \in SUBSET D PROVE h[s] = k[s]
      <3>1. CASE s = D
        BY <3>1, <1>1
      <3>2. CASE s # D
        <4>1. Total(f, s) = IF s = {} THEN 0 ELSE f[Chosen(s)] + Total(f, s \ {Chosen(s)})
          BY <3>2 DEF Recursive
        <4>2. s # {} => h[s \ {Chosen(s)}] = Total(f, s \ {Chosen(s)})
          BY <1>2
        <4> QED
          BY <3>2, <4>1, <4>2
      <3> QED
        BY <3>1, <3>2
    <2>2. h = k
      BY <2>1
    <2> QED
      BY <2>2 DEF Sums
  <1>4. ASSUME NEW g, Sums(g, f, D)
        PROVE  g = h
    <2>1. g = [s \in SUBSET D |-> IF s = {} THEN 0 ELSE f[Chosen(s)] + g[s \ {Chosen(s)}]]
      BY <1>4 DEF Sums
    <2>2. ASSUME NEW s \in SUBSET D, s # D
          PROVE  g[s] = Total(f, s)
      <3> DEFINE r == [t \in SUBSET s |-> g[t]]
      <3>1. \A t \in SUBSET s : t \in SUBSET D
        BY <2>2
      <3>2. Sums(r, f, s)
        <4> DEFINE k == [t \in SUBSET s |-> IF t = {} THEN 0 ELSE f[Chosen(t)] + r[t \ {Chosen(t)}]]
        <4>1. ASSUME NEW t \in SUBSET s PROVE r[t] = k[t]
          <5>1. t \ {Chosen(t)} \in SUBSET s
            OBVIOUS
          <5>2. g[t] = IF t = {} THEN 0 ELSE f[Chosen(t)] + g[t \ {Chosen(t)}]
            BY <2>1, <3>1
          <5> QED
            BY <5>1, <5>2
        <4>2. r = k
          BY <4>1
        <4> QED
          BY <4>2 DEF Sums
      <3>3. r = [t \in SUBSET s |-> Total(f, t)]
        BY <2>2, <3>2 DEF Unique
      <3> QED
        BY <3>3
    <2>3. g[D] = top
      <3>1. D # {} => g[D \ {Chosen(D)}] = Total(f, D \ {Chosen(D)})
        BY <1>1, <2>2
      <3>2. g[D] = IF D = {} THEN 0 ELSE f[Chosen(D)] + g[D \ {Chosen(D)}]
        BY <2>1
      <3> QED
        BY <3>1, <3>2
    <2>4. \A s \in SUBSET D : g[s] = h[s]
      BY <2>2, <2>3
    <2>5. g = [s \in SUBSET D |-> g[s]]
      BY <2>1
    <2> QED
      BY <2>4, <2>5
  <1>5. Total(f, D) = h[D]
    BY <1>3, <1>4, TotalIsIteration
  <1>6. h = [s \in SUBSET D |-> Total(f, s)]
    BY <1>5
  <1> QED
    BY <1>4, <1>5, <1>6 DEF Recursive, Unique

LEMMA TotalRecursion ==
  ASSUME NEW f, NEW D, IsFiniteSet(D)
  PROVE  Recursive(f, D)
  <1> DEFINE Bad == {s \in SUBSET D : ~(Recursive(f, s) /\ Unique(f, s))}
  <1>1. Bad = {}
    <2> SUFFICES ASSUME Bad # {} PROVE FALSE
      OBVIOUS
    <2>0. Bad \in SUBSET (SUBSET D)
      OBVIOUS
    <2>1. PICK s \in Bad : \A t \in SUBSET s : t # s => t \notin Bad
      <3> HIDE DEF Bad
      <3> QED
        BY <2>0, MinimalSet
    <2>2. \A t \in SUBSET s : t # s => Recursive(f, t) /\ Unique(f, t)
      BY <2>1
    <2> QED
      BY <2>2, TotalStep
  <1> QED
    BY <1>1

LEMMA TotalEmpty == ASSUME NEW f PROVE Total(f, {}) = 0
  BY TotalRecursion, FS_EmptySet DEF Recursive

LEMMA TotalType ==
  ASSUME NEW D, IsFiniteSet(D), NEW f, \A x \in D : f[x] \in Int
  PROVE  Total(f, D) \in Int
  <1> DEFINE Bad == {s \in SUBSET D : Total(f, s) \notin Int}
  <1>1. Bad = {}
    <2> SUFFICES ASSUME Bad # {} PROVE FALSE
      OBVIOUS
    <2>0. Bad \in SUBSET (SUBSET D)
      OBVIOUS
    <2>1. PICK s \in Bad : \A t \in SUBSET s : t # s => t \notin Bad
      <3> HIDE DEF Bad
      <3> QED
        BY <2>0, MinimalSet
    <2>2. Recursive(f, s)
      BY FS_Subset, TotalRecursion
    <2>3. CASE s = {}
      BY <2>2, <2>3 DEF Recursive
    <2>4. CASE s # {}
      <3>1. Chosen(s) \in s
        BY <2>4, ChosenIn
      <3>2. Total(f, s \ {Chosen(s)}) \in Int
        BY <2>1, <3>1
      <3>3. f[Chosen(s)] \in Int
        BY <3>1
      <3> QED
        BY <2>2, <2>4, <3>2, <3>3 DEF Recursive
    <2> QED
      BY <2>3, <2>4
  <1> QED
    BY <1>1

\* Any element can be taken out first.
LEMMA TotalRemove ==
  ASSUME NEW D, IsFiniteSet(D), NEW f, \A x \in D : f[x] \in Int
  PROVE  \A x \in D : Total(f, D) = f[x] + Total(f, D \ {x})
  <1> DEFINE Bad == {s \in SUBSET D : ~\A x \in s : Total(f, s) = f[x] + Total(f, s \ {x})}
  <1>1. Bad = {}
    <2> SUFFICES ASSUME Bad # {} PROVE FALSE
      OBVIOUS
    <2>0. Bad \in SUBSET (SUBSET D)
      OBVIOUS
    <2>1. PICK s \in Bad : \A t \in SUBSET s : t # s => t \notin Bad
      <3> HIDE DEF Bad
      <3> QED
        BY <2>0, MinimalSet
    <2>2. PICK x \in s : Total(f, s) # f[x] + Total(f, s \ {x})
      BY <2>1
    <2> DEFINE c == Chosen(s)
    <2>3. c \in s
      BY <2>2, ChosenIn
    <2>4. Total(f, s) = f[c] + Total(f, s \ {c})
      BY <2>2, FS_Subset, TotalRecursion DEF Recursive
    <2>5. c # x
      BY <2>2, <2>4
    <2> HIDE DEF c
    <2>6. s \ {c} \notin Bad /\ s \ {x} \notin Bad
      BY <2>1, <2>2, <2>3
    <2>7. Total(f, s \ {c}) = f[x] + Total(f, (s \ {c}) \ {x})
      BY <2>2, <2>5, <2>6
    <2>8. Total(f, s \ {x}) = f[c] + Total(f, (s \ {x}) \ {c})
      BY <2>3, <2>5, <2>6
    <2>9. (s \ {c}) \ {x} = (s \ {x}) \ {c}
      OBVIOUS
    <2>10. /\ f[x] \in Int /\ f[c] \in Int
           /\ Total(f, (s \ {c}) \ {x}) \in Int
      <3>1. IsFiniteSet((s \ {c}) \ {x})
        BY FS_Subset
      <3> QED
        BY <2>2, <2>3, <3>1, TotalType
    <2>11. Total(f, (s \ {x}) \ {c}) = Total(f, (s \ {c}) \ {x})
      BY <2>9
    <2> HIDE DEF Bad
    <2> QED
      BY <2>2, <2>4, <2>7, <2>8, <2>10, <2>11
  <1> QED
    BY <1>1

\* What adds nothing can be left out, and only the values count.
LEMMA TotalKept ==
  ASSUME NEW D, IsFiniteSet(D), NEW E \in SUBSET D, NEW f, NEW g,
         \A x \in D : f[x] \in Int,
         \A x \in D \ E : f[x] = 0,
         \A x \in E : g[x] = f[x]
  PROVE  Total(f, D) = Total(g, E)
  <1> DEFINE Bad == {s \in SUBSET D : Total(f, s) # Total(g, s \cap E)}
  <1>1. Bad = {}
    <2> SUFFICES ASSUME Bad # {} PROVE FALSE
      OBVIOUS
    <2>0. Bad \in SUBSET (SUBSET D)
      OBVIOUS
    <2>1. PICK s \in Bad : \A t \in SUBSET s : t # s => t \notin Bad
      <3> HIDE DEF Bad
      <3> QED
        BY <2>0, MinimalSet
    <2>2. s # {}
      BY <2>1, TotalEmpty
    <2>3. PICK x \in s : TRUE
      BY <2>2
    <2>4. IsFiniteSet(s) /\ IsFiniteSet(s \cap E)
      BY FS_Subset
    <2>5. Total(f, s) = f[x] + Total(f, s \ {x})
      BY <2>4, TotalRemove
    <2>6. Total(f, s \ {x}) = Total(g, (s \ {x}) \cap E)
      BY <2>1
    <2>7. Total(g, (s \ {x}) \cap E) \in Int
      BY <2>6, <2>4, FS_Subset, TotalType
    <2>8. CASE x \in E
      <3>1. Total(g, s \cap E) = g[x] + Total(g, (s \cap E) \ {x})
        BY <2>4, <2>8, TotalRemove
      <3>2. (s \cap E) \ {x} = (s \ {x}) \cap E
        OBVIOUS
      <3> QED
        BY <2>1, <2>5, <2>6, <2>8, <3>1, <3>2
    <2>9. CASE x \notin E
      <3>1. s \cap E = (s \ {x}) \cap E
        BY <2>9
      <3>2. f[x] = 0
        BY <2>9
      <3> QED
        BY <2>1, <2>5, <2>6, <2>7, <3>1, <3>2
    <2> QED
      BY <2>8, <2>9
  <1>2. D \cap E = E
    OBVIOUS
  <1>3. D \notin Bad
    BY <1>1
  <1> QED
    BY <1>2, <1>3

LEMMA SumIsTotal ==
  ASSUME NEW S, NEW f, DOMAIN f = S
  PROVE  SumFunction(f) = Total(f, S)
  BY DEF SumFunction, Total

-----------------------------------------------------------------------------
(* The inductive invariant. *)

\* The items of an estimate are finitely many, nothing is charged that the client has given
\* an item for, and a committed estimate shows what its items amount to.
RowSound(row) ==
    /\ IsFiniteSet(row.given) /\ IsFiniteSet(row.runs) /\ IsFiniteSet(row.artifacts)
    /\ \A i \in row.given : i.names \notin row.runs \cup row.artifacts
    /\ row.status \notin {"none"} \cup Creating =>
         /\ row.subtotal = Subtotal(row)
         /\ row.tax = Tax(row.subtotal)
         /\ row.total = row.subtotal + row.tax

\* A request of the payload had not been completed when another one began.
BeforeDiffers == \A a, b \in Attempt : a \in attempt[b].before => ~SamePayload(a, b)

EstimateInv ==
    /\ TypeOK
    /\ IsFiniteSet(completed) /\ IsFiniteSet(artifacts)
    /\ \A e \in Estimate : RowSound(estimate[e])
    /\ BeforeDiffers

LEMMA PriceType ==
  ASSUME TypeOK, NEW a \in Artifact
  PROVE  ArtifactPrice(ArtifactType(a)) \in Nat
  <1>1. ArtifactType(a) \in Type
    <2>1. CASE a \in Upload
      BY <2>1 DEF ArtifactType, Type
    <2>2. CASE a \notin Upload
      <3>1. attempt[a].source \in Source
        BY <2>2 DEF TypeOK, AttemptRow, Artifact
      <3>2. attempt[a].source[1] \in {"estimate", "contract", "basic_design"}
        BY <3>1 DEF Source
      <3> QED
        BY <2>2, <3>2 DEF ArtifactType, Type
    <2> QED
      BY <2>1, <2>2
  <1>2. ASSUME NEW type \in Type
        PROVE  ArtifactPrice(type) \in Nat
    BY PricesAssumption DEF ArtifactPrice
  <1> QED
    BY <1>1, <1>2

\* The price of an artifact does not change: a request keeps its source.
LEMMA PriceKept ==
  ASSUME \A a \in Attempt : attempt'[a].source = attempt[a].source,
         NEW a \in Artifact
  PROVE  ArtifactPrice(ArtifactType(a))' = ArtifactPrice(ArtifactType(a))
  <1>1. a \in Upload \/ attempt'[a].source = attempt[a].source
    BY DEF Artifact
  <1>2. ArtifactType(a)' = ArtifactType(a)
    BY <1>1 DEF ArtifactType
  <1> QED
    BY <1>2 DEF ArtifactPrice

LEMMA GivenTyped ==
  ASSUME NEW row \in EstimateRow
  PROVE  \A i \in row.given : i.amount \in Int /\ i.tax \in BOOLEAN
  BY InputAssumption DEF EstimateRow, Item

LEMMA SubtotalType ==
  ASSUME TypeOK, NEW row \in EstimateRow, RowSound(row)
  PROVE  Subtotal(row) \in Int
  <1> DEFINE G == {j \in row.given : ~j.tax}
             f == [i \in G |-> i.amount]
             g == [r \in row.runs |-> Cost[r]]
             h == [a \in row.artifacts |-> ArtifactPrice(ArtifactType(a))]
  <1>1. IsFiniteSet(G) /\ IsFiniteSet(row.runs) /\ IsFiniteSet(row.artifacts)
    BY FS_Subset DEF RowSound
  <1>2. SumFunction(f) \in Int
    <2>1. \A i \in G : f[i] \in Int
      BY GivenTyped
    <2> HIDE DEF G
    <2>2. Total(f, G) \in Int
      <3>1. DOMAIN f = G
        OBVIOUS
      <3> HIDE DEF f
      <3> QED
        BY <1>1, <2>1, TotalType
    <2> QED
      BY <2>2, SumIsTotal
  <1>3. SumFunction(g) \in Int
    <2>1. \A r \in row.runs : g[r] \in Int
      BY PricesAssumption DEF EstimateRow
    <2>2. DOMAIN g = row.runs
      OBVIOUS
    <2> HIDE DEF g
    <2> QED
      BY <1>1, <2>1, <2>2, TotalType, SumIsTotal
  <1>4. SumFunction(h) \in Int
    <2>1. \A a \in row.artifacts : h[a] \in Int
      BY PriceType DEF EstimateRow
    <2>2. DOMAIN h = row.artifacts
      OBVIOUS
    <2> HIDE DEF h
    <2> QED
      BY <1>1, <2>1, <2>2, TotalType, SumIsTotal
  <1>5. Subtotal(row) = SumFunction(f) + SumFunction(g) + SumFunction(h)
    BY DEF Subtotal
  <1> HIDE DEF f, g, h
  <1> QED
    BY <1>2, <1>3, <1>4, <1>5

-----------------------------------------------------------------------------
(* Each step keeps the invariant. *)

LEMMA InitEstimates == Init => EstimateInv
  <1> SUFFICES ASSUME Init PROVE EstimateInv
    OBVIOUS
  <1>1. NoEstimate \in EstimateRow
    BY DEF NoEstimate, EstimateRow
  <1>2. TypeOK
    BY <1>1 DEF Init, TypeOK, AttemptRow
  <1>3. RowSound(NoEstimate)
    BY FS_EmptySet DEF RowSound, NoEstimate
  <1>4. BeforeDiffers
    BY DEF Init, BeforeDiffers
  <1> QED
    BY <1>2, <1>3, <1>4, FS_EmptySet DEF Init, EstimateInv

\* A step that writes one estimate.
LEMMA PutStep ==
  ASSUME EstimateInv, NEW e \in Estimate, NEW q \in EstimateRow, RowSound(q), Put(e, q)
  PROVE  EstimateInv'
  <1>1. /\ UNCHANGED <<completed, artifacts, contract, attempt, stored>>
        /\ estimate' \in [Estimate -> EstimateRow]
        /\ estimate'[e] = q
        /\ \A d \in Estimate \ {e} : estimate'[d] = estimate[d]
    BY DEF Put, EstimateInv, TypeOK
  <1>2. TypeOK'
    BY <1>1 DEF EstimateInv, TypeOK
  <1>3. ASSUME NEW d \in Estimate
        PROVE  RowSound(estimate[d])'
    <2>1. RowSound(estimate'[d]) /\ estimate'[d] \in EstimateRow
      BY <1>1 DEF EstimateInv
    <2>2. Subtotal(estimate[d])' = Subtotal(estimate'[d])
      BY <1>1 DEF Subtotal, ArtifactType
    <2> QED
      BY <2>1, <2>2 DEF RowSound
  <1>4. BeforeDiffers'
    BY <1>1 DEF EstimateInv, BeforeDiffers, SamePayload
  <1> QED
    BY <1>1, <1>2, <1>3, <1>4 DEF EstimateInv

\* A step that leaves the estimates alone.
LEMMA DocumentStep ==
  ASSUME EstimateInv, TypeOK', estimate' = estimate,
         IsFiniteSet(completed'), IsFiniteSet(artifacts'),
         \A a \in Attempt : /\ attempt'[a].source = attempt[a].source
                            /\ attempt'[a].format = attempt[a].format,
         \A a, b \in Attempt : a \in attempt'[b].before => ~SamePayload(a, b)
  PROVE  EstimateInv'
  <1>1. ASSUME NEW e \in Estimate
        PROVE  RowSound(estimate[e])'
    <2>1. RowSound(estimate[e]) /\ estimate[e] \in EstimateRow
      BY DEF EstimateInv, TypeOK
    <2>2. Subtotal(estimate[e])' = Subtotal(estimate[e])
      <3>1. \A a \in estimate[e].artifacts :
              ArtifactPrice(ArtifactType(a))' = ArtifactPrice(ArtifactType(a))
        BY <2>1, PriceKept DEF EstimateRow
      <3>2. [a \in estimate'[e].artifacts |-> ArtifactPrice(ArtifactType(a))']
              = [a \in estimate[e].artifacts |-> ArtifactPrice(ArtifactType(a))]
        BY <3>1
      <3> QED
        BY <3>2 DEF Subtotal
    <2> QED
      BY <2>1, <2>2 DEF RowSound
  <1>2. BeforeDiffers'
    BY DEF BeforeDiffers, SamePayload
  <1> QED
    BY <1>1, <1>2 DEF EstimateInv

LEMMA CompleteRunStep ==
  ASSUME EstimateInv, NEW r \in Run, CompleteRun(r)
  PROVE  EstimateInv'
  <1>1. TypeOK'
    BY DEF EstimateInv, TypeOK, CompleteRun
  <1>2. IsFiniteSet(completed') /\ IsFiniteSet(artifacts')
    BY FS_AddElement DEF EstimateInv, CompleteRun
  <1> QED
    BY <1>1, <1>2, DocumentStep DEF EstimateInv, BeforeDiffers, CompleteRun

LEMMA CreateArtifactStep ==
  ASSUME EstimateInv, NEW a \in Upload, CreateArtifact(a)
  PROVE  EstimateInv'
  <1>1. TypeOK'
    BY DEF EstimateInv, TypeOK, CreateArtifact, Artifact
  <1>2. IsFiniteSet(completed') /\ IsFiniteSet(artifacts')
    BY FS_AddElement DEF EstimateInv, CreateArtifact
  <1> QED
    BY <1>1, <1>2, DocumentStep DEF EstimateInv, BeforeDiffers, CreateArtifact

LEMMA AttemptKnown ==
  ASSUME TypeOK, NEW a \in Attempt
  PROVE  attempt[a] \in AttemptRow
  BY DEF TypeOK

LEMMA BeginStep ==
  ASSUME EstimateInv, NEW a \in Attempt, Begin(a)
  PROVE  EstimateInv'
  <1> DEFINE q == IF ~Generated(a) /\ Available(attempt[a].source)
                  THEN [attempt[a] EXCEPT !.status = "processing", !.before = Finished]
                  ELSE [attempt[a] EXCEPT !.status = "refused"]
  <1>1. /\ q \in AttemptRow
        /\ q.source = attempt[a].source /\ q.format = attempt[a].format
        /\ q.before = attempt[a].before \/ (q.before = Finished /\ ~Generated(a))
    <2>1. attempt[a] \in AttemptRow /\ Finished \in SUBSET Attempt
      BY AttemptKnown DEF EstimateInv, Finished
    <2>2. CASE ~Generated(a) /\ Available(attempt[a].source)
      <3>1. q = [attempt[a] EXCEPT !.status = "processing", !.before = Finished]
        BY <2>2
      <3> HIDE DEF q
      <3> QED
        BY <2>1, <2>2, <3>1 DEF AttemptRow
    <2>3. CASE ~(~Generated(a) /\ Available(attempt[a].source))
      <3>1. q = [attempt[a] EXCEPT !.status = "refused"]
        BY <2>3
      <3> HIDE DEF q
      <3>2. /\ q.source = attempt[a].source /\ q.format = attempt[a].format
            /\ q.before = attempt[a].before
        BY <2>1, <3>1 DEF AttemptRow
      <3>3. q \in AttemptRow
        BY <2>1, <3>1 DEF AttemptRow
      <3> QED
        BY <3>2, <3>3
    <2> QED
      BY <2>2, <2>3
  <1>2. /\ attempt' = [attempt EXCEPT ![a] = q]
        /\ UNCHANGED <<completed, artifacts, estimate, contract, stored>>
    BY DEF Begin
  <1> HIDE DEF q
  <1>3. /\ attempt' \in [Attempt -> AttemptRow]
        /\ attempt'[a] = q
        /\ \A b \in Attempt \ {a} : attempt'[b] = attempt[b]
    BY <1>1, <1>2 DEF EstimateInv, TypeOK
  <1>4. TypeOK'
    BY <1>2, <1>3 DEF EstimateInv, TypeOK
  <1>5. ASSUME NEW c \in Attempt, NEW b \in Attempt, c \in attempt'[b].before
        PROVE  ~SamePayload(c, b)
    <2>1. CASE c \in attempt[b].before
      BY <2>1 DEF EstimateInv, BeforeDiffers
    <2>2. CASE c \notin attempt[b].before
      <3>1. b = a /\ c \in Finished /\ ~Generated(a)
        BY <1>1, <1>3, <1>5, <2>2
      <3> QED
        BY <3>1 DEF Generated, SamePayload
    <2> QED
      BY <2>1, <2>2
  <1> QED
    BY <1>1, <1>2, <1>3, <1>4, <1>5, DocumentStep DEF EstimateInv

\* A step that changes the status of one request.
LEMMA StatusStep ==
  ASSUME EstimateInv, NEW a \in Attempt,
         NEW status \in {"stored", "completed", "refused"},
         attempt' = [attempt EXCEPT ![a].status = status],
         completed' = completed, estimate' = estimate, contract' = contract,
         stored' \in SUBSET Attempt, artifacts' = artifacts \/ artifacts' = artifacts \cup {a}
  PROVE  EstimateInv'
  <1> DEFINE q == [attempt[a] EXCEPT !.status = status]
  <1>1. /\ q \in AttemptRow /\ q.before = attempt[a].before
        /\ q.source = attempt[a].source /\ q.format = attempt[a].format
    BY AttemptKnown DEF EstimateInv, AttemptRow
  <1>2. attempt' = [attempt EXCEPT ![a] = q]
    OBVIOUS
  <1> HIDE DEF q
  <1>3. /\ attempt' \in [Attempt -> AttemptRow]
        /\ attempt'[a] = q
        /\ \A b \in Attempt \ {a} : attempt'[b] = attempt[b]
    BY <1>1, <1>2 DEF EstimateInv, TypeOK
  <1>4. TypeOK'
    BY <1>3 DEF EstimateInv, TypeOK, Artifact
  <1>5. IsFiniteSet(artifacts')
    BY FS_AddElement DEF EstimateInv
  <1>6. /\ \A b \in Attempt : /\ attempt'[b].source = attempt[b].source
                              /\ attempt'[b].format = attempt[b].format
                              /\ attempt'[b].before = attempt[b].before
    BY <1>1, <1>3
  <1>7. \A c, b \in Attempt : c \in attempt'[b].before => ~SamePayload(c, b)
    BY <1>6 DEF EstimateInv, BeforeDiffers
  <1> QED
    BY <1>4, <1>5, <1>6, <1>7, DocumentStep DEF EstimateInv

LEMMA EstimateKnown ==
  ASSUME EstimateInv, NEW e \in Estimate
  PROVE  estimate[e] \in EstimateRow /\ RowSound(estimate[e])
  BY DEF EstimateInv, TypeOK

LEMMA CreateStep ==
  ASSUME EstimateInv, NEW e \in Estimate, NEW given \in Input, Create(e, given)
  PROVE  EstimateInv'
  <1> DEFINE q == [NoEstimate EXCEPT !.status = "given", !.given = given]
  <1>1. /\ q.status = "given" /\ q.given = given /\ q.runs = {} /\ q.artifacts = {}
        /\ q \in EstimateRow
    BY DEF NoEstimate, EstimateRow, Creating
  <1>2. Put(e, q)
    BY DEF Create
  <1> HIDE DEF q
  <1>3. RowSound(q)
    BY <1>1, InputAssumption, FS_EmptySet DEF RowSound, Creating
  <1> QED
    BY <1>1, <1>2, <1>3, PutStep

LEMMA ChargeRunsStep ==
  ASSUME EstimateInv, NEW e \in Estimate, ChargeRuns(e)
  PROVE  EstimateInv'
  <1> DEFINE q == [estimate[e] EXCEPT !.status = "runs", !.runs = completed \ Named(e)]
  <1>1. /\ q.status = "runs" /\ q.given = estimate[e].given /\ q.runs = completed \ Named(e)
        /\ q.artifacts = estimate[e].artifacts /\ q \in EstimateRow
    BY EstimateKnown DEF EstimateRow, Creating, EstimateInv, TypeOK
  <1>2. Put(e, q)
    BY DEF ChargeRuns
  <1> HIDE DEF q
  <1>3. IsFiniteSet(completed \ Named(e))
    BY FS_Subset DEF EstimateInv
  <1>4. RowSound(q)
    BY <1>1, <1>3, EstimateKnown DEF RowSound, Creating, Named
  <1> QED
    BY <1>1, <1>2, <1>4, PutStep

LEMMA ChargeArtifactsStep ==
  ASSUME EstimateInv, NEW e \in Estimate, ChargeArtifacts(e)
  PROVE  EstimateInv'
  <1> DEFINE q == [estimate[e] EXCEPT !.status = "artifacts", !.artifacts = artifacts \ Named(e)]
  <1>1. /\ q.status = "artifacts" /\ q.given = estimate[e].given /\ q.runs = estimate[e].runs
        /\ q.artifacts = artifacts \ Named(e) /\ q \in EstimateRow
    BY EstimateKnown DEF EstimateRow, Creating, EstimateInv, TypeOK
  <1>2. Put(e, q)
    BY DEF ChargeArtifacts
  <1> HIDE DEF q
  <1>3. IsFiniteSet(artifacts \ Named(e))
    BY FS_Subset DEF EstimateInv
  <1>4. RowSound(q)
    BY <1>1, <1>3, EstimateKnown DEF RowSound, Creating, Named
  <1> QED
    BY <1>1, <1>2, <1>4, PutStep

\* Only the status changes, and the sums are not due or stay the same.
LEMMA RestatusStep ==
  ASSUME EstimateInv, NEW e \in Estimate, NEW status,
         Put(e, [estimate[e] EXCEPT !.status = status]),
         \/ status \in {"runs", "artifacts"}
         \/ /\ status \in {"draft", "customer_review", "approved", "rejected"}
            /\ estimate[e].status \notin {"none"} \cup Creating
  PROVE  EstimateInv'
  <1> DEFINE q == [estimate[e] EXCEPT !.status = status]
  <1>1. /\ q.status = status /\ q.given = estimate[e].given /\ q.runs = estimate[e].runs
        /\ q.artifacts = estimate[e].artifacts /\ q \in EstimateRow
        /\ q.subtotal = estimate[e].subtotal /\ q.tax = estimate[e].tax
        /\ q.total = estimate[e].total
    BY EstimateKnown DEF EstimateRow, Creating
  <1> HIDE DEF q
  <1>2. Subtotal(q) = Subtotal(estimate[e])
    BY <1>1 DEF Subtotal
  <1>3. RowSound(q)
    BY <1>1, <1>2, EstimateKnown DEF RowSound, Creating
  <1> QED
    BY <1>1, <1>3, PutStep DEF q

LEMMA SkipChargeStep ==
  ASSUME EstimateInv, NEW e \in Estimate, SkipCharge(e)
  PROVE  EstimateInv'
  <1>1. estimate[e] \in EstimateRow
    BY EstimateKnown
  <1>2. CASE estimate[e].status = "given"
    <2>1. Put(e, [estimate[e] EXCEPT !.status = "runs"])
      BY <1>1, <1>2 DEF SkipCharge
    <2> QED
      BY <2>1, RestatusStep
  <1>3. CASE estimate[e].status = "runs"
    <2>1. Put(e, [estimate[e] EXCEPT !.status = "artifacts"])
      BY <1>1, <1>3 DEF SkipCharge
    <2> QED
      BY <2>1, RestatusStep
  <1> QED
    BY <1>2, <1>3 DEF SkipCharge

LEMMA TransitionStep ==
  ASSUME EstimateInv, NEW e \in Estimate, NEW from, NEW to, Transition(e, from, to)
  PROVE  EstimateInv'
  <1>1. /\ to \in {"draft", "customer_review", "approved", "rejected"}
        /\ estimate[e].status \notin {"none"} \cup Creating
    BY DEF Transition, Creating
  <1>2. Put(e, [estimate[e] EXCEPT !.status = to])
    BY DEF Transition
  <1> QED
    BY <1>1, <1>2, RestatusStep

LEMMA AbortEstimateStep ==
  ASSUME EstimateInv, NEW e \in Estimate, AbortEstimate(e)
  PROVE  EstimateInv'
  <1>1. NoEstimate \in EstimateRow
    BY DEF NoEstimate, EstimateRow
  <1>2. RowSound(NoEstimate)
    BY FS_EmptySet DEF RowSound, NoEstimate
  <1> QED
    BY <1>1, <1>2, PutStep DEF AbortEstimate

\* Half up to the nearest ten per cent.
LEMMA TaxRounds ==
  ASSUME NEW n \in Nat
  PROVE  Tax(n) \in Nat /\ 10 * Tax(n) - n \in -4..5
  BY DEF Tax

LEMMA CommitEstimateStep ==
  ASSUME EstimateInv, NEW e \in Estimate, CommitEstimate(e)
  PROVE  EstimateInv'
  <1> DEFINE subtotal == Subtotal(estimate[e])
             q == [estimate[e] EXCEPT !.status = "draft", !.subtotal = subtotal,
                                      !.tax = Tax(subtotal), !.total = subtotal + Tax(subtotal)]
  <1>1. subtotal \in Nat /\ Tax(subtotal) \in Nat
    <2>1. subtotal \in Int /\ subtotal >= 0
      BY EstimateKnown, SubtotalType DEF EstimateInv, CommitEstimate, Payable
    <2> HIDE DEF subtotal
    <2> QED
      BY <2>1, TaxRounds
  <1>2. Put(e, q)
    BY DEF CommitEstimate
  <1>3. /\ q.status = "draft" /\ q.given = estimate[e].given /\ q.runs = estimate[e].runs
        /\ q.artifacts = estimate[e].artifacts /\ q.subtotal = subtotal
        /\ q.tax = Tax(subtotal) /\ q.total = subtotal + Tax(subtotal) /\ q \in EstimateRow
    <2> HIDE DEF subtotal
    <2>1. subtotal + Tax(subtotal) \in Nat
      BY <1>1
    <2>2. estimate[e] \in EstimateRow
      BY EstimateKnown
    <2>3. ASSUME NEW t \in Nat, NEW u \in Nat, Tax(subtotal) = t, subtotal + Tax(subtotal) = u
          PROVE  /\ q.status = "draft" /\ q.given = estimate[e].given
                 /\ q.runs = estimate[e].runs /\ q.artifacts = estimate[e].artifacts
                 /\ q.subtotal = subtotal /\ q.tax = t /\ q.total = u /\ q \in EstimateRow
      BY <1>1, <2>2, <2>3 DEF EstimateRow
    <2> QED
      BY <1>1, <2>1, <2>3
  <1> HIDE DEF q
  <1>4. Subtotal(q) = subtotal
    BY <1>3 DEF Subtotal
  <1>5. RowSound(q)
    <2> HIDE DEF subtotal
    <2> QED
      BY <1>3, <1>4, EstimateKnown DEF RowSound
  <1> QED
    BY <1>2, <1>3, <1>5, PutStep

LEMMA CreateContractStep ==
  ASSUME EstimateInv, NEW e \in Estimate, CreateContract(e)
  PROVE  EstimateInv'
  <1>1. TypeOK'
    BY DEF EstimateInv, TypeOK, CreateContract
  <1> QED
    BY <1>1, DocumentStep DEF EstimateInv, BeforeDiffers, CreateContract

LEMMA EstimatesStep ==
  ASSUME EstimateInv, [Next]_vars
  PROVE  EstimateInv'
  <1>1. CASE \E r \in Run : CompleteRun(r)
    BY <1>1, CompleteRunStep
  <1>2. CASE \E a \in Upload : CreateArtifact(a)
    BY <1>2, CreateArtifactStep
  <1>3. ASSUME NEW e \in Estimate, Billing(e)
        PROVE  EstimateInv'
    <2>1. CASE \E given \in Input : Create(e, given)
      BY <2>1, CreateStep
    <2>2. CASE ChargeRuns(e)
      BY <2>2, ChargeRunsStep
    <2>3. CASE ChargeArtifacts(e)
      BY <2>3, ChargeArtifactsStep
    <2>4. CASE SkipCharge(e)
      BY <2>4, SkipChargeStep
    <2>5. CASE CommitEstimate(e)
      BY <2>5, CommitEstimateStep
    <2>6. CASE AbortEstimate(e)
      BY <2>6, AbortEstimateStep
    <2>7. CASE \E from, to \in {"draft", "customer_review", "approved", "rejected"} :
                 Transition(e, from, to)
      BY <2>7, TransitionStep
    <2>8. CASE CreateContract(e)
      BY <2>8, CreateContractStep
    <2> QED
      BY <1>3, <2>1, <2>2, <2>3, <2>4, <2>5, <2>6, <2>7, <2>8 DEF Billing
  <1>4. ASSUME NEW a \in Attempt, Begin(a)
        PROVE  EstimateInv'
    BY <1>4, BeginStep
  <1>5. ASSUME NEW a \in Attempt, Store(a) \/ Commit(a) \/ Abort(a)
        PROVE  EstimateInv'
    <2>1. CASE Store(a)
      <3>1. stored' \in SUBSET Attempt
        BY <2>1 DEF Store, EstimateInv, TypeOK
      <3> QED
        BY <2>1, <3>1, StatusStep DEF Store
    <2>2. CASE Commit(a)
      <3>1. stored' \in SUBSET Attempt
        BY <2>2 DEF Commit, EstimateInv, TypeOK
      <3> QED
        BY <2>2, <3>1, StatusStep DEF Commit
    <2>3. CASE Abort(a)
      <3>1. stored' \in SUBSET Attempt
        BY <2>3 DEF Abort, EstimateInv, TypeOK
      <3> QED
        BY <2>3, <3>1, StatusStep DEF Abort
    <2> QED
      BY <1>5, <2>1, <2>2, <2>3
  <1>6. CASE UNCHANGED vars
    <2>1. TypeOK'
      BY <1>6 DEF EstimateInv, TypeOK, vars
    <2> QED
      BY <1>6, <2>1, DocumentStep DEF EstimateInv, BeforeDiffers, vars
  <1> QED
    BY <1>1, <1>2, <1>3, <1>4, <1>5, <1>6 DEF Next

-----------------------------------------------------------------------------
(* Theorems. *)

\* What the rows of the two parts owe each other, at every moment.
THEOREM EstimateInvariant == Spec => []EstimateInv
  <1>1. EstimateInv /\ [Next]_vars => EstimateInv'
    BY EstimatesStep
  <1> QED
    BY InitEstimates, <1>1, PTL DEF Spec

\* Rows and histories keep their types; no subtotal, tax or total is negative.
THEOREM EstimateTypes == Spec => []TypeOK
  <1>1. EstimateInv => TypeOK
    BY DEF EstimateInv
  <1> QED
    BY <1>1, EstimateInvariant, PTL

\* What was sent, used and generated, with the items the client gave counted once.
LEMMA SoundAmounts ==
  ASSUME EstimateInv, NEW e \in Committed
  PROVE  LET row == estimate[e]
             priced == SumFunction([a \in row.artifacts |->
                         IF GivenFor(e, a) THEN 0 ELSE ArtifactPrice(ArtifactType(a))])
             used == SumFunction([r \in row.runs |-> IF GivenFor(e, r) THEN 0 ELSE Cost[r]])
             sent == SumFunction([i \in row.given |-> IF i.tax THEN 0 ELSE i.amount])
         IN  row.subtotal = sent + used + priced
  <1> DEFINE row == estimate[e]
             G == {j \in row.given : ~j.tax}
             all == [i \in row.given |-> IF i.tax THEN 0 ELSE i.amount]
             kept == [i \in G |-> i.amount]
  <1>1. e \in Estimate /\ row \in EstimateRow /\ RowSound(row)
    BY EstimateKnown DEF Committed
  <1>2. \A x \in row.runs \cup row.artifacts : ~GivenFor(e, x)
    BY <1>1 DEF RowSound, GivenFor
  <1>3. [a \in row.artifacts |-> IF GivenFor(e, a) THEN 0 ELSE ArtifactPrice(ArtifactType(a))]
          = [a \in row.artifacts |-> ArtifactPrice(ArtifactType(a))]
    BY <1>2
  <1>4. [r \in row.runs |-> IF GivenFor(e, r) THEN 0 ELSE Cost[r]] = [r \in row.runs |-> Cost[r]]
    BY <1>2
  <1>5. SumFunction(all) = SumFunction(kept)
    <2>1. /\ \A i \in row.given : all[i] \in Int
          /\ \A i \in row.given \ G : all[i] = 0
          /\ \A i \in G : kept[i] = all[i]
      BY <1>1, GivenTyped
    <2>2. DOMAIN all = row.given /\ DOMAIN kept = G /\ G \in SUBSET row.given
      OBVIOUS
    <2>3. IsFiniteSet(row.given)
      BY <1>1 DEF RowSound
    <2> HIDE DEF all, kept, G, row
    <2>4. Total(all, row.given) = Total(kept, G)
      BY <2>1, <2>2, <2>3, TotalKept
    <2> QED
      BY <2>2, <2>4, SumIsTotal
  <1>6. row.subtotal = Subtotal(row)
    BY <1>1 DEF RowSound, Committed
  <1> QED
    BY <1>3, <1>4, <1>5, <1>6 DEF Subtotal

\* create_estimate and recalculate_estimate: whatever is completed, generated and charged
\* elsewhere meanwhile, a committed estimate shows the sum of its items.
THEOREM EstimateAmounts == Spec => []AmountsMatchItems
  <1>1. ASSUME EstimateInv
        PROVE  AmountsMatchItems
    <2> SUFFICES ASSUME NEW e \in Committed
                 PROVE  /\ estimate[e].total = estimate[e].subtotal + estimate[e].tax
                        /\ 10 * estimate[e].tax - estimate[e].subtotal \in -4..5
      BY <1>1, SoundAmounts DEF AmountsMatchItems
    <2>1. /\ estimate[e].subtotal \in Nat
          /\ estimate[e].tax = Tax(estimate[e].subtotal)
          /\ estimate[e].total = estimate[e].subtotal + estimate[e].tax
      BY <1>1, EstimateKnown DEF Committed, RowSound, EstimateRow
    <2> QED
      BY <2>1, TaxRounds
  <1> QED
    BY <1>1, EstimateInvariant, PTL

\* generate_document: two documents of one payload come from requests that overlapped.
THEOREM RepeatsOverlap == Spec => []RepeatsNeedOverlap
  <1>1. EstimateInv => RepeatsNeedOverlap
    BY DEF EstimateInv, BeforeDiffers, RepeatsNeedOverlap, Finished
  <1> QED
    BY <1>1, EstimateInvariant, PTL

-----------------------------------------------------------------------------
(* Division and minima. *)

LEMMA Monotone ==
  ASSUME NEW a \in Int, NEW b \in Int, NEW d \in Nat, a <= b
  PROVE  a * d <= b * d
  OBVIOUS

LEMMA Division ==
  ASSUME NEW a \in Int, NEW d \in Nat \ {0}
  PROVE  /\ a \div d \in Int /\ a % d \in Int
         /\ 0 <= a % d /\ a % d < d
         /\ a = (a \div d) * d + (a % d)
  <1>1. a \div d \in Int
    OBVIOUS
  <1>2. a % d \in Int
    OBVIOUS
  <1>3. 0 <= a % d
    OBVIOUS
  <1>4. a % d < d
    OBVIOUS
  <1>5. a = (a \div d) * d + (a % d)
    OBVIOUS
  <1> QED
    BY <1>1, <1>2, <1>3, <1>4, <1>5

\* Quotient and remainder are unique.
LEMMA Divided ==
  ASSUME NEW a \in Int, NEW d \in Nat \ {0}, NEW q \in Int, NEW r \in Int,
         a = q * d + r, 0 <= r, r < d
  PROVE  a \div d = q /\ a % d = r
  <1> DEFINE k == a \div d
             m == a % d
  <1>1. k \in Int /\ m \in Int /\ 0 <= m /\ m < d /\ a = k * d + m
    BY Division
  <1> HIDE DEF k, m
  <1>2. (k - q) * d = r - m
    BY <1>1
  <1>3. k - q \in Int /\ r - m < d /\ m - r < d
    BY <1>1
  <1>4. ~(k - q >= 1)
    <2> SUFFICES ASSUME k - q >= 1 PROVE FALSE
      OBVIOUS
    <2>1. 1 * d <= (k - q) * d
      BY <1>3, Monotone
    <2> QED
      BY <1>1, <1>2, <1>3, <2>1
  <1>5. ~(k - q <= -1)
    <2> SUFFICES ASSUME k - q <= -1 PROVE FALSE
      OBVIOUS
    <2>1. (k - q) * d <= (-1) * d
      BY <1>3, Monotone
    <2> QED
      BY <1>1, <1>2, <1>3, <2>1
  <1>6. k = q
    BY <1>1, <1>4, <1>5
  <1>7. m = r
    BY <1>1, <1>6
  <1> QED
    BY <1>6, <1>7 DEF k, m

\* Less than a divisor, and that much less than nothing.
LEMMA Wrapped ==
  ASSUME NEW r \in Int, NEW d \in Nat \ {0}, 0 <= r, r < d
  PROVE  r % d = r /\ (r - d) % d = r
  <1>1. r = 0 * d + r /\ r - d = (-1) * d + r
    OBVIOUS
  <1>2. 0 \in Int /\ -1 \in Int /\ r - d \in Int
    OBVIOUS
  <1>3. r % d = r
    BY <1>1, <1>2, Divided, Zenon
  <1>4. (r - d) % d = r
    BY <1>1, <1>2, Divided, Zenon
  <1> QED
    BY <1>3, <1>4

\* Of two times with one remainder the earlier is a whole divisor before the other.
LEMMA Apart ==
  ASSUME NEW q \in Int, NEW k \in Int, NEW d \in Nat, NEW r \in Int, NEW x, NEW t,
         x = q * d + r, t = k * d + r
  PROVE  x <= t \/ t <= x - d
  <1>1. x \in Int /\ t \in Int
    OBVIOUS
  <1>2. CASE q <= k
    <2>1. q * d <= k * d
      BY <1>2, Monotone
    <2> QED
      BY <2>1
  <1>3. CASE k <= q - 1
    <2>1. k * d <= (q - 1) * d
      BY <1>3, Monotone
    <2>2. (q - 1) * d = q * d - d
      OBVIOUS
    <2> QED
      BY <2>1, <2>2
  <1> QED
    BY <1>2, <1>3

LEMMA Least ==
  ASSUME NEW S \in SUBSET Int, NEW x \in S, \A y \in S : x <= y
  PROVE  Min(S) = x
  <1>1. Min(S) \in S /\ \A y \in S : Min(S) <= y
    BY DEF Min
  <1>2. Min(S) \in Int /\ Min(S) <= x /\ x <= Min(S) /\ x \in Int
    BY <1>1
  <1> HIDE DEF Min
  <1> QED
    BY <1>2

-----------------------------------------------------------------------------
\* calculate_ai_cost
LEMMA MinutesAreCovered ==
  ASSUME NEW run \in [rule : {"cost"}, duration : Nat]
  PROVE  MinutesCover(run)
  <1> DEFINE d == run.duration
             S == {m \in 0..d : m * Minute >= d}
             q == (d + Minute - 1) \div Minute
             r == (d + Minute - 1) % Minute
  <1>1. d \in Nat /\ Minute \in Nat \ {0}
    BY RulesAssumption DEF RulesAssumption
  <1>2. CASE d = 0
    <2>1. 0 \in S /\ \A y \in S : 0 <= y
      BY <1>1, <1>2
    <2>2. S \in SUBSET Int
      OBVIOUS
    <2>3. Min(S) = 0
      <3> HIDE DEF S
      <3> QED
        BY <2>1, <2>2, Least
    <2> QED
      BY <1>2, <2>3 DEF MinutesCover, BilledMinutes
  <1>3. CASE d # 0
    <2>1. d + Minute - 1 \in Int
      BY <1>1
    <2>2. q \in Int /\ r \in Int /\ 0 <= r /\ r < Minute /\ d + Minute - 1 = q * Minute + r
      BY <1>1, <2>1, Division
    <2> HIDE DEF q, r, d
    <2>3. q * Minute >= d /\ (q - 1) * Minute < d
      BY <1>1, <2>2
    <2>4. q >= 0
      <3> SUFFICES ASSUME q <= 0 PROVE FALSE
        BY <2>2
      <3>1. q * Minute <= 0 * Minute
        BY <1>1, <2>2, Monotone
      <3>2. 0 * Minute = 0
        BY <1>1
      <3>3. d > 0
        BY <1>1, <1>3
      <3> QED
        BY <1>1, <2>2, <2>3, <3>1, <3>2, <3>3
    <2>5. q <= d
      <3> SUFFICES ASSUME d <= q - 1 PROVE FALSE
        BY <1>1, <2>2
      <3>1. d * Minute <= (q - 1) * Minute
        BY <1>1, <2>2, Monotone
      <3>2. 1 * d <= Minute * d
        BY <1>1, Monotone
      <3> QED
        BY <1>1, <2>2, <2>3, <3>1, <3>2
    <2>6. q \in S
      BY <1>1, <2>2, <2>3, <2>4, <2>5
    <2>7. ASSUME NEW m \in S
          PROVE  q <= m
      <3> SUFFICES ASSUME m <= q - 1 PROVE FALSE
        BY <1>1, <2>2
      <3>1. m * Minute <= (q - 1) * Minute
        BY <1>1, <2>2, Monotone
      <3> QED
        BY <1>1, <2>2, <2>3, <3>1
    <2>8. S \in SUBSET Int
      BY <1>1
    <2>9. Min(S) = q
      <3> HIDE DEF S
      <3> QED
        BY <2>6, <2>7, <2>8, Least
    <2> QED
      BY <1>3, <2>9 DEF MinutesCover, BilledMinutes, d, q
  <1> QED
    BY <1>2, <1>3

-----------------------------------------------------------------------------
\* check_security_gate
Plan == [rule : {"gate"}, staging : BOOLEAN, address : Address, changes : Seq(Change)]

LEMMA CountedAs ==
  ASSUME NEW change \in Change
  PROVE  /\ Counted(change) \in {"add", "change", "replace", "destroy", "nothing"}
         /\ Counted(change) = "destroy" <=> change.actions = <<"delete">>
         /\ Counted(change) = "nothing" <=> change.actions = <<"no-op">>
  <1>1. change.actions \in Action
    BY DEF Change
  <1>2. CASE change.actions = <<"no-op">>
    BY <1>2 DEF Counted, Has
  <1>3. CASE change.actions = <<"create">>
    BY <1>3 DEF Counted, Has
  <1>4. CASE change.actions = <<"update">>
    BY <1>4 DEF Counted, Has
  <1>5. CASE change.actions = <<"delete">>
    BY <1>5 DEF Counted, Has
  <1>6. CASE change.actions = <<"delete", "create">>
    BY <1>6 DEF Counted, Has
  <1>7. CASE change.actions = <<"create", "delete">>
    BY <1>7 DEF Counted, Has
  <1> QED
    BY <1>1, <1>2, <1>3, <1>4, <1>5, <1>6, <1>7 DEF Action

LEMMA CountPositive ==
  ASSUME NEW plan \in Plan, NEW kind
  PROVE  Count(plan, kind) > 0
           <=> \E i \in DOMAIN plan.changes : Counted(plan.changes[i]) = kind
  <1> DEFINE S == {i \in DOMAIN plan.changes : Counted(plan.changes[i]) = kind}
  <1>1. DOMAIN plan.changes = 1..Len(plan.changes) /\ Len(plan.changes) \in Nat
    BY DEF Plan
  <1>2. IsFiniteSet(1..Len(plan.changes))
    BY <1>1, FS_Interval
  <1>3. IsFiniteSet(S)
    BY <1>1, <1>2, FS_Subset
  <1>4. Cardinality(S) \in Nat /\ (Cardinality(S) = 0 <=> S = {})
    <2> HIDE DEF S
    <2> QED
      BY <1>3, FS_CardinalityType, FS_EmptySet
  <1>5. Cardinality(S) > 0 <=> S # {}
    <2> HIDE DEF S
    <2> QED
      BY <1>4
  <1>6. Count(plan, kind) = Cardinality(S)
    BY DEF Count, Cardinality, Cardinality
  <1>7. S # {} <=> \E i \in DOMAIN plan.changes : Counted(plan.changes[i]) = kind
    OBVIOUS
  <1> HIDE DEF S
  <1> QED
    BY <1>5, <1>6, <1>7

LEMMA GateSound ==
  ASSUME NEW plan \in Plan
  PROVE  GateIsSound(plan)
  <1> DEFINE changes == {plan.changes[i] : i \in DOMAIN plan.changes}
             lost == \E c \in changes : c.actions = <<"delete">>
             guarded == \E c \in changes : c.hint \in Blocking
  <1>1. \A i \in DOMAIN plan.changes : plan.changes[i] \in Change
    BY DEF Plan
  <1>2. Count(plan, "destroy") > 0 <=> lost
    BY <1>1, CountPositive, CountedAs
  <1>3. guarded <=> \E hint \in Blocking : Contains(plan, hint)
    BY DEF Contains
  <1>4. Reasons(plan) # {} <=>
          ~plan.staging \/ plan.address # Expected \/ lost \/ guarded
    <2>1. ASSUME ~plan.staging PROVE "WRONG_ENVIRONMENT" \in Reasons(plan)
      BY <2>1 DEF Reasons
    <2>2. ASSUME plan.address # Expected PROVE "WRONG_TARGET" \in Reasons(plan)
      BY <2>2 DEF Reasons
    <2>3. ASSUME lost PROVE "UNEXPECTED_DESTROY" \in Reasons(plan)
      BY <1>2, <2>3 DEF Reasons
    <2>4. ASSUME NEW hint \in Blocking, Contains(plan, hint)
          PROVE  hint \in Reasons(plan)
      BY <2>4 DEF Reasons, Blocking
    <2>5. ASSUME NEW reason \in Reasons(plan)
          PROVE  ~plan.staging \/ plan.address # Expected \/ lost \/ guarded
      <3> HIDE DEF lost, guarded
      <3> QED
        BY <1>2, <1>3 DEF Reasons
    <2> HIDE DEF lost, guarded
    <2> QED
      BY <1>3, <2>1, <2>2, <2>3, <2>4, <2>5
  <1>5. Gate(plan) = "blocked" <=> Reasons(plan) # {}
    BY DEF Gate
  <1>6. Gate(plan) = "pass" => \A c \in changes : c.actions = <<"no-op">>
    <2> SUFFICES ASSUME Gate(plan) = "pass", NEW i \in DOMAIN plan.changes
                 PROVE  plan.changes[i].actions = <<"no-op">>
      OBVIOUS
    <2>1. /\ Reasons(plan) = {}
          /\ \A kind \in {"add", "change", "replace"} : ~(Count(plan, kind) > 0)
      BY DEF Gate
    <2>2. ~(Count(plan, "destroy") > 0)
      BY <1>2, <1>4, <2>1
    <2>3. Counted(plan.changes[i]) \notin {"add", "change", "replace", "destroy"}
      BY <2>1, <2>2, CountPositive
    <2> QED
      BY <1>1, <2>3, CountedAs
  <1> HIDE DEF lost, guarded
  <1>7. Gate(plan) = "blocked" <=> ~plan.staging \/ plan.address # Expected \/ lost \/ guarded
    BY <1>4, <1>5
  <1> QED
    BY <1>6, <1>7 DEF GateIsSound, lost, guarded

-----------------------------------------------------------------------------
\* scheduled_delivery_time
Deliverable == [rule : {"delivery"}, critical : BOOLEAN, known : BOOLEAN,
                start : 0..Day - 1, end : 0..Day - 1, limited : BOOLEAN,
                digest : Digest, now : Nat]

\* The day of the event, the time of the day, and the bounds of a quiet range within a day.
LEMMA Clock ==
  ASSUME NEW p \in Deliverable
  PROVE  /\ Day \in Nat \ {0} /\ p.now \in Nat
         /\ p.start \in Int /\ 0 <= p.start /\ p.start < Day
         /\ p.end \in Int /\ 0 <= p.end /\ p.end < Day
         /\ p.now \div Day \in Nat
         /\ p.now % Day \in Int /\ 0 <= p.now % Day /\ p.now % Day < Day
         /\ p.now = (p.now \div Day) * Day + (p.now % Day)
  <1>1. /\ Day \in Nat /\ p.now \in Nat
        /\ p.start \in 0..Day - 1 /\ p.end \in 0..Day - 1
    BY RulesAssumption DEF RulesAssumption, Deliverable
  <1>2. Day > 0
    BY <1>1
  <1>3. /\ p.now % Day \in Int /\ 0 <= p.now % Day /\ p.now % Day < Day
        /\ p.now \div Day \in Int /\ p.now = (p.now \div Day) * Day + (p.now % Day)
    <2>1. Day \in Nat \ {0} /\ p.now \in Int
      BY <1>1, <1>2
    <2> QED
      BY <2>1, Division
  <1>4. p.now \div Day >= 0
    BY <1>1, <1>2
  <1> QED
    BY <1>1, <1>2, <1>3, <1>4

\* A quiet range that is not empty is shorter than a day.
LEMMA RangeLength ==
  ASSUME NEW a \in Int, NEW b \in Int, NEW d \in Int, a # b,
         0 <= a, a < d, 0 <= b, b < d
  PROVE  LET l == IF a < b THEN b - a ELSE b - a + d IN l \in Int /\ 0 < l /\ l < d
  OBVIOUS

\* A time that begins a whole number of days after the quiet range is quiet as long as the
\* range lasts.
LEMMA QuietFor ==
  ASSUME NEW p \in Deliverable, p.limited, p.start # p.end,
         NEW m \in Int, NEW t \in Int, NEW j \in Int, 0 <= j, j < Day,
         t = m * Day + p.start + j
  PROVE  QuietAt(p, t) <=> j < (IF p.start < p.end THEN p.end - p.start
                                                         ELSE p.end - p.start + Day)
  <1>1. /\ Day \in Nat \ {0} /\ p.start \in Int /\ p.end \in Int
        /\ 0 <= p.start /\ p.start < Day /\ 0 <= p.end /\ p.end < Day
    BY Clock
  <1> DEFINE a == t - p.start
             l == p.end - p.start
  <1>2. a \in Int /\ l \in Int /\ a = m * Day + j
    BY <1>1
  <1>3. a % Day = j
    <2> HIDE DEF a
    <2> QED
      BY <1>1, <1>2, Divided
  <1>4. CASE p.start < p.end
    <2>1. 0 <= l /\ l < Day
      BY <1>1, <1>4
    <2>2. l % Day = l
      <3> HIDE DEF l
      <3> QED
        BY <1>1, <1>2, <2>1, Wrapped
    <2> QED
      BY <1>3, <1>4, <2>2 DEF QuietAt
  <1>5. CASE ~(p.start < p.end)
    <2>0. p.start # p.end
      OBVIOUS
    <2>3. p.end < p.start
      BY <1>1, <1>5, <2>0
    <2>4. l \in Int /\ l < 0 /\ l > 0 - Day
      BY <1>1, <2>3
    <2>1. l + Day \in Int /\ 0 <= l + Day /\ l + Day < Day /\ l = (l + Day) - Day
      <3> HIDE DEF l
      <3> QED
        BY <1>1, <2>4
    <2>2. l % Day = l + Day
      <3> HIDE DEF l
      <3> QED
        BY <1>1, <2>1, Wrapped
    <2> QED
      BY <1>3, <1>5, <2>2 DEF QuietAt
  <1> QED
    BY <1>4, <1>5

\* Quiet hours end at the first moment that is not quiet, if there is one.
LEMMA ReleasedAt ==
  ASSUME NEW p \in Deliverable
  PROVE  /\ Released(p) = IF Quiet(p) THEN QuietEnd(p) ELSE p.now
         /\ QuietAt(p, Released(p)) => p.start = p.end
  <1> DEFINE now == p.now
             k == now \div Day
             c == now % Day
  <1>1. /\ Day \in Nat \ {0} /\ now \in Nat
        /\ p.start \in Int /\ 0 <= p.start /\ p.start < Day
        /\ p.end \in Int /\ 0 <= p.end /\ p.end < Day
        /\ k \in Nat /\ c \in Int /\ 0 <= c /\ c < Day /\ now = k * Day + c
    BY Clock
  <1> HIDE DEF now, k, c
  <1>2. CASE ~p.limited
    <2> DEFINE S == {t \in now..now + Day : ~QuietAt(p, t)}
    <2>1. now \in S /\ S \in SUBSET Int /\ \A t \in S : now <= t
      BY <1>1, <1>2 DEF QuietAt
    <2>2. Min(S) = now
      <3> HIDE DEF S
      <3> QED
        BY <2>1, Least
    <2> QED
      BY <1>2, <2>2 DEF Released, Quiet, QuietAt, now
  <1>3. CASE p.limited /\ p.start = p.end
    <2> DEFINE S == {t \in now + 1..now + Day : t % Day = p.end}
               q == IF c >= p.start THEN k + 1 ELSE k
               x == q * Day + p.end
    <2>1. q \in Int /\ x \in Int /\ x >= now + 1 /\ x <= now + Day /\ x - Day <= now
      <3>1. CASE c >= p.start
        <4>1. (k + 1) * Day = k * Day + Day
          BY <1>1
        <4> QED
          BY <1>1, <1>3, <3>1, <4>1
      <3>2. CASE ~(c >= p.start)
        BY <1>1, <1>3, <3>2
      <3> QED
        BY <3>1, <3>2
    <2> HIDE DEF q
    <2>2. x \in S
      <3>1. x % Day = p.end
        BY <1>1, <2>1, Divided
      <3> QED
        BY <1>1, <2>1, <3>1
    <2>3. ASSUME NEW t \in S PROVE x <= t
      <3>1. t \in Int /\ t >= now + 1 /\ t % Day = p.end
        BY <1>1
      <3>2. t \div Day \in Int /\ t = (t \div Day) * Day + p.end
        BY <1>1, <3>1, Division
      <3>3. x <= t \/ t <= x - Day
        BY <1>1, <2>1, <3>2, Apart
      <3> HIDE DEF x
      <3> QED
        BY <1>1, <2>1, <3>1, <3>3
    <2>4. Min(S) = x
      <3>1. S \in SUBSET Int
        BY <1>1
      <3> HIDE DEF S, x
      <3> QED
        BY <2>2, <2>3, <3>1, Least
    <2>5. Released(p) = Min(S)
      BY <1>3 DEF Released, now
    <2>6. Quiet(p)
      BY <1>1, <1>3 DEF Quiet, now, c
    <2>7. QuietEnd(p) = x
      BY <1>1, <1>3 DEF QuietEnd, now, c, k, q
    <2> QED
      BY <1>3, <2>4, <2>5, <2>6, <2>7
  <1>4. CASE p.limited /\ p.start # p.end
    <2> DEFINE S == {t \in now..now + Day : ~QuietAt(p, t)}
               l == IF p.start < p.end THEN p.end - p.start ELSE p.end - p.start + Day
               m == IF c >= p.start THEN k ELSE k - 1
               j == now - m * Day - p.start
    <2>1. /\ l \in Int /\ 0 < l /\ l < Day /\ m \in Int
          /\ j \in Int /\ 0 <= j /\ j < Day /\ now = m * Day + p.start + j
      <3>1. (k - 1) * Day = k * Day - Day
        BY <1>1
      <3>2. l \in Int /\ 0 < l /\ l < Day
        <4>1. /\ Day \in Int /\ p.start \in Int /\ p.end \in Int /\ p.start # p.end
              /\ 0 <= p.start /\ p.start < Day /\ 0 <= p.end /\ p.end < Day
          BY <1>1, <1>4
        <4> HIDE DEF S, m, j
        <4> QED
          BY <4>1, RangeLength
      <3>3. m \in Int /\ m * Day \in Int
        BY <1>1
      <3>4. j \in Int /\ 0 <= j /\ j < Day
        <4>1. CASE c >= p.start
          BY <1>1, <4>1
        <4>2. CASE ~(c >= p.start)
          BY <1>1, <3>1, <4>2
        <4> QED
          BY <4>1, <4>2
      <3>5. now = m * Day + p.start + j
        <4> HIDE DEF m
        <4> QED
          BY <1>1, <3>3
      <3> QED
        BY <3>2, <3>3, <3>4, <3>5
    <2>2. Quiet(p) <=> j < l
      <3>1. (k - 1) * Day = k * Day - Day
        BY <1>1
      <3>2. Quiet(p) <=> IF p.start < p.end THEN p.start <= c /\ c < p.end
                                                  ELSE c >= p.start \/ c < p.end
        BY <1>4 DEF Quiet, now, c
      <3>3. CASE c >= p.start
        BY <1>1, <1>4, <3>2, <3>3
      <3>4. CASE ~(c >= p.start)
        BY <1>1, <1>4, <3>1, <3>2, <3>4
      <3> QED
        BY <3>3, <3>4
    <2>3. ASSUME j < l
          PROVE  QuietEnd(p) = m * Day + p.start + l
      <3>1. /\ (k - 1) * Day = k * Day - Day /\ (k + 1) * Day = k * Day + Day
            /\ (k + 0) * Day = k * Day
        BY <1>1
      <3>2. CASE p.start < p.end
        <4>1. QuietEnd(p) = (k + 0) * Day + p.end
          BY <1>1, <3>2 DEF QuietEnd, now, k
        <4>2. c >= p.start
          BY <1>1, <2>3, <3>1, <3>2
        <4> QED
          BY <1>1, <3>1, <3>2, <4>1, <4>2
      <3>3. CASE ~(p.start < p.end) /\ c >= p.start
        <4>1. QuietEnd(p) = (k + 1) * Day + p.end
          BY <1>1, <3>3 DEF QuietEnd, now, k, c
        <4> QED
          BY <1>1, <3>1, <3>3, <4>1
      <3>4. CASE ~(p.start < p.end) /\ ~(c >= p.start)
        <4>1. QuietEnd(p) = (k + 0) * Day + p.end
          BY <1>1, <3>4 DEF QuietEnd, now, k, c
        <4> QED
          BY <1>1, <3>1, <3>4, <4>1
      <3> QED
        BY <3>2, <3>3, <3>4
    <2>4. ASSUME NEW i \in Int, 0 <= i, i < Day
          PROVE  QuietAt(p, m * Day + p.start + i) <=> i < l
      <3>1. m * Day + p.start + i \in Int
        BY <1>1, <2>1
      <3> HIDE DEF m, j
      <3> QED
        BY <1>1, <1>4, <2>1, <2>4, <3>1, QuietFor
    <2> HIDE DEF l, m, j
    <2>5. CASE ~(j < l)
      <3>1. now \in S /\ S \in SUBSET Int /\ \A t \in S : now <= t
        BY <1>1, <2>1, <2>4, <2>5
      <3>2. Min(S) = now
        <4> HIDE DEF S
        <4> QED
          BY <3>1, Least
      <3>3. Released(p) = now
        BY <1>4, <3>2 DEF Released, now
      <3>4. ~QuietAt(p, now)
        BY <3>1
      <3> QED
        BY <2>2, <2>5, <3>3, <3>4 DEF now
    <2>6. CASE j < l
      <3> DEFINE x == m * Day + p.start + l
      <3>1. x \in S
        BY <1>1, <2>1, <2>4, <2>6
      <3>2. ASSUME NEW t \in S, t < x PROVE FALSE
        <4> DEFINE i == t - m * Day - p.start
        <4>1. i \in Int /\ 0 <= i /\ i < l /\ t = m * Day + p.start + i
          BY <1>1, <2>1, <2>6, <3>2
        <4> HIDE DEF i, S, x
        <4>2. QuietAt(p, m * Day + p.start + i)
          <5>1. Day \in Int /\ l \in Int /\ l < Day
            BY <1>1, <2>1
          <5>2. i \in Int /\ 0 <= i /\ i < Day /\ i < l
            BY <4>1, <5>1
          <5> QED
            BY <2>4, <5>2, Zenon
        <4>3. ~QuietAt(p, t)
          BY DEF S
        <4> QED
          BY <4>1, <4>2, <4>3
      <3>3. S \in SUBSET Int
        BY <1>1
      <3>4. x \in Int
        BY <3>1, <3>3
      <3>5. Min(S) = x
        <4>1. \A t \in S : x <= t
          BY <3>2, <3>3, <3>4
        <4> HIDE DEF S, x
        <4> QED
          BY <3>1, <3>3, <4>1, Least
      <3>6. Released(p) = x
        BY <1>4, <3>5 DEF Released, now
      <3>7. ~QuietAt(p, x)
        BY <3>1
      <3>8. QuietEnd(p) = x
        BY <2>3, <2>6
      <3> HIDE DEF x
      <3> QED
        BY <2>2, <2>6, <3>6, <3>7, <3>8
    <2> QED
      BY <2>5, <2>6
  <1> QED
    BY <1>2, <1>3, <1>4 DEF Deliverable

\* Quiet hours have begun between a moment that is not quiet and a later one that is.
LEMMA QuietBegan ==
  ASSUME NEW p \in Deliverable, p.start # p.end,
         NEW r \in Int, NEW t \in Int, r <= t, ~QuietAt(p, r), QuietAt(p, t)
  PROVE  \E b \in r + 1..t : b % Day = p.start
  <1> DEFINE m == (t - p.start) \div Day
             j == (t - p.start) % Day
             l == IF p.start < p.end THEN p.end - p.start ELSE p.end - p.start + Day
             b == m * Day + p.start
  <1>1. /\ Day \in Nat \ {0} /\ p.start \in Int /\ p.end \in Int
        /\ 0 <= p.start /\ p.start < Day
    BY Clock
  <1>2. p.limited
    BY DEF QuietAt
  <1>3. /\ m \in Int /\ j \in Int /\ 0 <= j /\ j < Day
        /\ t - p.start = m * Day + j
    <2>1. t - p.start \in Int
      BY <1>1
    <2> QED
      BY <1>1, <2>1, Division
  <1> HIDE DEF m, j
  <1>4. b \in Int /\ b % Day = p.start
    <2>1. b \in Int /\ b = m * Day + p.start
      BY <1>1, <1>3
    <2> HIDE DEF b
    <2> QED
      BY <1>1, <1>3, <2>1, Divided
  <1>5. b <= t /\ t = m * Day + p.start + j
    BY <1>1, <1>3
  <1>6. l \in Int /\ j < l
    BY <1>1, <1>2, <1>3, <1>5, QuietFor
  <1>7. ASSUME r >= b PROVE FALSE
    <2> DEFINE i == r - b
    <2>1. i \in Int /\ 0 <= i /\ i < Day /\ i < l
      <3> HIDE DEF b, l
      <3>1. t = b + j
        BY <1>5 DEF b
      <3> QED
        BY <1>1, <1>3, <1>4, <1>6, <1>7, <3>1
    <2>2. r = m * Day + p.start + i
      BY <1>1, <1>3
    <2> HIDE DEF i
    <2>3. QuietAt(p, r)
      BY <1>2, <1>3, <2>1, <2>2, QuietFor
    <2> QED
      BY <2>3
  <1> HIDE DEF b
  <1>8. b \in r + 1..t
    BY <1>4, <1>5, <1>7
  <1> QED
    BY <1>4, <1>8

LEMMA EndOfQuiet ==
  ASSUME NEW p \in Deliverable
  PROVE  QuietEnd(p) \in Int /\ (Quiet(p) => QuietEnd(p) >= 0)
  <1> DEFINE n == p.now \div Day + (IF p.start >= p.end /\ p.now % Day >= p.start THEN 1 ELSE 0)
  <1>1. /\ Day \in Nat \ {0} /\ p.end \in Int /\ 0 <= p.end /\ p.now \div Day \in Nat
    BY Clock
  <1>2. n \in Nat
    BY <1>1
  <1>3. QuietEnd(p) = n * Day + p.end
    BY DEF QuietEnd
  <1> HIDE DEF n
  <1>4. n * Day >= 0 * Day /\ 0 * Day = 0
    BY <1>1, <1>2, Monotone
  <1> QED
    BY <1>1, <1>2, <1>3, <1>4

\* The next multiple of a unit lies after a moment, by at most that unit.
LEMMA NextMultiple ==
  ASSUME NEW r \in Nat, NEW h \in Nat \ {0}
  PROVE  /\ r \div h + 1 \in Int /\ (r \div h + 1) * h \in Int
         /\ r < (r \div h + 1) * h /\ (r \div h + 1) * h <= r + h
  <1> DEFINE k == r \div h
             m == r % h
  <1>1. k \in Int /\ m \in Int /\ 0 <= m /\ m < h /\ r = k * h + m
    BY Division
  <1> HIDE DEF k, m
  <1>2. (k + 1) * h = k * h + h
    BY <1>1
  <1>3. k + 1 \in Int /\ (k + 1) * h \in Int /\ r < (k + 1) * h /\ (k + 1) * h <= r + h
    BY <1>1, <1>2
  <1> QED
    BY <1>3 DEF k

\* The first full hour after a moment
LEMMA FullHour ==
  ASSUME NEW r \in Nat, NEW h \in Nat \ {0}
  PROVE  (r \div h + 1) * h = Min({t \in r + 1..r + h : t % h = 0})
  <1> DEFINE S == {t \in r + 1..r + h : t % h = 0}
             q == r \div h + 1
             x == q * h
  <1>1. q \in Int /\ x \in Int /\ r < x /\ x <= r + h
    BY NextMultiple
  <1> HIDE DEF q
  <1>2. x % h = 0
    <2>1. x = q * h + 0
      BY <1>1
    <2> HIDE DEF x
    <2> QED
      BY <1>1, <2>1, Divided
  <1>3. x \in S
    BY <1>1, <1>2
  <1>4. ASSUME NEW t \in S PROVE x <= t
    <2>1. t \in Int /\ r + 1 <= t /\ t % h = 0
      OBVIOUS
    <2>2. t \div h \in Int /\ t = (t \div h) * h + 0
      BY <2>1, Division
    <2>3. x = q * h + 0
      BY <1>1
    <2>4. x <= t \/ t <= x - h
      <3>1. h \in Nat /\ 0 \in Int
        OBVIOUS
      <3> HIDE DEF x
      <3> QED
        BY <1>1, <2>2, <2>3, <3>1, Apart, Zenon
    <2> HIDE DEF x
    <2> QED
      BY <1>1, <2>1, <2>4
  <1>5. S \in SUBSET Int
    OBVIOUS
  <1>6. Min(S) = x
    <2> HIDE DEF S, x
    <2> QED
      BY <1>3, <1>4, <1>5, Least
  <1> QED
    BY <1>6 DEF q

\* 9:00 of the day after a moment
LEMMA NextMorning ==
  ASSUME NEW r \in Nat, NEW d \in Nat \ {0}, NEW g \in Nat, g < d
  PROVE  (r \div d + 1) * d + g
           = Min({t \in r + 1..r + 2 * d : t % d = g /\ t \div d > r \div d})
  <1> DEFINE k == r \div d
             m == r % d
             S == {t \in r + 1..r + 2 * d : t % d = g /\ t \div d > k}
             x == (k + 1) * d + g
  <1>1. k \in Int /\ m \in Int /\ 0 <= m /\ m < d /\ r = k * d + m
    BY Division
  <1> HIDE DEF k, m
  <1>2. (k + 1) * d = k * d + d
    BY <1>1
  <1>3. x \in Int /\ r + 1 <= x /\ x <= r + 2 * d
    BY <1>1, <1>2
  <1>4. x \div d = k + 1 /\ x % d = g
    <2> HIDE DEF x
    <2>1. x = (k + 1) * d + g
      BY DEF x
    <2> QED
      BY <1>1, <1>3, <2>1, Divided
  <1>5. x \in S
    BY <1>1, <1>3, <1>4
  <1>6. ASSUME NEW t \in S PROVE x <= t
    <2>1. t \in Int /\ t % d = g /\ t \div d > k
      OBVIOUS
    <2>2. t \div d \in Int /\ t = (t \div d) * d + g
      BY <2>1, Division
    <2>3. (k + 1) * d <= (t \div d) * d
      BY <1>1, <2>1, <2>2, Monotone
    <2>4. ASSUME NEW u \in Int, NEW v \in Int, u <= v, x = u + g, t = v + g
          PROVE  x <= t
      BY <2>4
    <2>5. (k + 1) * d \in Int /\ (t \div d) * d \in Int
      BY <1>1, <2>2
    <2> QED
      BY <2>2, <2>3, <2>4, <2>5
  <1>7. S \in SUBSET Int
    OBVIOUS
  <1>8. Min(S) = x
    <2> HIDE DEF S, x
    <2> QED
      BY <1>5, <1>6, <1>7, Least
  <1> QED
    BY <1>8 DEF k

\* A delivery waits for the end of the quiet hours of its event, and for its digest.
LEMMA DeliveryLater ==
  ASSUME NEW p \in Deliverable, ~p.critical, p.known, p.digest # "none"
  PROVE  /\ Released(p) \in Int /\ Delivery(p) \in Int
         /\ Delivery(p) = FirstMoment(p)
         /\ IF p.digest = "immediate" THEN Delivery(p) = Released(p)
                                      ELSE Delivery(p) > Released(p)
  <1> DEFINE r == Released(p)
  <1>1. r = IF Quiet(p) THEN QuietEnd(p) ELSE p.now
    BY ReleasedAt
  <1>2. r \in Nat
    BY <1>1, EndOfQuiet, Clock
  <1>3. Hour \in Nat \ {0} /\ Day \in Nat \ {0} /\ DigestAt \in Nat /\ DigestAt < Day
    BY Clock, RulesAssumption DEF RulesAssumption
  <1>4. p.digest \in {"immediate", "hourly", "daily"}
    BY DEF Deliverable, Digest
  <1> HIDE DEF r
  <1>5. CASE p.digest = "immediate"
    <2>1. Delivery(p) = r /\ FirstMoment(p) = r
      BY <1>1, <1>5 DEF Delivery, FirstMoment, r
    <2> QED
      BY <1>2, <1>5, <2>1 DEF r
  <1>6. CASE p.digest = "hourly"
    <2>1. Delivery(p) = (r \div Hour + 1) * Hour
      BY <1>1, <1>6 DEF Delivery
    <2>2. FirstMoment(p) = Min({t \in r + 1..r + Hour : t % Hour = 0})
      BY <1>6 DEF FirstMoment, r
    <2>3. Delivery(p) = FirstMoment(p)
      BY <1>2, <1>3, <2>1, <2>2, FullHour
    <2>4. Delivery(p) \in Int /\ Delivery(p) > r
      BY <1>2, <1>3, <2>1, NextMultiple
    <2> QED
      BY <1>2, <1>6, <2>3, <2>4 DEF r
  <1>7. CASE p.digest = "daily"
    <2>1. Delivery(p) = (r \div Day + 1) * Day + DigestAt
      BY <1>1, <1>7 DEF Delivery
    <2>2. FirstMoment(p) = Min({t \in r + 1..r + 2 * Day : /\ t % Day = DigestAt
                                                          /\ t \div Day > r \div Day})
      BY <1>7 DEF FirstMoment, r
    <2>3. Delivery(p) = FirstMoment(p)
      BY <1>2, <1>3, <2>1, <2>2, NextMorning
    <2>4. (r \div Day + 1) * Day \in Int /\ (r \div Day + 1) * Day > r
      BY <1>2, <1>3, NextMultiple
    <2>5. Delivery(p) \in Int /\ Delivery(p) > r
      BY <1>2, <1>3, <2>1, <2>4
    <2> QED
      BY <1>2, <1>7, <2>3, <2>5 DEF r
  <1> QED
    BY <1>4, <1>5, <1>6, <1>7

LEMMA Waits ==
  ASSUME NEW p \in Deliverable
  PROVE  DeliveryWaits(p)
  <1>1. CASE p.critical \/ ~p.known
    BY <1>1 DEF DeliveryWaits, Delivery
  <1>2. CASE ~p.critical /\ p.known /\ p.digest = "none"
    BY <1>2 DEF DeliveryWaits, Delivery
  <1>3. CASE ~p.critical /\ p.known /\ p.digest # "none"
    <2>1. /\ Released(p) \in Int /\ Delivery(p) \in Int
          /\ Delivery(p) = FirstMoment(p)
          /\ IF p.digest = "immediate" THEN Delivery(p) = Released(p)
                                       ELSE Delivery(p) > Released(p)
      BY <1>3, DeliveryLater
    <2>2. ASSUME QuietAt(p, Delivery(p)), p.start # p.end
          PROVE  p.digest # "immediate" /\ QuietBegins(p)
      <3>1. ~QuietAt(p, Released(p))
        BY <2>2, ReleasedAt
      <3>2. p.digest # "immediate" /\ Released(p) <= Delivery(p)
        BY <2>1, <2>2, <3>1
      <3>3. \E b \in Released(p) + 1..Delivery(p) : b % Day = p.start
        BY <2>1, <2>2, <3>1, <3>2, QuietBegan
      <3> QED
        BY <3>2, <3>3 DEF QuietBegins
    <2> QED
      BY <1>3, <2>1, <2>2 DEF DeliveryWaits
  <1> QED
    BY <1>1, <1>2, <1>3

-----------------------------------------------------------------------------
\* Every input a behaviour reaches is one of the three kinds.
InputTyped ==
    input \in Deliverable \cup Plan \cup [rule : {"cost"}, duration : Nat]

LEMMA InputStep ==
  ASSUME InputTyped, [RulesNext]_input
  PROVE  InputTyped'
  <1>1. CASE Later
    <2>1. input \in Deliverable
      BY <1>1 DEF Later, InputTyped, Plan
    <2>2. [input EXCEPT !.now = @ + 1] \in Deliverable
      BY <2>1 DEF Deliverable
    <2> QED
      BY <1>1, <2>2 DEF Later, InputTyped
  <1>2. ASSUME NEW change \in Change, Extend(change)
        PROVE  InputTyped'
    <2>1. input \in Plan
      BY <1>2 DEF Extend, InputTyped, Deliverable
    <2>2. Append(input.changes, change) \in Seq(Change)
      BY <2>1 DEF Plan
    <2>3. [input EXCEPT !.changes = Append(@, change)] \in Plan
      BY <2>1, <2>2 DEF Plan
    <2> QED
      BY <1>2, <2>3 DEF Extend, InputTyped
  <1>3. CASE Longer
    <2>1. input \in [rule : {"cost"}, duration : Nat]
      BY <1>3 DEF Longer, InputTyped, Deliverable, Plan
    <2>2. [input EXCEPT !.duration = @ + 1] \in [rule : {"cost"}, duration : Nat]
      BY <2>1
    <2> QED
      BY <1>3, <2>2 DEF Longer, InputTyped
  <1>4. CASE UNCHANGED input
    BY <1>4 DEF InputTyped
  <1> QED
    BY <1>1, <1>2, <1>3, <1>4 DEF RulesNext

LEMMA InputInit ==
  ASSUME RulesInit
  PROVE  InputTyped
  <1>1. CASE input \in {p \in Preference : p.now = 0}
    BY <1>1 DEF InputTyped, Deliverable, Preference
  <1>2. CASE input \in [rule : {"gate"}, staging : BOOLEAN, address : Address, changes : {<<>>}]
    <2>1. <<>> \in Seq(Change)
      OBVIOUS
    <2>2. input \in Plan
      BY <1>2, <2>1 DEF Plan
    <2> QED
      BY <2>2 DEF InputTyped
  <1>3. CASE input = [rule |-> "cost", duration |-> 0]
    BY <1>3 DEF InputTyped
  <1> QED
    BY <1>1, <1>2, <1>3 DEF RulesInit

\* scheduled_delivery_time, check_security_gate and calculate_ai_cost compute what they are
\* said to, for days and hours of any length, plans of any size and runs of any duration.
THEOREM RulesHold == RulesSpec => []RulesAgree
  <1>1. InputTyped => RulesAgree
    <2>1. CASE input \in Deliverable
      <3>1. input.rule = "delivery"
        BY <2>1 DEF Deliverable
      <3> QED
        BY <2>1, <3>1, Waits DEF RulesAgree
    <2>2. CASE input \in Plan
      <3>1. input.rule = "gate"
        BY <2>2 DEF Plan
      <3> QED
        BY <2>2, <3>1, GateSound DEF RulesAgree
    <2>3. CASE input \in [rule : {"cost"}, duration : Nat]
      <3>1. input.rule = "cost"
        BY <2>3
      <3> QED
        BY <2>3, <3>1, MinutesAreCovered DEF RulesAgree
    <2> QED
      BY <2>1, <2>2, <2>3 DEF InputTyped
  <1>2. RulesInit => InputTyped
    BY InputInit
  <1>3. InputTyped /\ [RulesNext]_input => InputTyped'
    BY InputStep
  <1> QED
    BY <1>1, <1>2, <1>3, PTL DEF RulesSpec
=============================================================================
