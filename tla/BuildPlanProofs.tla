--------------------------- MODULE BuildPlanProofs ---------------------------
(* Kahn's algorithm as build-push runs it is right for every graph. *)
EXTENDS BuildPlan, ListingLemmas

Planned == Elements(result)

\* What in_degree counts.
DegreesCount ==
    \A d \in toBuild : inDegree[d] = Cardinality(OpenDeps(d) \ Planned)

\* A derivation is in the work list or in the result, once, as soon as
\* nothing it depends on is missing from the result.
ListedWhenFree ==
    /\ NoRepeats(queue) /\ NoRepeats(result)
    /\ Elements(queue) \cap Planned = {}
    /\ \A d \in toBuild :
           inDegree[d] = 0 <=> d \in Elements(queue) \cup Planned

PlanInv ==
    /\ PlanTypeOK
    /\ DegreesCount
    /\ ListedWhenFree
    /\ DependenciesFirst

\* The open dependencies of a derivation are finitely many.
LEMMA FiniteDeps ==
    ASSUME PlanTypeOK, NEW d \in toBuild, NEW S
    PROVE  /\ IsFiniteSet(OpenDeps(d) \ S)
           /\ Cardinality(OpenDeps(d) \ S) \in Nat
           /\ IsFiniteSet(toBuild)
<1>1. OpenDeps(d) \ S \in SUBSET Drv /\ toBuild \in SUBSET Drv
  BY DEF PlanTypeOK, OpenDeps
<1> QED
  BY <1>1, DrvAssumption, FS_Subset, FS_CardinalityType

-----------------------------------------------------------------------------
\* The initial work list satisfies the invariant.
LEMMA PlanStarts == PlanInit => PlanInv
<1> SUFFICES ASSUME PlanInit PROVE PlanInv
  OBVIOUS
<1> DEFINE Free == {d \in toBuild : inDegree[d] = 0}
<1>1. IsFiniteSet(toBuild) /\ IsFiniteSet(Free)
  BY DrvAssumption, FS_Subset DEF PlanInit
<1>2. queue \in Seq(Free) /\ Elements(queue) = Free /\ NoRepeats(queue)
  BY <1>1, OrderingFacts DEF PlanInit
<1>3. result = <<>> /\ Planned = {}
  BY DEF PlanInit, Planned, Elements
<1>4. PlanTypeOK
  <2>1. ASSUME NEW d \in toBuild PROVE Cardinality(OpenDeps(d)) \in Nat
    <3>1. OpenDeps(d) \in SUBSET Drv
      BY DEF PlanInit, OpenDeps
    <3> QED
      BY <3>1, DrvAssumption, FS_Subset, FS_CardinalityType
  <2>2. queue \in Seq(toBuild)
    BY <1>2
  <2> QED
    BY <1>3, <2>1, <2>2 DEF PlanInit, PlanTypeOK
<1>5. DegreesCount
  <2> SUFFICES ASSUME NEW d \in toBuild
               PROVE  inDegree[d] = Cardinality(OpenDeps(d) \ Planned)
    BY DEF DegreesCount
  <2>1. OpenDeps(d) \ Planned = OpenDeps(d)
    BY <1>3
  <2> QED
    BY <2>1 DEF PlanInit
<1>6. ListedWhenFree
  <2>1. NoRepeats(result)
    BY <1>3 DEF NoRepeats
  <2> QED
    BY <1>2, <1>3, <2>1 DEF ListedWhenFree
<1>7. DependenciesFirst
  BY <1>3 DEF DependenciesFirst
<1> QED
  BY <1>4, <1>5, <1>6, <1>7 DEF PlanInv

-----------------------------------------------------------------------------
\* One visit moves the front of the work list to the result and adds the
\* dependents it freed, which were in neither.
LEMMA VisitMoves ==
    ASSUME PlanInv, Visit
    PROVE  LET v == Head(queue) IN
           /\ v \in toBuild /\ v \notin Planned /\ inDegree[v] = 0
           /\ Freed(v) \cap (Elements(queue) \cup Planned) = {}
           /\ queue' \in Seq(toBuild) /\ NoRepeats(queue')
           /\ Elements(queue') = (Elements(queue) \ {v}) \cup Freed(v)
           /\ result' \in Seq(toBuild) /\ NoRepeats(result')
           /\ Planned' = Planned \cup {v}
<1> DEFINE v == Head(queue)
<1>1. queue \in Seq(toBuild) /\ queue # <<>> /\ result \in Seq(toBuild)
  BY DEF PlanInv, PlanTypeOK, Visit
<1>2. NoRepeats(queue) /\ NoRepeats(result) /\ Elements(queue) \cap Planned = {}
  BY DEF PlanInv, ListedWhenFree
<1>3. /\ Tail(queue) \in Seq(toBuild) /\ NoRepeats(Tail(queue))
      /\ v \in Elements(queue) /\ Elements(queue) \subseteq toBuild
      /\ Elements(Tail(queue)) = Elements(queue) \ {v}
  BY <1>1, <1>2, TailFacts
<1>4. v \in toBuild /\ v \notin Planned /\ inDegree[v] = 0
  BY <1>2, <1>3 DEF PlanInv, ListedWhenFree
<1>5. Freed(v) \cap (Elements(queue) \cup Planned) = {}
  BY DEF PlanInv, ListedWhenFree, Freed
<1>6. result' \in Seq(toBuild) /\ NoRepeats(result') /\ Planned' = Planned \cup {v}
  <2>1. result' = Append(result, v)
    BY DEF Visit
  <2> QED
    BY <2>1, <1>1, <1>2, <1>4, AppendFacts DEF Planned
<1>7. PICK order \in Orderings(Freed(v)) : queue' = Tail(queue) \o order
  BY DEF Visit
<1>8. order \in Seq(toBuild) /\ Elements(order) = Freed(v) /\ NoRepeats(order)
  <2>1. Freed(v) \in SUBSET toBuild /\ IsFiniteSet(toBuild)
    BY <1>4, FiniteDeps DEF Freed, PlanInv
  <2>2. IsFiniteSet(Freed(v))
    BY <2>1, FS_Subset
  <2>3. order \in Seq(Freed(v)) /\ Elements(order) = Freed(v) /\ NoRepeats(order)
    BY <2>2, OrderingFacts
  <2> QED
    BY <2>1, <2>3
<1>9. /\ queue' \in Seq(toBuild) /\ NoRepeats(queue')
      /\ Elements(queue') = (Elements(queue) \ {v}) \cup Freed(v)
  <2> DEFINE front == Tail(queue)
  <2>1. /\ front \in Seq(toBuild) /\ NoRepeats(front)
        /\ Elements(front) \cap Elements(order) = {}
        /\ Elements(front) = Elements(queue) \ {v}
    BY <1>3, <1>5, <1>8
  <2>2. queue' = front \o order
    BY <1>7
  <2> HIDE DEF front
  <2>3. /\ front \o order \in Seq(toBuild) /\ NoRepeats(front \o order)
        /\ Elements(front \o order) = Elements(front) \cup Elements(order)
    BY <2>1, <1>8, ConcatFacts
  <2> QED
    BY <2>1, <2>2, <2>3, <1>8
<1> QED
  BY <1>4, <1>5, <1>6, <1>9

\* One visit keeps the counts right: the dependents of the derivation visited,
\* and only they, wait for one derivation less.
LEMMA VisitCounts ==
    ASSUME PlanInv, Visit, NEW d \in toBuild
    PROVE  LET v == Head(queue) IN
           /\ inDegree'[d] = Cardinality(OpenDeps(d) \ (Planned \cup {v}))
           /\ inDegree'[d] \in Nat
           /\ inDegree'[d] = 0 <=> inDegree[d] = 0 \/ d \in Freed(v)
<1> DEFINE v == Head(queue)
           open == OpenDeps(d) \ Planned
<1>1. v \in toBuild /\ v \notin Planned
  BY VisitMoves
<1>2. inDegree[d] = Cardinality(open) /\ inDegree[d] \in Nat
  BY DEF PlanInv, PlanTypeOK, DegreesCount
<1>3. inDegree'[d] = IF v \in deps[d] THEN inDegree[d] - 1 ELSE inDegree[d]
  BY DEF Visit, Decremented
<1>4. OpenDeps(d) \ (Planned \cup {v}) = open \ {v}
  OBVIOUS
<1>5. v \in open <=> v \in deps[d]
  BY <1>1 DEF OpenDeps
<1>6. IsFiniteSet(open) /\ Cardinality(open \ {v}) \in Nat
  <2>1. IsFiniteSet(open)
    BY FiniteDeps DEF PlanInv
  <2> QED
    BY <2>1, <1>4, FiniteDeps DEF PlanInv
<1>7. Cardinality(open \ {v}) = IF v \in open THEN Cardinality(open) - 1
                                              ELSE Cardinality(open)
  BY <1>6, FS_RemoveElement
<1>8. inDegree'[d] = Cardinality(open \ {v})
  BY <1>2, <1>3, <1>5, <1>7
<1>9. inDegree'[d] = 0 <=> inDegree[d] = 0 \/ d \in Freed(v)
  <2>1. CASE v \in deps[d]
    <3>1. inDegree'[d] = inDegree[d] - 1 /\ inDegree'[d] \in Nat
      BY <2>1, <1>3, <1>6, <1>8
    <3>2. d \in Freed(v) <=> inDegree[d] = 1
      BY <2>1 DEF Freed
    <3> QED
      BY <3>1, <3>2, <1>2
  <2>2. CASE v \notin deps[d]
    BY <2>2, <1>3 DEF Freed
  <2> QED
    BY <2>1, <2>2
<1> QED
  BY <1>4, <1>6, <1>8, <1>9

-----------------------------------------------------------------------------
\* A visit appends a derivation all of whose dependencies are in the result.
LEMMA VisitKeepsOrder == PlanInv /\ Visit => DependenciesFirst'
<1> SUFFICES ASSUME PlanInv, Visit, NEW i \in DOMAIN result'
             PROVE  OpenDeps(result'[i]) \subseteq {result'[k] : k \in 1 .. i - 1}
  BY DEF DependenciesFirst, OpenDeps, Visit, input
<1> DEFINE v == Head(queue)
           n == Len(result)
<1>1. /\ n \in Nat /\ DOMAIN result = 1 .. n /\ DOMAIN result' = 1 .. n + 1
      /\ \A k \in 1 .. n : result'[k] = result[k]
      /\ result'[n + 1] = v
  BY DEF PlanInv, PlanTypeOK, Visit
<1>2. CASE i \in 1 .. n
  <2>1. OpenDeps(result[i]) \subseteq {result[k] : k \in 1 .. i - 1}
    BY <1>1, <1>2 DEF PlanInv, DependenciesFirst
  <2>2. \A k \in 1 .. i - 1 : result'[k] = result[k]
    BY <1>1, <1>2
  <2>3. result'[i] = result[i]
    BY <1>1, <1>2
  <2> QED
    BY <2>1, <2>2, <2>3
<1>3. CASE i = n + 1
  <2>1. OpenDeps(v) \ Planned = {}
    <3>1. v \in toBuild /\ inDegree[v] = 0
      BY VisitMoves
    <3>2. Cardinality(OpenDeps(v) \ Planned) = 0 /\ IsFiniteSet(OpenDeps(v) \ Planned)
      BY <3>1, FiniteDeps DEF PlanInv, DegreesCount
    <3> QED
      BY <3>2, FS_EmptySet
  <2>2. i - 1 = n /\ result'[i] = v
    BY <1>1, <1>3
  <2>3. Planned = {result[k] : k \in 1 .. n}
    BY <1>1 DEF Planned, Elements
  <2>4. \A k \in 1 .. n : result'[k] = result[k]
    BY <1>1
  <2> QED
    BY <2>1, <2>2, <2>3, <2>4
<1> QED
  BY <1>1, <1>2, <1>3

\* A visit preserves the invariant.
LEMMA VisitStep == PlanInv /\ Visit => PlanInv'
<1> SUFFICES ASSUME PlanInv, Visit PROVE PlanInv'
  OBVIOUS
<1> DEFINE v == Head(queue)
<1>1. toBuild' = toBuild /\ deps' = deps
  BY DEF Visit, input
<1>2. PlanTypeOK'
  <2>1. inDegree' \in [toBuild -> Nat]
    <3>1. inDegree' = [e \in toBuild |-> IF v \in deps[e] THEN inDegree[e] - 1
                                                          ELSE inDegree[e]]
      BY DEF Visit, Decremented
    <3> QED
      BY <3>1, VisitCounts
  <2>2. queue' \in Seq(toBuild) /\ result' \in Seq(toBuild)
    BY VisitMoves
  <2> QED
    BY <1>1, <2>1, <2>2 DEF PlanInv, PlanTypeOK
<1>3. DegreesCount'
  <2>1. Planned' = Planned \cup {v}
    BY VisitMoves
  <2>2. ASSUME NEW d \in toBuild
        PROVE  inDegree'[d] = Cardinality((OpenDeps(d) \ Planned)')
    <3>1. (OpenDeps(d) \ Planned)' = OpenDeps(d) \ (Planned \cup {v})
      BY <1>1, <2>1 DEF OpenDeps
    <3> QED
      BY <3>1, VisitCounts
  <2> QED
    BY <1>1, <2>2 DEF DegreesCount
<1>4. ListedWhenFree'
  <2>1. NoRepeats(queue') /\ NoRepeats(result')
    BY VisitMoves
  <2>2. /\ Elements(queue') = (Elements(queue) \ {v}) \cup Freed(v)
        /\ Planned' = Planned \cup {v} /\ v \notin Planned
        /\ Freed(v) \cap (Elements(queue) \cup Planned) = {}
        /\ v \in toBuild /\ inDegree[v] = 0
    BY VisitMoves
  <2>3. v \in Elements(queue)
    BY <2>2 DEF PlanInv, ListedWhenFree
  <2>4. Elements(queue') \cap Planned' = {}
    BY <2>2, <2>3 DEF PlanInv, ListedWhenFree
  <2>5. ASSUME NEW d \in toBuild
        PROVE  inDegree'[d] = 0 <=> d \in Elements(queue') \cup Planned'
    <3>1. inDegree'[d] = 0 <=> inDegree[d] = 0 \/ d \in Freed(v)
      BY VisitCounts
    <3>2. inDegree[d] = 0 <=> d \in Elements(queue) \cup Planned
      BY DEF PlanInv, ListedWhenFree
    <3> QED
      BY <2>2, <2>3, <3>1, <3>2
  <2> QED
    BY <1>1, <2>1, <2>4, <2>5 DEF ListedWhenFree
<1> QED
  BY <1>2, <1>3, <1>4, VisitKeepsOrder DEF PlanInv

\* If the work list is empty, what is missing from the result depends on
\* something else that is missing.
LEMMA RemainderIsCyclic ==
    ASSUME PlanInv, queue = <<>>, NEW d \in toBuild \ Planned
    PROVE  deps[d] \cap (toBuild \ Planned) # {}
<1>1. inDegree[d] # 0
  BY DEF PlanInv, ListedWhenFree, Elements
<1>2. Cardinality(OpenDeps(d) \ Planned) # 0
  BY <1>1 DEF PlanInv, DegreesCount
<1>3. IsFiniteSet(OpenDeps(d) \ Planned)
  BY FiniteDeps DEF PlanInv
<1>4. OpenDeps(d) \ Planned # {}
  BY <1>2, <1>3, FS_EmptySet
<1> QED
  BY <1>4 DEF OpenDeps

\* Without a cycle nothing can be missing.
LEMMA InvGivesComplete == PlanInv => PlanIsComplete
<1> SUFFICES ASSUME PlanInv, Acyclic, queue = <<>> PROVE Planned = toBuild
  BY DEF PlanIsComplete, Planned
<1>1. Planned \subseteq toBuild
  BY DEF PlanInv, PlanTypeOK, Planned, Elements
<1>2. ASSUME toBuild \ Planned # {} PROVE FALSE
  <2>1. PICK d \in toBuild \ Planned : deps[d] \cap (toBuild \ Planned) = {}
    BY <1>2 DEF Acyclic
  <2> QED
    BY <2>1, RemainderIsCyclic
<1> QED
  BY <1>1, <1>2

-----------------------------------------------------------------------------
\* The invariant holds throughout the sort.
THEOREM PlanInvariant == PlanSpec => []PlanInv
<1>1. PlanInv /\ UNCHANGED planVars => PlanInv'
  BY DEF PlanInv, planVars, PlanTypeOK, DegreesCount, ListedWhenFree,
     DependenciesFirst, OpenDeps, Planned
<1> QED
  BY PlanStarts, VisitStep, <1>1, PTL DEF PlanSpec

\* The sort keeps its types: in particular in_degree, an unsigned number, is
\* never decremented below zero.
THEOREM PlanTypeCorrect == PlanSpec => []PlanTypeOK
BY PlanInvariant, PTL DEF PlanInv

\* build-push queues every derivation after what it depends on.
THEOREM DependenciesComeFirst == PlanSpec => []DependenciesFirst
BY PlanInvariant, PTL DEF PlanInv

\* build-push queues no derivation twice.
THEOREM NothingIsPlannedTwice == PlanSpec => []PlannedOnce
<1>1. PlanInv => PlannedOnce
  BY DEF PlanInv, ListedWhenFree, PlannedOnce
<1> QED
  BY <1>1, PlanInvariant, PTL

\* build-push drops no derivation of a graph without cycles.
THEOREM NothingIsDropped == PlanSpec => []PlanIsComplete
BY PlanInvariant, InvGivesComplete, PTL

=============================================================================
