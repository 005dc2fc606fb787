--------------------------- MODULE PassInitProofs ---------------------------
(***************************************************************************)
(* Proofs about PassManager::Init(). The inductive invariant IInv of       *)
(* PassInit says what the two counters of the algorithm mean: passDeps is  *)
(* the number of edges not relaxed yet, and S is the set of unsorted       *)
(* passes for which that number is zero.                                   *)
(***************************************************************************)
EXTENDS PassInit, FiniteSetTheorems, SequenceTheorems, TLAPS

USE NPassAssumption, MaxEdgesAssumption

-----------------------------------------------------------------------------
(* Sets of edges are finite, and the edges of a pass that are not relaxed  *)
(* are none exactly when their count is zero.                              *)
LEMMA EdgesFinite ==
  ASSUME edges \in Seq(Edge), NEW p \in Pass
  PROVE  /\ IsFiniteSet(EdgesOf(p))
         /\ IsFiniteSet(Remaining(p))
         /\ Cardinality(EdgesOf(p)) \in Nat
         /\ Cardinality(Remaining(p)) \in Nat
         /\ Cardinality(EdgesOf(p)) = 0 <=> EdgesOf(p) = {}
         /\ Cardinality(Remaining(p)) = 0 <=> Remaining(p) = {}
<1>1. IsFiniteSet(1..Len(edges)) /\ DOMAIN edges = 1..Len(edges)
  BY FS_Interval, LenProperties
<1>2. EdgesOf(p) \subseteq 1..Len(edges) /\ Remaining(p) \subseteq EdgesOf(p)
  BY <1>1 DEF EdgesOf, Remaining
<1>3. IsFiniteSet(EdgesOf(p)) /\ IsFiniteSet(Remaining(p))
  BY <1>1, <1>2, FS_Subset
<1> QED
  BY <1>3, FS_CardinalityType, FS_EmptySet

\* A sequence with one more element behind.
LEMMA AppendToQueue ==
  ASSUME NEW s \in Seq(Pass), NEW p \in Pass
  PROVE  /\ DOMAIN Append(s, p) = 1..(Len(s) + 1)
         /\ \A i \in DOMAIN s : Append(s, p)[i] = s[i]
         /\ Append(s, p)[Len(s) + 1] = p
BY AppendProperties, LenProperties

\* The edges of a pass are finitely many and lead to passes.
LEMMA EdgeEnds ==
  ASSUME edges \in Seq(Edge), NEW i \in DOMAIN edges
  PROVE  edges[i].pass \in Pass /\ edges[i].depends \in Pass
<1>1. edges[i] \in Edge
  BY ElementOfSeq, LenProperties
<1> QED
  BY <1>1 DEF Edge

(* A pass that is sorted now was finite to count: Pass is finite.          *)
LEMMA PassFinite ==
  /\ IsFiniteSet(Pass)
  /\ Cardinality(Pass) = NPass
BY FS_Interval DEF Pass

-----------------------------------------------------------------------------
\* Before the first call.
LEMMA InitIInv == Init => IInv
<1> SUFFICES ASSUME Init PROVE IInv
  OBVIOUS
<1> USE DEF Init
<1>1. TypeOK
  BY DEF TypeOK, Pass, NoIdx
<1>2. LoopBounds /\ CountsRemaining /\ SortedIsPopped /\ SortedWaitsForNone
      /\ TopologicalOrder /\ Verdict
  BY DEF LoopBounds, CountsRemaining, SortedIsPopped, SortedWaitsForNone,
         TopologicalOrder, Verdict, Counted, Sorted, Pass, NoIdx
<1>3. QueueIsReady
  BY DEF QueueIsReady, Counted
<1>4. IndicesBelowAdded
  <2>1. {p \in Pass : Sorted(p)} = {}
    BY DEF Sorted
  <2> QED
    BY <2>1, FS_EmptySet DEF IndicesBelowAdded, NoIdx, Sorted
<1> QED
  BY <1>1, <1>2, <1>3, <1>4 DEF IInv

-----------------------------------------------------------------------------
(* One lemma per action: each preserves the invariant.                     *)

\* AddDependency() counts the dependency once more.
LEMMA AddDependencyStep ==
  ASSUME IInv, NEW d \in Pass, AddDependency(d)
  PROVE  IInv'
<1> USE DEF IInv, AddDependency, sortVars
<1>1. at \in Pass /\ visited = {}
  BY DEF LoopBounds
<1>2. TypeOK'
  <2>1. edges \in Seq(Edge) /\ [pass |-> at, depends |-> d] \in Edge
    BY <1>1 DEF TypeOK, Edge
  <2>2. edges' \in Seq(Edge)
    BY <2>1, AppendProperties
  <2>3. /\ TypeOK
        /\ UNCHANGED <<pmState, pState, topoIdx, passDeps, S, visited, added, cur, phase, at>>
    OBVIOUS
  <2> HIDE DEF IInv, AddDependency
  <2> QED
    BY <2>2, <2>3 DEF TypeOK
<1>3. \A p \in Pass : ~Sorted(p)
  BY <1>1 DEF SortedIsPopped
<1>4. LoopBounds' /\ CountsRemaining' /\ SortedWaitsForNone' /\ Verdict'
  BY DEF LoopBounds, CountsRemaining, SortedWaitsForNone, Verdict, Counted
<1>5. SortedIsPopped'
  BY DEF SortedIsPopped, Sorted
<1>6. QueueIsReady'
  BY DEF QueueIsReady, Counted, Sorted
<1>7. TopologicalOrder'
  BY <1>2, <1>3, ElementOfSeq, LenProperties
     DEF TopologicalOrder, TypeOK, Sorted, Edge
<1>8. IndicesBelowAdded'
  BY DEF IndicesBelowAdded, Sorted
<1> QED
  BY <1>2, <1>4, <1>5, <1>6, <1>7, <1>8

\* All dependencies are declared.
LEMMA DependenciesComputedStep ==
  ASSUME IInv, DependenciesComputed
  PROVE  IInv'
<1> USE DEF IInv, DependenciesComputed, sortVars
<1>1. at \in Pass /\ visited = {} /\ visited' = {}
  BY DEF LoopBounds
<1>2. TypeOK'
  BY <1>1 DEF TypeOK, Pass
<1>3. LoopBounds'
  BY <1>1 DEF LoopBounds, Pass, TypeOK
<1>5. DOMAIN S = {}
  BY LenProperties DEF QueueIsReady, Counted, TypeOK
<1>6. Counted' = {}
  BY <1>1 DEF Counted, Pass, TypeOK
<1>7. CountsRemaining' /\ SortedWaitsForNone' /\ Verdict' /\ QueueIsReady'
  BY <1>5, <1>6 DEF CountsRemaining, SortedWaitsForNone, Verdict, QueueIsReady
<1>8. SortedIsPopped' /\ TopologicalOrder' /\ IndicesBelowAdded'
  BY DEF SortedIsPopped, TopologicalOrder, IndicesBelowAdded, Sorted
<1> QED
  BY <1>2, <1>3, <1>7, <1>8

\* The passes without dependencies are queued.
LEMMA SeedStep ==
  ASSUME IInv, Seed
  PROVE  IInv'
<1> USE DEF IInv, Seed
<1>1. at \in Pass /\ visited = {} /\ visited' = {}
  BY DEF LoopBounds
<1>2. at \notin Counted /\ Counted' = Counted \union {at}
  BY <1>1 DEF Counted, Pass, TypeOK
<1>3. \A p \in Pass : ~Sorted(p) /\ ~Sorted(p)'
  BY <1>1 DEF SortedIsPopped, Sorted
<1>4. \A p \in Pass : /\ Remaining(p) = EdgesOf(p)
                      /\ Remaining(p)' = EdgesOf(p)
                      /\ EdgesOf(p)' = EdgesOf(p)
  BY <1>1 DEF Remaining, Relaxed, EdgesOf
<1>5. /\ Cardinality(EdgesOf(at)) \in Nat
      /\ Cardinality(EdgesOf(at)) = 0 <=> EdgesOf(at) = {}
  BY <1>1, EdgesFinite DEF TypeOK
<1>6. TypeOK'
  <2>1. S' \in Seq(Pass) /\ passDeps' \in [Pass -> Nat]
    BY <1>1, <1>5, AppendProperties DEF TypeOK
  <2>2. at' \in Nat \ {0} /\ phase' \in {"Seed", "Pop"}
    BY <1>1 DEF Pass
  <2> QED
    BY <2>1, <2>2 DEF TypeOK
<1>7. LoopBounds'
  BY <1>1 DEF LoopBounds, Pass, TypeOK
<1>8. CountsRemaining'
  <2>1. Counted \subseteq Pass
    BY <1>1 DEF Counted, Pass, TypeOK
  <2> QED
    BY <1>1, <1>2, <1>4, <2>1 DEF CountsRemaining, TypeOK
<1>9. SortedIsPopped' /\ SortedWaitsForNone' /\ TopologicalOrder' /\ Verdict'
      /\ IndicesBelowAdded'
  <2>1. Counted' \subseteq Pass
    BY <1>1 DEF Counted, Pass, TypeOK
  <2> QED
    BY <1>1, <1>3, <2>1 DEF SortedIsPopped, SortedWaitsForNone,
       TopologicalOrder, Verdict, IndicesBelowAdded, Sorted
<1>10. QueueIsReady'
  <2>1. S \in Seq(Pass) /\ DOMAIN S = 1..Len(S) /\ Len(S) \in Nat
    BY LenProperties DEF TypeOK
  <2>2. \A i \in DOMAIN S : S[i] \in Counted /\ S[i] \in Pass /\ S[i] # at
    BY <1>2, <2>1, ElementOfSeq DEF QueueIsReady
  <2>3. \A p \in Counted : p # at /\ p \in Pass
    BY <1>1, <1>2 DEF Counted, Pass, TypeOK
  <2>4. \A p \in Pass \ {at} : passDeps'[p] = passDeps[p]
    BY DEF TypeOK
  <2>5. CASE EdgesOf(at) = {}
    <3>1. /\ S' \in Seq(Pass) /\ DOMAIN S' = 1..(Len(S) + 1)
          /\ \A i \in DOMAIN S : S'[i] = S[i]
          /\ S'[Len(S) + 1] = at
      BY <1>1, <2>1, <2>5, AppendProperties, LenProperties
    <3>2. passDeps'[at] = 0
      BY <1>1, <1>5, <2>5 DEF TypeOK
    <3> QED
      BY <1>2, <1>3, <2>1, <2>2, <2>3, <2>4, <3>1, <3>2
         DEF QueueIsReady, Sorted
  <2>6. CASE EdgesOf(at) # {}
    <3>1. S' = S /\ passDeps'[at] # 0
      BY <1>1, <1>5, <2>6 DEF TypeOK
    <3>2. \A i \in DOMAIN S' :
            S'[i] \in Counted' /\ topoIdx'[S'[i]] = NoIdx /\ passDeps'[S'[i]] = 0
      <4> TAKE i \in DOMAIN S'
      <4>1. S[i] \in Counted /\ topoIdx[S[i]] = NoIdx /\ passDeps[S[i]] = 0
        BY <1>3, <3>1 DEF QueueIsReady, Sorted
      <4>2. S[i] \in Pass \ {at} /\ S[i] \in Counted'
        BY <1>2, <2>3, <4>1
      <4> QED
        BY <2>1, <2>2, <2>4, <3>1, <4>1, <4>2
    <3>3. ASSUME NEW p \in Counted', passDeps'[p] = 0
          PROVE  \E i \in DOMAIN S' : S'[i] = p
      <4>1. p \in Counted /\ p \in Pass /\ passDeps[p] = 0
        BY <1>2, <2>3, <2>4, <3>1, <3>3
      <4> QED
        BY <1>3, <3>1, <4>1 DEF QueueIsReady
    <3>4. \A i, j \in DOMAIN S' : S'[i] = S'[j] => i = j
      BY <3>1 DEF QueueIsReady
    <3> QED
      BY <3>2, <3>3, <3>4 DEF QueueIsReady, Sorted
  <2> QED
    BY <2>5, <2>6
<1> QED
  BY <1>6, <1>7, <1>8, <1>9, <1>10

\* A pass is taken from the queue and numbered.
LEMMA PopStep ==
  ASSUME IInv, Pop
  PROVE  IInv'
<1> DEFINE n == Head(S)
<1> USE DEF IInv, Pop
<1>1. /\ S \in Seq(Pass) /\ DOMAIN S = 1..Len(S) /\ Len(S) \in Nat \ {0}
      /\ n = S[1] /\ n \in Pass
      /\ Tail(S) \in Seq(Pass) /\ DOMAIN Tail(S) = 1..(Len(S) - 1)
      /\ \A i \in 1..(Len(S) - 1) : Tail(S)[i] = S[i + 1]
  BY LenProperties, HeadTailProperties, EmptySeq, ElementOfSeq DEF TypeOK
<1>2. ~Sorted(n) /\ passDeps[n] = 0 /\ n \in Counted /\ Counted = Pass
      /\ Counted' = Pass
  BY <1>1 DEF QueueIsReady, Counted
<1>3. n \notin visited /\ phase' = "Relax" /\ cur' = n /\ at' = 1
  BY <1>1, <1>2 DEF SortedIsPopped
<1>4. TypeOK'
  BY <1>1 DEF TypeOK
<1>5. \A p \in Pass : topoIdx'[p] = IF p = n THEN added ELSE topoIdx[p]
  BY DEF TypeOK
<1>6. \A p \in Pass : Sorted(p)' <=> Sorted(p) \/ p = n
  BY <1>5 DEF Sorted, TypeOK, NoIdx
<1>7. LoopBounds'
  BY <1>3, LenProperties DEF LoopBounds, TypeOK
<1>8. CountsRemaining'
  <2>1. \A p \in Pass : Remaining(p)' = Remaining(p)
    <3>1. ASSUME NEW p \in Pass, NEW i \in EdgesOf(p)
          PROVE  Relaxed(i)' <=> Relaxed(i)
      BY <1>3, LenProperties DEF Relaxed, EdgesOf, TypeOK
    <3>2. \A p \in Pass : EdgesOf(p)' = EdgesOf(p)
      BY DEF EdgesOf
    <3> QED
      BY <3>1, <3>2 DEF Remaining
  <2> QED
    BY <1>2, <2>1 DEF CountsRemaining
<1>9. SortedIsPopped'
  BY <1>3, <1>6 DEF SortedIsPopped
<1>10. QueueIsReady'
  <2>1. ASSUME NEW i \in DOMAIN S'
        PROVE  /\ S'[i] = S[i + 1] /\ i + 1 \in DOMAIN S
               /\ S'[i] \in Pass /\ S'[i] # n
    BY <1>1, <2>1, ElementOfSeq DEF QueueIsReady
  <2>2. \A i \in DOMAIN S' : topoIdx'[S'[i]] = NoIdx /\ passDeps'[S'[i]] = 0
    BY <1>5, <2>1 DEF QueueIsReady, Sorted
  <2>3. \A i, j \in DOMAIN S' : S'[i] = S'[j] => i = j
    BY <1>1, <2>1 DEF QueueIsReady
  <2>4. ASSUME NEW p \in Pass, ~Sorted(p)', passDeps'[p] = 0
        PROVE  \E i \in DOMAIN S' : S'[i] = p
    <3>1. ~Sorted(p) /\ p # n /\ passDeps[p] = 0
      BY <1>6, <2>4
    <3>2. PICK i \in DOMAIN S : S[i] = p
      BY <1>2, <3>1 DEF QueueIsReady
    <3>3. i # 1 /\ i - 1 \in DOMAIN S' /\ S'[i - 1] = S[i]
      BY <1>1, <3>1, <3>2
    <3> QED
      BY <3>2, <3>3
  <2> QED
    BY <1>2, <2>1, <2>2, <2>3, <2>4 DEF QueueIsReady, Sorted
<1>11. SortedWaitsForNone'
  BY <1>2, <1>6 DEF SortedWaitsForNone
<1>12. TopologicalOrder'
  <2> SUFFICES ASSUME NEW i \in DOMAIN edges,
                      topoIdx'[edges[i].pass] # NoIdx
               PROVE  /\ topoIdx'[edges[i].depends] # NoIdx
                      /\ topoIdx'[edges[i].depends] < topoIdx'[edges[i].pass]
    BY DEF TopologicalOrder
  <2>1. edges[i].pass \in Pass /\ edges[i].depends \in Pass
    BY EdgeEnds DEF TypeOK
  <2>2. CASE edges[i].pass = n
    <3>1. Remaining(n) = {}
      BY <1>1, <1>2, EdgesFinite DEF CountsRemaining, TypeOK
    <3>2. edges[i].depends \in visited
      BY <2>2, <3>1 DEF Remaining, Relaxed, EdgesOf
    <3>3. Sorted(edges[i].depends) /\ edges[i].depends # n
      BY <1>3, <2>1, <3>2 DEF SortedIsPopped
    <3>4. /\ topoIdx'[edges[i].depends] = topoIdx[edges[i].depends]
          /\ topoIdx'[edges[i].pass] = added
          /\ topoIdx[edges[i].depends] < added
      BY <1>5, <2>1, <2>2, <3>3 DEF IndicesBelowAdded
    <3> QED
      BY <3>3, <3>4 DEF Sorted
  <2>3. CASE edges[i].pass # n
    <3>1. Sorted(edges[i].pass)
      BY <1>5, <2>1, <2>3 DEF Sorted
    <3>2. Sorted(edges[i].depends) /\ edges[i].depends # n
          /\ topoIdx[edges[i].depends] < topoIdx[edges[i].pass]
      BY <1>2, <3>1 DEF TopologicalOrder, Sorted
    <3> QED
      BY <1>5, <2>1, <2>3, <3>2 DEF Sorted
  <2> QED
    BY <2>2, <2>3
<1>13. IndicesBelowAdded'
  <2>1. {p \in Pass : Sorted(p)}' = {p \in Pass : Sorted(p)} \union {n}
    BY <1>1, <1>6
  <2>2. IsFiniteSet({p \in Pass : Sorted(p)})
    BY PassFinite, FS_Subset
  <2>3. added' = Cardinality({p \in Pass : Sorted(p)}')
    <3> DEFINE T == {p \in Pass : Sorted(p)}
    <3>1. added = Cardinality(T) /\ added' = added + 1
      BY DEF IndicesBelowAdded
    <3> DEFINE U == T'
    <3>4. n \notin T /\ U = T \union {n}
      BY <1>2, <2>1
    <3>2. IsFiniteSet(T)
      BY <2>2
    <3> HIDE DEF n, IInv, Pop
    <3>5. added' = Cardinality(U)
      <4> HIDE DEF T, U
      <4>1. Cardinality(T \union {n}) = Cardinality(T) + 1
        BY <3>2, <3>4, FS_AddElement
      <4> QED
        BY <3>1, <3>4, <4>1
    <3> QED
      BY <3>5
  <2>4. ASSUME NEW p \in Pass
        PROVE  topoIdx'[p] < added'
    <3>1. topoIdx[p] < added /\ topoIdx[p] \in Int /\ added \in Int
      BY DEF IndicesBelowAdded, TypeOK, NoIdx
    <3> QED
      BY <1>5, <3>1
  <2>5. ASSUME NEW p \in Pass, NEW q \in Pass,
               Sorted(p)', topoIdx'[p] = topoIdx'[q]
        PROVE  p = q
    <3>1. topoIdx[p] < added /\ topoIdx[q] < added
      BY DEF IndicesBelowAdded
    <3> QED
      BY <1>5, <1>6, <2>5, <3>1 DEF IndicesBelowAdded, TypeOK, NoIdx
  <2> QED
    BY <2>3, <2>4, <2>5 DEF IndicesBelowAdded, Sorted
<1>14. Verdict'
  BY <1>3 DEF Verdict
<1> QED
  BY <1>4, <1>7, <1>8, <1>9, <1>10, <1>11, <1>12, <1>13, <1>14

\* One dependent of it waits for one pass less.
LEMMA RelaxStep ==
  ASSUME IInv, Relax
  PROVE  IInv'
<1> USE DEF IInv, Relax
<1>0. PICK m \in Pass, k \in Nat : k = at /\ m = edges[at].pass
  BY LenProperties, EdgeEnds DEF TypeOK
<1>1. /\ DOMAIN edges = 1..Len(edges) /\ Len(edges) \in Nat
      /\ at \in DOMAIN edges /\ at \in Nat /\ k = at
      /\ m \in Pass /\ edges[at].depends \in Pass /\ m = edges[at].pass
  BY <1>0, LenProperties, EdgeEnds DEF TypeOK
<1>2. cur \notin visited /\ Counted = Pass /\ Counted' = Pass
  BY DEF SortedIsPopped, Counted
<1>3. \A p \in Pass : /\ EdgesOf(p)' = EdgesOf(p)
                      /\ EdgesOf(p) \subseteq DOMAIN edges
  BY DEF EdgesOf
<1>4. \A i \in DOMAIN edges :
        Relaxed(i)' <=> Relaxed(i) \/ (i = k /\ edges[at].depends = cur)
  BY <1>1 DEF Relaxed
<1>5. LoopBounds'
  BY <1>1 DEF LoopBounds
<1>6. SortedIsPopped' /\ TopologicalOrder' /\ IndicesBelowAdded' /\ Verdict'
  BY DEF SortedIsPopped, TopologicalOrder, IndicesBelowAdded, Verdict, Sorted
<1>7. CASE edges[at].depends # cur
  <2>1. passDeps' = passDeps /\ S' = S
    BY <1>7
  <2>2. \A p \in Pass : Remaining(p)' = Remaining(p)
    BY <1>3, <1>4, <1>7 DEF Remaining
  <2>3. TypeOK'
    BY <1>1, <2>1 DEF TypeOK
  <2>4. CountsRemaining' /\ QueueIsReady' /\ SortedWaitsForNone'
    BY <1>2, <2>1, <2>2
       DEF CountsRemaining, QueueIsReady, SortedWaitsForNone, Sorted
  <2> QED
    BY <1>5, <1>6, <2>3, <2>4
<1>8. CASE edges[at].depends = cur
  <2>1. k \in Remaining(m)
    BY <1>1, <1>2, <1>8 DEF Remaining, EdgesOf, Relaxed
  <2>2. Remaining(m)' = Remaining(m) \ {k}
    BY <1>1, <1>3, <1>4, <1>8 DEF Remaining
  <2>3. \A p \in Pass \ {m} : Remaining(p)' = Remaining(p)
    BY <1>1, <1>3, <1>4 DEF Remaining, EdgesOf
  <2>4. passDeps[m] = Cardinality(Remaining(m)) /\ passDeps[m] \in Nat \ {0}
    <3>1. /\ Cardinality(Remaining(m)) \in Nat
          /\ Cardinality(Remaining(m)) = 0 <=> Remaining(m) = {}
          /\ IsFiniteSet(Remaining(m))
      BY <1>1, EdgesFinite DEF TypeOK
    <3>2. Cardinality(Remaining(m)) \in Nat \ {0}
      BY <2>1, <3>1
    <3> QED
      BY <1>1, <1>2, <3>2 DEF CountsRemaining
  <2>5. passDeps[m] - 1 = Cardinality(Remaining(m)')
    <3>1. IsFiniteSet(Remaining(m))
      BY <1>1, EdgesFinite DEF TypeOK
    <3>2. Cardinality(Remaining(m) \ {k}) = Cardinality(Remaining(m)) - 1
      BY <2>1, <3>1, FS_RemoveElement
    <3> QED
      BY <2>2, <2>4, <3>2
  <2>6. \A p \in Pass :
          passDeps'[p] = IF p = m THEN passDeps[m] - 1 ELSE passDeps[p]
    BY <1>1, <1>8 DEF TypeOK
  <2>7. S' = IF passDeps[m] = 1 THEN Append(S, m) ELSE S
    BY <1>1, <1>8, <2>4
  <2>8. /\ S \in Seq(Pass) /\ DOMAIN S = 1..Len(S) /\ Len(S) \in Nat
        /\ \A i \in DOMAIN S : S[i] \in Pass
    BY LenProperties, ElementOfSeq DEF TypeOK
  <2>9. ~Sorted(m) /\ \A i \in DOMAIN S : S[i] # m
    BY <1>1, <1>2, <2>4 DEF SortedWaitsForNone, QueueIsReady
  <2>10. TypeOK'
    <3>1. passDeps' \in [Pass -> Nat]
      BY <1>1, <1>8, <2>4 DEF TypeOK
    <3>2. S' \in Seq(Pass)
      BY <1>1, <2>7, <2>8, AppendProperties
    <3>3. /\ at' \in Nat \ {0}
          /\ UNCHANGED <<pmState, pState, edges, topoIdx, visited, added, phase, cur>>
      BY <1>1
    <3>4. TypeOK
      OBVIOUS
    <3> HIDE DEF IInv, Relax
    <3> QED
      BY <3>1, <3>2, <3>3, <3>4 DEF TypeOK
  <2>11. CountsRemaining'
    <3>1. ASSUME NEW p \in Pass
          PROVE  passDeps'[p] = Cardinality(Remaining(p)')
      BY <1>2, <2>3, <2>5, <2>6 DEF CountsRemaining
    <3> QED
      BY <1>2, <3>1 DEF CountsRemaining
  <2>12. SortedWaitsForNone'
    BY <1>2, <2>6, <2>9 DEF SortedWaitsForNone, Sorted
  <2>13. QueueIsReady'
    <3>1. CASE passDeps[m] = 1
      <4>0. S' = Append(S, m)
        BY <2>7, <3>1
      <4>1. /\ DOMAIN S' = 1..(Len(S) + 1)
            /\ \A i \in DOMAIN S : S'[i] = S[i]
            /\ S'[Len(S) + 1] = m
        BY <2>8, <4>0, AppendToQueue
      <4>2. \A i \in DOMAIN S' : /\ S'[i] \in Pass
                                 /\ topoIdx[S'[i]] = NoIdx
                                 /\ passDeps'[S'[i]] = 0
        BY <1>1, <2>6, <2>8, <2>9, <3>1, <4>1 DEF QueueIsReady, Sorted
      <4>3. \A i, j \in DOMAIN S' : S'[i] = S'[j] => i = j
        BY <2>8, <2>9, <4>1 DEF QueueIsReady
      <4>4. ASSUME NEW p \in Pass, topoIdx[p] = NoIdx, passDeps'[p] = 0
            PROVE  \E i \in DOMAIN S' : S'[i] = p
        <5>1. CASE p = m
          BY <2>8, <4>1, <5>1
        <5>2. CASE p # m
          <6>1. PICK i \in DOMAIN S : S[i] = p
            BY <1>2, <2>6, <4>4, <5>2 DEF QueueIsReady, Sorted
          <6> QED
            BY <2>8, <4>1, <6>1
        <5> QED
          BY <5>1, <5>2
      <4> QED
        BY <1>2, <4>2, <4>3, <4>4 DEF QueueIsReady, Sorted
    <3>2. CASE passDeps[m] # 1
      <4>1. S' = S /\ passDeps'[m] # 0
        BY <1>1, <2>4, <2>6, <2>7, <3>2
      <4> QED
        BY <1>2, <2>6, <2>8, <2>9, <4>1 DEF QueueIsReady, Sorted
    <3> QED
      BY <3>1, <3>2
  <2> QED
    BY <1>5, <1>6, <2>10, <2>11, <2>12, <2>13
<1> QED
  BY <1>7, <1>8

\* All its dependents were told.
LEMMA EndRelaxStep ==
  ASSUME IInv, EndRelax
  PROVE  IInv'
<1> USE DEF IInv, EndRelax
<1>1. TypeOK'
  BY DEF TypeOK
<1>2. Counted = Pass /\ Counted' = Pass
  BY DEF Counted
<1>3. \A p \in Pass : Remaining(p)' = Remaining(p)
  <2>1. \A p \in Pass : /\ EdgesOf(p)' = EdgesOf(p)
                        /\ EdgesOf(p) \subseteq DOMAIN edges
    BY DEF EdgesOf
  <2>2. \A i \in DOMAIN edges : i < at
    BY LenProperties DEF TypeOK
  <2>3. \A i \in DOMAIN edges : Relaxed(i)' <=> Relaxed(i)
    BY <2>2 DEF Relaxed
  <2> QED
    BY <2>1, <2>3 DEF Remaining
<1>4. LoopBounds' /\ CountsRemaining' /\ QueueIsReady' /\ SortedWaitsForNone'
      /\ TopologicalOrder' /\ IndicesBelowAdded' /\ Verdict'
  BY <1>2, <1>3 DEF LoopBounds, CountsRemaining, QueueIsReady,
     SortedWaitsForNone, TopologicalOrder, IndicesBelowAdded, Verdict, Sorted
<1>5. SortedIsPopped'
  BY DEF SortedIsPopped, Sorted
<1> QED
  BY <1>1, <1>4, <1>5

\* The queue is empty: all are numbered or there is a cycle.
LEMMA EndSortStep ==
  ASSUME IInv, EndSort
  PROVE  IInv'
<1> USE DEF IInv, EndSort, sortVars
<1>1. TypeOK'
  BY DEF TypeOK
<1>2. Counted = Pass /\ Counted' = Pass
  BY DEF Counted
<1>3. \A p \in Pass : Remaining(p)' = Remaining(p)
  BY DEF Remaining, Relaxed, EdgesOf
<1>4. LoopBounds' /\ CountsRemaining' /\ QueueIsReady' /\ SortedWaitsForNone'
      /\ TopologicalOrder' /\ IndicesBelowAdded' /\ Verdict'
  BY <1>2, <1>3 DEF LoopBounds, CountsRemaining, QueueIsReady,
     SortedWaitsForNone, TopologicalOrder, IndicesBelowAdded, Verdict, Sorted
<1>5. SortedIsPopped'
  BY DEF SortedIsPopped, Sorted
<1> QED
  BY <1>1, <1>4, <1>5

(* Every step of Init() preserves the invariant.                           *)
LEMMA NextIInv == IInv /\ [Next]_initVars => IInv'
<1> SUFFICES ASSUME IInv, [Next]_initVars PROVE IInv'
  OBVIOUS
<1>1. ASSUME NEW d \in Pass, AddDependency(d) PROVE IInv'
  BY <1>1, AddDependencyStep
<1>2. CASE DependenciesComputed
  BY <1>2, DependenciesComputedStep
<1>3. CASE Seed
  BY <1>3, SeedStep
<1>4. CASE Pop
  BY <1>4, PopStep
<1>5. CASE Relax
  BY <1>5, RelaxStep
<1>6. CASE EndRelax
  BY <1>6, EndRelaxStep
<1>7. CASE EndSort
  BY <1>7, EndSortStep
<1>8. CASE UNCHANGED initVars
  BY <1>8 DEF initVars, sortVars, IInv, TypeOK, LoopBounds, CountsRemaining,
     SortedIsPopped, QueueIsReady, SortedWaitsForNone, TopologicalOrder,
     IndicesBelowAdded, Verdict, Counted, Sorted, Remaining, Relaxed, EdgesOf
<1> QED
  BY <1>1, <1>2, <1>3, <1>4, <1>5, <1>6, <1>7, <1>8 DEF Next

-----------------------------------------------------------------------------
(* The results.                                                            *)

(* The invariant holds in every reachable state of Init().                 *)
THEOREM Invariance == Spec => []IInv
BY InitIInv, NextIInv, PTL DEF Spec

(* Every variable of Init() keeps its type; for passDeps, a natural number, *)
(* this says that the unsigned counter never wraps around.                 *)
THEOREM TypeCorrect == Spec => []TypeOK
BY Invariance, PTL DEF IInv

(* A pass is sorted after every pass it depends on, for any number of      *)
(* passes and any sequence of AddDependency calls.                         *)
THEOREM OrderIsTopological == Spec => []TopologicalOrder
BY Invariance, PTL DEF IInv

\* As many numbers as passes: each pass has one.
LEMMA AllSorted ==
  ASSUME IInv, added = NPass
  PROVE  \A p \in Pass : Sorted(p)
<1>1. Cardinality({p \in Pass : Sorted(p)}) = Cardinality(Pass)
  BY PassFinite DEF IInv, IndicesBelowAdded
<1>2. {p \in Pass : Sorted(p)} = Pass
  BY <1>1, PassFinite, FS_Subset
<1> QED
  BY <1>2

(* Once all passes are sorted the indices number them from 0 to NPass - 1. *)
LEMMA Permutation == IInv => SortedIsPermutation
<1> SUFFICES ASSUME IInv, phase = "Sorted"
             PROVE  /\ \A p \in Pass : topoIdx[p] \in 0..(NPass - 1)
                    /\ \A p, q \in Pass : topoIdx[p] = topoIdx[q] => p = q
  BY DEF SortedIsPermutation
<1>1. added = NPass /\ \A p \in Pass : Sorted(p)
  BY AllSorted DEF IInv, Verdict
<1>2. ASSUME NEW p \in Pass PROVE topoIdx[p] \in Nat /\ topoIdx[p] < NPass
  <2>1. topoIdx[p] \in Nat
    BY <1>1 DEF IInv, TypeOK, Sorted
  <2>2. topoIdx[p] < added
    BY DEF IInv, IndicesBelowAdded
  <2> QED
    BY <1>1, <2>1, <2>2
<1> QED
  BY <1>1, <1>2 DEF IInv, IndicesBelowAdded

(* When Init() returns, the assertion of validate() holds: the indices     *)
(* number the passes from 0 to NPass - 1.                                  *)
THEOREM SortIsPermutation == Spec => []SortedIsPermutation
BY Permutation, Invariance, PTL

(* When S runs empty, a pass left unsorted waits for another such pass.    *)
LEMMA StuckPass ==
  ASSUME IInv, phase \in {"Pop", "Cyclic"}, S = <<>>,
         NEW p \in Pass, ~Sorted(p)
  PROVE  \E i \in EdgesOf(p) :
           edges[i].depends \in Pass /\ ~Sorted(edges[i].depends)
<1>1. DOMAIN S = {} /\ Counted = Pass
  BY DEF Counted
<1>2. passDeps[p] # 0
  BY <1>1 DEF IInv, QueueIsReady
<1>3. Remaining(p) # {}
  BY <1>1, <1>2, EdgesFinite DEF IInv, CountsRemaining, TypeOK
<1>4. PICK i \in EdgesOf(p) : ~Relaxed(i)
  BY <1>3 DEF Remaining
<1>5. edges[i].depends \in Pass /\ edges[i].depends \notin visited
  BY <1>4, EdgeEnds DEF IInv, TypeOK, EdgesOf, Relaxed
<1> QED
  BY <1>5 DEF IInv, SortedIsPopped

\* Fewer numbers than passes: some pass waits for another.
LEMMA SomeUnsorted ==
  ASSUME IInv, added # NPass
  PROVE  \E p \in Pass : ~Sorted(p)
<1>1. ASSUME \A p \in Pass : Sorted(p) PROVE FALSE
  <2>1. {p \in Pass : Sorted(p)} = Pass
    BY <1>1
  <2> QED
    BY <2>1, PassFinite DEF IInv, IndicesBelowAdded
<1> QED
  BY <1>1

(* Init() rejects only cyclic graphs: the passes left unsorted depend on   *)
(* each other.                                                             *)
THEOREM RejectsOnlyCycles == Spec => []CycleIsReal
<1>1. IInv => CycleIsReal
  <2> SUFFICES ASSUME IInv, phase = "Cyclic"
               PROVE  \E C \in SUBSET Pass : C # {} /\ Circular(C)
    BY DEF CycleIsReal
  <2> DEFINE C == {p \in Pass : ~Sorted(p)}
  <2>1. added # NPass /\ S = <<>>
    BY DEF IInv, Verdict
  <2>2. C # {}
    BY <2>1, SomeUnsorted
  <2>3. Circular(C)
    BY <2>1, StuckPass DEF Circular
  <2> QED
    BY <2>2, <2>3
<1> QED
  BY <1>1, Invariance, PTL

(* The sort implements the abstract order: popping a pass is placing it,   *)
(* everything else Init() does is a declaration, a verdict or invisible.   *)
THEOREM Implementation == Spec => ImplementsOrder
<1> USE DEF OrderStatus
<1>1. Init => Order!Init
  <2> SUFFICES ASSUME Init PROVE Order!Init
    OBVIOUS
  <2>1. DOMAIN edges = {}
    BY DEF Init
  <2>2. DependsOn = {}
    BY <2>1 DEF DependsOn
  <2> QED
    BY <2>2 DEF Init, Order!Init, Order!Unranked, NoIdx
<1>2. IInv /\ IInv' /\ [Next]_initVars => [Order!Next]_(Order!ovars)
  <2> SUFFICES ASSUME IInv, IInv', [Next]_initVars
               PROVE  Order!Next \/ UNCHANGED Order!ovars
    OBVIOUS
  <2> USE DEF IInv, initVars, sortVars
  <2>1. ASSUME UNCHANGED edges PROVE DependsOn' = DependsOn
    BY <2>1 DEF DependsOn
  <2>2. ASSUME UNCHANGED <<edges, topoIdx, OrderStatus>>
        PROVE  UNCHANGED Order!ovars
    BY <2>1, <2>2 DEF Order!ovars
  <2>3. ASSUME NEW d \in Pass, AddDependency(d) PROVE Order!Next
    <3>1. PICK a \in Pass : a = at
      BY <2>3 DEF AddDependency, LoopBounds
    <3>2. /\ DOMAIN edges = 1..Len(edges) /\ Len(edges) \in Nat
          /\ DOMAIN edges' = 1..(Len(edges) + 1)
          /\ \A i \in DOMAIN edges : edges'[i] = edges[i]
          /\ edges'[Len(edges) + 1] = [pass |-> a, depends |-> d]
      BY <2>3, <3>1, AppendProperties, LenProperties
         DEF AddDependency, TypeOK, Edge
    <3>3. DependsOn' = DependsOn \union {<<a, d>>}
      BY <3>2 DEF DependsOn
    <3>4. Order!Declare(a, d)
      BY <2>3, <3>3 DEF AddDependency, Order!Declare
    <3> QED
      BY <3>1, <3>4 DEF Order!Next
  <2>4. CASE DependenciesComputed
    BY <2>2, <2>4 DEF DependenciesComputed
  <2>5. CASE Seed
    <3>1. CASE phase' = phase
      BY <2>2, <2>5, <3>1 DEF Seed
    <3>2. CASE phase' = "Pop"
      BY <2>1, <2>5, <3>2 DEF Seed, Order!Next, Order!BeginRanking
    <3> QED
      BY <2>5, <3>1, <3>2 DEF Seed
  <2>6. CASE Pop
    <3>1. PICK n \in Pass : n = Head(S)
      BY <2>6, HeadTailProperties DEF Pop, TypeOK
    <3>2. ~Sorted(n)
      BY <2>6, <3>1, LenProperties, EmptySeq DEF Pop, QueueIsReady, TypeOK
    <3>3. /\ topoIdx' = [topoIdx EXCEPT ![n] = added]
          /\ topoIdx'[n] = added /\ added \in Nat
      BY <2>6, <3>1 DEF Pop, TypeOK
    <3>4. ASSUME NEW d \in Pass, <<n, d>> \in DependsOn
          PROVE  Sorted(d)
      <4>1. PICK i \in DOMAIN edges : edges[i].pass = n /\ edges[i].depends = d
        BY <3>4 DEF DependsOn
      <4>2. edges' = edges
        BY <2>6 DEF Pop
      <4>3. topoIdx'[d] # NoIdx /\ topoIdx'[d] < topoIdx'[n]
        BY <3>3, <4>1, <4>2 DEF TopologicalOrder, NoIdx
      <4>4. d # n
        BY <3>3, <4>3
      <4> QED
        BY <3>3, <4>3, <4>4 DEF Sorted
    <3>5. \A q \in Pass : topoIdx[q] < topoIdx'[n]
      BY <3>3 DEF IndicesBelowAdded
    <3>6. DependsOn' = DependsOn
      BY <2>1, <2>6 DEF Pop
    <3>7. phase' \in {"Pop", "Relax"} /\ phase = "Pop"
      BY <2>6 DEF Pop
    <3>8. Order!Place(n)
      BY <3>2, <3>3, <3>4, <3>5, <3>6, <3>7
         DEF Order!Place, Order!Ranked, Order!Unranked, Sorted, NoIdx
    <3> QED
      BY <3>8 DEF Order!Next
  <2>7. CASE Relax
    BY <2>2, <2>7 DEF Relax
  <2>8. CASE EndRelax
    BY <2>2, <2>8 DEF EndRelax
  <2>9. CASE EndSort
    <3>1. CASE added = NPass
      <4>1. Order!Ranked = Pass
        BY <3>1, AllSorted DEF Order!Ranked, Order!Unranked, Sorted, NoIdx
      <4> QED
        BY <2>1, <2>9, <3>1, <4>1 DEF EndSort, Order!Next, Order!Accept
    <3>2. CASE added # NPass
      <4>1. Order!Ranked # Pass
        BY <3>2, SomeUnsorted DEF Order!Ranked, Order!Unranked, Sorted, NoIdx
      <4>2. ASSUME NEW p \in Pass \ Order!Ranked
            PROVE  \E d \in Pass \ Order!Ranked : <<p, d>> \in DependsOn
        <5>1. ~Sorted(p)
          BY <4>2 DEF Order!Ranked, Order!Unranked, Sorted, NoIdx
        <5>2. PICK i \in EdgesOf(p) : /\ edges[i].depends \in Pass
                                     /\ ~Sorted(edges[i].depends)
          BY <2>9, <4>2, <5>1, StuckPass DEF EndSort
        <5> QED
          BY <5>2 DEF EdgesOf, DependsOn, Order!Ranked, Order!Unranked,
             Sorted, NoIdx
      <4> QED
        BY <2>1, <2>9, <3>2, <4>1, <4>2 DEF EndSort, Order!Next, Order!Reject
    <3> QED
      BY <3>1, <3>2
  <2>10. CASE UNCHANGED initVars
    BY <2>2, <2>10
  <2> QED
    BY <2>3, <2>4, <2>5, <2>6, <2>7, <2>8, <2>9, <2>10 DEF Next
<1> QED
  BY <1>1, <1>2, Invariance, PTL DEF Spec, ImplementsOrder, Order!Spec
=============================================================================
