------------------------- MODULE PassManagerProofs -------------------------
(***************************************************************************)
(* Proofs about Init() and Run() together: the invariants that were proved *)
(* of the two parts are carried over. What Init() leaves when it returns   *)
(* is what the invariant of Run() assumes of the order of the passes.      *)
(***************************************************************************)
EXTENDS PassManager, FiniteSetTheorems, TLAPS

\* The proofs about the two parts of the manager, on its variables.
SortP == INSTANCE PassInitProofs
ExecP == INSTANCE PassRunProofs WITH Graphs <- {}

\* What they prove they prove of the parts as PassManager names them: Init(),
LEMMA SameSort ==
  /\ Sort!Init <=> SortP!Init
  /\ Sort!Next <=> SortP!Next
  /\ Sort!IInv <=> SortP!IInv
<1> USE DEF Sort!Pass, SortP!Pass, Sort!NoIdx, SortP!NoIdx, Sort!EdgesOf,
            SortP!EdgesOf, Sort!sortVars, SortP!sortVars, Sort!Edge,
            SortP!Edge
<1> USE DEF Sort!Cardinality, SortP!Cardinality
<1>1. Sort!Init <=> SortP!Init
  BY DEF Sort!Init, SortP!Init
<1>2. \A d : Sort!AddDependency(d) <=> SortP!AddDependency(d)
  BY DEF Sort!AddDependency, SortP!AddDependency
<1>3. Sort!DependenciesComputed <=> SortP!DependenciesComputed
  BY DEF Sort!DependenciesComputed, SortP!DependenciesComputed
<1>4. Sort!Seed <=> SortP!Seed
  BY DEF Sort!Seed, SortP!Seed
<1>5. Sort!Pop <=> SortP!Pop
  BY DEF Sort!Pop, SortP!Pop
<1>6. Sort!Relax <=> SortP!Relax
  BY DEF Sort!Relax, SortP!Relax
<1>7. Sort!EndRelax <=> SortP!EndRelax
  BY DEF Sort!EndRelax, SortP!EndRelax
<1>8. Sort!EndSort <=> SortP!EndSort
  BY DEF Sort!EndSort, SortP!EndSort
<1>9. Sort!Next <=> SortP!Next
  BY <1>2, <1>3, <1>4, <1>5, <1>6, <1>7, <1>8 DEF Sort!Next, SortP!Next
<1>10. Sort!TypeOK <=> SortP!TypeOK
  BY DEF Sort!TypeOK, SortP!TypeOK
<1>11. Sort!LoopBounds <=> SortP!LoopBounds
  BY DEF Sort!LoopBounds, SortP!LoopBounds
<1>12. Sort!CountsRemaining <=> SortP!CountsRemaining
  BY DEF Sort!CountsRemaining, SortP!CountsRemaining, Sort!Counted,
     SortP!Counted, Sort!Remaining, SortP!Remaining, Sort!Relaxed,
     SortP!Relaxed
<1>13. Sort!SortedIsPopped <=> SortP!SortedIsPopped
  BY DEF Sort!SortedIsPopped, SortP!SortedIsPopped, Sort!Sorted, SortP!Sorted
<1>14. Sort!QueueIsReady <=> SortP!QueueIsReady
  BY DEF Sort!QueueIsReady, SortP!QueueIsReady, Sort!Counted, SortP!Counted,
     Sort!Sorted, SortP!Sorted
<1>15. Sort!SortedWaitsForNone <=> SortP!SortedWaitsForNone
  BY DEF Sort!SortedWaitsForNone, SortP!SortedWaitsForNone, Sort!Counted,
     SortP!Counted, Sort!Sorted, SortP!Sorted
<1>16. Sort!TopologicalOrder <=> SortP!TopologicalOrder
  BY DEF Sort!TopologicalOrder, SortP!TopologicalOrder
<1>17. Sort!IndicesBelowAdded <=> SortP!IndicesBelowAdded
  BY DEF Sort!IndicesBelowAdded, SortP!IndicesBelowAdded, Sort!Sorted,
     SortP!Sorted
<1>18. Sort!Verdict <=> SortP!Verdict
  BY DEF Sort!Verdict, SortP!Verdict
<1>19. Sort!IInv <=> SortP!IInv
  BY <1>10, <1>11, <1>12, <1>13, <1>14, <1>15, <1>16, <1>17, <1>18 DEF
     Sort!IInv, SortP!IInv
<1> QED
  BY <1>1, <1>9, <1>19

\* and Run().
LEMMA SameExec ==
  /\ Exec!Fresh <=> ExecP!Fresh
  /\ Exec!Next <=> ExecP!Next
  /\ Exec!IInv <=> ExecP!IInv
<1> USE DEF Exec!Pass, ExecP!Pass, Exec!Null, ExecP!Null, Exec!At, ExecP!At,
            Exec!Forward, ExecP!Forward, Exec!Transpose, ExecP!Transpose,
            Exec!DependsOn, ExecP!DependsOn, Exec!depVars, ExecP!depVars,
            Exec!loopVars, ExecP!loopVars, Exec!history, ExecP!history,
            Exec!Chunk, ExecP!Chunk, Exec!Yields, ExecP!Yields, Exec!InChunk,
            ExecP!InChunk, Exec!LastIter, ExecP!LastIter, Exec!Running,
            ExecP!Running
<1> USE DEF Exec!Cardinality, ExecP!Cardinality, Exec!Min, ExecP!Min
<1>1. Exec!Fresh <=> ExecP!Fresh
  BY DEF Exec!Fresh, ExecP!Fresh
<1>2. \A p : Exec!EnablePass(p) <=> ExecP!EnablePass(p)
  BY DEF Exec!EnablePass, ExecP!EnablePass
<1>3. Exec!StartRun <=> ExecP!StartRun
  BY DEF Exec!StartRun, ExecP!StartRun, Exec!Propagated, ExecP!Propagated,
     Exec!Chunkify, ExecP!Chunkify, Exec!Min, ExecP!Min
<1>4. Exec!OpenChunk <=> ExecP!OpenChunk
  BY DEF Exec!OpenChunk, ExecP!OpenChunk
<1>5. Exec!NextItem <=> ExecP!NextItem
  BY DEF Exec!NextItem, ExecP!NextItem
<1>6. Exec!CloseChunk <=> ExecP!CloseChunk
  BY DEF Exec!CloseChunk, ExecP!CloseChunk
<1>7. Exec!EndRun <=> ExecP!EndRun
  BY DEF Exec!EndRun, ExecP!EndRun
<1>8. Exec!SkipPass <=> ExecP!SkipPass
  BY DEF Exec!SkipPass, ExecP!SkipPass, Exec!PassesLeft, ExecP!PassesLeft
<1>9. Exec!BeginPass <=> ExecP!BeginPass
  BY DEF Exec!BeginPass, ExecP!BeginPass, Exec!PassesLeft, ExecP!PassesLeft,
     Exec!CurrentItem, ExecP!CurrentItem
<1>10. \A l : Exec!NewHeap(l) <=> ExecP!NewHeap(l)
  BY DEF Exec!NewHeap, ExecP!NewHeap, Exec!FindHeapFor, ExecP!FindHeapFor,
     Exec!CanReuse, ExecP!CanReuse, Exec!SelectInSeq, ExecP!SelectInSeq
<1>11. \A d : Exec!GetPassThrows(d) <=> ExecP!GetPassThrows(d)
  BY DEF Exec!GetPassThrows, ExecP!GetPassThrows
<1>12. \A h, p : Exec!CountAfter(h, p) = ExecP!CountAfter(h, p)
  BY DEF Exec!CountAfter, ExecP!CountAfter, Exec!Counts, ExecP!Counts,
     Exec!SatSub, ExecP!SatSub
<1>13. \A p : Exec!Collected(p) = ExecP!Collected(p)
  BY <1>12 DEF Exec!Collected, ExecP!Collected, Exec!Counts, ExecP!Counts
<1>14. \A error : Exec!FinishPass(error) <=> ExecP!FinishPass(error)
  BY <1>12, <1>13 DEF Exec!FinishPass, ExecP!FinishPass
<1>15. Exec!EndIteration <=> ExecP!EndIteration
  BY DEF Exec!EndIteration, ExecP!EndIteration, Exec!PassesLeft,
     ExecP!PassesLeft
<1>16. Exec!Reset <=> ExecP!Reset
  BY DEF Exec!Reset, ExecP!Reset
<1>17. Exec!RunStep <=> ExecP!RunStep
  BY <1>4, <1>5, <1>6, <1>7, <1>8, <1>9, <1>10, <1>11, <1>14, <1>15 DEF
     Exec!RunStep, ExecP!RunStep
<1>18. Exec!Next <=> ExecP!Next
  BY <1>2, <1>3, <1>17, <1>16 DEF Exec!Next, ExecP!Next
<1>19. Exec!TypeOK <=> ExecP!TypeOK
  BY DEF Exec!TypeOK, ExecP!TypeOK, Exec!Heap, ExecP!Heap
<1>20. Exec!Sorted <=> ExecP!Sorted
  BY DEF Exec!Sorted, ExecP!Sorted
<1>21. Exec!InLoop <=> ExecP!InLoop
  BY DEF Exec!InLoop, ExecP!InLoop, Exec!Cut, ExecP!Cut, Exec!Inner,
     ExecP!Inner
<1>22. Exec!StatesFollow <=> ExecP!StatesFollow
  BY DEF Exec!StatesFollow, ExecP!StatesFollow, Exec!Inner, ExecP!Inner
<1>23. \A p : Exec!Runs(p) <=> ExecP!Runs(p)
  BY DEF Exec!Runs, ExecP!Runs
<1>24. Exec!OnlyTheseRan <=> ExecP!OnlyTheseRan
  BY <1>23 DEF Exec!OnlyTheseRan, ExecP!OnlyTheseRan
<1>25. Exec!NextUp = ExecP!NextUp
  BY DEF Exec!NextUp, ExecP!NextUp, Exec!Inner, ExecP!Inner
<1>26. \A d : Exec!Due(d) = ExecP!Due(d)
  BY <1>25 DEF Exec!Due, ExecP!Due
<1>27. Exec!HeapsHeld <=> ExecP!HeapsHeld
  <2>1. \A d : Exec!Cardinality(Exec!Due(d)) = ExecP!Cardinality(ExecP!Due(d))
    BY <1>26
  <2> HIDE DEF Exec!Cardinality, ExecP!Cardinality
  <2>2. \A d, i, n : Exec!HeldFor(d, i, n) <=> ExecP!HeldFor(d, i, n)
    BY DEF Exec!HeldFor, ExecP!HeldFor
  <2> QED
    BY <1>25, <1>26, <2>1, <2>2 DEF Exec!HeapsHeld, ExecP!HeapsHeld
<1>28. \A d : Exec!MustFree(d) <=> ExecP!MustFree(d)
  BY <1>23 DEF Exec!MustFree, ExecP!MustFree
<1>29. Exec!HeapsReleased <=> ExecP!HeapsReleased
  BY <1>25, <1>26, <1>28 DEF Exec!HeapsReleased, ExecP!HeapsReleased,
     Exec!Owed, ExecP!Owed
<1>30. Exec!IInv <=> ExecP!IInv
  BY <1>19, <1>20, <1>21, <1>22, <1>24, <1>27, <1>29 DEF Exec!IInv,
     ExecP!IInv
<1> QED
  BY <1>1, <1>18, <1>30


-----------------------------------------------------------------------------
(* The invariant                                                           *)

\* The number of passes is the same to all.
LEMMA SomePass ==
  /\ NPass \in Nat /\ NPass > 0 /\ MaxEdges \in Nat
  /\ Exec!Pass = 1..NPass /\ SortP!Pass = 1..NPass /\ ExecP!Pass = 1..NPass
BY ConstantsAssumption DEF Exec!Pass, SortP!Pass, ExecP!Pass

\* Nothing is sorted and nothing has run.
LEMMA InitIInv == Init => IInv
<1> SUFFICES ASSUME Init PROVE IInv
  OBVIOUS
<1>1. SortP!IInv
  BY SomePass, SameSort, SortP!InitIInv DEF Init
<1>2. phase = "Depend" /\ at = 1
  BY SameSort DEF Init, SortP!Init
<1>3. InitializedInTurn
  BY <1>2 DEF InitializedInTurn
<1> QED
  BY <1>1, <1>2, <1>3, SameSort DEF IInv, Init

\* Init() has returned and Run() was not called yet.
JustSorted ==
  /\ phase = "Sorted" /\ pmState = "Initialized"
  /\ SortP!IInv /\ ExecP!Fresh /\ InitializedInTurn

\* The order that Init() leaves is what the invariant of Run() asks for.
LEMMA SortedIsReady == JustSorted => ExecP!IInv
<1> SUFFICES ASSUME JustSorted PROVE ExecP!IInv
  OBVIOUS
<1> USE SomePass DEF ExecP!Fresh, JustSorted
<1>1. topoIdx \in [1..NPass -> 0..(NPass - 1)]
      /\ \A p, q \in 1..NPass : topoIdx[p] = topoIdx[q] => p = q
  <2>1. /\ \A p \in 1..NPass : topoIdx[p] \in 0..(NPass - 1)
        /\ \A p, q \in 1..NPass : topoIdx[p] = topoIdx[q] => p = q
    BY SortP!Permutation DEF SortP!SortedIsPermutation
  <2>2. topoIdx = [p \in 1..NPass |-> topoIdx[p]]
    BY DEF SortP!IInv, SortP!TypeOK
  <2> QED
    BY <2>1, <2>2
<1>2. ExecP!TypeOK
  <2>1. edges \in Seq([pass : 1..NPass, depends : 1..NPass])
    BY DEF SortP!IInv, SortP!TypeOK, SortP!Edge
  <2>2. pState \in [1..NPass -> {"Initialized", "Running", "Valid"}]
    <3>1. pState = [p \in 1..NPass |-> pState[p]]
      BY DEF SortP!IInv, SortP!TypeOK
    <3> QED
      BY <3>1 DEF InitializedInTurn
  <2>3. heaps \in Seq(ExecP!Heap) /\ chunks \in Seq([left : 0..NPass, right : 0..NPass])
    OBVIOUS
  <2>4. dispatched \in [1..NPass -> Seq(Nat)] /\ got \in [1..NPass -> SUBSET (1..MaxHeaps)]
    OBVIOUS
  <2>5. /\ kind \in [1..NPass -> Kinds]
        /\ enabled \subseteq 1..NPass /\ gced \subseteq 1..NPass
        /\ lastRun \in 1..NPass \union {ExecP!Null}
        /\ errors \in BOOLEAN /\ step = "Idle"
    OBVIOUS
  <2>6. {ci, item, pos, requests, runs} \subseteq Nat
    OBVIOUS
  <2> QED
    BY <1>1, <2>1, <2>2, <2>3, <2>4, <2>5, <2>6 DEF ExecP!TypeOK
<1>3. ExecP!Sorted
  <2>1. \A i \in 0..(NPass - 1) : \E p \in 1..NPass : topoIdx[p] = i
    <3>1. IsFiniteSet(1..NPass) /\ IsFiniteSet(0..(NPass - 1))
          /\ Cardinality(1..NPass) = NPass /\ Cardinality(0..(NPass - 1)) = NPass
      BY FS_Interval
    <3>2. topoIdx \in Injection(1..NPass, 0..(NPass - 1))
      BY <1>1 DEF Injection, IsInjective
    <3>3. topoIdx \in Surjection(1..NPass, 0..(NPass - 1))
      BY <3>1, <3>2, FS_Injection
    <3> QED
      BY <3>3 DEF Surjection
  <2>2. \A e \in DOMAIN edges : topoIdx[edges[e].depends] < topoIdx[edges[e].pass]
    <3>1. SortP!TopologicalOrder
      BY DEF SortP!IInv
    <3>2. \A e \in DOMAIN edges : edges[e].pass \in 1..NPass
      BY SortP!EdgeEnds DEF SortP!IInv, SortP!TypeOK
    <3>3. \A p \in 1..NPass : topoIdx[p] # -1
      BY <1>1
    <3> QED
      BY <3>1, <3>2, <3>3 DEF SortP!TopologicalOrder, SortP!NoIdx
  <2> QED
    BY <1>1, <2>1, <2>2 DEF ExecP!Sorted
<1>4. ExecP!StatesFollow
  BY DEF ExecP!StatesFollow, ExecP!Inner, InitializedInTurn
<1>5. ExecP!InLoop /\ ExecP!OnlyTheseRan /\ ExecP!HeapsHeld /\ ExecP!HeapsReleased
  BY DEF ExecP!InLoop, ExecP!OnlyTheseRan, ExecP!HeapsHeld, ExecP!HeapsReleased
<1> QED
  BY <1>2, <1>3, <1>4, <1>5 DEF ExecP!IInv

\* The same of the next state.
LEMMA Afterwards ==
  /\ (JustSorted => ExecP!IInv)'
  /\ (Sort!IInv <=> SortP!IInv)' /\ (Exec!IInv <=> ExecP!IInv)'
  /\ (Exec!Fresh <=> ExecP!Fresh)'
<1>1. /\ JustSorted => ExecP!IInv
      /\ Sort!IInv <=> SortP!IInv
      /\ Exec!IInv <=> ExecP!IInv
      /\ Exec!Fresh <=> ExecP!Fresh
  BY SortedIsReady, SameSort, SameExec
<1> QED
  BY <1>1, PTL

\* A step of Init(), the last of which hands over to Run().
LEMMA SortStepIInv == IInv /\ SortStep => IInv'
<1> SUFFICES ASSUME IInv, SortStep PROVE IInv'
  OBVIOUS
<1>1. SortP!Next /\ UNCHANGED execOnly
  BY SameSort DEF SortStep
<1>2. phase # "Sorted"
  BY <1>1 DEF SortP!Next, SortP!AddDependency, SortP!DependenciesComputed, SortP!Seed,
     SortP!Pop, SortP!Relax, SortP!EndRelax, SortP!EndSort
<1>3. SortP!IInv /\ ExecP!Fresh /\ InitializedInTurn
  BY <1>2, SameSort, SameExec DEF IInv
<1>4. SortP!IInv'
  BY <1>1, <1>3, SomePass, SortP!NextIInv
<1>5. ExecP!Fresh'
  BY <1>1, <1>3 DEF ExecP!Fresh, execOnly, ExecP!Null
<1>6. InitializedInTurn'
  <2>1. pState \in [1..NPass -> {"Uninitialized", "Initialized"}] /\ at \in Nat
        /\ (phase = "Depend" => at \in 1..NPass)
    BY <1>3, SomePass DEF SortP!IInv, SortP!TypeOK, SortP!LoopBounds
  <2>2. ASSUME NEW d \in 1..NPass, SortP!AddDependency(d) PROVE InitializedInTurn'
    BY <1>3, <2>2 DEF SortP!AddDependency, InitializedInTurn
  <2>3. CASE SortP!DependenciesComputed
    BY <1>3, <2>1, <2>3, SomePass DEF SortP!DependenciesComputed, InitializedInTurn
  <2>4. CASE SortP!Seed \/ SortP!Pop \/ SortP!Relax \/ SortP!EndRelax \/ SortP!EndSort
    BY <1>3, <2>4 DEF SortP!Seed, SortP!Pop, SortP!Relax, SortP!EndRelax, SortP!EndSort,
       InitializedInTurn
  <2> QED
    BY <1>1, <2>2, <2>3, <2>4, SomePass DEF SortP!Next
<1>7. CASE phase' = "Sorted"
  <2>1. pmState' = "Initialized"
    BY <1>1, <1>2, <1>7 DEF SortP!Next, SortP!AddDependency, SortP!DependenciesComputed,
       SortP!Seed, SortP!Pop, SortP!Relax, SortP!EndRelax, SortP!EndSort
  <2>2. ExecP!IInv'
    BY <1>4, <1>5, <1>6, <1>7, <2>1, Afterwards DEF JustSorted
  <2> QED
    BY <1>7, <2>2, Afterwards DEF IInv
<1>8. CASE phase' # "Sorted"
  BY <1>4, <1>5, <1>6, <1>8, Afterwards DEF IInv
<1> QED
  BY <1>7, <1>8

\* A step of Run(), whose constants are those of the proofs.
LEMMA ExecStepIInv == IInv /\ ExecStep => IInv'
<1> SUFFICES ASSUME IInv, ExecStep PROVE IInv'
  OBVIOUS
<1>1. ExecP!IInv /\ ExecP!Next /\ phase' = "Sorted"
  BY SameExec DEF IInv, ExecStep, sortOnly
<1>2. ExecP!IInv'
  BY <1>1, ConstantsAssumption, ExecP!NextIInv DEF ExecP!Pass
<1> QED
  BY <1>1, <1>2, Afterwards DEF IInv

\* A step of the rest of the compiler.
LEMMA StutterIInv == IInv /\ UNCHANGED vars => IInv'
<1> SUFFICES ASSUME IInv, UNCHANGED vars PROVE IInv'
  OBVIOUS
<1>1. CASE phase = "Sorted"
  <2>1. UNCHANGED ExecP!vars
    BY DEF vars, execOnly, ExecP!vars, ExecP!depVars, ExecP!loopVars, ExecP!history
  <2>2. ExecP!IInv'
    BY <1>1, <2>1, ConstantsAssumption, SameExec, ExecP!StutterIInv DEF IInv, ExecP!Pass
  <2> QED
    BY <1>1, <2>2, Afterwards DEF IInv, vars, sortOnly
<1>2. CASE phase # "Sorted"
  <2>1. UNCHANGED SortP!initVars
    BY DEF vars, sortOnly, SortP!initVars, SortP!sortVars
  <2>2. SortP!IInv'
    BY <1>2, <2>1, SomePass, SameSort, SortP!NextIInv DEF IInv
  <2>3. ExecP!Fresh' /\ InitializedInTurn' /\ phase' # "Sorted"
    BY <1>2, SameExec DEF IInv, vars, execOnly, sortOnly, ExecP!Fresh, ExecP!Pass,
       ExecP!Null, InitializedInTurn
  <2> QED
    BY <2>2, <2>3, Afterwards DEF IInv
<1> QED
  BY <1>1, <1>2

\* The invariant of the part that is at work holds.
LEMMA Invariance == Spec => []IInv
<1>1. Init => IInv
  BY InitIInv
<1>2. IInv /\ [Next]_vars => IInv'
  BY SortStepIInv, ExecStepIInv, StutterIInv DEF Next
<1> QED
  BY <1>1, <1>2, PTL DEF Spec

(* A running pass finds what it depends on enabled and done, whatever the  *)
(* order in which passes were registered and dependencies declared.        *)
THEOREM SortedRunsAreOrdered == Spec => []RunsInDependencyOrder
<1>1. IInv => RunsInDependencyOrder
  <2> SUFFICES ASSUME IInv, step = "InRun" PROVE Exec!DependenciesFirst
    BY DEF RunsInDependencyOrder, Exec!DependenciesFirst
  <2>1. ExecP!IInv
    BY SameExec DEF IInv, Exec!Fresh
  <2>2. ExecP!DependenciesFirst
    BY <2>1, ConstantsAssumption, ExecP!DependenciesHold DEF ExecP!Pass
  <2> QED
    BY <2>2 DEF Exec!DependenciesFirst, ExecP!DependenciesFirst, Exec!DependsOn,
       ExecP!DependsOn, Exec!Forward, ExecP!Forward, Exec!Running, ExecP!Running,
       Exec!At, ExecP!At, Exec!Pass, ExecP!Pass, Exec!InChunk, ExecP!InChunk,
       Exec!Chunk, ExecP!Chunk
<1> QED
  BY <1>1, Invariance, PTL
=============================================================================
