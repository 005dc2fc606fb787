------------------------------ MODULE PassInit ------------------------------
(***************************************************************************)
(* PassManager::Init() (lib/utils/PassManager.cc): each pass declares its  *)
(* dependencies, then the passes are sorted by Kahn's algorithm and a      *)
(* cycle is a fatal error.                                                 *)
(*                                                                         *)
(* A pass is identified by its position in passes_ when Init() is called,  *)
(* i.e. by its registration order. The final std::sort puts pass p at      *)
(* passes_[topoIdx[p]], so topoIdx stands for the sorted vector.           *)
(* depGraph_ is the sequence of addDependency calls: forward of p is the   *)
(* calls made by p, transpose of d the calls that name d, both in order.   *)
(***************************************************************************)
EXTENDS Integers, Sequences, FiniteSets

CONSTANTS
  NPass,     \* the number of passes registered with AddPass
  MaxEdges   \* bound: addDependency calls made in all

ASSUME NPassAssumption    == NPass \in Nat \ {0}
ASSUME MaxEdgesAssumption == MaxEdges \in Nat

VARIABLES
  pmState,   \* PassManager::state_
  pState,    \* Pass::state
  edges,     \* depGraph_: the calls [pass, depends] of addDependency
  topoIdx,   \* Pass::topoIdx
  passDeps,  \* Init(): dependencies of a pass that are not sorted yet
  S,         \* Init(): passes whose dependencies are all sorted, a FIFO
  visited,   \* Init(): passes whose dependents have been updated
  added,     \* Init(): PassesAdded
  phase,     \* the loop of Init() that is executing
  at,        \* that loop's position in passes_ or in the edges
  cur        \* Init(): n, the pass popped from S

sortVars == <<passDeps, S, visited, added, cur>>
initVars == <<pmState, pState, edges, topoIdx, sortVars, phase, at>>

Pass  == 1..NPass
NoIdx == -1
Edge  == [pass : Pass, depends : Pass]

EdgesOf(p) == {i \in DOMAIN edges : edges[i].pass = p}

TypeOK ==
  /\ pmState \in {"Uninitialized", "Initialized"}
  /\ pState \in [Pass -> {"Uninitialized", "Initialized"}]
  /\ edges \in Seq(Edge)
  /\ topoIdx \in [Pass -> Nat \union {NoIdx}]
  /\ passDeps \in [Pass -> Nat]
  /\ S \in Seq(Pass)
  /\ visited \subseteq Pass
  /\ added \in Nat
  /\ phase \in {"Depend", "Seed", "Pop", "Relax", "Sorted", "Cyclic"}
  /\ at \in Nat \ {0}
  /\ cur \in Pass

(***************************************************************************)
(* Init() is entered with every pass registered and no edge.               *)
(***************************************************************************)
Init ==
  /\ pmState = "Uninitialized"
  /\ pState = [p \in Pass |-> "Uninitialized"]
  /\ edges = <<>>
  /\ topoIdx = [p \in Pass |-> NoIdx]
  /\ passDeps = [p \in Pass |-> 0]
  /\ S = <<>>
  /\ visited = {}
  /\ added = 0
  /\ phase = "Depend"
  /\ at = 1
  /\ cur = 1

\* Pass::ComputeDependencies() of the pass at hand calls AddDependency(d).
AddDependency(d) ==
  /\ phase = "Depend"
  /\ pmState = "Uninitialized"
  /\ Len(edges) < MaxEdges
  /\ edges' = Append(edges, [pass |-> at, depends |-> d])
  /\ UNCHANGED <<pmState, pState, topoIdx, sortVars, phase, at>>

\* ComputeDependencies() and Init() of the pass have returned.
DependenciesComputed ==
  /\ phase = "Depend"
  /\ pState' = [pState EXCEPT ![at] = "Initialized"]
  /\ IF at < NPass THEN at' = at + 1 /\ phase' = phase
                   ELSE at' = 1 /\ phase' = "Seed"
  /\ UNCHANGED <<pmState, edges, topoIdx, sortVars>>

\* Mutant: a dependency declared twice is counted once, as a set would.
SeedDistinct ==
  /\ phase = "Seed"
  /\ passDeps' = [passDeps EXCEPT ![at] =
                    Cardinality({edges[i].depends : i \in EdgesOf(at)})]
  /\ S' = IF EdgesOf(at) = {} THEN Append(S, at) ELSE S
  /\ IF at < NPass THEN at' = at + 1 /\ phase' = phase
                   ELSE at' = 1 /\ phase' = "Pop"
  /\ UNCHANGED <<pmState, pState, edges, topoIdx, visited, added, cur>>

\* Mutant: the first dependency of a pass is not counted.
SeedSkipsFirst ==
  /\ phase = "Seed"
  /\ LET counted == {i \in EdgesOf(at) : \E j \in EdgesOf(at) : j < i}
     IN /\ passDeps' = [passDeps EXCEPT ![at] = Cardinality(counted)]
        /\ S' = IF counted = {} THEN Append(S, at) ELSE S
  /\ IF at < NPass THEN at' = at + 1 /\ phase' = phase
                   ELSE at' = 1 /\ phase' = "Pop"
  /\ UNCHANGED <<pmState, pState, edges, topoIdx, visited, added, cur>>

\* Count the dependencies of the next pass; a pass without any can be sorted.
Seed ==
  /\ phase = "Seed"
  /\ passDeps' = [passDeps EXCEPT ![at] = Cardinality(EdgesOf(at))]
  /\ S' = IF EdgesOf(at) = {} THEN Append(S, at) ELSE S
  /\ IF at < NPass THEN at' = at + 1 /\ phase' = phase
                   ELSE at' = 1 /\ phase' = "Pop"
  /\ UNCHANGED <<pmState, pState, edges, topoIdx, visited, added, cur>>

\* Take the first pass of S: it is the next in topological order.
Pop ==
  /\ phase = "Pop"
  /\ S # <<>>
  /\ cur' = Head(S)
  /\ S' = Tail(S)
  /\ topoIdx' = [topoIdx EXCEPT ![Head(S)] = added]
  /\ added' = added + 1
  /\ phase' = IF Head(S) \in visited THEN "Pop" ELSE "Relax"
  /\ at' = 1
  /\ UNCHANGED <<pmState, pState, edges, passDeps, visited>>

\* Mutant: an edge of another pass does not move the loop on.
RelaxStuck ==
  /\ phase = "Relax"
  /\ at <= Len(edges)
  /\ edges[at].depends = cur
  /\ LET e == edges[at]
         left == passDeps[e.pass] - 1
     IN /\ passDeps' = [passDeps EXCEPT ![e.pass] = left]
        /\ S' = IF left = 0 THEN Append(S, e.pass) ELSE S
  /\ at' = at + 1
  /\ UNCHANGED <<pmState, pState, edges, topoIdx, visited, added, phase, cur>>

\* One transpose edge of cur: its dependent waits for one pass less.
Relax ==
  /\ phase = "Relax"
  /\ at <= Len(edges)
  /\ LET e == edges[at]
         left == passDeps[e.pass] - 1
     IN IF e.depends = cur
          THEN /\ passDeps' = [passDeps EXCEPT ![e.pass] = left]
               /\ S' = IF left = 0 THEN Append(S, e.pass) ELSE S
          ELSE UNCHANGED <<passDeps, S>>
  /\ at' = at + 1
  /\ UNCHANGED <<pmState, pState, edges, topoIdx, visited, added, phase, cur>>

\* Mutant: visited.insert(n) is forgotten.
EndRelaxUnvisited ==
  /\ phase = "Relax"
  /\ at > Len(edges)
  /\ phase' = "Pop"
  /\ at' = 1
  /\ UNCHANGED <<pmState, pState, edges, topoIdx, passDeps, S, visited, added,
                 cur>>

EndRelax ==
  /\ phase = "Relax"
  /\ at > Len(edges)
  /\ visited' = visited \union {cur}
  /\ phase' = "Pop"
  /\ at' = 1
  /\ UNCHANGED <<pmState, pState, edges, topoIdx, passDeps, S, added, cur>>

\* Mutant: the check for cycles is missing.
EndSortUnchecked ==
  /\ phase = "Pop"
  /\ S = <<>>
  /\ phase' = "Sorted"
  /\ pmState' = "Initialized"
  /\ UNCHANGED <<pState, edges, topoIdx, sortVars, at>>

\* Mutant: ++PassesAdded for PassesAdded++ in the check for cycles.
EndSortPreIncrement ==
  /\ phase = "Pop"
  /\ S = <<>>
  /\ IF added + 1 = NPass THEN phase' = "Sorted" /\ pmState' = "Initialized"
                          ELSE phase' = "Cyclic" /\ UNCHANGED pmState
  /\ UNCHANGED <<pState, edges, topoIdx, sortVars, at>>

\* S is empty: either all passes are sorted, or FatalError is thrown.
EndSort ==
  /\ phase = "Pop"
  /\ S = <<>>
  /\ IF added = NPass THEN phase' = "Sorted" /\ pmState' = "Initialized"
                      ELSE phase' = "Cyclic" /\ UNCHANGED pmState
  /\ UNCHANGED <<pState, edges, topoIdx, sortVars, at>>

Next ==
  \/ \E d \in Pass : AddDependency(d)
  \/ DependenciesComputed
  \/ Seed
  \/ Pop
  \/ Relax
  \/ EndRelax
  \/ EndSort

\* Init() is one call of a sequential program: it goes on until it returns.
\* The passes' ComputeDependencies() are assumed to return (weak fairness).
Spec     == Init /\ [][Next]_initVars
FairSpec == Spec /\ WF_initVars(Next)

-----------------------------------------------------------------------------
(* Safety *)

\* A pass gets its index after every pass it depends on, and a higher one:
\* at no time does a sorted pass depend on an unsorted one.
TopologicalOrder ==
  \A i \in DOMAIN edges :
    topoIdx[edges[i].pass] # NoIdx =>
      /\ topoIdx[edges[i].depends] # NoIdx
      /\ topoIdx[edges[i].depends] < topoIdx[edges[i].pass]

\* validate(): when Init() returns, passes_[i]->topoIdx = i for each i, that
\* is, each index below NPass belongs to exactly one pass.
SortedIsPermutation ==
  phase = "Sorted" =>
    /\ \A p \in Pass : topoIdx[p] \in 0..(NPass - 1)
    /\ \A p, q \in Pass : topoIdx[p] = topoIdx[q] => p = q

\* "Cyclic pass dependency detected" is thrown only for passes that really
\* depend on each other in a circle: some set of passes each of which needs
\* another one of the set.
Circular(C) ==
  \A p \in C : \E i \in EdgesOf(p) : edges[i].depends \in C
CycleIsReal ==
  phase = "Cyclic" => \E C \in SUBSET Pass : C # {} /\ Circular(C)

\* Init() returns or throws for every dependency graph.
InitTerminates == <>(phase \in {"Sorted", "Cyclic"})

-----------------------------------------------------------------------------
(* The inductive invariant of the sort *)

\* The passes whose dependencies have been counted.
Counted == IF phase = "Depend" THEN {}
           ELSE IF phase = "Seed" THEN 1..(at - 1)
           ELSE Pass

Sorted(p) == topoIdx[p] # NoIdx

\* Edge i has been taken off its dependent's count: the transpose edges of
\* every visited pass have, and those of cur that Relax has gone over.
Relaxed(i) == \/ edges[i].depends \in visited
              \/ phase = "Relax" /\ edges[i].depends = cur /\ i < at
Remaining(p) == {i \in EdgesOf(p) : ~Relaxed(i)}

\* The loop positions are inside their loops.
LoopBounds ==
  /\ phase \in {"Depend", "Seed"} => at \in Pass /\ visited = {}
  /\ phase = "Relax" => at <= Len(edges) + 1

\* passDeps counts the edges not relaxed yet, so it never wraps below zero.
CountsRemaining == \A p \in Counted : passDeps[p] = Cardinality(Remaining(p))

\* A pass has an index once popped; it is visited once its edges are relaxed,
\* so no pass is popped twice.
SortedIsPopped ==
  /\ \A p \in Pass :
       Sorted(p) <=> p \in visited \/ (phase = "Relax" /\ p = cur)
  /\ phase = "Relax" => cur \notin visited

\* S holds exactly the unsorted passes that wait for no other, each once.
QueueIsReady ==
  /\ \A i \in DOMAIN S :
       S[i] \in Counted /\ ~Sorted(S[i]) /\ passDeps[S[i]] = 0
  /\ \A i, j \in DOMAIN S : S[i] = S[j] => i = j
  /\ \A p \in Counted :
       ~Sorted(p) /\ passDeps[p] = 0 => \E i \in DOMAIN S : S[i] = p

SortedWaitsForNone == \A p \in Counted : Sorted(p) => passDeps[p] = 0

\* The indices given out are distinct and are those below PassesAdded.
IndicesBelowAdded ==
  /\ added = Cardinality({p \in Pass : Sorted(p)})
  /\ \A p \in Pass : topoIdx[p] < added
  /\ \A p, q \in Pass : Sorted(p) /\ topoIdx[p] = topoIdx[q] => p = q

Verdict ==
  /\ phase = "Sorted" => added = NPass
  /\ phase = "Cyclic" => added # NPass /\ S = <<>>

IInv ==
  /\ TypeOK
  /\ LoopBounds
  /\ CountsRemaining
  /\ SortedIsPopped
  /\ QueueIsReady
  /\ SortedWaitsForNone
  /\ TopologicalOrder
  /\ IndicesBelowAdded
  /\ Verdict

-----------------------------------------------------------------------------
(* Init() implements the abstract order *)

OrderStatus ==
  IF phase \in {"Depend", "Seed"} THEN "declaring"
  ELSE IF phase \in {"Pop", "Relax"} THEN "ranking"
  ELSE IF phase = "Sorted" THEN "ordered"
  ELSE "cyclic"

DependsOn == {<<edges[i].pass, edges[i].depends>> : i \in DOMAIN edges}

Order == INSTANCE DependencyOrder WITH
           deps   <- DependsOn,
           rank   <- topoIdx,
           status <- OrderStatus

ImplementsOrder == Order!Spec
=============================================================================
