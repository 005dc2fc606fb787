---------------------------- MODULE PassManager ----------------------------
(***************************************************************************)
(* The pass manager as the driver uses it: Init() sorts the passes in      *)
(* whatever order they were registered (PassInit), then Run() and Reset()  *)
(* work on the sorted passes (PassRun). The two share state_, the states   *)
(* of the passes, depGraph_ and topoIdx; what PassRun assumes of them is   *)
(* here what PassInit has left.                                            *)
(***************************************************************************)
EXTENDS Integers, Sequences, FiniteSets

CONSTANTS
  NPass, MaxEdges,                               \* of PassInit
  Kinds, Items, Preserved, ReuseHeaps, Lifetimes,
  MaxRequests, MaxHeaps, MaxRuns                 \* of PassRun

ASSUME ConstantsAssumption ==
  /\ NPass \in Nat \ {0}
  /\ Items \in [Kinds -> Nat]
  /\ Preserved \subseteq 1..NPass
  /\ ReuseHeaps \in BOOLEAN
  /\ Lifetimes \subseteq {"Managed", "Temporary", "TemporaryNoReuse"}
  /\ {MaxEdges, MaxRequests, MaxHeaps, MaxRuns} \subseteq Nat

VARIABLES
  pmState, pState, edges, topoIdx,               \* shared
  passDeps, S, visited, added, phase, at, cur,   \* of Init()
  kind, enabled, heaps, lastRun, errors, step, chunks, ci, item, pos,
  requests, runs, got, gced, dispatched          \* of Run() and Reset()

Sort == INSTANCE PassInit
Exec == INSTANCE PassRun WITH Graphs <- {}

sortOnly == <<passDeps, S, visited, added, phase, at, cur>>
execOnly == <<kind, enabled, heaps, lastRun, errors, step, chunks, ci, item,
              pos, requests, runs, got, gced, dispatched>>
vars == <<pmState, pState, edges, topoIdx, sortOnly, execOnly>>

\* main() registers the passes and enables some of them before Init().
Init ==
  /\ Sort!Init
  /\ Exec!Fresh

SortStep ==
  /\ Sort!Next
  /\ UNCHANGED execOnly

\* A cyclic graph ends the program: there is no Run() without a sort.
ExecStep ==
  /\ phase = "Sorted"
  /\ Exec!Next
  /\ UNCHANGED sortOnly

Next == SortStep \/ ExecStep

Spec == Init /\ [][Next]_vars

-----------------------------------------------------------------------------
(* The inductive invariant *)

\* During Init() the passes before the present one have been initialized and
\* nothing has been enabled or run; after it Run() finds what it relies on.
InitializedInTurn ==
  \A p \in 1..NPass : phase # "Depend" \/ p < at => pState[p] = "Initialized"

IInv == IF phase = "Sorted" THEN Exec!IInv
        ELSE Sort!IInv /\ Exec!Fresh /\ InitializedInTurn

-----------------------------------------------------------------------------
(* Properties *)

\* A run uses the passes in the order of Init(): whatever the order in which
\* passes were registered and dependencies declared, twice or not, a running
\* pass finds what it depends on enabled and done, in this chunk or before.
RunsInDependencyOrder == Exec!DependenciesFirst
=============================================================================
