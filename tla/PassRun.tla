------------------------------ MODULE PassRun ------------------------------
(***************************************************************************)
(* PassManager::Run(), Reset() and the heaps of the pass manager           *)
(* (lib/utils/PassManager.cc), once Init() has sorted the passes.          *)
(*                                                                         *)
(* Run() enables what the enabled passes depend on, cuts the sorted passes *)
(* into chunks of equal dispatcher, and runs each chunk once per item its  *)
(* dispatcher yields (IRPasses.cc: each basic block, function or the       *)
(* compilation unit; Default: once). A running pass asks for heaps, which  *)
(* are reference counted by the passes that depend on it.                  *)
(*                                                                         *)
(* The pass at passes_[i] is the one whose topoIdx is i, i from 0.         *)
(***************************************************************************)
EXTENDS Integers, Sequences, FiniteSets, SequencesExt, FiniteSetsExt

CONSTANTS
  NPass,         \* the number of passes
  Graphs,        \* the dependency graphs: sequences of [pass, depends]
  Kinds,         \* the dispatchers
  Items,         \* how many items each dispatcher's generator yields
  Preserved,     \* the passes on which Preserve() was called
  ReuseHeaps,    \* reuseHeaps_: unset by --disable-heap-reuse
  Lifetimes,     \* the lifetimes the passes ask for
  MaxRequests,   \* bound: NewHeap calls in one Run() of a pass
  MaxHeaps,      \* bound: heaps in heaps_
  MaxRuns        \* bound: calls of PassManager::Run()

Pass == 1..NPass
Null == 0        \* the null Pass*

ASSUME ConstantsAssumption ==
  /\ NPass \in Nat \ {0}
  /\ Items \in [Kinds -> Nat]
  /\ Preserved \subseteq Pass
  /\ ReuseHeaps \in BOOLEAN
  /\ Lifetimes \subseteq {"Managed", "Temporary", "TemporaryNoReuse"}
  /\ {MaxRequests, MaxHeaps, MaxRuns} \subseteq Nat

\* Init() leaves a graph in which no pass comes before one it depends on.
ASSUME GraphsAssumption ==
  \A g \in Graphs :
    /\ g \in Seq([pass : Pass, depends : Pass])
    /\ \A i \in DOMAIN g : g[i].depends < g[i].pass

VARIABLES
  pmState,     \* PassManager::state_
  pState,      \* Pass::state
  edges,       \* depGraph_
  topoIdx,     \* Pass::topoIdx
  kind,        \* Pass::dispatcher
  enabled,     \* the passes whose Pass::enabled is set
  heaps,       \* heaps_: [owner, lifetime, refcount]
  lastRun,     \* lastRun_
  errors,      \* Diag().hasErrors()
  step,        \* the loop of Run() that is executing, "Idle" outside Run()
  chunks,      \* passChunks_
  ci,          \* the chunk being run
  item,        \* how often its generator was resumed
  pos,         \* it: the position in passes_ within the chunk
  requests,    \* how many heaps the running pass has asked for
  runs,        \* the calls of Run() so far
  got,         \* history: Managed heaps a pass got when it last ran
  gced,        \* history: passes whose GC() was called since they last ran
  dispatched   \* history: the items a pass was run on in this Run()

depVars  == <<edges, topoIdx, kind>>
loopVars == <<chunks, ci, item, pos>>
history  == <<got, gced, dispatched>>
vars == <<pmState, pState, depVars, enabled, heaps, lastRun, errors, step,
          loopVars, requests, runs, history>>

-----------------------------------------------------------------------------
(* Dependencies and chunks *)

At(i)      == CHOOSE p \in Pass : topoIdx[p] = i      \* passes_[i]
Forward(p) == {i \in DOMAIN edges : edges[i].pass = p}
Transpose(p)  == {i \in DOMAIN edges : edges[i].depends = p}
DependsOn(p)  == {edges[i].depends : i \in Forward(p)}

\* Mutant: the passes enabled in turn are not queued.
PropagatedOnce == enabled \union UNION {DependsOn(p) : p \in enabled}

\* The enabled passes and all they depend on, directly or not.
Propagated ==
  LET grow[n \in 0..NPass] ==
        IF n = 0 THEN enabled
        ELSE grow[n - 1] \union UNION {DependsOn(p) : p \in grow[n - 1]}
  IN grow[NPass]

\* Mutant: a chunk goes on over a change of dispatcher.
ChunkifyAny(en) ==
  <<[left |-> Min({topoIdx[p] : p \in en}), right |-> NPass - 1]>>

\* Chunkify() with the two pointers of the code: the left one moves to an
\* enabled pass of en, the right one to the next enabled pass with another
\* dispatcher. from[i] has the chunks of the passes from i on.
Chunkify(en) ==
  LET Left(i)  == Min({j \in i..(NPass - 1) : At(j) \in en})
      Right(l) == Min({NPass} \union {j \in l..(NPass - 1) :
                         At(j) \in en /\ kind[At(j)] # kind[At(l)]})
      from[i \in 0..NPass] ==
        IF \A j \in i..(NPass - 1) : At(j) \notin en THEN <<>>
        ELSE LET l == Left(i)
                 r == Right(l)
             IN <<[left |-> l, right |-> r - 1]>> \o from[r]
  IN from[0]

Chunk      == chunks[ci]
Yields     == Items[kind[At(Chunk.left)]]
InChunk(p) == topoIdx[p] \in Chunk.left..Chunk.right
LastIter   == item > Yields
Running    == At(pos)

\* What the dispatcher shows the pass: its field keeps the last item once the
\* generator has ended.
CurrentItem == IF item > Yields THEN Yields ELSE item

-----------------------------------------------------------------------------
(* Heaps *)

Heap == [owner : Pass, lifetime : {"Managed", "Temporary", "TemporaryNoReuse"},
         refcount : Nat]

\* findHeapFor: the first heap that is free, or that the same pass already
\* has for the same lifetime; otherwise a new one.
CanReuse(h, p, lifetime) ==
  /\ ReuseHeaps
  /\ \/ h.refcount = 0
     \/ /\ lifetime \in {"Temporary", "Managed"}
        /\ h.lifetime = lifetime
        /\ h.owner = p

FindHeapFor(p, lifetime) ==
  LET i == SelectInSeq(heaps, LAMBDA h : CanReuse(h, p, lifetime))
  IN IF i = 0 THEN Len(heaps) + 1 ELSE i

\* Mutant: an unsigned subtraction that is not saturated, seen as signed.
PlainSub(a, b) == a - b

SatSub(a, b) == IF a < b THEN 0 ELSE a - b

\* Mutant: passes of other chunks are never counted.
CountsOwnChunk(q) == InChunk(q)

\* Whether runPassLifeCycle follows the edge to or from q: those between
\* chunks only in the last iteration.
Counts(q) == LastIter \/ InChunk(q)

\* Mutant: a pass keeps its own reference to a Managed heap.
CountAfterKept(h, p) ==
  LET acquired == {i \in Transpose(p) : Counts(edges[i].pass)}
      released == {i \in Forward(p) : /\ edges[i].depends = h.owner
                                      /\ Counts(h.owner)}
  IN CASE h.owner = p /\ h.lifetime = "Managed" ->
            h.refcount + Cardinality(acquired)
       [] h.owner = p /\ h.lifetime # "Managed" -> 0
       [] h.owner # p /\ h.lifetime = "Managed" ->
            SatSub(h.refcount, Cardinality(released))
       [] OTHER -> h.refcount

\* runPassLifeCycle, 2 and 3: the dependents of p hold its Managed heaps, p
\* lets go of its own and of those of the passes it depends on.
CountAfter(h, p) ==
  LET acquired == {i \in Transpose(p) : Counts(edges[i].pass)}
      released == {i \in Forward(p) : /\ edges[i].depends = h.owner
                                      /\ Counts(h.owner)}
  IN CASE h.owner = p /\ h.lifetime = "Managed" ->
            SatSub(h.refcount + Cardinality(acquired), 1)
       [] h.owner = p /\ h.lifetime # "Managed" -> 0
       [] h.owner # p /\ h.lifetime = "Managed" ->
            SatSub(h.refcount, Cardinality(released))
       [] OTHER -> h.refcount

\* GC() is called on the owner of each Managed heap counted down to 0.
Collected(p) ==
  {q \in {p} \union {d \in DependsOn(p) : Counts(d)} :
     \E i \in DOMAIN heaps : /\ heaps[i].owner = q
                             /\ heaps[i].lifetime = "Managed"
                             /\ CountAfter(heaps[i], p) = 0}

-----------------------------------------------------------------------------
(* The pass manager *)

\* Nothing has been enabled or run.
Fresh ==
  /\ kind \in [Pass -> Kinds]
  /\ enabled = {}
  /\ heaps = <<>>
  /\ lastRun = Null
  /\ errors = FALSE
  /\ step = "Idle"
  /\ chunks = <<>>
  /\ ci = 1
  /\ item = 0
  /\ pos = 0
  /\ requests = 0
  /\ runs = 0
  /\ got = [p \in Pass |-> {}]
  /\ gced = {}
  /\ dispatched = [p \in Pass |-> <<>>]

\* PassManager::Init() has returned; passes are numbered in sorted order.
Init ==
  /\ pmState = "Initialized"
  /\ pState = [p \in Pass |-> "Initialized"]
  /\ edges \in Graphs
  /\ topoIdx = [p \in Pass |-> p - 1]
  /\ Fresh

EnablePass(p) ==
  /\ step = "Idle"
  /\ pmState = "Initialized"
  /\ runs < MaxRuns
  /\ p \notin enabled
  /\ enabled' = enabled \union {p}
  /\ UNCHANGED <<pmState, pState, depVars, heaps, lastRun, errors, step,
                 loopVars, requests, runs, history>>

\* Run() asserts that the manager is initialized. With no pass enabled it
\* would read past the end of passes_: the driver always enables one.
StartRun ==
  /\ step = "Idle"
  /\ pmState = "Initialized"
  /\ enabled # {}
  /\ runs < MaxRuns
  /\ runs' = runs + 1
  /\ pmState' = "Running"
  /\ enabled' = Propagated
  /\ chunks' = Chunkify(Propagated)
  /\ ci' = 1
  /\ step' = "Chunk"
  /\ dispatched' = [p \in Pass |-> <<>>]
  /\ UNCHANGED <<pState, depVars, heaps, lastRun, errors, item, pos, requests,
                 got, gced>>

\* Iterate() makes the generator, begin() resumes it for the first time.
OpenChunk ==
  /\ step = "Chunk"
  /\ ci <= Len(chunks)
  /\ item' = 1
  /\ step' = "Items"
  /\ UNCHANGED <<pmState, pState, depVars, enabled, heaps, lastRun, errors,
                 chunks, ci, pos, requests, runs, history>>

\* while(dIt != end) ++dIt: the generator is resumed before the passes run.
NextItem ==
  /\ step = "Items"
  /\ item <= Yields
  /\ item' = item + 1
  /\ pos' = Chunk.left
  /\ step' = "Passes"
  /\ UNCHANGED <<pmState, pState, depVars, enabled, heaps, lastRun, errors,
                 chunks, ci, requests, runs, history>>

\* Mutant: the loop over the chunks does not advance.
CloseChunkAgain ==
  /\ step = "Items"
  /\ item > Yields
  /\ step' = "Chunk"
  /\ UNCHANGED <<pmState, pState, depVars, enabled, heaps, lastRun, errors,
                 chunks, ci, item, pos, requests, runs, history>>

CloseChunk ==
  /\ step = "Items"
  /\ item > Yields
  /\ ci' = ci + 1
  /\ step' = "Chunk"
  /\ UNCHANGED <<pmState, pState, depVars, enabled, heaps, lastRun, errors,
                 chunks, item, pos, requests, runs, history>>

EndRun ==
  /\ step = "Chunk"
  /\ ci > Len(chunks)
  /\ pmState' = "Cleanup"
  /\ step' = "Idle"
  /\ UNCHANGED <<pState, depVars, enabled, heaps, lastRun, errors, loopVars,
                 requests, runs, history>>

\* The inner loop runs from the left end up to, not including, the right end.
PassesLeft == pos # Chunk.right

SkipPass ==
  /\ step = "Passes"
  /\ PassesLeft
  /\ Running \notin enabled
  /\ pos' = pos + 1
  /\ UNCHANGED <<pmState, pState, depVars, enabled, heaps, lastRun, errors,
                 step, chunks, ci, item, requests, runs, history>>

\* runPassLifeCycle refuses a pass that is not Initialized: see NeverRefused.
BeginPass ==
  /\ step = "Passes"
  /\ PassesLeft
  /\ Running \in enabled
  /\ pState[Running] = "Initialized"
  /\ pState' = [pState EXCEPT ![Running] = "Running"]
  /\ step' = "InRun"
  /\ requests' = 0
  /\ got' = [got EXCEPT ![Running] = {}]
  /\ gced' = gced \ {Running}
  /\ dispatched' = [dispatched EXCEPT ![Running] = Append(@, CurrentItem)]
  /\ UNCHANGED <<pmState, depVars, enabled, heaps, lastRun, errors, loopVars,
                 runs>>

\* The running pass calls NewHeap, or NewAlloc which does. The heap is reset:
\* what it held is lost.
NewHeap(lifetime) ==
  /\ step = "InRun"
  /\ requests < MaxRequests
  /\ requests' = requests + 1
  /\ LET i == FindHeapFor(Running, lifetime)
         h == [owner    |-> Running,
               lifetime |-> lifetime,
               refcount |-> IF Running \in Preserved THEN 2 ELSE 1]
     IN /\ i <= MaxHeaps
        /\ heaps' = IF i > Len(heaps) THEN Append(heaps, h)
                                      ELSE [heaps EXCEPT ![i] = h]
        /\ got' = IF lifetime = "Managed"
                   THEN [got EXCEPT ![Running] = @ \union {i}] ELSE got
  /\ UNCHANGED <<pmState, pState, depVars, enabled, lastRun, errors, step,
                 loopVars, runs, gced, dispatched>>

\* GetPass<T>() of a dependency throws FatalError unless T is Valid; nothing
\* up to main catches it.
GetPassThrows(d) ==
  /\ step = "InRun"
  /\ d \in DependsOn(Running)
  /\ pState[d] # "Valid"
  /\ step' = "Thrown"
  /\ UNCHANGED <<pmState, pState, depVars, enabled, heaps, lastRun, errors,
                 loopVars, requests, runs, history>>

\* Pass::Run() returns, having reported an error or not. The rest of
\* runPassLifeCycle follows, and Run() returns false if there are errors.
FinishPass(error) ==
  /\ step = "InRun"
  /\ errors' = (errors \/ error)
  /\ pState' = [pState EXCEPT ![Running] = "Valid"]
  /\ heaps' = [i \in DOMAIN heaps |->
                 [heaps[i] EXCEPT !.refcount = CountAfter(heaps[i], Running)]]
  /\ gced' = gced \union Collected(Running)
  /\ IF errors' THEN step' = "Idle" /\ pos' = pos
                ELSE step' = "Passes" /\ pos' = pos + 1
  /\ UNCHANGED <<pmState, depVars, enabled, lastRun, chunks, ci, item,
                 requests, runs, got, dispatched>>

\* Mutant: the passes of the chunk keep their state.
EndIterationStale ==
  /\ step = "Passes"
  /\ ~PassesLeft
  /\ step' = "Items"
  /\ UNCHANGED <<pmState, pState, depVars, enabled, heaps, lastRun, errors,
                 loopVars, requests, runs, history>>

\* The chunk has run for one item: its passes can run for the next one.
EndIteration ==
  /\ step = "Passes"
  /\ ~PassesLeft
  /\ pState' = [p \in Pass |->
                  IF topoIdx[p] \in Chunk.left..(Chunk.right - 1)
                  THEN "Initialized" ELSE pState[p]]
  /\ step' = "Items"
  /\ UNCHANGED <<pmState, depVars, enabled, heaps, lastRun, errors, loopVars,
                 requests, runs, history>>

\* Reset() has no precondition; the driver calls it between two runs.
Reset ==
  /\ step = "Idle"
  /\ runs > 0
  /\ pmState # "Initialized"
  /\ lastRun' = Null
  /\ pState' = [p \in Pass |-> "Initialized"]
  /\ enabled' = {}
  /\ heaps' = [i \in DOMAIN heaps |-> [heaps[i] EXCEPT !.refcount = 0]]
  /\ pmState' = "Initialized"
  /\ got' = [p \in Pass |-> {}]
  /\ UNCHANGED <<depVars, errors, step, loopVars, requests, runs, gced,
                 dispatched>>

RunStep ==
  \/ OpenChunk
  \/ NextItem
  \/ CloseChunk
  \/ EndRun
  \/ SkipPass
  \/ BeginPass
  \/ \E l \in Lifetimes : NewHeap(l)
  \/ \E d \in Pass : GetPassThrows(d)
  \/ \E error \in BOOLEAN : FinishPass(error)
  \/ EndIteration

Next ==
  \/ \E p \in Pass : EnablePass(p)
  \/ StartRun
  \/ RunStep
  \/ Reset

\* Run() is sequential code that goes on until it returns; each Pass::Run()
\* is assumed to return. The driver need not call anything.
Spec == Init /\ [][Next]_vars /\ WF_vars(RunStep)

-----------------------------------------------------------------------------
(* Properties *)

TypeOK ==
  /\ pmState \in {"Initialized", "Running", "Cleanup"}
  /\ pState \in [Pass -> {"Initialized", "Running", "Valid"}]
  /\ edges \in Seq([pass : Pass, depends : Pass])
  /\ topoIdx \in [Pass -> 0..(NPass - 1)]
  /\ kind \in [Pass -> Kinds]
  /\ enabled \subseteq Pass
  /\ heaps \in Seq(Heap)
  /\ lastRun \in Pass \union {Null}
  /\ errors \in BOOLEAN
  /\ step \in {"Idle", "Chunk", "Items", "Passes", "InRun", "Thrown"}
  /\ chunks \in Seq([left : 0..NPass, right : 0..NPass])
  /\ {ci, item, pos, requests, runs} \subseteq Nat
  /\ got \in [Pass -> SUBSET (1..MaxHeaps)]
  /\ gced \subseteq Pass
  /\ dispatched \in [Pass -> Seq(Nat)]

\* The "is not in the initialized state" FatalError of runPassLifeCycle is
\* never thrown: each enabled pass is Initialized again when its turn comes,
\* also in later items, later chunks and later runs.
NeverRefused ==
  step = "Passes" /\ PassesLeft /\ Running \in enabled =>
    pState[Running] = "Initialized"

\* While a pass runs, the passes it depends on are enabled; those of its
\* chunk have just run, the others belong to chunks that are over.
DependenciesFirst ==
  step = "InRun" =>
    \A d \in DependsOn(Running) :
      /\ d \in enabled
      /\ IF InChunk(d) THEN pState[d] = "Valid" ELSE topoIdx[d] < Chunk.left

\* The chunks are disjoint, hold every enabled pass, and two enabled passes
\* with no other enabled pass between them are in different chunks exactly
\* when their dispatchers differ.
ChunksCoverEnabled ==
  step # "Idle" =>
    LET ChunkOf(p) == {c \in DOMAIN chunks :
                         topoIdx[p] \in chunks[c].left..chunks[c].right}
        Adjacent(p, q) == /\ topoIdx[p] < topoIdx[q]
                          /\ \A r \in enabled : ~(topoIdx[r] > topoIdx[p]
                                                 /\ topoIdx[r] < topoIdx[q])
    IN /\ \A p \in Pass : Cardinality(ChunkOf(p)) <= 1
       /\ \A p \in enabled : ChunkOf(p) # {}
       /\ \A p, q \in enabled :
            Adjacent(p, q) => (ChunkOf(p) = ChunkOf(q) <=> kind[p] = kind[q])

\* A pass finds the Managed heaps of the passes it depends on as they left
\* them: nobody was given such a heap before its last user ran.
ResultsIntact ==
  step = "InRun" =>
    \A d \in DependsOn(Running) :
      dispatched[d] # <<>> =>
        \A i \in got[d] : /\ heaps[i].owner = d
                          /\ heaps[i].lifetime = "Managed"
                          /\ heaps[i].refcount > 0

\* After a complete Run() a heap is still held only if its owner is preserved
\* or some pass that depends on the owner did not run.
NoLeak ==
  pmState = "Cleanup" =>
    \A i \in DOMAIN heaps :
      heaps[i].refcount > 0 =>
        LET d == heaps[i].owner
        IN \/ d \in Preserved
           \/ \E e \in Transpose(d) : dispatched[edges[e].pass] = <<>>

\* Run() returns, or a pass was refused one it depends on.
RunReturns == step # "Idle" ~> step \in {"Idle", "Thrown"}

-----------------------------------------------------------------------------
(* What the documentation says and the code does not do                    *)

\* docs/pass-architecture.rst: "When the pass manager is run, it will execute
\* all enabled passes". The last pass of a chunk is never run.
AllEnabledRun ==
  pmState = "Cleanup" =>
    \A p \in enabled : Items[kind[p]] > 0 => dispatched[p] # <<>>

\* docs/pass-architecture.rst: "The lifetime of a pass's heap is the lifetime
\* of the last pass to directly depend on it". A heap the pass held earlier
\* and no longer uses is counted as well, and GC() comes too early.
NotCollectedEarly ==
  step = "InRun" =>
    \A d \in DependsOn(Running) :
      dispatched[d] # <<>> /\ got[d] # {} => d \notin gced
-----------------------------------------------------------------------------
(* The inductive invariant *)

\* What Init() leaves: topoIdx is a numbering of the passes in which each
\* comes after those it depends on.
Sorted ==
  /\ \A p, q \in Pass : topoIdx[p] = topoIdx[q] => p = q
  /\ \A i \in 0..(NPass - 1) : \E p \in Pass : topoIdx[p] = i
  /\ \A e \in DOMAIN edges :
       topoIdx[edges[e].depends] < topoIdx[edges[e].pass]

\* s cuts the passes from i on into chunks that follow one another, begin
\* with an enabled pass, leave none out and change where the dispatcher does.
Cut(en, i, s) ==
  /\ s \in Seq([left : 0..NPass, right : 0..NPass])
  /\ \A c \in DOMAIN s :
       /\ i <= s[c].left /\ s[c].left <= s[c].right /\ s[c].right < NPass
       /\ At(s[c].left) \in en
       /\ \A p \in en : topoIdx[p] \in s[c].left..s[c].right =>
                         kind[p] = kind[At(s[c].left)]
  /\ \A c, d \in DOMAIN s : c < d => s[c].right < s[d].left
  /\ \A c \in 1..(Len(s) - 1) : /\ s[c + 1].left = s[c].right + 1
                                /\ kind[At(s[c + 1].left)] # kind[At(s[c].left)]
  /\ \A p \in en : topoIdx[p] >= i =>
       \E c \in DOMAIN s : topoIdx[p] \in s[c].left..s[c].right
  /\ s # <<>> => s[Len(s)].right = NPass - 1
  /\ i < NPass /\ At(i) \in en => s # <<>> /\ s[1].left = i

\* Run() works on the chunks of a set of passes that is closed under the
\* dependencies; its counters stay within them.
Inner == {"Passes", "InRun", "Thrown"}
InLoop ==
  /\ pmState # "Running" => step = "Idle"
  /\ step # "Idle" =>
       /\ Cut(enabled, 0, chunks)
       /\ \A p \in enabled : DependsOn(p) \subseteq enabled
       /\ ci \in 1..(Len(chunks) + 1)
       /\ step # "Chunk" => ci <= Len(chunks)
       /\ step = "Items" => item \in 1..(Yields + 1)
       /\ step \in Inner => /\ item \in 2..(Yields + 1)
                            /\ pos \in Chunk.left..Chunk.right
       /\ step \in {"InRun", "Thrown"} => pos # Chunk.right /\ Running \in enabled

\* In an iteration the passes up to the current one are Valid, the others are
\* Initialized; outside all are. Only a Run() that stopped leaves it so.
StatesFollow ==
  step # "Idle" \/ pmState # "Running" =>
    \A p \in Pass :
      pState[p] = IF step \in Inner /\ p \in enabled /\ topoIdx[p] < pos
                     /\ Chunk.left <= topoIdx[p] THEN "Valid"
                  ELSE IF step \in {"InRun", "Thrown"} /\ topoIdx[p] = pos
                    THEN "Running"
                  ELSE "Initialized"

\* The passes that run: enabled, dispatched on something, not at the end of
\* their chunk.
Runs(p) ==
  /\ p \in enabled
  /\ Items[kind[p]] > 0
  /\ \A c \in DOMAIN chunks : topoIdx[p] # chunks[c].right

OnlyTheseRan ==
  step # "Idle" \/ pmState = "Cleanup" =>
    \A p \in Pass : dispatched[p] # <<>> => Runs(p)

\* The passes below NextUp have run as far as the present iteration goes.
NextUp ==
  IF step \in Inner THEN pos
  ELSE IF step = "Items" THEN IF LastIter THEN Chunk.right + 1 ELSE Chunk.left
  ELSE IF ci > Len(chunks) THEN NPass ELSE Chunk.left

\* The references to the heaps of d that are still to be given back: by the
\* later passes of its chunk, in the last iteration by those of later chunks
\* as well, which keep theirs up to their own last iteration.
Due(d) ==
  {e \in Transpose(d) :
     LET q == edges[e].pass
     IN IF step = "Chunk" \/ LastIter THEN topoIdx[q] >= NextUp
        ELSE IF InChunk(d) THEN InChunk(q) /\ topoIdx[q] >= NextUp
        ELSE topoIdx[q] >= Chunk.left}

HeldFor(d, i, n) ==
  /\ i \in DOMAIN heaps
  /\ heaps[i].owner = d
  /\ heaps[i].lifetime = "Managed"
  /\ heaps[i].refcount >= n

\* No heap has fewer references than are due.
HeapsHeld ==
  /\ step \notin {"Idle", "Thrown"} =>
       \A d \in Pass :
         dispatched[d] # <<>> /\ topoIdx[d] < NextUp /\ Due(d) # {} =>
           \A i \in got[d] : HeldFor(d, i, Cardinality(Due(d)))
  /\ step = "InRun" => \A i \in got[Running] : HeldFor(Running, i, 1)

\* ... nor more, if its owner is not preserved and all that depends on the
\* owner runs.
MustFree(d) == d \notin Preserved /\ \A e \in Transpose(d) : Runs(edges[e].pass)

Owed(h) ==
  IF topoIdx[h.owner] < NextUp
    THEN IF h.lifetime = "Managed" THEN Cardinality(Due(h.owner)) ELSE 0
    ELSE IF step = "InRun" /\ h.owner = Running THEN 1 ELSE 0

HeapsReleased ==
  \A i \in DOMAIN heaps :
    /\ step \notin {"Idle", "Thrown"} /\ MustFree(heaps[i].owner) =>
         heaps[i].refcount <= Owed(heaps[i])
    /\ pmState = "Cleanup" /\ MustFree(heaps[i].owner) => heaps[i].refcount = 0
    /\ pmState = "Initialized" => heaps[i].refcount = 0

IInv ==
  /\ TypeOK
  /\ Sorted
  /\ InLoop
  /\ StatesFollow
  /\ OnlyTheseRan
  /\ HeapsHeld
  /\ HeapsReleased
=============================================================================
