------------------------ MODULE DominatorTreeProofs ------------------------
(***************************************************************************)
(* Proofs about DominatorTree: computeDominators() computes the immediate  *)
(* dominators although it visits the blocks in breadth-first order. The    *)
(* argument needs only that each block comes after one of its predecessors *)
(* (Numbered): then doms is a tree whose edges go to lower numbers and     *)
(* that loses no dominator (DomsTree), and once nothing changes any more   *)
(* (Stable) it holds nothing but dominators.                               *)
(***************************************************************************)
EXTENDS DominatorTree, SequenceTheorems, FiniteSetTheorems, WellFoundedInduction, TLAPS

USE NBlockAssumption, CFGAssumption

\* Blocks are numbered from 1.
LEMMA EntryIsBlock == Entry \in Block /\ None \notin Block
BY DEF Entry, Block, None

-----------------------------------------------------------------------------
(* The graph.                                                              *)
LEMMA GraphType ==
  ASSUME succ \in CFGs
  PROVE  /\ \A b \in Block : Succs(b) \subseteq Block \ {Entry}
         /\ \A b \in Block : succ[b] \in Seq(Block)
         /\ \A b \in Block : Preds(b) \subseteq Block
         /\ Preds(Entry) = {}
<1>1. \A b \in Block : succ[b] \in Seq(Block \ {Entry})
  OBVIOUS
<1>2. \A b \in Block : \A i \in DOMAIN succ[b] : succ[b][i] \in Block \ {Entry}
  BY <1>1, ElementOfSeq, LenProperties
<1>3. \A b \in Block : succ[b] \in Seq(Block)
  BY <1>1, SeqMonotonic
<1> QED
  BY <1>2, <1>3, EntryIsBlock DEF Succs, Preds

(* What can be reached without d from a block that can be.                 *)
LEMMA ClosedStep ==
  ASSUME NEW d, NEW T, Closed(succ, d, T),
         NEW p \in T, NEW b \in Succs(p), b # d
  PROVE  b \in T
BY DEF Closed, Succs

(* A strict dominator of a block dominates the predecessors of the block.  *)
LEMMA DominatesPreds ==
  ASSUME NEW d \in Block, NEW b \in Block, NEW p \in Preds(b),
         StrictlyDominates(d, b)
  PROVE  Dominates(d, p)
<1>1. PICK T \in SUBSET Block : Closed(succ, d, T) /\ b \notin T
  BY DEF StrictlyDominates, Dominates
<1>2. b \in Succs(p) /\ b # d
  BY DEF Preds, StrictlyDominates
<1>3. p \notin T
  BY <1>1, <1>2, ClosedStep
<1> QED
  BY <1>1, <1>3 DEF Dominates

(* Only the entry block dominates the entry block.                         *)
LEMMA DominatesEntry ==
  ASSUME NEW d \in Block, Dominates(d, Entry)
  PROVE  d = Entry
BY DEF Dominates, Closed

-----------------------------------------------------------------------------
(* The numbers.                                                            *)
LEMMA OrderIsOneToOne ==
  ASSUME TypeOK, Numbered, AllNumbered, phase # "Number"
  PROVE  /\ poidx[Entry] = 0
         /\ \A b, c \in Block : poidx[b] = poidx[c] => b = c
         /\ \A b \in Block : \E i \in DOMAIN order :
              order[i] = b /\ poidx[b] = i - 1
<1> USE DEF TypeOK, Numbered, AllNumbered
<1>1. DOMAIN order = 1..Len(order) /\ Len(order) \in Nat
  BY LenProperties
<1>2. \A b \in Block : \E i \in DOMAIN order : order[i] = b /\ poidx[b] = i - 1
  OBVIOUS
<1>3. ASSUME NEW b \in Block, NEW c \in Block, poidx[b] = poidx[c]
      PROVE  b = c
  <2> HIDE DEF TypeOK, Numbered, AllNumbered
  <2>1. PICK i \in DOMAIN order : order[i] = b /\ poidx[b] = i - 1
    BY <1>2
  <2>2. PICK j \in DOMAIN order : order[j] = c /\ poidx[c] = j - 1
    BY <1>2
  <2>3. i \in Int /\ j \in Int
    BY <1>1
  <2>4. i - 1 = j - 1
    BY <1>3, <2>1, <2>2, Zenon
  <2> QED
    BY <2>1, <2>2, <2>3, <2>4
<1>4. poidx[Entry] = 0
  <2>1. order # <<>>
    BY <1>1, EntryIsBlock
  <2>2. 1 \in DOMAIN order /\ order[1] = Entry
    BY <1>1, <2>1, EmptySeq
  <2> QED
    BY <2>2
<1> QED
  BY <1>2, <1>3, <1>4

(* Each block but the entry block has a predecessor with a lower number.   *)
LEMMA LowerPred ==
  ASSUME TypeOK, Numbered, AllNumbered, phase # "Number",
         NEW b \in Block, b # Entry
  PROVE  \E p \in Preds(b) : poidx[p] < poidx[b]
<1> USE DEF TypeOK, Numbered
<1>1. DOMAIN order = 1..Len(order) /\ Len(order) \in Nat
  BY LenProperties
<1>2. PICK i \in DOMAIN order : order[i] = b /\ poidx[b] = i - 1
  BY OrderIsOneToOne
<1>3. i # 1
  <2> SUFFICES ASSUME i = 1 PROVE FALSE
    OBVIOUS
  <2>1. order # <<>>
    BY <1>1, <1>2
  <2> QED
    BY <1>2, <2>1
<1>4. PICK j \in DOMAIN order : j < i /\ b \in Succs(order[j])
  BY <1>2, <1>3
<1>5. order[j] \in Preds(b) /\ poidx[order[j]] = j - 1
  BY <1>1, <1>4, ElementOfSeq DEF Preds
<1> QED
  BY <1>1, <1>2, <1>4, <1>5

(* A dominator has no higher number.                                       *)
LEMMA DominatorIsLower ==
  ASSUME TypeOK, Numbered, AllNumbered, phase # "Number",
         NEW d \in Block, NEW y \in Block, Dominates(d, y)
  PROVE  poidx[d] <= poidx[y]
<1>1. DOMAIN order \subseteq Int
  BY LenProperties DEF TypeOK
<1>2. PICK i \in DOMAIN order : order[i] = y /\ poidx[y] = i - 1
  BY OrderIsOneToOne
<1>3. PICK j \in DOMAIN order : j <= i /\ order[j] = d
  BY <1>2 DEF Numbered
<1>4. poidx[d] = j - 1
  BY <1>3 DEF Numbered
<1> QED
  BY <1>1, <1>2, <1>3, <1>4

-----------------------------------------------------------------------------
(* The chains of doms.                                                     *)
LEMMA ChainSelf == ASSUME NEW b PROVE OnChain(b, b)
BY DEF OnChain

\* Being on a chain of doms is transitive.
LEMMA ChainTransitive ==
  ASSUME NEW a, NEW b, NEW c, OnChain(a, b), OnChain(b, c)
  PROVE  OnChain(a, c)
BY DEF OnChain

\* A chain goes on above each of its blocks.
LEMMA ChainStep ==
  ASSUME NEW a, NEW b, OnChain(a, b), doms[a] # None
  PROVE  OnChain(doms[a], b)
BY DEF OnChain

\* Above a block its chain is the chain of what doms holds for it.
LEMMA ChainAbove ==
  ASSUME doms \in [Block -> Block \union {None}],
         NEW a \in Block, NEW b \in Block, OnChain(a, b), a # b, doms[b] # None
  PROVE  OnChain(a, doms[b])
<1> SUFFICES ASSUME NEW T \in SUBSET Block, doms[b] \in T,
                    \A x \in T : doms[x] # None => doms[x] \in T
             PROVE  a \in T
  BY DEF OnChain
<1> DEFINE U == T \union {b}
<1>1. U \in SUBSET Block /\ b \in U /\ \A x \in U : doms[x] # None => doms[x] \in U
  OBVIOUS
<1>2. a \in U
  BY <1>1 DEF OnChain
<1> QED
  BY <1>2

\* The entry block is the end of its chain.
LEMMA ChainOfEntry ==
  ASSUME NEW a, OnChain(a, Entry), doms[Entry] = Entry
  PROVE  a = Entry
<1> DEFINE T == {Entry}
<1>1. T \in SUBSET Block /\ Entry \in T /\ \A x \in T : doms[x] # None => doms[x] \in T
  BY EntryIsBlock
<1> QED
  BY <1>1 DEF OnChain

\* The indices of the blocks do not grow along a chain.
LEMMA ChainIsLower ==
  ASSUME TypeOK, DomsTree, phase # "Number",
         NEW a \in Block, NEW b \in Block, OnChain(a, b)
  PROVE  poidx[a] <= poidx[b]
<1> USE DEF TypeOK
<1> DEFINE T == {x \in Block : poidx[x] <= poidx[b]}
<1>1. ASSUME NEW x \in T, doms[x] # None PROVE doms[x] \in T
  <2>1. CASE x = Entry
    BY <2>1 DEF DomsTree
  <2>2. CASE x # Entry
    <3>1. poidx[doms[x]] < poidx[x] /\ doms[x] \in Block
      BY <1>1, <2>2 DEF DomsTree
    <3> QED
      BY <3>1
  <2> QED
    BY <2>1, <2>2
<1>2. T \in SUBSET Block /\ b \in T
  OBVIOUS
<1>3. a \in T
  BY <1>1, <1>2 DEF OnChain
<1> QED
  BY <1>3

(* No chain leaves the blocks.                                             *)
LEMMA ChainOfBlocks ==
  ASSUME doms \in [Block -> Block \union {None}],
         NEW a, NEW b \in Block, OnChain(a, b)
  PROVE  a \in Block
BY DEF OnChain

(* Dominance is transitive, and the dominators of a block are one above    *)
(* the other.                                                              *)
LEMMA DominatesTransitive ==
  ASSUME NEW a \in Block, NEW b \in Block, NEW c \in Block,
         Dominates(a, b), Dominates(b, c)
  PROVE  Dominates(a, c)
<1>1. PICK T \in SUBSET Block : Closed(succ, a, T) /\ b \notin T
  BY DEF Dominates
<1>2. PICK U \in SUBSET Block : Closed(succ, b, U) /\ c \notin U
  BY DEF Dominates
<1>3. Closed(succ, a, T \cap U)
  BY <1>1, <1>2 DEF Closed
<1> QED
  BY <1>2, <1>3 DEF Dominates

-----------------------------------------------------------------------------
(* Dominance only depends on the graph, chains only on doms.               *)
LEMMA GraphFrame ==
  ASSUME succ' = succ
  PROVE  /\ \A b : Succs(b)' = Succs(b)
         /\ \A b : Preds(b)' = Preds(b)
         /\ \A d, b : Dominates(d, b)' <=> Dominates(d, b)
         /\ \A d, b : StrictlyDominates(d, b)' <=> StrictlyDominates(d, b)
         /\ \A y, x : InFrontier(y, x)' <=> InFrontier(y, x)
<1>1. /\ \A b : Succs(b)' = Succs(b)
      /\ \A b : Preds(b)' = Preds(b)
  BY DEF Succs, Preds
<1>2. \A d, b : Dominates(d, b)' <=> Dominates(d, b)
  BY DEF Dominates, Closed
<1>3. \A d, b : StrictlyDominates(d, b)' <=> StrictlyDominates(d, b)
  BY <1>2 DEF StrictlyDominates
<1>4. \A y, x : InFrontier(y, x)' <=> InFrontier(y, x)
  BY <1>1, <1>2, <1>3 DEF InFrontier
<1> QED
  BY <1>1, <1>2, <1>3, <1>4

\* A chain depends on doms only.
LEMMA ChainFrame ==
  ASSUME doms' = doms
  PROVE  \A a, b : OnChain(a, b)' <=> OnChain(a, b)
BY DEF OnChain

(* What the steps after the numbering leave as it is.                      *)
LEMMA NumberedFrame ==
  ASSUME Numbered, AllNumbered, phase # "Number", phase' # "Number",
         UNCHANGED <<succ, numbering>>
  PROVE  Numbered' /\ AllNumbered' /\ Coming'
<1> USE DEF numbering
<1>1. Numbered'
  BY GraphFrame DEF Numbered
<1> QED
  BY <1>1 DEF AllNumbered, Coming

\* So does the tree,
LEMMA DomsTreeFrame ==
  ASSUME DomsTree, phase # "Number", UNCHANGED <<succ, numbering, doms>>
  PROVE  DomsTree'
BY GraphFrame DEF DomsTree, numbering

\* whether it is stable,
LEMMA StableFrame ==
  ASSUME Stable, phase # "Number",
         UNCHANGED <<succ, numbering, doms, at, changed>>
  PROVE  Stable'
BY GraphFrame, ChainFrame DEF Stable, numbering

\* and the frontiers on the graph and the sets.
LEMMA FrontiersSoundFrame ==
  ASSUME FrontiersSound, UNCHANGED <<succ, frontiers>>
  PROVE  FrontiersSound'
BY GraphFrame DEF FrontiersSound

(* The steps of computeDominators() leave the frontiers alone.             *)
LEMMA SolvingFrame ==
  ASSUME ~Solved', FrontiersSound, UNCHANGED <<succ, frontiers>>
  PROVE  FrontiersSound' /\ FrontiersComplete'
BY FrontiersSoundFrame DEF FrontiersComplete

(* A finger that climbs because it is on the higher of two blocks keeps    *)
(* their common dominators.                                                *)
LEMMA ClimbingKeepsDominators ==
  ASSUME TypeOK, Numbered, AllNumbered, DomsTree, phase # "Number",
         NEW f \in Block, NEW g \in Block, poidx[f] > poidx[g],
         doms[f] # None
  PROVE  /\ doms[f] \in Block
         /\ doms[doms[f]] # None
         /\ \A d \in Block :
              Dominates(d, f) /\ Dominates(d, g) => Dominates(d, doms[f])
<1>1. poidx[f] \in Nat /\ poidx[g] \in Nat /\ doms[f] \in Block
  BY DEF TypeOK
<1>2. f # Entry
  BY <1>1, OrderIsOneToOne
<1>3. ASSUME NEW d \in Block, Dominates(d, f), Dominates(d, g)
      PROVE  Dominates(d, doms[f])
  <2>1. poidx[d] <= poidx[g] /\ poidx[d] \in Nat
    BY <1>3, DominatorIsLower DEF TypeOK
  <2>2. d # f
    BY <1>1, <2>1
  <2> QED
    BY <1>2, <1>3, <2>2 DEF DomsTree, StrictlyDominates
<1> QED
  BY <1>1, <1>2, <1>3 DEF DomsTree

-----------------------------------------------------------------------------
\* Before the constructor.
LEMMA InitIInv == Init => IInv
<1> SUFFICES ASSUME Init PROVE IInv
  OBVIOUS
<1> USE DEF Init
<1>1. TypeOK
  <2>1. <<Entry>> \in Seq(Block) /\ <<>> \in Seq(Block)
    BY EntryIsBlock
  <2>2. /\ poidx \in [Block -> Nat] /\ doms \in [Block -> Block \union {None}]
        /\ frontiers \in [Block -> SUBSET Block]
        /\ domt \in [Block -> SUBSET Block]
    OBVIOUS
  <2>3. /\ cur \in Nat \ {0} /\ at \in Nat \ {0} /\ finger1 \in Block
        /\ finger2 \in Block /\ newIdom \in Block \union {None}
    BY EntryIsBlock DEF Entry
  <2>4. /\ todo \subseteq Block /\ changed \in BOOLEAN
        /\ queue \in Seq(Block) /\ order \in Seq(Block)
    BY <2>1
  <2> QED
    BY <2>1, <2>2, <2>3, <2>4 DEF TypeOK
<1>2. Numbered /\ Coming /\ AllNumbered
  BY DEF Numbered, Coming, AllNumbered
<1>3. DomsTree /\ DoneUpTo /\ Candidate /\ Stable
  BY DEF DomsTree, DoneUpTo, Candidate, Stable, Solved
<1>4. FrontiersSound /\ FrontiersComplete
  BY DEF FrontiersSound, FrontiersComplete, Solved
<1> QED
  BY <1>1, <1>2, <1>3, <1>4 DEF IInv

\* A block is numbered.
LEMMA NumberIInv == IInv /\ Number => IInv'
<1> SUFFICES ASSUME IInv, Number PROVE IInv'
  OBVIOUS
<1> DEFINE b == Head(queue)
           n == Len(order) + 1
<1>1. TypeOK /\ Numbered /\ Coming
  BY DEF IInv
<1>2. /\ queue \in Seq(Block) /\ order \in Seq(Block) /\ queue # <<>>
      /\ succ[b] \in Seq(Block) /\ b \in Block
      /\ Tail(queue) \in Seq(Block)
      /\ phase = "Number" /\ phase' = "Number"
  BY <1>1, HeadTailProperties, GraphType DEF TypeOK, Number
<1>3. /\ Len(order) \in Nat /\ DOMAIN order = 1..Len(order)
      /\ Len(queue) \in Nat \ {0} /\ DOMAIN queue = 1..Len(queue)
      /\ DOMAIN Tail(queue) = 1..(Len(queue) - 1)
      /\ \A k \in DOMAIN Tail(queue) : Tail(queue)[k] = queue[k + 1]
      /\ queue[1] = b
      /\ n = Len(order) + 1
  BY <1>2, LenProperties, EmptySeq, HeadTailProperties
<1>4. UNCHANGED <<succ, doms, frontiers, domt, changed, at, newIdom, finger2,
                  cur, todo, finger1, phase>>
  BY DEF Number, solving
<1>5. AllNumbered' /\ DomsTree' /\ DoneUpTo' /\ Candidate' /\ Stable'
  BY <1>2 DEF AllNumbered, DomsTree, DoneUpTo, Candidate, Stable, Solved
<1>6. FrontiersSound' /\ FrontiersComplete'
  BY <1>2, <1>4, SolvingFrame DEF IInv, Solved
<1>9. IF \E i \in DOMAIN order : order[i] = b
        THEN queue' = Tail(queue) /\ UNCHANGED <<order, poidx>>
        ELSE /\ queue' = Tail(queue) \o succ[b]
             /\ order' = Append(order, b)
             /\ poidx' = [poidx EXCEPT ![b] = Len(order)]
  BY DEF Number
<1> HIDE DEF b, n
<1>7. CASE \E i \in DOMAIN order : order[i] = b
  <2>1. queue' = Tail(queue) /\ UNCHANGED <<order, poidx>>
    BY <1>7, <1>9
  <2>2. TypeOK'
    BY <1>1, <1>2, <1>4, <2>1 DEF TypeOK
  <2>3. Numbered'
    BY <1>1, <1>4, <2>1, GraphFrame DEF Numbered
  <2>4. order # <<>>
    BY <1>3, <1>7
  <2>5. \A k \in DOMAIN queue' : \E j \in DOMAIN order :
          queue'[k] \in Succs(order[j])
    BY <1>1, <1>2, <1>3, <2>1, <2>4 DEF Coming
  <2>6. ASSUME NEW i \in DOMAIN order, NEW s \in Succs(order[i])
        PROVE  \/ \E j \in DOMAIN order : order[j] = s
               \/ \E k \in DOMAIN queue' : queue'[k] = s
    <3>1. CASE \E j \in DOMAIN order : order[j] = s
      BY <3>1
    <3>2. CASE \E k \in DOMAIN queue : queue[k] = s
      <4>1. PICK k \in DOMAIN queue : queue[k] = s
        BY <3>2
      <4>2. CASE k = 1
        BY <1>3, <1>7, <4>1, <4>2
      <4>3. CASE k # 1
        <5>1. k - 1 \in DOMAIN Tail(queue) /\ Tail(queue)[k - 1] = s
          BY <1>3, <4>1, <4>3
        <5> QED
          BY <2>1, <5>1
      <4> QED
        BY <4>2, <4>3
    <3> QED
      BY <1>1, <1>2, <3>1, <3>2 DEF Coming
  <2>7. Coming'
    <3>1. /\ succ' = succ /\ order' = order
          /\ doms' = doms /\ doms = [c \in Block |-> None]
      BY <1>1, <1>2, <1>4, <2>1 DEF Coming
    <3> QED
      BY <2>4, <2>5, <2>6, <3>1, GraphFrame DEF Coming
  <2> QED
    BY <1>5, <1>6, <2>2, <2>3, <2>7 DEF IInv
<1>8. CASE ~ \E i \in DOMAIN order : order[i] = b
  <2>1. /\ queue' = Tail(queue) \o succ[b]
        /\ order' = Append(order, b)
        /\ poidx' = [poidx EXCEPT ![b] = Len(order)]
    BY <1>8, <1>9
  <2>2. /\ order' \in Seq(Block) /\ DOMAIN order' = 1..n
        /\ \A i \in DOMAIN order : order'[i] = order[i]
        /\ order'[n] = b
        /\ order' # <<>>
    BY <1>2, <1>3, <2>1, AppendProperties, LenProperties
  <2>3. /\ queue' \in Seq(Block)
        /\ DOMAIN queue' = 1..(Len(queue) - 1 + Len(succ[b]))
        /\ \A k \in DOMAIN Tail(queue) : queue'[k] = queue[k + 1]
        /\ \A k \in DOMAIN succ[b] : queue'[Len(queue) - 1 + k] = succ[b][k]
        /\ Len(succ[b]) \in Nat /\ DOMAIN succ[b] = 1..Len(succ[b])
        /\ \A k \in DOMAIN queue' : \/ k \in DOMAIN Tail(queue)
                                    \/ k - (Len(queue) - 1) \in DOMAIN succ[b]
    <3>1. Len(Tail(queue)) = Len(queue) - 1
      BY <1>2, HeadTailProperties
    <3>2. Len(succ[b]) \in Nat /\ DOMAIN succ[b] = 1..Len(succ[b])
      BY <1>2, LenProperties
    <3>3. /\ queue' \in Seq(Block)
          /\ Len(queue') = Len(queue) - 1 + Len(succ[b])
          /\ \A k \in 1..(Len(queue) - 1 + Len(succ[b])) :
               queue'[k] = IF k <= Len(queue) - 1 THEN Tail(queue)[k]
                           ELSE succ[b][k - (Len(queue) - 1)]
      BY <1>2, <2>1, <3>1, ConcatProperties
    <3>4. DOMAIN queue' = 1..(Len(queue) - 1 + Len(succ[b]))
      BY <3>3, LenProperties
    <3>5. \A k \in DOMAIN Tail(queue) : queue'[k] = queue[k + 1]
      BY <1>3, <3>2, <3>3
    <3>6. \A k \in DOMAIN succ[b] : queue'[Len(queue) - 1 + k] = succ[b][k]
      <4> TAKE k \in DOMAIN succ[b]
      <4> DEFINE m == Len(queue) - 1 + k
      <4>1. /\ m \in 1..(Len(queue) - 1 + Len(succ[b]))
            /\ ~(m <= Len(queue) - 1)
            /\ m - (Len(queue) - 1) = k
        BY <1>3, <3>2
      <4> QED
        BY <3>3, <4>1
    <3>7. \A k \in DOMAIN queue' : \/ k \in DOMAIN Tail(queue)
                                    \/ k - (Len(queue) - 1) \in DOMAIN succ[b]
      BY <1>3, <3>2, <3>4
    <3> QED
      BY <3>2, <3>3, <3>4, <3>5, <3>6, <3>7
  <2>4. TypeOK'
    <3>1. poidx' \in [Block -> Nat]
      BY <1>1, <1>2, <1>3, <2>1 DEF TypeOK
    <3> QED
      BY <1>1, <1>4, <2>2, <2>3, <3>1 DEF TypeOK
  <2>5. order = <<>> => b = Entry /\ n = 1
    BY <1>1, <1>2, <1>3, EmptySeq DEF Coming
  <2>6. order # <<>> => \E j \in DOMAIN order : b \in Succs(order[j])
    BY <1>1, <1>2, <1>3 DEF Coming
  <2>7. Numbered'
    <3>1. \A i \in DOMAIN order' : poidx'[order'[i]] = i - 1
      <4> TAKE i \in DOMAIN order'
      <4>1. CASE i = n
        BY <1>1, <1>2, <1>3, <2>1, <2>2, <4>1 DEF TypeOK
      <4>2. CASE i # n
        <5>1. i \in DOMAIN order
          BY <1>3, <2>2, <4>2
        <5>2. order[i] \in Block /\ order[i] # b
          BY <1>2, <1>3, <1>8, <5>1, ElementOfSeq
        <5> QED
          BY <1>1, <2>1, <2>2, <5>1, <5>2 DEF TypeOK, Numbered
      <4> QED
        BY <4>1, <4>2
    <3>2. \A i \in DOMAIN order' : i # 1 =>
            \E j \in DOMAIN order' : j < i /\ order'[i] \in Succs(order'[j])
      <4> SUFFICES ASSUME NEW i \in DOMAIN order', i # 1
                   PROVE  \E j \in DOMAIN order' :
                            j < i /\ order'[i] \in Succs(order'[j])
        OBVIOUS
      <4>1. CASE i = n
        <5>1. order # <<>>
          BY <2>5, <4>1
        <5>2. PICK j \in DOMAIN order : b \in Succs(order[j])
          BY <2>6, <5>1
        <5> QED
          BY <1>3, <2>2, <4>1, <5>2
      <4>2. CASE i # n
        <5>1. i \in DOMAIN order
          BY <1>3, <2>2, <4>2
        <5>2. PICK j \in DOMAIN order : j < i /\ order[i] \in Succs(order[j])
          BY <1>1, <5>1 DEF Numbered
        <5> QED
          BY <1>3, <2>2, <5>1, <5>2
      <4> QED
        BY <4>1, <4>2
    <3>3. order'[1] = Entry
      <4>1. CASE order = <<>>
        BY <2>2, <2>5, <4>1
      <4>2. CASE order # <<>>
        <5>1. 1 \in DOMAIN order
          BY <1>2, <1>3, <4>2, EmptySeq
        <5> QED
          BY <1>1, <2>2, <4>2, <5>1 DEF Numbered
      <4> QED
        BY <4>1, <4>2
    <3>4. ASSUME NEW i \in DOMAIN order', NEW d \in Block,
                 Dominates(d, order'[i])
          PROVE  \E j \in DOMAIN order' : j <= i /\ order'[j] = d
      <4>1. CASE i = n /\ d = b
        BY <1>3, <2>2, <4>1
      <4>2. CASE i = n /\ d # b
        <5>1. StrictlyDominates(d, b)
          BY <2>2, <3>4, <4>2 DEF StrictlyDominates
        <5>2. order # <<>>
          BY <2>5, <4>2, <5>1, DominatesEntry DEF StrictlyDominates
        <5>3. PICK j \in DOMAIN order : b \in Succs(order[j])
          BY <2>6, <5>2
        <5>4. order[j] \in Preds(b)
          BY <1>2, <1>3, <5>3, ElementOfSeq DEF Preds
        <5>5. Dominates(d, order[j])
          BY <1>2, <5>1, <5>4, DominatesPreds
        <5>6. PICK k \in DOMAIN order : k <= j /\ order[k] = d
          BY <1>1, <5>5 DEF Numbered
        <5>7. k \in DOMAIN order' /\ k <= n /\ order'[k] = d
          BY <1>3, <2>2, <5>6
        <5> QED
          BY <4>2, <5>7
      <4>3. CASE i # n
        <5>1. i \in DOMAIN order
          BY <1>3, <2>2, <4>3
        <5>2. Dominates(d, order[i])
          BY <2>2, <3>4, <5>1
        <5>3. PICK k \in DOMAIN order : k <= i /\ order[k] = d
          BY <1>1, <5>1, <5>2 DEF Numbered
        <5> QED
          BY <1>3, <2>2, <5>3
      <4> QED
        BY <4>1, <4>2, <4>3
    <3> QED
      BY <1>4, <3>1, <3>2, <3>3, <3>4, GraphFrame DEF Numbered
  <2>8. \A k \in DOMAIN queue' : \E j \in DOMAIN order' :
          queue'[k] \in Succs(order'[j])
    <3> TAKE k \in DOMAIN queue'
    <3>1. CASE k \in DOMAIN Tail(queue)
      <4>1. queue'[k] = queue[k + 1] /\ k + 1 \in DOMAIN queue /\ k + 1 # 1
        BY <1>3, <2>3, <3>1
      <4>2. order # <<>>
        <5> SUFFICES ASSUME order = <<>> PROVE FALSE
          OBVIOUS
        <5>1. queue = <<Entry>>
          BY <1>1, <1>2 DEF Coming
        <5>2. Len(queue) = 1
          BY <5>1
        <5> QED
          BY <1>3, <3>1, <5>2
      <4>3. PICK j \in DOMAIN order : queue[k + 1] \in Succs(order[j])
        BY <1>1, <1>2, <4>1, <4>2 DEF Coming
      <4> QED
        BY <1>3, <2>2, <4>1, <4>3
    <3>2. CASE k - (Len(queue) - 1) \in DOMAIN succ[b]
      <4> DEFINE m == k - (Len(queue) - 1)
      <4>1. queue'[Len(queue) - 1 + m] = succ[b][m] /\ Len(queue) - 1 + m = k
        BY <1>3, <2>3, <3>2
      <4>2. queue'[k] \in Succs(b)
        BY <3>2, <4>1 DEF Succs
      <4> QED
        BY <1>3, <2>2, <4>2
    <3> QED
      BY <2>3, <3>1, <3>2
  <2>9. ASSUME NEW i \in DOMAIN order', NEW s \in Succs(order'[i])
        PROVE  \/ \E j \in DOMAIN order' : order'[j] = s
               \/ \E k \in DOMAIN queue' : queue'[k] = s
    <3>1. CASE i = n
      <4>1. PICK m \in DOMAIN succ[b] : succ[b][m] = s
        BY <2>2, <3>1, <2>9 DEF Succs
      <4>2. Len(queue) - 1 + m \in DOMAIN queue'
        BY <1>3, <2>3, <4>1
      <4> QED
        BY <2>3, <4>1, <4>2
    <3>2. CASE i # n
      <4>1. i \in DOMAIN order /\ s \in Succs(order[i])
        BY <1>3, <2>2, <3>2, <2>9
      <4>2. CASE \E j \in DOMAIN order : order[j] = s
        BY <1>3, <2>2, <4>2
      <4>3. CASE \E k \in DOMAIN queue : queue[k] = s
        <5>1. PICK k \in DOMAIN queue : queue[k] = s
          BY <4>3
        <5>2. CASE k = 1
          BY <1>3, <2>2, <5>1, <5>2
        <5>3. CASE k # 1
          <6>1. k - 1 \in DOMAIN Tail(queue) /\ k - 1 \in DOMAIN queue'
            BY <1>3, <2>3, <5>1, <5>3
          <6>2. queue'[k - 1] = queue[(k - 1) + 1] /\ (k - 1) + 1 = k
            BY <1>3, <2>3, <6>1
          <6> QED
            BY <5>1, <6>1, <6>2
        <5> QED
          BY <5>2, <5>3
      <4> QED
        BY <1>1, <1>2, <4>1, <4>2, <4>3 DEF Coming
    <3> QED
      BY <3>1, <3>2
  <2>10. Coming'
    BY <1>1, <1>2, <1>4, <2>2, <2>8, <2>9, GraphFrame DEF Coming
  <2> QED
    BY <1>5, <1>6, <2>4, <2>7, <2>10 DEF IInv
<1> QED
  BY <1>7, <1>8

(* All blocks are numbered when the queue is empty: what has come is closed *)
(* under the edges of the graph.                                            *)
LEMMA BeginDominatorsIInv == IInv /\ BeginDominators => IInv'
<1> SUFFICES ASSUME IInv, BeginDominators PROVE IInv'
  OBVIOUS
<1>1. TypeOK /\ Numbered /\ Coming /\ FrontiersSound
  BY DEF IInv
<1>2. /\ phase = "Number" /\ phase' = "Block" /\ queue = <<>>
      /\ doms' = [doms EXCEPT ![Entry] = Entry]
      /\ at' = 1 /\ changed' = FALSE
      /\ UNCHANGED <<succ, queue, order, poidx, frontiers, domt, newIdom,
                     finger2, cur, todo, finger1>>
  BY DEF BeginDominators, numbering
<1>3. TypeOK'
  <2>1. doms' \in [Block -> Block \union {None}]
    BY <1>1, <1>2, EntryIsBlock DEF TypeOK
  <2>2. at' \in Nat \ {0} /\ changed' \in BOOLEAN
    <3>1. at' = 1 /\ changed' = FALSE
      BY <1>2
    <3>2. 1 \in Nat \ {0} /\ FALSE \in BOOLEAN
      OBVIOUS
    <3> QED
      BY <3>1, <3>2, Zenon
  <2>3. /\ succ' = succ /\ queue' = queue /\ order' = order
        /\ poidx' = poidx /\ frontiers' = frontiers /\ domt' = domt
        /\ newIdom' = newIdom /\ finger1' = finger1 /\ finger2' = finger2
        /\ cur' = cur /\ todo' = todo /\ phase' = "Block"
    BY <1>2
  <2> QED
    BY <1>1, <2>1, <2>2, <2>3 DEF TypeOK
<1>4. Numbered'
  BY <1>1, <1>2, GraphFrame DEF Numbered
<1>5. Coming'
  BY <1>2 DEF Coming
<1>6. AllNumbered'
  <2> DEFINE T == {b \in Block : \E i \in DOMAIN order : order[i] = b}
  <2>1. order # <<>>
    <3> SUFFICES ASSUME order = <<>> PROVE FALSE
      OBVIOUS
    <3>1. queue = <<Entry>> /\ Len(queue) = 0
      BY <1>1, <1>2 DEF Coming
    <3> QED
      BY <3>1
  <2>2. DOMAIN order = 1..Len(order) /\ Len(order) \in Nat \ {0}
    BY <1>1, <2>1, LenProperties, EmptySeq DEF TypeOK
  <2>3. order[1] = Entry
    BY <1>1, <2>1 DEF Numbered
  <2>4. Entry \in T
    BY <2>2, <2>3, EntryIsBlock
  <2>5. ASSUME NEW b \in T, NEW k \in DOMAIN succ[b] PROVE succ[b][k] \in T
    <3>1. PICK i \in DOMAIN order : order[i] = b
      OBVIOUS
    <3>2. succ[b][k] \in Succs(order[i]) /\ succ[b][k] \in Block
      BY <1>1, <3>1, GraphType DEF Succs, TypeOK
    <3>3. DOMAIN queue = {}
      BY <1>2
    <3>4. \E j \in DOMAIN order : order[j] = succ[b][k]
      BY <1>1, <1>2, <3>2, <3>3 DEF Coming
    <3> QED
      BY <3>2, <3>4
  <2>6. Closed(succ, None, T)
    BY <2>4, <2>5 DEF Closed
  <2>7. T = Block
    <3>1. T \in SUBSET Block /\ succ \in CFGs
      BY <1>1 DEF TypeOK
    <3> HIDE DEF T
    <3> QED
      BY <2>6, <3>1
  <2> QED
    BY <1>2, <2>7 DEF AllNumbered
<1>7. DomsTree'
  BY <1>1, <1>2, EntryIsBlock DEF DomsTree, Coming, TypeOK
<1>8. DoneUpTo' /\ Candidate' /\ Stable'
  <2>1. DOMAIN order \subseteq Nat \ {0}
    <3>1. order \in Seq(Block)
      BY <1>1 DEF TypeOK
    <3>2. DOMAIN order = 1..Len(order) /\ Len(order) \in Nat
      BY <3>1, LenProperties
    <3> QED
      BY <3>2
  <2> QED
    BY <1>2, <2>1 DEF DoneUpTo, Candidate, Stable, Solved
<1>9. FrontiersSound' /\ FrontiersComplete'
  BY <1>1, <1>2, SolvingFrame DEF Solved
<1> QED
  BY <1>3, <1>4, <1>5, <1>6, <1>7, <1>8, <1>9 DEF IInv

\* The iteration comes to a block.
LEMMA VisitBlockIInv == IInv /\ VisitBlock => IInv'
<1> SUFFICES ASSUME IInv, VisitBlock PROVE IInv'
  OBVIOUS
<1>1. /\ TypeOK /\ Numbered /\ AllNumbered /\ DomsTree /\ DoneUpTo /\ Stable
      /\ FrontiersSound
  BY DEF IInv
<1>2. /\ phase = "Block" /\ phase' = "Pred" /\ at <= Len(order)
      /\ newIdom' = None /\ todo' = Preds(order[at])
      /\ UNCHANGED <<succ, numbering, doms, frontiers, domt, changed, at,
                     finger2, cur, finger1>>
  BY DEF VisitBlock
<1>3. at \in DOMAIN order /\ order[at] \in Block
  BY <1>1, <1>2, LenProperties, ElementOfSeq DEF TypeOK
<1>4. TypeOK'
  BY <1>1, <1>2, <1>3, GraphType DEF TypeOK, numbering
<1>5. Numbered' /\ AllNumbered' /\ Coming' /\ DomsTree' /\ Stable'
  BY <1>1, <1>2, NumberedFrame, DomsTreeFrame, StableFrame
<1>6. DoneUpTo'
  BY <1>1, <1>2, <1>3 DEF DoneUpTo, Solved, numbering
<1>7. Candidate'
  BY <1>2, GraphFrame DEF Candidate, Candidates, numbering
<1>8. FrontiersSound' /\ FrontiersComplete'
  BY <1>1, <1>2, SolvingFrame DEF Solved
<1> QED
  BY <1>4, <1>5, <1>6, <1>7, <1>8 DEF IInv

\* ... and to a predecessor of it.
LEMMA VisitPredIInv ==
  ASSUME IInv, NEW p \in Block, VisitPred(p)
  PROVE  IInv'
<1> DEFINE b == order[at]
<1>1. /\ TypeOK /\ Numbered /\ AllNumbered /\ DomsTree /\ DoneUpTo /\ Stable
      /\ Candidate /\ FrontiersSound
  BY DEF IInv
<1>2. /\ phase = "Pred" /\ p \in todo /\ todo' = todo \ {p}
      /\ UNCHANGED <<succ, numbering, doms, frontiers, domt, changed, at, cur>>
      /\ phase' \in {"Pred", "Intersect"}
  BY DEF VisitPred
<1>3. at \in DOMAIN order /\ b \in Block
  BY <1>1, <1>2, LenProperties, ElementOfSeq DEF TypeOK, DoneUpTo
<1>4. p \in Preds(b) /\ b # Entry
  BY <1>1, <1>2, GraphType DEF Candidate, TypeOK
<1>5. TypeOK'
  BY <1>1, <1>2 DEF TypeOK, numbering, VisitPred
<1>6. Numbered' /\ AllNumbered' /\ Coming' /\ DomsTree' /\ Stable'
  BY <1>1, <1>2, NumberedFrame, DomsTreeFrame, StableFrame
<1>7. DoneUpTo'
  BY <1>1, <1>2, <1>3 DEF DoneUpTo, Solved, numbering
<1>8. FrontiersSound' /\ FrontiersComplete'
  BY <1>1, <1>2, SolvingFrame DEF Solved
<1>9. b' = b /\ todo' \subseteq Preds(b)
  BY <1>1, <1>2 DEF Candidate, numbering
<1>10. \A d \in Block : StrictlyDominates(d, b) => Dominates(d, p)
  BY <1>3, <1>4, DominatesPreds
<1> HIDE DEF b
<1>11. CASE doms[p] = None
  <2>1. UNCHANGED <<newIdom, finger1, finger2, phase>>
    BY <1>11 DEF VisitPred
  <2>2. Candidates' = Candidates /\ \A q : Above(q)' <=> Above(q)
    BY <1>2, <2>1, ChainFrame DEF Candidates, Above
  <2>3. Candidate'
    BY <1>1, <1>2, <1>9, <1>11, <2>1, <2>2, GraphFrame DEF Candidate, b
  <2> QED
    BY <1>5, <1>6, <1>7, <1>8, <2>3 DEF IInv
<1>12. CASE doms[p] # None /\ newIdom = None
  <2>1. newIdom' = p /\ UNCHANGED <<finger1, finger2, phase>>
    BY <1>12 DEF VisitPred
  <2>2. Candidates' = {p}
    BY <1>2, <2>1, EntryIsBlock DEF Candidates
  <2>3. ASSUME NEW q \in Preds(b) \ todo, doms[q] # None PROVE FALSE
    <3>1. OnChain(None, q) /\ q \in Block
      BY <1>1, <1>2, <1>12, <2>3 DEF Candidate, Above, b, Preds
    <3> QED
      BY <1>1, <3>1, ChainOfBlocks, EntryIsBlock DEF TypeOK
  <2>4. ASSUME NEW q \in Preds(b) \ todo', doms[q] # None PROVE Above(q)'
    <3>1. q = p
      BY <1>2, <2>3, <2>4
    <3>2. OnChain(newIdom, q)'
      BY <1>2, <2>1, <3>1, ChainFrame, ChainSelf
    <3> QED
      BY <1>2, <2>1, <3>2 DEF Above
  <2>5. Candidate'
    BY <1>2, <1>4, <1>9, <1>10, <1>12, <2>1, <2>2, <2>4, GraphFrame
       DEF Candidate, b
  <2> QED
    BY <1>5, <1>6, <1>7, <1>8, <2>5 DEF IInv
<1>13. CASE doms[p] # None /\ newIdom # None
  <2>1. finger1' = p /\ finger2' = newIdom /\ phase' = "Intersect"
        /\ UNCHANGED newIdom
    BY <1>13 DEF VisitPred
  <2>2. Candidates' = {p, newIdom} /\ newIdom \in Candidates
    BY <1>2, <1>13, <2>1 DEF Candidates
  <2>3. ASSUME NEW q \in Preds(b) \ todo', doms[q] # None PROVE Above(q)'
    <3>1. CASE q = p
      <4>1. OnChain(finger1, q)'
        BY <1>2, <2>1, <3>1, ChainFrame, ChainSelf
      <4> QED
        BY <2>1, <4>1 DEF Above
    <3>2. CASE q # p
      <4>1. OnChain(newIdom, q)
        BY <1>1, <1>2, <2>3, <3>2 DEF Candidate, Above, b
      <4>2. OnChain(finger2, q)'
        BY <1>2, <2>1, <4>1, ChainFrame
      <4> QED
        BY <2>1, <4>2 DEF Above
    <3> QED
      BY <3>1, <3>2
  <2>4. /\ doms[newIdom] # None
        /\ \A d \in Block : StrictlyDominates(d, b) => Dominates(d, newIdom)
    BY <1>1, <1>2, <2>2 DEF Candidate, b
  <2>5. Candidate'
    BY <1>2, <1>4, <1>9, <1>10, <1>13, <2>1, <2>2, <2>3, <2>4, GraphFrame
       DEF Candidate, b
  <2> QED
    BY <1>5, <1>6, <1>7, <1>8, <2>5 DEF IInv
<1> QED
  BY <1>11, <1>12, <1>13

\* A finger of intersect() climbs: it loses no common dominator.
LEMMA ClimbIInv == IInv /\ Climb => IInv'
<1> SUFFICES ASSUME IInv, Climb PROVE IInv'
  OBVIOUS
<1> DEFINE b == order[at]
<1>1. /\ TypeOK /\ Numbered /\ AllNumbered /\ DomsTree /\ DoneUpTo /\ Stable
      /\ Candidate /\ FrontiersSound
  BY DEF IInv
<1>2. /\ phase = "Intersect" /\ phase' = "Intersect" /\ finger1 # finger2
      /\ UNCHANGED <<succ, numbering, doms, frontiers, domt, changed, at, cur,
                     todo, newIdom>>
      /\ IF poidx[finger1] > poidx[finger2]
           THEN finger1' = doms[finger1] /\ finger2' = finger2
           ELSE finger2' = doms[finger2] /\ finger1' = finger1
  BY DEF Climb
<1>3. at \in DOMAIN order /\ b \in Block
  BY <1>1, <1>2, LenProperties, ElementOfSeq DEF TypeOK, DoneUpTo
<1>4. /\ finger1 \in Block /\ finger2 \in Block
      /\ doms[finger1] # None /\ doms[finger2] # None
      /\ b # Entry /\ todo \subseteq Preds(b)
      /\ \A d \in Block : StrictlyDominates(d, b) =>
           Dominates(d, finger1) /\ Dominates(d, finger2)
      /\ \A q \in Preds(b) \ todo : doms[q] # None =>
           OnChain(finger1, q) \/ OnChain(finger2, q)
  BY <1>1, <1>2 DEF TypeOK, Candidate, Candidates, Above
<1>5. Numbered' /\ AllNumbered' /\ Coming' /\ DomsTree' /\ Stable'
  BY <1>1, <1>2, NumberedFrame, DomsTreeFrame, StableFrame
<1>6. DoneUpTo'
  BY <1>1, <1>2, <1>3 DEF DoneUpTo, Solved, numbering
<1>7. FrontiersSound' /\ FrontiersComplete'
  BY <1>1, <1>2, SolvingFrame DEF Solved
<1>8. b' = b
  BY <1>2 DEF numbering
<1>9. poidx[finger1] \in Int /\ poidx[finger2] \in Int
  BY <1>1, <1>4 DEF TypeOK
<1>10. /\ finger1' \in Block /\ finger2' \in Block
       /\ doms[finger1'] # None /\ doms[finger2'] # None
       /\ \A d \in Block : StrictlyDominates(d, b) =>
            Dominates(d, finger1') /\ Dominates(d, finger2')
       /\ \A q : OnChain(finger1, q) => OnChain(finger1', q)
       /\ \A q : OnChain(finger2, q) => OnChain(finger2', q)
  <2>1. CASE poidx[finger1] > poidx[finger2]
    BY <1>1, <1>2, <1>4, <2>1, ClimbingKeepsDominators, ChainStep
  <2>2. CASE ~(poidx[finger1] > poidx[finger2])
    <3>1. poidx[finger2] > poidx[finger1]
      BY <1>1, <1>2, <1>4, <1>9, <2>2, OrderIsOneToOne
    <3> QED
      BY <1>1, <1>2, <1>4, <2>2, <3>1, ClimbingKeepsDominators, ChainStep
  <2> QED
    BY <2>1, <2>2
<1>11. TypeOK'
  BY <1>1, <1>2, <1>10 DEF TypeOK, numbering
<1> HIDE DEF b
<1>12. Candidates' = {finger1', finger2'}
  BY <1>2 DEF Candidates
<1>13. ASSUME NEW q \in Preds(b) \ todo, doms[q] # None PROVE Above(q)'
  <2>1. OnChain(finger1', q) \/ OnChain(finger2', q)
    BY <1>4, <1>10, <1>13
  <2>2. OnChain(finger1, q)' \/ OnChain(finger2, q)'
    BY <1>2, <2>1 DEF OnChain
  <2> QED
    BY <1>2, <2>2 DEF Above
<1>14. Candidate'
  BY <1>2, <1>4, <1>8, <1>10, <1>12, <1>13, GraphFrame DEF Candidate, b
<1> QED
  BY <1>5, <1>6, <1>7, <1>11, <1>14 DEF IInv

\* The fingers meet.
LEMMA MeetIInv == IInv /\ Meet => IInv'
<1> SUFFICES ASSUME IInv, Meet PROVE IInv'
  OBVIOUS
<1> DEFINE b == order[at]
<1>1. /\ TypeOK /\ Numbered /\ AllNumbered /\ DomsTree /\ DoneUpTo /\ Stable
      /\ Candidate /\ FrontiersSound
  BY DEF IInv
<1>2. /\ phase = "Intersect" /\ phase' = "Pred" /\ finger1 = finger2
      /\ newIdom' = finger1
      /\ UNCHANGED <<succ, numbering, doms, frontiers, domt, changed, at, cur,
                     todo, finger1, finger2>>
  BY DEF Meet
<1>3. at \in DOMAIN order /\ finger1 \in Block
  BY <1>1, <1>2 DEF TypeOK, DoneUpTo
<1>4. TypeOK'
  BY <1>1, <1>2, <1>3 DEF TypeOK, numbering
<1>5. Numbered' /\ AllNumbered' /\ Coming' /\ DomsTree' /\ Stable'
  BY <1>1, <1>2, NumberedFrame, DomsTreeFrame, StableFrame
<1>6. DoneUpTo'
  BY <1>1, <1>2, <1>3 DEF DoneUpTo, Solved, numbering
<1>7. FrontiersSound' /\ FrontiersComplete'
  BY <1>1, <1>2, SolvingFrame DEF Solved
<1>8. b' = b
  BY <1>2 DEF numbering
<1>9. Candidates = {finger1} /\ Candidates' = {finger1}
  BY <1>2, <1>3, EntryIsBlock DEF Candidates
<1> HIDE DEF b
<1>10. ASSUME NEW q \in Preds(b) \ todo, doms[q] # None PROVE Above(q)'
  <2>1. OnChain(finger1, q)
    BY <1>1, <1>2, <1>10 DEF Candidate, Above, b
  <2>2. OnChain(newIdom, q)'
    BY <1>2, <2>1 DEF OnChain
  <2> QED
    BY <1>2, <2>2 DEF Above
<1>11. Candidate'
  BY <1>1, <1>2, <1>8, <1>9, <1>10, GraphFrame DEF Candidate, b
<1> QED
  BY <1>4, <1>5, <1>6, <1>7, <1>11 DEF IInv

\* The block gets the dominator they met at.
LEMMA SetIdomIInv == IInv /\ SetIdom => IInv'
<1> SUFFICES ASSUME IInv, SetIdom PROVE IInv'
  OBVIOUS
<1> DEFINE b == order[at]
<1>1. /\ TypeOK /\ Numbered /\ AllNumbered /\ DomsTree /\ DoneUpTo /\ Stable
      /\ Candidate /\ FrontiersSound
  BY DEF IInv
<1>2. /\ phase = "Pred" /\ phase' = "Block" /\ todo = {}
      /\ at' = at + 1
      /\ UNCHANGED <<succ, numbering, frontiers, domt, newIdom, finger2, cur,
                     todo, finger1>>
  BY DEF SetIdom
<1>3. /\ IF newIdom # None /\ doms[order[at]] # newIdom
           THEN doms' = [doms EXCEPT ![order[at]] = newIdom] /\ changed' = TRUE
           ELSE doms' = doms /\ changed' = changed
  BY DEF SetIdom
<1>4. /\ at \in DOMAIN order /\ b \in Block /\ at \in Nat /\ poidx[b] = at - 1
      /\ DOMAIN order = 1..Len(order) /\ Len(order) \in Nat
  BY <1>1, <1>2, LenProperties, ElementOfSeq DEF TypeOK, DoneUpTo, Numbered
<1>5. newIdom # None => /\ newIdom \in Block
                        /\ b # Entry
                        /\ doms[newIdom] # None
                        /\ \A d \in Block :
                             StrictlyDominates(d, b) => Dominates(d, newIdom)
  BY <1>1, <1>2 DEF Candidate, Candidates, TypeOK
<1>6. \A p \in Preds(b) : doms[p] # None => OnChain(newIdom, p)
  BY <1>1, <1>2 DEF Candidate, Above
<1> HIDE DEF b
(* A block but the entry block gets a dominator with a lower number.       *)
<1>8. b # Entry => newIdom # None /\ poidx[newIdom] < poidx[b]
  <2> SUFFICES ASSUME b # Entry
               PROVE  newIdom # None /\ poidx[newIdom] < poidx[b]
    OBVIOUS
  <2>1. PICK p \in Preds(b) : poidx[p] < poidx[b]
    BY <1>1, <1>2, <1>4, LowerPred
  <2>2. p \in Block
    BY DEF Preds
  <2>3. PICK j \in DOMAIN order : order[j] = p /\ poidx[p] = j - 1
    BY <1>1, <1>2, <2>2, OrderIsOneToOne
  <2>4. j < at
    BY <1>4, <2>1, <2>3
  <2>5. doms[p] # None
    BY <1>1, <1>2, <2>3, <2>4 DEF DoneUpTo
  <2>6. OnChain(newIdom, p)
    BY <1>6, <2>5
  <2>7. newIdom \in Block
    BY <1>1, <2>2, <2>6, ChainOfBlocks DEF TypeOK
  <2>8. poidx[newIdom] <= poidx[p]
    BY <1>1, <1>2, <2>2, <2>6, <2>7, ChainIsLower
  <2>9. poidx[newIdom] \in Nat /\ poidx[p] \in Nat /\ poidx[b] \in Nat
    BY <1>1, <1>4, <2>2, <2>7 DEF TypeOK
  <2> QED
    BY <2>1, <2>7, <2>8, <2>9, EntryIsBlock
(* Whatever the branch, doms holds newIdom for such a block afterwards.    *)
<1>9. /\ doms' \in [Block -> Block \union {None}]
      /\ b # Entry => doms'[b] = newIdom
      /\ b = Entry => doms' = doms /\ changed' = changed
      /\ \A c \in Block : c # b => doms'[c] = doms[c]
      /\ doms' # doms => changed' = TRUE
      /\ changed' \in BOOLEAN
      /\ ~changed' => doms' = doms /\ ~changed
  <2>1. doms \in [Block -> Block \union {None}] /\ changed \in BOOLEAN
    BY <1>1 DEF TypeOK
  <2>2. CASE newIdom # None /\ doms[b] # newIdom
    <3>1. doms' = [doms EXCEPT ![b] = newIdom] /\ changed' = TRUE
      BY <1>3, <2>2 DEF b
    <3> QED
      BY <1>4, <1>5, <2>1, <2>2, <3>1
  <2>3. CASE ~(newIdom # None /\ doms[b] # newIdom)
    <3>1. doms' = doms /\ changed' = changed
      BY <1>3, <2>3 DEF b
    <3> QED
      BY <1>4, <1>8, <2>1, <2>3, <3>1
  <2> QED
    BY <2>2, <2>3
<1>10. \A c \in Block : doms[c] # None => doms'[c] # None
  BY <1>8, <1>9
<1>11. TypeOK'
  <2>1. at' \in Nat \ {0} /\ phase' \in {"Block"}
    BY <1>1, <1>2, <1>4 DEF TypeOK
  <2>2. doms' \in [Block -> Block \union {None}] /\ changed' \in BOOLEAN
    BY <1>9
  <2>3. /\ succ' = succ /\ queue' = queue /\ order' = order
        /\ poidx' = poidx /\ frontiers' = frontiers /\ domt' = domt
        /\ newIdom' = newIdom /\ finger1' = finger1 /\ finger2' = finger2
        /\ cur' = cur /\ todo' = todo
    BY <1>2 DEF numbering
  <2> QED
    BY <1>1, <2>1, <2>2, <2>3 DEF TypeOK
<1>12. Numbered' /\ AllNumbered' /\ Coming'
  BY <1>1, <1>2, NumberedFrame
<1>13. DomsTree'
  <2>1. doms'[Entry] = Entry
    BY <1>1, <1>2, <1>9, EntryIsBlock DEF DomsTree
  <2>2. ASSUME NEW c \in Block \ {Entry}, doms'[c] # None
        PROVE  /\ doms'[doms'[c]] # None
               /\ poidx[doms'[c]] < poidx[c]
               /\ \A d \in Block : StrictlyDominates(d, c) => Dominates(d, doms'[c])
    <3>1. CASE c = b
      <4>1. doms'[c] = newIdom /\ newIdom # None /\ newIdom \in Block
        BY <1>5, <1>8, <1>9, <2>2, <3>1
      <4>2. doms'[newIdom] # None
        BY <1>5, <1>10, <4>1
      <4> QED
        BY <1>5, <1>8, <2>2, <3>1, <4>1, <4>2
    <3>2. CASE c # b
      <4>1. doms'[c] = doms[c] /\ doms[c] \in Block /\ doms[c] # None
        BY <1>1, <1>9, <2>2, <3>2 DEF TypeOK
      <4> QED
        BY <1>1, <1>2, <1>10, <2>2, <4>1 DEF DomsTree
    <3> QED
      BY <3>1, <3>2
  <2> QED
    BY <1>2, <2>1, <2>2, GraphFrame DEF DomsTree, numbering
<1>14. DoneUpTo'
  <2>1. ASSUME NEW i \in DOMAIN order, i < at + 1 PROVE doms'[order[i]] # None
    <3>1. order[i] \in Block /\ i \in Nat
      BY <1>1, <1>4, ElementOfSeq DEF TypeOK
    <3>2. CASE i = at
      <4>1. order[i] = b
        BY <3>2 DEF b
      <4>2. CASE b = Entry
        BY <1>1, <1>2, <1>9, <4>1, <4>2, EntryIsBlock DEF DomsTree
      <4>3. CASE b # Entry
        BY <1>8, <1>9, <4>1, <4>3
      <4> QED
        BY <4>2, <4>3
    <3>3. CASE i # at
      <4>1. i < at
        BY <1>4, <2>1, <3>1, <3>3
      <4> QED
        BY <1>1, <1>2, <1>10, <3>1, <4>1 DEF DoneUpTo
    <3> QED
      BY <3>2, <3>3
  <2> QED
    BY <1>2, <2>1 DEF DoneUpTo, Solved, numbering
<1>15. Candidate'
  BY <1>2 DEF Candidate
<1>16. Stable'
  <2> SUFFICES ASSUME ~changed',
                      NEW i \in DOMAIN order, i < at + 1,
                      NEW p \in Preds(order[i]), doms[p] # None
               PROVE  OnChain(doms[order[i]], p)
    <3>1. ~changed' => doms' = doms
      BY <1>9
    <3> QED
      BY <1>2, <3>1, GraphFrame, ChainFrame DEF Stable, numbering
  <2>1. i \in Nat /\ doms' = doms /\ ~changed
    BY <1>4, <1>9
  <2>2. CASE i = at
    <3>1. order[i] = b
      BY <2>2 DEF b
    <3>2. b # Entry
      BY <1>1, <3>1, GraphType DEF TypeOK
    <3> QED
      BY <1>6, <1>9, <2>1, <3>1, <3>2
  <2>3. CASE i # at
    <3>1. i < at
      BY <1>4, <2>1, <2>3
    <3> QED
      BY <1>1, <1>2, <2>1, <3>1 DEF Stable
  <2> QED
    BY <2>2, <2>3
<1>17. FrontiersSound' /\ FrontiersComplete'
  BY <1>1, <1>2, SolvingFrame DEF Solved
<1> QED
  BY <1>11, <1>12, <1>13, <1>14, <1>15, <1>16, <1>17 DEF IInv

\* All blocks were visited: once more if one has changed.
LEMMA EndTurnIInv == IInv /\ EndTurn => IInv'
<1> SUFFICES ASSUME IInv, EndTurn PROVE IInv'
  OBVIOUS
<1>1. /\ TypeOK /\ Numbered /\ AllNumbered /\ DomsTree /\ DoneUpTo /\ Stable
      /\ FrontiersSound
  BY DEF IInv
<1>2. /\ phase = "Block" /\ at > Len(order) /\ cur' = 1
      /\ UNCHANGED <<succ, numbering, doms, frontiers, domt, newIdom, finger2,
                     todo, finger1>>
      /\ IF changed THEN at' = 1 /\ changed' = FALSE /\ phase' = "Block"
                    ELSE phase' = "Frontier" /\ at' = at /\ changed' = changed
  BY DEF EndTurn
<1>3. DOMAIN order = 1..Len(order) /\ Len(order) \in Nat
  BY <1>1, LenProperties DEF TypeOK
<1>4. /\ cur' \in Nat \ {0} /\ at' \in Nat \ {0} /\ changed' \in BOOLEAN
      /\ phase' \in {"Block", "Frontier"}
  <2>1. at \in Nat \ {0} /\ 1 \in Nat \ {0} /\ FALSE \in BOOLEAN
    BY <1>1 DEF TypeOK
  <2>2. CASE changed
    <3>1. at' = 1 /\ changed' = FALSE /\ phase' = "Block" /\ cur' = 1
      BY <1>2, <2>2
    <3> QED
      BY <2>1, <3>1, Zenon
  <2>3. CASE ~changed
    <3>1. at' = at /\ changed' = changed /\ phase' = "Frontier" /\ cur' = 1
      BY <1>2, <2>3
    <3>2. changed \in BOOLEAN
      BY <1>1 DEF TypeOK
    <3> QED
      BY <2>1, <3>1, <3>2, Zenon
  <2> QED
    BY <2>2, <2>3
<1>5. TypeOK'
  BY <1>1, <1>2, <1>4 DEF TypeOK, numbering
<1>6. Numbered' /\ AllNumbered' /\ Coming' /\ DomsTree'
  BY <1>1, <1>2, <1>4, NumberedFrame, DomsTreeFrame
<1>7. Candidate'
  BY <1>4 DEF Candidate
<1>8. FrontiersSound'
  BY <1>1, <1>2, FrontiersSoundFrame
<1>9. FrontiersComplete'
  <2>1. \A y \in Block : ~(y < cur')
    BY <1>2 DEF Block
  <2> QED
    BY <1>4, <2>1 DEF FrontiersComplete
<1>10. CASE changed
  <2>1. at' = 1 /\ phase' = "Block"
    BY <1>2, <1>10
  <2>2. \A i \in DOMAIN order : ~(i < at')
    BY <1>3, <2>1
  <2>3. order' = order
    BY <1>2 DEF numbering
  <2>4. DoneUpTo' /\ Stable'
    BY <2>1, <2>2, <2>3 DEF DoneUpTo, Stable, Solved
  <2> QED
    BY <1>5, <1>6, <1>7, <1>8, <1>9, <2>4 DEF IInv
<1>11. CASE ~changed
  <2>1. at' = at /\ changed' = changed /\ phase' = "Frontier"
    BY <1>2, <1>11
  <2>2. Stable'
    BY <1>1, <1>2, <2>1, StableFrame
  <2>3. DoneUpTo'
    BY <1>1, <1>2, <1>11, <2>1 DEF DoneUpTo, Solved, numbering
  <2> QED
    BY <1>5, <1>6, <1>7, <1>8, <1>9, <2>2, <2>3 DEF IInv
<1> QED
  BY <1>10, <1>11

-----------------------------------------------------------------------------
(* When computeDominators() has returned, doms is the dominator tree: the   *)
(* blocks whose chain does not hold doms[b] are closed under the edges that *)
(* avoid doms[b].                                                           *)
LEMMA SolvedIdoms ==
  ASSUME TypeOK, Numbered, AllNumbered, DomsTree, DoneUpTo, Stable, Solved
  PROVE  /\ doms \in [Block -> Block]
         /\ doms[Entry] = Entry
         /\ \A b \in Block \ {Entry} :
              /\ StrictlyDominates(doms[b], b)
              /\ poidx[doms[b]] < poidx[b]
              /\ \A d \in Block : StrictlyDominates(d, b) => Dominates(d, doms[b])
<1>1. /\ phase # "Number" /\ ~changed /\ at > Len(order)
      /\ doms \in [Block -> Block \union {None}]
  BY DEF Solved, DoneUpTo, TypeOK
<1>2. \A i \in DOMAIN order : i < at
  BY <1>1, LenProperties DEF TypeOK
<1>3. \A b \in Block : doms[b] # None
  BY <1>1, <1>2 DEF DoneUpTo, AllNumbered
<1>4. \A b \in Block : \A p \in Preds(b) : OnChain(doms[b], p)
  <2> TAKE b \in Block
  <2>1. PICK i \in DOMAIN order : order[i] = b
    BY <1>1 DEF AllNumbered
  <2> QED
    BY <1>1, <1>2, <1>3, <2>1 DEF Stable, Preds
<1>5. doms \in [Block -> Block] /\ doms[Entry] = Entry
  BY <1>1, <1>3 DEF DomsTree
<1>6. ASSUME NEW b \in Block \ {Entry} PROVE Dominates(doms[b], b)
  <2> DEFINE a == doms[b]
             T == {x \in Block : ~OnChain(a, x)}
  <2>1. a \in Block /\ OnChain(a, b)
    BY <1>3, <1>5, <1>6, ChainSelf, ChainStep
  <2>2. Entry # a => Entry \in T
    BY <1>5, EntryIsBlock, ChainOfEntry
  <2>3. ASSUME NEW x \in T, NEW i \in DOMAIN succ[x], succ[x][i] # a
        PROVE  succ[x][i] \in T
    <3> DEFINE s == succ[x][i]
    <3>1. s \in Succs(x) /\ x \in Block
      BY DEF Succs
    <3>2. s \in Block /\ x \in Preds(s)
      BY <3>1, GraphType DEF TypeOK, Preds
    <3> HIDE DEF s
    <3>3. SUFFICES ASSUME OnChain(a, s) PROVE FALSE
      BY <3>2 DEF s
    <3>4. OnChain(a, doms[s])
      BY <1>1, <1>3, <2>1, <2>3, <3>2, <3>3, ChainAbove DEF s
    <3>5. OnChain(doms[s], x)
      BY <1>4, <3>2
    <3>6. OnChain(a, x)
      BY <3>4, <3>5, ChainTransitive
    <3> QED
      BY <3>6
  <2>4. Closed(succ, a, T)
    BY <2>2, <2>3 DEF Closed
  <2>5. T \in SUBSET Block /\ b \notin T
    BY <2>1
  <2> HIDE DEF T
  <2> QED
    BY <2>4, <2>5 DEF Dominates
<1>7. ASSUME NEW b \in Block \ {Entry}
      PROVE  /\ poidx[doms[b]] < poidx[b]
             /\ doms[b] # b
             /\ \A d \in Block : StrictlyDominates(d, b) => Dominates(d, doms[b])
  <2>1. poidx[doms[b]] < poidx[b]
        /\ \A d \in Block : StrictlyDominates(d, b) => Dominates(d, doms[b])
    BY <1>1, <1>3 DEF DomsTree
  <2>2. poidx[b] \in Nat
    BY DEF TypeOK
  <2> QED
    BY <2>1, <2>2
<1> QED
  BY <1>5, <1>6, <1>7 DEF StrictlyDominates

\* A block dominates itself.
LEMMA DominatesSelf ==
  ASSUME succ \in CFGs, NEW b \in Block
  PROVE  Dominates(b, b)
<1> DEFINE T == Block \ {b}
<1>1. \A x \in Block : \A i \in DOMAIN succ[x] : succ[x][i] \in Block
  BY GraphType DEF Succs
<1>2. Closed(succ, b, T)
  BY <1>1, EntryIsBlock DEF Closed
<1> QED
  BY <1>2 DEF Dominates

(* A block with one predecessor joins nothing.                             *)
LEMMA OnePredecessor ==
  ASSUME TypeOK, Numbered, AllNumbered, phase # "Number",
         NEW y \in Block, Cardinality(Preds(y)) < 2, NEW x \in Block
  PROVE  ~InFrontier(y, x)
<1> SUFFICES ASSUME ~StrictlyDominates(x, y),
                    NEW p \in Preds(y), Dominates(x, p)
             PROVE  FALSE
  BY DEF InFrontier
<1>1. Preds(y) \subseteq Block /\ Preds(Entry) = {} /\ succ \in CFGs
  BY GraphType DEF TypeOK
<1>2. IsFiniteSet(Preds(y))
  <2>1. IsFiniteSet(Block)
    BY FS_Interval DEF Block
  <2> QED
    BY <1>1, <2>1, FS_Subset
<1>3. \A q \in Preds(y) : q = p
  <2> SUFFICES ASSUME NEW q \in Preds(y), q # p PROVE FALSE
    OBVIOUS
  <2> DEFINE S == {p}
  <2>1. IsFiniteSet(S) /\ Cardinality(S) = 1
    BY FS_Singleton
  <2>2. q \notin S /\ S \union {q} \in SUBSET Preds(y)
    OBVIOUS
  <2> HIDE DEF S
  <2>3. Cardinality(S \union {q}) = 2
    <3>1. Cardinality(S \union {q}) = Cardinality(S) + 1
      BY <2>1, <2>2, FS_AddElement
    <3> QED
      BY <2>1, <3>1
  <2>4. Cardinality(S \union {q}) <= Cardinality(Preds(y))
    BY <1>2, <2>2, FS_Subset
  <2>5. Cardinality(Preds(y)) \in Nat
    BY <1>2, FS_CardinalityType
  <2> QED
    BY <2>3, <2>4, <2>5
<1>4. y # Entry
  BY <1>1
<1>5. poidx[p] < poidx[y]
  BY <1>3, <1>4, LowerPred
<1>6. x # y
  <2> SUFFICES ASSUME x = y PROVE FALSE
    OBVIOUS
  <2>1. poidx[y] <= poidx[p] /\ p \in Block
    BY <1>1, DominatorIsLower
  <2> QED
    BY <1>5, <2>1 DEF TypeOK
<1>7. PICK T \in SUBSET Block : Closed(succ, x, T) /\ p \notin T
  BY DEF Dominates
<1>8. Closed(succ, x, T \ {y})
  <2>1. ASSUME NEW b \in T, NEW i \in DOMAIN succ[b], succ[b][i] = y
        PROVE  FALSE
    <3>1. b \in Preds(y)
      BY <1>7, <2>1 DEF Preds, Succs
    <3> QED
      BY <1>3, <1>7, <3>1
  <2> QED
    BY <1>4, <1>7, <2>1 DEF Closed
<1>9. Dominates(x, y)
  <2> DEFINE U == T \ {y}
  <2>1. U \in SUBSET Block /\ y \notin U /\ Closed(succ, x, U)
    BY <1>8
  <2> HIDE DEF U
  <2> QED
    BY <2>1 DEF Dominates
<1> QED
  BY <1>6, <1>9 DEF StrictlyDominates

-----------------------------------------------------------------------------
(* What computeFrontiers() leaves as it is.                                *)
LEMMA SolvedFrame ==
  ASSUME IInv, Solved, Solved', phase' # "Number",
         UNCHANGED <<succ, numbering, doms, solving>>
  PROVE  /\ Numbered' /\ AllNumbered' /\ Coming' /\ DomsTree'
         /\ DoneUpTo' /\ Candidate' /\ Stable'
<1>1. /\ Numbered /\ AllNumbered /\ DomsTree /\ DoneUpTo /\ Stable
      /\ phase \notin {"Number", "Pred", "Intersect"}
      /\ phase' \notin {"Number", "Pred", "Intersect"}
  BY DEF IInv, Solved
<1>2. at' = at /\ changed' = changed /\ order' = order
  BY DEF solving, numbering
<1>3. Numbered' /\ AllNumbered' /\ Coming' /\ DomsTree' /\ Stable'
  BY <1>1, <1>2, NumberedFrame, DomsTreeFrame, StableFrame
<1>4. Candidate'
  BY <1>1 DEF Candidate
<1>5. DoneUpTo'
  BY <1>1, <1>2 DEF DoneUpTo
<1> QED
  BY <1>3, <1>4, <1>5

\* The frontiers: a block with several predecessors.
LEMMA VisitJoinIInv == IInv /\ VisitJoin => IInv'
<1> SUFFICES ASSUME IInv, VisitJoin PROVE IInv'
  OBVIOUS
<1>1. /\ TypeOK /\ Numbered /\ AllNumbered /\ FrontiersSound
      /\ FrontiersComplete
  BY DEF IInv
<1>2. /\ phase = "Frontier" /\ cur <= NBlock
      /\ UNCHANGED <<succ, numbering, doms, frontiers, domt, solving, finger1>>
      /\ IF Cardinality(Preds(cur)) < 2
           THEN cur' = cur + 1 /\ todo' = todo /\ phase' = "Frontier"
           ELSE todo' = Preds(cur) /\ phase' = "Join" /\ cur' = cur
  BY DEF VisitJoin
<1>3. Solved /\ Solved' /\ phase' # "Number"
  BY <1>2 DEF Solved
<1>4. cur \in Block /\ cur \in Nat \ {0} /\ cur + 1 \in Nat \ {0}
  BY <1>1, <1>2 DEF TypeOK, Block
<1>5. Preds(cur) \subseteq Block /\ (Preds(cur) # {} => cur # Entry)
  BY <1>1, <1>4, GraphType DEF TypeOK
<1>6. TypeOK'
  <2>1. cur' \in Nat \ {0} /\ todo' \subseteq Block
        /\ phase' \in {"Frontier", "Join"}
    BY <1>1, <1>2, <1>4, <1>5 DEF TypeOK
  <2> QED
    BY <1>1, <1>2, <2>1 DEF TypeOK, numbering, solving
<1>7. /\ Numbered' /\ AllNumbered' /\ Coming' /\ DomsTree' /\ DoneUpTo'
      /\ Candidate' /\ Stable'
  BY <1>2, <1>3, SolvedFrame
<1>8. FrontiersSound'
  BY <1>1, <1>2, FrontiersSoundFrame
<1>9. \A y \in Block : y < cur =>
        \A x \in Block : InFrontier(y, x) => y \in frontiers[x]
  BY <1>1, <1>3 DEF FrontiersComplete
<1>10. CASE Cardinality(Preds(cur)) < 2
  <2>1. cur' = cur + 1 /\ phase' = "Frontier"
    BY <1>2, <1>10
  <2>2. ASSUME NEW y \in Block, y < cur + 1, NEW x \in Block, InFrontier(y, x)
        PROVE  y \in frontiers[x]
    <3>1. y # cur
      BY <1>1, <1>2, <1>4, <1>10, <2>2, OnePredecessor
    <3>2. y < cur
      BY <1>4, <2>2, <3>1 DEF Block
    <3> QED
      BY <1>9, <2>2, <3>2
  <2>3. FrontiersComplete'
    BY <1>2, <2>1, <2>2, GraphFrame DEF FrontiersComplete
  <2> QED
    BY <1>6, <1>7, <1>8, <2>3 DEF IInv
<1>11. CASE ~(Cardinality(Preds(cur)) < 2)
  <2>1. todo' = Preds(cur) /\ phase' = "Join" /\ cur' = cur
    BY <1>2, <1>11
  <2>2. cur # Entry
    <3>1. Cardinality({}) < 2
      BY FS_EmptySet
    <3>2. Preds(cur) # {}
      BY <1>11, <3>1
    <3> QED
      BY <1>5, <3>2
  <2>3. FrontiersComplete'
    BY <1>2, <1>4, <1>9, <2>1, <2>2, GraphFrame DEF FrontiersComplete
  <2> QED
    BY <1>6, <1>7, <1>8, <2>3 DEF IInv
<1> QED
  BY <1>10, <1>11

\* A runner starts at a predecessor.
LEMMA StartRunnerIInv ==
  ASSUME IInv, NEW p \in Block, StartRunner(p)
  PROVE  IInv'
<1>1. /\ TypeOK /\ Numbered /\ AllNumbered /\ DomsTree /\ DoneUpTo /\ Stable
      /\ FrontiersSound /\ FrontiersComplete
  BY DEF IInv
<1>2. /\ phase = "Join" /\ phase' = "Run" /\ p \in todo
      /\ todo' = todo \ {p} /\ finger1' = p
      /\ UNCHANGED <<succ, numbering, doms, frontiers, domt, solving, cur>>
  BY DEF StartRunner
<1>3. Solved /\ Solved' /\ phase' # "Number"
  BY <1>2 DEF Solved
<1>4. /\ \A y \in Block : y < cur =>
           \A x \in Block : InFrontier(y, x) => y \in frontiers[x]
      /\ cur \in Block \ {Entry}
      /\ todo \subseteq Preds(cur)
      /\ \A q \in Preds(cur) \ todo : \A x \in Block :
           Dominates(x, q) /\ ~StrictlyDominates(x, cur) => cur \in frontiers[x]
  BY <1>1, <1>2, <1>3 DEF FrontiersComplete
<1>5. TypeOK'
  BY <1>1, <1>2 DEF TypeOK, numbering, solving
<1>6. /\ Numbered' /\ AllNumbered' /\ Coming' /\ DomsTree' /\ DoneUpTo'
      /\ Candidate' /\ Stable'
  BY <1>2, <1>3, SolvedFrame
<1>7. FrontiersSound'
  BY <1>1, <1>2, FrontiersSoundFrame
<1>8. p \in Preds(cur) /\ succ \in CFGs
  BY <1>1, <1>2, <1>4 DEF TypeOK
<1>9. Dominates(doms[cur], p)
  <2>1. StrictlyDominates(doms[cur], cur) /\ doms[cur] \in Block
    BY <1>1, <1>3, <1>4, SolvedIdoms
  <2> QED
    BY <1>4, <1>8, <2>1, DominatesPreds
<1>10. Dominates(p, p)
  BY <1>8, DominatesSelf
<1>11. FrontiersComplete'
  <2>1. \A q \in Preds(cur) \ (todo \ {p}) : \A x \in Block :
          Dominates(x, q) /\ ~StrictlyDominates(x, cur) =>
            cur \in frontiers[x] \/ Dominates(x, p)
    BY <1>4
  <2> QED
    BY <1>2, <1>4, <1>8, <1>9, <1>10, <2>1, GraphFrame DEF FrontiersComplete
<1> QED
  BY <1>5, <1>6, <1>7, <1>11 DEF IInv

\* The runner climbs to the dominator of the block.
LEMMA RunIInv == IInv /\ Run => IInv'
<1> SUFFICES ASSUME IInv, Run PROVE IInv'
  OBVIOUS
<1> DEFINE a == doms[cur]
           r == doms[finger1]
<1>1. /\ TypeOK /\ Numbered /\ AllNumbered /\ DomsTree /\ DoneUpTo /\ Stable
      /\ FrontiersSound /\ FrontiersComplete
  BY DEF IInv
<1>2. /\ phase = "Run"
      /\ UNCHANGED <<succ, numbering, doms, domt, solving, cur, todo>>
      /\ IF finger1 # doms[cur]
           THEN /\ frontiers' = [frontiers EXCEPT ![finger1] = @ \union {cur}]
                /\ finger1' = doms[finger1] /\ phase' = "Run"
           ELSE phase' = "Join" /\ frontiers' = frontiers /\ finger1' = finger1
  BY DEF Run
<1>3. Solved /\ Solved' /\ phase' # "Number" /\ phase' \in {"Run", "Join"}
  BY <1>2 DEF Solved
<1>4. /\ \A y \in Block : y < cur =>
           \A x \in Block : InFrontier(y, x) => y \in frontiers[x]
      /\ cur \in Block \ {Entry}
      /\ todo \subseteq Preds(cur)
      /\ \A q \in Preds(cur) \ todo : \A x \in Block :
           Dominates(x, q) /\ ~StrictlyDominates(x, cur) =>
             cur \in frontiers[x] \/ Dominates(x, finger1)
      /\ Dominates(a, finger1)
      /\ \E p \in Preds(cur) : Dominates(finger1, p)
  BY <1>1, <1>2, <1>3 DEF FrontiersComplete
<1>5. /\ finger1 \in Block /\ succ \in CFGs
      /\ frontiers \in [Block -> SUBSET Block]
  BY <1>1 DEF TypeOK
<1>6. /\ doms \in [Block -> Block]
      /\ \A b \in Block \ {Entry} :
           /\ StrictlyDominates(doms[b], b)
           /\ poidx[doms[b]] < poidx[b]
           /\ \A d \in Block : StrictlyDominates(d, b) => Dominates(d, doms[b])
  BY <1>1, <1>3, SolvedIdoms
<1>7. a \in Block /\ r \in Block
  BY <1>4, <1>5, <1>6
<1>8. /\ Numbered' /\ AllNumbered' /\ Coming' /\ DomsTree' /\ DoneUpTo'
      /\ Candidate' /\ Stable'
  BY <1>2, <1>3, SolvedFrame
<1>9. \A x \in Block : poidx[x] \in Nat
  BY <1>1 DEF TypeOK
<1>10. CASE finger1 = a
  <2>1. phase' = "Join" /\ frontiers' = frontiers /\ finger1' = finger1
    BY <1>2, <1>10
  <2>2. TypeOK'
    BY <1>1, <1>2, <2>1 DEF TypeOK, numbering, solving
  <2>3. FrontiersSound'
    BY <1>1, <1>2, <2>1, FrontiersSoundFrame
  <2>4. ASSUME NEW x \in Block, Dominates(x, finger1)
        PROVE  StrictlyDominates(x, cur)
    <3>1. StrictlyDominates(a, cur) /\ poidx[a] < poidx[cur]
      BY <1>4, <1>6
    <3>2. Dominates(x, cur)
      BY <1>4, <1>7, <1>10, <2>4, <3>1, DominatesTransitive DEF StrictlyDominates
    <3>3. poidx[x] <= poidx[a]
      BY <1>1, <1>3, <1>2, <1>7, <1>10, <2>4, DominatorIsLower
    <3>4. x # cur
      BY <1>4, <1>7, <1>9, <3>1, <3>3
    <3> QED
      BY <3>2, <3>4 DEF StrictlyDominates
  <2> HIDE DEF a, r
  <2>5. FrontiersComplete'
    BY <1>2, <1>4, <2>1, <2>4, GraphFrame DEF FrontiersComplete
  <2> QED
    BY <1>8, <2>2, <2>3, <2>5 DEF IInv
<1>11. CASE finger1 # a
  <2>1. /\ frontiers' = [frontiers EXCEPT ![finger1] = @ \union {cur}]
        /\ finger1' = r /\ phase' = "Run"
    BY <1>2, <1>11
  <2>2. /\ frontiers' \in [Block -> SUBSET Block]
        /\ \A x \in Block : frontiers[x] \subseteq frontiers'[x]
        /\ cur \in frontiers'[finger1]
        /\ \A x \in Block : \A y \in frontiers'[x] :
             y \in frontiers[x] \/ (x = finger1 /\ y = cur)
    BY <1>4, <1>5, <2>1
  <2>3. TypeOK'
    <3>1. finger1' \in Block
      BY <1>7, <2>1
    <3>2. phase' \in {"Run"}
      BY <2>1
    <3> QED
      BY <1>1, <1>2, <2>2, <3>1, <3>2 DEF TypeOK, numbering, solving
  <2>4. StrictlyDominates(a, finger1)
    BY <1>4, <1>11 DEF StrictlyDominates
  <2>5. finger1 # Entry
    BY <1>4, <1>7, <1>11, DominatesEntry
  <2>6. ~StrictlyDominates(finger1, cur)
    <3> SUFFICES ASSUME StrictlyDominates(finger1, cur) PROVE FALSE
      OBVIOUS
    <3>1. Dominates(finger1, a)
      BY <1>4, <1>5, <1>6
    <3>2. poidx[finger1] <= poidx[a] /\ poidx[a] <= poidx[finger1]
      BY <1>1, <1>2, <1>4, <1>5, <1>7, <3>1, DominatorIsLower
    <3>3. poidx[finger1] = poidx[a]
      BY <1>5, <1>7, <1>9, <3>2
    <3> QED
      BY <1>1, <1>2, <1>5, <1>7, <1>11, <3>3, OrderIsOneToOne
  <2>7. InFrontier(cur, finger1)
    BY <1>4, <2>6 DEF InFrontier
  <2> HIDE DEF a, r
  <2>8. FrontiersSound'
    BY <1>1, <1>2, <2>2, <2>7, GraphFrame DEF FrontiersSound
  <2>9. ASSUME NEW x \in Block, Dominates(x, finger1)
        PROVE  cur \in frontiers'[x] \/ Dominates(x, r)
    <3>1. CASE x = finger1
      BY <2>2, <3>1
    <3>2. CASE x # finger1
      BY <1>5, <1>6, <2>5, <2>9, <3>2 DEF StrictlyDominates, r
    <3> QED
      BY <3>1, <3>2
  <2>10. Dominates(a, r)
    BY <1>5, <1>6, <1>7, <2>4, <2>5 DEF r
  <2>11. \E p \in Preds(cur) : Dominates(r, p)
    <3>1. PICK p \in Preds(cur) : Dominates(finger1, p)
      BY <1>4
    <3>2. p \in Block
      BY DEF Preds
    <3>3. Dominates(r, finger1)
      BY <1>5, <1>6, <2>5 DEF StrictlyDominates, r
    <3>4. Dominates(r, p)
      BY <1>5, <1>7, <3>1, <3>2, <3>3, DominatesTransitive
    <3> QED
      BY <3>4
  <2>12. doms'[cur'] = a /\ cur' = cur /\ todo' = todo
    BY <1>2 DEF a
  <2>13. /\ \A y \in Block : y < cur =>
              \A x \in Block : InFrontier(y, x) => y \in frontiers'[x]
         /\ \A q \in Preds(cur) \ todo : \A x \in Block :
              Dominates(x, q) /\ ~StrictlyDominates(x, cur) =>
                cur \in frontiers'[x] \/ Dominates(x, r)
    BY <1>4, <2>2, <2>9
  <2>14. FrontiersComplete'
    BY <1>2, <1>4, <2>1, <2>10, <2>11, <2>12, <2>13, GraphFrame
       DEF FrontiersComplete
  <2> QED
    BY <1>8, <2>3, <2>8, <2>14 DEF IInv
<1> QED
  BY <1>10, <1>11

\* The runners of all predecessors have climbed.
LEMMA EndJoinIInv == IInv /\ EndJoin => IInv'
<1> SUFFICES ASSUME IInv, EndJoin PROVE IInv'
  OBVIOUS
<1>1. TypeOK /\ FrontiersSound /\ FrontiersComplete
  BY DEF IInv
<1>2. /\ phase = "Join" /\ phase' = "Frontier" /\ todo = {}
      /\ cur' = cur + 1
      /\ UNCHANGED <<succ, numbering, doms, frontiers, domt, solving, todo,
                     finger1>>
  BY DEF EndJoin
<1>3. Solved /\ Solved' /\ phase' # "Number"
  BY <1>2 DEF Solved
<1>4. /\ \A y \in Block : y < cur =>
           \A x \in Block : InFrontier(y, x) => y \in frontiers[x]
      /\ \A q \in Preds(cur) \ todo : \A x \in Block :
           Dominates(x, q) /\ ~StrictlyDominates(x, cur) => cur \in frontiers[x]
  BY <1>1, <1>2, <1>3 DEF FrontiersComplete
<1>5. cur \in Nat \ {0} /\ cur + 1 \in Nat \ {0}
  BY <1>1 DEF TypeOK
<1>6. TypeOK'
  BY <1>1, <1>2, <1>5 DEF TypeOK, numbering, solving
<1>7. /\ Numbered' /\ AllNumbered' /\ Coming' /\ DomsTree' /\ DoneUpTo'
      /\ Candidate' /\ Stable'
  BY <1>2, <1>3, SolvedFrame
<1>8. FrontiersSound'
  BY <1>1, <1>2, FrontiersSoundFrame
<1>9. ASSUME NEW y \in Block, y < cur + 1, NEW x \in Block, InFrontier(y, x)
      PROVE  y \in frontiers[x]
  <2>1. CASE y = cur
    BY <1>2, <1>4, <1>9, <2>1 DEF InFrontier
  <2>2. CASE y # cur
    <3>1. y < cur
      BY <1>5, <1>9, <2>2 DEF Block
    <3> QED
      BY <1>4, <1>9, <3>1
  <2> QED
    BY <2>1, <2>2
<1>10. FrontiersComplete'
  BY <1>2, <1>9, GraphFrame DEF FrontiersComplete
<1> QED
  BY <1>6, <1>7, <1>8, <1>10 DEF IInv

\* The children are linked.
LEMMA LinkChildrenIInv == IInv /\ LinkChildren => IInv'
<1> SUFFICES ASSUME IInv, LinkChildren PROVE IInv'
  OBVIOUS
<1>1. TypeOK /\ FrontiersSound /\ FrontiersComplete
  BY DEF IInv
<1>2. /\ phase = "Frontier" /\ phase' = "Built" /\ cur > NBlock
      /\ domt' = [d \in Block |-> {b \in Block : doms[b] = d /\ b # d}]
      /\ UNCHANGED <<succ, numbering, doms, frontiers, solving, cur, todo,
                     finger1>>
  BY DEF LinkChildren
<1>3. Solved /\ Solved' /\ phase' # "Number"
  BY <1>2 DEF Solved
<1>4. TypeOK'
  <2>1. domt' \in [Block -> SUBSET Block]
    BY <1>2
  <2> QED
    BY <1>1, <1>2, <2>1 DEF TypeOK, numbering, solving
<1>5. /\ Numbered' /\ AllNumbered' /\ Coming' /\ DomsTree' /\ DoneUpTo'
      /\ Candidate' /\ Stable'
  BY <1>2, <1>3, SolvedFrame
<1>6. FrontiersSound'
  BY <1>1, <1>2, FrontiersSoundFrame
<1>7. cur \in Nat /\ \A y \in Block : y < cur
  BY <1>1, <1>2 DEF TypeOK, Block
<1>8. FrontiersComplete'
  BY <1>1, <1>2, <1>3, <1>7, GraphFrame DEF FrontiersComplete
<1> QED
  BY <1>4, <1>5, <1>6, <1>8 DEF IInv

\* A step of the rest of the compiler.
LEMMA StutterIInv == IInv /\ UNCHANGED vars => IInv'
<1> SUFFICES ASSUME IInv, UNCHANGED vars PROVE IInv'
  OBVIOUS
<1>1. /\ TypeOK /\ Numbered /\ Coming /\ AllNumbered /\ DomsTree /\ DoneUpTo
      /\ Candidate /\ Stable /\ FrontiersSound /\ FrontiersComplete
  BY DEF IInv
<1>2. UNCHANGED <<succ, queue, order, poidx, doms, frontiers, domt, changed,
                  at, newIdom, finger2, cur, todo, finger1, phase>>
  BY DEF vars, numbering, solving
<1>3. TypeOK' /\ AllNumbered' /\ Coming'
  <2>1. TypeOK'
    BY <1>1, <1>2 DEF TypeOK
  <2>2. AllNumbered'
    BY <1>1, <1>2 DEF AllNumbered
  <2>3. Coming'
    BY <1>1, <1>2, GraphFrame DEF Coming
  <2> QED
    BY <2>1, <2>2, <2>3
<1>4. Numbered'
  BY <1>1, <1>2, GraphFrame DEF Numbered
<1>5. DomsTree' /\ DoneUpTo'
  BY <1>1, <1>2, GraphFrame DEF DomsTree, DoneUpTo, Solved
<1>6. Candidate'
  BY <1>1, <1>2, GraphFrame, ChainFrame DEF Candidate, Candidates, Above
<1>7. Stable'
  BY <1>1, <1>2, GraphFrame, ChainFrame DEF Stable
<1>8. FrontiersSound' /\ FrontiersComplete'
  BY <1>1, <1>2, GraphFrame DEF FrontiersSound, FrontiersComplete, Solved
<1> QED
  BY <1>3, <1>4, <1>5, <1>6, <1>7, <1>8 DEF IInv

-----------------------------------------------------------------------------
(* What the invariant says of the chains.                                  *)

(* A set of natural numbers has a least element.                           *)
LEMMA LeastNat ==
  ASSUME NEW T, T \subseteq Nat, T # {}
  PROVE  \E x \in T : \A y \in T : x <= y
<1> DEFINE Less == {ss \in Nat \X Nat : ss[1] < ss[2]}
<1>1. IsWellFoundedOn(Less, Nat)
  BY NatLessThanWellFounded DEF OpToRel
<1> HIDE DEF Less
<1>2. PICK x \in T : \A y \in T : <<y, x>> \notin Less
  BY <1>1, WFMin
<1>3. ASSUME NEW y \in T PROVE x <= y
  <2>1. <<y, x>> \in Nat \X Nat
    OBVIOUS
  <2>2. <<y, x>>[1] < <<y, x>>[2] => <<y, x>> \in Less
    BY <2>1 DEF Less
  <2>3. ~(y < x)
    BY <1>2, <2>2
  <2> QED
    BY <2>3
<1> QED
  BY <1>3

(* A block that has a dominator set has all its dominators on its chain:    *)
(* its parent keeps the other ones and is lower (DomsTree), so a block that *)
(* lacked one would not be the lowest such block.                           *)
LEMMA DominatorsOnChain ==
  ASSUME IInv, phase # "Number", NEW d \in Block,
         NEW b \in Block, doms[b] # None, Dominates(d, b)
  PROVE  OnChain(d, b)
<1>1. TypeOK /\ DomsTree
  BY DEF IInv
<1> USE DEF TypeOK
<1> DEFINE Lost == {x \in Block : /\ doms[x] # None /\ Dominates(d, x)
                                 /\ ~OnChain(d, x)}
           T == {poidx[x] : x \in Lost}
<1>2. SUFFICES ASSUME Lost # {} PROVE FALSE
  OBVIOUS
<1>3. PICK x \in Lost : \A y \in Lost : poidx[x] <= poidx[y]
  <2>1. Lost \subseteq Block /\ poidx \in [Block -> Nat]
    BY <1>1
  <2> HIDE DEF Lost
  <2>2. T \subseteq Nat /\ T # {}
    BY <1>2, <2>1
  <2>3. PICK n \in T : \A k \in T : n <= k
    BY <2>2, LeastNat
  <2> QED
    BY <2>3
<1>4. d # x /\ x # Entry
  BY <1>3, ChainSelf, DominatesEntry
<1>5. /\ doms[x] \in Block
      /\ doms[doms[x]] # None
      /\ poidx[doms[x]] < poidx[x]
      /\ Dominates(d, doms[x])
  BY <1>1, <1>3, <1>4 DEF DomsTree, StrictlyDominates
<1>6. doms[x] \notin Lost
  BY <1>1, <1>3, <1>5
<1>7. OnChain(d, doms[x]) /\ OnChain(doms[x], x)
  BY <1>3, <1>5, <1>6, ChainSelf, ChainStep
<1> QED
  BY <1>3, <1>7, ChainTransitive

-----------------------------------------------------------------------------
(* IInv holds in every state of the constructor, whatever the graph.       *)
THEOREM Invariance == Spec => []IInv
<1>1. IInv /\ [Next]_vars => IInv'
  <2> SUFFICES ASSUME IInv, [Next]_vars PROVE IInv'
    OBVIOUS
  <2>1. CASE Number
    BY <2>1, NumberIInv
  <2>2. CASE BeginDominators
    BY <2>2, BeginDominatorsIInv
  <2>3. CASE VisitBlock
    BY <2>3, VisitBlockIInv
  <2>4. CASE \E p \in Block : VisitPred(p)
    BY <2>4, VisitPredIInv
  <2>5. CASE Climb
    BY <2>5, ClimbIInv
  <2>6. CASE Meet
    BY <2>6, MeetIInv
  <2>7. CASE SetIdom
    BY <2>7, SetIdomIInv
  <2>8. CASE EndTurn
    BY <2>8, EndTurnIInv
  <2>9. CASE VisitJoin
    BY <2>9, VisitJoinIInv
  <2>10. CASE \E p \in Block : StartRunner(p)
    BY <2>10, StartRunnerIInv
  <2>11. CASE Run
    BY <2>11, RunIInv
  <2>12. CASE EndJoin
    BY <2>12, EndJoinIInv
  <2>13. CASE LinkChildren
    BY <2>13, LinkChildrenIInv
  <2>14. CASE UNCHANGED vars
    BY <2>14, StutterIInv
  <2> QED
    BY <2>1, <2>2, <2>3, <2>4, <2>5, <2>6, <2>7, <2>8, <2>9, <2>10, <2>11,
       <2>12, <2>13, <2>14 DEF Next
<1> QED
  BY InitIInv, <1>1, PTL DEF Spec

(* Every variable keeps its type: no finger and no runner ever reads a      *)
(* dominator that has not been found.                                       *)
THEOREM TypeCorrect == Spec => []TypeOK
<1>1. IInv => TypeOK
  BY DEF IInv
<1> QED
  BY Invariance, <1>1, PTL

(* The turns of computeDominators() never discard a dominator, whatever the *)
(* order in which the blocks are visited.                                   *)
THEOREM NoDominatorIsLost == Spec => []NoDominatorLost
<1>1. IInv => NoDominatorLost
  BY DominatorsOnChain DEF NoDominatorLost
<1> QED
  BY Invariance, <1>1, PTL

(* When computeDominators() has returned, doms holds the immediate          *)
(* dominator of every block, for every graph without edges to the entry     *)
(* block whose blocks are reachable.                                        *)
THEOREM IdomsAreCorrect == Spec => []IdomsCorrect
<1>1. IInv => IdomsCorrect
  BY SolvedIdoms DEF IInv, IdomsCorrect
<1> QED
  BY Invariance, <1>1, PTL

(* When the constructor returns, frontiers holds the dominance frontier of  *)
(* every block.                                                             *)
THEOREM FrontiersAreCorrect == Spec => []FrontiersCorrect
<1>1. IInv => FrontiersCorrect
  <2> SUFFICES ASSUME IInv, phase = "Built", NEW x \in Block
               PROVE  frontiers[x] = {y \in Block : InFrontier(y, x)}
    BY DEF FrontiersCorrect
  <2>1. /\ frontiers[x] \subseteq Block
        /\ \A y \in frontiers[x] : InFrontier(y, x)
    BY DEF IInv, TypeOK, FrontiersSound
  <2>2. cur > NBlock /\ cur \in Nat
    BY DEF IInv, TypeOK, FrontiersComplete, Solved
  <2>3. ASSUME NEW y \in Block, InFrontier(y, x) PROVE y \in frontiers[x]
    <3>1. y < cur
      BY <2>2 DEF Block
    <3> QED
      BY <2>3, <3>1 DEF IInv, FrontiersComplete, Solved
  <2> QED
    BY <2>1, <2>3
<1> QED
  BY Invariance, <1>1, PTL
=============================================================================
