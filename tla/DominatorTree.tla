--------------------------- MODULE DominatorTree ---------------------------
(***************************************************************************)
(* analysis::DominatorTree (passes/analysis/DominatorTree.cc), which the   *)
(* dt pass builds for each function and MemToReg reads.                    *)
(*                                                                         *)
(* The algorithm is that of Cooper, Harvey and Kennedy, which numbers the  *)
(* blocks in reverse post order. Function::reversePostOrder(), which gives *)
(* the numbers here, is in fact a breadth-first search. The blocks of a    *)
(* function are numbers, the entry block is 1.                             *)
(***************************************************************************)
EXTENDS Integers, Sequences, FiniteSets

CONSTANTS
  NBlock,   \* the number of basic blocks of the function
  CFGs      \* the control flow graphs: functions from blocks to successors()

Block == 1..NBlock
Entry == 1
None  == 0        \* a block that is no key of doms; a null newIdom

ASSUME NBlockAssumption == NBlock \in Nat \ {0}

\* T holds the entry block and is closed under the edges of g that avoid x,
\* so it holds every block that can be reached without going through x.
Closed(g, x, T) ==
  /\ Entry # x => Entry \in T
  /\ \A b \in T : \A i \in DOMAIN g[b] : g[b][i] # x => g[b][i] \in T

\* What code generation and simplifycfg leave: no block branches to the entry
\* block, every block is reachable.
ASSUME CFGAssumption ==
  \A g \in CFGs :
    /\ g \in [Block -> Seq(Block \ {Entry})]
    /\ \A T \in SUBSET Block : Closed(g, None, T) => T = Block

VARIABLES
  succ,       \* BasicBlock::successors() of each block
  queue,      \* reversePostOrder(): next
  order,      \* the blocks reversePostOrder() yields
  poidx,      \* poidx: the position of a block in that order, from 0
  doms,       \* doms: the immediate dominator found so far
  frontiers,  \* frontiers
  domt,       \* domt: the children in the dominator tree
  changed,    \* computeDominators(): changed
  at,         \* the position in order of the block being looked at
  cur,        \* computeFrontiers(): the block b
  todo,       \* the predecessors, or the blocks, the loop has yet to see
  newIdom,    \* computeDominators(): newIdom
  finger1,    \* intersect(): finger1; computeFrontiers(): runner
  finger2,    \* intersect(): finger2
  phase       \* the loop that is executing

numbering == <<queue, order, poidx>>
solving   == <<changed, at, newIdom, finger2>>
vars == <<succ, numbering, doms, frontiers, domt, solving, cur, todo, finger1,
          phase>>

Succs(b) == {succ[b][i] : i \in DOMAIN succ[b]}

\* predecessors(): the parents of the branches that use the block, a set.
Preds(b) == {p \in Block : b \in Succs(p)}

Init ==
  /\ succ \in CFGs
  /\ queue = <<Entry>>
  /\ order = <<>>
  /\ poidx = [b \in Block |-> 0]
  /\ doms = [b \in Block |-> None]
  /\ frontiers = [b \in Block |-> {}]
  /\ domt = [b \in Block |-> {}]
  /\ changed = FALSE
  /\ at = 1
  /\ cur = Entry
  /\ todo = {}
  /\ newIdom = None
  /\ finger1 = Entry
  /\ finger2 = Entry
  /\ phase = "Number"

\* One turn of reversePostOrder(), whose blocks are numbered as they come.
Number ==
  /\ phase = "Number"
  /\ queue # <<>>
  /\ LET b == Head(queue)
     IN IF \E i \in DOMAIN order : order[i] = b
          THEN /\ queue' = Tail(queue)
               /\ UNCHANGED <<order, poidx>>
          ELSE /\ queue' = Tail(queue) \o succ[b]
               /\ order' = Append(order, b)
               /\ poidx' = [poidx EXCEPT ![b] = Len(order)]
  /\ UNCHANGED <<succ, doms, frontiers, domt, solving, cur, todo, finger1,
                 phase>>

\* Mutant: the entry block is not made its own dominator.
BeginDominatorsUnrooted ==
  /\ phase = "Number"
  /\ queue = <<>>
  /\ at' = 1
  /\ changed' = FALSE
  /\ phase' = "Block"
  /\ UNCHANGED <<succ, numbering, doms, frontiers, domt, newIdom, finger2, cur,
                 todo, finger1>>

\* The first turn of while(changed).
BeginDominators ==
  /\ phase = "Number"
  /\ queue = <<>>
  /\ doms' = [doms EXCEPT ![Entry] = Entry]
  /\ at' = 1
  /\ changed' = FALSE
  /\ phase' = "Block"
  /\ UNCHANGED <<succ, numbering, frontiers, domt, newIdom, finger2, cur, todo,
                 finger1>>

\* The next block of the order.
VisitBlock ==
  /\ phase = "Block"
  /\ at <= Len(order)
  /\ newIdom' = None
  /\ todo' = Preds(order[at])
  /\ phase' = "Pred"
  /\ UNCHANGED <<succ, numbering, doms, frontiers, domt, changed, at, finger2,
                 cur, finger1>>

\* The next predecessor, in any order: predecessors() is an unordered set.
VisitPred(p) ==
  /\ phase = "Pred"
  /\ p \in todo
  /\ todo' = todo \ {p}
  /\ IF doms[p] = None
       THEN UNCHANGED <<newIdom, finger1, finger2, phase>>
     ELSE IF newIdom = None
       THEN newIdom' = p /\ UNCHANGED <<finger1, finger2, phase>>
       ELSE /\ finger1' = p
            /\ finger2' = newIdom
            /\ phase' = "Intersect"
            /\ UNCHANGED newIdom
  /\ UNCHANGED <<succ, numbering, doms, frontiers, domt, changed, at, cur>>

\* Mutant: both fingers climb in one turn of the loop.
ClimbBoth ==
  /\ phase = "Intersect"
  /\ finger1 # finger2
  /\ finger1' = doms[finger1]
  /\ finger2' = doms[finger2]
  /\ UNCHANGED <<succ, numbering, doms, frontiers, domt, changed, at, cur,
                 todo, newIdom, phase>>

\* intersect(): the finger on the block with the higher number climbs.
Climb ==
  /\ phase = "Intersect"
  /\ finger1 # finger2
  /\ IF poidx[finger1] > poidx[finger2]
       THEN finger1' = doms[finger1] /\ UNCHANGED finger2
       ELSE finger2' = doms[finger2] /\ UNCHANGED finger1
  /\ UNCHANGED <<succ, numbering, doms, frontiers, domt, changed, at, cur,
                 todo, newIdom, phase>>

\* intersect() returns.
Meet ==
  /\ phase = "Intersect"
  /\ finger1 = finger2
  /\ newIdom' = finger1
  /\ phase' = "Pred"
  /\ UNCHANGED <<succ, numbering, doms, frontiers, domt, changed, at, cur,
                 todo, finger1, finger2>>

\* Mutant: changed is not set.
SetIdomUnmarked ==
  /\ phase = "Pred"
  /\ todo = {}
  /\ doms' = IF newIdom # None THEN [doms EXCEPT ![order[at]] = newIdom]
                               ELSE doms
  /\ at' = at + 1
  /\ phase' = "Block"
  /\ UNCHANGED <<succ, numbering, frontiers, domt, changed, newIdom, finger2,
                 cur, todo, finger1>>

\* All predecessors have been seen: the block gets its new dominator.
SetIdom ==
  /\ phase = "Pred"
  /\ todo = {}
  /\ IF newIdom # None /\ doms[order[at]] # newIdom
       THEN doms' = [doms EXCEPT ![order[at]] = newIdom] /\ changed' = TRUE
       ELSE UNCHANGED <<doms, changed>>
  /\ at' = at + 1
  /\ phase' = "Block"
  /\ UNCHANGED <<succ, numbering, frontiers, domt, newIdom, finger2, cur, todo,
                 finger1>>

\* Mutant: changed is not reset for the next turn.
EndTurnStale ==
  /\ phase = "Block"
  /\ at > Len(order)
  /\ IF changed
       THEN at' = 1 /\ UNCHANGED phase
       ELSE phase' = "Frontier" /\ UNCHANGED at
  /\ cur' = 1
  /\ UNCHANGED <<succ, numbering, doms, frontiers, domt, changed, newIdom,
                 finger2, todo, finger1>>

\* Mutant: one turn is thought to be enough, as it is without loops when the
\* blocks come in reverse post order.
EndTurnOnce ==
  /\ phase = "Block"
  /\ at > Len(order)
  /\ phase' = "Frontier"
  /\ cur' = 1
  /\ UNCHANGED <<succ, numbering, doms, frontiers, domt, solving, todo,
                 finger1>>

\* The end of one turn of while(changed), which is the last if nothing was.
EndTurn ==
  /\ phase = "Block"
  /\ at > Len(order)
  /\ IF changed
       THEN at' = 1 /\ changed' = FALSE /\ UNCHANGED phase
       ELSE phase' = "Frontier" /\ UNCHANGED <<at, changed>>
  /\ cur' = 1
  /\ UNCHANGED <<succ, numbering, doms, frontiers, domt, newIdom, finger2,
                 todo, finger1>>

\* computeFrontiers() looks at block cur, if it joins two edges at least. The
\* order of body() is of no account: here that of the numbers.
VisitJoin ==
  /\ phase = "Frontier"
  /\ cur <= NBlock
  /\ IF Cardinality(Preds(cur)) < 2
       THEN cur' = cur + 1 /\ UNCHANGED <<todo, phase>>
       ELSE todo' = Preds(cur) /\ phase' = "Join" /\ UNCHANGED cur
  /\ UNCHANGED <<succ, numbering, doms, frontiers, domt, solving, finger1>>

\* Mutant: the runner starts at the dominator of the predecessor.
StartRunnerAbove(p) ==
  /\ phase = "Join"
  /\ p \in todo
  /\ todo' = todo \ {p}
  /\ finger1' = doms[p]
  /\ phase' = "Run"
  /\ UNCHANGED <<succ, numbering, doms, frontiers, domt, solving, cur>>

StartRunner(p) ==
  /\ phase = "Join"
  /\ p \in todo
  /\ todo' = todo \ {p}
  /\ finger1' = p
  /\ phase' = "Run"
  /\ UNCHANGED <<succ, numbering, doms, frontiers, domt, solving, cur>>

\* The runner climbs up to the dominator of cur.
Run ==
  /\ phase = "Run"
  /\ IF finger1 # doms[cur]
       THEN /\ frontiers' = [frontiers EXCEPT ![finger1] = @ \union {cur}]
            /\ finger1' = doms[finger1]
            /\ UNCHANGED phase
       ELSE phase' = "Join" /\ UNCHANGED <<frontiers, finger1>>
  /\ UNCHANGED <<succ, numbering, doms, domt, solving, cur, todo>>

EndJoin ==
  /\ phase = "Join"
  /\ todo = {}
  /\ cur' = cur + 1
  /\ phase' = "Frontier"
  /\ UNCHANGED <<succ, numbering, doms, frontiers, domt, solving, todo,
                 finger1>>

\* The constructor's last loop: every block but the root of the tree becomes
\* a child of its dominator.
LinkChildren ==
  /\ phase = "Frontier"
  /\ cur > NBlock
  /\ domt' = [d \in Block |-> {b \in Block : doms[b] = d /\ b # d}]
  /\ phase' = "Built"
  /\ UNCHANGED <<succ, numbering, doms, frontiers, solving, cur, todo, finger1>>

Next ==
  \/ Number
  \/ BeginDominators
  \/ VisitBlock
  \/ \E p \in Block : VisitPred(p)
  \/ Climb
  \/ Meet
  \/ SetIdom
  \/ EndTurn
  \/ VisitJoin
  \/ \E p \in Block : StartRunner(p)
  \/ Run
  \/ EndJoin
  \/ LinkChildren

\* The constructor is sequential code: it goes on until it returns.
Spec     == Init /\ [][Next]_vars
FairSpec == Spec /\ WF_vars(Next)

-----------------------------------------------------------------------------
(* Dominance *)

\* d dominates b: no path from the entry block to b avoids d.
Dominates(d, b) == \E T \in SUBSET Block : Closed(succ, d, T) /\ b \notin T
StrictlyDominates(d, b) == d # b /\ Dominates(d, b)

\* a is b, or doms names it above b.
OnChain(a, b) ==
  \A T \in SUBSET Block :
    b \in T /\ (\A x \in T : doms[x] # None => doms[x] \in T) => a \in T

\* The dominance of x ends at y.
InFrontier(y, x) ==
  /\ ~StrictlyDominates(x, y)
  /\ \E p \in Preds(y) : Dominates(x, p)

Solved == phase \in {"Frontier", "Join", "Run", "Built"}

-----------------------------------------------------------------------------
(* Properties *)

TypeOK ==
  /\ succ \in CFGs
  /\ queue \in Seq(Block)
  /\ order \in Seq(Block)
  /\ poidx \in [Block -> Nat]
  /\ doms \in [Block -> Block \union {None}]
  /\ frontiers \in [Block -> SUBSET Block]
  /\ domt \in [Block -> SUBSET Block]
  /\ changed \in BOOLEAN
  /\ at \in Nat \ {0}
  /\ cur \in Nat \ {0}
  /\ todo \subseteq Block
  /\ newIdom \in Block \union {None}
  /\ finger1 \in Block
  /\ finger2 \in Block
  /\ phase \in {"Number", "Block", "Pred", "Intersect", "Frontier", "Join",
               "Run", "Built"}

\* computeDominators() never discards a dominator: whatever doms holds between
\* two blocks, each dominator of a block is on its chain. The iteration only
\* removes from the chains what does not dominate.
NoDominatorLost ==
  phase = "Block" =>
    \A b \in Block : doms[b] # None =>
      \A d \in Block : Dominates(d, b) => OnChain(d, b)

\* When computeDominators() returns, getIDom() is the immediate dominator of
\* every block but the entry block, although the blocks were not visited in
\* reverse post order: it dominates the block, and every other strict
\* dominator of the block dominates it.
IdomsCorrect ==
  Solved =>
    /\ doms[Entry] = Entry
    /\ \A b \in Block \ {Entry} :
         /\ StrictlyDominates(doms[b], b)
         /\ \A d \in Block : StrictlyDominates(d, b) => Dominates(d, doms[b])

\* DF() of a block x is its dominance frontier: the blocks where the dominance
\* of x ends, which x does not strictly dominate but for one predecessor it
\* dominates. MemToReg puts its phi nodes there.
FrontiersCorrect ==
  phase = "Built" =>
    \A x \in Block :
      frontiers[x] = {y \in Block : InFrontier(y, x)}

\* The constructor returns: neither the turns of computeDominators(), nor the
\* fingers of intersect(), nor a runner that has to meet the dominator of a
\* join go on for ever.
ConstructorReturns == <>(phase = "Built")

-----------------------------------------------------------------------------
(* The inductive invariant *)

\* Blocks are numbered in the order they come; each but the entry block comes
\* after one of its predecessors, hence after all its dominators.
Numbered ==
  /\ \A i \in DOMAIN order : poidx[order[i]] = i - 1
  /\ \A i \in DOMAIN order :
       i # 1 => \E j \in DOMAIN order : j < i /\ order[i] \in Succs(order[j])
  /\ order # <<>> => order[1] = Entry
  /\ \A i \in DOMAIN order : \A d \in Block :
       Dominates(d, order[i]) => \E j \in DOMAIN order : j <= i /\ order[j] = d

\* What is still to come: the entry block, then successors of what has come,
\* all of which have come or will.
Coming ==
  phase = "Number" =>
    /\ doms = [b \in Block |-> None]
    /\ order = <<>> => queue = <<Entry>>
    /\ order # <<>> => \A k \in DOMAIN queue :
         \E j \in DOMAIN order : queue[k] \in Succs(order[j])
    /\ \A i \in DOMAIN order : \A s \in Succs(order[i]) :
         \/ \E j \in DOMAIN order : order[j] = s
         \/ \E k \in DOMAIN queue : queue[k] = s

\* Every block has its number once numbering is over.
AllNumbered ==
  phase # "Number" => \A b \in Block : \E i \in DOMAIN order : order[i] = b

\* doms is a tree rooted in the entry block whose edges go to lower numbers,
\* and every strict dominator of a block dominates its parent as well.
DomsTree ==
  phase # "Number" =>
    /\ doms[Entry] = Entry
    /\ \A b \in Block \ {Entry} :
         doms[b] # None =>
           /\ doms[doms[b]] # None
           /\ poidx[doms[b]] < poidx[b]
           /\ \A d \in Block : StrictlyDominates(d, b) => Dominates(d, doms[b])

\* The blocks before the current one have been given a dominator.
DoneUpTo ==
  /\ phase # "Number" =>
       \A i \in DOMAIN order : i < at => doms[order[i]] # None
  /\ phase \in {"Pred", "Intersect"} => at \in DOMAIN order
  /\ Solved => ~changed /\ at > Len(order)

\* newIdom, and both fingers in its place, keep every strict dominator of the
\* block, and one of them is above each predecessor seen so far.
Above(p) == \/ phase = "Pred" /\ OnChain(newIdom, p)
            \/ phase = "Intersect" /\ (OnChain(finger1, p) \/ OnChain(finger2, p))
Candidates == IF phase = "Pred" THEN {newIdom} \ {None} ELSE {finger1, finger2}

Candidate ==
  phase \in {"Pred", "Intersect"} =>
    /\ todo \subseteq Preds(order[at])
    /\ Candidates # {} => order[at] # Entry
    /\ \A c \in Candidates : doms[c] # None
    /\ \A c \in Candidates : \A d \in Block :
         StrictlyDominates(d, order[at]) => Dominates(d, c)
    /\ \A p \in Preds(order[at]) \ todo :
         doms[p] # None => Above(p)

\* As long as nothing has changed in this turn, doms solves the equations of
\* the blocks before the current one.
Stable ==
  phase # "Number" /\ ~changed =>
    \A i \in DOMAIN order : i < at =>
      \A p \in Preds(order[i]) : doms[p] # None => OnChain(doms[order[i]], p)

\* frontiers holds no block it should not.
FrontiersSound ==
  \A x \in Block : \A y \in frontiers[x] : InFrontier(y, x)

\* ... and all it should, for the blocks before cur, and for cur itself as far
\* as the runners have come: what they have yet to see dominates finger1.
FrontiersComplete ==
  Solved =>
    /\ \A y \in Block : y < cur =>
         \A x \in Block : InFrontier(y, x) => y \in frontiers[x]
    /\ phase \in {"Join", "Run"} =>
         /\ cur \in Block \ {Entry}
         /\ todo \subseteq Preds(cur)
         /\ \A p \in Preds(cur) \ todo : \A x \in Block :
              /\ Dominates(x, p)
              /\ ~StrictlyDominates(x, cur)
              => \/ cur \in frontiers[x]
                 \/ phase = "Run" /\ Dominates(x, finger1)
    /\ phase = "Run" =>
         /\ Dominates(doms[cur], finger1)
         /\ \E p \in Preds(cur) : Dominates(finger1, p)
    /\ phase = "Built" => cur > NBlock

IInv ==
  /\ TypeOK
  /\ Numbered
  /\ Coming
  /\ AllNumbered
  /\ DomsTree
  /\ DoneUpTo
  /\ Candidate
  /\ Stable
  /\ FrontiersSound
  /\ FrontiersComplete
=============================================================================
