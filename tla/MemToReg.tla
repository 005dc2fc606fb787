------------------------------ MODULE MemToReg ------------------------------
(***************************************************************************)
(* HoistAlloca (passes/transform/MemToReg.cc): promotes the allocas of a   *)
(* function to SSA values. Phi nodes are placed on the dominance frontiers *)
(* of the stores, then one walk of the dominator tree replaces each load   *)
(* by the value stored last, and the loads and stores are erased.          *)
(*                                                                         *)
(* Blocks and allocas are numbers. The allocas are at the head of the      *)
(* entry block, where Function::createAlloca() puts them. Of a block we    *)
(* keep what uses an alloca or a value; phi nodes, which are always first, *)
(* are kept apart. A pass runs to the end on one function; the driver can  *)
(* name it more than once in its pipeline.                                 *)
(***************************************************************************)
EXTENDS Integers, Sequences, FiniteSets, SequencesExt

CONSTANTS
  NBlock,    \* the number of basic blocks of the function
  NVar,      \* the number of its allocas
  Functions, \* the functions: [succ, code]
  MaxRuns    \* bound: runs of the pass on the function

Block == 1..NBlock
Entry == 1
Var   == 1..NVar
NoVar == 0        \* the null AllocaInst* of a phi that is not in phiAllocaMap

ASSUME MemToRegAssumption == {NBlock, NVar} \subseteq Nat \ {0} /\ MaxRuns \in Nat

\* T holds the entry block and is closed under the edges of g that avoid x.
Closed(g, x, T) ==
  /\ Entry # x => Entry \in T
  /\ \A b \in T : \A i \in DOMAIN g[b] : g[b][i] # x => g[b][i] \in T

\* In the graph g, block b cannot be reached without block d.
Dominates(g, d, b) == \E T \in SUBSET Block : Closed(g, d, T) /\ b \notin T

(***************************************************************************)
(* Values: a constant (or argument, or whatever is not the load of an      *)
(* alloca), the load that is instruction number n of block b, the phi node *)
(* of alloca v in block b, undef, an alloca itself.                        *)
(***************************************************************************)
Const(n)   == <<"const", 0, n>>
Loaded(b, n) == <<"load", b, n>>
Phi(b, v)  == <<"phi", b, v>>
Undef      == <<"undef", 0, 0>>
Alloca(v)  == <<"alloca", 0, v>>

Value == {"const", "load", "phi", "undef", "alloca"} \X Nat \X Nat

(***************************************************************************)
(* Instructions: [op, var, val]. A load has itself as val. "use" is any    *)
(* other instruction with the operand val.                                 *)
(***************************************************************************)
Instruction == [op : {"alloca", "store", "load", "use"},
                var : Var \union {NoVar}, val : Value]

\* In the function of graph g, code c and phi nodes P, the value val is there
\* when control comes to instruction j of block b, on whatever path.
Available(g, c, P, val, b, j) ==
  /\ val[1] = "load" =>
       /\ Dominates(g, val[2], b)
       /\ \E i \in DOMAIN c[val[2]] :
            /\ c[val[2]][i].op = "load" /\ c[val[2]][i].val = val
            /\ val[2] = b => i < j
  /\ val[1] = "phi" => Dominates(g, val[2], b) /\ <<val[2], val[3]>> \in P

\* Such a function is in SSA form. ins gives the operands of its phi nodes,
\* which are used at the end of the predecessor they come from.
InSSA(g, c, P, ins) ==
  /\ \A b \in Block : \A j \in DOMAIN c[b] :
       c[b][j].op # "load" => Available(g, c, P, c[b][j].val, b, j)
  /\ \A phi \in P : \A p \in DOMAIN ins[phi] :
       Available(g, c, P, ins[phi][p], p, Len(c[p]) + 1)

\* What code generation and simplifycfg leave: the allocas are the head of the
\* entry block, no block branches there, each block can be reached, and a load
\* is used after it.
ASSUME FunctionsAssumption ==
  \A f \in Functions :
    /\ f.succ \in [Block -> Seq(Block \ {Entry})]
    /\ \A T \in SUBSET Block : Closed(f.succ, 0, T) => T = Block
    /\ f.code \in [Block -> Seq(Instruction)]
    /\ \A b \in Block : \A i \in DOMAIN f.code[b] :
         LET instr == f.code[b][i]
         IN /\ instr.op # "use" => instr.var \in Var
            /\ instr.op = "load" => instr.val = Loaded(b, i)
            /\ instr.op = "store" => instr.val[1] # "alloca"
            /\ instr.op = "alloca" <=> b = Entry /\ i <= NVar
    /\ \A v \in Var : \E i \in DOMAIN f.code[Entry] :
         f.code[Entry][i].op = "alloca" /\ f.code[Entry][i].var = v
    /\ InSSA(f.succ, f.code, {}, <<>>)

VARIABLES
  succ,      \* BasicBlock::successors()
  df, kids,  \* DT: DF() and getChildren()
  code,      \* the instructions of each block but the phi nodes
  phis,      \* the phi nodes of the function, pairs <<block, alloca>>
  incoming,  \* their operands: for each phi node, by predecessor
  mine,      \* phiAllocaMap: the phi nodes placed by this run
  promoted,  \* the allocas whose users are in storesToRewrite, loadsToRewrite
  todo,      \* the constructor's loop: allocas it has yet to look at
  placing,   \* placePHINodes(): V
  work,      \* placePHINodes(): W, whose order depends on a hash table
  worked,    \* placePHINodes(): Work
  varStack,  \* varStack
  frames,    \* the calls of replaceUses() that have not returned
  runs,      \* how often the pass was run before
  phase

places == <<mine, promoted, todo, placing, work, worked>>
vars == <<succ, df, kids, code, phis, incoming, places, varStack, frames, runs,
          phase>>

Succs(b) == {succ[b][i] : i \in DOMAIN succ[b]}
Preds(b) == {p \in Block : b \in Succs(p)}

\* The dominators of each block.
Dominators(g) == [b \in Block |-> {d \in Block : Dominates(g, d, b)}]

\* DF() and getChildren() as DominatorTree promises them: see FrontiersCorrect
\* and IdomsCorrect there.
Frontier(g, dom) ==
  [x \in Block |-> {y \in Block :
     /\ ~(x \in dom[y] /\ x # y)
     /\ \E p \in Block : x \in dom[p] /\ \E i \in DOMAIN g[p] : g[p][i] = y}]
Children(dom) ==
  [d \in Block |-> {b \in Block :
     b # d /\ d \in dom[b] /\ dom[b] \ {b} = dom[d]}]

Init ==
  /\ \E f \in Functions : succ = f.succ /\ code = f.code
  /\ LET dom == Dominators(succ)
     IN df = Frontier(succ, dom) /\ kids = Children(dom)
  /\ phis = {}
  /\ incoming = <<>>
  /\ mine = {}
  /\ promoted = {}
  /\ todo = Var
  /\ placing = NoVar
  /\ work = {}
  /\ worked = {}
  /\ varStack = [v \in Var \union {NoVar} |-> <<>>]
  /\ frames = <<>>
  /\ runs = 0
  /\ phase = "Place"

-----------------------------------------------------------------------------
(* Phi nodes *)

Instrs == UNION {{code[b][i] : i \in DOMAIN code[b]} : b \in Block}

\* Each user of the alloca is a load or a store.
CanAllocaBeReplaced(v) == \A i \in Instrs : i.op = "use" => i.val # Alloca(v)

StoreBlocks(v) ==
  {b \in Block : \E i \in DOMAIN code[b] :
                   code[b][i].op = "store" /\ code[b][i].var = v}

\* The next alloca of the entry block: the blocks of its stores are work.
Start(v, marked) ==
  /\ phase = "Place"
  /\ work = {}
  /\ v \in todo
  /\ \A w \in todo : v <= w
  /\ todo' = todo \ {v}
  /\ placing' = v
  /\ IF CanAllocaBeReplaced(v)
       THEN /\ promoted' = promoted \union {v}
            /\ work' = StoreBlocks(v)
            /\ worked' = marked
       ELSE UNCHANGED <<promoted, work, worked>>
  /\ UNCHANGED <<succ, df, kids, code, phis, incoming, mine, varStack, frames,
                 runs, phase>>

LookAt(v) == Start(v, StoreBlocks(v))

\* The blocks of the frontier without a phi node for the alloca (DFPlus).
Joins(X) == {Y \in df[X] : <<Y, placing>> \notin mine}

\* One turn of placePHINodes(): phi nodes without operands, and more work.
Place(X, queued) ==
  /\ phase = "Place"
  /\ X \in work
  /\ phis' = phis \union {<<Y, placing>> : Y \in Joins(X)}
  /\ mine' = mine \union {<<Y, placing>> : Y \in Joins(X)}
  /\ incoming' = [phi \in phis' |-> IF phi \in phis THEN incoming[phi] ELSE <<>>]
  /\ work' = (work \ {X}) \union queued
  /\ worked' = worked \union Joins(X)
  /\ UNCHANGED <<succ, df, kids, code, promoted, todo, placing, varStack,
                 frames, runs, phase>>

\* Mutant: a block that gets a phi node is not queued.
PlacePhisOnce(X) == Place(X, {})

\* Mutant: blocks are queued whether they were before or not.
PlacePhisAgain(X) == Place(X, df[X])

PlacePhis(X) == Place(X, Joins(X) \ worked)

-----------------------------------------------------------------------------
(* Renaming *)

PhisOf(b)     == {phi \in phis : phi[1] = b}
AllocaOf(phi) == IF phi \in mine THEN phi[2] ELSE NoVar
PhisFor(b, v) == {phi \in PhisOf(b) : AllocaOf(phi) = v}

\* replaceUses(b) begins by pushing the phi nodes of b. A frame remembers how
\* often it has pushed on the stack of each alloca.
Call(b) ==
  [block |-> b, at |-> 1, kids |-> kids[b],
   pushed |-> [v \in DOMAIN varStack |-> Cardinality(PhisFor(b, v))]]

PushPhis(b) ==
  [v \in DOMAIN varStack |->
     varStack[v] \o SetToSeq({Phi(phi[1], phi[2]) : phi \in PhisFor(b, v)})]

BeginRenaming ==
  /\ phase = "Place"
  /\ work = {}
  /\ todo = {}
  /\ frames' = <<Call(Entry)>>
  /\ varStack' = PushPhis(Entry)
  /\ phase' = "Rename"
  /\ UNCHANGED <<succ, df, kids, code, phis, incoming, places, runs>>

Frame == frames[Len(frames)]
Instr == code[Frame.block][Frame.at]     \* the instruction it has come to
InCode == phase = "Rename" /\ Frame.at <= Len(code[Frame.block])
Advanced(pushed) ==
  [frames EXCEPT ![Len(frames)] =
     [Frame EXCEPT !.at = Frame.at + 1, !.pushed = pushed]]

\* An alloca is undefined at first; this is not popped.
RenameAlloca ==
  /\ InCode
  /\ Instr.op = "alloca"
  /\ varStack' = [varStack EXCEPT ![Instr.var] = Append(@, Undef)]
  /\ frames' = Advanced(Frame.pushed)
  /\ UNCHANGED <<succ, df, kids, code, phis, incoming, places, runs, phase>>

RenameStore ==
  /\ InCode
  /\ Instr.op = "store"
  /\ Instr.var \in promoted
  /\ varStack' = [varStack EXCEPT ![Instr.var] = Append(@, Instr.val)]
  /\ frames' = Advanced([Frame.pushed EXCEPT ![Instr.var] = @ + 1])
  /\ UNCHANGED <<succ, df, kids, code, phis, incoming, places, runs, phase>>

\* replaceAllUsesWith(): every operand but that of the load itself.
CodeWith(old, new) ==
  [b \in Block |-> [i \in DOMAIN code[b] |->
     IF code[b][i].op # "load" /\ code[b][i].val = old
     THEN [code[b][i] EXCEPT !.val = new] ELSE code[b][i]]]

\* Mutant: only the uses in the block of the load are replaced.
RenameLoadInBlock ==
  /\ InCode
  /\ Instr.op = "load"
  /\ Instr.var \in promoted
  /\ varStack[Instr.var] # <<>>
  /\ code' = [code EXCEPT ![Frame.block] =
                CodeWith(Instr.val, Last(varStack[Instr.var]))[Frame.block]]
  /\ frames' = Advanced(Frame.pushed)
  /\ UNCHANGED <<succ, df, kids, phis, incoming, places, varStack, runs, phase>>

\* Phi nodes have no loads of promoted allocas as operands: their operands
\* come from the stacks.
RenameLoad ==
  /\ InCode
  /\ Instr.op = "load"
  /\ Instr.var \in promoted
  /\ varStack[Instr.var] # <<>>
  /\ LET old == Instr.val
         new == Last(varStack[Instr.var])
     IN /\ code' = CodeWith(old, new)
        /\ incoming' = [phi \in phis |-> [p \in DOMAIN incoming[phi] |->
             IF incoming[phi][p] = old THEN new ELSE incoming[phi][p]]]
  /\ frames' = Advanced(Frame.pushed)
  /\ UNCHANGED <<succ, df, kids, phis, places, varStack, runs, phase>>

SkipInstr ==
  /\ InCode
  /\ \/ Instr.op = "use"
     \/ Instr.op \in {"store", "load"} /\ Instr.var \notin promoted
  /\ frames' = Advanced(Frame.pushed)
  /\ UNCHANGED <<succ, df, kids, code, phis, incoming, places, varStack, runs,
                 phase>>

\* The phi nodes of the successors, for which this block is a predecessor.
NextPhis == UNION {PhisOf(Y) : Y \in Succs(Frame.block)}
AtEnd == phase = "Rename" /\ Frame.at = Len(code[Frame.block]) + 1

\* replaceOrAddOperand() of each of some phi nodes.
Fill(filled) ==
  /\ AtEnd
  /\ \A phi \in NextPhis : varStack[AllocaOf(phi)] # <<>>
  /\ incoming' = [phi \in phis |->
       IF phi \in filled
       THEN [p \in DOMAIN incoming[phi] \union {Frame.block} |->
               IF p = Frame.block THEN Last(varStack[AllocaOf(phi)])
                                  ELSE incoming[phi][p]]
       ELSE incoming[phi]]
  /\ frames' = Advanced(Frame.pushed)
  /\ UNCHANGED <<succ, df, kids, code, phis, places, varStack, runs, phase>>

\* Mutant: only those of the first successor.
FillPhisOfFirst ==
  Fill(UNION {PhisOf(succ[Frame.block][i]) : i \in DOMAIN succ[Frame.block] \ {2}})

FillPhis == Fill(NextPhis)

\* back() of an empty stack is undefined behaviour.
ReadEmptyStack ==
  /\ \/ AtEnd /\ \E phi \in NextPhis : varStack[AllocaOf(phi)] = <<>>
     \/ InCode /\ Instr.op = "load" /\ Instr.var \in promoted
               /\ varStack[Instr.var] = <<>>
  /\ phase' = "Undefined"
  /\ UNCHANGED <<succ, df, kids, code, phis, incoming, places, varStack, frames,
                 runs>>

InTree == phase = "Rename" /\ Frame.at > Len(code[Frame.block]) + 1

\* replaceUses() of a child in the dominator tree, in any order.
Descend(Y) ==
  /\ InTree
  /\ Y \in Frame.kids
  /\ frames' = Append([frames EXCEPT ![Len(frames)] =
                         [Frame EXCEPT !.kids = Frame.kids \ {Y}]], Call(Y))
  /\ varStack' = PushPhis(Y)
  /\ UNCHANGED <<succ, df, kids, code, phis, incoming, places, runs, phase>>

\* Mutant: what was pushed is not popped.
ReturnPushed ==
  /\ InTree
  /\ Frame.kids = {}
  /\ frames' = Front(frames)
  /\ phase' = IF Len(frames) = 1 THEN "Erase" ELSE phase
  /\ UNCHANGED <<succ, df, kids, code, phis, incoming, places, varStack, runs>>

\* replaceUses() pops what it has pushed and returns.
Return ==
  /\ InTree
  /\ Frame.kids = {}
  /\ varStack' = [v \in DOMAIN varStack |->
       SubSeq(varStack[v], 1, Len(varStack[v]) - Frame.pushed[v])]
  /\ frames' = Front(frames)
  /\ phase' = IF Len(frames) = 1 THEN "Erase" ELSE phase
  /\ UNCHANGED <<succ, df, kids, code, phis, incoming, places, runs>>

-----------------------------------------------------------------------------
ToErase(i) == i.op \in {"store", "load"} /\ i.var \in promoted

\* The instructions of s that stay.
KeepOrErase(t, i) == IF ToErase(i) THEN t ELSE Append(t, i)
Kept(s) ==
  LET kept[n \in 0..Len(s)] ==
        IF n = 0 THEN <<>> ELSE KeepOrErase(kept[n - 1], s[n])
  IN kept[Len(s)]

\* The stores, then the loads, are asserted to be unused and erased.
Erase ==
  /\ phase = "Erase"
  /\ code' = [b \in Block |-> Kept(code[b])]
  /\ phase' = "Done"
  /\ UNCHANGED <<succ, df, kids, phis, incoming, places, varStack, frames, runs>>

\* The pipeline names the pass once more: a new HoistAlloca.
RunAgain ==
  /\ phase = "Done"
  /\ runs + 1 < MaxRuns
  /\ runs' = runs + 1
  /\ mine' = {}
  /\ promoted' = {}
  /\ todo' = Var
  /\ placing' = NoVar
  /\ varStack' = [v \in DOMAIN varStack |-> <<>>]
  /\ phase' = "Place"
  /\ UNCHANGED <<succ, df, kids, code, phis, incoming, work, worked, frames>>

\* runOnFunction(), which is sequential.
RunStep ==
  \/ \E v \in Var : LookAt(v)
  \/ \E X \in Block : PlacePhis(X)
  \/ BeginRenaming
  \/ RenameAlloca
  \/ RenameStore
  \/ RenameLoad
  \/ SkipInstr
  \/ FillPhis
  \/ ReadEmptyStack
  \/ \E Y \in Block : Descend(Y)
  \/ Return
  \/ Erase

Next == RunStep \/ RunAgain
Spec == Init /\ [][Next]_vars /\ WF_vars(RunStep)

-----------------------------------------------------------------------------
(* Properties *)

\* P holds the frontier of the block of each store to v and of its own blocks.
HoldsFrontiers(v, P) == \A X \in StoreBlocks(v) \union P : df[X] \subseteq P
PhiBlocks(v) == {Y \in Block : <<Y, v>> \in mine}

\* placePHINodes() puts a phi node where it is needed and nowhere else: on the
\* iterated dominance frontier of the stores, the least set that holds the
\* frontier of each store's block and of each of its own blocks.
PhisOnIteratedFrontier ==
  phase = "Rename" =>
    \A v \in promoted :
      /\ HoldsFrontiers(v, PhiBlocks(v))
      /\ \A P \in SUBSET Block : HoldsFrontiers(v, P) => PhiBlocks(v) \subseteq P

\* A phi node has one operand for each predecessor of its block.
PhisComplete ==
  phase \in {"Erase", "Done"} =>
    \A phi \in phis : DOMAIN incoming[phi] = Preds(phi[1])

\* The result is in SSA form: each value that is used is still defined, in a
\* block that dominates the block of the use, for a phi node the predecessor
\* it comes from, and within a block before it. This is more than the
\* assertions that the loads that are erased have no uses.
DefinitionsDominateUses == phase = "Done" => InSSA(succ, code, phis, incoming)

\* A run never reads an empty stack: "Optimization passes are run in-order
\* and may be specified more than once." (tools/jcc1/main.cc:88)
StacksHoldAValue == phase # "Undefined"

\* The pass returns, whatever loops the function has.
PassReturns == phase = "Place" ~> phase \in {"Done", "Undefined"}

-----------------------------------------------------------------------------
(* The inductive invariant *)

Stack == Var \union {NoVar}
Activation == [block : Block, at : Nat \ {0}, kids : SUBSET Block,
               pushed : [Stack -> Nat]]

TypeOK ==
  /\ \E f \in Functions : succ = f.succ
  /\ df = Frontier(succ, Dominators(succ))
  /\ kids = Children(Dominators(succ))
  /\ code \in [Block -> Seq(Instruction)]
  /\ phis \subseteq Block \X Var
  /\ mine \subseteq phis
  /\ DOMAIN incoming = phis
  /\ \A phi \in phis : /\ DOMAIN incoming[phi] \subseteq Preds(phi[1])
                       /\ \A p \in DOMAIN incoming[phi] : incoming[phi][p] \in Value
  /\ promoted \subseteq Var
  /\ todo \subseteq Var
  /\ placing \in Stack
  /\ work \subseteq Block
  /\ worked \subseteq Block
  /\ varStack \in [Stack -> Seq(Value)]
  /\ frames \in Seq(Activation)
  /\ runs \in Nat
  /\ phase \in {"Place", "Rename", "Erase", "Done", "Undefined"}

\* A load has a value of its own, which names its block; the allocas are in
\* the entry block, before the first run at the head of it.
CodeShape ==
  /\ \A b \in Block : \A i \in DOMAIN code[b] :
       /\ code[b][i].op # "use" => code[b][i].var \in Var
       /\ code[b][i].op = "load" => code[b][i].val[1] = "load" /\ code[b][i].val[2] = b
       /\ code[b][i].op = "alloca" => b = Entry
       /\ \A j \in DOMAIN code[b] :
            /\ code[b][i].op = "load" /\ code[b][j].op = "load"
            /\ code[b][i].val = code[b][j].val
            => i = j
  /\ runs = 0 /\ phase \in {"Place", "Rename"} =>
       \A v \in Var : \E i \in DOMAIN code[Entry] :
         /\ code[Entry][i].op = "alloca" /\ code[Entry][i].var = v
         /\ \A j \in 1..i : code[Entry][j].op = "alloca"

\* The phi nodes of v are in the least set that holds the frontiers they need.
NoMorePhis(v) ==
  \A P \in SUBSET Block : HoldsFrontiers(v, P) => PhiBlocks(v) \subseteq P
Placed(v) == HoldsFrontiers(v, PhiBlocks(v)) /\ NoMorePhis(v)

\* The allocas that were looked at have their phi nodes but for the last one;
\* worked holds the blocks of its stores and phi nodes, and the phi nodes are
\* on the frontiers of those of them that are not waiting in work.
PhisPlaced ==
  /\ phase # "Place" => work = {}
  /\ phase = "Rename" => \A v \in promoted : Placed(v)
  /\ phase = "Place" =>
       /\ promoted \intersect todo = {}
       /\ placing \notin todo
       /\ \A phi \in mine : phi[2] \in promoted
       /\ \A v \in promoted \ {placing} : Placed(v)
       /\ placing \notin promoted => work = {}
       /\ placing \in promoted =>
            /\ worked = StoreBlocks(placing) \union PhiBlocks(placing)
            /\ work \subseteq worked
            /\ \A X \in worked \ work : df[X] \subseteq PhiBlocks(placing)
            /\ NoMorePhis(placing)

\* The calls of replaceUses() go down the dominator tree; each but the last
\* one is among its children, and has yet to visit other ones.
Walk ==
  /\ phase \in {"Place", "Erase", "Done"} => frames = <<>>
  /\ phase = "Place" => \A v \in Stack : varStack[v] = <<>>
  /\ phase = "Rename" =>
       /\ frames # <<>>
       /\ frames[1].block = Entry
       /\ \A k \in DOMAIN frames :
            /\ frames[k].kids \subseteq kids[frames[k].block]
            /\ k # Len(frames) =>
                 /\ frames[k].at > Len(code[frames[k].block]) + 1
                 /\ frames[k + 1].block \in kids[frames[k].block] \ frames[k].kids

\* Instruction i of block b is yet to come.
Pending(b, i) ==
  \/ \E k \in DOMAIN frames : \E c \in frames[k].kids : Dominates(succ, c, b)
  \/ b = Frame.block /\ i >= Frame.at

\* The phi nodes lack no operand but those of the blocks whose end is to come.
PhisFilled ==
  phase = "Rename" =>
    \A phi \in phis : \A p \in Preds(phi[1]) :
      p \in DOMAIN incoming[phi] \/ Pending(p, Len(code[p]) + 1)

\* The loads of promoted allocas that were visited are used no more, and the
\* stacks hold no such load.
PromotedLoad(b, i) == code[b][i].op = "load" /\ code[b][i].var \in promoted
Unused(val) ==
  /\ \A b \in Block : \A j \in DOMAIN code[b] :
       code[b][j].op # "load" => code[b][j].val # val
  /\ \A phi \in phis : \A p \in DOMAIN incoming[phi] : incoming[phi][p] # val
LoadsReplaced ==
  /\ phase = "Rename" =>
       \A b \in Block : \A i \in DOMAIN code[b] : PromotedLoad(b, i) =>
         /\ Pending(b, i) \/ Unused(code[b][i].val)
         /\ \A v \in Stack : \A j \in DOMAIN varStack[v] :
              varStack[v][j] # code[b][i].val
  /\ phase = "Erase" =>
       \A b \in Block : \A i \in DOMAIN code[b] :
         PromotedLoad(b, i) => Unused(code[b][i].val)

\* The values a call found on the stacks or has pushed, up to heights[k], are
\* there where it has come to; what is above it pops again.
StacksFit(heights) ==
  /\ \A v \in Stack :
       /\ heights[Len(frames)][v] = Len(varStack[v])
       /\ frames[1].pushed[v] <= heights[1][v]
       /\ \A k \in DOMAIN frames :
            /\ k # 1 => heights[k][v] = heights[k - 1][v] + frames[k].pushed[v]
            /\ \A l \in 1..k : heights[l][v] <= heights[k][v]
            /\ \A j \in 1..heights[k][v] :
                 Available(succ, code, phis, varStack[v][j], frames[k].block,
                           frames[k].at)
  /\ runs = 0 =>
       \A k \in DOMAIN frames : \A i \in DOMAIN code[Entry] :
         code[Entry][i].op = "alloca" /\ (k # 1 \/ frames[1].at > i) =>
           heights[k][code[Entry][i].var] >= 1
StacksAvailable ==
  phase = "Rename" =>
    \E heights \in [DOMAIN frames -> [Stack -> Nat]] : StacksFit(heights)

\* All phi nodes are those of the first run, which reads no empty stack.
FirstRun == runs = 0 => mine = phis /\ StacksHoldAValue

IInv ==
  /\ TypeOK
  /\ CodeShape
  /\ PhisPlaced
  /\ Walk
  /\ PhisFilled
  /\ PhisComplete
  /\ LoadsReplaced
  /\ StacksAvailable
  /\ FirstRun
  /\ InSSA(succ, code, phis, incoming)
=============================================================================
