------------------------ MODULE MCPromotedFunction -------------------------
(***************************************************************************)
(* Small functions for MemToReg and PromotedFunction.                      *)
(***************************************************************************)
EXTENDS PromotedFunction, FiniteSetsExt

CONSTANT MaxEdges   \* bound: the edges of the graph

Blocks == 1..NBlock
Targets == {<<>>} \union {<<b>> : b \in Blocks \ {Entry}}
             \union {t \in (Blocks \ {Entry}) \X (Blocks \ {Entry}) : t[1] # t[2]}

\* The graphs of at most MaxEdges edges whose blocks are numbered as a
\* breadth-first search finds them.
FoundInOrder(g) ==
  LET Found(b) == Max({1} \union UNION {{g[c][i] : i \in DOMAIN g[c]} : c \in 1..b})
  IN \A b \in Blocks :
       /\ b < NBlock => Found(b) > b
       /\ \A i \in DOMAIN g[b] :
            g[b][i] <= 1 + Max({Found(b - 1)} \union {g[b][j] : j \in 1..(i - 1)})

SmallCFGs ==
  {g \in [Blocks -> Targets] :
     /\ FoldSet(LAMBDA b, n : n + Len(g[b]), 0, Blocks) <= MaxEdges
     /\ FoundInOrder(g)}

\* Two variables, of which y may be declared in inner scopes only.
x == 1
y == 2
alloca(v)      == [op |-> "alloca", var |-> v, val |-> Alloca(v)]
store(v, val)  == [op |-> "store", var |-> v, val |-> val]
load(v, b, n)  == [op |-> "load", var |-> v, val |-> Loaded(b, n)]
use(val)       == [op |-> "use", var |-> NoVar, val |-> val]

EntryCode == <<alloca(x), alloca(y), store(x, Const(1)), load(x, Entry, 4)>>

\* A receiver loaded in the entry block is used after "and" and "or" in the
\* arguments of its call.
Assign(b)   == <<store(x, Const(2 * b)), use(Loaded(Entry, 4))>>
Exchange(b) == <<load(x, b, 1), load(y, b, 2), store(y, Loaded(b, 1)),
                 store(x, Loaded(b, 2))>>
Read(b)     == <<load(x, b, 1), use(Loaded(b, 1))>>
Scope(b)    == <<store(y, Const(2 * b + 1)), load(y, b, 2), use(Loaded(b, 2)),
                 store(x, Loaded(b, 2))>>

Inside == Blocks \ {Entry}

Outer == {[b \in Blocks |->
             IF b = Entry THEN Append(EntryCode, store(y, Const(2)))
             ELSE IF b \in read THEN Read(b)
             ELSE IF b \in assign THEN Assign(b) ELSE Exchange(b)] :
            read \in SUBSET Inside, assign \in SUBSET Inside}
Inner == {[b \in Blocks |-> IF b = Entry THEN EntryCode
                            ELSE IF b \in scope THEN Scope(b) ELSE Assign(b)] :
            scope \in SUBSET Inside}

MCFunctions == [succ : SmallCFGs, code : Outer \union Inner]
=============================================================================
