-------------------------- MODULE MCDominatorTree --------------------------
(***************************************************************************)
(* Small instances of DominatorTree for TLC.                               *)
(***************************************************************************)
EXTENDS DominatorTree, FiniteSetsExt

CONSTANT MaxEdges   \* bound: the edges of the graph

Blocks == 1..NBlock
Targets == {<<>>} \union {<<b>> : b \in Blocks \ {Entry}}
             \union {t \in (Blocks \ {Entry}) \X (Blocks \ {Entry}) : t[1] # t[2]}

\* Every control flow graph of at most MaxEdges edges, up to the names of its
\* blocks: they are numbered as a breadth-first search finds them.
FoundInOrder(g) ==
  LET Found(b) == Max({1} \union UNION {{g[c][i] : i \in DOMAIN g[c]} : c \in 1..b})
  IN \A b \in Blocks :
       /\ b < NBlock => Found(b) > b
       /\ \A i \in DOMAIN g[b] :
            g[b][i] <= 1 + Max({Found(b - 1)} \union {g[b][j] : j \in 1..(i - 1)})

SmallCFGs ==
  {g \in [Blocks -> Targets] :
     /\ FoldSet(LAMBDA b, n : n + Len(g[b]), 0, Blocks) <= MaxEdges
     /\ FoundInOrder(g)}
=============================================================================
