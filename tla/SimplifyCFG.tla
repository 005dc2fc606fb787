----------------------------- MODULE SimplifyCFG -----------------------------
(***************************************************************************)
(* The pass simplifycfg (passes/transform/SimplifyCFG.cc): dead            *)
(* instructions go, a block is merged with its only successor if it is the *)
(* only predecessor of it, until nothing changes; then the blocks that     *)
(* were not visited are erased, one after the other.                       *)
(*                                                                         *)
(* Every operation returns the function and whether it changed anything.   *)
(***************************************************************************)
EXTENDS TIR

Changed(F, changed) == [state |-> F, changed |-> changed]

----------------------------------------------------------------------------
(* Simplifications of the block bb *)

FirstTerminator(F, bb) ==
    CHOOSE k \in DOMAIN F.blocks[bb] :
      /\ IsTerminator(F.instrs[F.blocks[bb][k]])
      /\ \A j \in 1..(k - 1) : ~IsTerminator(F.instrs[F.blocks[bb][j]])

\* Mutant: a call whose result is not used is dead as well.
SweptUnused(F, bb, i) ==
    IF F.instrs[i].op = "store" \/ Users(F, Result(F, i)) # {} THEN F
    ELSE eraseFromParent(F, bb, i)

\* One sweep forward: an operand that is dead only once its user is gone
\* comes before it, and waits for the next sweep.
Swept(F, bb, i) ==
    IF HasSideEffects(F.instrs[i]) \/ Users(F, Result(F, i)) # {} THEN F
    ELSE eraseFromParent(F, bb, i)

\* Then everything behind the first terminator.
deleteDeadInstructions(F, bb) ==
    LET end == FirstTerminator(F, bb)
        Sweep(G, i) == Swept(G, bb, i)
        Cut(G, i) == eraseFromParent(G, bb, i)
        swept == FoldLeft(Sweep, F, SubSeq(F.blocks[bb], 1, end - 1))
        cut == FoldLeft(Cut, swept, SubSeq(F.blocks[bb], end + 1, Len(F.blocks[bb])))
    IN Changed(cut, cut.blocks[bb] # F.blocks[bb])

\* The instructions of succ move into bb and keep their uses. Once the branch
\* to it is gone nothing uses succ.
Merged(F, bb, succ) ==
    LET cut == eraseFromParent(F, bb, Last(F.blocks[bb]))
        moved == [cut EXCEPT !.blocks = [@ EXCEPT ![bb] = @ \o cut.blocks[succ],
                                                  ![succ] = <<>>]]
    IN eraseBlock(replaceAllUsesWith(moved, BlockOf(succ), BlockOf(bb)), succ)

mergeSinglePredSingleSucc(F, bb) ==
    LET succ == getSuccessor(F, bb, 0)
    IN IF /\ EndsInBranch(F, bb)
          /\ getSuccessor(F, bb, 1) = succ
          /\ Users(F, BlockOf(succ)) = {Last(F.blocks[bb])}
       THEN Changed(Merged(F, bb, succ), TRUE)
       ELSE Changed(F, FALSE)

----------------------------------------------------------------------------
(* The pass *)

SimplifyBlock(F, bb) ==
    LET deleted == deleteDeadInstructions(F, bb)
        merged == mergeSinglePredSingleSucc(deleted.state, bb)
    IN Changed(merged.state, deleted.changed \/ merged.changed)

\* v is [state, changed, visited]. For a block that does not end in a branch
\* FALSE is returned, whatever has changed in it.
RECURSIVE visitBB(_, _)
visitBB(v, bb) ==
    LET here == SimplifyBlock(v.state, bb)
        Seen(s, changed) == [state |-> s, changed |-> changed, visited |-> v.visited \cup {bb}]
        Both(F) == visitBB(visitBB(Seen(F, v.changed \/ here.changed), getSuccessor(F, bb, 0)),
                           getSuccessor(F, bb, 1))
    IN IF bb \in v.visited THEN v
       ELSE IF EndsInBranch(here.state, bb) THEN Both(here.state)
       ELSE Seen(here.state, v.changed)

\* One round of the loop in runOnFunction.
Round(F) == visitBB([state |-> F, changed |-> FALSE, visited |-> {}], Entry)

\* The blocks of the function that a round has not visited, the newest first.
Unvisited(round) == SelectSeq(round.state.body, LAMBDA b : b \notin round.visited)
=============================================================================
