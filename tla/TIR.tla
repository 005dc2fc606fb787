-------------------------------- MODULE TIR --------------------------------
(***************************************************************************)
(* The intermediate representation a function is compiled to and           *)
(* simplified in (include/tir/): values and their uses, instructions,      *)
(* basic blocks, and the IRBuilder that appends to them.                   *)
(*                                                                         *)
(* A function is a record                                                  *)
(*   instrs   the instructions ever created, an instruction is its index   *)
(*   blocks   the instructions of each block ever created, in order        *)
(*   body     the blocks of the function, the newest first                 *)
(*   uses     what uses what: <<value, instruction, index of the child>>   *)
(*   at       the insertion point: a block and an instruction, or 0 if the *)
(*            block was empty                                              *)
(*   slots    CodeGenerator::valueMap, the alloca of each local variable   *)
(*   dead     whether an assertion has failed                              *)
(***************************************************************************)
EXTENDS Integers, Sequences, FiniteSets, SequencesExt

(* Types. Integers are narrower than in the code, with bytes of two bits:  *)
(* what matters is that each is narrower than the next.                    *)
Bits == [i1 |-> 1, i8 |-> 2, i16 |-> 3, i32 |-> 4, i64 |-> 5]

\* (getSizeInBits() + 1) / 8, which is 0 for i1.
SizeInBytes == [i1 |-> 0, i8 |-> 1, i16 |-> 2, i32 |-> 4, ptr |-> 8]

(* Values: kind, type and which one. A constant is masked to its type.     *)
CreateInt(ty, n) == <<"int", ty, n % 2 ^ Bits[ty]>>
CreateBool(b)    == CreateInt("i1", IF b THEN 1 ELSE 0)
Null         == <<"null", "ptr", 0>>
Argument(ty, i)  == <<"arg", ty, i>>
Global(name)     == <<"global", "ptr", name>>
Callee(ty, name) == <<"fn", ty, name>>     \* ty is what it returns
BlockOf(b)       == <<"block", "label", b>>
Result(F, i)     == <<"instr", F.instrs[i].ty, i>>
TypeOf(v)        == v[2]

(* Instructions. what is the operator, the predicate or the allocated type.*)
Instr(op, ty, what, kids) == [op |-> op, ty |-> ty, what |-> what, kids |-> kids]

AllocaInst(ty)       == Instr("alloca", "ptr", ty, <<>>)
LoadInst(ty, ptr)    == Instr("load", ty, "", <<ptr>>)
StoreInst(val, ptr)  == Instr("store", "void", "", <<val, ptr>>)
BinaryInst(op, l, r) == Instr("bin", TypeOf(l), op, <<l, r>>)
CmpInst(pred, l, r)  == Instr("cmp", "i1", pred, <<l, r>>)
ICastInst(op, v, ty) == Instr("cast", ty, op, <<v>>)
CallInst(fn, args)   == Instr("call", TypeOf(fn), "", <<fn>> \o args)
BranchInst(c, t, f)  == Instr("br", "void", "", <<c, BlockOf(t), BlockOf(f)>>)
JumpTo(b)            == BranchInst(CreateBool(TRUE), b, b)
ReturnInst(vals)     == Instr("ret", IF vals = <<>> THEN "void" ELSE TypeOf(vals[1]), "", vals)
GetElementPtrInst(ptr, ty, idx) == Instr("gep", "ptr", ty, <<ptr, idx>>)

\* No function has the attribute that makes a call a terminator.
IsTerminator(i)   == i.op \in {"br", "ret"}
HasSideEffects(i) == i.op \in {"store", "call"}

----------------------------------------------------------------------------
(* Uses *)

Users(F, v) == {u[2] : u \in {u \in F.uses : u[1] = v}}
UsesOf(i, kids) == {<<kids[k], i, k>> : k \in DOMAIN kids}

replaceAllUsesWith(F, old, new) ==
    LET Replaced(kids) == [k \in DOMAIN kids |-> IF kids[k] = old THEN new ELSE kids[k]]
        WithNew(instr) == [instr EXCEPT !.kids = Replaced(instr.kids)]
    IN [F EXCEPT
          !.instrs = [i \in DOMAIN F.instrs |-> IF i \in Users(F, old)
                                                THEN WithNew(F.instrs[i]) ELSE F.instrs[i]],
          !.uses = {IF u[1] = old THEN <<new, u[2], u[3]>> ELSE u : u \in @}]

\* The uses of its children end.
destroy(F, i) == [F EXCEPT !.uses = @ \ UsesOf(i, F.instrs[i].kids)]

----------------------------------------------------------------------------
(* Instructions in blocks *)

Create(F, i) == [F EXCEPT !.instrs = Append(@, i),
                          !.uses = @ \cup UsesOf(Len(F.instrs) + 1, i.kids)]
Newest(F) == Len(F.instrs)

appendAfterEnd(F, b, i)    == [F EXCEPT !.blocks[b] = Append(@, i)]
insertBeforeBegin(F, b, i) == [F EXCEPT !.blocks[b] = <<i>> \o @]

insertAfter(F, b, i, before) ==
    LET k == CHOOSE k \in DOMAIN F.blocks[b] : F.blocks[b][k] = before
    IN [F EXCEPT !.blocks[b] = InsertAt(@, k + 1, i)]

Unlink(F, b, i) == [F EXCEPT !.blocks[b] = SelectSeq(@, LAMBDA j : j # i)]
\* Mutant: the uses of its operands stay.
eraseOnly(F, b, i) == Unlink(F, b, i)
eraseFromParent(F, b, i) == destroy(Unlink(F, b, i), i)

Terminator(F, b) == F.instrs[Last(F.blocks[b])]
EndsInBranch(F, b) == Terminator(F, b).op = "br"
getSuccessor(F, b, k) == Terminator(F, b).kids[k + 2][3]

----------------------------------------------------------------------------
(* Functions *)

Kill(F) == [F EXCEPT !.dead = TRUE]

createBasicBlock(F) == [F EXCEPT !.blocks = Append(@, <<>>),
                                 !.body = <<Len(F.blocks) + 1>> \o @]
NewestBlock(F) == Len(F.blocks)
Entry == 1

\* At the front of the entry block; the insertion point stays where it is.
createAlloca(F, ty) ==
    insertBeforeBegin(Create(F, AllocaInst(ty)), Entry, Newest(F) + 1)

removeBlock(F, b) ==
    LET Released == FoldLeft(destroy, F, F.blocks[b])
    IN [Released EXCEPT !.body = SelectSeq(@, LAMBDA c : c # b)]

\* BasicBlock::eraseFromParent asserts that nothing uses the block.
eraseBlock(F, b) == IF Users(F, BlockOf(b)) # {} THEN Kill(F) ELSE removeBlock(F, b)

EmptyFunction ==
    [instrs |-> <<>>, blocks |-> <<>>, body |-> <<>>, uses |-> {},
     at |-> [bb |-> Entry, instr |-> 0], slots |-> << >>, dead |-> FALSE]

----------------------------------------------------------------------------
(* IRBuilder *)

\* At the beginning of a block, which is empty.
setInsertPoint(F, b) == [F EXCEPT !.at = [bb |-> b, instr |-> 0]]

\* A new instruction goes after the last one that was inserted.
Placed(F, at) ==
    [IF at.instr = 0 THEN appendAfterEnd(F, at.bb, Newest(F))
     ELSE insertAfter(F, at.bb, Newest(F), at.instr) EXCEPT !.at.instr = Newest(F)]
insert(F, i) == Placed(Create(F, i), F.at)

Inserted(F) == Result(F, F.at.instr)
=============================================================================
