--------------------------- MODULE CompiledFunction ---------------------------
(***************************************************************************)
(* A static method on its way through the middle end: code is emitted for  *)
(* it (CodeGen), simplifycfg simplifies it round after round and then      *)
(* erases the blocks it has not visited (SimplifyCFG). At every stage the  *)
(* function is run, on every input, and compared with the method.          *)
(***************************************************************************)
EXTENDS JavaBodies, SimplifyCFG

CONSTANTS
  Bodies,          \* the methods
  Inputs(_),       \* the inputs of a method: [args, statics, arrays]
  JavaFuel, Fuel   \* bounds of a run: iterations of the method's loops,
                   \* blocks of the function

VARIABLES
  method,    \* a method of Bodies
  fn,        \* its function
  phase,     \* source, emitted, removing, done, or killed by an assertion
  todo       \* toRemove: the blocks still to be erased

vars == <<method, fn, phase, todo>>

Init ==
    /\ method \in Bodies
    /\ fn = EmptyFunction
    /\ phase = "source"
    /\ todo = <<>>

EmitFunction ==
    /\ phase = "source"
    /\ fn' = emitFunction(method)
    /\ phase' = IF fn'.dead THEN "killed" ELSE "emitted"
    /\ UNCHANGED <<method, todo>>

\* One round, the last one if it reports no change.
Simplify ==
    /\ phase = "emitted"
    /\ \E round \in {Round(fn)} :
         /\ fn' = round.state
         /\ phase' = IF round.changed THEN "emitted" ELSE "removing"
         /\ todo' = IF round.changed THEN <<>> ELSE Unvisited(round)
    /\ UNCHANGED method

EraseBlock ==
    /\ phase = "removing"
    /\ todo # <<>>
    /\ fn' = eraseBlock(fn, Head(todo))
    /\ phase' = IF fn'.dead THEN "killed" ELSE "removing"
    /\ todo' = Tail(todo)
    /\ UNCHANGED method

End ==
    /\ phase = "removing"
    /\ todo = <<>>
    /\ phase' = "done"
    /\ UNCHANGED <<method, fn, todo>>

\* Nothing more happens to a function that is finished or refused.
Ended ==
    /\ phase \in {"done", "killed"}
    /\ UNCHANGED vars

Next == EmitFunction \/ Simplify \/ EraseBlock \/ End \/ Ended

Spec == Init /\ [][Next]_vars

----------------------------------------------------------------------------
(* Running the function *)

Cells(arrays) ==
    UNION {{<<<<"field", 2 * k, 0>>, <<"i32", Len(arrays[k].elems)>>>>,
            <<<<"field", 2 * k, 1>>, <<"ptr", <<"block", 2 * k - 1, 0>>>>>>}
           \cup {<<<<"elem", 2 * k - 1, i - 1>>,
                   <<emitType(arrays[k].type), Pattern(emitType(arrays[k].type),
                                                       arrays[k].elems[i])>>>> :
                 i \in DOMAIN arrays[k].elems} : k \in DOMAIN arrays}

Sizes(arrays) ==
    [b \in 1..(2 * Len(arrays)) |->
       IF b % 2 = 0 THEN ArraySizeInBytes
       ELSE Len(arrays[(b + 1) \div 2].elems) * SizeInBytes[emitType(arrays[(b + 1) \div 2].type)]]

Statics(input) == {<<<<"static", x, 0>>, Bare(input.statics[x])>> : x \in DOMAIN input.statics}

Memory(input) ==
    LET cells == Cells(input.arrays) \cup Statics(input)
    IN [a \in {c[1] : c \in cells} |-> (CHOOSE c \in cells : c[1] = a)[2]]

\* A reference to the array k is the address of its structure.
Address(v) == IF v[1] # "ptr" THEN v
              ELSE <<"ptr", IF v[2] = 0 THEN NullAddress ELSE <<"block", 2 * v[2], 0>>>>
Args(input) == [k \in DOMAIN input.args |-> Address(Bare(input.args[k]))]

ArrayIn(M, k) ==
    LET Cell(i) == <<"elem", 2 * k - 1, i - 1>>
    IN [i \in 1..M.mem[<<"field", 2 * k, 0>>][2] |->
          IF Cell(i) \in DOMAIN M.mem THEN M.mem[Cell(i)][2] ELSE 0]

\* What a run shows: of an endless one, only that it is endless.
Seen(M, statics, arrays) ==
    IF M.outcome = "endless" THEN <<"endless">>
    ELSE <<M.outcome, M.value, M.log, statics, arrays>>

RunOf(input) ==
    RunFunction(fn, emitType(method.returns), Args(input), Memory(input),
                Sizes(input.arrays), Fuel)
Observed(M, input) ==
    Seen(M, [x \in DOMAIN input.statics |-> M.mem[<<"static", x, 0>>]],
         [k \in 1..(Len(M.blocks) \div 2) |-> ArrayIn(M, k)])

----------------------------------------------------------------------------
(* Running the method *)

JavaRunOf(input) ==
    LET locals == [x \in {p.name : p \in ToSet(method.params \o method.locals)} |->
                     IF \E k \in DOMAIN method.params : method.params[k].name = x
                     THEN input.args[CHOOSE k \in DOMAIN method.params :
                                       method.params[k].name = x][3]
                     ELSE 0]
    IN Run(Departures,
           [locals |-> locals, statics |-> [x \in DOMAIN input.statics |-> input.statics[x][3]],
            arrays |-> input.arrays,
            log |-> <<>>, fuel |-> JavaFuel, outcome |-> "running", value |-> NoValue],
           method.body, method.returns)

Completed(s) ==
    IF s.outcome # "running" THEN s
    ELSE IF method.returns = "void" THEN Stop(s, "returned") ELSE Undefined(s)

\* The elements of the arrays as bits, whatever their type.
Expected(s, M, input) ==
    Seen(s, [x \in DOMAIN input.statics |-> Bare(Value(input.statics[x][2], s.statics[x]))],
         [k \in DOMAIN s.arrays |->
            [i \in DOMAIN s.arrays[k].elems |->
               Pattern(emitType(s.arrays[k].type), s.arrays[k].elems[i])]])

----------------------------------------------------------------------------
(* Methods there is no code for *)

\* The operand of a minus, behind plus signs, is narrower than an int.
RECURSIVE IsNarrow(_)
IsNarrow(t) ==
    IF t.n.node = "UnaryOp" /\ t.n.op = "+" THEN IsNarrow(t.kids[1])
    ELSE t.n.val.type \in {"byte", "short", "char"}

RECURSIVE Refused(_)
Refused(t) ==
    \/ t.n.op = "AbstractMethod"
    \/ t.n.node = "UnaryOp" /\ t.n.op = "-" /\ IsNarrow(t.kids[1])
    \/ t.n.node = "BinaryOp" /\ t.n.op \in {"&", "|", "+"} /\ t.n.val.type # "int"
    \/ t.n.node = "Cast" /\ IsReference(t.n.val.type)
    \/ \E k \in DOMAIN t.kids : Refused(t.kids[k])

RECURSIVE HasRefused(_)
HasRefused(stmt) ==
    \/ stmt.e # <<>> /\ Refused(Tree(stmt.e))
    \/ \E k \in DOMAIN stmt.s : HasRefused(stmt.s[k])

\* More than one block is emitted for it.
RECURSIVE Branches(_)
Branches(stmt) ==
    \/ stmt.k \in {"If", "While", "For"}
    \/ \E k \in DOMAIN stmt.e : stmt.e[k].op \in {"&&", "||"}
    \/ \E k \in DOMAIN stmt.s : Branches(stmt.s[k])

\* Control leaves it at its end. A condition is taken to be either.
RECURSIVE Completes(_)
Completes(stmt) ==
    CASE stmt.k = "Return" -> FALSE
      [] stmt.k = "Block" -> \A k \in DOMAIN stmt.s : Completes(stmt.s[k])
      [] stmt.k = "For" -> stmt.e # <<>>
      [] stmt.k = "If" -> \E k \in DOMAIN stmt.s : Completes(stmt.s[k])
      [] OTHER -> TRUE

\* Code with several blocks that is never reached: the newest of them is
\* erased first, while another still branches to it.
RECURSIVE StrayBlocks(_)
StrayBlocks(stmt) ==
    \/ \E j, k \in DOMAIN stmt.s :
         /\ stmt.k \in {"Block", "For"} /\ j < k
         /\ ~Completes(stmt.s[j]) /\ Branches(stmt.s[k])
    \/ \E k \in DOMAIN stmt.s : StrayBlocks(stmt.s[k])

Unsupported == HasRefused(method.body) \/ StrayBlocks(method.body)

----------------------------------------------------------------------------
(* Properties *)

SameRun(input, s, M) == s.outcome = "undefined" \/ Observed(M, input) = Expected(s, M, input)

\* The code emitted for a method does what the language says, with the known
\* departures: it returns the same value, changes the same fields and array
\* elements, calls the same methods with the same arguments in the same order,
\* throws or runs forever on the same inputs. It does so before, between and
\* after the rounds of simplifycfg and while blocks are erased. The compiler
\* fails on the methods of Unsupported, and on no other.
CompiledAsJava ==
    /\ phase = "killed" => Unsupported
    /\ phase = "done" => ~Unsupported
    /\ phase \in {"emitted", "removing", "done"} =>
         \A input \in Inputs(method) : SameRun(input, Completed(JavaRunOf(input)), RunOf(input))

InBody == UNION {ToSet(fn.blocks[b]) : b \in ToSet(fn.body)}

\* Between the rounds of simplifycfg and at its end, the uses a value records
\* are those of the instructions that are still in the function, each once,
\* and none of them uses an instruction that was erased: erasing, merging and
\* replacing keep both directions of the use-def graph together.
UsesExact ==
    phase \in {"emitted", "done"} =>
      /\ fn.uses = UNION {UsesOf(i, fn.instrs[i].kids) : i \in InBody}
      /\ \A u \in fn.uses : u[1][1] = "instr" => u[1][3] \in InBody
      /\ \A u \in fn.uses : u[1][1] = "block" => u[1][3] \in ToSet(fn.body)
=============================================================================
