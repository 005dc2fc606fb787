-------------------------------- MODULE CodeGen -------------------------------
(***************************************************************************)
(* CGExprEvaluator (lib/codegen/CGExpr.cc): the code emitted for an        *)
(* expression. The evaluator walks the list of nodes in reverse Polish     *)
(* notation; its state is the function under construction, and an operand  *)
(* is a ValueWrapper: an R-value, an L-value that is loaded when it is     *)
(* used, a function or a type. The node's val holds the name and the AST   *)
(* type it was resolved to, and the number of a literal.                   *)
(*                                                                         *)
(* Every operation returns the record [value, state]. After a failed       *)
(* assertion the function is dead and nothing more is emitted.             *)
(***************************************************************************)
EXTENDS TIR

(* AST types *)

NumericTypes == {"byte", "short", "char", "int"}
ElementType == [A \in {"int[]", "byte[]", "boolean[]"} |->
                  CASE A = "int[]" -> "int" [] A = "byte[]" -> "byte"
                    [] OTHER -> "boolean"]

emitType(type) ==
    CASE type = "void" -> "void"
      [] type = "boolean" -> "i1"
      [] type = "byte" -> "i8"
      [] type \in {"char", "short"} -> "i16"
      [] type = "int" -> "i32"
      [] OTHER -> "ptr"

----------------------------------------------------------------------------
(* ValueWrapper *)

Wrapped(kind, astType, type, value, this) ==
    [kind |-> kind, astType |-> astType, type |-> type, value |-> value, this |-> this]

NoThis == <<>>
L(astType, type, ptr)  == Wrapped("L", astType, type, ptr, NoThis)
R(astType, value)      == Wrapped("R", astType, TypeOf(value), value, NoThis)
Fn(kind, fn, this)     == Wrapped(kind, "void", "void", fn, this)
AstType(astType)       == Wrapped("AstType", astType, "void", Null, NoThis)
AstDecl(name)          == Wrapped("AstDecl", name, "void", Null, NoThis)
Nothing                == Wrapped("none", "void", "void", Null, NoThis)

With(value, F)   == [value |-> value, state |-> F]
RValue(astType, r) == With(R(astType, r.value), r.state)

\* The value of the instruction that was inserted last.
Latest(F)     == With(Inserted(F), F)
Emit(F, instr) == Latest(insert(F, instr))

\* An L-value is loaded, here and now.
asRValue(F, t) ==
    IF t.kind = "L" THEN Emit(F, LoadInst(t.type, t.value)) ELSE With(t.value, F)

\* The loads of the operands of one instruction, whose order is left to the
\* compiler of the compiler and makes no difference.
Collected(done, r) == [values |-> Append(done.values, r.value), state |-> r.state]
asRValues(F, ts) ==
    FoldLeft(LAMBDA done, t : Collected(done, asRValue(done.state, t)),
             [values |-> <<>>, state |-> F], ts)

\* What the evaluator asserts of every result.
validate(t) ==
    /\ t.kind \in {"L", "R"} => t.type = emitType(t.astType)
    /\ t.kind = "StaticFn" => t.value # Null

----------------------------------------------------------------------------
(* Operands *)

mapLiteral(n) ==
    CASE n.val.type \in NumericTypes -> R(n.val.type, CreateInt(emitType(n.val.type), n.val.n))
      [] n.val.type = "boolean" -> R("boolean", CreateBool(n.val.n = 1))
      [] n.val.type = "String" -> L("String", "ptr", Null)
      [] OTHER -> R(n.val.type, Null)

mapValue(F, n) ==
    With(CASE F.dead -> Nothing
           [] n.op = "Literal" -> mapLiteral(n)
           [] n.op = "Type" -> AstType(n.val.type)
           [] n.op = "StaticField" -> L(n.val.type, emitType(n.val.type), Global(n.val.name))
           [] n.op = "Local" -> L(n.val.type, emitType(n.val.type), F.slots[n.val.name])
           [] n.op = "Field" -> AstDecl(n.val.name)
           \* There is no function for an abstract method.
           [] n.op = "AbstractMethod" -> Fn("MemberFn", Null, NoThis)
           [] n.op = "StaticMethod" ->
                Fn("StaticFn", Callee(emitType(n.val.type), n.val.name), NoThis)
           [] OTHER -> Fn("MemberFn", Callee(emitType(n.val.type), n.val.name), NoThis),
         IF n.op = "AbstractMethod" THEN Kill(F) ELSE F)

----------------------------------------------------------------------------
(* Operations *)

CastOp(from, to) ==
    IF Bits[to] < Bits[emitType(from)] THEN "Trunc"
    ELSE IF from = "char" THEN "ZExt" ELSE "SExt"

ICast(r, op, type, astType) ==
    RValue(astType, Emit(r.state, ICastInst(op, r.value, type)))

\* The operand must be numeric. One of the right width is returned as it is.
castIntegerType(F, astType, type, t) ==
    IF t.astType \notin NumericTypes THEN With(Nothing, Kill(F))
    ELSE IF emitType(t.astType) = type THEN With(t, F)
    ELSE ICast(asRValue(F, t), CastOp(t.astType, type), type, astType)

evalAssignment(s, lhs) == With(lhs, insert(s.state, StoreInst(s.values[1], lhs.value)))

getPredicate == [op \in {">", ">=", "<", "<=", "==", "!="} |->
    CASE op = ">" -> "GT" [] op = ">=" -> "GE" [] op = "<" -> "LT"
      [] op = "<=" -> "LE" [] op = "==" -> "EQ" [] OTHER -> "NE"]
getBinOp == [op \in {"+", "-", "*", "/", "%", "&", "|"} |->
    CASE op = "+" -> "Add" [] op = "-" -> "Sub" [] op = "*" -> "Mul"
      [] op = "/" -> "Div" [] op = "%" -> "Rem" [] op = "&" -> "And" [] OTHER -> "Or"]

evalComparison(s, n) ==
    RValue(n.val.type, Emit(s.state, CmpInst(getPredicate[n.op], s.values[1], s.values[2])))

\* Both operands have been evaluated: only the load of the right one, if it
\* is an L-value, is left to the block it is skipped in.
ShortCircuit(F, n, lhs, rhs) ==
    LET tmp == <<"instr", "ptr", Newest(F) + 1>>
        bb1 == NewestBlock(F) + 1
        bb2 == NewestBlock(F) + 2
        Left(r) == insert(insert(r.state, StoreInst(r.value, tmp)),
                          IF n.op = "&&" THEN BranchInst(r.value, bb1, bb2)
                          ELSE BranchInst(r.value, bb2, bb1))
        Right(r) == insert(insert(r.state, StoreInst(r.value, tmp)), JumpTo(bb2))
        Before(G) == asRValue(createBasicBlock(createBasicBlock(createAlloca(G, "i1"))), lhs)
    IN With(L(n.val.type, "i1", tmp),
            setInsertPoint(Right(asRValue(setInsertPoint(Left(Before(F)), bb1), rhs)), bb2))

\* Computed in i32, and asserted to be wanted in it.
evalArithmetic(s, n) ==
    IF s.state.dead \/ emitType(n.val.type) # "i32" THEN With(Nothing, Kill(s.state))
    ELSE RValue(n.val.type, Emit(s.state, BinaryInst(getBinOp[n.op], s.values[1], s.values[2])))

BothPromoted(l, r) ==
    IF r.state.dead THEN [values |-> <<>>, state |-> r.state]
    ELSE asRValues(r.state, <<l.value, r.value>>)
Promoted(l, n, rhs) == BothPromoted(l, castIntegerType(l.state, n.val.type, "i32", rhs))

evalBinaryOp(F, n, lhs, rhs) ==
    CASE n.op = "=" -> evalAssignment(asRValues(F, <<rhs>>), lhs)
      [] n.op \in DOMAIN getPredicate -> evalComparison(asRValues(F, <<lhs, rhs>>), n)
      [] n.op \in {"&&", "||"} -> ShortCircuit(F, n, lhs, rhs)
      [] n.op \in DOMAIN getBinOp ->
           evalArithmetic(Promoted(castIntegerType(F, n.val.type, "i32", lhs), n, rhs), n)
      [] OTHER -> With(R(n.val.type, CreateBool(FALSE)), F)    \* instanceof

\* Neither promotes its operand.
Unary(v, n, rhs) ==
    CASE n.op = "!" -> RValue(n.val.type,
           Emit(v.state, BinaryInst("Xor", v.value, CreateInt(TypeOf(v.value), -1))))
      [] n.op = "-" -> RValue(n.val.type,
           Emit(v.state, BinaryInst("Sub", CreateInt(TypeOf(v.value), 0), v.value)))
      [] OTHER -> With(rhs, v.state)
evalUnaryOp(F, n, rhs) == Unary(asRValue(F, rhs), n, rhs)

SizeField == 0
PtrField  == 1

\* A method, whose object becomes this, or the length of an array.
FieldOfArray(F, array, field) ==
    Emit(F, GetElementPtrInst(array, "Array", CreateInt("i64", field)))
LoadFrom(gep, type) == Emit(gep.state, LoadInst(type, gep.value))

MemberOf(obj, n, field) ==
    IF field.kind = "MemberFn" THEN With(Fn("MemberFn", field.value, <<obj.value>>), obj.state)
    ELSE IF field.astType = "length"
         THEN RValue(n.val.type, LoadFrom(FieldOfArray(obj.state, obj.value, SizeField), "i32"))
         ELSE With(Nothing, Kill(obj.state))
evalMemberAccess(F, n, lhs, field) == MemberOf(asRValue(F, lhs), n, field)

\* op_args holds the last argument first, and is not turned round.
CallWith(s, n, method) ==
    RValue(n.val.type, Emit(s.state, CallInst(method.value, method.this \o s.values)))
evalMethodCall(F, n, method, op_args) == CallWith(asRValues(F, op_args), n, method)

evalNewObject(F, n) == With(L(n.val.type, "ptr", Null), F)

StoreTo(gep, value) == insert(gep.state, StoreInst(value, gep.value))
emitSetArray(F, array, field, value) == StoreTo(FieldOfArray(F, array, field), value)

ArraySizeInBytes == SizeInBytes.i32 + SizeInBytes.ptr

malloc(F, bytes) == Emit(F, CallInst(Callee("ptr", "malloc"), <<bytes>>))

NewArray(size, n, elements) ==
    LET Total == Emit(size.state,
                      BinaryInst("Mul", size.value, CreateInt("i32", SizeInBytes[elements])))
        Data(total) == malloc(total.state, total.value)
        Filled(array, data) ==
          With(R(n.val.type, array.value),
               emitSetArray(emitSetArray(array.state, array.value, PtrField, data.value),
                            array.value, SizeField, size.value))
        Array(data) == Filled(malloc(data.state, CreateInt("i32", ArraySizeInBytes)), data)
    IN Array(Data(Total))

Sized(size, n, type) ==
    IF size.state.dead THEN size
    ELSE NewArray(asRValue(size.state, size.value), n, emitType(ElementType[type.astType]))
evalNewArray(F, n, type, size) == Sized(castIntegerType(F, "int", "i32", size), n, type)

\* The index is widened without its sign.
ArrayAccess(F, n, array, index) ==
    LET Checked == insert(F, CallInst(Callee("void", "check_array_bounds"), <<array, index>>))
        Element(data) ==
          Emit(data.state, GetElementPtrInst(data.value, emitType(n.val.type), index))
        Wrap(elem) == With(L(n.val.type, emitType(n.val.type), elem.value), elem.state)
    IN Wrap(Element(LoadFrom(FieldOfArray(Checked, array, PtrField), "ptr")))

evalArrayAccess(F, n, lhs, index) ==
    LET Index(array) ==
          asRValue(insert(array.state, CallInst(Callee("void", "check_null"), <<array.value>>)),
                   index)
        Wide(value) == Emit(value.state, ICastInst("ZExt", value.value, "i64"))
        Access(array, wide) == ArrayAccess(wide.state, n, array.value, wide.value)
        In(array) == Access(array, Wide(Index(array)))
    IN In(asRValue(F, lhs))

evalCast(F, n, type, value) ==
    CASE type.astType \in NumericTypes ->
           castIntegerType(F, n.val.type, emitType(type.astType), value)
      [] type.astType = "boolean" -> With(value, F)
      [] OTHER -> With(Nothing, Kill(F))

evalOp(F, n, args) ==
    CASE n.node = "BinaryOp" -> evalBinaryOp(F, n, args[1], args[2])
      [] n.node = "UnaryOp" -> evalUnaryOp(F, n, args[1])
      [] n.node = "MemberAccess" -> evalMemberAccess(F, n, args[1], args[2])
      [] n.node = "MethodInvocation" -> evalMethodCall(F, n, args[1], Tail(args))
      [] n.node = "ClassInstanceCreation" -> evalNewObject(F, n)
      [] n.node = "ArrayInstanceCreation" -> evalNewArray(F, n, args[1], args[2])
      [] n.node = "ArrayAccess" -> evalArrayAccess(F, n, args[1], args[2])
      [] n.node = "Cast" -> evalCast(F, n, args[1], args[2])

Validated(r) == IF validate(r.value) THEN r ELSE With(Nothing, Kill(r.state))

Evaluator == INSTANCE ExprEvaluator WITH
    MapValue <- mapValue,
    EvalOp <- LAMBDA F, n, args : IF F.dead THEN With(Nothing, F)
                                  ELSE Validated(evalOp(F, n, args))

emitExpr(F, list) ==
    LET Loaded(r) == IF r.state.dead THEN With(Null, r.state) ELSE asRValue(r.state, r.value)
    IN Loaded(Evaluator!EvaluateList(F, list))

----------------------------------------------------------------------------
(***************************************************************************)
(* The code emitted for a static method (lib/codegen/CGFunction.cc,        *)
(* lib/codegen/CGStmt.cc): a stack slot for each local variable, the       *)
(* statements, and a return at the end if there is none.                   *)
(*                                                                         *)
(* A statement is a record [k, e, s, var]: its class, the list of its      *)
(* expression (empty if it has none), the statements in it and the         *)
(* variable it declares. A method is a record                              *)
(*   params, locals   variables [name, type], the parameters in order      *)
(*   returns          the type it returns                                  *)
(*   body             a statement                                          *)
(***************************************************************************)

Statement(k, e, s, var) == [k |-> k, e |-> e, s |-> s, var |-> var]

----------------------------------------------------------------------------
RECURSIVE emitStmt(_, _)

\* s holds the initializer, the body and the update; one that is missing is
\* a statement that does nothing.
emitForLoop(F, stmt) ==
    LET cond == NewestBlock(F) + 1
        body == NewestBlock(F) + 2
        afterFor == NewestBlock(F) + 3
        Blocks(G) == createBasicBlock(createBasicBlock(createBasicBlock(G)))
        Branched(r) == insert(r.state, BranchInst(r.value, body, afterFor))
        Condition(G) == IF stmt.e = <<>> THEN insert(G, JumpTo(body))
                        ELSE Branched(emitExpr(G, stmt.e))
        Body(G) == emitStmt(emitStmt(setInsertPoint(G, body), stmt.s[2]), stmt.s[3])
        Header == Condition(setInsertPoint(insert(Blocks(F), JumpTo(cond)), cond))
    IN setInsertPoint(insert(Body(Header), JumpTo(cond)), afterFor)
emitForStmt(F, stmt) == emitForLoop(emitStmt(F, stmt.s[1]), stmt)

emitWhileStmt(F, stmt) ==
    LET cond == NewestBlock(F) + 1
        body == NewestBlock(F) + 2
        afterWhile == NewestBlock(F) + 3
        Blocks(G) == createBasicBlock(createBasicBlock(createBasicBlock(G)))
        Branched(r) == insert(r.state, BranchInst(r.value, body, afterWhile))
        Header == Branched(emitExpr(setInsertPoint(insert(Blocks(F), JumpTo(cond)), cond), stmt.e))
    IN setInsertPoint(insert(emitStmt(setInsertPoint(Header, body), stmt.s[1]), JumpTo(cond)),
                      afterWhile)

\* The blocks are made once the condition has been evaluated.
emitBranches(c, stmt) ==
    LET thenBB == NewestBlock(c.state) + 1
        elseBB == NewestBlock(c.state) + 2
        afterIf == NewestBlock(c.state) + 3
        Header == insert(createBasicBlock(createBasicBlock(createBasicBlock(c.state))),
                        BranchInst(c.value, thenBB, elseBB))
        Then == insert(emitStmt(setInsertPoint(Header, thenBB), stmt.s[1]), JumpTo(afterIf))
        Else == insert(emitStmt(setInsertPoint(Then, elseBB), stmt.s[2]), JumpTo(afterIf))
    IN setInsertPoint(Else, afterIf)
emitIfStmt(F, stmt) == emitBranches(emitExpr(F, stmt.e), stmt)

emitReturnStmt(F, stmt) ==
    LET Returned(r) == insert(r.state, ReturnInst(<<r.value>>))
    IN IF stmt.e = <<>> THEN insert(F, ReturnInst(<<>>)) ELSE Returned(emitExpr(F, stmt.e))

emitDeclStmt(F, stmt) ==
    LET Initialized(r) == insert(r.state, StoreInst(r.value, F.slots[stmt.var.name]))
    IN IF stmt.e = <<>> THEN F ELSE Initialized(emitExpr(F, stmt.e))

\* What the expression evaluates to is not loaded.
emitExprStmt(F, stmt) == Evaluator!EvaluateList(F, stmt.e).state

emitBlockStmt(F, stmt) == FoldLeft(emitStmt, F, stmt.s)

emitStmt(F, stmt) ==
    CASE stmt.k = "For" -> emitForStmt(F, stmt)
      [] stmt.k = "Return" -> emitReturnStmt(F, stmt)
      [] stmt.k = "Block" -> emitBlockStmt(F, stmt)
      [] stmt.k = "Decl" -> emitDeclStmt(F, stmt)
      [] stmt.k = "Expr" -> emitExprStmt(F, stmt)
      [] stmt.k = "If" -> emitIfStmt(F, stmt)
      [] stmt.k = "While" -> emitWhileStmt(F, stmt)
      [] OTHER -> F

----------------------------------------------------------------------------
\* The slots are allocated before the others, at the front of the entry
\* block, and the arguments are stored at its end. The insertion point is
\* after the end of the block all the while.
emitSlot(F, var, isArg, k) ==
    LET slot == <<"instr", "ptr", Newest(F) + 1>>
        G == [createAlloca(F, emitType(var.type)) EXCEPT !.slots = (var.name :> slot) @@ @]
        S == Create(G, StoreInst(Argument(emitType(var.type), k), slot))
    IN IF isArg THEN appendAfterEnd(S, Entry, Newest(S)) ELSE G

emitSlots(F, method) ==
    LET vars == method.params \o method.locals
        Slot(G, k) == emitSlot(G, vars[k], k <= Len(method.params), k)
    IN FoldLeft(Slot, F, [k \in 1..Len(vars) |-> k])

endsInTerminator(F) ==
    /\ F.blocks[F.at.bb] # <<>>
    /\ IsTerminator(Terminator(F, F.at.bb))

emitFunction(method) ==
    LET Ended(F) == IF F.dead \/ endsInTerminator(F) THEN F ELSE insert(F, ReturnInst(<<>>))
    IN Ended(emitStmt(emitSlots(createBasicBlock(EmptyFunction), method), method.body))
=============================================================================
