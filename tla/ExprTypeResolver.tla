-------------------------- MODULE ExprTypeResolver --------------------------
(***************************************************************************)
(* ExprTypeResolver (semantic/ExprTypeResolver.cc): the type of a resolved *)
(* expression. What it computes is a record [is, ty, decl]: a type, or     *)
(* the method a call is about to invoke, or how the evaluation ended.      *)
(*                                                                         *)
(* The null pointer stands for void. An operation that is handed one looks *)
(* into it without asking, which the compiler does not survive.            *)
(***************************************************************************)
EXTENDS ClassTables

Refused == [is |-> "refused", ty |-> VoidTy, decl |-> NoDecl]   \* a diagnostic is thrown
Killed  == [is |-> "killed",  ty |-> VoidTy, decl |-> NoDecl]   \* an assertion fails
Failed(v) == v.is \in {"refused", "killed"}

Ty(t)        == [is |-> "type", ty |-> t, decl |-> NoDecl]
MethodType(d) == [is |-> "method", ty |-> IF d.kind = "ctor" THEN Type(d.class) ELSE d.type, decl |-> d]

Check(legal, t) == IF legal THEN Ty(t) ELSE Refused

----------------------------------------------------------------------------
(* Conversions *)

isWiderThan(type, other) ==
    \/ other.base \in {"char", "short"} /\ type = IntTy
    \/ other.base = "byte" /\ type.base \in {"short", "int"}

isTypeString(t)         == t \in {StringTy, Type("String")}
isReferenceOrArrType(t) == IsReference(t) \/ IsArray(t) \/ t = StringTy

IsClass(t)     == IsReference(t) /\ t.base \in Classes
IsInterface(t) == IsReference(t) /\ t.base \in Interfaces

\* Between two class or interface types. A class may always be assigned an
\* interface: the code assigns Object to leftClass where it means to compare.
ReferenceAssignable(lhs, rhs) ==
    CASE IsClass(lhs) /\ IsClass(rhs) -> isSuperClass(lhs.base, rhs.base)
      [] IsClass(lhs) /\ IsInterface(rhs) -> TRUE
      [] OTHER -> IsSubtype(rhs.base, lhs.base)

\* rhs converts to lhs.
isAssignableTo(lhs, rhs) ==
    \/ lhs = rhs
    \/ isTypeString(lhs) /\ isTypeString(rhs)
    \/ rhs = StringTy /\ IsReference(lhs) /\ IsSubtype("String", lhs.base)
    \/ lhs = StringTy /\ IsClass(rhs) /\ isSuperClass("String", rhs.base)
    \/ IsPrimitive(lhs) /\ IsPrimitive(rhs) /\ isWiderThan(lhs, rhs)
    \/ rhs = NullTy /\ isReferenceOrArrType(lhs)
    \/ IsReference(lhs) /\ IsReference(rhs) /\ ReferenceAssignable(lhs, rhs)
    \/ /\ IsArray(lhs) /\ IsArray(rhs)
       /\ IsReference(Element(lhs)) /\ IsReference(Element(rhs))
       /\ \/ Element(lhs) = Element(rhs)
          \/ ReferenceAssignable(Element(lhs), Element(rhs))
    \/ IsArray(rhs) /\ IsReference(lhs) /\ lhs.base \in {"Object", "Cloneable", "Serializable"}

\* Both are class or interface types.
ReferenceCast(expr, cast) ==
    \/ IsInterface(expr) /\ IsInterface(cast)
    \/ IsInterface(expr) /\ IsClass(cast) /\ ~Is(Declared[cast.base], "final")
    \/ IsClass(expr) /\ IsInterface(cast) /\ ~Is(Declared[expr.base], "final")
    \/ ReferenceAssignable(expr, cast) \/ ReferenceAssignable(cast, expr)

Convertible(t, u) == isAssignableTo(t, u) \/ isAssignableTo(u, t)

isValidCast(expr, cast) ==
    \/ Convertible(expr, cast)
    \/ expr = NullTy /\ (IsReference(cast) \/ isTypeString(cast))
    \/ cast = NullTy /\ IsReference(expr)
    \/ IsNumeric(expr) /\ IsNumeric(cast)
    \/ IsReference(expr) /\ IsReference(cast) /\ ReferenceCast(expr, cast)
    \/ expr = ObjectTy /\ IsArray(cast)
    \/ /\ IsArray(expr) /\ IsArray(cast)
       /\ IsReference(Element(expr)) /\ IsReference(Element(cast))
       /\ ReferenceCast(Element(expr), Element(cast))

\* From an array to what is not one: the declaration of the target is looked
\* at, and some have none.
CastKills(expr, cast) ==
    IsArray(expr) /\ ~IsArray(cast) /\ ~IsReference(cast) /\ cast # NullTy

----------------------------------------------------------------------------
(* Operations; the operands are types. *)

Arithmetic == {"Subtract", "Multiply", "Divide", "Modulo"}
Relational == {"LessThan", "LessThanOrEqual", "GreaterThan", "GreaterThanOrEqual"}
Equality   == {"Equal", "NotEqual"}
Logical    == {"And", "Or", "BitwiseAnd", "BitwiseOr"}

\* Of the reference types only classes, interfaces and null are compared.
Comparable(lhs, rhs) ==
    \/ IsNumeric(lhs) /\ IsNumeric(rhs)
    \/ lhs = BooleanTy /\ rhs = BooleanTy
    \/ isTypeString(lhs) /\ rhs = NullTy
    \/ isTypeString(rhs) /\ lhs = NullTy
    \/ /\ \A t \in {lhs, rhs} : t = NullTy \/ IsReference(t)
       /\ isValidCast(lhs, rhs) \/ isValidCast(rhs, lhs)

InstanceOf(lhs, rhs) ==
    (lhs = NullTy \/ isReferenceOrArrType(lhs)) /\ isReferenceOrArrType(rhs)

evalBinaryOp(op, lhs, rhs) ==
    CASE op = "BitwiseXor" -> Killed
      [] op # "BitwiseXor" /\ lhs = VoidTy -> Killed
      [] op = "InstanceOf" /\ InstanceOf(lhs, rhs) /\ CastKills(rhs, lhs) -> Killed
      [] OTHER ->
           CASE op = "Assignment" -> Check(isAssignableTo(lhs, rhs), lhs)
             [] op \in Relational -> Check(IsNumeric(lhs) /\ IsNumeric(rhs), BooleanTy)
             [] op \in Equality   -> Check(Comparable(lhs, rhs), BooleanTy)
             [] op = "Add" -> IF isTypeString(lhs) \/ isTypeString(rhs) THEN Ty(StringTy)
                              ELSE Check(IsNumeric(lhs) /\ IsNumeric(rhs), IntTy)
             [] op \in Logical    -> Check(lhs = BooleanTy /\ rhs = BooleanTy, BooleanTy)
             [] op \in Arithmetic -> Check(IsNumeric(lhs) /\ IsNumeric(rhs), IntTy)
             [] op = "InstanceOf" -> Check(InstanceOf(lhs, rhs) /\ isValidCast(rhs, lhs), BooleanTy)

evalUnaryOp(op, t) ==
    CASE t = VoidTy   -> Killed
      [] t # VoidTy /\ op = "Minus" -> Check(IsNumeric(t), IntTy)
      [] t # VoidTy /\ op = "Not"   -> Check(t = BooleanTy, BooleanTy)

evalCall(method, args, type) ==
    Check(\A i \in DOMAIN args : isAssignableTo(method.decl.params[i], args[i]), type)

evalArrayAccess(array, index) ==
    IF array = VoidTy THEN Killed
    ELSE Check(IsArray(array) /\ IsNumeric(index), Element(array))

evalCast(type, value) ==
    IF CastKills(value, type) THEN Killed ELSE Check(isValidCast(value, type), type)

----------------------------------------------------------------------------
(* The evaluation. Its state is the size of the stack.                     *)

mapValue(size, n) ==
    [state |-> size + 1,
     value |-> IF n.val.decl.kind \in {"method", "ctor"} THEN MethodType(n.val.decl) ELSE Ty(n.val.ty)]

Evaluated(n, args) ==
    LET t(i)  == args[i].ty
        types == [i \in 1..Len(args) - 1 |-> t(i + 1)]
    IN CASE n.node = "BinaryOp"     -> evalBinaryOp(n.op, t(1), t(2))
         [] n.node = "UnaryOp"      -> evalUnaryOp(n.op, t(1))
         [] n.node = "MemberAccess" -> args[2]
         [] n.node \in {"MethodInvocation", "ClassInstanceCreation"} -> evalCall(args[1], types, t(1))
         [] n.node = "ArrayInstanceCreation" -> Check(IsNumeric(t(2)), t(1))
         [] n.node = "ArrayAccess"  -> evalArrayAccess(t(1), t(2))
         [] n.node = "Cast"         -> evalCast(t(1), t(2))

\* A void operand is refused when it is popped, unless that leaves the stack
\* empty: then the operation meets it.
validatePop(below, operands) ==
    \A i \in DOMAIN operands : operands[i] = Ty(VoidTy) => i = 1 /\ below = 0

\* The first operand that failed, in the order they were evaluated, stands
\* for the exception that was thrown. The arguments of a call are kept in
\* reverse; the code turns them round as well.
ValueOf(n, below, inOrder) ==
    CASE \E i \in DOMAIN inOrder : Failed(inOrder[i]) -> Head(SelectSeq(inOrder, Failed))
      [] OTHER -> IF validatePop(below, inOrder) THEN Evaluated(n, inOrder) ELSE Refused

evalOp(size, n, operands) ==
    LET inOrder == IF n.node \in {"MethodInvocation", "ClassInstanceCreation"}
                   THEN <<Head(operands)>> \o Reverse(Tail(operands)) ELSE operands
        below == size - n.nargs
    IN [state |-> below + 1, value |-> ValueOf(n, below, inOrder)]

E == INSTANCE ExprEvaluator WITH MapValue <- mapValue, EvalOp <- evalOp

EvalList(list) == E!EvaluateList(0, list).value
=============================================================================
