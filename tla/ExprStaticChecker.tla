-------------------------- MODULE ExprStaticChecker --------------------------
(***************************************************************************)
(* ExprStaticChecker (semantic/ExprStaticChecker.cc): no instance member   *)
(* is used by its simple name in a static context, or in the initializer   *)
(* of an instance field that comes before it; no final field is assigned;  *)
(* no static field is reached through an instance.                         *)
(*                                                                         *)
(* The state of the evaluation is the place of the expression:             *)
(*   [unit, static, instField, scope]                                      *)
(* where scope is the scope of the initializer if instField is TRUE.       *)
(***************************************************************************)
EXTENDS ClassTables

Data(d, isValue, isInstanceVar) ==
    [is |-> "data", decl |-> d, isValue |-> isValue, isInstanceVar |-> isInstanceVar]
Ended(is)  == [is |-> is, decl |-> NoDecl, isValue |-> FALSE, isInstanceVar |-> FALSE]
Temporary  == Data(NoDecl, TRUE, FALSE)
Failed(v)  == v.is \in {"refused", "killed"}

\* What a check says: "ok", or how it ends.
Refuse(b) == IF b THEN "refused" ELSE "ok"
Require(b) == IF b THEN "ok" ELSE "killed"

\* The checks of an operation one after the other, then its value.
After(checks, v) ==
    LET bad == SelectSeq(checks, LAMBDA c : c # "ok")
    IN IF bad = <<>> THEN v ELSE Ended(Head(bad))

IsMember(d) == d.kind \in {"field", "method", "ctor"} /\ d.class \notin Interfaces

\* The order is asked of fields; an instance method by its simple name fails
\* a cast in the initializer of an instance field.
checkInitOrder(ctx, d) ==
    IF d.kind # "field" THEN "killed" ELSE Refuse(~canView(ctx.scope, d.scope))

checkInstanceVar(ctx, v, order) ==
    CASE ~v.isInstanceVar -> "ok"
      [] v.isInstanceVar /\ ctx.static -> "refused"
      [] v.isInstanceVar /\ ~ctx.static /\ ctx.instField /\ order -> checkInitOrder(ctx, v.decl)
      [] OTHER -> "ok"

\* A protected member through a local variable: the class of the variable is
\* to be a subclass, or in the same package.
isAccessible(ctx, lhs, var) ==
    LET t == lhs.decl.type
        Through == lhs.decl.kind = "local" /\ IsReference(t) /\ t.base \in Classes
    IN Refuse(/\ var.isInstanceVar /\ Through /\ Is(var.decl, "protected")
              /\ ~isSuperClass(ctx.unit, t.base) /\ ~SamePackage(ctx.unit, t.base))

FinalField(v) == v.decl.kind = "field" /\ Is(v.decl, "final")

evalBinaryOp(ctx, op, lhs, rhs) ==
    After(<<checkInstanceVar(ctx, lhs, op # "Assignment"),
            Refuse(op = "Assignment" /\ FinalField(lhs)),
            checkInstanceVar(ctx, rhs, TRUE)>>, Temporary)

evalMemberAccess(ctx, lhs, field) ==
    After(<<checkInstanceVar(ctx, lhs, TRUE), isAccessible(ctx, lhs, field),
            Refuse(IsStatic(field.decl))>>, Data(field.decl, TRUE, FALSE))

\* The operands have to be values, and pass the check as they come.
Operands(ctx, values) ==
    After(FlattenSeq([i \in DOMAIN values |-> <<Require(values[i].isValue),
                                                checkInstanceVar(ctx, values[i], TRUE)>>]), Temporary)

evalArrayAccess(ctx, arr, idx) ==
    After(<<Require(arr.isValue /\ idx.isValue), checkInstanceVar(ctx, arr, TRUE),
            checkInstanceVar(ctx, idx, TRUE)>>, Temporary)

Evaluated(ctx, n, args) ==
    CASE n.node = "BinaryOp" -> evalBinaryOp(ctx, n.op, args[1], args[2])
      [] n.node = "UnaryOp" -> After(<<checkInstanceVar(ctx, args[1], TRUE)>>, Temporary)
      [] n.node = "MemberAccess" -> evalMemberAccess(ctx, args[1], args[2])
      [] n.node = "MethodInvocation" -> Operands(ctx, args)
      [] n.node = "ArrayAccess" -> evalArrayAccess(ctx, args[1], args[2])
      [] n.node \in {"ClassInstanceCreation", "ArrayInstanceCreation", "Cast"} ->
           Operands(ctx, Tail(args))

\* Members of classes are instance variables unless they are static; those
\* of interfaces, which only methods are, never.
mapValue(ctx, n) ==
    [state |-> ctx,
     value |-> CASE n.op = "ThisNode" /\ ctx.static -> Ended("refused")
                 [] n.op = "LiteralNode" -> Data(NoDecl, TRUE, FALSE)
                 [] n.op = "TypeNode" -> Data(NoDecl, FALSE, FALSE)
                 [] OTHER -> Data(n.val.decl, TRUE, IsMember(n.val.decl) /\ ~IsStatic(n.val.decl))]

\* The first operand that failed, in the order they were evaluated, stands
\* for the exception or assertion. A call has its arguments in reverse.
evalOp(ctx, n, operands) ==
    LET inOrder == IF n.node \in {"MethodInvocation", "ClassInstanceCreation"}
                   THEN <<Head(operands)>> \o Reverse(Tail(operands)) ELSE operands
        failed == SelectSeq(inOrder, Failed)
    IN [state |-> ctx,
        value |-> IF failed # <<>> THEN Head(failed) ELSE Evaluated(ctx, n, operands)]

E == INSTANCE ExprEvaluator WITH MapValue <- mapValue, EvalOp <- evalOp

\* "ok", "refused" or "killed"; a single name is checked as well.
Evaluate(ctx, list) ==
    LET v == E!EvaluateList(ctx, list).value
    IN IF Failed(v) THEN v.is ELSE checkInstanceVar(ctx, v, TRUE)
=============================================================================
