-------------------------- MODULE ParseTreeVisitor --------------------------
(***************************************************************************)
(* ParseTreeVisitor over method bodies (lib/parsetree/VisitStatement.cc,   *)
(* VisitExpression.cc) with the scopes that Semantic keeps for it: every   *)
(* local variable and every expression gets the scope it is in, and every  *)
(* expression becomes a list in postfix order.                             *)
(*                                                                         *)
(* An expression of the parse tree is a record [k, name, ty, op, args], a  *)
(* statement [k, e, s, d]: its kind, its expression if it has one, the     *)
(* statements in it, and the name and type it declares. An expression has  *)
(* a number of its own in the source.                                      *)
(***************************************************************************)
EXTENDS ClassTables

----------------------------------------------------------------------------
(* Expressions *)

Node(node, op, nargs) ==
    [node |-> node, op |-> op, nargs |-> nargs, val |-> [name |-> "", decl |-> NoDecl, ty |-> VoidTy]]
Operand(op, name, ty) ==
    [node |-> "ExprValue", op |-> op, nargs |-> 0, val |-> [name |-> name, decl |-> NoDecl, ty |-> ty]]

MemberAccess == Node("MemberAccess", "", 2)
IsQualified(t) == t.k = "MethodInvocation" /\ t.op = "qualified"

\* What comes before the parts of an expression.
Before(t) ==
    CASE t.k = "Literal" -> <<Operand("LiteralNode", "", t.ty)>>
      [] t.k = "This"    -> <<Operand("ThisNode", "", VoidTy)>>
      [] t.k = "Identifier" -> <<Operand("MemberName", t.name, VoidTy)>>
      [] t.k \in {"Type", "ClassInstanceCreation", "ArrayCreation", "Cast"} -> <<Operand("TypeNode", "", t.ty)>>
      [] t.k = "MethodInvocation" /\ ~IsQualified(t) -> <<Operand("MethodName", t.name, VoidTy)>>
      [] OTHER -> <<>>

\* What comes after part i: the name of the method a part before the dot has.
Between(t, i) ==
    IF IsQualified(t) /\ i = 1 THEN <<Operand("MethodName", t.name, VoidTy), MemberAccess>> ELSE <<>>

Operation(t) ==
    LET args == Len(t.args) - (IF IsQualified(t) THEN 1 ELSE 0)
    IN CASE t.k = "Unary"  -> <<Node("UnaryOp", t.op, 1)>>
         [] t.k = "Binary" -> <<Node("BinaryOp", t.op, 2)>>
         [] t.k = "FieldAccess" -> <<Operand("MemberName", t.name, VoidTy), MemberAccess>>
         [] t.k = "MethodInvocation" -> <<Node("MethodInvocation", "", args + 1)>>
         [] t.k = "ClassInstanceCreation" -> <<Node("ClassInstanceCreation", "", args + 1)>>
         [] t.k = "ArrayCreation" -> <<Node("ArrayInstanceCreation", "", 2)>>
         [] t.k = "ArrayAccess"   -> <<Node("ArrayAccess", "", 2)>>
         [] t.k = "Cast" -> <<Node("Cast", "", 2)>>
         [] OTHER -> <<>>

RECURSIVE visitExprChild(_)
visitExprChild(t) ==
    Before(t) \o FlattenSeq([i \in DOMAIN t.args |-> visitExprChild(t.args[i]) \o Between(t, i)])
              \o Operation(t)

----------------------------------------------------------------------------
(* Scopes: what Semantic keeps while it goes through a method.             *)
(*   scope    the current scope                                            *)
(*   locals   the declarations of the method so far                        *)
(*   stack    those that are in lexical scope, by name                     *)
(*   repeated a declaration found its name in scope                        *)

ResetLexicalLocalScope == [scope |-> <<0>>, locals |-> <<>>, stack |-> <<>>, repeated |-> FALSE]

NextScope(scope)  == Append(Front(scope), Last(scope) + 1)
EnterScope(scope) == Append(scope, Last(scope) + 1)
ExitScope(scope)  == Append(Front(Front(scope)), Last(scope) + 1)

EnterLexicalScope(st) == [st EXCEPT !.scope = EnterScope(@)]

ExitLexicalScopeKeepsNames(st, size) == [st EXCEPT !.scope = ExitScope(@)]

\* Back to the locals there were when the scope was entered.
ExitLexicalScope(st, size) == [st EXCEPT !.scope = ExitScope(@), !.stack = SubSeq(@, 1, size)]

\* A local that is declared again is not added.
AddLexicalLocal(st, d) ==
    IF \E i \in DOMAIN st.stack : st.stack[i] = d.name THEN [st EXCEPT !.repeated = TRUE]
    ELSE [st EXCEPT !.locals = Append(@, d), !.stack = Append(@, d.name)]

LocalDecl(d, scope) == Decl("local", d.name, "", {}, d.ty, <<>>, scope)

\* The scope of the declaration begins before its initializer is visited.
NextScopeID(st) == [st EXCEPT !.scope = NextScope(@)]
BuildVarDecl(st, d) == AddLexicalLocal(st, LocalDecl(d, st.scope))

visitParams(params) ==
    FoldLeft(LAMBDA st, d : BuildVarDecl(NextScopeID(st), d), ResetLexicalLocalScope, params)

----------------------------------------------------------------------------
(* Statements *)

visitExpr(st, e) == [i \in DOMAIN e |-> [id |-> e[i].id, list |-> visitExprChild(e[i].tree), scope |-> st.scope]]

\* Which statements open a scope, and which open one around each part.
OpensScope(s) == s.k \in {"Block", "For"}
PartsInScope(s) == s.k \in {"If", "While"}

\* The condition of a for is visited after its first part.
ConditionAfter(s) == IF s.k = "For" THEN 1 ELSE 0

Enter(opens, st) == IF opens THEN EnterLexicalScope(st) ELSE st
Exit(opens, st, size) == IF opens THEN ExitLexicalScope(st, size) ELSE st

\* A statement under way: the state, and the tree built so far.
Build(st, s) == [st |-> st, stmt |-> [s EXCEPT !.e = <<>>, !.s = <<>>]]
AddCondition(b, s) == [b EXCEPT !.stmt.e = visitExpr(b.st, s.e)]
AddPart(b, part) == [st |-> part.st, stmt |-> [b.stmt EXCEPT !.s = Append(@, part.stmt)]]

ConditionWhen(b, s, n) == IF Len(b.stmt.s) = n THEN AddCondition(b, s) ELSE b

RECURSIVE visitStatement(_, _)
visitStatement(st, s) ==
    LET Part(b, part) ==
          LET sub == visitStatement(Enter(PartsInScope(s), b.st), part)
              out == [sub EXCEPT !.st = Exit(PartsInScope(s), @, Len(b.st.stack))]
          IN ConditionWhen(AddPart(b, out), s, ConditionAfter(s))
        declared == IF s.k = "Decl" THEN NextScopeID(st) ELSE Enter(OpensScope(s), st)
        parts    == FoldLeft(Part, ConditionWhen(Build(declared, s), s, ConditionAfter(s)), s.s)
    IN IF s.k = "Decl" THEN [parts EXCEPT !.st = BuildVarDecl(@, s.d)]
       ELSE [parts EXCEPT !.st = Exit(OpensScope(s), @, Len(st.stack))]
=============================================================================
