--------------------------- MODULE MCMethodChecks ---------------------------
(***************************************************************************)
(* Small methods for MethodChecks: statements of each kind with each kind  *)
(* of body, alone and with a statement behind, in loops and in branches.   *)
(***************************************************************************)
EXTENDS MethodChecks

\* Expressions in reverse Polish notation.
value(op, v)  == <<Java!ExprNode("ExprValue", op, 0, v)>>
int(n)        == value("INT", n)
bool(b)       == value("BOOL", IF b THEN 1 ELSE 0)
var(v)        == value("var", v)
binary(op, a, b) == a \o b \o <<Java!ExprNode("BinaryOp", op, 2, 0)>>
unary(op, a)  == a \o <<Java!ExprNode("UnaryOp", op, 1, 0)>>
call(a)       == value("method", 0) \o a \o <<Java!ExprNode("MethodInvocation", "", 2, 0)>>
cast(a)       == value("type", 0) \o a \o <<Java!ExprNode("Cast", "", 2, 0)>>
assign(v, a)  == binary("Assignment", var(v), a)

x == 1
y == 2
p == var(3)    \* a boolean parameter

Stmt(k, e, v, init, update, s) ==
  [k |-> k, e |-> e, v |-> v, init |-> init, update |-> update, s |-> s]
Simple(k, e, v) == Stmt(k, e, v, <<>>, <<>>, <<>>)
Block(s)    == Stmt("Block", <<>>, 0, <<>>, <<>>, s)
Eval(e)     == Simple("Expr", e, 0)
Decl(v, e)  == Simple("Decl", e, v)
Null        == Simple("Null", <<>>, 0)
Return(e)   == Simple("Return", e, 0)
While(e, s) == Stmt("While", e, 0, <<>>, <<>>, <<s>>)
If(e, s)    == Stmt("If", e, 0, <<>>, <<>>, s)
For(init, e, update, s) == Stmt("For", e, 0, init, update, <<s>>)

\* 3 + 1 overflows to -4 in three bits; (byte) 2 is -2.
Conditions ==
  {p, bool(TRUE), bool(FALSE),
   binary("Equal", binary("Add", int(3), int(1)), int(-4)),
   binary("And", bool(TRUE), unary("Not", bool(FALSE))),
   binary("Equal", unary("Minus", var(x)), int(0)),
   assign(3, bool(TRUE)),
   binary("Equal", cast(int(2)), int(-2)),
   binary("LessThan", call(int(1)), int(1)),
   binary("Equal", unary("Minus", call(int(1))), int(1)),
   binary("Equal", binary("Modulo", int(-4), int(-1)), int(0)),
   binary("Equal", binary("Divide", int(1), int(0)), int(0))}

Set == Eval(assign(x, int(1)))
Use == Eval(call(var(x)))
Forever == While(bool(TRUE), Null)

Bodies == {Set, Null, Return(int(0)), Block(<<Use, Forever>>)}

Whiles == {While(c, b) : c \in Conditions, b \in Bodies}
Ifs    == {If(p, <<b>>) : b \in Bodies} \union {If(p, b) : b \in Bodies \X Bodies}
Fors   == {For(init, c, u, b) :
             init \in {<<>>, <<Decl(y, int(0))>>},
             c \in {<<>>, p, bool(TRUE), bool(FALSE)},
             u \in {<<>>, <<Eval(assign(y, binary("Add", var(y), int(1))))>>},
             b \in Bodies}
Simples == {Use, Block(<<>>), Return(<<>>), Forever}

Statements == Whiles \union Ifs \union Fors \union Simples

Alone    == {<<s>> : s \in Statements}
Behind   == Statements \X {Use, Return(int(0))}
Repeated == (Simples \union {If(p, <<Return(int(0))>>)})
              \X {While(p, Use), While(bool(TRUE), Use)}
Inside   == {<<While(p, s)>> : s \in Ifs}
              \union {<<If(p, <<s, Return(int(0))>>)>> : s \in Whiles}

\* Variables that are assigned, used and redeclared in loops.
Assigned ==
  LET values == {int(0), var(x), var(y)}
      uses == {Use, Eval(assign(y, var(x))), Decl(y, var(x))}
  IN {<<Decl(x, a), While(p, Block(<<Eval(assign(x, b)), s>>)), t>> :
        a \in values, b \in values, s \in uses, t \in {Use, Return(var(y))}}

Shapes == Alone \union Behind \union Repeated \union Inside \union Assigned

Methods == [body : {Block(s) : s \in Shapes}, returns : BOOLEAN]

\* Each method in a unit of its own, and units of several.
MCUnits == {<<m>> : m \in Methods}
             \union {<<[body |-> Block(<<s>>), returns |-> FALSE],
                       [body |-> Block(<<t, Return(var(x))>>), returns |-> TRUE]>> :
                       s \in Simples, t \in Simples}
=============================================================================
