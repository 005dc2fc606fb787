------------------------ MODULE ConstantTypeResolver ------------------------
(***************************************************************************)
(* ConstantTypeResolver (lib/semantic/ConstantTypeResolver.cc): the value  *)
(* of the condition of a loop, if it can be told when it is compiled. An   *)
(* evaluator of expressions whose values are pairs of a type and a number, *)
(* in an int of Width bits that wraps around as the build's does. The      *)
(* state of the evaluation is whether the compiler has been killed by a    *)
(* division that traps.                                                    *)
(***************************************************************************)
EXTENDS Integers, Sequences

CONSTANT Width     \* the bits of an int

ASSUME WidthAssumption == Width \in Nat \ {0}

Constant(type, value) == [constantType |-> type, value |-> value]
Unknown == Constant("UNKNOWN", 0)
Bool(b) == Constant("BOOL", IF b THEN 1 ELSE 0)

Wrap(n) ==
  LET half == 2^(Width - 1)
  IN ((n + half) % 2^Width) - half
IntOf(n) == Constant("INT", Wrap(n))

\* Division that rounds towards zero.
Quotient(a, b) ==
  LET abs(n) == IF n < 0 THEN -n ELSE n
      q == abs(a) \div abs(b)
  IN IF (a < 0) = (b < 0) THEN q ELSE -q
Remainder(a, b) == a - b * Quotient(a, b)

Returns(killed, c) == [value |-> c, state |-> killed]

mapValue(killed, n) ==
  Returns(killed, CASE n.op = "INT" -> Constant("INT", n.val)
                    [] n.op = "BOOL" -> Constant("BOOL", n.val)
                    [] OTHER -> Unknown)

Relational == {"GreaterThan", "GreaterThanOrEqual", "LessThan", "LessThanOrEqual"}
Equality   == {"Equal", "NotEqual"}
Logical    == {"And", "Or", "BitwiseAnd", "BitwiseOr"}
Additive   == {"Add", "Subtract", "Multiply"}
Division   == {"Divide", "Modulo"}

BothAre(type, lhs, rhs) == lhs.constantType = type /\ rhs.constantType = type

Compare(op, a, b) ==
  CASE op = "GreaterThan" -> a > b
    [] op = "GreaterThanOrEqual" -> a >= b
    [] op = "LessThan" -> a < b
    [] op = "LessThanOrEqual" -> a <= b
    [] op = "Equal" -> a = b
    [] op = "NotEqual" -> a # b
    [] op \in {"And", "BitwiseAnd"} -> a # 0 /\ b # 0
    [] op \in {"Or", "BitwiseOr"} -> a # 0 \/ b # 0

Arithmetic(op, a, b) ==
  CASE op = "Add" -> a + b
    [] op = "Subtract" -> a - b
    [] op = "Multiply" -> a * b
    [] op = "Divide" -> Quotient(a, b)
    [] op = "Modulo" -> Remainder(a, b)

\* An operator that none of the cases takes, such as instanceof, is unknown.
Comparable(op, lhs, rhs) ==
  \/ op \in Relational /\ BothAre("INT", lhs, rhs)
  \/ op \in Equality /\ "UNKNOWN" \notin {lhs.constantType, rhs.constantType}
  \/ op \in Logical /\ BothAre("BOOL", lhs, rhs)

evalBinaryOp(op, lhs, rhs) ==
  CASE op = "Assignment" -> rhs
    [] Comparable(op, lhs, rhs) -> Bool(Compare(op, lhs.value, rhs.value))
    [] op \in Additive \union Division /\ BothAre("INT", lhs, rhs) ->
         IntOf(Arithmetic(op, lhs.value, rhs.value))
    [] OTHER -> Unknown

\* The machine's division has no quotient for a zero, nor for the least int
\* and -1, of which it does not give the remainder either.
Traps(op, lhs, rhs) ==
  /\ op \in Division
  /\ BothAre("INT", lhs, rhs)
  /\ rhs.value = 0 \/ (lhs.value = -(2^(Width - 1)) /\ rhs.value = -1)

\* The minus does not ask for the type of its operand.
evalUnaryOp(op, rhs) ==
  CASE op = "Plus" -> rhs
    [] op = "Minus" -> IntOf(-rhs.value)
    [] op \in {"Not", "BitwiseNot"} /\ rhs.constantType = "BOOL" ->
         Bool(rhs.value = 0)
    [] OTHER -> Unknown

\* A cast has its type and its value as operands, and keeps the value. What a
\* call, a member or an object yields is unknown too, but with another number.
evalOp(killed, n, args) ==
  CASE n.node = "UnaryOp" -> Returns(killed, evalUnaryOp(n.op, args[1]))
    [] n.node = "BinaryOp" ->
         IF Traps(n.op, args[1], args[2]) THEN Returns(TRUE, Unknown)
         ELSE Returns(killed, evalBinaryOp(n.op, args[1], args[2]))
    [] n.node = "Cast" -> Returns(killed, args[2])
    [] OTHER -> Returns(killed, Constant("UNKNOWN", -1))

E == INSTANCE ExprEvaluator WITH MapValue <- mapValue, EvalOp <- evalOp

Evaluate(list) == E!EvaluateList(FALSE, list)
=============================================================================
