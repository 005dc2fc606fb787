--------------------------- MODULE ExprEvaluator ---------------------------
(***************************************************************************)
(* ExprEvaluator<T> (include/ast/ExprEvaluator.h): evaluates an expression *)
(* in reverse Polish notation with a stack of T. The resolvers and the     *)
(* code generator derive from it; what they do with an operand or an       *)
(* operation is MapValue and EvalOp here. Both may change a state of the   *)
(* derived class (diagnostics, code emitted so far), which is handed on    *)
(* from call to call: they return the record [value, state].               *)
(*                                                                         *)
(* A node is a record [node, op, nargs, val]: its class, the operator, the *)
(* number of operands and what a value stands for.                         *)
(***************************************************************************)
EXTENDS Integers, Sequences, SequencesExt

CONSTANTS MapValue(_, _),   \* state, node
          EvalOp(_, _, _)   \* state, node, operands

ExprNode(node, op, nargs, val) ==
  [node |-> node, op |-> op, nargs |-> nargs, val |-> val]

HasArgumentList(n) == n.node \in {"MethodInvocation", "ClassInstanceCreation"}

Popped(n) == IF n.node = "ExprValue" THEN 0 ELSE n.nargs

\* The operands of n, on top of the stack: popped one by one, which leaves
\* the arguments of a call in reverse order behind its name or type.
Ordered(n, popped) ==
  IF HasArgumentList(n) THEN <<Head(popped)>> \o Reverse(Tail(popped)) ELSE popped
Operands(stack, n) ==
  Ordered(n, SubSeq(stack, Len(stack) - Popped(n) + 1, Len(stack)))

Push(stack, n, r) ==
  [stack |-> Append(SubSeq(stack, 1, Len(stack) - Popped(n)), r.value),
   state |-> r.state]

Step(s, n) ==
  Push(s.stack, n, IF n.node = "ExprValue" THEN MapValue(s.state, n)
                   ELSE EvalOp(s.state, n, Operands(s.stack, n)))

\* The stack is cleared first; what is left on it at the end is the result.
EvaluateList(state, list) ==
  LET after[i \in 0..Len(list)] ==
        IF i = 0 THEN [stack |-> <<>>, state |-> state]
        ELSE Step(after[i - 1], list[i])
      Result(s) == [value |-> Last(s.stack), state |-> s.state]
  IN Result(after[Len(list)])
=============================================================================
