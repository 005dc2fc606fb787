----------------------------- MODULE CFGBuilder -----------------------------
(***************************************************************************)
(* CFGBuilder (lib/semantic/CFGBuilder.cc): the control flow graph of a    *)
(* method body, for the checks of DataflowAnalysis. The builder recurses   *)
(* over the statement; the graph built so far is handed on.                *)
(*                                                                         *)
(* A statement is a record [k, e, v, init, update, s]: its kind, its       *)
(* expression or condition in reverse Polish notation (<<>> if there is    *)
(* none), the variable it declares, the init and update of a for, and the  *)
(* statements in it: those of a block, then and else, or the body. Nodes   *)
(* are numbered in the order they are made.                                *)
(***************************************************************************)
EXTENDS ConstantTypeResolver, FiniteSets, SequencesExt

None == 0          \* a null CFGNode*

EmptyExpr == [k |-> "Empty", e |-> <<>>, v |-> None]
ExprData(e) == [k |-> "Expr", e |-> e, v |-> None]
DeclData(v, e) == [k |-> "Decl", e |-> e, v |-> v]

\* The graph: data and children by node, the returns, the nodes born
\* visited, the errors reported, and whether the compiler has been killed.
EmptyGraph == [data |-> <<>>, children |-> <<>>, isReturn |-> {},
               visited |-> {}, errors |-> {}, killed |-> FALSE]

NewNode(g, d) == [g EXCEPT !.data = Append(@, d), !.children = Append(@, <<>>)]
Newest(g) == Len(g.data)
ReturnNode(g, d) ==
  [NewNode(g, d) EXCEPT !.isReturn = @ \union {Newest(g) + 1}]

Connect(g, parent, child) ==
  [g EXCEPT !.children[parent] = Append(@, child)]

Parents(g, n) == {p \in DOMAIN g.children : n \in ToSet(g.children[p])}
HasLocation(g, n) == g.data[n].k # "Empty"

\* ReportError at the location of n, or else at that of other: the value()
\* of an empty location throws what nobody catches.
ReportAt(g, kind, n, other) ==
  [g EXCEPT !.errors = @ \union {<<kind, n>>},
            !.killed = @ \/ (~HasLocation(g, n) /\ ~HasLocation(g, other))]

CFGInfo(g, head, leafs) == [g |-> g, head |-> head, leafs |-> leafs]

connectLeafs(g, parent, child) ==
  FoldLeft(LAMBDA acc, leaf : Connect(acc, leaf, child), g, parent.leafs)

ReportOrphan(g, parent, child) ==
  IF Parents(g, child) = {} THEN ReportAt(g, "Unreachable", child, parent.head)
  ELSE g

connectLeafsToChild(g, parent, child) ==
  ReportOrphan(connectLeafs(g, parent, child), parent, child)

WithNewest(g) == CFGInfo(g, Newest(g), <<Newest(g)>>)
OneNode(g, d) == WithNewest(NewNode(g, d))

buildReturnStmt(g, s) ==
  WithNewest(ReturnNode(g, IF s.e = <<>> THEN EmptyExpr ELSE ExprData(s.e)))

\* A condition that is constantly false is an error, a division by zero in
\* it kills the compiler.
CheckCondition(g, c) ==
  LET r == Evaluate(c)
  IN [g EXCEPT !.killed = @ \/ r.state,
               !.errors = @ \union
                  IF r.value = Bool(FALSE) THEN {<<"Unreachable", Newest(g)>>} ELSE {}]

IsTrue(c) == Evaluate(c).value = Bool(TRUE)

RECURSIVE buildIteratively(_, _, _)
Sub(g, s, parent) == buildIteratively(g, s, parent)

\* Each statement is connected to the leafs of the one before, and a
\* statement list keeps the head of its first: acc is [head, last].
AddStmt(acc, node) ==
  IF acc.head = None THEN [head |-> node.head, last |-> node]
  ELSE [head |-> acc.head,
        last |-> [node EXCEPT !.g = connectLeafsToChild(@, acc.last, node.head)]]

WholeBlock(acc) == CFGInfo(acc.last.g, acc.head, acc.last.leafs)

buildBlockStmt(g, s) ==
  WholeBlock(FoldLeft(LAMBDA acc, stmt :
                        AddStmt(acc, Sub(acc.last.g, stmt, None)),
                      [head |-> None, last |-> CFGInfo(g, None, <<>>)], s.s))

CloseLoop(body, cond, head, leafs) ==
  CFGInfo(connectLeafsToChild(body.g, body, cond), head, leafs)

\* The search for a missing return passes the condition of an endless loop.
UnmarkedCondition(g, s) == CheckCondition(NewNode(g, ExprData(s.e)), s.e)

\* The condition of an endless loop is no leaf, and no search for a missing
\* return passes it.
WhileCondition(g, s) ==
  LET made == CheckCondition(NewNode(g, ExprData(s.e)), s.e)
  IN [made EXCEPT !.visited = @ \union IF IsTrue(s.e) THEN {Newest(g) + 1} ELSE {}]

buildWhileStmt(g, s) ==
  LET cond == Newest(g) + 1
  IN CloseLoop(Sub(WhileCondition(g, s), s.s[1], cond), cond, cond,
               IF IsTrue(s.e) THEN <<>> ELSE <<cond>>)

\* A condition that is always true is not told from another one here.
ForCondition(init, s) ==
  LET made == IF s.e = <<>> THEN NewNode(init.g, EmptyExpr)
              ELSE CheckCondition(NewNode(init.g, ExprData(s.e)), s.e)
  IN IF init.head = None THEN made ELSE Connect(made, init.head, Newest(init.g) + 1)

Linked(body, update) ==
  [update EXCEPT !.g = connectLeafsToChild(@, body, update.head)]

ForUpdate(body, s) ==
  IF s.update = <<>> THEN body
  ELSE Linked(body, Sub(body.g, s.update[1], None))

ForLoop(init, s) ==
  LET cond == Newest(init.g) + 1
  IN CloseLoop(ForUpdate(Sub(ForCondition(init, s), s.s[1], cond), s), cond,
               IF init.head = None THEN cond ELSE init.head, <<cond>>)

buildForStmt(g, s) ==
  ForLoop(IF s.init = <<>> THEN CFGInfo(g, None, <<>>)
          ELSE Sub(g, s.init[1], None), s)

\* Without an else, an empty node takes its place.
EmptyElse(cond, else) == [else EXCEPT !.g = Connect(@, cond, else.head)]

Branches(cond, leafs, else) == CFGInfo(else.g, cond, leafs \o else.leafs)

ElseStmt(cond, then, s) ==
  Branches(cond, then.leafs,
           IF Len(s.s) = 2 THEN Sub(then.g, s.s[2], cond)
           ELSE EmptyElse(cond, OneNode(then.g, EmptyExpr)))

buildIfStmt(g, s) ==
  LET cond == Newest(g) + 1
  IN ElseStmt(cond, Sub(NewNode(g, ExprData(s.e)), s.s[1], cond), s)

\* What has no head becomes an empty node and is not connected to parent.
Attach(built, parent) ==
  IF built.head = None THEN OneNode(built.g, EmptyExpr)
  ELSE IF parent = None THEN built
  ELSE [built EXCEPT !.g = Connect(@, parent, built.head)]

buildIteratively(g, s, parent) ==
  Attach(CASE s.k = "For" -> buildForStmt(g, s)
           [] s.k = "If" -> buildIfStmt(g, s)
           [] s.k = "Decl" -> OneNode(g, DeclData(s.v, s.e))
           [] s.k = "Expr" -> OneNode(g, ExprData(s.e))
           [] s.k = "Return" -> buildReturnStmt(g, s)
           [] s.k = "While" -> buildWhileStmt(g, s)
           [] s.k = "Block" -> buildBlockStmt(g, s)
           [] OTHER -> CFGInfo(g, None, <<>>), parent)

\* The graph and its start.
Started(info) == info.g @@ [start |-> info.head]
build(s) == Started(buildIteratively(EmptyGraph, s, None))
=============================================================================
