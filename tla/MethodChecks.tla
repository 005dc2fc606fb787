---------------------------- MODULE MethodChecks ----------------------------
(***************************************************************************)
(* The checks of DataflowAnalysis over the graphs CFGBuilder makes of      *)
(* method bodies, against what Java demands of them. Where the two differ, *)
(* the shapes of statements below say on which programs.                   *)
(***************************************************************************)
EXTENDS DataflowAnalysis, ConstantTypeResolver, FiniteSets, SequencesExt

B == INSTANCE CFGBuilder

Next ==
  \/ phase = "Check" /\ todo # <<>> /\ BeginMethod(B!build(Head(todo).body))
  \/ Step

Spec == Init /\ [][Next]_vars /\ WF_vars(Step)

-----------------------------------------------------------------------------
(* What the Java Language Specification demands of the statements of a      *)
(* method (14.20, 15.28), over the statements of CFGBuilder: the reference  *)
(* the analysis is compared with. Joos has no break, continue, switch,      *)
(* labels or exceptions.                                                    *)

(* Constant expressions: literals, and the operators but the assignment on *)
(* constants. A division by zero is none.                                  *)

NotConstant == Constant("UNKNOWN", 0)

ConstantValue(s, n) ==
  [state |-> s, value |-> IF n.op \in {"INT", "BOOL"} THEN Constant(n.op, n.val)
                          ELSE NotConstant]

\* A cast to byte narrows: here, to one bit less than an int.
Narrow(type, c) ==
  IF c.constantType = "INT" /\ type.constantType = "BYTE"
  THEN LET half == 2^(Width - 2)
       IN Constant("INT", ((c.value + half) % (2 * half)) - half)
  ELSE c

ConstantOp(s, n, args) ==
  LET known == \A i \in DOMAIN args : args[i].constantType # "UNKNOWN"
      folded == CASE n.node = "Cast" -> Narrow(args[1], args[2])
                  [] n.node = "UnaryOp" -> evalUnaryOp(n.op, args[1])
                  [] n.node = "BinaryOp" ->
                       IF n.op \in Division /\ args[2].value = 0 THEN NotConstant
                       ELSE evalBinaryOp(n.op, args[1], args[2])
                  [] OTHER -> NotConstant
  IN [state |-> s, value |-> IF known /\ n.op # "Assignment" THEN folded
                             ELSE NotConstant]

CastType(s, n) ==
  IF n.op = "type" THEN [state |-> s, value |-> Constant("BYTE", 0)]
  ELSE ConstantValue(s, n)

Java == INSTANCE ExprEvaluator WITH MapValue <- CastType, EvalOp <- ConstantOp

JavaConstant(e) == Java!EvaluateList(FALSE, e).value
IsConstantly(b, e) == JavaConstant(e) = Bool(b)

-----------------------------------------------------------------------------
(* A statement that can complete normally, and a body all whose statements *)
(* are reachable.                                                          *)

IsLoop(s) == s.k \in {"While", "For"}
EndlessLoop(s) == IsLoop(s) /\ (s.e = <<>> \/ IsConstantly(TRUE, s.e))

RECURSIVE CanComplete(_)
CanComplete(s) ==
  LET completes == {i \in DOMAIN s.s : CanComplete(s.s[i])}
  IN CASE s.k = "Block" -> completes = DOMAIN s.s
       [] s.k = "If" -> Len(s.s) = 1 \/ completes # {}
       [] OTHER -> s.k # "Return" /\ ~EndlessLoop(s)

RECURSIVE Substatements(_)
Substatements(s) ==
  {s} \union UNION {Substatements(s.s[i]) : i \in DOMAIN s.s}

AllReachable(body) ==
  \A s \in Substatements(body) :
    /\ s.k = "Block" => \A i \in 1..Len(s.s) - 1 : CanComplete(s.s[i])
    /\ IsLoop(s) /\ s.e # <<>> => ~IsConstantly(FALSE, s.e)

LegalFlow(body, returns) ==
  AllReachable(body) /\ (returns => ~CanComplete(body))

-----------------------------------------------------------------------------
(* Statements the checks take for something else. *)

Has(e, node, op) == \E i \in DOMAIN e : e[i].node = node /\ e[i].op = op

\* The condition of a loop that is folded without being a constant, folded
\* to another value, or that kills the compiler.
Misfolded(s) ==
  /\ IsLoop(s)
  /\ \/ Has(s.e, "BinaryOp", "Assignment")
     \/ /\ Has(s.e, "UnaryOp", "Minus")
        /\ Has(s.e, "ExprValue", "var") \/ Has(s.e, "MethodInvocation", "")
     \/ \E i \in DOMAIN s.e : s.e[i].node = "Cast"
     \/ \E i \in DOMAIN s.e : s.e[i].op \in Division

IsEmpty(s) == s.k = "Null" \/ (s.k = "Block" /\ s.s = <<>>)

\* The path through an empty branch is lost when there is another branch.
EmptyBranch(s) == s.k = "If" /\ Len(s.s) = 2 /\ \E i \in 1..2 : IsEmpty(s.s[i])

\* A for without condition, or whose condition is always true, is taken to
\* end.
EndlessFor(s) == s.k = "For" /\ EndlessLoop(s)

\* A statement after which the graph has no leaf.
RECURSIVE NoLeaf(_)
NoLeaf(s) ==
  LET without == {i \in DOMAIN s.s : NoLeaf(s.s[i])}
  IN CASE s.k = "While" -> EndlessLoop(s)
       [] s.k = "Block" -> Len(s.s) \in without
       [] s.k = "If" -> without = {1, 2}
       [] OTHER -> FALSE

\* The condition of the loop is then reported as unreachable; an update is
\* after any body that cannot complete, which is no error in Java.
BodyNeverEnds(s) ==
  \/ IsLoop(s) /\ NoLeaf(s.s[1])
  \/ s.k = "For" /\ s.update # <<>> /\ ~CanComplete(s.s[1])

\* A loop keeps itself reachable once it is taken to be.
LoopAfterReturn(s) ==
  /\ s.k = "Block"
  /\ \E i \in 1..Len(s.s) - 1 :
       /\ ~CanComplete(s.s[i])
       /\ \E t \in Substatements(s.s[i + 1]) : IsLoop(t)

\* The condition of a loop is never without children, so a method that ends
\* with the loop is taken to return.
RECURSIVE EndsInLoop(_)
EndsInLoop(s) ==
  LET ends == {i \in DOMAIN s.s : EndsInLoop(s.s[i])}
  IN CASE IsLoop(s) -> ~IsEmpty(s.s[1])
       [] s.k = "Block" -> Len(s.s) \in ends
       [] s.k = "If" -> Len(s.s) = 2 /\ \A i \in 1..2 : i \in ends \/ ~CanComplete(s.s[i])
       [] OTHER -> FALSE

TakenForAnother(m) ==
  \/ m.returns /\ EndsInLoop(m.body)
  \/ \E s \in Substatements(m.body) :
       Misfolded(s) \/ EmptyBranch(s) \/ EndlessFor(s) \/ BodyNeverEnds(s)
         \/ LoopAfterReturn(s)

-----------------------------------------------------------------------------
(* Properties *)

HasOwnInitializer(body) ==
  \E s \in Substatements(body) : s.k = "Decl" /\ Times(s.e, s.v) > 0

Legal(m) == LegalFlow(m.body, m.returns) /\ ~HasOwnInitializer(m.body)

Refused == phase = "Killed" \/ errors # {}

\* A method the checks accept is legal Java: no unreachable statement and no
\* missing return gets through, whatever the order of the nodes.
AcceptedFlowIsLegal ==
  phase = "Return" /\ stack = <<>> /\ ~Refused =>
    Legal(Head(todo)) \/ TakenForAnother(Head(todo))

\* No legal method is refused, and none kills the compiler.
LegalFlowIsAccepted ==
  Refused => ~Legal(Head(todo)) \/ TakenForAnother(Head(todo))

\* A variable is used from n if a path leads from there to a node that uses
\* it, and no node before kills it.
UsedFrom(n, v) ==
  LET found[i \in 0..Len(cfg.children)] ==
        IF i = 0 THEN {n}
        ELSE LET F == found[i - 1]
             IN F \union UNION {Children(p) : p \in {q \in F : v \notin Kills(q)}}
  IN \E p \in found[Len(cfg.children)] : v \in Uses(p) \ Kills(p)

\* When the rounds end, the live variables are the least solution: those
\* some path uses, and no others, in whatever order the nodes were visited.
LiveMeansUsed ==
  phase = "Live" /\ cur = {} /\ next = {} =>
    \A n \in getAllNodes(cfg) :
      in[n] = {v \in UNION {Uses(p) : p \in Nodes} : UsedFrom(n, v)}

\* The rounds of both analyses and the search end, for every graph and every
\* order of its nodes.
CheckReturns ==
  phase \in {"Reach", "Live", "Return"} ~> phase \in {"Check", "Killed"}
=============================================================================
