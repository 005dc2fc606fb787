-------------------------- MODULE DataflowAnalysis --------------------------
(***************************************************************************)
(* DataflowAnalysis (lib/semantic/DataflowAnalysis.cc) and the pass that   *)
(* runs it: reachability, live variables and missing returns of each       *)
(* method of a linking unit, over its control flow graph. Both analyses    *)
(* recurse in rounds over sets of pointers, so the order of the nodes of a *)
(* round is whatever the allocator made it.                                *)
(***************************************************************************)
EXTENDS Integers, Sequences, FiniteSets, SequencesExt

CONSTANT
  Units       \* the linking units: sequences of methods [body, returns]

ASSUME UnitAssumption ==
  \A u \in Units : \A i \in DOMAIN u : u[i].returns \in BOOLEAN

VARIABLES
  todo,      \* the methods to check, the one being checked at the head
  cfg,       \* its graph
  out,       \* ReachabilityCheck(): out, FALSE for nodes it has not met
  in,        \* LiveVariableAnalysis(): in
  cur, next, \* the nodes of this round and of the next one
  isVisited, \* the marks of the search for a missing return
  stack,     \* the calls of FiniteLengthReturn() to be made
  errors,    \* what was reported of this method: <<error, node>>
  warnings,  \* the dead assignments of this method
  hasErrors, \* whether an error was reported of a method before
  phase

vars == <<todo, cfg, out, in, cur, next, isVisited, stack, errors, warnings, hasErrors, phase>>

Nodes    == DOMAIN cfg.children
start    == cfg.start
Children(n) == ToSet(cfg.children[n])
Parents(n)  == {p \in Nodes : n \in Children(p)}
HasLocation(n) == cfg.data[n].k # "Empty"

\* The nodes a search from the start meets.
getAllNodes(g) ==
  LET found[i \in 0..Len(g.children)] ==
        IF i = 0 THEN {g.start}
        ELSE LET F == found[i - 1] IN F \union UNION {ToSet(g.children[n]) : n \in F}
  IN found[Len(g.children)]

Report(S) == errors' = errors \union S

Init ==
  /\ todo \in Units
  /\ cfg = <<>> /\ out = <<>> /\ in = <<>>
  /\ cur = {} /\ next = {}
  /\ isVisited = {}
  /\ stack = <<>>
  /\ errors = {} /\ warnings = {} /\ hasErrors = FALSE
  /\ phase = "Check"

-----------------------------------------------------------------------------
(* Reachability: what follows a return is not reachable. *)

\* The graph g was built. Every node it reaches is taken to be reachable.
BeginMethod(g) ==
  /\ phase = "Check" /\ todo # <<>>
  /\ cfg' = g
  /\ Report(g.errors)
  /\ IF g.killed
     THEN phase' = "Killed" /\ UNCHANGED <<out, cur, next>>
     ELSE /\ phase' = "Reach"
          /\ out' = [n \in DOMAIN g.children |-> n \in getAllNodes(g)]
          /\ cur' = getAllNodes(g) /\ next' = {}
  /\ UNCHANGED <<todo, in, isVisited, stack, warnings, hasErrors>>

\* What a return leaves is not reachable, but is taken to be.
LeavesReachableAfterReturn(n) == n = start \/ \E p \in Parents(n) : out[p]

LeavesReachable(n) ==
  n \notin cfg.isReturn /\ (n = start \/ \E p \in Parents(n) : out[p])

ReachVisit(n) ==
  /\ phase = "Reach" /\ n \in cur
  /\ cur' = cur \ {n}
  /\ out' = [out EXCEPT ![n] = LeavesReachable(n)]
  /\ next' = IF out' = out THEN next ELSE next \union Children(n)
  /\ UNCHANGED <<todo, cfg, in, isVisited, stack, errors, warnings, hasErrors, phase>>

\* The set of the next round is not a fresh one.
NextRoundKeepsNext ==
  /\ phase \in {"Reach", "Live"} /\ cur = {} /\ next # {}
  /\ cur' = next /\ next' = next
  /\ UNCHANGED <<todo, cfg, out, in, isVisited, stack, errors, warnings, hasErrors, phase>>

NextRound ==
  /\ phase \in {"Reach", "Live"} /\ cur = {} /\ next # {}
  /\ cur' = next /\ next' = {}
  /\ UNCHANGED <<todo, cfg, out, in, isVisited, stack, errors, warnings, hasErrors, phase>>

Unreachable == {n \in getAllNodes(cfg) : n # start /\ \A p \in Parents(n) : ~out[p]}

ReachReport ==
  /\ phase = "Reach" /\ cur = {} /\ next = {}
  /\ Report({<<"Unreachable", n>> : n \in Unreachable})
  /\ IF ~HasLocation(start) /\ \E n \in Unreachable : ~HasLocation(n)
     THEN phase' = "Killed" /\ UNCHANGED <<in, cur, next>>
     ELSE /\ phase' = "Live"
          /\ in' = [n \in Nodes |-> {}]
          /\ cur' = getAllNodes(cfg) /\ next' = {}
  /\ UNCHANGED <<todo, cfg, out, isVisited, stack, warnings, hasErrors>>

-----------------------------------------------------------------------------
(* Live variables. An assignment kills its variable if nothing but its     *)
(* left side names it.                                                     *)

IsVar(n) == n.node = "ExprValue" /\ n.op = "var"
getLiveVariables(e) == {e[i].val : i \in {j \in DOMAIN e : IsVar(e[j])}}
Times(e, v) == Cardinality({i \in DOMAIN e : IsVar(e[i]) /\ e[i].val = v})

\* The tail of a list in reverse Polish notation is its last operation; the
\* variable it assigns to is the first operand.
IsAssignment(n) == cfg.data[n].k = "Expr" /\ Last(cfg.data[n].e).op = "Assignment"
VarAssigned(n) == IF IsAssignment(n) /\ IsVar(Head(cfg.data[n].e))
                  THEN {Head(cfg.data[n].e).val} ELSE {}

Uses(n) == IF cfg.data[n].k = "Empty" THEN {} ELSE getLiveVariables(cfg.data[n].e)
Kills(n) == IF cfg.data[n].k = "Decl" THEN {cfg.data[n].v}
            ELSE {v \in VarAssigned(n) : Times(cfg.data[n].e, v) = 1}

LiveOut(live, n) == UNION {live[c] : c \in Children(n)}
LiveIn(live, n) == (LiveOut(live, n) \union Uses(n)) \ Kills(n)

OwnInitializer(n) == cfg.data[n].k = "Decl" /\ Times(cfg.data[n].e, cfg.data[n].v) > 0

\* A change is handed on to the children.
LiveVisitForward(n) ==
  /\ phase = "Live" /\ n \in cur
  /\ cur' = cur \ {n}
  /\ in' = [in EXCEPT ![n] = LiveIn(in, n)]
  /\ next' = IF in' = in THEN next ELSE next \union Children(n)
  /\ Report(IF OwnInitializer(n) THEN {<<"OwnInitializer", n>>} ELSE {})
  /\ UNCHANGED <<todo, cfg, out, isVisited, stack, warnings, hasErrors, phase>>

LiveVisit(n) ==
  /\ phase = "Live" /\ n \in cur
  /\ cur' = cur \ {n}
  /\ in' = [in EXCEPT ![n] = LiveIn(in, n)]
  /\ next' = IF in' = in THEN next ELSE next \union Parents(n)
  /\ Report(IF OwnInitializer(n) THEN {<<"OwnInitializer", n>>} ELSE {})
  /\ UNCHANGED <<todo, cfg, out, isVisited, stack, warnings, hasErrors, phase>>

DeadAssignments ==
  {n \in getAllNodes(cfg) : VarAssigned(n) # {} /\ VarAssigned(n) \cap LiveOut(in, n) = {}}

LiveReport ==
  /\ phase = "Live" /\ cur = {} /\ next = {}
  /\ warnings' = DeadAssignments
  /\ phase' = "Return"
  /\ stack' = IF Head(todo).returns THEN <<start>> ELSE <<>>
  /\ isVisited' = cfg.visited
  /\ UNCHANGED <<todo, cfg, out, in, cur, next, errors, hasErrors>>

-----------------------------------------------------------------------------
(* Missing returns: a search that returns and marked nodes end. *)

FiniteLengthReturn ==
  /\ phase = "Return" /\ stack # <<>>
  /\ LET n == Head(stack)
     IN IF n \in isVisited
        THEN stack' = Tail(stack) /\ UNCHANGED <<isVisited, errors>>
        ELSE /\ isVisited' = isVisited \union {n}
             /\ stack' = (IF n \in cfg.isReturn THEN <<>> ELSE cfg.children[n]) \o Tail(stack)
             /\ Report(IF n \notin cfg.isReturn /\ Children(n) = {}
                       THEN {<<"MissingReturn", n>>} ELSE {})
  /\ UNCHANGED <<todo, cfg, out, in, cur, next, warnings, hasErrors, phase>>

EndMethod ==
  /\ phase = "Return" /\ stack = <<>>
  /\ todo' = Tail(todo)
  /\ phase' = "Check"
  /\ cfg' = <<>> /\ out' = <<>> /\ in' = <<>>
  /\ isVisited' = {}
  /\ hasErrors' = (hasErrors \/ errors # {})
  /\ errors' = {} /\ warnings' = {}
  /\ UNCHANGED <<cur, next, stack>>

EndCheck ==
  /\ phase = "Check" /\ todo = <<>>
  /\ phase' = "Done"
  /\ UNCHANGED <<todo, cfg, out, in, cur, next, isVisited, stack, errors, warnings, hasErrors>>

Step ==
  \/ \E n \in cur : ReachVisit(n) \/ LiveVisit(n)
  \/ NextRound
  \/ ReachReport
  \/ LiveReport
  \/ FiniteLengthReturn
  \/ EndMethod
  \/ EndCheck
=============================================================================
