--------------------------- MODULE CheckedBodies ---------------------------
(***************************************************************************)
(* A method or a field on its way through the passes over expressions:     *)
(* ParseTreeVisitor builds its statements and scopes; the pass ExprResolver*)
(* (passes/SemanticPasses.cc) has each expression resolved, typed and      *)
(* checked, stopping at the first that fails; then AstChecker goes over    *)
(* the statements.                                                         *)
(*                                                                         *)
(* The members of a class do not see each other's expressions, so one is   *)
(* enough. It is a record                                                  *)
(*   [unit, static, ret, params, body, field, init]                        *)
(* where field and init are those of a field, and field is NoDecl for a    *)
(* method; the body of a field is the empty statement.                     *)
(***************************************************************************)
EXTENDS ParseTreeVisitor, TLC

CONSTANT Bodies      \* the members that are compiled

ER  == INSTANCE ExprResolver
TR  == INSTANCE ExprTypeResolver
ESC == INSTANCE ExprStaticChecker
J   == INSTANCE JavaExpressions

VARIABLES
    member,     \* what is compiled
    order,      \* of the supertypes of a class in the hash table
    phase,      \* what is done next, or how it ended
    ast,        \* the statements
    locals,     \* the local variables of the method
    todo,       \* the expressions to go, the first one under way
    resolved,   \* number of an expression -> its list after resolution
    types       \* number of an expression -> its type

vars == <<member, order, phase, ast, locals, todo, resolved, types>>

Outcomes == {"accepted", "refused", "killed"}

Init ==
    /\ member \in Bodies /\ order \in Orders
    /\ phase = "build"
    /\ ast = member.body /\ locals = <<>> /\ todo = <<>>
    /\ resolved = << >> /\ types = << >>

----------------------------------------------------------------------------
(* AstChecker (semantic/AstValidator.cc): with every expression typed, the  *)
(* conditions are boolean, and initializers and returned values have the    *)
(* type that is declared. It reports and goes on.                           *)

\* The statement and those in it, as they are written.
RECURSIVE Statements(_)
Statements(s) == <<s>> \o FlattenSeq([i \in DOMAIN s.s |-> Statements(s.s[i])])

HasCondition(s) == s.k \in {"If", "While", "For"} /\ s.e # <<>>

\* A value given where one of the declared type is expected.
WrongValue(declared, t) == t = VoidTy \/ ~TR!isAssignableTo(declared, t)

validateReturnStmt(s, ret, typeOf) ==
    IF s.e = <<>> THEN ret # VoidTy
    ELSE ret = VoidTy \/ WrongValue(ret, typeOf[s.e[1].id])

ReportsStmt(s, ret, typeOf) ==
    \/ HasCondition(s) /\ typeOf[s.e[1].id] # BooleanTy
    \/ s.k = "Decl" /\ s.e # <<>> /\ WrongValue(s.d.ty, typeOf[s.e[1].id])
    \/ s.k = "Return" /\ validateReturnStmt(s, ret, typeOf)

ReportsMethod(body, ret, typeOf) ==
    \E s \in ToSet(Statements(body)) : ReportsStmt(s, ret, typeOf)

ReportsField(field, t) == WrongValue(field.type, t)

----------------------------------------------------------------------------
(* AstBuilder *)

IsField == member.field # NoDecl

\* In the order of the tree: the initializers of the locals come first, and
\* the condition of a for before its first statement.
Exprs(body) ==
    LET all   == Statements(body)
        Of(P(_)) == FlattenSeq([i \in DOMAIN all |-> IF P(all[i]) THEN all[i].e ELSE <<>>])
    IN Of(LAMBDA s : s.k = "Decl") \o Of(LAMBDA s : s.k # "Decl")

NextExpr(rest) == IF rest = <<>> THEN "validate" ELSE "names"

BuildMethod ==
    /\ phase = "build" /\ ~IsField
    /\ \E built \in {visitStatement(visitParams(member.params), member.body)} :
          /\ ast' = built.stmt
          /\ locals' = built.st.locals
          /\ todo' = Exprs(built.stmt)
          /\ phase' = IF built.st.repeated THEN "refused" ELSE NextExpr(todo')
    /\ UNCHANGED <<member, order, resolved, types>>

\* The scope of the initializer is that of the field before it.
BuildField ==
    /\ phase = "build" /\ IsField
    /\ todo' = <<[id |-> member.init.id, list |-> visitExprChild(member.init.tree),
                  scope |-> Front(member.field.scope)]>>
    /\ phase' = "names"
    /\ UNCHANGED <<member, order, ast, locals, resolved, types>>

----------------------------------------------------------------------------
(* evaluateAsList, for the first expression to go *)

Current == Head(todo)

Place == [unit |-> member.unit, locals |-> locals, scope |-> Current.scope, order |-> order]

ResolveNames ==
    /\ phase = "names"
    /\ \E r \in {ER!Evaluate(Place, Current.list)} :
          IF ER!Failed(r) THEN phase' = r.is /\ UNCHANGED resolved
          ELSE phase' = "types" /\ resolved' = (Current.id :> r.list) @@ resolved
    /\ UNCHANGED <<member, order, ast, locals, todo, types>>

ResolveTypes ==
    /\ phase = "types"
    /\ \E t \in {TR!EvalList(resolved[Current.id])} :
          IF TR!Failed(t) THEN phase' = t.is /\ UNCHANGED types
          ELSE phase' = "static" /\ types' = (Current.id :> t.ty) @@ types
    /\ UNCHANGED <<member, order, ast, locals, todo, resolved>>

StaticState == [unit |-> member.unit, static |-> member.static,
                instField |-> IsField /\ ~member.static, scope |-> Current.scope]

CheckStatic ==
    /\ phase = "static"
    /\ \E r \in {ESC!Evaluate(StaticState, resolved[Current.id])} :
          IF r # "ok" THEN phase' = r /\ UNCHANGED todo
          ELSE todo' = Tail(todo) /\ phase' = NextExpr(todo')
    /\ UNCHANGED <<member, order, ast, locals, resolved, types>>

----------------------------------------------------------------------------
(* AstChecker *)

Reports == IF IsField THEN ReportsField(member.field, types[member.init.id])
           ELSE ReportsMethod(ast, member.ret, types)

Validate ==
    /\ phase = "validate"
    /\ phase' = IF Reports THEN "refused" ELSE "accepted"
    /\ UNCHANGED <<member, order, ast, locals, todo, resolved, types>>

Ended == phase \in Outcomes /\ UNCHANGED vars

Next == BuildMethod \/ BuildField \/ ResolveNames \/ ResolveTypes \/ CheckStatic \/ Validate \/ Ended

Spec == Init /\ [][Next]_vars

----------------------------------------------------------------------------
(* Properties *)

\* What the passes let through that Java does not.
Lenient ==
    {"interface to class",          \* assigned or cast, final or not
     "protected through any class", \* from a subclass of the class that declares it
     "static forward references",
     "interface methods anywhere",  \* by their simple name, in a static method of an abstract class
     "arguments convert both ways",
     "a type as a value"}           \* T[] is a primary of the grammar

\* What Java has and they refuse, or do not survive.
Strict ==
    {"arguments convert both ways",
     "inherited once",                       \* a method that two interfaces have from a third
     "no call in an initializer",            \* of an instance field, by a simple name
     "no inherited field in an initializer", \* likewise
     "no protected constructor",             \* of the same arity in another package
     "no arrays or literals compared",
     "protected in the same package only"}   \* as that of the class of the variable

\* What is accepted is legal, but for what the passes are known to let
\* through: names resolve, types agree, nothing is used where it may not be.
AcceptedBodyIsLegal == phase = "accepted" => J!Legal(Lenient, member)

\* What is legal is accepted, but for what is known to be refused; the
\* compiler survives it in any case.
LegalBodyIsAccepted == phase \in {"refused", "killed"} => ~J!Legal(Strict, member)

\* The declarations a resolved list refers to, a local by its position.
Referred(list) ==
    LET Local(d) == Decl("local", d.name, "", {}, d.type, <<>>,
                         <<CHOOSE i \in DOMAIN locals : locals[i] = d>>)
        named == SelectSeq(list, LAMBDA n : n.val.decl.kind \in {"local", "field", "method", "ctor"})
        D(n)  == IF n.val.decl.kind = "local" THEN Local(n.val.decl) ELSE n.val.decl
    IN [i \in DOMAIN named |-> D(named[i])]

\* Of the same abstract method in several interfaces any one will do.
SameDecl(d, e) ==
    d = e \/ (d.kind = "method" /\ e.kind = "method" /\ SameSignature(d, e) /\ Is(d, "abstract") /\ Is(e, "abstract"))

SameRefs(s, t) == Len(s) = Len(t) /\ \A i \in DOMAIN s : SameDecl(s[i], t[i])

\* In a legal member that is accepted every name stands for what it does in
\* Java, every call is of the method Java chooses, and the types are Java's.
ResolvedAsJava ==
    phase = "accepted" /\ J!Legal({}, member) =>
        \A e \in J!Expressions(member) :
            LET m == J!MeaningAt({}, member, e)
            IN /\ types[e.id] = m.ty
               /\ SameRefs(Referred(resolved[e.id]), m.refs)
=============================================================================
