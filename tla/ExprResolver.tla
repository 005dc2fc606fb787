---------------------------- MODULE ExprResolver ----------------------------
(***************************************************************************)
(* ExprResolver (semantic/ExprResolver.cc): finds out what the names of an *)
(* expression stand for. A chain of names is kept as a linked list of      *)
(* wrapped names, each resolved in what the one before it stands for, and  *)
(* is written back as a list of resolved nodes when its value is needed.   *)
(*                                                                         *)
(* The state of the evaluation is the place of the expression:             *)
(*   [unit, locals, scope, order]                                          *)
(* with the class it is in, the local variables of its method, its scope,  *)
(* and the order in which a hash table gives the supertypes of a class.    *)
(***************************************************************************)
EXTENDS ClassTables

TR == INSTANCE ExprTypeResolver

\* A node as it is (is = "node"), a resolved list of nodes ("list"), a
\* wrapped name ("name"), whose list is the one node, or how it ended.
Value(is, list, cls, decl, prev) ==
    [is |-> is, list |-> list, cls |-> cls, decl |-> decl, prev |-> prev]

NodeOf(n)    == Value("node", <<n>>, "", NoDecl, <<>>)
ListOf(list) == Value("list", list, "", NoDecl, <<>>)
Wrapped(cls, n, decl, prev) == Value("name", <<n>>, cls, decl, prev)
Ended(is)    == Value(is, <<>>, "", NoDecl, <<>>)
Refused      == Ended("refused")
Killed       == Ended("killed")
Failed(v)    == v.is \in {"refused", "killed"}

resolveDeclAndType(n, d) == [n EXCEPT !.val.decl = d, !.val.ty = d.type]

Dot == [node |-> "MemberAccess", op |-> "", nargs |-> 2,
        val |-> [name |-> "", decl |-> NoDecl, ty |-> VoidTy]]

----------------------------------------------------------------------------
(* Looking names up *)

\* The declaration whose members a value of the type has.
GetTypeAsDecl(t) ==
    CASE IsReference(t) -> t.base
      [] t = StringTy -> "String"
      [] IsArray(t) -> "array"
      [] OTHER -> "none"

Members(c) == CASE c = "array" -> {Length}
                [] c \in Classes -> getInheritedMembers[c]
                [] OTHER -> {}

isAccessible(ctx, d) ==
    \/ Is(d, "public")
    \/ isSuperClass(d.class, ctx.unit)
    \/ SamePackage(d.class, ctx.unit)

\* The only accessible field of that name, if there is just one.
lookupField(ctx, c, name) ==
    LET found == {d \in Members(c) : d.name = name /\ isAccessible(ctx, d)}
    IN IF Cardinality(found) = 1 THEN SetToSeq(found) ELSE <<>>

lookupNamedDeclFieldFirst(ctx, name) ==
    IF lookupField(ctx, ctx.unit, name) # <<>> THEN lookupField(ctx, ctx.unit, name)
    ELSE SelectSeq(ctx.locals, LAMBDA d : d.name = name /\ canView(ctx.scope, d.scope))

\* A local variable, or a field of the class and its superclasses.
lookupNamedDecl(ctx, name) ==
    LET Visible(d) == d.name = name /\ canView(ctx.scope, d.scope)
        visible    == SelectSeq(ctx.locals, Visible)
    IN IF visible # <<>> THEN visible ELSE lookupField(ctx, ctx.unit, name)

NameOf(d) == IF d.kind = "package" THEN "PackageName" ELSE "TypeName"

tryReclassifyImport(ctx, n) ==
    IF n.val.name \notin DOMAIN Imports[ctx.unit] THEN Refused
    ELSE LET d == Imports[ctx.unit][n.val.name]
         IN IF d = NoDecl THEN Refused    \* imported on demand from two packages
            ELSE Wrapped(NameOf(d), n, d, <<>>)

reclassifySingleAmbiguousName(ctx, n) ==
    LET found == lookupNamedDecl(ctx, n.val.name)
    IN IF found # <<>> THEN Wrapped("ExpressionName", n, Head(found), <<>>)
       ELSE tryReclassifyImport(ctx, n)

\* The type of what is before the dot.
PrevType(prev) == IF prev.is = "name" THEN TR!Ty(prev.decl.type) ELSE TR!EvalList(prev.list)

\* A list without a declaration for its type fails a cast.
NoSuchContext(prev) == IF prev.is = "name" THEN Refused ELSE Killed

\* What a lookup found, if anything, as a wrapped name.
Field(n, found, prev) ==
    IF found = <<>> THEN Refused ELSE Wrapped("ExpressionName", n, Head(found), prev)

FieldOf(ctx, n, prev, t) ==
    IF TR!Failed(t) THEN Ended(t.is)
    ELSE IF GetTypeAsDecl(t.ty) = "none" THEN NoSuchContext(prev)
    ELSE Field(n, lookupField(ctx, GetTypeAsDecl(t.ty), n.val.name), <<prev>>)

resolveFieldAccess(ctx, n, prev) == FieldOf(ctx, n, prev, PrevType(prev))

\* A static member; the type before it is forgotten.
resolveTypeAccess(ctx, n, prev) ==
    Field(n, SelectSeq(lookupField(ctx, prev.decl.class, n.val.name), IsStatic), <<>>)

resolvePackageAccess(n, prev) ==
    LET pkg == Packages[prev.decl.name]
    IN IF n.val.name \notin DOMAIN pkg THEN Refused
       ELSE Wrapped(NameOf(pkg[n.val.name]), n, pkg[n.val.name], <<>>)

----------------------------------------------------------------------------
(* Writing names back *)

RECURSIVE recursiveReduce(_)
recursiveReduce(name) ==
    LET n      == resolveDeclAndType(Head(name.list), name.decl)
        IsLast == \/ name.prev = <<>>
                  \/ name.prev[1].is = "name" /\ name.prev[1].cls # "ExpressionName"
        Before(prev) == IF prev.is = "name" THEN recursiveReduce(prev).list ELSE prev.list
    IN IF name.cls # "ExpressionName" THEN Refused
       ELSE IF IsLast THEN ListOf(<<n>>)
       ELSE ListOf(Before(name.prev[1]) \o <<n, Dot>>)

Reduced(v) == IF v.is = "name" THEN recursiveReduce(v) ELSE v

resolveExprNode(ctx, v) ==
    LET n == Head(v.list)
    IN CASE v.is = "node" /\ n.op = "ThisNode" ->
              ListOf(<<resolveDeclAndType(n, ClassName(ctx.unit))>>)
         [] v.is = "node" /\ n.op \notin {"ThisNode", "MemberName"} -> ListOf(v.list)
         [] OTHER -> Reduced(IF v.is = "node" THEN reclassifySingleAmbiguousName(ctx, n) ELSE v)

\* Operands one after the other and then the operation.
FirstFailure(values) == Head(SelectSeq(values, Failed))
SomeFailed(values)   == \E i \in DOMAIN values : Failed(values[i])

Joined(lists, n) ==
    IF SomeFailed(lists) THEN FirstFailure(lists)
    ELSE ListOf(FlattenSeq([i \in DOMAIN lists |-> lists[i].list]) \o <<n>>)

Operation(ctx, operands, n) ==
    Joined([i \in DOMAIN operands |-> resolveExprNode(ctx, operands[i])], n)

----------------------------------------------------------------------------
(* Overloads *)

isMethodMoreSpecific(a, b) ==
    /\ TR!isAssignableTo(Type(a.class), Type(b.class))
    /\ \A i \in DOMAIN a.params : TR!isAssignableTo(a.params[i], b.params[i])

\* As the code has it, the parameter is assigned to the argument.
areParameterTypesApplicable(m, argtys) ==
    \A i \in DOMAIN argtys : TR!isAssignableTo(argtys[i], m.params[i])

\* The methods of a class or interface; an interface has those of Object.
Methods(ctx, c) ==
    CASE c = "array" -> <<>>
      [] c \in Classes -> getInheritedMethods[ctx.order, c]
      [] OTHER -> getInheritedMethods[ctx.order, c] \o Own("Object")

Overloads(ctx, c, name, arity) ==
    LET OfArity(m) == m.name = name /\ Len(m.params) = arity
    IN SelectSeq(Methods(ctx, c), OfArity)

CtorsOf(ctx, c, arity) ==
    LET OfArity(m) == Len(m.params) = arity /\ isAccessible(ctx, m)
    IN SelectSeq(Ctors(c), OfArity)

\* A constructor of the right arity that only a subclass may see ends the
\* search, whether or not it would have been the one.
Protected(ctx, m) == Is(m, "protected") /\ ~SamePackage(m.class, ctx.unit)

\* The last one that is more specific than the best before it, unless
\* another is just as specific, which may be the same method once more.
OnlyBest(best, candidates) ==
    LET Rival(m) == isMethodMoreSpecific(m, best) /\ isMethodMoreSpecific(best, m)
    IN IF Len(SelectSeq(candidates, Rival)) = 1 THEN TR!MethodType(best) ELSE TR!Refused

MostSpecific(candidates) ==
    LET Better(best, m) == IF isMethodMoreSpecific(m, best) THEN m ELSE best
    IN OnlyBest(FoldLeft(Better, Head(candidates), Tail(candidates)), candidates)

Chosen(candidates) == IF candidates = <<>> THEN TR!Refused ELSE MostSpecific(candidates)

resolveMethod(ctx, c, name, argtys) ==
    LET named == Overloads(ctx, c, name, Len(argtys))
        Candidate(m) == areParameterTypesApplicable(m, argtys) /\ isAccessible(ctx, m)
    IN IF named # <<>> /\ VoidTy \in ToSet(argtys) THEN TR!Killed
       ELSE Chosen(SelectSeq(named, Candidate))

resolveCtor(ctx, c, argtys) ==
    LET ctors == CtorsOf(ctx, c, Len(argtys))
        Candidate(m) == areParameterTypesApplicable(m, argtys)
    IN IF ctors = <<>> \/ Protected(ctx, Head(ctors)) THEN TR!Refused
       ELSE IF VoidTy \in ToSet(argtys) THEN TR!Killed
       ELSE IF \E m \in ToSet(ctors) : Protected(ctx, m) THEN TR!Refused
       ELSE Chosen(SelectSeq(ctors, Candidate))

----------------------------------------------------------------------------
(* The operations *)

\* What is before a dot. Only a string literal has members, and only a name,
\* this, a string or the result of an operation may come before one.
Qualifier(ctx, v) ==
    LET n == Head(v.list)
    IN CASE v.is # "node" -> v
         [] v.is = "node" /\ n.op = "MemberName" -> reclassifySingleAmbiguousName(ctx, n)
         [] v.is = "node" /\ n.op = "ThisNode" -> resolveExprNode(ctx, v)
         [] v.is = "node" /\ n.op = "LiteralNode" ->
              IF n.val.ty = StringTy THEN ListOf(v.list) ELSE Refused
         [] OTHER -> Killed

Access(ctx, n, prev) ==
    CASE n.op = "MethodName" -> Wrapped("MethodName", n, NoDecl, <<prev>>)
      [] n.op = "MemberName" /\ prev.cls = "TypeName" -> resolveTypeAccess(ctx, n, prev)
      [] n.op = "MemberName" /\ prev.cls = "PackageName" -> resolvePackageAccess(n, prev)
      [] OTHER -> resolveFieldAccess(ctx, n, prev)

AccessIn(ctx, n, prev) == IF Failed(prev) THEN prev ELSE Access(ctx, n, prev)

evalMemberAccess(ctx, lhs, id) == AccessIn(ctx, Head(id.list), Qualifier(ctx, lhs))

\* The class or interface a method is searched in, as [is, class].
Parent(is, c) == [is |-> is, class |-> c]

ParentOf(prev, t) ==
    CASE TR!Failed(t) -> Parent(t.is, "")
      [] ~TR!Failed(t) /\ GetTypeAsDecl(t.ty) = "none" -> Parent(NoSuchContext(prev).is, "")
      [] OTHER -> Parent("class", GetTypeAsDecl(t.ty))

getMethodParent(ctx, Q) ==
    IF Q.prev = <<>> THEN Parent("class", ctx.unit)
    ELSE IF Q.prev[1].cls = "PackageName" THEN Parent("killed", "")
    ELSE ParentOf(Q.prev[1], PrevType(Q.prev[1]))

\* The lists and the types of the arguments, in the order they are written.
Arguments(ctx, args) ==
    LET Argument(l) == IF Failed(l) THEN [list |-> <<>>, type |-> [TR!Refused EXCEPT !.is = l.is]]
                       ELSE [list |-> l.list, type |-> TR!EvalList(l.list)]
    IN [i \in DOMAIN args |-> Argument(resolveExprNode(ctx, args[i]))]

BadArguments(args) == SelectSeq(args, LAMBDA a : TR!Failed(a.type))
Lists(args) == FlattenSeq([i \in DOMAIN args |-> args[i].list])
Types(args) == [i \in DOMAIN args |-> args[i].type.ty]

\* Joos has no static call by a simple name and none of an instance method
\* by the name of a type.
LegalCall(Q, m) ==
    /\ Q.prev = <<>> => ~IsStatic(m)
    /\ Q.prev # <<>> => (Q.prev[1].cls = "TypeName" => IsStatic(m))

Callee(method) ==
    IF method.is = "node" THEN Wrapped("MethodName", Head(method.list), NoDecl, <<>>) ELSE method

CallOf(Q, given, found, n) ==
    IF TR!Failed(found) THEN Ended(found.is)
    ELSE IF ~LegalCall(Q, found.decl) THEN Refused
    ELSE ListOf(recursiveReduce([Q EXCEPT !.cls = "ExpressionName", !.decl = found.decl]).list
                  \o Lists(given) \o <<n>>)

CallIn(ctx, Q, given, parent, n) ==
    IF parent.is # "class" THEN Ended(parent.is)
    ELSE CallOf(Q, given, resolveMethod(ctx, parent.class, Head(Q.list).val.name, Types(given)), n)

CallWith(ctx, Q, given, n) ==
    IF BadArguments(given) # <<>> THEN Ended(Head(BadArguments(given)).type.is)
    ELSE CallIn(ctx, Q, given, getMethodParent(ctx, Q), n)

evalMethodCall(ctx, method, args, n) == CallWith(ctx, Callee(method), Arguments(ctx, args), n)

NewOf(type, given, found, n) ==
    IF TR!Failed(found) THEN Ended(found.is)
    ELSE ListOf(<<[type EXCEPT !.val.decl = found.decl]>> \o Lists(given) \o <<n>>)

NewWith(ctx, type, given, n) ==
    IF BadArguments(given) # <<>> THEN Ended(Head(BadArguments(given)).type.is)
    ELSE IF Is(Declared[type.val.ty.base], "abstract") THEN Refused
    ELSE NewOf(type, given, resolveCtor(ctx, type.val.ty.base, Types(given)), n)

evalNewObject(ctx, object, args, n) == NewWith(ctx, Head(object.list), Arguments(ctx, args), n)

Evaluated(ctx, n, operands) ==
    CASE n.node = "MemberAccess" -> evalMemberAccess(ctx, operands[1], operands[2])
      [] n.node = "MethodInvocation" -> evalMethodCall(ctx, operands[1], Reverse(Tail(operands)), n)
      [] n.node = "ClassInstanceCreation" -> evalNewObject(ctx, operands[1], Reverse(Tail(operands)), n)
      [] OTHER -> Operation(ctx, operands, n)

mapValue(ctx, n) == [value |-> NodeOf(n), state |-> ctx]

\* As in ExprTypeResolver, what failed first is what was thrown.
evalOp(ctx, n, operands) ==
    LET inOrder == IF n.node \in {"MethodInvocation", "ClassInstanceCreation"}
                   THEN <<Head(operands)>> \o Reverse(Tail(operands)) ELSE operands
    IN [value |-> IF SomeFailed(operands) THEN FirstFailure(inOrder) ELSE Evaluated(ctx, n, operands),
        state |-> ctx]

E == INSTANCE ExprEvaluator WITH MapValue <- mapValue, EvalOp <- evalOp

\* The list an expression at this place resolves to.
Evaluate(ctx, list) == resolveExprNode(ctx, E!EvaluateList(ctx, list).value)
=============================================================================
