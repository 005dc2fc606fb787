-------------------------- MODULE JavaExpressions --------------------------
(***************************************************************************)
(* What Java, as far as Joos has it, says of the expressions of a class:   *)
(* which are legal, what their names stand for and which types they have.  *)
(* Written from the trees, as the Java Language Specification (second      *)
(* edition) gives the rules, for comparison with what the passes find.     *)
(*                                                                         *)
(* The set but holds departures from Java, named where they are used: some *)
(* let more pass and some less.                                            *)
(***************************************************************************)
EXTENDS ClassTables

\* What an expression is: a value, a type, a package, or illegal ("bad");
\* the declarations it refers to; whether it may be assigned, and whether it
\* is a field used before it is declared.
Meaning(is, ty, refs, var, late) ==
    [is |-> is, ty |-> ty, refs |-> refs, var |-> var, late |-> late]
Bad == Meaning("bad", VoidTy, <<>>, FALSE, FALSE)
ValueOf(ty, refs) == Meaning("value", ty, refs, FALSE, FALSE)
If(legal, m) == IF legal THEN m ELSE Bad

Plain(t) == IF t = StringTy THEN Type("String") ELSE t   \* of a string literal

----------------------------------------------------------------------------
(* Conversions (JLS 5) *)

Subtype(a, b) == b \in Supers[a] \/ b = "Object"
Widening == {<<"byte", "short">>, <<"byte", "int">>, <<"short", "int">>, <<"char", "int">>}

InterfaceToClass(to, from) ==
    IsReference(from) /\ IsReference(to) /\ from.base \in Interfaces /\ to.base \in Classes

Assigns(but, to, from) ==
    \/ to = from
    \/ to.dims = 0 /\ from.dims = 0 /\ <<from.base, to.base>> \in Widening
    \/ from = NullTy /\ (IsReference(to) \/ IsArray(to))
    \/ IsReference(to) /\ IsReference(from) /\ Subtype(from.base, to.base)
    \/ IsArray(from) /\ to.dims = 0 /\ to.base \in {"Object", "Cloneable", "Serializable"}
    \/ /\ IsArray(to) /\ IsArray(from) /\ IsReference(Element(to)) /\ IsReference(Element(from))
       /\ Subtype(from.base, to.base)
    \/ "interface to class" \in but /\ InterfaceToClass(Element(to), Element(from)) /\ to.dims = from.dims

Assignable(but, to, from) == Assigns(but, Plain(to), Plain(from))

Final(t) == t.base \in Classes /\ Is(Declared[t.base], "final")
ReferenceCasts(but, to, from) ==
    \/ Assigns(but, to, from) \/ Assigns(but, from, to)
    \/ /\ IsReference(to) /\ IsReference(from)
       /\ \E t \in {to, from} : t.base \in Interfaces
       /\ ~Final(to) /\ ~Final(from)

Casts(but, to, from) ==
    \/ IsNumeric(to) /\ IsNumeric(from)
    \/ ReferenceCasts(but, Plain(to), Plain(from))
    \/ /\ IsArray(to) /\ IsArray(from) /\ IsReference(Element(to)) /\ IsReference(Element(from))
       /\ ReferenceCasts(but, Element(to), Element(from))

IsRef(t) == t = NullTy \/ IsReference(Plain(t)) \/ IsArray(t)

----------------------------------------------------------------------------
(* Names (JLS 6.5, 6.6); env is [unit, static, field, locals].             *)

\* d is a member reached through a value of class c, or through "", by name.
Accessible(but, env, d, c) ==
    \/ Is(d, "public")
    \/ SamePackage(d.class, env.unit)
    \/ /\ env.unit \in Classes /\ isSuperClass(d.class, env.unit)
       /\ c # "" /\ ~IsStatic(d) /\ "protected through any class" \notin but => env.unit \in Supers[c]

\* The code wants the class of the variable in the package as well.
SeenThrough(but, env, d, c) ==
    /\ Accessible(but, env, d, c)
    /\ "protected in the same package only" \in but /\ Is(d, "protected") =>
         env.unit \in Supers[c] \/ SamePackage(c, env.unit)

FieldsOf(c) == IF c \in Classes THEN getInheritedMembers[c] ELSE {}
FieldNamed(c, name) == {f \in FieldsOf(c) : f.name = name}

\* A field of the class that is initialized, or a later one.
IsLate(but, env, f) ==
    /\ env.field # NoDecl /\ f.class = env.unit
    /\ IsStatic(f) = IsStatic(env.field) /\ Len(f.scope) >= Len(env.field.scope)
    /\ IsStatic(f) => "static forward references" \notin but

LocalNamed(env, name) == {d \in env.locals : d.name = name}
LocalRef(d) == Decl("local", d.name, "", {}, d.ty, <<>>, <<d.n>>)

FieldByName(but, env, f) ==
    If(/\ Accessible(but, env, f, "")
       /\ env.static => IsStatic(f)
       /\ "no inherited field in an initializer" \in but =>
            env.field = NoDecl \/ IsStatic(f) \/ f.class = env.unit,
       Meaning("value", f.type, <<f>>, ~Is(f, "final"), IsLate(but, env, f)))

ImportedAs(unit, name) ==
    IF name \in DOMAIN Imports[unit] THEN Imports[unit][name] ELSE NoDecl

\* A type or a package; the one declaration says which.
Qualifier(d) ==
    CASE d.kind = "class"   -> Meaning("type", d.type, <<>>, FALSE, FALSE)
      [] d.kind = "package" -> Meaning("package", Type(d.name), <<>>, FALSE, FALSE)
      [] OTHER -> Bad

Identifier(but, env, name) ==
    LET locals == LocalNamed(env, name)
        fields == FieldNamed(env.unit, name)
    IN IF locals # {} THEN LET d == CHOOSE d \in locals : TRUE
                           IN Meaning("value", d.ty, <<LocalRef(d)>>, TRUE, FALSE)
       ELSE IF fields # {} THEN FieldByName(but, env, CHOOSE f \in fields : TRUE)
       ELSE Qualifier(ImportedAs(env.unit, name))

IsOperand(m) == m.is = "value" /\ m.ty # VoidTy /\ ~m.late

StaticField(but, env, c, name) ==
    LET found == {f \in FieldNamed(c, name) : IsStatic(f) /\ Accessible(but, env, f, c)}
    IN IF found = {} THEN Bad
       ELSE LET f == CHOOSE f \in found : TRUE
            IN Meaning("value", f.type, <<f>>, ~Is(f, "final"), FALSE)

InstanceField(but, env, q, name) ==
    LET c     == Plain(q.ty).base
        found == {f \in FieldNamed(c, name) : ~IsStatic(f) /\ SeenThrough(but, env, f, c)}
    IN IF found = {} THEN Bad
       ELSE LET f == CHOOSE f \in found : TRUE
            IN Meaning("value", f.type, Append(q.refs, f), ~Is(f, "final"), FALSE)

FieldAccess(but, env, q, name) ==
    CASE q.is = "package" -> IF name \in DOMAIN Packages[q.ty.base]
                             THEN Qualifier(Packages[q.ty.base][name]) ELSE Bad
      [] q.is = "type" -> IF IsReference(q.ty) THEN StaticField(but, env, q.ty.base, name) ELSE Bad
      [] IsOperand(q) /\ IsArray(q.ty) -> If(name = "length", ValueOf(IntTy, Append(q.refs, Length)))
      [] IsOperand(q) /\ IsReference(Plain(q.ty)) -> InstanceField(but, env, q, name)
      [] OTHER -> Bad

----------------------------------------------------------------------------
(* Calls (JLS 15.9, 15.12) *)

MethodsOf(c) ==
    LET inherited == getInheritedMethods["up", c]
    IN IF c \in Classes THEN inherited
       ELSE inherited \o SelectSeq(Own("Object"), LAMBDA m : \A n \in ToSet(inherited) : ~SameSignature(m, n))

\* The code also asks that the parameter converts to the argument, and an
\* interface always does to a class.
Applicable(but, m, args) ==
    /\ Len(m.params) = Len(args)
    /\ \A i \in DOMAIN args :
         /\ Assignable(but, m.params[i], args[i])
         /\ "arguments convert both ways" \in but =>
              Assignable({"interface to class"}, args[i], m.params[i])

More(but, m, n) ==
    /\ Subtype(m.class, n.class)
    /\ \A i \in DOMAIN m.params :
         Assignable(IF "arguments convert both ways" \in but THEN {"interface to class"} ELSE {},
                    n.params[i], m.params[i])

\* The most specific methods; several are one if they are the same abstract
\* method inherited from several interfaces.
MostSpecific(but, candidates) ==
    LET best == {m \in candidates : \A n \in candidates : More(but, n, m) => More(but, m, n)}
    IN IF \/ Cardinality(best) = 1
          \/ \A m, n \in best : SameSignature(m, n) /\ Is(m, "abstract")
       THEN best ELSE {}

Arguments(args) == [i \in DOMAIN args |-> args[i].ty]
Refs(meanings) == FlattenSeq([i \in DOMAIN meanings |-> meanings[i].refs])
AreOperands(meanings) == \A i \in DOMAIN meanings : IsOperand(meanings[i])

Overloads(but, env, c, name, args, through) ==
    MostSpecific(but, {m \in ToSet(MethodsOf(c)) : /\ m.name = name
                                                   /\ Applicable(but, m, Arguments(args))
                                                   /\ Accessible(but, env, m, through)})

OnlyOnce(c, m) == Len(SelectSeq(MethodsOf(c), LAMBDA n : n = m)) = 1

\* The call of one of the methods found, if the place allows it.
Call(but, c, found, before, args, Allowed(_)) ==
    IF found = {} \/ ~AreOperands(args) THEN Bad
    ELSE LET m == CHOOSE m \in found : TRUE
         IN If(/\ Allowed(m)
               /\ "inherited once" \in but => OnlyOnce(c, m),
               ValueOf(m.type, Append(before, m) \o Refs(args)))

\* Joos has no call of a static method by its simple name.
SimpleCall(but, env, name, args) ==
    LET Allowed(m) ==
          /\ ~IsStatic(m)
          /\ env.static => "interface methods anywhere" \in but /\ m.class \in Interfaces
          /\ "no call in an initializer" \in but => env.field = NoDecl \/ env.static
    IN Call(but, env.unit, Overloads(but, env, env.unit, name, args, ""), <<>>, args, Allowed)

QualifiedCall(but, env, q, name, args) ==
    LET c == Plain(q.ty).base
        Allowed(m) == IsStatic(m) = (q.is = "type") /\ (IsStatic(m) \/ SeenThrough(but, env, m, c))
    IN IF (q.is = "type" \/ IsOperand(q)) /\ IsReference(Plain(q.ty))
       THEN Call(but, c, Overloads(but, env, c, name, args, c), q.refs, args, Allowed)
       ELSE Bad

\* A protected constructor is for the package.
Creation(but, env, c, args) ==
    LET Seen(m)   == Is(m, "public") \/ SamePackage(c, env.unit)
        arity     == {m \in ToSet(Ctors(c)) : Len(m.params) = Len(args)}
        candidates == {m \in arity : Seen(m) /\ Applicable(but, m, Arguments(args))}
        best      == MostSpecific(but, candidates)
    IN IF c \in Classes /\ ~Is(Declared[c], "abstract") /\ AreOperands(args) /\ best # {}
          /\ ("no protected constructor" \in but => \A m \in arity : Seen(m))
       THEN ValueOf(Type(c), <<CHOOSE m \in best : TRUE>> \o Refs(args))
       ELSE Bad

----------------------------------------------------------------------------
(* Operators (JLS 15.15 to 15.26); Joos has no bits. *)

Equal(but, l, r) ==
    \/ IsNumeric(l) /\ IsNumeric(r)
    \/ l = BooleanTy /\ r = BooleanTy
    \/ /\ IsRef(l) /\ IsRef(r) /\ (Casts(but, l, r) \/ Casts(but, r, l))
       /\ "no arrays or literals compared" \in but =>
            \/ ~IsArray(l) /\ ~IsArray(r) /\ StringTy \notin {l, r}
            \/ StringTy \in {l, r} /\ NullTy \in {l, r}

Result(but, op, l, r) ==
    CASE op = "Assignment" -> IF l.var /\ Assignable(but, l.ty, r.ty) THEN l.ty ELSE VoidTy
      [] op \in {"Equal", "NotEqual"} -> IF Equal(but, l.ty, r.ty) THEN BooleanTy ELSE VoidTy
      [] op \in {"LessThan", "LessThanOrEqual", "GreaterThan", "GreaterThanOrEqual"} ->
           IF IsNumeric(l.ty) /\ IsNumeric(r.ty) THEN BooleanTy ELSE VoidTy
      [] op \in {"And", "Or", "BitwiseAnd", "BitwiseOr"} ->
           IF l.ty = BooleanTy /\ r.ty = BooleanTy THEN BooleanTy ELSE VoidTy
      [] op = "Add" /\ Type("String") \in {Plain(l.ty), Plain(r.ty)} -> StringTy
      [] op = "InstanceOf" -> IF IsRef(l.ty) /\ IsRef(r.ty) /\ Casts(but, r.ty, l.ty) THEN BooleanTy ELSE VoidTy
      [] OTHER -> IF IsNumeric(l.ty) /\ IsNumeric(r.ty) THEN IntTy ELSE VoidTy

\* A field may be assigned before it is declared; a type comes after
\* instanceof, and nowhere else.
Binary(but, op, l, r) ==
    LET left  == IF op = "Assignment" THEN [l EXCEPT !.late = FALSE] ELSE l
        right == IF op = "InstanceOf" THEN [r EXCEPT !.is = "value"] ELSE r
    IN IF /\ IsOperand(left) /\ IsOperand(right)
          /\ Result(but, op, left, right) # VoidTy
       THEN ValueOf(Result(but, op, left, right), l.refs \o r.refs) ELSE Bad

Unary(op, e) ==
    If(IsOperand(e) /\ (IF op = "Not" THEN e.ty = BooleanTy ELSE IsNumeric(e.ty)),
       ValueOf(IF op = "Not" THEN BooleanTy ELSE IntTy, e.refs))

\* The name of an array type is no value.
TypeAlone(but, t) ==
    If("a type as a value" \in but /\ IsArray(t), ValueOf(t, <<>>))

----------------------------------------------------------------------------
(* The meaning of an expression tree at a place. *)

RECURSIVE Of(_, _, _)
Of(but, env, t) ==
    LET m == [i \in DOMAIN t.args |->
                IF t.op = "InstanceOf" /\ i = 2 THEN ValueOf(t.args[2].ty, <<>>) ELSE Of(but, env, t.args[i])]
    IN CASE t.k = "Literal" -> ValueOf(t.ty, <<>>)
         [] t.k = "This" -> If(~env.static, ValueOf(Type(env.unit), <<>>))
         [] t.k = "Identifier" -> Identifier(but, env, t.name)
         [] t.k = "Type" -> TypeAlone(but, t.ty)
         [] t.k = "Paren" -> m[1]
         [] t.k = "Unary" -> Unary(t.op, m[1])
         [] t.k = "Binary" -> Binary(but, t.op, m[1], m[2])
         [] t.k = "FieldAccess" -> FieldAccess(but, env, m[1], t.name)
         [] t.k = "MethodInvocation" /\ t.op = "qualified" -> QualifiedCall(but, env, m[1], t.name, Tail(m))
         [] t.k = "MethodInvocation" /\ t.op # "qualified" -> SimpleCall(but, env, t.name, m)
         [] t.k = "ClassInstanceCreation" -> Creation(but, env, t.ty.base, m)
         [] t.k = "ArrayCreation" ->
              If(IsOperand(m[1]) /\ IsNumeric(m[1].ty), ValueOf(t.ty, m[1].refs))
         [] t.k = "ArrayAccess" ->
              If(IsOperand(m[1]) /\ IsArray(m[1].ty) /\ IsOperand(m[2]) /\ IsNumeric(m[2].ty),
                 Meaning("value", Element(m[1].ty), m[1].refs \o m[2].refs, TRUE, FALSE))
         [] t.k = "Cast" -> If(IsOperand(m[1]) /\ Casts(but, t.ty, m[1].ty), ValueOf(t.ty, m[1].refs))

----------------------------------------------------------------------------
(* Statements (JLS 6.3, 14) *)

RECURSIVE Within(_)
Within(s) == {s} \cup UNION {Within(s.s[i]) : i \in DOMAIN s.s}
Holds(s, id) == \E u \in Within(s) : u.e # <<>> /\ u.e[1].id = id

\* The locals declared in s that are in scope at expression id.
RECURSIVE InScope(_, _)
InScope(s, id) ==
    LET at == {i \in DOMAIN s.s : Holds(s.s[i], id)}
        earlier == {i \in DOMAIN s.s : (\E j \in at : i < j) \/ (at = {} /\ s.k = "For" /\ i = 1)}
    IN IF ~Holds(s, id) THEN {}
       ELSE (IF s.k = "Decl" THEN {s.d} ELSE {s.s[i].d : i \in {j \in earlier : s.s[j].k = "Decl"}})
              \cup UNION {InScope(s.s[i], id) : i \in at}

LocalsAt(member, id) == ToSet(member.params) \cup InScope(member.body, id)

EnvAt(member, id) ==
    [unit |-> member.unit, static |-> member.static, field |-> member.field,
     locals |-> LocalsAt(member, id)]

MeaningAt(but, member, e) == Of(but, EnvAt(member, e.id), e.tree)

\* No local has the name of another that is in scope.
Distinct(member) ==
    /\ Cardinality({d.name : d \in ToSet(member.params)}) = Len(member.params)
    /\ \A s \in Within(member.body) : s.k = "Decl" =>
         \A d \in LocalsAt(member, s.e[1].id) : d # s.d => d.name # s.d.name

Converts(but, to, m) == IsOperand(m) /\ Assignable(but, to, m.ty)

LegalStatement(but, member, s) ==
    LET m == MeaningAt(but, member, s.e[1])
    IN CASE s.k \in {"If", "While", "For"} -> s.e = <<>> \/ (IsOperand(m) /\ m.ty = BooleanTy)
         [] s.k = "Decl"   -> Converts(but, s.d.ty, m)
         [] s.k = "Expr"   -> m.is = "value" /\ ~m.late
         [] s.k = "Return" -> IF s.e = <<>> THEN member.ret = VoidTy
                              ELSE member.ret # VoidTy /\ Converts(but, member.ret, m)
         [] OTHER -> TRUE

Legal(but, member) ==
    /\ Distinct(member)
    /\ \A s \in Within(member.body) : LegalStatement(but, member, s)
    /\ member.field # NoDecl => Converts(but, member.field.type, MeaningAt(but, member, member.init))

Expressions(member) ==
    {s.e[1] : s \in {u \in Within(member.body) : u.e # <<>>}}
      \cup (IF member.field # NoDecl THEN {member.init} ELSE {})
=============================================================================
