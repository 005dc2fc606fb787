---------------------------- MODULE JavaHierarchy ----------------------------
(***************************************************************************)
(* The reference for the checks on the declarations of a program: what the *)
(* Java Language Specification (2nd edition, sections 6, 7, 8.4.6 and 9)   *)
(* says of scopes, packages, supertypes and members, as restricted by the  *)
(* Joos 1W language the compiler accepts.  It is stated on the units of a  *)
(* program as sets and relations, with no tables, no order and no walk.    *)
(***************************************************************************)
EXTENDS LinkingUnit

Units(p) == {c \in DOMAIN p : HasBody(p[c])}

\* JLS 6.5.3: the packages are those declared and their prefixes.
Packages(p) == UNION {{SubSeq(p[c].package, 1, n) : n \in 0..Len(p[c].package)} : c \in DOMAIN p}

Named(p, name) == {c \in Units(p) : CanonicalName(p[c]) = name}
InPackage(p, pkg, n) == Named(p, Append(pkg, n))

----------------------------------------------------------------------------
(* JLS 6.3, 7.5: the scope of a simple name, innermost first.  More than   *)
(* one type means the name is ambiguous.                                   *)

SingleImports(p, c) == {i.type : i \in {j \in ToSet(p[c].imports) : ~j.onDemand}}
OnDemandImports(p, c) == {i.type : i \in {j \in ToSet(p[c].imports) : j.onDemand}} \cup {JavaLang}

SimpleType(p, c, n) ==
    LET single  == UNION {Named(p, i) : i \in {j \in SingleImports(p, c) : Last(j) = n}}
        package == InPackage(p, p[c].package, n)
    IN IF p[c].body.name = n THEN {c}
       ELSE IF single # {} THEN single
       ELSE IF package # {} THEN package
       ELSE UNION {InPackage(p, i, n) : i \in OnDemandImports(p, c)}

\* JLS 6.5.2: a qualified name starts with a type when one is in scope.
Type(p, c, path) ==
    IF Len(path) = 1 THEN SimpleType(p, c, path[1])
    ELSE IF SimpleType(p, c, path[1]) # {} THEN {} ELSE Named(p, path)

TypeDecl(p, c, path) == CHOOSE d \in Type(p, c, path) : TRUE

\* JLS 4.3.2, 7.1, 7.5, 7.6.
NamesLegal(p) ==
    /\ Named(p, ObjectName) # {}
    /\ \A c, d \in Units(p) : CanonicalName(p[c]) = CanonicalName(p[d]) => c = d
    /\ \A c \in Units(p) : p[c].package # <<>> => CanonicalName(p[c]) \notin Packages(p)
    /\ \A c \in Units(p) :
        /\ OnDemandImports(p, c) \subseteq Packages(p)
        /\ \A i \in SingleImports(p, c) :
            /\ Named(p, i) # {}
            /\ Last(i) = p[c].body.name => Named(p, i) = {c}
            /\ \A j \in SingleImports(p, c) : Last(i) = Last(j) => i = j
        /\ \A path \in Names(p[c]) : Cardinality(Type(p, c, path)) = 1

----------------------------------------------------------------------------
(* JLS 8.1.3, 8.1.4, 9.1.2: supertypes. *)

ObjectDecl(p) == CHOOSE c \in Units(p) : CanonicalName(p[c]) = ObjectName

Listed(p, c) == [i \in DOMAIN p[c].body.interfaces |-> TypeDecl(p, c, p[c].body.interfaces[i])]

SuperClass(p, c) == IF IsInterface(p[c]) \/ c = ObjectDecl(p) THEN {}
                    ELSE IF p[c].body.super = <<>> THEN {ObjectDecl(p)}
                    ELSE {TypeDecl(p, c, p[c].body.super[1])}

Supers(p) == [c \in Units(p) |-> ToSet(Listed(p, c)) \cup SuperClass(p, c)]

\* All supertypes of each type, itself included: up[c] grown once per unit.
SuperTypes(p) ==
    LET direct == Supers(p)
        grow(up, i) == [c \in Units(p) |-> up[c] \cup UNION {up[d] : d \in direct[c]}]
    IN FoldLeft(grow, [c \in Units(p) |-> {c}], [i \in DOMAIN p |-> i])

SupersLegal(p) ==
    LET up == SuperTypes(p) IN
    \A c \in Units(p) :
        /\ \A d \in SuperClass(p, c) : IsClass(p[d]) /\ "final" \notin p[d].body.modifiers
                                       /\ HasDefaultCtor(p[d])
        /\ \A d \in ToSet(Listed(p, c)) : IsInterface(p[d])
        /\ IsInjective(Listed(p, c))
        /\ \A d \in Supers(p)[c] : c \notin up[d]

----------------------------------------------------------------------------
(* JLS 8.4, 9.4: members.  all is the set of methods <<unit, number>>.     *)

DeclaredIn(p, c) == {<<c, i>> : i \in Numbered(p[c], FALSE)}
Decl(p, m) == p[m[1]].body.methods[m[2]]
Mod(p, m, x) == x \in Decl(p, m).modifiers

TypeCode(p, c, t) == IF t \in BuiltIns THEN {<<t, 0>>} ELSE {<<<<>>, d>> : d \in Type(p, c, t)}
Signature(p, m) == <<Decl(p, m).name, [i \in DOMAIN Decl(p, m).params |-> TypeCode(p, m[1], Decl(p, m).params[i])]>>
Result(p, m) == TypeCode(p, m[1], Decl(p, m).returnTy)

SameSignature(p, m, n) == Signature(p, m) = Signature(p, n)

\* JLS 8.4.6.4: of the methods it inherits a class has the concrete one if
\* there is one; a method it declares takes the place of all of them.
\* The members grow from Object down, once per unit.
Inherited(members, supers, c) == UNION {members[d] : d \in supers[c]}

MembersOf(p, c, inherited) ==
    LET kept == {m \in inherited : \A n \in DeclaredIn(p, c) : ~SameSignature(p, m, n)} IN
    DeclaredIn(p, c) \cup
    {m \in kept : IsClass(p[c]) /\ Mod(p, m, "abstract") =>
                  \A n \in kept : SameSignature(p, m, n) => Mod(p, n, "abstract")}

Members(p) ==
    LET direct == Supers(p)
        grow(ms, i) == [c \in Units(p) |-> MembersOf(p, c, Inherited(ms, direct, c))]
    IN FoldLeft(grow, [c \in Units(p) |-> {}], [i \in DOMAIN p |-> i])

\* JLS 8.4.6.1-8.4.6.3: m may take the place of n.  The argument `but' of the
\* rules below is the set of known departures of the compiler to allow.
Replaces(p, m, n) ==
    /\ Result(p, m) = Result(p, n)
    /\ Mod(p, n, "public") => Mod(p, m, "public")
    /\ ~Mod(p, n, "final")

MayReplace(p, m, n) == Replaces(p, m, n) /\ (Mod(p, m, "static") <=> Mod(p, n, "static"))

\* A concrete method that is inherited implements an inherited abstract one.
MayImplement(p, m, n, but) == IF "static method implements" \in but THEN Replaces(p, m, n) ELSE MayReplace(p, m, n)

\* JLS 8.4.2, 8.4.6.4, 9.2: the methods of one type.  An interface also has to
\* agree with the methods of Object.
TypeLegal(p, c, inherited, object, but) ==
    LET own  == DeclaredIn(p, c)
        kept == {m \in inherited : \A n \in own : ~SameSignature(p, m, n)}
        abstractClass == IsClass(p[c]) => "abstract" \in p[c].body.modifiers
    IN
    /\ \A m, n \in own : m # n => ~SameSignature(p, m, n)
    /\ \A m \in own, n \in inherited : SameSignature(p, m, n) => MayReplace(p, m, n)
    /\ \A m, n \in kept : SameSignature(p, m, n) =>
          /\ Result(p, m) = Result(p, n)
          /\ ~Mod(p, m, "abstract") /\ Mod(p, n, "abstract") => MayImplement(p, m, n, but)
    /\ IsInterface(p[c]) =>
          \A m \in own, n \in object : SameSignature(p, m, n) => MayReplace(p, m, n)
    /\ (\E m \in MembersOf(p, c, inherited) : Mod(p, m, "abstract")) => abstractClass
    /\ \A i, j \in Numbered(p[c], TRUE) :
          i # j => Signature(p, <<c, i>>) # Signature(p, <<c, j>>)

MembersLegal(p, but) ==
    LET members == Members(p)
        direct  == Supers(p)
    IN \A c \in Units(p) :
          TypeLegal(p, c, Inherited(members, direct, c), DeclaredIn(p, ObjectDecl(p)), but)

----------------------------------------------------------------------------
(* Joos 1W: the modifiers and the shape of single declarations. *)

\* A native method takes an int and returns an int.
NativeType(t, but) == t = Int32 \/ ("native reference types" \in but /\ t \notin BuiltIns)

MethodLegal(m, but) ==
    LET Is(x) == x \in m.modifiers IN
    /\ Is("public") <=> ~Is("protected")
    /\ m.body <=> ~(Is("abstract") \/ Is("native"))
    /\ Cardinality({"abstract", "static", "final"} \cap m.modifiers) <= 1
    /\ Is("native") => Is("static") /\ NativeType(m.returnTy, but)
                    /\ Len(m.params) = 1 /\ NativeType(m.params[1], but)

DeclLegal(d, but) ==
    /\ "public" \in d.modifiers
    /\ \A m \in ToSet(d.methods) : MethodLegal(m, but)
    /\ d.kind = "interface" =>
          "final" \notin d.modifiers /\ \A m \in ToSet(d.methods) : "abstract" \in m.modifiers
    /\ d.kind = "class" =>
          /\ ~({"abstract", "final"} \subseteq d.modifiers)
          /\ \E m \in ToSet(d.methods) : m.ctor
          /\ \A m \in ToSet(d.methods) : m.ctor => m.name = d.name
    /\ \A f \in ToSet(d.fields) : /\ "public" \in f.modifiers <=> "protected" \notin f.modifiers
                                  /\ {"final", "abstract", "native"} \cap f.modifiers = {}
    /\ \A i, j \in DOMAIN d.fields : d.fields[i].name = d.fields[j].name => i = j

DeclsLegal(p, but) == \A c \in Units(p) : DeclLegal(p[c].body, but)

Legal(p, but) == DeclsLegal(p, but) /\ NamesLegal(p) /\ SupersLegal(p) /\ MembersLegal(p, but)
=============================================================================
