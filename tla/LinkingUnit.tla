---------------------------- MODULE LinkingUnit ----------------------------
(***************************************************************************)
(* The syntax tree of a whole program, down to its declarations, and the   *)
(* checks ast::Semantic makes while the tree is built                      *)
(* (src/lib/semantic/Semantic.cc).                                         *)
(*                                                                         *)
(* A program is a sequence of compilation units, where a package or a type *)
(* name is a path, that is a sequence of identifiers. `super' is a         *)
(* sequence of at most one path; the interfaces of an interface are the    *)
(* ones it extends.  A declaration is identified by the number of its      *)
(* unit, a method or field by <<unit, number>>.                            *)
(***************************************************************************)
EXTENDS Integers, Sequences, FiniteSets, SequencesExt

BuiltIns == {<<"void">>, <<"boolean">>, <<"char">>, <<"int">>}
Int32 == <<"int">>
Void  == <<"void">>

JavaLang   == <<"java", "lang">>
ObjectName == <<"java", "lang", "Object">>

NoBody == [kind |-> "none"]

\* What the trees of a compilation unit and its declaration can be.
Path       == Seq(STRING)
FieldDecl  == [name : STRING, modifiers : SUBSET STRING, type : Path]
MethodDecl == [name : STRING, modifiers : SUBSET STRING, returnTy : Path, params : Seq(Path),
               ctor : BOOLEAN, body : BOOLEAN]
Declaration ==
    [kind : {"class", "interface"}, name : STRING, modifiers : SUBSET STRING, super : Seq(Path),
     interfaces : Seq(Path), fields : Seq(FieldDecl), methods : Seq(MethodDecl)]
CompilationUnit ==
    [package : Path, imports : Seq([type : Path, onDemand : BOOLEAN]), body : Declaration \cup {NoBody}]

HasBody(cu)     == cu.body.kind # "none"
IsClass(cu)     == cu.body.kind = "class"
IsInterface(cu) == cu.body.kind = "interface"

CanonicalName(cu) == Append(cu.package, cu.body.name)

\* The sorted body of a class: constructors apart from the other methods.
Numbered(cu, ctor) == {i \in DOMAIN cu.body.methods : cu.body.methods[i].ctor = ctor}

HasDefaultCtor(cu) == \E i \in Numbered(cu, TRUE) : cu.body.methods[i].params = <<>>

\* The type names written in a unit that the name resolver has to resolve.
Names(cu) ==
    LET body == cu.body IN
    (UNION ({{f.type} : f \in ToSet(body.fields)}
            \cup {{m.returnTy} \cup ToSet(m.params) : m \in ToSet(body.methods)}
            \cup {ToSet(body.interfaces), ToSet(body.super)})) \ BuiltIns

----------------------------------------------------------------------------
(* Errors are the kinds of message reported: rules is a record that says   *)
(* of each kind whether the code reports it.                               *)

Reported(rules) == {k \in DOMAIN rules : rules[k]}

Visibility(ms) ==
    [publicAndProtected |-> {"public", "protected"} \subseteq ms,
     noVisibility       |-> {"public", "protected"} \cap ms = {}]

BuildFieldDecl(f) ==
    Reported(Visibility(f.modifiers)) \cup
    Reported([finalField    |-> "final" \in f.modifiers,
              abstractField |-> "abstract" \in f.modifiers,
              nativeField   |-> "native" \in f.modifiers])

\* A reference type passes the test of the types of a native method, which
\* only looks at built-in types.
NotInt(t) == t \in BuiltIns /\ t # Int32

BuildMethodDecl(m) ==
    LET Is(x) == x \in m.modifiers IN
    Reported(Visibility(m.modifiers)) \cup
    Reported([bodyMismatch     |-> m.body = (Is("abstract") \/ Is("native")),
              abstractModifier |-> Is("abstract") /\ {"final", "static", "native"} \cap m.modifiers # {},
              staticFinal      |-> Is("static") /\ Is("final"),
              nativeNotStatic  |-> Is("native") /\ ~Is("static"),
              nativeReturn     |-> Is("native") /\ NotInt(m.returnTy),
              nativeParameter  |-> Is("native") /\ (Len(m.params) # 1 \/ NotInt(m.params[1]))])

\* The return type of a void method is a null pointer, which the cast in the
\* test of native methods refuses with an assertion.
BuildKills(cu) ==
    HasBody(cu) /\ \E m \in ToSet(cu.body.methods) : "native" \in m.modifiers /\ m.returnTy = Void

RepeatedName(s) == \E i, j \in DOMAIN s : i # j /\ s[i] = s[j]

BuildClassDecl(d) ==
    Reported([abstractFinal     |-> {"abstract", "final"} \subseteq d.modifiers,
              notPublic         |-> "public" \notin d.modifiers,
              noConstructor     |-> \A m \in ToSet(d.methods) : ~m.ctor,
              constructorName   |-> \E m \in ToSet(d.methods) : m.ctor /\ m.name # d.name,
              repeatedField     |-> \E i, j \in DOMAIN d.fields : i # j /\ d.fields[i].name = d.fields[j].name,
              repeatedInterface |-> RepeatedName(d.interfaces)])

\* The visitor makes the methods of an interface abstract before they are built.
BuildInterfaceDecl(d) ==
    Reported([finalInterface    |-> "final" \in d.modifiers,
              notPublic         |-> "public" \notin d.modifiers,
              concreteMethod    |-> \E m \in ToSet(d.methods) : "abstract" \notin m.modifiers,
              repeatedInterface |-> RepeatedName(d.interfaces)])

\* Two single-type imports of one simple name, unless the same type was
\* imported before.
BuildCompilationUnit(cu) ==
    LET I == cu.imports
        Single(i) == ~I[i].onDemand
    IN Reported([importClash |->
           \E i \in DOMAIN I : /\ Single(i)
                               /\ \E j \in 1..(i-1) : Single(j) /\ Last(I[j].type) = Last(I[i].type)
                               /\ \A j \in 1..(i-1) : Single(j) => I[j].type # I[i].type])

\* Everything AstBuilder reports on one file.
BuildUnit(cu) ==
    BuildCompilationUnit(cu) \cup
    IF ~HasBody(cu) THEN {}
    ELSE UNION ({BuildFieldDecl(f) : f \in ToSet(cu.body.fields)}
                \cup {BuildMethodDecl(m) : m \in ToSet(cu.body.methods)}
                \cup {IF IsClass(cu) THEN BuildClassDecl(cu.body) ELSE BuildInterfaceDecl(cu.body)})

\* Every unit imports java.lang.* last.
WithJavaLang(cu) == [cu EXCEPT !.imports = Append(@, [type |-> JavaLang, onDemand |-> TRUE])]

\* The unit without body that is appended so that the package java.lang exists.
JavaLangUnit == WithJavaLang([package |-> JavaLang, imports |-> <<>>, body |-> NoBody])

BuildLinkingUnit(cus) ==
    Reported([repeatedCanonicalName |->
        \E i, j \in DOMAIN cus : /\ i < j /\ HasBody(cus[i]) /\ HasBody(cus[j])
                                 /\ CanonicalName(cus[i]) = CanonicalName(cus[j])])

LinkedUnits(cus) == Append([i \in DOMAIN cus |-> WithJavaLang(cus[i])], JavaLangUnit)
============================================================================
