-------------------------- MODULE HierarchyChecker --------------------------
(***************************************************************************)
(* semantic::HierarchyChecker (src/lib/semantic/HierarchyChecker.cc): the  *)
(* inheritance map of the program, then a depth-first walk over it that    *)
(* checks each declaration against what it inherits.  The recursion of     *)
(* checkMethodInheritanceHelper is a stack of frames; the direct           *)
(* supertypes of a declaration are an unordered_set, so each frame takes   *)
(* them in any order.                                                      *)
(***************************************************************************)
EXTENDS NameResolver

VARIABLES
    inheritance,   \* inheritanceMap_: unit -> its direct supertypes
    methods,       \* methodInheritanceMap_: unit -> the methods it has
    fields,        \* memberInheritancesMap_: unit -> its fields, inherited first
    visited,       \* visited of checkMethodInheritance
    stack          \* frames [node, todo, from, inherited], the top one last

hvars == <<inheritance, methods, fields, visited, stack>>

Bodies == {c \in DOMAIN lu : HasBody(lu[c])}

\* The map f after f[x] = v.
Put(f, x, v) == [y \in DOMAIN f \cup {x} |-> IF y = x THEN v ELSE f[y]]

Method(m) == lu[m[1]].body.methods[m[2]]
Field(f)  == lu[f[1]].body.fields[f[2]]
Has(m, x) == x \in Method(m).modifiers

Declared(c)     == {<<c, i>> : i \in Numbered(lu[c], FALSE)}
Constructors(c) == {<<c, i>> : i \in Numbered(lu[c], TRUE)}

ReturnTy(m) == Denotes(m[1], Method(m).returnTy)
Params(m)   == [i \in DOMAIN Method(m).params |-> Denotes(m[1], Method(m).params[i])]

isSameMethodSignature(m, n) == Method(m).name = Method(n).name /\ Params(m) = Params(n)
SameReturn(m, n) == ReturnTy(m) = ReturnTy(n)

----------------------------------------------------------------------------
(* checkInheritance *)

Interfaces(c) == [i \in DOMAIN lu[c].body.interfaces |-> types[c][lu[c].body.interfaces[i]]]

\* superClasses(); a class the name resolver did not reach has only Object.
SuperClasses(c) == IF c \in DOMAIN supers THEN supers[c] ELSE <<None, object>>
Extends(c) == SuperClasses(c)[1]

\* A class that names an interface as its superclass is left out altogether.
ExtendsInterface(c) == IsClass(lu[c]) /\ Extends(c) # None /\ IsInterface(lu[Extends(c)])

DirectSupers(c) ==
    LET named  == {d \in ToSet(Interfaces(c)) : IsInterface(lu[d])}
        super  == IF IsInterface(lu[c]) THEN {}
                  ELSE {IF Extends(c) # None THEN Extends(c) ELSE SuperClasses(c)[2]} \ {None}
    IN IF ExtendsInterface(c) THEN {} ELSE named \cup super

InheritanceErrors(c) ==
    LET extends == ExtendsInterface(c) IN
    Reported([classExtendsInterface |-> extends,
              extendsFinal      |-> /\ ~extends
                                    /\ IsClass(lu[c]) /\ Extends(c) # None
                                    /\ "final" \in lu[Extends(c)].body.modifiers,
              sameInterface     |-> ~extends /\ RepeatedName(Interfaces(c)),
              implementsClass   |-> /\ ~extends /\ IsClass(lu[c])
                                    /\ \E d \in ToSet(Interfaces(c)) : IsClass(lu[d])])

\* An interface that extends a class is reported through the null pointer the
\* cast returned; an unresolved supertype fails the cast's assertion.
InheritanceKills ==
    \E c \in Bodies :
        \/ c \notin DOMAIN types /\ lu[c].body.super \o lu[c].body.interfaces # <<>>
        \/ IsInterface(lu[c]) /\ \E d \in ToSet(Interfaces(c)) : IsClass(lu[d])

checkInheritance ==
    /\ inheritance' = [c \in Bodies |-> DirectSupers(c)]
    /\ UNCHANGED <<methods, fields, visited, stack>>

----------------------------------------------------------------------------
(* What a declaration inherits *)

Overridden(c, m) == \E n \in Declared(c) : isSameMethodSignature(n, m)

\* The mutant that looks for any method with the signature.
ImplementedByAny(ms, m) == \E n \in ms : isSameMethodSignature(m, n) /\ SameReturn(m, n)

\* An inherited concrete method with the same signature and return type.
Implemented(ms, m) == \/ ~Has(m, "abstract")
                      \/ \E n \in ms : /\ isSameMethodSignature(m, n) /\ SameReturn(m, n)
                                       /\ ~Has(n, "abstract")

DuplicateSignature(ms) == \E m, n \in ms : m # n /\ isSameMethodSignature(m, n)

\* The methods of a class: its own, the concrete ones it inherits, and the
\* abstract ones nothing implements.
ClassMethods(c, inherited) ==
    LET kept == {m \in inherited : ~Overridden(c, m)} IN
    Declared(c) \cup {m \in kept : Has(m, "abstract") => /\ ~Implemented(kept, m)
                                                        /\ "abstract" \in lu[c].body.modifiers}

\* A declared method replaces every inherited one with its signature.
ReplacementErrors(ms, inherited) ==
    LET Wrong(P(_, _)) == \E m \in ms, n \in inherited : isSameMethodSignature(m, n) /\ P(m, n)
    IN Reported([otherReturnType   |-> Wrong(LAMBDA m, n : ~SameReturn(m, n)),
                 replacesStatic    |-> Wrong(LAMBDA m, n : ~Has(m, "static") /\ Has(n, "static")),
                 staticReplaces    |-> Wrong(LAMBDA m, n : Has(m, "static") /\ ~Has(n, "static")),
                 protectedReplaces |-> Wrong(LAMBDA m, n : Has(m, "protected") /\ Has(n, "public")),
                 replacesFinal     |-> Wrong(LAMBDA m, n : Has(n, "final"))])

\* Two inherited methods of one signature: they have to agree, and a concrete
\* one may not hide the visibility of the other.
InheritedErrors(c, kept) ==
    LET Wrong(P(_, _)) == \E m, n \in kept : isSameMethodSignature(m, n) /\ P(m, n)
    IN Reported([otherReturnType   |-> Wrong(LAMBDA m, n : ~SameReturn(m, n)),
                 protectedReplaces |-> Wrong(LAMBDA m, n : /\ SameReturn(m, n) /\ ~Has(n, "abstract")
                                                           /\ Has(n, "protected") /\ Has(m, "public")),
                 notImplemented    |-> /\ "abstract" \notin lu[c].body.modifiers
                                       /\ \E m \in kept : ~Implemented(kept, m)])

checkClassMethod(c, inherited) ==
    Reported([sameSignature    |-> DuplicateSignature(Declared(c)),
              notAbstractClass |-> /\ "abstract" \notin lu[c].body.modifiers
                                   /\ \E m \in Declared(c) : Has(m, "abstract")])
    \cup ReplacementErrors(Declared(c), inherited)
    \cup InheritedErrors(c, {m \in inherited : ~Overridden(c, m)})

checkClassConstructors(c) == Reported([sameConstructor |-> DuplicateSignature(Constructors(c))])

InterfaceMethods(c, inherited) ==
    Declared(c) \cup {m \in inherited : ~\E n \in Declared(c) : isSameMethodSignature(m, n) /\ SameReturn(m, n)}

\* The static rules do not apply to the methods of Object.
checkInterfaceMethod(c, inherited) ==
    LET all == InterfaceMethods(c, inherited) IN
    Reported([sameSignature   |-> DuplicateSignature(Declared(c)),
              otherReturnType |-> \E m, n \in all : isSameMethodSignature(m, n) /\ ~SameReturn(m, n)])
    \cup (ReplacementErrors(Declared(c), Declared(object)) \ {"staticReplaces", "replacesStatic"})

NodeErrors(c, inherited) ==
    IF IsClass(lu[c]) THEN checkClassMethod(c, inherited) \cup checkClassConstructors(c)
                      ELSE checkInterfaceMethod(c, inherited)

NodeMethods(c, inherited) == IF IsClass(lu[c]) THEN ClassMethods(c, inherited)
                                               ELSE InterfaceMethods(c, inherited)

OwnFields(c) == [i \in DOMAIN lu[c].body.fields |-> <<c, i>>]

----------------------------------------------------------------------------
(* checkMethodInheritance: one action per iteration of its loops.          *)

Top == Last(stack)

\* The mutant that takes a declaration without methods for unfinished.
isInheritedNonEmpty(c) == c \in DOMAIN methods /\ methods[c] # {}

\* The check of c has ended.
isInheritedSet(c) == c \in DOMAIN methods

\* The mutant that forgets to mark the declaration.
EnterUnmarked(c) ==
    /\ fields' = Put(fields, c, <<>>)
    /\ UNCHANGED <<inheritance, methods, visited>>

Enter(c) ==
    /\ visited' = visited \cup {c}
    /\ fields' = Put(fields, c, <<>>)
    /\ UNCHANGED <<inheritance, methods>>

NewFrame(c) == [node |-> c, todo |-> inheritance[c], from |-> None, inherited |-> {}]

\* The next unit that no walk has visited.
VisitUnit(c) ==
    /\ stack = <<>>
    /\ c \in Bodies \ visited /\ \A d \in Bodies \ visited : c <= d
    /\ stack' = <<NewFrame(c)>>
    /\ Enter(c)

\* The recursive call for a supertype not visited yet.
Descend(s) ==
    /\ stack # <<>> /\ Top.from = None
    /\ s \in Top.todo \ visited
    /\ stack' = Append([stack EXCEPT ![Len(stack)].from = s], NewFrame(s))
    /\ Enter(s)

\* A supertype whose check has begun and not ended: a cycle.
FindCycle(s) ==
    /\ stack # <<>> /\ Top.from = None
    /\ s \in Top.todo \cap visited /\ ~isInheritedSet(s)
    /\ stack' = [stack EXCEPT ![Len(stack)].todo = @ \ {s}]
    /\ UNCHANGED <<inheritance, methods, fields, visited>>

\* setInheritedMembersHelper
NotHidden(c, fs) == SelectSeq(fs, LAMBDA f : \A g \in ToSet(OwnFields(c)) : Field(g).name # Field(f).name)

Collect(s) ==
    /\ stack # <<>> /\ Top.from \in {None, s}
    /\ s \in Top.todo \cap visited /\ isInheritedSet(s)
    /\ stack' = [stack EXCEPT ![Len(stack)] =
                    [Top EXCEPT !.todo = @ \ {s}, !.from = None, !.inherited = @ \cup methods[s]]]
    /\ fields' = IF IsClass(lu[s]) THEN [fields EXCEPT ![Top.node] = @ \o NotHidden(Top.node, fields[s])]
                                   ELSE fields
    /\ UNCHANGED <<inheritance, methods, visited>>

\* Everything is collected: the checks of the declaration itself.
FinishNode ==
    /\ stack # <<>> /\ Top.todo = {}
    /\ LET c == Top.node IN
       /\ methods' = Put(methods, c, NodeMethods(c, Top.inherited))
       /\ fields' = [fields EXCEPT ![c] = IF IsClass(lu[c]) THEN @ \o OwnFields(c) ELSE @]
    /\ stack' = Front(stack)
    /\ UNCHANGED <<inheritance, visited>>

Walked == stack = <<>> /\ visited = Bodies

\* HierarchyChecker::Run: the superclasses of a class have a constructor
\* without parameters.
CtorErrors ==
    Reported([noDefaultCtor |->
        \E c \in Bodies : /\ IsClass(lu[c])
                          /\ \E s \in ToSet(SuperClasses(c)) \ {None} : IsClass(lu[s]) /\ ~HasDefaultCtor(lu[s])])

----------------------------------------------------------------------------
\* isSubType, by the inheritance map.
isSuper(super) ==
    LET up[d \in Bodies] == \/ super = d
                            \/ \E e \in inheritance[d] : (IsClass(lu[super]) => IsClass(lu[e])) /\ up[e]
    IN up

isSubType(sub, super) == (IsInterface(lu[sub]) => IsInterface(lu[super])) /\ isSuper(super)[sub]
=============================================================================
