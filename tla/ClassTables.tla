----------------------------- MODULE ClassTables -----------------------------
(***************************************************************************)
(* What the passes over expressions know of the program: its types, the    *)
(* declarations and the tables that NameResolver and HierarchyChecker left *)
(* (LinkedProgram shows that these tables are what Java says).             *)
(*                                                                         *)
(* A class or interface is identified by its simple name.  All other       *)
(* declarations, and names that stand for a class or a package, are        *)
(* records of one shape.                                                   *)
(***************************************************************************)
EXTENDS Integers, Sequences, FiniteSets, SequencesExt

CONSTANTS
    Declared,   \* name -> [kind, package, modifiers, supers, fields, methods]
    Packages,   \* package -> name -> what it holds
    Imports     \* unit -> name -> what it stands for in the unit

Decl(kind, name, class, modifiers, type, params, scope) ==
    [kind |-> kind, name |-> name, class |-> class, modifiers |-> modifiers,
     type |-> type, params |-> params, scope |-> scope]

----------------------------------------------------------------------------
(* Types: a name and the number of pairs of brackets, at most one.         *)

Type(base)  == [base |-> base, dims |-> 0]
Array(t)    == [t EXCEPT !.dims = 1]
Element(t)  == [t EXCEPT !.dims = 0]

IntTy     == Type("int")
BooleanTy == Type("boolean")
StringTy  == Type("string")      \* of a string literal
NullTy    == Type("null")
VoidTy    == Type("void")        \* the null pointer

IsArray(t)     == t.dims = 1
IsReference(t) == t.dims = 0 /\ t.base \in DOMAIN Declared
IsNumeric(t)   == t.dims = 0 /\ t.base \in {"byte", "short", "int", "char"}
IsPrimitive(t) == t.dims = 0 /\ t.base \in {"byte", "short", "int", "char", "boolean", "null"}
IsVoid(t)      == t = VoidTy

NoDecl == Decl("none", "", "", {}, VoidTy, <<>>, <<>>)
ClassName(c)   == Decl("class", c, c, {}, Type(c), <<>>, <<>>)
PackageName(p) == Decl("package", p, "", {}, VoidTy, <<>>, <<>>)

Is(d, modifier) == modifier \in d.modifiers
IsStatic(d)     == Is(d, "static")

\* java.lang.Object and the prototype of arrays, which has one member.
ObjectTy == Type("Object")
Length == Decl("field", "length", "array", {"public", "final"}, IntTy, <<>>, <<>>)

----------------------------------------------------------------------------
(* Scopes *)

canViewAnyBlock(this, other) ==
    Len(other) <= Len(this) /\ this[Len(other)] >= Last(other)

\* Can something in scope this see what was declared in scope other? A scope
\* is the sequence of positions from the outermost scope.
canView(this, other) ==
    /\ Len(other) <= Len(this)
    /\ Front(other) = SubSeq(this, 1, Len(other) - 1)
    /\ this[Len(other)] >= Last(other)

\* The scope of field k of a class, which is that of the initializer of
\* field k + 1: each field is in a scope inside the one before it.
FieldScope(c, k) == <<c>> \o [i \in 1..k |-> i]

----------------------------------------------------------------------------
(* Declarations *)

Classes    == {c \in DOMAIN Declared : Declared[c].kind = "class"}
Interfaces == DOMAIN Declared \ Classes
Fields(c)  == ToSet(Declared[c].fields)
Own(c)     == SelectSeq(Declared[c].methods, LAMBDA m : m.kind = "method")
Ctors(c)   == SelectSeq(Declared[c].methods, LAMBDA m : m.kind = "ctor")

\* What each declaration is below, itself included.
Supers[c \in DOMAIN Declared] == {c} \cup UNION {Supers[d] : d \in Declared[c].supers}

isSuperClass(super, sub) == {super, sub} \subseteq Classes /\ super \in Supers[sub]
IsSubtype(sub, super)    == super \in Supers[sub]
SamePackage(c, d)        == Declared[c].package = Declared[d].package

\* The fields of a class and those it inherits, a hidden one left out.
getInheritedMembers[c \in DOMAIN Declared] ==
    Fields(c) \cup {f \in UNION {getInheritedMembers[d] : d \in Declared[c].supers} :
                       ~\E g \in Fields(c) : g.name = f.name}

SameSignature(m, n) == m.name = n.name /\ m.params = n.params

\* The methods of a declaration: its own, then those above it in the order
\* in which the table of supertypes, a hash table, happens to give them. An
\* abstract method is gone where a concrete one implements it; one that is
\* inherited along two paths is there twice.
Orders == {"up", "down"}
Ordered(order, S) == IF order = "up" THEN SetToSeq(S) ELSE Reverse(SetToSeq(S))

getInheritedMethods[order \in Orders, c \in DOMAIN Declared] ==
    LET supers  == Ordered(order, Declared[c].supers)
        above   == FlattenSeq([i \in DOMAIN supers |-> getInheritedMethods[order, supers[i]]])
        Kept(m) == /\ \A n \in ToSet(Own(c)) : ~SameSignature(m, n)
                   /\ c \in Classes /\ Is(m, "abstract") =>
                         \A n \in ToSet(above) : SameSignature(m, n) => Is(n, "abstract")
    IN Own(c) \o SelectSeq(above, Kept)
=============================================================================
