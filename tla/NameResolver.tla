---------------------------- MODULE NameResolver ----------------------------
(***************************************************************************)
(* semantic::NameResolver (src/lib/semantic/NameResolver.cc) and the pass  *)
(* that drives it (src/passes/SemanticPasses.cc): the table of packages,   *)
(* the names in scope in each unit, and the resolution of every type.      *)
(***************************************************************************)
EXTENDS LinkingUnit, TLC

CONSTANTS CachedClasses, CachedInterfaces    \* canonical names java_lang_ keeps

VARIABLES
    lu,        \* the units of the linking unit
    tree,      \* rootPkg_: path -> Pkg or the declaration it holds
    imports,   \* importsMap_: unit -> name -> Pkg, Null or declaration
    types,     \* what the type names of each unit resolved to
    object,    \* what the shared type java.lang.Object resolved to
    supers     \* superClasses(): unit -> the two superclass declarations

nvars == <<lu, tree, imports, types, object, supers>>

\* The values of a Child: declarations are unit numbers from 1 up.
Pkg  == 0
Null == -1          \* the null Decl* of an ambiguous import-on-demand
None == -2          \* no entry, or not resolved

Unnamed == <<"">>

At(t, p) == IF p \in DOMAIN t THEN t[p] ELSE None
ChildrenOf(p) == {q \in DOMAIN tree : Len(q) = Len(p) + 1 /\ SubSeq(q, 1, Len(p)) = p}
DeclsIn(p) == {q \in ChildrenOf(p) : tree[q] > 0}

----------------------------------------------------------------------------
(* buildSymbolTable *)

\* s.at stays where it is at a name that is a declaration.
EnterPackage(s, id) ==
    LET p == Append(s.at, id) IN
    CASE At(s.tree, p) = None -> [s EXCEPT !.tree = (p :> Pkg) @@ @, !.at = p]
      [] At(s.tree, p) = Pkg  -> [s EXCEPT !.at = p]
      [] OTHER                -> [s EXCEPT !.errors = @ \cup {"packageIsDecl"}]

\* The declaration replaces whatever has its name.
AddDecl(s, c) ==
    LET p == Append(s.at, lu[c].body.name) IN
    [s EXCEPT !.tree = (p :> c) @@ @,
              !.errors = IF p \in DOMAIN s.tree THEN @ \cup {"declNotUnique"} ELSE @]

AddUnit(s, c) ==
    LET entered == FoldLeft(EnterPackage, [s EXCEPT !.at = <<>>], lu[c].package)
        there   == IF lu[c].package = <<>> THEN [entered EXCEPT !.at = Unnamed] ELSE entered
    IN IF HasBody(lu[c]) THEN AddDecl(there, c) ELSE there

SymbolTable ==
    FoldLeft(AddUnit, [tree |-> (Unnamed :> Pkg), at |-> <<>>, errors |-> {}],
             [c \in DOMAIN lu |-> c])

\* populateJavaLangCache: std::get and the casts throw for what is missing or
\* of the other kind.
CacheFails(t) ==
    ~ /\ \A p \in CachedClasses : At(t, p) > 0 /\ IsClass(lu[At(t, p)])
      /\ \A p \in CachedInterfaces : At(t, p) > 0 /\ IsInterface(lu[At(t, p)])

buildSymbolTable ==
    /\ tree' = SymbolTable.tree
    /\ UNCHANGED <<lu, imports, types, object, supers>>

----------------------------------------------------------------------------
(* BeginContext *)

\* What a path names, when every identifier before the last is a package.
resolveImport(p) ==
    IF p = <<>> THEN Pkg
    ELSE IF \E n \in 1..(Len(p) - 1) : At(tree, SubSeq(p, 1, n)) # Pkg THEN None
    ELSE At(tree, p)

PackagePath(p) == IF p = <<>> THEN Unnamed ELSE p

\* The declarations of a package by their names.
Exported(p) == [n \in {Last(q) : q \in DeclsIn(p)} |-> tree[Append(p, n)]]

\* s is [map, errors].  A name that two imports give to different declarations
\* becomes Null.
ImportOnDemand(s, imp) ==
    IF ~imp.onDemand THEN s
    ELSE IF resolveImport(imp.type) # Pkg
         THEN [s EXCEPT !.errors = @ \cup {"importOnDemand"}]
         ELSE LET new == Exported(imp.type)
                  clash == {n \in DOMAIN new \cap DOMAIN s.map : s.map[n] # new[n]}
              IN [s EXCEPT !.map = [n \in clash |-> Null] @@ @ @@ new]

ImportPackages(m) == m @@ [n \in {p[1] : p \in {q \in ChildrenOf(<<>>) : tree[q] = Pkg}} |-> Pkg]

\* The mutant that takes an import of the unit's own declaration for a clash.
ImportSingleNotOwn(c, s, imp) ==
    LET d == resolveImport(imp.type) IN
    IF imp.onDemand THEN s
    ELSE IF d <= 0 THEN [s EXCEPT !.errors = @ \cup {"singleImport"}]
    ELSE IF Last(imp.type) = lu[c].body.name
         THEN [s EXCEPT !.errors = @ \cup {"importOfOwnName"}]
         ELSE [s EXCEPT !.map = (Last(imp.type) :> d) @@ @]

\* A single-type import of the name of the unit's own declaration is an error.
ImportSingle(c, s, imp) ==
    LET d == resolveImport(imp.type) IN
    IF imp.onDemand THEN s
    ELSE IF d <= 0 THEN [s EXCEPT !.errors = @ \cup {"singleImport"}]
    ELSE IF Last(imp.type) = lu[c].body.name /\ d # c
         THEN [s EXCEPT !.errors = @ \cup {"importOfOwnName"}]
         ELSE [s EXCEPT !.map = (Last(imp.type) :> d) @@ @]

\* The mutant in which an import on demand hides the declarations of the package.
BeginContextOnDemandFirst(c) ==
    LET onDemand == FoldLeft(ImportOnDemand, [map |-> << >>, errors |-> {}], lu[c].imports)
        package  == [onDemand EXCEPT !.map = ImportPackages(@ @@ Exported(PackagePath(lu[c].package)))]
        single   == FoldLeft(LAMBDA s, i : ImportSingle(c, s, i), package, lu[c].imports)
    IN [single EXCEPT !.map = (lu[c].body.name :> c) @@ @]

\* From the weakest to the strongest: on-demand imports, packages, the
\* declarations of the package, single-type imports, the unit's declaration.
BeginContext(c) ==
    LET onDemand == FoldLeft(ImportOnDemand, [map |-> << >>, errors |-> {}], lu[c].imports)
        package  == [onDemand EXCEPT !.map = Exported(PackagePath(lu[c].package)) @@ ImportPackages(@)]
        single   == FoldLeft(LAMBDA s, i : ImportSingle(c, s, i), package, lu[c].imports)
    IN [single EXCEPT !.map = (lu[c].body.name :> c) @@ @]

----------------------------------------------------------------------------
(* ResolveType and the walk over the units *)

\* The first identifier is looked up in the unit, the others below it.
ResolveType(map, p) ==
    LET first == IF p[1] \in DOMAIN map THEN map[p[1]] ELSE None
        d     == IF Len(p) = 1 THEN first
                 ELSE IF first = Pkg THEN resolveImport(p) ELSE None
    IN IF d > 0 THEN d ELSE None

\* Object has no superclass, whatever is written.
replaceObjectClass(c, s) == IF CanonicalName(lu[c]) = ObjectName
                            THEN [i \in 1..2 |-> IF s[i] = s[2] THEN None ELSE s[i]]
                            ELSE s

UnitErrors(c) ==
    LET context == BeginContext(c) IN
    context.errors \cup
    Reported([typeNotFound |-> \E p \in Names(lu[c]) \cup (IF IsClass(lu[c]) /\ object = None THEN {ObjectName} ELSE {}) :
                                   ResolveType(context.map, p) = None])

\* resolveRecursive for the unit c, which has a body.  The type Object is
\* shared by all classes and resolved where it is met first.
ResolveUnit(c) ==
    LET context == BeginContext(c)
        table   == [p \in Names(lu[c]) |-> ResolveType(context.map, p)]
        obj     == IF object # None THEN object
                   ELSE IF IsClass(lu[c]) THEN ResolveType(context.map, ObjectName) ELSE None
        super   == IF lu[c].body.super = <<>> THEN None ELSE table[lu[c].body.super[1]]
    IN /\ imports' = (c :> context.map) @@ imports
       /\ types' = (c :> table) @@ types
       /\ object' = obj
       /\ supers' = IF IsClass(lu[c])
                    THEN (c :> replaceObjectClass(c, <<super, obj>>)) @@ supers ELSE supers
       /\ UNCHANGED <<lu, tree>>

\* The type a name of unit c stands for in a comparison of types.
Denotes(c, t) == IF t \in BuiltIns THEN [name |-> t, decl |-> 0]
                 ELSE [name |-> <<>>, decl |-> types[c][t]]
=============================================================================
