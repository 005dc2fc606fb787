---------------------------- MODULE LinkedProgram ----------------------------
(***************************************************************************)
(* The declarations of a program on their way through the compiler: the    *)
(* trees are built and linked, the packages and the names of each unit are *)
(* tabled, types are resolved, the hierarchy is checked, and the classes   *)
(* are laid out.  Each pass works on what the ones before it left, and a   *)
(* pass after which there are errors is the last one.                      *)
(***************************************************************************)
EXTENDS HierarchyChecker, JavaHierarchy

CONSTANT Programs      \* the sequences of units compiled

ASSUME ProgramsAssumption == Programs \subseteq Seq(CompilationUnit)

VARIABLES
    program,   \* the units as they were written
    phase,     \* the pass that is running; "errors", "killed" and "done" end
    at,        \* the next unit of the pass
    errors     \* kinds of message reported

VARIABLES
    rtti,         \* rttiTable, as the set of pairs <<sub, super>> it holds
    slot,         \* vtableIndexMap: method -> index
    fieldIndex,   \* fieldIndexMap: field -> index in the struct
    structs,      \* typeMap: class -> the fields of its struct, after the vtable
    functions,    \* gvMap: method -> mangled name of its function
    vtables       \* class -> slot -> method stored there

lvars == <<rtti, slot, fieldIndex, structs, functions, vtables>>

vars == <<program, phase, at, errors, nvars, hvars, lvars>>

----------------------------------------------------------------------------
(* What the code generator lays out for each class of an accepted program: *)
(* the RTTI table, the vtable slots, the class structs, the functions and  *)
(* the vtables (src/lib/codegen/CodeGen.cc, CGClass.cc, Mangling.cc).      *)
(* Slots are assigned by colouring an interference graph whose nodes come  *)
(* out of an unordered_map, in any order.                                  *)

Classes == {c \in Bodies : IsClass(lu[c])}

populateRtti ==
    /\ rtti' = {pair \in Bodies \X Bodies : isSubType(pair[1], pair[2])}
    /\ UNCHANGED <<slot, fieldIndex, structs, functions, vtables>>

\* The mutant that looks at the methods of the declaring class only.
InterfereDeclared(m, n) == m # n /\ \E c \in Bodies : {m, n} \subseteq Declared(c)

\* Two methods interfere when one declaration has both of them.
Interfere(m, n) == m # n /\ \E c \in Bodies : {m, n} \subseteq methods[c]

\* The methods in the graph: those that interfere with another.
Nodes == UNION {IF Cardinality(methods[c]) > 1 THEN methods[c] ELSE {} : c \in Bodies}

\* colorInterferenceGraph: the next key gets the first index from 1 that no
\* neighbour has.
Colour(m) ==
    /\ m \in Nodes \ DOMAIN slot
    /\ LET used == {slot[n] : n \in {k \in DOMAIN slot : Interfere(m, k)}}
           free == CHOOSE i \in 1..(Cardinality(used) + 1) :
                       i \notin used /\ \A j \in 1..(i - 1) : j \in used
       IN slot' = Put(slot, m, free)
    /\ UNCHANGED <<rtti, fieldIndex, structs, functions, vtables>>

\* vtableIndexMap[m] gives a method outside the graph the index 0.
Slot(m) == IF m \in DOMAIN slot THEN slot[m] ELSE 0

----------------------------------------------------------------------------
(* Mangled names: sequences of the tokens the mangler writes, each token a *)
(* sequence of identifiers.                                                *)

MangleType(c, t) ==
    IF t \in BuiltIns THEN <<t>>
    ELSE IF types[c][t] = object THEN <<<<"O">>>>
    ELSE <<<<"R">>, CanonicalName(lu[types[c][t]])>>

MangledTypes(c, ts) == FoldLeft(LAMBDA a, t : a \o MangleType(c, t), <<>>, ts)

\* A native function is named without its types.
FunctionName(m) ==
    LET name == Append(CanonicalName(lu[m[1]]), Method(m).name) IN
    IF Has(m, "native") THEN <<<<"NATIVE">>, name>>
    ELSE <<IF Has(m, "static") THEN <<"_JF">> ELSE <<"_JF", "C">>, name>>
         \o MangledTypes(m[1], <<Method(m).returnTy>> \o Method(m).params)

\* CreateFunction gives no second function of the same name.
Emitted(c) == {m \in Declared(c) : ~Has(m, "abstract")}

NameTaken(c) ==
    \/ \E m, n \in Emitted(c) : m # n /\ FunctionName(m) = FunctionName(n)
    \/ \E m \in Emitted(c), n \in DOMAIN functions : FunctionName(m) = functions[n]

----------------------------------------------------------------------------
(* emitClassDecl *)

InstanceFields(c) == SelectSeq(OwnFields(c), LAMBDA f : "static" \notin Field(f).modifiers)

\* The fields the checker recorded, own ones and static ones included, then the
\* instance fields of the class once more.  Entry 0 of the struct is the vtable.
StructFields(c) == fields[c] \o InstanceFields(c)

\* The assertion that a field has the index it was given in another class.
FieldMoved(c) ==
    \E i \in DOMAIN fields[c] : fields[c][i] \in DOMAIN fieldIndex /\ fieldIndex[fields[c][i]] # i

\* The last position of a field in the struct becomes its index.
FieldIndices(c) ==
    LET s == StructFields(c)
        own == ToSet(InstanceFields(c))
        \* an inherited field that has an index keeps it
        new == {f \in ToSet(s) : f \in own \/ f \notin DOMAIN fieldIndex}
    IN [f \in new |-> CHOOSE i \in DOMAIN s : s[i] = f /\ \A j \in DOMAIN s : s[j] = f => j <= i]

emitClassDecl(c) ==
    /\ functions' = [m \in Emitted(c) |-> FunctionName(m)] @@ functions
    /\ structs' = Put(structs, c, StructFields(c))
    /\ fieldIndex' = FieldIndices(c) @@ fieldIndex
    /\ UNCHANGED <<rtti, slot, vtables>>

\* emitVTable: the constructor of the vtable stores each method at its slot.
\* An abstract class has no vtable.
emitClass(c) ==
    /\ vtables' = IF "abstract" \in lu[c].body.modifiers THEN vtables
                  ELSE Put(vtables, c, [i \in {Slot(m) : m \in methods[c]} |->
                                           {m \in methods[c] : Slot(m) = i}])
    /\ UNCHANGED <<rtti, slot, fieldIndex, structs, functions>>

----------------------------------------------------------------------------
(* The passes one after the other *)

Ended == phase \in {"errors", "killed", "done"}

Init ==
    /\ program \in Programs
    /\ phase = "build" /\ at = 1 /\ errors = {}
    /\ lu = <<>> /\ tree = << >> /\ imports = << >> /\ types = << >> /\ object = None /\ supers = << >>
    /\ inheritance = << >> /\ methods = << >> /\ fields = << >> /\ visited = {} /\ stack = <<>>
    /\ rtti = {} /\ slot = << >> /\ fieldIndex = << >> /\ structs = << >> /\ functions = << >>
    /\ vtables = << >>

\* A pass ends: the next one runs unless something was reported.
Then(next, reported) ==
    /\ errors' = errors \cup reported
    /\ phase' = IF errors' = {} THEN next ELSE "errors"

Stays(reported) == errors' = errors \cup reported /\ UNCHANGED phase

Kill == phase' = "killed" /\ UNCHANGED <<program, at, errors, nvars, hvars, lvars>>

\* AstContext, Parser and AstBuilder on every file, then the Linker.
Build ==
    /\ phase = "build" /\ ~\E c \in DOMAIN program : BuildKills(program[c])
    /\ LET reported == UNION {BuildUnit(program[c]) : c \in DOMAIN program} IN
       Then("names", reported \cup IF reported = {} THEN BuildLinkingUnit(program) ELSE {})
    /\ lu' = LinkedUnits(program)
    /\ UNCHANGED <<program, at, tree, imports, types, object, supers, hvars, lvars>>

BuildKilled == phase = "build" /\ (\E c \in DOMAIN program : BuildKills(program[c])) /\ Kill

\* NameResolver::Init
InitNames ==
    /\ phase = "names" /\ ~CacheFails(SymbolTable.tree)
    /\ buildSymbolTable
    /\ Then("resolve", SymbolTable.errors)
    /\ at' = 1
    /\ UNCHANGED <<program, hvars, lvars>>

CacheMissing == phase = "names" /\ CacheFails(SymbolTable.tree) /\ Kill

\* resolveRecursive on the linking unit
Resolve ==
    /\ phase = "resolve" /\ at \in DOMAIN lu /\ HasBody(lu[at])
    /\ ResolveUnit(at)
    /\ Stays(UnitErrors(at))
    /\ at' = at + 1
    /\ UNCHANGED <<program, hvars, lvars>>

\* A unit without body: `return' ends the walk over the units.
ResolveNoBody ==
    /\ phase = "resolve" /\ at \in DOMAIN lu /\ ~HasBody(lu[at])
    /\ Then("inherit", {})
    /\ UNCHANGED <<program, at, nvars, hvars, lvars>>

Inherit ==
    /\ phase = "inherit" /\ ~InheritanceKills
    /\ checkInheritance
    /\ errors' = errors \cup UNION {InheritanceErrors(c) : c \in Bodies}
    /\ phase' = "methods"
    /\ UNCHANGED <<program, at, nvars, lvars>>

InheritKilled == phase = "inherit" /\ InheritanceKills /\ Kill

\* checkMethodInheritance
Walk ==
    /\ phase = "methods"
    /\ \/ \E c \in Bodies : VisitUnit(c) /\ Stays({})
       \/ \E s \in Bodies : Descend(s) /\ Stays({})
       \/ \E s \in Bodies : FindCycle(s) /\ Stays({"cycle"})
       \/ \E s \in Bodies : Collect(s) /\ Stays({})
       \/ FinishNode /\ Stays(NodeErrors(Top.node, Top.inherited))
    /\ UNCHANGED <<program, at, nvars, lvars>>

CheckConstructors ==
    /\ phase = "methods" /\ Walked
    /\ Then("rtti", CtorErrors)
    /\ UNCHANGED <<program, at, nvars, hvars, lvars>>

\* CodeGenerator::run
Rtti ==
    /\ phase = "rtti" /\ populateRtti /\ phase' = "colour"
    /\ UNCHANGED <<program, at, errors, nvars, hvars>>

ColourNext ==
    /\ phase = "colour" /\ \E m \in Nodes : Colour(m)
    /\ UNCHANGED <<program, phase, at, errors, nvars, hvars>>

Coloured ==
    /\ phase = "colour" /\ Nodes \subseteq DOMAIN slot
    /\ phase' = "declare" /\ at' = 1
    /\ UNCHANGED <<program, errors, nvars, hvars, lvars>>

\* The loops over the units skip interfaces and the unit without body.
NextUnit(from, next) ==
    /\ at \in DOMAIN lu
    /\ at' = IF at = Len(lu) THEN 1 ELSE at + 1
    /\ phase' = IF at = Len(lu) THEN next ELSE from

EmitClassDecl ==
    /\ phase = "declare" /\ ~(at \in Classes /\ (FieldMoved(at) \/ NameTaken(at)))
    /\ IF at \in Classes THEN emitClassDecl(at) ELSE UNCHANGED lvars
    /\ NextUnit("declare", "emit")
    /\ UNCHANGED <<program, errors, nvars, hvars>>

EmitKilled == phase = "declare" /\ at \in Classes /\ (FieldMoved(at) \/ NameTaken(at)) /\ Kill

EmitClass ==
    /\ phase = "emit"
    /\ IF at \in Classes THEN emitClass(at) ELSE UNCHANGED lvars
    /\ NextUnit("emit", "done")
    /\ UNCHANGED <<program, errors, nvars, hvars>>

\* The compiler has ended.
Terminated == Ended /\ UNCHANGED vars

Next ==
    \/ Build \/ BuildKilled \/ InitNames \/ CacheMissing \/ Resolve \/ ResolveNoBody
    \/ Inherit \/ InheritKilled \/ Walk \/ CheckConstructors
    \/ Rtti \/ ColourNext \/ Coloured \/ EmitClassDecl \/ EmitKilled \/ EmitClass
    \/ Terminated

Spec == Init /\ [][Next]_vars

----------------------------------------------------------------------------
(* What the checks promise *)

Checked == phase \in {"rtti", "colour", "declare", "emit", "done"}

\* A program that passes the declaration checks is a legal Joos program,
\* whatever the order of its units and the order in which the walk takes the
\* supertypes.  Two departures of the code are allowed by name: an inherited
\* static method counts as implementing an inherited abstract one
\* (HierarchyChecker.cc, checkClassMethod), and the types of a native method
\* are only looked at when they are built in (Semantic.cc, BuildMethodDecl).
AcceptedProgramIsLegal == Checked => Legal(program, {"static method implements", "native reference types"})

\* The code generator dies on a class below one that has instance fields.
InheritsField(p) ==
    \E c \in Units(p) : \E d \in SuperTypes(p)[c] \ {c} :
        \E f \in ToSet(p[d].body.fields) : "static" \notin f.modifiers

\* A legal program is never refused, neither by a message nor by an assertion,
\* but for the assertion on the struct of a class that inherits a field.
LegalProgramIsAccepted ==
    phase \in {"errors", "killed"} =>
        \/ ~Legal(program, {})
        \/ phase = "killed" /\ InheritsField(program)

\* What the tables of the front end say of an accepted program is what Java
\* says: every name of a type stands for the one type in scope (NameResolver),
\* and every declaration has the members it declares and inherits
\* (HierarchyChecker).  The passes after it look everything up there.
TablesAreJava ==
    phase = "rtti" =>
        /\ object = ObjectDecl(program)
        /\ \A c \in Bodies : \A n \in Names(program[c]) : {types[c][n]} = Type(program, c, n)
        /\ methods = Members(program)

\* What is laid out for a class serves at run time: RTTI answers as the subtype
\* relation does, and the vtable of a class has a slot of its own, not the one
\* of the type id, for every member, with a function the code generator made.
\* An instance field is in the struct of its class at the index it is used with,
\* also in the struct of a class below, when no class inherits one.
LayoutSound ==
    phase = "done" =>
        /\ rtti = {pair \in Bodies \X Bodies : pair[2] \in SuperTypes(program)[pair[1]]}
        /\ \A c \in DOMAIN vtables :
              /\ 0 \notin DOMAIN vtables[c]
              /\ \A i \in DOMAIN vtables[c] : Cardinality(vtables[c][i]) = 1
              /\ UNION Range(vtables[c]) = methods[c] /\ methods[c] \subseteq DOMAIN functions
        /\ ~InheritsField(program) =>
              \A c \in Classes : \A f \in ToSet(structs[c]) : structs[c][fieldIndex[f]] = f
        /\ {c \in Classes : "abstract" \notin program[c].body.modifiers} = DOMAIN vtables

Phases == <<"build", "names", "resolve", "inherit", "methods", "rtti", "colour",
            "declare", "emit", "done", "errors", "killed">>
Number(ph) == CHOOSE i \in DOMAIN Phases : Phases[i] = ph

\* What the frames of the walk still have to do, and the frames themselves.
Tasks(st) == UNION {{k} \X st[k].todo : k \in DOMAIN st}
Work(st)  == Len(st) + Cardinality(Tasks(st))

\* The compiler ends on every program, cyclic ones included: each step goes on
\* to a later pass, or to a later unit, or visits a new declaration, or takes
\* from what the frames of the walk still have to do, or colours a method.
ProgramAdvances ==
    [][ \/ Number(phase') > Number(phase)
        \/ phase' = phase /\ \/ at' > at
                              \/ Cardinality(visited') > Cardinality(visited)
                              \/ (visited' = visited /\ Work(stack') < Work(stack))
                              \/ Cardinality(DOMAIN slot') > Cardinality(DOMAIN slot) ]_vars

\* The declarations of T each have a direct supertype in T.
Cyclic == \E T \in SUBSET Bodies : T # {} /\ \A c \in T : inheritance[c] \cap T # {}

\* checkMethodInheritance() reports a cycle exactly when the inheritance map has
\* one, wherever in the order of units and supertypes the walk enters it; the
\* queries after it, which recurse over the map, so return.
CyclesAreReported ==
    /\ phase = "methods" => /\ "cycle" \in errors => Cyclic
                            /\ Walked /\ Cyclic => "cycle" \in errors
    /\ Checked => ~Cyclic

\* The supertypes of c by the inheritance map, c included: what every set has
\* that has c and with a declaration its direct supertypes.
Above(c) ==
    {d \in Bodies : \A T \in SUBSET Bodies :
                       c \in T /\ (\A e \in T : inheritance[e] \subseteq T) => d \in T}

\* A class has all of its supertypes in its row of the RTTI table, no others.
RttiIsSubtyping ==
    phase \in {"colour", "declare", "emit", "done"} =>
        rtti = {pair \in Bodies \X Bodies : pair[2] \in Above(pair[1])}

\* In the vtable of a class each method has a slot of its own, and no method has
\* that of the type id.  A class with one method is the exception.
SlotsAreOwn ==
    \A c \in DOMAIN vtables :
        /\ UNION Range(vtables[c]) = methods[c]
        /\ \A i \in DOMAIN vtables[c] : Cardinality(vtables[c][i]) = 1
        /\ Cardinality(methods[c]) > 1 => 0 \notin DOMAIN vtables[c]

----------------------------------------------------------------------------
(* The inductive invariant *)

LayingOut == phase \in {"colour", "declare", "emit", "done"}
Linked    == Checked \/ phase \in {"names", "resolve", "inherit", "methods"}
Walking   == Checked \/ phase = "methods"

AllMethods == UNION {Declared(c) : c \in Bodies}
Frame == [node : Bodies, todo : SUBSET UNION Range(inheritance), from : Bodies \cup {None},
          inherited : SUBSET AllMethods]

TypeOK ==
    /\ program \in Seq(CompilationUnit)
    /\ phase \in Range(Phases) /\ at \in Nat
    /\ Linked => lu = LinkedUnits(program)
    /\ Walking =>
          /\ inheritance = [c \in Bodies |-> DirectSupers(c)]
          /\ DOMAIN methods \subseteq Bodies
          /\ \A c \in DOMAIN methods : methods[c] \subseteq AllMethods
          /\ stack \in Seq(Frame)
    /\ IsFiniteSet(DOMAIN slot)
    /\ \A m \in DOMAIN slot : slot[m] \in Nat \ {0}

\* Visited is what is finished and what is on the stack, which is a path up the
\* inheritance map. Before and after the walk it is empty.
OnPath ==
    /\ Walking =>
          /\ visited = DOMAIN methods \cup {stack[k].node : k \in DOMAIN stack}
          /\ \A k \in DOMAIN stack :
                /\ stack[k].node \notin DOMAIN methods
                /\ stack[k].todo \subseteq inheritance[stack[k].node]
                /\ \A l \in DOMAIN stack : stack[l].node = stack[k].node => l = k
                /\ k # Len(stack) => /\ stack[k].from = stack[k + 1].node
                                     /\ stack[k].from \in stack[k].todo
    /\ ~Walking /\ ~Ended => methods = << >> /\ visited = {} /\ stack = <<>>
    /\ Checked => errors = {} /\ Walked

\* As long as no cycle was met, the supertypes of what is finished, and those a
\* frame has done with, are finished, and nothing finished is on a cycle.
CyclesFound ==
    /\ Walking /\ "cycle" \notin errors =>
          /\ \A c \in DOMAIN methods : inheritance[c] \subseteq DOMAIN methods
          /\ \A k \in DOMAIN stack :
                inheritance[stack[k].node] \ stack[k].todo \subseteq DOMAIN methods
          /\ \A T \in SUBSET DOMAIN methods :
                T # {} => \E c \in T : inheritance[c] \cap T = {}
    /\ Walking /\ "cycle" \in errors => Cyclic
    /\ phase = "inherit" => errors = {}

\* Methods that interfere have different slots, and in the end every method of
\* the graph has one.
Coloring ==
    /\ ~LayingOut /\ ~Ended => slot = << >>
    /\ LayingOut => \A m, n \in DOMAIN slot : Interfere(m, n) => slot[m] # slot[n]
    /\ LayingOut /\ phase # "colour" => Nodes \subseteq DOMAIN slot

TablesLaidOut ==
    /\ LayingOut => rtti = {pair \in Bodies \X Bodies : isSubType(pair[1], pair[2])}
    /\ phase \notin {"emit", "done"} => vtables = << >>
    /\ phase \in {"emit", "done"} =>
          \A c \in DOMAIN vtables :
              /\ c \in Bodies
              /\ vtables[c] = [i \in {Slot(m) : m \in methods[c]} |->
                                  {m \in methods[c] : Slot(m) = i}]

IInv == TypeOK /\ OnPath /\ CyclesFound /\ Coloring /\ TablesLaidOut
=============================================================================
