------------------------ MODULE LinkedProgramProofs ------------------------
(***************************************************************************)
(* The inductive invariant of the passes over declarations, and what it    *)
(* gives: every step goes on, exactly the cycles that are there are        *)
(* reported, the RTTI table is the closure of the inheritance map, and     *)
(* methods of one vtable have slots of their own.  Nothing is assumed of   *)
(* the program but that it is a sequence of compilation units.             *)
(***************************************************************************)
EXTENDS LinkedProgram, WellFoundedInduction, FiniteSetTheorems, SequenceTheorems, TLAPS

-----------------------------------------------------------------------------
(* The units                                                               *)

(* Each phase has the number of its place.                                 *)
LEMMA Numbers ==
  \A i \in 1..12 : Number(Phases[i]) = i
<1>1. \A i, j \in 1..12 : Phases[i] = Phases[j] => i = j
  BY DEF Phases
<1>2. DOMAIN Phases = 1..12
  BY DEF Phases
<1> HIDE DEF Phases
<1> QED
  BY <1>1, <1>2 DEF Number

(* The phases by name.                                                     *)
LEMMA PhaseNumbers ==
  /\ Number("build") = 1 /\ Number("names") = 2 /\ Number("resolve") = 3
  /\ Number("inherit") = 4 /\ Number("methods") = 5 /\ Number("rtti") = 6
  /\ Number("colour") = 7 /\ Number("declare") = 8 /\ Number("emit") = 9
  /\ Number("done") = 10 /\ Number("errors") = 11 /\ Number("killed") = 12
<1>1. /\ Phases[1] = "build" /\ Phases[2] = "names" /\ Phases[3] = "resolve"
      /\ Phases[4] = "inherit" /\ Phases[5] = "methods" /\ Phases[6] = "rtti"
      /\ Phases[7] = "colour" /\ Phases[8] = "declare" /\ Phases[9] = "emit"
      /\ Phases[10] = "done" /\ Phases[11] = "errors" /\ Phases[12] = "killed"
  BY DEF Phases
<1> HIDE DEF Phases
<1>2. \A i \in 1..12 : Number(Phases[i]) = i
  BY Numbers
<1> QED
  BY <1>1, <1>2

(* The phases as a set.                                                    *)
LEMMA PhaseSet ==
  Range(Phases) = {"build", "names", "resolve", "inherit", "methods", "rtti", "colour",
                   "declare", "emit", "done", "errors", "killed"}
<1>1. DOMAIN Phases = 1..12
  BY DEF Phases
<1>2. Range(Phases) = {Phases[i] : i \in 1..12}
  BY <1>1 DEF Range
<1>3. 1..12 = {1, 2, 3, 4, 5, 6, 7, 8, 9, 10, 11, 12}
  OBVIOUS
<1>4. /\ Phases[1] = "build" /\ Phases[2] = "names" /\ Phases[3] = "resolve"
      /\ Phases[4] = "inherit" /\ Phases[5] = "methods" /\ Phases[6] = "rtti"
      /\ Phases[7] = "colour" /\ Phases[8] = "declare" /\ Phases[9] = "emit"
      /\ Phases[10] = "done" /\ Phases[11] = "errors" /\ Phases[12] = "killed"
  BY DEF Phases
<1> HIDE DEF Phases
<1> QED
  BY <1>2, <1>3, <1>4

(* A unit with a body is one of the program, and its body is as written.   *)
LEMMA BodyAsWritten ==
  ASSUME program \in Seq(CompilationUnit), lu = LinkedUnits(program)
  PROVE  /\ Bodies \subseteq 1..Len(program)
         /\ \A c \in Bodies : lu[c].body \in Declaration
<1> DEFINE units == [c \in DOMAIN program |-> WithJavaLang(program[c])]
<1>1. Len(program) \in Nat /\ DOMAIN program = 1..Len(program)
  BY LenProperties
<1>2. \A c \in DOMAIN program : program[c] \in CompilationUnit
  BY <1>1, ElementOfSeq
<1>3. \A c \in DOMAIN program : WithJavaLang(program[c]).body = program[c].body
  BY <1>2 DEF WithJavaLang, CompilationUnit
<1>4. Len(units) = Len(program) /\ units \in Seq({units[c] : c \in DOMAIN program})
  BY <1>1, LenProperties
<1>5. /\ DOMAIN lu = 1..(Len(program) + 1)
      /\ lu[Len(program) + 1] = JavaLangUnit
      /\ \A c \in 1..Len(program) : lu[c] = units[c]
  BY <1>1, <1>4, AppendProperties DEF LinkedUnits
<1>6. ~HasBody(JavaLangUnit)
  BY DEF JavaLangUnit, WithJavaLang, HasBody, NoBody
<1>7. Bodies \subseteq 1..Len(program)
  BY <1>1, <1>5, <1>6 DEF Bodies
<1>8. ASSUME NEW c \in Bodies PROVE lu[c].body \in Declaration
  <2>1. lu[c].body = program[c].body /\ program[c] \in CompilationUnit
    BY <1>1, <1>2, <1>3, <1>5, <1>7
  <2>2. lu[c].body \in Declaration \cup {NoBody}
    BY <2>1 DEF CompilationUnit
  <2>3. lu[c].body # NoBody
    BY DEF Bodies, HasBody, NoBody
  <2> QED
    BY <2>2, <2>3
<1> QED
  BY <1>7, <1>8

(* A class is no interface.                                                *)
LEMMA ClassOrInterface ==
  ASSUME program \in Seq(CompilationUnit), lu = LinkedUnits(program), NEW c \in Bodies
  PROVE  IsClass(lu[c]) <=> ~IsInterface(lu[c])
<1>1. lu[c].body \in Declaration
  BY BodyAsWritten
<1> QED
  BY <1>1 DEF Declaration, IsClass, IsInterface

(* A sequence has finitely many places.                                    *)
LEMMA FiniteSequence ==
  ASSUME NEW X, NEW s \in Seq(X)
  PROVE  IsFiniteSet(DOMAIN s)
<1>1. DOMAIN s = 1..Len(s) /\ Len(s) \in Nat
  BY LenProperties
<1> QED
  BY <1>1, FS_Interval

(* There are finitely many units, supertypes and methods.                  *)
LEMMA FinitelyMany ==
  ASSUME program \in Seq(CompilationUnit), lu = LinkedUnits(program)
  PROVE  /\ IsFiniteSet(Bodies)
         /\ \A c \in Bodies : IsFiniteSet(DirectSupers(c)) /\ IsFiniteSet(Declared(c))
         /\ IsFiniteSet(AllMethods)
<1>1. IsFiniteSet(Bodies)
  <2>1. DOMAIN program = 1..Len(program) /\ Len(program) \in Nat
    BY LenProperties
  <2>2. IsFiniteSet(1..Len(program))
    BY <2>1, FS_Interval
  <2> QED
    BY <2>2, BodyAsWritten, FS_Subset
<1>2. ASSUME NEW c \in Bodies PROVE IsFiniteSet(DirectSupers(c))
  <2>1. lu[c].body.interfaces \in Seq(Path)
    BY BodyAsWritten DEF Declaration
  <2>2. IsFiniteSet(DOMAIN lu[c].body.interfaces)
    BY <2>1, FiniteSequence
  <2>3. DOMAIN Interfaces(c) = DOMAIN lu[c].body.interfaces
    BY DEF Interfaces
  <2>4. IsFiniteSet({Interfaces(c)[i] : i \in DOMAIN Interfaces(c)})
    <3> DEFINE D == DOMAIN Interfaces(c)
               R == {Interfaces(c)[i] : i \in DOMAIN Interfaces(c)}
               f == [i \in D |-> Interfaces(c)[i]]
    <3>1. IsFiniteSet(D)
      BY <2>2, <2>3
    <3>2. f \in [D -> R] /\ \A r \in R : \E i \in D : f[i] = r
      OBVIOUS
    <3>3. f \in Surjection(D, R)
      BY <3>2 DEF Surjection
    <3> QED
      BY <3>1, <3>3, FS_Surjection
  <2>5. IsFiniteSet(ToSet(Interfaces(c)))
    BY <2>4 DEF ToSet
  <2> DEFINE named == {d \in ToSet(Interfaces(c)) : IsInterface(lu[d])}
             one == {IF Extends(c) # None THEN Extends(c) ELSE SuperClasses(c)[2]}
  <2>6. IsFiniteSet(named) /\ IsFiniteSet(one)
    BY <2>5, FS_Subset, FS_Singleton
  <2>7. IsFiniteSet(named \cup one)
    BY <2>6, FS_Union
  <2>8. DirectSupers(c) \subseteq named \cup one
    BY DEF DirectSupers
  <2> QED
    BY <2>7, <2>8, FS_Subset
<1>3. ASSUME NEW c \in Bodies PROVE IsFiniteSet(Declared(c))
  <2>1. lu[c].body.methods \in Seq(MethodDecl)
    BY BodyAsWritten DEF Declaration
  <2>2. IsFiniteSet(DOMAIN lu[c].body.methods)
    BY <2>1, FiniteSequence
  <2> DEFINE D == Numbered(lu[c], FALSE)
             f == [i \in D |-> <<c, i>>]
  <2>3. IsFiniteSet(D)
    BY <2>2, FS_Subset DEF Numbered
  <2>4. f \in [D -> Declared(c)] /\ \A r \in Declared(c) : \E i \in D : f[i] = r
    BY DEF Declared
  <2>5. f \in Surjection(D, Declared(c))
    BY <2>4 DEF Surjection
  <2> QED
    BY <2>3, <2>5, FS_Surjection
<1>4. IsFiniteSet(AllMethods)
  <2>1. IsFiniteSet({Declared(c) : c \in Bodies})
    <3> DEFINE R == {Declared(c) : c \in Bodies}
               f == [c \in Bodies |-> Declared(c)]
    <3>1. f \in [Bodies -> R] /\ \A r \in R : \E i \in Bodies : f[i] = r
      OBVIOUS
    <3>2. f \in Surjection(Bodies, R)
      BY <3>1 DEF Surjection
    <3> QED
      BY <1>1, <3>2, FS_Surjection
  <2> QED
    BY <2>1, <1>3, FS_UNION DEF AllMethods
<1> QED
  BY <1>1, <1>2, <1>3, <1>4

(* The supertypes of an interface are interfaces.                          *)
LEMMA InterfaceAboveInterface ==
  ASSUME NEW c, IsInterface(lu[c]), NEW d \in DirectSupers(c)
  PROVE  IsInterface(lu[d])
BY DEF DirectSupers

-----------------------------------------------------------------------------
(* The measure of the walk                                                 *)

(* The frames have finitely many tasks.                                    *)
LEMMA FiniteTasks ==
  ASSUME TypeOK, Walking
  PROVE  /\ IsFiniteSet(Tasks(stack))
         /\ \A k \in DOMAIN stack : IsFiniteSet(stack[k].todo)
<1>1. /\ program \in Seq(CompilationUnit) /\ lu = LinkedUnits(program)
      /\ inheritance = [c \in Bodies |-> DirectSupers(c)] /\ stack \in Seq(Frame)
  BY DEF TypeOK, Linked, Walking
<1>2. IsFiniteSet(UNION Range(inheritance))
  <2>1. /\ IsFiniteSet(Bodies)
        /\ \A c \in Bodies : IsFiniteSet(inheritance[c])
    BY <1>1, FinitelyMany
  <2>2. inheritance \in Surjection(Bodies, Range(inheritance))
    BY <1>1 DEF Surjection, Range
  <2>3. IsFiniteSet(Range(inheritance))
    BY <2>1, <2>2, FS_Surjection
  <2> QED
    BY <1>1, <2>1, <2>3, FS_UNION DEF Range
<1>3. ASSUME NEW k \in DOMAIN stack PROVE IsFiniteSet(stack[k].todo)
  <2>1. stack[k] \in Frame
    BY <1>1, ElementOfSeq, LenProperties
  <2> QED
    BY <1>2, <2>1, FS_Subset DEF Frame
<1>4. IsFiniteSet(DOMAIN stack)
  BY <1>1, FiniteSequence
<1>5. IsFiniteSet(Tasks(stack))
  <2> DEFINE P(k) == {k} \X stack[k].todo
             R == {P(k) : k \in DOMAIN stack}
             f == [k \in DOMAIN stack |-> P(k)]
  <2>1. f \in [DOMAIN stack -> R] /\ \A r \in R : \E k \in DOMAIN stack : f[k] = r
    OBVIOUS
  <2>2. f \in Surjection(DOMAIN stack, R)
    BY <2>1 DEF Surjection
  <2>3. IsFiniteSet(R)
    BY <1>4, <2>2, FS_Surjection
  <2>4. \A k \in DOMAIN stack : IsFiniteSet(P(k))
    BY <1>3, FS_Singleton, FS_Product
  <2> QED
    BY <2>3, <2>4, FS_UNION DEF Tasks
<1> QED
  BY <1>3, <1>5

(* A frame that takes from what it has to do has one task less.            *)
LEMMA TakeTask ==
  ASSUME TypeOK, Walking, stack # <<>>, NEW s \in Top.todo, NEW st,
         DOMAIN st = DOMAIN stack, Len(st) = Len(stack),
         \A k \in DOMAIN stack : k # Len(stack) => st[k] = stack[k],
         st[Len(stack)].todo = Top.todo \ {s}
  PROVE  Work(st) < Work(stack)
<1>1. stack \in Seq(Frame) /\ Len(stack) \in Nat /\ DOMAIN stack = 1..Len(stack)
      /\ Len(stack) > 0
  BY LenProperties, EmptySeq DEF TypeOK
<1>2. Top = stack[Len(stack)] /\ Len(stack) \in DOMAIN stack
  BY <1>1 DEF Top, Last
<1> DEFINE task == <<Len(stack), s>>
<1>3. task \in Tasks(stack)
  BY <1>2 DEF Tasks
<1>4. Tasks(st) = Tasks(stack) \ {task}
  <2>1. \A k \in DOMAIN stack : {k} \X st[k].todo = ({k} \X stack[k].todo) \ {task}
    BY <1>2
  <2> QED
    BY <2>1 DEF Tasks
<1>5. IsFiniteSet(Tasks(stack))
  BY FiniteTasks
<1>6. /\ Cardinality(Tasks(stack)) \in Nat
      /\ Cardinality(Tasks(st)) = Cardinality(Tasks(stack)) - 1
  BY <1>3, <1>4, <1>5, FS_RemoveElement, FS_CardinalityType
<1> QED
  BY <1>1, <1>6 DEF Work

(* Front() is a sequence without its last element.                         *)
LEMMA FrontFacts ==
  ASSUME NEW X, NEW s \in Seq(X), s # <<>>
  PROVE  /\ Front(s) \in Seq(X) /\ Len(Front(s)) = Len(s) - 1
         /\ DOMAIN Front(s) = 1..(Len(s) - 1)
         /\ \A k \in 1..(Len(s) - 1) : Front(s)[k] = s[k]
<1>1. Len(s) \in Nat /\ DOMAIN s = 1..Len(s) /\ Len(s) > 0
  BY LenProperties, EmptySeq
<1>2. Front(s) = [k \in 1..(Len(s) - 1) |-> s[k]]
  BY <1>1 DEF Front
<1>3. \A k \in 1..(Len(s) - 1) : s[k] \in X
  BY <1>1, ElementOfSeq
<1>4. Len(s) - 1 \in Nat
  BY <1>1
<1> QED
  BY <1>2, <1>3, <1>4, IsASeq, LenProperties

(* A frame that has nothing left to do takes its place with it.            *)
LEMMA PopFrame ==
  ASSUME TypeOK, Walking, stack # <<>>, Top.todo = {}
  PROVE  Work(Front(stack)) < Work(stack)
<1>1. stack \in Seq(Frame) /\ Len(stack) \in Nat /\ DOMAIN stack = 1..Len(stack)
      /\ Len(stack) > 0
  BY LenProperties, EmptySeq DEF TypeOK
<1>2. Top = stack[Len(stack)] /\ Len(stack) \in DOMAIN stack
  BY <1>1 DEF Top, Last
<1>3. /\ DOMAIN Front(stack) = 1..(Len(stack) - 1) /\ Len(Front(stack)) = Len(stack) - 1
      /\ \A k \in 1..(Len(stack) - 1) : Front(stack)[k] = stack[k]
  BY <1>1, FrontFacts
<1>4. Tasks(Front(stack)) = Tasks(stack)
  <2>1. DOMAIN stack = DOMAIN Front(stack) \cup {Len(stack)}
    BY <1>1, <1>3
  <2>2. {Len(stack)} \X stack[Len(stack)].todo = {}
    BY <1>2
  <2> QED
    BY <1>3, <2>1, <2>2 DEF Tasks
<1>5. Cardinality(Tasks(stack)) \in Nat
  BY FiniteTasks, FS_CardinalityType
<1> QED
  BY <1>1, <1>3, <1>4, <1>5 DEF Work

(* Assignment to the last element.                                         *)
LEMMA ReplaceLast ==
  ASSUME NEW X, NEW s \in Seq(X), s # <<>>, NEW e, NEW t, t = [s EXCEPT ![Len(s)] = e]
  PROVE  /\ DOMAIN t = DOMAIN s /\ Len(t) = Len(s) /\ t[Len(s)] = e
         /\ \A k \in DOMAIN s : k # Len(s) => t[k] = s[k]
         /\ e \in X => t \in Seq(X)
<1>1. s \in Seq(X \cup {e})
  BY SeqMonotonic
<1>2. Len(s) \in 1..Len(s) /\ DOMAIN s = 1..Len(s)
  BY LenProperties, EmptySeq
<1>3. /\ t \in Seq(X \cup {e}) /\ Len(t) = Len(s)
      /\ \A j \in 1..Len(s) : t[j] = IF j = Len(s) THEN e ELSE s[j]
  BY <1>1, <1>2, ExceptSeq
<1>4. DOMAIN t = 1..Len(t)
  BY <1>3, LenProperties
<1>5. e \in X => t \in Seq(X)
  BY <1>2, ExceptSeq
<1> QED
  BY <1>2, <1>3, <1>4, <1>5

(* What was visited are units with a body, so there are finitely many.     *)
LEMMA VisitedUnits ==
  ASSUME IInv, Walking
  PROVE  /\ \A k \in DOMAIN stack : stack[k] \in Frame /\ stack[k].node \in Bodies
         /\ visited \subseteq Bodies /\ IsFiniteSet(visited)
<1>1. \A k \in DOMAIN stack : stack[k] \in Frame
  BY ElementOfSeq, LenProperties DEF IInv, TypeOK
<1>2. \A k \in DOMAIN stack : stack[k].node \in Bodies
  BY <1>1 DEF Frame
<1>3. visited \subseteq Bodies
  BY <1>2 DEF IInv, TypeOK, OnPath
<1>4. IsFiniteSet(Bodies)
  BY FinitelyMany DEF IInv, TypeOK, Linked, Walking
<1> QED
  BY <1>1, <1>2, <1>3, <1>4, FS_Subset

(* The last frame.                                                         *)
LEMMA TopFrame ==
  ASSUME IInv, Walking, stack # <<>>
  PROVE  /\ stack \in Seq(Frame) /\ Len(stack) \in Nat \ {0}
         /\ DOMAIN stack = 1..Len(stack) /\ Len(stack) \in DOMAIN stack
         /\ Top = stack[Len(stack)] /\ Top \in Frame
<1>1. stack \in Seq(Frame) /\ Len(stack) \in Nat /\ DOMAIN stack = 1..Len(stack)
      /\ Len(stack) > 0
  BY LenProperties, EmptySeq DEF IInv, TypeOK
<1>2. Top = stack[Len(stack)] /\ Len(stack) \in DOMAIN stack
  BY <1>1 DEF Top, Last
<1> QED
  BY <1>1, <1>2, ElementOfSeq

(* A step of the walk visits a declaration or takes a task.                *)
LEMMA WalkAdvances ==
  ASSUME IInv, Walk
  PROVE  /\ phase' = phase
         /\ \/ Cardinality(visited') > Cardinality(visited)
            \/ visited' = visited /\ Work(stack') < Work(stack)
<1>1. Walking /\ TypeOK
  BY DEF IInv, Walk, Walking
<1>2. phase' = phase
  BY DEF Walk, Stays
<1>3. IsFiniteSet(visited)
  BY <1>1, VisitedUnits
<1>4. ASSUME NEW c, c \notin visited, Enter(c)
      PROVE  Cardinality(visited') > Cardinality(visited)
  <2>1. visited' = visited \cup {c}
    BY <1>4 DEF Enter
  <2>2. Cardinality(visited) \in Nat
    BY <1>3, FS_CardinalityType
  <2>3. Cardinality(visited \cup {c}) = Cardinality(visited) + 1
    BY <1>3, <1>4, FS_AddElement
  <2> QED
    BY <2>1, <2>2, <2>3
<1>5. ASSUME NEW s \in Bodies, stack # <<>>, s \in Top.todo, NEW new, new.todo = Top.todo \ {s},
             stack' = [stack EXCEPT ![Len(stack)] = new]
      PROVE  Work(stack') < Work(stack)
  <2>1. stack \in Seq(Frame)
    BY <1>1, <1>5, TopFrame
  <2>2. /\ DOMAIN stack' = DOMAIN stack /\ Len(stack') = Len(stack)
        /\ \A k \in DOMAIN stack : k # Len(stack) => stack'[k] = stack[k]
        /\ stack'[Len(stack)] = new
    BY <1>5, <2>1, ReplaceLast
  <2> QED
    BY <1>1, <1>5, <2>2, TakeTask
<1>6. ASSUME NEW s \in Bodies, FindCycle(s) \/ Collect(s) PROVE Work(stack') < Work(stack)
  <2>1. stack # <<>> /\ s \in Top.todo
    BY <1>6 DEF FindCycle, Collect
  <2>2. stack[Len(stack)] = Top /\ stack[Len(stack)] \in Frame
    BY <1>1, <2>1, TopFrame
  <2>3. CASE FindCycle(s)
    <3> DEFINE new == [stack[Len(stack)] EXCEPT !.todo = @ \ {s}]
    <3>1. stack' = [stack EXCEPT ![Len(stack)] = new]
      BY <2>3 DEF FindCycle
    <3>2. new.todo = Top.todo \ {s}
      BY <2>2 DEF Frame
    <3> HIDE DEF new
    <3> QED
      BY <1>5, <2>1, <3>1, <3>2
  <2>4. CASE Collect(s)
    <3> DEFINE new == [Top EXCEPT !.todo = @ \ {s}, !.from = None,
                                  !.inherited = @ \cup methods[s]]
    <3>1. stack' = [stack EXCEPT ![Len(stack)] = new]
      BY <2>4 DEF Collect
    <3>2. new.todo = Top.todo \ {s}
      BY <2>2 DEF Frame
    <3> HIDE DEF new
    <3> QED
      BY <1>5, <2>1, <3>1, <3>2
  <2> QED
    BY <1>6, <2>3, <2>4
<1>7. ASSUME FinishNode PROVE Work(stack') < Work(stack)
  BY <1>1, <1>7, PopFrame DEF FinishNode
<1>8. CASE \E c \in Bodies : VisitUnit(c)
  BY <1>2, <1>4, <1>8 DEF VisitUnit
<1>9. CASE \E s \in Bodies : Descend(s)
  BY <1>2, <1>4, <1>9 DEF Descend
<1>10. CASE \E s \in Bodies : FindCycle(s)
  BY <1>2, <1>6, <1>10 DEF FindCycle
<1>11. CASE \E s \in Bodies : Collect(s)
  BY <1>2, <1>6, <1>11 DEF Collect
<1>12. CASE FinishNode
  BY <1>2, <1>7, <1>12 DEF FinishNode
<1> QED
  BY <1>8, <1>9, <1>10, <1>11, <1>12 DEF Walk

-----------------------------------------------------------------------------
(* The compiler ends                                                       *)

(* A loop over the units goes on to the next one or to the next pass.      *)
LEMMA NextUnitAdvances ==
  ASSUME TypeOK, Linked, NEW from, NEW next, NextUnit(from, next)
  PROVE  phase' = next \/ (phase' = from /\ at' > at)
<1>1. at \in Nat
  BY DEF TypeOK
<1> QED
  BY <1>1 DEF NextUnit

(* Each step goes on, as ProgramAdvances says.                             *)
LEMMA StepAdvances ==
  ASSUME IInv, Next, ~UNCHANGED vars
  PROVE  \/ Number(phase') > Number(phase)
         \/ phase' = phase /\ \/ at' > at
                               \/ Cardinality(visited') > Cardinality(visited)
                               \/ (visited' = visited /\ Work(stack') < Work(stack))
                               \/ Cardinality(DOMAIN slot') > Cardinality(DOMAIN slot)
<1> USE PhaseNumbers
<1>1. CASE Build
  BY <1>1 DEF Build, Then
<1>2. CASE BuildKilled
  BY <1>2 DEF BuildKilled, Kill
<1>3. CASE InitNames
  BY <1>3 DEF InitNames, Then
<1>4. CASE CacheMissing
  BY <1>4 DEF CacheMissing, Kill
<1>5. CASE Resolve
  BY <1>5 DEF Resolve, Stays, IInv, TypeOK
<1>6. CASE ResolveNoBody
  BY <1>6 DEF ResolveNoBody, Then
<1>7. CASE Inherit
  BY <1>7 DEF Inherit
<1>8. CASE InheritKilled
  BY <1>8 DEF InheritKilled, Kill
<1>9. CASE Walk
  BY <1>9, WalkAdvances
<1>10. CASE CheckConstructors
  BY <1>10 DEF CheckConstructors, Then
<1>11. CASE Rtti
  BY <1>11 DEF Rtti
<1>12. CASE ColourNext
  <2>1. PICK m \in Nodes : Colour(m)
    BY <1>12 DEF ColourNext
  <2>2. m \notin DOMAIN slot /\ DOMAIN slot' = DOMAIN slot \cup {m}
    BY <2>1 DEF Colour, Put
  <2>3. IsFiniteSet(DOMAIN slot)
    BY DEF IInv, TypeOK
  <2>4. Cardinality(DOMAIN slot) \in Nat
    BY <2>3, FS_CardinalityType
  <2>5. Cardinality(DOMAIN slot \cup {m}) = Cardinality(DOMAIN slot) + 1
    BY <2>2, <2>3, FS_AddElement
  <2> QED
    BY <1>12, <2>2, <2>4, <2>5 DEF ColourNext
<1>13. CASE Coloured
  BY <1>13 DEF Coloured
<1>14. CASE EmitClassDecl
  <2>1. phase = "declare" /\ TypeOK /\ Linked
    BY <1>14 DEF EmitClassDecl, IInv, Linked, Checked
  <2> QED
    BY <1>14, <2>1, NextUnitAdvances DEF EmitClassDecl
<1>15. CASE EmitKilled
  BY <1>15 DEF EmitKilled, Kill
<1>16. CASE EmitClass
  <2>1. phase = "emit" /\ TypeOK /\ Linked
    BY <1>16 DEF EmitClass, IInv, Linked, Checked
  <2> QED
    BY <1>16, <2>1, NextUnitAdvances DEF EmitClass
<1>17. CASE Terminated
  BY <1>17 DEF Terminated
<1> QED
  BY <1>1, <1>2, <1>3, <1>4, <1>5, <1>6, <1>7, <1>8, <1>9, <1>10, <1>11, <1>12,
     <1>13, <1>14, <1>15, <1>16, <1>17 DEF Next

-----------------------------------------------------------------------------
(* The invariant                                                           *)

(* Before the build nothing is linked, walked or laid out.                 *)
LEMMA InitIInv == Init => IInv
<1> SUFFICES ASSUME Init PROVE IInv
  OBVIOUS
<1> USE DEF Init
<1>1. phase = "build" /\ ~Linked /\ ~Walking /\ ~Checked /\ ~LayingOut
  BY DEF Linked, Walking, Checked, LayingOut
<1>2. TypeOK
  <2>1. program \in Seq(CompilationUnit)
    BY ProgramsAssumption
  <2>2. DOMAIN slot = {}
    OBVIOUS
  <2>3. IsFiniteSet(DOMAIN slot)
    BY <2>2, FS_EmptySet
  <2> QED
    BY <1>1, <2>1, <2>2, <2>3, PhaseSet DEF TypeOK
<1>3. OnPath /\ CyclesFound /\ Coloring
  BY <1>1 DEF OnPath, CyclesFound, Coloring
<1>4. TablesLaidOut
  BY <1>1 DEF TablesLaidOut
<1> QED
  BY <1>2, <1>3, <1>4 DEF IInv

(* A step that leaves the tables of the front end and the slots alone.     *)
LEMMA QuietStep ==
  ASSUME IInv, UNCHANGED <<program, nvars, hvars, slot>>,
         phase' \in Range(Phases), at' \in Nat,
         Linked' => Linked, Walking' => Walking /\ errors' = errors,
         ~Walking' /\ ~Ended' => ~Walking /\ ~Ended,
         Checked' => Walked /\ errors' = {},
         phase' = "inherit" => errors' = {},
         ~LayingOut' /\ ~Ended' => ~LayingOut /\ ~Ended,
         LayingOut' => LayingOut \/ slot = << >>,
         LayingOut' /\ phase' # "colour" => Nodes \subseteq DOMAIN slot
  PROVE  TypeOK' /\ OnPath' /\ CyclesFound' /\ Coloring'
<1> USE DEF IInv
<1>1. UNCHANGED <<program, lu, types, object, supers, inheritance, methods, visited, stack, slot>>
  BY DEF nvars, hvars
<1>2. Bodies' = Bodies /\ AllMethods' = AllMethods
  BY <1>1 DEF Bodies, AllMethods, Declared
<1>3. Frame' = Frame
  BY <1>1, <1>2 DEF Frame
<1>4. [c \in Bodies |-> DirectSupers(c)]' = [c \in Bodies |-> DirectSupers(c)]
  BY <1>1, <1>2 DEF DirectSupers, Interfaces, Extends, SuperClasses, ExtendsInterface
<1>5. LinkedUnits(program)' = LinkedUnits(program)
  BY <1>1
<1>6. TypeOK'
  BY <1>1, <1>2, <1>3, <1>4, <1>5 DEF TypeOK
<1>7. OnPath'
  BY <1>1, <1>2 DEF OnPath, Walked
<1>8. CyclesFound'
  BY <1>1, <1>2 DEF CyclesFound, Cyclic
<1>9. Nodes' = Nodes /\ \A m, n : Interfere(m, n)' <=> Interfere(m, n)
  BY <1>1, <1>2 DEF Nodes, Interfere
<1>10. Coloring'
  <2>1. \A m \in DOMAIN slot : slot[m] \in Nat
    BY DEF TypeOK
  <2> QED
    BY <1>1, <1>9 DEF Coloring
<1> QED
  BY <1>6, <1>7, <1>8, <1>10

(* Build() makes the linking unit.                                         *)
LEMMA BuildIInv == IInv /\ (Build \/ BuildKilled) => IInv'
<1> SUFFICES ASSUME IInv, Build \/ BuildKilled PROVE IInv'
  OBVIOUS
<1>1. phase = "build" /\ phase' \in {"names", "errors", "killed"}
  BY DEF Build, BuildKilled, Kill, Then
<1>2. ~Walking' /\ ~Checked' /\ ~LayingOut' /\ ~Walking /\ ~Ended /\ ~LayingOut
      /\ phase' # "inherit"
  BY <1>1 DEF Walking, Checked, LayingOut, Ended
<1>3. UNCHANGED <<program, at, methods, visited, stack, slot, vtables>>
  BY DEF Build, BuildKilled, Kill, hvars, lvars
<1>4. Linked' => lu' = LinkedUnits(program)'
  BY <1>1, <1>3 DEF Linked, Checked, Build, BuildKilled, Kill
<1>5. TypeOK'
  BY <1>1, <1>2, <1>3, <1>4, PhaseSet DEF IInv, TypeOK
<1>6. OnPath' /\ CyclesFound' /\ Coloring'
  BY <1>1, <1>2, <1>3 DEF IInv, OnPath, CyclesFound, Coloring
<1>7. TablesLaidOut'
  BY <1>1, <1>2, <1>3 DEF IInv, TablesLaidOut
<1> QED
  BY <1>5, <1>6, <1>7 DEF IInv

(* The name resolver fills its tables.                                     *)
LEMMA NamesIInv ==
  IInv /\ (InitNames \/ CacheMissing \/ Resolve \/ ResolveNoBody) => IInv'
<1> SUFFICES ASSUME IInv, InitNames \/ CacheMissing \/ Resolve \/ ResolveNoBody PROVE IInv'
  OBVIOUS
<1>1. phase \in {"names", "resolve"} /\ phase' \in {"resolve", "inherit", "errors", "killed"}
  BY DEF InitNames, CacheMissing, Resolve, ResolveNoBody, Kill, Then, Stays
<1>2. ~Walking' /\ ~Checked' /\ ~LayingOut' /\ ~Walking /\ ~Ended /\ ~LayingOut /\ Linked
  BY <1>1 DEF Walking, Checked, LayingOut, Ended, Linked
<1>3. UNCHANGED <<program, lu, methods, visited, stack, slot, vtables>>
  BY DEF InitNames, CacheMissing, Resolve, ResolveNoBody, Kill, hvars, lvars, nvars,
         buildSymbolTable, ResolveUnit
<1>4. at' \in Nat
  BY DEF IInv, TypeOK, InitNames, CacheMissing, Resolve, ResolveNoBody, Kill
<1>5. phase' = "inherit" => errors' = {}
  BY <1>1 DEF InitNames, CacheMissing, Resolve, ResolveNoBody, Kill, Then, Stays
<1>6. TypeOK'
  BY <1>1, <1>2, <1>3, <1>4, PhaseSet DEF IInv, TypeOK
<1>7. OnPath' /\ CyclesFound' /\ Coloring'
  BY <1>1, <1>2, <1>3, <1>5 DEF IInv, OnPath, CyclesFound, Coloring
<1>8. TablesLaidOut'
  BY <1>1, <1>2, <1>3 DEF IInv, TablesLaidOut
<1> QED
  BY <1>6, <1>7, <1>8 DEF IInv

(* The checks of supertypes report no cycle.                               *)
LEMMA NoCycleYet ==
  ASSUME NEW c PROVE "cycle" \notin InheritanceErrors(c)
BY DEF InheritanceErrors, Reported

(* checkInheritance() makes the inheritance map.                           *)
LEMMA InheritIInv == IInv /\ (Inherit \/ InheritKilled) => IInv'
<1> SUFFICES ASSUME IInv, Inherit \/ InheritKilled PROVE IInv'
  OBVIOUS
<1> USE DEF IInv
<1>1. phase = "inherit" /\ Linked /\ ~Walking /\ ~Ended /\ ~LayingOut
  BY DEF Inherit, InheritKilled, Linked, Walking, Checked, LayingOut, Ended
<1>2. CASE Inherit
  <2>1. /\ phase' = "methods" /\ Walking' /\ Linked' /\ ~Checked' /\ ~LayingOut'
    BY <1>2 DEF Inherit, Linked, Walking, Checked, LayingOut
  <2>2. /\ UNCHANGED <<program, at, lu, types, object, supers, methods, visited, stack, slot, vtables>>
        /\ inheritance' = [c \in Bodies |-> DirectSupers(c)]
    BY <1>2 DEF Inherit, checkInheritance, nvars, lvars
  <2>3. Bodies' = Bodies
    BY <2>2 DEF Bodies
  <2>4. inheritance' = [c \in Bodies |-> DirectSupers(c)]'
    BY <2>2, <2>3 DEF DirectSupers, Interfaces, Extends, SuperClasses, ExtendsInterface
  <2>5. methods = << >> /\ visited = {} /\ stack = <<>> /\ errors = {}
    BY <1>1 DEF OnPath, CyclesFound
  <2>6. DOMAIN methods' = {} /\ DOMAIN stack' = {} /\ Len(stack') = 0
    BY <2>2, <2>5
  <2>7. TypeOK'
    <3>1. /\ program' \in Seq(CompilationUnit) /\ phase' \in Range(Phases) /\ at' \in Nat
          /\ lu' = LinkedUnits(program)'
      BY <1>1, <2>1, <2>2, PhaseSet DEF TypeOK
    <3>2. stack' \in Seq(Frame')
      BY <2>2, <2>5, EmptySeq
    <3> QED
      BY <2>2, <2>4, <2>6, <3>1, <3>2 DEF TypeOK
  <2>8. OnPath'
    BY <2>1, <2>2, <2>5, <2>6 DEF OnPath
  <2>9. "cycle" \notin errors'
    BY <1>2, <2>5, NoCycleYet DEF Inherit
  <2>10. CyclesFound'
    BY <2>1, <2>6, <2>9 DEF CyclesFound
  <2>11. Coloring' /\ TablesLaidOut'
    BY <1>1, <2>1, <2>2 DEF Coloring, TablesLaidOut
  <2> QED
    BY <2>7, <2>8, <2>10, <2>11
<1>3. CASE InheritKilled
  <2>1. /\ phase' = "killed" /\ ~Linked' /\ ~Walking' /\ ~Checked' /\ ~LayingOut' /\ Ended'
        /\ phase' \in Range(Phases)
    BY <1>3, PhaseSet DEF InheritKilled, Kill, Linked, Walking, Checked, LayingOut, Ended
  <2>2. UNCHANGED <<program, at, nvars, hvars, slot, vtables>>
    BY <1>3 DEF InheritKilled, Kill, lvars
  <2>3. TypeOK' /\ OnPath' /\ CyclesFound' /\ Coloring'
    <3>1. at' \in Nat
      BY <2>2 DEF TypeOK
    <3> QED
      BY <2>1, <2>2, <3>1, QuietStep
  <2>4. TablesLaidOut'
    BY <1>1, <2>1, <2>2 DEF TablesLaidOut
  <2> QED
    BY <2>3, <2>4
<1> QED
  BY <1>2, <1>3

(* Once the tables are made, the passes change what they make only.        *)
LEMMA LateFrame ==
  ASSUME IInv, Walking, UNCHANGED <<program, nvars, hvars>>
  PROVE  /\ Bodies' = Bodies /\ Nodes' = Nodes
         /\ \A m, n : Interfere(m, n)' <=> Interfere(m, n)
         /\ \A i, j : isSubType(i, j)' <=> isSubType(i, j)
<1>1. UNCHANGED <<lu, methods, inheritance>>
  BY DEF nvars, hvars
<1>2. Bodies' = Bodies
  BY <1>1 DEF Bodies
<1>3. \A i, j : isSubType(i, j)' <=> isSubType(i, j)
  BY <1>1, <1>2 DEF isSubType, isSuper
<1> QED
  BY <1>1, <1>2, <1>3 DEF Nodes, Interfere

(* The hierarchy is checked: what is accepted has no errors.               *)
LEMMA CheckConstructorsIInv == IInv /\ CheckConstructors => IInv'
<1> SUFFICES ASSUME IInv, CheckConstructors PROVE IInv'
  OBVIOUS
<1>1. /\ phase = "methods" /\ phase' \in {"rtti", "errors"} /\ Walked
      /\ phase' = "rtti" => errors' = {} /\ errors' = errors
      /\ UNCHANGED <<program, at, nvars, hvars, slot, rtti, vtables>>
  BY DEF CheckConstructors, Then, lvars
<1>2. Linked /\ Walking /\ ~Checked /\ ~Ended /\ ~LayingOut /\ ~LayingOut'
      /\ (phase' = "errors" => ~Walking' /\ Ended' /\ ~Checked')
      /\ (phase' = "rtti" => Walking')
  BY <1>1 DEF Linked, Walking, Checked, Ended, LayingOut
<1>3. phase' \in Range(Phases) /\ at' \in Nat
  BY <1>1, PhaseSet DEF IInv, TypeOK
<1>4. TypeOK' /\ OnPath' /\ CyclesFound' /\ Coloring'
  BY <1>1, <1>2, <1>3, QuietStep
<1>5. TablesLaidOut'
  BY <1>1, <1>2 DEF IInv, TablesLaidOut
<1> QED
  BY <1>4, <1>5 DEF IInv

(* populateRtti() and the end of the colouring.                            *)
LEMMA RttiIInv == IInv /\ (Rtti \/ Coloured) => IInv'
<1> SUFFICES ASSUME IInv, Rtti \/ Coloured PROVE IInv'
  OBVIOUS
<1>1. /\ (phase = "rtti" /\ phase' = "colour") \/ (phase = "colour" /\ phase' = "declare")
      /\ UNCHANGED <<program, errors, nvars, hvars, slot, vtables>>
      /\ phase' # "colour" => Nodes \subseteq DOMAIN slot /\ UNCHANGED rtti
      /\ phase' = "colour" => rtti' = {pair \in Bodies \X Bodies : isSubType(pair[1], pair[2])}
  BY DEF Rtti, Coloured, populateRtti, lvars
<1>2. Linked /\ Walking /\ Checked /\ Linked' /\ Walking' /\ Checked' /\ LayingOut'
      /\ (phase = "rtti" => ~LayingOut /\ ~Ended) /\ (phase = "colour" => LayingOut)
  BY <1>1 DEF Linked, Walking, Checked, LayingOut, Ended
<1>3. phase' \in Range(Phases) /\ at' \in Nat
  BY <1>1, PhaseSet DEF IInv, TypeOK, Rtti, Coloured
<1>4. Walked /\ errors = {} /\ (~LayingOut => slot = << >>)
  BY <1>1, <1>2 DEF IInv, OnPath, Coloring
<1>5. TypeOK' /\ OnPath' /\ CyclesFound' /\ Coloring'
  BY <1>1, <1>2, <1>3, <1>4, QuietStep
<1>6. TablesLaidOut'
  <2>1. Bodies' = Bodies /\ \A i, j : isSubType(i, j)' <=> isSubType(i, j)
    BY <1>1, <1>2, LateFrame
  <2>2. rtti' = {pair \in Bodies \X Bodies : isSubType(pair[1], pair[2])}
    BY <1>1, <1>2 DEF IInv, TablesLaidOut
  <2>3. rtti' = {pair \in Bodies \X Bodies : isSubType(pair[1], pair[2])}'
    BY <2>1, <2>2
  <2>4. phase \notin {"emit", "done"} /\ phase' \notin {"emit", "done"}
    BY <1>1
  <2>5. vtables' = << >>
    BY <1>1, <2>4 DEF IInv, TablesLaidOut
  <2> QED
    BY <2>3, <2>4, <2>5 DEF TablesLaidOut
<1> QED
  BY <1>5, <1>6 DEF IInv

(* A set of natural numbers has a least element.                           *)
LEMMA LeastNat ==
  ASSUME NEW T, T \subseteq Nat, T # {}
  PROVE  \E x \in T : \A y \in T : x <= y
<1> DEFINE Less == {ss \in Nat \X Nat : ss[1] < ss[2]}
<1>1. IsWellFoundedOn(Less, Nat)
  BY NatLessThanWellFounded DEF OpToRel
<1> HIDE DEF Less
<1>2. PICK x \in T : \A y \in T : <<y, x>> \notin Less
  BY <1>1, WFMin
<1>3. ASSUME NEW y \in T PROVE x <= y
  <2>1. <<y, x>> \in Nat \X Nat
    OBVIOUS
  <2>2. <<y, x>>[1] < <<y, x>>[2] => <<y, x>> \in Less
    BY <2>1 DEF Less
  <2>3. ~(y < x)
    BY <1>2, <2>2
  <2> QED
    BY <2>3
<1> QED
  BY <1>3

(* A finite set of numbers leaves a least positive one free.               *)
LEMMA FreeSlot ==
  ASSUME NEW used, IsFiniteSet(used)
  PROVE  \E i \in 1..(Cardinality(used) + 1) :
            i \notin used /\ \A j \in 1..(i - 1) : j \in used
<1>1. Cardinality(used) \in Nat
  BY FS_CardinalityType
<1> DEFINE n == Cardinality(used) + 1
           left == (1..n) \ used
<1>2. left # {}
  <2>1. SUFFICES ASSUME 1..n \subseteq used PROVE FALSE
    OBVIOUS
  <2>2. Cardinality(1..n) = n
    BY <1>1, FS_Interval
  <2>3. Cardinality(1..n) <= Cardinality(used)
    BY <2>1, FS_Subset
  <2> QED
    BY <1>1, <2>2, <2>3
<1>3. left \subseteq Nat
  BY <1>1
<1> HIDE DEF left
<1>4. PICK i \in left : \A j \in left : i <= j
  BY <1>2, <1>3, LeastNat
<1>5. i \in 1..n /\ i \notin used /\ \A j \in 1..n : j \notin used => i <= j
  BY <1>4 DEF left
<1>6. \A j \in 1..(i - 1) : j \in used
  BY <1>1, <1>5
<1> QED
  BY <1>5, <1>6

(* colorInterferenceGraph() gives a method a slot no neighbour has.        *)
LEMMA ColourNextIInv == IInv /\ ColourNext => IInv'
<1> SUFFICES ASSUME IInv, ColourNext PROVE IInv'
  OBVIOUS
<1>1. /\ phase = "colour" /\ phase' = phase
      /\ UNCHANGED <<program, at, errors, nvars, hvars, rtti, vtables>>
  BY DEF ColourNext, Colour
<1>2. Linked /\ Walking /\ Checked /\ Linked' /\ Walking' /\ Checked' /\ LayingOut /\ LayingOut'
      /\ ~Ended
  BY <1>1 DEF Linked, Walking, Checked, LayingOut, Ended
<1>3. PICK m \in Nodes : Colour(m)
  BY DEF ColourNext
<1> DEFINE neighbours == {k \in DOMAIN slot : Interfere(m, k)}
           used == {slot[n] : n \in neighbours}
           free == CHOOSE i \in 1..(Cardinality(used) + 1) :
                      i \notin used /\ \A j \in 1..(i - 1) : j \in used
<1>4. m \notin DOMAIN slot /\ slot' = Put(slot, m, free)
  BY <1>3 DEF Colour
<1>5. IsFiniteSet(DOMAIN slot) /\ \A n \in DOMAIN slot : slot[n] \in Nat \ {0}
  BY DEF IInv, TypeOK
<1>6. IsFiniteSet(used)
  <2>1. IsFiniteSet(neighbours)
    BY <1>5, FS_Subset
  <2> DEFINE f == [n \in neighbours |-> slot[n]]
  <2>2. f \in [neighbours -> used] /\ \A u \in used : \E n \in neighbours : f[n] = u
    OBVIOUS
  <2>3. f \in Surjection(neighbours, used)
    BY <2>2 DEF Surjection
  <2> QED
    BY <2>1, <2>3, FS_Surjection
<1>7. free \in Nat \ {0} /\ free \notin used
  <2>1. Cardinality(used) \in Nat
    BY <1>6, FS_CardinalityType
  <2>2. free \in 1..(Cardinality(used) + 1) /\ free \notin used
    BY <1>6, FreeSlot
  <2> HIDE DEF free, used
  <2> QED
    BY <2>1, <2>2
<1> HIDE DEF free
<1>8. /\ DOMAIN slot' = DOMAIN slot \cup {m} /\ slot'[m] = free
      /\ \A n \in DOMAIN slot : slot'[n] = slot[n]
  BY <1>4 DEF Put
<1>9. /\ Bodies' = Bodies /\ \A k, n : Interfere(k, n)' <=> Interfere(k, n)
      /\ \A i, j : isSubType(i, j)' <=> isSubType(i, j)
  BY <1>1, <1>2, LateFrame
<1>10. TypeOK' /\ OnPath' /\ CyclesFound'
  <2>1. UNCHANGED <<lu, types, object, supers, inheritance, methods, visited, stack>>
    BY <1>1 DEF nvars, hvars
  <2>2. AllMethods' = AllMethods
    BY <1>9, <2>1 DEF AllMethods, Declared
  <2>3. Frame' = Frame
    BY <1>9, <2>1, <2>2 DEF Frame
  <2>4. [c \in Bodies |-> DirectSupers(c)]' = [c \in Bodies |-> DirectSupers(c)]
    BY <1>9, <2>1 DEF DirectSupers, Interfaces, Extends, SuperClasses, ExtendsInterface
  <2>5. IsFiniteSet(DOMAIN slot')
    BY <1>5, <1>8, FS_AddElement
  <2>6. \A n \in DOMAIN slot' : slot'[n] \in Nat \ {0}
    BY <1>5, <1>7, <1>8
  <2>7. TypeOK'
    BY <1>1, <1>2, <1>9, <2>1, <2>2, <2>3, <2>4, <2>5, <2>6 DEF IInv, TypeOK
  <2>8. OnPath'
    BY <1>1, <1>2, <1>9, <2>1 DEF IInv, OnPath, Walked
  <2>9. CyclesFound'
    BY <1>1, <1>2, <1>9, <2>1 DEF IInv, CyclesFound, Cyclic
  <2> QED
    BY <2>7, <2>8, <2>9
<1>11. Coloring'
  <2>1. ASSUME NEW k \in DOMAIN slot', NEW n \in DOMAIN slot', Interfere(k, n)
        PROVE  slot'[k] # slot'[n]
    <3>1. k # n /\ Interfere(n, k)
      BY <2>1 DEF Interfere
    <3>2. CASE k = m
      <4>1. n \in neighbours
        BY <1>8, <2>1, <3>1, <3>2
      <4>2. slot[n] \in used
        BY <4>1
      <4> QED
        BY <1>7, <1>8, <3>2, <4>1, <4>2
    <3>3. CASE n = m
      <4>1. k \in neighbours
        BY <1>8, <2>1, <3>1, <3>3
      <4>2. slot[k] \in used
        BY <4>1
      <4> QED
        BY <1>7, <1>8, <3>3, <4>1, <4>2
    <3>4. CASE k # m /\ n # m
      BY <1>2, <1>8, <2>1, <3>4 DEF IInv, Coloring
    <3> QED
      BY <3>2, <3>3, <3>4
  <2> QED
    BY <1>1, <1>2, <1>9, <2>1 DEF Coloring
<1>12. TablesLaidOut'
  BY <1>1, <1>2, <1>9 DEF IInv, TablesLaidOut
<1> QED
  BY <1>10, <1>11, <1>12 DEF IInv

(* The class declarations: structs and functions, which IInv is not about. *)
LEMMA DeclareIInv == IInv /\ (EmitClassDecl \/ EmitKilled) => IInv'
<1> SUFFICES ASSUME IInv, EmitClassDecl \/ EmitKilled PROVE IInv'
  OBVIOUS
<1>1. /\ phase = "declare" /\ phase' \in {"declare", "emit", "killed"} /\ at \in Nat
      /\ UNCHANGED <<program, errors, nvars, hvars, slot, rtti, vtables>>
  BY DEF EmitClassDecl, EmitKilled, Kill, lvars, emitClassDecl, NextUnit, IInv, TypeOK
<1>2. /\ Linked /\ Walking /\ Checked /\ LayingOut /\ ~Ended
      /\ (phase' = "killed" => ~Walking' /\ Ended' /\ ~Checked' /\ ~LayingOut' /\ ~Linked')
      /\ (phase' # "killed" => Walking' /\ Checked' /\ LayingOut' /\ Linked')
  BY <1>1 DEF Linked, Walking, Checked, LayingOut, Ended
<1>3. phase' \in Range(Phases)
  BY <1>1, PhaseSet
<1>4. at' \in Nat
  BY <1>1 DEF EmitClassDecl, EmitKilled, Kill, NextUnit
<1>5. Walked /\ errors = {} /\ Nodes \subseteq DOMAIN slot
  BY <1>1, <1>2 DEF IInv, OnPath, Coloring
<1>6. TypeOK' /\ OnPath' /\ CyclesFound' /\ Coloring'
  BY <1>1, <1>2, <1>3, <1>4, <1>5, QuietStep
<1>7. TablesLaidOut'
  <2>1. Bodies' = Bodies /\ \A i, j : isSubType(i, j)' <=> isSubType(i, j)
    BY <1>1, <1>2, LateFrame
  <2>2. rtti' = {pair \in Bodies \X Bodies : isSubType(pair[1], pair[2])}'
    BY <1>1, <1>2, <2>1 DEF IInv, TablesLaidOut
  <2>3. vtables' = << >> /\ DOMAIN vtables' = {}
    BY <1>1 DEF IInv, TablesLaidOut
  <2> QED
    BY <2>2, <2>3 DEF TablesLaidOut
<1> QED
  BY <1>6, <1>7 DEF IInv

(* The vtables, class by class.                                            *)
LEMMA EmitIInv == IInv /\ EmitClass => IInv'
<1> SUFFICES ASSUME IInv, EmitClass PROVE IInv'
  OBVIOUS
<1>1. /\ phase = "emit" /\ phase' \in {"emit", "done"}
      /\ UNCHANGED <<program, errors, nvars, hvars, slot, rtti>>
  BY DEF EmitClass, lvars, emitClass, NextUnit
<1>2. /\ Linked /\ Walking /\ Checked /\ LayingOut /\ ~Ended
      /\ Walking' /\ Checked' /\ LayingOut' /\ Linked'
  BY <1>1 DEF Linked, Walking, Checked, LayingOut, Ended
<1>3. phase' \in Range(Phases)
  BY <1>1, PhaseSet
<1>4. at' \in Nat
  BY DEF EmitClass, NextUnit, IInv, TypeOK
<1>5. Walked /\ errors = {} /\ Nodes \subseteq DOMAIN slot
  BY <1>1, <1>2 DEF IInv, OnPath, Coloring
<1>6. TypeOK' /\ OnPath' /\ CyclesFound' /\ Coloring'
  BY <1>1, <1>2, <1>3, <1>4, <1>5, QuietStep
<1> DEFINE Table(c) == [i \in {Slot(m) : m \in methods[c]} |->
                          {m \in methods[c] : Slot(m) = i}]
<1>7. vtables' = vtables \/ (at \in Classes /\ vtables' = Put(vtables, at, Table(at)))
  BY DEF EmitClass, emitClass, lvars
<1>8. TablesLaidOut'
  <2>1. Bodies' = Bodies /\ \A i, j : isSubType(i, j)' <=> isSubType(i, j)
    BY <1>1, <1>2, LateFrame
  <2>2. rtti' = {pair \in Bodies \X Bodies : isSubType(pair[1], pair[2])}'
    BY <1>1, <1>2, <2>1 DEF IInv, TablesLaidOut
  <2>3. ASSUME NEW c \in DOMAIN vtables' PROVE c \in Bodies /\ vtables'[c] = Table(c)
    <3>1. \A d \in DOMAIN vtables : d \in Bodies /\ vtables[d] = Table(d)
      BY <1>1 DEF IInv, TablesLaidOut
    <3> HIDE DEF Table
    <3> QED
      BY <1>7, <2>3, <3>1 DEF Put, Classes
  <2>4. \A c : Table(c)' = Table(c)
    BY <1>1 DEF Slot, hvars
  <2> HIDE DEF Table
  <2>5. \A c \in DOMAIN vtables' : c \in Bodies' /\ vtables'[c] = Table(c)'
    BY <2>1, <2>3, <2>4
  <2> USE DEF Table
  <2> QED
    BY <1>1, <2>2, <2>5 DEF TablesLaidOut
<1> QED
  BY <1>6, <1>8 DEF IInv

-----------------------------------------------------------------------------
(* The walk                                                                *)

(* The rules of a declaration have no message of a cycle.                  *)
LEMMA NodeErrorsNoCycle ==
  ASSUME NEW c, NEW inherited PROVE "cycle" \notin NodeErrors(c, inherited)
<1>1. ASSUME NEW ms PROVE "cycle" \notin ReplacementErrors(ms, inherited)
  BY DEF ReplacementErrors, Reported
<1>2. "cycle" \notin ReplacementErrors(Declared(c), Declared(object))
  BY DEF ReplacementErrors, Reported
<1>3. ASSUME NEW kept PROVE "cycle" \notin InheritedErrors(c, kept)
  BY DEF InheritedErrors, Reported
<1>4. "cycle" \notin checkClassMethod(c, inherited)
  BY <1>1, <1>3 DEF checkClassMethod, Reported
<1>5. "cycle" \notin checkClassConstructors(c)
  BY DEF checkClassConstructors, Reported
<1>6. "cycle" \notin checkInterfaceMethod(c, inherited)
  BY <1>2 DEF checkInterfaceMethod, Reported
<1> QED
  BY <1>4, <1>5, <1>6 DEF NodeErrors

(* A declaration has only methods it declares or inherits.                 *)
LEMMA NodeMethodsDeclared ==
  ASSUME NEW c \in Bodies, NEW inherited \in SUBSET AllMethods
  PROVE  NodeMethods(c, inherited) \subseteq AllMethods
BY DEF NodeMethods, ClassMethods, InterfaceMethods, AllMethods

(* What a step of the walk does not reach.                                 *)
LEMMA WalkFrame ==
  ASSUME IInv, phase = "methods", UNCHANGED <<program, phase, at, nvars, lvars, inheritance>>,
         stack' \in Seq(Frame), DOMAIN methods' \subseteq Bodies,
         \A c \in DOMAIN methods' : methods'[c] \subseteq AllMethods
  PROVE  /\ TypeOK' /\ Coloring' /\ TablesLaidOut'
         /\ Walking /\ Walking' /\ ~Checked' /\ phase' # "inherit"
         /\ Bodies' = Bodies /\ inheritance' = inheritance
<1>1. UNCHANGED <<program, phase, at, lu, types, object, supers, inheritance, slot, rtti, vtables>>
  BY DEF nvars, lvars
<1>2. Bodies' = Bodies /\ AllMethods' = AllMethods
  BY <1>1 DEF Bodies, AllMethods, Declared
<1>3. Frame' = Frame
  BY <1>1, <1>2 DEF Frame
<1>4. [c \in Bodies |-> DirectSupers(c)]' = [c \in Bodies |-> DirectSupers(c)]
  BY <1>1, <1>2 DEF DirectSupers, Interfaces, Extends, SuperClasses, ExtendsInterface
<1>5. Linked /\ Walking /\ Walking' /\ ~Checked' /\ ~LayingOut /\ ~LayingOut' /\ ~Ended
  BY <1>1 DEF Linked, Walking, Checked, LayingOut, Ended
<1>6. TypeOK'
  BY <1>1, <1>2, <1>3, <1>4, <1>5 DEF IInv, TypeOK
<1>7. Coloring' /\ TablesLaidOut'
  BY <1>1, <1>5 DEF IInv, Coloring, TablesLaidOut
<1> QED
  BY <1>1, <1>2, <1>5, <1>6, <1>7

(* The frame of a declaration that the walk enters.                        *)
LEMMA NewFrameType ==
  ASSUME IInv, Walking, NEW c \in Bodies
  PROVE  /\ NewFrame(c) \in Frame
         /\ NewFrame(c).node = c /\ NewFrame(c).todo = inheritance[c]
<1>1. inheritance[c] \in SUBSET UNION Range(inheritance)
  BY DEF Range, IInv, TypeOK
<1> QED
  BY <1>1 DEF NewFrame, Frame

(* The walk begins at a unit.                                              *)
LEMMA VisitUnitIInv ==
  ASSUME IInv, phase = "methods", UNCHANGED <<program, phase, at, nvars, lvars>>,
         errors' = errors, NEW c \in Bodies, VisitUnit(c)
  PROVE  IInv'
<1> USE DEF IInv
<1>1. /\ stack = <<>> /\ c \notin visited /\ stack' = <<NewFrame(c)>>
      /\ visited' = visited \cup {c} /\ UNCHANGED <<inheritance, methods>>
  BY DEF VisitUnit, Enter
<1>2. Walking
  BY DEF Walking
<1>3. NewFrame(c) \in Frame /\ NewFrame(c).node = c /\ NewFrame(c).todo = inheritance[c]
  BY <1>2, NewFrameType
<1>4. /\ stack' \in Seq(Frame) /\ DOMAIN stack' = {1} /\ Len(stack') = 1
      /\ stack'[1].node = c /\ stack'[1].todo = inheritance[c]
  BY <1>1, <1>3
<1>5. /\ TypeOK' /\ Coloring' /\ TablesLaidOut'
      /\ Walking' /\ ~Checked' /\ phase' # "inherit" /\ Bodies' = Bodies
  <2>1. DOMAIN methods' \subseteq Bodies /\ \A d \in DOMAIN methods' : methods'[d] \subseteq AllMethods
    BY <1>1, <1>2 DEF TypeOK
  <2> QED
    BY <1>1, <1>4, <2>1, WalkFrame
<1>6. visited = DOMAIN methods
  <2>1. {stack[k].node : k \in DOMAIN stack} = {}
    BY <1>1
  <2>2. visited = DOMAIN methods \cup {stack[k].node : k \in DOMAIN stack}
    BY <1>2 DEF OnPath
  <2> QED
    BY <2>1, <2>2
<1>7. OnPath'
  BY <1>1, <1>4, <1>5, <1>6 DEF OnPath
<1>8. CyclesFound'
  BY <1>1, <1>2, <1>4, <1>5 DEF CyclesFound, Cyclic
<1> QED
  BY <1>5, <1>7, <1>8

(* The recursive call: the path has one declaration more.                  *)
LEMMA DescendIInv ==
  ASSUME IInv, phase = "methods", UNCHANGED <<program, phase, at, nvars, lvars>>,
         errors' = errors, NEW s \in Bodies, Descend(s)
  PROVE  IInv'
<1> USE DEF IInv
<1> DEFINE n == Len(stack)
           called == [stack[n] EXCEPT !.from = s]
           st == [stack EXCEPT ![n] = called]
<1>1. /\ stack # <<>> /\ s \in Top.todo /\ s \notin visited
      /\ stack' = Append(st, NewFrame(s))
      /\ visited' = visited \cup {s} /\ UNCHANGED <<inheritance, methods>>
  BY DEF Descend, Enter
<1>2. Walking
  BY DEF Walking
<1>3. NewFrame(s) \in Frame /\ NewFrame(s).node = s /\ NewFrame(s).todo = inheritance[s]
  BY <1>2, NewFrameType
<1>4. /\ stack \in Seq(Frame) /\ n \in Nat \ {0} /\ DOMAIN stack = 1..n /\ n \in DOMAIN stack
      /\ Top = stack[n] /\ Top \in Frame
  BY <1>1, <1>2, TopFrame
<1>5. /\ called \in Frame /\ called.node = stack[n].node /\ called.todo = stack[n].todo
      /\ called.from = s
  BY <1>4 DEF Frame
<1> HIDE DEF called
<1>6. /\ DOMAIN st = 1..n /\ Len(st) = n /\ st[n] = called /\ st \in Seq(Frame)
      /\ \A k \in 1..n : k # n => st[k] = stack[k]
  BY <1>1, <1>4, <1>5, ReplaceLast
<1> HIDE DEF st
<1>7. /\ stack' \in Seq(Frame) /\ Len(stack') = n + 1 /\ DOMAIN stack' = 1..(n + 1)
      /\ stack'[n + 1] = NewFrame(s)
      /\ \A k \in 1..n : stack'[k] = st[k]
  <2>1. NewFrame(s) \in Frame /\ st \in Seq(Frame) /\ Len(st) = n /\ n \in Nat
        /\ stack' = Append(st, NewFrame(s))
    BY <1>1, <1>3, <1>4, <1>6
  <2> HIDE DEF n
  <2>2. /\ stack' \in Seq(Frame) /\ Len(stack') = n + 1 /\ stack'[n + 1] = NewFrame(s)
        /\ \A k \in 1..n : stack'[k] = st[k]
    BY <2>1, AppendProperties
  <2>3. DOMAIN stack' = 1..(n + 1)
    BY <2>2, LenProperties
  <2> QED
    BY <2>2, <2>3
<1>8. \A k \in 1..n : stack'[k].node = stack[k].node /\ stack'[k].todo = stack[k].todo
  BY <1>5, <1>6, <1>7
<1>9. stack'[n].from = s /\ \A k \in 1..n : k # n => stack'[k].from = stack[k].from
  BY <1>4, <1>5, <1>6, <1>7
<1>10. stack'[n + 1].node = s /\ stack'[n + 1].todo = inheritance[s]
  BY <1>3, <1>7
<1>11. /\ TypeOK' /\ Coloring' /\ TablesLaidOut'
       /\ Walking' /\ ~Checked' /\ phase' # "inherit" /\ Bodies' = Bodies
  <2>1. DOMAIN methods' \subseteq Bodies /\ \A d \in DOMAIN methods' : methods'[d] \subseteq AllMethods
    BY <1>1, <1>2 DEF TypeOK
  <2> QED
    BY <1>1, <1>7, <2>1, WalkFrame
<1> HIDE DEF n
<1>12. /\ visited = DOMAIN methods \cup {stack[k].node : k \in 1..n}
       /\ \A k \in 1..n :
             /\ stack[k].node \notin DOMAIN methods
             /\ stack[k].todo \subseteq inheritance[stack[k].node]
             /\ \A l \in 1..n : stack[l].node = stack[k].node => l = k
             /\ k # n => /\ stack[k].from = stack[k + 1].node
                         /\ stack[k].from \in stack[k].todo
  BY <1>2, <1>4 DEF OnPath, n
<1>13. OnPath'
  <2>1. visited' = DOMAIN methods' \cup {stack'[k].node : k \in DOMAIN stack'}
    <3>1. 1..(n + 1) = 1..n \cup {n + 1}
      BY <1>4
    <3>2. {stack'[k].node : k \in DOMAIN stack'} = {stack[k].node : k \in 1..n} \cup {s}
      BY <1>7, <1>8, <1>10, <3>1
    <3> QED
      BY <1>1, <1>12, <3>2
  <2>2. s \notin DOMAIN methods /\ \A k \in 1..n : stack[k].node # s
    BY <1>1, <1>12
  <2>3. ASSUME NEW k \in 1..(n + 1)
        PROVE  /\ stack'[k].node \notin DOMAIN methods
               /\ stack'[k].todo \subseteq inheritance[stack'[k].node]
    BY <1>4, <1>8, <1>10, <1>12, <2>2
  <2>4. ASSUME NEW k \in 1..(n + 1), NEW l \in 1..(n + 1), stack'[l].node = stack'[k].node
        PROVE  l = k
    <3>1. k = n + 1 \/ k \in 1..n
      BY <1>4
    <3>2. l = n + 1 \/ l \in 1..n
      BY <1>4
    <3> QED
      BY <1>8, <1>10, <1>12, <2>2, <2>4, <3>1, <3>2
  <2>5. ASSUME NEW k \in 1..(n + 1), k # n + 1
        PROVE  stack'[k].from = stack'[k + 1].node /\ stack'[k].from \in stack'[k].todo
    <3>1. CASE k = n
      <4>1. stack'[n].todo = Top.todo
        BY <1>4, <1>8
      <4> QED
        BY <1>1, <1>9, <1>10, <3>1, <4>1
    <3>2. CASE k # n
      <4>1. k \in 1..n /\ k + 1 \in 1..n
        BY <1>4, <2>5, <3>2
      <4>2. stack'[k].from = stack[k].from /\ stack'[k].todo = stack[k].todo
            /\ stack'[k + 1].node = stack[k + 1].node
        BY <1>8, <1>9, <3>2, <4>1
      <4> QED
        BY <1>12, <3>2, <4>1, <4>2
    <3> QED
      BY <3>1, <3>2
  <2> QED
    BY <1>1, <1>7, <1>11, <2>1, <2>3, <2>4, <2>5 DEF OnPath
<1>14. CyclesFound'
  <2>1. 1..(n + 1) = 1..n \cup {n + 1}
    BY <1>4
  <2> QED
    BY <1>1, <1>2, <1>4, <1>7, <1>8, <1>10, <1>11, <2>1 DEF CyclesFound, Cyclic
<1> QED
  BY <1>11, <1>13, <1>14

(* A frame has done with a supertype: it is finished, or there is a cycle. *)
LEMMA TopIInv ==
  ASSUME IInv, phase = "methods",
         UNCHANGED <<program, phase, at, nvars, lvars, inheritance, methods, visited>>,
         stack # <<>>, NEW new \in Frame, new.node = Top.node, new.todo \subseteq Top.todo,
         stack' = [stack EXCEPT ![Len(stack)] = new],
         "cycle" \in errors' => "cycle" \in errors \/ Cyclic,
         "cycle" \notin errors' => /\ "cycle" \notin errors
                                   /\ Top.todo \ new.todo \subseteq DOMAIN methods
  PROVE  IInv'
<1> USE DEF IInv
<1> DEFINE n == Len(stack)
<1>1. Walking
  BY DEF Walking
<1>2. /\ stack \in Seq(Frame) /\ n \in Nat \ {0} /\ DOMAIN stack = 1..n /\ n \in DOMAIN stack
      /\ Top = stack[n]
  BY <1>1, TopFrame
<1>3. /\ DOMAIN stack' = 1..n /\ Len(stack') = n /\ stack'[n] = new /\ stack' \in Seq(Frame)
      /\ \A k \in 1..n : k # n => stack'[k] = stack[k]
  BY <1>2, ReplaceLast
<1>4. UNCHANGED <<inheritance, methods, visited>>
  OBVIOUS
<1>5. /\ TypeOK' /\ Coloring' /\ TablesLaidOut'
      /\ Walking' /\ ~Checked' /\ phase' # "inherit" /\ Bodies' = Bodies
  <2>1. DOMAIN methods' \subseteq Bodies /\ \A d \in DOMAIN methods' : methods'[d] \subseteq AllMethods
    BY <1>1 DEF TypeOK
  <2> QED
    BY <1>3, <2>1, WalkFrame
<1> HIDE DEF n
<1>6. /\ visited = DOMAIN methods \cup {stack[k].node : k \in 1..n}
      /\ \A k \in 1..n :
            /\ stack[k].node \notin DOMAIN methods
            /\ stack[k].todo \subseteq inheritance[stack[k].node]
            /\ \A l \in 1..n : stack[l].node = stack[k].node => l = k
            /\ k # n => /\ stack[k].from = stack[k + 1].node
                        /\ stack[k].from \in stack[k].todo
  BY <1>1, <1>2 DEF OnPath, n
<1>7. \A k \in 1..n : stack'[k].node = stack[k].node /\ stack'[k].todo \subseteq stack[k].todo
  BY <1>2, <1>3
<1>8. OnPath'
  <2>1. visited = DOMAIN methods \cup {stack'[k].node : k \in 1..n}
    BY <1>6, <1>7
  <2>2. ASSUME NEW k \in 1..n
        PROVE  /\ stack'[k].node \notin DOMAIN methods
               /\ stack'[k].todo \subseteq inheritance[stack'[k].node]
               /\ \A l \in 1..n : stack'[l].node = stack'[k].node => l = k
    BY <1>6, <1>7
  <2>3. ASSUME NEW k \in 1..n, k # n
        PROVE  stack'[k].from = stack'[k + 1].node /\ stack'[k].from \in stack'[k].todo
    <3>1. k + 1 \in 1..n /\ stack'[k] = stack[k]
      BY <1>2, <1>3, <2>3
    <3> QED
      BY <1>6, <1>7, <2>3, <3>1
  <2>4. visited' = DOMAIN methods' \cup {stack'[k].node : k \in DOMAIN stack'}
    BY <1>3, <1>4, <2>1
  <2>5. \A k \in DOMAIN stack' :
           /\ stack'[k].node \notin DOMAIN methods'
           /\ stack'[k].todo \subseteq inheritance'[stack'[k].node]
           /\ \A l \in DOMAIN stack' : stack'[l].node = stack'[k].node => l = k
           /\ k # Len(stack') => /\ stack'[k].from = stack'[k + 1].node
                                 /\ stack'[k].from \in stack'[k].todo
    BY <1>3, <1>4, <2>2, <2>3
  <2> QED
    BY <1>5, <2>4, <2>5 DEF OnPath
<1>9. CyclesFound'
  <2>1. ASSUME "cycle" \notin errors', NEW k \in 1..n
        PROVE  inheritance[stack'[k].node] \ stack'[k].todo \subseteq DOMAIN methods
    <3>1. inheritance[stack[k].node] \ stack[k].todo \subseteq DOMAIN methods
      BY <1>1, <1>2, <2>1 DEF CyclesFound
    <3>2. CASE k # n
      BY <1>3, <3>1, <3>2
    <3>3. CASE k = n
      BY <1>2, <1>3, <2>1, <3>1, <3>3
    <3> QED
      BY <3>2, <3>3
  <2>2. ASSUME "cycle" \notin errors'
        PROVE  /\ \A c \in DOMAIN methods : inheritance[c] \subseteq DOMAIN methods
               /\ \A T \in SUBSET DOMAIN methods :
                     T # {} => \E c \in T : inheritance[c] \cap T = {}
    BY <1>1, <2>2 DEF CyclesFound
  <2>3. "cycle" \in errors' => Cyclic
    BY <1>1 DEF CyclesFound
  <2>4. Cyclic' <=> Cyclic
    BY <1>4, <1>5 DEF Cyclic
  <2> QED
    BY <1>3, <1>4, <1>5, <2>1, <2>2, <2>3, <2>4 DEF CyclesFound
<1> QED
  BY <1>5, <1>8, <1>9

(* A supertype that is on the path closes a cycle: the rest of the path.   *)
LEMMA PathCloses ==
  ASSUME IInv, Walking, stack # <<>>, NEW s \in Top.todo, s \in visited, s \notin DOMAIN methods
  PROVE  Cyclic
<1> DEFINE n == Len(stack)
<1>1. /\ n \in Nat \ {0} /\ DOMAIN stack = 1..n /\ n \in DOMAIN stack /\ Top = stack[n]
  BY TopFrame
<1>2. /\ visited = DOMAIN methods \cup {stack[k].node : k \in 1..n}
      /\ \A k \in 1..n :
            /\ stack[k].todo \subseteq inheritance[stack[k].node]
            /\ k # n => stack[k].from = stack[k + 1].node /\ stack[k].from \in stack[k].todo
  BY <1>1 DEF IInv, OnPath
<1>3. \A k \in 1..n : stack[k].node \in Bodies
  BY <1>1, VisitedUnits
<1> HIDE DEF n
<1>4. PICK j \in 1..n : stack[j].node = s
  BY <1>2
<1> DEFINE T == {stack[k].node : k \in j..n}
<1>5. T \subseteq Bodies /\ s \in T
  BY <1>1, <1>3, <1>4
<1>6. ASSUME NEW k \in j..n PROVE inheritance[stack[k].node] \cap T # {}
  <2>1. k \in 1..n
    BY <1>1
  <2>2. CASE k = n
    BY <1>1, <1>2, <1>5, <2>1, <2>2
  <2>3. CASE k # n
    <3>1. k + 1 \in j..n
      BY <1>1, <2>1, <2>3
    <3>2. stack[k + 1].node \in T
      BY <3>1
    <3>3. stack[k + 1].node \in inheritance[stack[k].node]
      BY <1>2, <2>1, <2>3
    <3> QED
      BY <3>2, <3>3
  <2> QED
    BY <2>2, <2>3
<1>7. \A c \in T : inheritance[c] \cap T # {}
  BY <1>6
<1> HIDE DEF T
<1> QED
  BY <1>5, <1>7 DEF Cyclic

(* The check of a supertype has begun and not ended: a cycle.              *)
LEMMA FindCycleIInv ==
  ASSUME IInv, phase = "methods", UNCHANGED <<program, phase, at, nvars, lvars>>,
         errors' = errors \cup {"cycle"}, NEW s \in Bodies, FindCycle(s)
  PROVE  IInv'
<1>1. /\ stack # <<>> /\ s \in Top.todo /\ s \in visited /\ s \notin DOMAIN methods
      /\ UNCHANGED <<inheritance, methods, visited>>
  BY DEF FindCycle, isInheritedSet
<1>2. Walking
  BY DEF Walking
<1>3. Top = stack[Len(stack)] /\ Top \in Frame
  BY <1>1, <1>2, TopFrame
<1> DEFINE new == [stack[Len(stack)] EXCEPT !.todo = @ \ {s}]
<1>4. stack' = [stack EXCEPT ![Len(stack)] = new]
  BY DEF FindCycle
<1>5. new \in Frame /\ new.node = Top.node /\ new.todo \subseteq Top.todo
  BY <1>3 DEF Frame
<1>6. Cyclic
  BY <1>1, <1>2, PathCloses
<1> HIDE DEF new
<1> QED
  BY <1>1, <1>4, <1>5, <1>6, TopIInv

(* What a finished supertype has is collected.                             *)
LEMMA CollectIInv ==
  ASSUME IInv, phase = "methods", UNCHANGED <<program, phase, at, nvars, lvars>>,
         errors' = errors, NEW s \in Bodies, Collect(s)
  PROVE  IInv'
<1>1. /\ stack # <<>> /\ s \in Top.todo /\ s \in DOMAIN methods
      /\ UNCHANGED <<inheritance, methods, visited>>
  BY DEF Collect, isInheritedSet
<1>2. Walking
  BY DEF Walking
<1>3. Top \in Frame
  BY <1>1, <1>2, TopFrame
<1> DEFINE new == [Top EXCEPT !.todo = @ \ {s}, !.from = None,
                              !.inherited = @ \cup methods[s]]
<1>4. stack' = [stack EXCEPT ![Len(stack)] = new]
  BY DEF Collect
<1>5. methods[s] \subseteq AllMethods
  BY <1>1, <1>2 DEF IInv, TypeOK
<1>6. /\ new \in Frame /\ new.node = Top.node /\ new.todo \subseteq Top.todo
      /\ Top.todo \ new.todo \subseteq {s}
  BY <1>3, <1>5 DEF Frame
<1>7. "cycle" \in errors => Cyclic
  BY <1>2 DEF IInv, CyclesFound
<1> HIDE DEF new
<1> QED
  BY <1>1, <1>4, <1>6, <1>7, TopIInv

(* The path loses its end, and what is finished has no cycle still: all    *)
(* supertypes of the new one were finished before it.                      *)
LEMMA FinishNodeIInv ==
  ASSUME IInv, phase = "methods", UNCHANGED <<program, phase, at, nvars, lvars>>,
         FinishNode, errors' = errors \cup NodeErrors(Top.node, Top.inherited)
  PROVE  IInv'
<1> USE DEF IInv
<1> DEFINE n == Len(stack)
           c == stack[n].node
<1>1. Walking
  BY DEF Walking
<1>2. /\ stack # <<>> /\ Top.todo = {} /\ stack' = Front(stack)
      /\ UNCHANGED <<inheritance, visited>>
  BY DEF FinishNode
<1>3. /\ stack \in Seq(Frame) /\ n \in Nat \ {0} /\ DOMAIN stack = 1..n /\ n \in DOMAIN stack
      /\ Top = stack[n] /\ Top \in Frame
  BY <1>1, <1>2, TopFrame
<1>4. methods' = Put(methods, c, NodeMethods(c, Top.inherited))
  BY <1>3 DEF FinishNode
<1>5. c \in Bodies /\ stack[n].todo = {} /\ Top.inherited \in SUBSET AllMethods
  BY <1>2, <1>3 DEF Frame
<1>6. NodeMethods(c, Top.inherited) \subseteq AllMethods
  BY <1>5, NodeMethodsDeclared
<1>7. DOMAIN methods' = DOMAIN methods \cup {c}
      /\ \A d \in DOMAIN methods' : methods'[d] \subseteq AllMethods
  BY <1>1, <1>4, <1>6 DEF Put, TypeOK
<1>8. /\ stack' \in Seq(Frame) /\ Len(stack') = n - 1 /\ DOMAIN stack' = 1..(n - 1)
      /\ \A k \in 1..(n - 1) : stack'[k] = stack[k]
  BY <1>2, <1>3, FrontFacts
<1>9. /\ TypeOK' /\ Coloring' /\ TablesLaidOut'
      /\ Walking' /\ ~Checked' /\ phase' # "inherit" /\ Bodies' = Bodies
  <2>1. DOMAIN methods' \subseteq Bodies
    BY <1>1, <1>5, <1>7 DEF TypeOK
  <2> QED
    BY <1>2, <1>7, <1>8, <2>1, WalkFrame
<1>10. /\ visited = DOMAIN methods \cup {stack[k].node : k \in 1..n}
       /\ \A k \in 1..n :
             /\ stack[k].node \notin DOMAIN methods
             /\ stack[k].todo \subseteq inheritance[stack[k].node]
             /\ \A l \in 1..n : stack[l].node = stack[k].node => l = k
             /\ k # n => /\ stack[k].from = stack[k + 1].node
                         /\ stack[k].from \in stack[k].todo
  BY <1>1, <1>3 DEF OnPath
<1> HIDE DEF n
<1>11. 1..n = 1..(n - 1) \cup {n} /\ n \notin 1..(n - 1) /\ n \in 1..n
  BY <1>3
<1>12. OnPath'
  <2>1. visited' = DOMAIN methods' \cup {stack'[k].node : k \in 1..(n - 1)}
    <3>1. {stack[k].node : k \in 1..n} = {stack'[k].node : k \in 1..(n - 1)} \cup {c}
      BY <1>8, <1>11
    <3> QED
      BY <1>2, <1>7, <1>10, <3>1
  <2>2. ASSUME NEW k \in 1..(n - 1)
        PROVE  /\ stack'[k].node \notin DOMAIN methods'
               /\ stack'[k].todo \subseteq inheritance[stack'[k].node]
               /\ \A l \in 1..(n - 1) : stack'[l].node = stack'[k].node => l = k
    <3>1. k \in 1..n /\ k # n /\ stack'[k] = stack[k]
      BY <1>8, <1>11
    <3>2. stack[k].node # c
      BY <1>10, <1>11, <3>1
    <3> QED
      BY <1>7, <1>8, <1>10, <1>11, <3>1, <3>2
  <2>3. ASSUME NEW k \in 1..(n - 1), k # n - 1
        PROVE  stack'[k].from = stack'[k + 1].node /\ stack'[k].from \in stack'[k].todo
    <3>1. k + 1 \in 1..(n - 1) /\ k \in 1..n /\ k # n
      BY <1>3, <2>3
    <3> QED
      BY <1>8, <1>10, <3>1
  <2> QED
    BY <1>2, <1>8, <1>9, <2>1, <2>2, <2>3 DEF OnPath
<1>13. "cycle" \in errors' <=> "cycle" \in errors
  BY NodeErrorsNoCycle
<1>14. CyclesFound'
  <2>1. ASSUME "cycle" \notin errors
        PROVE  /\ \A d \in DOMAIN methods' : inheritance[d] \subseteq DOMAIN methods'
               /\ \A k \in 1..(n - 1) :
                     inheritance[stack'[k].node] \ stack'[k].todo \subseteq DOMAIN methods'
               /\ \A T \in SUBSET DOMAIN methods' :
                     T # {} => \E d \in T : inheritance[d] \cap T = {}
    <3>1. /\ \A d \in DOMAIN methods : inheritance[d] \subseteq DOMAIN methods
          /\ \A k \in 1..n : inheritance[stack[k].node] \ stack[k].todo \subseteq DOMAIN methods
          /\ \A T \in SUBSET DOMAIN methods :
                T # {} => \E d \in T : inheritance[d] \cap T = {}
      BY <1>1, <1>3, <2>1 DEF CyclesFound, n
    <3>2. inheritance[c] \subseteq DOMAIN methods /\ c \notin DOMAIN methods
      BY <1>5, <1>10, <1>11, <3>1
    <3> HIDE DEF c
    <3>3. \A d \in DOMAIN methods' : inheritance[d] \subseteq DOMAIN methods'
      BY <1>7, <3>1, <3>2
    <3>4. \A k \in 1..(n - 1) :
             inheritance[stack'[k].node] \ stack'[k].todo \subseteq DOMAIN methods'
      BY <1>7, <1>8, <1>11, <3>1
    <3>5. ASSUME NEW T \in SUBSET DOMAIN methods', T # {}
          PROVE  \E d \in T : inheritance[d] \cap T = {}
      <4>1. T \ {c} \subseteq DOMAIN methods
        BY <1>7
      <4>2. CASE T \ {c} = {}
        BY <3>2, <3>5, <4>2
      <4>3. CASE T \ {c} # {}
        <5>1. PICK d \in T \ {c} : inheritance[d] \cap (T \ {c}) = {}
          BY <3>1, <4>1, <4>3
        <5>2. c \notin inheritance[d]
          BY <3>1, <3>2, <4>1, <5>1
        <5> QED
          BY <5>1, <5>2
      <4> QED
        BY <4>2, <4>3
    <3> QED
      BY <3>3, <3>4, <3>5
  <2>2. "cycle" \in errors => Cyclic
    BY <1>1 DEF CyclesFound
  <2>3. Cyclic' <=> Cyclic
    BY <1>2, <1>9 DEF Cyclic
  <2> QED
    BY <1>2, <1>8, <1>9, <1>13, <2>1, <2>2, <2>3 DEF CyclesFound
<1> QED
  BY <1>9, <1>12, <1>14

(* checkMethodInheritance()                                                *)
LEMMA WalkIInv == IInv /\ Walk => IInv'
<1> SUFFICES ASSUME IInv, Walk PROVE IInv'
  OBVIOUS
<1>1. phase = "methods" /\ UNCHANGED <<program, at, nvars, lvars>>
  BY DEF Walk
<1>2. ASSUME NEW c \in Bodies, VisitUnit(c), Stays({}) PROVE IInv'
  BY <1>1, <1>2, VisitUnitIInv DEF Stays
<1>3. ASSUME NEW s \in Bodies, Descend(s), Stays({}) PROVE IInv'
  BY <1>1, <1>3, DescendIInv DEF Stays
<1>4. ASSUME NEW s \in Bodies, FindCycle(s), Stays({"cycle"}) PROVE IInv'
  BY <1>1, <1>4, FindCycleIInv DEF Stays
<1>5. ASSUME NEW s \in Bodies, Collect(s), Stays({}) PROVE IInv'
  BY <1>1, <1>5, CollectIInv DEF Stays
<1>6. ASSUME FinishNode, Stays(NodeErrors(Top.node, Top.inherited)) PROVE IInv'
  BY <1>1, <1>6, FinishNodeIInv DEF Stays
<1> QED
  BY <1>2, <1>3, <1>4, <1>5, <1>6 DEF Walk

(* A step that changes nothing.                                            *)
LEMMA StutterIInv == IInv /\ UNCHANGED vars => IInv'
<1> SUFFICES ASSUME IInv, UNCHANGED vars PROVE IInv'
  OBVIOUS
<1>1. UNCHANGED <<program, phase, at, errors, lu, types, object, supers, inheritance, methods,
                  visited, stack, rtti, slot, vtables>>
  BY DEF vars, nvars, hvars, lvars
<1>2. Bodies' = Bodies /\ AllMethods' = AllMethods
  BY <1>1 DEF Bodies, AllMethods, Declared
<1>3. Frame' = Frame
  BY <1>1, <1>2 DEF Frame
<1>4. [c \in Bodies |-> DirectSupers(c)]' = [c \in Bodies |-> DirectSupers(c)]
  BY <1>1, <1>2 DEF DirectSupers, Interfaces, Extends, SuperClasses, ExtendsInterface
<1>5. /\ Linked' = Linked /\ Walking' = Walking /\ Checked' = Checked /\ Ended' = Ended
      /\ LayingOut' = LayingOut
  BY <1>1 DEF Linked, Walking, Checked, Ended, LayingOut
<1>6. TypeOK'
  BY <1>1, <1>2, <1>3, <1>4, <1>5 DEF IInv, TypeOK
<1>7. OnPath' /\ CyclesFound'
  BY <1>1, <1>2, <1>5 DEF IInv, OnPath, CyclesFound, Walked, Cyclic
<1>8. Coloring'
  <2>1. Nodes' = Nodes /\ \A m, n : Interfere(m, n)' <=> Interfere(m, n)
    BY <1>1, <1>2 DEF Nodes, Interfere
  <2>2. UNCHANGED <<phase, slot>>
    BY <1>1
  <2>3. (~LayingOut /\ ~Ended => slot = << >>)' <=> (~LayingOut /\ ~Ended => slot = << >>)
    BY <1>5, <2>2
  <2>4. (LayingOut => \A m, n \in DOMAIN slot : Interfere(m, n) => slot[m] # slot[n])'
    BY <1>5, <2>1, <2>2 DEF IInv, Coloring
  <2>5. (LayingOut /\ phase # "colour" => Nodes \subseteq DOMAIN slot)'
    BY <1>5, <2>1, <2>2 DEF IInv, Coloring
  <2> QED
    BY <2>3, <2>4, <2>5 DEF IInv, Coloring
<1>9. \A i, j : isSubType(i, j)' <=> isSubType(i, j)
  BY <1>1, <1>2 DEF isSubType, isSuper
<1> DEFINE Table(c) == [i \in {Slot(m) : m \in methods[c]} |->
                          {m \in methods[c] : Slot(m) = i}]
<1>10. \A c : Table(c)' = Table(c)
  BY <1>1 DEF Slot
<1>11. TablesLaidOut'
  <2>1. (LayingOut => rtti = {pair \in Bodies \X Bodies : isSubType(pair[1], pair[2])})'
    BY <1>1, <1>2, <1>5, <1>9 DEF IInv, TablesLaidOut
  <2>2. (phase \notin {"emit", "done"} => vtables = << >>)'
    BY <1>1 DEF IInv, TablesLaidOut
  <2>3. phase \in {"emit", "done"} => \A c \in DOMAIN vtables : c \in Bodies /\ vtables[c] = Table(c)
    BY DEF IInv, TablesLaidOut
  <2> HIDE DEF Table
  <2>4. (phase \in {"emit", "done"} =>
            \A c \in DOMAIN vtables : c \in Bodies /\ vtables[c] = Table(c))'
    BY <1>1, <1>2, <1>10, <2>3
  <2> USE DEF Table
  <2> QED
    BY <2>1, <2>2, <2>4 DEF TablesLaidOut
<1> QED
  BY <1>6, <1>7, <1>8, <1>11 DEF IInv

(* The inductive invariant holds of every program and every order of its   *)
(* supertypes and methods.                                                 *)
THEOREM Invariance == Spec => []IInv
<1>1. IInv /\ [Next]_vars => IInv'
  BY BuildIInv, NamesIInv, InheritIInv, WalkIInv, CheckConstructorsIInv, RttiIInv,
     ColourNextIInv, DeclareIInv, EmitIInv, StutterIInv DEF Next, Terminated
<1> QED
  BY InitIInv, <1>1, PTL DEF Spec

(* Every step of the compiler goes on, so a program never keeps it busy    *)
(* for ever: the walk meets a supertype again only to find it finished or  *)
(* to report a cycle.                                                      *)
THEOREM EachStepAdvances == Spec => ProgramAdvances
<1>1. IInv /\ [Next]_vars =>
        [ \/ Number(phase') > Number(phase)
          \/ phase' = phase /\ \/ at' > at
                                \/ Cardinality(visited') > Cardinality(visited)
                                \/ (visited' = visited /\ Work(stack') < Work(stack))
                                \/ Cardinality(DOMAIN slot') > Cardinality(DOMAIN slot) ]_vars
  BY StepAdvances
<1> QED
  BY Invariance, <1>1, PTL DEF Spec, ProgramAdvances

(* The linked units and the inheritance map stay as they were made, frames *)
(* and inherited methods are of the program, and slots are positive.       *)
THEOREM TypeCorrect == Spec => []TypeOK
BY Invariance, PTL DEF IInv

-----------------------------------------------------------------------------
(* What the walk and the tables are worth                                  *)

(* Once all is visited without a cycle met, there is none, and supertypes  *)
(* have a body.                                                            *)
LEMMA NoCycleAfterWalk ==
  ASSUME IInv, Walking, Walked, "cycle" \notin errors
  PROVE  /\ ~Cyclic /\ DOMAIN methods = Bodies
         /\ \A c \in Bodies : inheritance[c] \subseteq Bodies
<1>1. DOMAIN methods = Bodies
  <2>1. {stack[k].node : k \in DOMAIN stack} = {}
    BY DEF Walked
  <2> QED
    BY <2>1 DEF IInv, OnPath, Walked
<1>2. /\ \A c \in Bodies : inheritance[c] \subseteq Bodies
      /\ \A T \in SUBSET Bodies : T # {} => \E c \in T : inheritance[c] \cap T = {}
  BY <1>1 DEF IInv, CyclesFound
<1> QED
  BY <1>1, <1>2 DEF Cyclic

(* A cycle in the inheritance map is reported, and no cycle that is not    *)
(* there, in whatever order the walk takes units and supertypes.           *)
THEOREM CyclesAreFound == Spec => []CyclesAreReported
<1>1. IInv => CyclesAreReported
  <2> SUFFICES ASSUME IInv PROVE CyclesAreReported
    OBVIOUS
  <2>1. ASSUME phase = "methods" PROVE "cycle" \in errors => Cyclic
    BY <2>1 DEF IInv, CyclesFound, Walking
  <2>2. ASSUME phase = "methods", Walked, Cyclic PROVE "cycle" \in errors
    BY <2>2, NoCycleAfterWalk DEF Walking
  <2>3. ASSUME Checked PROVE ~Cyclic
    <3>1. Walking /\ Walked /\ errors = {}
      BY <2>3 DEF IInv, OnPath, Walking
    <3> QED
      BY <3>1, NoCycleAfterWalk
  <2> QED
    BY <2>1, <2>2, <2>3 DEF CyclesAreReported
<1> QED
  BY Invariance, <1>1, PTL

(* What is above a declaration: itself, and what is above its supertypes.  *)
LEMMA AboveSteps ==
  ASSUME NEW c \in Bodies
  PROVE  /\ c \in Above(c)
         /\ \A e \in inheritance[c] : Above(e) \subseteq Above(c)
<1>1. c \in Above(c)
  BY DEF Above
<1>2. ASSUME NEW e \in inheritance[c], NEW d \in Above(e) PROVE d \in Above(c)
  <2>1. d \in Bodies
    BY DEF Above
  <2>2. ASSUME NEW T \in SUBSET Bodies, c \in T, \A g \in T : inheritance[g] \subseteq T
        PROVE  d \in T
    <3>1. e \in T
      BY <2>2
    <3> QED
      BY <2>2, <3>1 DEF Above
  <2> QED
    BY <2>1, <2>2 DEF Above
<1> QED
  BY <1>1, <1>2

(* isSuper() is a function that satisfies its recursive equation: one such *)
(* is the least set of declarations that contains the supertype and, with  *)
(* a direct supertype it may go through, the declaration.                  *)
LEMMA IsSuperEquation ==
  ASSUME NEW super \in Bodies, \A c \in Bodies : inheritance[c] \subseteq Bodies
  PROVE  \A d \in Bodies :
            isSuper(super)[d] <=>
               \/ super = d
               \/ \E e \in inheritance[d] :
                     (IsClass(lu[super]) => IsClass(lu[e])) /\ isSuper(super)[e]
<1> DEFINE Through(e) == IsClass(lu[super]) => IsClass(lu[e])
           Step(S) == {d \in Bodies : super = d \/ \E e \in inheritance[d] : Through(e) /\ e \in S}
           U == {d \in Bodies : \A S \in SUBSET Bodies : Step(S) \subseteq S => d \in S}
           F(f) == [d \in Bodies |-> super = d \/ \E e \in inheritance[d] : Through(e) /\ f[e]]
           u == [d \in Bodies |-> d \in U]
<1>1. Step(U) = U
  <2>1. \A S, R \in SUBSET Bodies : S \subseteq R => Step(S) \subseteq Step(R)
    OBVIOUS
  <2>2. \A S \in SUBSET Bodies : Step(S) \in SUBSET Bodies
    OBVIOUS
  <2> HIDE DEF Step
  <2>3. Step(U) \subseteq U
    <3>1. \A S \in SUBSET Bodies : Step(S) \subseteq S => Step(U) \subseteq Step(S)
      BY <2>1
    <3> QED
      BY <2>2, <3>1
  <2>4. Step(Step(U)) \subseteq Step(U)
    BY <2>1, <2>2, <2>3
  <2> QED
    BY <2>2, <2>3, <2>4
<1> HIDE DEF U
<1>2. F(u) = u
  <2>1. \A d \in Bodies : (\E e \in inheritance[d] : Through(e) /\ u[e])
                             <=> \E e \in inheritance[d] : Through(e) /\ e \in U
    OBVIOUS
  <2>2. \A d \in Bodies : d \in U <=> (super = d \/ \E e \in inheritance[d] : Through(e) /\ e \in U)
    BY <1>1
  <2> QED
    BY <2>1, <2>2
<1>3. isSuper(super) = CHOOSE f : f = F(f)
  BY DEF isSuper
<1> HIDE DEF u
<1>4. isSuper(super) = F(isSuper(super))
  <2>1. \E f : f = F(f)
    BY <1>2
  <2> HIDE DEF F
  <2> QED
    BY <1>3, <2>1
<1> QED
  BY <1>4

(* An interface has only interfaces above it.                              *)
LEMMA AboveInterface ==
  ASSUME IInv, Walking, \A c \in Bodies : inheritance[c] \subseteq Bodies,
         NEW i \in Bodies, IsInterface(lu[i]), NEW j \in Above(i)
  PROVE  IsInterface(lu[j])
<1> DEFINE T == {c \in Bodies : IsInterface(lu[c])}
<1>1. inheritance = [c \in Bodies |-> DirectSupers(c)]
  BY DEF IInv, TypeOK
<1>2. \A c \in T : inheritance[c] \subseteq T
  BY <1>1, InterfaceAboveInterface
<1> QED
  BY <1>2 DEF Above

(* In a map without a cycle, isSubType() is being below.                   *)
LEMMA SubtypesAreAbove ==
  ASSUME IInv, Walking, ~Cyclic, \A c \in Bodies : inheritance[c] \subseteq Bodies,
         NEW i \in Bodies, NEW j \in Bodies
  PROVE  isSubType(i, j) <=> j \in Above(i)
<1> DEFINE up(d) == isSuper(j)[d]
<1>1. \A d \in Bodies :
         up(d) <=> \/ j = d
                   \/ \E e \in inheritance[d] : (IsClass(lu[j]) => IsClass(lu[e])) /\ up(e)
  BY IsSuperEquation
<1> HIDE DEF up
<1>2. \A d \in Bodies : d \in Above(d) /\ \A e \in inheritance[d] : Above(e) \subseteq Above(d)
  BY AboveSteps
<1>3. ASSUME NEW k \in Bodies, up(k) PROVE j \in Above(k)
  <2> DEFINE T == {d \in Bodies : up(d) /\ j \notin Above(d)}
  <2>1. ASSUME NEW d \in T PROVE inheritance[d] \cap T # {}
    <3>1. PICK e \in inheritance[d] : up(e)
      BY <1>1, <1>2
    <3>2. e \in T
      BY <1>2, <3>1
    <3> QED
      BY <3>2
  <2>2. T = {}
    <3>1. T \in SUBSET Bodies /\ \A d \in T : inheritance[d] \cap T # {}
      BY <2>1
    <3> HIDE DEF T
    <3> QED
      BY <3>1 DEF Cyclic
  <2> QED
    BY <1>3, <2>2
<1>4. \A c \in Bodies : IsClass(lu[c]) <=> ~IsInterface(lu[c])
  BY ClassOrInterface DEF IInv, TypeOK, Linked, Walking
<1>5. \A k \in Bodies : IsInterface(lu[k]) /\ j \in Above(k) => IsInterface(lu[j])
  BY AboveInterface
<1>6. ASSUME j \in Above(i) PROVE up(i)
  <2> DEFINE T == {d \in Bodies : ~up(d)}
  \* a declaration below j may go through each supertype below j: only an
  \* interface is above an interface
  <2>1. ASSUME NEW d \in T, NEW e \in inheritance[d] PROVE e \in T
    <3>1. e \in Bodies
      OBVIOUS
    <3>2. ASSUME up(e) PROVE FALSE
      <4>1. IsClass(lu[j]) => IsClass(lu[e])
        BY <1>3, <1>4, <1>5, <3>1, <3>2
      <4> QED
        BY <1>1, <3>2, <4>1
    <3> QED
      BY <3>1, <3>2
  <2>2. j \notin T
    BY <1>1
  <2>3. i \in T => j \in T
    <3>1. T \in SUBSET Bodies /\ \A e \in T : inheritance[e] \subseteq T
      BY <2>1
    <3> HIDE DEF T
    <3> QED
      BY <1>6, <3>1 DEF Above
  <2> QED
    BY <2>2, <2>3
<1>7. isSubType(i, j) <=> (IsInterface(lu[i]) => IsInterface(lu[j])) /\ up(i)
  BY DEF isSubType, up
<1> QED
  BY <1>3, <1>5, <1>6, <1>7

(* The RTTI table of an accepted program says of each declaration what is  *)
(* above it: a cast or an array store that asks the table is answered by   *)
(* the closure of the inheritance map, however it goes through interfaces. *)
THEOREM RttiAnswersSubtyping == Spec => []RttiIsSubtyping
<1>1. IInv => RttiIsSubtyping
  <2> SUFFICES ASSUME IInv, LayingOut
               PROVE  rtti = {pair \in Bodies \X Bodies : pair[2] \in Above(pair[1])}
    BY DEF RttiIsSubtyping, LayingOut
  <2>1. Walking /\ Checked /\ Walked /\ errors = {}
    BY DEF LayingOut, Walking, Checked, IInv, OnPath
  <2>2. rtti = {pair \in Bodies \X Bodies : isSubType(pair[1], pair[2])}
    BY DEF IInv, TablesLaidOut
  <2>3. \A i, j \in Bodies : isSubType(i, j) <=> j \in Above(i)
    BY <2>1, NoCycleAfterWalk, SubtypesAreAbove
  <2> QED
    BY <2>2, <2>3
<1> QED
  BY Invariance, <1>1, PTL

(* Two methods of one vtable never share a slot, and none takes that of    *)
(* the type id, whatever the order of the colouring.                       *)
THEOREM SlotsAreOwnAlways == Spec => []SlotsAreOwn
<1>1. IInv => SlotsAreOwn
  <2> SUFFICES ASSUME IInv, NEW c \in DOMAIN vtables
               PROVE  /\ UNION Range(vtables[c]) = methods[c]
                      /\ \A i \in DOMAIN vtables[c] : Cardinality(vtables[c][i]) = 1
                      /\ Cardinality(methods[c]) > 1 => 0 \notin DOMAIN vtables[c]
    BY DEF SlotsAreOwn
  <2>1. phase \in {"emit", "done"}
    BY DEF IInv, TablesLaidOut
  <2>2. /\ Walking /\ LayingOut /\ Walked /\ errors = {} /\ Nodes \subseteq DOMAIN slot
    BY <2>1 DEF LayingOut, Walking, Checked, IInv, OnPath, Coloring
  <2>3. c \in Bodies /\ vtables[c] = [i \in {Slot(m) : m \in methods[c]} |->
                                         {m \in methods[c] : Slot(m) = i}]
    BY <2>1 DEF IInv, TablesLaidOut
  <2>4. UNION Range(vtables[c]) = methods[c]
    BY <2>3 DEF Range
  <2>5. IsFiniteSet(methods[c])
    <3>1. methods[c] \subseteq AllMethods
      BY <2>2, <2>3, NoCycleAfterWalk DEF IInv, TypeOK
    <3>2. IsFiniteSet(AllMethods)
      BY <2>2, FinitelyMany DEF IInv, TypeOK, Linked, Walking
    <3> QED
      BY <3>1, <3>2, FS_Subset
  <2>6. Cardinality(methods[c]) \in Nat
    BY <2>5, FS_CardinalityType
  <2>7. ASSUME Cardinality(methods[c]) > 1
        PROVE  /\ \A m \in methods[c] : m \in DOMAIN slot /\ Slot(m) = slot[m] /\ slot[m] # 0
               /\ \A m, n \in methods[c] : Slot(m) = Slot(n) => m = n
    <3>1. methods[c] \subseteq DOMAIN slot
      BY <2>2, <2>3, <2>7 DEF Nodes
    <3>2. \A m \in methods[c] : Slot(m) = slot[m] /\ slot[m] # 0
      BY <3>1 DEF Slot, IInv, TypeOK
    <3>3. \A m, n \in methods[c] : m # n => slot[m] # slot[n]
      BY <2>2, <2>3, <3>1 DEF IInv, Coloring, Interfere
    <3> QED
      BY <3>1, <3>2, <3>3
  <2>8. ASSUME NEW m \in methods[c], NEW n \in methods[c], Slot(m) = Slot(n) PROVE m = n
    <3>1. CASE Cardinality(methods[c]) > 1
      BY <2>7, <2>8, <3>1
    <3>2. CASE Cardinality(methods[c]) <= 1
      <4>1. SUFFICES ASSUME m # n PROVE FALSE
        OBVIOUS
      <4>2. IsFiniteSet({m}) /\ Cardinality({m}) = 1
        BY FS_Singleton
      <4>3. Cardinality({m} \cup {n}) = 2
        BY <4>1, <4>2, FS_AddElement
      <4>4. Cardinality({m} \cup {n}) <= Cardinality(methods[c])
        BY <2>5, FS_Subset
      <4> QED
        BY <2>6, <3>2, <4>3, <4>4
    <3> QED
      BY <2>6, <3>1, <3>2
  <2>9. ASSUME NEW i \in DOMAIN vtables[c] PROVE Cardinality(vtables[c][i]) = 1
    <3>1. PICK m \in methods[c] : Slot(m) = i
      BY <2>3, <2>9
    <3>2. vtables[c][i] = {m}
      BY <2>3, <2>8, <3>1
    <3> QED
      BY <3>2, FS_Singleton
  <2>10. ASSUME Cardinality(methods[c]) > 1 PROVE 0 \notin DOMAIN vtables[c]
    BY <2>3, <2>7, <2>10
  <2> QED
    BY <2>4, <2>9, <2>10
<1> QED
  BY Invariance, <1>1, PTL
=============================================================================
