# A TLA+ model of the jCF compiler framework and its Joos compiler jcc1

jCF is a compiler framework in C++; jcc1 is the Joos 1W compiler built on it.
The program is sequential: one thread, no messages, no persistent state. What
is hard about it are long loops over shared mutable graphs (the passes, the
heaps, the IR, the inheritance graph) whose invariants hold only after many
steps, worklists whose order comes from hash tables of pointers, counters that
wrap, and results that are kept in memory other parts of the program recycle.

Every module translates code of the repository; `PROJECT.json` maps each
definition to the lines it stands for. The comment at the head of a module names
the class it models.

## Inventory

| Component | State | Operations | What makes it correct |
|---|---|---|---|
| Pass manager (`lib/utils/PassManager.cc`) | `state_`, `passes_`, `depGraph_`, per pass `state`, `enabled`, `topoIdx`, `dispatcher`; `heaps_` with owner, lifetime, reference count | `AddPass`, `AddDependency`, `Init`, `EnablePass`, `Run`, `NewHeap`, `GetPass`, `Reset` | topological order; cycles and only cycles rejected; a pass runs after its dependencies, on the same item; results live until their last reader ran; nothing is held for ever; `Init` and `Run` return |
| Dispatchers, `Generator` (`passes/IRPasses.cc`) | the current block or function | `Iterate`, `++`, `begin`, `end` | each item is shown once to every pass of a chunk |
| jcc1 driver (`tools/jcc1/main.cc`) | options | registers, enables and runs passes | calls the manager in a legal order |
| `BumpAllocator` | buffers, current buffer, top, bytes left | `do_allocate`, `reset`, `destroy` | allocations are disjoint and inside a buffer |
| Use-def graph (`include/utils/User.h`) | `uses_` of a node, `children_` of a user | `addChild`, `removeChild`, `replaceChild`, `replaceAllUsesWith`, `destroy` | the two sides agree, index by index |
| TIR (`lib/tir`) | functions, blocks, instruction lists | IRBuilder calls, `eraseFromParent`, `removeBlock`, `successors`, `reversePostOrder` | block structure, uses of erased values |
| Dominator tree (`passes/analysis/DominatorTree.cc`) | `poidx`, `doms`, `frontiers`, `domt` | the constructor | immediate dominators, dominance frontiers, termination |
| `MemToReg` | phi map, a stack of values per alloca, loads and stores to delete | phi placement, renaming, deletion | each load reads the store that reaches it; nothing deleted is used |
| `SimplifyCFG`, `GlobalDCE` | visited blocks | merge, dead instruction and block removal | behaviour kept, fixpoint reached |
| Code generation (`lib/codegen`) | insertion point, value map, vtable indices | statements, expressions, vtable colouring | behaviour of the source program; deferred loads; one terminator per block |
| `ConstantTypeResolver` (`lib/semantic`, `include/ast/ExprEvaluator.h`) | a stack of values | `Evaluate` over postfix lists | folded conditions have the value they would have at run time |
| `CFGBuilder`, `DataflowAnalysis` (`lib/semantic`) | CFG nodes, reachability, live variables, visited marks | build, two worklists, return search | the fixpoints; unreachable statements and missing returns found |
| `Semantic`, `ParseTreeVisitor` (`lib/semantic`, `lib/parsetree`) | the AST, the stack of scopes | one method per rule of the grammar | scopes, duplicate declarations, modifiers |
| `NameResolver` | the table of packages, per unit the names in scope | tables, imports, resolution of types | every type name stands for the one type in scope |
| `HierarchyChecker` | inheritance map, inherited methods and fields | cycle and override checks, `isSubType` | cycles found; members as in Java; queries end |
| `ExprResolver`, `ExprTypeResolver`, `ExprStaticChecker`, `AstValidator` | stacks of wrapped names and of types | name, overload, type and context rules | exactly the legal expressions are accepted, and their names and calls stand for what they do in Java |
| Parser, machine code backend, diagnostics, tools | | | not modelled, see below |

Components interact by calls. The pass manager runs every analysis and
transformation as a pass: a pass asks it for heaps and for the passes it
depends on. MemToReg reads the DominatorTree that the `dt` pass built on a
Managed heap, so what the manager promises about heaps decides whether the
tree is still there. The semantic passes share the AST: each writes into it what
the next one reads (scopes, resolved types, postfix lists, members), and a pass
after which there are errors is the last. The code generator writes TIR, which
the transformations change in place through its use-def graph.

No part of the program runs concurrently, so there is no interleaving of
threads in the models. Nondeterminism stands for what the code does not
determine: registration order, which passes are enabled and what they ask for,
errors reported by a pass, the order of hash tables, the input program's graph.

## Modules

| Module | Models | State and actions |
|---|---|---|
| `DependencyOrder` | abstract: what `PassManager::Init()` promises | dependencies, ranks, status; `Declare`, `Place`, `Accept`, `Reject` |
| `PassInit` | `PassManager::Init()`, `addDependency` | one variable per local of `Init()`; `phase` and `at` are the loop and its position. `AddDependency` and `DependenciesComputed` are step 1a, `Seed` 1b, `Pop`/`Relax`/`EndRelax` the worklist, `EndSort` the cycle test, sort and `validate()` |
| `PassInitProofs` | theorems about `PassInit` | |
| `PassRun` | `PassManager::Run()`, `runPassLifeCycle`, `findHeapFor`, `Reset`, dispatchers | `step` is the loop of `Run()`. `StartRun` propagates `enabled` and cuts chunks; `OpenChunk`, `NextItem`, `CloseChunk` are the generator loop; `SkipPass`, `BeginPass`, `NewHeap`, `GetPassThrows`, `FinishPass` one pass; `EndIteration` resets states |
| `PassRunProofs` | theorems about `PassRun` | |
| `PassManager` | the two composed, as `main()` uses them | `SortStep`, then `ExecStep` on the shared `pmState`, `pState`, `edges`, `topoIdx` |
| `PassManagerProofs` | theorems about `PassManager` | |
| `DominatorTree` | the constructor of `analysis::DominatorTree` and `reversePostOrder()` | `Number` (the numbering), `VisitBlock`/`VisitPred`/`Climb`/`Meet`/`SetIdom`/`EndTurn` (`computeDominators`, `intersect`), `VisitJoin`/`StartRunner`/`Run`/`EndJoin` (`computeFrontiers`), `LinkChildren` |
| `DominatorTreeProofs` | theorems about `DominatorTree` | |
| `MemToReg` | `HoistAlloca`, on the frontiers and the tree that `DominatorTree` promises | the constructor: `LookAt`/`PlacePhis` (`placePHINodes`), `BeginRenaming`, `Erase`; `replaceUses`, with a stack of `frames` for its calls: `RenameAlloca`, `RenameStore`, `RenameLoad`, `SkipInstr`, `FillPhis`, `Descend`, `Return`; `ReadEmptyStack` is the undefined behaviour of `back()`; `RunAgain` the next `mem2reg` of the pipeline |
| `MemToRegProofs` | theorems about `MemToReg` | |
| `PromotedFunction` | the function before and after `MemToReg`, executed along the same path | `PassStep`, then `RunBlock` |
| `PromotedFunctionProofs` | theorems about `PromotedFunction` | |
| `ExprEvaluator` | `ast::ExprEvaluator<T>`, of which the resolvers and the expression code generator are instances | an operator, parameterised by `MapValue` and `EvalOp`; the state of the derived class is handed on |
| `ConstantTypeResolver` | folding of conditions, with an `int` of `Width` bits | `MapValue`, `EvalOp` of the evaluator; a division that traps kills the compiler |
| `CFGBuilder` | the graph of a method body | the graph so far is handed on through `buildIteratively`; one operator per kind of statement |
| `DataflowAnalysis` | reachability, live variables, the search for missing returns | `phase` is the analysis of the current method; a round visits its nodes in any order (`ReachVisit`, `LiveVisit`), the next one starts when it is empty; `stack` is the recursion of the search |
| `MethodChecks` | `CFGBuilder` then `DataflowAnalysis` for each method of a unit, compared with the reference for flow, the statements Java calls reachable and complete, which is its first section | `BeginMethod`, `Step` |
| `LinkingUnit` | the AST down to declarations, and the checks `Semantic` makes while it is built | operators |
| `NameResolver`, `HierarchyChecker` | the passes of these names | the table, the imports and the resolution of a unit are one step each; the depth-first walk is a stack of frames that take the supertypes in any order |
| `JavaHierarchy` | reference: scopes, supertypes and members as sets and relations | operators |
| `LinkedProgram` | a program from its trees to the layout of its classes: RTTI, vtable colouring, class structs, mangled names | `phase` is the pass, `at` the unit it is at; `Walk` is the hierarchy walk, `Rtti`, `ColourNext` one method at a time in any order, `EmitClassDecl`, `EmitClass` |
| `LinkedProgramProofs` | theorems about `LinkedProgram` | |
| `ClassTables` | what the passes over expressions look up | operators over the tables of `LinkingUnit`, `NameResolver`, `HierarchyChecker` |
| `ParseTreeVisitor` | bodies to statements, scopes and postfix lists | operators that hand on the scope stack |
| `ExprResolver`, `ExprTypeResolver`, `ExprStaticChecker` | the classes of these names | `MapValue` and `EvalOp` of the evaluator |
| `JavaExpressions` | reference: legality, meaning and type of expressions on trees | operators; `but` is the set of departures that are allowed |
| `CheckedBodies` | a method or field through the passes over expressions, `AstValidator` included | `BuildMethod`/`BuildField`, `ResolveNames`, `ResolveTypes`, `CheckStatic`, `Validate` |
| `TIR` | values, uses, instructions, blocks, functions, IRBuilder | a function is a record; the operations of the code map functions to functions |
| `UseLists` | theorems about `TIR` | |
| `CodeGen` | `CGExpr.cc` and `CGStmt.cc`, code generation for a static method | the evaluator over `ValueWrapper`s; the state is the function under construction |
| `SimplifyCFG` | the transformation of that name | operators that return the function and whether it changed |
| `TIRMachine` | external: what a TIR function does when it is run | operators; undefined wherever the IR's comments leave the meaning open |
| `JavaBodies` | reference: what the method does in Java | operators, parameterised by the departures of the code generator |
| `CompiledFunction` | a method through code generation and `simplifycfg`, run at every stage | `EmitFunction`, `Simplify` (one round), `EraseBlock`, `End` |
| `MC...` | instances for TLC | |

Abstractions. A pass body is its effect on the manager: which heaps it asks
for, which passes it gets, whether it reports an error. The contents of a heap
is the identity of the owner that was last given it (`got` records what a pass
got and `ResultsIntact` compares). A basic block is its successors and, in `MemToReg`, the
instructions that use an alloca or a value loaded from one; every other
instruction is a `use`. The order of `users()` and of the children of the tree,
which comes from hash tables of pointers, is left open. Items of a
dispatcher are counted, not named. Types, classes and members are known by
name. An expression is the list in reverse Polish notation that the code keeps,
without source locations. Integers of the IR are 1 to 5 bits wide instead of 1 to
64 and a byte has two bits: what the widths must keep is their order, so that every
conversion loses, extends or keeps bits as it does in the code. A definition whose comment begins with
`Mutant:` is a deliberately wrong variant of the definition after it; no
specification uses it, it documents which mistake each property detects.

The four references (the first section of `MethodChecks`, and `JavaHierarchy`,
`JavaExpressions`, `JavaBodies`) are written from the Java Language Specification and share
with what they are compared with only the syntax, the tables of the
program and the widths of integers. Where the compiler differs from the language, the
difference is given a name and its conditions in the module that compares, and
every name is needed: without any one of them the run fails. They are listed below.

`reversePostOrder()` is, despite its name, a breadth-first search, in which a
join may come before all but one of its predecessors. `DominatorTree` models
the search and the iteration as they are.

## Runs

| Run | Shows | Bounds |
|---|---|---|
| `pass_init` | `Init()` ends, gives each pass its index after its dependencies, makes the indices a permutation, rejects only cyclic graphs, and implements `DependencyOrder` | 4 passes, up to 4 `addDependency` calls, with duplicates, self-loops and cycles of up to four passes |
| `pass_run` | one `Run()`: no pass is refused, dependencies first, chunks cover the enabled passes, results intact when read, nothing leaks, `Run()` returns | 4 passes over every graph, every assignment of 2 dispatchers, every enabled set; 3 items, so that first, middle and last iteration differ; 1 heap request per run of a pass; 4 heaps |
| `pass_manager` | `Init()` and up to two `Run()`s with `Reset()`: the passes of each run have their dependencies first | 3 passes, 3 edges, 2 items, Managed and Temporary heaps, pass 2 preserved |
| `dominators` | the constructor returns with the immediate dominators and dominance frontiers, and never loses a dominator on the way | every graph of 5 blocks and up to 6 edges up to renaming, irreducible ones and self-loops included; predecessors in every order |
| `mem2reg` | the pass returns SSA form that behaves like the function it was given on every path; phi nodes are on the iterated frontiers and complete; each value that is used is defined before it in its block or in a dominating one, the operand of a phi node at the end of the predecessor | 4 blocks, up to 5 edges up to renaming; 2 variables; per block an assignment, a read, an exchange of the variables or an inner scope; 2 runs; paths of 5 blocks |
| `method_checks` | the dataflow checks accept legal methods and no others, up to the named shapes; live variables are the least fixpoint; every round and search ends | a thousand bodies: each kind of statement with each kind of body and condition, alone, with a statement behind, in loops and in branches, assignments in loops; units of one and two methods; `int` of 3 bits; every order of the nodes |
| `linked_program` | the declaration checks accept legal programs and no others, up to two departures; tables, members, RTTI, vtables and structs are those of Java; exactly the cycles that are there are reported; every step makes progress | six thousand programs of up to three units and the library: names and imports, every hierarchy of three declarations from a choice of shapes, cyclic ones included, overriding through a class and an interface, every set of six modifiers, fields and overloads in both orders of the units; every order of the unordered containers |
| `checked_bodies` | the passes over expressions accept legal bodies and no others, up to the named departures, and give names, calls and types their meaning in Java | three thousand bodies and initializers in a program of 15 classes and interfaces in three packages: every operator on every pair of kinds of operand, conversions, chains of names, calls, creations, scopes; both orders of the supertypes |
| `middle_end` | emitted and simplified code does what Java says, up to eight departures, on every input; the compiler fails on the methods described and no others; use lists are exact | five hundred methods: every operator on operands of every width and evaluation order, short circuits, calls, arrays, pairs of statements, loops in loops; up to three values for each variable that is mentioned; a Java run is cut after 20 iterations and a run of the code after 80 blocks, which is more than 20 iterations take |
| `mem2reg_twice` | violation: a second `mem2reg` reads an empty stack | as `mem2reg` |
| `every_enabled_pass_runs` | violation: the last pass of a chunk is never run | 3 passes |
| `heap_outlives_dependents` | violation: a pass is garbage collected before its dependent ran | 4 passes |

Why the bounds suffice to be interesting: with 4 passes two chunks of two
passes exist, so edges inside and across chunks occur together; a later heap
request finds both a free heap and one that is still held. Five blocks with six
edges include an irreducible loop entered at two blocks, and graphs on which one
turn of `while(changed)` does not suffice even though they have no loop, because
of the breadth-first numbering (mutant `EndTurnOnce`). Four blocks with five edges
include loops, nested joins, and a join inside a loop, so that a phi node makes
another one necessary; paths of five blocks go round a loop; exchanged variables
make phi nodes of one block operands of each other. What is beyond the bounds is covered
by the proofs, where there are any.

In `pass_manager`, `Run()` is never entered with no pass enabled: the code would
read past the end of `passes_`, and the driver always enables one.

`CHECK_DEADLOCK FALSE` is set where a run ends in a state without successor: `Init()`
returns or throws, `Run()` returns for good after `MaxRuns` calls or throws, the
constructor returns, the methods of the last unit are checked. `linked_program`, `checked_bodies` and
`middle_end` are checked for deadlock: they stutter only at the end, so a pass that could not go on would be one.

### The three disagreements with the documentation

* `docs/pass-architecture.rst:14`: "it will execute all enabled passes". `Run()`
  stores a chunk as `[left, right]` and iterates up to `right` exclusively
  (`PassManager.cc:333,345-367`). Disabled passes that follow belong to the
  chunk, so the pass that is left out is an enabled one exactly when a pass with
  another dispatcher, or none, follows it directly.
* `docs/pass-architecture.rst:23`: "The lifetime of a pass's heap is the
  lifetime of the last pass to directly depend on it". A heap that a pass held for
  an earlier item keeps naming it as its owner, and counting it down to zero
  calls the owner's `GC()` (`PassManager.cc:170-198`).
* `tools/jcc1/main.cc:88`: "Optimization passes are run in-order and may be
  specified more than once." A second `mem2reg` looks the phi nodes of the first
  one up in its own, empty `phiAllocaMap` (`MemToReg.cc:142,166`) and reads
  `back()` of an empty vector.

### Where the compiler differs from Java

Found by the comparisons, and allowed by name in the modules that make them.
They are not findings against a document of the repository, but each is a place
where a legal program is refused or miscompiled, or an illegal one accepted.

Statements (`MethodChecks.TakenForAnother`):

* a non-void method that ends in a loop needs no return; a loop after a return is
  not unreachable (the loop keeps itself reachable);
* an `if` with `else` one branch of which is empty loses the path through it;
* `for(;;)` and `for(;true;)` are taken to end; an endless loop that ends the body
  of a loop, or an update behind a body that returns, is reported as unreachable;
* unary minus of something unknown, assignments and casts are folded to values
  they do not have: `-x` of a variable is 0, `-f()` of a call is 1, so `while(-f() == 1)` is taken to be endless. A division
  by zero in a condition kills the compiler, and so does that of the least `int` by -1, which is a constant in Java.

Declarations (`LinkedProgram.AcceptedProgramIsLegal`, `LegalProgramIsAccepted`):

* an inherited static method counts as implementing an inherited abstract one;
* native methods may have reference types. Two native overloads share one
  function name, and a native method without result kills the compiler (`Semantic.cc:274`);
* an interface that extends a class is reported through a null pointer
  (`HierarchyChecker.cc:215`);
* a class below one with instance fields fails an assertion (`CGClass.cc:71`), or
  has another layout than its superclass if it comes first;
* an overriding method gets a vtable slot unrelated to that of the method it
  overrides: `LayoutSound` states what does hold of slots.

Expressions (`CheckedBodies.Lenient`, `Strict`):

* applicability of arguments is tested in the wrong direction: widening to a
  parameter is refused, narrowing accepted;
* an interface value is assignable to any class, casts between final classes and
  interfaces are accepted, `A[]` is accepted as a value;
* static forward references are not found; protected members are accessible
  through any class below, and refused through a variable whose class is in another
  package; a protected constructor of the same arity in another package throws even
  if another constructor applies;
* a method inherited along two interface paths is ambiguous; an instance method
  called by its simple name in an initializer kills the compiler, and an
  inherited field there is refused; arrays and string literals cannot be compared;
* a void operand, `^`, a cast of an array to a primitive type, a member access on
  a type and a call on a package kill the compiler.

Code (`JavaBodies.Departures`, `CompiledFunction.Unsupported`):

* a variable is read when the operator needs it, not where it is named
  (`x + (x = 1)`);
* both operands of `&&` and `||` are always evaluated: `mapValue` and the operand
  have emitted the right side before the block it belongs to is made
  (`CGExpr.cc:299-348`);
* arguments are passed in reverse order; `instanceof` is always false; an index of
  type `byte` or `short` is widened without sign; the checks of `a[i] = e` are made before `e` is
  evaluated; casts between `char` and `short` do nothing; `char` is compared with a sign;
* code without meaning is emitted for implicit widenings, missing checks of null,
  zero and negative sizes, and boolean arrays, which have no room: there a run is
  undefined and nothing is compared;
* the compiler fails on minus of a narrow operand, `&` and `|` of booleans, `+`
  of strings, casts to references, calls of abstract methods, and on unreachable code
  of several blocks, whose newest block is erased while another still branches to it.

## Fairness

`Init()`, `Run()` and the constructor of `DominatorTree` are sequential code
that executes statement after statement until it returns, so weak fairness of
their steps is what the language guarantees. It assumes that the virtual methods
they call (`ComputeDependencies`, `Pass::Run`) return. So it is for `mem2reg`. `PassRun` assumes fairness
of the steps inside `Run()` only: nothing obliges the driver to enable a pass, to
call `Run()` or `Reset()`. `InitTerminates`, `RunReturns`, `ConstructorReturns`
and `PassReturns` are checked under it.

`CheckReturns` assumes weak fairness of `Step`, which is every statement of
`DataflowAnalysis` after a method is begun, whatever order the sets give the nodes.
That `LinkedProgram` ends needs no fairness: `ProgramAdvances` says that every step
decreases a measure. `CheckedBodies` and `CompiledFunction` go through their
phases once; `CompiledFunction` repeats `Simplify` until nothing changes, and that the run
explores finitely many states without a deadlock before `Ended` shows that it stops.

## Proofs

The theorems hold for every value of the constants that the named assumptions
allow. Each inductive invariant was checked with TLC, on the instance of the module's run, before it was proved.
The exception is that of `PromotedFunctionProofs`: its parts that say that a function `held` exists
range over too many functions for TLC, so only the others were checked, on three blocks.

The provers cannot instantiate the induction theorems of the library. Where a
proof needs induction (along a chain of `doms`, over the rounds of a loop that is a recursive
function, over the phi nodes that follow from each other, along the instructions of a block) the module proves and uses
`LeastNat`, that a set of naturals which is not empty has a least element, or `AllNat`, that a set which
holds 0 and successors holds all. That
the function a recursive definition chooses exists is proved the same way.

### `PassInitProofs`

Assumptions: `NPass` is a positive and `MaxEdges` a natural number. `IInv` says
what the two counters of Kahn's algorithm mean: `passDeps` of a pass is the
number of its declared edges that have not been relaxed (`CountsRemaining`), and
`S` holds exactly the unsorted passes for which it is zero (`QueueIsReady`).
`TopologicalOrder` and `CycleIsReal` are not inductive without it: that a popped
pass has only sorted dependencies follows from a count of zero, and that the
unsorted passes form a cycle from each having a positive count. From
`Spec => []IInv` follow `TypeCorrect` (the unsigned `passDeps` never wraps),
`OrderIsTopological`, `SortIsPermutation` (a counting argument), `RejectsOnlyCycles`,
and `Implementation`, that `PassInit` implements `DependencyOrder`.

### `PassRunProofs`

Assumptions: `ConstantsAssumption` gives the constants their types;
`GraphsAssumption` says that `Graphs` holds graphs whose declarations agree with an order,
which is what `Init()` leaves (`PassManagerProofs` proves it). Nothing is assumed of which passes
are enabled, of dispatchers, of heap requests, or of the number of runs.

First come two facts about `StartRun`. The rounds of `computeDependencies()` close the
enabled passes under the dependencies, because each round that is not the last
adds a pass. The loop after it cuts the sorted passes into consecutive chunks that hold every
enabled pass and change where the dispatcher does (`Cut`).

`IInv` has a part for each question: where the run is (`InLoop`), which passes
are Valid or Running there (`StatesFollow`), that a pass which is disabled or last in its chunk has
not run (`OnlyTheseRan`), and what the reference counts of the heaps mean. A count is not the
number of readers that are left: `runPassLifeCycle()` adds the readers it can see when the owner has
run and subtracts one for each reader that has run, never below zero; readers in other
chunks are seen in the last iteration only, and each chunk goes over all its items. `Due(d)` is the set of references to
heaps of `d` that calls to come will give back. A heap in use has at least so many
(`HeapsHeld`), and one whose readers all run at most so many (`HeapsReleased`). From the first
follows `ResultsStayIntact`, that what a pass reads was not recycled; from the second
`NothingLeaks`, that no such heap is held when `Run()` returns. The other theorems are
`TypeCorrect`, `NeverRefusedAlways`, `DependenciesComeFirst` and `ChunksCover`.

The documents' statements that the violation runs refute are not among them: the heap of
a pass that is last in its chunk, or whose readers are, is what `NoLeak` excepts.

### `PassManagerProofs`

Assumptions: those of `PassInit` and the types of the other constants. The steps of `PassManager`
are those of `PassInit` and then those of `PassRun`, so its invariant is `IInv` of
the one while it sorts and of the other afterwards. The step between them is the theorem: what
`PassInit` has when `Init()` returns is the order that `PassRun` assumes of `Graphs`.
`SortedRunsAreOrdered` says that every run, the second after `Reset()` included, has its
dependencies first.

### `DominatorTreeProofs`

Assumptions (`CFGAssumption`): no block branches to the entry block and every
block can be reached from it, which is what code generation and `simplifycfg`
leave. The textbook argument relies on reverse post order, which the code does
not have. The proof needs less: each block comes after one of its predecessors,
and so after all its dominators (`Numbered`). Then

* `DomsTree`: edges of `doms` go to lower numbers, and each strict dominator of
  a block dominates its `doms`. A step of `intersect()` keeps this because a
  block's dominators have no higher numbers, so the finger that climbs is on
  none of the common dominators (`ClimbingKeepsDominators`);
* `Candidate`: both fingers keep all strict dominators of the block, and each
  predecessor seen has one of them on its chain;
* `Stable`: while `changed` is unset, `doms` of the blocks already visited is on
  the chain of each of their predecessors.

When a turn ends without change, `Stable` holds for all blocks. The blocks whose
chain avoids `doms[b]` are then closed under the edges that avoid `doms[b]`, so
they are all that can be reached without it: `doms[b]` dominates `b`
(`SolvedIdoms`). `IdomsAreCorrect` follows, and with it that a runner of
`computeFrontiers()` meets the dominator of the join (`FrontiersComplete`), which
gives `FrontiersAreCorrect`.

`NoDominatorIsLost` says of every step, also before the iteration is done, that what
dominates a block stays on its chain of `doms`. It needs `DomsTree` for each block of the chain, by induction
on the numbers, which decrease along it.

Dominance is defined without paths, by the closed
sets that avoid a block, because induction over paths is out of the prover's
reach.

### `MemToRegProofs`

Assumptions: `FunctionsAssumption` says what code generation and `simplifycfg` hand to
the pass. The allocas are the first instructions of the entry block, nothing branches
to the entry block, every block can be reached from it, and every value is defined before it is
used. The frontiers and the tree are, in the model, what `FrontiersAreCorrect` and
`IdomsAreCorrect` prove of the ones the constructor computes.

`IInv` follows the three stages of the pass:

* `PhisPlaced`: an alloca that was processed has its phi nodes exactly where they follow from its
  stores; the current one has them in the frontiers of the blocks that have left
  the worklist, and only in blocks that follow from stores;
* `Walk` and `PhisFilled`: the calls of `replaceUses()` are a path of the dominator
  tree; a block whose end has not been visited is the last of the path or lies below a child
  that a call on the path has yet to visit (`Pending`); the phi nodes lack the operands of such
  predecessors only;
* `StacksAvailable` and `LoadsReplaced`: the stacks are shared by all calls, and a call
  pops what it has pushed only when it returns. For each call there is a height of each stack
  such that the values up to it are defined on every path to the place the
  call has reached. A value that is available in a block is available in the blocks
  it dominates, so a call inherits its caller's height; when it returns, the height of the caller
  is untouched. An operand is never a load that was replaced.

That every stack has a value where a load or a successor reads it (`FirstRun`) comes from the
entry block, which pushes a value for each alloca before anything else. It holds for the
first run on a function only, and `FirstRunIsDefined` says so: the undefined
`back()` of an empty vector is not reached. `mem2reg_twice` shows that the condition
is needed.

The theorems are `TypeCorrect`; `PhisAreOnFrontier` and `PhisAreComplete`, that phi nodes are on
the iterated frontiers of the stores, and all of them when the renaming begins, although
the worklist of a set of pointers has any order; and `ResultIsInSSA`, that the function
which is returned is in SSA form. The last does not follow from dominance frontiers
being a known construction: the code deletes the loads after the whole walk, so a replaced load could still be
an operand or lie on a stack, and one set of stacks serves every branch of the tree.

### `PromotedFunctionProofs`

Assumptions: `FunctionsAssumption`, as above. The number of blocks a path may go through (`MaxSteps`), of
runs of the pass, of blocks and of variables is arbitrary. `PInv` adds to the
`IInv` of the pass what relates the function that is returned to the one that was given:

* `FirstPass`: while the first run lasts, there is a function `held` that says which value, in terms of
  the new function, each promoted alloca holds before each instruction. It follows the stores
  within a block, begins with the phi node where a block has one, and elsewhere with what
  the parent in the dominator tree holds at its end (`Renaming`). The walk determines it an instruction
  or a block at a time: `held` is what was reached so far, each load that was passed is replaced by it, each
  operand of a phi node that was filled is it, and the stacks have it on top for each call
  (`Tops`). Loads are only erased after the walk, so instructions still name loads that were replaced,
  and the erasing must leave exactly the others (`Shortened`);
* when the walk is over, a block without phi node begins with what each of its predecessors holds
  at its end, not only its parent (`EdgeHeld`, `AllFlows`). This is where dominance frontiers
  matter: between the parent and a predecessor there is neither a store nor a phi node, or the block
  would be on the iterated frontier. So `held` is a simulation of the one function by the other (`Simulates`);
* `InStep`: the machines that run the two functions have done the same. Memory and `held` agree for
  each promoted alloca, the memory of the others is equal, and so are the values that are defined on every path
  to where the machines are (`Agree`). The phi nodes of a block are read all at once, and it is
  dominance that makes the values they are read from available (`EnterAgrees`);
* `LaterPass`: a later run finds no store or load of an alloca it may promote, since the first has erased
  them all (`Cleared`). It fills phi nodes all the same. The allocas of these are not in its own
  `phiAllocaMap`, so the key is null, and the stack of that key holds only what the phi nodes it
  has gone through have pushed. A phi node can be filled only where a phi node dominates the predecessor (`Covered`), and some
  phi node has a predecessor for which that is not so. A run that returns thus found no
  phi node, and leaves the code as it was.

`PromotionPreservesBehaviour` is `BehaviourPreserved` for every function the assumption allows, after each run that returns.
A run that ends in the undefined `back()` returns no function and there is nothing to compare; `FirstRunIsDefined`
says that the first run does not. `OnlyPhiFreeRunsAgain` says that a second one
returns only where the first left no phi node.

### `LinkedProgramProofs`

Assumption: `ProgramsAssumption`, that the programs are sequences of compilation units. It says what
the trees can be (`LinkingUnit`) and nothing of whether the program is legal. Which
supertypes there are, in which order the walk takes them and in which order the methods are coloured is open.

`IInv` has these parts:

* `TypeOK`: once the units are linked they stay as they are, and the inheritance map is what
  `checkInheritance()` made of them;
* `OnPath`: what `visited` holds is what is finished and what is on the stack, and the stack is
  a path up the inheritance map without repetition. Between passes there is none;
* `CyclesFound`: as long as no cycle was reported, the supertypes of what is finished, and the
  supertypes a frame has done with, are finished, and no set of finished declarations is a cycle.
  A declaration that finishes cannot close one, because those below it that are finished would
  have finished before it. And when the walk meets a supertype that is visited and not finished, it is on
  the stack, and the path from there is a cycle (`PathCloses`);
* `Coloring` and `TablesLaidOut`: the slots given so far are a proper colouring, and the tables
  are what they were made from. A method finds a free slot because the slots of its
  neighbours are finitely many (`FreeSlot`).

`CyclesAreFound` and `EachStepAdvances` follow, the latter with the number of tasks of the frames for the
measure, which is finite because the supertypes of a declaration are (`FiniteTasks`). `RttiAnswersSubtyping` says that
`isSubType()` is the closure of the inheritance map. `isSuperClass()` and `isSuperInterface()` are
one recursive function in the model. It exists because the least solution of its equation does
(`IsSuperEquation`), and it has one value only because the map of an accepted program has no
cycle, which is what `CyclesAreFound` gives. That a query for a class only goes through classes loses nothing:
what is above an interface is an interface. `SlotsAreOwnAlways` says that the methods of a vtable never share
a slot. The exception is a class with a single method, which is no node of the graph and so gets the index 0
of a missing key, the slot of the type id; that every class also has the methods of `Object` is
a fact about programs with a `java.lang.Object`, which `LayoutSound` checks.

### `UseLists`

No assumptions: operands, operators and the value map are arbitrary constants.
`Exact(F, live)` says that the uses recorded in `F` are those of the operands of
the instructions `live`, each with its user and index. Each operation keeps it:
`CreateKeepsUses` and `InsertKeepsUses`, `DestroyKeepsUses` and
`EraseKeepsUses` (a use names its user, so the uses of two instructions with equal
operands are different), and `ReplaceKeepsUses`. The last one needs it, because `replaceAllUsesWith()`
looks at the use list only: an operand that is not in it would stay
(`ReplacedOperands`). `UsesStayExact` puts them together for any sequence of
operations. `UsesExact` of `CompiledFunction` is this property for the functions
the compiler makes, with what is in the blocks for `live`; its modules are recursive
and so out of reach.

### Only model-checked

* `InitTerminates`, `RunReturns`, `ConstructorReturns`, `PassReturns`,
  `CheckReturns`: liveness, which TLAPS does not prove.
* `AcceptedFlowIsLegal`, `LegalFlowIsAccepted`, `AcceptedProgramIsLegal`, `LegalProgramIsAccepted`,
  `AcceptedBodyIsLegal`, `LegalBodyIsAccepted`, `ResolvedAsJava`, `CompiledAsJava` and `LiveMeansUsed`: they compare
  with operators that recurse over statements and expressions. `UsesExact` is
  about functions that such operators make; the theorems of `UseLists` are about each operation.
* `TablesAreJava` and `LayoutSound`, which compare the tables with Java: the symbol table and the
  supertypes of Java are folds over the units and their imports, and what a fold computes needs induction over data. The parts of `LayoutSound` that are about the compiler's own inheritance
  map are proved: `RttiIsSubtyping` and `SlotsAreOwn`. Struct indices and mangled names are only checked.

## Not modelled

The lexer and parser are generated; of the AST builder, the decoding of
literals and names is left out. `print()` functions, diagnostics, `DotPrinter`, option
parsing and file handling are output and I/O. The machine code backend (`passes/mc`, `lib/mc`,
`lib/target`) is experimental: the driver's call of it is commented out
(`main.cc:295`). The coroutine machinery of `Generator` is modelled by
when it is resumed and compared with its end.

`BumpAllocator` is about bytes; the heaps that are built on it are in `PassRun`.
`GlobalDCE` removes functions nothing uses from the unit; `CompiledFunction` has
one function at a time. Instance methods, field accesses and virtual calls are
compiled to a failed assertion or not at all, so there is no behaviour to compare.
`removeChild()` and the constructor of `PhiNode` with operands have no caller in
the middle end.

Of the hazards without a property, two are where compiled code does go wrong (late loads, both operands of `&&` and `||`):
the comparison allows for them by name. A property about the others would restate one
assignment (`lastRun_` is never set), hold by the shape of the model, or be about what is not modelled.

## Plan

1. Done: pass manager (sort, run, heaps, composition), dominator tree, with the
   proofs above.
2. Done: `MemToReg` with the execution of the function before and after it, and the
   theorems about both. Left: phi nodes as instructions of `TIR`.
3. Done: `CFGBuilder` and `DataflowAnalysis` against the reference for flow.
4. Done: `LinkedProgram`, declarations to layout; `CheckedBodies`, expressions.
5. Done: code generation and `simplifycfg`, with the theorems about use lists. Left: `mem2reg` behind them
   in one composition.
6. Left: `GlobalDCE` over a unit of several functions; `BumpAllocator`.
7. Done: theorems about `PassRun` and `PassManager`.
8. Done: theorems about `LinkedProgram`: cycles, the measure, RTTI and vtable slots. Left:
   the struct indices of `LayoutSound` for programs without inherited fields, and that the members
   the walk collects are those of Java (`Members`).
