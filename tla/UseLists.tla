------------------------------ MODULE UseLists ------------------------------
(***************************************************************************)
(* Theorems about the use-def graph of TIR (include/utils/User.h): every   *)
(* operation that the code generator and simplifycfg change a function by  *)
(* keeps the use lists exact, whatever the function looks like. Between    *)
(* the rounds of simplifycfg CompiledFunction checks the same of the       *)
(* functions it compiles.                                                  *)
(***************************************************************************)
EXTENDS TIR, TLAPS

CONSTANTS
  Value,   \* whatever can be an operand
  What,    \* operators, predicates, allocated types
  Slots    \* value maps of the code generator

Instruction == [op : STRING, ty : STRING, what : What, kids : Seq(Value)]

Function ==
    [instrs : Seq(Instruction), blocks : Seq(Seq(Nat)), body : Seq(Nat),
     uses : SUBSET (Value \X Nat \X Nat), at : [bb : Nat, instr : Nat],
     slots : Slots, dead : BOOLEAN]

\* live are the instructions that are neither erased nor yet to be created.
Exact(F, live) ==
    /\ live \subseteq DOMAIN F.instrs
    /\ F.uses = UNION {UsesOf(i, F.instrs[i].kids) : i \in live}

-----------------------------------------------------------------------------
(* A use names its user and the index of the operand in it.                *)
LEMMA UseNamesUser ==
  ASSUME NEW i, NEW kids, NEW u \in UsesOf(i, kids)
  PROVE  /\ u = <<u[1], u[2], u[3]>>
         /\ u[2] = i
         /\ u[3] \in DOMAIN kids
         /\ u[1] = kids[u[3]]
BY DEF UsesOf

(* In an exact function, a use is one of an operand of a live instruction. *)
LEMMA ExactUse ==
  ASSUME NEW F, NEW live, Exact(F, live)
  PROVE  \A u : u \in F.uses <=>
           \E i \in live : \E k \in DOMAIN F.instrs[i].kids :
             u = <<F.instrs[i].kids[k], i, k>>
BY DEF Exact, UsesOf

-----------------------------------------------------------------------------
(* A new instruction adds the uses of its operands and disturbs no other   *)
(* (GraphNodeUser::addChild in the constructors of the instructions).      *)
THEOREM CreateKeepsUses ==
  ASSUME NEW F \in Function, NEW live, Exact(F, live), NEW i \in Instruction
  PROVE  Exact(Create(F, i), live \cup {Len(F.instrs) + 1})
<1> DEFINE new == Len(F.instrs) + 1
           G == Create(F, i)
<1>1. F.instrs \in Seq(Instruction) /\ Len(F.instrs) \in Nat
  BY DEF Function
<1>2. DOMAIN F.instrs = 1..Len(F.instrs) /\ live \subseteq 1..Len(F.instrs)
  BY <1>1 DEF Exact
<1>3. /\ G.instrs = Append(F.instrs, i)
      /\ G.uses = F.uses \cup UsesOf(new, i.kids)
  BY DEF Create, Function
<1>4. /\ DOMAIN G.instrs = 1..new
      /\ G.instrs[new] = i
      /\ \A j \in live : G.instrs[j] = F.instrs[j]
  BY <1>1, <1>2, <1>3
<1>5. live \cup {new} \subseteq DOMAIN G.instrs
  BY <1>1, <1>2, <1>4
<1>6. UNION {UsesOf(j, G.instrs[j].kids) : j \in live \cup {new}}
        = (UNION {UsesOf(j, F.instrs[j].kids) : j \in live}) \cup UsesOf(new, i.kids)
  BY <1>4
<1> HIDE DEF G, new
<1> QED
  BY <1>3, <1>5, <1>6 DEF Exact, G, new

(* An instruction that is erased takes the uses of its operands along and  *)
(* no use of another instruction, even one with the same operands          *)
(* (GraphNodeUser::destroy).                                               *)
THEOREM DestroyKeepsUses ==
  ASSUME NEW F \in Function, NEW live, Exact(F, live), NEW i \in live
  PROVE  Exact(destroy(F, i), live \ {i})
<1> DEFINE G == destroy(F, i)
<1>1. G.instrs = F.instrs /\ G.uses = F.uses \ UsesOf(i, F.instrs[i].kids)
  BY DEF destroy, Function
<1>2. \A j \in live \ {i} :
        UsesOf(j, F.instrs[j].kids) \cap UsesOf(i, F.instrs[i].kids) = {}
  BY UseNamesUser
<1>3. (UNION {UsesOf(j, F.instrs[j].kids) : j \in live}) \ UsesOf(i, F.instrs[i].kids)
        = UNION {UsesOf(j, F.instrs[j].kids) : j \in live \ {i}}
  BY <1>2
<1> HIDE DEF G
<1> QED
  BY <1>1, <1>3 DEF Exact, G

-----------------------------------------------------------------------------
(* replaceAllUsesWith() goes through the use list of the old value only.   *)
(* It finds every operand because the list is exact.                       *)
LEMMA ReplacedOperands ==
  ASSUME NEW F \in Function, NEW live, Exact(F, live), NEW old, NEW new \in Value
  PROVE  LET G == replaceAllUsesWith(F, old, new)
         IN /\ DOMAIN G.instrs = DOMAIN F.instrs
            /\ \A i \in live :
                 /\ DOMAIN G.instrs[i].kids = DOMAIN F.instrs[i].kids
                 /\ \A k \in DOMAIN F.instrs[i].kids :
                      G.instrs[i].kids[k] = IF F.instrs[i].kids[k] = old THEN new
                                            ELSE F.instrs[i].kids[k]
<1> DEFINE Replaced(kids) == [k \in DOMAIN kids |-> IF kids[k] = old THEN new ELSE kids[k]]
           G == replaceAllUsesWith(F, old, new)
<1>1. G.instrs = [i \in DOMAIN F.instrs |->
                    IF i \in Users(F, old)
                    THEN [F.instrs[i] EXCEPT !.kids = Replaced(F.instrs[i].kids)]
                    ELSE F.instrs[i]]
  BY DEF replaceAllUsesWith, Function
<1>2. DOMAIN G.instrs = DOMAIN F.instrs
  BY <1>1
<1>3. ASSUME NEW i \in live
      PROVE  /\ DOMAIN G.instrs[i].kids = DOMAIN F.instrs[i].kids
             /\ \A k \in DOMAIN F.instrs[i].kids :
                  G.instrs[i].kids[k] = IF F.instrs[i].kids[k] = old THEN new
                                        ELSE F.instrs[i].kids[k]
  <2>1. i \in DOMAIN F.instrs /\ F.instrs[i] \in Instruction
    BY DEF Exact, Function
  <2>2. CASE i \in Users(F, old)
    <3>1. G.instrs[i].kids = Replaced(F.instrs[i].kids)
      BY <1>1, <2>1, <2>2 DEF Instruction
    <3> QED
      BY <3>1
  <2>3. CASE i \notin Users(F, old)
    <3>1. G.instrs[i] = F.instrs[i]
      BY <1>1, <2>1, <2>3
    <3>2. ASSUME NEW k \in DOMAIN F.instrs[i].kids, F.instrs[i].kids[k] = old
          PROVE  FALSE
      <4>1. <<old, i, k>> \in F.uses
        BY <3>2, ExactUse
      <4> QED
        BY <2>3, <4>1 DEF Users
    <3> QED
      BY <3>1, <3>2
  <2> QED
    BY <2>2, <2>3
<1> QED
  BY <1>2, <1>3 DEF G

(* Replacing a value keeps the use lists exact and leaves the old one      *)
(* without a use: so the assertion that a block which was merged away has  *)
(* no uses cannot fail (BasicBlock::eraseFromParent after                  *)
(* replaceAllUsesWith in mergeSinglePredSingleSucc).                       *)
THEOREM ReplaceKeepsUses ==
  ASSUME NEW F \in Function, NEW live, Exact(F, live), NEW old, NEW new \in Value
  PROVE  /\ Exact(replaceAllUsesWith(F, old, new), live)
         /\ old # new => Users(replaceAllUsesWith(F, old, new), old) = {}
<1> DEFINE G == replaceAllUsesWith(F, old, new)
           Renamed(u) == IF u[1] = old THEN <<new, u[2], u[3]>> ELSE u
<1>1. G.uses = {Renamed(u) : u \in F.uses}
  BY DEF replaceAllUsesWith, Function
<1>2. DOMAIN G.instrs = DOMAIN F.instrs
  BY ReplacedOperands
<1>3. ASSUME NEW i \in live
      PROVE  UsesOf(i, G.instrs[i].kids) = {Renamed(u) : u \in UsesOf(i, F.instrs[i].kids)}
  <2>1. /\ DOMAIN G.instrs[i].kids = DOMAIN F.instrs[i].kids
        /\ \A k \in DOMAIN F.instrs[i].kids :
             <<G.instrs[i].kids[k], i, k>> = Renamed(<<F.instrs[i].kids[k], i, k>>)
    BY ReplacedOperands
  <2> HIDE DEF G, Renamed
  <2> QED
    BY <2>1 DEF UsesOf
<1>4. UNION {UsesOf(i, G.instrs[i].kids) : i \in live} = {Renamed(u) : u \in F.uses}
  <2> HIDE DEF G, Renamed
  <2>1. F.uses = UNION {UsesOf(i, F.instrs[i].kids) : i \in live}
    BY DEF Exact
  <2> QED
    BY <1>3, <2>1
<1>5. Exact(G, live)
  <2> HIDE DEF G, Renamed
  <2> QED
    BY <1>1, <1>2, <1>4 DEF Exact
<1>6. ASSUME old # new, NEW u \in F.uses
      PROVE  Renamed(u)[1] # old
  BY <1>6
<1>7. old # new => Users(G, old) = {}
  <2> HIDE DEF G, Renamed
  <2> QED
    BY <1>1, <1>6 DEF Users
<1> QED
  BY <1>5, <1>7 DEF G

-----------------------------------------------------------------------------
(* An instruction that is created and put somewhere: the lists of the      *)
(* blocks change, the uses do not (IRBuilder::insert).                     *)
THEOREM InsertKeepsUses ==
  ASSUME NEW F \in Function, NEW live, Exact(F, live), NEW i \in Instruction
  PROVE  Exact(insert(F, i), live \cup {Len(F.instrs) + 1})
<1> DEFINE G == Create(F, i)
<1>1. /\ DOMAIN G = DOMAIN F
      /\ insert(F, i).instrs = G.instrs
      /\ insert(F, i).uses = G.uses
  BY DEF insert, Placed, appendAfterEnd, insertAfter, Create, Function
<1>2. Exact(G, live \cup {Len(F.instrs) + 1})
  BY CreateKeepsUses
<1> HIDE DEF G
<1> QED
  BY <1>1, <1>2 DEF Exact

(* Unlinking and destroying an instruction (Instruction::eraseFromParent). *)
THEOREM EraseKeepsUses ==
  ASSUME NEW F \in Function, NEW live, Exact(F, live),
         NEW i \in live, NEW b \in DOMAIN F.blocks
  PROVE  Exact(eraseFromParent(F, b, i), live \ {i})
<1> DEFINE G == Unlink(F, b, i)
<1>1. /\ G.instrs = F.instrs
      /\ G.uses = F.uses
      /\ eraseFromParent(F, b, i).instrs = F.instrs
      /\ eraseFromParent(F, b, i).uses = F.uses \ UsesOf(i, F.instrs[i].kids)
  BY DEF eraseFromParent, Unlink, destroy, Function
<1>2. /\ destroy(F, i).instrs = F.instrs
      /\ destroy(F, i).uses = F.uses \ UsesOf(i, F.instrs[i].kids)
  BY DEF destroy, Function
<1>3. Exact(destroy(F, i), live \ {i})
  BY DestroyKeepsUses
<1> QED
  BY <1>1, <1>2, <1>3 DEF Exact

-----------------------------------------------------------------------------
(* A function that is built and simplified: instructions are created, those *)
(* that are live are destroyed, values are replaced, in any order.          *)
VARIABLES
  fn,     \* the function
  live    \* its instructions

\* The function, and the values that were not destroyed.
useVars == <<fn, live>>

\* A function without uses.
Init == fn \in Function /\ fn.uses = {} /\ live = {}

\* An instruction is created.
CreateInstr ==
    \E i \in Instruction :
      /\ fn' = Create(fn, i)
      /\ live' = live \cup {Len(fn.instrs) + 1}

\* An unused one is destroyed.
DestroyInstr ==
    \E i \in live :
      /\ fn' = destroy(fn, i)
      /\ live' = live \ {i}

\* replaceAllUsesWith()
ReplaceValue ==
    \E old, new \in Value :
      /\ fn' = replaceAllUsesWith(fn, old, new)
      /\ live' = live

\* Any sequence of these operations.
Spec == Init /\ [][CreateInstr \/ DestroyInstr \/ ReplaceValue]_useVars

\* The uses are exactly the operands.
Inv == fn \in Function /\ Exact(fn, live)

\* Creating an instruction leaves a function,
LEMMA CreateTyped ==
  ASSUME NEW F \in Function, NEW i \in Instruction
  PROVE  Create(F, i) \in Function
<1>1. F.instrs \in Seq(Instruction) /\ Len(F.instrs) + 1 \in Nat /\ i.kids \in Seq(Value)
  BY DEF Function, Instruction
<1>2. UsesOf(Len(F.instrs) + 1, i.kids) \subseteq Value \X Nat \X Nat
  BY <1>1 DEF UsesOf
<1>3. Append(F.instrs, i) \in Seq(Instruction)
  BY <1>1
<1> QED
  BY <1>2, <1>3 DEF Create, Function

\* so does destroying one,
LEMMA DestroyTyped ==
  ASSUME NEW F \in Function, NEW i
  PROVE  destroy(F, i) \in Function
BY DEF destroy, Function

\* and replacing a value.
LEMMA ReplaceTyped ==
  ASSUME NEW F \in Function, NEW old, NEW new \in Value
  PROVE  replaceAllUsesWith(F, old, new) \in Function
<1> DEFINE Replaced(kids) == [k \in DOMAIN kids |-> IF kids[k] = old THEN new ELSE kids[k]]
           WithNew(i) == [i EXCEPT !.kids = Replaced(i.kids)]
           instrs == [i \in DOMAIN F.instrs |-> IF i \in Users(F, old)
                                              THEN WithNew(F.instrs[i]) ELSE F.instrs[i]]
           uses == {IF u[1] = old THEN <<new, u[2], u[3]>> ELSE u : u \in F.uses}
<1>1. ASSUME NEW i \in Instruction
      PROVE  WithNew(i) \in Instruction
  <2>1. i.kids \in Seq(Value) /\ Replaced(i.kids) \in Seq(Value)
    BY DEF Instruction
  <2> HIDE DEF Replaced
  <2> QED
    BY <2>1 DEF Instruction
<1>2. instrs \in Seq(Instruction)
  <2>1. F.instrs \in Seq(Instruction)
    BY DEF Function
  <2> HIDE DEF WithNew
  <2> QED
    BY <1>1, <2>1
<1>3. uses \subseteq Value \X Nat \X Nat
  BY DEF Function
<1>4. replaceAllUsesWith(F, old, new) = [F EXCEPT !.instrs = instrs, !.uses = uses]
  BY DEF replaceAllUsesWith
<1> HIDE DEF instrs, uses
<1> QED
  BY <1>2, <1>3, <1>4 DEF Function

(* In every order of these operations the uses that are recorded are those  *)
(* of the operands of the instructions that are left, each under its index: *)
(* replaceAllUsesWith never misses an operand, and users() never names an   *)
(* instruction that was destroyed.                                          *)
THEOREM UsesStayExact == Spec => []Inv
<1>1. Init => Inv
  BY DEF Init, Inv, Exact
<1>2. Inv /\ [CreateInstr \/ DestroyInstr \/ ReplaceValue]_useVars => Inv'
  <2> SUFFICES ASSUME Inv, [CreateInstr \/ DestroyInstr \/ ReplaceValue]_useVars
               PROVE  Inv'
    OBVIOUS
  <2>1. CASE CreateInstr
    BY <2>1, CreateKeepsUses, CreateTyped DEF CreateInstr, Inv
  <2>2. CASE DestroyInstr
    BY <2>2, DestroyKeepsUses, DestroyTyped DEF DestroyInstr, Inv
  <2>3. CASE ReplaceValue
    BY <2>3, ReplaceKeepsUses, ReplaceTyped DEF ReplaceValue, Inv
  <2>4. CASE UNCHANGED useVars
    BY <2>4 DEF useVars, Inv
  <2> QED
    BY <2>1, <2>2, <2>3, <2>4
<1> QED
  BY <1>1, <1>2, PTL DEF Spec
=============================================================================
