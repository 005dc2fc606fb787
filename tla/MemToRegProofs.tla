--------------------------- MODULE MemToRegProofs ---------------------------
(***************************************************************************)
(* Proofs about HoistAlloca. The inductive invariant IInv of MemToReg has  *)
(* a part for each of the three things that must go right:                 *)
(*   - PhisPlaced: the work list algorithm has placed the phi nodes of the *)
(*     allocas it is done with, and of the current one those that follow   *)
(*     from the blocks that have left the work list;                       *)
(*   - Walk, PhisFilled: the calls of replaceUses() are a path down the    *)
(*     dominator tree, and each block that was not visited is below a      *)
(*     child that one of them has yet to visit;                            *)
(*   - StacksAvailable, LoadsReplaced: a call's share of each stack, up to *)
(*     a height that is its own, holds values that are defined on every    *)
(*     path to where the call has come, and loads that were passed are not *)
(*     among them.                                                         *)
(* That a value that is there in a block is there in the blocks it         *)
(* dominates takes the stacks down the tree; the heights bring them up     *)
(* again. Dominance is used as a partial order in which the dominators of  *)
(* a block form a chain: a child of the tree that dominates a block is on  *)
(* its chain.                                                              *)
(***************************************************************************)
EXTENDS MemToReg, SequenceTheorems, FiniteSetTheorems, WellFoundedInduction, TLAPS

USE MemToRegAssumption

\* d dominates b in the function at hand.
Dom(d, b) == Dominates(succ, d, b)

\* Blocks are numbered from 1.
LEMMA EntryIsBlock == Entry \in Block /\ 0 \notin Block
BY DEF Entry, Block

-----------------------------------------------------------------------------
(* Induction over the natural numbers, stated with sets                    *)

(* A set of natural numbers has a least element.                           *)
LEMMA LeastNat ==
  ASSUME NEW T, T \subseteq Nat, T # {}
  PROVE  \E x \in T : \A y \in T : x <= y
<1> DEFINE Less == {ss \in Nat \X Nat : ss[1] < ss[2]}
<1>1. IsWellFoundedOn(Less, Nat)
  BY NatLessThanWellFounded DEF OpToRel
<1> HIDE DEF Less
<1>2. PICK x \in T : \A y \in T : <<y, x>> \notin Less
  BY <1>1, WFMin
<1>3. ASSUME NEW y \in T PROVE x <= y
  <2>1. <<y, x>> \in Nat \X Nat
    OBVIOUS
  <2>2. <<y, x>>[1] < <<y, x>>[2] => <<y, x>> \in Less
    BY <2>1 DEF Less
  <2>3. ~(y < x)
    BY <1>2, <2>2
  <2> QED
    BY <2>3
<1> QED
  BY <1>3

(* A set that holds 0 and, with each number, the next one holds them all.  *)
LEMMA AllNat ==
  ASSUME NEW W, 0 \in W, \A n \in Nat : n \in W => n + 1 \in W
  PROVE  Nat \subseteq W
<1>1. SUFFICES ASSUME Nat \ W # {} PROVE FALSE
  OBVIOUS
<1>2. PICK x \in Nat \ W : \A y \in Nat \ W : x <= y
  BY <1>1, LeastNat
<1>3. x - 1 \in Nat /\ x - 1 \in W
  BY <1>2
<1> QED
  BY <1>2, <1>3

-----------------------------------------------------------------------------
(* Dominance                                                               *)

(* The graph has no edge to the entry block, and all its blocks can be     *)
(* reached.                                                                *)
LEMMA Graph ==
  ASSUME TypeOK
  PROVE  /\ succ \in [Block -> Seq(Block)]
         /\ \A b \in Block : \A i \in DOMAIN succ[b] : succ[b][i] \in Block \ {Entry}
         /\ \A T \in SUBSET Block : Closed(succ, 0, T) => T = Block
<1>1. PICK f \in Functions : succ = f.succ
  BY DEF TypeOK
<1>2. /\ succ \in [Block -> Seq(Block \ {Entry})]
      /\ \A T \in SUBSET Block : Closed(succ, 0, T) => T = Block
  BY <1>1, FunctionsAssumption
<1>3. \A b \in Block : succ[b] \in Seq(Block \ {Entry})
  BY <1>2
<1>4. \A b \in Block : \A i \in DOMAIN succ[b] : succ[b][i] \in Block \ {Entry}
  BY <1>3, ElementOfSeq, LenProperties
<1>5. \A b \in Block : succ[b] \in Seq(Block)
  BY <1>3, SeqMonotonic
<1> QED
  BY <1>2, <1>4, <1>5

(* Dominance is a partial order whose least block is the entry block.      *)
LEMMA DomSelf ==
  ASSUME TypeOK, NEW b \in Block
  PROVE  Dom(b, b)
<1> DEFINE T == Block \ {b}
<1>1. Closed(succ, b, T)
  BY Graph, EntryIsBlock DEF Closed
<1> QED
  BY <1>1 DEF Dom, Dominates

\* The rest of the order.
LEMMA DomTransitive ==
  ASSUME NEW a, NEW b \in Block, NEW c \in Block, Dom(a, b), Dom(b, c)
  PROVE  Dom(a, c)
<1>1. PICK T \in SUBSET Block : Closed(succ, a, T) /\ b \notin T
  BY DEF Dom, Dominates
<1>2. PICK U \in SUBSET Block : Closed(succ, b, U) /\ c \notin U
  BY DEF Dom, Dominates
<1>3. Closed(succ, a, T \cap U)
  BY <1>1, <1>2 DEF Closed
<1> QED
  BY <1>2, <1>3 DEF Dom, Dominates

\* Two blocks that cannot be reached without each other are the same one.
LEMMA DomAntisymmetric ==
  ASSUME TypeOK, NEW a \in Block, NEW b \in Block, Dom(a, b), Dom(b, a)
  PROVE  a = b
<1> SUFFICES ASSUME a # b PROVE FALSE
  OBVIOUS
<1>1. PICK T \in SUBSET Block : Closed(succ, a, T) /\ b \notin T
  BY DEF Dom, Dominates
<1>2. PICK U \in SUBSET Block : Closed(succ, b, U) /\ a \notin U
  BY DEF Dom, Dominates
<1>3. Closed(succ, 0, T \cap U)
  <2>1. Entry \in T \cap U
    BY <1>1, <1>2 DEF Closed
  <2>2. ASSUME NEW p \in T \cap U, NEW i \in DOMAIN succ[p]
        PROVE  succ[p][i] \in T \cap U
    BY <1>1, <1>2 DEF Closed
  <2> QED
    BY <2>1, <2>2 DEF Closed
<1> QED
  BY <1>1, <1>3, Graph

\* The entry block dominates all, and nothing else dominates it.
LEMMA DomEntry ==
  ASSUME NEW b \in Block
  PROVE  /\ Dom(Entry, b)
         /\ \A d : Dom(d, Entry) => d = Entry
<1>1. Closed(succ, Entry, {}) /\ {} \in SUBSET Block
  BY DEF Closed
<1>2. \A d : Dom(d, Entry) => d = Entry
  BY DEF Dom, Dominates, Closed
<1> QED
  BY <1>1, <1>2 DEF Dom, Dominates

\* Only a block dominates a block: each block can be reached.
LEMMA DomBlock ==
  ASSUME TypeOK, NEW d, NEW b \in Block, Dom(d, b)
  PROVE  d \in Block
<1> SUFFICES ASSUME d \notin Block PROVE FALSE
  OBVIOUS
<1>1. PICK T \in SUBSET Block : Closed(succ, d, T) /\ b \notin T
  BY DEF Dom, Dominates
<1>2. Closed(succ, 0, T)
  BY <1>1, Graph, EntryIsBlock DEF Closed
<1> QED
  BY <1>1, <1>2, Graph

(* The dominators of a block are one above the other.                      *)
LEMMA DomComparable ==
  ASSUME TypeOK, NEW a \in Block, NEW e \in Block, NEW c \in Block,
         Dom(a, c), Dom(e, c)
  PROVE  Dom(a, e) \/ Dom(e, a)
<1> SUFFICES ASSUME ~Dom(a, e), ~Dom(e, a) PROVE FALSE
  OBVIOUS
<1>1. PICK T \in SUBSET Block : Closed(succ, a, T) /\ c \notin T
  BY DEF Dom, Dominates
<1>2. PICK U \in SUBSET Block : Closed(succ, e, U) /\ c \notin U
  BY DEF Dom, Dominates
<1>3. e \in T /\ a \in U
  BY <1>1, <1>2 DEF Dom, Dominates
<1>4. Closed(succ, 0, T \cup U)
  <2>1. Entry \in T \cup U
    BY <1>1, <1>3 DEF Closed
  <2>2. ASSUME NEW p \in T \cup U, NEW i \in DOMAIN succ[p]
        PROVE  succ[p][i] \in T \cup U
    BY <1>1, <1>2, <1>3 DEF Closed
  <2> QED
    BY <2>1, <2>2 DEF Closed
<1> QED
  BY <1>1, <1>2, <1>4, Graph

-----------------------------------------------------------------------------
(* The dominator tree                                                      *)

(* The children of a block are those it is the immediate dominator of.     *)
LEMMA Child ==
  ASSUME TypeOK, NEW a \in Block
  PROVE  /\ kids[a] \subseteq Block
         /\ \A c \in Block : c \in kids[a] <=>
              /\ c # a
              /\ Dom(a, c)
              /\ \A e \in Block : e # c => (Dom(e, c) <=> Dom(e, a))
<1>1. kids = Children(Dominators(succ))
  BY DEF TypeOK
<1>2. \A b, d \in Block : d \in Dominators(succ)[b] <=> Dom(d, b)
  BY DEF Dominators, Dom
<1>3. \A b \in Block : Dominators(succ)[b] \subseteq Block
  BY DEF Dominators
<1>4. kids[a] = {b \in Block : /\ b # a /\ a \in Dominators(succ)[b]
                               /\ Dominators(succ)[b] \ {b} = Dominators(succ)[a]}
  BY <1>1 DEF Children
<1>5. ASSUME NEW c \in Block, c # a, Dom(a, c)
      PROVE  Dominators(succ)[c] \ {c} = Dominators(succ)[a]
             <=> \A e \in Block : e # c => (Dom(e, c) <=> Dom(e, a))
  <2>1. ~Dom(c, a)
    BY <1>5, DomAntisymmetric
  <2> QED
    BY <1>2, <1>3, <2>1
<1> QED
  BY <1>2, <1>4, <1>5

(* Below a block, each block is below one of its children.                 *)
LEMMA ChildAbove ==
  ASSUME TypeOK, NEW a \in Block, NEW b \in Block, Dom(a, b), a # b
  PROVE  \E c \in kids[a] : Dom(c, b)
<1> DEFINE Between == {c \in Block : c # a /\ Dom(a, c) /\ Dom(c, b)}
           Size(c) == Cardinality({e \in Block : Dom(e, c)})
           T == {Size(c) : c \in Between}
<1>1. \A c \in Block : IsFiniteSet({e \in Block : Dom(e, c)}) /\ Size(c) \in Nat
  <2>1. IsFiniteSet(Block)
    BY FS_Interval DEF Block
  <2> QED
    BY <2>1, FS_Subset, FS_CardinalityType
<1>2. b \in Between
  BY DomSelf
<1>3. PICK c \in Between : \A e \in Between : Size(c) <= Size(e)
  <2> HIDE DEF Size, Between
  <2>1. Between \subseteq Block
    BY DEF Between
  <2>2. T \subseteq Nat /\ T # {}
    BY <1>1, <1>2, <2>1
  <2>3. PICK n \in T : \A k \in T : n <= k
    BY <2>2, LeastNat
  <2> QED
    BY <2>3
<1>4. ASSUME NEW e \in Block, e # c, Dom(e, c) PROVE Dom(e, a)
  <2> SUFFICES ASSUME ~Dom(e, a) PROVE FALSE
    OBVIOUS
  <2>1. Dom(a, e) /\ e # a
    BY <1>3, <1>4, DomComparable, DomSelf
  <2>2. Dom(e, b)
    BY <1>3, <1>4, DomTransitive
  <2>3. e \in Between
    BY <2>1, <2>2
  <2>4. {d \in Block : Dom(d, e)} \subseteq {d \in Block : Dom(d, c)}
    BY <1>4, DomTransitive
  <2>5. c \notin {d \in Block : Dom(d, e)} /\ c \in {d \in Block : Dom(d, c)}
    BY <1>4, DomAntisymmetric, DomSelf
  <2>6. Size(e) < Size(c)
    BY <1>1, <2>4, <2>5, FS_Subset
  <2>7. Size(e) \in Nat /\ Size(c) \in Nat /\ Size(c) <= Size(e)
    BY <1>1, <1>3, <2>3
  <2> QED
    BY <2>6, <2>7
<1>5. ASSUME NEW e \in Block, Dom(e, a) PROVE Dom(e, c)
  BY <1>3, <1>5, DomTransitive
<1>6. c \in kids[a]
  BY <1>3, <1>4, <1>5, Child
<1> QED
  BY <1>3, <1>6

(* Only one child of a block is above a block.                             *)
LEMMA OneChildAbove ==
  ASSUME TypeOK, NEW a \in Block, NEW c \in kids[a], NEW e \in kids[a],
         NEW b \in Block, Dom(c, b), Dom(e, b)
  PROVE  c = e
<1> SUFFICES ASSUME c # e PROVE FALSE
  OBVIOUS
<1>1. c \in Block /\ e \in Block /\ c # a /\ e # a /\ Dom(a, c) /\ Dom(a, e)
  BY Child
<1>2. Dom(c, e) => Dom(c, a)
  BY <1>1, Child
<1>3. Dom(e, c) => Dom(e, a)
  BY <1>1, Child
<1> QED
  BY <1>1, <1>2, <1>3, DomComparable, DomAntisymmetric

-----------------------------------------------------------------------------
(* Sequences                                                               *)

(* A finite set as a sequence: no element is lost, and nothing is added.   *)
LEMMA SeqOfSet ==
  ASSUME NEW S, IsFiniteSet(S)
  PROVE  /\ SetToSeq(S) \in Seq(S)
         /\ Len(SetToSeq(S)) = Cardinality(S)
<1> DEFINE n == Cardinality(S)
<1>1. n \in Nat /\ ExistsBijection(1..n, S)
  BY FS_CardinalityType
<1>2. \E f \in [1..n -> S] : IsInjective(f)
  BY <1>1 DEF ExistsBijection, Bijection, Injection
<1>3. SetToSeq(S) \in [1..n -> S]
  BY <1>2 DEF SetToSeq
<1> HIDE DEF n
<1>4. SetToSeq(S) \in Seq(S)
  BY <1>1, <1>3, SeqDef
<1>5. Len(SetToSeq(S)) = n
  BY <1>1, <1>3, <1>4, LenProperties
<1> QED
  BY <1>4, <1>5 DEF n

(* The phi nodes that a call of replaceUses() begins with.                 *)
LEMMA PhiValues ==
  ASSUME TypeOK, NEW b \in Block, NEW v \in Stack
  PROVE  LET s == SetToSeq({Phi(phi[1], phi[2]) : phi \in PhisFor(b, v)})
         IN /\ Cardinality(PhisFor(b, v)) \in Nat
            /\ s \in Seq(Value)
            /\ Len(s) = Cardinality(PhisFor(b, v))
            /\ \A j \in 1..Len(s) :
                 \E phi \in PhisFor(b, v) : s[j] = Phi(phi[1], phi[2])
<1> DEFINE Q == PhisFor(b, v)
           R == {Phi(phi[1], phi[2]) : phi \in Q}
           f == [phi \in Q |-> Phi(phi[1], phi[2])]
<1>1. Q \subseteq Block \X Var
  BY DEF TypeOK, PhisFor, PhisOf
<1>2. IsFiniteSet(Q)
  <2>1. IsFiniteSet(Block) /\ IsFiniteSet(Var)
    BY FS_Interval DEF Block, Var
  <2> QED
    BY <1>1, <2>1, FS_Product, FS_Subset
<1>3. f \in Bijection(Q, R)
  <2>1. \A phi, psi \in Q : f[phi] = f[psi] => phi = psi
    BY <1>1 DEF Phi
  <2>2. \A x \in R : \E phi \in Q : f[phi] = x
    OBVIOUS
  <2> HIDE DEF Q
  <2> QED
    BY <2>1, <2>2 DEF Bijection, Injection, Surjection, IsInjective
<1>4. IsFiniteSet(R) /\ Cardinality(R) = Cardinality(Q)
  BY <1>2, <1>3, FS_Bijection DEF ExistsBijection
<1>5. R \subseteq Value
  BY <1>1 DEF Value, Phi, Block, Var
<1>6. SetToSeq(R) \in Seq(R) /\ Len(SetToSeq(R)) = Cardinality(Q)
  BY <1>4, SeqOfSet
<1>7. \A j \in 1..Len(SetToSeq(R)) : SetToSeq(R)[j] \in R
  BY <1>6, ElementOfSeq
<1>8. SetToSeq(R) \in Seq(Value)
  BY <1>5, <1>6, SeqMonotonic
<1>9. Cardinality(Q) \in Nat
  BY <1>2, FS_CardinalityType
<1> QED
  BY <1>6, <1>7, <1>8, <1>9

\* replaceUses() begins with a frame that knows how many phi nodes it has
\* pushed, on stacks that are what they were but for these.
LEMMA Push ==
  ASSUME TypeOK, NEW b \in Block
  PROVE  /\ Call(b) \in Activation
         /\ Call(b).block = b /\ Call(b).at = 1 /\ Call(b).kids = kids[b]
         /\ PushPhis(b) \in [Stack -> Seq(Value)]
         /\ \A v \in Stack :
              /\ Len(PushPhis(b)[v]) = Len(varStack[v]) + Call(b).pushed[v]
              /\ \A j \in 1..Len(varStack[v]) : PushPhis(b)[v][j] = varStack[v][j]
              /\ \A j \in Len(varStack[v]) + 1..Len(PushPhis(b)[v]) :
                   \E phi \in PhisFor(b, v) : PushPhis(b)[v][j] = Phi(phi[1], phi[2])
<1>1. varStack \in [Stack -> Seq(Value)]
  BY DEF TypeOK
<1>2. kids[b] \in SUBSET Block
  BY Child
<1> DEFINE s(v) == SetToSeq({Phi(phi[1], phi[2]) : phi \in PhisFor(b, v)})
<1>3. \A v \in Stack : /\ Cardinality(PhisFor(b, v)) \in Nat
                       /\ s(v) \in Seq(Value)
                       /\ Len(s(v)) = Cardinality(PhisFor(b, v))
                       /\ \A j \in 1..Len(s(v)) :
                            \E phi \in PhisFor(b, v) : s(v)[j] = Phi(phi[1], phi[2])
  BY PhiValues
<1>4. /\ PushPhis(b) = [v \in Stack |-> varStack[v] \o s(v)]
      /\ Call(b).pushed = [v \in Stack |-> Cardinality(PhisFor(b, v))]
  BY <1>1 DEF PushPhis, Call
<1> HIDE DEF s
<1>5. Call(b) \in Activation
  <2>1. Call(b).pushed \in [Stack -> Nat]
    BY <1>3, <1>4
  <2>2. Call(b) = [block |-> b, at |-> 1, kids |-> kids[b], pushed |-> Call(b).pushed]
    BY DEF Call
  <2> QED
    BY <1>2, <2>1, <2>2 DEF Activation
<1>6. ASSUME NEW v \in Stack
      PROVE  /\ PushPhis(b)[v] \in Seq(Value)
             /\ Len(PushPhis(b)[v]) = Len(varStack[v]) + Call(b).pushed[v]
             /\ \A j \in 1..Len(varStack[v]) : PushPhis(b)[v][j] = varStack[v][j]
             /\ \A j \in Len(varStack[v]) + 1..Len(PushPhis(b)[v]) :
                  \E phi \in PhisFor(b, v) : PushPhis(b)[v][j] = Phi(phi[1], phi[2])
  <2>1. varStack[v] \in Seq(Value) /\ s(v) \in Seq(Value)
    BY <1>1, <1>3
  <2>2. PushPhis(b)[v] = varStack[v] \o s(v) /\ Call(b).pushed[v] = Len(s(v))
    BY <1>3, <1>4
  <2>3. /\ varStack[v] \o s(v) \in Seq(Value)
        /\ Len(varStack[v] \o s(v)) = Len(varStack[v]) + Len(s(v))
        /\ \A j \in 1..Len(varStack[v]) : (varStack[v] \o s(v))[j] = varStack[v][j]
        /\ \A j \in Len(varStack[v]) + 1..Len(varStack[v]) + Len(s(v)) :
             (varStack[v] \o s(v))[j] = s(v)[j - Len(varStack[v])]
    BY <2>1, ConcatProperties, LenProperties
  <2>4. Len(varStack[v]) \in Nat /\ Len(s(v)) \in Nat
    BY <2>1, LenProperties
  <2>5. \A j \in Len(varStack[v]) + 1..Len(varStack[v]) + Len(s(v)) :
          \E phi \in PhisFor(b, v) : s(v)[j - Len(varStack[v])] = Phi(phi[1], phi[2])
    <3>1. \A j \in 1..Len(s(v)) :
            \E phi \in PhisFor(b, v) : s(v)[j] = Phi(phi[1], phi[2])
      BY <1>3
    <3>2. \A j \in Len(varStack[v]) + 1..Len(varStack[v]) + Len(s(v)) :
            j - Len(varStack[v]) \in 1..Len(s(v))
      BY <2>4
    <3> HIDE DEF s
    <3> QED
      BY <3>1, <3>2
  <2> QED
    BY <2>2, <2>3, <2>5
<1>7. PushPhis(b) \in [Stack -> Seq(Value)]
  BY <1>4, <1>6
<1> QED
  BY <1>5, <1>6, <1>7 DEF Call

(* What Kept leaves of a sequence, in the order it is in.                  *)
LEMMA KeptExists ==
  ASSUME NEW s
  PROVE  \A m \in Nat :
           \E f : f = [n \in 0..m |-> IF n = 0 THEN <<>>
                                    ELSE KeepOrErase(f[n - 1], s[n])]
<1> DEFINE Is(f, m) == f = [n \in 0..m |-> IF n = 0 THEN <<>>
                                         ELSE KeepOrErase(f[n - 1], s[n])]
           W == {m \in Nat : \E f : Is(f, m)}
<1>1. 0 \in W
  <2>1. Is([n \in 0..0 |-> <<>>], 0)
    OBVIOUS
  <2> QED
    BY <2>1
<1>2. ASSUME NEW m \in Nat, m \in W PROVE m + 1 \in W
  <2>1. PICK f : Is(f, m)
    BY <1>2
  <2> DEFINE g == [n \in 0..(m + 1) |->
                     IF n # m + 1 THEN f[n] ELSE KeepOrErase(f[m], s[n])]
             h == [n \in 0..(m + 1) |->
                     IF n = 0 THEN <<>> ELSE KeepOrErase(g[n - 1], s[n])]
  <2>2. ASSUME NEW n \in 0..(m + 1) PROVE g[n] = h[n]
    <3>1. CASE n = 0
      BY <2>1, <3>1
    <3>2. CASE n \in 1..m
      <4>1. n \in 0..m /\ n - 1 \in 0..m
        BY <3>2
      <4>2. f[n] = KeepOrErase(f[n - 1], s[n])
        BY <2>1, <3>2, <4>1
      <4> QED
        BY <3>2, <4>1, <4>2
    <3>3. CASE n = m + 1
      BY <3>3
    <3> QED
      BY <3>1, <3>2, <3>3
  <2>3. g = h
    BY <2>2
  <2>4. Is(g, m + 1)
    BY <2>3
  <2> HIDE DEF g, Is
  <2>5. \E t : Is(t, m + 1)
    BY <2>4
  <2> QED
    BY <2>5
<1> HIDE DEF Is
<1>3. Nat \subseteq W
  BY <1>1, <1>2, AllNat
<1> QED
  BY <1>3 DEF Is

\* t is the instructions of s that are not erased, in their order.
IsWhatStays(t, s) ==
  /\ t \in Seq(Instruction)
  /\ \E e \in [1..Len(t) -> 1..Len(s)] :
       /\ \A i \in 1..Len(t) : t[i] = s[e[i]] /\ ~ToErase(s[e[i]])
       /\ \A i, j \in 1..Len(t) : i < j => e[i] < e[j]
       /\ \A k \in 1..Len(s) : ~ToErase(s[k]) => \E i \in 1..Len(t) : e[i] = k

\* Kept leaves what stays of a sequence, in the order it is in.
LEMMA KeptInOrder ==
  ASSUME NEW s \in Seq(Instruction)
  PROVE  IsWhatStays(Kept(s), s)
<1> DEFINE Is(f) == f = [n \in 0..Len(s) |->
                           IF n = 0 THEN <<>> ELSE KeepOrErase(f[n - 1], s[n])]
           kept == CHOOSE f : Is(f)
           Leaves(t, n) ==
             /\ t \in Seq(Instruction)
             /\ \E e \in [1..Len(t) -> 1..n] :
                  /\ \A i \in 1..Len(t) : t[i] = s[e[i]] /\ ~ToErase(s[e[i]])
                  /\ \A i, j \in 1..Len(t) : i < j => e[i] < e[j]
                  /\ \A k \in 1..n : ~ToErase(s[k]) => \E i \in 1..Len(t) : e[i] = k
           W == {n \in Nat : n <= Len(s) => Leaves(kept[n], n)}
<1>1. Len(s) \in Nat /\ \A k \in 1..Len(s) : s[k] \in Instruction
  BY LenProperties, ElementOfSeq
<1>2. Is(kept)
  BY <1>1, KeptExists
<1> HIDE DEF Leaves
<1>3. Kept(s) = kept[Len(s)]
  BY DEF Kept
<1> HIDE DEF kept
<1>4. 0 \in W
  <2>1. kept[0] = <<>>
    BY <1>1, <1>2
  <2>2. Leaves(<<>>, 0)
    <3>1. <<>> \in Seq(Instruction) /\ Len(<<>>) = 0
      BY EmptySeq
    <3>2. ASSUME NEW t \in Seq(Instruction), Len(t) = 0 PROVE Leaves(t, 0)
      <4>1. [i \in 1..0 |-> 0] \in [1..Len(t) -> 1..0] /\ 1..Len(t) = {}
        BY <3>2
      <4> QED
        BY <4>1 DEF Leaves
    <3> QED
      BY <3>1, <3>2
  <2> QED
    BY <2>1, <2>2
<1>5. ASSUME NEW n \in Nat, n \in W PROVE n + 1 \in W
  <2> SUFFICES ASSUME n + 1 <= Len(s) PROVE Leaves(kept[n + 1], n + 1)
    OBVIOUS
  <2> DEFINE t == kept[n]
             u == kept[n + 1]
  <2>1. Leaves(t, n)
    BY <1>1, <1>5
  <2>2. u = IF ToErase(s[n + 1]) THEN t ELSE Append(t, s[n + 1])
    <3>1. n + 1 \in 0..Len(s) /\ n + 1 # 0 /\ (n + 1) - 1 = n
      BY <1>1
    <3>2. u = KeepOrErase(t, s[n + 1])
      BY <1>2, <3>1
    <3> QED
      BY <3>2 DEF KeepOrErase
  <2> HIDE DEF t, u
  <2>3. PICK e \in [1..Len(t) -> 1..n] :
          /\ \A i \in 1..Len(t) : t[i] = s[e[i]] /\ ~ToErase(s[e[i]])
          /\ \A i, j \in 1..Len(t) : i < j => e[i] < e[j]
          /\ \A k \in 1..n : ~ToErase(s[k]) => \E i \in 1..Len(t) : e[i] = k
    BY <2>1 DEF Leaves
  <2>4. t \in Seq(Instruction) /\ Len(t) \in Nat
    BY <2>1, LenProperties DEF Leaves
  <2>5. CASE ToErase(s[n + 1])
    <3>1. e \in [1..Len(t) -> 1..(n + 1)]
      BY <2>3
    <3>2. \A k \in 1..(n + 1) : ~ToErase(s[k]) => \E i \in 1..Len(t) : e[i] = k
      BY <2>3, <2>5
    <3>3. Leaves(t, n + 1)
      BY <2>3, <2>4, <3>1, <3>2 DEF Leaves
    <3> QED
      BY <2>2, <2>5, <3>3 DEF u
  <2>6. CASE ~ToErase(s[n + 1])
    <3> DEFINE a == Append(t, s[n + 1])
               d == [i \in 1..(Len(t) + 1) |-> IF i <= Len(t) THEN e[i] ELSE n + 1]
    <3>1. /\ a \in Seq(Instruction)
          /\ Len(a) = Len(t) + 1
          /\ \A i \in 1..Len(t) : a[i] = t[i]
          /\ a[Len(t) + 1] = s[n + 1]
      BY <1>1, <2>4, AppendProperties
    <3>2. d \in [1..Len(a) -> 1..(n + 1)]
      BY <2>3, <2>4, <3>1
    <3> HIDE DEF a
    <3>3. \A i \in 1..Len(a) : a[i] = s[d[i]] /\ ~ToErase(s[d[i]])
      BY <2>3, <2>4, <2>6, <3>1
    <3>4. ASSUME NEW i \in 1..Len(a), NEW j \in 1..Len(a), i < j
          PROVE  d[i] < d[j]
      <4>1. i \in 1..Len(t) /\ d[i] = e[i] /\ e[i] \in 1..n
        BY <2>3, <2>4, <3>1, <3>4
      <4>2. CASE j \in 1..Len(t)
        BY <2>3, <3>4, <4>1, <4>2
      <4>3. CASE j = Len(t) + 1
        BY <2>4, <4>1, <4>3
      <4> QED
        BY <2>4, <3>1, <4>2, <4>3
    <3>5. ASSUME NEW k \in 1..(n + 1), ~ToErase(s[k])
          PROVE  \E i \in 1..Len(a) : d[i] = k
      <4>1. CASE k = n + 1
        <5>1. Len(t) + 1 \in 1..Len(a) /\ d[Len(t) + 1] = k
          BY <2>4, <3>1, <4>1
        <5> QED
          BY <5>1
      <4>2. CASE k # n + 1
        <5>1. PICK i \in 1..Len(t) : e[i] = k
          BY <2>3, <3>5, <4>2
        <5>2. i \in 1..Len(a) /\ d[i] = k
          BY <2>4, <3>1, <5>1
        <5> QED
          BY <5>2
      <4> QED
        BY <4>1, <4>2
    <3> HIDE DEF d
    <3>6. Leaves(a, n + 1)
      BY <3>1, <3>2, <3>3, <3>4, <3>5 DEF Leaves
    <3> QED
      BY <2>2, <2>6, <3>6 DEF u, a
  <2> QED
    BY <2>5, <2>6 DEF u
<1>6. Nat \subseteq W
  BY <1>4, <1>5, AllNat
<1>7. PICK t : t = kept[Len(s)]
  OBVIOUS
<1>8. Leaves(t, Len(s))
  BY <1>1, <1>6, <1>7
<1>9. IsWhatStays(t, s)
  BY <1>8 DEF Leaves, IsWhatStays
<1> QED
  BY <1>3, <1>7, <1>9

-----------------------------------------------------------------------------
(* Values                                                                  *)

\* A value that is there is there later in the block.
LEMMA AvailableLater ==
  ASSUME NEW g, NEW c, NEW P, NEW val, NEW b, NEW i \in Int, NEW j \in Int, i <= j,
         \A n \in DOMAIN c[b] : n \in Int,
         Available(g, c, P, val, b, i)
  PROVE  Available(g, c, P, val, b, j)
BY DEF Available

(* What is there in a block is there in the blocks below it.               *)
LEMMA AvailableBelow ==
  ASSUME TypeOK, NEW c, NEW P, NEW val, NEW a \in Block, NEW b \in Block,
         NEW i, NEW j, a # b, Dom(a, b), Available(succ, c, P, val, a, i)
  PROVE  Available(succ, c, P, val, b, j)
<1>1. \A d : Dominates(succ, d, a) => Dominates(succ, d, b) /\ d # b
  <2> SUFFICES ASSUME NEW d, Dom(d, a) PROVE Dom(d, b) /\ d # b
    BY DEF Dom
  <2>1. d \in Block /\ Dom(d, b)
    BY DomBlock, DomTransitive
  <2> QED
    BY <2>1, DomAntisymmetric
<1> QED
  BY <1>1 DEF Available

(* The code e is c but for the values that its stores and uses have.       *)
Alike(c, e) ==
  \A b \in Block :
    /\ Len(e[b]) = Len(c[b])
    /\ DOMAIN e[b] = DOMAIN c[b]
    /\ \A i \in DOMAIN c[b] :
         /\ e[b][i].op = c[b][i].op
         /\ e[b][i].var = c[b][i].var
         /\ c[b][i].op = "load" => e[b][i].val = c[b][i].val

(* Whether a value is there depends only on the loads and the phi nodes.   *)
LEMMA AvailableSame ==
  ASSUME TypeOK, NEW c, NEW e, Alike(c, e), NEW P, NEW val,
         NEW b \in Block, NEW i, Available(succ, c, P, val, b, i)
  PROVE  Available(succ, e, P, val, b, i)
<1>1. \A d : Dominates(succ, d, b) => d \in Block
  BY DomBlock DEF Dom
<1> QED
  BY <1>1 DEF Available, Alike

-----------------------------------------------------------------------------
(* The walk of replaceUses()                                               *)

\* What the frames are.
LEMMA Frames ==
  ASSUME TypeOK, Walk, phase = "Rename"
  PROVE  /\ Len(frames) \in Nat \ {0}
         /\ DOMAIN frames = 1..Len(frames)
         /\ frames \in [1..Len(frames) -> Activation]
         /\ \A k \in 1..Len(frames) :
              /\ frames[k] \in Activation
              /\ frames[k].block \in Block
              /\ frames[k].at \in Nat \ {0}
              /\ frames[k].kids \subseteq kids[frames[k].block]
              /\ frames[k].kids \subseteq Block
              /\ frames[k].pushed \in [Stack -> Nat]
         /\ Frame = frames[Len(frames)]
         /\ frames[1].block = Entry
<1>1. frames \in Seq(Activation) /\ frames # <<>>
  BY DEF TypeOK, Walk
<1>2. Len(frames) \in Nat \ {0}
  BY <1>1, EmptySeq
<1>3. DOMAIN frames = 1..Len(frames) /\ frames \in [1..Len(frames) -> Activation]
  BY <1>1, LenProperties
<1>4. \A k \in 1..Len(frames) : frames[k] \in Activation
  BY <1>3
<1>5. \A k \in 1..Len(frames) : frames[k].kids \subseteq kids[frames[k].block]
  BY <1>3 DEF Walk
<1>6. \A r \in Activation : /\ r.block \in Block /\ r.at \in Nat \ {0}
                            /\ r.kids \subseteq Block /\ r.pushed \in [Stack -> Nat]
  BY DEF Activation
<1> QED
  BY <1>2, <1>3, <1>4, <1>5, <1>6 DEF Walk, Frame

(* The blocks of the calls are above that of the last one.                 *)
LEMMA FramesDominate ==
  ASSUME TypeOK, Walk, phase = "Rename", NEW k \in 1..Len(frames)
  PROVE  Dom(frames[k].block, Frame.block)
<1> DEFINE n == Len(frames)
           W == {m \in Nat : m < n => Dom(frames[n - m].block, Frame.block)}
<1>1. n \in Nat \ {0} /\ \A l \in 1..n : frames[l].block \in Block
  BY Frames
<1>2. 0 \in W
  BY <1>1, Frames, DomSelf
<1>3. ASSUME NEW m \in Nat, m \in W PROVE m + 1 \in W
  <2> SUFFICES ASSUME m + 1 < n
               PROVE  Dom(frames[n - (m + 1)].block, Frame.block)
    OBVIOUS
  <2> HIDE DEF n
  <2>1. PICK l \in 1..n : l = n - (m + 1) /\ l + 1 = n - m /\ l + 1 \in 1..n
    <3>1. n - (m + 1) \in 1..n /\ n - (m + 1) + 1 = n - m /\ n - m \in 1..n
      BY <1>1
    <3> QED
      BY <3>1
  <2>2. Dom(frames[l + 1].block, Frame.block)
    <3>1. Dom(frames[n - m].block, Frame.block)
      BY <1>1, <1>3
    <3> QED
      BY <2>1, <3>1
  <2>3. frames[l + 1].block \in kids[frames[l].block]
    <3>1. l \in DOMAIN frames /\ l # Len(frames)
      BY <1>1, <2>1, Frames DEF n
    <3> QED
      BY <3>1 DEF Walk
  <2>4. Dom(frames[l].block, frames[l + 1].block)
    BY <1>1, <2>1, <2>3, Child
  <2>5. Dom(frames[l].block, Frame.block)
    BY <1>1, <2>1, <2>2, <2>4, Frames, DomTransitive
  <2> QED
    BY <2>1, <2>5
<1>4. Nat \subseteq W
  BY <1>2, <1>3, AllNat
<1>5. n - k \in Nat /\ n - k < n /\ n - (n - k) = k
  BY <1>1
<1> QED
  BY <1>4, <1>5

(* The blocks that are still to come are not above that of the last call.  *)
LEMMA NotPendingAbove ==
  ASSUME TypeOK, Walk, phase = "Rename", NEW d \in Block, Dom(d, Frame.block),
         NEW i, Pending(d, i)
  PROVE  d = Frame.block /\ i >= Frame.at
<1> SUFFICES ASSUME NEW k \in DOMAIN frames, NEW c \in frames[k].kids, Dom(c, d)
             PROVE  FALSE
  BY DEF Pending, Dom
<1>1. /\ k \in 1..Len(frames) /\ Len(frames) \in Nat \ {0}
      /\ frames[k].block \in Block /\ Frame.block \in Block
      /\ c \in kids[frames[k].block] /\ c \in Block
  BY Frames
<1>2. Dom(c, Frame.block)
  BY <1>1, DomTransitive
<1>3. CASE k = Len(frames)
  <2>1. c # Frame.block /\ Dom(Frame.block, c)
    BY <1>1, <1>3, Child, Frames
  <2> QED
    BY <1>1, <1>2, <2>1, DomAntisymmetric
<1>4. CASE k # Len(frames)
  <2>1. /\ k + 1 \in 1..Len(frames)
        /\ frames[k + 1].block \in kids[frames[k].block] \ frames[k].kids
    BY <1>1, <1>4 DEF Walk
  <2>2. Dom(frames[k + 1].block, Frame.block)
    BY <2>1, FramesDominate
  <2> QED
    BY <1>1, <1>2, <2>1, <2>2, OneChildAbove
<1> QED
  BY <1>3, <1>4

(* The last call goes on by one step.                                      *)
LEMMA Advance ==
  ASSUME TypeOK, Walk, phase = "Rename", phase' = "Rename",
         NEW pushed \in [Stack -> Nat], frames' = Advanced(pushed),
         succ' = succ, kids' = kids, Alike(code, code')
  PROVE  /\ frames' \in Seq(Activation)
         /\ Len(frames') = Len(frames)
         /\ DOMAIN frames' = DOMAIN frames
         /\ \A k \in 1..Len(frames) :
              /\ frames'[k].block = frames[k].block
              /\ frames'[k].kids = frames[k].kids
              /\ frames'[k].at >= frames[k].at
              /\ k # Len(frames) => frames'[k] = frames[k]
         /\ frames'[Len(frames)].at = Frame.at + 1
         /\ frames'[Len(frames)].pushed = pushed
         /\ Walk'
         /\ \A b \in Block : \A i \in Int :
              Pending(b, i) => Pending(b, i)' \/ (b = Frame.block /\ i = Frame.at)
<1> DEFINE n == Len(frames)
           top == [Frame EXCEPT !.at = Frame.at + 1, !.pushed = pushed]
<1>1. /\ n \in Nat \ {0} /\ frames \in [1..n -> Activation] /\ Frame = frames[n]
      /\ DOMAIN frames = 1..n
      /\ \A k \in 1..n : frames[k] \in Activation /\ frames[k].at \in Nat \ {0}
                         /\ frames[k].block \in Block
  BY Frames
<1>2. /\ top \in Activation
      /\ top.block = Frame.block /\ top.kids = Frame.kids
      /\ top.at = Frame.at + 1 /\ top.pushed = pushed
  <2>1. Frame \in Activation /\ Frame.at + 1 \in Nat \ {0}
    BY <1>1
  <2>2. PICK r \in Activation : r = Frame
    BY <2>1
  <2>3. PICK a \in Nat \ {0} : a = Frame.at + 1
    BY <2>1
  <2>4. top = [r EXCEPT !.at = a, !.pushed = pushed]
    BY <2>2, <2>3
  <2> HIDE DEF top
  <2>5. /\ top \in Activation /\ top.block = r.block /\ top.kids = r.kids
        /\ top.at = a /\ top.pushed = pushed
    BY <2>4 DEF Activation
  <2> QED
    BY <2>2, <2>3, <2>5
<1> HIDE DEF top
<1>3. frames' = [frames EXCEPT ![n] = top]
  BY DEF Advanced, top
<1>4. /\ frames' \in [1..n -> Activation]
      /\ \A k \in 1..n : k # n => frames'[k] = frames[k]
      /\ frames'[n] = top
  <2> HIDE DEF n
  <2> QED
    BY <1>1, <1>2, <1>3
<1>5. frames' \in Seq(Activation) /\ Len(frames') = n /\ DOMAIN frames' = 1..n
  <2>1. frames \in Seq(Activation) /\ n \in 1..Len(frames)
    BY <1>1 DEF TypeOK
  <2>2. frames' \in Seq(Activation) /\ Len(frames') = n
    BY <1>2, <1>3, <2>1, ExceptSeq
  <2> QED
    BY <2>2, LenProperties
<1>6. \A k \in 1..n : /\ frames'[k].block = frames[k].block
                      /\ frames'[k].kids = frames[k].kids
                      /\ frames'[k].at >= frames[k].at
  <2> SUFFICES ASSUME NEW k \in 1..n
               PROVE  /\ frames'[k].block = frames[k].block
                      /\ frames'[k].kids = frames[k].kids
                      /\ frames'[k].at >= frames[k].at
    OBVIOUS
  <2> HIDE DEF n
  <2>1. CASE k = n
    <3>1. frames'[k] = top /\ Frame = frames[k] /\ Frame.at \in Nat
      BY <1>1, <1>4, <2>1
    <3> QED
      BY <1>2, <3>1
  <2>2. CASE k # n
    <3>1. frames'[k] = frames[k] /\ frames[k].at \in Nat
      BY <1>1, <1>4, <2>2
    <3> QED
      BY <3>1
  <2> QED
    BY <2>1, <2>2
<1>7. Walk'
  <2>1. frames' # <<>> /\ frames'[1].block = Entry
    BY <1>1, <1>5, <1>6 DEF Walk
  <2>2. ASSUME NEW k \in DOMAIN frames'
        PROVE  /\ frames'[k].kids \subseteq kids[frames'[k].block]
               /\ k # n =>
                    /\ frames'[k].at > Len(code'[frames'[k].block]) + 1
                    /\ frames'[k + 1].block \in kids[frames'[k].block] \ frames'[k].kids
    <3>1. k \in 1..n /\ k \in DOMAIN frames
      BY <1>1, <1>5
    <3>2. frames[k].kids \subseteq kids[frames[k].block]
      BY <3>1 DEF Walk
    <3>3. CASE k # n
      <4>1. k + 1 \in 1..n
        BY <1>1, <3>1, <3>3
      <4>2. /\ frames[k].at > Len(code[frames[k].block]) + 1
            /\ frames[k + 1].block \in kids[frames[k].block] \ frames[k].kids
        BY <3>1, <3>3 DEF Walk
      <4>3. frames'[k].at = frames[k].at
        BY <1>4, <3>1, <3>3
      <4>4. Len(code'[frames'[k].block]) = Len(code[frames[k].block])
        BY <1>1, <1>6, <3>1 DEF Alike
      <4>5. frames'[k + 1].block \in kids[frames'[k].block] \ frames'[k].kids
        BY <1>6, <3>1, <4>1, <4>2
      <4>6. frames'[k].kids \subseteq kids[frames'[k].block]
        BY <1>6, <3>1, <3>2
      <4> QED
        BY <4>2, <4>3, <4>4, <4>5, <4>6
    <3>4. CASE k = n
      BY <1>6, <3>1, <3>2, <3>4
    <3> QED
      BY <3>3, <3>4
  <2> HIDE DEF n
  <2> QED
    BY <1>5, <2>1, <2>2 DEF Walk
<1>8. ASSUME NEW b \in Block, NEW i \in Int, Pending(b, i)
      PROVE  Pending(b, i)' \/ (b = Frame.block /\ i = Frame.at)
  <2>1. CASE \E k \in DOMAIN frames : \E c \in frames[k].kids : Dominates(succ, c, b)
    BY <1>1, <1>5, <1>6, <2>1 DEF Pending
  <2>2. CASE b = Frame.block /\ i >= Frame.at
    <3>1. Frame' = top
      BY <1>4, <1>5 DEF Frame
    <3>2. Frame.at \in Int
      BY <1>1
    <3> QED
      BY <1>2, <2>2, <3>1, <3>2 DEF Pending
  <2> QED
    BY <1>8, <2>1, <2>2 DEF Pending
<1> QED
  BY <1>1, <1>2, <1>4, <1>5, <1>6, <1>7, <1>8

-----------------------------------------------------------------------------
(* The stacks                                                              *)

(* The last call pushes D[v] values on the stack of v, which are there     *)
(* after the instruction it has come to, and goes on.                      *)
Pushes(D, pushed) ==
  /\ \A v \in Stack :
       /\ Len(varStack'[v]) = Len(varStack[v]) + D[v]
       /\ \A j \in 1..Len(varStack[v]) : varStack'[v][j] = varStack[v][j]
       /\ \A j \in Len(varStack[v]) + 1..Len(varStack[v]) + D[v] :
            Available(succ, code, phis, varStack'[v][j], Frame.block, Frame.at + 1)
       /\ Len(frames) # 1 => pushed[v] = Frame.pushed[v] + D[v]
       /\ pushed[v] <= Frame.pushed[v] + D[v]
  /\ runs = 0 /\ Len(frames) = 1 =>
       \A i \in DOMAIN code[Entry] :
         i = Frame.at /\ code[Entry][i].op = "alloca" => D[code[Entry][i].var] >= 1

\* The heights of the stacks after a step in the current block: its call has
\* pushed D[v] values more on the stack of each alloca v.
LEMMA StacksGrow ==
  ASSUME TypeOK, Walk, phase = "Rename", phase' = "Rename", StacksAvailable,
         NEW pushed \in [Stack -> Nat], frames' = Advanced(pushed),
         succ' = succ, kids' = kids, phis' = phis, runs' = runs,
         Alike(code, code'), CodeShape,
         NEW D \in [Stack -> Nat], Pushes(D, pushed)
  PROVE  StacksAvailable'
<1>0. PICK n : n = Len(frames)
  OBVIOUS
<1>1. PICK H \in [DOMAIN frames -> [Stack -> Nat]] : StacksFit(H)
  BY DEF StacksAvailable
<1>2. /\ n \in Nat \ {0} /\ DOMAIN frames = 1..n /\ Frame = frames[n]
      /\ \A k \in 1..n : frames[k] \in Activation /\ frames[k].at \in Nat \ {0}
                         /\ frames[k].block \in Block
                         /\ frames[k].pushed \in [Stack -> Nat]
      /\ frames[1].block = Entry
  BY <1>0, Frames
<1>3. /\ Len(frames') = n /\ DOMAIN frames' = 1..n /\ frames' \in [1..n -> Activation]
      /\ \A k \in 1..n : /\ frames'[k].block = frames[k].block
                         /\ frames'[k].at >= frames[k].at
                         /\ k # n => frames'[k] = frames[k]
      /\ frames'[n].at = Frame.at + 1
      /\ frames'[n].pushed = pushed
      /\ frames' \in Seq(Activation)
  <2>1. /\ Len(frames') = n /\ frames' \in Seq(Activation)
        /\ \A k \in 1..n : /\ frames'[k].block = frames[k].block
                           /\ frames'[k].at >= frames[k].at
                           /\ k # n => frames'[k] = frames[k]
        /\ frames'[n].at = Frame.at + 1
        /\ frames'[n].pushed = pushed
    BY <1>0, Advance
  <2> QED
    BY <2>1, LenProperties
<1>4. /\ \A v \in Stack : /\ H[n][v] = Len(varStack[v])
                          /\ frames[1].pushed[v] <= H[1][v]
      /\ \A v \in Stack : \A k \in 1..n :
           /\ k # 1 => H[k][v] = H[k - 1][v] + frames[k].pushed[v]
           /\ \A l \in 1..k : H[l][v] <= H[k][v]
           /\ \A j \in 1..H[k][v] :
                Available(succ, code, phis, varStack[v][j], frames[k].block, frames[k].at)
      /\ runs = 0 =>
           \A k \in 1..n : \A i \in DOMAIN code[Entry] :
             code[Entry][i].op = "alloca" /\ (k # 1 \/ frames[1].at > i) =>
               H[k][code[Entry][i].var] >= 1
  BY <1>0, <1>1, <1>2 DEF StacksFit
<1>5. \A k \in 1..n : \A v \in Stack : H[k][v] \in Nat
  BY <1>1, <1>2
<1>P. \A v \in Stack :
        /\ Len(varStack'[v]) = Len(varStack[v]) + D[v]
        /\ D[v] \in Nat /\ Len(varStack[v]) \in Nat
        /\ \A j \in 1..Len(varStack[v]) : varStack'[v][j] = varStack[v][j]
        /\ \A j \in Len(varStack[v]) + 1..Len(varStack[v]) + D[v] :
             Available(succ, code, phis, varStack'[v][j], Frame.block, Frame.at + 1)
        /\ n # 1 => pushed[v] = Frame.pushed[v] + D[v]
        /\ pushed[v] <= Frame.pushed[v] + D[v]
        /\ pushed[v] \in Nat /\ Frame.pushed[v] \in Nat
  <2>1. \A v \in Stack : Len(varStack[v]) \in Nat
    <3>1. \A v \in Stack : varStack[v] \in Seq(Value)
      BY DEF TypeOK
    <3> QED
      BY <3>1, LenProperties
  <2> QED
    BY <1>0, <1>2, <2>1 DEF Pushes
<1>6. PICK G \in [1..n -> [Stack -> Nat]] :
        /\ \A v \in Stack : G[n][v] = H[n][v] + D[v]
        /\ \A k \in 1..n : k # n => G[k] = H[k]
  <2> DEFINE F == [k \in 1..n |-> IF k = n THEN [v \in Stack |-> H[n][v] + D[v]]
                                  ELSE H[k]]
  <2>1. \A k \in 1..n : H[k] \in [Stack -> Nat]
    BY <1>1, <1>2
  <2>2. /\ F \in [1..n -> [Stack -> Nat]]
        /\ \A v \in Stack : F[n][v] = H[n][v] + D[v]
        /\ \A k \in 1..n : k # n => F[k] = H[k]
    BY <1>2, <1>5, <2>1
  <2> HIDE DEF F
  <2> QED
    BY <2>2
<1>7. ASSUME NEW k \in 1..n, NEW v \in Stack
      PROVE  G[k][v] \in Nat /\ H[k][v] <= G[k][v]
  <2>1. H[k][v] \in Nat /\ D[v] \in Nat
    BY <1>5
  <2>2. CASE k = n
    <3>1. G[k][v] = H[k][v] + D[v]
      BY <1>6, <2>2
    <3> QED
      BY <2>1, <3>1
  <2>3. CASE k # n
    <3>1. G[k][v] = H[k][v]
      BY <1>6, <2>3
    <3> QED
      BY <2>1, <3>1
  <2> QED
    BY <2>2, <2>3
<1>8. ASSUME NEW v \in Stack PROVE G[n][v] = Len(varStack'[v])
  <2>1. G[n][v] = H[n][v] + D[v] /\ H[n][v] = Len(varStack[v])
    BY <1>4, <1>6
  <2>2. Len(varStack'[v]) = Len(varStack[v]) + D[v]
    BY <1>P
  <2> QED
    BY <2>1, <2>2
<1>9. ASSUME NEW v \in Stack PROVE frames'[1].pushed[v] <= G[1][v]
  <2>1. CASE n = 1
    <3>1. pushed[v] <= frames[1].pushed[v] + D[v]
      BY <1>2, <1>P, <2>1
    <3>2. frames[1].pushed[v] <= H[1][v]
      BY <1>4
    <3>3. pushed[v] \in Nat /\ D[v] \in Nat /\ frames[1].pushed[v] \in Nat /\ H[1][v] \in Nat
      BY <1>2, <1>5, <2>1
    <3>4. frames'[1].pushed[v] = pushed[v] /\ G[1][v] = H[1][v] + D[v]
      BY <1>3, <1>6, <2>1
    <3> QED
      BY <3>1, <3>2, <3>3, <3>4
  <2>2. CASE n # 1
    <3>1. frames'[1] = frames[1] /\ G[1] = H[1]
      BY <1>2, <1>3, <1>6, <2>2
    <3> QED
      BY <1>4, <3>1
  <2> QED
    BY <2>1, <2>2
<1>10. ASSUME NEW v \in Stack, NEW k \in 1..n, k # 1
       PROVE  G[k][v] = G[k - 1][v] + frames'[k].pushed[v]
  <2>1. PICK l \in 1..n : l = k - 1 /\ l # n
    BY <1>2, <1>10
  <2>2. H[k][v] = H[k - 1][v] + frames[k].pushed[v]
    BY <1>4, <1>10
  <2>3. H[k][v] = H[l][v] + frames[k].pushed[v] /\ G[l][v] = H[l][v]
    BY <1>6, <2>1, <2>2
  <2>4. CASE k = n
    <3>1. pushed[v] = frames[k].pushed[v] + D[v]
      BY <1>2, <1>P, <1>10, <2>4
    <3>2. H[l][v] \in Nat /\ D[v] \in Nat /\ frames[k].pushed[v] \in Nat
      BY <1>2, <1>5
    <3>3. G[k][v] = H[k][v] + D[v] /\ frames'[k].pushed[v] = pushed[v]
      BY <1>3, <1>6, <2>4
    <3>4. H[k][v] + D[v] = H[l][v] + (frames[k].pushed[v] + D[v])
      BY <2>3, <3>2
    <3>5. G[k][v] = G[l][v] + frames'[k].pushed[v]
      BY <2>3, <3>1, <3>3, <3>4, Zenon
    <3> QED
      BY <2>1, <3>5, Zenon
  <2>5. CASE k # n
    <3>1. frames'[k] = frames[k] /\ G[k][v] = H[k][v]
      BY <1>3, <1>6, <2>5
    <3> QED
      BY <2>1, <2>3, <3>1
  <2> QED
    BY <2>4, <2>5
<1>11. ASSUME NEW v \in Stack, NEW k \in 1..n, NEW l \in 1..k
       PROVE  G[l][v] <= G[k][v]
  <2>1. l \in 1..n /\ H[l][v] <= H[k][v] /\ H[l][v] \in Nat /\ H[k][v] \in Nat
    BY <1>2, <1>4, <1>5
  <2>2. CASE l = n
    <3>1. k = n
      BY <1>2, <2>2
    <3> QED
      BY <1>7, <2>2, <3>1
  <2>3. CASE l # n
    <3>1. G[l][v] = H[l][v]
      BY <1>6, <2>1, <2>3
    <3>2. H[k][v] <= G[k][v] /\ G[k][v] \in Nat
      BY <1>7
    <3> QED
      BY <2>1, <3>1, <3>2
  <2> QED
    BY <2>2, <2>3
<1>12. ASSUME NEW v \in Stack, NEW k \in 1..n, NEW j \in 1..G[k][v]
       PROVE  Available(succ, code', phis, varStack'[v][j], frames'[k].block,
                        frames'[k].at)
  <2>1. G[k][v] \in Nat /\ H[k][v] \in Nat /\ H[n][v] \in Nat
    BY <1>2, <1>5, <1>7
  <2>1a. H[k][v] <= H[n][v] /\ H[n][v] = Len(varStack[v])
    <3>1. n \in 1..n /\ k \in 1..n
      BY <1>2
    <3> QED
      BY <1>4, <3>1
  <2>1b. j \in Int /\ 1 <= j /\ j <= G[k][v]
    BY <2>1
  <2>2. \A m \in DOMAIN code[frames[k].block] : m \in Int
    <3>1. code[frames[k].block] \in Seq(Instruction)
      BY <1>2 DEF TypeOK
    <3> QED
      BY <3>1, LenProperties
  <2>3. ASSUME Available(succ, code, phis, varStack'[v][j], frames[k].block,
                         frames'[k].at)
        PROVE  Available(succ, code', phis, varStack'[v][j], frames'[k].block,
                         frames'[k].at)
    BY <1>2, <1>3, <2>3, AvailableSame
  <2>4. CASE j <= H[k][v]
    <3>0. j \in 1..H[k][v] /\ j \in 1..Len(varStack[v])
      BY <2>1, <2>1a, <2>1b, <2>4
    <3>1. varStack'[v][j] = varStack[v][j]
      BY <1>P, <3>0
    <3>2. Available(succ, code, phis, varStack[v][j], frames[k].block, frames[k].at)
      BY <1>4, <3>0
    <3>3. frames[k].at \in Int /\ frames'[k].at \in Int
      <4>1. frames'[k] \in Activation
        BY <1>3
      <4> QED
        BY <1>2, <4>1 DEF Activation
    <3>4. Available(succ, code, phis, varStack[v][j], frames[k].block, frames'[k].at)
      BY <1>2, <1>3, <2>2, <3>2, <3>3, AvailableLater
    <3> QED
      BY <2>3, <3>1, <3>4
  <2>5. CASE ~(j <= H[k][v])
    <3>1. k = n
      BY <1>6, <2>5
    <3>2. j \in Len(varStack[v]) + 1..Len(varStack[v]) + D[v]
      <4>1. G[k][v] = Len(varStack[v]) + D[v] /\ H[k][v] = Len(varStack[v]) /\ D[v] \in Nat
        BY <1>6, <2>1a, <3>1
      <4> QED
        BY <2>1, <2>1b, <2>5, <4>1
    <3>3. Available(succ, code, phis, varStack'[v][j], frames[n].block, frames[n].at + 1)
      BY <1>2, <1>P, <3>2
    <3> QED
      BY <1>2, <1>3, <2>3, <3>1, <3>3
  <2> QED
    BY <2>4, <2>5
<1>13. ASSUME runs = 0, NEW k \in 1..n, NEW i \in DOMAIN code'[Entry],
              code'[Entry][i].op = "alloca", k # 1 \/ frames'[1].at > i
       PROVE  G[k][code'[Entry][i].var] >= 1
  <2>1. /\ i \in DOMAIN code[Entry] /\ code[Entry][i].op = "alloca"
        /\ code'[Entry][i].var = code[Entry][i].var
    BY <1>13, EntryIsBlock DEF Alike
  <2>2. PICK v \in Stack : v = code[Entry][i].var
    BY <2>1, EntryIsBlock DEF CodeShape, Stack
  <2>3. CASE k # 1 \/ frames[1].at > i
    <3>1. H[k][v] >= 1
      BY <1>4, <1>13, <2>1, <2>2, <2>3
    <3> QED
      BY <1>5, <1>7, <2>1, <2>2, <3>1
  <2>4. CASE k = 1 /\ ~(frames[1].at > i)
    <3>1. n = 1
      BY <1>2, <1>3, <1>13, <2>4
    <3>2. i \in Int
      <4>1. code[Entry] \in Seq(Instruction)
        BY EntryIsBlock DEF TypeOK
      <4> QED
        BY <2>1, <4>1, LenProperties
    <3>3. i = frames[1].at
      BY <1>2, <1>3, <1>13, <2>4, <3>1, <3>2
    <3>4. D[v] >= 1
      BY <1>0, <1>2, <1>13, <2>1, <2>2, <3>1, <3>3 DEF Pushes
    <3>5. G[k][v] = H[k][v] + D[v] /\ H[k][v] \in Nat /\ D[v] \in Nat
      BY <1>5, <1>6, <2>4, <3>1
    <3> QED
      BY <2>1, <2>2, <3>4, <3>5
  <2> QED
    BY <2>3, <2>4
<1>14. StacksFit(G)'
  BY <1>3, <1>8, <1>9, <1>10, <1>11, <1>12, <1>13 DEF StacksFit
<1> QED
  BY <1>3, <1>6, <1>14 DEF StacksAvailable

-----------------------------------------------------------------------------
(* What the steps through the instructions of a block have in common: the  *)
(* last call goes on, the functions of the code stay as they are but for   *)
(* the values that are used.                                               *)
Goes(pushed) ==
  /\ phase = "Rename" /\ phase' = "Rename"
  /\ pushed \in [Stack -> Nat]
  /\ frames' = Advanced(pushed)
  /\ UNCHANGED <<succ, df, kids, phis, places, runs>>
  /\ Alike(code, code')

\* The phi nodes of an alloca are placed whatever the operands are.
LEMMA SamePlaced ==
  ASSUME TypeOK, NEW v, Alike(code, code'), df' = df, mine' = mine, Placed(v)
  PROVE  Placed(v)'
<1>1. StoreBlocks(v)' = StoreBlocks(v)
  BY DEF StoreBlocks, Alike
<1>2. PhiBlocks(v)' = PhiBlocks(v)
  BY DEF PhiBlocks
<1>3. \A P : HoldsFrontiers(v, P)' <=> HoldsFrontiers(v, P)
  BY <1>1 DEF HoldsFrontiers
<1>4. HoldsFrontiers(v, PhiBlocks(v))' <=> HoldsFrontiers(v, PhiBlocks(v))
  BY <1>1, <1>2 DEF HoldsFrontiers
<1> QED
  BY <1>2, <1>3, <1>4 DEF Placed, NoMorePhis

\* What every step within a block keeps, but for the operands.
LEMMA GoesOn ==
  ASSUME IInv, NEW pushed, Goes(pushed),
         code' \in [Block -> Seq(Instruction)],
         varStack' \in [Stack -> Seq(Value)],
         DOMAIN incoming' = phis,
         \A phi \in phis :
           /\ DOMAIN incoming'[phi] \subseteq Preds(phi[1])
           /\ \A p \in DOMAIN incoming'[phi] : incoming'[phi][p] \in Value
  PROVE  TypeOK' /\ CodeShape' /\ PhisPlaced' /\ Walk' /\ PhisComplete' /\ FirstRun'
<1>1. TypeOK /\ CodeShape /\ PhisPlaced /\ Walk /\ FirstRun
  BY DEF IInv
<1>2. /\ phase = "Rename" /\ phase' = "Rename"
      /\ succ' = succ /\ df' = df /\ kids' = kids /\ phis' = phis
      /\ mine' = mine /\ promoted' = promoted /\ todo' = todo
      /\ placing' = placing /\ work' = work /\ worked' = worked /\ runs' = runs
      /\ Alike(code, code')
      /\ pushed \in [Stack -> Nat] /\ frames' = Advanced(pushed)
  BY DEF Goes, places
<1>3. Walk' /\ frames' \in Seq(Activation)
  BY <1>1, <1>2, Advance
<1>4. TypeOK'
  <2>1. \A b : Preds(b)' = Preds(b)
    BY <1>2 DEF Preds, Succs
  <2>2. \A phi \in phis : DOMAIN incoming'[phi] \subseteq Preds(phi[1])'
    BY <2>1
  <2> QED
    BY <1>1, <1>2, <1>3, <2>2 DEF TypeOK
<1>5. CodeShape'
  <2>1. ASSUME NEW b \in Block, NEW i \in DOMAIN code'[b]
        PROVE  /\ code'[b][i].op # "use" => code'[b][i].var \in Var
               /\ code'[b][i].op = "load" =>
                    code'[b][i].val[1] = "load" /\ code'[b][i].val[2] = b
               /\ code'[b][i].op = "alloca" => b = Entry
    <3>1. /\ i \in DOMAIN code[b]
          /\ code'[b][i].op = code[b][i].op /\ code'[b][i].var = code[b][i].var
          /\ code[b][i].op = "load" => code'[b][i].val = code[b][i].val
      BY <1>2 DEF Alike
    <3>2. /\ code[b][i].op # "use" => code[b][i].var \in Var
          /\ code[b][i].op = "load" =>
               code[b][i].val[1] = "load" /\ code[b][i].val[2] = b
          /\ code[b][i].op = "alloca" => b = Entry
      BY <1>1, <3>1 DEF CodeShape
    <3> QED
      BY <3>1, <3>2
  <2>2. ASSUME NEW b \in Block, NEW i \in DOMAIN code'[b], NEW j \in DOMAIN code'[b],
               code'[b][i].op = "load", code'[b][j].op = "load",
               code'[b][i].val = code'[b][j].val
        PROVE  i = j
    <3>1. ASSUME NEW k \in DOMAIN code'[b], code'[b][k].op = "load"
          PROVE  /\ k \in DOMAIN code[b] /\ code[b][k].op = "load"
                 /\ code'[b][k].val = code[b][k].val
      BY <1>2, <3>1 DEF Alike
    <3>2. code[b][i].val = code[b][j].val
      BY <2>2, <3>1
    <3> QED
      BY <1>1, <2>2, <3>1, <3>2 DEF CodeShape
  <2>3. ASSUME runs = 0, NEW v \in Var
        PROVE  \E i \in DOMAIN code'[Entry] :
                 /\ code'[Entry][i].op = "alloca" /\ code'[Entry][i].var = v
                 /\ \A j \in 1..i : code'[Entry][j].op = "alloca"
    <3>1. PICK i \in DOMAIN code[Entry] :
            /\ code[Entry][i].op = "alloca" /\ code[Entry][i].var = v
            /\ \A j \in 1..i : code[Entry][j].op = "alloca"
      BY <1>1, <1>2, <2>3 DEF CodeShape
    <3>2. code[Entry] \in Seq(Instruction)
      BY <1>1, EntryIsBlock DEF TypeOK
    <3>3. \A j \in 1..i : j \in DOMAIN code[Entry]
      BY <3>2, LenProperties
    <3>4. \A j \in DOMAIN code[Entry] : /\ j \in DOMAIN code'[Entry]
                                        /\ code'[Entry][j].op = code[Entry][j].op
                                        /\ code'[Entry][j].var = code[Entry][j].var
      BY <1>2, EntryIsBlock DEF Alike
    <3> QED
      BY <3>1, <3>3, <3>4
  <2> QED
    BY <1>2, <2>1, <2>2, <2>3 DEF CodeShape
<1>6. PhisPlaced'
  <2>1. work = {} /\ \A v \in promoted : Placed(v)
    BY <1>1, <1>2 DEF PhisPlaced
  <2>2. \A v \in promoted : Placed(v)'
    BY <1>1, <1>2, <2>1, SamePlaced
  <2> QED
    BY <1>2, <2>1, <2>2 DEF PhisPlaced
<1> QED
  BY <1>1, <1>2, <1>3, <1>4, <1>5, <1>6 DEF PhisComplete, FirstRun, StacksHoldAValue

\* ... as long as no phi node loses an operand and those of the successors get
\* one at the end of the block.
LEMMA FillsOn ==
  ASSUME IInv, NEW pushed, Goes(pushed),
         \A phi \in phis : DOMAIN incoming[phi] \subseteq DOMAIN incoming'[phi],
         Frame.at = Len(code[Frame.block]) + 1 =>
           \A phi \in phis :
             Frame.block \in Preds(phi[1]) => Frame.block \in DOMAIN incoming'[phi]
  PROVE  PhisFilled'
<1>1. TypeOK /\ Walk /\ PhisFilled
  BY DEF IInv
<1>2. /\ phase = "Rename" /\ phase' = "Rename"
      /\ succ' = succ /\ kids' = kids /\ phis' = phis
      /\ Alike(code, code')
      /\ pushed \in [Stack -> Nat] /\ frames' = Advanced(pushed)
  BY DEF Goes
<1>3. \A b \in Block : \A i \in Int :
        Pending(b, i) => Pending(b, i)' \/ (b = Frame.block /\ i = Frame.at)
  BY <1>1, <1>2, Advance
<1>4. ASSUME NEW phi \in phis, NEW p \in Preds(phi[1])
      PROVE  p \in DOMAIN incoming'[phi] \/ Pending(p, Len(code[p]) + 1)'
  <2>1. p \in Block
    BY DEF Preds
  <2>2. PICK m \in Int : m = Len(code[p]) + 1 /\ m = Len(code'[p]) + 1
    <3>1. code[p] \in Seq(Instruction) /\ Len(code'[p]) = Len(code[p])
      BY <1>1, <1>2, <2>1 DEF TypeOK, Alike
    <3>2. Len(code[p]) + 1 \in Int
      BY <3>1, LenProperties
    <3> QED
      BY <3>1, <3>2
  <2>3. p \in DOMAIN incoming[phi] \/ Pending(p, m)
    BY <1>1, <1>2, <2>2 DEF PhisFilled
  <2>4. CASE p = Frame.block /\ m = Frame.at
    BY <2>2, <2>4
  <2>5. CASE Pending(p, m)'
    BY <2>2, <2>5
  <2> QED
    BY <1>3, <2>1, <2>3, <2>4, <2>5
<1>5. \A b : Preds(b)' = Preds(b)
  BY <1>2 DEF Preds, Succs
<1> QED
  BY <1>2, <1>4, <1>5 DEF PhisFilled

\* ... and as long as a load that is passed is used no more and not pushed.
LEMMA ReplacesOn ==
  ASSUME IInv, NEW pushed, Goes(pushed),
         \A b \in Block : \A i \in DOMAIN code[b] : \A val :
           PromotedLoad(b, i) /\ val = code[b][i].val =>
             /\ Unused(val) \/ (b = Frame.block /\ i = Frame.at) => Unused(val)'
             /\ \A v \in Stack : \A j \in DOMAIN varStack'[v] : varStack'[v][j] # val
  PROVE  LoadsReplaced'
<1>1. TypeOK /\ Walk /\ LoadsReplaced
  BY DEF IInv
<1>2. /\ phase = "Rename" /\ phase' = "Rename"
      /\ succ' = succ /\ kids' = kids /\ promoted' = promoted
      /\ Alike(code, code')
      /\ pushed \in [Stack -> Nat] /\ frames' = Advanced(pushed)
  BY DEF Goes, places
<1>3. \A b \in Block : \A i \in Int :
        Pending(b, i) => Pending(b, i)' \/ (b = Frame.block /\ i = Frame.at)
  BY <1>1, <1>2, Advance
<1>4. ASSUME NEW b \in Block, NEW i \in DOMAIN code'[b], PromotedLoad(b, i)'
      PROVE  /\ Pending(b, i)' \/ Unused(code[b][i].val)'
             /\ \A v \in Stack : \A j \in DOMAIN varStack'[v] :
                  varStack'[v][j] # code'[b][i].val
  <2>1. /\ i \in DOMAIN code[b] /\ PromotedLoad(b, i)
        /\ code'[b][i].val = code[b][i].val
    BY <1>2, <1>4 DEF Alike, PromotedLoad
  <2>2. PICK val : val = code[b][i].val /\ val = code'[b][i].val
    BY <2>1
  <2>3. i \in Int
    <3>1. code[b] \in Seq(Instruction)
      BY <1>1 DEF TypeOK
    <3> QED
      BY <2>1, <3>1, LenProperties
  <2>4. Pending(b, i) \/ Unused(val)
    BY <1>1, <1>2, <2>1, <2>2 DEF LoadsReplaced
  <2>5. Pending(b, i)' \/ Unused(val)'
    BY <1>3, <2>1, <2>2, <2>3, <2>4
  <2>6. Unused(val)' => Unused(code[b][i].val)'
    BY <2>2
  <2> QED
    BY <2>1, <2>2, <2>5, <2>6
<1> QED
  BY <1>2, <1>4 DEF LoadsReplaced

(* The last call.                                                          *)
LEMMA LastCall ==
  ASSUME TypeOK, Walk, phase = "Rename"
  PROVE  /\ Frame \in Activation
         /\ Frame.block \in Block
         /\ Frame.at \in Nat \ {0}
         /\ Frame.kids \subseteq kids[Frame.block]
         /\ Frame.kids \subseteq Block
         /\ Frame.pushed \in [Stack -> Nat]
         /\ code[Frame.block] \in Seq(Instruction)
         /\ Len(code[Frame.block]) \in Nat
         /\ DOMAIN code[Frame.block] = 1..Len(code[Frame.block])
<1>1. /\ Frame = frames[Len(frames)] /\ Len(frames) \in 1..Len(frames)
  BY Frames
<1>2. /\ Frame \in Activation /\ Frame.block \in Block
      /\ Frame.at \in Nat \ {0} /\ Frame.kids \subseteq kids[Frame.block]
      /\ Frame.kids \subseteq Block
      /\ Frame.pushed \in [Stack -> Nat]
  BY <1>1, Frames
<1>3. code[Frame.block] \in Seq(Instruction)
  BY <1>2 DEF TypeOK
<1> QED
  BY <1>2, <1>3, LenProperties

(* The instruction that the last call has come to.                         *)
LEMMA AtInstr ==
  ASSUME TypeOK, Walk, InCode
  PROVE  /\ Frame.block \in Block
         /\ Frame.at \in Nat
         /\ Frame.at \in DOMAIN code[Frame.block]
         /\ code[Frame.block] \in Seq(Instruction)
         /\ Instr = code[Frame.block][Frame.at]
         /\ Instr.var \in Stack
         /\ Instr.val \in Value
         /\ Frame.pushed \in [Stack -> Nat]
<1>1. phase = "Rename" /\ Frame.at <= Len(code[Frame.block])
  BY DEF InCode
<1>2. /\ Frame = frames[Len(frames)] /\ Len(frames) \in 1..Len(frames)
      /\ Frame.block \in Block /\ Frame.at \in Nat \ {0}
      /\ Frame.pushed \in [Stack -> Nat]
  BY <1>1, Frames
<1>3. code[Frame.block] \in Seq(Instruction)
  BY <1>2 DEF TypeOK
<1>4. Frame.at \in DOMAIN code[Frame.block]
  BY <1>1, <1>2, <1>3, LenProperties
<1>5. Instr \in Instruction
  BY <1>3, <1>4, ElementOfSeq, LenProperties DEF Instr
<1>6. Instr.var \in Stack /\ Instr.val \in Value
  BY <1>5 DEF Instruction, Stack
<1> QED
  BY <1>2, <1>3, <1>4, <1>6 DEF Instr

(* Only the first call is in the entry block.                              *)
LEMMA EntryAlone ==
  ASSUME TypeOK, Walk, phase = "Rename"
  PROVE  Frame.block = Entry <=> Len(frames) = 1
<1>1. /\ Len(frames) \in Nat \ {0} /\ Frame = frames[Len(frames)]
      /\ frames[1].block = Entry
      /\ \A k \in 1..Len(frames) : frames[k].block \in Block
      /\ DOMAIN frames = 1..Len(frames)
  BY Frames
<1>2. ASSUME Len(frames) # 1, Frame.block = Entry PROVE FALSE
  <2>1. PICK l \in 1..Len(frames) : l + 1 = Len(frames) /\ l # Len(frames)
    <3>1. PICK n \in Nat \ {0} : n = Len(frames)
      BY <1>1
    <3>2. n - 1 \in 1..n /\ n - 1 # n /\ (n - 1) + 1 = n
      BY <1>2, <3>1
    <3> QED
      BY <3>1, <3>2
  <2>2. l \in DOMAIN frames /\ l # Len(frames)
    BY <1>1, <2>1
  <2>3. frames[l + 1].block \in kids[frames[l].block]
    BY <2>2 DEF Walk
  <2>4. frames[l].block \in Block /\ Entry \in kids[frames[l].block]
    BY <1>1, <1>2, <2>1, <2>3
  <2>5. Entry # frames[l].block /\ Dom(frames[l].block, Entry)
    BY <2>4, Child, EntryIsBlock
  <2> QED
    BY <2>5, DomEntry, EntryIsBlock
<1> QED
  BY <1>1, <1>2

(* A value is pushed on the stack of w.                                    *)
IsPushed(w, x) == varStack' = [varStack EXCEPT ![w] = Append(varStack[w], x)]

\* The stacks after one push.
LEMMA PushOne ==
  ASSUME TypeOK, NEW w \in Stack, NEW x \in Value, IsPushed(w, x)
  PROVE  /\ varStack' \in [Stack -> Seq(Value)]
         /\ \A v \in Stack : v # w => varStack'[v] = varStack[v]
         /\ Len(varStack[w]) \in Nat
         /\ Len(varStack'[w]) = Len(varStack[w]) + 1
         /\ \A j \in 1..Len(varStack[w]) : varStack'[w][j] = varStack[w][j]
         /\ varStack'[w][Len(varStack[w]) + 1] = x
         /\ \A v \in Stack : \A j \in DOMAIN varStack'[v] :
              \/ varStack'[v][j] = x
              \/ j \in DOMAIN varStack[v] /\ varStack'[v][j] = varStack[v][j]
<1>1. varStack \in [Stack -> Seq(Value)] /\ varStack[w] \in Seq(Value)
  BY DEF TypeOK
<1>2. PICK s : s = Append(varStack[w], x)
  OBVIOUS
<1>3. /\ s \in Seq(Value) /\ Len(s) = Len(varStack[w]) + 1
      /\ \A j \in 1..Len(varStack[w]) : s[j] = varStack[w][j]
      /\ s[Len(varStack[w]) + 1] = x
  BY <1>1, <1>2, AppendProperties
<1>4. /\ varStack'[w] = s
      /\ \A v \in Stack : v # w => varStack'[v] = varStack[v]
      /\ varStack' \in [Stack -> Seq(Value)]
  <2>1. varStack' = [varStack EXCEPT ![w] = s]
    BY <1>2 DEF IsPushed
  <2> QED
    BY <1>1, <1>3, <2>1
<1>5. /\ Len(varStack[w]) \in Nat /\ DOMAIN varStack[w] = 1..Len(varStack[w])
      /\ DOMAIN s = 1..Len(s)
  BY <1>1, <1>3, LenProperties
<1>6. ASSUME NEW v \in Stack, NEW j \in DOMAIN varStack'[v]
      PROVE  \/ varStack'[v][j] = x
             \/ j \in DOMAIN varStack[v] /\ varStack'[v][j] = varStack[v][j]
  <2>1. CASE v # w
    BY <1>4, <2>1
  <2>2. CASE v = w
    <3>1. j \in 1..Len(varStack[w]) \/ j = Len(varStack[w]) + 1
      BY <1>3, <1>4, <1>5, <2>2
    <3> QED
      BY <1>3, <1>4, <1>5, <2>2, <3>1
  <2> QED
    BY <2>1, <2>2
<1> QED
  BY <1>3, <1>4, <1>5, <1>6

\* A store pushes and counts; an alloca pushes without counting, which is
\* sound in the first call, whose frame is the last to go.
LEMMA PushesOne ==
  ASSUME TypeOK, Walk, phase = "Rename", NEW w \in Stack, NEW x \in Value,
         IsPushed(w, x),
         Available(succ, code, phis, x, Frame.block, Frame.at + 1),
         NEW pushed \in [Stack -> Nat],
         \/ pushed = [Frame.pushed EXCEPT ![w] = Frame.pushed[w] + 1]
         \/ Len(frames) = 1 /\ pushed = Frame.pushed,
         Len(frames) = 1 /\ Instr.op = "alloca" => Instr.var = w
  PROVE  \E D \in [Stack -> Nat] : Pushes(D, pushed)
<1>1. PICK D \in [Stack -> Nat] : D[w] = 1 /\ \A v \in Stack : v # w => D[v] = 0
  <2>1. [v \in Stack |-> IF v = w THEN 1 ELSE 0] \in [Stack -> Nat]
    OBVIOUS
  <2> QED
    BY <2>1
<1>2. /\ varStack' \in [Stack -> Seq(Value)]
      /\ \A v \in Stack : v # w => varStack'[v] = varStack[v]
      /\ Len(varStack[w]) \in Nat
      /\ Len(varStack'[w]) = Len(varStack[w]) + 1
      /\ \A j \in 1..Len(varStack[w]) : varStack'[w][j] = varStack[w][j]
      /\ varStack'[w][Len(varStack[w]) + 1] = x
  BY PushOne
<1>3. Frame.pushed \in [Stack -> Nat]
  BY Frames
<1>4. ASSUME NEW v \in Stack
      PROVE  /\ Len(varStack'[v]) = Len(varStack[v]) + D[v]
             /\ \A j \in 1..Len(varStack[v]) : varStack'[v][j] = varStack[v][j]
             /\ \A j \in Len(varStack[v]) + 1..Len(varStack[v]) + D[v] :
                  Available(succ, code, phis, varStack'[v][j], Frame.block,
                            Frame.at + 1)
  <2>1. CASE v = w
    <3>1. \A j \in Len(varStack[v]) + 1..Len(varStack[v]) + 1 :
            j = Len(varStack[v]) + 1
      BY <1>2, <2>1
    <3> QED
      BY <1>1, <1>2, <2>1, <3>1
  <2>2. CASE v # w
    <3>1. Len(varStack[v]) \in Nat
      <4>1. varStack[v] \in Seq(Value)
        BY DEF TypeOK
      <4> QED
        BY <4>1, LenProperties
    <3>2. D[v] = 0 /\ varStack'[v] = varStack[v]
      BY <1>1, <1>2, <2>2
    <3>3. Len(varStack[v]) + 1..Len(varStack[v]) + D[v] = {}
      BY <3>1, <3>2
    <3>4. Len(varStack'[v]) = Len(varStack[v]) + D[v]
      <4>1. PICK m \in Nat : m = Len(varStack[v])
        BY <3>1
      <4>2. m = m + D[v] /\ Len(varStack'[v]) = m
        BY <3>2, <4>1
      <4> QED
        BY <4>1, <4>2
    <3>5. \A j \in Len(varStack[v]) + 1..Len(varStack[v]) + D[v] :
            Available(succ, code, phis, varStack'[v][j], Frame.block, Frame.at + 1)
      BY <3>3
    <3>6. \A j \in 1..Len(varStack[v]) : varStack'[v][j] = varStack[v][j]
      BY <3>2
    <3> QED
      BY <3>4, <3>5, <3>6
  <2> QED
    BY <2>1, <2>2
<1>5. ASSUME NEW v \in Stack
      PROVE  /\ Len(frames) # 1 => pushed[v] = Frame.pushed[v] + D[v]
             /\ pushed[v] <= Frame.pushed[v] + D[v]
  <2>1. Frame.pushed[v] \in Nat /\ D[v] \in Nat
    BY <1>3
  <2>2. CASE pushed = [Frame.pushed EXCEPT ![w] = Frame.pushed[w] + 1]
    <3>1. pushed[v] = Frame.pushed[v] + D[v]
      BY <1>1, <1>3, <2>2
    <3> QED
      BY <2>1, <3>1
  <2>3. CASE Len(frames) = 1 /\ pushed = Frame.pushed
    BY <2>1, <2>3
  <2> QED
    BY <2>2, <2>3
<1>6. ASSUME Len(frames) = 1, NEW i \in DOMAIN code[Entry], i = Frame.at,
             code[Entry][i].op = "alloca"
      PROVE  D[code[Entry][i].var] >= 1
  <2>1. Instr = code[Entry][i]
    BY <1>6, EntryAlone DEF Instr
  <2> QED
    BY <1>1, <1>6, <2>1
<1> QED
  BY <1>4, <1>5, <1>6 DEF Pushes

\* No other instruction pushes.
LEMMA PushesNone ==
  ASSUME TypeOK, Walk, phase = "Rename", varStack' = varStack,
         NEW pushed, pushed = Frame.pushed, InCode => Instr.op # "alloca"
  PROVE  \E D \in [Stack -> Nat] : Pushes(D, pushed)
<1>1. PICK D \in [Stack -> Nat] : \A v \in Stack : D[v] = 0
  <2>1. [v \in Stack |-> 0] \in [Stack -> Nat]
    OBVIOUS
  <2> QED
    BY <2>1
<1>2. Frame.pushed \in [Stack -> Nat]
  BY Frames
<1>3. \A v \in Stack : Len(varStack[v]) \in Nat
  <2>1. \A v \in Stack : varStack[v] \in Seq(Value)
    BY DEF TypeOK
  <2> QED
    BY <2>1, LenProperties
<1>4. ASSUME Len(frames) = 1, NEW i \in DOMAIN code[Entry], i = Frame.at,
             code[Entry][i].op = "alloca"
      PROVE  FALSE
  <2>1. Frame.block = Entry /\ Instr = code[Entry][i]
    BY <1>4, EntryAlone DEF Instr
  <2>2. code[Entry] \in Seq(Instruction)
    BY EntryIsBlock DEF TypeOK
  <2>3. i <= Len(code[Entry])
    BY <1>4, <2>2, LenProperties
  <2> QED
    BY <1>4, <2>1, <2>3 DEF InCode
<1>5. ASSUME NEW v \in Stack
      PROVE  /\ Len(varStack'[v]) = Len(varStack[v]) + D[v]
             /\ Len(varStack[v]) + 1..Len(varStack[v]) + D[v] = {}
             /\ pushed[v] = Frame.pushed[v] + D[v]
             /\ pushed[v] <= Frame.pushed[v] + D[v]
  BY <1>1, <1>2, <1>3
<1> QED
  BY <1>4, <1>5 DEF Pushes

\* What stays when the code does.
LEMMA SameCode ==
  ASSUME code' = code, phis' = phis, incoming' = incoming, succ' = succ
  PROVE  /\ Alike(code, code')
         /\ \A val : Unused(val)' <=> Unused(val)
         /\ InSSA(succ, code, phis, incoming) => InSSA(succ, code, phis, incoming)'
BY DEF Alike, Unused

\* An alloca pushes undef.
LEMMA RenameAllocaIInv ==
  ASSUME IInv, RenameAlloca
  PROVE  IInv'
<1>1. /\ TypeOK /\ CodeShape /\ Walk /\ PhisFilled /\ LoadsReplaced
      /\ StacksAvailable /\ InSSA(succ, code, phis, incoming)
  BY DEF IInv
<1>2. /\ InCode /\ phase = "Rename" /\ Instr.op = "alloca"
      /\ IsPushed(Instr.var, Undef)
      /\ frames' = Advanced(Frame.pushed)
      /\ succ' = succ /\ df' = df /\ kids' = kids /\ code' = code /\ phis' = phis
      /\ incoming' = incoming /\ places' = places /\ runs' = runs /\ phase' = phase
  BY DEF RenameAlloca, InCode, IsPushed
<1>3. /\ Frame.block \in Block /\ Frame.at \in Nat
      /\ Frame.at \in DOMAIN code[Frame.block]
      /\ Instr = code[Frame.block][Frame.at]
      /\ Instr.var \in Stack /\ Frame.pushed \in [Stack -> Nat]
      /\ code[Frame.block] \in Seq(Instruction)
      /\ Frame.at <= Len(code[Frame.block])
  BY <1>1, <1>2, AtInstr DEF InCode
<1>4. Len(frames) = 1
  <2>1. Frame.block = Entry
    BY <1>1, <1>2, <1>3 DEF CodeShape
  <2> QED
    BY <1>1, <1>2, <2>1, EntryAlone
<1>5. Undef \in Value /\ Available(succ, code, phis, Undef, Frame.block, Frame.at + 1)
  BY DEF Undef, Value, Available
<1>6. Goes(Frame.pushed)
  BY <1>2, <1>3, SameCode DEF Goes
<1>7. /\ varStack' \in [Stack -> Seq(Value)]
      /\ \A v \in Stack : \A j \in DOMAIN varStack'[v] :
           \/ varStack'[v][j] = Undef
           \/ j \in DOMAIN varStack[v] /\ varStack'[v][j] = varStack[v][j]
  BY <1>1, <1>2, <1>3, <1>5, PushOne
<1>8. TypeOK' /\ CodeShape' /\ PhisPlaced' /\ Walk' /\ PhisComplete' /\ FirstRun'
  <2>1. /\ code' \in [Block -> Seq(Instruction)]
        /\ DOMAIN incoming' = phis
        /\ \A phi \in phis :
             /\ DOMAIN incoming'[phi] \subseteq Preds(phi[1])
             /\ \A p \in DOMAIN incoming'[phi] : incoming'[phi][p] \in Value
    BY <1>1, <1>2 DEF TypeOK
  <2> QED
    BY <1>6, <1>7, <2>1, GoesOn
<1>9. PhisFilled'
  <2>1. Frame.at # Len(code[Frame.block]) + 1
    BY <1>3, LenProperties
  <2> QED
    BY <1>2, <1>6, <2>1, FillsOn
<1>10. LoadsReplaced'
  <2>1. ASSUME NEW b \in Block, NEW i \in DOMAIN code[b], NEW val,
               PromotedLoad(b, i), val = code[b][i].val
        PROVE  /\ Unused(val) \/ (b = Frame.block /\ i = Frame.at) => Unused(val)'
               /\ \A v \in Stack : \A j \in DOMAIN varStack'[v] : varStack'[v][j] # val
    <3>1. ~(b = Frame.block /\ i = Frame.at)
      BY <1>2, <1>3, <2>1 DEF PromotedLoad
    <3>2. Undef # val
      BY <1>1, <2>1 DEF CodeShape, PromotedLoad, Undef
    <3>3. \A v \in Stack : \A j \in DOMAIN varStack[v] : varStack[v][j] # val
      BY <1>1, <1>2, <2>1 DEF LoadsReplaced
    <3> QED
      BY <1>2, <1>7, <3>1, <3>2, <3>3, SameCode
  <2> QED
    BY <1>6, <2>1, ReplacesOn
<1>11. StacksAvailable'
  <2>1. PICK D \in [Stack -> Nat] : Pushes(D, Frame.pushed)
    BY <1>1, <1>2, <1>3, <1>4, <1>5, PushesOne
  <2> QED
    BY <1>1, <1>2, <1>3, <1>6, <2>1, StacksGrow DEF Goes
<1> QED
  BY <1>1, <1>2, <1>8, <1>9, <1>10, <1>11, SameCode DEF IInv

\* A store pushes its value, which is there where the store is.
LEMMA RenameStoreIInv ==
  ASSUME IInv, RenameStore
  PROVE  IInv'
<1>1. /\ TypeOK /\ CodeShape /\ Walk /\ PhisFilled /\ LoadsReplaced
      /\ StacksAvailable /\ InSSA(succ, code, phis, incoming)
  BY DEF IInv
<1> DEFINE pushed == [Frame.pushed EXCEPT ![Instr.var] = Frame.pushed[Instr.var] + 1]
<1>2. /\ InCode /\ phase = "Rename" /\ Instr.op = "store"
      /\ IsPushed(Instr.var, Instr.val)
      /\ frames' = Advanced(pushed)
      /\ succ' = succ /\ df' = df /\ kids' = kids /\ code' = code /\ phis' = phis
      /\ incoming' = incoming /\ places' = places /\ runs' = runs /\ phase' = phase
  BY DEF RenameStore, InCode, IsPushed
<1>3. /\ Frame.block \in Block /\ Frame.at \in Nat
      /\ Frame.at \in DOMAIN code[Frame.block]
      /\ Instr = code[Frame.block][Frame.at]
      /\ Instr.var \in Stack /\ Instr.val \in Value
      /\ Frame.pushed \in [Stack -> Nat]
      /\ code[Frame.block] \in Seq(Instruction)
      /\ Frame.at <= Len(code[Frame.block])
  BY <1>1, <1>2, AtInstr DEF InCode
<1>4. pushed \in [Stack -> Nat]
  <2>1. Frame.pushed \in [Stack -> Nat] /\ Frame.pushed[Instr.var] + 1 \in Nat
    <3>1. Frame.pushed \in [Stack -> Nat] /\ Instr.var \in Stack
      BY <1>3, Zenon
    <3>2. Frame.pushed[Instr.var] \in Nat
      BY <3>1
    <3> QED
      BY <3>1, <3>2
  <2> QED
    BY <2>1
<1>5. /\ Available(succ, code, phis, Instr.val, Frame.block, Frame.at)
      /\ Available(succ, code, phis, Instr.val, Frame.block, Frame.at + 1)
  <2>1. Available(succ, code, phis, Instr.val, Frame.block, Frame.at)
    BY <1>1, <1>2, <1>3 DEF InSSA
  <2>2. \A m \in DOMAIN code[Frame.block] : m \in Int
    BY <1>3, LenProperties
  <2>3. Frame.at \in Int /\ Frame.at + 1 \in Int /\ Frame.at <= Frame.at + 1
    BY <1>3
  <2> QED
    BY <2>1, <2>2, <2>3, AvailableLater
<1> HIDE DEF pushed
<1>6. Goes(pushed)
  BY <1>2, <1>4, SameCode DEF Goes
<1>7. /\ varStack' \in [Stack -> Seq(Value)]
      /\ \A v \in Stack : \A j \in DOMAIN varStack'[v] :
           \/ varStack'[v][j] = Instr.val
           \/ j \in DOMAIN varStack[v] /\ varStack'[v][j] = varStack[v][j]
  BY <1>1, <1>2, <1>3, PushOne
<1>8. TypeOK' /\ CodeShape' /\ PhisPlaced' /\ Walk' /\ PhisComplete' /\ FirstRun'
  <2>1. /\ code' \in [Block -> Seq(Instruction)]
        /\ DOMAIN incoming' = phis
        /\ \A phi \in phis :
             /\ DOMAIN incoming'[phi] \subseteq Preds(phi[1])
             /\ \A p \in DOMAIN incoming'[phi] : incoming'[phi][p] \in Value
    BY <1>1, <1>2 DEF TypeOK
  <2> QED
    BY <1>6, <1>7, <2>1, GoesOn
<1>9. PhisFilled'
  <2>1. Frame.at # Len(code[Frame.block]) + 1
    BY <1>3, LenProperties
  <2> QED
    BY <1>2, <1>6, <2>1, FillsOn
<1>10. LoadsReplaced'
  <2>1. ASSUME NEW b \in Block, NEW i \in DOMAIN code[b], NEW val,
               PromotedLoad(b, i), val = code[b][i].val
        PROVE  /\ Unused(val) \/ (b = Frame.block /\ i = Frame.at) => Unused(val)'
               /\ \A v \in Stack : \A j \in DOMAIN varStack'[v] : varStack'[v][j] # val
    <3>1. ~(b = Frame.block /\ i = Frame.at)
      BY <1>2, <1>3, <2>1 DEF PromotedLoad
    \* The store is of no load that was replaced before.
    <3>2. Instr.val # val
      <4> SUFFICES ASSUME Instr.val = val PROVE FALSE
        OBVIOUS
      <4>1. ~Unused(val)
        BY <1>2, <1>3 DEF Unused
      <4>2. Pending(b, i)
        BY <1>1, <1>2, <2>1, <4>1 DEF LoadsReplaced
      <4>3. val[1] = "load" /\ val[2] = b
        BY <1>1, <2>1 DEF CodeShape, PromotedLoad
      <4>4. /\ Dom(b, Frame.block)
            /\ \E k \in DOMAIN code[b] : /\ code[b][k].op = "load" /\ code[b][k].val = val
                                         /\ b = Frame.block => k < Frame.at
        BY <1>5, <4>3 DEF Available, Dom
      <4>5. b = Frame.block => i < Frame.at
        BY <1>1, <2>1, <4>4 DEF CodeShape, PromotedLoad
      <4>6. b = Frame.block /\ i >= Frame.at
        BY <1>1, <1>2, <4>2, <4>4, NotPendingAbove
      <4>7. i \in Int
        BY <1>3, <4>6, LenProperties
      <4> QED
        BY <1>3, <4>5, <4>6, <4>7
    <3>3. \A v \in Stack : \A j \in DOMAIN varStack[v] : varStack[v][j] # val
      BY <1>1, <1>2, <2>1 DEF LoadsReplaced
    <3> QED
      BY <1>2, <1>7, <3>1, <3>2, <3>3, SameCode
  <2> QED
    BY <1>6, <2>1, ReplacesOn
<1>11. StacksAvailable'
  <2>1. PICK D \in [Stack -> Nat] : Pushes(D, pushed)
    BY <1>1, <1>2, <1>3, <1>4, <1>5, PushesOne DEF pushed
  <2> QED
    BY <1>1, <1>2, <1>4, <1>6, <2>1, StacksGrow DEF Goes
<1> QED
  BY <1>1, <1>2, <1>8, <1>9, <1>10, <1>11, SameCode DEF IInv

\* An instruction that is neither an alloca nor a user of a promoted one.
LEMMA SkipInstrIInv ==
  ASSUME IInv, SkipInstr
  PROVE  IInv'
<1>1. /\ TypeOK /\ CodeShape /\ Walk /\ PhisFilled /\ LoadsReplaced
      /\ StacksAvailable /\ InSSA(succ, code, phis, incoming)
  BY DEF IInv
<1>2. /\ InCode /\ phase = "Rename" /\ Instr.op # "alloca"
      /\ ~(Instr.op = "load" /\ Instr.var \in promoted)
      /\ varStack' = varStack
      /\ frames' = Advanced(Frame.pushed)
      /\ succ' = succ /\ df' = df /\ kids' = kids /\ code' = code /\ phis' = phis
      /\ incoming' = incoming /\ places' = places /\ runs' = runs /\ phase' = phase
  BY DEF SkipInstr, InCode
<1>3. /\ Frame.at \in Nat
      /\ Instr = code[Frame.block][Frame.at]
      /\ Frame.pushed \in [Stack -> Nat]
      /\ code[Frame.block] \in Seq(Instruction)
      /\ Frame.at <= Len(code[Frame.block])
  BY <1>1, <1>2, AtInstr DEF InCode
<1>4. Goes(Frame.pushed)
  BY <1>2, <1>3, SameCode DEF Goes
<1>5. TypeOK' /\ CodeShape' /\ PhisPlaced' /\ Walk' /\ PhisComplete' /\ FirstRun'
  <2>1. /\ code' \in [Block -> Seq(Instruction)]
        /\ varStack' \in [Stack -> Seq(Value)]
        /\ DOMAIN incoming' = phis
        /\ \A phi \in phis :
             /\ DOMAIN incoming'[phi] \subseteq Preds(phi[1])
             /\ \A p \in DOMAIN incoming'[phi] : incoming'[phi][p] \in Value
    BY <1>1, <1>2 DEF TypeOK
  <2> QED
    BY <1>4, <2>1, GoesOn
<1>6. PhisFilled'
  <2>1. Frame.at # Len(code[Frame.block]) + 1
    BY <1>3, LenProperties
  <2> QED
    BY <1>2, <1>4, <2>1, FillsOn
<1>7. LoadsReplaced'
  <2>1. ASSUME NEW b \in Block, NEW i \in DOMAIN code[b], NEW val,
               PromotedLoad(b, i), val = code[b][i].val
        PROVE  /\ Unused(val) \/ (b = Frame.block /\ i = Frame.at) => Unused(val)'
               /\ \A v \in Stack : \A j \in DOMAIN varStack'[v] : varStack'[v][j] # val
    <3>1. ~(b = Frame.block /\ i = Frame.at)
      BY <1>2, <1>3, <2>1 DEF PromotedLoad
    <3>2. \A v \in Stack : \A j \in DOMAIN varStack[v] : varStack[v][j] # val
      BY <1>1, <1>2, <2>1 DEF LoadsReplaced
    <3> QED
      BY <1>2, <3>1, <3>2, SameCode
  <2> QED
    BY <1>4, <2>1, ReplacesOn
<1>8. StacksAvailable'
  <2>1. PICK D \in [Stack -> Nat] : Pushes(D, Frame.pushed)
    BY <1>1, <1>2, PushesNone
  <2> QED
    BY <1>1, <1>2, <1>3, <1>4, <2>1, StacksGrow DEF Goes
<1> QED
  BY <1>1, <1>2, <1>5, <1>6, <1>7, <1>8, SameCode DEF IInv

(* The value on top of a stack is there where the walk has come to.        *)
LEMMA TopValue ==
  ASSUME TypeOK, Walk, StacksAvailable, phase = "Rename",
         NEW v \in Stack, varStack[v] # <<>>
  PROVE  /\ Last(varStack[v]) \in Value
         /\ \E j \in DOMAIN varStack[v] : Last(varStack[v]) = varStack[v][j]
         /\ Available(succ, code, phis, Last(varStack[v]), Frame.block, Frame.at)
<1>1. varStack[v] \in Seq(Value)
  BY DEF TypeOK
<1>2. PICK j : j = Len(varStack[v])
  OBVIOUS
<1>3. j \in 1..j /\ j \in DOMAIN varStack[v] /\ Last(varStack[v]) = varStack[v][j]
  BY <1>1, <1>2, EmptySeq, LenProperties DEF Last
<1>4. varStack[v][j] \in Value
  BY <1>1, <1>2, <1>3, ElementOfSeq
<1>5. Available(succ, code, phis, varStack[v][j], Frame.block, Frame.at)
  <2>1. PICK H \in [DOMAIN frames -> [Stack -> Nat]] : StacksFit(H)
    BY DEF StacksAvailable
  <2>2. PICK n \in DOMAIN frames : n = Len(frames) /\ Frame = frames[n]
    BY Frames
  <2>3. H[n][v] = j
    BY <1>2, <2>1, <2>2 DEF StacksFit
  <2> QED
    BY <1>3, <2>1, <2>2, <2>3 DEF StacksFit
<1> QED
  BY <1>3, <1>4, <1>5

\* A phi node is looked up in a stack there is.
LEMMA AllocaOfIn ==
  ASSUME TypeOK, NEW phi \in phis
  PROVE  AllocaOf(phi) \in Stack
BY DEF TypeOK, AllocaOf, Stack

\* At its end a block gives the phi nodes of its successors the tops of the
\* stacks, which are there at its end.
LEMMA FillPhisIInv ==
  ASSUME IInv, FillPhis
  PROVE  IInv'
<1>1. /\ TypeOK /\ CodeShape /\ Walk /\ PhisFilled /\ LoadsReplaced
      /\ StacksAvailable /\ InSSA(succ, code, phis, incoming)
  BY DEF IInv
<1>2. /\ AtEnd /\ phase = "Rename" /\ Frame.at = Len(code[Frame.block]) + 1
      /\ \A phi \in NextPhis : varStack[AllocaOf(phi)] # <<>>
      /\ incoming' = [phi \in phis |->
           IF phi \in NextPhis
           THEN [p \in DOMAIN incoming[phi] \union {Frame.block} |->
                   IF p = Frame.block THEN Last(varStack[AllocaOf(phi)])
                                      ELSE incoming[phi][p]]
           ELSE incoming[phi]]
      /\ varStack' = varStack
      /\ frames' = Advanced(Frame.pushed)
      /\ succ' = succ /\ df' = df /\ kids' = kids /\ code' = code /\ phis' = phis
      /\ places' = places /\ runs' = runs /\ phase' = phase
  BY DEF FillPhis, Fill, AtEnd
<1>3. /\ Frame.block \in Block /\ Frame.at \in Nat
      /\ Frame.pushed \in [Stack -> Nat]
      /\ code[Frame.block] \in Seq(Instruction)
  BY <1>1, <1>2, LastCall
<1>4. \A phi \in phis : Frame.block \in Preds(phi[1]) <=> phi \in NextPhis
  BY <1>3 DEF NextPhis, PhisOf, Preds
<1>5. ASSUME NEW phi \in phis
      PROVE  /\ DOMAIN incoming[phi] \subseteq DOMAIN incoming'[phi]
             /\ phi \in NextPhis => Frame.block \in DOMAIN incoming'[phi]
             /\ \A p \in DOMAIN incoming'[phi] :
                  \/ /\ p = Frame.block /\ phi \in NextPhis
                     /\ incoming'[phi][p] = Last(varStack[AllocaOf(phi)])
                  \/ /\ p \in DOMAIN incoming[phi]
                     /\ incoming'[phi][p] = incoming[phi][p]
  BY <1>2
<1>6. \A phi \in NextPhis :
        /\ Last(varStack[AllocaOf(phi)]) \in Value
        /\ AllocaOf(phi) \in Stack
        /\ \E j \in DOMAIN varStack[AllocaOf(phi)] :
             Last(varStack[AllocaOf(phi)]) = varStack[AllocaOf(phi)][j]
        /\ Available(succ, code, phis, Last(varStack[AllocaOf(phi)]), Frame.block,
                     Frame.at)
  <2>1. NextPhis \subseteq phis
    BY DEF NextPhis, PhisOf
  <2> QED
    BY <1>1, <1>2, <2>1, AllocaOfIn, TopValue
<1>7. Goes(Frame.pushed)
  BY <1>2, <1>3 DEF Goes, Alike
<1>8. TypeOK' /\ CodeShape' /\ PhisPlaced' /\ Walk' /\ PhisComplete' /\ FirstRun'
  <2>1. /\ code' \in [Block -> Seq(Instruction)]
        /\ varStack' \in [Stack -> Seq(Value)]
        /\ DOMAIN incoming' = phis
    BY <1>1, <1>2 DEF TypeOK
  <2>2. ASSUME NEW phi \in phis, NEW p \in DOMAIN incoming'[phi]
        PROVE  p \in Preds(phi[1]) /\ incoming'[phi][p] \in Value
    <3>1. CASE /\ p = Frame.block /\ phi \in NextPhis
               /\ incoming'[phi][p] = Last(varStack[AllocaOf(phi)])
      BY <1>4, <1>6, <3>1
    <3>2. CASE p \in DOMAIN incoming[phi] /\ incoming'[phi][p] = incoming[phi][p]
      BY <1>1, <3>2 DEF TypeOK
    <3> QED
      BY <1>5, <3>1, <3>2
  <2> HIDE <1>2
  <2> QED
    BY <1>7, <2>1, <2>2, GoesOn
<1>9. PhisFilled'
  BY <1>4, <1>5, <1>7, FillsOn
<1>10. LoadsReplaced'
  <2>1. ASSUME NEW b \in Block, NEW i \in DOMAIN code[b], NEW val,
               PromotedLoad(b, i), val = code[b][i].val
        PROVE  /\ Unused(val) \/ (b = Frame.block /\ i = Frame.at) => Unused(val)'
               /\ \A v \in Stack : \A j \in DOMAIN varStack'[v] : varStack'[v][j] # val
    <3>1. ~(b = Frame.block /\ i = Frame.at)
      <4>1. Len(code[Frame.block]) \in Nat /\ DOMAIN code[Frame.block] = 1..Len(code[Frame.block])
        BY <1>3, LenProperties
      <4> QED
        BY <1>2, <2>1, <4>1
    <3>2. \A v \in Stack : \A j \in DOMAIN varStack[v] : varStack[v][j] # val
      BY <1>1, <1>2, <2>1 DEF LoadsReplaced
    <3>3. \A phi \in NextPhis : Last(varStack[AllocaOf(phi)]) # val
      BY <1>6, <3>2
    <3>4. ASSUME Unused(val) PROVE Unused(val)'
      <4>1. \A b2 \in Block : \A j \in DOMAIN code'[b2] :
              code'[b2][j].op # "load" => code'[b2][j].val # val
        BY <1>2, <3>4 DEF Unused
      <4>2. \A phi \in phis' : \A p \in DOMAIN incoming'[phi] : incoming'[phi][p] # val
        <5> SUFFICES ASSUME NEW phi \in phis, NEW p \in DOMAIN incoming'[phi]
                     PROVE  incoming'[phi][p] # val
          BY <1>2
        <5>1. CASE /\ p = Frame.block /\ phi \in NextPhis
                   /\ incoming'[phi][p] = Last(varStack[AllocaOf(phi)])
          BY <3>3, <5>1
        <5>2. CASE p \in DOMAIN incoming[phi] /\ incoming'[phi][p] = incoming[phi][p]
          BY <3>4, <5>2 DEF Unused
        <5> QED
          BY <1>5, <5>1, <5>2
      <4> QED
        BY <4>1, <4>2 DEF Unused
    <3>5. varStack' = varStack
      BY <1>2
    <3> QED
      BY <3>1, <3>2, <3>4, <3>5
  <2> QED
    BY <1>7, <2>1, ReplacesOn
<1>11. StacksAvailable'
  <2>1. ~InCode
    BY <1>2, <1>3, LenProperties DEF InCode
  <2>2. PICK D \in [Stack -> Nat] : Pushes(D, Frame.pushed)
    BY <1>1, <1>2, <2>1, PushesNone
  <2> QED
    BY <1>1, <1>2, <1>3, <1>7, <2>2, StacksGrow DEF Goes
<1>12. InSSA(succ, code, phis, incoming)'
  <2>1. ASSUME NEW phi \in phis, NEW p \in DOMAIN incoming'[phi]
        PROVE  Available(succ, code, phis, incoming'[phi][p], p, Len(code[p]) + 1)
    <3>1. CASE /\ p = Frame.block /\ phi \in NextPhis
               /\ incoming'[phi][p] = Last(varStack[AllocaOf(phi)])
      BY <1>2, <1>6, <3>1
    <3>2. CASE p \in DOMAIN incoming[phi] /\ incoming'[phi][p] = incoming[phi][p]
      BY <1>1, <3>2 DEF InSSA
    <3> QED
      BY <1>5, <3>1, <3>2
  <2>2. \A b \in Block : \A j \in DOMAIN code[b] :
          code[b][j].op # "load" => Available(succ, code, phis, code[b][j].val, b, j)
    BY <1>1 DEF InSSA
  <2>3. succ' = succ /\ code' = code /\ phis' = phis
    BY <1>2
  <2> QED
    BY <2>1, <2>2, <2>3 DEF InSSA
<1> QED
  BY <1>8, <1>9, <1>10, <1>11, <1>12 DEF IInv

(* A load is known by its value.                                           *)
LEMMA LoadsDiffer ==
  ASSUME CodeShape, NEW b \in Block, NEW i \in DOMAIN code[b], code[b][i].op = "load"
  PROVE  /\ code[b][i].val[1] = "load" /\ code[b][i].val[2] = b
         /\ \A d \in Block : \A j \in DOMAIN code[d] :
              code[d][j].op = "load" /\ code[d][j].val = code[b][i].val =>
                d = b /\ j = i
<1>1. code[b][i].val[1] = "load" /\ code[b][i].val[2] = b
  BY DEF CodeShape
<1>2. ASSUME NEW d \in Block, NEW j \in DOMAIN code[d], code[d][j].op = "load",
             code[d][j].val = code[b][i].val
      PROVE  d = b /\ j = i
  <2>1. d = b
    BY <1>1, <1>2 DEF CodeShape
  <2> QED
    BY <1>2, <2>1 DEF CodeShape
<1> QED
  BY <1>1, <1>2

(* The load that was come to is replaced by the value stored last.         *)
LEMMA CodeWithAlike ==
  ASSUME TypeOK, NEW old, NEW new \in Value
  PROVE  /\ CodeWith(old, new) \in [Block -> Seq(Instruction)]
         /\ Alike(code, CodeWith(old, new))
         /\ \A b \in Block : \A i \in DOMAIN code[b] :
              CodeWith(old, new)[b][i].val =
                IF code[b][i].op # "load" /\ code[b][i].val = old
                THEN new ELSE code[b][i].val
<1> DEFINE c == CodeWith(old, new)
           New(b, i) == IF code[b][i].op # "load" /\ code[b][i].val = old
                        THEN [code[b][i] EXCEPT !.val = new] ELSE code[b][i]
<1>1. c = [b \in Block |-> [i \in DOMAIN code[b] |-> New(b, i)]]
  BY DEF CodeWith
<1>2. ASSUME NEW b \in Block, NEW i \in DOMAIN code[b]
      PROVE  /\ New(b, i) \in Instruction
             /\ New(b, i).op = code[b][i].op /\ New(b, i).var = code[b][i].var
             /\ New(b, i).val = IF code[b][i].op # "load" /\ code[b][i].val = old
                                THEN new ELSE code[b][i].val
  <2>1. code[b] \in Seq(Instruction)
    BY DEF TypeOK
  <2>2. code[b][i] \in Instruction
    BY <2>1, ElementOfSeq, LenProperties
  <2>3. PICK r \in Instruction : r = code[b][i]
    BY <2>2
  <2>4. CASE code[b][i].op # "load" /\ code[b][i].val = old
    <3>1. New(b, i) = [r EXCEPT !.val = new]
      BY <2>3, <2>4
    <3> HIDE DEF New
    <3> QED
      BY <2>3, <2>4, <3>1 DEF Instruction
  <2>5. CASE ~(code[b][i].op # "load" /\ code[b][i].val = old)
    <3>1. New(b, i) = r
      BY <2>3, <2>5
    <3> HIDE DEF New
    <3> QED
      BY <2>3, <2>5, <3>1
  <2> QED
    BY <2>4, <2>5
<1> HIDE DEF c, New
<1>3. ASSUME NEW b \in Block
      PROVE  /\ c[b] \in Seq(Instruction) /\ Len(c[b]) = Len(code[b])
             /\ DOMAIN c[b] = DOMAIN code[b]
             /\ \A i \in DOMAIN code[b] : c[b][i] = New(b, i)
  <2>1. c[b] = [i \in DOMAIN code[b] |-> New(b, i)]
    BY <1>1
  <2>2. code[b] \in Seq(Instruction)
    BY DEF TypeOK
  <2>3. PICK m \in Nat : m = Len(code[b]) /\ DOMAIN code[b] = 1..m
    BY <2>2, LenProperties
  <2>4. c[b] \in [1..m -> Instruction]
    BY <1>2, <2>1, <2>3
  <2>5. c[b] \in Seq(Instruction)
    BY <2>4, SeqDef
  <2>6. Len(c[b]) = m
    BY <2>3, <2>4, <2>5, LenProperties
  <2> QED
    BY <2>1, <2>3, <2>5, <2>6
<1>4. c \in [Block -> Seq(Instruction)]
  <2>1. c = [b \in Block |-> c[b]]
    BY <1>1
  <2> QED
    BY <1>3, <2>1
<1>5. Alike(code, c)
  BY <1>2, <1>3 DEF Alike
<1> QED
  BY <1>2, <1>3, <1>4, <1>5 DEF c

\* A load is replaced by the top of the stack, which is there wherever the load
\* was, since dominance is transitive.
LEMMA RenameLoadIInv ==
  ASSUME IInv, RenameLoad
  PROVE  IInv'
<1>1. /\ TypeOK /\ CodeShape /\ Walk /\ PhisFilled /\ LoadsReplaced
      /\ StacksAvailable /\ InSSA(succ, code, phis, incoming)
  BY DEF IInv
<1>2. PICK old, new :
        /\ old = Instr.val /\ new = Last(varStack[Instr.var])
        /\ code' = CodeWith(old, new)
        /\ incoming' = [phi \in phis |-> [p \in DOMAIN incoming[phi] |->
             IF incoming[phi][p] = old THEN new ELSE incoming[phi][p]]]
  BY DEF RenameLoad
<1>3. /\ InCode /\ phase = "Rename" /\ Instr.op = "load"
      /\ Instr.var \in promoted /\ varStack[Instr.var] # <<>>
      /\ varStack' = varStack
      /\ frames' = Advanced(Frame.pushed)
      /\ succ' = succ /\ df' = df /\ kids' = kids /\ phis' = phis
      /\ places' = places /\ runs' = runs /\ phase' = phase
  BY DEF RenameLoad, InCode
<1>4. /\ Frame.block \in Block /\ Frame.at \in Nat
      /\ Frame.at \in DOMAIN code[Frame.block]
      /\ Instr = code[Frame.block][Frame.at]
      /\ Instr.var \in Stack
      /\ Frame.pushed \in [Stack -> Nat]
      /\ code[Frame.block] \in Seq(Instruction)
      /\ Frame.at <= Len(code[Frame.block])
  BY <1>1, <1>3, AtInstr DEF InCode
<1>5. /\ new \in Value
      /\ \E j \in DOMAIN varStack[Instr.var] : new = varStack[Instr.var][j]
      /\ Available(succ, code, phis, new, Frame.block, Frame.at)
  BY <1>1, <1>2, <1>3, <1>4, TopValue
<1>6. /\ code' \in [Block -> Seq(Instruction)] /\ Alike(code, code')
      /\ \A b \in Block : \A i \in DOMAIN code[b] :
           code'[b][i].val = IF code[b][i].op # "load" /\ code[b][i].val = old
                             THEN new ELSE code[b][i].val
  BY <1>1, <1>2, <1>5, CodeWithAlike
<1>7. \A phi \in phis :
        /\ DOMAIN incoming'[phi] = DOMAIN incoming[phi]
        /\ \A p \in DOMAIN incoming[phi] :
             incoming'[phi][p] = IF incoming[phi][p] = old THEN new ELSE incoming[phi][p]
  BY <1>2
<1>8. DOMAIN incoming' = phis
  BY <1>2
<1>9. Goes(Frame.pushed)
  BY <1>3, <1>4, <1>6 DEF Goes
<1>10. TypeOK' /\ CodeShape' /\ PhisPlaced' /\ Walk' /\ PhisComplete' /\ FirstRun'
  <2>1. varStack' \in [Stack -> Seq(Value)]
    BY <1>1, <1>3 DEF TypeOK
  <2>2. \A phi \in phis :
          /\ DOMAIN incoming'[phi] \subseteq Preds(phi[1])
          /\ \A p \in DOMAIN incoming'[phi] : incoming'[phi][p] \in Value
    <3>1. \A phi \in phis :
            /\ DOMAIN incoming[phi] \subseteq Preds(phi[1])
            /\ \A p \in DOMAIN incoming[phi] : incoming[phi][p] \in Value
      BY <1>1, Zenon DEF TypeOK
    <3> QED
      BY <1>5, <1>7, <3>1
  <2> QED
    BY <1>6, <1>8, <1>9, <2>1, <2>2, GoesOn
<1>11. PhisFilled'
  <2>1. Frame.at # Len(code[Frame.block]) + 1
    BY <1>4, LenProperties
  <2> QED
    BY <1>7, <1>9, <2>1, FillsOn
\* The load of the code that has the value old is the one that was come to.
<1>12. \A b \in Block : \A i \in DOMAIN code[b] :
         code[b][i].op = "load" /\ code[b][i].val = old =>
           b = Frame.block /\ i = Frame.at
  <2>1. code[Frame.block][Frame.at].op = "load" /\ code[Frame.block][Frame.at].val = old
    BY <1>2, <1>3, <1>4
  <2> QED
    BY <1>1, <1>4, <2>1, LoadsDiffer
<1>13. LoadsReplaced'
  <2>1. ASSUME NEW b \in Block, NEW i \in DOMAIN code[b], NEW val,
               PromotedLoad(b, i), val = code[b][i].val
        PROVE  /\ Unused(val) \/ (b = Frame.block /\ i = Frame.at) => Unused(val)'
               /\ \A v \in Stack : \A j \in DOMAIN varStack'[v] : varStack'[v][j] # val
    <3>1. \A v \in Stack : \A j \in DOMAIN varStack[v] : varStack[v][j] # val
      BY <1>1, <1>3, <2>1 DEF LoadsReplaced
    <3>2. new # val
      BY <1>4, <1>5, <3>1
    <3>3. ASSUME Unused(val) \/ (b = Frame.block /\ i = Frame.at) PROVE Unused(val)'
      <4>1. Unused(val) \/ val = old
        BY <1>2, <1>4, <2>1, <3>3
      <4>2. ASSUME NEW d \in Block, NEW j \in DOMAIN code'[d], code'[d][j].op # "load"
            PROVE  code'[d][j].val # val
        <5>1. j \in DOMAIN code[d] /\ code[d][j].op # "load"
          BY <1>6, <4>2 DEF Alike
        <5>2. Unused(val) => code[d][j].val # val
          BY <5>1 DEF Unused
        <5> QED
          BY <1>6, <3>2, <4>1, <5>1, <5>2
      <4>3. ASSUME NEW phi \in phis, NEW p \in DOMAIN incoming'[phi]
            PROVE  incoming'[phi][p] # val
        <5>1. Unused(val) => incoming[phi][p] # val
          BY <1>7 DEF Unused
        <5> QED
          BY <1>7, <3>2, <4>1, <5>1
      <4> QED
        BY <1>3, <4>2, <4>3 DEF Unused
    <3> QED
      BY <1>3, <3>1, <3>3
  <2> QED
    BY <1>9, <2>1, ReplacesOn
<1>14. StacksAvailable'
  <2>1. PICK D \in [Stack -> Nat] : Pushes(D, Frame.pushed)
    BY <1>1, <1>3, PushesNone
  <2> QED
    BY <1>1, <1>3, <1>4, <1>6, <2>1, StacksGrow
\* Where the load was there the new value is.
<1>15. ASSUME NEW b \in Block, NEW j \in Nat, Available(succ, code, phis, old, b, j)
       PROVE  Available(succ, code, phis, new, b, j)
  <2>1. old[1] = "load" /\ old[2] = Frame.block
    <3>1. code[Frame.block][Frame.at].op = "load" /\ code[Frame.block][Frame.at].val = old
      BY <1>2, <1>3, <1>4
    <3> QED
      BY <1>1, <1>4, <3>1, LoadsDiffer
  <2>2. /\ Dom(Frame.block, b)
        /\ \E i \in DOMAIN code[Frame.block] :
             /\ code[Frame.block][i].op = "load" /\ code[Frame.block][i].val = old
             /\ Frame.block = b => i < j
    BY <1>15, <2>1 DEF Available, Dom
  <2>3. Frame.block = b => Frame.at < j
    BY <1>4, <1>12, <2>2
  <2>4. CASE Frame.block = b
    <3>1. \A m \in DOMAIN code[Frame.block] : m \in Int
      BY <1>4, LenProperties
    <3>2. Frame.at \in Int /\ j \in Int /\ Frame.at <= j
      BY <1>4, <2>3, <2>4
    <3> QED
      BY <1>5, <2>4, <3>1, <3>2, AvailableLater
  <2>5. CASE Frame.block # b
    BY <1>1, <1>4, <1>5, <2>2, <2>5, AvailableBelow
  <2> QED
    BY <2>4, <2>5
<1>16. InSSA(succ, code, phis, incoming)'
  <2>1. ASSUME NEW b \in Block, NEW j \in DOMAIN code'[b], code'[b][j].op # "load"
        PROVE  Available(succ, code', phis, code'[b][j].val, b, j)
    <3>1. j \in DOMAIN code[b] /\ code[b][j].op # "load"
      BY <1>6, <2>1 DEF Alike
    <3>2. j \in Nat
      <4>1. code[b] \in Seq(Instruction)
        BY <1>1 DEF TypeOK
      <4> QED
        BY <3>1, <4>1, LenProperties
    <3>3. Available(succ, code, phis, code[b][j].val, b, j)
      BY <1>1, <3>1 DEF InSSA
    <3>4. Available(succ, code, phis, code'[b][j].val, b, j)
      <4>1. code'[b][j].val = IF code[b][j].val = old THEN new ELSE code[b][j].val
        BY <1>6, <3>1
      <4> QED
        BY <1>15, <3>2, <3>3, <4>1
    <3> QED
      BY <1>1, <1>6, <3>4, AvailableSame
  <2>2. ASSUME NEW phi \in phis, NEW p \in DOMAIN incoming'[phi]
        PROVE  Available(succ, code', phis, incoming'[phi][p], p, Len(code'[p]) + 1)
    <3>1. p \in DOMAIN incoming[phi] /\ p \in Block
      BY <1>1, <1>7 DEF TypeOK, Preds
    <3>2. PICK j \in Nat : j = Len(code[p]) + 1 /\ j = Len(code'[p]) + 1
      <4>1. code[p] \in Seq(Instruction) /\ Len(code'[p]) = Len(code[p])
        BY <1>1, <1>6, <3>1 DEF TypeOK, Alike
      <4>2. Len(code[p]) + 1 \in Nat
        BY <4>1, LenProperties
      <4> QED
        BY <4>1, <4>2
    <3>3. Available(succ, code, phis, incoming[phi][p], p, j)
      BY <1>1, <3>1, <3>2 DEF InSSA
    <3>4. Available(succ, code, phis, incoming'[phi][p], p, j)
      <4>1. incoming'[phi][p] = IF incoming[phi][p] = old THEN new ELSE incoming[phi][p]
        BY <1>7, <3>1
      <4> QED
        BY <1>15, <3>1, <3>3, <4>1
    <3>5. Available(succ, code', phis, incoming'[phi][p], p, j)
      BY <1>1, <1>6, <3>1, <3>4, AvailableSame
    <3> QED
      BY <3>2, <3>5
  <2>3. succ' = succ /\ phis' = phis
    BY <1>3
  <2> QED
    BY <2>1, <2>2, <2>3 DEF InSSA
<1> QED
  BY <1>10, <1>11, <1>13, <1>14, <1>16 DEF IInv

-----------------------------------------------------------------------------
(* In the first run the stack of an alloca that was passed is not empty.   *)
LEMMA NotEmpty ==
  ASSUME TypeOK, Walk, StacksAvailable, phase = "Rename", runs = 0,
         NEW i \in DOMAIN code[Entry], code[Entry][i].op = "alloca",
         NEW v \in Var, code[Entry][i].var = v,
         Len(frames) = 1 => Frame.at > i
  PROVE  varStack[v] # <<>>
<1>1. PICK H \in [DOMAIN frames -> [Stack -> Nat]] : StacksFit(H)
  BY DEF StacksAvailable
<1>2. PICK n \in DOMAIN frames : n = Len(frames) /\ Frame = frames[n]
  BY Frames
<1>3. v \in Stack
  BY DEF Stack
<1>4. H[n][v] = Len(varStack[v])
  BY <1>1, <1>2, <1>3 DEF StacksFit
<1>5. n # 1 \/ frames[1].at > i
  BY <1>2
<1>6. H[n][v] >= 1
  BY <1>1, <1>2, <1>5 DEF StacksFit
<1> QED
  BY <1>4, <1>6, EmptySeq

\* In the first run each stack holds at least the undef of its alloca: the
\* allocas are first in the entry block.
LEMMA FirstRunReads ==
  ASSUME IInv, runs = 0
  PROVE  ~ReadEmptyStack
<1>1. TypeOK /\ CodeShape /\ Walk /\ StacksAvailable /\ FirstRun
  BY DEF IInv
<1>2. ASSUME phase = "Rename", NEW v \in Var,
             \A i \in DOMAIN code[Entry] :
               /\ Frame.block = Entry
               /\ \A j \in 1..i : code[Entry][j].op = "alloca"
               => Frame.at > i
      PROVE  varStack[v] # <<>>
  <2>1. PICK i \in DOMAIN code[Entry] :
          /\ code[Entry][i].op = "alloca" /\ code[Entry][i].var = v
          /\ \A j \in 1..i : code[Entry][j].op = "alloca"
    BY <1>1, <1>2 DEF CodeShape
  <2>2. Len(frames) = 1 => Frame.at > i
    BY <1>1, <1>2, <2>1, EntryAlone
  <2> QED
    BY <1>1, <1>2, <2>1, <2>2, NotEmpty
<1>3. ASSUME AtEnd, NEW phi \in NextPhis, varStack[AllocaOf(phi)] = <<>>
      PROVE  FALSE
  <2>1. phase = "Rename" /\ Frame.at = Len(code[Frame.block]) + 1
    BY <1>3 DEF AtEnd
  <2>2. phi \in mine /\ phi \in Block \X Var
    BY <1>1, <1>3 DEF NextPhis, PhisOf, FirstRun, TypeOK
  <2>3. AllocaOf(phi) \in Var
    BY <2>2 DEF AllocaOf
  <2>4. \A i \in DOMAIN code[Entry] : Frame.block = Entry => Frame.at > i
    BY <1>1, <2>1, LastCall
  <2> QED
    BY <1>2, <1>3, <2>1, <2>3, <2>4
<1>4. ASSUME InCode, Instr.op = "load", varStack[Instr.var] = <<>>
      PROVE  FALSE
  <2>1. /\ phase = "Rename" /\ Frame.block \in Block /\ Frame.at \in Nat
        /\ Frame.at \in DOMAIN code[Frame.block]
        /\ Instr = code[Frame.block][Frame.at]
    BY <1>1, <1>4, AtInstr DEF InCode
  <2>2. Instr.var \in Var
    BY <1>1, <1>4, <2>1 DEF CodeShape
  <2>3. ASSUME Frame.block = Entry, NEW i \in DOMAIN code[Entry],
               \A j \in 1..i : code[Entry][j].op = "alloca"
        PROVE  Frame.at > i
    <3>1. Frame.at \notin 1..i
      BY <1>4, <2>1, <2>3
    <3>2. DOMAIN code[Entry] = 1..Len(code[Entry]) /\ Len(code[Entry]) \in Nat
      BY <1>1, <2>1, <2>3, LastCall
    <3> QED
      BY <2>1, <2>3, <3>1, <3>2
  <2> QED
    BY <1>2, <1>4, <2>1, <2>2, <2>3
<1> QED
  BY <1>3, <1>4 DEF ReadEmptyStack

\* So an empty stack is read in a later run only.
LEMMA ReadEmptyStackIInv ==
  ASSUME IInv, ReadEmptyStack
  PROVE  IInv'
<1>1. /\ TypeOK /\ CodeShape /\ PhisPlaced
      /\ InSSA(succ, code, phis, incoming)
  BY DEF IInv
<1>2. /\ phase = "Rename" /\ phase' = "Undefined"
      /\ succ' = succ /\ df' = df /\ kids' = kids /\ code' = code /\ phis' = phis
      /\ incoming' = incoming /\ places' = places /\ varStack' = varStack
      /\ frames' = frames /\ runs' = runs
  BY DEF ReadEmptyStack, AtEnd, InCode
<1>3. /\ mine' = mine /\ promoted' = promoted /\ todo' = todo
      /\ placing' = placing /\ work' = work /\ worked' = worked
  BY <1>2 DEF places
<1>4. runs # 0
  BY FirstRunReads
<1>5. TypeOK'
  <2>1. \A b : Preds(b)' = Preds(b)
    BY <1>2 DEF Preds, Succs
  <2> QED
    BY <1>1, <1>2, <1>3, <2>1 DEF TypeOK
<1>6. CodeShape'
  BY <1>1, <1>2 DEF CodeShape
<1>7. PhisPlaced'
  BY <1>1, <1>2, <1>3 DEF PhisPlaced
<1>8. Walk' /\ PhisFilled' /\ PhisComplete' /\ LoadsReplaced' /\ StacksAvailable'
  BY <1>2 DEF Walk, PhisFilled, PhisComplete, LoadsReplaced, StacksAvailable
<1>9. FirstRun'
  BY <1>2, <1>4 DEF FirstRun
<1> QED
  BY <1>1, <1>2, <1>5, <1>6, <1>7, <1>8, <1>9, SameCode DEF IInv

-----------------------------------------------------------------------------
(* A call of replaceUses() begins                                          *)

\* The phi nodes of a block are there from its beginning.
LEMMA PhiAvailable ==
  ASSUME TypeOK, NEW b \in Block, NEW v, NEW phi \in PhisFor(b, v), NEW c, NEW j
  PROVE  /\ Available(succ, c, phis, Phi(phi[1], phi[2]), b, j)
         /\ Phi(phi[1], phi[2])[1] # "load"
<1>1. phi \in phis /\ phi[1] = b /\ phi \in Block \X Var
  BY DEF PhisFor, PhisOf, TypeOK
<1>2. phi = <<phi[1], phi[2]>>
  BY <1>1
<1>3. Dominates(succ, b, b)
  BY DomSelf DEF Dom
<1> QED
  BY <1>1, <1>2, <1>3 DEF Available, Phi

\* A value on a stack after the phi nodes were pushed was there, or is one.
LEMMA PushedValues ==
  ASSUME TypeOK, NEW b \in Block, NEW v \in Stack, NEW j \in DOMAIN PushPhis(b)[v]
  PROVE  \/ j \in DOMAIN varStack[v] /\ PushPhis(b)[v][j] = varStack[v][j]
         \/ \E phi \in PhisFor(b, v) : PushPhis(b)[v][j] = Phi(phi[1], phi[2])
<1>1. PICK m \in Nat : m = Len(varStack[v]) /\ DOMAIN varStack[v] = 1..m
  <2>1. varStack[v] \in Seq(Value)
    BY DEF TypeOK
  <2> QED
    BY <2>1, LenProperties
<1>2. /\ PushPhis(b) \in [Stack -> Seq(Value)]
      /\ \A k \in 1..m : PushPhis(b)[v][k] = varStack[v][k]
      /\ \A k \in m + 1..Len(PushPhis(b)[v]) :
           \E phi \in PhisFor(b, v) : PushPhis(b)[v][k] = Phi(phi[1], phi[2])
  BY <1>1, Push
<1>3. j \in 1..Len(PushPhis(b)[v]) /\ Len(PushPhis(b)[v]) \in Nat
  <2>1. PushPhis(b)[v] \in Seq(Value)
    BY <1>2
  <2> QED
    BY <2>1, LenProperties
<1>4. j \in 1..m \/ j \in m + 1..Len(PushPhis(b)[v])
  BY <1>3
<1> QED
  BY <1>1, <1>2, <1>4

\* When the work list is empty, all allocas that were looked at have their
\* phi nodes.
LEMMA AllPlaced ==
  ASSUME TypeOK, PhisPlaced, phase = "Place", work = {}, NEW v \in promoted
  PROVE  Placed(v)
<1>1. CASE v # placing
  BY <1>1 DEF PhisPlaced
<1>2. CASE v = placing
  <2>1. /\ worked = StoreBlocks(v) \union PhiBlocks(v)
        /\ \A X \in worked : df[X] \subseteq PhiBlocks(v)
        /\ NoMorePhis(v)
    BY <1>2 DEF PhisPlaced
  <2> QED
    BY <2>1 DEF Placed, HoldsFrontiers
<1> QED
  BY <1>1, <1>2

\* The walk begins in the entry block, which is above all.
LEMMA BeginRenamingIInv ==
  ASSUME IInv, BeginRenaming
  PROVE  IInv'
<1>1. /\ TypeOK /\ CodeShape /\ PhisPlaced /\ Walk /\ FirstRun
      /\ InSSA(succ, code, phis, incoming)
  BY DEF IInv
<1>2. PICK r : r = Call(Entry) /\ frames' = <<r>>
  BY DEF BeginRenaming
<1>3. /\ phase = "Place" /\ phase' = "Rename" /\ work = {}
      /\ varStack' = PushPhis(Entry)
      /\ succ' = succ /\ df' = df /\ kids' = kids /\ code' = code /\ phis' = phis
      /\ incoming' = incoming /\ places' = places /\ runs' = runs
  BY DEF BeginRenaming
<1>4. /\ mine' = mine /\ promoted' = promoted /\ todo' = todo
      /\ placing' = placing /\ work' = work /\ worked' = worked
  BY <1>3 DEF places
<1>5. /\ r \in Activation /\ r.block = Entry /\ r.at = 1 /\ r.kids = kids[Entry]
      /\ r.pushed \in [Stack -> Nat]
      /\ varStack' \in [Stack -> Seq(Value)]
      /\ \A v \in Stack : Len(varStack'[v]) = Len(varStack[v]) + r.pushed[v]
  <2>1. r.pushed \in [Stack -> Nat]
    BY <1>1, <1>2, Push, EntryIsBlock DEF Activation
  <2> QED
    BY <1>1, <1>2, <1>3, <2>1, Push, EntryIsBlock
<1>6. \A v \in Stack : Len(varStack'[v]) = r.pushed[v]
  <2>1. \A v \in Stack : Len(varStack[v]) = 0
    BY <1>1, <1>3 DEF Walk
  <2> QED
    BY <1>5, <2>1
<1>7. \A v \in Stack : \A j \in DOMAIN varStack'[v] :
        \E phi \in PhisFor(Entry, v) : varStack'[v][j] = Phi(phi[1], phi[2])
  <2>1. \A v \in Stack : DOMAIN varStack[v] = {}
    BY <1>1, <1>3 DEF Walk
  <2> QED
    BY <1>1, <1>3, <2>1, PushedValues, EntryIsBlock
<1>8. /\ frames' \in Seq(Activation) /\ Len(frames') = 1
      /\ DOMAIN frames' = {1} /\ frames'[1] = r
  BY <1>2, <1>5
<1>9. TypeOK'
  <2>1. \A b : Preds(b)' = Preds(b)
    BY <1>3 DEF Preds, Succs
  <2> QED
    BY <1>1, <1>3, <1>4, <1>5, <1>8, <2>1 DEF TypeOK
<1>10. CodeShape'
  BY <1>1, <1>3 DEF CodeShape
<1>11. PhisPlaced'
  <2>1. \A v \in promoted : Placed(v)
    BY <1>1, <1>3, AllPlaced
  <2>2. \A v \in promoted : Placed(v)'
    BY <1>1, <1>3, <1>4, <2>1, SamePlaced, SameCode
  <2> QED
    BY <1>3, <1>4, <2>2 DEF PhisPlaced
<1>12. Walk'
  <2>1. frames' # <<>>
    BY <1>8
  <2> QED
    BY <1>3, <1>5, <1>8, <2>1 DEF Walk
<1>13. ASSUME NEW b \in Block, NEW i \in Nat \ {0} PROVE Pending(b, i)'
  <2>1. CASE b = Entry
    <3>1. Frame' = r
      BY <1>8 DEF Frame
    <3> QED
      BY <1>5, <2>1, <3>1 DEF Pending
  <2>2. CASE b # Entry
    <3>1. PICK c \in kids[Entry] : Dom(c, b)
      BY <1>1, <2>2, DomEntry, ChildAbove, EntryIsBlock
    <3>2. Dominates(succ, c, b)'
      BY <1>3, <3>1 DEF Dom
    <3> QED
      BY <1>5, <1>8, <3>1, <3>2 DEF Pending
  <2> QED
    BY <2>1, <2>2
<1>14. PhisFilled'
  <2>1. ASSUME NEW p \in Block PROVE Pending(p, Len(code[p]) + 1)'
    <3>1. PICK i \in Nat \ {0} : i = Len(code[p]) + 1 /\ i = Len(code'[p]) + 1
      <4>1. code[p] \in Seq(Instruction)
        BY <1>1 DEF TypeOK
      <4>2. Len(code[p]) + 1 \in Nat \ {0}
        BY <4>1, LenProperties
      <4> QED
        BY <1>3, <4>2
    <3> QED
      BY <1>13, <3>1
  <2> QED
    BY <2>1 DEF PhisFilled, Preds
<1>15. LoadsReplaced'
  <2>1. ASSUME NEW b \in Block, NEW i \in DOMAIN code'[b], PromotedLoad(b, i)'
        PROVE  /\ Pending(b, i)'
               /\ \A v \in Stack : \A j \in DOMAIN varStack'[v] :
                    varStack'[v][j] # code'[b][i].val
    <3>1. i \in Nat \ {0}
      <4>1. code[b] \in Seq(Instruction) /\ i \in DOMAIN code[b]
        BY <1>1, <1>3 DEF TypeOK
      <4> QED
        BY <4>1, LenProperties
    <3>2. code'[b][i].val[1] = "load"
      BY <1>10, <2>1 DEF CodeShape, PromotedLoad
    <3>3. \A v \in Stack : \A j \in DOMAIN varStack'[v] : varStack'[v][j][1] # "load"
      BY <1>1, <1>7, PhiAvailable, EntryIsBlock
    <3> QED
      BY <1>13, <3>1, <3>2, <3>3
  <2> QED
    BY <1>3, <2>1 DEF LoadsReplaced
<1>16. StacksAvailable'
  <2>1. PICK H \in [{1} -> [Stack -> Nat]] : H[1] = r.pushed
    <3>1. [k \in {1} |-> r.pushed] \in [{1} -> [Stack -> Nat]]
      BY <1>5
    <3> QED
      BY <3>1
  <2>2. \A v \in Stack : H[1][v] \in Nat
    BY <2>1
  <2>3. ASSUME NEW v \in Stack, NEW j \in 1..H[1][v]
        PROVE  Available(succ', code', phis', varStack'[v][j], r.block, r.at)
    <3>1. j \in DOMAIN varStack'[v]
      <4>1. varStack'[v] \in Seq(Value)
        BY <1>5
      <4> QED
        BY <1>6, <2>1, <2>3, <4>1, LenProperties
    <3>2. PICK phi \in PhisFor(Entry, v) : varStack'[v][j] = Phi(phi[1], phi[2])
      BY <1>7, <3>1
    <3>3. Available(succ, code', phis, Phi(phi[1], phi[2]), Entry, r.at)
      BY <1>1, PhiAvailable, EntryIsBlock
    <3> QED
      BY <1>3, <1>5, <3>2, <3>3
  <2>4. \A i \in DOMAIN code'[Entry] : ~(frames'[1].at > i)
    <3>1. code[Entry] \in Seq(Instruction)
      BY <1>1, EntryIsBlock DEF TypeOK
    <3> QED
      BY <1>3, <1>5, <1>8, <3>1, LenProperties
  <2>5. StacksFit(H)'
    <3>1. \A v \in Stack : /\ H[1][v] = Len(varStack'[v])
                           /\ frames'[1].pushed[v] <= H[1][v]
                           /\ \A l \in 1..1 : H[l][v] <= H[1][v]
      BY <1>6, <1>8, <2>1, <2>2
    <3> QED
      BY <1>8, <2>3, <2>4, <3>1 DEF StacksFit
  <2> QED
    BY <1>8, <2>5 DEF StacksAvailable
<1>17. FirstRun' /\ PhisComplete'
  BY <1>1, <1>3, <1>4 DEF FirstRun, StacksHoldAValue, PhisComplete
<1> QED
  BY <1>1, <1>3, <1>9, <1>10, <1>11, <1>12, <1>14, <1>15, <1>16, <1>17, SameCode
  DEF IInv

-----------------------------------------------------------------------------
(* A child of the last call's block is called                              *)

\* The frames after the call.
LEMMA Down ==
  ASSUME TypeOK, Walk, NEW Y \in Block, Descend(Y)
  PROVE  /\ Len(frames') = Len(frames) + 1
         /\ DOMAIN frames' = 1..Len(frames) + 1
         /\ frames' \in Seq(Activation)
         /\ \A k \in 1..Len(frames) :
              /\ frames'[k].block = frames[k].block
              /\ frames'[k].at = frames[k].at
              /\ frames'[k].pushed = frames[k].pushed
              /\ k # Len(frames) => frames'[k] = frames[k]
         /\ frames'[Len(frames)].kids = Frame.kids \ {Y}
         /\ frames'[Len(frames) + 1] = Call(Y)
<1>1. PICK n \in Nat \ {0} : n = Len(frames)
  BY Frames DEF Descend, InTree
<1>2. /\ phase = "Rename" /\ frames \in Seq(Activation)
      /\ n \in 1..n /\ Frame = frames[n] /\ Frame \in Activation
      /\ frames \in [1..n -> Activation]
  BY <1>1, Frames DEF Descend, InTree, TypeOK
<1>3. PICK top : top = [Frame EXCEPT !.kids = Frame.kids \ {Y}]
  OBVIOUS
<1>4. /\ top \in Activation /\ top.kids = Frame.kids \ {Y}
      /\ top.block = Frame.block /\ top.at = Frame.at /\ top.pushed = Frame.pushed
  BY <1>2, <1>3 DEF Activation
<1>5. PICK fr : fr = [frames EXCEPT ![n] = top]
  OBVIOUS
<1>6. fr \in Seq(Activation) /\ Len(fr) = n
  BY <1>1, <1>2, <1>4, <1>5, ExceptSeq
<1>7. fr[n] = top /\ \A k \in 1..n : k # n => fr[k] = frames[k]
  BY <1>2, <1>5
<1>8. PICK c \in Activation : c = Call(Y)
  BY Push
<1>9. frames' = Append(fr, c)
  BY <1>1, <1>3, <1>5, <1>8 DEF Descend
<1>10. /\ frames' \in Seq(Activation) /\ Len(frames') = n + 1
       /\ \A k \in 1..n : frames'[k] = fr[k]
       /\ frames'[n + 1] = c
  BY <1>6, <1>9, AppendProperties
<1>11. \A k \in 1..n : /\ frames'[k].block = frames[k].block
                       /\ frames'[k].at = frames[k].at
                       /\ frames'[k].pushed = frames[k].pushed
                       /\ k # n => frames'[k] = frames[k]
  BY <1>2, <1>4, <1>7, <1>10
<1>12. frames'[n].kids = Frame.kids \ {Y}
  BY <1>2, <1>4, <1>7, <1>10
<1>13. DOMAIN frames' = 1..n + 1
  BY <1>10, LenProperties
<1> QED
  BY <1>1, <1>8, <1>10, <1>11, <1>12, <1>13

\* What was to come is still to come, in the frame of the child or elsewhere.
LEMMA DownWalk ==
  ASSUME TypeOK, Walk, NEW Y \in Block, Descend(Y)
  PROVE  /\ Walk'
         /\ \A b \in Block : \A i \in Nat \ {0} :
              Pending(b, i) => Pending(b, i)' \/ i > Len(code[b]) + 1
<1>1. /\ phase = "Rename" /\ Y \in Frame.kids
      /\ Frame.at > Len(code[Frame.block]) + 1
      /\ succ' = succ /\ kids' = kids /\ code' = code /\ phase' = phase
  BY DEF Descend, InTree
<1>2. PICK n \in Nat \ {0} : n = Len(frames)
  BY <1>1, Frames
<1>3. /\ frames # <<>> /\ frames[1].block = Entry /\ Frame = frames[n]
      /\ DOMAIN frames = 1..n
      /\ Frame.kids \subseteq kids[Frame.block] /\ Frame.block \in Block
      /\ Frame.at \in Nat /\ Len(code[Frame.block]) \in Nat
  BY <1>1, <1>2, Frames, LastCall DEF Walk
<1>4. PICK c : c = Call(Y) /\ c.block = Y /\ c.at = 1 /\ c.kids = kids[Y]
  BY Push
<1>5. /\ Len(frames') = n + 1 /\ DOMAIN frames' = 1..n + 1
      /\ \A k \in 1..n : /\ frames'[k].block = frames[k].block
                         /\ frames'[k].at = frames[k].at
                         /\ k # n => frames'[k] = frames[k]
      /\ frames'[n].kids = Frame.kids \ {Y}
      /\ frames'[n + 1] = c
  BY <1>2, <1>4, Down
<1>6. ASSUME NEW k \in 1..n + 1
      PROVE  /\ frames'[k].kids \subseteq kids[frames'[k].block]
             /\ k # n + 1 =>
                  /\ frames'[k].at > Len(code[frames'[k].block]) + 1
                  /\ frames'[k + 1].block \in kids[frames'[k].block] \ frames'[k].kids
  <2>1. CASE k = n + 1
    BY <1>4, <1>5, <2>1
  <2>2. CASE k = n
    <3>1. k # n + 1 /\ k + 1 = n + 1 /\ k \in 1..n
      BY <2>2
    <3>2. /\ frames'[k].block = Frame.block /\ frames'[k].at = Frame.at
          /\ frames'[k].kids = Frame.kids \ {Y} /\ frames'[k + 1].block = Y
      BY <1>3, <1>4, <1>5, <2>2, <3>1
    <3> QED
      BY <1>1, <1>3, <3>2
  <2>3. CASE k \in 1..n /\ k # n
    <3>1. k + 1 \in 1..n /\ k # n + 1 /\ k \in DOMAIN frames /\ k # Len(frames)
      BY <1>2, <1>3, <2>3
    <3>2. /\ frames[k].kids \subseteq kids[frames[k].block]
          /\ frames[k].at > Len(code[frames[k].block]) + 1
          /\ frames[k + 1].block \in kids[frames[k].block] \ frames[k].kids
      BY <1>1, <3>1 DEF Walk
    <3>3. frames'[k] = frames[k] /\ frames'[k + 1].block = frames[k + 1].block
      BY <1>5, <2>3, <3>1
    <3> QED
      BY <3>2, <3>3
  <2> QED
    BY <2>1, <2>2, <2>3
<1>7. Walk'
  <2>1. frames' # <<>> /\ frames'[1].block = Entry
    BY <1>3, <1>5
  <2> QED
    BY <1>1, <1>5, <1>6, <2>1 DEF Walk
<1>8. ASSUME NEW b \in Block, NEW i \in Nat \ {0}, Pending(b, i), ~(i > Len(code[b]) + 1)
      PROVE  Pending(b, i)'
  <2>1. PICK k \in 1..n : \E d \in frames[k].kids : Dominates(succ, d, b)
    <3>1. ~(b = Frame.block /\ i >= Frame.at)
      BY <1>1, <1>3, <1>8
    <3> QED
      BY <1>3, <1>8, <3>1 DEF Pending
  <2>2. PICK d \in frames[k].kids : Dominates(succ, d, b)
    BY <2>1
  <2>3. CASE d \in frames'[k].kids
    <3>1. k \in DOMAIN frames' /\ Dominates(succ, d, b)'
      BY <1>1, <1>5, <2>2
    <3> QED
      BY <2>3, <3>1 DEF Pending
  <2>4. CASE d \notin frames'[k].kids
    <3>1. d = Y /\ Dom(Y, b)
      BY <1>3, <1>5, <2>2, <2>4 DEF Dom
    <3>2. CASE b = Y
      <4>1. Frame' = c
        BY <1>5 DEF Frame
      <4> QED
        BY <1>4, <3>2, <4>1 DEF Pending
    <3>3. CASE b # Y
      <4>1. PICK e \in kids[Y] : Dom(e, b)
        BY <3>1, <3>3, ChildAbove
      <4>2. n + 1 \in DOMAIN frames' /\ e \in frames'[n + 1].kids /\ Dominates(succ, e, b)'
        BY <1>1, <1>4, <1>5, <4>1 DEF Dom
      <4> QED
        BY <4>2 DEF Pending
    <3> QED
      BY <3>2, <3>3
  <2> QED
    BY <2>3, <2>4
<1> QED
  BY <1>7, <1>8

\* What the parent has on its stacks at its end is there in the child.
LEMMA DownStacks ==
  ASSUME TypeOK, CodeShape, Walk, StacksAvailable, NEW Y \in Block, Descend(Y)
  PROVE  StacksAvailable'
<1>1. /\ phase = "Rename" /\ Y \in Frame.kids
      /\ Frame.at > Len(code[Frame.block]) + 1
      /\ varStack' = PushPhis(Y)
      /\ succ' = succ /\ code' = code /\ phis' = phis /\ runs' = runs /\ phase' = phase
  BY DEF Descend, InTree
<1>2. PICK n \in Nat \ {0} : n = Len(frames)
  BY <1>1, Frames
<1>3. /\ frames[1].block = Entry /\ Frame = frames[n]
      /\ DOMAIN frames = 1..n
      /\ Frame.kids \subseteq kids[Frame.block] /\ Frame.block \in Block
      /\ Frame.at \in Nat
  BY <1>1, <1>2, Frames, LastCall
<1>4. PICK c \in Activation : c = Call(Y) /\ c.block = Y /\ c.at = 1
  BY Push
<1>5. /\ Len(frames') = n + 1 /\ DOMAIN frames' = 1..n + 1
      /\ \A k \in 1..n : /\ frames'[k].block = frames[k].block
                         /\ frames'[k].at = frames[k].at
                         /\ frames'[k].pushed = frames[k].pushed
      /\ frames'[n + 1] = c
  BY <1>2, <1>4, Down
<1>6. PICK H \in [1..n -> [Stack -> Nat]] : StacksFit(H)
  BY <1>1, <1>3 DEF StacksAvailable
<1>7. /\ \A v \in Stack : /\ H[n][v] = Len(varStack[v])
                          /\ frames[1].pushed[v] <= H[1][v]
      /\ \A v \in Stack : \A k \in 1..n :
           /\ k # 1 => H[k][v] = H[k - 1][v] + frames[k].pushed[v]
           /\ \A l \in 1..k : H[l][v] <= H[k][v]
           /\ \A j \in 1..H[k][v] :
                Available(succ, code, phis, varStack[v][j], frames[k].block, frames[k].at)
      /\ runs = 0 =>
           \A k \in 1..n : \A i \in DOMAIN code[Entry] :
             code[Entry][i].op = "alloca" /\ (k # 1 \/ frames[1].at > i) =>
               H[k][code[Entry][i].var] >= 1
  BY <1>2, <1>3, <1>6 DEF StacksFit
<1>8. c.pushed \in [Stack -> Nat]
  BY DEF Activation
<1>9. ASSUME NEW v \in Stack
      PROVE  /\ H[n][v] \in Nat /\ c.pushed[v] \in Nat
             /\ Len(varStack'[v]) = H[n][v] + c.pushed[v]
             /\ \A j \in 1..H[n][v] : varStack'[v][j] = varStack[v][j]
             /\ \A j \in H[n][v] + 1..Len(varStack'[v]) :
                  \E phi \in PhisFor(Y, v) : varStack'[v][j] = Phi(phi[1], phi[2])
  <2>1. PICK m : m = H[n][v] /\ m = Len(varStack[v])
    BY <1>7
  <2>2. m \in Nat /\ c.pushed[v] \in Nat
    BY <1>6, <1>8, <2>1
  <2>3. /\ Len(PushPhis(Y)[v]) = Len(varStack[v]) + Call(Y).pushed[v]
        /\ \A j \in 1..Len(varStack[v]) : PushPhis(Y)[v][j] = varStack[v][j]
        /\ \A j \in Len(varStack[v]) + 1..Len(PushPhis(Y)[v]) :
             \E phi \in PhisFor(Y, v) : PushPhis(Y)[v][j] = Phi(phi[1], phi[2])
    <3>1. \A w \in Stack :
            /\ Len(PushPhis(Y)[w]) = Len(varStack[w]) + Call(Y).pushed[w]
            /\ \A j \in 1..Len(varStack[w]) : PushPhis(Y)[w][j] = varStack[w][j]
            /\ \A j \in Len(varStack[w]) + 1..Len(PushPhis(Y)[w]) :
                 \E phi \in PhisFor(Y, w) : PushPhis(Y)[w][j] = Phi(phi[1], phi[2])
      BY Push, Zenon
    <3> QED
      BY <3>1, Zenon
  <2> QED
    BY <1>1, <1>4, <2>1, <2>2, <2>3
<1>10. PICK G \in [1..n + 1 -> [Stack -> Nat]] :
         /\ \A k \in 1..n : G[k] = H[k]
         /\ \A v \in Stack : G[n + 1][v] = H[n][v] + c.pushed[v]
  <2> DEFINE F == [k \in 1..n + 1 |-> IF k = n + 1
                                      THEN [v \in Stack |-> H[n][v] + c.pushed[v]]
                                      ELSE H[k]]
  <2>1. \A k \in 1..n + 1 : F[k] \in [Stack -> Nat]
    <3>1. \A k \in 1..n : H[k] \in [Stack -> Nat]
      BY <1>6
    <3>2. [v \in Stack |-> H[n][v] + c.pushed[v]] \in [Stack -> Nat]
      BY <1>9
    <3> QED
      BY <3>1, <3>2
  <2>2. F \in [1..n + 1 -> [Stack -> Nat]]
    BY <2>1
  <2>3. \A k \in 1..n : k # n + 1 /\ k \in 1..n + 1
    OBVIOUS
  <2>4. \A k \in 1..n : F[k] = H[k]
    BY <2>3
  <2>5. \A v \in Stack : F[n + 1][v] = H[n][v] + c.pushed[v]
    OBVIOUS
  <2> HIDE DEF F
  <2> QED
    BY <2>2, <2>4, <2>5
<1>11. n + 1 \in 1..n + 1 /\ \A k \in 1..n + 1 : k \in 1..n \/ k = n + 1
  OBVIOUS
<1>12. \A k \in 1..n : \A v \in Stack : H[k][v] \in Nat /\ H[k][v] <= H[n][v]
  BY <1>6, <1>7
<1>13. ASSUME NEW v \in Stack, NEW k \in 1..n + 1, k # 1
       PROVE  G[k][v] = G[k - 1][v] + frames'[k].pushed[v]
  <2>1. CASE k = n + 1
    <3>1. k - 1 = n /\ n \in 1..n
      BY <2>1
    <3> QED
      BY <1>5, <1>10, <2>1, <3>1
  <2>2. CASE k \in 1..n
    <3>1. k - 1 \in 1..n
      BY <1>13, <2>2
    <3>2. H[k][v] = H[k - 1][v] + frames[k].pushed[v]
      BY <1>7, <1>13, <2>2
    <3> QED
      BY <1>5, <1>10, <2>2, <3>1, <3>2
  <2> QED
    BY <1>11, <2>1, <2>2
<1>14. ASSUME NEW v \in Stack, NEW k \in 1..n + 1, NEW l \in 1..k
       PROVE  G[l][v] <= G[k][v]
  <2>1. CASE k \in 1..n
    <3>1. l \in 1..n
      BY <2>1
    <3>2. H[l][v] <= H[k][v]
      BY <1>7, <2>1
    <3> QED
      BY <1>10, <2>1, <3>1, <3>2
  <2>2. CASE k = n + 1 /\ l = n + 1
    <3>1. G[k][v] \in Nat
      BY <1>10
    <3> QED
      BY <2>2, <3>1
  <2>3. CASE k = n + 1 /\ l \in 1..n
    <3>1. G[l][v] = H[l][v] /\ G[k][v] = H[n][v] + c.pushed[v]
      BY <1>10, <2>3
    <3>2. H[l][v] \in Nat /\ H[n][v] \in Nat /\ c.pushed[v] \in Nat /\ H[l][v] <= H[n][v]
      BY <1>9, <1>12, <2>3
    <3>3. \A x, y, z \in Nat : x <= y => x <= y + z
      OBVIOUS
    <3>4. H[l][v] <= H[n][v] + c.pushed[v]
      BY <3>2, <3>3, Zenon
    <3> QED
      BY <3>1, <3>4, Zenon
  <2> QED
    BY <1>11, <2>1, <2>2, <2>3
\* What the last call has is there in the child too.
<1>15. ASSUME NEW v \in Stack, NEW k \in 1..n + 1, NEW j \in 1..G[k][v]
       PROVE  Available(succ, code, phis, varStack'[v][j], frames'[k].block, frames'[k].at)
  <2>1. CASE k \in 1..n
    <3>1. j \in 1..H[k][v] /\ j \in 1..H[n][v]
      BY <1>9, <1>10, <1>12, <2>1
    <3>2. Available(succ, code, phis, varStack[v][j], frames[k].block, frames[k].at)
      BY <1>7, <2>1, <3>1
    <3> QED
      BY <1>5, <1>9, <2>1, <3>1, <3>2
  <2>2. CASE k = n + 1
    <3>1. /\ G[k][v] = H[n][v] + c.pushed[v] /\ G[k][v] = Len(varStack'[v])
          /\ H[n][v] \in Nat /\ c.pushed[v] \in Nat
      BY <1>9, <1>10, <2>2
    <3>2. CASE j \in 1..H[n][v]
      <4>1. Available(succ, code, phis, varStack[v][j], Frame.block, Frame.at)
        BY <1>3, <1>7, <3>2
      <4>2. Y # Frame.block /\ Dom(Frame.block, Y)
        BY <1>1, <1>3, Child
      <4>3. Available(succ, code, phis, varStack[v][j], Y, 1)
        BY <1>3, <4>1, <4>2, AvailableBelow
      <4> QED
        BY <1>4, <1>5, <1>9, <2>2, <3>2, <4>3
    <3>3. CASE j \in H[n][v] + 1..Len(varStack'[v])
      <4>1. PICK phi \in PhisFor(Y, v) : varStack'[v][j] = Phi(phi[1], phi[2])
        BY <1>9, <3>3
      <4>2. Available(succ, code, phis, Phi(phi[1], phi[2]), Y, 1)
        BY PhiAvailable
      <4> QED
        BY <1>4, <1>5, <2>2, <4>1, <4>2
    <3>4. j \in 1..H[n][v] \/ j \in H[n][v] + 1..Len(varStack'[v])
      BY <3>1
    <3> QED
      BY <3>2, <3>3, <3>4
  <2> QED
    BY <1>11, <2>1, <2>2
<1>16. ASSUME runs = 0, NEW k \in 1..n + 1, NEW i \in DOMAIN code[Entry],
              code[Entry][i].op = "alloca", k # 1 \/ frames'[1].at > i
       PROVE  G[k][code[Entry][i].var] >= 1
  <2>1. PICK v \in Stack : v = code[Entry][i].var
    BY <1>16, EntryIsBlock DEF CodeShape, Stack
  <2>2. CASE k \in 1..n
    <3>1. k # 1 \/ frames[1].at > i
      BY <1>5, <1>16, <2>2
    <3>2. H[k][v] >= 1
      BY <1>7, <1>16, <2>1, <2>2, <3>1
    <3> QED
      BY <1>10, <2>1, <2>2, <3>2
  <2>3. CASE k = n + 1
    <3>1. n # 1 \/ frames[1].at > i
      <4> SUFFICES ASSUME n = 1 PROVE frames[1].at > i
        OBVIOUS
      <4>1. code[Entry] \in Seq(Instruction) /\ Frame.block = Entry
        BY <1>3, EntryIsBlock DEF TypeOK
      <4>2. i \in 1..Len(code[Entry]) /\ Len(code[Entry]) \in Nat
        BY <4>1, LenProperties
      <4> QED
        BY <1>1, <1>3, <4>1, <4>2
    <3>2. H[n][v] >= 1
      <4>1. n \in 1..n
        OBVIOUS
      <4> QED
        BY <1>7, <1>16, <2>1, <3>1, <4>1
    <3>3. G[k][v] = H[n][v] + c.pushed[v] /\ H[n][v] \in Nat /\ c.pushed[v] \in Nat
      BY <1>9, <1>10, <2>3
    <3> QED
      BY <2>1, <3>2, <3>3
  <2> QED
    BY <1>11, <2>2, <2>3
<1>17. ASSUME NEW v \in Stack
       PROVE  G[n + 1][v] = Len(varStack'[v]) /\ frames'[1].pushed[v] <= G[1][v]
  <2>1. 1 \in 1..n
    OBVIOUS
  <2>2. G[n + 1][v] = Len(varStack'[v])
    BY <1>9, <1>10, Zenon
  <2>3. frames'[1].pushed[v] = frames[1].pushed[v] /\ G[1] = H[1]
    BY <1>5, <1>10, <2>1, Zenon
  <2>4. frames[1].pushed[v] <= H[1][v]
    BY <1>7, Zenon
  <2> QED
    BY <2>2, <2>3, <2>4, Zenon
<1>18. StacksFit(G)'
  BY <1>1, <1>5, <1>13, <1>14, <1>15, <1>16, <1>17 DEF StacksFit
<1> QED
  BY <1>5, <1>18 DEF StacksAvailable

\* A child of the dominator tree is visited.
LEMMA DescendIInv ==
  ASSUME IInv, NEW Y \in Block, Descend(Y)
  PROVE  IInv'
<1>1. /\ TypeOK /\ CodeShape /\ PhisPlaced /\ Walk /\ PhisFilled /\ LoadsReplaced
      /\ StacksAvailable /\ FirstRun /\ InSSA(succ, code, phis, incoming)
  BY DEF IInv
<1>2. /\ phase = "Rename" /\ phase' = phase
      /\ varStack' = PushPhis(Y)
      /\ succ' = succ /\ df' = df /\ kids' = kids /\ code' = code /\ phis' = phis
      /\ incoming' = incoming /\ places' = places /\ runs' = runs
  BY DEF Descend, InTree
<1>3. /\ mine' = mine /\ promoted' = promoted /\ todo' = todo
      /\ placing' = placing /\ work' = work /\ worked' = worked
  BY <1>2 DEF places
<1>4. TypeOK'
  <2>1. \A b : Preds(b)' = Preds(b)
    BY <1>2 DEF Preds, Succs
  <2>2. varStack' \in [Stack -> Seq(Value)] /\ frames' \in Seq(Activation)
    BY <1>1, <1>2, Push, Down
  <2> QED
    BY <1>1, <1>2, <1>3, <2>1, <2>2 DEF TypeOK
<1>5. CodeShape'
  BY <1>1, <1>2 DEF CodeShape
<1>6. PhisPlaced'
  <2>1. \A v \in promoted : Placed(v)'
    <3>1. \A v \in promoted : Placed(v)
      BY <1>1, <1>2 DEF PhisPlaced
    <3> QED
      BY <1>1, <1>2, <1>3, <3>1, SamePlaced, SameCode
  <2> QED
    BY <1>1, <1>2, <1>3, <2>1 DEF PhisPlaced
<1>7. /\ Walk'
      /\ \A b \in Block : \A i \in Nat \ {0} :
           Pending(b, i) => Pending(b, i)' \/ i > Len(code[b]) + 1
  BY <1>1, DownWalk
<1>8. PhisFilled'
  <2>1. ASSUME NEW phi \in phis, NEW p \in Preds(phi[1])
        PROVE  p \in DOMAIN incoming'[phi] \/ Pending(p, Len(code[p]) + 1)'
    <3>1. p \in Block
      BY DEF Preds
    <3>2. PICK i \in Nat \ {0} : i = Len(code[p]) + 1 /\ i = Len(code'[p]) + 1
      <4>1. code[p] \in Seq(Instruction)
        BY <1>1, <3>1 DEF TypeOK
      <4>2. Len(code[p]) + 1 \in Nat \ {0}
        BY <4>1, LenProperties
      <4> QED
        BY <1>2, <4>2
    <3>3. p \in DOMAIN incoming[phi] \/ Pending(p, i)
      BY <1>1, <1>2, <3>2 DEF PhisFilled
    <3>4. ~(i > Len(code[p]) + 1)
      BY <3>2
    <3>5. p \in DOMAIN incoming[phi] \/ Pending(p, i)'
      BY <1>7, <3>1, <3>3, <3>4
    <3> QED
      BY <1>2, <3>2, <3>5
  <2>2. \A b : Preds(b)' = Preds(b)
    BY <1>2 DEF Preds, Succs
  <2>3. phis' = phis
    BY <1>2
  <2> QED
    BY <2>1, <2>2, <2>3 DEF PhisFilled
<1>9. LoadsReplaced'
  <2>1. ASSUME NEW b \in Block, NEW i \in DOMAIN code[b], PromotedLoad(b, i)
        PROVE  /\ Pending(b, i)' \/ Unused(code[b][i].val)'
               /\ \A v \in Stack : \A j \in DOMAIN varStack'[v] :
                    varStack'[v][j] # code[b][i].val
    <3>1. PICK val : val = code[b][i].val /\ val = code'[b][i].val
      BY <1>2
    <3>2. i \in Nat \ {0} /\ ~(i > Len(code[b]) + 1)
      <4>1. code[b] \in Seq(Instruction)
        BY <1>1 DEF TypeOK
      <4>2. i \in 1..Len(code[b]) /\ Len(code[b]) \in Nat
        BY <4>1, LenProperties
      <4> QED
        BY <4>2
    <3>3. Pending(b, i) \/ Unused(val)
      BY <1>1, <1>2, <2>1, <3>1 DEF LoadsReplaced
    <3>4. Pending(b, i)' \/ Unused(val)'
      BY <1>2, <1>7, <3>2, <3>3, SameCode
    <3>5. ASSUME NEW v \in Stack, NEW j \in DOMAIN varStack'[v]
          PROVE  varStack'[v][j] # val
      <4>0. code[b][i].op = "load"
        BY <2>1 DEF PromotedLoad
      <4>1. val[1] = "load"
        <5>1. code[b][i].val[1] = "load"
          BY <1>1, <4>0, LoadsDiffer
        <5> QED
          BY <3>1, <5>1
      <4>2. j \in DOMAIN varStack[v] => varStack[v][j] # val
        BY <1>1, <1>2, <2>1, <3>1 DEF LoadsReplaced
      <4>3. \/ j \in DOMAIN varStack[v] /\ varStack'[v][j] = varStack[v][j]
            \/ \E phi \in PhisFor(Y, v) : varStack'[v][j] = Phi(phi[1], phi[2])
        BY <1>1, <1>2, PushedValues
      <4>4. \A phi \in PhisFor(Y, v) : Phi(phi[1], phi[2])[1] # "load"
        BY <1>1, PhiAvailable
      <4> QED
        BY <4>1, <4>2, <4>3, <4>4
    <3>6. Unused(val)' => Unused(code[b][i].val)'
      BY <3>1
    <3> QED
      BY <3>1, <3>4, <3>5, <3>6
  <2>2. \A b \in Block : \A i : PromotedLoad(b, i)' <=> PromotedLoad(b, i)
    BY <1>2, <1>3 DEF PromotedLoad
  <2>3. code' = code /\ phase' = "Rename"
    BY <1>2
  <2> QED
    BY <2>1, <2>2, <2>3 DEF LoadsReplaced
<1>10. StacksAvailable'
  BY <1>1, DownStacks
<1>11. FirstRun' /\ PhisComplete'
  BY <1>1, <1>2, <1>3 DEF FirstRun, StacksHoldAValue, PhisComplete
<1> QED
  BY <1>1, <1>2, <1>4, <1>5, <1>6, <1>7, <1>8, <1>9, <1>10, <1>11, SameCode DEF IInv

-----------------------------------------------------------------------------
(* The last call returns                                                   *)

\* The frames after the return.
LEMMA Up ==
  ASSUME TypeOK, Walk, Return, NEW n \in Nat \ {0}, n = Len(frames)
  PROVE  /\ frames' \in Seq(Activation)
         /\ Len(frames') = n - 1
         /\ DOMAIN frames' = 1..n - 1
         /\ \A k \in 1..n - 1 : frames'[k] = frames[k]
         /\ varStack' \in [Stack -> Seq(Value)]
         /\ \A v \in Stack :
              /\ Len(varStack[v]) \in Nat /\ Frame.pushed[v] \in Nat
              /\ Frame.pushed[v] <= Len(varStack[v]) =>
                   Len(varStack'[v]) = Len(varStack[v]) - Frame.pushed[v]
              /\ \A j \in DOMAIN varStack'[v] :
                   j \in DOMAIN varStack[v] /\ varStack'[v][j] = varStack[v][j]
<1>1. /\ frames' = SubSeq(frames, 1, n - 1)
      /\ varStack' = [v \in DOMAIN varStack |->
           SubSeq(varStack[v], 1, Len(varStack[v]) - Frame.pushed[v])]
      /\ phase = "Rename"
  BY DEF Return, InTree, Front
<1>2. frames \in Seq(Activation) /\ varStack \in [Stack -> Seq(Value)]
  BY DEF TypeOK
<1>3. /\ frames' \in Seq(Activation) /\ Len(frames') = n - 1
      /\ \A k \in 1..n - 1 : frames'[k] = frames[k]
  <2>1. PICK m \in Nat : m = n - 1
    OBVIOUS
  <2>2. \A k \in 1..m : frames[k] \in Activation
    BY <1>2, <2>1, ElementOfSeq
  <2>3. /\ SubSeq(frames, 1, m) \in Seq(Activation)
        /\ Len(SubSeq(frames, 1, m)) = IF 1 <= m THEN m - 1 + 1 ELSE 0
        /\ \A k \in 1..m - 1 + 1 : SubSeq(frames, 1, m)[k] = frames[1 + k - 1]
    BY <2>2, SubSeqProperties
  <2> QED
    BY <1>1, <2>1, <2>3
<1>4. DOMAIN frames' = 1..n - 1
  BY <1>3, LenProperties
<1>5. ASSUME NEW v \in Stack
      PROVE  /\ varStack'[v] \in Seq(Value)
             /\ Len(varStack[v]) \in Nat /\ Frame.pushed[v] \in Nat
             /\ Frame.pushed[v] <= Len(varStack[v]) =>
                  Len(varStack'[v]) = Len(varStack[v]) - Frame.pushed[v]
             /\ \A j \in DOMAIN varStack'[v] :
                  j \in DOMAIN varStack[v] /\ varStack'[v][j] = varStack[v][j]
  <2>1. PICK s \in Seq(Value) : s = varStack[v]
    BY <1>2
  <2>2. PICK l \in Nat : l = Len(s) /\ DOMAIN s = 1..l
    BY <2>1, LenProperties
  <2>3. PICK p \in Nat : p = Frame.pushed[v]
    BY <1>1, LastCall
  <2>4. PICK m \in Int : m = l - p
    OBVIOUS
  <2>5. \A k \in 1..m : s[k] \in Value
    <3>1. \A k \in 1..m : k \in 1..l
      BY <2>4
    <3> QED
      BY <2>1, <2>2, <3>1, ElementOfSeq
  <2>6. PICK t : t = SubSeq(s, 1, m)
    OBVIOUS
  <2>7. /\ t \in Seq(Value)
        /\ Len(t) = IF 1 <= m THEN m - 1 + 1 ELSE 0
        /\ \A k \in 1..m - 1 + 1 : t[k] = s[1 + k - 1]
    BY <2>5, <2>6, SubSeqProperties
  <2>8. varStack'[v] = t
    BY <1>1, <1>2, <2>1, <2>2, <2>3, <2>4, <2>6
  <2>9. DOMAIN t = 1..Len(t)
    BY <2>7, LenProperties
  <2>10. p <= l => Len(t) = l - p
    BY <2>4, <2>7
  <2>11. ASSUME NEW j \in DOMAIN t PROVE j \in 1..l /\ t[j] = s[j]
    <3>1. j \in 1..m /\ j \in Int /\ 1 + j - 1 = j /\ m - 1 + 1 = m
      BY <2>7, <2>9
    <3>2. j \in 1..l
      BY <2>4, <3>1
    <3> QED
      BY <2>7, <3>1, <3>2
  <2> QED
    BY <2>1, <2>2, <2>3, <2>7, <2>8, <2>10, <2>11
<1>6. varStack' \in [Stack -> Seq(Value)]
  <2>1. DOMAIN varStack' = Stack /\ varStack' = [v \in Stack |-> varStack'[v]]
    BY <1>1, <1>2
  <2> QED
    BY <1>5, <2>1
<1> QED
  BY <1>3, <1>4, <1>5, <1>6

(* What is to come was not to come in the call that returns.               *)
LEMMA UpPending ==
  ASSUME TypeOK, Walk, Return, NEW n \in Nat \ {0}, n = Len(frames),
         NEW b \in Block, NEW i \in Nat \ {0}, Pending(b, i)
  PROVE  (n # 1 /\ Pending(b, i)') \/ i > Len(code[b]) + 1
<1>1. /\ phase = "Rename" /\ Frame.kids = {}
      /\ Frame.at > Len(code[Frame.block]) + 1 /\ succ' = succ
  BY DEF Return, InTree
<1>2. DOMAIN frames = 1..n /\ Frame = frames[n] /\ Frame.at \in Nat
      /\ Len(code[Frame.block]) \in Nat
  BY <1>1, Frames, LastCall
<1>3. CASE b = Frame.block /\ i >= Frame.at
  BY <1>1, <1>2, <1>3
<1>4. CASE \E k \in DOMAIN frames : \E c \in frames[k].kids : Dominates(succ, c, b)
  <2>1. PICK k \in 1..n : \E c \in frames[k].kids : Dominates(succ, c, b)
    BY <1>2, <1>4
  <2>2. k # n
    BY <1>1, <1>2, <2>1
  <2>3. k \in 1..n - 1 /\ n # 1
    BY <2>2
  <2>4. k \in DOMAIN frames' /\ frames'[k] = frames[k]
    BY <2>3, Up
  <2> QED
    BY <1>1, <2>1, <2>3, <2>4 DEF Pending
<1> QED
  BY <1>3, <1>4 DEF Pending

\* Popping leaves of each stack what the caller had.
LEMMA UpStacks ==
  ASSUME TypeOK, CodeShape, Walk, StacksAvailable, Return,
         NEW n \in Nat \ {0}, n = Len(frames), n # 1
  PROVE  StacksAvailable'
<1>1. /\ phase = "Rename"
      /\ succ' = succ /\ code' = code /\ phis' = phis /\ runs' = runs
  BY DEF Return, InTree
<1>2. PICK m \in Nat \ {0} : m = n - 1 /\ m \in 1..n /\ m # n
  <2>1. n - 1 \in Nat \ {0} /\ n - 1 \in 1..n /\ n - 1 # n
    OBVIOUS
  <2> QED
    BY <2>1
<1>3. DOMAIN frames = 1..n /\ Frame = frames[n]
  BY <1>1, Frames
<1>4. /\ Len(frames') = m /\ DOMAIN frames' = 1..m
      /\ \A k \in 1..m : frames'[k] = frames[k]
  BY <1>2, Up
<1>5. PICK H \in [1..n -> [Stack -> Nat]] : StacksFit(H)
  BY <1>1, <1>3 DEF StacksAvailable
<1>6. /\ \A v \in Stack : /\ H[n][v] = Len(varStack[v])
                          /\ frames[1].pushed[v] <= H[1][v]
      /\ \A v \in Stack : \A k \in 1..n :
           /\ k # 1 => H[k][v] = H[k - 1][v] + frames[k].pushed[v]
           /\ \A l \in 1..k : H[l][v] <= H[k][v]
           /\ \A j \in 1..H[k][v] :
                Available(succ, code, phis, varStack[v][j], frames[k].block, frames[k].at)
      /\ runs = 0 =>
           \A k \in 1..n : \A i \in DOMAIN code[Entry] :
             code[Entry][i].op = "alloca" /\ (k # 1 \/ frames[1].at > i) =>
               H[k][code[Entry][i].var] >= 1
  BY <1>3, <1>5 DEF StacksFit
<1>7. PICK G \in [1..m -> [Stack -> Nat]] : \A k \in 1..m : G[k] = H[k]
  <2>1. \A k \in 1..m : H[k] \in [Stack -> Nat]
    BY <1>2, <1>5
  <2>2. [k \in 1..m |-> H[k]] \in [1..m -> [Stack -> Nat]]
    BY <2>1
  <2> QED
    BY <2>2
<1>8. 1..m \subseteq 1..n /\ 1 \in 1..m /\ m \in 1..m /\ n \in 1..n
  BY <1>2
<1>9. ASSUME NEW v \in Stack
      PROVE  /\ H[m][v] = Len(varStack'[v])
             /\ \A j \in 1..H[m][v] : varStack'[v][j] = varStack[v][j]
  <2>1. /\ H[n][v] = H[m][v] + Frame.pushed[v]
        /\ H[n][v] \in Nat /\ H[m][v] \in Nat
    <3>1. n \in 1..n /\ m \in 1..n /\ n # 1
      BY <1>8
    <3>2. H[n][v] = H[n - 1][v] + frames[n].pushed[v]
      BY <1>6, <3>1, Zenon
    <3>3. H[n] \in [Stack -> Nat] /\ H[m] \in [Stack -> Nat]
      BY <1>5, <3>1, Zenon
    <3> QED
      BY <1>2, <1>3, <3>2, <3>3, Zenon
  <2>2. /\ Frame.pushed[v] \in Nat /\ varStack'[v] \in Seq(Value)
        /\ Frame.pushed[v] <= Len(varStack[v]) =>
             Len(varStack'[v]) = Len(varStack[v]) - Frame.pushed[v]
        /\ \A j \in DOMAIN varStack'[v] : varStack'[v][j] = varStack[v][j]
    BY Up
  <2>3. H[n][v] = Len(varStack[v])
    BY <1>6
  <2>4. Len(varStack'[v]) = H[m][v]
    <3>2. /\ Frame.pushed[v] <= H[n][v]
          /\ H[n][v] - Frame.pushed[v] = H[m][v]
      <4>1. Frame.pushed[v] \in Nat
        BY <2>2, Zenon
      <4>2. PICK x \in Nat, y \in Nat, z \in Nat :
              x = H[n][v] /\ y = H[m][v] /\ z = Frame.pushed[v]
        BY <2>1, <4>1, Zenon
      <4>3. x = y + z
        BY <2>1, <4>2, Zenon
      <4>4. z <= x /\ x - z = y
        BY <4>3
      <4> QED
        BY <4>2, <4>4, Zenon
    <3> QED
      BY <2>2, <2>3, <3>2, Zenon
  <2> QED
    BY <2>2, <2>4, LenProperties
<1>10. ASSUME NEW v \in Stack, NEW k \in 1..m, k # 1
       PROVE  G[k][v] = G[k - 1][v] + frames'[k].pushed[v]
  <2>1. k - 1 \in 1..m
    BY <1>10
  <2>2. H[k][v] = H[k - 1][v] + frames[k].pushed[v]
    BY <1>6, <1>8, <1>10
  <2> QED
    BY <1>4, <1>7, <2>1, <2>2
<1>11. ASSUME NEW v \in Stack, NEW k \in 1..m, NEW l \in 1..k
       PROVE  G[l][v] <= G[k][v]
  <2>1. l \in 1..m
    OBVIOUS
  <2>2. H[l][v] <= H[k][v]
    BY <1>6, <1>8
  <2> QED
    BY <1>7, <2>1, <2>2
<1>12. ASSUME NEW v \in Stack, NEW k \in 1..m, NEW j \in 1..G[k][v]
       PROVE  Available(succ, code, phis, varStack'[v][j], frames'[k].block, frames'[k].at)
  <2>1. G[k][v] = H[k][v] /\ H[k][v] \in Nat /\ H[m][v] \in Nat
    BY <1>5, <1>7, <1>8
  <2>2. H[k][v] <= H[m][v]
    BY <1>6, <1>8
  <2>3. j \in 1..H[k][v] /\ j \in 1..H[m][v]
    BY <2>1, <2>2
  <2>4. Available(succ, code, phis, varStack[v][j], frames[k].block, frames[k].at)
    BY <1>6, <1>8, <2>3
  <2> QED
    BY <1>4, <1>9, <2>3, <2>4
<1>13. ASSUME runs = 0, NEW k \in 1..m, NEW i \in DOMAIN code[Entry],
              code[Entry][i].op = "alloca", k # 1 \/ frames'[1].at > i
       PROVE  G[k][code[Entry][i].var] >= 1
  <2>1. k # 1 \/ frames[1].at > i
    BY <1>4, <1>8, <1>13
  <2> QED
    BY <1>6, <1>7, <1>8, <1>13, <2>1
<1>14. ASSUME NEW v \in Stack
       PROVE  G[m][v] = Len(varStack'[v]) /\ frames'[1].pushed[v] <= G[1][v]
  BY <1>4, <1>6, <1>7, <1>8, <1>9
<1>15. StacksFit(G)'
  BY <1>1, <1>4, <1>10, <1>11, <1>12, <1>13, <1>14 DEF StacksFit
<1> QED
  BY <1>4, <1>15 DEF StacksAvailable

\* A call returns; the first one ends the walk.
LEMMA ReturnIInv ==
  ASSUME IInv, Return
  PROVE  IInv'
<1>1. /\ TypeOK /\ CodeShape /\ PhisPlaced /\ Walk /\ PhisFilled /\ LoadsReplaced
      /\ StacksAvailable /\ FirstRun /\ InSSA(succ, code, phis, incoming)
  BY DEF IInv
<1>2. /\ phase = "Rename"
      /\ succ' = succ /\ df' = df /\ kids' = kids /\ code' = code /\ phis' = phis
      /\ incoming' = incoming /\ places' = places /\ runs' = runs
  BY DEF Return, InTree
<1>3. /\ mine' = mine /\ promoted' = promoted /\ todo' = todo
      /\ placing' = placing /\ work' = work /\ worked' = worked
  BY <1>2 DEF places
<1>4. PICK n \in Nat \ {0} : n = Len(frames)
  BY <1>1, <1>2, Frames
<1>5. phase' = IF n = 1 THEN "Erase" ELSE "Rename"
  BY <1>2, <1>4 DEF Return
<1>6. /\ frames' \in Seq(Activation) /\ Len(frames') = n - 1
      /\ DOMAIN frames' = 1..n - 1
      /\ \A k \in 1..n - 1 : frames'[k] = frames[k]
      /\ varStack' \in [Stack -> Seq(Value)]
      /\ \A v \in Stack : \A j \in DOMAIN varStack'[v] :
           j \in DOMAIN varStack[v] /\ varStack'[v][j] = varStack[v][j]
  BY <1>1, <1>4, Up
<1>7. \A b : Preds(b)' = Preds(b)
  BY <1>2 DEF Preds, Succs
<1>8. TypeOK'
  <2>1. phase' \in {"Place", "Rename", "Erase", "Done", "Undefined"}
    BY <1>5
  <2> QED
    BY <1>1, <1>2, <1>3, <1>6, <1>7, <2>1 DEF TypeOK
<1>9. CodeShape'
  BY <1>1, <1>2 DEF CodeShape
<1>10. PhisPlaced'
  <2>1. work = {} /\ \A v \in promoted : Placed(v)
    BY <1>1, <1>2 DEF PhisPlaced
  <2>2. \A v \in promoted : Placed(v)'
    BY <1>1, <1>2, <1>3, <2>1, SamePlaced, SameCode
  <2> QED
    BY <1>3, <1>5, <2>1, <2>2 DEF PhisPlaced
<1>11. Walk'
  <2>1. CASE n = 1
    BY <1>5, <1>6, <2>1 DEF Walk
  <2>2. CASE n # 1
    <3>1. frames' # <<>> /\ 1 \in 1..n - 1
      BY <1>6, <2>2
    <3>2. frames'[1].block = Entry
      BY <1>1, <1>2, <1>6, <3>1 DEF Walk
    <3>3. ASSUME NEW k \in 1..n - 1
          PROVE  /\ frames'[k].kids \subseteq kids[frames'[k].block]
                 /\ k # n - 1 =>
                      /\ frames'[k].at > Len(code[frames'[k].block]) + 1
                      /\ frames'[k + 1].block \in kids[frames'[k].block] \ frames'[k].kids
      <4>1. k \in DOMAIN frames /\ k # Len(frames)
        BY <1>1, <1>2, <1>4, Frames
      <4>2. /\ frames[k].kids \subseteq kids[frames[k].block]
            /\ frames[k].at > Len(code[frames[k].block]) + 1
            /\ frames[k + 1].block \in kids[frames[k].block] \ frames[k].kids
        BY <1>1, <1>2, <4>1 DEF Walk
      <4>3. k # n - 1 => k + 1 \in 1..n - 1
        OBVIOUS
      <4>4. frames'[k] = frames[k] /\ (k # n - 1 => frames'[k + 1] = frames[k + 1])
        BY <1>6, <4>3
      <4> QED
        BY <4>2, <4>4
    <3>4. phase' = "Rename"
      BY <1>5, <2>2
    <3> QED
      BY <1>2, <1>6, <3>1, <3>2, <3>3, <3>4 DEF Walk
  <2> QED
    BY <2>1, <2>2
<1>12. ASSUME NEW b \in Block, NEW i \in Nat \ {0}, Pending(b, i)
       PROVE  (n # 1 /\ Pending(b, i)') \/ i > Len(code[b]) + 1
  BY <1>1, <1>4, <1>12, UpPending
<1>13. ASSUME NEW phi \in phis, NEW p \in Preds(phi[1])
       PROVE  p \in DOMAIN incoming[phi] \/ (n # 1 /\ Pending(p, Len(code[p]) + 1)')
  <2>1. p \in Block
    BY DEF Preds
  <2>2. PICK i \in Nat \ {0} : i = Len(code[p]) + 1 /\ i = Len(code'[p]) + 1
    <3>1. code[p] \in Seq(Instruction)
      BY <1>1, <2>1 DEF TypeOK
    <3>2. Len(code[p]) + 1 \in Nat \ {0}
      BY <3>1, LenProperties
    <3> QED
      BY <1>2, <3>2
  <2>3. p \in DOMAIN incoming[phi] \/ Pending(p, i)
    BY <1>1, <1>2, <2>2 DEF PhisFilled
  <2>4. ~(i > Len(code[p]) + 1)
    BY <2>2
  <2>5. p \in DOMAIN incoming[phi] \/ (n # 1 /\ Pending(p, i)')
    BY <1>12, <2>1, <2>3, <2>4
  <2> QED
    BY <2>2, <2>5
<1>14. PhisFilled' /\ PhisComplete'
  <2>1. CASE n = 1
    <3>1. \A phi \in phis : DOMAIN incoming[phi] = Preds(phi[1])
      BY <1>1, <1>13, <2>1 DEF TypeOK
    <3> QED
      BY <1>2, <1>5, <1>7, <2>1, <3>1 DEF PhisFilled, PhisComplete
  <2>2. CASE n # 1
    BY <1>2, <1>5, <1>7, <1>13, <2>2 DEF PhisFilled, PhisComplete
  <2> QED
    BY <2>1, <2>2
<1>15. LoadsReplaced'
  <2>1. ASSUME NEW b \in Block, NEW i \in DOMAIN code[b], PromotedLoad(b, i)
        PROVE  /\ (n # 1 /\ Pending(b, i)') \/ Unused(code[b][i].val)'
               /\ \A v \in Stack : \A j \in DOMAIN varStack'[v] :
                    varStack'[v][j] # code[b][i].val
    <3>1. PICK val : val = code[b][i].val /\ val = code'[b][i].val
      BY <1>2
    <3>2. i \in Nat \ {0} /\ ~(i > Len(code[b]) + 1)
      <4>1. code[b] \in Seq(Instruction)
        BY <1>1 DEF TypeOK
      <4>2. i \in 1..Len(code[b]) /\ Len(code[b]) \in Nat
        BY <4>1, LenProperties
      <4> QED
        BY <4>2
    <3>3. Pending(b, i) \/ Unused(val)
      BY <1>1, <1>2, <2>1, <3>1 DEF LoadsReplaced
    <3>4. (n # 1 /\ Pending(b, i)') \/ Unused(val)'
      BY <1>2, <1>12, <3>2, <3>3, SameCode
    <3>5. \A v \in Stack : \A j \in DOMAIN varStack[v] : varStack[v][j] # val
      BY <1>1, <1>2, <2>1, <3>1 DEF LoadsReplaced
    <3>6. Unused(val)' => Unused(code[b][i].val)'
      BY <3>1
    <3> QED
      BY <1>6, <3>1, <3>4, <3>5, <3>6
  <2>2. \A b \in Block : \A i : PromotedLoad(b, i)' <=> PromotedLoad(b, i)
    BY <1>2, <1>3 DEF PromotedLoad
  <2>3. code' = code
    BY <1>2
  <2> QED
    BY <1>5, <2>1, <2>2, <2>3 DEF LoadsReplaced
<1>16. StacksAvailable'
  <2>1. CASE n = 1
    BY <1>5, <2>1 DEF StacksAvailable
  <2>2. CASE n # 1
    BY <1>1, <1>4, <2>2, UpStacks
  <2> QED
    BY <2>1, <2>2
<1>17. FirstRun'
  BY <1>1, <1>2, <1>3, <1>5 DEF FirstRun, StacksHoldAValue
<1> QED
  BY <1>1, <1>2, <1>8, <1>9, <1>10, <1>11, <1>14, <1>15, <1>16, <1>17, SameCode
  DEF IInv

-----------------------------------------------------------------------------
(* The stores and the loads of promoted allocas are erased, which nothing  *)
(* uses.                                                                   *)
LEMMA EraseIInv ==
  ASSUME IInv, Erase
  PROVE  IInv'
<1>1. /\ TypeOK /\ CodeShape /\ PhisPlaced /\ Walk /\ PhisComplete /\ LoadsReplaced
      /\ FirstRun /\ InSSA(succ, code, phis, incoming)
  BY DEF IInv
<1>2. /\ phase = "Erase" /\ phase' = "Done"
      /\ code' = [b \in Block |-> Kept(code[b])]
      /\ succ' = succ /\ df' = df /\ kids' = kids /\ phis' = phis
      /\ incoming' = incoming /\ places' = places /\ runs' = runs
      /\ varStack' = varStack /\ frames' = frames
  BY DEF Erase
<1>3. /\ mine' = mine /\ promoted' = promoted /\ todo' = todo
      /\ placing' = placing /\ work' = work /\ worked' = worked
  BY <1>2 DEF places
<1>4. \A b : Preds(b)' = Preds(b)
  BY <1>2 DEF Preds, Succs
<1>5. \A b \in Block : code[b] \in Seq(Instruction)
  BY <1>1 DEF TypeOK
<1>6. ASSUME NEW b \in Block
      PROVE  /\ code'[b] \in Seq(Instruction)
             /\ DOMAIN code'[b] = 1..Len(code'[b]) /\ Len(code'[b]) \in Nat
             /\ DOMAIN code[b] = 1..Len(code[b]) /\ Len(code[b]) \in Nat
             /\ \E e \in [DOMAIN code'[b] -> DOMAIN code[b]] :
                  /\ \A i \in DOMAIN code'[b] : /\ code'[b][i] = code[b][e[i]]
                                                /\ ~ToErase(code[b][e[i]])
                  /\ \A i, j \in DOMAIN code'[b] : i < j => e[i] < e[j]
                  /\ \A k \in DOMAIN code[b] : ~ToErase(code[b][k]) =>
                       \E i \in DOMAIN code'[b] : e[i] = k
  <2>1. PICK s : s = code[b] /\ s \in Seq(Instruction)
    BY <1>5
  <2>2. IsWhatStays(Kept(s), s)
    BY <2>1, KeptInOrder
  <2>3. code'[b] = Kept(code[b])
    BY <1>2
  <2>4. PICK t : t = code'[b]
    OBVIOUS
  <2>5. IsWhatStays(t, s)
    BY <2>1, <2>2, <2>3, <2>4
  <2>6. t \in Seq(Instruction)
    BY <2>5 DEF IsWhatStays
  <2>7. /\ DOMAIN t = 1..Len(t) /\ Len(t) \in Nat
        /\ DOMAIN s = 1..Len(s) /\ Len(s) \in Nat
    BY <2>1, <2>6, LenProperties
  <2>8. \E e \in [DOMAIN t -> DOMAIN s] :
          /\ \A i \in DOMAIN t : /\ t[i] = s[e[i]]
                                 /\ ~ToErase(s[e[i]])
          /\ \A i, j \in DOMAIN t : i < j => e[i] < e[j]
          /\ \A k \in DOMAIN s : ~ToErase(s[k]) => \E i \in DOMAIN t : e[i] = k
    <3>1. PICK e \in [1..Len(t) -> 1..Len(s)] :
            /\ \A i \in 1..Len(t) : t[i] = s[e[i]] /\ ~ToErase(s[e[i]])
            /\ \A i, j \in 1..Len(t) : i < j => e[i] < e[j]
            /\ \A k \in 1..Len(s) : ~ToErase(s[k]) => \E i \in 1..Len(t) : e[i] = k
      BY <2>5, Zenon DEF IsWhatStays
    <3>2. e \in [DOMAIN t -> DOMAIN s]
      BY <2>7, Zenon
    <3>3. \A i \in DOMAIN t : t[i] = s[e[i]] /\ ~ToErase(s[e[i]])
      BY <2>7, <3>1, Zenon
    <3>4. \A i, j \in DOMAIN t : i < j => e[i] < e[j]
      BY <2>7, <3>1, Zenon
    <3>5. \A k \in DOMAIN s : ~ToErase(s[k]) => \E i \in DOMAIN t : e[i] = k
      BY <2>7, <3>1, Zenon
    <3> QED
      BY <3>2, <3>3, <3>4, <3>5, Zenon
  <2> DEFINE Stays(u, w) ==
        /\ u \in Seq(Instruction)
        /\ DOMAIN u = 1..Len(u) /\ Len(u) \in Nat
        /\ DOMAIN w = 1..Len(w) /\ Len(w) \in Nat
        /\ \E e \in [DOMAIN u -> DOMAIN w] :
             /\ \A i \in DOMAIN u : /\ u[i] = w[e[i]]
                                    /\ ~ToErase(w[e[i]])
             /\ \A i, j \in DOMAIN u : i < j => e[i] < e[j]
             /\ \A k \in DOMAIN w : ~ToErase(w[k]) => \E i \in DOMAIN u : e[i] = k
  <2>9. Stays(t, s)
    BY <2>6, <2>7, <2>8, Zenon
  <2>10. Stays(code'[b], code[b])
    <3> HIDE DEF Stays
    <3> QED
      BY <2>1, <2>4, <2>9, Zenon
  <2> QED
    BY <2>10, Zenon
<1>7. TypeOK'
  <2>1. code' \in [Block -> Seq(Instruction)]
    <3>1. code' = [b \in Block |-> code'[b]]
      BY <1>2
    <3> QED
      BY <1>6, <3>1
  <2> QED
    BY <1>1, <1>2, <1>3, <1>4, <2>1 DEF TypeOK
<1>8. CodeShape'
  <2>1. ASSUME NEW b \in Block, NEW i \in DOMAIN code'[b]
        PROVE  /\ code'[b][i].op # "use" => code'[b][i].var \in Var
               /\ code'[b][i].op = "load" =>
                    code'[b][i].val[1] = "load" /\ code'[b][i].val[2] = b
               /\ code'[b][i].op = "alloca" => b = Entry
               /\ \A j \in DOMAIN code'[b] :
                    /\ code'[b][i].op = "load" /\ code'[b][j].op = "load"
                    /\ code'[b][i].val = code'[b][j].val
                    => i = j
    <3>1. PICK e \in [DOMAIN code'[b] -> DOMAIN code[b]] :
            /\ \A k \in DOMAIN code'[b] : code'[b][k] = code[b][e[k]]
            /\ \A k, j \in DOMAIN code'[b] : k < j => e[k] < e[j]
      BY <1>6
    <3>2. e[i] \in DOMAIN code[b] /\ code'[b][i] = code[b][e[i]]
      BY <3>1
    <3>3. /\ code[b][e[i]].op # "use" => code[b][e[i]].var \in Var
          /\ code[b][e[i]].op = "load" =>
               code[b][e[i]].val[1] = "load" /\ code[b][e[i]].val[2] = b
          /\ code[b][e[i]].op = "alloca" => b = Entry
      BY <1>1, <3>2 DEF CodeShape
    <3>4. ASSUME NEW j \in DOMAIN code'[b], code'[b][i].op = "load",
                 code'[b][j].op = "load", code'[b][i].val = code'[b][j].val
          PROVE  i = j
      <4>1. e[j] \in DOMAIN code[b] /\ code'[b][j] = code[b][e[j]]
        BY <3>1
      <4>2. e[i] = e[j]
        BY <1>1, <3>2, <3>4, <4>1, LoadsDiffer
      <4>3. i \in Int /\ j \in Int /\ e[i] \in Int
        BY <1>6, <3>2
      <4>4. ~(i < j) /\ ~(j < i)
        BY <3>1, <4>2, <4>3
      <4> QED
        BY <4>3, <4>4
    <3> QED
      BY <3>2, <3>3, <3>4
  <2> QED
    BY <1>2, <2>1 DEF CodeShape
<1>9. PhisPlaced' /\ PhisFilled' /\ LoadsReplaced' /\ StacksAvailable'
  BY <1>1, <1>2, <1>3 DEF PhisPlaced, PhisFilled, LoadsReplaced, StacksAvailable
<1>10. Walk'
  BY <1>1, <1>2 DEF Walk
<1>11. PhisComplete' /\ FirstRun'
  BY <1>1, <1>2, <1>3, <1>4 DEF PhisComplete, FirstRun, StacksHoldAValue
\* was[b] tells where each instruction that stays was.
<1> DEFINE Keeps(b, e) ==
             /\ e \in [DOMAIN code'[b] -> DOMAIN code[b]]
             /\ \A i \in DOMAIN code'[b] : code'[b][i] = code[b][e[i]]
             /\ \A i, l \in DOMAIN code'[b] : i < l => e[i] < e[l]
             /\ \A k \in DOMAIN code[b] : ~ToErase(code[b][k]) =>
                  \E i \in DOMAIN code'[b] : e[i] = k
<1>12. PICK was : \A b \in Block : Keeps(b, was[b])
  <2>1. \A b \in Block : \E e : Keeps(b, e)
    BY <1>6
  <2>2. ASSUME NEW b \in Block
        PROVE  Keeps(b, CHOOSE e : Keeps(b, e))
    <3> HIDE DEF Keeps
    <3> QED
      BY <2>1
  <2> HIDE DEF Keeps
  <2> DEFINE w == [b \in Block |-> CHOOSE e : Keeps(b, e)]
  <2>3. \A b \in Block : w[b] = CHOOSE e : Keeps(b, e)
    OBVIOUS
  <2> HIDE DEF w
  <2>4. \A b \in Block : Keeps(b, w[b])
    BY <2>2, <2>3
  <2> QED
    BY <2>4
\* A value that is used is still there: j is where its use was, k where it is.
<1>13. ASSUME NEW val, ~Unused(val), NEW b \in Block, NEW j, NEW k,
              Available(succ, code, phis, val, b, j),
              \A i \in DOMAIN code'[b] : was[b][i] < j => i < k
       PROVE  Available(succ, code', phis, val, b, k)
  <2>1. val[1] = "phi" => Dominates(succ, val[2], b) /\ <<val[2], val[3]>> \in phis
    BY <1>13 DEF Available
  <2>2. ASSUME val[1] = "load"
        PROVE  /\ Dominates(succ, val[2], b)
               /\ \E i \in DOMAIN code'[val[2]] :
                    /\ code'[val[2]][i].op = "load" /\ code'[val[2]][i].val = val
                    /\ val[2] = b => i < k
    <3>1. PICK d : d = val[2]
      OBVIOUS
    <3>2. Dominates(succ, d, b)
      BY <1>13, <2>2, <3>1 DEF Available
    <3>3. d \in Block
      BY <1>1, <1>13, <3>2, DomBlock DEF Dom
    <3>4. PICK m \in DOMAIN code[d] :
            /\ code[d][m].op = "load" /\ code[d][m].val = val
            /\ d = b => m < j
      BY <1>13, <2>2, <3>1 DEF Available
    <3>5. ~ToErase(code[d][m])
      BY <1>1, <1>2, <1>13, <3>3, <3>4 DEF LoadsReplaced, PromotedLoad, ToErase
    <3>6. Keeps(d, was[d])
      BY <1>12, <3>3
    <3>7. PICK i \in DOMAIN code'[d] : was[d][i] = m
      BY <3>5, <3>6
    <3>8. d = b => i < k
      BY <1>13, <3>4, <3>7
    <3>9. code'[d][i].op = "load" /\ code'[d][i].val = val
      BY <3>4, <3>6, <3>7
    <3> QED
      BY <3>1, <3>2, <3>7, <3>8, <3>9
  <2> QED
    BY <2>1, <2>2 DEF Available
<1>14. ASSUME NEW b \in Block, NEW k \in DOMAIN code'[b], code'[b][k].op # "load"
       PROVE  Available(succ, code', phis, code'[b][k].val, b, k)
  <2>1. Keeps(b, was[b])
    BY <1>12
  <2>2. PICK j : j = was[b][k]
    OBVIOUS
  <2>3. PICK val : val = code'[b][k].val
    OBVIOUS
  <2>4. j \in DOMAIN code[b] /\ code[b][j] = code'[b][k]
    BY <2>1, <2>2
  <2>5. Available(succ, code, phis, val, b, j)
    BY <1>1, <1>14, <2>3, <2>4 DEF InSSA
  <2>6. ~Unused(val)
    BY <1>14, <2>3, <2>4 DEF Unused
  <2>7. ASSUME NEW i \in DOMAIN code'[b], was[b][i] < j
        PROVE  i < k
    <3>1. i \in Int /\ k \in Int /\ was[b][i] \in Int /\ j \in Int
      <4>1. was[b][i] \in DOMAIN code[b]
        BY <2>1
      <4>2. /\ DOMAIN code'[b] = 1..Len(code'[b]) /\ Len(code'[b]) \in Nat
            /\ DOMAIN code[b] = 1..Len(code[b]) /\ Len(code[b]) \in Nat
        BY <1>6
      <4> HIDE DEF Keeps
      <4> QED
        BY <1>14, <2>4, <2>7, <4>1, <4>2
    <3>2. i # k
      BY <2>2, <2>7, <3>1
    <3>3. ~(k < i)
      BY <2>1, <2>2, <2>7, <3>1
    <3> QED
      BY <3>1, <3>2, <3>3
  <2>8. \A i \in DOMAIN code'[b] : was[b][i] < j => i < k
    BY <2>7
  <2> HIDE DEF Keeps
  <2> QED
    BY <1>13, <2>3, <2>5, <2>6, <2>8
<1>15. ASSUME NEW phi \in phis, NEW p \in DOMAIN incoming[phi]
       PROVE  Available(succ, code', phis, incoming[phi][p], p, Len(code'[p]) + 1)
  <2>1. p \in Block
    BY <1>1, <1>15 DEF TypeOK, Preds
  <2>2. Available(succ, code, phis, incoming[phi][p], p, Len(code[p]) + 1)
    BY <1>1, <1>15 DEF InSSA
  <2>3. ~Unused(incoming[phi][p])
    BY <1>15 DEF Unused
  <2>4. \A i \in DOMAIN code'[p] : i < Len(code'[p]) + 1
    BY <1>6, <2>1
  <2>5. PICK val : val = incoming[phi][p]
    OBVIOUS
  <2>6. PICK j : j = Len(code[p]) + 1
    OBVIOUS
  <2>7. PICK k : k = Len(code'[p]) + 1
    OBVIOUS
  <2>8. \A i \in DOMAIN code'[p] : was[p][i] < j => i < k
    BY <2>4, <2>7
  <2> HIDE DEF Keeps
  <2>9. Available(succ, code', phis, val, p, k)
    BY <1>13, <2>1, <2>2, <2>3, <2>5, <2>6, <2>8
  <2> QED
    BY <2>5, <2>7, <2>9
<1>16. InSSA(succ, code, phis, incoming)'
  <2> HIDE DEF Keeps
  <2>1. InSSA(succ, code', phis, incoming)
    BY <1>14, <1>15 DEF InSSA
  <2> QED
    BY <1>2, <2>1
<1> QED
  BY <1>7, <1>8, <1>9, <1>10, <1>11, <1>16 DEF IInv

-----------------------------------------------------------------------------
(* The first part of a run.                                                *)

\* A later run starts on the result of the one before.
LEMMA RunAgainIInv ==
  ASSUME IInv, RunAgain
  PROVE  IInv'
<1>1. /\ TypeOK /\ CodeShape /\ PhisPlaced /\ Walk
      /\ InSSA(succ, code, phis, incoming)
  BY DEF IInv
<1>2. /\ phase = "Done" /\ phase' = "Place" /\ runs' = runs + 1
      /\ mine' = {} /\ promoted' = {} /\ todo' = Var /\ placing' = NoVar
      /\ succ' = succ /\ df' = df /\ kids' = kids /\ code' = code
      /\ phis' = phis /\ incoming' = incoming /\ work' = work
      /\ worked' = worked /\ frames' = frames
      /\ varStack' = [v \in DOMAIN varStack |-> <<>>]
  BY DEF RunAgain
<1>3. \A b : Preds(b)' = Preds(b)
  BY <1>2 DEF Preds, Succs
<1>4. work = {} /\ frames = <<>>
  BY <1>1, <1>2 DEF PhisPlaced, Walk
<1>5. runs' \in Nat /\ runs' # 0
  BY <1>1, <1>2 DEF TypeOK
<1>6. /\ varStack' \in [Stack -> Seq(Value)]
      /\ \A v \in Stack : varStack'[v] = <<>>
  <2>1. DOMAIN varStack = Stack
    BY <1>1 DEF TypeOK
  <2>2. <<>> \in Seq(Value)
    BY EmptySeq
  <2> QED
    BY <1>2, <2>1, <2>2
<1>7. TypeOK'
  BY <1>1, <1>2, <1>3, <1>5, <1>6 DEF TypeOK, Stack
<1>8. CodeShape'
  BY <1>1, <1>2, <1>5 DEF CodeShape
<1>9. PhisPlaced'
  <2>1. NoVar \notin Var
    BY DEF NoVar, Var
  <2> QED
    BY <1>2, <1>4, <2>1 DEF PhisPlaced
<1>10. Walk'
  BY <1>2, <1>4, <1>6 DEF Walk
<1>11. PhisFilled' /\ PhisComplete' /\ LoadsReplaced' /\ StacksAvailable' /\ FirstRun'
  BY <1>2, <1>5 DEF PhisFilled, PhisComplete, LoadsReplaced, StacksAvailable, FirstRun
<1>12. InSSA(succ, code, phis, incoming)'
  BY <1>1, <1>2
<1> QED
  BY <1>7, <1>8, <1>9, <1>10, <1>11, <1>12 DEF IInv

\* An alloca has no phi nodes of this run before it is looked at.
LEMMA LookAtIInv ==
  ASSUME IInv, NEW v \in Var, LookAt(v)
  PROVE  IInv'
<1>1. /\ TypeOK /\ CodeShape /\ PhisPlaced /\ Walk /\ FirstRun
      /\ InSSA(succ, code, phis, incoming)
  BY DEF IInv
<1>2. /\ phase = "Place" /\ phase' = "Place" /\ work = {} /\ v \in todo
      /\ todo' = todo \ {v} /\ placing' = v
      /\ succ' = succ /\ df' = df /\ kids' = kids /\ code' = code
      /\ phis' = phis /\ incoming' = incoming /\ mine' = mine
      /\ varStack' = varStack /\ frames' = frames /\ runs' = runs
  BY DEF LookAt, Start
<1>3. \/ /\ promoted' = promoted \union {v} /\ work' = StoreBlocks(v)
         /\ worked' = StoreBlocks(v)
      \/ promoted' = promoted /\ work' = work /\ worked' = worked
  BY DEF LookAt, Start
<1>4. \A b : Preds(b)' = Preds(b)
  BY <1>2 DEF Preds, Succs
<1>5. /\ \A w : StoreBlocks(w)' = StoreBlocks(w)
      /\ \A w : PhiBlocks(w)' = PhiBlocks(w)
      /\ \A w : Placed(w) => Placed(w)'
      /\ \A w : NoMorePhis(w) => NoMorePhis(w)'
  BY <1>2 DEF StoreBlocks, PhiBlocks, Placed, NoMorePhis, HoldsFrontiers
<1>6. \A w \in promoted : Placed(w)
  BY <1>1, <1>2, AllPlaced
<1>7. StoreBlocks(v) \subseteq Block
  BY DEF StoreBlocks
<1>8. TypeOK'
  <2>1. v \in Stack
    BY DEF Stack
  <2> QED
    BY <1>1, <1>2, <1>3, <1>4, <1>7, <2>1 DEF TypeOK, Stack
<1>9. CodeShape'
  BY <1>1, <1>2 DEF CodeShape
<1>10. PhisPlaced'
  <2>1. v \notin promoted /\ promoted \intersect todo = {}
        /\ \A phi \in mine : phi[2] \in promoted
    BY <1>1, <1>2 DEF PhisPlaced
  <2>2. PhiBlocks(v) = {}
    BY <2>1 DEF PhiBlocks
  <2>3. NoMorePhis(v)
    BY <2>2 DEF NoMorePhis
  <2>4. /\ promoted' \intersect todo' = {}
        /\ placing' \notin todo'
        /\ \A phi \in mine' : phi[2] \in promoted'
    BY <1>2, <1>3, <2>1
  <2>5. \A w \in promoted' \ {placing'} : Placed(w)'
    BY <1>2, <1>3, <1>5, <1>6
  <2>6. placing' \notin promoted' => work' = {}
    BY <1>2, <1>3, <2>1
  <2>7. ASSUME placing' \in promoted'
        PROVE  /\ worked' = StoreBlocks(v)' \union PhiBlocks(v)'
               /\ work' \subseteq worked'
               /\ \A X \in worked' \ work' : df'[X] \subseteq PhiBlocks(v)'
               /\ NoMorePhis(v)'
    BY <1>2, <1>3, <1>5, <2>1, <2>2, <2>3, <2>7
  <2>8. NoMorePhis(placing)' /\ StoreBlocks(placing)' = StoreBlocks(v)'
        /\ PhiBlocks(placing)' = PhiBlocks(v)'
    BY <1>2, <1>5, <2>3 DEF NoMorePhis, StoreBlocks, PhiBlocks, HoldsFrontiers
  <2>9. \A w : w \in promoted' \ {placing'} => Placed(w)'
    BY <2>5
  <2> QED
    BY <1>2, <2>4, <2>9, <2>6, <2>7, <2>8 DEF PhisPlaced
<1>11. Walk'
  BY <1>1, <1>2 DEF Walk
<1>12. PhisFilled' /\ PhisComplete' /\ LoadsReplaced' /\ StacksAvailable' /\ FirstRun'
  BY <1>1, <1>2 DEF PhisFilled, PhisComplete, LoadsReplaced, StacksAvailable, FirstRun,
                    StacksHoldAValue
<1>13. InSSA(succ, code, phis, incoming)'
  BY <1>1, <1>2
<1> QED
  BY <1>8, <1>9, <1>10, <1>11, <1>12, <1>13 DEF IInv

\* A phi node without operands changes nothing but what is on the frontiers.
LEMMA PlacePhisIInv ==
  ASSUME IInv, NEW X \in Block, PlacePhis(X)
  PROVE  IInv'
<1> DEFINE New == {<<Y, placing>> : Y \in Joins(X)}
<1>1. /\ TypeOK /\ CodeShape /\ PhisPlaced /\ Walk /\ FirstRun
      /\ InSSA(succ, code, phis, incoming)
  BY DEF IInv
<1>2. /\ phase = "Place" /\ X \in work
      /\ phis' = phis \union New /\ mine' = mine \union New
      /\ incoming' = [phi \in phis' |-> IF phi \in phis THEN incoming[phi] ELSE <<>>]
      /\ work' = (work \ {X}) \union (Joins(X) \ worked)
      /\ worked' = worked \union Joins(X)
      /\ succ' = succ /\ df' = df /\ kids' = kids /\ code' = code
      /\ promoted' = promoted /\ todo' = todo /\ placing' = placing
      /\ varStack' = varStack /\ frames' = frames /\ runs' = runs /\ phase' = phase
  BY DEF PlacePhis, Place
<1>3. \A b : Preds(b)' = Preds(b)
  BY <1>2 DEF Preds, Succs
<1>4. /\ placing \in promoted /\ placing \in Var
      /\ promoted \intersect todo = {} /\ placing \notin todo
      /\ \A phi \in mine : phi[2] \in promoted
      /\ \A v \in promoted \ {placing} : Placed(v)
      /\ worked = StoreBlocks(placing) \union PhiBlocks(placing)
      /\ work \subseteq worked
      /\ \A Y \in worked \ work : df[Y] \subseteq PhiBlocks(placing)
      /\ NoMorePhis(placing)
  BY <1>1, <1>2 DEF PhisPlaced, TypeOK
<1>5. df[X] \subseteq Block
  BY <1>1 DEF TypeOK, Frontier
<1>6. Joins(X) = df[X] \ PhiBlocks(placing)
  BY <1>5 DEF Joins, PhiBlocks
<1>7. New \subseteq Block \X Var
  BY <1>4, <1>5, <1>6
<1>8. TypeOK'
  <2>1. phis' \subseteq Block \X Var /\ mine' \subseteq phis'
    BY <1>1, <1>2, <1>7 DEF TypeOK
  <2>2. DOMAIN incoming' = phis'
    BY <1>2
  <2>3. ASSUME NEW phi \in phis'
        PROVE  /\ DOMAIN incoming'[phi] \subseteq Preds(phi[1])
               /\ \A p \in DOMAIN incoming'[phi] : incoming'[phi][p] \in Value
    <3>1. CASE phi \in phis
      <4>1. incoming'[phi] = incoming[phi]
        BY <1>2, <3>1
      <4> QED
        BY <1>1, <3>1, <4>1 DEF TypeOK
    <3>2. CASE phi \notin phis
      <4>1. incoming'[phi] = <<>>
        BY <1>2, <2>3, <3>2
      <4>2. DOMAIN <<>> = {}
        OBVIOUS
      <4>3. DOMAIN incoming'[phi] = {}
        BY <4>1, <4>2
      <4> QED
        BY <4>3
    <3> QED
      BY <3>1, <3>2
  <2>4. work' \subseteq Block /\ worked' \subseteq Block
    BY <1>1, <1>2, <1>5, <1>6 DEF TypeOK
  <2> HIDE DEF New
  <2> QED
    BY <1>1, <1>2, <1>3, <2>1, <2>2, <2>3, <2>4 DEF TypeOK
<1>9. CodeShape'
  BY <1>1, <1>2 DEF CodeShape
<1>10. PhisPlaced'
  <2>1. /\ PhiBlocks(placing)' = PhiBlocks(placing) \union Joins(X)
    <3>1. PhiBlocks(placing)' = {Y \in Block : <<Y, placing>> \in mine \union New}
      BY <1>2 DEF PhiBlocks
    <3>2. \A Y \in Block : <<Y, placing>> \in New <=> Y \in Joins(X)
      OBVIOUS
    <3>3. Joins(X) \subseteq Block
      BY <1>5, <1>6
    <3> HIDE DEF New
    <3> QED
      BY <3>1, <3>2, <3>3 DEF PhiBlocks
  <2>2. ASSUME NEW v, v # placing
        PROVE  PhiBlocks(v)' = PhiBlocks(v)
    <3>1. \A Y : <<Y, v>> \notin New
      BY <2>2
    <3> HIDE DEF New
    <3> QED
      BY <1>2, <3>1 DEF PhiBlocks
  <2>3. \A v : StoreBlocks(v)' = StoreBlocks(v)
    BY <1>2 DEF StoreBlocks
  <2>4. ASSUME NEW v \in promoted, v # placing
        PROVE  Placed(v)'
    <3>1. Placed(v) /\ PhiBlocks(v)' = PhiBlocks(v) /\ StoreBlocks(v)' = StoreBlocks(v)
      BY <1>4, <2>2, <2>3, <2>4
    <3> QED
      BY <1>2, <3>1 DEF Placed, NoMorePhis, HoldsFrontiers
  <2>5. worked' = StoreBlocks(placing)' \union PhiBlocks(placing)'
    BY <1>2, <1>4, <2>1, <2>3
  <2>6. work' \subseteq worked'
    BY <1>2, <1>4
  <2>7. ASSUME NEW Y \in worked' \ work'
        PROVE  df'[Y] \subseteq PhiBlocks(placing)'
    <3>1. Y \in worked /\ (Y = X \/ Y \notin work)
      BY <1>2, <2>7
    <3>2. CASE Y = X
      BY <1>2, <1>6, <2>1, <3>2
    <3>3. CASE Y \notin work
      BY <1>2, <1>4, <2>1, <3>1, <3>3
    <3> QED
      BY <3>1, <3>2, <3>3
  <2>8. NoMorePhis(placing)'
    <3>1. ASSUME NEW P \in SUBSET Block, HoldsFrontiers(placing, P)
          PROVE  PhiBlocks(placing) \union Joins(X) \subseteq P
      <4>1. PhiBlocks(placing) \subseteq P
        BY <1>4, <3>1 DEF NoMorePhis
      <4>2. X \in StoreBlocks(placing) \union P
        BY <1>2, <1>4, <4>1
      <4> QED
        BY <1>6, <3>1, <4>1, <4>2 DEF HoldsFrontiers
    <3>2. \A P : HoldsFrontiers(placing, P)' = HoldsFrontiers(placing, P)
      BY <1>2, <2>3 DEF HoldsFrontiers
    <3> QED
      BY <1>2, <2>1, <3>1, <3>2 DEF NoMorePhis, HoldsFrontiers, StoreBlocks
  <2>9. \A phi \in mine' : phi[2] \in promoted'
    <3>1. \A phi \in New : phi[2] = placing
      OBVIOUS
    <3> HIDE DEF New
    <3> QED
      BY <1>2, <1>4, <3>1
  <2>10. \A v \in promoted' \ {placing'} : Placed(v)'
    BY <1>2, <2>4
  <2> HIDE DEF New
  <2> QED
    BY <1>2, <1>4, <2>5, <2>6, <2>7, <2>8, <2>9, <2>10 DEF PhisPlaced
<1>11. Walk'
  BY <1>1, <1>2 DEF Walk
<1>12. PhisFilled' /\ PhisComplete' /\ LoadsReplaced' /\ StacksAvailable' /\ FirstRun'
  BY <1>1, <1>2 DEF PhisFilled, PhisComplete, LoadsReplaced, StacksAvailable, FirstRun,
                    StacksHoldAValue
<1>13. InSSA(succ, code, phis, incoming)'
  <2>1. phis \subseteq phis'
    BY <1>2
  <2>2. ASSUME NEW val, NEW b, NEW j, Available(succ, code, phis, val, b, j)
        PROVE  Available(succ, code, phis', val, b, j)
    BY <2>1, <2>2 DEF Available
  <2>3. ASSUME NEW phi \in phis', NEW p \in DOMAIN incoming'[phi]
        PROVE  phi \in phis /\ incoming'[phi] = incoming[phi]
    <3>1. CASE phi \in phis
      BY <1>2, <3>1
    <3>2. CASE phi \notin phis
      <4>1. incoming'[phi] = <<>>
        BY <1>2, <2>3, <3>2
      <4>2. DOMAIN <<>> = {}
        OBVIOUS
      <4> QED
        BY <2>3, <4>1, <4>2
    <3> QED
      BY <3>1, <3>2
  <2>4. ASSUME NEW b \in Block, NEW j \in DOMAIN code[b], code[b][j].op # "load"
        PROVE  Available(succ, code, phis', code[b][j].val, b, j)
    <3>1. Available(succ, code, phis, code[b][j].val, b, j)
      BY <1>1, <2>4 DEF InSSA
    <3> QED
      BY <2>2, <3>1
  <2>5. ASSUME NEW phi \in phis', NEW p \in DOMAIN incoming'[phi]
        PROVE  Available(succ, code, phis', incoming'[phi][p], p, Len(code[p]) + 1)
    <3>1. phi \in phis /\ incoming'[phi] = incoming[phi]
      BY <2>3, <2>5
    <3>2. Available(succ, code, phis, incoming[phi][p], p, Len(code[p]) + 1)
      BY <1>1, <2>5, <3>1 DEF InSSA
    <3> QED
      BY <2>2, <3>1, <3>2
  <2>6. InSSA(succ, code, phis', incoming')
    BY <2>4, <2>5 DEF InSSA
  <2> QED
    BY <1>2, <2>6
<1> HIDE DEF New
<1> QED
  BY <1>8, <1>9, <1>10, <1>11, <1>12, <1>13 DEF IInv

\* The functions the pass is given satisfy the invariant.
LEMMA InitIInv ==
  ASSUME Init
  PROVE  IInv
<1>1. PICK f \in Functions : succ = f.succ /\ code = f.code
  BY DEF Init
<1>2. /\ df = Frontier(succ, Dominators(succ)) /\ kids = Children(Dominators(succ))
      /\ phis = {} /\ incoming = <<>> /\ mine = {} /\ promoted = {} /\ todo = Var
      /\ placing = NoVar /\ work = {} /\ worked = {} /\ frames = <<>> /\ runs = 0
      /\ phase = "Place"
      /\ varStack = [v \in Var \union {NoVar} |-> <<>>]
  BY DEF Init
<1>3. /\ code \in [Block -> Seq(Instruction)]
      /\ \A b \in Block : \A i \in DOMAIN code[b] :
           /\ code[b][i].op # "use" => code[b][i].var \in Var
           /\ code[b][i].op = "load" => code[b][i].val = Loaded(b, i)
           /\ code[b][i].op = "alloca" <=> b = Entry /\ i <= NVar
      /\ \A v \in Var : \E i \in DOMAIN code[Entry] :
           code[Entry][i].op = "alloca" /\ code[Entry][i].var = v
      /\ InSSA(succ, code, {}, <<>>)
  BY <1>1, FunctionsAssumption
<1>4. \A b \in Block : DOMAIN code[b] = 1..Len(code[b]) /\ Len(code[b]) \in Nat
  <2>1. ASSUME NEW b \in Block
        PROVE  DOMAIN code[b] = 1..Len(code[b]) /\ Len(code[b]) \in Nat
    <3>1. code[b] \in Seq(Instruction)
      BY <1>3
    <3> QED
      BY <3>1, LenProperties
  <2> QED
    BY <2>1
<1>5. NVar \in Nat
  BY MemToRegAssumption
<1>6. TypeOK
  <2>1. DOMAIN incoming = phis
    <3>1. DOMAIN <<>> = {}
      OBVIOUS
    <3> QED
      BY <1>2, <3>1
  <2>2. varStack \in [Stack -> Seq(Value)]
    <3>1. <<>> \in Seq(Value)
      BY EmptySeq
    <3> QED
      BY <1>2, <3>1 DEF Stack
  <2>3. frames \in Seq(Activation)
    BY <1>2, EmptySeq
  <2> QED
    BY <1>1, <1>2, <1>3, <2>1, <2>2, <2>3 DEF TypeOK, Stack
<1>7. CodeShape
  <2>1. ASSUME NEW b \in Block, NEW i \in DOMAIN code[b]
        PROVE  /\ code[b][i].op # "use" => code[b][i].var \in Var
               /\ code[b][i].op = "load" =>
                    code[b][i].val[1] = "load" /\ code[b][i].val[2] = b
               /\ code[b][i].op = "alloca" => b = Entry
               /\ \A j \in DOMAIN code[b] :
                    /\ code[b][i].op = "load" /\ code[b][j].op = "load"
                    /\ code[b][i].val = code[b][j].val
                    => i = j
    BY <1>3, <2>1 DEF Loaded
  <2>2. ASSUME NEW v \in Var
        PROVE  \E i \in DOMAIN code[Entry] :
                 /\ code[Entry][i].op = "alloca" /\ code[Entry][i].var = v
                 /\ \A j \in 1..i : code[Entry][j].op = "alloca"
    <3>1. PICK i \in DOMAIN code[Entry] :
            code[Entry][i].op = "alloca" /\ code[Entry][i].var = v
      BY <1>3
    <3>2. i <= NVar /\ i \in 1..Len(code[Entry])
      BY <1>3, <1>4, <3>1, EntryIsBlock
    <3>3. ASSUME NEW j \in 1..i PROVE code[Entry][j].op = "alloca"
      <4>1. j \in DOMAIN code[Entry] /\ j <= NVar
        BY <1>4, <1>5, <3>2, EntryIsBlock
      <4> QED
        BY <1>3, <4>1, EntryIsBlock
    <3> QED
      BY <3>1, <3>3
  <2> QED
    BY <2>1, <2>2 DEF CodeShape
<1>8. PhisPlaced
  <2>1. NoVar \notin Var
    BY DEF NoVar, Var
  <2> QED
    BY <1>2, <2>1 DEF PhisPlaced
<1>9. Walk
  BY <1>2 DEF Walk, Stack
<1>10. PhisFilled /\ PhisComplete /\ LoadsReplaced /\ StacksAvailable /\ FirstRun
  BY <1>2 DEF PhisFilled, PhisComplete, LoadsReplaced, StacksAvailable, FirstRun,
              StacksHoldAValue
<1> QED
  BY <1>2, <1>3, <1>6, <1>7, <1>8, <1>9, <1>10 DEF IInv

-----------------------------------------------------------------------------
\* A step of the rest of the compiler.
LEMMA StutterIInv ==
  ASSUME IInv, UNCHANGED vars
  PROVE  IInv'
<1>1. /\ succ' = succ /\ df' = df /\ kids' = kids /\ code' = code /\ phis' = phis
      /\ incoming' = incoming /\ mine' = mine /\ promoted' = promoted /\ todo' = todo
      /\ placing' = placing /\ work' = work /\ worked' = worked
      /\ varStack' = varStack /\ frames' = frames /\ runs' = runs /\ phase' = phase
  BY DEF vars, places
<1>2. TypeOK'
  <2>1. \A b : Preds(b)' = Preds(b)
    BY <1>1 DEF Preds, Succs
  <2> QED
    BY <1>1, <2>1 DEF IInv, TypeOK
<1>3. CodeShape'
  BY <1>1 DEF IInv, CodeShape
<1>4. PhisPlaced'
  BY <1>1, SamePlaced DEF IInv, PhisPlaced, Placed, NoMorePhis, HoldsFrontiers,
                          StoreBlocks, PhiBlocks
<1>5. Walk'
  BY <1>1 DEF IInv, Walk
<1>6. PhisFilled'
  BY <1>1 DEF IInv, PhisFilled, Pending, Preds, Succs, Frame
<1>7. PhisComplete'
  BY <1>1 DEF IInv, PhisComplete, Preds, Succs
<1>8. LoadsReplaced'
  BY <1>1 DEF IInv, LoadsReplaced, PromotedLoad, Pending, Frame, Unused
<1>9. StacksAvailable'
  BY <1>1 DEF IInv, StacksAvailable, StacksFit
<1>10. FirstRun'
  BY <1>1 DEF IInv, FirstRun, StacksHoldAValue
<1>11. InSSA(succ, code, phis, incoming)'
  BY <1>1 DEF IInv
<1> QED
  BY <1>2, <1>3, <1>4, <1>5, <1>6, <1>7, <1>8, <1>9, <1>10, <1>11 DEF IInv

\* A step of the pass keeps what IInv says.
LEMMA NextIInv ==
  ASSUME IInv, Next
  PROVE  IInv'
<1>1. ASSUME NEW v \in Var, LookAt(v) PROVE IInv'
  BY <1>1, LookAtIInv
<1>2. ASSUME NEW X \in Block, PlacePhis(X) PROVE IInv'
  BY <1>2, PlacePhisIInv
<1>3. CASE BeginRenaming
  BY <1>3, BeginRenamingIInv
<1>4. CASE RenameAlloca
  BY <1>4, RenameAllocaIInv
<1>5. CASE RenameStore
  BY <1>5, RenameStoreIInv
<1>6. CASE RenameLoad
  BY <1>6, RenameLoadIInv
<1>7. CASE SkipInstr
  BY <1>7, SkipInstrIInv
<1>8. CASE FillPhis
  BY <1>8, FillPhisIInv
<1>9. CASE ReadEmptyStack
  BY <1>9, ReadEmptyStackIInv
<1>10. ASSUME NEW Y \in Block, Descend(Y) PROVE IInv'
  BY <1>10, DescendIInv
<1>11. CASE Return
  BY <1>11, ReturnIInv
<1>12. CASE Erase
  BY <1>12, EraseIInv
<1>13. CASE RunAgain
  BY <1>13, RunAgainIInv
<1> QED
  BY <1>1, <1>2, <1>3, <1>4, <1>5, <1>6, <1>7, <1>8, <1>9, <1>10, <1>11, <1>12, <1>13
  DEF Next, RunStep

(* IInv is an invariant.                                                   *)
THEOREM Invariance == Spec => []IInv
<1>1. Init => IInv
  BY InitIInv
<1>2. IInv /\ [Next]_vars => IInv'
  BY NextIInv, StutterIInv
<1> QED
  BY <1>1, <1>2, PTL DEF Spec

(* Types are respected: the frames of replaceUses(), the stacks and the phi *)
(* nodes are what they are declared to be.                                 *)
THEOREM TypeCorrect == Spec => []TypeOK
<1>1. IInv => TypeOK
  BY DEF IInv
<1> QED
  BY <1>1, Invariance, PTL

(* placePHINodes() puts the phi nodes of each promoted alloca on the iterated *)
(* dominance frontier of its stores and nowhere else, in whatever order the *)
(* hash table yields the work.                                             *)
THEOREM PhisAreOnFrontier == Spec => []PhisOnIteratedFrontier
<1>1. IInv => PhisOnIteratedFrontier
  BY DEF IInv, PhisPlaced, Placed, NoMorePhis, PhisOnIteratedFrontier
<1> QED
  BY <1>1, Invariance, PTL

(* After replaceUses() each phi node has an operand for each predecessor of *)
(* its block, whichever way the tree was walked.                           *)
THEOREM PhisAreComplete == Spec => []PhisComplete
<1>1. IInv => PhisComplete
  BY DEF IInv
<1> QED
  BY <1>1, Invariance, PTL

(* What the pass leaves is in SSA form: the assertions before the loads are *)
(* erased hold, and each value that is used is defined before on every path. *)
THEOREM ResultIsInSSA == Spec => []DefinitionsDominateUses
<1>1. IInv => DefinitionsDominateUses
  BY DEF IInv, DefinitionsDominateUses
<1> QED
  BY <1>1, Invariance, PTL

(* The first mem2reg of a pipeline reads no empty stack.                   *)
THEOREM FirstRunIsDefined == Spec => [](runs = 0 => StacksHoldAValue)
<1>1. IInv => (runs = 0 => StacksHoldAValue)
  BY DEF IInv, FirstRun
<1> QED
  BY <1>1, Invariance, PTL
=============================================================================
