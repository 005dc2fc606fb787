--------------------------- MODULE PassRunProofs ---------------------------
(***************************************************************************)
(* Proofs about Run() and Reset(). First the order of Init() is used: the  *)
(* rounds of computeDependencies() close the enabled passes under the      *)
(* dependencies, and the loop after it cuts them into chunks. Then the     *)
(* inductive invariant IInv of PassRun says where a run is, which passes   *)
(* are Valid (StatesFollow), and how the reference counts of the heaps     *)
(* relate to what is still to run: Due(d) is the references to the heaps   *)
(* of d that later calls of runPassLifeCycle() give back. The heaps that   *)
(* are in use have at least so many (HeapsHeld) and those whose users all  *)
(* run have at most so many (HeapsReleased), although the counts stop at   *)
(* zero and the users may be in several chunks, each of which goes over    *)
(* all its items.                                                          *)
(***************************************************************************)
EXTENDS PassRun, WellFoundedInduction, FiniteSetTheorems, SequenceTheorems, TLAPS

\* The number of passes is a positive integer.
LEMMA Size == NPass \in Nat /\ NPass > 0
BY ConstantsAssumption

(* A set of natural numbers has a least element.                           *)
LEMMA LeastNat ==
  ASSUME NEW T, T \subseteq Nat, T # {}
  PROVE  \E x \in T : \A y \in T : x <= y
<1> DEFINE Less == {ss \in Nat \X Nat : ss[1] < ss[2]}
<1>1. IsWellFoundedOn(Less, Nat)
  BY NatLessThanWellFounded DEF OpToRel
<1> HIDE DEF Less
<1>2. PICK x \in T : \A y \in T : <<y, x>> \notin Less
  BY <1>1, WFMin
<1>3. ASSUME NEW y \in T PROVE x <= y
  <2>1. <<y, x>> \in Nat \X Nat
    OBVIOUS
  <2>2. <<y, x>>[1] < <<y, x>>[2] => <<y, x>> \in Less
    BY <2>1 DEF Less
  <2>3. ~(y < x)
    BY <1>2, <2>2
  <2> QED
    BY <2>3
<1> QED
  BY <1>3

(* A set that holds 0 and, with each number, the next one holds them all.  *)
LEMMA AllNat ==
  ASSUME NEW W, 0 \in W, \A n \in Nat : n \in W => n + 1 \in W
  PROVE  Nat \subseteq W
<1>1. SUFFICES ASSUME Nat \ W # {} PROVE FALSE
  OBVIOUS
<1>2. PICK x \in Nat \ W : \A y \in Nat \ W : x <= y
  BY <1>1, LeastNat
<1>3. x - 1 \in Nat /\ x - 1 \in W
  BY <1>2
<1> QED
  BY <1>2, <1>3

\* Min yields it.
LEMMA LeastOf ==
  ASSUME NEW T, T \subseteq Nat, T # {}
  PROVE  Min(T) \in T /\ \A x \in T : Min(T) <= x
BY LeastNat DEF Min

\* findHeapFor() returns a heap that can be reused or the place of a new one.
LEMMA FirstHeap ==
  ASSUME heaps \in Seq(Heap), NEW p, NEW l
  PROVE  /\ FindHeapFor(p, l) \in 1..(Len(heaps) + 1)
         /\ FindHeapFor(p, l) <= Len(heaps) =>
              CanReuse(heaps[FindHeapFor(p, l)], p, l)
<1> DEFINE I == {j \in 1..Len(heaps) : CanReuse(heaps[j], p, l)}
<1>1. Len(heaps) \in Nat
  BY LenProperties
<1>2. FindHeapFor(p, l) = IF I = {} \/ Min(I) = 0 THEN Len(heaps) + 1 ELSE Min(I)
  BY DEF FindHeapFor, SelectInSeq
<1>3. CASE I = {}
  BY <1>1, <1>2, <1>3
<1>4. CASE I # {}
  <2>1. I \subseteq Nat
    BY <1>1
  <2> HIDE DEF I
  <2>2. Min(I) \in I
    BY <1>4, <2>1, LeastOf
  <2>3. Min(I) \in 1..Len(heaps) /\ CanReuse(heaps[Min(I)], p, l)
    BY <2>2 DEF I
  <2> QED
    BY <1>1, <1>2, <1>4, <2>3
<1> QED
  BY <1>3, <1>4

\* passes_ in order: each index is that of one pass.
LEMMA Positions ==
  ASSUME Sorted, topoIdx \in [Pass -> 0..(NPass - 1)]
  PROVE  /\ \A i \in 0..(NPass - 1) : At(i) \in Pass /\ topoIdx[At(i)] = i
         /\ \A p \in Pass : At(topoIdx[p]) = p
BY Size DEF Sorted, At

\* The edges of a pass are finitely many and lead to passes.
LEMMA EdgeEnds ==
  ASSUME edges \in Seq([pass : Pass, depends : Pass])
  PROVE  /\ IsFiniteSet(DOMAIN edges)
         /\ \A e \in DOMAIN edges : edges[e].pass \in Pass /\ edges[e].depends \in Pass
         /\ \A p : Forward(p) \subseteq DOMAIN edges /\ Transpose(p) \subseteq DOMAIN edges
         /\ \A p : DependsOn(p) \subseteq Pass
<1>1. IsFiniteSet(DOMAIN edges)
  BY FS_Interval, LenProperties
<1>2. \A e \in DOMAIN edges : edges[e] \in [pass : Pass, depends : Pass]
  BY ElementOfSeq, LenProperties
<1> QED
  BY <1>1, <1>2 DEF Forward, Transpose, DependsOn

\* The sets of passes that the rounds of computeDependencies() enable exist:
\* the recursive function has a value.
LEMMA GrowExists ==
  \E g : g = [n \in 0..NPass |->
                IF n = 0 THEN enabled
                ELSE g[n - 1] \union UNION {DependsOn(p) : p \in g[n - 1]}]
<1> USE Size
<1> DEFINE G(s) == s \union UNION {DependsOn(p) : p \in s}
           Good(m) == \E g : g = [n \in 0..m |-> IF n = 0 THEN enabled ELSE G(g[n - 1])]
           W == {m \in Nat : Good(m)}
<1> HIDE DEF G
<1>1. 0 \in W
  <2> DEFINE g == [n \in 0..0 |-> enabled]
  <2>1. g = [n \in 0..0 |-> IF n = 0 THEN enabled ELSE G(g[n - 1])]
    OBVIOUS
  <2> QED
    BY <2>1
<1>2. ASSUME NEW m \in Nat, m \in W PROVE m + 1 \in W
  <2>1. PICK g : g = [n \in 0..m |-> IF n = 0 THEN enabled ELSE G(g[n - 1])]
    BY <1>2
  <2> DEFINE h == [n \in 0..(m + 1) |-> IF n = m + 1 THEN G(g[m]) ELSE g[n]]
  <2>2. \A n \in 0..(m + 1) : h[n] = IF n = 0 THEN enabled ELSE G(h[n - 1])
    <3> SUFFICES ASSUME NEW n \in 0..(m + 1)
                 PROVE  h[n] = IF n = 0 THEN enabled ELSE G(h[n - 1])
      OBVIOUS
    <3>1. CASE n = 0
      BY <2>1, <3>1
    <3>2. CASE n # 0 /\ n # m + 1
      <4>1. n - 1 \in 0..m /\ n \in 0..m /\ n - 1 # m + 1
        BY <3>2
      <4>2. h[n - 1] = g[n - 1] /\ h[n] = g[n]
        BY <4>1
      <4> QED
        BY <2>1, <3>2, <4>1, <4>2
    <3>3. CASE n = m + 1
      <4>1. h[n - 1] = g[m]
        BY <3>3
      <4> QED
        BY <3>3, <4>1
    <3> QED
      BY <3>1, <3>2, <3>3
  <2>3. h = [n \in 0..(m + 1) |-> IF n = 0 THEN enabled ELSE G(h[n - 1])]
    BY <2>2
  <2> HIDE DEF h
  <2>4. Good(m + 1)
    BY <2>3
  <2> QED
    BY <2>4
<1>3. NPass \in W
  BY <1>1, <1>2, AllNat
<1>4. Good(NPass)
  BY <1>3
<1>5. PICK g : g = [n \in 0..NPass |-> IF n = 0 THEN enabled ELSE G(g[n - 1])]
  BY <1>4
<1>6. g = [n \in 0..NPass |->
             IF n = 0 THEN enabled
             ELSE g[n - 1] \union UNION {DependsOn(p) : p \in g[n - 1]}]
  BY <1>5 DEF G
<1> QED
  BY <1>6

\* ... and each round adds what the passes of the last one depend on.
LEMMA GrowSteps ==
  \E g : /\ Propagated = g[NPass]
         /\ g[0] = enabled
         /\ \A n \in 0..(NPass - 1) :
              g[n + 1] = g[n] \union UNION {DependsOn(p) : p \in g[n]}
<1> USE Size
<1> DEFINE g == CHOOSE f : f = [n \in 0..NPass |->
                IF n = 0 THEN enabled
                ELSE f[n - 1] \union UNION {DependsOn(p) : p \in f[n - 1]}]
<1>1. Propagated = g[NPass]
  BY DEF Propagated
<1>2. g = [n \in 0..NPass |->
                IF n = 0 THEN enabled
                ELSE g[n - 1] \union UNION {DependsOn(p) : p \in g[n - 1]}]
  BY GrowExists
<1> HIDE DEF g
<1>3. g[0] = enabled
  BY <1>2
<1>4. ASSUME NEW n \in 0..(NPass - 1)
      PROVE  g[n + 1] = g[n] \union UNION {DependsOn(p) : p \in g[n]}
  <2>1. n + 1 \in 0..NPass /\ n + 1 # 0 /\ (n + 1) - 1 = n
    OBVIOUS
  <2> QED
    BY <1>2, <2>1
<1> QED
  BY <1>1, <1>3, <1>4

\* NPass rounds are enough: the set of enabled passes is closed under the
\* dependencies, since a chain of dependencies goes down in the order.
LEMMA PropagatedCloses ==
  ASSUME Sorted, topoIdx \in [Pass -> 0..(NPass - 1)], enabled \subseteq Pass,
         edges \in Seq([pass : Pass, depends : Pass])
  PROVE  /\ enabled \subseteq Propagated
         /\ Propagated \subseteq Pass
         /\ \A p \in Propagated : DependsOn(p) \subseteq Propagated
<1> USE Size
<1>1. PICK g : /\ Propagated = g[NPass]
               /\ g[0] = enabled
               /\ \A n \in 0..(NPass - 1) :
                    g[n + 1] = g[n] \union UNION {DependsOn(p) : p \in g[n]}
  BY GrowSteps
<1>2. \A p : DependsOn(p) \subseteq Pass
  BY EdgeEnds
<1>3. ASSUME NEW q \in Pass, NEW p \in DependsOn(q) PROVE topoIdx[p] < topoIdx[q]
  BY <1>3 DEF DependsOn, Forward, Sorted
<1> DEFINE V == {n \in Nat : n <= NPass => enabled \subseteq g[n] /\ g[n] \subseteq Pass}
<1>4. \A n \in 0..NPass : enabled \subseteq g[n] /\ g[n] \subseteq Pass
  <2>1. 0 \in V
    BY <1>1
  <2>2. ASSUME NEW n \in Nat, n \in V PROVE n + 1 \in V
    <3> SUFFICES ASSUME n + 1 <= NPass
                 PROVE  enabled \subseteq g[n + 1] /\ g[n + 1] \subseteq Pass
      OBVIOUS
    <3>0. n \in 0..(NPass - 1)
      OBVIOUS
    <3>1. g[n + 1] = g[n] \union UNION {DependsOn(p) : p \in g[n]}
      BY <1>1, <3>0
    <3>2. enabled \subseteq g[n] /\ g[n] \subseteq Pass
      BY <2>2
    <3> QED
      BY <3>1, <3>2, <1>2
  <2>3. Nat \subseteq V
    <3> HIDE DEF V
    <3> QED
      BY <2>1, <2>2, AllNat
  <2> QED
    BY <2>3
<1> DEFINE W == {n \in Nat : n < NPass =>
                   \A p \in g[n + 1] \ g[n] : topoIdx[p] < NPass - 1 - n}
<1>5. NPass - 1 \in W
  <2>1. 0 \in W
    <3> SUFFICES ASSUME NEW p \in g[1], p \notin g[0] PROVE topoIdx[p] < NPass - 1
      OBVIOUS
    <3>1. PICK q \in g[0] : p \in DependsOn(q)
      BY <1>1
    <3>2. q \in Pass /\ p \in Pass
      BY <1>4, <3>1, <1>2
    <3> QED
      BY <1>3, <3>1, <3>2
  <2>2. ASSUME NEW n \in Nat, n \in W PROVE n + 1 \in W
    <3> SUFFICES ASSUME n + 1 < NPass, NEW p \in g[(n + 1) + 1], p \notin g[n + 1]
                 PROVE  topoIdx[p] < NPass - 1 - (n + 1)
      OBVIOUS
    <3>1. n \in 0..(NPass - 1) /\ n + 1 \in 0..(NPass - 1)
      OBVIOUS
    <3>2. PICK q \in g[n + 1] : p \in DependsOn(q)
      BY <1>1, <3>1
    <3>3. q \notin g[n]
      <4>1. g[n + 1] = g[n] \union UNION {DependsOn(r) : r \in g[n]}
        BY <1>1, <3>1
      <4> QED
        BY <3>2, <4>1
    <3>4. topoIdx[q] < NPass - 1 - n
      BY <2>2, <3>2, <3>3
    <3>5. q \in Pass /\ p \in Pass
      BY <1>4, <3>1, <3>2, <1>2
    <3>6. topoIdx[p] < topoIdx[q]
      BY <1>3, <3>2, <3>5
    <3> QED
      BY <3>4, <3>5, <3>6
  <2>3. Nat \subseteq W
    <3> HIDE DEF W
    <3> QED
      BY <2>1, <2>2, AllNat
  <2> QED
    BY <2>3
<1>6. g[NPass] = g[NPass - 1]
  <2>1. NPass - 1 \in 0..(NPass - 1) /\ (NPass - 1) + 1 = NPass
    OBVIOUS
  <2>2. g[NPass - 1] \subseteq g[NPass]
    BY <1>1, <2>1
  <2>3. \A p \in g[NPass] \ g[NPass - 1] : topoIdx[p] < NPass - 1 - (NPass - 1)
    BY <1>5, <2>1
  <2>4. \A p \in g[NPass] : topoIdx[p] \in 0..(NPass - 1)
    BY <1>4
  <2>5. ASSUME NEW p \in g[NPass], p \notin g[NPass - 1] PROVE FALSE
    <3>1. topoIdx[p] < NPass - 1 - (NPass - 1) /\ topoIdx[p] \in 0..(NPass - 1)
      BY <2>3, <2>4, <2>5
    <3> QED
      BY <3>1
  <2> QED
    BY <2>2, <2>5
<1>7. ASSUME NEW p \in g[NPass] PROVE DependsOn(p) \subseteq g[NPass]
  <2>1. NPass - 1 \in 0..(NPass - 1) /\ (NPass - 1) + 1 = NPass
    OBVIOUS
  <2>2. g[NPass] = g[NPass - 1] \union UNION {DependsOn(q) : q \in g[NPass - 1]}
    BY <1>1, <2>1
  <2> QED
    BY <1>6, <2>2
<1> QED
  BY <1>1, <1>4, <1>7

\* A sequence with one more element in front.
LEMMA ConsSeq ==
  ASSUME NEW T, NEW k \in T, NEW t \in Seq(T)
  PROVE  /\ <<k>> \o t \in Seq(T)
         /\ Len(t) \in Nat /\ DOMAIN t = 1..Len(t)
         /\ Len(<<k>> \o t) = Len(t) + 1
         /\ DOMAIN (<<k>> \o t) = 1..(Len(t) + 1)
         /\ (<<k>> \o t)[1] = k
         /\ \A c \in 2..(Len(t) + 1) : (<<k>> \o t)[c] = t[c - 1]
         /\ \A c \in 1..Len(t) : (<<k>> \o t)[c + 1] = t[c]
<1>1. <<k>> \in Seq(T) /\ Len(<<k>>) = 1
  OBVIOUS
<1>2. <<k>> \o t \in Seq(T) /\ Len(<<k>> \o t) = 1 + Len(t)
  BY <1>1, ConcatProperties
<1>3. Len(t) \in Nat /\ DOMAIN t = 1..Len(t) /\ DOMAIN (<<k>> \o t) = 1..(Len(t) + 1)
  BY <1>2, LenProperties
<1>4. \A c \in 1..(1 + Len(t)) : (<<k>> \o t)[c] = IF c <= 1 THEN <<k>>[c] ELSE t[c - 1]
  BY <1>1, ConcatProperties
<1> QED
  BY <1>2, <1>3, <1>4

\* l and r are where the two pointers stop that start at i.
NextChunk(en, i, l, r) ==
  /\ l \in i..(NPass - 1)
  /\ r \in (l + 1)..NPass
  /\ At(l) \in en
  /\ \A j \in i..(l - 1) : At(j) \notin en
  /\ \A j \in l..(r - 1) : At(j) \in en => kind[At(j)] = kind[At(l)]
  /\ r < NPass => At(r) \in en /\ kind[At(r)] # kind[At(l)]

\* A chunk in front of the chunks of the rest.
LEMMA CutStep ==
  ASSUME Sorted, topoIdx \in [Pass -> 0..(NPass - 1)],
         NEW en \in SUBSET Pass, NEW i \in 0..(NPass - 1), NEW l, NEW r, NEW t,
         NextChunk(en, i, l, r),
         Cut(en, r, t)
  PROVE  Cut(en, i, <<[left |-> l, right |-> r - 1]>> \o t)
<1> USE Size
<1> DEFINE k == [left |-> l, right |-> r - 1]
           C == [left : 0..NPass, right : 0..NPass]
           s == <<k>> \o t
           n == Len(t)
<1>1. /\ l \in Nat /\ r \in Nat /\ i <= l /\ l < r /\ r <= NPass
      /\ At(l) \in en /\ (At(i) \in en => l = i)
      /\ r < NPass => kind[At(r)] # kind[At(l)]
      /\ r < NPass => At(r) \in en
  BY DEF NextChunk
<1>2. k \in C /\ k.left = l /\ k.right = r - 1
  BY <1>1
<1>3. t \in Seq(C)
  BY DEF Cut
<1> HIDE DEF k
<1>4. s \in Seq(C) /\ n \in Nat /\ DOMAIN t = 1..n
  BY <1>2, <1>3, ConsSeq
<1>5. Len(s) = n + 1 /\ DOMAIN s = 1..(n + 1) /\ s[1] = k
  BY <1>2, <1>3, ConsSeq
<1>6. \A c \in 2..(n + 1) : s[c] = t[c - 1]
  BY <1>2, <1>3, ConsSeq
<1>7. \A c \in 1..n : t[c].left \in Nat /\ t[c].right \in Nat
  <2>1. \A c \in 1..n : t[c] \in C
    BY <1>3, ElementOfSeq
  <2> QED
    BY <2>1
<1> HIDE DEF s, n, C
<1>8. \A c \in 1..n :
        /\ r <= t[c].left /\ t[c].left <= t[c].right /\ t[c].right < NPass
        /\ At(t[c].left) \in en
        /\ \A p \in en : topoIdx[p] \in t[c].left..t[c].right =>
                          kind[p] = kind[At(t[c].left)]
  BY <1>4 DEF Cut
<1>9. ASSUME NEW c \in 1..(n + 1)
      PROVE  /\ i <= s[c].left /\ s[c].left <= s[c].right /\ s[c].right < NPass
             /\ At(s[c].left) \in en
             /\ \A p \in en : topoIdx[p] \in s[c].left..s[c].right =>
                               kind[p] = kind[At(s[c].left)]
  <2>1. CASE c = 1
    <3>1. \A p \in en : topoIdx[p] \in l..(r - 1) => kind[p] = kind[At(l)]
      BY Positions DEF NextChunk
    <3> QED
      BY <1>1, <1>2, <1>5, <2>1, <3>1
  <2>2. CASE c # 1
    <3>1. c - 1 \in 1..n /\ c \in 2..(n + 1)
      BY <1>4, <2>2
    <3>2. s[c] = t[c - 1]
      BY <1>6, <3>1
    <3> QED
      BY <1>1, <1>7, <1>8, <3>1, <3>2
  <2> QED
    BY <2>1, <2>2
<1>10. ASSUME NEW c \in 1..(n + 1), NEW d \in 1..(n + 1), c < d
       PROVE  s[c].right < s[d].left
  <2>1. d - 1 \in 1..n /\ s[d] = t[d - 1]
    BY <1>4, <1>6, <1>10
  <2>2. CASE c = 1
    BY <1>1, <1>2, <1>5, <1>7, <1>8, <2>1, <2>2
  <2>3. CASE c # 1
    <3>1. c - 1 \in 1..n /\ s[c] = t[c - 1]
      BY <1>4, <1>6, <2>3
    <3>2. \A x, y \in 1..n : x < y => t[x].right < t[y].left
      BY <1>4 DEF Cut
    <3>3. c - 1 < d - 1
      BY <1>4, <1>10
    <3>4. t[c - 1].right < t[d - 1].left
      BY <2>1, <3>1, <3>2, <3>3
    <3> QED
      BY <2>1, <3>1, <3>4
  <2> QED
    BY <2>2, <2>3
<1>11. t # <<>> <=> n > 0
  BY <1>3, <1>4, EmptySeq DEF n
<1>12. r < NPass => n > 0 /\ t[1].left = r
  BY <1>1, <1>11 DEF Cut
<1>13. n > 0 => r < NPass
  <2>1. n > 0 => r <= t[1].left /\ t[1].left <= t[1].right /\ t[1].right < NPass
    BY <1>4, <1>8
  <2> QED
    BY <1>1, <1>4, <1>7, <2>1
<1>14. ASSUME NEW c \in 1..n
       PROVE  /\ s[c + 1].left = s[c].right + 1
              /\ kind[At(s[c + 1].left)] # kind[At(s[c].left)]
  <2>0. s[c + 1] = t[c]
    BY <1>4, <1>6
  <2>1. CASE c = 1
    <3>1. t[1].left = r /\ r < NPass
      BY <1>4, <1>12, <1>13
    <3> QED
      BY <1>1, <1>2, <1>5, <2>0, <2>1, <3>1
  <2>2. CASE c # 1
    <3>1. c - 1 \in 1..(n - 1) /\ (c - 1) + 1 = c /\ s[c] = t[c - 1]
      BY <1>4, <1>6, <2>2
    <3>2. /\ t[(c - 1) + 1].left = t[c - 1].right + 1
          /\ kind[At(t[(c - 1) + 1].left)] # kind[At(t[c - 1].left)]
      BY <3>1 DEF Cut, n
    <3> QED
      BY <2>0, <3>1, <3>2
  <2> QED
    BY <2>1, <2>2
<1>15. ASSUME NEW p \in en, topoIdx[p] >= i
       PROVE  \E c \in 1..(n + 1) : topoIdx[p] \in s[c].left..s[c].right
  <2>1. topoIdx[p] >= l
    <3>1. At(topoIdx[p]) = p /\ topoIdx[p] \in Nat
      BY Positions
    <3> QED
      BY <1>1, <1>15, <3>1 DEF NextChunk
  <2>2. CASE topoIdx[p] < r
    <3>1. topoIdx[p] \in k.left..k.right
      BY <1>1, <1>2, <2>1, <2>2
    <3> QED
      BY <1>4, <1>5, <3>1
  <2>3. CASE topoIdx[p] >= r
    <3>1. PICK c \in 1..n : topoIdx[p] \in t[c].left..t[c].right
      BY <1>4, <2>3 DEF Cut
    <3>2. c + 1 \in 1..(n + 1) /\ s[c + 1] = t[c]
      BY <1>4, <1>6
    <3> QED
      BY <3>1, <3>2
  <2>4. topoIdx[p] \in Nat
    OBVIOUS
  <2> QED
    BY <1>1, <2>2, <2>3, <2>4
<1>16. s[n + 1].right = NPass - 1
  <2>1. CASE n = 0
    BY <1>1, <1>2, <1>5, <1>12, <2>1
  <2>2. CASE n > 0
    <3>1. s[n + 1] = t[n]
      BY <1>4, <1>6, <2>2
    <3>2. t[n].right = NPass - 1
      BY <1>11, <2>2 DEF Cut, n
    <3> QED
      BY <3>1, <3>2
  <2> QED
    BY <1>4, <2>1, <2>2
<1>17. s # <<>> /\ (At(i) \in en => s[1].left = i)
  <2>1. s # <<>>
    BY <1>4, <1>5
  <2> QED
    BY <2>1, <1>1, <1>2, <1>5
<1>18. Cut(en, i, s)
  <2>1. 1..(Len(s) - 1) = 1..n /\ s[Len(s)].right = NPass - 1
    BY <1>4, <1>5, <1>16
  <2>2. \A c, d \in DOMAIN s : c < d => s[c].right < s[d].left
    BY <1>5, <1>10
  <2>3. \A p \in en : topoIdx[p] >= i =>
          \E c \in DOMAIN s : topoIdx[p] \in s[c].left..s[c].right
    BY <1>5, <1>15
  <2>4. \A c \in 1..(Len(s) - 1) : /\ s[c + 1].left = s[c].right + 1
                                   /\ kind[At(s[c + 1].left)] # kind[At(s[c].left)]
    BY <2>1, <1>14
  <2>5. s \in Seq([left : 0..NPass, right : 0..NPass])
    BY <1>4 DEF C
  <2> QED
    BY <1>5, <1>9, <1>17, <2>1, <2>2, <2>3, <2>4, <2>5 DEF Cut
<1> QED
  BY <1>18 DEF s, k

\* Where the pointers stop: at the first enabled pass, and at the next one
\* of another dispatcher.
LeftOf(en, i)  == Min({j \in i..(NPass - 1) : At(j) \in en})
RightOf(en, l) == Min({NPass} \union {j \in l..(NPass - 1) :
                         At(j) \in en /\ kind[At(j)] # kind[At(l)]})
NoneFrom(en, i) == \A j \in i..(NPass - 1) : At(j) \notin en

\* The pointers find a chunk if an enabled pass is left.
LEMMA PointersMove ==
  ASSUME NEW en, NEW i \in 0..NPass, ~NoneFrom(en, i)
  PROVE  /\ i < NPass
         /\ NextChunk(en, i, LeftOf(en, i), RightOf(en, LeftOf(en, i)))
<1> USE Size
<1> DEFINE T == {j \in i..(NPass - 1) : At(j) \in en}
           l == LeftOf(en, i)
           U == {j \in l..(NPass - 1) : At(j) \in en /\ kind[At(j)] # kind[At(l)]}
           r == RightOf(en, l)
<1>1. T \subseteq Nat /\ T # {}
  BY DEF NoneFrom
<1>2. l \in T /\ \A j \in T : l <= j
  <2>1. l = Min(T)
    BY DEF LeftOf
  <2> HIDE DEF T, l
  <2> QED
    BY <1>1, <2>1, LeastOf
<1>3. l \in i..(NPass - 1) /\ At(l) \in en /\ i < NPass
  BY <1>2
<1>4. \A j \in i..(l - 1) : At(j) \notin en
  <2> SUFFICES ASSUME NEW j \in i..(l - 1), At(j) \in en PROVE FALSE
    OBVIOUS
  <2>1. j \in T /\ j < l
    BY <1>3
  <2> QED
    BY <1>2, <1>3, <2>1
<1> HIDE DEF l
<1>5. {NPass} \union U \subseteq Nat /\ {NPass} \union U # {}
  BY <1>3
<1>6. r \in {NPass} \union U /\ \A j \in {NPass} \union U : r <= j
  <2>1. r = Min({NPass} \union U)
    BY DEF RightOf
  <2> HIDE DEF U, r
  <2> QED
    BY <1>5, <2>1, LeastOf
<1> HIDE DEF r
<1>7. r \in (l + 1)..NPass
  <2>1. l \notin U /\ NPass \in Nat /\ l \in Nat /\ l < NPass
    BY <1>3
  <2>2. \A j \in U : j \in l..(NPass - 1) /\ j # l
    BY <2>1
  <2> HIDE DEF U
  <2> QED
    BY <1>6, <2>1, <2>2
<1>8. \A j \in l..(r - 1) : At(j) \in en => kind[At(j)] = kind[At(l)]
  <2> SUFFICES ASSUME NEW j \in l..(r - 1), At(j) \in en, kind[At(j)] # kind[At(l)]
               PROVE  FALSE
    OBVIOUS
  <2>1. j \in U /\ j < r
    BY <1>3, <1>7
  <2> QED
    BY <1>3, <1>6, <1>7, <2>1
<1>9. r < NPass => At(r) \in en /\ kind[At(r)] # kind[At(l)]
  BY <1>6, <1>7
<1> QED
  BY <1>3, <1>4, <1>7, <1>8, <1>9 DEF NextChunk, l, r

\* One round of the loop that makes the chunks, f being the rest of them.
ChunksAt(en, f, i) ==
  IF NoneFrom(en, i) THEN <<>>
  ELSE <<[left |-> LeftOf(en, i), right |-> RightOf(en, LeftOf(en, i)) - 1]>>
         \o f[RightOf(en, LeftOf(en, i))]

\* The recursive function of the chunks has a value.
LEMMA ChunksExist ==
  ASSUME NEW en
  PROVE  \E f : f = [i \in 0..NPass |-> ChunksAt(en, f, i)]
<1> USE Size
<1> DEFINE Good(m) == \E f : f = [i \in (NPass - m)..NPass |-> ChunksAt(en, f, i)]
           W == {m \in Nat : m <= NPass => Good(m)}
<1>1. ASSUME NEW i \in 0..NPass, NEW f, NEW g, \A j \in (i + 1)..NPass : f[j] = g[j]
      PROVE  ChunksAt(en, f, i) = ChunksAt(en, g, i)
  <2>1. ~NoneFrom(en, i) => RightOf(en, LeftOf(en, i)) \in (i + 1)..NPass
    BY PointersMove DEF NextChunk
  <2> QED
    BY <1>1, <2>1 DEF ChunksAt
<1>2. 0 \in W
  <2> DEFINE f == [i \in NPass..NPass |-> <<>>]
  <2>1. \A i \in NPass..NPass : ChunksAt(en, f, i) = <<>>
    BY DEF ChunksAt, NoneFrom
  <2>2. f = [i \in (NPass - 0)..NPass |-> ChunksAt(en, f, i)]
    BY <2>1
  <2> HIDE DEF f
  <2>3. Good(0)
    BY <2>2
  <2> QED
    BY <2>3
<1>3. ASSUME NEW m \in Nat, m \in W PROVE m + 1 \in W
  <2> SUFFICES ASSUME m + 1 <= NPass PROVE Good(m + 1)
    OBVIOUS
  <2>1. PICK f : f = [i \in (NPass - m)..NPass |-> ChunksAt(en, f, i)]
    BY <1>3
  <2> DEFINE z == NPass - (m + 1)
             h == [i \in z..NPass |-> IF i = z THEN ChunksAt(en, f, i) ELSE f[i]]
  <2>2. z \in 0..NPass /\ NPass - m = z + 1
    OBVIOUS
  <2>3. \A i \in (z + 1)..NPass : h[i] = f[i]
    BY <2>2
  <2>4. ASSUME NEW i \in z..NPass PROVE h[i] = ChunksAt(en, h, i)
    <3>1. \A j \in (i + 1)..NPass : h[j] = f[j]
      BY <2>2, <2>3
    <3>2. ChunksAt(en, h, i) = ChunksAt(en, f, i)
      <4>1. i \in 0..NPass
        BY <2>2
      <4> HIDE DEF h, z
      <4> QED
        BY <1>1, <3>1, <4>1
    <3>3. CASE i = z
      BY <3>2, <3>3
    <3>4. CASE i # z
      <4>1. i \in (NPass - m)..NPass /\ h[i] = f[i]
        BY <2>2, <3>4
      <4> QED
        BY <2>1, <3>2, <4>1
    <3> QED
      BY <3>3, <3>4
  <2>5. h = [i \in (NPass - (m + 1))..NPass |-> ChunksAt(en, h, i)]
    BY <2>4
  <2> HIDE DEF h
  <2> QED
    BY <2>5
<1>4. Good(NPass)
  <2> HIDE DEF Good
  <2>1. Nat \subseteq W
    <3> HIDE DEF W
    <3> QED
      BY <1>2, <1>3, AllNat
  <2> QED
    BY <2>1
<1>5. PICK f : f = [i \in (NPass - NPass)..NPass |-> ChunksAt(en, f, i)]
  BY <1>4
<1>6. NPass - NPass = 0
  OBVIOUS
<1> QED
  BY <1>5, <1>6

\* The loop cuts the enabled passes into chunks.
LEMMA ChunkifyCuts ==
  ASSUME Sorted, topoIdx \in [Pass -> 0..(NPass - 1)], NEW en \in SUBSET Pass
  PROVE  Cut(en, 0, Chunkify(en))
<1> USE Size
<1> DEFINE f == CHOOSE g : g = [i \in 0..NPass |-> ChunksAt(en, g, i)]
           W == {m \in Nat : \A i \in 0..NPass : NPass - m <= i => Cut(en, i, f[i])}
<1>1. Chunkify(en) = f[0]
  BY DEF Chunkify, ChunksAt, LeftOf, RightOf, NoneFrom
<1>2. f = [i \in 0..NPass |-> ChunksAt(en, f, i)]
  BY ChunksExist
<1> HIDE DEF f
<1>3. ASSUME NEW i \in 0..NPass, NoneFrom(en, i) PROVE Cut(en, i, f[i])
  <2>1. f[i] = <<>>
    BY <1>2, <1>3 DEF ChunksAt
  <2>2. \A p \in en : topoIdx[p] < i
    <3> SUFFICES ASSUME NEW p \in en, topoIdx[p] >= i PROVE FALSE
      OBVIOUS
    <3>1. topoIdx[p] \in i..(NPass - 1) /\ At(topoIdx[p]) = p
      BY Positions
    <3> QED
      BY <1>3, <3>1 DEF NoneFrom
  <2>3. i < NPass => At(i) \notin en
    BY <1>3 DEF NoneFrom
  <2>4. \A p \in en : ~(topoIdx[p] >= i)
    BY <2>2
  <2>5. <<>> \in Seq([left : 0..NPass, right : 0..NPass]) /\ DOMAIN <<>> = {}
        /\ 1..(Len(<<>>) - 1) = {}
    OBVIOUS
  <2> QED
    BY <2>1, <2>3, <2>4, <2>5 DEF Cut
<1>4. 0 \in W
  <2> SUFFICES ASSUME NEW i \in 0..NPass, NPass - 0 <= i PROVE Cut(en, i, f[i])
    OBVIOUS
  <2>1. NoneFrom(en, i)
    BY DEF NoneFrom
  <2> QED
    BY <1>3, <2>1
<1>5. ASSUME NEW m \in Nat, m \in W PROVE m + 1 \in W
  <2> SUFFICES ASSUME NEW i \in 0..NPass, NPass - (m + 1) <= i PROVE Cut(en, i, f[i])
    OBVIOUS
  <2>1. CASE NoneFrom(en, i)
    BY <1>3, <2>1
  <2>2. CASE ~NoneFrom(en, i)
    <3> DEFINE l == LeftOf(en, i)
               r == RightOf(en, l)
    <3>1. i < NPass /\ NextChunk(en, i, l, r)
      BY <2>2, PointersMove
    <3>2. r \in (i + 1)..NPass
      BY <3>1 DEF NextChunk
    <3>3. f[i] = <<[left |-> l, right |-> r - 1]>> \o f[r]
      BY <1>2, <2>2 DEF ChunksAt
    <3> HIDE DEF l, r
    <3>4. Cut(en, r, f[r])
      <4>1. r \in 0..NPass /\ NPass - m <= r
        BY <3>2
      <4> QED
        BY <1>5, <4>1
    <3>5. i \in 0..(NPass - 1)
      BY <3>1
    <3> QED
      BY <3>1, <3>3, <3>4, <3>5, CutStep
  <2> QED
    BY <2>1, <2>2
<1>6. Nat \subseteq W
  <2> HIDE DEF W
  <2> QED
    BY <1>4, <1>5, AllNat
<1> QED
  <2>1. NPass \in W /\ NPass - NPass <= 0 /\ 0 \in 0..NPass
    BY <1>6
  <2> QED
    BY <1>1, <2>1

-----------------------------------------------------------------------------
(* Between the runs                                                        *)

\* What depends on the graph of the passes only.
LEMMA DepFrame ==
  ASSUME UNCHANGED depVars
  PROVE  /\ Sorted <=> Sorted'
         /\ \A i : At(i)' = At(i)
         /\ \A p : Transpose(p)' = Transpose(p)
         /\ \A p : Forward(p)' = Forward(p)
         /\ \A p : DependsOn(p)' = DependsOn(p)
         /\ topoIdx' = topoIdx /\ edges' = edges /\ kind' = kind
<1>1. topoIdx' = topoIdx /\ edges' = edges /\ kind' = kind
  BY DEF depVars
<1>2. \A p : Forward(p)' = Forward(p) /\ Transpose(p)' = Transpose(p)
  BY <1>1 DEF Forward, Transpose
<1>3. Sorted <=> Sorted'
  BY <1>1 DEF Sorted
<1>4. (\A i : At(i)' = At(i)) /\ (\A p : DependsOn(p)' = DependsOn(p))
  BY <1>1 DEF At, DependsOn, Forward
<1> QED
  BY <1>1, <1>2, <1>3, <1>4

\* The chunks stay as they are while the enabled passes do.
LEMMA CutFrame ==
  ASSUME UNCHANGED depVars, NEW E, NEW C, enabled' = E, chunks' = C
  PROVE  Cut(enabled, 0, chunks)' <=> Cut(E, 0, C)
<1>1. topoIdx' = topoIdx /\ kind' = kind /\ \A i : At(i)' = At(i)
  BY DepFrame
<1>2. Cut(enabled, 0, chunks)' <=> Cut(E, 0, C)'
  BY DEF Cut
<1>3. Cut(E, 0, C)' <=> Cut(E, 0, C)
  BY <1>1, Zenon DEF Cut
<1> QED
  BY <1>2, <1>3

\* The chunk a run is at has an enabled pass, at its left end, whose
\* dispatcher all its enabled passes have.
LEMMA InTheChunk ==
  ASSUME TypeOK, Sorted, InLoop, step # "Idle", ci <= Len(chunks)
  PROVE  /\ ci \in DOMAIN chunks /\ ci \in Nat /\ Len(chunks) \in Nat
         /\ Chunk.left \in Nat /\ Chunk.right \in Nat
         /\ Chunk.left <= Chunk.right /\ Chunk.right < NPass
         /\ At(Chunk.left) \in enabled
         /\ Yields \in Nat
         /\ \A p \in enabled : InChunk(p) => Items[kind[p]] = Yields
<1>1. ci \in DOMAIN chunks /\ ci \in Nat /\ Len(chunks) \in Nat
  <2>1. Len(chunks) \in Nat /\ DOMAIN chunks = 1..Len(chunks)
    BY LenProperties DEF TypeOK
  <2> QED
    BY <2>1 DEF InLoop
<1>2. Chunk \in [left : 0..NPass, right : 0..NPass]
  <2>1. chunks \in Seq([left : 0..NPass, right : 0..NPass])
    BY DEF TypeOK
  <2> QED
    BY <1>1, <2>1, ElementOfSeq, LenProperties DEF Chunk
<1>3. /\ Chunk.left <= Chunk.right /\ Chunk.right < NPass
      /\ At(Chunk.left) \in enabled
      /\ \A p \in enabled : topoIdx[p] \in Chunk.left..Chunk.right =>
                             kind[p] = kind[At(Chunk.left)]
  BY <1>1 DEF InLoop, Cut, Chunk
<1>4. Yields \in Nat
  BY <1>3, ConstantsAssumption DEF TypeOK, Yields
<1> QED
  BY <1>1, <1>2, <1>3, <1>4, Size DEF Yields, InChunk

\* References that are due can be counted,
LEMMA DueFinite ==
  ASSUME edges \in Seq([pass : Pass, depends : Pass]), NEW d
  PROVE  IsFiniteSet(Due(d)) /\ Cardinality(Due(d)) \in Nat
<1>1. Due(d) \subseteq DOMAIN edges
  BY DEF Due, Transpose
<1> QED
  BY <1>1, EdgeEnds, FS_Subset, FS_CardinalityType

\* also in the next state.
LEMMA DueFiniteNext ==
  ASSUME edges \in Seq([pass : Pass, depends : Pass]), UNCHANGED depVars, NEW d
  PROVE  IsFiniteSet(Due(d)') /\ Cardinality(Due(d))' \in Nat
<1>1. Due(d)' \subseteq DOMAIN edges
  BY DepFrame, EdgeEnds DEF Due
<1> QED
  BY <1>1, EdgeEnds, FS_Subset, FS_CardinalityType

\* Before the first run.
LEMMA InitIInv == Init => IInv
<1> SUFFICES ASSUME Init PROVE IInv
  OBVIOUS
<1> USE Size DEF Init, Fresh
<1>1. TypeOK
  <2>1. edges \in Seq([pass : Pass, depends : Pass])
    BY GraphsAssumption
  <2>2. topoIdx \in [Pass -> 0..(NPass - 1)]
    BY DEF Pass
  <2>3. heaps \in Seq(Heap) /\ chunks \in Seq([left : 0..NPass, right : 0..NPass])
    OBVIOUS
  <2>4. dispatched \in [Pass -> Seq(Nat)] /\ got \in [Pass -> SUBSET (1..MaxHeaps)]
    OBVIOUS
  <2>5. /\ pmState \in {"Initialized", "Running", "Cleanup"}
        /\ pState \in [Pass -> {"Initialized", "Running", "Valid"}]
        /\ kind \in [Pass -> Kinds]
        /\ enabled \subseteq Pass
        /\ lastRun \in Pass \union {Null}
        /\ errors \in BOOLEAN
        /\ step \in {"Idle", "Chunk", "Items", "Passes", "InRun", "Thrown"}
        /\ gced \subseteq Pass
    OBVIOUS
  <2>6. {ci, item, pos, requests, runs} \subseteq Nat
    OBVIOUS
  <2> QED
    BY <2>1, <2>2, <2>3, <2>4, <2>5, <2>6 DEF TypeOK
<1>2. Sorted
  <2>1. \A i \in 0..(NPass - 1) : i + 1 \in Pass /\ topoIdx[i + 1] = i
    BY DEF Pass
  <2>2. \A e \in DOMAIN edges : topoIdx[edges[e].depends] < topoIdx[edges[e].pass]
    <3>1. \A e \in DOMAIN edges : edges[e].depends < edges[e].pass
      BY GraphsAssumption
    <3>2. \A e \in DOMAIN edges : edges[e].pass \in Pass /\ edges[e].depends \in Pass
      BY GraphsAssumption, EdgeEnds
    <3> QED
      BY <3>1, <3>2 DEF Pass
  <2> QED
    BY <2>1, <2>2 DEF Sorted, Pass
<1>3. InLoop /\ StatesFollow /\ OnlyTheseRan /\ HeapsHeld /\ HeapsReleased
  BY DEF InLoop, StatesFollow, OnlyTheseRan, HeapsHeld, HeapsReleased, Inner
<1> QED
  BY <1>1, <1>2, <1>3 DEF IInv

\* EnablePass() is called between runs.
LEMMA EnablePassIInv ==
  ASSUME IInv, NEW p \in Pass, EnablePass(p) PROVE IInv'
<1> USE DEF EnablePass, IInv
<1>1. TypeOK'
  BY DEF TypeOK, depVars, loopVars, history
<1>2. Sorted'
  BY DepFrame
<1>3. UNCHANGED <<topoIdx, pState, heaps>>
  BY DEF depVars
<1>4. InLoop' /\ StatesFollow' /\ OnlyTheseRan' /\ HeapsHeld' /\ HeapsReleased'
  BY <1>3 DEF InLoop, StatesFollow, OnlyTheseRan, HeapsHeld, HeapsReleased, Inner
<1> QED
  BY <1>1, <1>2, <1>4

\* Run() enables what is needed and makes the chunks.
LEMMA StartRunIInv == IInv /\ StartRun => IInv'
<1> SUFFICES ASSUME IInv, StartRun PROVE IInv'
  OBVIOUS
<1> USE DEF StartRun
<1>1. TypeOK /\ Sorted /\ step = "Idle" /\ pmState = "Initialized"
  BY DEF IInv
<1>2. /\ enabled \subseteq Propagated /\ Propagated \subseteq Pass
      /\ \A p \in Propagated : DependsOn(p) \subseteq Propagated
  BY <1>1, PropagatedCloses DEF TypeOK
<1>3. Cut(Propagated, 0, Chunkify(Propagated))
  BY <1>1, <1>2, ChunkifyCuts DEF TypeOK
<1>4. TypeOK'
  <2>1. chunks' \in Seq([left : 0..NPass, right : 0..NPass])
    BY <1>3 DEF Cut
  <2>2. /\ pmState' = "Running" /\ enabled' \subseteq Pass /\ step' = "Chunk"
        /\ UNCHANGED <<pState, edges, topoIdx, kind, heaps, lastRun, errors, got, gced>>
    BY <1>2 DEF depVars
  <2>3. {ci, item, pos, requests, runs}' \subseteq Nat
    BY <1>1 DEF TypeOK
  <2>4. dispatched' \in [Pass -> Seq(Nat)]
    <3>1. <<>> \in Seq(Nat)
      OBVIOUS
    <3> QED
      BY <3>1
  <2> HIDE DEF StartRun
  <2> QED
    BY <1>1, <2>1, <2>2, <2>3, <2>4 DEF TypeOK
<1>5. Sorted'
  BY <1>1, DepFrame
<1>6. InLoop'
  <2>1. Cut(enabled, 0, chunks)'
    BY <1>3, CutFrame
  <2>2. Len(chunks') \in Nat
    BY <1>4, LenProperties DEF TypeOK
  <2>3. \A p \in enabled' : DependsOn(p)' \subseteq enabled'
    BY <1>2, DepFrame
  <2> QED
    BY <2>1, <2>2, <2>3 DEF InLoop, Inner
<1>7. StatesFollow'
  BY <1>1 DEF IInv, StatesFollow, Inner
<1>8. OnlyTheseRan' /\ HeapsHeld'
  BY DEF OnlyTheseRan, HeapsHeld
<1>9. HeapsReleased'
  <2>1. ASSUME NEW i \in DOMAIN heaps
        PROVE  heaps[i].refcount = 0 /\ heaps'[i].refcount <= Owed(heaps[i])'
    <3>1. heaps[i].refcount = 0 /\ heaps' = heaps
      BY <1>1 DEF IInv, HeapsReleased
    <3>2. \A d : Cardinality(Due(d))' \in Nat
      BY <1>1, DueFiniteNext DEF TypeOK
    <3>3. Cardinality(Due(heaps[i].owner))' \in Nat
      BY <3>2, heaps' = heaps
    <3> QED
      BY <3>1, <3>3 DEF Owed
  <2> QED
    BY <2>1 DEF HeapsReleased
<1> QED
  BY <1>4, <1>5, <1>6, <1>7, <1>8, <1>9 DEF IInv

\* Reset() begins another run.
LEMMA ResetIInv == IInv /\ Reset => IInv'
<1> SUFFICES ASSUME IInv, Reset PROVE IInv'
  OBVIOUS
<1> USE DEF Reset
<1>1. TypeOK
  BY DEF IInv
<1>2. TypeOK'
  <2>1. heaps' \in Seq(Heap)
    <3>1. DOMAIN heaps = 1..Len(heaps) /\ Len(heaps) \in Nat /\ \A i \in DOMAIN heaps : heaps[i] \in Heap
      BY <1>1, ElementOfSeq, LenProperties DEF TypeOK
    <3>2. heaps' \in [1..Len(heaps) -> Heap]
      BY <3>1 DEF Heap
    <3> QED
      BY <3>1, <3>2
  <2> QED
    BY <1>1, <2>1 DEF TypeOK, depVars, loopVars
<1>3. Sorted'
  BY DepFrame DEF IInv
<1>4. InLoop' /\ StatesFollow' /\ OnlyTheseRan' /\ HeapsHeld'
  BY DEF InLoop, StatesFollow, OnlyTheseRan, HeapsHeld, Inner
<1>5. HeapsReleased'
  <2>1. \A i \in DOMAIN heaps : heaps[i] \in Heap
    BY <1>1, ElementOfSeq, LenProperties DEF TypeOK
  <2> QED
    BY <2>1 DEF HeapsReleased, Heap
<1> QED
  BY <1>2, <1>3, <1>4, <1>5 DEF IInv

-----------------------------------------------------------------------------
(* A chunk begins and ends                                                 *)

\* What a heap is.
LEMMA HeapType ==
  ASSUME heaps \in Seq(Heap)
  PROVE  /\ DOMAIN heaps = 1..Len(heaps) /\ Len(heaps) \in Nat
         /\ \A i \in DOMAIN heaps : /\ heaps[i].owner \in Pass
                                   /\ heaps[i].refcount \in Nat
<1>1. \A i \in DOMAIN heaps : heaps[i] \in Heap
  BY ElementOfSeq, LenProperties
<1> QED
  BY <1>1, LenProperties DEF Heap

\* The references that are due, by where the run is.
LEMMA DueNow ==
  \A d, e :
    e \in Due(d) <=>
      /\ e \in Transpose(d)
      /\ LET q == edges[e].pass
         IN IF step = "Chunk" \/ LastIter THEN topoIdx[q] >= NextUp
            ELSE IF InChunk(d) THEN InChunk(q) /\ topoIdx[q] >= NextUp
            ELSE topoIdx[q] >= Chunk.left
BY DEF Due

\* What depends on the current chunk only.
LEMMA ChunkFrame ==
  ASSUME UNCHANGED <<depVars, chunks, ci>>
  PROVE  /\ Chunk' = Chunk /\ Yields' = Yields
         /\ \A p : InChunk(p)' <=> InChunk(p)
BY DepFrame DEF Chunk, Yields, InChunk

\* The references that are due after a step in the chunk.
LEMMA DueMoved ==
  ASSUME UNCHANGED <<depVars, chunks, ci>>, step' # "Chunk",
         NEW d, NEW e
  PROVE  /\ LastIter' => (e \in Due(d)' <=> /\ e \in Transpose(d)
                                            /\ topoIdx[edges[e].pass] >= NextUp')
         /\ ~LastIter' /\ InChunk(d) =>
              (e \in Due(d)' <=> /\ e \in Transpose(d)
                                 /\ InChunk(edges[e].pass)
                                 /\ topoIdx[edges[e].pass] >= NextUp')
         /\ ~LastIter' /\ ~InChunk(d) =>
              (e \in Due(d)' <=> /\ e \in Transpose(d)
                                 /\ topoIdx[edges[e].pass] >= Chunk.left)
<1>1. /\ Chunk' = Chunk /\ (InChunk(d)' <=> InChunk(d)) /\ topoIdx' = topoIdx
      /\ edges' = edges /\ Transpose(d)' = Transpose(d)
      /\ InChunk(edges[e].pass)' <=> InChunk(edges[e].pass)
  BY ChunkFrame, DepFrame
<1>2. CASE LastIter'
  BY <1>1, <1>2 DEF Due
<1>3. CASE ~LastIter' /\ InChunk(d)
  BY <1>1, <1>3 DEF Due
<1>4. CASE ~LastIter' /\ ~InChunk(d)
  BY <1>1, <1>4 DEF Due
<1> QED
  BY <1>2, <1>3, <1>4

\* A step that takes no heap keeps the references that are due, if no more
\* become due for a pass that has run.
LEMMA HeapsHeldMoves ==
  ASSUME IInv, UNCHANGED <<depVars, heaps>>, step \notin {"Idle", "Thrown"},
         step' # "InRun",
         \A d \in Pass :
           dispatched'[d] # <<>> /\ topoIdx[d] < NextUp' =>
             /\ got'[d] = got[d] /\ dispatched'[d] = dispatched[d]
             /\ topoIdx[d] < NextUp
             /\ Due(d)' \subseteq Due(d)
  PROVE  HeapsHeld'
<1>1. edges \in Seq([pass : Pass, depends : Pass]) /\ heaps \in Seq(Heap)
  BY DEF IInv, TypeOK
<1>2. topoIdx' = topoIdx
  BY DEF depVars
<1> SUFFICES ASSUME NEW d \in Pass, dispatched'[d] # <<>>, topoIdx[d] < NextUp',
                    Due(d)' # {}, NEW i \in got'[d]
             PROVE  HeldFor(d, i, Cardinality(Due(d)))'
  BY <1>2 DEF HeapsHeld
<1>3. HeldFor(d, i, Cardinality(Due(d)))
  BY DEF IInv, HeapsHeld
<1>4. /\ Cardinality(Due(d)') <= Cardinality(Due(d))
      /\ Cardinality(Due(d)') \in Nat /\ Cardinality(Due(d)) \in Nat
  BY <1>1, DueFinite, DueFiniteNext, FS_Subset
<1>5. i \in DOMAIN heaps => heaps[i].refcount \in Nat
  BY <1>1, HeapType
<1> QED
  BY <1>3, <1>4, <1>5 DEF HeldFor

\* ... and holds no more than are due, if none stops to be.
LEMMA HeapsReleasedMoves ==
  ASSUME IInv, UNCHANGED <<depVars, heaps, enabled, chunks>>, pmState = "Running",
         pmState' = "Running", step \notin {"Idle", "Thrown", "InRun"},
         \A d \in Pass : MustFree(d) /\ topoIdx[d] < NextUp =>
           Due(d) \subseteq (IF topoIdx[d] < NextUp' THEN Due(d)' ELSE {})
  PROVE  HeapsReleased'
<1>1. edges \in Seq([pass : Pass, depends : Pass]) /\ heaps \in Seq(Heap)
  BY DEF IInv, TypeOK
<1>2. \A d : MustFree(d)' <=> MustFree(d)
  BY DepFrame DEF MustFree, Runs
<1>3. topoIdx' = topoIdx /\ heaps' = heaps
  BY DEF depVars
<1> SUFFICES ASSUME NEW i \in DOMAIN heaps, MustFree(heaps[i].owner)
             PROVE  heaps[i].refcount <= Owed(heaps[i])'
  BY <1>2, <1>3 DEF HeapsReleased
<1> DEFINE d == heaps[i].owner
<1>4. d \in Pass /\ heaps[i].refcount \in Nat
  BY <1>1, HeapType
<1>5. heaps[i].refcount <= Owed(heaps[i])
  BY DEF IInv, HeapsReleased
<1>6. /\ IsFiniteSet(Due(d)') /\ Cardinality(Due(d)') \in Nat
      /\ Cardinality(Due(d)) \in Nat
  BY <1>1, DueFinite, DueFiniteNext
<1>7. Owed(heaps[i])' = IF topoIdx[d] < NextUp'
                        THEN IF heaps[i].lifetime = "Managed" THEN Cardinality(Due(d)') ELSE 0
                        ELSE IF step' = "InRun" /\ d = Running' THEN 1 ELSE 0
  BY <1>3 DEF Owed
<1>8. Owed(heaps[i]) = IF topoIdx[d] < NextUp /\ heaps[i].lifetime = "Managed"
                       THEN Cardinality(Due(d)) ELSE 0
  BY DEF Owed
<1> HIDE DEF d
<1>9. CASE topoIdx[d] < NextUp /\ topoIdx[d] < NextUp'
  <2>1. Cardinality(Due(d)) <= Cardinality(Due(d)')
    BY <1>4, <1>6, <1>9, FS_Subset DEF d
  <2> QED
    BY <1>4, <1>5, <1>6, <1>7, <1>8, <1>9, <2>1
<1>10. CASE topoIdx[d] < NextUp /\ ~(topoIdx[d] < NextUp')
  <2>1. Due(d) = {}
    BY <1>4, <1>10 DEF d
  <2>2. Cardinality(Due(d)) = 0
    BY <2>1, FS_EmptySet
  <2> QED
    BY <1>4, <1>5, <1>6, <1>7, <1>8, <1>10, <2>2
<1>11. CASE ~(topoIdx[d] < NextUp)
  BY <1>4, <1>5, <1>6, <1>7, <1>8, <1>11
<1> QED
  BY <1>9, <1>10, <1>11

\* A step that runs no pass.
LEMMA OnlyTheseRanFrame ==
  ASSUME OnlyTheseRan, UNCHANGED <<kind, topoIdx, enabled, chunks, dispatched>>,
         step # "Idle" \/ pmState = "Cleanup"
  PROVE  OnlyTheseRan'
BY DEF OnlyTheseRan, Runs

\* Run() comes to a chunk.
LEMMA OpenChunkIInv == IInv /\ OpenChunk => IInv'
<1> SUFFICES ASSUME IInv, OpenChunk PROVE IInv'
  OBVIOUS
<1>0. /\ step = "Chunk" /\ step' = "Items" /\ item' = 1 /\ ci <= Len(chunks)
      /\ UNCHANGED <<pmState, pState, depVars, enabled, heaps, lastRun, errors,
                     chunks, ci, pos, requests, runs, history>>
  BY DEF OpenChunk
<1>1. TypeOK /\ Sorted /\ InLoop /\ StatesFollow /\ OnlyTheseRan
  BY DEF IInv
<1>2. /\ Chunk.left \in Nat /\ Chunk.right \in Nat
      /\ Chunk.left <= Chunk.right /\ Chunk.right < NPass
      /\ Yields \in Nat
      /\ \A p \in enabled : InChunk(p) => Items[kind[p]] = Yields
  BY <1>0, <1>1, InTheChunk
<1>3. topoIdx' = topoIdx /\ kind' = kind /\ edges' = edges /\ dispatched' = dispatched /\ got' = got
  BY <1>0 DEF depVars, history
<1>4. Chunk' = Chunk /\ Yields' = Yields /\ (\A p : InChunk(p)' <=> InChunk(p))
  BY <1>0, ChunkFrame
<1>5. TypeOK'
  BY <1>0, <1>1, <1>3 DEF TypeOK, history
<1>6. Sorted'
  BY <1>0, <1>1, DepFrame
<1>7. InLoop'
  <2>1. Cut(enabled, 0, chunks)'
    BY <1>0, <1>1, CutFrame DEF InLoop
  <2>2. \A p : DependsOn(p)' = DependsOn(p)
    BY <1>0, DepFrame
  <2> QED
    BY <1>0, <1>1, <1>2, <1>4, <2>1, <2>2 DEF InLoop, Inner
<1>8. StatesFollow'
  BY <1>0, <1>1 DEF StatesFollow, Inner
<1>9. OnlyTheseRan'
  BY <1>0, <1>1, <1>3, OnlyTheseRanFrame
<1>10. /\ NextUp = Chunk.left
       /\ LastIter' <=> Yields = 0
       /\ NextUp' = IF Yields = 0 THEN Chunk.right + 1 ELSE Chunk.left
  <2>1. LastIter' <=> Yields = 0
    BY <1>0, <1>2, <1>4 DEF LastIter
  <2>2. ~(ci > Len(chunks))
    BY <1>0, <1>1, InTheChunk
  <2> QED
    BY <1>0, <1>4, <2>1, <2>2 DEF NextUp, Inner
<1>11. \A d, e : e \in Due(d) <=>
         e \in Transpose(d) /\ topoIdx[edges[e].pass] >= Chunk.left
  BY <1>0, <1>10, DueNow
<1>12. \A d, e : ~InChunk(d) => (e \in Due(d)' <=>
         /\ e \in Transpose(d)
         /\ topoIdx[edges[e].pass] >= NextUp')
  BY <1>0, <1>10, DueMoved
<1>13. \A e \in DOMAIN edges : edges[e].pass \in Pass
  BY <1>1, EdgeEnds DEF TypeOK
<1>14. \A p \in Pass : topoIdx[p] \in Nat
  BY <1>1 DEF TypeOK
<1>15. \A p \in Pass : Runs(p) /\ InChunk(p) => Yields > 0
  BY <1>2 DEF Runs
<1>16. HeapsHeld'
  <2> SUFFICES ASSUME NEW d \in Pass, dispatched[d] # <<>>, topoIdx[d] < NextUp'
               PROVE  topoIdx[d] < NextUp /\ Due(d)' \subseteq Due(d)
    BY <1>0, <1>3, HeapsHeldMoves
  <2>1. topoIdx[d] < Chunk.left
    BY <1>0, <1>1, <1>2, <1>10, <1>14, <1>15 DEF OnlyTheseRan, InChunk
  <2>2. ~InChunk(d)
    BY <2>1, <1>2, <1>14 DEF InChunk
  <2>3. \A e \in Transpose(d) : edges[e].pass \in Pass
    BY <1>13 DEF Transpose
  <2> QED
    BY <2>1, <2>2, <2>3, <1>2, <1>10, <1>11, <1>12, <1>14
<1>17. HeapsReleased'
  <2> SUFFICES ASSUME NEW d \in Pass, MustFree(d), topoIdx[d] < NextUp
               PROVE  Due(d) \subseteq (IF topoIdx[d] < NextUp' THEN Due(d)' ELSE {})
    BY <1>0, <1>1, HeapsReleasedMoves DEF InLoop
  <2>1. topoIdx[d] < NextUp' /\ ~InChunk(d)
    BY <1>2, <1>10, <1>14 DEF InChunk
  <2>2. \A e \in Transpose(d) : edges[e].pass \in Pass /\ Runs(edges[e].pass)
    BY <1>13 DEF Transpose, MustFree
  <2>3. ASSUME NEW e \in Due(d) PROVE e \in Due(d)'
    <3>1. e \in Transpose(d) /\ topoIdx[edges[e].pass] >= Chunk.left
      BY <2>3, <1>11
    <3>2. Yields = 0 => ~InChunk(edges[e].pass)
      BY <3>1, <2>2, <1>15
    <3>3. Yields = 0 => topoIdx[edges[e].pass] >= Chunk.right + 1
      BY <3>1, <3>2, <2>2, <1>2, <1>14 DEF InChunk
    <3> QED
      BY <3>1, <3>3, <2>1, <1>10, <1>12
  <2> QED
    BY <2>1, <2>3
<1> QED
  BY <1>5, <1>6, <1>7, <1>8, <1>9, <1>16, <1>17 DEF IInv

\* The generator yields another item.
LEMMA NextItemIInv == IInv /\ NextItem => IInv'
<1> SUFFICES ASSUME IInv, NextItem PROVE IInv'
  OBVIOUS
<1>0. /\ step = "Items" /\ step' = "Passes" /\ item <= Yields
      /\ item' = item + 1 /\ pos' = Chunk.left
      /\ UNCHANGED <<pmState, pState, depVars, enabled, heaps, lastRun, errors,
                     chunks, ci, requests, runs, history>>
  BY DEF NextItem
<1>1. TypeOK /\ Sorted /\ InLoop /\ StatesFollow /\ OnlyTheseRan
  BY DEF IInv
<1>2. /\ Chunk.left \in Nat /\ Chunk.right \in Nat
      /\ Chunk.left <= Chunk.right /\ Chunk.right < NPass
      /\ Yields \in Nat /\ item \in Nat
  BY <1>0, <1>1, InTheChunk DEF InLoop, TypeOK
<1>3. topoIdx' = topoIdx /\ kind' = kind /\ edges' = edges /\ dispatched' = dispatched /\ got' = got
  BY <1>0 DEF depVars, history
<1>4. Chunk' = Chunk /\ Yields' = Yields /\ (\A p : InChunk(p)' <=> InChunk(p))
  BY <1>0, ChunkFrame
<1>5. TypeOK'
  BY <1>0, <1>1, <1>2, <1>3 DEF TypeOK, history
<1>6. Sorted'
  BY <1>0, <1>1, DepFrame
<1>7. InLoop'
  <2>1. Cut(enabled, 0, chunks)'
    BY <1>0, <1>1, CutFrame DEF InLoop
  <2>2. \A p : DependsOn(p)' = DependsOn(p)
    BY <1>0, DepFrame
  <2>3. pos' \in Chunk.left..Chunk.right /\ item' \in 2..(Yields + 1)
    BY <1>0, <1>1, <1>2 DEF InLoop
  <2> QED
    BY <1>0, <1>1, <1>2, <1>4, <2>1, <2>2, <2>3 DEF InLoop, Inner
<1>8. StatesFollow'
  BY <1>0, <1>1, <1>2, <1>3, <1>4 DEF StatesFollow, Inner, TypeOK
<1>9. OnlyTheseRan'
  BY <1>0, <1>1, <1>3, OnlyTheseRanFrame
<1>10. NextUp = Chunk.left /\ NextUp' = Chunk.left /\ ~LastIter
  BY <1>0, <1>2 DEF NextUp, Inner, LastIter
<1>11. ASSUME NEW d \in Pass, topoIdx[d] < Chunk.left
       PROVE  Due(d)' = Due(d)
  <2>1. ~InChunk(d)
    BY <1>1, <1>2, <1>11 DEF InChunk, TypeOK
  <2>2. \A e : e \in Due(d) <=> e \in Transpose(d) /\ topoIdx[edges[e].pass] >= Chunk.left
    BY <1>0, <1>10, <2>1, DueNow
  <2>3. \A e : e \in Due(d)' <=> e \in Transpose(d) /\ topoIdx[edges[e].pass] >= Chunk.left
    BY <1>0, <1>10, <2>1, DueMoved
  <2> QED
    BY <2>2, <2>3
<1>12. HeapsHeld'
  BY <1>0, <1>3, <1>10, <1>11, HeapsHeldMoves
<1>13. HeapsReleased'
  BY <1>0, <1>1, <1>10, <1>11, HeapsReleasedMoves DEF InLoop
<1> QED
  BY <1>5, <1>6, <1>7, <1>8, <1>9, <1>12, <1>13 DEF IInv

\* The items of a chunk are done.
LEMMA CloseChunkIInv == IInv /\ CloseChunk => IInv'
<1> SUFFICES ASSUME IInv, CloseChunk PROVE IInv'
  OBVIOUS
<1>0. /\ step = "Items" /\ step' = "Chunk" /\ item > Yields /\ ci' = ci + 1
      /\ UNCHANGED <<pmState, pState, depVars, enabled, heaps, lastRun, errors,
                     chunks, item, pos, requests, runs, history>>
  BY DEF CloseChunk
<1>1. TypeOK /\ Sorted /\ InLoop /\ StatesFollow /\ OnlyTheseRan
  BY DEF IInv
<1>2. /\ Chunk.left \in Nat /\ Chunk.right \in Nat
      /\ Chunk.left <= Chunk.right /\ Chunk.right < NPass
      /\ ci \in DOMAIN chunks /\ ci \in Nat /\ Len(chunks) \in Nat /\ ci <= Len(chunks)
  BY <1>0, <1>1, InTheChunk DEF InLoop
<1>3. topoIdx' = topoIdx /\ kind' = kind /\ edges' = edges /\ dispatched' = dispatched /\ got' = got
  BY <1>0 DEF depVars, history
<1>5. TypeOK'
  <2>1. {ci, item, pos, requests, runs}' \subseteq Nat
    <3>1. {ci, item, pos, requests, runs} \subseteq Nat
      BY <1>1 DEF TypeOK
    <3>2. /\ ci' = ci + 1 /\ item' = item /\ pos' = pos
          /\ requests' = requests /\ runs' = runs
      BY <1>0
    <3> QED
      BY <3>1, <3>2
  <2>2. UNCHANGED <<got, gced, dispatched>>
    BY <1>0 DEF history
  <2>3. /\ step' = "Chunk"
        /\ UNCHANGED <<pmState, pState, enabled, heaps, lastRun, errors, chunks>>
    BY <1>0
  <2> QED
    BY <1>1, <1>3, <2>1, <2>2, <2>3, Zenon DEF TypeOK
<1>6. Sorted'
  BY <1>0, <1>1, DepFrame
<1>7. InLoop'
  <2>1. Cut(enabled, 0, chunks)'
    BY <1>0, <1>1, CutFrame DEF InLoop
  <2>2. \A p : DependsOn(p)' = DependsOn(p)
    BY <1>0, DepFrame
  <2> QED
    BY <1>0, <1>1, <1>2, <2>1, <2>2 DEF InLoop, Inner
<1>8. StatesFollow'
  BY <1>0, <1>1 DEF StatesFollow, Inner
<1>9. OnlyTheseRan'
  BY <1>0, <1>1, <1>3, OnlyTheseRanFrame
<1>10. NextUp = Chunk.right + 1 /\ NextUp' = Chunk.right + 1
  <2>1. NextUp = Chunk.right + 1
    BY <1>0 DEF NextUp, Inner, LastIter
  <2>2. NextUp' = IF ci + 1 > Len(chunks) THEN NPass ELSE chunks[ci + 1].left
    BY <1>0 DEF NextUp, Inner, Chunk
  <2>3. Cut(enabled, 0, chunks)
    BY <1>0, <1>1 DEF InLoop
  <2>4. CASE ci = Len(chunks)
    <3>1. chunks # <<>>
      BY <1>2
    <3>2. Chunk.right = NPass - 1
      BY <2>3, <2>4, <3>1 DEF Cut, Chunk
    <3> QED
      BY <1>2, <2>1, <2>2, <2>4, <3>2, Size
  <2>5. CASE ci # Len(chunks)
    <3>1. ci \in 1..(Len(chunks) - 1)
      BY <1>1, <1>2, <2>5, <1>0 DEF InLoop
    <3>2. chunks[ci + 1].left = Chunk.right + 1
      BY <2>3, <3>1 DEF Cut, Chunk
    <3> QED
      BY <2>1, <2>2, <3>1, <3>2
  <2> QED
    BY <2>4, <2>5
<1>11. ASSUME NEW d PROVE Due(d)' = Due(d)
  <2>1. \A e : e \in Due(d) <=> e \in Transpose(d) /\ topoIdx[edges[e].pass] >= Chunk.right + 1
    BY <1>0, <1>10, DueNow DEF LastIter
  <2>2. Transpose(d)' = Transpose(d)
    BY <1>0, DepFrame
  <2>3. \A e : e \in Due(d)' <=> e \in Transpose(d) /\ topoIdx[edges[e].pass] >= Chunk.right + 1
    BY <1>0, <1>3, <1>10, <2>2 DEF Due
  <2> QED
    BY <2>1, <2>3
<1>12. HeapsHeld'
  BY <1>0, <1>3, <1>10, <1>11, HeapsHeldMoves
<1>13. HeapsReleased'
  BY <1>0, <1>1, <1>10, <1>11, HeapsReleasedMoves DEF InLoop
<1> QED
  BY <1>5, <1>6, <1>7, <1>8, <1>9, <1>12, <1>13 DEF IInv

\* The chunks are done.
LEMMA EndRunIInv == IInv /\ EndRun => IInv'
<1> SUFFICES ASSUME IInv, EndRun PROVE IInv'
  OBVIOUS
<1>0. /\ step = "Chunk" /\ step' = "Idle" /\ ci > Len(chunks) /\ pmState' = "Cleanup"
      /\ UNCHANGED <<pState, depVars, enabled, heaps, lastRun, errors, loopVars,
                     requests, runs, history>>
  BY DEF EndRun
<1>1. TypeOK /\ Sorted /\ InLoop /\ StatesFollow /\ OnlyTheseRan
  BY DEF IInv
<1>2. UNCHANGED <<topoIdx, kind, edges, dispatched, got, chunks, ci, item, pos>>
  BY <1>0 DEF depVars, history, loopVars
<1>3. TypeOK'
  BY <1>0, <1>1, <1>2 DEF TypeOK, history
<1>4. Sorted'
  BY <1>0, <1>1, DepFrame
<1>5. InLoop' /\ HeapsHeld'
  BY <1>0 DEF InLoop, HeapsHeld
<1>6. StatesFollow'
  BY <1>0, <1>1 DEF StatesFollow, Inner
<1>7. OnlyTheseRan'
  BY <1>0, <1>1, <1>2, OnlyTheseRanFrame
<1>8. HeapsReleased'
  <2>1. heaps \in Seq(Heap) /\ edges \in Seq([pass : Pass, depends : Pass])
    BY <1>1 DEF TypeOK
  <2>2. \A d : MustFree(d)' <=> MustFree(d)
    BY <1>0, <1>2, DepFrame DEF MustFree, Runs
  <2>3. NextUp = NPass
    BY <1>0 DEF NextUp, Inner
  <2>4. ASSUME NEW d PROVE Cardinality(Due(d)) = 0
    <3>1. \A e \in Transpose(d) : topoIdx[edges[e].pass] \in 0..(NPass - 1)
      BY <1>1, <2>1, EdgeEnds DEF TypeOK
    <3>2. \A e : e \notin Due(d)
      BY <1>0, <2>3, <3>1, Size, DueNow
    <3> QED
      BY <3>2, FS_EmptySet
  <2>5. ASSUME NEW i \in DOMAIN heaps, MustFree(heaps[i].owner)
        PROVE  heaps[i].refcount = 0
    <3>1. heaps[i].refcount \in Nat /\ heaps[i].owner \in Pass
      BY <2>1, HeapType
    <3>2. topoIdx[heaps[i].owner] < NextUp
      BY <1>1, <2>3, <3>1, Size DEF TypeOK
    <3>3. heaps[i].refcount <= Owed(heaps[i])
      BY <1>0, <2>5 DEF IInv, HeapsReleased
    <3> QED
      BY <2>4, <3>1, <3>2, <3>3 DEF Owed
  <2> QED
    BY <1>0, <2>2, <2>5 DEF HeapsReleased
<1> QED
  BY <1>3, <1>4, <1>5, <1>6, <1>7, <1>8 DEF IInv

-----------------------------------------------------------------------------
(* The passes of a chunk                                                   *)

\* Where a run is while it goes through the passes of a chunk.
LEMMA InnerFacts ==
  ASSUME IInv, step \in Inner
  PROVE  /\ TypeOK /\ Sorted /\ InLoop /\ StatesFollow /\ OnlyTheseRan
         /\ pmState = "Running" /\ ci <= Len(chunks) /\ ci \in DOMAIN chunks
         /\ Chunk.left \in Nat /\ Chunk.right \in Nat /\ Chunk.right < NPass
         /\ item \in Nat /\ item > 0 /\ pos \in Chunk.left..Chunk.right
         /\ Running \in Pass /\ topoIdx[Running] = pos /\ InChunk(Running)
         /\ \A p \in Pass : topoIdx[p] = pos => p = Running
         /\ \A p \in Pass : topoIdx[p] \in Nat
         /\ Yields > 0 /\ Yields \in Nat
         /\ \A p \in enabled : InChunk(p) => Items[kind[p]] = Yields
<1>1. TypeOK /\ Sorted /\ InLoop /\ StatesFollow /\ OnlyTheseRan
  BY DEF IInv
<1>2. step # "Idle" /\ step # "Chunk" /\ step # "Items"
  BY DEF Inner
<1>3. pmState = "Running" /\ ci <= Len(chunks)
  BY <1>1, <1>2 DEF InLoop
<1>4. /\ ci \in DOMAIN chunks
      /\ Chunk.left \in Nat /\ Chunk.right \in Nat /\ Chunk.right < NPass
      /\ Yields \in Nat
      /\ \A p \in enabled : InChunk(p) => Items[kind[p]] = Yields
  BY <1>1, <1>2, <1>3, InTheChunk
<1>5. item \in Nat /\ item > 0 /\ pos \in Chunk.left..Chunk.right /\ Yields > 0
  BY <1>1, <1>2, <1>4 DEF InLoop
<1>6. topoIdx \in [Pass -> 0..(NPass - 1)]
  BY <1>1 DEF TypeOK
<1>7. /\ Running \in Pass /\ topoIdx[Running] = pos
      /\ \A p \in Pass : topoIdx[p] = pos => p = Running
  <2>1. pos \in 0..(NPass - 1)
    BY <1>4, <1>5, Size
  <2> QED
    BY <1>1, <1>6, <2>1, Positions DEF Running
<1>8. InChunk(Running)
  BY <1>5, <1>7 DEF InChunk
<1> QED
  BY <1>1, <1>3, <1>4, <1>5, <1>6, <1>7, <1>8

\* An enabled pass that is reached and is not the last of its chunk runs.
LEMMA NotAtAnEnd ==
  ASSUME IInv, step \in Inner, pos # Chunk.right, Running \in enabled
  PROVE  Runs(Running)
<1>1. /\ ci \in DOMAIN chunks /\ pos \in Chunk.left..Chunk.right
      /\ Chunk.left \in Nat /\ Chunk.right \in Nat
      /\ topoIdx[Running] = pos /\ Items[kind[Running]] > 0
  BY InnerFacts
<1>2. /\ \A c \in DOMAIN chunks : chunks[c].left <= chunks[c].right
      /\ \A c, d \in DOMAIN chunks : c < d => chunks[c].right < chunks[d].left
  BY InnerFacts DEF InLoop, Cut, Inner
<1>3. DOMAIN chunks \subseteq Nat
      /\ \A c \in DOMAIN chunks : chunks[c].left \in Nat /\ chunks[c].right \in Nat
  <2>1. chunks \in Seq([left : 0..NPass, right : 0..NPass])
    BY InnerFacts DEF TypeOK
  <2>2. DOMAIN chunks \subseteq Nat
    BY <2>1, LenProperties
  <2>3. \A c \in DOMAIN chunks : chunks[c] \in [left : 0..NPass, right : 0..NPass]
    BY <2>1, ElementOfSeq, LenProperties
  <2> QED
    BY <2>2, <2>3
<1>4. ASSUME NEW c \in DOMAIN chunks PROVE pos # chunks[c].right
  <2>1. CASE c = ci
    BY <2>1 DEF Chunk
  <2>2. CASE c < ci
    <3>1. chunks[c].right < Chunk.left
      BY <1>1, <1>2, <2>2 DEF Chunk
    <3> QED
      BY <1>1, <1>3, <3>1
  <2>3. CASE ci < c
    <3>1. Chunk.right < chunks[c].left /\ chunks[c].left <= chunks[c].right
      BY <1>1, <1>2, <2>3 DEF Chunk
    <3> QED
      BY <1>1, <1>3, <3>1
  <2> QED
    BY <1>1, <1>3, <2>1, <2>2, <2>3
<1> QED
  BY <1>1, <1>4 DEF Runs

\* The last pass of a chunk does not.
LEMMA EndNeverRuns ==
  ASSUME IInv, step \in Inner, NEW p \in Pass, topoIdx[p] = Chunk.right
  PROVE  ~Runs(p)
BY InnerFacts DEF Runs, Chunk

\* The references that are due while the passes of a chunk are run.
LEMMA DueInner ==
  ASSUME IInv, step \in Inner, NEW d, NEW e
  PROVE  /\ LastIter => (e \in Due(d) <=> /\ e \in Transpose(d)
                                          /\ topoIdx[edges[e].pass] >= pos)
         /\ ~LastIter /\ InChunk(d) =>
              (e \in Due(d) <=> /\ e \in Transpose(d)
                                /\ InChunk(edges[e].pass)
                                /\ topoIdx[edges[e].pass] >= pos)
         /\ ~LastIter /\ ~InChunk(d) =>
              (e \in Due(d) <=> /\ e \in Transpose(d)
                                /\ topoIdx[edges[e].pass] >= Chunk.left)
<1>1. NextUp = pos /\ step # "Chunk"
  BY DEF NextUp, Inner
<1> QED
  BY <1>1, DueNow

\* A pass that is not enabled is skipped.
LEMMA SkipPassIInv == IInv /\ SkipPass => IInv'
<1> SUFFICES ASSUME IInv, SkipPass PROVE IInv'
  OBVIOUS
<1>0. /\ step = "Passes" /\ step' = "Passes" /\ pos # Chunk.right
      /\ Running \notin enabled /\ pos' = pos + 1
      /\ UNCHANGED <<pmState, pState, depVars, enabled, heaps, lastRun, errors,
                     chunks, ci, item, requests, runs, history>>
  BY DEF SkipPass, PassesLeft
<1>1. step \in Inner
  BY <1>0 DEF Inner
<1>2. TypeOK /\ Sorted /\ InLoop /\ StatesFollow /\ OnlyTheseRan /\ pmState = "Running"
  BY <1>1, InnerFacts
<1>3. /\ Chunk.left \in Nat /\ Chunk.right \in Nat
      /\ pos \in Chunk.left..Chunk.right /\ pos \in Nat
      /\ pos + 1 \in Chunk.left..Chunk.right
      /\ Running \in Pass /\ topoIdx[Running] = pos /\ InChunk(Running)
      /\ \A p \in Pass : topoIdx[p] = pos => p = Running
      /\ \A p \in Pass : topoIdx[p] \in Nat
  BY <1>0, <1>1, InnerFacts
<1>4. topoIdx' = topoIdx /\ kind' = kind /\ edges' = edges /\ dispatched' = dispatched /\ got' = got
  BY <1>0 DEF depVars, history
<1>5. /\ Chunk' = Chunk /\ Yields' = Yields /\ (\A p : InChunk(p)' <=> InChunk(p))
      /\ (LastIter' <=> LastIter)
  BY <1>0, ChunkFrame DEF LastIter
<1>6. TypeOK'
  <2>1. {ci, item, pos, requests, runs}' \subseteq Nat
    BY <1>0, <1>2, <1>3 DEF TypeOK
  <2>2. UNCHANGED <<got, gced, dispatched>>
    BY <1>0 DEF history
  <2> QED
    BY <1>0, <1>2, <1>4, <2>1, <2>2 DEF TypeOK
<1>7. Sorted'
  BY <1>0, <1>2, DepFrame
<1>8. InLoop'
  <2>1. Cut(enabled, 0, chunks)'
    BY <1>0, <1>2, CutFrame DEF InLoop
  <2>2. \A p : DependsOn(p)' = DependsOn(p)
    BY <1>0, DepFrame
  <2> QED
    BY <1>0, <1>2, <1>3, <1>5, <2>1, <2>2 DEF InLoop, Inner
<1>9. StatesFollow'
  <2> SUFFICES ASSUME NEW p \in Pass
               PROVE  pState[p] = IF p \in enabled /\ topoIdx[p] < pos + 1 /\ Chunk.left <= topoIdx[p]
                                  THEN "Valid" ELSE "Initialized"
    BY <1>0, <1>4, <1>5 DEF StatesFollow, Inner
  <2>1. pState[p] = IF p \in enabled /\ topoIdx[p] < pos /\ Chunk.left <= topoIdx[p]
                    THEN "Valid" ELSE "Initialized"
    BY <1>0, <1>1, <1>2 DEF StatesFollow
  <2>2. p \in enabled => (topoIdx[p] < pos + 1 <=> topoIdx[p] < pos)
    BY <1>0, <1>3
  <2> QED
    BY <2>1, <2>2
<1>10. OnlyTheseRan'
  BY <1>0, <1>2, <1>4, OnlyTheseRanFrame
<1>11. NextUp = pos /\ NextUp' = pos + 1
  BY <1>0 DEF NextUp, Inner
<1>12. \A d \in Pass : \A e \in Transpose(d) : edges[e].pass \in Pass
  BY <1>2, EdgeEnds DEF TypeOK, Transpose
<1>13. HeapsHeld'
  <2> SUFFICES ASSUME NEW d \in Pass, dispatched[d] # <<>>, topoIdx[d] < NextUp'
               PROVE  topoIdx[d] < NextUp /\ Due(d)' \subseteq Due(d)
    BY <1>0, <1>4, HeapsHeldMoves
  <2>1. d # Running
    BY <1>0, <1>2 DEF OnlyTheseRan, Runs
  <2>2. topoIdx[d] < pos
    BY <1>3, <1>11, <2>1
  <2>3. ASSUME NEW e \in Due(d)' PROVE e \in Due(d)
    <3>1. e \in Transpose(d)
      BY <1>0, <1>4, <2>3, DueMoved
    <3>2. edges[e].pass \in Pass /\ topoIdx[edges[e].pass] \in Nat
      BY <1>3, <1>12, <3>1
    <3>3. topoIdx[edges[e].pass] >= pos + 1 => topoIdx[edges[e].pass] >= pos
      BY <1>3, <3>2
    <3> QED
      BY <1>0, <1>1, <1>5, <1>11, <2>3, <3>1, <3>3, DueMoved, DueInner
  <2> QED
    BY <1>11, <2>2, <2>3
<1>14. HeapsReleased'
  <2> SUFFICES ASSUME NEW d \in Pass, MustFree(d), topoIdx[d] < NextUp
               PROVE  Due(d) \subseteq (IF topoIdx[d] < NextUp' THEN Due(d)' ELSE {})
    BY <1>0, <1>2, HeapsReleasedMoves
  <2>1. topoIdx[d] < NextUp'
    BY <1>3, <1>11
  <2>2. ASSUME NEW e \in Due(d) PROVE e \in Due(d)'
    <3>1. e \in Transpose(d)
      BY <2>2, DueNow
    <3>2. edges[e].pass \in Pass /\ edges[e].pass # Running
      BY <1>0, <1>12, <3>1 DEF MustFree, Runs
    <3>3. topoIdx[edges[e].pass] >= pos => topoIdx[edges[e].pass] >= pos + 1
      BY <1>3, <3>2
    <3> QED
      BY <1>0, <1>1, <1>5, <1>11, <2>2, <3>1, <3>3, DueMoved, DueInner
  <2> QED
    BY <2>1, <2>2
<1> QED
  BY <1>6, <1>7, <1>8, <1>9, <1>10, <1>13, <1>14 DEF IInv

\* The passes of the chunk were run on an item and are Initialized again.
LEMMA EndIterationIInv == IInv /\ EndIteration => IInv'
<1> SUFFICES ASSUME IInv, EndIteration PROVE IInv'
  OBVIOUS
<1>0. /\ step = "Passes" /\ step' = "Items" /\ pos = Chunk.right
      /\ pState' = [p \in Pass |->
                      IF topoIdx[p] \in Chunk.left..(Chunk.right - 1)
                      THEN "Initialized" ELSE pState[p]]
      /\ UNCHANGED <<pmState, depVars, enabled, heaps, lastRun, errors, chunks,
                     ci, item, pos, requests, runs, history>>
  BY DEF EndIteration, PassesLeft, loopVars
<1>1. step \in Inner
  BY <1>0 DEF Inner
<1>2. TypeOK /\ Sorted /\ InLoop /\ StatesFollow /\ OnlyTheseRan /\ pmState = "Running"
  BY <1>1, InnerFacts
<1>3. /\ Chunk.left \in Nat /\ Chunk.right \in Nat /\ Chunk.left <= Chunk.right
      /\ \A p \in Pass : topoIdx[p] \in Nat
      /\ item \in Nat /\ item > 0 /\ Yields \in Nat
  BY <1>0, <1>1, InnerFacts
<1>4. topoIdx' = topoIdx /\ kind' = kind /\ edges' = edges /\ dispatched' = dispatched /\ got' = got
  BY <1>0 DEF depVars, history
<1>5. /\ Chunk' = Chunk /\ Yields' = Yields /\ (\A p : InChunk(p)' <=> InChunk(p))
      /\ (LastIter' <=> LastIter)
  BY <1>0, ChunkFrame DEF LastIter
<1>6. TypeOK'
  <2>1. UNCHANGED <<got, gced, dispatched>>
    BY <1>0 DEF history
  <2>2. pState' \in [Pass -> {"Initialized", "Running", "Valid"}]
    BY <1>0, <1>2 DEF TypeOK
  <2> QED
    BY <1>0, <1>2, <1>4, <2>1, <2>2 DEF TypeOK
<1>7. Sorted'
  BY <1>0, <1>2, DepFrame
<1>8. InLoop'
  <2>1. Cut(enabled, 0, chunks)'
    BY <1>0, <1>2, CutFrame DEF InLoop
  <2>2. \A p : DependsOn(p)' = DependsOn(p)
    BY <1>0, DepFrame
  <2>3. item \in 1..(Yields + 1)
    BY <1>0, <1>1, <1>2, <1>3 DEF InLoop
  <2> QED
    BY <1>0, <1>2, <1>3, <1>5, <2>1, <2>2, <2>3 DEF InLoop, Inner
<1>9. StatesFollow'
  <2> SUFFICES ASSUME NEW p \in Pass PROVE pState'[p] = "Initialized"
    BY <1>0 DEF StatesFollow, Inner
  <2>1. pState[p] = IF p \in enabled /\ topoIdx[p] < pos /\ Chunk.left <= topoIdx[p]
                    THEN "Valid" ELSE "Initialized"
    BY <1>0, <1>1, <1>2 DEF StatesFollow
  <2>2. topoIdx[p] < pos /\ Chunk.left <= topoIdx[p] =>
          topoIdx[p] \in Chunk.left..(Chunk.right - 1)
    BY <1>0, <1>3
  <2> QED
    BY <1>0, <2>1, <2>2
<1>10. OnlyTheseRan'
  BY <1>0, <1>2, <1>4, OnlyTheseRanFrame
<1>11. /\ NextUp = Chunk.right
       /\ NextUp' = IF LastIter THEN Chunk.right + 1 ELSE Chunk.left
  BY <1>0, <1>5 DEF NextUp, Inner
<1>12. \A d \in Pass : \A e \in Transpose(d) : edges[e].pass \in Pass
  BY <1>2, EdgeEnds DEF TypeOK, Transpose
<1>13. \A p \in Pass : Runs(p) => topoIdx[p] # Chunk.right
  BY <1>1, EndNeverRuns
<1>14. HeapsHeld'
  <2> SUFFICES ASSUME NEW d \in Pass, dispatched[d] # <<>>, topoIdx[d] < NextUp'
               PROVE  topoIdx[d] < NextUp /\ Due(d)' \subseteq Due(d)
    BY <1>0, <1>4, HeapsHeldMoves
  <2>1. topoIdx[d] < Chunk.right
    <3>1. topoIdx[d] # Chunk.right
      BY <1>0, <1>2, <1>13 DEF OnlyTheseRan
    <3> QED
      BY <1>3, <1>11, <3>1
  <2>2. ~LastIter => ~InChunk(d)
    BY <1>3, <1>11 DEF InChunk
  <2>3. ASSUME NEW e \in Due(d)' PROVE e \in Due(d)
    <3>1. e \in Transpose(d)
      BY <1>0, <1>4, <2>3, DueMoved
    <3>2. topoIdx[edges[e].pass] >= Chunk.right + 1 => topoIdx[edges[e].pass] >= pos
      BY <1>0, <1>3, <1>12, <3>1
    <3> QED
      BY <1>0, <1>1, <1>5, <1>11, <2>2, <2>3, <3>1, <3>2, DueMoved, DueInner
  <2> QED
    BY <1>11, <2>1, <2>3
<1>15. HeapsReleased'
  <2> SUFFICES ASSUME NEW d \in Pass, MustFree(d), topoIdx[d] < NextUp
               PROVE  Due(d) \subseteq (IF topoIdx[d] < NextUp' THEN Due(d)' ELSE {})
    BY <1>0, <1>2, HeapsReleasedMoves
  <2>1. ASSUME NEW e \in Due(d)
        PROVE  /\ e \in Transpose(d) /\ topoIdx[edges[e].pass] \in Nat
               /\ topoIdx[edges[e].pass] # Chunk.right
    <3>1. e \in Transpose(d)
      BY <2>1, DueNow
    <3>2. edges[e].pass \in Pass /\ Runs(edges[e].pass)
      BY <1>12, <3>1 DEF MustFree
    <3> QED
      BY <1>3, <1>13, <3>1, <3>2
  <2>2. CASE LastIter
    <3>1. topoIdx[d] < NextUp'
      BY <1>3, <1>11, <2>2
    <3>2. ASSUME NEW e \in Due(d) PROVE e \in Due(d)'
      <4>1. topoIdx[edges[e].pass] >= Chunk.right
        BY <1>0, <1>1, <2>2, <3>2, DueInner
      <4>2. topoIdx[edges[e].pass] >= NextUp'
        BY <1>3, <1>11, <2>1, <2>2, <4>1
      <4> QED
        BY <1>0, <1>5, <2>1, <2>2, <4>2, DueMoved
    <3> QED
      BY <3>1, <3>2
  <2>3. CASE ~LastIter /\ ~InChunk(d)
    <3>1. topoIdx[d] < NextUp'
      BY <1>3, <1>11, <2>3 DEF InChunk
    <3>2. ASSUME NEW e \in Due(d) PROVE e \in Due(d)'
      BY <1>0, <1>1, <1>5, <2>3, <3>2, DueMoved, DueInner
    <3> QED
      BY <3>1, <3>2
  <2>4. CASE ~LastIter /\ InChunk(d)
    <3>1. ASSUME NEW e \in Due(d) PROVE FALSE
      <4>1. InChunk(edges[e].pass) /\ topoIdx[edges[e].pass] >= Chunk.right
        BY <1>0, <1>1, <2>4, <3>1, DueInner
      <4> QED
        BY <1>3, <2>1, <4>1 DEF InChunk
    <3> QED
      BY <3>1
  <2> QED
    BY <2>2, <2>3, <2>4
<1> QED
  BY <1>6, <1>7, <1>8, <1>9, <1>10, <1>14, <1>15 DEF IInv

\* runPassLifeCycle() of a pass begins.
LEMMA BeginPassIInv == IInv /\ BeginPass => IInv'
<1> SUFFICES ASSUME IInv, BeginPass PROVE IInv'
  OBVIOUS
<1>0. /\ step = "Passes" /\ step' = "InRun" /\ pos # Chunk.right
      /\ Running \in enabled /\ pState[Running] = "Initialized"
      /\ pState' = [pState EXCEPT ![Running] = "Running"]
      /\ requests' = 0
      /\ got' = [got EXCEPT ![Running] = {}]
      /\ gced' = gced \ {Running}
      /\ dispatched' = [dispatched EXCEPT ![Running] = Append(dispatched[Running], CurrentItem)]
      /\ UNCHANGED <<pmState, depVars, enabled, heaps, lastRun, errors, chunks,
                     ci, item, pos, runs>>
  BY DEF BeginPass, PassesLeft, loopVars
<1>1. step \in Inner
  BY <1>0 DEF Inner
<1>2. TypeOK /\ Sorted /\ InLoop /\ StatesFollow /\ OnlyTheseRan /\ pmState = "Running"
  BY <1>1, InnerFacts
<1>3. /\ Chunk.left \in Nat /\ Chunk.right \in Nat
      /\ pos \in Chunk.left..Chunk.right /\ pos \in Nat
      /\ Running \in Pass /\ topoIdx[Running] = pos
      /\ \A p \in Pass : topoIdx[p] = pos => p = Running
      /\ \A p \in Pass : topoIdx[p] \in Nat
      /\ item \in Nat /\ Yields \in Nat
  BY <1>1, InnerFacts
<1>4. topoIdx' = topoIdx /\ kind' = kind /\ edges' = edges /\ Running' = Running
  BY <1>0, DepFrame DEF depVars, Running
<1>5. /\ Chunk' = Chunk /\ Yields' = Yields /\ (\A p : InChunk(p)' <=> InChunk(p))
      /\ (LastIter' <=> LastIter)
  BY <1>0, ChunkFrame DEF LastIter
<1>6. TypeOK'
  <2>1. pState' \in [Pass -> {"Initialized", "Running", "Valid"}]
    BY <1>0, <1>2 DEF TypeOK
  <2>2. got' \in [Pass -> SUBSET (1..MaxHeaps)]
    BY <1>0, <1>2 DEF TypeOK
  <2>3. dispatched' \in [Pass -> Seq(Nat)]
    <3>1. CurrentItem \in Nat
      BY <1>3 DEF CurrentItem
    <3>2. dispatched[Running] \in Seq(Nat) /\ dispatched \in [Pass -> Seq(Nat)]
      BY <1>2, <1>3 DEF TypeOK
    <3>3. Append(dispatched[Running], CurrentItem) \in Seq(Nat)
      BY <3>1, <3>2, AppendProperties
    <3> QED
      BY <1>0, <3>2, <3>3
  <2>4. {ci, item, pos, requests, runs}' \subseteq Nat /\ gced' \subseteq Pass
    BY <1>0, <1>2 DEF TypeOK
  <2> QED
    BY <1>0, <1>2, <1>4, <2>1, <2>2, <2>3, <2>4 DEF TypeOK
<1>7. Sorted'
  BY <1>0, <1>2, DepFrame
<1>8. InLoop'
  <2>1. Cut(enabled, 0, chunks)'
    BY <1>0, <1>2, CutFrame DEF InLoop
  <2>2. \A p : DependsOn(p)' = DependsOn(p)
    BY <1>0, DepFrame
  <2> QED
    BY <1>0, <1>2, <1>3, <1>4, <1>5, <2>1, <2>2 DEF InLoop, Inner
<1>9. StatesFollow'
  <2> SUFFICES ASSUME NEW p \in Pass
               PROVE  pState'[p] = IF p \in enabled /\ topoIdx[p] < pos /\ Chunk.left <= topoIdx[p]
                                   THEN "Valid"
                                   ELSE IF topoIdx[p] = pos THEN "Running" ELSE "Initialized"
    BY <1>0, <1>4, <1>5 DEF StatesFollow, Inner
  <2>1. pState[p] = IF p \in enabled /\ topoIdx[p] < pos /\ Chunk.left <= topoIdx[p]
                    THEN "Valid" ELSE "Initialized"
    BY <1>0, <1>1, <1>2 DEF StatesFollow
  <2>2. pState'[p] = IF topoIdx[p] = pos THEN "Running" ELSE pState[p]
    BY <1>0, <1>2, <1>3 DEF TypeOK
  <2>3. topoIdx[p] = pos => ~(topoIdx[p] < pos)
    BY <1>3
  <2> QED
    BY <2>1, <2>2, <2>3
<1>10. \A d \in Pass : d # Running =>
         dispatched'[d] = dispatched[d] /\ got'[d] = got[d]
  BY <1>0, <1>2 DEF TypeOK
<1>11. OnlyTheseRan'
  <2>1. Runs(Running)
    BY <1>0, <1>1, NotAtAnEnd
  <2>2. \A p : Runs(p)' <=> Runs(p)
    BY <1>0, <1>4 DEF Runs
  <2>3. \A p \in Pass : dispatched[p] # <<>> => Runs(p)
    BY <1>0, <1>2 DEF OnlyTheseRan
  <2> QED
    BY <1>10, <2>1, <2>2, <2>3 DEF OnlyTheseRan
<1>12. NextUp = pos /\ NextUp' = pos
  BY <1>0 DEF NextUp, Inner
<1>13. ASSUME NEW d PROVE Due(d)' = Due(d)
  <2>1. \A e : e \in Due(d)' <=> e \in Due(d)
    BY <1>0, <1>1, <1>5, <1>12, DueMoved, DueInner
  <2> QED
    <3>1. Due(d)' \subseteq Due(d) /\ Due(d) \subseteq Due(d)'
      BY <2>1
    <3> QED
      BY <3>1
<1>14. HeapsHeld'
  <2>1. ASSUME NEW d \in Pass, dispatched'[d] # <<>>, topoIdx'[d] < NextUp', Due(d)' # {},
               NEW i \in got'[d]
        PROVE  HeldFor(d, i, Cardinality(Due(d)))'
    <3>1. topoIdx[d] < NextUp /\ d # Running
      BY <1>3, <1>4, <1>12, <2>1
    <3>2. HeldFor(d, i, Cardinality(Due(d)))
      BY <1>0, <1>10, <1>13, <2>1, <3>1 DEF IInv, HeapsHeld
    <3> QED
      BY <1>0, <1>13, <3>2 DEF HeldFor
  <2>2. got'[Running'] = {}
    BY <1>0, <1>2, <1>3, <1>4 DEF TypeOK
  <2> QED
    BY <2>1, <2>2 DEF HeapsHeld
<1>15. HeapsReleased'
  BY <1>0, <1>2, <1>12, <1>13, HeapsReleasedMoves
<1> QED
  BY <1>6, <1>7, <1>8, <1>9, <1>11, <1>14, <1>15 DEF IInv

\* A pass is refused one that is not Valid.
LEMMA GetPassThrowsIInv ==
  ASSUME IInv, NEW d, GetPassThrows(d) PROVE IInv'
<1>0. /\ step = "InRun" /\ step' = "Thrown"
      /\ UNCHANGED <<pmState, pState, depVars, enabled, heaps, lastRun, errors,
                     chunks, ci, item, pos, requests, runs, history>>
  BY DEF GetPassThrows, loopVars
<1>1. step \in Inner
  BY <1>0 DEF Inner
<1>2. TypeOK /\ Sorted /\ InLoop /\ StatesFollow /\ OnlyTheseRan /\ pmState = "Running"
  BY <1>1, InnerFacts
<1>3. topoIdx' = topoIdx /\ kind' = kind /\ edges' = edges /\ dispatched' = dispatched
  BY <1>0 DEF depVars, history
<1>4. Chunk' = Chunk /\ Yields' = Yields /\ Running' = Running
  BY <1>0, ChunkFrame, DepFrame DEF Running
<1>5. TypeOK'
  BY <1>0, <1>2, <1>3 DEF TypeOK, history
<1>6. Sorted'
  BY <1>0, <1>2, DepFrame
<1>7. InLoop'
  <2>1. Cut(enabled, 0, chunks)'
    BY <1>0, <1>2, CutFrame DEF InLoop
  <2>2. \A p : DependsOn(p)' = DependsOn(p)
    BY <1>0, DepFrame
  <2> QED
    BY <1>0, <1>2, <1>4, <2>1, <2>2 DEF InLoop, Inner
<1>8. StatesFollow'
  BY <1>0, <1>2, <1>3, <1>4 DEF StatesFollow, Inner
<1>9. OnlyTheseRan'
  BY <1>0, <1>2, <1>3, OnlyTheseRanFrame
<1>10. HeapsHeld' /\ HeapsReleased'
  BY <1>0, <1>2 DEF HeapsHeld, HeapsReleased
<1> QED
  BY <1>5, <1>6, <1>7, <1>8, <1>9, <1>10 DEF IInv

\* A pass gets a heap: one that nothing holds, so none that is due.
LEMMA NewHeapIInv ==
  ASSUME IInv, NEW lifetime \in Lifetimes, NewHeap(lifetime) PROVE IInv'
<1> DEFINE i == FindHeapFor(Running, lifetime)
           h == [owner    |-> Running,
                 lifetime |-> lifetime,
                 refcount |-> IF Running \in Preserved THEN 2 ELSE 1]
<1>0. /\ step = "InRun" /\ step' = "InRun" /\ requests' = requests + 1 /\ i <= MaxHeaps
      /\ heaps' = IF i > Len(heaps) THEN Append(heaps, h) ELSE [heaps EXCEPT ![i] = h]
      /\ got' = IF lifetime = "Managed"
                 THEN [got EXCEPT ![Running] = got[Running] \union {i}] ELSE got
      /\ UNCHANGED <<pmState, pState, depVars, enabled, lastRun, errors, chunks,
                     ci, item, pos, runs, gced, dispatched>>
  BY DEF NewHeap, loopVars
<1>1. step \in Inner
  BY <1>0 DEF Inner
<1>2. TypeOK /\ Sorted /\ InLoop /\ StatesFollow /\ OnlyTheseRan /\ pmState = "Running"
  BY <1>1, InnerFacts
<1>3. /\ Running \in Pass /\ topoIdx[Running] = pos /\ pos \in Nat
      /\ \A p \in Pass : topoIdx[p] \in Nat
      /\ \A p \in Pass : topoIdx[p] = pos => p = Running
  BY <1>1, InnerFacts
<1>4. topoIdx' = topoIdx /\ kind' = kind /\ edges' = edges /\ Running' = Running
  BY <1>0, DepFrame DEF depVars, Running
<1>5. /\ Chunk' = Chunk /\ Yields' = Yields /\ (\A p : InChunk(p)' <=> InChunk(p))
      /\ (LastIter' <=> LastIter)
  BY <1>0, ChunkFrame DEF LastIter
<1>6. /\ i \in 1..(Len(heaps) + 1)
      /\ i <= Len(heaps) => CanReuse(heaps[i], Running, lifetime)
      /\ DOMAIN heaps = 1..Len(heaps) /\ Len(heaps) \in Nat
  BY <1>2, FirstHeap, HeapType DEF TypeOK
<1>7. h \in Heap
  BY <1>3, ConstantsAssumption DEF Heap
<1>8. /\ h.owner = Running /\ h.lifetime = lifetime
      /\ h.refcount \in Nat /\ h.refcount >= 1
      /\ Running \notin Preserved => h.refcount = 1
  OBVIOUS
<1> HIDE DEF i, h
<1>9. /\ heaps' \in Seq(Heap)
      /\ DOMAIN heaps' = DOMAIN heaps \union {i}
      /\ heaps'[i] = h
      /\ \A j \in DOMAIN heaps : j # i => heaps'[j] = heaps[j]
  <2>0. heaps \in Seq(Heap)
    BY <1>2 DEF TypeOK
  <2>1. CASE i > Len(heaps)
    <3>1. i = Len(heaps) + 1 /\ heaps' = Append(heaps, h)
      BY <1>0, <1>6, <2>1
    <3>2. /\ Append(heaps, h) \in Seq(Heap)
          /\ Len(Append(heaps, h)) = Len(heaps) + 1
          /\ \A j \in 1..(Len(heaps) + 1) :
               Append(heaps, h)[j] = IF j <= Len(heaps) THEN heaps[j] ELSE h
      BY <2>0, <1>7, AppendProperties
    <3>3. DOMAIN heaps' = 1..(Len(heaps) + 1)
      BY <3>1, <3>2, LenProperties
    <3> QED
      BY <1>6, <3>1, <3>2, <3>3
  <2>2. CASE ~(i > Len(heaps))
    <3>1. i \in DOMAIN heaps /\ heaps' = [heaps EXCEPT ![i] = h]
      BY <1>0, <1>6, <2>2
    <3>2. heaps' \in Seq(Heap)
      BY <2>0, <1>7, <3>1, ExceptSeq
    <3> QED
      BY <3>1, <3>2
  <2> QED
    BY <2>1, <2>2
<1>10. TypeOK'
  <2>1. got' \in [Pass -> SUBSET (1..MaxHeaps)]
    <3>1. i \in 1..MaxHeaps
      BY <1>0, <1>6, ConstantsAssumption
    <3>2. got \in [Pass -> SUBSET (1..MaxHeaps)]
      BY <1>2 DEF TypeOK
    <3>3. got[Running] \union {i} \in SUBSET (1..MaxHeaps)
      BY <1>3, <3>1, <3>2
    <3> QED
      BY <1>0, <3>2, <3>3
  <2>2. {ci, item, pos, requests, runs}' \subseteq Nat
    BY <1>0, <1>2 DEF TypeOK
  <2> QED
    BY <1>0, <1>2, <1>4, <1>9, <2>1, <2>2 DEF TypeOK
<1>11. Sorted'
  BY <1>0, <1>2, DepFrame
<1>12. InLoop'
  <2>1. Cut(enabled, 0, chunks)'
    BY <1>0, <1>2, CutFrame DEF InLoop
  <2>2. \A p : DependsOn(p)' = DependsOn(p)
    BY <1>0, DepFrame
  <2> QED
    BY <1>0, <1>2, <1>4, <1>5, <2>1, <2>2 DEF InLoop, Inner
<1>13. StatesFollow'
  BY <1>0, <1>2, <1>4, <1>5 DEF StatesFollow, Inner
<1>14. OnlyTheseRan'
  BY <1>0, <1>2, <1>4, OnlyTheseRanFrame
<1>15. NextUp = pos /\ NextUp' = pos
  BY <1>0 DEF NextUp, Inner
<1>16. ASSUME NEW d PROVE Due(d)' = Due(d)
  <2>1. \A e : e \in Due(d)' <=> e \in Due(d)
    BY <1>0, <1>1, <1>5, <1>15, DueMoved, DueInner
  <2> QED
    <3>1. Due(d)' \subseteq Due(d) /\ Due(d) \subseteq Due(d)'
      BY <2>1
    <3> QED
      BY <3>1
<1>17. \A d \in Pass : d # Running => got'[d] = got[d]
  BY <1>0, <1>2 DEF TypeOK
<1>18. got'[Running] = IF lifetime = "Managed" THEN got[Running] \union {i} ELSE got[Running]
  BY <1>0, <1>2, <1>3 DEF TypeOK
<1>19. HeapsHeld'
  <2>1. ASSUME NEW d \in Pass, dispatched[d] # <<>>, topoIdx[d] < pos, Due(d) # {},
               NEW j \in got'[d]
        PROVE  HeldFor(d, j, Cardinality(Due(d)))'
    <3>1. d # Running /\ j \in got[d]
      BY <1>3, <1>17, <2>1
    <3>2. HeldFor(d, j, Cardinality(Due(d)))
      BY <1>0, <1>15, <2>1, <3>1 DEF IInv, HeapsHeld
    <3>3. Cardinality(Due(d)) \in Nat /\ Cardinality(Due(d)) # 0
      BY <1>2, <2>1, DueFinite, FS_EmptySet DEF TypeOK
    <3>4. j # i
      <4>1. j \in DOMAIN heaps /\ heaps[j].owner = d /\ heaps[j].refcount >= Cardinality(Due(d))
        BY <3>2 DEF HeldFor
      <4>2. heaps[j].refcount # 0
        BY <1>2, <3>3, <4>1, HeapType DEF TypeOK
      <4>3. ~CanReuse(heaps[j], Running, lifetime)
        BY <3>1, <4>1, <4>2 DEF CanReuse
      <4> QED
        BY <1>6, <4>1, <4>3
    <3> QED
      BY <1>9, <1>16, <3>2, <3>4 DEF HeldFor
  <2>2. ASSUME NEW j \in got'[Running] PROVE HeldFor(Running, j, 1)'
    <3>1. CASE j = i /\ lifetime = "Managed"
      BY <1>4, <1>8, <1>9, <3>1 DEF HeldFor
    <3>2. CASE ~(j = i /\ lifetime = "Managed")
      <4>1. j \in got[Running]
        BY <1>18, <2>2, <3>2
      <4>2. HeldFor(Running, j, 1)
        BY <1>0, <4>1 DEF IInv, HeapsHeld
      <4>3. j \in DOMAIN heaps /\ heaps[j].refcount \in Nat
        BY <1>2, <4>2, HeapType DEF TypeOK, HeldFor
      <4>4. heaps[j].refcount # 0 /\ heaps[j].lifetime = "Managed"
        BY <4>2, <4>3 DEF HeldFor
      <4>5. j # i
        <5>1. CanReuse(heaps[j], Running, lifetime) => lifetime = "Managed"
          BY <4>4 DEF CanReuse
        <5> QED
          BY <1>6, <3>2, <4>3, <5>1
      <4> QED
        BY <1>4, <1>9, <4>2, <4>5 DEF HeldFor
    <3> QED
      BY <3>1, <3>2
  <2> QED
    BY <1>0, <1>4, <1>15, <1>16, <2>1, <2>2 DEF HeapsHeld
<1>20. HeapsReleased'
  <2>1. ASSUME NEW j \in DOMAIN heaps', MustFree(heaps[j].owner)'
        PROVE  heaps'[j].refcount <= Owed(heaps[j])'
    <3>0. MustFree(heaps'[j].owner)
      BY <1>0, <1>4, <2>1, DepFrame DEF MustFree, Runs
    <3>1. CASE j = i
      <4>1. heaps'[j].owner = Running /\ heaps'[j].refcount = 1
        BY <1>8, <1>9, <3>0, <3>1 DEF MustFree
      <4>2. Owed(heaps[j])' = 1
        BY <1>0, <1>3, <1>4, <1>15, <4>1 DEF Owed
      <4> QED
        BY <4>1, <4>2
    <3>2. CASE j # i
      <4>1. j \in DOMAIN heaps /\ heaps'[j] = heaps[j]
        BY <1>9, <2>1, <3>2
      <4>2. heaps[j].refcount <= Owed(heaps[j])
        BY <1>0, <3>0, <4>1 DEF IInv, HeapsReleased
      <4>3. Due(heaps[j].owner)' = Due(heaps[j].owner)
        <5>1. \A d : Due(d)' = Due(d)
          BY <1>16
        <5> QED
          BY <4>1, <5>1 DEF Due
      <4>4. Owed(heaps[j])' = Owed(heaps[j])
        BY <1>0, <1>4, <1>15, <4>1, <4>3 DEF Owed
      <4> QED
        BY <4>1, <4>2, <4>4
    <3> QED
      BY <3>1, <3>2
  <2> QED
    BY <1>0, <1>2, <2>1 DEF HeapsReleased
<1> QED
  BY <1>10, <1>11, <1>12, <1>13, <1>14, <1>19, <1>20 DEF IInv

-----------------------------------------------------------------------------
(* A pass has run                                                          *)

\* The references runPassLifeCycle() adds to the heaps of the pass that has
\* run, and those it takes from the heaps of d.
Acquired    == {e \in Transpose(Running) : Counts(edges[e].pass)}
Released(d) == {e \in Forward(Running) : edges[e].depends = d /\ Counts(d)}

\* The count of a heap after runPassLifeCycle().
LEMMA CountAfterIs ==
  ASSUME NEW h
  PROVE  CountAfter(h, Running) =
           IF h.lifetime = "Managed"
             THEN IF h.owner = Running
                    THEN SatSub(h.refcount + Cardinality(Acquired), 1)
                    ELSE SatSub(h.refcount, Cardinality(Released(h.owner)))
             ELSE IF h.owner = Running THEN 0 ELSE h.refcount
BY DEF CountAfter, Acquired, Released

\* It adds what becomes due and takes what no longer is.
LEMMA DueGivenBack ==
  ASSUME IInv, step = "InRun", step' = "Passes", pos' = pos + 1,
         UNCHANGED <<depVars, chunks, ci, item>>
  PROVE  \A d \in Pass :
           /\ d = Running => Due(d)' = Acquired
           /\ topoIdx[d] < pos =>
              /\ Released(d) \subseteq Due(d)
              /\ Due(d)' = Due(d) \ Released(d)
<1>1. step \in Inner
  BY DEF Inner
<1>2. /\ TypeOK /\ Sorted
      /\ pos \in Nat /\ Running \in Pass /\ topoIdx[Running] = pos /\ InChunk(Running)
      /\ \A p \in Pass : topoIdx[p] = pos => p = Running
      /\ \A p \in Pass : topoIdx[p] \in Nat
  BY <1>1, InnerFacts
<1>3. Running' = At(pos + 1) /\ UNCHANGED <<depVars, chunks, ci>> /\ (LastIter' <=> LastIter)
  BY DepFrame, ChunkFrame DEF Running, LastIter
<1>4. NextUp' = pos + 1
  BY DEF NextUp, Inner
<1>5. \A d, e : e \in Transpose(d) => /\ e \in DOMAIN edges /\ edges[e].depends = d
                                      /\ edges[e].pass \in Pass
                                      /\ topoIdx[d] < topoIdx[edges[e].pass]
                                      /\ topoIdx[edges[e].pass] \in Nat
  BY <1>2, EdgeEnds DEF Transpose, TypeOK, Sorted
<1>6. \A e : e \in Acquired <=> /\ e \in Transpose(Running)
                                /\ LastIter \/ InChunk(edges[e].pass)
  BY DEF Acquired, Counts
<1>7. \A d, e : e \in Released(d) <=> /\ e \in Transpose(d) /\ topoIdx[edges[e].pass] = pos
                                      /\ LastIter \/ InChunk(d)
  BY <1>2, <1>5 DEF Released, Counts, Forward, Transpose
<1>8. ASSUME NEW d \in Pass, d = Running PROVE Due(d)' = Acquired
  <2>1. ASSUME NEW e PROVE e \in Due(d)' <=> e \in Acquired
    <3>1. e \in Transpose(d) => topoIdx[edges[e].pass] >= pos + 1
      BY <1>2, <1>5, <1>8
    <3>2. InChunk(d) /\ (e \in Acquired <=> /\ e \in Transpose(d)
                                            /\ LastIter \/ InChunk(edges[e].pass))
      BY <1>2, <1>6, <1>8
    <3> QED
      BY <1>3, <1>4, <3>1, <3>2, DueMoved
  <2>2. Due(d)' \subseteq Acquired /\ Acquired \subseteq Due(d)'
    BY <2>1
  <2> QED
    BY <2>2
<1>9. ASSUME NEW d \in Pass, topoIdx[d] < pos, NEW e
       PROVE  /\ e \in Released(d) => e \in Due(d)
              /\ e \in Due(d)' <=> e \in Due(d) /\ e \notin Released(d)
  <2>1. CASE e \notin Transpose(d)
    BY <1>3, <1>7, <2>1, DueNow, DueMoved
  <2>2. CASE e \in Transpose(d)
    <3> DEFINE x == topoIdx[edges[e].pass]
    <3>1. edges[e].pass \in Pass /\ x \in Nat
      BY <1>5, <2>2
    <3>2. x = pos => InChunk(edges[e].pass)
      BY <1>2, <3>1
    <3>3. x >= pos + 1 <=> x >= pos /\ x # pos
      BY <1>2, <3>1
    <3>4. x = pos => x >= pos
      BY <1>2
    <3> HIDE DEF x
    <3>5. e \in Released(d) <=> x = pos /\ (LastIter \/ InChunk(d))
      BY <1>7, <2>2 DEF x
    <3>6. CASE LastIter
      <4>1. e \in Due(d) <=> x >= pos
        BY <1>1, <2>2, <3>6, DueInner DEF x
      <4>2. e \in Due(d)' <=> x >= pos + 1
        BY <1>3, <1>4, <2>2, <3>6, DueMoved DEF x
      <4> QED
        BY <3>3, <3>4, <3>5, <3>6, <4>1, <4>2
    <3>7. CASE ~LastIter /\ InChunk(d)
      <4>1. e \in Due(d) <=> InChunk(edges[e].pass) /\ x >= pos
        BY <1>1, <2>2, <3>7, DueInner DEF x
      <4>2. e \in Due(d)' <=> InChunk(edges[e].pass) /\ x >= pos + 1
        BY <1>3, <1>4, <2>2, <3>7, DueMoved DEF x
      <4> QED
        BY <3>2, <3>3, <3>4, <3>5, <3>7, <4>1, <4>2
    <3>8. CASE ~LastIter /\ ~InChunk(d)
      <4>1. e \in Due(d) <=> x >= Chunk.left
        BY <1>1, <2>2, <3>8, DueInner DEF x
      <4>2. e \in Due(d)' <=> x >= Chunk.left
        BY <1>3, <1>4, <2>2, <3>8, DueMoved DEF x
      <4> QED
        BY <3>5, <3>8, <4>1, <4>2
    <3> QED
      BY <3>6, <3>7, <3>8
  <2> QED
    BY <2>1, <2>2
<1>10. ASSUME NEW d \in Pass, topoIdx[d] < pos
       PROVE  Released(d) \subseteq Due(d) /\ Due(d)' = Due(d) \ Released(d)
  BY <1>9, <1>10
<1> QED
  BY <1>8, <1>10

\* A subtraction that stops at zero, from at least (at most) the size of a
\* set.
LEMMA Subtracted ==
  ASSUME NEW S, IsFiniteSet(S), NEW R, R \subseteq S, NEW n \in Nat
  PROVE  /\ Cardinality(S) \in Nat /\ Cardinality(S \ R) \in Nat
         /\ SatSub(n, Cardinality(R)) \in Nat
         /\ SatSub(n, Cardinality(R)) <= n
         /\ n >= Cardinality(S) => SatSub(n, Cardinality(R)) >= Cardinality(S \ R)
         /\ n <= Cardinality(S) => SatSub(n, Cardinality(R)) <= Cardinality(S \ R)
<1>1. S \cap R = R
  OBVIOUS
<1>2. Cardinality(S \ R) = Cardinality(S) - Cardinality(R)
  BY <1>1, FS_Difference
<1>3. /\ Cardinality(S) \in Nat /\ Cardinality(R) \in Nat /\ Cardinality(S \ R) \in Nat
      /\ Cardinality(R) <= Cardinality(S)
  BY FS_CardinalityType, FS_Subset, FS_Difference
<1> QED
  BY <1>2, <1>3 DEF SatSub

\* runPassLifeCycle() ends: the references are counted.
LEMMA FinishPassIInv ==
  ASSUME IInv, NEW error \in BOOLEAN, FinishPass(error) PROVE IInv'
<1> DEFINE Count(i) == CountAfter(heaps[i], Running)
<1>0. /\ step = "InRun" /\ errors' = (errors \/ error)
      /\ pState' = [pState EXCEPT ![Running] = "Valid"]
      /\ heaps' = [i \in DOMAIN heaps |-> [heaps[i] EXCEPT !.refcount = Count(i)]]
      /\ gced' = gced \union Collected(Running)
      /\ errors' => step' = "Idle" /\ pos' = pos
      /\ ~errors' => step' = "Passes" /\ pos' = pos + 1
      /\ UNCHANGED <<pmState, depVars, enabled, lastRun, chunks, ci, item,
                     requests, runs, got, dispatched>>
  BY DEF FinishPass
<1> HIDE DEF Count
<1>1. step \in Inner
  BY <1>0 DEF Inner
<1>2. TypeOK /\ Sorted /\ InLoop /\ StatesFollow /\ OnlyTheseRan /\ pmState = "Running"
  BY <1>1, InnerFacts
<1>3. /\ Chunk.left \in Nat /\ Chunk.right \in Nat
      /\ pos \in Chunk.left..Chunk.right /\ pos \in Nat
      /\ Running \in Pass /\ topoIdx[Running] = pos
      /\ \A p \in Pass : topoIdx[p] = pos => p = Running
      /\ \A p \in Pass : topoIdx[p] \in Nat
      /\ item \in Nat /\ Yields \in Nat
  BY <1>1, InnerFacts
<1>4. topoIdx' = topoIdx /\ kind' = kind /\ edges' = edges
  BY <1>0 DEF depVars
<1>5. Chunk' = Chunk /\ Yields' = Yields /\ (\A p : InChunk(p)' <=> InChunk(p))
  BY <1>0, ChunkFrame
<1>6. heaps \in Seq(Heap) /\ edges \in Seq([pass : Pass, depends : Pass])
  BY <1>2 DEF TypeOK
<1>7. /\ DOMAIN heaps = 1..Len(heaps) /\ Len(heaps) \in Nat
      /\ \A i \in DOMAIN heaps : /\ heaps[i] \in Heap /\ heaps[i].owner \in Pass
                                 /\ heaps[i].refcount \in Nat
  BY <1>6, HeapType, ElementOfSeq
<1>8. IsFiniteSet(Acquired) /\ Cardinality(Acquired) \in Nat
      /\ \A d : IsFiniteSet(Released(d)) /\ Cardinality(Released(d)) \in Nat
  <2>1. Acquired \subseteq DOMAIN edges /\ \A d : Released(d) \subseteq DOMAIN edges
    BY DEF Acquired, Released, Transpose, Forward
  <2> QED
    BY <1>6, <2>1, EdgeEnds, FS_Subset, FS_CardinalityType
<1>9. ASSUME NEW i \in DOMAIN heaps
      PROVE  Count(i) = IF heaps[i].lifetime = "Managed"
                   THEN IF heaps[i].owner = Running
                          THEN SatSub(heaps[i].refcount + Cardinality(Acquired), 1)
                          ELSE SatSub(heaps[i].refcount, Cardinality(Released(heaps[i].owner)))
                   ELSE IF heaps[i].owner = Running THEN 0 ELSE heaps[i].refcount
  BY CountAfterIs DEF Count
<1>10. \A i \in DOMAIN heaps : Count(i) \in Nat
  BY <1>7, <1>8, <1>9 DEF SatSub
<1>11. /\ heaps' \in Seq(Heap) /\ DOMAIN heaps' = DOMAIN heaps
       /\ \A i \in DOMAIN heaps : /\ heaps'[i].owner = heaps[i].owner
                                  /\ heaps'[i].lifetime = heaps[i].lifetime
                                  /\ heaps'[i].refcount = Count(i)
  <2>1. \A i \in DOMAIN heaps : [heaps[i] EXCEPT !.refcount = Count(i)] \in Heap
    BY <1>7, <1>10 DEF Heap
  <2>2. heaps' \in [1..Len(heaps) -> Heap]
    BY <1>0, <1>7, <2>1
  <2>3. heaps' \in Seq(Heap)
    BY <1>7, <2>2
  <2>4. \A i \in DOMAIN heaps : heaps'[i] = [heaps[i] EXCEPT !.refcount = Count(i)]
    BY <1>0
  <2>5. \A i \in DOMAIN heaps : DOMAIN heaps[i] = {"owner", "lifetime", "refcount"}
    BY <1>7 DEF Heap
  <2>6. DOMAIN heaps' = DOMAIN heaps
    BY <1>0
  <2> QED
    BY <2>3, <2>4, <2>5, <2>6
<1>12. TypeOK'
  <2>1. pState' \in [Pass -> {"Initialized", "Running", "Valid"}]
    BY <1>0, <1>2 DEF TypeOK
  <2>2. gced' \subseteq Pass
    <3>1. Collected(Running) \subseteq Pass
      BY <1>3, <1>6, EdgeEnds DEF Collected
    <3> QED
      BY <1>0, <1>2, <3>1 DEF TypeOK
  <2>3. {ci, item, pos, requests, runs}' \subseteq Nat /\ errors' \in BOOLEAN
    <3>1. {ci, item, pos, requests, runs} \subseteq Nat /\ errors \in BOOLEAN
      BY <1>2 DEF TypeOK
    <3>2. /\ ci' = ci /\ item' = item /\ pos' \in {pos, pos + 1}
          /\ requests' = requests /\ runs' = runs /\ errors' = (errors \/ error)
      BY <1>0
    <3> QED
      BY <3>1, <3>2
  <2>4. step' \in {"Idle", "Passes"}
    BY <1>0
  <2>5. /\ heaps' \in Seq(Heap)
        /\ UNCHANGED <<pmState, enabled, lastRun, chunks, got, dispatched>>
    BY <1>0, <1>11
  <2> QED
    BY <1>2, <1>4, <2>1, <2>2, <2>3, <2>4, <2>5, Zenon DEF TypeOK
<1>13. Sorted'
  BY <1>0, <1>2, DepFrame
<1>14. CASE errors'
  BY <1>0, <1>2, <1>12, <1>13, <1>14
     DEF IInv, InLoop, StatesFollow, OnlyTheseRan, HeapsHeld, HeapsReleased
<1>15. CASE ~errors'
  <2>0. step' = "Passes" /\ pos' = pos + 1
    BY <1>0, <1>15
  <2>1. InLoop'
    <3>1. Cut(enabled, 0, chunks)'
      BY <1>0, <1>2, CutFrame DEF InLoop
    <3>2. \A p : DependsOn(p)' = DependsOn(p)
      BY <1>0, DepFrame
    <3>3. pos + 1 \in Chunk.left..Chunk.right
      BY <1>0, <1>2, <1>3 DEF InLoop
    <3> QED
      BY <1>0, <1>2, <1>5, <2>0, <3>1, <3>2, <3>3 DEF InLoop, Inner
  <2>2. StatesFollow'
    <3> SUFFICES ASSUME NEW p \in Pass
                 PROVE  pState'[p] = IF p \in enabled /\ topoIdx[p] < pos + 1
                                        /\ Chunk.left <= topoIdx[p]
                                     THEN "Valid" ELSE "Initialized"
      BY <1>0, <1>4, <1>5, <2>0 DEF StatesFollow, Inner
    <3>1. pState[p] = IF p \in enabled /\ topoIdx[p] < pos /\ Chunk.left <= topoIdx[p]
                      THEN "Valid"
                      ELSE IF topoIdx[p] = pos THEN "Running" ELSE "Initialized"
      BY <1>0, <1>1, <1>2 DEF StatesFollow
    <3>2. pState'[p] = IF p = Running THEN "Valid" ELSE pState[p]
      BY <1>0, <1>2, <1>3 DEF TypeOK
    <3>3. CASE p = Running
      <4>1. p \in enabled /\ topoIdx[p] < pos + 1 /\ Chunk.left <= topoIdx[p]
        BY <1>0, <1>2, <1>3, <3>3 DEF InLoop
      <4> QED
        BY <3>2, <3>3, <4>1
    <3>4. CASE p # Running
      <4>1. topoIdx[p] # pos /\ (topoIdx[p] < pos + 1 <=> topoIdx[p] < pos)
        BY <1>3, <3>4
      <4> QED
        BY <3>1, <3>2, <3>4, <4>1
    <3> QED
      BY <3>3, <3>4
  <2>3. OnlyTheseRan'
    BY <1>0, <1>2, <1>4, OnlyTheseRanFrame
  <2>4. NextUp = pos /\ NextUp' = pos + 1
    BY <1>0, <2>0 DEF NextUp, Inner
  <2>5. \A d \in Pass :
          /\ d = Running => Due(d)' = Acquired
          /\ topoIdx[d] < pos =>
             /\ Released(d) \subseteq Due(d)
             /\ Due(d)' = Due(d) \ Released(d)
    BY <1>0, <2>0, DueGivenBack
  <2>6. ASSUME NEW d \in Pass PROVE topoIdx[d] < pos + 1 <=> topoIdx[d] < pos \/ d = Running
    BY <1>3
  <2>7. HeapsHeld'
    <3> SUFFICES ASSUME NEW d \in Pass, dispatched[d] # <<>>, topoIdx[d] < pos + 1,
                        Due(d)' # {}, NEW i \in got[d]
                 PROVE  HeldFor(d, i, Cardinality(Due(d)))'
      BY <1>0, <1>4, <2>0, <2>4 DEF HeapsHeld
    <3>1. CASE d = Running
      <4>1. HeldFor(d, i, 1)
        BY <1>0, <3>1 DEF IInv, HeapsHeld
      <4>2. /\ i \in DOMAIN heaps /\ heaps[i].owner = Running
            /\ heaps[i].lifetime = "Managed" /\ heaps[i].refcount >= 1
        BY <3>1, <4>1 DEF HeldFor
      <4>3. heaps[i].refcount \in Nat /\ Count(i) = SatSub(heaps[i].refcount + Cardinality(Acquired), 1)
        BY <1>7, <1>9, <4>2
      <4>4. Count(i) >= Cardinality(Acquired)
        BY <1>8, <4>2, <4>3 DEF SatSub
      <4>5. Due(d)' = Acquired
        BY <2>5, <3>1
      <4> QED
        BY <1>11, <3>1, <4>2, <4>4, <4>5 DEF HeldFor
    <3>2. CASE d # Running
      <4>1. topoIdx[d] < pos
        BY <2>6, <3>2
      <4>2. Released(d) \subseteq Due(d) /\ Due(d)' = Due(d) \ Released(d)
        BY <2>5, <4>1
      <4>3. HeldFor(d, i, Cardinality(Due(d)))
        BY <1>0, <2>4, <4>1, <4>2 DEF IInv, HeapsHeld
      <4>4. /\ i \in DOMAIN heaps /\ heaps[i].owner = d
            /\ heaps[i].lifetime = "Managed" /\ heaps[i].refcount >= Cardinality(Due(d))
        BY <4>3 DEF HeldFor
      <4>5. heaps[i].refcount \in Nat /\ Count(i) = SatSub(heaps[i].refcount, Cardinality(Released(d)))
        BY <1>7, <1>9, <3>2, <4>4
      <4>6. Count(i) >= Cardinality(Due(d) \ Released(d))
        <5>1. IsFiniteSet(Due(d)) /\ Released(d) \subseteq Due(d)
          BY <1>6, <4>2, DueFinite
        <5> QED
          BY <4>4, <4>5, <5>1, Subtracted
      <4> QED
        BY <1>11, <4>2, <4>4, <4>6 DEF HeldFor
    <3> QED
      BY <3>1, <3>2
  <2>8. HeapsReleased'
    <3>1. \A d : MustFree(d)' <=> MustFree(d)
      BY <1>0, DepFrame DEF MustFree, Runs
    <3>2. ASSUME NEW i \in DOMAIN heaps, MustFree(heaps[i].owner)
          PROVE  heaps'[i].refcount <= Owed(heaps[i])'
      <4>0. PICK d \in Pass : d = heaps[i].owner
        BY <1>7
      <4> DEFINE n == heaps[i].refcount
      <4>1. d \in Pass /\ n \in Nat /\ heaps'[i].refcount = Count(i) /\ heaps'[i].owner = d
            /\ heaps'[i].lifetime = heaps[i].lifetime
        BY <1>7, <1>11, <4>0
      <4>2. n <= IF topoIdx[d] < pos
                   THEN IF heaps[i].lifetime = "Managed" THEN Cardinality(Due(d)) ELSE 0
                   ELSE IF d = Running THEN 1 ELSE 0
        BY <1>0, <2>4, <3>2, <4>0 DEF IInv, HeapsReleased, Owed
      <4>3. Owed(heaps[i])' = IF topoIdx[d] < pos \/ d = Running
                              THEN IF heaps[i].lifetime = "Managed" THEN Cardinality(Due(d)') ELSE 0
                              ELSE 0
        BY <1>4, <2>0, <2>4, <2>6, <4>1 DEF Owed
      <4>4. Count(i) = IF heaps[i].lifetime = "Managed"
                       THEN IF d = Running
                              THEN SatSub(n + Cardinality(Acquired), 1)
                              ELSE SatSub(n, Cardinality(Released(d)))
                       ELSE IF d = Running THEN 0 ELSE n
        BY <1>9, <4>0
      <4> HIDE DEF n
      <4>5. CASE d = Running
        <5>1. ~(topoIdx[d] < pos) /\ Due(d)' = Acquired
          BY <1>3, <2>5, <4>1, <4>5
        <5>2. SatSub(n + Cardinality(Acquired), 1) <= Cardinality(Acquired)
          BY <1>8, <4>1, <4>2, <4>5, <5>1 DEF SatSub
        <5> QED
          BY <4>1, <4>3, <4>4, <4>5, <5>1, <5>2
      <4>6. CASE d # Running /\ topoIdx[d] < pos
        <5>1. Released(d) \subseteq Due(d) /\ Due(d)' = Due(d) \ Released(d)
          BY <2>5, <4>1, <4>6
        <5>2. n <= Cardinality(Due(d)) =>
                SatSub(n, Cardinality(Released(d))) <= Cardinality(Due(d) \ Released(d))
          BY <1>6, <4>1, <5>1, DueFinite, Subtracted
        <5> QED
          BY <4>1, <4>2, <4>3, <4>4, <4>6, <5>1, <5>2
      <4>7. CASE d # Running /\ ~(topoIdx[d] < pos)
        <5>1. n = 0
          BY <4>1, <4>2, <4>7
        <5>2. SatSub(n, Cardinality(Released(d))) = 0
          BY <1>8, <5>1 DEF SatSub
        <5> QED
          BY <4>1, <4>3, <4>4, <4>7, <5>1, <5>2
      <4> QED
        BY <4>5, <4>6, <4>7
    <3> QED
      BY <1>0, <1>2, <1>11, <3>1, <3>2 DEF HeapsReleased
  <2> QED
    BY <1>12, <1>13, <2>1, <2>2, <2>3, <2>7, <2>8 DEF IInv
<1> QED
  BY <1>14, <1>15

\* A step of the rest of the compiler.
LEMMA StutterIInv == IInv /\ UNCHANGED vars => IInv'
<1> SUFFICES ASSUME IInv, UNCHANGED vars PROVE IInv'
  OBVIOUS
<1>0. /\ UNCHANGED <<pmState, pState, depVars, enabled, heaps, lastRun, errors,
                     step, chunks, ci, item, pos, requests, runs>>
      /\ UNCHANGED <<got, gced, dispatched, topoIdx, edges, kind>>
  BY DEF vars, loopVars, history, depVars
<1>1. TypeOK /\ Sorted /\ InLoop /\ StatesFollow /\ OnlyTheseRan
  BY DEF IInv
<1>2. /\ Chunk' = Chunk /\ Yields' = Yields /\ Running' = Running
      /\ (LastIter' <=> LastIter) /\ (\A p : InChunk(p)' <=> InChunk(p))
  BY <1>0, ChunkFrame, DepFrame DEF Running, LastIter
<1>3. TypeOK' /\ Sorted'
  BY <1>0, <1>1, DepFrame DEF TypeOK
<1>4. InLoop'
  <2>1. Cut(enabled, 0, chunks)' <=> Cut(enabled, 0, chunks)
    BY <1>0, CutFrame
  <2>2. \A p : DependsOn(p)' = DependsOn(p)
    BY <1>0, DepFrame
  <2> QED
    BY <1>0, <1>1, <1>2, <2>1, <2>2 DEF InLoop, Inner
<1>5. StatesFollow'
  BY <1>0, <1>1, <1>2 DEF StatesFollow, Inner
<1>6. OnlyTheseRan'
  BY <1>0, <1>1 DEF OnlyTheseRan, Runs
<1>7. NextUp' = NextUp
  BY <1>0, <1>2 DEF NextUp, Inner
<1>8. ASSUME NEW d PROVE Due(d)' = Due(d)
  <2>1. Transpose(d)' = Transpose(d)
    BY <1>0, DepFrame
  <2> QED
    BY <1>0, <1>2, <1>7, <2>1 DEF Due
<1>9. HeapsHeld'
  BY <1>0, <1>2, <1>7, <1>8 DEF IInv, HeapsHeld, HeldFor
<1>10. HeapsReleased'
  <2>1. \A d : MustFree(d)' <=> MustFree(d)
    BY <1>0, DepFrame DEF MustFree, Runs
  <2>2. ASSUME NEW i \in DOMAIN heaps PROVE Owed(heaps[i])' = Owed(heaps[i])
    <3>1. PICK d : d = heaps[i].owner
      OBVIOUS
    <3>2. Due(d)' = Due(d)
      BY <1>8
    <3> QED
      BY <1>0, <1>2, <1>7, <3>1, <3>2 DEF Owed
  <2> QED
    BY <1>0, <2>1, <2>2 DEF IInv, HeapsReleased
<1> QED
  BY <1>3, <1>4, <1>5, <1>6, <1>9, <1>10 DEF IInv

\* Every step keeps the invariant.
LEMMA NextIInv == IInv /\ [Next]_vars => IInv'
<1> SUFFICES ASSUME IInv, [Next]_vars PROVE IInv'
  OBVIOUS
<1>1. CASE \E p \in Pass : EnablePass(p)
  BY <1>1, EnablePassIInv
<1>2. CASE StartRun
  BY <1>2, StartRunIInv
<1>3. CASE RunStep
  <2>1. CASE OpenChunk
    BY <2>1, OpenChunkIInv
  <2>2. CASE NextItem
    BY <2>2, NextItemIInv
  <2>3. CASE CloseChunk
    BY <2>3, CloseChunkIInv
  <2>4. CASE EndRun
    BY <2>4, EndRunIInv
  <2>5. CASE SkipPass
    BY <2>5, SkipPassIInv
  <2>6. CASE BeginPass
    BY <2>6, BeginPassIInv
  <2>7. CASE \E l \in Lifetimes : NewHeap(l)
    BY <2>7, NewHeapIInv
  <2>8. CASE \E d \in Pass : GetPassThrows(d)
    BY <2>8, GetPassThrowsIInv
  <2>9. CASE \E error \in BOOLEAN : FinishPass(error)
    BY <2>9, FinishPassIInv
  <2>10. CASE EndIteration
    BY <2>10, EndIterationIInv
  <2> QED
    BY <1>3, <2>1, <2>2, <2>3, <2>4, <2>5, <2>6, <2>7, <2>8, <2>9, <2>10 DEF RunStep
<1>4. CASE Reset
  BY <1>4, ResetIInv
<1>5. CASE UNCHANGED vars
  BY <1>5, StutterIInv
<1> QED
  BY <1>1, <1>2, <1>3, <1>4, <1>5 DEF Next

\* It holds in every state of the manager.
LEMMA Invariance == Spec => []IInv
<1>1. Init => IInv
  BY InitIInv
<1>2. IInv /\ [Next]_vars => IInv'
  BY NextIInv
<1> QED
  BY <1>1, <1>2, PTL DEF Spec

-----------------------------------------------------------------------------
(* The properties                                                          *)

(* Types are respected; no counter or index leaves its range.              *)
THEOREM TypeCorrect == Spec => []TypeOK
<1>1. IInv => TypeOK
  BY DEF IInv
<1> QED
  BY <1>1, Invariance, PTL

(* The FatalError for a pass that is not in the initialized state is never *)
(* thrown, in any item, chunk or run.                                      *)
THEOREM NeverRefusedAlways == Spec => []NeverRefused
<1>1. IInv => NeverRefused
  <2> SUFFICES ASSUME IInv, step = "Passes" PROVE pState[Running] = "Initialized"
    BY DEF NeverRefused
  <2>1. step \in Inner
    BY DEF Inner
  <2>2. Running \in Pass /\ topoIdx[Running] = pos /\ pos \in Nat /\ StatesFollow
    BY <2>1, InnerFacts
  <2> QED
    BY <2>2 DEF StatesFollow
<1> QED
  BY <1>1, Invariance, PTL

\* What a pass depends on is before it in the order, and enabled.
LEMMA DependenciesHold == IInv => DependenciesFirst
<1> SUFFICES ASSUME IInv, step = "InRun", NEW d \in DependsOn(Running)
             PROVE  /\ d \in enabled
                    /\ IF InChunk(d) THEN pState[d] = "Valid"
                                     ELSE topoIdx[d] < Chunk.left
  BY DEF DependenciesFirst
<1>1. step \in Inner
  BY DEF Inner
<1>2. /\ TypeOK /\ Sorted /\ InLoop /\ StatesFollow
      /\ Chunk.left \in Nat /\ Chunk.right \in Nat /\ pos \in Chunk.left..Chunk.right
      /\ Running \in Pass /\ topoIdx[Running] = pos
      /\ \A p \in Pass : topoIdx[p] \in Nat
  BY <1>1, InnerFacts
<1>3. d \in enabled
  BY <1>2 DEF InLoop
<1>4. topoIdx[d] < pos /\ d \in Pass
  BY <1>2, <1>3, EdgeEnds DEF DependsOn, Forward, Sorted, TypeOK
<1>5. CASE InChunk(d)
  BY <1>1, <1>2, <1>3, <1>4, <1>5 DEF StatesFollow, InChunk
<1>6. CASE ~InChunk(d)
  BY <1>2, <1>3, <1>4, <1>6 DEF InChunk
<1> QED
  BY <1>3, <1>5, <1>6

(* While a pass runs, what it depends on is enabled and has run in its chunk *)
(* or belongs to an earlier one.                                           *)
THEOREM DependenciesComeFirst == Spec => []DependenciesFirst
BY DependenciesHold, Invariance, PTL

(* A pass finds the Managed heaps of what it depends on as they were left: the *)
(* counts of runPassLifeCycle() never let go of a heap too early.          *)
THEOREM ResultsStayIntact == Spec => []ResultsIntact
<1>1. IInv => ResultsIntact
  <2> SUFFICES ASSUME IInv, step = "InRun", NEW d \in DependsOn(Running),
                      dispatched[d] # <<>>, NEW i \in got[d]
               PROVE  /\ heaps[i].owner = d /\ heaps[i].lifetime = "Managed"
                      /\ heaps[i].refcount > 0
    BY DEF ResultsIntact
  <2>1. step \in Inner
    BY DEF Inner
  <2>2. /\ TypeOK /\ Sorted
        /\ Chunk.left \in Nat /\ Chunk.right \in Nat /\ pos \in Chunk.left..Chunk.right
        /\ Running \in Pass /\ topoIdx[Running] = pos /\ InChunk(Running)
        /\ \A p \in Pass : topoIdx[p] \in Nat
    BY <2>1, InnerFacts
  <2>3. PICK e \in Transpose(d) : edges[e].pass = Running
    BY DEF DependsOn, Forward, Transpose
  <2>4. d \in Pass /\ topoIdx[d] < pos
    <3>1. PICK f \in DOMAIN edges : edges[f].pass = Running /\ d = edges[f].depends
      BY DEF DependsOn, Forward
    <3>2. edges[f].depends \in Pass
      BY <2>2, EdgeEnds DEF TypeOK
    <3>3. topoIdx[edges[f].depends] < topoIdx[edges[f].pass]
      BY <2>2, <3>1 DEF Sorted
    <3> QED
      BY <2>2, <3>1, <3>2, <3>3
  <2>5. e \in Due(d)
    BY <2>1, <2>2, <2>3, DueInner
  <2>6. NextUp = pos
    BY DEF NextUp, Inner
  <2>7. HeldFor(d, i, Cardinality(Due(d)))
    BY <2>4, <2>5, <2>6 DEF IInv, HeapsHeld
  <2>8. Cardinality(Due(d)) \in Nat /\ Cardinality(Due(d)) # 0
    BY <2>2, <2>5, DueFinite, FS_EmptySet DEF TypeOK
  <2>9. i \in DOMAIN heaps => heaps[i].refcount \in Nat
    BY <2>2, HeapType DEF TypeOK
  <2> QED
    BY <2>7, <2>8, <2>9 DEF HeldFor
<1> QED
  BY <1>1, Invariance, PTL

(* After a complete Run() a heap is held only for a preserved pass or for one *)
(* with a dependent that did not run.                                      *)
THEOREM NothingLeaks == Spec => []NoLeak
<1>1. IInv => NoLeak
  <2> SUFFICES ASSUME IInv, pmState = "Cleanup", NEW i \in DOMAIN heaps,
                      heaps[i].refcount > 0, NEW d, d = heaps[i].owner,
                      d \notin Preserved
               PROVE  \E e \in Transpose(d) : dispatched[edges[e].pass] = <<>>
    BY DEF NoLeak
  <2>1. ~MustFree(d)
    BY DEF IInv, HeapsReleased
  <2>2. PICK e \in Transpose(d) : ~Runs(edges[e].pass)
    BY <2>1 DEF MustFree
  <2>3. edges[e].pass \in Pass
    BY <2>2, EdgeEnds DEF IInv, TypeOK, Transpose
  <2> QED
    BY <2>2, <2>3 DEF IInv, OnlyTheseRan
<1> QED
  BY <1>1, Invariance, PTL

\* The chunks a pass is in.
ChunksOf(p) == {c \in DOMAIN chunks : topoIdx[p] \in chunks[c].left..chunks[c].right}

(* The chunks are disjoint, hold each enabled pass, and change exactly where *)
(* the dispatcher does.                                                    *)
THEOREM ChunksCover == Spec => []ChunksCoverEnabled
<1>1. IInv => ChunksCoverEnabled
  <2> SUFFICES ASSUME IInv, step # "Idle" PROVE ChunksCoverEnabled
    BY DEF ChunksCoverEnabled
  <2>1. TypeOK /\ Sorted /\ Cut(enabled, 0, chunks)
    BY DEF IInv, InLoop
  <2>2. /\ enabled \subseteq Pass
        /\ \A p \in Pass : topoIdx[p] \in Nat
        /\ topoIdx \in [Pass -> 0..(NPass - 1)]
    BY <2>1 DEF TypeOK
  <2>3. /\ Len(chunks) \in Nat /\ DOMAIN chunks = 1..Len(chunks)
        /\ \A c \in DOMAIN chunks : chunks[c].left \in Nat /\ chunks[c].right \in Nat
    <3>1. chunks \in Seq([left : 0..NPass, right : 0..NPass])
      BY <2>1 DEF TypeOK
    <3>2. Len(chunks) \in Nat /\ DOMAIN chunks = 1..Len(chunks)
      BY <3>1, LenProperties
    <3>3. \A c \in DOMAIN chunks : chunks[c] \in [left : 0..NPass, right : 0..NPass]
      BY <3>1, <3>2, ElementOfSeq
    <3> QED
      BY <3>2, <3>3, Size
  <2>4. \A c \in DOMAIN chunks :
          /\ chunks[c].left <= chunks[c].right /\ chunks[c].right < NPass
          /\ At(chunks[c].left) \in enabled
          /\ \A p \in enabled : c \in ChunksOf(p) => kind[p] = kind[At(chunks[c].left)]
    BY <2>1 DEF Cut, ChunksOf
  <2>5. \A c, d \in DOMAIN chunks : c < d => chunks[c].right < chunks[d].left
    BY <2>1 DEF Cut
  <2>6. ASSUME NEW p \in Pass, NEW c \in ChunksOf(p), NEW d \in ChunksOf(p), c # d
        PROVE  FALSE
    <3>1. c \in DOMAIN chunks /\ d \in DOMAIN chunks /\ (c < d \/ d < c)
      BY <2>3, <2>6 DEF ChunksOf
    <3>2. chunks[c].left <= topoIdx[p] /\ topoIdx[p] <= chunks[c].right
          /\ chunks[d].left <= topoIdx[p] /\ topoIdx[p] <= chunks[d].right
      BY <2>2, <2>3, <3>1 DEF ChunksOf
    <3> QED
      BY <2>2, <2>3, <2>5, <3>1, <3>2
  <2>7. ASSUME NEW p \in Pass PROVE Cardinality(ChunksOf(p)) <= 1
    <3>1. CASE ChunksOf(p) = {}
      BY <3>1, FS_EmptySet
    <3>2. CASE ChunksOf(p) # {}
      <4>1. PICK c : ChunksOf(p) = {c}
        BY <2>6, <3>2
      <4> QED
        BY <4>1, FS_Singleton
    <3> QED
      BY <3>1, <3>2
  <2>8. ASSUME NEW p \in enabled PROVE ChunksOf(p) # {}
    <3>1. topoIdx[p] >= 0
      BY <2>2
    <3>2. PICK c \in DOMAIN chunks : topoIdx[p] \in chunks[c].left..chunks[c].right
      BY <2>1, <3>1 DEF Cut
    <3> QED
      BY <3>2 DEF ChunksOf
  <2>9. ASSUME NEW p \in enabled, NEW q \in enabled, topoIdx[p] < topoIdx[q],
               \A r \in enabled : ~(topoIdx[r] > topoIdx[p] /\ topoIdx[r] < topoIdx[q])
        PROVE  ChunksOf(p) = ChunksOf(q) <=> kind[p] = kind[q]
    <3>1. PICK c \in ChunksOf(p), d \in ChunksOf(q) : TRUE
      BY <2>8
    <3>2. c \in DOMAIN chunks /\ d \in DOMAIN chunks
          /\ kind[p] = kind[At(chunks[c].left)] /\ kind[q] = kind[At(chunks[d].left)]
      BY <2>4, <3>1 DEF ChunksOf
    <3>3. /\ topoIdx[p] \in Nat /\ topoIdx[q] \in Nat
          /\ chunks[c].left <= topoIdx[p] /\ topoIdx[p] <= chunks[c].right
          /\ chunks[d].left <= topoIdx[q] /\ topoIdx[q] <= chunks[d].right
      BY <2>2, <2>3, <3>1, <3>2 DEF ChunksOf
    <3>4. CASE c = d
      <4>1. ChunksOf(p) = {c} /\ ChunksOf(q) = {c}
        BY <2>2, <2>6, <3>1, <3>4
      <4> QED
        BY <3>2, <3>4, <4>1
    <3>5. CASE c # d
      <4>1. c < d /\ c + 1 \in DOMAIN chunks /\ c \in 1..(Len(chunks) - 1)
        <5>1. ~(d < c)
          BY <2>3, <2>5, <2>9, <3>2, <3>3
        <5> QED
          BY <2>3, <3>2, <3>5, <5>1
      <4>2. /\ chunks[c + 1].left = chunks[c].right + 1
            /\ kind[At(chunks[c + 1].left)] # kind[At(chunks[c].left)]
        BY <2>1, <4>1 DEF Cut
      <4>3. PICK r \in enabled : topoIdx[r] = chunks[c + 1].left /\ r = At(chunks[c + 1].left)
        <5>1. chunks[c + 1].left \in 0..(NPass - 1)
          BY <2>3, <2>4, <4>1, Size
        <5> QED
          BY <2>1, <2>2, <2>4, <4>1, <5>1, Positions
      <4>4. chunks[c + 1].left <= chunks[d].left
        <5>1. CASE d = c + 1
          BY <2>3, <3>2, <5>1
        <5>2. CASE d # c + 1
          <6>1. c + 1 < d
            BY <2>3, <3>2, <4>1, <5>2
          <6>2. chunks[c + 1].right < chunks[d].left /\ chunks[c + 1].left <= chunks[c + 1].right
            BY <2>4, <2>5, <3>2, <4>1, <6>1
          <6> QED
            BY <2>3, <3>2, <4>1, <6>2
        <5> QED
          BY <5>1, <5>2
      <4>5. topoIdx[r] > topoIdx[p] /\ topoIdx[r] <= topoIdx[q]
        BY <2>3, <3>2, <3>3, <4>1, <4>2, <4>3, <4>4
      <4>6. topoIdx[r] = topoIdx[q]
        BY <2>2, <2>9, <3>3, <4>5
      <4>7. r = q
        BY <2>1, <2>2, <4>6 DEF Sorted
      <4>8. ChunksOf(p) # ChunksOf(q)
        BY <2>2, <2>6, <3>1, <3>5
      <4> QED
        BY <3>2, <4>2, <4>3, <4>7, <4>8
    <3> QED
      BY <3>4, <3>5
  <2> QED
    BY <2>7, <2>8, <2>9 DEF ChunksCoverEnabled, ChunksOf
<1> QED
  BY <1>1, Invariance, PTL
=============================================================================
