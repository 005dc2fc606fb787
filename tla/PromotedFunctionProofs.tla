----------------------- MODULE PromotedFunctionProofs -----------------------
(***************************************************************************)
(* The proof that HoistAlloca keeps what the function does.                *)
(*                                                                         *)
(* What each promoted alloca holds before each instruction of the code is  *)
(* a value in SSA form: held. The walk of the dominator tree determines it *)
(* as it goes, an instruction or a block at a time:                        *)
(*   - Renaming: wherever the walk has come to, held follows the stores in *)
(*     a block, starts with the phi node of a block that has one and else  *)
(*     with what is held at the end of the parent in the tree; each load   *)
(*     that was passed is replaced by what is held there;                  *)
(*   - Tops: the tops of the stacks are what is held where each of the     *)
(*     calls has come to.                                                  *)
(* When the walk is over, a block without a phi node has the value that is *)
(* held at the end of each of its predecessors, since the value is held on *)
(* every path from where it was defined and the dominance frontier has a   *)
(* phi node (EdgeHeld, AllFlows). That makes held a simulation (Simulates) *)
(* between the code given and the code returned, by which the two machines *)
(* stay in step (Agree, InStep). A later run of the pass changes nothing   *)
(* or, if there are phi nodes, never returns (LaterPass).                  *)
(***************************************************************************)
EXTENDS MemToRegProofs, PromotedFunction

-----------------------------------------------------------------------------
(* What the proof speaks of                                                *)

\* The allocas that are promoted: no instruction has their address.
Promotable ==
  {v \in Var : \A b \in Block : \A i \in DOMAIN given[b] :
     given[b][i].op = "use" => given[b][i].val # Alloca(v)}

\* The point after the last instruction of b.
End(b) == Len(given[b]) + 1

\* val is the load of a promoted alloca.
PromVal(val) ==
  /\ val[1] = "load" /\ val[2] \in Block /\ val[3] \in DOMAIN given[val[2]]
  /\ given[val[2]][val[3]].op = "load"
  /\ given[val[2]][val[3]].var \in Promotable

\* The alloca it loads.
LoadVar(val) == given[val[2]][val[3]].var

(* held gives for each point of the code, before instruction j of block b, *)
(* the value that each promoted alloca has there.                          *)

\* What the load of a promoted alloca is replaced by.
Meaning(held, val) ==
  IF PromVal(val) THEN held[val[2]][val[3]][LoadVar(val)] ELSE val

\* A value that is defined on every path to instruction j of b.
There(val, b, j) ==
  val[1] \in {"load", "phi"} =>
    /\ Dom(val[2], b)
    /\ val[1] = "load" /\ val[2] = b => val[3] < j

\* What an alloca v with the value w holds after instruction i.
Effect(i, v, w) ==
  IF i.op = "alloca" /\ i.var = v THEN Undef
  ELSE IF i.op = "store" /\ i.var = v THEN i.val ELSE w

\* The function is the one that was given, before the pass changed its code.
GivenIs == \E f \in Functions : succ = f.succ /\ given = f.code

\* Stores and loads of promoted allocas are erased.
Erased(i) == i.op \in {"store", "load"} /\ i.var \in Promotable

\* t does what is left of s when the promoted loads and stores are erased.
Shortened(s, t) ==
  \A m : \E f : /\ f[0] = m
                /\ \A n \in 1..Len(s) :
                     f[n] = IF Erased(s[n]) THEN f[n - 1] ELSE Exec(f[n - 1], s[n])
                /\ ExecBlock(m, t) = f[Len(s)]

\* pre is the code given with each use of a promoted load replaced by what
\* held has where it was loaded.
Rewritten(held, pre) ==
  /\ pre \in [Block -> Seq(Instruction)]
  /\ \A b \in Block : /\ Len(pre[b]) = Len(given[b])
                      /\ DOMAIN pre[b] = DOMAIN given[b]
  /\ \A b \in Block : \A j \in DOMAIN given[b] :
       /\ pre[b][j].op = given[b][j].op /\ pre[b][j].var = given[b][j].var
       /\ given[b][j].op = "load" => pre[b][j].val = given[b][j].val
       /\ given[b][j].op # "load" => pre[b][j].val = Meaning(held, given[b][j].val)

\* The values that are held are defined where they are held.
HeldThere(held) ==
  \A b \in Block : \A j \in 1..End(b) : \A v \in Promotable :
    held[b][j][v] \in Value /\ There(held[b][j][v], b, j)

\* They follow the stores of pre, and the phi nodes, on every edge.
HeldFlows(held, pre) ==
  \A v \in Promotable :
    /\ held[Entry][1][v] = Undef
    /\ \A b \in Block : \A j \in DOMAIN given[b] :
         held[b][j + 1][v] = Effect(pre[b][j], v, held[b][j][v])
    /\ \A b \in Block : \A p \in Preds(b) :
         IF <<b, v>> \in phis
           THEN /\ held[b][1][v] = Phi(b, v)
                /\ p \in DOMAIN incoming[<<b, v>>]
                /\ incoming[<<b, v>>][p] = held[p][End(p)][v]
           ELSE /\ held[b][1][v] = held[p][End(p)][v]
                /\ held[b][1][v][1] \in {"load", "phi"} => held[b][1][v][2] # b

\* The function that is returned does what the given one does.
Simulates(held, pre) ==
  /\ phis \subseteq (Block \ {Entry}) \X Promotable
  /\ Rewritten(held, pre)
  /\ HeldThere(held)
  /\ HeldFlows(held, pre)
  /\ \A b \in Block : Shortened(pre[b], code[b])

\* A machine has a memory, values and what was seen.
IsMachine(m) == DOMAIN m = {"mem", "env", "out"} /\ DOMAIN m.mem = Var

\* The machines m, of the code before, and a, of the code after the pass, agree
\* where they are before instruction j of block b.
Agree(held, m, a, b, j) ==
  /\ IsMachine(m) /\ IsMachine(a)
  /\ m.out = a.out
  /\ \A v \in Var \ Promotable : m.mem[v] = a.mem[v]
  /\ \A v \in Promotable : m.mem[v] = Eval(a, held[b][j][v])
  /\ \A val \in Value : PromVal(val) /\ There(val, b, j) =>
       Eval(m, val) = Eval(a, Meaning(held, val))
  /\ \A val \in Value : val[1] # "phi" /\ ~PromVal(val) =>
       Eval(m, val) = Eval(a, val)
  /\ Undef \notin DOMAIN a.env

-----------------------------------------------------------------------------
(* Running a block                                                         *)

(* The machine goes through the states that running the instructions one   *)
(* after the other makes.                                                  *)
LEMMA RunExists ==
  ASSUME NEW m, NEW s
  PROVE  \A k \in Nat :
           \E f : f = [n \in 0..k |-> IF n = 0 THEN m ELSE Exec(f[n - 1], s[n])]
<1> DEFINE Is(f, k) == f = [n \in 0..k |-> IF n = 0 THEN m ELSE Exec(f[n - 1], s[n])]
           W == {k \in Nat : \E f : Is(f, k)}
<1>1. 0 \in W
  <2>1. Is([n \in 0..0 |-> m], 0)
    OBVIOUS
  <2> QED
    BY <2>1
<1>2. ASSUME NEW k \in Nat, k \in W PROVE k + 1 \in W
  <2>1. PICK f : Is(f, k)
    BY <1>2
  <2> DEFINE g == [n \in 0..(k + 1) |-> IF n # k + 1 THEN f[n] ELSE Exec(f[k], s[n])]
             h == [n \in 0..(k + 1) |-> IF n = 0 THEN m ELSE Exec(g[n - 1], s[n])]
  <2>2. ASSUME NEW n \in 0..(k + 1) PROVE g[n] = h[n]
    <3>1. CASE n = 0
      BY <2>1, <3>1
    <3>2. CASE n \in 1..k
      <4>1. n \in 0..k /\ n - 1 \in 0..k
        BY <3>2
      <4>2. f[n] = Exec(f[n - 1], s[n])
        BY <2>1, <3>2, <4>1
      <4> QED
        BY <3>2, <4>1, <4>2
    <3>3. CASE n = k + 1
      BY <3>3
    <3> QED
      BY <3>1, <3>2, <3>3
  <2>3. g = h
    BY <2>2
  <2>4. Is(g, k + 1)
    BY <2>3
  <2> HIDE DEF g, Is
  <2>5. \E t : Is(t, k + 1)
    BY <2>4
  <2> QED
    BY <2>5
<1> HIDE DEF Is
<1>3. Nat \subseteq W
  BY <1>1, <1>2, AllNat
<1> QED
  BY <1>3 DEF Is

\* f holds the states of the machine between the instructions of s.
IsRun(f, m, s) ==
  /\ f[0] = m
  /\ \A n \in 1..Len(s) : f[n] = Exec(f[n - 1], s[n])

(* A block is run by running its instructions.                             *)
LEMMA RunsThrough ==
  ASSUME NEW m, NEW s, Len(s) \in Nat
  PROVE  \E f : IsRun(f, m, s) /\ ExecBlock(m, s) = f[Len(s)]
<1> DEFINE Is(f) == f = [n \in 0..Len(s) |-> IF n = 0 THEN m ELSE Exec(f[n - 1], s[n])]
           run == CHOOSE f : Is(f)
<1>1. Is(run)
  BY RunExists
<1>2. ExecBlock(m, s) = run[Len(s)]
  BY DEF ExecBlock
<1> HIDE DEF run
<1>3. IsRun(run, m, s)
  <2>1. 0 \in 0..Len(s) /\ \A n \in 1..Len(s) : n \in 0..Len(s) /\ n # 0
    OBVIOUS
  <2>2. run[0] = m
    BY <1>1, <2>1
  <2>3. \A n \in 1..Len(s) : run[n] = Exec(run[n - 1], s[n])
    BY <1>1, <2>1
  <2> QED
    BY <2>2, <2>3 DEF IsRun
<1> QED
  BY <1>2, <1>3

\* Two runs from the same machine are the same.
LEMMA SameRun ==
  ASSUME NEW m, NEW s, NEW t, Len(t) \in Nat, Len(s) \in Nat, Len(t) <= Len(s),
         \A n \in 1..Len(t) : s[n] = t[n],
         NEW f, IsRun(f, m, s), NEW g, IsRun(g, m, t)
  PROVE  f[Len(t)] = g[Len(t)]
<1> DEFINE W == {n \in Nat : n <= Len(t) => f[n] = g[n]}
<1>1. 0 \in W
  BY DEF IsRun
<1>2. ASSUME NEW n \in Nat, n \in W PROVE n + 1 \in W
  <2> SUFFICES ASSUME n + 1 <= Len(t) PROVE f[n + 1] = g[n + 1]
    OBVIOUS
  <2>1. n + 1 \in 1..Len(t) /\ n + 1 \in 1..Len(s) /\ (n + 1) - 1 = n /\ n <= Len(t)
    OBVIOUS
  <2>2. f[n + 1] = Exec(f[n], s[n + 1])
    BY <2>1 DEF IsRun
  <2>3. g[n + 1] = Exec(g[n], t[n + 1])
    BY <2>1 DEF IsRun
  <2>4. s[n + 1] = t[n + 1] /\ f[n] = g[n]
    BY <1>2, <2>1
  <2> QED
    BY <2>2, <2>3, <2>4
<1>3. Nat \subseteq W
  BY <1>1, <1>2, AllNat
<1> QED
  BY <1>3

\* Running one more instruction.
LEMMA RunAppend ==
  ASSUME NEW m, NEW t \in Seq(Instruction), NEW i \in Instruction
  PROVE  ExecBlock(m, Append(t, i)) = Exec(ExecBlock(m, t), i)
<1>1. PICK s : s = Append(t, i)
  OBVIOUS
<1>2. /\ Len(t) \in Nat /\ Len(s) = Len(t) + 1
      /\ \A n \in 1..Len(t) : s[n] = t[n]
      /\ s[Len(t) + 1] = i
  BY <1>1, AppendProperties, LenProperties
<1>3. PICK f : IsRun(f, m, s) /\ ExecBlock(m, s) = f[Len(s)]
  BY <1>2, RunsThrough
<1>4. PICK g : IsRun(g, m, t) /\ ExecBlock(m, t) = g[Len(t)]
  BY <1>2, RunsThrough
<1>5. f[Len(t)] = g[Len(t)]
  BY <1>2, <1>3, <1>4, SameRun
<1>6. Len(s) \in 1..Len(s) /\ Len(s) - 1 = Len(t)
  BY <1>2
<1>7. f[Len(s)] = Exec(f[Len(t)], s[Len(s)])
  BY <1>3, <1>6 DEF IsRun
<1> QED
  BY <1>1, <1>2, <1>3, <1>4, <1>5, <1>7

\* The states that Kept goes through.
LEMMA KeptSteps ==
  ASSUME NEW s \in Seq(Instruction)
  PROVE  \E k : /\ k[0] = <<>>
                /\ \A n \in 1..Len(s) : k[n] = KeepOrErase(k[n - 1], s[n])
                /\ \A n \in 0..Len(s) : k[n] \in Seq(Instruction)
                /\ Kept(s) = k[Len(s)]
<1> DEFINE Is(f) == f = [n \in 0..Len(s) |->
                           IF n = 0 THEN <<>> ELSE KeepOrErase(f[n - 1], s[n])]
           kept == CHOOSE f : Is(f)
           W == {n \in Nat : n <= Len(s) => kept[n] \in Seq(Instruction)}
<1>1. Len(s) \in Nat /\ \A n \in 1..Len(s) : s[n] \in Instruction
  BY LenProperties, ElementOfSeq
<1>2. Is(kept)
  BY <1>1, KeptExists
<1>3. Kept(s) = kept[Len(s)]
  BY DEF Kept
<1> HIDE DEF kept
<1>4. kept[0] = <<>>
  BY <1>1, <1>2
<1>5. \A n \in 1..Len(s) : kept[n] = KeepOrErase(kept[n - 1], s[n])
  <2>1. \A n \in 1..Len(s) : n \in 0..Len(s) /\ n # 0
    OBVIOUS
  <2> QED
    BY <1>2, <2>1
<1>6. 0 \in W
  BY <1>4, EmptySeq
<1>7. ASSUME NEW n \in Nat, n \in W PROVE n + 1 \in W
  <2> SUFFICES ASSUME n + 1 <= Len(s) PROVE kept[n + 1] \in Seq(Instruction)
    OBVIOUS
  <2>1. n + 1 \in 1..Len(s) /\ (n + 1) - 1 = n
    BY <1>1
  <2>2. kept[n + 1] = KeepOrErase(kept[n], s[n + 1])
    BY <1>5, <2>1
  <2>3. kept[n] \in Seq(Instruction) /\ s[n + 1] \in Instruction
    BY <1>1, <1>7, <2>1
  <2> QED
    BY <2>2, <2>3, AppendProperties DEF KeepOrErase
<1>8. Nat \subseteq W
  BY <1>6, <1>7, AllNat
<1>9. \A n \in 0..Len(s) : kept[n] \in Seq(Instruction)
  BY <1>1, <1>8
<1> QED
  BY <1>3, <1>4, <1>5, <1>9

(* Running what is left of a block is running the block without what is    *)
(* erased.                                                                 *)
LEMMA RunKept ==
  ASSUME NEW m, NEW s \in Seq(Instruction)
  PROVE  \E f : /\ f[0] = m
                /\ \A n \in 1..Len(s) :
                     f[n] = IF ToErase(s[n]) THEN f[n - 1] ELSE Exec(f[n - 1], s[n])
                /\ ExecBlock(m, Kept(s)) = f[Len(s)]
<1>1. PICK k : /\ k[0] = <<>>
               /\ \A n \in 1..Len(s) : k[n] = KeepOrErase(k[n - 1], s[n])
               /\ \A n \in 0..Len(s) : k[n] \in Seq(Instruction)
               /\ Kept(s) = k[Len(s)]
  BY KeptSteps
<1>2. Len(s) \in Nat /\ \A n \in 1..Len(s) : s[n] \in Instruction
  BY LenProperties, ElementOfSeq
<1> DEFINE f == [n \in 0..Len(s) |-> ExecBlock(m, k[n])]
<1>3. f[0] = m
  <2>1. ASSUME NEW t, Len(t) = 0 PROVE ExecBlock(m, t) = m
    BY <2>1, RunsThrough DEF IsRun
  <2>2. 0 \in 0..Len(s) /\ Len(k[0]) = 0
    BY <1>1, <1>2
  <2> QED
    BY <2>1, <2>2
<1>4. ASSUME NEW n \in 1..Len(s)
      PROVE  f[n] = IF ToErase(s[n]) THEN f[n - 1] ELSE Exec(f[n - 1], s[n])
  <2>1. n \in 0..Len(s) /\ n - 1 \in 0..Len(s)
    BY <1>2
  <2>2. f[n] = ExecBlock(m, k[n]) /\ f[n - 1] = ExecBlock(m, k[n - 1])
    BY <2>1
  <2>3. PICK t \in Seq(Instruction) : t = k[n - 1]
    BY <1>1, <2>1
  <2>4. k[n] = IF ToErase(s[n]) THEN t ELSE Append(t, s[n])
    BY <1>1, <2>3 DEF KeepOrErase
  <2>5. CASE ToErase(s[n])
    BY <2>2, <2>3, <2>4, <2>5
  <2>6. CASE ~ToErase(s[n])
    <3>1. ExecBlock(m, Append(t, s[n])) = Exec(ExecBlock(m, t), s[n])
      BY <1>2, RunAppend
    <3> QED
      BY <2>2, <2>3, <2>4, <2>6, <3>1
  <2> QED
    BY <2>5, <2>6
<1>5. ExecBlock(m, Kept(s)) = f[Len(s)]
  BY <1>1, <1>2
<1> HIDE DEF f
<1> QED
  BY <1>3, <1>4, <1>5

(* Where nothing is to be erased all is kept.                              *)
LEMMA AllKept ==
  ASSUME NEW s \in Seq(Instruction), \A n \in 1..Len(s) : ~ToErase(s[n])
  PROVE  Kept(s) = s
<1>1. PICK k : /\ k[0] = <<>>
               /\ \A n \in 1..Len(s) : k[n] = KeepOrErase(k[n - 1], s[n])
               /\ \A n \in 0..Len(s) : k[n] \in Seq(Instruction)
               /\ Kept(s) = k[Len(s)]
  BY KeptSteps
<1>2. Len(s) \in Nat /\ \A n \in 1..Len(s) : s[n] \in Instruction
  BY LenProperties, ElementOfSeq
<1> DEFINE Starts(t, n) == Len(t) = n /\ \A i \in 1..n : t[i] = s[i]
           W == {n \in Nat : n <= Len(s) => Starts(k[n], n)}
<1>3. 0 \in W
  BY <1>1, EmptySeq
<1>4. ASSUME NEW n \in Nat, n \in W PROVE n + 1 \in W
  <2> SUFFICES ASSUME n + 1 <= Len(s) PROVE Starts(k[n + 1], n + 1)
    OBVIOUS
  <2>1. n + 1 \in 1..Len(s) /\ (n + 1) - 1 = n /\ n <= Len(s) /\ n \in 0..Len(s)
    BY <1>2
  <2>2. PICK t \in Seq(Instruction) : t = k[n]
    BY <1>1, <2>1
  <2>3. Starts(t, n)
    BY <1>4, <2>1, <2>2
  <2>4. k[n + 1] = Append(t, s[n + 1])
    BY <1>1, <2>1, <2>2 DEF KeepOrErase
  <2>5. PICK u : u = Append(t, s[n + 1])
    OBVIOUS
  <2>6. /\ Len(u) = n + 1
        /\ \A i \in 1..n : u[i] = t[i]
        /\ u[n + 1] = s[n + 1]
    BY <1>2, <2>1, <2>3, <2>5, AppendProperties
  <2>7. Starts(u, n + 1)
    BY <2>3, <2>6
  <2> QED
    BY <2>4, <2>5, <2>7
<1>5. Nat \subseteq W
  BY <1>3, <1>4, AllNat
<1>6. PICK t \in Seq(Instruction) : t = k[Len(s)]
  BY <1>1, <1>2
<1>7. Starts(t, Len(s))
  BY <1>2, <1>5, <1>6
<1>8. t = s
  BY <1>2, <1>7, SeqEqual
<1> QED
  BY <1>1, <1>6, <1>8

-----------------------------------------------------------------------------
(* The code that was given                                                 *)

\* What is assumed of the functions, said of the one at hand.
LEMMA GivenCode ==
  ASSUME GivenIs
  PROVE  /\ given \in [Block -> Seq(Instruction)]
         /\ \A b \in Block :
              /\ DOMAIN given[b] = 1..Len(given[b])
              /\ Len(given[b]) \in Nat /\ End(b) \in Nat \ {0}
              /\ \A j \in DOMAIN given[b] :
                   /\ j \in Nat \ {0}
                   /\ given[b][j] \in Instruction
                   /\ given[b][j].op # "use" => given[b][j].var \in Var
                   /\ given[b][j].op = "load" => given[b][j].val = Loaded(b, j)
                   /\ given[b][j].op = "store" => given[b][j].val[1] # "alloca"
                   /\ given[b][j].op = "alloca" => b = Entry
         /\ InSSA(succ, given, {}, <<>>)
<1>1. PICK f \in Functions : succ = f.succ /\ given = f.code
  BY DEF GivenIs
<1>2. /\ given \in [Block -> Seq(Instruction)]
      /\ \A b \in Block : \A i \in DOMAIN given[b] :
           /\ given[b][i].op # "use" => given[b][i].var \in Var
           /\ given[b][i].op = "load" => given[b][i].val = Loaded(b, i)
           /\ given[b][i].op = "store" => given[b][i].val[1] # "alloca"
           /\ given[b][i].op = "alloca" => b = Entry
      /\ InSSA(succ, given, {}, <<>>)
  BY <1>1, FunctionsAssumption
<1>3. ASSUME NEW b \in Block
      PROVE  /\ DOMAIN given[b] = 1..Len(given[b])
             /\ Len(given[b]) \in Nat /\ End(b) \in Nat \ {0}
             /\ \A j \in DOMAIN given[b] :
                  j \in Nat \ {0} /\ given[b][j] \in Instruction
  <2>1. given[b] \in Seq(Instruction)
    BY <1>2
  <2>2. DOMAIN given[b] = 1..Len(given[b]) /\ Len(given[b]) \in Nat
    BY <2>1, LenProperties
  <2>3. \A j \in DOMAIN given[b] : given[b][j] \in Instruction
    BY <2>1, <2>2, ElementOfSeq
  <2> QED
    BY <2>2, <2>3 DEF End
<1> QED
  BY <1>2, <1>3, Zenon

\* What a value is made of.
LEMMA ValueIs ==
  ASSUME NEW val \in Value
  PROVE  /\ val[2] \in Nat /\ val[3] \in Nat
         /\ val[1] = "load" => val = Loaded(val[2], val[3])
         /\ val[1] = "phi" => val = Phi(val[2], val[3])
BY DEF Value, Loaded, Phi

\* The operand of an instruction is no phi node; when it is a load it is that
\* of an instruction the code has, which has been run.
LEMMA OperandThere ==
  ASSUME TypeOK, GivenIs, NEW b \in Block, NEW j \in DOMAIN given[b],
         given[b][j].op # "load"
  PROVE  /\ given[b][j].val \in Value
         /\ given[b][j].val[1] # "phi"
         /\ There(given[b][j].val, b, j)
<1> DEFINE val == given[b][j].val
<1>1. val \in Value
  <2>1. given[b][j] \in Instruction
    BY GivenCode
  <2> QED
    BY <2>1 DEF Instruction
<1>2. Available(succ, given, {}, val, b, j)
  BY GivenCode DEF InSSA
<1> HIDE DEF val
<1>3. val[1] # "phi"
  BY <1>2 DEF Available
<1>4. ASSUME val[1] = "load" PROVE Dom(val[2], b) /\ (val[2] = b => val[3] < j)
  <2>1. Dom(val[2], b)
    BY <1>2, <1>4 DEF Available, Dom
  <2>2. PICK i \in DOMAIN given[val[2]] :
          /\ given[val[2]][i].op = "load" /\ given[val[2]][i].val = val
          /\ val[2] = b => i < j
    BY <1>2, <1>4 DEF Available
  <2>3. val[2] \in Block
    BY <2>1, DomBlock
  <2>4. given[val[2]][i].val = Loaded(val[2], i)
    BY <2>2, <2>3, GivenCode
  <2>5. Loaded(val[2], i)[3] = i
    BY DEF Loaded
  <2>6. val[3] = i
    <3>1. val = Loaded(val[2], i)
      BY <2>2, <2>4
    <3> QED
      BY <2>5, <3>1
  <2> QED
    BY <2>1, <2>2, <2>6
<1>5. There(val, b, j)
  BY <1>3, <1>4 DEF There
<1> QED
  BY <1>1, <1>3, <1>5 DEF val

\* The value that a load of the code has is that of a promoted load if it loads
\* a promoted alloca.
LEMMA LoadIs ==
  ASSUME GivenIs, NEW b \in Block, NEW j \in DOMAIN given[b],
         given[b][j].op = "load"
  PROVE  /\ given[b][j].val = Loaded(b, j)
         /\ Loaded(b, j)[1] = "load" /\ Loaded(b, j)[2] = b /\ Loaded(b, j)[3] = j
         /\ Loaded(b, j) \in Value
         /\ given[b][j].var \in Var
         /\ PromVal(Loaded(b, j)) <=> given[b][j].var \in Promotable
         /\ LoadVar(Loaded(b, j)) = given[b][j].var
<1>1. given[b][j].val = Loaded(b, j) /\ given[b][j].var \in Var /\ j \in Nat
  BY GivenCode
<1>2. Loaded(b, j)[1] = "load" /\ Loaded(b, j)[2] = b /\ Loaded(b, j)[3] = j
  BY DEF Loaded
<1>3. Loaded(b, j) \in Value
  BY <1>1 DEF Loaded, Value, Block
<1>4. PromVal(Loaded(b, j)) <=> given[b][j].var \in Promotable
  BY <1>2 DEF PromVal
<1> QED
  BY <1>1, <1>2, <1>3, <1>4 DEF LoadVar

-----------------------------------------------------------------------------
(* One instruction                                                         *)

\* What a value is depends on the values that were given.
LEMMA EvalSame ==
  ASSUME NEW m, NEW n, n.env = m.env
  PROVE  \A val : Eval(n, val) = Eval(m, val)
BY DEF Eval

\* An operand has the same value before as what it is replaced by has after.
LEMMA OperandAgrees ==
  ASSUME TypeOK, GivenIs, NEW held, NEW pre, Rewritten(held, pre),
         NEW b \in Block, NEW j \in DOMAIN given[b], given[b][j].op # "load",
         NEW m, NEW a, Agree(held, m, a, b, j)
  PROVE  Eval(m, given[b][j].val) = Eval(a, pre[b][j].val)
<1>1. PICK val : val = given[b][j].val
  OBVIOUS
<1>2. val \in Value /\ val[1] # "phi" /\ There(val, b, j)
  BY <1>1, OperandThere
<1>3. pre[b][j].val = Meaning(held, val)
  BY <1>1 DEF Rewritten
<1>4. CASE PromVal(val)
  <2>1. Eval(m, val) = Eval(a, Meaning(held, val))
    BY <1>2, <1>4 DEF Agree
  <2> QED
    BY <1>1, <1>3, <2>1
<1>5. CASE ~PromVal(val)
  <2>1. Eval(m, val) = Eval(a, val)
    BY <1>2, <1>5 DEF Agree
  <2>2. Meaning(held, val) = val
    BY <1>5 DEF Meaning
  <2> QED
    BY <1>1, <1>3, <2>1, <2>2
<1> QED
  BY <1>4, <1>5

\* A value that is there after an instruction is that of the instruction or was
\* there before it.
LEMMA ThereNext ==
  ASSUME TypeOK, NEW val \in Value, NEW b \in Block, NEW j \in Nat,
         There(val, b, j + 1), val # Loaded(b, j)
  PROVE  There(val, b, j)
<1>1. val[3] \in Nat /\ (val[1] = "load" => val = Loaded(val[2], val[3]))
  BY ValueIs
<1>2. ASSUME val[1] = "load", val[2] = b PROVE val[3] < j
  <2>1. val[3] < j + 1
    BY <1>2 DEF There
  <2>2. val[3] # j
    BY <1>1, <1>2
  <2> QED
    BY <1>1, <2>1, <2>2
<1> QED
  BY <1>2 DEF There

\* What a promoted load stands for was there before that load was run.
LEMMA MeaningThere ==
  ASSUME TypeOK, GivenIs, NEW held, HeldThere(held), NEW val \in Value, PromVal(val)
  PROVE  /\ val[2] \in Block /\ val[3] \in 1..End(val[2])
         /\ val = Loaded(val[2], val[3])
         /\ Meaning(held, val) \in Value
         /\ There(Meaning(held, val), val[2], val[3])
<1>1. /\ val[1] = "load" /\ val[2] \in Block /\ val[3] \in DOMAIN given[val[2]]
      /\ LoadVar(val) \in Promotable
  BY DEF PromVal, LoadVar
<1>2. DOMAIN given[val[2]] = 1..Len(given[val[2]]) /\ Len(given[val[2]]) \in Nat
  BY <1>1, GivenCode
<1>3. val[3] \in 1..End(val[2])
  BY <1>1, <1>2 DEF End
<1>4. val = Loaded(val[2], val[3])
  BY <1>1, ValueIs
<1>5. Meaning(held, val) = held[val[2]][val[3]][LoadVar(val)]
  BY DEF Meaning
<1>6. /\ held[val[2]][val[3]][LoadVar(val)] \in Value
      /\ There(held[val[2]][val[3]][LoadVar(val)], val[2], val[3])
  BY <1>1, <1>3 DEF HeldThere
<1> QED
  BY <1>1, <1>3, <1>4, <1>5, <1>6

\* Running a load does not change what is held where it is run, nor what the
\* promoted loads that have been run stand for.
LEMMA LoadIsNew ==
  ASSUME TypeOK, GivenIs, NEW held, HeldThere(held),
         NEW b \in Block, NEW j \in DOMAIN given[b]
  PROVE  /\ \A v \in Promotable : held[b][j][v] # Loaded(b, j)
         /\ \A val \in Value : PromVal(val) /\ There(val, b, j) =>
              Meaning(held, val) # Loaded(b, j)
<1>1. Loaded(b, j)[1] = "load" /\ Loaded(b, j)[2] = b /\ Loaded(b, j)[3] = j
  BY DEF Loaded
<1>2. j \in Nat /\ j \in 1..End(b)
  <2>1. DOMAIN given[b] = 1..Len(given[b]) /\ Len(given[b]) \in Nat
    BY GivenCode
  <2> QED
    BY <2>1 DEF End
<1>3. \A v \in Promotable : There(held[b][j][v], b, j)
  BY <1>2 DEF HeldThere
<1>4. ~There(Loaded(b, j), b, j)
  BY <1>1, <1>2 DEF There
<1>5. ASSUME NEW val \in Value, PromVal(val), There(val, b, j),
             Meaning(held, val) = Loaded(b, j)
      PROVE  FALSE
  <2>1. /\ val[2] \in Block /\ val[3] \in 1..End(val[2])
        /\ There(Loaded(b, j), val[2], val[3])
    BY <1>5, MeaningThere
  <2>2. Dom(b, val[2]) /\ (b = val[2] => j < val[3])
    BY <1>1, <2>1 DEF There
  <2>3. val[1] = "load"
    BY <1>5 DEF PromVal
  <2>4. Dom(val[2], b) /\ (val[2] = b => val[3] < j)
    BY <1>5, <2>3 DEF There
  <2>5. val[2] = b
    BY <2>1, <2>2, <2>4, DomAntisymmetric
  <2>6. End(val[2]) \in Nat
    BY <2>1, GivenCode
  <2> QED
    BY <1>2, <2>1, <2>2, <2>4, <2>5, <2>6
<1> QED
  BY <1>3, <1>4, <1>5

\* The state of the machine after instruction i, which may be erased.
Stepped(a, i) == IF Erased(i) THEN a ELSE Exec(a, i)

\* What an instruction of the two functions is.
LEMMA PairIs ==
  ASSUME TypeOK, GivenIs, NEW held, NEW pre, Rewritten(held, pre),
         NEW b \in Block, NEW j \in DOMAIN given[b]
  PROVE  /\ given[b][j].op \in {"alloca", "store", "load", "use"}
         /\ given[b][j].op # "use" => given[b][j].var \in Var
         /\ pre[b][j].op = given[b][j].op /\ pre[b][j].var = given[b][j].var
         /\ given[b][j].op = "load" => pre[b][j].val = given[b][j].val
<1>1. given[b][j] \in Instruction /\ (given[b][j].op # "use" => given[b][j].var \in Var)
  BY GivenCode
<1>2. given[b][j].op \in {"alloca", "store", "load", "use"}
  BY <1>1 DEF Instruction
<1> QED
  BY <1>1, <1>2 DEF Rewritten

\* An alloca makes the variable undefined.
LEMMA AllocaAgrees ==
  ASSUME TypeOK, GivenIs, NEW held, NEW pre, Rewritten(held, pre), HeldFlows(held, pre),
         NEW b \in Block, NEW j \in DOMAIN given[b], given[b][j].op = "alloca",
         NEW m, NEW a, Agree(held, m, a, b, j)
  PROVE  Agree(held, Exec(m, given[b][j]), Stepped(a, pre[b][j]), b, j + 1)
<1>0. IsMachine(m) /\ IsMachine(a)
  BY DEF Agree
<1>1. PICK i : i = given[b][j]
  OBVIOUS
<1>2. PICK k : k = pre[b][j]
  OBVIOUS
<1>3. i.op = "alloca" /\ k.op = "alloca" /\ i.var \in Var /\ k.var = i.var /\ j \in Nat
  BY <1>1, <1>2, PairIs, GivenCode
<1>4. PICK n : n = Exec(m, i)
  OBVIOUS
<1>5. PICK c : c = Stepped(a, k)
  OBVIOUS
<1>6. c = Exec(a, k)
  BY <1>3, <1>5 DEF Stepped, Erased
<1>7. /\ IsMachine(n) /\ n.out = m.out /\ n.env = m.env
      /\ \A v \in Var : n.mem[v] = IF v = i.var THEN Undef ELSE m.mem[v]
  BY <1>0, <1>3, <1>4 DEF IsMachine, Exec
<1>8. /\ IsMachine(c) /\ c.out = a.out /\ c.env = a.env
      /\ \A v \in Var : c.mem[v] = IF v = i.var THEN Undef ELSE a.mem[v]
  BY <1>0, <1>3, <1>6 DEF IsMachine, Exec
<1>9. (\A val : Eval(n, val) = Eval(m, val)) /\ \A val : Eval(c, val) = Eval(a, val)
  BY <1>7, <1>8, EvalSame
<1>10. \A v \in Var \ Promotable : n.mem[v] = c.mem[v]
  BY <1>7, <1>8 DEF Agree
<1>11. ASSUME NEW v \in Promotable PROVE n.mem[v] = Eval(c, held[b][j + 1][v])
  <2>1. v \in Var
    BY DEF Promotable
  <2>2. held[b][j + 1][v] = IF v = i.var THEN Undef ELSE held[b][j][v]
    <3>1. held[b][j + 1][v] = Effect(k, v, held[b][j][v])
      BY <1>2 DEF HeldFlows
    <3> QED
      BY <1>3, <3>1 DEF Effect
  <2>3. Eval(c, Undef) = Undef
    BY <1>8 DEF Agree, Eval
  <2>4. m.mem[v] = Eval(a, held[b][j][v])
    BY DEF Agree
  <2>5. Eval(c, held[b][j][v]) = Eval(a, held[b][j][v])
    BY <1>9
  <2>6. n.mem[v] = IF v = i.var THEN Undef ELSE m.mem[v]
    BY <1>7, <2>1
  <2> QED
    BY <2>2, <2>3, <2>4, <2>5, <2>6, Zenon
<1>12. ASSUME NEW val \in Value, PromVal(val), There(val, b, j + 1)
       PROVE  Eval(n, val) = Eval(c, Meaning(held, val))
  <2>1. val # Loaded(b, j)
    BY <1>1, <1>3, <1>12 DEF PromVal, Loaded
  <2>2. There(val, b, j)
    BY <1>3, <1>12, <2>1, ThereNext
  <2>3. Eval(m, val) = Eval(a, Meaning(held, val))
    BY <1>12, <2>2 DEF Agree
  <2> QED
    BY <1>9, <2>3
<1>13. \A val \in Value : val[1] # "phi" /\ ~PromVal(val) => Eval(n, val) = Eval(c, val)
  BY <1>9 DEF Agree
<1>14. n.out = c.out /\ Undef \notin DOMAIN c.env
  BY <1>7, <1>8 DEF Agree
<1>15. Agree(held, n, c, b, j + 1)
  BY <1>7, <1>8, <1>10, <1>11, <1>12, <1>13, <1>14 DEF Agree
<1> QED
  BY <1>1, <1>2, <1>4, <1>5, <1>15

\* A store of a promoted alloca changes what is held, another one the memory.
LEMMA StoreAgrees ==
  ASSUME TypeOK, GivenIs, NEW held, NEW pre, Rewritten(held, pre), HeldFlows(held, pre),
         NEW b \in Block, NEW j \in DOMAIN given[b], given[b][j].op = "store",
         NEW m, NEW a, Agree(held, m, a, b, j)
  PROVE  Agree(held, Exec(m, given[b][j]), Stepped(a, pre[b][j]), b, j + 1)
<1>0. IsMachine(m) /\ IsMachine(a)
  BY DEF Agree
<1>1. PICK i : i = given[b][j]
  OBVIOUS
<1>2. PICK k : k = pre[b][j]
  OBVIOUS
<1>3. i.op = "store" /\ k.op = "store" /\ i.var \in Var /\ k.var = i.var /\ j \in Nat
  BY <1>1, <1>2, PairIs, GivenCode
<1>4. PICK n : n = Exec(m, i)
  OBVIOUS
<1>5. PICK c : c = Stepped(a, k)
  OBVIOUS
<1>6. Eval(m, i.val) = Eval(a, k.val)
  BY <1>1, <1>2, <1>3, OperandAgrees
<1>7. /\ IsMachine(n) /\ n.out = m.out /\ n.env = m.env
      /\ \A v \in Var : n.mem[v] = IF v = i.var THEN Eval(m, i.val) ELSE m.mem[v]
  BY <1>0, <1>3, <1>4 DEF IsMachine, Exec
<1>8. /\ IsMachine(c) /\ c.out = a.out /\ c.env = a.env
      /\ i.var \in Promotable => c = a
      /\ i.var \notin Promotable =>
           \A v \in Var : c.mem[v] = IF v = i.var THEN Eval(a, k.val) ELSE a.mem[v]
  <2>1. CASE i.var \in Promotable
    BY <1>3, <1>5, <2>1 DEF Stepped, Erased, Agree
  <2>2. CASE i.var \notin Promotable
    <3>1. c = Exec(a, k)
      BY <1>3, <1>5, <2>2 DEF Stepped, Erased
    <3> QED
      BY <1>0, <1>3, <2>2, <3>1 DEF IsMachine, Exec
  <2> QED
    BY <2>1, <2>2
<1>9. (\A val : Eval(n, val) = Eval(m, val)) /\ \A val : Eval(c, val) = Eval(a, val)
  BY <1>7, <1>8, EvalSame
<1>10. ASSUME NEW v \in Var \ Promotable PROVE n.mem[v] = c.mem[v]
  <2>1. m.mem[v] = a.mem[v]
    BY DEF Agree
  <2>2. CASE i.var \in Promotable
    BY <1>7, <1>8, <2>1, <2>2
  <2>3. CASE i.var \notin Promotable
    BY <1>6, <1>7, <1>8, <2>1, <2>3
  <2> QED
    BY <2>2, <2>3
<1>11. ASSUME NEW v \in Promotable PROVE n.mem[v] = Eval(c, held[b][j + 1][v])
  <2>1. v \in Var
    BY DEF Promotable
  <2>2. held[b][j + 1][v] = IF v = i.var THEN k.val ELSE held[b][j][v]
    <3>1. held[b][j + 1][v] = Effect(k, v, held[b][j][v])
      BY <1>2 DEF HeldFlows
    <3> QED
      BY <1>3, <3>1 DEF Effect
  <2>3. m.mem[v] = Eval(a, held[b][j][v])
    BY DEF Agree
  <2>4. Eval(c, held[b][j][v]) = Eval(a, held[b][j][v]) /\ Eval(c, k.val) = Eval(a, k.val)
    BY <1>9
  <2>5. n.mem[v] = IF v = i.var THEN Eval(m, i.val) ELSE m.mem[v]
    BY <1>7, <2>1
  <2> QED
    BY <1>6, <2>2, <2>3, <2>4, <2>5, Zenon
<1>12. ASSUME NEW val \in Value, PromVal(val), There(val, b, j + 1)
       PROVE  Eval(n, val) = Eval(c, Meaning(held, val))
  <2>1. val # Loaded(b, j)
    BY <1>1, <1>3, <1>12 DEF PromVal, Loaded
  <2>2. There(val, b, j)
    BY <1>3, <1>12, <2>1, ThereNext
  <2>3. Eval(m, val) = Eval(a, Meaning(held, val))
    BY <1>12, <2>2 DEF Agree
  <2> QED
    BY <1>9, <2>3
<1>13. \A val \in Value : val[1] # "phi" /\ ~PromVal(val) => Eval(n, val) = Eval(c, val)
  BY <1>9 DEF Agree
<1>14. n.out = c.out /\ Undef \notin DOMAIN c.env
  BY <1>7, <1>8 DEF Agree
<1>15. Agree(held, n, c, b, j + 1)
  BY <1>7, <1>8, <1>10, <1>11, <1>12, <1>13, <1>14 DEF Agree
<1> QED
  BY <1>1, <1>2, <1>4, <1>5, <1>15

\* A load of a promoted alloca leaves the memory's value to what stands for it.
LEMMA LoadAgrees ==
  ASSUME TypeOK, GivenIs, NEW held, NEW pre, Rewritten(held, pre), HeldFlows(held, pre),
         HeldThere(held),
         NEW b \in Block, NEW j \in DOMAIN given[b], given[b][j].op = "load",
         NEW m, NEW a, Agree(held, m, a, b, j)
  PROVE  Agree(held, Exec(m, given[b][j]), Stepped(a, pre[b][j]), b, j + 1)
<1>0. IsMachine(m) /\ IsMachine(a)
  BY DEF Agree
<1>1. PICK i : i = given[b][j]
  OBVIOUS
<1>2. PICK k : k = pre[b][j]
  OBVIOUS
<1> DEFINE L == Loaded(b, j)
<1>3. /\ i.op = "load" /\ k.op = "load" /\ i.var \in Var /\ k.var = i.var /\ j \in Nat
      /\ i.val = L /\ k.val = L
  BY <1>1, <1>2, PairIs, GivenCode
<1>4. PICK n : n = Exec(m, i)
  OBVIOUS
<1>5. PICK c : c = Stepped(a, k)
  OBVIOUS
<1>6. L \in Value /\ L[1] = "load" /\ (PromVal(L) <=> i.var \in Promotable) /\ LoadVar(L) = i.var
  BY <1>1, <1>3, LoadIs
<1>7. /\ IsMachine(n) /\ n.out = m.out /\ n.mem = m.mem
      /\ n.env = Set(m.env, L, m.mem[i.var])
  BY <1>0, <1>3, <1>4 DEF IsMachine, Exec
<1>8. /\ IsMachine(c) /\ c.out = a.out /\ c.mem = a.mem
      /\ i.var \in Promotable => c = a
      /\ i.var \notin Promotable => c.env = Set(a.env, L, a.mem[i.var])
  <2>1. CASE i.var \in Promotable
    BY <1>0, <1>3, <1>5, <2>1 DEF Stepped, Erased
  <2>2. CASE i.var \notin Promotable
    <3>1. c = Exec(a, k)
      BY <1>3, <1>5, <2>2 DEF Stepped, Erased
    <3> QED
      BY <1>0, <1>3, <2>2, <3>1 DEF IsMachine, Exec
  <2> QED
    BY <2>1, <2>2
<1>9. Eval(n, L) = m.mem[i.var] /\ \A val : val # L => Eval(n, val) = Eval(m, val)
  BY <1>7 DEF Set, Eval
<1>10. /\ \A val : val # L => Eval(c, val) = Eval(a, val)
       /\ i.var \in Promotable => \A val : Eval(c, val) = Eval(a, val)
       /\ i.var \notin Promotable => Eval(c, L) = a.mem[i.var]
  <2>1. CASE i.var \in Promotable
    BY <1>8, <2>1
  <2>2. CASE i.var \notin Promotable
    <3>1. c.env = Set(a.env, L, a.mem[i.var])
      BY <1>8, <2>2
    <3> QED
      BY <2>2, <3>1 DEF Set, Eval
  <2> QED
    BY <2>1, <2>2
<1>11. /\ \A v \in Promotable : held[b][j][v] # L
       /\ \A val \in Value : PromVal(val) /\ There(val, b, j) => Meaning(held, val) # L
  BY LoadIsNew
<1> HIDE DEF L
<1>12. \A v \in Var \ Promotable : n.mem[v] = c.mem[v]
  BY <1>7, <1>8 DEF Agree
<1>13. ASSUME NEW v \in Promotable PROVE n.mem[v] = Eval(c, held[b][j + 1][v])
  <2>1. held[b][j + 1][v] = held[b][j][v]
    <3>1. held[b][j + 1][v] = Effect(k, v, held[b][j][v])
      BY <1>2 DEF HeldFlows
    <3> QED
      BY <1>3, <3>1 DEF Effect
  <2>2. m.mem[v] = Eval(a, held[b][j][v])
    BY DEF Agree
  <2>3. Eval(c, held[b][j][v]) = Eval(a, held[b][j][v])
    BY <1>10, <1>11
  <2> QED
    BY <1>7, <2>1, <2>2, <2>3
<1>14. ASSUME NEW val \in Value, PromVal(val), There(val, b, j + 1)
       PROVE  Eval(n, val) = Eval(c, Meaning(held, val))
  <2>1. CASE val = L
    <3>1. i.var \in Promotable
      BY <1>6, <1>14, <2>1
    <3>2. Meaning(held, val) = held[b][j][i.var]
      BY <1>6, <1>14, <2>1 DEF Meaning, L, Loaded
    <3>3. m.mem[i.var] = Eval(a, held[b][j][i.var])
      BY <3>1 DEF Agree
    <3> QED
      BY <1>9, <1>10, <2>1, <3>1, <3>2, <3>3
  <2>2. CASE val # L
    <3>1. There(val, b, j)
      BY <1>3, <1>14, <2>2, ThereNext DEF L
    <3>2. Eval(m, val) = Eval(a, Meaning(held, val))
      BY <1>14, <3>1 DEF Agree
    <3>3. Meaning(held, val) # L
      BY <1>11, <1>14, <3>1
    <3> QED
      BY <1>9, <1>10, <2>2, <3>2, <3>3
  <2> QED
    BY <2>1, <2>2
<1>15. ASSUME NEW val \in Value, val[1] # "phi", ~PromVal(val)
       PROVE  Eval(n, val) = Eval(c, val)
  <2>1. Eval(m, val) = Eval(a, val)
    BY <1>15 DEF Agree
  <2>2. CASE val = L
    <3>1. i.var \in Var \ Promotable
      BY <1>3, <1>6, <1>15, <2>2
    <3>2. m.mem[i.var] = a.mem[i.var]
      BY <3>1 DEF Agree
    <3> QED
      BY <1>9, <1>10, <2>2, <3>1, <3>2
  <2>3. CASE val # L
    BY <1>9, <1>10, <2>1, <2>3
  <2> QED
    BY <2>2, <2>3
<1>16. n.out = c.out
  BY <1>7, <1>8 DEF Agree
<1>17. Undef \notin DOMAIN c.env
  <2>1. Undef \notin DOMAIN a.env
    BY DEF Agree
  <2>2. Undef # L
    BY <1>6 DEF Undef
  <2>3. CASE i.var \in Promotable
    BY <1>8, <2>1, <2>3
  <2>4. CASE i.var \notin Promotable
    <3>1. c.env = Set(a.env, L, a.mem[i.var])
      BY <1>8, <2>4
    <3>2. DOMAIN c.env = DOMAIN a.env \union {L}
      BY <3>1 DEF Set
    <3> QED
      BY <2>1, <2>2, <3>2
  <2> QED
    BY <2>3, <2>4
<1>18. Agree(held, n, c, b, j + 1)
  BY <1>7, <1>8, <1>12, <1>13, <1>14, <1>15, <1>16, <1>17 DEF Agree
<1> QED
  BY <1>1, <1>2, <1>4, <1>5, <1>18

\* Another instruction sees the same value.
LEMMA UseAgrees ==
  ASSUME TypeOK, GivenIs, NEW held, NEW pre, Rewritten(held, pre), HeldFlows(held, pre),
         NEW b \in Block, NEW j \in DOMAIN given[b], given[b][j].op = "use",
         NEW m, NEW a, Agree(held, m, a, b, j)
  PROVE  Agree(held, Exec(m, given[b][j]), Stepped(a, pre[b][j]), b, j + 1)
<1>0. IsMachine(m) /\ IsMachine(a)
  BY DEF Agree
<1>1. PICK i : i = given[b][j]
  OBVIOUS
<1>2. PICK k : k = pre[b][j]
  OBVIOUS
<1>3. i.op = "use" /\ k.op = "use" /\ j \in Nat
  BY <1>1, <1>2, PairIs, GivenCode
<1>4. PICK n : n = Exec(m, i)
  OBVIOUS
<1>5. PICK c : c = Stepped(a, k)
  OBVIOUS
<1>6. Eval(m, i.val) = Eval(a, k.val)
  BY <1>1, <1>2, <1>3, OperandAgrees
<1>7. /\ IsMachine(n) /\ n.env = m.env /\ n.mem = m.mem
      /\ n.out = Append(m.out, Eval(m, i.val))
  BY <1>0, <1>3, <1>4 DEF IsMachine, Exec
<1>8. c = Exec(a, k)
  BY <1>3, <1>5 DEF Stepped, Erased
<1>9. /\ IsMachine(c) /\ c.env = a.env /\ c.mem = a.mem
      /\ c.out = Append(a.out, Eval(a, k.val))
  BY <1>0, <1>3, <1>8 DEF IsMachine, Exec
<1>10. (\A val : Eval(n, val) = Eval(m, val)) /\ \A val : Eval(c, val) = Eval(a, val)
  BY <1>7, <1>9, EvalSame
<1>11. n.out = c.out
  BY <1>6, <1>7, <1>9 DEF Agree
<1>12. \A v \in Var \ Promotable : n.mem[v] = c.mem[v]
  BY <1>7, <1>9 DEF Agree
<1>13. ASSUME NEW v \in Promotable PROVE n.mem[v] = Eval(c, held[b][j + 1][v])
  <2>1. held[b][j + 1][v] = held[b][j][v]
    <3>1. held[b][j + 1][v] = Effect(k, v, held[b][j][v])
      BY <1>2 DEF HeldFlows
    <3> QED
      BY <1>3, <3>1 DEF Effect
  <2>2. m.mem[v] = Eval(a, held[b][j][v])
    BY DEF Agree
  <2> QED
    BY <1>7, <1>10, <2>1, <2>2
<1>14. ASSUME NEW val \in Value, PromVal(val), There(val, b, j + 1)
       PROVE  Eval(n, val) = Eval(c, Meaning(held, val))
  <2>1. val # Loaded(b, j)
    BY <1>1, <1>3, <1>14 DEF PromVal, Loaded
  <2>2. There(val, b, j)
    BY <1>3, <1>14, <2>1, ThereNext
  <2>3. Eval(m, val) = Eval(a, Meaning(held, val))
    BY <1>14, <2>2 DEF Agree
  <2> QED
    BY <1>10, <2>3
<1>15. \A val \in Value : val[1] # "phi" /\ ~PromVal(val) => Eval(n, val) = Eval(c, val)
  BY <1>10 DEF Agree
<1>16. Undef \notin DOMAIN c.env
  BY <1>9 DEF Agree
<1>17. Agree(held, n, c, b, j + 1)
  BY <1>7, <1>9, <1>11, <1>12, <1>13, <1>14, <1>15, <1>16 DEF Agree
<1> QED
  BY <1>1, <1>2, <1>4, <1>5, <1>17

\* One instruction on both sides.
LEMMA StepAgrees ==
  ASSUME TypeOK, GivenIs, NEW held, NEW pre, Simulates(held, pre),
         NEW b \in Block, NEW j \in DOMAIN given[b],
         NEW m, NEW a, Agree(held, m, a, b, j)
  PROVE  Agree(held, Exec(m, given[b][j]), Stepped(a, pre[b][j]), b, j + 1)
<1>1. Rewritten(held, pre) /\ HeldFlows(held, pre) /\ HeldThere(held)
  BY DEF Simulates
<1>2. given[b][j].op \in {"alloca", "store", "load", "use"}
  BY <1>1, PairIs
<1>3. CASE given[b][j].op = "alloca"
  BY <1>1, <1>3, AllocaAgrees
<1>4. CASE given[b][j].op = "store"
  BY <1>1, <1>4, StoreAgrees
<1>5. CASE given[b][j].op = "load"
  BY <1>1, <1>5, LoadAgrees
<1>6. CASE given[b][j].op = "use"
  BY <1>1, <1>6, UseAgrees
<1> QED
  BY <1>2, <1>3, <1>4, <1>5, <1>6

\* A block on both sides.
LEMMA BlockAgrees ==
  ASSUME TypeOK, GivenIs, NEW held, NEW pre, Simulates(held, pre),
         NEW b \in Block, NEW m, NEW a, Agree(held, m, a, b, 1)
  PROVE  Agree(held, ExecBlock(m, given[b]), ExecBlock(a, code[b]), b, End(b))
<1>1. /\ DOMAIN given[b] = 1..Len(given[b]) /\ Len(given[b]) \in Nat
      /\ Len(pre[b]) = Len(given[b])
  BY GivenCode DEF Simulates, Rewritten
<1>2. PICK g : IsRun(g, m, given[b]) /\ ExecBlock(m, given[b]) = g[Len(given[b])]
  BY <1>1, RunsThrough
<1>3. PICK f : /\ f[0] = a
               /\ \A n \in 1..Len(pre[b]) :
                    f[n] = IF Erased(pre[b][n]) THEN f[n - 1]
                           ELSE Exec(f[n - 1], pre[b][n])
               /\ ExecBlock(a, code[b]) = f[Len(pre[b])]
  BY DEF Simulates, Shortened
<1> DEFINE W == {n \in Nat : n <= Len(given[b]) => Agree(held, g[n], f[n], b, n + 1)}
<1>4. 0 \in W
  <2>1. g[0] = m /\ f[0] = a
    BY <1>2, <1>3 DEF IsRun
  <2> QED
    BY <2>1
<1>5. ASSUME NEW n \in Nat, n \in W PROVE n + 1 \in W
  <2> SUFFICES ASSUME n + 1 <= Len(given[b])
               PROVE  Agree(held, g[n + 1], f[n + 1], b, (n + 1) + 1)
    OBVIOUS
  <2>1. /\ n + 1 \in 1..Len(given[b]) /\ n + 1 \in DOMAIN given[b]
        /\ (n + 1) - 1 = n /\ n <= Len(given[b]) /\ n + 1 \in 1..Len(pre[b])
    BY <1>1
  <2>2. Agree(held, g[n], f[n], b, n + 1)
    BY <1>5, <2>1
  <2>3. g[n + 1] = Exec(g[n], given[b][n + 1])
    BY <1>2, <2>1 DEF IsRun
  <2>4. f[n + 1] = Stepped(f[n], pre[b][n + 1])
    <3>1. f[n + 1] = IF Erased(pre[b][n + 1]) THEN f[(n + 1) - 1]
                     ELSE Exec(f[(n + 1) - 1], pre[b][n + 1])
      BY <1>3, <2>1
    <3> QED
      BY <2>1, <3>1 DEF Stepped
  <2>5. PICK j \in DOMAIN given[b] : j = n + 1
    BY <2>1
  <2>6. Agree(held, Exec(g[n], given[b][j]), Stepped(f[n], pre[b][j]), b, j + 1)
    BY <2>2, <2>5, StepAgrees
  <2> QED
    BY <2>3, <2>4, <2>5, <2>6
<1>6. Nat \subseteq W
  BY <1>4, <1>5, AllNat
<1>7. Agree(held, g[Len(given[b])], f[Len(given[b])], b, Len(given[b]) + 1)
  BY <1>1, <1>6
<1> QED
  BY <1>1, <1>2, <1>3, <1>7 DEF End

\* What dominates a block, other than the block itself, dominates each of its
\* predecessors.
LEMMA DomPred ==
  ASSUME TypeOK, NEW b \in Block, NEW p \in Preds(b), NEW d, Dom(d, b), d # b
  PROVE  Dom(d, p)
<1>1. p \in Block /\ \E i \in DOMAIN succ[p] : succ[p][i] = b
  BY DEF Preds, Succs
<1>3. SUFFICES ASSUME ~Dom(d, p) PROVE FALSE
  OBVIOUS
<1>4. PICK U \in SUBSET Block : Closed(succ, d, U) /\ b \notin U
  BY DEF Dom, Dominates
<1>5. p \in U
  BY <1>1, <1>3, <1>4 DEF Dom, Dominates
<1>6. \A i \in DOMAIN succ[p] : succ[p][i] # d => succ[p][i] \in U
  BY <1>4, <1>5 DEF Closed
<1> QED
  BY <1>1, <1>4, <1>6

\* Coming to a block sets its phi nodes, and nothing else.
LEMMA EnteringIs ==
  ASSUME NEW a, IsMachine(a), NEW b
  PROVE  LET c == Entering(a, b)
             here == {Phi(phi[1], phi[2]) : phi \in PhisOf(b)}
         IN /\ IsMachine(c) /\ c.mem = a.mem /\ c.out = <<>>
            /\ DOMAIN c.env = DOMAIN a.env \union here
            /\ \A x : x \notin here => Eval(c, x) = Eval(a, x)
            /\ \A x \in here : Eval(c, x) = Eval(a, Operand(<<x[2], x[3]>>, at))
<1> DEFINE here == {Phi(phi[1], phi[2]) : phi \in PhisOf(b)}
           env == [x \in DOMAIN a.env \union here |->
                     IF x \in here THEN Eval(a, Operand(<<x[2], x[3]>>, at))
                                   ELSE a.env[x]]
<1>1. PICK c : c = Entering(a, b)
  OBVIOUS
<1>2. c = [a EXCEPT !.out = <<>>, !.env = env]
  BY <1>1 DEF Entering
<1>3. PICK e : e = env
  OBVIOUS
<1>4. PICK H : H = here
  OBVIOUS
<1>5. /\ DOMAIN e = DOMAIN a.env \union H
      /\ \A x \in H : e[x] = Eval(a, Operand(<<x[2], x[3]>>, at))
      /\ \A x \in DOMAIN a.env \ H : e[x] = a.env[x]
  BY <1>3, <1>4
<1>6. c = [a EXCEPT !.out = <<>>, !.env = e]
  BY <1>2, <1>3
<1> HIDE DEF here, env
<1>7. IsMachine(c) /\ c.mem = a.mem /\ c.out = <<>> /\ c.env = e
  BY <1>6 DEF IsMachine
<1>8. \A x : x \notin H => Eval(c, x) = Eval(a, x)
  BY <1>5, <1>7 DEF Eval
<1>9. ASSUME NEW x \in H PROVE Eval(c, x) = Eval(a, Operand(<<x[2], x[3]>>, at))
  <2>1. x \in DOMAIN c.env /\ c.env[x] = Eval(a, Operand(<<x[2], x[3]>>, at))
    BY <1>5, <1>7
  <2> QED
    BY <2>1 DEF Eval
<1> QED
  BY <1>1, <1>4, <1>5, <1>7, <1>8, <1>9 DEF here

\* The start of a machine.
LEMMA MachinesAgree ==
  ASSUME TypeOK, GivenIs, NEW held, NEW pre, Simulates(held, pre),
         NEW a, a = Entering(Machine, Entry)
  PROVE  Agree(held, [Machine EXCEPT !.out = <<>>], a, Entry, 1)
<1>1. PICK m : m = [Machine EXCEPT !.out = <<>>]
  OBVIOUS
<1>2. PICK mm : mm = Machine
  OBVIOUS
<1>3. IsMachine(mm) /\ mm.out = <<>> /\ mm.env = <<>> /\ \A v \in Var : mm.mem[v] = Undef
  BY <1>2 DEF Machine, IsMachine
<1>4. IsMachine(m) /\ m.out = <<>> /\ m.env = <<>> /\ \A v \in Var : m.mem[v] = Undef
  BY <1>1 DEF Machine, IsMachine
<1>5. PhisOf(Entry) = {}
  BY DEF PhisOf, Simulates
<1>6. PICK H : H = {Phi(phi[1], phi[2]) : phi \in PhisOf(Entry)}
  OBVIOUS
<1>7. H = {}
  BY <1>5, <1>6
<1>8. /\ IsMachine(a) /\ a.mem = mm.mem /\ a.out = <<>>
      /\ DOMAIN a.env = DOMAIN mm.env \union H
      /\ \A x : x \notin H => Eval(a, x) = Eval(mm, x)
  BY <1>2, <1>3, <1>6, EnteringIs
<1>9. DOMAIN mm.env = {} /\ DOMAIN m.env = {} /\ DOMAIN a.env = {}
  BY <1>3, <1>4, <1>7, <1>8
<1>10. (\A x : Eval(a, x) = x) /\ (\A x : Eval(m, x) = x)
  BY <1>9 DEF Eval
<1>11. \A v \in Promotable : held[Entry][1][v] = Undef /\ v \in Var
  BY DEF Simulates, HeldFlows, Promotable
<1>12. ASSUME NEW val \in Value, PromVal(val), There(val, Entry, 1) PROVE FALSE
  <2>1. val[1] = "load" /\ val[2] \in Block /\ val[3] \in DOMAIN given[val[2]]
    BY <1>12 DEF PromVal
  <2>2. Dom(val[2], Entry) /\ (val[2] = Entry => val[3] < 1)
    BY <1>12, <2>1 DEF There
  <2>3. val[2] = Entry
    BY <2>2, DomEntry, EntryIsBlock
  <2>4. DOMAIN given[Entry] = 1..Len(given[Entry]) /\ Len(given[Entry]) \in Nat
    BY GivenCode, EntryIsBlock
  <2> QED
    BY <2>1, <2>2, <2>3, <2>4
<1>13. \A v \in Var : m.mem[v] = Undef /\ a.mem[v] = Undef
  BY <1>3, <1>4, <1>8
<1>14. \A v \in Promotable : m.mem[v] = Eval(a, held[Entry][1][v])
  BY <1>10, <1>11, <1>13
<1>15. \A v \in Var \ Promotable : m.mem[v] = a.mem[v]
  BY <1>13
<1>16. Agree(held, m, a, Entry, 1)
  BY <1>4, <1>8, <1>9, <1>10, <1>12, <1>14, <1>15 DEF Agree
<1> QED
  BY <1>1, <1>16

\* Going on to a successor.
LEMMA EnterAgrees ==
  ASSUME TypeOK, GivenIs, NEW held, NEW pre, Simulates(held, pre),
         NEW b \in Block, at \in Preds(b), NEW k, NEW a, Agree(held, k, a, at, End(at)),
         NEW m, m = [k EXCEPT !.out = <<>>], NEW c, c = Entering(a, b)
  PROVE  Agree(held, m, c, b, 1)
<1>1. PICK p \in Preds(b) : p = at
  OBVIOUS
<1>2. p \in Block
  BY DEF Preds
<1>3. PICK H : H = {Phi(phi[1], phi[2]) : phi \in PhisOf(b)}
  OBVIOUS
<1>4. IsMachine(k) /\ IsMachine(a)
  BY DEF Agree
<1>5. /\ IsMachine(m) /\ m.out = <<>> /\ m.env = k.env /\ m.mem = k.mem
  BY <1>4 DEF IsMachine
<1>6. /\ IsMachine(c) /\ c.mem = a.mem /\ c.out = <<>>
      /\ DOMAIN c.env = DOMAIN a.env \union H
      /\ \A x : x \notin H => Eval(c, x) = Eval(a, x)
      /\ \A x \in H : Eval(c, x) = Eval(a, Operand(<<x[2], x[3]>>, p))
  BY <1>1, <1>3, <1>4, EnteringIs
<1>7. ASSUME NEW x \in H
      PROVE  x[1] = "phi" /\ x[2] = b /\ \E v \in Promotable : x = Phi(b, v)
  <2>1. PICK phi \in PhisOf(b) : x = Phi(phi[1], phi[2])
    BY <1>3
  <2>2. phi[1] = b /\ phi[2] \in Promotable
    BY DEF PhisOf, Simulates
  <2> QED
    BY <2>1, <2>2 DEF Phi
<1>8. \A val : Eval(m, val) = Eval(k, val)
  BY <1>5, EvalSame
<1>9. ASSUME NEW v \in Promotable PROVE m.mem[v] = Eval(c, held[b][1][v])
  <2>1. m.mem[v] = Eval(a, held[p][End(p)][v])
    BY <1>1, <1>5 DEF Agree
  <2>2. CASE <<b, v>> \in phis
    <3>1. Phi(b, v) \in H
      <4>1. PICK phi \in phis : phi = <<b, v>>
        BY <2>2
      <4>2. phi \in PhisOf(b) /\ Phi(phi[1], phi[2]) = Phi(b, v)
        BY <4>1 DEF PhisOf
      <4> QED
        BY <1>3, <4>2
    <3>2. held[b][1][v] = Phi(b, v) /\ Operand(<<b, v>>, p) = held[p][End(p)][v]
      BY <1>2, <2>2 DEF Simulates, HeldFlows, Operand
    <3>3. Eval(c, Phi(b, v)) = Eval(a, Operand(<<b, v>>, p))
      <4>1. Phi(b, v)[2] = b /\ Phi(b, v)[3] = v
        BY DEF Phi
      <4>2. PICK x \in H : x = Phi(b, v)
        BY <3>1
      <4>3. x[2] = b /\ x[3] = v
        BY <4>1, <4>2
      <4> QED
        BY <1>6, <4>2, <4>3
    <3> QED
      BY <2>1, <3>2, <3>3
  <2>3. CASE <<b, v>> \notin phis
    <3>1. /\ held[b][1][v] = held[p][End(p)][v]
          /\ held[b][1][v][1] \in {"load", "phi"} => held[b][1][v][2] # b
      BY <1>2, <2>3 DEF Simulates, HeldFlows
    <3>2. held[b][1][v] \notin H
      BY <1>7, <3>1
    <3> QED
      BY <1>6, <2>1, <3>1, <3>2
  <2> QED
    BY <2>2, <2>3
<1>10. ASSUME NEW val \in Value, PromVal(val), There(val, b, 1)
       PROVE  Eval(m, val) = Eval(c, Meaning(held, val))
  <2>1. val[1] = "load" /\ val[2] \in Block /\ val[3] \in DOMAIN given[val[2]]
    BY <1>10 DEF PromVal
  <2>2. DOMAIN given[val[2]] = 1..Len(given[val[2]]) /\ Len(given[val[2]]) \in Nat
    BY <2>1, GivenCode
  <2>3. Dom(val[2], b) /\ (val[2] = b => val[3] < 1)
    BY <1>10, <2>1 DEF There
  <2>4. val[2] # b
    BY <2>1, <2>2, <2>3
  <2>5. Dom(val[2], p)
    BY <2>3, <2>4, DomPred
  <2>6. There(val, p, End(p))
    BY <2>1, <2>2, <2>5 DEF There, End
  <2>7. Eval(k, val) = Eval(a, Meaning(held, val))
    BY <1>1, <1>10, <2>6 DEF Agree
  <2>8. There(Meaning(held, val), val[2], val[3])
    BY <1>10, MeaningThere DEF Simulates
  <2>9. ASSUME Meaning(held, val) \in H PROVE FALSE
    <3>1. Meaning(held, val)[1] = "phi" /\ Meaning(held, val)[2] = b
      BY <1>7, <2>9
    <3>2. Dom(b, val[2])
      BY <2>8, <3>1 DEF There
    <3> QED
      BY <2>1, <2>3, <2>4, <3>2, DomAntisymmetric
  <2> QED
    BY <1>6, <1>8, <2>7, <2>9
<1>11. ASSUME NEW val \in Value, val[1] # "phi", ~PromVal(val)
       PROVE  Eval(m, val) = Eval(c, val)
  <2>1. Eval(k, val) = Eval(a, val)
    BY <1>1, <1>11 DEF Agree
  <2>2. val \notin H
    BY <1>7, <1>11
  <2> QED
    BY <1>6, <1>8, <2>1, <2>2
<1>12. Undef \notin DOMAIN c.env
  <2>1. Undef \notin H
    BY <1>7 DEF Undef
  <2>2. Undef \notin DOMAIN a.env
    BY DEF Agree
  <2> QED
    BY <1>6, <2>1, <2>2
<1>13. \A v \in Var \ Promotable : m.mem[v] = c.mem[v]
  BY <1>5, <1>6 DEF Agree
<1> QED
  BY <1>5, <1>6, <1>9, <1>10, <1>11, <1>12, <1>13 DEF Agree

-----------------------------------------------------------------------------
(* What the renaming has done                                              *)

\* b is below a child that a call has yet to visit.
Above(b) == \E k \in DOMAIN frames : \E c \in frames[k].kids : Dom(c, b)
\* The walk of the dominator tree has come to instruction j of b.
Reached(b, j) ==
  phase = "Rename" => ~Above(b) /\ (b = Frame.block => j <= Frame.at)

\* The instructions are those that were given but for the operands that were
\* promoted loads and have been replaced.
Replaced(held) ==
  \A b \in Block :
    /\ Len(code[b]) = Len(given[b])
    /\ DOMAIN code[b] = DOMAIN given[b]
    /\ \A j \in DOMAIN given[b] :
         /\ code[b][j].op = given[b][j].op /\ code[b][j].var = given[b][j].var
         /\ given[b][j].op = "load" => code[b][j].val = given[b][j].val
         /\ given[b][j].op # "load" =>
              LET val == given[b][j].val
              IN code[b][j].val = IF PromVal(val) /\ Reached(val[2], val[3] + 1)
                                  THEN Meaning(held, val) ELSE val

\* What is held is no promoted load, and no address.
HeldWell(held) ==
  \A b \in Block : \A j \in 1..End(b) : Reached(b, j) => \A v \in Promotable :
    /\ held[b][j][v] \in Value
    /\ There(held[b][j][v], b, j)
    /\ ~PromVal(held[b][j][v])
    /\ held[b][j][v][1] # "alloca"

\* It follows the stores in a block and from a block to its children in the
\* dominator tree, where it begins with the phi node if there is one.
HeldSteps(held) ==
  \A v \in Promotable :
    /\ Reached(Entry, 1) => held[Entry][1][v] = Undef
    /\ \A b \in Block : \A j \in DOMAIN given[b] :
         Reached(b, j + 1) => held[b][j + 1][v] = Effect(code[b][j], v, held[b][j][v])
    /\ \A b \in Block : Reached(b, 1) /\ <<b, v>> \in phis => held[b][1][v] = Phi(b, v)
    /\ \A d \in Block : \A b \in kids[d] :
         Reached(b, 1) /\ <<b, v>> \notin phis => held[b][1][v] = held[d][End(d)][v]

\* Phi nodes get what is held at the end of the predecessor.
HeldIncoming(held) ==
  \A phi \in phis : \A p \in DOMAIN incoming[phi] :
    /\ Reached(p, End(p) + 1)
    /\ incoming[phi][p] = held[p][End(p)][phi[2]]

\* What the renaming has done so far is as held says.
Renaming(held) ==
  /\ promoted = Promotable
  /\ phis \subseteq (Block \ {Entry}) \X Promotable
  /\ Replaced(held)
  /\ HeldWell(held)
  /\ HeldSteps(held)
  /\ HeldIncoming(held)

\* The value at height n of a stack: loads of an alloca that holds nothing yet
\* would read undef.
Nth(s, n) == IF n = 0 THEN Undef ELSE s[n]

\* The point a call has come to: once it is past the code of its block, the end.
Point(f) == IF f.at <= End(f.block) THEN f.at ELSE End(f.block)

\* hts gives for each call how high the stacks were when it was there.
Heights(hts) ==
  /\ hts \in [DOMAIN frames -> [Stack -> Nat]]
  /\ \A v \in Stack :
       /\ hts[Len(frames)][v] = Len(varStack[v])
       /\ \A k \in DOMAIN frames :
            /\ \A l \in 1..k : hts[l][v] <= hts[k][v]
            /\ k # 1 => hts[k][v] = hts[k - 1][v] + frames[k].pushed[v]

\* The stacks have on top what is held where each call has come to.
Tops(held, hts) ==
  /\ Heights(hts)
  /\ \A v \in Promotable : \A k \in DOMAIN frames :
       held[frames[k].block][Point(frames[k])][v] = Nth(varStack[v], hts[k][v])

\* A call that is in the code of its block has visited no child.
KidsLeft == Frame.at <= End(Frame.block) => Frame.kids = kids[Frame.block]

\* Each phi node that is needed is there.
AllFrontiers == \A v \in promoted : HoldsFrontiers(v, PhiBlocks(v))

\* The pass has not yet begun to rename.
Fresh ==
  /\ code = given
  /\ promoted = Promotable \ todo
  /\ \A phi \in phis : /\ phi[1] # Entry /\ phi[2] \in Promotable
                       /\ DOMAIN incoming[phi] = {}

\* The stores and loads of the promoted allocas are gone, and the other allocas
\* still have their address taken.
Cleared ==
  /\ \A b \in Block : \A i \in DOMAIN code[b] : ~Erased(code[b][i])
  /\ \A v \in Var \ Promotable : \E b \in Block : \E i \in DOMAIN code[b] :
       code[b][i].op = "use" /\ code[b][i].val = Alloca(v)

\* The first run of the pass.
FirstPass ==
  runs = 0 =>
    /\ phase = "Place" => Fresh
    /\ phase = "Rename" =>
         KidsLeft /\ \E held, hts : Renaming(held) /\ Tops(held, hts)
    /\ phase = "Erase" => AllFrontiers /\ \E held : Renaming(held)
    /\ phase = "Done" => Cleared /\ \E held, pre : Simulates(held, pre)

\* Where control has come to once the last call has gone on by one instruction.
LEMMA ReachedNext ==
  ASSUME TypeOK, Walk, phase = "Rename", phase' = "Rename",
         NEW pushed \in [Stack -> Nat], frames' = Advanced(pushed),
         succ' = succ, kids' = kids, Alike(code, code')
  PROVE  /\ \A b \in Block : \A j \in Int :
              Reached(b, j)' <=> Reached(b, j) \/ (b = Frame.block /\ j = Frame.at + 1)
         /\ Frame'.block = Frame.block /\ Frame'.at = Frame.at + 1
         /\ Frame'.kids = Frame.kids
         /\ Reached(Frame.block, Frame.at)
<1>1. /\ Len(frames) \in Nat \ {0} /\ DOMAIN frames = 1..Len(frames)
      /\ Frame = frames[Len(frames)]
  BY Frames
<1>2. /\ Len(frames') = Len(frames)
      /\ DOMAIN frames' = DOMAIN frames
      /\ \A k \in 1..Len(frames) :
           /\ frames'[k].block = frames[k].block
           /\ frames'[k].kids = frames[k].kids
      /\ frames'[Len(frames)].at = Frame.at + 1
  BY Advance
<1>3. Frame' = frames'[Len(frames)]
  BY <1>2 DEF Frame
<1>4. Frame'.block = Frame.block /\ Frame'.at = Frame.at + 1 /\ Frame'.kids = Frame.kids
  BY <1>1, <1>2, <1>3
<1>5. ASSUME NEW b PROVE Above(b)' <=> Above(b)
  BY <1>1, <1>2 DEF Above, Dom
<1>6. Frame.block \in Block /\ Frame.at \in Nat \ {0}
  BY LastCall
<1>7. ~Above(Frame.block)
  <2> SUFFICES ASSUME Above(Frame.block) PROVE FALSE
    OBVIOUS
  <2>1. Pending(Frame.block, 0)
    BY DEF Above, Pending, Dom
  <2>2. Dom(Frame.block, Frame.block)
    BY <1>6, DomSelf
  <2>3. 0 >= Frame.at
    BY <1>6, <2>1, <2>2, NotPendingAbove
  <2> QED
    BY <1>6, <2>3
<1>8. ASSUME NEW b \in Block, NEW j \in Int
      PROVE  Reached(b, j)' <=> Reached(b, j) \/ (b = Frame.block /\ j = Frame.at + 1)
  <2>1. Reached(b, j) <=> ~Above(b) /\ (b = Frame.block => j <= Frame.at)
    BY DEF Reached
  <2>2. Reached(b, j)' <=> ~Above(b)' /\ (b = Frame'.block => j <= Frame'.at)
    BY DEF Reached
  <2>3. j <= Frame.at + 1 <=> j <= Frame.at \/ j = Frame.at + 1
    BY <1>6
  <2> QED
    BY <1>4, <1>5, <1>7, <2>1, <2>2, <2>3
<1>9. Reached(Frame.block, Frame.at)
  BY <1>6, <1>7 DEF Reached
<1> QED
  BY <1>4, <1>8, <1>9

\* The code has as many instructions as the code given.
SameLength == \A b \in Block : Len(code[b]) = Len(given[b])

\* A call of replaceUses() comes to the start of its block.
LEMMA ReachedDown ==
  ASSUME TypeOK, Walk, GivenIs, SameLength, NEW Y \in Block, Descend(Y)
  PROVE  /\ phase = "Rename" /\ phase' = "Rename"
         /\ \A b \in Block : \A j \in 1..End(b) + 1 :
              Reached(b, j)' <=> Reached(b, j) \/ (b = Y /\ j = 1)
         /\ \A j : ~Reached(Y, j)
         /\ Reached(Frame.block, End(Frame.block)) /\ Frame.at > End(Frame.block)
         /\ Frame' = Call(Y) /\ Y \in kids[Frame.block]
<1>1. phase = "Rename" /\ phase' = "Rename" /\ Y \in Frame.kids
      /\ Frame.at > Len(code[Frame.block]) + 1 /\ succ' = succ
  BY DEF Descend, InTree
<1>2. PICK n \in Nat \ {0} : n = Len(frames)
  BY <1>1, Frames
<1>3. /\ DOMAIN frames = 1..n /\ Frame = frames[n]
      /\ Len(frames') = n + 1 /\ DOMAIN frames' = 1..n + 1
      /\ \A k \in 1..n : k # n => frames'[k] = frames[k]
      /\ frames'[n].kids = Frame.kids \ {Y}
      /\ frames'[n + 1] = Call(Y)
  BY <1>1, <1>2, Frames, Down
<1>4. Frame' = Call(Y)
  BY <1>3 DEF Frame
<1>5. Call(Y).block = Y /\ Call(Y).at = 1 /\ Call(Y).kids = kids[Y]
  BY Push
<1>6. Frame.block \in Block /\ Frame.at \in Nat /\ Frame.kids \subseteq kids[Frame.block]
  BY <1>1, LastCall
<1>7. Frame.at > End(Frame.block) /\ End(Frame.block) \in Nat \ {0}
  BY <1>1, <1>6, GivenCode DEF SameLength, End
<1>8. Above(Y)
  BY <1>1, <1>2, <1>3, DomSelf DEF Above
<1>9. ASSUME NEW b \in Block, Above(b)' PROVE Above(b)
  <2>1. PICK k \in DOMAIN frames' : \E c \in frames'[k].kids : Dom(c, b)
    BY <1>1, <1>9 DEF Above, Dom
  <2>2. PICK c \in frames'[k].kids : Dom(c, b)
    BY <2>1
  <2>3. CASE k = n + 1
    <3>1. c \in kids[Y] /\ Y \in Block
      BY <1>3, <1>5, <2>2, <2>3
    <3>2. Dom(Y, c) /\ c \in Block
      BY <3>1, Child
    <3>3. Dom(Y, b)
      BY <2>2, <3>2, DomTransitive
    <3> QED
      BY <1>1, <1>2, <1>3, <3>3 DEF Above
  <2>4. CASE k = n
    BY <1>2, <1>3, <2>2, <2>4 DEF Above
  <2>5. CASE k \in 1..n /\ k # n
    BY <1>3, <2>2, <2>5 DEF Above
  <2> QED
    BY <1>2, <1>3, <2>1, <2>3, <2>4, <2>5
<1>10. ASSUME NEW b \in Block, Above(b), b # Y PROVE Above(b)'
  <2> SUFFICES \E k \in DOMAIN frames' : \E c \in frames'[k].kids : Dom(c, b)
    BY <1>1 DEF Above, Dom
  <2>1. PICK k \in DOMAIN frames : \E c \in frames[k].kids : Dom(c, b)
    BY <1>10 DEF Above
  <2>2. PICK c \in frames[k].kids : Dom(c, b)
    BY <2>1
  <2>3. CASE k # n
    BY <1>2, <1>3, <2>1, <2>2, <2>3
  <2>4. CASE k = n /\ c # Y
    BY <1>2, <1>3, <2>2, <2>4
  <2>5. CASE k = n /\ c = Y
    <3>1. PICK e \in kids[Y] : Dom(e, b)
      BY <1>10, <2>2, <2>5, ChildAbove
    <3> QED
      BY <1>2, <1>3, <1>5, <3>1
  <2> QED
    BY <2>3, <2>4, <2>5
<1>11. ~Above(Y)'
  <2> SUFFICES ASSUME Above(Y)' PROVE FALSE
    OBVIOUS
  <2>1. PICK k \in DOMAIN frames' : \E c \in frames'[k].kids : Dom(c, Y)
    BY <1>1 DEF Above, Dom
  <2>2. PICK c \in frames'[k].kids : Dom(c, Y)
    BY <2>1
  <2>3. CASE k = n + 1
    <3>1. c \in kids[Y]
      BY <1>3, <1>5, <2>2, <2>3
    <3>2. Dom(Y, c) /\ c \in Block /\ c # Y
      BY <3>1, Child
    <3> QED
      BY <2>2, <3>2, DomAntisymmetric
  <2>4. CASE k = n
    <3>1. c \in kids[Frame.block] /\ Y \in kids[Frame.block] /\ c # Y
      BY <1>1, <1>3, <1>6, <2>2, <2>4
    <3> QED
      BY <1>6, <2>2, <3>1, DomSelf, OneChildAbove
  <2>5. CASE k \in 1..n /\ k # n
    <3>1. /\ k + 1 \in 1..n /\ frames'[k] = frames[k]
          /\ frames[k].kids \subseteq kids[frames[k].block]
          /\ frames[k].block \in Block /\ frames[k + 1].block \in Block
          /\ frames[k + 1].block \in kids[frames[k].block] \ frames[k].kids
      BY <1>1, <1>2, <1>3, <2>5, Frames DEF Walk
    <3>2. Dom(frames[k + 1].block, Frame.block)
      BY <1>1, <1>2, <3>1, FramesDominate
    <3>3. Dom(Frame.block, Y)
      BY <1>1, <1>6, Child
    <3>4. Dom(frames[k + 1].block, Y)
      BY <1>6, <3>1, <3>2, <3>3, DomTransitive
    <3>5. c \in kids[frames[k].block] /\ c # frames[k + 1].block
      BY <2>2, <3>1
    <3> QED
      BY <2>2, <3>1, <3>4, <3>5, OneChildAbove
  <2> QED
    BY <1>2, <1>3, <2>1, <2>3, <2>4, <2>5
<1>12. \A j : ~Reached(Y, j)
  BY <1>1, <1>8 DEF Reached
<1>13. ~Above(Frame.block)
  <2> SUFFICES ASSUME Above(Frame.block) PROVE FALSE
    OBVIOUS
  <2>1. Pending(Frame.block, 0)
    BY DEF Above, Pending, Dom
  <2>2. Dom(Frame.block, Frame.block)
    BY <1>6, DomSelf
  <2>3. 0 >= Frame.at
    BY <1>1, <1>6, <2>1, <2>2, NotPendingAbove
  <2> QED
    BY <1>6, <1>7, <2>3
<1>14. ASSUME NEW b \in Block, NEW j \in 1..End(b) + 1
       PROVE  Reached(b, j)' <=> Reached(b, j) \/ (b = Y /\ j = 1)
  <2>1. Reached(b, j) <=> ~Above(b) /\ (b = Frame.block => j <= Frame.at)
    BY <1>1 DEF Reached
  <2>2. Reached(b, j)' <=> ~Above(b)' /\ (b = Y => j <= 1)
    BY <1>1, <1>4, <1>5 DEF Reached
  <2>3. b = Frame.block => j <= Frame.at
    BY <1>6, <1>7
  <2>4. j <= 1 <=> j = 1
    BY GivenCode
  <2> QED
    BY <1>8, <1>9, <1>10, <1>11, <2>1, <2>2, <2>3, <2>4
<1>15. Reached(Frame.block, End(Frame.block))
  BY <1>6, <1>7, <1>13 DEF Reached
<1>16. Y \in kids[Frame.block]
  BY <1>1, <1>6
<1> QED
  BY <1>1, <1>4, <1>7, <1>12, <1>14, <1>15, <1>16

\* When a call returns no more is reached, and after the last return all is.
LEMMA ReachedUp ==
  ASSUME TypeOK, Walk, GivenIs, SameLength, Return
  PROVE  /\ phase = "Rename" /\ phase' \in {"Rename", "Erase"}
         /\ phase' = "Rename" <=> Len(frames) # 1
         /\ \A b \in Block : \A j \in 1..End(b) + 1 : Reached(b, j)' <=> Reached(b, j)
         /\ Len(frames) # 1 => Frame' = frames[Len(frames) - 1]
         /\ Len(frames) # 1 => Frame'.at > End(Frame'.block)
<1>1. /\ phase = "Rename" /\ Frame.kids = {} /\ succ' = succ
      /\ Frame.at > Len(code[Frame.block]) + 1
      /\ phase' = IF Len(frames) = 1 THEN "Erase" ELSE phase
  BY DEF Return, InTree
<1>2. PICK n \in Nat \ {0} : n = Len(frames)
  BY <1>1, Frames
<1>3. /\ DOMAIN frames = 1..n /\ Frame = frames[n]
      /\ Len(frames') = n - 1 /\ DOMAIN frames' = 1..n - 1
      /\ \A k \in 1..n - 1 : frames'[k] = frames[k]
  BY <1>1, <1>2, Frames, Up
<1>4. \A k \in 1..n : frames[k].block \in Block /\ frames[k].at \in Nat
  BY <1>1, <1>2, Frames
<1>5. \A k \in 1..n : frames[k].at > End(frames[k].block)
  <2> SUFFICES ASSUME NEW k \in 1..n PROVE frames[k].at > End(frames[k].block)
    OBVIOUS
  <2>1. frames[k].at > Len(code[frames[k].block]) + 1
    BY <1>1, <1>2, <1>3 DEF Walk
  <2> QED
    BY <1>4, <2>1 DEF SameLength, End
<1>6. \A b \in Block : End(b) \in Nat
  BY GivenCode
<1>7. ASSUME NEW b \in Block, NEW j \in 1..End(b) + 1, NEW k \in 1..n, b = frames[k].block
      PROVE  j <= frames[k].at
  BY <1>4, <1>5, <1>6, <1>7
<1>8. CASE n = 1
  <2>1. \A b \in Block : ~Above(b)
    BY <1>1, <1>3, <1>8 DEF Above
  <2>2. \A b \in Block : \A j \in 1..End(b) + 1 : Reached(b, j)
    BY <1>2, <1>3, <1>7, <2>1 DEF Reached
  <2>3. \A b \in Block : \A j \in 1..End(b) + 1 : Reached(b, j)'
    BY <1>1, <1>2, <1>8 DEF Reached
  <2> QED
    BY <1>1, <1>2, <1>8, <2>2, <2>3
<1>9. CASE n # 1
  <2>1. phase' = "Rename" /\ Frame' = frames[n - 1] /\ n - 1 \in 1..n
    BY <1>1, <1>2, <1>3, <1>9 DEF Frame
  <2>2. ASSUME NEW b \in Block PROVE Above(b)' <=> Above(b)
    <3>1. Above(b)' => Above(b)
      BY <1>1, <1>2, <1>3 DEF Above, Dom
    <3>2. Above(b) => \E k \in 1..n - 1 : \E c \in frames[k].kids : Dom(c, b)
      BY <1>1, <1>2, <1>3 DEF Above
    <3>3. Above(b) => Above(b)'
      BY <1>1, <1>2, <1>3, <3>2 DEF Above, Dom
    <3> QED
      BY <3>1, <3>3
  <2>3. ASSUME NEW b \in Block, NEW j \in 1..End(b) + 1
        PROVE  Reached(b, j)' <=> Reached(b, j)
    <3>1. Reached(b, j) <=> ~Above(b) /\ (b = Frame.block => j <= Frame.at)
      BY <1>1 DEF Reached
    <3>2. Reached(b, j)' <=> ~Above(b)' /\ (b = frames[n - 1].block => j <= frames[n - 1].at)
      BY <2>1 DEF Reached
    <3>3. b = Frame.block => j <= Frame.at
      BY <1>2, <1>3, <1>7
    <3>4. b = frames[n - 1].block => j <= frames[n - 1].at
      BY <1>7, <2>1
    <3> QED
      BY <2>2, <3>1, <3>2, <3>3, <3>4
  <2>4. Frame'.at > End(Frame'.block)
    BY <1>5, <2>1
  <2> QED
    BY <1>1, <1>2, <1>9, <2>1, <2>3, <2>4
<1> QED
  BY <1>8, <1>9

\* The walk begins at the start of the entry block.
LEMMA ReachedBegin ==
  ASSUME TypeOK, GivenIs, BeginRenaming
  PROVE  /\ phase' = "Rename"
         /\ Frame' = Call(Entry) /\ Len(frames') = 1 /\ DOMAIN frames' = {1}
         /\ frames'[1] = Call(Entry)
         /\ \A b \in Block : \A j \in 1..End(b) + 1 : Reached(b, j)' <=> b = Entry /\ j = 1
<1>1. frames' = <<Call(Entry)>> /\ phase' = "Rename" /\ succ' = succ
  BY DEF BeginRenaming
<1>2. /\ Len(frames') = 1 /\ DOMAIN frames' = {1} /\ frames'[1] = Call(Entry)
      /\ Frame' = Call(Entry)
  BY <1>1 DEF Frame
<1>3. Call(Entry).block = Entry /\ Call(Entry).at = 1 /\ Call(Entry).kids = kids[Entry]
  BY Push, EntryIsBlock
<1>4. ASSUME NEW b \in Block PROVE Above(b)' <=> b # Entry
  <2>1. Above(b)' <=> \E c \in kids[Entry] : Dom(c, b)
    BY <1>1, <1>2, <1>3 DEF Above, Dom
  <2>2. ASSUME b # Entry PROVE \E c \in kids[Entry] : Dom(c, b)
    BY <2>2, EntryIsBlock, DomEntry, ChildAbove
  <2>3. ASSUME NEW c \in kids[Entry], Dom(c, Entry) PROVE FALSE
    BY <2>3, EntryIsBlock, DomEntry, Child
  <2> QED
    BY <2>1, <2>2, <2>3
<1>5. ASSUME NEW b \in Block, NEW j \in 1..End(b) + 1
      PROVE  Reached(b, j)' <=> b = Entry /\ j = 1
  <2>1. Reached(b, j)' <=> ~Above(b)' /\ (b = Entry => j <= 1)
    BY <1>1, <1>2, <1>3 DEF Reached
  <2>2. j <= 1 <=> j = 1
    BY GivenCode
  <2> QED
    BY <1>4, <2>1, <2>2
<1> QED
  BY <1>1, <1>2, <1>5

\* What is reached stays reached by what is before it.
LEMMA ReachedBefore ==
  ASSUME TypeOK, Walk, NEW b \in Block, NEW i \in Int, NEW j \in Int, i <= j, Reached(b, j)
  PROVE  Reached(b, i)
<1>1. phase = "Rename" => Frame.at \in Nat
  BY LastCall
<1> QED
  BY <1>1 DEF Reached

\* What dominates the point that control has come to is reached.
LEMMA ReachedAbove ==
  ASSUME TypeOK, Walk, phase = "Rename", NEW d \in Block, Dom(d, Frame.block),
         NEW j \in Int, d = Frame.block => j <= Frame.at
  PROVE  Reached(d, j)
<1>1. Frame.at \in Nat \ {0}
  BY LastCall
<1>2. ~Above(d)
  <2> SUFFICES ASSUME Above(d) PROVE FALSE
    OBVIOUS
  <2>1. Pending(d, 0)
    BY DEF Above, Pending, Dom
  <2>2. 0 >= Frame.at
    BY <2>1, NotPendingAbove
  <2> QED
    BY <1>1, <2>2
<1> QED
  BY <1>2 DEF Reached

\* The instructions differ in their operands alone.
LEMMA ReplacedAlike ==
  ASSUME GivenIs, NEW held, Replaced(held)
  PROVE  SameLength /\ Alike(given, code) /\ Alike(code, given)
BY DEF Replaced, SameLength, Alike

\* An operand in the code is there where it is used.
LEMMA AvailableThere ==
  ASSUME TypeOK, GivenIs, NEW held, Replaced(held), NEW val \in Value,
         NEW b \in Block, NEW j, Available(succ, code, phis, val, b, j)
  PROVE  There(val, b, j)
<1>1. val[1] = "phi" => Dom(val[2], b)
  BY DEF Available, Dom
<1>2. ASSUME val[1] = "load" PROVE Dom(val[2], b) /\ (val[2] = b => val[3] < j)
  <2>1. Dom(val[2], b)
    BY <1>2 DEF Available, Dom
  <2>2. PICK i \in DOMAIN code[val[2]] :
          /\ code[val[2]][i].op = "load" /\ code[val[2]][i].val = val
          /\ val[2] = b => i < j
    BY <1>2 DEF Available
  <2>3. val[2] \in Block
    BY <2>1, DomBlock
  <2>4. i \in DOMAIN given[val[2]] /\ given[val[2]][i].op = "load"
        /\ given[val[2]][i].val = val
    BY <2>2, <2>3 DEF Replaced
  <2>5. val = Loaded(val[2], i)
    BY <2>3, <2>4, GivenCode
  <2>6. val[3] = i
    <3>1. Loaded(val[2], i)[3] = i
      BY DEF Loaded
    <3> QED
      BY <2>5, <3>1
  <2> QED
    BY <2>1, <2>2, <2>6
<1> QED
  BY <1>1, <1>2 DEF There

\* What stands for a promoted load that was reached.
LEMMA MeaningWell ==
  ASSUME TypeOK, Walk, GivenIs, NEW held, HeldWell(held), NEW val \in Value,
         PromVal(val), Reached(val[2], val[3] + 1)
  PROVE  /\ Meaning(held, val) \in Value /\ ~PromVal(Meaning(held, val))
         /\ Meaning(held, val)[1] # "alloca"
         /\ There(Meaning(held, val), val[2], val[3])
<1>1. /\ val[2] \in Block /\ val[3] \in DOMAIN given[val[2]]
      /\ LoadVar(val) \in Promotable
  BY DEF PromVal, LoadVar
<1>2. DOMAIN given[val[2]] = 1..Len(given[val[2]]) /\ Len(given[val[2]]) \in Nat
  BY <1>1, GivenCode
<1>3. val[3] \in 1..End(val[2]) /\ val[3] \in Int /\ val[3] + 1 \in Int /\ val[3] <= val[3] + 1
  BY <1>1, <1>2 DEF End
<1>4. Reached(val[2], val[3])
  BY <1>1, <1>3, ReachedBefore
<1>5. Meaning(held, val) = held[val[2]][val[3]][LoadVar(val)]
  BY DEF Meaning
<1> QED
  BY <1>1, <1>3, <1>4, <1>5 DEF HeldWell

\* The operand of the instruction that control has come to is no promoted load
\* any more.
LEMMA PlainOperand ==
  ASSUME TypeOK, Walk, GivenIs, InSSA(succ, code, phis, incoming), InCode,
         NEW held, Replaced(held), HeldWell(held), Instr.op # "load"
  PROVE  /\ Instr.val \in Value
         /\ There(Instr.val, Frame.block, Frame.at)
         /\ ~PromVal(Instr.val)
         /\ Instr.op = "store" => Instr.val[1] # "alloca"
<1>1. /\ Frame.block \in Block /\ Frame.at \in Nat
      /\ Frame.at \in DOMAIN code[Frame.block] /\ Frame.at \in DOMAIN given[Frame.block]
      /\ Instr = code[Frame.block][Frame.at] /\ Instr.val \in Value
  BY AtInstr DEF Replaced
<1>2. PICK b \in Block : b = Frame.block
  BY <1>1
<1>3. PICK j \in DOMAIN given[b] : j = Frame.at
  BY <1>1, <1>2
<1>4. Available(succ, code, phis, Instr.val, b, j)
  BY <1>1, <1>2, <1>3 DEF InSSA
<1>5. There(Instr.val, b, j)
  BY <1>1, <1>4, AvailableThere
<1>6. PICK val : val = given[b][j].val
  OBVIOUS
<1>7. /\ given[b][j].op = Instr.op /\ given[b][j].op # "load"
      /\ Instr.val = IF PromVal(val) /\ Reached(val[2], val[3] + 1)
                     THEN Meaning(held, val) ELSE val
  BY <1>1, <1>2, <1>3, <1>6 DEF Replaced
<1>8. val \in Value /\ val[1] # "phi" /\ There(val, b, j)
  BY <1>6, <1>7, OperandThere
<1>9. given[b][j].op = "store" => val[1] # "alloca"
  BY <1>6, GivenCode
<1>10. CASE PromVal(val)
  <2>1. val[1] = "load" /\ val[2] \in Block /\ val[3] \in DOMAIN given[val[2]]
    BY <1>10 DEF PromVal
  <2>2. DOMAIN given[val[2]] = 1..Len(given[val[2]])
    BY <2>1, GivenCode
  <2>3. Dom(val[2], b) /\ (val[2] = b => val[3] + 1 <= j) /\ val[3] + 1 \in Int
    BY <1>1, <1>3, <1>8, <2>1, <2>2 DEF There
  <2>4. phase = "Rename"
    BY DEF InCode
  <2>5. Reached(val[2], val[3] + 1)
    BY <1>2, <1>3, <2>1, <2>3, <2>4, ReachedAbove
  <2>6. Instr.val = Meaning(held, val)
    BY <1>7, <1>10, <2>5
  <2>7. ~PromVal(Instr.val) /\ Instr.val[1] # "alloca"
    BY <1>8, <1>10, <2>5, <2>6, MeaningWell
  <2> QED
    BY <1>1, <1>2, <1>3, <1>5, <2>7
<1>11. CASE ~PromVal(val)
  BY <1>1, <1>2, <1>3, <1>5, <1>7, <1>9, <1>11
<1> QED
  BY <1>10, <1>11

-----------------------------------------------------------------------------
(* One instruction of the walk                                             *)

\* h is held with what the instruction that control has come to does.
HeldNext(held, h) ==
  \A b \in Block : \A j \in Nat : \A v \in Promotable :
    h[b][j][v] = IF b = Frame.block /\ j = Frame.at + 1
                 THEN Effect(Instr, v, held[b][Frame.at][v]) ELSE held[b][j][v]

\* The walk goes on by an instruction; when it is a promoted load its uses are
\* replaced.
OneInstr(held) ==
  /\ InCode /\ phase' = "Rename"
  /\ succ' = succ /\ kids' = kids /\ phis' = phis /\ promoted' = promoted
  /\ given' = given
  /\ Alike(code, code')
  /\ \E pushed \in [Stack -> Nat] : frames' = Advanced(pushed)
  /\ \A b \in Block : \A i \in DOMAIN code[b] :
       code'[b][i].val =
         IF /\ code[b][i].op # "load" /\ PromotedLoad(Frame.block, Frame.at)
            /\ code[b][i].val = Instr.val
         THEN held[Frame.block][Frame.at][Instr.var] ELSE code[b][i].val
  /\ \A phi \in phis :
       /\ DOMAIN incoming'[phi] = DOMAIN incoming[phi]
       /\ \A p \in DOMAIN incoming[phi] :
            \/ incoming'[phi][p] = incoming[phi][p]
            \/ PromotedLoad(Frame.block, Frame.at) /\ incoming[phi][p] = Instr.val

\* The code given does not change.
LEMMA SameGiven ==
  ASSUME given' = given, succ' = succ
  PROVE  /\ Promotable' = Promotable
         /\ \A b : End(b)' = End(b)
         /\ \A val : /\ PromVal(val)' <=> PromVal(val)
                     /\ LoadVar(val)' = LoadVar(val)
         /\ \A held, val : Meaning(held, val)' = Meaning(held, val)
         /\ \A val, b, j : There(val, b, j)' <=> There(val, b, j)
<1>1. Promotable' = Promotable
  BY DEF Promotable
<1>2. \A b : End(b)' = End(b)
  BY DEF End
<1>3. \A val : (PromVal(val)' <=> PromVal(val)) /\ LoadVar(val)' = LoadVar(val)
  BY <1>1 DEF PromVal, LoadVar
<1>4. \A held, val : Meaning(held, val)' = Meaning(held, val)
  BY <1>3 DEF Meaning
<1>5. \A val, b, j : There(val, b, j)' <=> There(val, b, j)
  BY DEF There, Dom
<1> QED
  BY <1>1, <1>2, <1>3, <1>4, <1>5

\* Where the walk is, and what is reached after the instruction.
LEMMA OneReaches ==
  ASSUME TypeOK, Walk, GivenIs, NEW held, Renaming(held), OneInstr(held)
  PROVE  /\ Frame.block \in Block /\ Frame.at \in Nat \ {0}
         /\ Frame.at \in DOMAIN given[Frame.block]
         /\ Frame.at + 1 \in 1..End(Frame.block) /\ Frame.at \in 1..End(Frame.block)
         /\ Instr = code[Frame.block][Frame.at]
         /\ \A b \in Block : \A j \in Int :
              Reached(b, j)' <=> Reached(b, j) \/ (b = Frame.block /\ j = Frame.at + 1)
         /\ Reached(Frame.block, Frame.at)
         /\ \A j \in Int : j > Frame.at => ~Reached(Frame.block, j)
         /\ PromotedLoad(Frame.block, Frame.at) =>
              /\ Instr.val = Loaded(Frame.block, Frame.at)
              /\ PromVal(Instr.val) /\ LoadVar(Instr.val) = Instr.var
              /\ Instr.var \in Promotable
<1>1. PICK pushed \in [Stack -> Nat] : frames' = Advanced(pushed)
  BY DEF OneInstr
<1>2. phase = "Rename" /\ InCode
  BY DEF OneInstr, InCode
<1>3. /\ Frame.block \in Block /\ Frame.at \in Nat /\ Frame.at \in DOMAIN code[Frame.block]
      /\ Instr = code[Frame.block][Frame.at]
  BY <1>2, AtInstr
<1>4. Frame.at \in DOMAIN given[Frame.block]
  BY <1>3 DEF Renaming, Replaced
<1>5. DOMAIN given[Frame.block] = 1..Len(given[Frame.block]) /\ Len(given[Frame.block]) \in Nat
  BY <1>3, GivenCode
<1>6. /\ Frame.at \in Nat \ {0} /\ Frame.at + 1 \in 1..End(Frame.block)
      /\ Frame.at \in 1..End(Frame.block)
  BY <1>3, <1>4, <1>5 DEF End
<1>7. /\ \A b \in Block : \A j \in Int :
           Reached(b, j)' <=> Reached(b, j) \/ (b = Frame.block /\ j = Frame.at + 1)
      /\ Reached(Frame.block, Frame.at)
  BY <1>1, <1>2, ReachedNext DEF OneInstr
<1>8. \A j \in Int : j > Frame.at => ~Reached(Frame.block, j)
  BY <1>2, <1>3 DEF Reached
<1>9. ASSUME PromotedLoad(Frame.block, Frame.at)
      PROVE  /\ Instr.val = Loaded(Frame.block, Frame.at)
             /\ PromVal(Instr.val) /\ LoadVar(Instr.val) = Instr.var
             /\ Instr.var \in Promotable
  <2>1. PICK b \in Block : b = Frame.block
    BY <1>3
  <2>2. PICK j \in DOMAIN given[b] : j = Frame.at
    BY <1>4, <2>1
  <2>3. /\ given[b][j].op = "load" /\ given[b][j].var = Instr.var
        /\ given[b][j].val = Instr.val /\ Instr.var \in Promotable
    BY <1>3, <1>9, <2>1, <2>2 DEF PromotedLoad, Renaming, Replaced
  <2>4. /\ given[b][j].val = Loaded(b, j)
        /\ PromVal(Loaded(b, j)) <=> given[b][j].var \in Promotable
        /\ LoadVar(Loaded(b, j)) = given[b][j].var
    BY <2>3, LoadIs
  <2> QED
    BY <2>1, <2>2, <2>3, <2>4
<1> QED
  BY <1>3, <1>4, <1>6, <1>7, <1>8, <1>9

\* A promoted load that was reached before keeps its meaning.
LEMMA OneMeaning ==
  ASSUME TypeOK, Walk, GivenIs, NEW held, Renaming(held), OneInstr(held),
         NEW h, HeldNext(held, h), NEW val \in Value, PromVal(val),
         \/ Reached(val[2], val[3] + 1)
         \/ val[2] = Frame.block /\ val[3] = Frame.at
  PROVE  Meaning(h, val) = Meaning(held, val)
<1>1. val[2] \in Block /\ val[3] \in DOMAIN given[val[2]] /\ LoadVar(val) \in Promotable
  BY DEF PromVal, LoadVar
<1>2. val[3] \in Nat
  BY <1>1, GivenCode
<1>3. Frame.at \in Nat /\ \A j \in Int : j > Frame.at => ~Reached(Frame.block, j)
  BY OneReaches
<1>4. ~(val[2] = Frame.block /\ val[3] = Frame.at + 1)
  BY <1>2, <1>3
<1>5. h[val[2]][val[3]][LoadVar(val)] = held[val[2]][val[3]][LoadVar(val)]
  BY <1>1, <1>2, <1>4 DEF HeldNext
<1> QED
  BY <1>5 DEF Meaning

\* The uses of the load that was passed are replaced too.
LEMMA OneReplaced ==
  ASSUME TypeOK, Walk, GivenIs, NEW held, Renaming(held), OneInstr(held),
         NEW h, HeldNext(held, h)
  PROVE  Replaced(h)'
<1>1. given' = given /\ succ' = succ /\ promoted' = promoted
  BY DEF OneInstr
<1>2. \A b \in Block :
        /\ Len(code'[b]) = Len(given[b]) /\ DOMAIN code'[b] = DOMAIN given[b]
        /\ DOMAIN code[b] = DOMAIN given[b]
        /\ \A j \in DOMAIN given[b] :
             /\ code'[b][j].op = given[b][j].op /\ code'[b][j].var = given[b][j].var
             /\ given[b][j].op = "load" => code'[b][j].val = given[b][j].val
             /\ code[b][j].op = given[b][j].op
  BY DEF OneInstr, Renaming, Replaced, Alike
<1>3. ASSUME NEW b \in Block, NEW j \in DOMAIN given[b], given[b][j].op # "load",
             NEW val, val = given[b][j].val
      PROVE  code'[b][j].val = IF PromVal(val) /\ Reached(val[2], val[3] + 1)'
                               THEN Meaning(h, val) ELSE val
  <2>1. code[b][j].val = IF PromVal(val) /\ Reached(val[2], val[3] + 1)
                         THEN Meaning(held, val) ELSE val
    BY <1>3 DEF Renaming, Replaced
  <2>2. val \in Value
    BY <1>3, OperandThere
  <2>3. code'[b][j].val =
          IF PromotedLoad(Frame.block, Frame.at) /\ code[b][j].val = Instr.val
          THEN held[Frame.block][Frame.at][Instr.var] ELSE code[b][j].val
    BY <1>2, <1>3 DEF OneInstr
  <2>4. PromotedLoad(Frame.block, Frame.at) =>
          /\ Instr.val = Loaded(Frame.block, Frame.at)
          /\ PromVal(Instr.val) /\ LoadVar(Instr.val) = Instr.var
    BY OneReaches
  <2>5. ASSUME PromVal(val)
        PROVE  /\ val[2] \in Block /\ val[3] \in DOMAIN given[val[2]]
               /\ val[3] \in Nat /\ val = Loaded(val[2], val[3])
               /\ Reached(val[2], val[3] + 1)' <=>
                    \/ Reached(val[2], val[3] + 1)
                    \/ val[2] = Frame.block /\ val[3] = Frame.at
    <3>1. val[1] = "load" /\ val[2] \in Block /\ val[3] \in DOMAIN given[val[2]]
      BY <2>5 DEF PromVal
    <3>2. val[3] \in Nat /\ val = Loaded(val[2], val[3])
      BY <2>2, <3>1, GivenCode, ValueIs
    <3>3. Reached(val[2], val[3] + 1)' <=>
            \/ Reached(val[2], val[3] + 1)
            \/ val[2] = Frame.block /\ val[3] + 1 = Frame.at + 1
      BY <3>1, <3>2, OneReaches
    <3>4. Frame.at \in Nat
      BY OneReaches
    <3>5. val[3] + 1 = Frame.at + 1 <=> val[3] = Frame.at
      BY <3>2, <3>4
    <3> QED
      BY <3>1, <3>2, <3>3, <3>5
  <2>6. CASE PromVal(val) /\ Reached(val[2], val[3] + 1)
    <3>1. ~PromVal(Meaning(held, val))
      BY <2>2, <2>6, MeaningWell DEF Renaming
    <3>2. code'[b][j].val = Meaning(held, val)
      BY <2>1, <2>3, <2>4, <2>6, <3>1
    <3>3. Meaning(h, val) = Meaning(held, val)
      BY <2>2, <2>6, OneMeaning
    <3>4. Reached(val[2], val[3] + 1)'
      BY <2>5, <2>6
    <3> QED
      BY <2>6, <3>2, <3>3, <3>4
  <2>7. CASE PromVal(val) /\ ~Reached(val[2], val[3] + 1) /\ val[2] = Frame.block
             /\ val[3] = Frame.at
    <3>1. code[Frame.block][Frame.at].op = "load" /\ code[Frame.block][Frame.at].var \in promoted
      <4>1. PICK d \in Block : d = Frame.block /\ d = val[2]
        BY <2>5, <2>7
      <4>2. PICK e \in DOMAIN given[d] : e = Frame.at /\ e = val[3]
        BY <2>5, <2>7, <4>1
      <4>3. given[d][e].op = "load" /\ given[d][e].var \in Promotable
        BY <2>7, <4>1, <4>2 DEF PromVal
      <4>4. code[d][e].op = given[d][e].op /\ code[d][e].var = given[d][e].var
        BY DEF Renaming, Replaced
      <4>5. promoted = Promotable
        BY DEF Renaming
      <4> QED
        BY <4>1, <4>2, <4>3, <4>4, <4>5
    <3>2. PromotedLoad(Frame.block, Frame.at)
      BY <3>1 DEF PromotedLoad
    <3>3. code[b][j].val = Instr.val /\ val = Instr.val
      BY <2>1, <2>4, <2>5, <2>7, <3>2
    <3>4. code'[b][j].val = held[Frame.block][Frame.at][Instr.var]
      BY <2>3, <3>2, <3>3
    <3>5. Meaning(held, val) = held[Frame.block][Frame.at][Instr.var]
      BY <2>4, <2>7, <3>2, <3>3 DEF Meaning
    <3>6. Meaning(h, val) = Meaning(held, val)
      BY <2>2, <2>7, OneMeaning
    <3> QED
      BY <2>5, <2>7, <3>4, <3>5, <3>6
  <2>8. CASE PromVal(val) /\ ~Reached(val[2], val[3] + 1)
             /\ ~(val[2] = Frame.block /\ val[3] = Frame.at)
    <3>1. code[b][j].val = val /\ ~Reached(val[2], val[3] + 1)'
      BY <2>1, <2>5, <2>8
    <3>2. Loaded(Frame.block, Frame.at)[2] = Frame.block /\ Loaded(Frame.block, Frame.at)[3] = Frame.at
      BY DEF Loaded
    <3>3. code'[b][j].val = val
      BY <2>3, <2>4, <2>8, <3>1, <3>2
    <3> QED
      BY <3>1, <3>3
  <2>9. CASE ~PromVal(val)
    BY <2>1, <2>3, <2>4, <2>9
  <2> QED
    BY <2>6, <2>7, <2>8, <2>9
<1>4. \A val : (PromVal(val)' <=> PromVal(val)) /\ Meaning(h, val)' = Meaning(h, val)
  BY <1>1, SameGiven
<1>5. ASSUME NEW b \in Block
      PROVE  (/\ Len(code[b]) = Len(given[b])
              /\ DOMAIN code[b] = DOMAIN given[b]
              /\ \A j \in DOMAIN given[b] :
                   /\ code[b][j].op = given[b][j].op /\ code[b][j].var = given[b][j].var
                   /\ given[b][j].op = "load" => code[b][j].val = given[b][j].val
                   /\ given[b][j].op # "load" =>
                        LET val == given[b][j].val
                        IN code[b][j].val = IF PromVal(val) /\ Reached(val[2], val[3] + 1)
                                            THEN Meaning(h, val) ELSE val)'
  BY <1>1, <1>2, <1>3, <1>4
<1> QED
  BY <1>5 DEF Replaced

\* What is held after the instruction is defined there, and no promoted load.
LEMMA OneWell ==
  ASSUME TypeOK, Walk, GivenIs, InSSA(succ, code, phis, incoming),
         NEW held, Renaming(held), OneInstr(held), NEW h, HeldNext(held, h)
  PROVE  HeldWell(h)'
<1>1. given' = given /\ succ' = succ /\ InCode
  BY DEF OneInstr
<1>2. /\ Promotable' = Promotable /\ \A b : End(b)' = End(b)
      /\ \A val : PromVal(val)' <=> PromVal(val)
      /\ \A val, b, j : There(val, b, j)' <=> There(val, b, j)
  BY <1>1, SameGiven
<1>3. ASSUME NEW b \in Block, NEW j \in 1..End(b), Reached(b, j)', NEW v \in Promotable
      PROVE  /\ h[b][j][v] \in Value /\ There(h[b][j][v], b, j)
             /\ ~PromVal(h[b][j][v]) /\ h[b][j][v][1] # "alloca"
  <2>1. j \in Nat /\ End(b) \in Nat
    BY GivenCode
  <2>2. CASE ~(b = Frame.block /\ j = Frame.at + 1)
    <3>1. Reached(b, j)
      BY <1>3, <2>1, <2>2, OneReaches
    <3>2. h[b][j][v] = held[b][j][v]
      BY <2>1, <2>2 DEF HeldNext
    <3> QED
      BY <3>1, <3>2 DEF Renaming, HeldWell
  <2>3. CASE b = Frame.block /\ j = Frame.at + 1
    <3>1. Frame.at \in 1..End(b) /\ Reached(b, Frame.at) /\ Frame.at \in Nat
      BY <2>3, OneReaches
    <3>2. PICK w : w = held[b][Frame.at][v]
      OBVIOUS
    <3>3. w \in Value /\ There(w, b, Frame.at) /\ ~PromVal(w) /\ w[1] # "alloca"
      BY <3>1, <3>2 DEF Renaming, HeldWell
    <3>4. \A x \in Value : There(x, b, Frame.at) => There(x, b, j)
      <4> SUFFICES ASSUME NEW x \in Value, There(x, b, Frame.at) PROVE There(x, b, j)
        OBVIOUS
      <4>1. x[3] \in Nat
        BY ValueIs
      <4> QED
        BY <2>3, <3>1, <4>1 DEF There
    <3>5. h[b][j][v] = Effect(Instr, v, w)
      BY <2>1, <2>3, <3>2 DEF HeldNext
    <3>6. CASE h[b][j][v] = w
      BY <3>3, <3>4, <3>6
    <3>7. CASE h[b][j][v] = Undef
      <4>1. Undef \in Value /\ Undef[1] = "undef"
        BY DEF Undef, Value
      <4> QED
        BY <3>7, <4>1 DEF There, PromVal
    <3>8. CASE h[b][j][v] # w /\ h[b][j][v] # Undef
      <4>1. Instr.op = "store" /\ h[b][j][v] = Instr.val
        BY <3>5, <3>8 DEF Effect
      <4>2. /\ Instr.val \in Value /\ There(Instr.val, b, Frame.at)
            /\ ~PromVal(Instr.val) /\ Instr.val[1] # "alloca"
        BY <1>1, <2>3, <4>1, PlainOperand DEF Renaming
      <4> QED
        BY <3>4, <4>1, <4>2
    <3> QED
      BY <3>6, <3>7, <3>8
  <2> QED
    BY <2>2, <2>3
<1> QED
  BY <1>2, <1>3 DEF HeldWell

\* What is held is not the promoted load that control has come to.
LEMMA HeldPlain ==
  ASSUME TypeOK, Walk, GivenIs, NEW held, Renaming(held), OneInstr(held),
         NEW b \in Block, NEW j \in 1..End(b), Reached(b, j), NEW v \in Promotable,
         PromotedLoad(Frame.block, Frame.at)
  PROVE  held[b][j][v] # Instr.val
<1>1. PromVal(Instr.val)
  BY OneReaches
<1>2. ~PromVal(held[b][j][v])
  BY DEF Renaming, HeldWell
<1> QED
  BY <1>1, <1>2

\* It follows from what was held before it.
LEMMA OneSteps ==
  ASSUME TypeOK, Walk, GivenIs, KidsLeft, NEW held, Renaming(held), OneInstr(held),
         NEW h, HeldNext(held, h)
  PROVE  HeldSteps(h)'
<1>1. /\ given' = given /\ succ' = succ /\ kids' = kids /\ phis' = phis
      /\ Alike(code, code') /\ phase = "Rename"
  BY DEF OneInstr, InCode
<1>2. Promotable' = Promotable /\ \A b : End(b)' = End(b)
  BY <1>1, SameGiven
<1>3. /\ Frame.block \in Block /\ Frame.at \in Nat \ {0}
      /\ \A b \in Block : \A j \in Int :
           Reached(b, j)' <=> Reached(b, j) \/ (b = Frame.block /\ j = Frame.at + 1)
      /\ \A j \in Int : j > Frame.at => ~Reached(Frame.block, j)
      /\ Instr = code[Frame.block][Frame.at]
  BY OneReaches
<1>4. \A b \in Block : Reached(b, 1)' <=> Reached(b, 1)
  BY <1>3
<1>5. \A b \in Block : \A v \in Promotable : h[b][1][v] = held[b][1][v]
  BY <1>3 DEF HeldNext
<1>6. ASSUME NEW v \in Promotable, Reached(Entry, 1)' PROVE h[Entry][1][v] = Undef
  BY <1>4, <1>5, <1>6, EntryIsBlock DEF Renaming, HeldSteps
<1>7. ASSUME NEW v \in Promotable, NEW b \in Block, NEW j \in DOMAIN given[b],
             Reached(b, j + 1)'
      PROVE  h[b][j + 1][v] = Effect(code'[b][j], v, h[b][j][v])
  <2>1. j \in Nat /\ j \in DOMAIN code[b] /\ j + 1 \in 1..End(b)
    <3>1. j \in Nat \ {0} /\ DOMAIN given[b] = 1..Len(given[b]) /\ Len(given[b]) \in Nat
      BY GivenCode
    <3> QED
      BY <3>1 DEF Renaming, Replaced, End
  <2>2. code'[b][j].op = code[b][j].op /\ code'[b][j].var = code[b][j].var
    BY <1>1, <2>1 DEF Alike
  <2>3. \/ code'[b][j].val = code[b][j].val
        \/ /\ code[b][j].op # "load" /\ PromotedLoad(Frame.block, Frame.at)
           /\ code[b][j].val = Instr.val
    <3>1. code'[b][j].val =
            IF /\ code[b][j].op # "load" /\ PromotedLoad(Frame.block, Frame.at)
               /\ code[b][j].val = Instr.val
            THEN held[Frame.block][Frame.at][Instr.var] ELSE code[b][j].val
      BY <2>1 DEF OneInstr
    <3> QED
      BY <3>1
  <2>4. CASE b = Frame.block /\ j = Frame.at
    <3>1. h[b][j + 1][v] = Effect(Instr, v, held[b][Frame.at][v])
      BY <2>1, <2>4 DEF HeldNext
    <3>2. h[b][j][v] = held[b][j][v]
      BY <1>3, <2>1, <2>4 DEF HeldNext
    <3>3. code'[b][j].val = code[b][j].val
      BY <2>3, <2>4 DEF PromotedLoad
    <3>4. Effect(code'[b][j], v, held[b][j][v]) = Effect(code[b][j], v, held[b][j][v])
      BY <2>2, <3>3 DEF Effect
    <3> QED
      BY <1>3, <2>4, <3>1, <3>2, <3>4
  <2>5. CASE ~(b = Frame.block /\ j = Frame.at)
    <3>1. Reached(b, j + 1)
      <4>1. Frame.at \in Nat
        BY <1>3
      <4>2. j + 1 = Frame.at + 1 => j = Frame.at
        BY <2>1, <4>1
      <4>3. j + 1 \in Int
        BY <2>1
      <4> QED
        BY <1>3, <1>7, <2>5, <4>2, <4>3
    <3>2. b = Frame.block => j + 1 <= Frame.at
      BY <1>1, <3>1 DEF Reached
    <3>3. h[b][j + 1][v] = held[b][j + 1][v]
      BY <1>3, <2>1, <2>5 DEF HeldNext
    <3>4. h[b][j][v] = held[b][j][v]
      <4>1. ~(b = Frame.block /\ j = Frame.at + 1)
        BY <1>3, <2>1, <3>2
      <4> QED
        BY <2>1, <4>1 DEF HeldNext
    <3>5. held[b][j + 1][v] = Effect(code[b][j], v, held[b][j][v])
      BY <3>1 DEF Renaming, HeldSteps
    <3>6. CASE code[b][j].op = "store" /\ code[b][j].var = v
      <4>1. held[b][j + 1][v] = code[b][j].val
        BY <3>5, <3>6 DEF Effect
      <4>2. PromotedLoad(Frame.block, Frame.at) => code[b][j].val # Instr.val
        BY <2>1, <3>1, <4>1, HeldPlain
      <4>3. code'[b][j].val = code[b][j].val
        BY <2>3, <4>2
      <4> QED
        BY <2>2, <3>3, <3>6, <4>1, <4>3 DEF Effect
    <3>7. CASE ~(code[b][j].op = "store" /\ code[b][j].var = v)
      <4>1. Effect(code'[b][j], v, held[b][j][v]) = Effect(code[b][j], v, held[b][j][v])
        BY <2>2, <3>7 DEF Effect
      <4> QED
        BY <3>3, <3>4, <3>5, <4>1
    <3> QED
      BY <3>6, <3>7
  <2> QED
    BY <2>4, <2>5
<1>8. ASSUME NEW v \in Promotable, NEW b \in Block, Reached(b, 1)', <<b, v>> \in phis
      PROVE  h[b][1][v] = Phi(b, v)
  BY <1>4, <1>5, <1>8 DEF Renaming, HeldSteps
<1>9. ASSUME NEW v \in Promotable, NEW d \in Block, NEW b \in kids[d],
             Reached(b, 1)', <<b, v>> \notin phis
      PROVE  h[b][1][v] = held[d][End(d)][v] /\ h[d][End(d)][v] = held[d][End(d)][v]
  <2>1. b \in Block
    BY Child
  <2>2. Reached(b, 1)
    BY <1>4, <1>9, <2>1
  <2>3. h[b][1][v] = held[d][End(d)][v]
    BY <1>5, <1>9, <2>1, <2>2 DEF Renaming, HeldSteps
  <2>4. ~(d = Frame.block /\ End(d) = Frame.at + 1)
    <3> SUFFICES ASSUME d = Frame.block, End(d) = Frame.at + 1 PROVE FALSE
      OBVIOUS
    <3>1. Frame.kids = kids[d]
      BY <1>3 DEF KidsLeft
    <3>2. Len(frames) \in DOMAIN frames /\ Frame = frames[Len(frames)]
      BY <1>1, Frames
    <3>3. Above(b)
      BY <2>1, <3>1, <3>2, DomSelf DEF Above
    <3> QED
      BY <1>1, <2>2, <3>3 DEF Reached
  <2>5. End(d) \in Nat
    BY GivenCode
  <2>6. h[d][End(d)][v] = held[d][End(d)][v]
    BY <2>4, <2>5 DEF HeldNext
  <2> QED
    BY <2>3, <2>6
<1>10. \A v \in Promotable :
         /\ Reached(Entry, 1)' => h[Entry][1][v] = Undef
         /\ \A b \in Block : \A j \in DOMAIN given[b] :
              Reached(b, j + 1)' => h[b][j + 1][v] = Effect(code'[b][j], v, h[b][j][v])
         /\ \A b \in Block : Reached(b, 1)' /\ <<b, v>> \in phis => h[b][1][v] = Phi(b, v)
         /\ \A d \in Block : \A b \in kids[d] :
              Reached(b, 1)' /\ <<b, v>> \notin phis => h[b][1][v] = h[d][End(d)][v]
  BY <1>6, <1>7, <1>8, <1>9
<1> QED
  BY <1>1, <1>2, <1>10 DEF HeldSteps

\* The operands of the phi nodes stay what is held at the ends of blocks.
LEMMA OneIncoming ==
  ASSUME TypeOK, Walk, GivenIs, NEW held, Renaming(held), OneInstr(held),
         NEW h, HeldNext(held, h)
  PROVE  HeldIncoming(h)'
<1>1. given' = given /\ succ' = succ /\ phis' = phis
  BY DEF OneInstr
<1>2. \A b : End(b)' = End(b)
  BY <1>1, SameGiven
<1>3. ASSUME NEW phi \in phis, NEW p \in DOMAIN incoming'[phi]
      PROVE  Reached(p, End(p) + 1)' /\ incoming'[phi][p] = h[p][End(p)][phi[2]]
  <2>1. p \in DOMAIN incoming[phi] /\ p \in Block
    <3>1. p \in DOMAIN incoming[phi]
      BY DEF OneInstr
    <3>2. DOMAIN incoming[phi] \subseteq Block
      BY DEF TypeOK, Preds
    <3> QED
      BY <3>1, <3>2
  <2>2. End(p) \in Nat \ {0} /\ End(p) + 1 \in Int /\ End(p) \in 1..End(p)
        /\ End(p) \in Int /\ End(p) <= End(p) + 1
    BY <2>1, GivenCode
  <2>3. Reached(p, End(p) + 1) /\ incoming[phi][p] = held[p][End(p)][phi[2]]
    BY <2>1 DEF Renaming, HeldIncoming
  <2>4. Reached(p, End(p))
    BY <2>1, <2>2, <2>3, ReachedBefore
  <2>5. Reached(p, End(p) + 1)'
    <3>1. PICK n \in Int : n = End(p) + 1
      BY <2>2
    <3>2. Reached(p, n)'
      BY <2>1, <2>3, <3>1, OneReaches
    <3>3. End(p)' = End(p)
      BY <1>2
    <3> QED
      BY <3>1, <3>2, <3>3, Zenon
  <2>6. phi[2] \in Promotable
    BY DEF Renaming
  <2>7. incoming'[phi][p] = incoming[phi][p]
    <3>1. PromotedLoad(Frame.block, Frame.at) => incoming[phi][p] # Instr.val
      BY <2>1, <2>2, <2>3, <2>4, <2>6, HeldPlain
    <3> QED
      BY <2>1, <3>1 DEF OneInstr
  <2>8. h[p][End(p)][phi[2]] = held[p][End(p)][phi[2]]
    <3>1. ~(p = Frame.block /\ End(p) = Frame.at + 1)
      <4>1. Frame.at \in Nat /\ \A j \in Int : j > Frame.at => ~Reached(Frame.block, j)
        BY OneReaches
      <4> QED
        BY <2>2, <2>3, <4>1
    <3> QED
      BY <2>1, <2>2, <2>6, <3>1 DEF HeldNext
  <2> QED
    BY <2>3, <2>5, <2>7, <2>8
<1> QED
  BY <1>1, <1>2, <1>3 DEF HeldIncoming

\* An instruction keeps what has been said of the renaming.
LEMMA OneRenames ==
  ASSUME TypeOK, Walk, GivenIs, KidsLeft, InSSA(succ, code, phis, incoming),
         NEW held, Renaming(held), OneInstr(held), NEW h, HeldNext(held, h)
  PROVE  Renaming(h)'
<1>1. Replaced(h)'
  BY OneReplaced
<1>2. HeldWell(h)'
  BY OneWell
<1>3. HeldSteps(h)'
  BY OneSteps
<1>4. HeldIncoming(h)'
  BY OneIncoming
<1>5. given' = given /\ succ' = succ /\ promoted' = promoted /\ phis' = phis
  BY DEF OneInstr
<1>6. Promotable' = Promotable
  BY <1>5, SameGiven
<1>7. promoted' = Promotable' /\ phis' \subseteq (Block \ {Entry}) \X Promotable'
  BY <1>5, <1>6 DEF Renaming
<1> QED
  BY <1>1, <1>2, <1>3, <1>4, <1>7 DEF Renaming

\* There is such an h.
LEMMA HeldNextExists ==
  ASSUME NEW held
  PROVE  \E h : HeldNext(held, h)
<1> DEFINE h == [b \in Block |-> [j \in Nat |-> [v \in Promotable |->
                   IF b = Frame.block /\ j = Frame.at + 1
                   THEN Effect(Instr, v, held[b][Frame.at][v]) ELSE held[b][j][v]]]]
<1>1. HeldNext(held, h)
  BY DEF HeldNext
<1> QED
  BY <1>1

\* The blocks of the calls are different ones.
LEMMA OtherBlocks ==
  ASSUME TypeOK, Walk, phase = "Rename", NEW k \in 1..Len(frames), k # Len(frames)
  PROVE  frames[k].block # Frame.block
<1>1. PICK n \in Nat \ {0} : n = Len(frames)
  BY Frames
<1>2. DOMAIN frames = 1..n /\ k \in 1..n /\ k + 1 \in 1..n /\ k # n
  BY <1>1, Frames
<1>3. frames[k].block \in Block /\ frames[k + 1].block \in Block
  BY <1>1, <1>2, Frames
<1>4. frames[k + 1].block \in kids[frames[k].block]
  BY <1>1, <1>2 DEF Walk
<1>5. Dom(frames[k + 1].block, Frame.block)
  BY <1>1, <1>2, FramesDominate
<1>6. Dom(frames[k].block, frames[k + 1].block) /\ frames[k + 1].block # frames[k].block
  BY <1>3, <1>4, Child
<1> QED
  BY <1>3, <1>5, <1>6, DomAntisymmetric

\* What the instruction does to the stacks.
OnePush(pushed) ==
  /\ pushed \in [Stack -> Nat]
  /\ frames' = Advanced(pushed)
  /\ varStack' \in [Stack -> Seq(Value)]
  /\ \A v \in Stack :
       /\ Len(varStack'[v]) >= Len(varStack[v])
       /\ \A j \in 1..Len(varStack[v]) : varStack'[v][j] = varStack[v][j]
       /\ Len(frames) # 1 =>
            Len(varStack'[v]) + Frame.pushed[v] = Len(varStack[v]) + pushed[v]
  /\ \A v \in Promotable :
       Nth(varStack'[v], Len(varStack'[v]))
         = Effect(Instr, v, Nth(varStack[v], Len(varStack[v])))

\* The tops of the stacks are again what is held.
LEMMA OneTops ==
  ASSUME TypeOK, Walk, GivenIs, NEW held, Renaming(held), OneInstr(held),
         NEW h, HeldNext(held, h), NEW hts, Tops(held, hts),
         NEW pushed, OnePush(pushed)
  PROVE  \E t : Tops(h, t)'
<1>1. /\ given' = given /\ succ' = succ /\ phase = "Rename" /\ phase' = "Rename"
      /\ kids' = kids /\ Alike(code, code')
  BY DEF OneInstr, InCode
<1>2. Promotable' = Promotable /\ \A b : End(b)' = End(b)
  BY <1>1, SameGiven
<1>3. PICK n \in Nat \ {0} : n = Len(frames)
  BY <1>1, Frames
<1>4. DOMAIN frames = 1..n /\ frames[n] = Frame
  BY <1>1, <1>3, Frames
<1>5. /\ Len(frames') = n /\ DOMAIN frames' = 1..n
      /\ frames'[n].block = Frame.block /\ frames'[n].at = Frame.at + 1
      /\ frames'[n].pushed = pushed
      /\ \A k \in 1..n : k # n => frames'[k] = frames[k]
  BY <1>1, <1>3, <1>4, Advance DEF OnePush
<1>6. \A v \in Stack : /\ Len(varStack[v]) \in Nat /\ Len(varStack'[v]) \in Nat
                       /\ Len(varStack'[v]) >= Len(varStack[v])
  BY LenProperties DEF TypeOK, OnePush
<1>7. hts \in [1..n -> [Stack -> Nat]] /\ \A v \in Stack : hts[n][v] = Len(varStack[v])
  BY <1>3, <1>4 DEF Tops, Heights
<1>71. \A v \in Stack : \A k \in 1..n : hts[k][v] \in Nat
  BY <1>7
<1>72. \A v \in Stack : \A k \in 1..n : \A l \in 1..k : hts[l][v] <= hts[k][v]
  BY <1>3, <1>4 DEF Tops, Heights
<1>73. \A v \in Stack : \A k \in 1..n :
         k # 1 => hts[k][v] = hts[k - 1][v] + frames[k].pushed[v]
  BY <1>3, <1>4 DEF Tops, Heights
<1>74. \A v \in Promotable : \A k \in 1..n :
         held[frames[k].block][Point(frames[k])][v] = Nth(varStack[v], hts[k][v])
  BY <1>3, <1>4 DEF Tops
<1> DEFINE new == [v \in Stack |-> Len(varStack'[v])]
<1>8. new \in [Stack -> Nat] /\ \A v \in Stack : new[v] = Len(varStack'[v])
  BY <1>6
<1> HIDE DEF new
<1>9. PICK t \in [1..n -> [Stack -> Nat]] :
        t[n] = new /\ \A k \in 1..n : k # n => t[k] = hts[k]
  <2> DEFINE u == [k \in 1..n |-> IF k = n THEN new ELSE hts[k]]
  <2>1. /\ u \in [1..n -> [Stack -> Nat]] /\ u[n] = new
        /\ \A k \in 1..n : k # n => u[k] = hts[k]
    BY <1>7, <1>8
  <2> QED
    BY <2>1
<1>10. \A v \in Stack : t[n][v] = Len(varStack'[v])
  BY <1>8, <1>9
<1>11. ASSUME NEW v \in Stack, NEW k \in 1..n, NEW l \in 1..k PROVE t[l][v] <= t[k][v]
  <2>1. CASE k # n
    <3>1. l \in 1..n /\ l # n
      BY <2>1
    <3> QED
      BY <1>72, <1>9, <2>1, <3>1
  <2>2. CASE k = n /\ l = n
    BY <1>8, <1>9, <1>6, <2>2
  <2>3. CASE k = n /\ l # n
    <3>1. l \in 1..n /\ hts[l][v] <= hts[n][v] /\ t[l] = hts[l] /\ hts[l][v] \in Nat
      BY <1>71, <1>72, <1>9, <2>3
    <3>2. hts[n][v] = Len(varStack[v]) /\ t[n][v] = Len(varStack'[v])
      BY <1>7, <1>10
    <3> QED
      BY <1>6, <2>3, <3>1, <3>2
  <2> QED
    BY <2>1, <2>2, <2>3
<1>12. ASSUME NEW v \in Stack, NEW k \in 1..n, k # 1
       PROVE  t[k][v] = t[k - 1][v] + frames'[k].pushed[v]
  <2>1. k - 1 \in 1..n /\ k - 1 # n
    BY <1>12
  <2>2. t[k - 1] = hts[k - 1] /\ hts[k - 1][v] \in Nat
    BY <1>71, <1>9, <2>1
  <2>3. CASE k # n
    BY <1>5, <1>73, <1>9, <1>12, <2>2, <2>3
  <2>4. CASE k = n
    <3>1. hts[n][v] = hts[n - 1][v] + Frame.pushed[v] /\ hts[n][v] = Len(varStack[v])
      BY <1>4, <1>7, <1>73, <1>12, <2>4
    <3>2. Len(varStack'[v]) + Frame.pushed[v] = Len(varStack[v]) + pushed[v]
      BY <1>3, <1>12, <2>4 DEF OnePush
    <3>3. t[n][v] = Len(varStack'[v]) /\ frames'[n].pushed[v] = pushed[v]
      BY <1>5, <1>10
    <3>4. Frame.pushed[v] \in Nat /\ pushed[v] \in Nat
      BY <1>1, LastCall DEF OnePush
    <3> QED
      <4>1. t[n][v] = hts[n - 1][v] + pushed[v]
        <5>1. \A a, b, c, d, x \in Nat : a + b = c + d /\ c = x + b => a = x + d
          OBVIOUS
        <5>2. hts[n - 1][v] \in Nat
          BY <2>2, <2>4
        <5> QED
          <6>1. PICK a \in Nat : a = Len(varStack'[v])
            BY <1>6
          <6>2. PICK b \in Nat : b = Frame.pushed[v]
            BY <3>4
          <6>3. PICK c \in Nat : c = Len(varStack[v])
            BY <1>6
          <6>4. PICK d \in Nat : d = pushed[v]
            BY <3>4
          <6>5. PICK x \in Nat : x = hts[n - 1][v]
            BY <5>2
          <6>6. a + b = c + d /\ c = x + b
            BY <3>1, <3>2, <6>1, <6>2, <6>3, <6>4, <6>5
          <6>7. a = x + d
            BY <5>1, <6>6
          <6> QED
            BY <3>3, <6>1, <6>4, <6>5, <6>7
      <4> QED
        BY <2>2, <2>4, <3>3, <4>1
  <2> QED
    BY <2>3, <2>4
<1>13. ASSUME NEW v \in Promotable, NEW k \in 1..n
       PROVE  h[frames'[k].block][Point(frames'[k])][v] = Nth(varStack'[v], t[k][v])
  <2>1. v \in Stack
    BY DEF Promotable, Stack
  <2>2. CASE k # n
    <3>1. frames'[k] = frames[k] /\ t[k] = hts[k]
      BY <1>5, <1>9, <2>2
    <3>3. frames[k].block # Frame.block /\ frames[k].block \in Block /\ frames[k].at \in Nat
      BY <1>1, <1>3, <2>2, OtherBlocks, Frames
    <3>4. Point(frames[k]) \in Nat
      BY <3>3, GivenCode DEF Point
    <3>5. h[frames[k].block][Point(frames[k])][v] =
            held[frames[k].block][Point(frames[k])][v]
      BY <3>3, <3>4 DEF HeldNext
    <3>6. hts[k][v] \in Nat /\ hts[k][v] <= Len(varStack[v])
      <4>1. n \in 1..n
        OBVIOUS
      <4> QED
        BY <1>7, <1>71, <1>72, <2>1, <4>1
    <3>7. Nth(varStack'[v], hts[k][v]) = Nth(varStack[v], hts[k][v])
      <4>1. CASE hts[k][v] = 0
        BY <4>1 DEF Nth
      <4>2. CASE hts[k][v] # 0
        <5>1. hts[k][v] \in 1..Len(varStack[v])
          BY <1>6, <2>1, <3>6, <4>2
        <5> QED
          BY <2>1, <4>2, <5>1 DEF Nth, OnePush
      <4> QED
        BY <4>1, <4>2
    <3>8. held[frames[k].block][Point(frames[k])][v] = Nth(varStack[v], hts[k][v])
      BY <1>74
    <3> QED
      BY <3>1, <3>5, <3>7, <3>8
  <2>3. CASE k = n
    <3>1. frames'[k].block = Frame.block /\ frames'[k].at = Frame.at + 1 /\ frames[k] = Frame
      BY <1>4, <1>5, <2>3
    <3>2. Frame.block \in Block /\ Frame.at \in Nat /\ Frame.at + 1 \in 1..End(Frame.block)
      BY OneReaches
    <3>3. Point(frames'[k]) = Frame.at + 1
      BY <3>1, <3>2 DEF Point
    <3>4. Point(frames[k]) = Frame.at
      <4>1. End(Frame.block) \in Nat
        BY <3>2, GivenCode
      <4> QED
        BY <3>1, <3>2, <4>1 DEF Point
    <3>5. h[Frame.block][Frame.at + 1][v] = Effect(Instr, v, held[Frame.block][Frame.at][v])
      BY <3>2 DEF HeldNext
    <3>6. held[Frame.block][Frame.at][v] = Nth(varStack[v], Len(varStack[v]))
      BY <1>7, <1>74, <2>1, <2>3, <3>1, <3>4
    <3>7. Nth(varStack'[v], Len(varStack'[v]))
         = Effect(Instr, v, Nth(varStack[v], Len(varStack[v])))
      BY DEF OnePush
    <3>8. t[k][v] = Len(varStack'[v])
      BY <1>10, <2>1, <2>3
    <3> QED
      BY <3>1, <3>3, <3>5, <3>6, <3>7, <3>8
  <2> QED
    BY <2>2, <2>3
<1>14. Tops(h, t)'
  <2>1. t \in [DOMAIN frames' -> [Stack -> Nat]]
    BY <1>5, <1>9
  <2>2. \A f : Point(f)' = Point(f)
    BY <1>2 DEF Point
  <2>3. \A v \in Stack :
          /\ t[Len(frames')][v] = Len(varStack'[v])
          /\ \A k \in DOMAIN frames' :
               /\ \A l \in 1..k : t[l][v] <= t[k][v]
               /\ k # 1 => t[k][v] = t[k - 1][v] + frames'[k].pushed[v]
    BY <1>5, <1>10, <1>11, <1>12
  <2>4. \A v \in Promotable : \A k \in DOMAIN frames' :
          h[frames'[k].block][Point(frames'[k])][v] = Nth(varStack'[v], t[k][v])
    BY <1>5, <1>13
  <2>5. \A v \in Promotable' : \A k \in DOMAIN frames' :
          h[frames'[k].block][Point(frames[k])'][v] = Nth(varStack'[v], t[k][v])
    BY <1>2, <2>2, <2>4
  <2> QED
    <3>1. Heights(t)'
      BY <2>1, <2>3 DEF Heights
    <3> QED
      BY <2>5, <3>1 DEF Tops
<1> QED
  BY <1>14

\* The top of a stack.
LEMMA LastIs ==
  ASSUME TypeOK, NEW v \in Stack, varStack[v] # <<>>
  PROVE  Last(varStack[v]) = Nth(varStack[v], Len(varStack[v]))
<1>1. PICK s \in Seq(Value) : s = varStack[v]
  BY DEF TypeOK
<1>2. Len(s) # 0 /\ Last(s) = s[Len(s)]
  BY <1>1, EmptySeq DEF Last
<1> QED
  BY <1>1, <1>2 DEF Nth

\* An instruction that pushes a value.
LEMMA OnePushed ==
  ASSUME TypeOK, Walk, phase = "Rename", NEW w \in Stack, NEW x \in Value,
         IsPushed(w, x), NEW pushed \in [Stack -> Nat], frames' = Advanced(pushed),
         \/ pushed = [Frame.pushed EXCEPT ![w] = Frame.pushed[w] + 1]
         \/ Len(frames) = 1,
         \A v \in Promotable : \A y : Effect(Instr, v, y) = IF v = w THEN x ELSE y
  PROVE  OnePush(pushed)
<1>1. /\ varStack' \in [Stack -> Seq(Value)]
      /\ \A v \in Stack : v # w => varStack'[v] = varStack[v]
      /\ Len(varStack[w]) \in Nat
      /\ Len(varStack'[w]) = Len(varStack[w]) + 1
      /\ \A j \in 1..Len(varStack[w]) : varStack'[w][j] = varStack[w][j]
      /\ varStack'[w][Len(varStack[w]) + 1] = x
  BY PushOne
<1>2. \A v \in Stack : Len(varStack[v]) \in Nat
  BY LenProperties DEF TypeOK
<1>3. ASSUME NEW v \in Stack
      PROVE  /\ Len(varStack'[v]) >= Len(varStack[v])
             /\ \A j \in 1..Len(varStack[v]) : varStack'[v][j] = varStack[v][j]
  <2>1. CASE v = w
    <3>1. Len(varStack'[v]) >= Len(varStack[v])
      BY <1>1, <2>1
    <3> QED
      BY <1>1, <2>1, <3>1
  <2>2. CASE v # w
    <3>1. varStack'[v] = varStack[v] /\ Len(varStack[v]) \in Nat
      BY <1>1, <1>2, <2>2
    <3> QED
      BY <3>1
  <2> QED
    BY <2>1, <2>2
<1>4. ASSUME NEW v \in Stack, Len(frames) # 1
      PROVE  Len(varStack'[v]) + Frame.pushed[v] = Len(varStack[v]) + pushed[v]
  <2>1. Frame.pushed \in [Stack -> Nat]
    BY LastCall
  <2>2. pushed[v] = IF v = w THEN Frame.pushed[v] + 1 ELSE Frame.pushed[v]
    BY <1>4, <2>1
  <2>3. Len(varStack'[v]) = IF v = w THEN Len(varStack[v]) + 1 ELSE Len(varStack[v])
    BY <1>1
  <2>4. PICK a \in Nat : a = Frame.pushed[v]
    BY <2>1
  <2>5. PICK c \in Nat : c = Len(varStack[v])
    BY <1>2
  <2>6. CASE v = w
    <3>1. pushed[v] = a + 1 /\ Len(varStack'[v]) = c + 1
      BY <2>2, <2>3, <2>4, <2>5, <2>6
    <3>2. (c + 1) + a = c + (a + 1)
      OBVIOUS
    <3> QED
      BY <2>4, <2>5, <3>1, <3>2
  <2>7. CASE v # w
    <3>1. pushed[v] = a /\ Len(varStack'[v]) = c
      BY <2>2, <2>3, <2>4, <2>5, <2>7
    <3> QED
      BY <2>4, <2>5, <3>1
  <2> QED
    BY <2>6, <2>7
<1>5. ASSUME NEW v \in Promotable
      PROVE  Nth(varStack'[v], Len(varStack'[v]))
               = Effect(Instr, v, Nth(varStack[v], Len(varStack[v])))
  <2>1. v \in Stack
    BY DEF Promotable, Stack
  <2>2. CASE v = w
    <3>1. Effect(Instr, v, Nth(varStack[v], Len(varStack[v]))) = x
      BY <2>2
    <3>2. Len(varStack'[v]) = Len(varStack[v]) + 1 /\ Len(varStack[v]) + 1 # 0
      BY <1>1, <2>2
    <3>3. Nth(varStack'[v], Len(varStack[v]) + 1) = x
      BY <1>1, <2>2, <3>2 DEF Nth
    <3> QED
      BY <3>1, <3>2, <3>3
  <2>3. CASE v # w
    <3>1. varStack'[v] = varStack[v]
      BY <1>1, <2>1, <2>3
    <3>2. Effect(Instr, v, Nth(varStack[v], Len(varStack[v])))
            = Nth(varStack[v], Len(varStack[v]))
      BY <2>3
    <3> QED
      BY <3>1, <3>2
  <2> QED
    BY <2>2, <2>3
<1> QED
  BY <1>1, <1>3, <1>4, <1>5 DEF OnePush

\* An instruction that pushes nothing.
LEMMA NonePushed ==
  ASSUME TypeOK, Walk, phase = "Rename", varStack' = varStack,
         frames' = Advanced(Frame.pushed),
         \A v \in Promotable : \A y : Effect(Instr, v, y) = y
  PROVE  OnePush(Frame.pushed)
<1>1. Frame.pushed \in [Stack -> Nat]
  BY LastCall
<1>2. varStack' \in [Stack -> Seq(Value)] /\ \A v \in Stack : Len(varStack[v]) \in Nat
  BY LenProperties DEF TypeOK
<1>3. \A v \in Promotable :
        Nth(varStack'[v], Len(varStack'[v]))
          = Effect(Instr, v, Nth(varStack[v], Len(varStack[v])))
  <2> SUFFICES ASSUME NEW v \in Promotable
               PROVE  Nth(varStack'[v], Len(varStack'[v]))
                        = Effect(Instr, v, Nth(varStack[v], Len(varStack[v])))
    OBVIOUS
  <2>1. Effect(Instr, v, Nth(varStack[v], Len(varStack[v])))
          = Nth(varStack[v], Len(varStack[v]))
    OBVIOUS
  <2> QED
    BY <2>1
<1>4. \A v \in Stack : /\ Len(varStack'[v]) >= Len(varStack[v])
                       /\ Len(varStack'[v]) + Frame.pushed[v]
                            = Len(varStack[v]) + Frame.pushed[v]
  BY <1>1, <1>2
<1> QED
  BY <1>1, <1>2, <1>3, <1>4 DEF OnePush

\* An instruction that leaves the code as it is.
LEMMA OneQuiet ==
  ASSUME TypeOK, Walk, InCode, NEW held, NEW pushed \in [Stack -> Nat],
         frames' = Advanced(pushed), phase' = phase, given' = given,
         succ' = succ, kids' = kids, phis' = phis, promoted' = promoted,
         code' = code, incoming' = incoming,
         ~PromotedLoad(Frame.block, Frame.at)
  PROVE  OneInstr(held)
<1>1. phase' = "Rename"
  BY DEF InCode
<1>2. Alike(code, code')
  BY DEF Alike
<1>3. \A b \in Block : \A i \in DOMAIN code[b] :
        code'[b][i].val =
          IF /\ code[b][i].op # "load" /\ PromotedLoad(Frame.block, Frame.at)
             /\ code[b][i].val = Instr.val
          THEN held[Frame.block][Frame.at][Instr.var] ELSE code[b][i].val
  OBVIOUS
<1> QED
  BY <1>1, <1>2, <1>3 DEF OneInstr

\* The first run, after an instruction.
LEMMA InstrFirst ==
  ASSUME IInv, GivenIs, KidsLeft, NEW held, NEW hts, Renaming(held), Tops(held, hts),
         OneInstr(held), NEW pushed, OnePush(pushed)
  PROVE  FirstPass'
<1>1. TypeOK /\ Walk /\ InSSA(succ, code, phis, incoming)
  BY DEF IInv
<1>2. PICK h : HeldNext(held, h)
  BY HeldNextExists
<1>3. Renaming(h)'
  BY <1>1, <1>2, OneRenames
<1>4. PICK t : Tops(h, t)'
  BY <1>1, <1>2, OneTops
<1>5. /\ given' = given /\ succ' = succ /\ kids' = kids /\ phase = "Rename"
      /\ phase' = "Rename" /\ Alike(code, code')
  BY DEF OneInstr, InCode
<1>6. KidsLeft'
  <2>1. /\ Frame'.block = Frame.block /\ Frame'.at = Frame.at + 1
        /\ Frame'.kids = Frame.kids
    BY <1>1, <1>5, ReachedNext DEF OnePush
  <2>2. Frame.at \in Nat /\ Frame.block \in Block
    BY <1>1, <1>5, LastCall
  <2>3. End(Frame.block) \in Nat
    BY <2>2, GivenCode
  <2>4. \A b : End(b)' = End(b)
    BY <1>5, SameGiven
  <2>5. Frame.at + 1 <= End(Frame.block) => Frame.at <= End(Frame.block)
    BY <2>2, <2>3
  <2> QED
    BY <1>5, <2>1, <2>4, <2>5 DEF KidsLeft
<1>7. (\E g, s : Renaming(g) /\ Tops(g, s))'
  BY <1>3, <1>4
<1> QED
  BY <1>5, <1>6, <1>7 DEF FirstPass

\* An alloca holds undef.
LEMMA RenameAllocaFirst ==
  ASSUME IInv, GivenIs, FirstPass, runs = 0, given' = given, RenameAlloca
  PROVE  FirstPass'
<1>1. TypeOK /\ Walk /\ CodeShape
  BY DEF IInv
<1>2. /\ InCode /\ phase = "Rename" /\ Instr.op = "alloca"
      /\ IsPushed(Instr.var, Undef) /\ frames' = Advanced(Frame.pushed)
      /\ succ' = succ /\ kids' = kids /\ phis' = phis /\ promoted' = promoted
      /\ code' = code /\ incoming' = incoming /\ phase' = phase
  BY DEF RenameAlloca, InCode, IsPushed, places
<1>3. PICK held, hts : Renaming(held) /\ Tops(held, hts) /\ KidsLeft
  BY <1>2 DEF FirstPass
<1>4. /\ Frame.block \in Block /\ Frame.at \in DOMAIN code[Frame.block]
      /\ Instr = code[Frame.block][Frame.at]
      /\ Instr.var \in Stack /\ Frame.pushed \in [Stack -> Nat]
  BY <1>1, <1>2, AtInstr
<1>5. Len(frames) = 1
  <2>1. Frame.block = Entry
    BY <1>1, <1>2, <1>4 DEF CodeShape
  <2> QED
    BY <1>1, <1>2, <2>1, EntryAlone
<1>6. OneInstr(held)
  <2>1. ~PromotedLoad(Frame.block, Frame.at)
    BY <1>2, <1>4 DEF PromotedLoad
  <2> QED
    BY <1>1, <1>2, <1>4, <2>1, OneQuiet
<1>7. OnePush(Frame.pushed)
  <2>1. Undef \in Value
    BY DEF Undef, Value
  <2>2. \A v \in Promotable : \A y : Effect(Instr, v, y) = IF v = Instr.var THEN Undef ELSE y
    BY <1>2 DEF Effect
  <2> QED
    BY <1>1, <1>2, <1>4, <1>5, <2>1, <2>2, OnePushed
<1> QED
  BY <1>3, <1>6, <1>7, InstrFirst

\* A store makes the alloca hold what it stores.
LEMMA RenameStoreFirst ==
  ASSUME IInv, GivenIs, FirstPass, runs = 0, given' = given, RenameStore
  PROVE  FirstPass'
<1>1. TypeOK /\ Walk
  BY DEF IInv
<1>2. PICK pushed : pushed = [Frame.pushed EXCEPT ![Instr.var] = Frame.pushed[Instr.var] + 1]
  OBVIOUS
<1>3. /\ InCode /\ phase = "Rename" /\ Instr.op = "store"
      /\ IsPushed(Instr.var, Instr.val) /\ frames' = Advanced(pushed)
      /\ succ' = succ /\ kids' = kids /\ phis' = phis /\ promoted' = promoted
      /\ code' = code /\ incoming' = incoming /\ phase' = phase
  BY <1>2 DEF RenameStore, InCode, IsPushed, places
<1>4. PICK held, hts : Renaming(held) /\ Tops(held, hts) /\ KidsLeft
  BY <1>3 DEF FirstPass
<1>5. /\ Instr = code[Frame.block][Frame.at] /\ Instr.val \in Value
      /\ Instr.var \in Stack /\ Frame.pushed \in [Stack -> Nat]
  BY <1>1, <1>3, AtInstr
<1>6. pushed \in [Stack -> Nat]
  BY <1>2, <1>5
<1>7. OneInstr(held)
  <2>1. ~PromotedLoad(Frame.block, Frame.at)
    BY <1>3, <1>5 DEF PromotedLoad
  <2> QED
    BY <1>1, <1>3, <1>6, <2>1, OneQuiet
<1>8. OnePush(pushed)
  <2>1. \A v \in Promotable : \A y :
          Effect(Instr, v, y) = IF v = Instr.var THEN Instr.val ELSE y
    BY <1>3 DEF Effect
  <2> QED
    BY <1>1, <1>2, <1>3, <1>5, <1>6, <2>1, OnePushed
<1> QED
  BY <1>4, <1>7, <1>8, InstrFirst

\* An instruction that neither stores to a promoted alloca nor loads it.
LEMMA SkipInstrFirst ==
  ASSUME IInv, GivenIs, FirstPass, runs = 0, given' = given, SkipInstr
  PROVE  FirstPass'
<1>1. TypeOK /\ Walk
  BY DEF IInv
<1>2. /\ InCode /\ phase = "Rename" /\ varStack' = varStack
      /\ Instr.op = "use" \/ (Instr.op \in {"store", "load"} /\ Instr.var \notin promoted)
      /\ frames' = Advanced(Frame.pushed)
      /\ succ' = succ /\ kids' = kids /\ phis' = phis /\ promoted' = promoted
      /\ code' = code /\ incoming' = incoming /\ phase' = phase
  BY DEF SkipInstr, InCode, places
<1>3. PICK held, hts : Renaming(held) /\ Tops(held, hts) /\ KidsLeft
  BY <1>2 DEF FirstPass
<1>4. Instr = code[Frame.block][Frame.at] /\ Frame.pushed \in [Stack -> Nat]
  BY <1>1, <1>2, AtInstr
<1>5. OneInstr(held)
  <2>1. ~PromotedLoad(Frame.block, Frame.at)
    BY <1>2, <1>4 DEF PromotedLoad
  <2> QED
    BY <1>1, <1>2, <1>4, <2>1, OneQuiet
<1>6. OnePush(Frame.pushed)
  <2>1. promoted = Promotable
    BY <1>3 DEF Renaming
  <2>2. \A v \in Promotable : \A y : Effect(Instr, v, y) = y
    BY <1>2, <2>1 DEF Effect
  <2> QED
    BY <1>1, <1>2, <2>2, NonePushed
<1> QED
  BY <1>3, <1>5, <1>6, InstrFirst

\* What is on top of a stack is what is held where control has come to.
LEMMA TopHeld ==
  ASSUME TypeOK, Walk, GivenIs, phase = "Rename", NEW held, NEW hts, Tops(held, hts),
         NEW v \in Promotable, varStack[v] # <<>>
  PROVE  Last(varStack[v]) = held[Frame.block][Point(Frame)][v]
<1>1. PICK n \in Nat \ {0} : n = Len(frames)
  BY Frames
<1>2. n \in DOMAIN frames /\ frames[n] = Frame
  BY <1>1, Frames
<1>3. v \in Stack
  BY DEF Promotable, Stack
<1>4. hts[n][v] = Len(varStack[v])
  BY <1>1, <1>3 DEF Tops, Heights
<1>5. held[Frame.block][Point(Frame)][v] = Nth(varStack[v], hts[n][v])
  BY <1>2 DEF Tops
<1> QED
  BY <1>3, <1>4, <1>5, LastIs

\* A load is replaced by what is held where it is.
LEMMA RenameLoadFirst ==
  ASSUME IInv, GivenIs, FirstPass, runs = 0, given' = given, RenameLoad
  PROVE  FirstPass'
<1>1. TypeOK /\ Walk /\ StacksAvailable
  BY DEF IInv
<1>2. PICK old, new :
        /\ old = Instr.val /\ new = Last(varStack[Instr.var])
        /\ code' = CodeWith(old, new)
        /\ incoming' = [phi \in phis |-> [p \in DOMAIN incoming[phi] |->
             IF incoming[phi][p] = old THEN new ELSE incoming[phi][p]]]
  BY DEF RenameLoad
<1>3. /\ InCode /\ phase = "Rename" /\ Instr.op = "load"
      /\ Instr.var \in promoted /\ varStack[Instr.var] # <<>>
      /\ varStack' = varStack
      /\ frames' = Advanced(Frame.pushed)
      /\ succ' = succ /\ kids' = kids /\ phis' = phis
      /\ promoted' = promoted /\ phase' = phase
  BY DEF RenameLoad, InCode, places
<1>4. PICK held, hts : Renaming(held) /\ Tops(held, hts) /\ KidsLeft
  BY <1>3 DEF FirstPass
<1>5. /\ Instr = code[Frame.block][Frame.at] /\ Frame.pushed \in [Stack -> Nat]
      /\ Instr.var \in Stack /\ Frame.block \in Block
      /\ Frame.at \in Nat /\ Frame.at \in DOMAIN code[Frame.block]
  BY <1>1, <1>3, AtInstr
<1>6. new \in Value
  BY <1>1, <1>2, <1>3, <1>5, TopValue
<1>7. PromotedLoad(Frame.block, Frame.at)
  BY <1>3, <1>5 DEF PromotedLoad
<1>8. new = held[Frame.block][Frame.at][Instr.var]
  <2>1. Instr.var \in Promotable
    BY <1>3, <1>4 DEF Renaming
  <2>2. new = held[Frame.block][Point(Frame)][Instr.var]
    BY <1>1, <1>2, <1>3, <1>4, <2>1, TopHeld
  <2>3. Frame.at \in 1..Len(given[Frame.block]) /\ Len(given[Frame.block]) \in Nat
    BY <1>4, <1>5, GivenCode DEF Renaming, Replaced
  <2>4. Point(Frame) = Frame.at
    BY <2>3 DEF Point, End
  <2> QED
    BY <2>2, <2>4
<1>9. /\ Alike(code, code')
      /\ \A b \in Block : \A i \in DOMAIN code[b] :
           code'[b][i].val = IF code[b][i].op # "load" /\ code[b][i].val = old
                             THEN new ELSE code[b][i].val
  BY <1>1, <1>2, <1>6, CodeWithAlike
<1>10. OneInstr(held)
  <2>1. \A b \in Block : \A i \in DOMAIN code[b] :
          code'[b][i].val =
            IF /\ code[b][i].op # "load" /\ PromotedLoad(Frame.block, Frame.at)
               /\ code[b][i].val = Instr.val
            THEN held[Frame.block][Frame.at][Instr.var] ELSE code[b][i].val
    BY <1>2, <1>7, <1>8, <1>9
  <2>2. ASSUME NEW phi \in phis
        PROVE  /\ DOMAIN incoming'[phi] = DOMAIN incoming[phi]
               /\ \A p \in DOMAIN incoming[phi] :
                    \/ incoming'[phi][p] = incoming[phi][p]
                    \/ PromotedLoad(Frame.block, Frame.at) /\ incoming[phi][p] = Instr.val
    BY <1>2, <1>7
  <2> QED
    BY <1>3, <1>5, <1>9, <2>1, <2>2 DEF OneInstr
<1>11. OnePush(Frame.pushed)
  <2>1. \A v \in Promotable : \A y : Effect(Instr, v, y) = y
    BY <1>3 DEF Effect
  <2> QED
    BY <1>1, <1>3, <2>1, NonePushed
<1> QED
  BY <1>4, <1>10, <1>11, InstrFirst

-----------------------------------------------------------------------------
(* The end of a block                                                      *)

\* The stacks after a step.
LEMMA TopsNow ==
  ASSUME given' = given, succ' = succ, NEW n \in Nat \ {0},
         Len(frames') = n, DOMAIN frames' = 1..n,
         NEW t \in [1..n -> [Stack -> Nat]],
         \A v \in Stack : t[n][v] = Len(varStack'[v]),
         \A v \in Stack : \A k \in 1..n :
           /\ \A l \in 1..k : t[l][v] <= t[k][v]
           /\ k # 1 => t[k][v] = t[k - 1][v] + frames'[k].pushed[v],
         NEW h,
         \A v \in Promotable : \A k \in 1..n :
           h[frames'[k].block][Point(frames'[k])][v] = Nth(varStack'[v], t[k][v])
  PROVE  Tops(h, t)'
<1>1. Promotable' = Promotable /\ \A b : End(b)' = End(b)
  BY SameGiven
<1>2. \A f : Point(f)' = Point(f)
  BY <1>1 DEF Point
<1>3. \A v \in Promotable' : \A k \in DOMAIN frames' :
        h[frames'[k].block][Point(frames'[k])][v] = Nth(varStack'[v], t[k][v])
  BY <1>1
<1>4. \A v \in Promotable' : \A k \in DOMAIN frames' :
        h[frames'[k].block][Point(frames[k])'][v] = Nth(varStack'[v], t[k][v])
  BY <1>2, <1>3
<1>5. Heights(t)'
  BY DEF Heights
<1> QED
  BY <1>4, <1>5 DEF Tops

\* The operands of the phi nodes after a step.
LEMMA IncomingNow ==
  ASSUME given' = given, NEW h,
         \A phi \in phis' : \A p \in DOMAIN incoming'[phi] : \E n :
           n = End(p) /\ Reached(p, n + 1)' /\ incoming'[phi][p] = h[p][n][phi[2]]
  PROVE  HeldIncoming(h)'
<1>1. ASSUME NEW phi \in phis', NEW p \in DOMAIN incoming'[phi]
      PROVE  Reached(p, End(p) + 1)' /\ incoming'[phi][p] = h[p][End(p)'][phi[2]]
  <2>1. PICK n : n = End(p) /\ Reached(p, n + 1)' /\ incoming'[phi][p] = h[p][n][phi[2]]
    BY <1>1
  <2>2. PICK m : m = n + 1
    OBVIOUS
  <2>3. Reached(p, m)'
    BY <2>1, <2>2, Zenon
  <2>4. End(p)' = n
    BY <2>1 DEF End
  <2>5. Reached(p, End(p) + 1)'
    BY <2>2, <2>3, <2>4, Zenon
  <2> QED
    BY <2>1, <2>4, <2>5
<1> QED
  BY <1>1 DEF HeldIncoming

\* At the end of a block the phi nodes of its successors get what is held there.
LEMMA FillPhisFirst ==
  ASSUME IInv, GivenIs, FirstPass, runs = 0, given' = given, FillPhis
  PROVE  FirstPass'
<1>1. TypeOK /\ Walk /\ FirstRun
  BY DEF IInv
<1>2. /\ phase = "Rename" /\ Frame.at = Len(code[Frame.block]) + 1
      /\ \A phi \in NextPhis : varStack[AllocaOf(phi)] # <<>>
      /\ incoming' = [phi \in phis |->
           IF phi \in NextPhis
           THEN [p \in DOMAIN incoming[phi] \union {Frame.block} |->
                   IF p = Frame.block THEN Last(varStack[AllocaOf(phi)])
                                      ELSE incoming[phi][p]]
           ELSE incoming[phi]]
      /\ varStack' = varStack /\ frames' = Advanced(Frame.pushed)
      /\ succ' = succ /\ kids' = kids /\ code' = code /\ phis' = phis
      /\ promoted' = promoted /\ phase' = phase
  BY DEF FillPhis, Fill, AtEnd, places
<1>3. PICK held, hts : Renaming(held) /\ Tops(held, hts) /\ KidsLeft
  BY <1>2 DEF FirstPass
<1>4. /\ Frame.block \in Block /\ Frame.at \in Nat \ {0} /\ Frame.pushed \in [Stack -> Nat]
  BY <1>1, <1>2, LastCall
<1>5. Frame.at = End(Frame.block) /\ Point(Frame) = Frame.at
  <2>1. Frame.at = End(Frame.block)
    BY <1>2, <1>3, <1>4 DEF Renaming, Replaced, End
  <2> QED
    BY <1>4, <2>1 DEF Point
<1>6. PICK pushed \in [Stack -> Nat] : pushed = Frame.pushed
  BY <1>4
<1>7. /\ frames' = Advanced(pushed) /\ Alike(code, code')
  BY <1>2, <1>6 DEF Alike
<1>8. /\ \A b \in Block : \A j \in Int :
           Reached(b, j)' <=> Reached(b, j) \/ (b = Frame.block /\ j = Frame.at + 1)
      /\ Frame'.block = Frame.block /\ Frame'.at = Frame.at + 1
  BY <1>1, <1>2, <1>7, ReachedNext
<1>9. \A b : End(b)' = End(b)
  BY <1>2, SameGiven
<1>10. Promotable' = Promotable /\ (\A val : PromVal(val)' <=> PromVal(val))
       /\ (\A val : Meaning(held, val)' = Meaning(held, val))
       /\ \A val, b, j : There(val, b, j)' <=> There(val, b, j)
  BY <1>2, SameGiven
<1>11. \A b \in Block : \A j \in 1..End(b) : Reached(b, j)' <=> Reached(b, j)
  <2> SUFFICES ASSUME NEW b \in Block, NEW j \in 1..End(b)
               PROVE  Reached(b, j)' <=> Reached(b, j)
    OBVIOUS
  <2>1. ~(b = Frame.block /\ j = Frame.at + 1) /\ j \in Int
    BY <1>4, <1>5, GivenCode
  <2> QED
    BY <1>8, <2>1
<1>12. Replaced(held)'
  <2>1. ASSUME NEW val \in Value, PromVal(val)
        PROVE  Reached(val[2], val[3] + 1)' <=> Reached(val[2], val[3] + 1)
    <3>1. val[2] \in Block /\ val[3] \in DOMAIN given[val[2]]
      BY <2>1 DEF PromVal
    <3>2. DOMAIN given[val[2]] = 1..Len(given[val[2]]) /\ Len(given[val[2]]) \in Nat
      BY <3>1, GivenCode
    <3>3. val[3] + 1 \in 1..End(val[2])
      BY <3>1, <3>2 DEF End
    <3> QED
      BY <1>11, <3>1, <3>3
  <2>2. ASSUME NEW b \in Block, NEW j \in DOMAIN given[b], given[b][j].op # "load",
               NEW val, val = given[b][j].val
        PROVE  code[b][j].val = IF PromVal(val) /\ Reached(val[2], val[3] + 1)'
                                THEN Meaning(held, val) ELSE val
    <3>1. code[b][j].val = IF PromVal(val) /\ Reached(val[2], val[3] + 1)
                           THEN Meaning(held, val) ELSE val
      BY <1>3, <2>2 DEF Renaming, Replaced
    <3>2. val \in Value
      BY <1>1, <2>2, OperandThere
    <3> QED
      BY <2>1, <3>1, <3>2
  <2>3. \A b \in Block :
          /\ Len(code[b]) = Len(given[b])
          /\ DOMAIN code[b] = DOMAIN given[b]
          /\ \A j \in DOMAIN given[b] :
               /\ code[b][j].op = given[b][j].op /\ code[b][j].var = given[b][j].var
               /\ given[b][j].op = "load" => code[b][j].val = given[b][j].val
    BY <1>3 DEF Renaming, Replaced
  <2>4. ASSUME NEW b \in Block
        PROVE  (/\ Len(code[b]) = Len(given[b])
                /\ DOMAIN code[b] = DOMAIN given[b]
                /\ \A j \in DOMAIN given[b] :
                     /\ code[b][j].op = given[b][j].op /\ code[b][j].var = given[b][j].var
                     /\ given[b][j].op = "load" => code[b][j].val = given[b][j].val
                     /\ given[b][j].op # "load" =>
                          LET val == given[b][j].val
                          IN code[b][j].val = IF PromVal(val) /\ Reached(val[2], val[3] + 1)
                                              THEN Meaning(held, val) ELSE val)'
    BY <1>2, <1>10, <2>2, <2>3
  <2> QED
    BY <2>4 DEF Replaced
<1>13. HeldWell(held)'
  <2>1. \A b \in Block : \A j \in 1..End(b) : Reached(b, j)' => \A v \in Promotable :
          /\ held[b][j][v] \in Value /\ There(held[b][j][v], b, j)
          /\ ~PromVal(held[b][j][v]) /\ held[b][j][v][1] # "alloca"
    BY <1>3, <1>11 DEF Renaming, HeldWell
  <2> QED
    BY <1>9, <1>10, <2>1 DEF HeldWell
<1>14. HeldSteps(held)'
  <2>1. \A b \in Block : Reached(b, 1)' <=> Reached(b, 1)
    BY <1>11, GivenCode
  <2>2. ASSUME NEW b \in Block, NEW j \in DOMAIN given[b]
        PROVE  Reached(b, j + 1)' <=> Reached(b, j + 1)
    <3>1. j + 1 \in 1..End(b)
      BY GivenCode DEF End
    <3> QED
      BY <1>11, <3>1
  <2>3. \A v \in Promotable :
          /\ Reached(Entry, 1)' => held[Entry][1][v] = Undef
          /\ \A b \in Block : \A j \in DOMAIN given[b] :
               Reached(b, j + 1)' => held[b][j + 1][v] = Effect(code[b][j], v, held[b][j][v])
          /\ \A b \in Block : Reached(b, 1)' /\ <<b, v>> \in phis => held[b][1][v] = Phi(b, v)
          /\ \A d \in Block : \A b \in kids[d] :
               Reached(b, 1)' /\ <<b, v>> \notin phis => held[b][1][v] = held[d][End(d)][v]
    <3>1. HeldSteps(held)
      BY <1>3 DEF Renaming
    <3>2. \A d \in Block : kids[d] \subseteq Block
      BY <1>1, Child
    <3> QED
      BY <2>1, <2>2, <3>1, <3>2, EntryIsBlock DEF HeldSteps
  <2> QED
    BY <1>2, <1>9, <1>10, <2>3 DEF HeldSteps
<1>15. HeldIncoming(held)'
  <2>1. ASSUME NEW phi \in phis, NEW p \in DOMAIN incoming'[phi], NEW n, n = End(p)
        PROVE  Reached(p, n + 1)' /\ incoming'[phi][p] = held[p][n][phi[2]]
    <3>1. CASE p \in DOMAIN incoming[phi] /\ incoming'[phi][p] = incoming[phi][p]
      <4>1. p \in Block
        BY <1>1, <3>1 DEF TypeOK, Preds
      <4>2. Reached(p, n + 1) /\ incoming[phi][p] = held[p][n][phi[2]]
        BY <1>3, <2>1, <3>1 DEF Renaming, HeldIncoming
      <4>3. n + 1 \in Int
        BY <2>1, <4>1, GivenCode
      <4> QED
        BY <1>8, <3>1, <4>1, <4>2, <4>3
    <3>2. CASE p = Frame.block /\ phi \in NextPhis
               /\ incoming'[phi][p] = Last(varStack[AllocaOf(phi)])
      <4>1. phi[2] \in Promotable /\ AllocaOf(phi) = phi[2]
        BY <1>1, <1>3 DEF Renaming, FirstRun, AllocaOf
      <4>2. Last(varStack[phi[2]]) = held[Frame.block][Point(Frame)][phi[2]]
        BY <1>1, <1>2, <1>3, <3>2, <4>1, TopHeld
      <4>3. Reached(p, n + 1)'
        BY <1>4, <1>5, <1>8, <2>1, <3>2
      <4> QED
        BY <1>5, <2>1, <3>2, <4>1, <4>2, <4>3
    <3>3. \/ p \in DOMAIN incoming[phi] /\ incoming'[phi][p] = incoming[phi][p]
          \/ /\ p = Frame.block /\ phi \in NextPhis
             /\ incoming'[phi][p] = Last(varStack[AllocaOf(phi)])
      BY <1>2
    <3> QED
      BY <3>1, <3>2, <3>3
  <2>2. \A phi \in phis' : \A p \in DOMAIN incoming'[phi] : \E n :
          n = End(p) /\ Reached(p, n + 1)' /\ incoming'[phi][p] = held[p][n][phi[2]]
    <3> SUFFICES ASSUME NEW phi \in phis', NEW p \in DOMAIN incoming'[phi]
                 PROVE  \E n : /\ n = End(p) /\ Reached(p, n + 1)'
                               /\ incoming'[phi][p] = held[p][n][phi[2]]
      OBVIOUS
    <3>1. PICK n : n = End(p)
      OBVIOUS
    <3>2. phi \in phis
      BY <1>2
    <3>3. Reached(p, n + 1)' /\ incoming'[phi][p] = held[p][n][phi[2]]
      BY <2>1, <3>1, <3>2, Zenon
    <3> QED
      BY <3>1, <3>3, Zenon
  <2> QED
    BY <2>2, IncomingNow, Zenon
<1>16. Renaming(held)'
  <2>1. promoted' = Promotable' /\ phis' \subseteq (Block \ {Entry}) \X Promotable'
    BY <1>2, <1>3, <1>10 DEF Renaming
  <2> QED
    BY <1>12, <1>13, <1>14, <1>15, <2>1 DEF Renaming
<1>17. PICK n \in Nat \ {0} : n = Len(frames)
  BY <1>1, <1>2, Frames
<1>18. DOMAIN frames = 1..n /\ frames[n] = Frame
  BY <1>1, <1>2, <1>17, Frames
<1>19. /\ Len(frames') = n /\ DOMAIN frames' = 1..n
       /\ frames'[n].block = Frame.block /\ frames'[n].at = Frame.at + 1
       /\ frames'[n].pushed = Frame.pushed
       /\ \A k \in 1..n : k # n => frames'[k] = frames[k]
  BY <1>1, <1>2, <1>6, <1>7, <1>17, <1>18, Advance
<1>20. Tops(held, hts)'
  <2>1. ASSUME NEW k \in 1..n
        PROVE  /\ frames'[k].block = frames[k].block
               /\ frames'[k].pushed = frames[k].pushed
               /\ Point(frames'[k]) = Point(frames[k])
    <3>1. CASE k # n
      BY <1>19, <3>1
    <3>2. CASE k = n
      <4>1. Point(frames[k]) = Frame.at
        BY <1>5, <1>18, <3>2
      <4>2. frames'[k].at = Frame.at + 1 /\ frames'[k].block = Frame.block
        BY <1>19, <3>2
      <4>3. ~(Frame.at + 1 <= Frame.at)
        BY <1>4
      <4>4. Point(frames'[k]) = Frame.at
        BY <1>5, <4>2, <4>3 DEF Point
      <4> QED
        BY <1>18, <1>19, <3>2, <4>1, <4>4
    <3> QED
      BY <3>1, <3>2
  <2>2. Heights(hts) /\ \A v \in Promotable : \A k \in 1..n :
          held[frames[k].block][Point(frames[k])][v] = Nth(varStack[v], hts[k][v])
    BY <1>3, <1>18 DEF Tops
  <2>3. hts \in [1..n -> [Stack -> Nat]]
        /\ \A v \in Stack : hts[n][v] = Len(varStack[v])
    BY <1>17, <1>18, <2>2 DEF Heights
  <2>4. \A v \in Stack : \A k \in 1..n :
          /\ \A l \in 1..k : hts[l][v] <= hts[k][v]
          /\ k # 1 => hts[k][v] = hts[k - 1][v] + frames[k].pushed[v]
    BY <1>17, <1>18, <2>2 DEF Heights
  <2>5. \A v \in Stack : \A k \in 1..n :
          /\ \A l \in 1..k : hts[l][v] <= hts[k][v]
          /\ k # 1 => hts[k][v] = hts[k - 1][v] + frames'[k].pushed[v]
    BY <2>1, <2>4
  <2>6. \A v \in Promotable : \A k \in 1..n :
          held[frames'[k].block][Point(frames'[k])][v] = Nth(varStack'[v], hts[k][v])
    BY <1>2, <2>1, <2>2
  <2>7. \A v \in Stack : hts[n][v] = Len(varStack'[v])
    BY <1>2, <2>3
  <2> QED
    BY <1>2, <1>17, <1>19, <2>3, <2>5, <2>6, <2>7, TopsNow
<1>21. KidsLeft'
  <2>1. ~(Frame.at + 1 <= End(Frame.block))
    BY <1>4, <1>5
  <2> QED
    BY <1>8, <1>9, <2>1 DEF KidsLeft
<1> QED
  BY <1>2, <1>16, <1>20, <1>21 DEF FirstPass

-----------------------------------------------------------------------------
(* Down and up the tree                                                    *)

\* A block is come to after the end of its parent in the dominator tree.
LEMMA ParentReached ==
  ASSUME TypeOK, Walk, KidsLeft, NEW d \in Block, NEW b \in kids[d], Reached(b, 1)
  PROVE  Reached(d, End(d))
<1>1. CASE phase # "Rename"
  BY <1>1 DEF Reached
<1>2. CASE phase = "Rename"
  <2>1. b \in Block /\ Dom(d, b) /\ Dom(b, b)
    BY Child, DomSelf
  <2>2. ~Above(b)
    BY <1>2 DEF Reached
  <2>3. ~Above(d)
    <3> SUFFICES ASSUME Above(d) PROVE FALSE
      OBVIOUS
    <3>1. PICK k \in DOMAIN frames : \E c \in frames[k].kids : Dom(c, d)
      BY DEF Above
    <3>2. PICK c \in frames[k].kids : Dom(c, d)
      BY <3>1
    <3>3. c \in Block
      BY <3>2, DomBlock
    <3>4. Dom(c, b)
      BY <2>1, <3>2, <3>3, DomTransitive
    <3> QED
      BY <2>2, <3>1, <3>4 DEF Above
  <2>4. ASSUME d = Frame.block PROVE Frame.at > End(d)
    <3> SUFFICES ASSUME ~(Frame.at > End(d)) PROVE FALSE
      OBVIOUS
    <3>1. Frame.at \in Nat
      BY <1>2, LastCall
    <3>2. End(d) \in Int
      BY DEF End
    <3>3. Frame.kids = kids[d]
      BY <2>4, <3>1, <3>2 DEF KidsLeft
    <3>4. Len(frames) \in DOMAIN frames /\ Frame = frames[Len(frames)]
      BY <1>2, Frames DEF Frame
    <3> QED
      BY <2>1, <2>2, <3>3, <3>4 DEF Above
  <2>5. d = Frame.block => End(d) <= Frame.at
    BY <1>2, <2>4, LastCall DEF End
  <2> QED
    BY <2>3, <2>5 DEF Reached
<1> QED
  BY <1>1, <1>2

\* When control comes to the starts of more blocks, h has what is held there,
\* and where control was before it has what held has.
Extends(held, h) ==
  /\ \A b \in Block : \A j \in 2..End(b) + 1 : Reached(b, j)' <=> Reached(b, j)
  /\ \A b \in Block : Reached(b, 1) => Reached(b, 1)'
  /\ \A b \in Block : \A j \in 1..End(b) : Reached(b, j) => h[b][j] = held[b][j]
  /\ \A b \in Block : Reached(b, 1)' /\ ~Reached(b, 1) => \A v \in Promotable :
       /\ h[b][1][v] \in Value /\ There(h[b][1][v], b, 1)
       /\ ~PromVal(h[b][1][v]) /\ h[b][1][v][1] # "alloca"
       /\ b = Entry => h[b][1][v] = Undef
       /\ <<b, v>> \in phis => h[b][1][v] = Phi(b, v)
       /\ \A d \in Block : b \in kids[d] /\ <<b, v>> \notin phis =>
            h[b][1][v] = h[d][End(d)][v]

\* What the renaming has done stays as h says, and the new starts are as it says.
LEMMA RenamesOn ==
  ASSUME TypeOK, Walk, GivenIs, KidsLeft, given' = given, succ' = succ, kids' = kids,
         code' = code, phis' = phis, promoted' = promoted, incoming' = incoming,
         NEW held, Renaming(held), NEW h, Extends(held, h)
  PROVE  Renaming(h)'
<1>1. \A b : End(b)' = End(b)
  BY SameGiven
<1>2. Promotable' = Promotable /\ (\A val : PromVal(val)' <=> PromVal(val))
      /\ (\A val : Meaning(h, val)' = Meaning(h, val))
      /\ (\A val, b, j : There(val, b, j)' <=> There(val, b, j))
  BY SameGiven
<1>3. \A b \in Block : \A j \in 2..End(b) + 1 : Reached(b, j)' <=> Reached(b, j)
  BY DEF Extends
<1>4. \A b \in Block : \A j \in 1..End(b) : Reached(b, j) => h[b][j] = held[b][j]
  BY DEF Extends
<1>5. ASSUME NEW b \in Block, Reached(b, 1)', ~Reached(b, 1), NEW v \in Promotable
      PROVE  /\ h[b][1][v] \in Value /\ There(h[b][1][v], b, 1)
             /\ ~PromVal(h[b][1][v]) /\ h[b][1][v][1] # "alloca"
             /\ b = Entry => h[b][1][v] = Undef
             /\ <<b, v>> \in phis => h[b][1][v] = Phi(b, v)
             /\ \A d \in Block : b \in kids[d] /\ <<b, v>> \notin phis =>
                  h[b][1][v] = h[d][End(d)][v]
  BY <1>5, Zenon DEF Extends
<1>6. ASSUME NEW b \in Block, NEW j \in DOMAIN given[b]
      PROVE  /\ j + 1 \in 2..End(b) + 1 /\ j + 1 \in 1..End(b) /\ j \in 1..End(b)
             /\ j \in Int /\ j + 1 \in Int /\ j <= j + 1
  BY GivenCode DEF End
<1>7. ASSUME NEW b \in Block, NEW j \in DOMAIN given[b], Reached(b, j + 1)
      PROVE  h[b][j] = held[b][j] /\ h[b][j + 1] = held[b][j + 1] /\ Reached(b, j)
  <2>1. Reached(b, j)
    BY <1>6, <1>7, ReachedBefore
  <2> QED
    BY <1>4, <1>6, <1>7, <2>1
<1>8. Replaced(h)'
  <2>1. ASSUME NEW b \in Block, NEW j \in DOMAIN given[b], given[b][j].op # "load",
               NEW val, val = given[b][j].val
        PROVE  code[b][j].val = IF PromVal(val) /\ Reached(val[2], val[3] + 1)'
                                THEN Meaning(h, val) ELSE val
    <3>1. code[b][j].val = IF PromVal(val) /\ Reached(val[2], val[3] + 1)
                           THEN Meaning(held, val) ELSE val
      BY <2>1 DEF Renaming, Replaced
    <3>2. CASE ~PromVal(val)
      BY <3>1, <3>2
    <3>3. CASE PromVal(val)
      <4>1. val[2] \in Block /\ val[3] \in DOMAIN given[val[2]]
        BY <3>3 DEF PromVal
      <4>2. PICK b1, j1 : b1 = val[2] /\ j1 = val[3] + 1
        OBVIOUS
      <4>3. Reached(b1, j1)' <=> Reached(b1, j1)
        BY <1>3, <1>6, <4>1, <4>2
      <4>4. Reached(b1, j1) => Meaning(h, val) = Meaning(held, val)
        BY <1>7, <3>3, <4>1, <4>2 DEF Meaning
      <4>5. Reached(val[2], val[3] + 1)' <=> Reached(b1, j1)'
        BY <4>2, Zenon
      <4> QED
        BY <3>1, <3>3, <4>2, <4>3, <4>4, <4>5
    <3> QED
      BY <3>2, <3>3
  <2>2. \A b \in Block :
          /\ Len(code[b]) = Len(given[b])
          /\ DOMAIN code[b] = DOMAIN given[b]
          /\ \A j \in DOMAIN given[b] :
               /\ code[b][j].op = given[b][j].op /\ code[b][j].var = given[b][j].var
               /\ given[b][j].op = "load" => code[b][j].val = given[b][j].val
    BY DEF Renaming, Replaced
  <2>3. ASSUME NEW b \in Block
        PROVE  (/\ Len(code[b]) = Len(given[b])
                /\ DOMAIN code[b] = DOMAIN given[b]
                /\ \A j \in DOMAIN given[b] :
                     /\ code[b][j].op = given[b][j].op /\ code[b][j].var = given[b][j].var
                     /\ given[b][j].op = "load" => code[b][j].val = given[b][j].val
                     /\ given[b][j].op # "load" =>
                          LET val == given[b][j].val
                          IN code[b][j].val = IF PromVal(val) /\ Reached(val[2], val[3] + 1)
                                              THEN Meaning(h, val) ELSE val)'
    BY <1>2, <2>1, <2>2
  <2> QED
    BY <2>3 DEF Replaced
<1>9. HeldWell(h)'
  <2>1. ASSUME NEW b \in Block, NEW j \in 1..End(b), Reached(b, j)', NEW v \in Promotable
        PROVE  /\ h[b][j][v] \in Value /\ There(h[b][j][v], b, j)
               /\ ~PromVal(h[b][j][v]) /\ h[b][j][v][1] # "alloca"
    <3>1. CASE Reached(b, j)
      BY <1>4, <2>1, <3>1 DEF Renaming, HeldWell
    <3>2. CASE ~Reached(b, j)
      <4>1. j = 1
        <5>1. j \notin 2..End(b) + 1
          BY <1>3, <2>1, <3>2
        <5> QED
          BY <5>1, GivenCode
      <4>2. Reached(b, 1)' /\ ~Reached(b, 1)
        BY <2>1, <3>2, <4>1
      <4> QED
        BY <1>5, <2>1, <4>1, <4>2
    <3> QED
      BY <3>1, <3>2
  <2> QED
    BY <1>1, <1>2, <2>1 DEF HeldWell
<1>10. HeldSteps(h)'
  <2>1. ASSUME NEW v \in Promotable, Reached(Entry, 1)' PROVE h[Entry][1][v] = Undef
    <3>1. CASE Reached(Entry, 1)
      <4>1. h[Entry][1] = held[Entry][1]
        BY <1>4, <3>1, EntryIsBlock, GivenCode
      <4> QED
        BY <3>1, <4>1 DEF Renaming, HeldSteps
    <3>2. CASE ~Reached(Entry, 1)
      BY <1>5, <2>1, <3>2, EntryIsBlock
    <3> QED
      BY <3>1, <3>2
  <2>2. ASSUME NEW v \in Promotable, NEW b \in Block, NEW j \in DOMAIN given[b],
               Reached(b, j + 1)'
        PROVE  h[b][j + 1][v] = Effect(code[b][j], v, h[b][j][v])
    <3>1. Reached(b, j + 1)
      BY <1>3, <1>6, <2>2
    <3>2. held[b][j + 1][v] = Effect(code[b][j], v, held[b][j][v])
      BY <3>1 DEF Renaming, HeldSteps
    <3> QED
      BY <1>7, <3>1, <3>2
  <2>3. ASSUME NEW v \in Promotable, NEW b \in Block, Reached(b, 1)', <<b, v>> \in phis
        PROVE  h[b][1][v] = Phi(b, v)
    <3>1. CASE Reached(b, 1)
      <4>1. h[b][1] = held[b][1]
        BY <1>4, <3>1, GivenCode
      <4> QED
        BY <2>3, <3>1, <4>1 DEF Renaming, HeldSteps
    <3>2. CASE ~Reached(b, 1)
      BY <1>5, <2>3, <3>2
    <3> QED
      BY <3>1, <3>2
  <2>4. ASSUME NEW v \in Promotable, NEW d \in Block, NEW b \in kids[d], Reached(b, 1)',
               <<b, v>> \notin phis
        PROVE  h[b][1][v] = h[d][End(d)][v]
    <3>0. b \in Block
      BY Child
    <3>1. CASE Reached(b, 1)
      <4>1. h[b][1] = held[b][1]
        BY <1>4, <3>0, <3>1, GivenCode
      <4>2. Reached(d, End(d)) /\ End(d) \in 1..End(d)
        BY <3>1, ParentReached, GivenCode
      <4>3. h[d][End(d)] = held[d][End(d)]
        BY <1>4, <4>2
      <4> QED
        BY <2>4, <3>1, <4>1, <4>3 DEF Renaming, HeldSteps
    <3>2. CASE ~Reached(b, 1)
      BY <1>5, <2>4, <3>0, <3>2
    <3> QED
      BY <3>1, <3>2
  <2> QED
    BY <1>1, <1>2, <2>1, <2>2, <2>3, <2>4 DEF HeldSteps
<1>11. HeldIncoming(h)'
  <2> SUFFICES ASSUME NEW phi \in phis', NEW p \in DOMAIN incoming'[phi]
               PROVE  \E n : /\ n = End(p) /\ Reached(p, n + 1)'
                             /\ incoming'[phi][p] = h[p][n][phi[2]]
    BY IncomingNow, Zenon
  <2>1. phi \in phis /\ p \in DOMAIN incoming[phi]
    OBVIOUS
  <2>2. p \in Block /\ phi[2] \in Promotable
    BY <2>1 DEF TypeOK, Preds, Renaming
  <2>3. Reached(p, End(p) + 1) /\ incoming[phi][p] = held[p][End(p)][phi[2]]
    BY <2>1 DEF Renaming, HeldIncoming
  <2>4. PICK n \in Nat \ {0} : n = End(p)
    BY <2>2, GivenCode
  <2>5. n + 1 \in 2..End(p) + 1 /\ n + 1 \in Int /\ n \in Int /\ n <= n + 1
        /\ n \in 1..End(p)
    BY <2>4
  <2>6. Reached(p, n + 1)'
    BY <1>3, <2>2, <2>3, <2>4, <2>5
  <2>7. Reached(p, n)
    BY <2>2, <2>3, <2>4, <2>5, ReachedBefore
  <2>8. h[p][n] = held[p][n]
    BY <1>4, <2>2, <2>5, <2>7
  <2> QED
    BY <2>3, <2>4, <2>6, <2>8
<1> QED
  <2>1. promoted' = Promotable' /\ phis' \subseteq (Block \ {Entry}) \X Promotable'
    BY <1>2 DEF Renaming
  <2> QED
    BY <1>8, <1>9, <1>10, <1>11, <2>1 DEF Renaming

\* A call that returns takes what it has pushed from the stacks.
LEMMA ReturnTops ==
  ASSUME TypeOK, Walk, given' = given, Return, NEW n \in Nat \ {0}, n = Len(frames),
         n # 1, NEW held, NEW hts, Tops(held, hts)
  PROVE  \E t : Tops(held, t)'
<1>1. /\ phase = "Rename" /\ succ' = succ
  BY DEF Return, InTree
<1>2. DOMAIN frames = 1..n /\ frames[n] = Frame
  BY <1>1, Frames
<1>3. /\ Len(frames') = n - 1
      /\ DOMAIN frames' = 1..n - 1
      /\ \A k \in 1..n - 1 : frames'[k] = frames[k]
      /\ varStack' \in [Stack -> Seq(Value)]
  BY Up
<1>31. ASSUME NEW v \in Stack
      PROVE  /\ Len(varStack[v]) \in Nat /\ Frame.pushed[v] \in Nat
             /\ Frame.pushed[v] <= Len(varStack[v]) =>
                  Len(varStack'[v]) = Len(varStack[v]) - Frame.pushed[v]
             /\ \A j \in DOMAIN varStack'[v] :
                  j \in DOMAIN varStack[v] /\ varStack'[v][j] = varStack[v][j]
  BY <1>31, Up
<1>4. hts \in [1..n -> [Stack -> Nat]] /\ \A v \in Stack : hts[n][v] = Len(varStack[v])
  BY <1>2 DEF Tops, Heights
<1>5. \A v \in Stack : \A k \in 1..n :
        /\ \A l \in 1..k : hts[l][v] <= hts[k][v]
        /\ k # 1 => hts[k][v] = hts[k - 1][v] + frames[k].pushed[v]
  BY <1>2 DEF Tops, Heights
<1>6. \A v \in Promotable : \A k \in 1..n :
        held[frames[k].block][Point(frames[k])][v] = Nth(varStack[v], hts[k][v])
  BY <1>2 DEF Tops
<1>7. PICK m \in Nat \ {0} : m = n - 1 /\ n = m + 1 /\ 1..m \subseteq 1..n /\ n \in 1..n /\ m \in 1..n
  <2>1. n - 1 \in Nat \ {0} /\ n = (n - 1) + 1 /\ 1..n - 1 \subseteq 1..n /\ n \in 1..n
        /\ n - 1 \in 1..n
    OBVIOUS
  <2> QED
    BY <2>1
<1>8. PICK t \in [1..m -> [Stack -> Nat]] : \A k \in 1..m : t[k] = hts[k]
  <2> DEFINE u == [k \in 1..m |-> hts[k]]
  <2>1. u \in [1..m -> [Stack -> Nat]] /\ \A k \in 1..m : u[k] = hts[k]
    BY <1>4, <1>7
  <2> QED
    BY <2>1
<1>9. ASSUME NEW v \in Stack PROVE hts[m][v] = Len(varStack'[v]) /\ hts[m][v] \in Nat
  <2>1. PICK a \in Nat : a = hts[m][v]
    BY <1>4, <1>7
  <2>2. PICK b \in Nat : b = Frame.pushed[v]
    BY <1>31
  <2>3. PICK c \in Nat : c = Len(varStack[v])
    BY <1>31
  <2>4. c = a + b
    BY <1>2, <1>4, <1>5, <1>7, <2>1, <2>2, <2>3
  <2>5. b <= c /\ c - b = a
    BY <2>4
  <2>6. Len(varStack'[v]) = c - b
    BY <1>31, <2>2, <2>3, <2>5
  <2> QED
    BY <2>1, <2>5, <2>6
<1>10. ASSUME NEW v \in Promotable, NEW k \in 1..m
       PROVE  held[frames'[k].block][Point(frames'[k])][v] = Nth(varStack'[v], t[k][v])
  <2>1. v \in Stack
    BY DEF Promotable, Stack
  <2>2. frames'[k] = frames[k] /\ t[k] = hts[k] /\ k \in 1..n
    BY <1>3, <1>7, <1>8
  <2>3. PICK c \in Nat : c = hts[k][v]
    BY <1>4, <2>1, <2>2
  <2>4. c <= Len(varStack'[v])
    <3>1. m \in 1..n /\ k \in 1..m
      BY <1>7
    <3>2. hts[k][v] <= hts[m][v]
      BY <1>5, <2>1, <3>1
    <3>3. hts[m][v] = Len(varStack'[v])
      BY <1>9, <2>1
    <3> QED
      BY <2>3, <3>2, <3>3
  <2>5. Nth(varStack'[v], c) = Nth(varStack[v], c)
    <3>1. CASE c = 0
      BY <3>1 DEF Nth
    <3>2. CASE c # 0
      <4>1. varStack'[v] \in Seq(Value)
        BY <1>3, <2>1
      <4>2. c \in DOMAIN varStack'[v]
        BY <2>4, <3>2, <4>1, LenProperties
      <4> QED
        BY <1>31, <2>1, <3>2, <4>2 DEF Nth
    <3> QED
      BY <3>1, <3>2
  <2> QED
    BY <1>6, <2>2, <2>3, <2>5
<1>11. \A v \in Stack : t[m][v] = Len(varStack'[v])
  BY <1>7, <1>8, <1>9
<1>12. ASSUME NEW v \in Stack, NEW k \in 1..m
       PROVE  /\ \A l \in 1..k : t[l][v] <= t[k][v]
              /\ k # 1 => t[k][v] = t[k - 1][v] + frames'[k].pushed[v]
  <2>1. k \in 1..n /\ (k # 1 => k - 1 \in 1..m) /\ \A l \in 1..k : l \in 1..m
    BY <1>7
  <2>2. t[k] = hts[k] /\ (k # 1 => t[k - 1] = hts[k - 1]) /\ \A l \in 1..k : t[l] = hts[l]
    BY <1>8, <2>1
  <2>3. frames'[k] = frames[k]
    BY <1>3, <1>7
  <2>4. /\ \A l \in 1..k : hts[l][v] <= hts[k][v]
        /\ k # 1 => hts[k][v] = hts[k - 1][v] + frames[k].pushed[v]
    BY <1>5, <2>1
  <2> QED
    BY <2>2, <2>3, <2>4
<1>13. Len(frames') = m /\ DOMAIN frames' = 1..m
  BY <1>3, <1>7
<1>14. Tops(held, t)'
  BY <1>1, <1>10, <1>11, <1>12, <1>13, TopsNow
<1> QED
  BY <1>14

\* The last call returns when all the function was renamed.
LEMMA ReturnFirst ==
  ASSUME IInv, GivenIs, FirstPass, runs = 0, given' = given, Return
  PROVE  FirstPass'
<1>1. TypeOK /\ Walk /\ PhisPlaced
  BY DEF IInv
<1>2. /\ phase = "Rename"
      /\ succ' = succ /\ kids' = kids /\ code' = code /\ phis' = phis
      /\ promoted' = promoted /\ incoming' = incoming /\ df' = df /\ mine' = mine
  BY DEF Return, InTree, places
<1>3. PICK held, hts : Renaming(held) /\ Tops(held, hts) /\ KidsLeft
  BY <1>2 DEF FirstPass
<1>4. SameLength
  BY <1>3, ReplacedAlike DEF Renaming
<1>5. /\ phase' \in {"Rename", "Erase"}
      /\ phase' = "Rename" <=> Len(frames) # 1
      /\ \A b \in Block : \A j \in 1..End(b) + 1 : Reached(b, j)' <=> Reached(b, j)
      /\ Len(frames) # 1 => Frame'.at > End(Frame'.block)
  BY <1>1, <1>4, ReachedUp
<1>6. Extends(held, held)
  <2>1. \A b \in Block : 1 \in 1..End(b) + 1 /\ 2..End(b) + 1 \subseteq 1..End(b) + 1
    BY GivenCode
  <2> QED
    BY <1>5, <2>1 DEF Extends
<1>7. Renaming(held)'
  BY <1>1, <1>2, <1>3, <1>6, RenamesOn
<1>8. CASE phase' = "Erase"
  <2>1. AllFrontiers
    BY <1>1, <1>2 DEF PhisPlaced, Placed, AllFrontiers
  <2>2. AllFrontiers'
    BY <1>2, <2>1 DEF AllFrontiers, HoldsFrontiers, StoreBlocks, PhiBlocks
  <2> QED
    BY <1>7, <1>8, <2>2 DEF FirstPass
<1>9. CASE phase' = "Rename"
  <2>1. PICK n \in Nat \ {0} : n = Len(frames)
    BY <1>1, <1>2, Frames
  <2>2. PICK t : Tops(held, t)'
    BY <1>1, <1>3, <1>5, <1>9, <2>1, ReturnTops
  <2>3. KidsLeft'
    <3>1. \A b : End(b)' = End(b)
      BY <1>2, SameGiven
    <3>2. Frame'.at > End(Frame'.block)
      BY <1>5, <1>9
    <3>3. ~(Frame'.at <= End(Frame'.block))
      <4>1. End(Frame'.block) \in Int
        BY DEF End
      <4>2. Frame'.at \in Nat
        <5>1. PICK m : m = n - 1 /\ m \in 1..n
          BY <1>5, <1>9, <2>1
        <5>2. Frame' = frames[m]
          BY <1>1, <1>4, <1>5, <1>9, <2>1, <5>1, ReachedUp
        <5> QED
          BY <1>1, <1>2, <2>1, <5>1, <5>2, Frames
      <4> QED
        BY <3>2, <4>1, <4>2
    <3>4. \A b : End(b) = End(b)'
      BY <3>1
    <3>5. ~(Frame.at <= End(Frame.block))'
      BY <3>3, <3>4
    <3> QED
      BY <3>5 DEF KidsLeft
  <2> QED
    BY <1>7, <1>9, <2>2, <2>3 DEF FirstPass
<1> QED
  BY <1>5, <1>8, <1>9

\* The phi node of an alloca is pushed at the start of its block.
LEMMA PushedTop ==
  ASSUME TypeOK, mine = phis, NEW b \in Block, NEW v \in Var
  PROVE  /\ Len(PushPhis(b)[v]) \in Nat
         /\ Nth(PushPhis(b)[v], Len(PushPhis(b)[v]))
              = IF <<b, v>> \in phis THEN Phi(b, v) ELSE Nth(varStack[v], Len(varStack[v]))
<1>1. v \in Stack
  BY DEF Stack
<1>2. PICK m \in Nat : m = Len(varStack[v])
  BY <1>1, LenProperties DEF TypeOK
<1>3. PushPhis(b)[v] \in Seq(Value)
  BY <1>1, Push
<1>4. PICK s \in Seq(Value) : s = PushPhis(b)[v]
  BY <1>3
<1>5. PICK l \in Nat : l = Len(s) /\ DOMAIN s = 1..l
  BY <1>4, LenProperties
<1>6. /\ l = m + Cardinality(PhisFor(b, v))
      /\ \A j \in 1..m : s[j] = varStack[v][j]
      /\ \A j \in m + 1..l : \E phi \in PhisFor(b, v) : s[j] = Phi(phi[1], phi[2])
  <2>1. Call(b).pushed[v] = Cardinality(PhisFor(b, v))
    BY <1>1 DEF Call, TypeOK
  <2> QED
    BY <1>1, <1>2, <1>4, <1>5, <2>1, Push
<1>7. PhisFor(b, v) = IF <<b, v>> \in phis THEN {<<b, v>>} ELSE {}
  <2>1. \A phi \in phis : phi = <<phi[1], phi[2]>>
    BY DEF TypeOK
  <2>2. \A phi : phi \in PhisFor(b, v) <=> phi \in phis /\ phi[1] = b /\ phi[2] = v
    BY DEF PhisFor, PhisOf, AllocaOf
  <2> QED
    BY <2>1, <2>2
<1>8. CASE <<b, v>> \in phis
  <2>1. Cardinality(PhisFor(b, v)) = 1
    BY <1>7, <1>8, FS_Singleton
  <2>2. l = m + 1 /\ l \in m + 1..l /\ l # 0
    BY <1>6, <2>1
  <2>3. PICK phi \in PhisFor(b, v) : s[l] = Phi(phi[1], phi[2])
    BY <1>6, <2>2
  <2>4. s[l] = Phi(b, v)
    BY <1>7, <1>8, <2>3
  <2> QED
    BY <1>4, <1>5, <1>8, <2>2, <2>4 DEF Nth
<1>9. CASE <<b, v>> \notin phis
  <2>1. Cardinality(PhisFor(b, v)) = 0
    BY <1>7, <1>9, FS_EmptySet
  <2>2. l = m
    BY <1>6, <2>1
  <2>3. l # 0 => l \in 1..m
    BY <2>2
  <2> QED
    BY <1>2, <1>4, <1>5, <1>6, <1>9, <2>2, <2>3 DEF Nth
<1> QED
  BY <1>8, <1>9

\* Values are held at the start of a child as they were at the end of its
\* parent, but for the phi nodes.
Below(held, h, Y) ==
  /\ \A b \in Block : \A j \in Nat : b # Y => h[b][j] = held[b][j]
  /\ \A v \in Promotable :
       h[Y][1][v] = IF <<Y, v>> \in phis THEN Phi(Y, v)
                    ELSE held[Frame.block][End(Frame.block)][v]

\* A child that is called is one start more.
LEMMA BelowExtends ==
  ASSUME TypeOK, Walk, GivenIs, given' = given, NEW Y \in Block, Descend(Y),
         NEW held, Renaming(held), NEW h, Below(held, h, Y)
  PROVE  Extends(held, h)
<1>1. /\ \A b \in Block : \A j \in 1..End(b) + 1 :
           Reached(b, j)' <=> Reached(b, j) \/ (b = Y /\ j = 1)
      /\ \A j : ~Reached(Y, j)
      /\ phase = "Rename"
      /\ Reached(Frame.block, End(Frame.block)) /\ Y \in kids[Frame.block]
  BY ReachedDown, ReplacedAlike DEF Renaming
<1>2. Frame.block \in Block
  BY <1>1, LastCall
<1>3. /\ Y # Frame.block /\ Dom(Frame.block, Y) /\ Dom(Y, Y) /\ Y # Entry
  <2>1. Y # Frame.block /\ Dom(Frame.block, Y) /\ Dom(Y, Y)
    BY <1>1, <1>2, Child, DomSelf
  <2>2. Y # Entry
    BY <1>2, <2>1, DomEntry, DomAntisymmetric
  <2> QED
    BY <2>1, <2>2
<1>4. PICK n \in Nat \ {0} : n = End(Frame.block)
  BY <1>2, GivenCode
<1>5. /\ \A v \in Promotable :
           h[Y][1][v] = IF <<Y, v>> \in phis THEN Phi(Y, v) ELSE held[Frame.block][n][v]
      /\ \A b \in Block : \A j \in Nat : b # Y => h[b][j] = held[b][j]
  BY <1>4 DEF Below
<1>6. \A b \in Block : /\ 2..End(b) + 1 \subseteq 1..End(b) + 1 /\ 1 \notin 2..End(b) + 1
                       /\ 1..End(b) \subseteq 1..End(b) + 1 /\ 1 \in 1..End(b) + 1
                       /\ 1..End(b) \subseteq Nat
  BY GivenCode
<1>7. ASSUME NEW v \in Promotable
      PROVE  /\ h[Y][1][v] \in Value /\ There(h[Y][1][v], Y, 1)
             /\ ~PromVal(h[Y][1][v]) /\ h[Y][1][v][1] # "alloca"
  <2>1. CASE <<Y, v>> \in phis
    <3>1. h[Y][1][v] = Phi(Y, v)
      BY <1>5, <2>1
    <3>2. Phi(Y, v) \in Value /\ Phi(Y, v)[1] = "phi" /\ Phi(Y, v)[2] = Y
      BY MemToRegAssumption DEF Phi, Value, Block, Promotable, Var
    <3> QED
      BY <1>3, <3>1, <3>2 DEF There, PromVal
  <2>2. CASE <<Y, v>> \notin phis
    <3>1. PICK w : w = held[Frame.block][n][v]
      OBVIOUS
    <3>2. h[Y][1][v] = w
      BY <1>5, <2>2, <3>1
    <3>3. n \in 1..End(Frame.block) /\ Reached(Frame.block, n)
      BY <1>1, <1>4
    <3>4. w \in Value /\ There(w, Frame.block, n) /\ ~PromVal(w) /\ w[1] # "alloca"
      BY <1>2, <3>1, <3>3 DEF Renaming, HeldWell
    <3>5. There(w, Y, 1)
      <4> SUFFICES ASSUME w[1] \in {"load", "phi"}
                   PROVE  Dom(w[2], Y) /\ w[2] # Y
        BY DEF There
      <4>1. Dom(w[2], Frame.block)
        BY <3>4 DEF There
      <4>2. Dom(w[2], Y)
        BY <1>2, <1>3, <4>1, DomTransitive
      <4>3. w[2] # Y
        BY <1>2, <1>3, <4>1, DomAntisymmetric
      <4> QED
        BY <4>2, <4>3
    <3> QED
      BY <3>2, <3>4, <3>5
  <2> QED
    BY <2>1, <2>2
<1>8. ASSUME NEW v \in Promotable, NEW d \in Block, Y \in kids[d], <<Y, v>> \notin phis
      PROVE  h[Y][1][v] = h[d][End(d)][v]
  <2>1. d = Frame.block
    <3>1. d # Y /\ Dom(d, Y) /\ (Dom(d, Y) <=> Dom(d, Frame.block))
      BY <1>1, <1>2, <1>8, Child
    <3>2. Dom(Frame.block, Y) <=> Dom(Frame.block, d)
      BY <1>2, <1>3, <1>8, Child
    <3> QED
      BY <1>2, <1>3, <3>1, <3>2, DomAntisymmetric
  <2> QED
    BY <1>2, <1>3, <1>4, <1>5, <1>8, <2>1
<1>9. ASSUME NEW b \in Block, Reached(b, 1)', ~Reached(b, 1)
      PROVE  b = Y
  BY <1>1, <1>6, <1>9
<1>10. \A b \in Block : \A j \in 2..End(b) + 1 : Reached(b, j)' <=> Reached(b, j)
  BY <1>1, <1>6
<1>11. \A b \in Block : Reached(b, 1) => Reached(b, 1)'
  BY <1>1, <1>6
<1>12. \A b \in Block : \A j \in 1..End(b) : Reached(b, j) => h[b][j] = held[b][j]
  BY <1>1, <1>5, <1>6
<1>13. \A v \in Promotable : <<Y, v>> \in phis => h[Y][1][v] = Phi(Y, v)
  BY <1>5
<1>14. \A b \in Block : Reached(b, 1)' /\ ~Reached(b, 1) => \A v \in Promotable :
       /\ h[b][1][v] \in Value /\ There(h[b][1][v], b, 1)
       /\ ~PromVal(h[b][1][v]) /\ h[b][1][v][1] # "alloca"
       /\ b = Entry => h[b][1][v] = Undef
       /\ <<b, v>> \in phis => h[b][1][v] = Phi(b, v)
       /\ \A d \in Block : b \in kids[d] /\ <<b, v>> \notin phis =>
            h[b][1][v] = h[d][End(d)][v]
  <2> SUFFICES ASSUME NEW b \in Block, Reached(b, 1)', ~Reached(b, 1), NEW v \in Promotable
               PROVE  /\ h[b][1][v] \in Value /\ There(h[b][1][v], b, 1)
                      /\ ~PromVal(h[b][1][v]) /\ h[b][1][v][1] # "alloca"
                      /\ b = Entry => h[b][1][v] = Undef
                      /\ <<b, v>> \in phis => h[b][1][v] = Phi(b, v)
                      /\ \A d \in Block : b \in kids[d] /\ <<b, v>> \notin phis =>
                           h[b][1][v] = h[d][End(d)][v]
    OBVIOUS
  <2>1. b = Y
    BY <1>9
  <2> QED
    BY <1>3, <1>7, <1>8, <1>13, <2>1
<1> QED
  BY <1>10, <1>11, <1>12, <1>14 DEF Extends

\* The phi nodes of the child are pushed on the stacks of their allocas.
LEMMA DescendTops ==
  ASSUME TypeOK, Walk, GivenIs, mine = phis, given' = given, NEW Y \in Block, Descend(Y),
         NEW held, Renaming(held), NEW h, Below(held, h, Y), NEW hts, Tops(held, hts)
  PROVE  \E t : Tops(h, t)'
<1>1. /\ Y \in kids[Frame.block] /\ phase = "Rename" /\ succ' = succ
      /\ Frame.at > End(Frame.block) /\ varStack' = PushPhis(Y)
  BY ReachedDown, ReplacedAlike DEF Renaming, Descend
<1>2. PICK n \in Nat \ {0} : n = Len(frames)
  BY <1>1, Frames
<1>3. /\ DOMAIN frames = 1..n /\ frames[n] = Frame /\ Frame.block \in Block
      /\ \A k \in 1..n : frames[k].block \in Block /\ frames[k].at \in Nat
  BY <1>1, <1>2, Frames
<1>4. PICK m \in Nat \ {0} :
        /\ m = n + 1 /\ 1..n \subseteq 1..m /\ m \notin 1..n /\ n \in 1..n /\ m \in 1..m
        /\ \A k \in 1..m : k # m => k \in 1..n
        /\ m - 1 = n
  <2>1. /\ n + 1 \in Nat \ {0} /\ 1..n \subseteq 1..n + 1 /\ n + 1 \notin 1..n /\ n \in 1..n
        /\ n + 1 \in 1..n + 1 /\ (n + 1) - 1 = n
        /\ \A k \in 1..n + 1 : k # n + 1 => k \in 1..n
    OBVIOUS
  <2> QED
    BY <2>1
<1>5. /\ Len(frames') = m /\ DOMAIN frames' = 1..m
      /\ \A k \in 1..n : /\ frames'[k].block = frames[k].block
                         /\ frames'[k].at = frames[k].at
                         /\ frames'[k].pushed = frames[k].pushed
      /\ frames'[m] = Call(Y)
  BY <1>2, <1>4, Down
<1>6. /\ Call(Y).block = Y /\ Call(Y).at = 1
      /\ varStack' \in [Stack -> Seq(Value)]
      /\ \A v \in Stack :
           /\ Len(varStack'[v]) = Len(varStack[v]) + Call(Y).pushed[v]
           /\ \A j \in 1..Len(varStack[v]) : varStack'[v][j] = varStack[v][j]
  BY <1>1, Push
<1>7. ASSUME NEW v \in Stack
      PROVE  Len(varStack[v]) \in Nat /\ Len(varStack'[v]) \in Nat /\ Call(Y).pushed[v] \in Nat
  <2>1. Call(Y).pushed \in [Stack -> Nat]
    BY Push DEF Activation
  <2>2. varStack[v] \in Seq(Value) /\ varStack'[v] \in Seq(Value)
    BY <1>6 DEF TypeOK
  <2> QED
    BY <2>1, <2>2, LenProperties
<1>8. hts \in [1..n -> [Stack -> Nat]] /\ \A v \in Stack : hts[n][v] = Len(varStack[v])
  BY <1>2, <1>3 DEF Tops, Heights
<1>9. \A v \in Stack : \A k \in 1..n :
        /\ \A l \in 1..k : hts[l][v] <= hts[k][v]
        /\ k # 1 => hts[k][v] = hts[k - 1][v] + frames[k].pushed[v]
  BY <1>2, <1>3 DEF Tops, Heights
<1>10. \A v \in Promotable : \A k \in 1..n :
         held[frames[k].block][Point(frames[k])][v] = Nth(varStack[v], hts[k][v])
  BY <1>3 DEF Tops
<1>11. PICK new \in [Stack -> Nat] : \A v \in Stack : new[v] = Len(varStack'[v])
  <2> DEFINE u == [v \in Stack |-> Len(varStack'[v])]
  <2>1. u \in [Stack -> Nat] /\ \A v \in Stack : u[v] = Len(varStack'[v])
    BY <1>7
  <2> QED
    BY <2>1
<1>12. PICK t \in [1..m -> [Stack -> Nat]] : t[m] = new /\ \A k \in 1..n : t[k] = hts[k]
  <2> DEFINE u == [k \in 1..m |-> IF k = m THEN new ELSE hts[k]]
  <2>1. u \in [1..m -> [Stack -> Nat]] /\ u[m] = new /\ \A k \in 1..n : u[k] = hts[k]
    BY <1>4, <1>8
  <2> QED
    BY <2>1
<1>13. \A v \in Stack : t[m][v] = Len(varStack'[v])
  BY <1>11, <1>12
<1>14. ASSUME NEW v \in Stack, NEW k \in 1..m, NEW l \in 1..k PROVE t[l][v] <= t[k][v]
  <2>1. CASE k # m
    <3>1. k \in 1..n /\ l \in 1..n
      BY <1>4, <2>1
    <3> QED
      BY <1>9, <1>12, <3>1
  <2>2. CASE k = m /\ l = m
    BY <1>7, <1>13, <2>2
  <2>3. CASE k = m /\ l # m
    <3>1. l \in 1..n
      BY <1>4, <2>3
    <3>2. t[l][v] <= Len(varStack[v]) /\ t[l][v] \in Nat
      BY <1>4, <1>8, <1>9, <1>12, <3>1
    <3>3. Len(varStack[v]) <= Len(varStack'[v])
      <4>1. PICK a \in Nat : a = Len(varStack[v])
        BY <1>7
      <4>2. PICK c \in Nat : c = Call(Y).pushed[v]
        BY <1>7
      <4> QED
        BY <1>6, <4>1, <4>2
    <3> QED
      BY <1>7, <1>13, <2>3, <3>2, <3>3
  <2> QED
    BY <2>1, <2>2, <2>3
<1>15. ASSUME NEW v \in Stack, NEW k \in 1..m, k # 1
       PROVE  t[k][v] = t[k - 1][v] + frames'[k].pushed[v]
  <2>1. CASE k # m
    <3>1. k \in 1..n /\ k - 1 \in 1..n
      BY <1>4, <1>15, <2>1
    <3> QED
      BY <1>5, <1>9, <1>12, <1>15, <3>1
  <2>2. CASE k = m
    BY <1>4, <1>5, <1>6, <1>8, <1>12, <1>13, <2>2
  <2> QED
    BY <2>1, <2>2
<1>16. ASSUME NEW k \in 1..n PROVE frames[k].block # Y
  <2>1. Dom(frames[k].block, Frame.block)
    BY <1>1, <1>2, FramesDominate
  <2>2. Y # Frame.block /\ Dom(Frame.block, Y)
    BY <1>1, <1>3, Child
  <2> QED
    BY <1>3, <2>1, <2>2, DomAntisymmetric
<1>17. ASSUME NEW v \in Promotable, NEW k \in 1..n
       PROVE  h[frames'[k].block][Point(frames'[k])][v] = Nth(varStack'[v], t[k][v])
  <2>1. v \in Stack
    BY DEF Promotable, Stack
  <2>2. frames'[k].block = frames[k].block /\ Point(frames'[k]) = Point(frames[k])
    BY <1>5 DEF Point
  <2>3. frames[k].block \in Block /\ frames[k].block # Y /\ Point(frames[k]) \in Nat
    BY <1>3, <1>16, GivenCode DEF Point
  <2>4. h[frames[k].block][Point(frames[k])] = held[frames[k].block][Point(frames[k])]
    BY <2>3 DEF Below
  <2>5. PICK c \in Nat : c = hts[k][v]
    BY <1>8, <2>1
  <2>6. c <= Len(varStack[v])
    BY <1>4, <1>8, <1>9, <2>1, <2>5
  <2>7. Nth(varStack'[v], c) = Nth(varStack[v], c)
    <3>1. c # 0 => c \in 1..Len(varStack[v])
      BY <1>7, <2>1, <2>6
    <3> QED
      BY <1>6, <2>1, <3>1 DEF Nth
  <2> QED
    BY <1>10, <1>12, <2>2, <2>4, <2>5, <2>7
<1>18. ASSUME NEW v \in Promotable
       PROVE  h[frames'[m].block][Point(frames'[m])][v] = Nth(varStack'[v], t[m][v])
  <2>1. v \in Stack /\ v \in Var
    BY DEF Promotable, Stack
  <2>2. frames'[m].block = Y /\ Point(frames'[m]) = 1
    <3>1. frames'[m].block = Y /\ frames'[m].at = 1
      BY <1>5, <1>6
    <3>2. 1 <= End(Y)
      BY GivenCode
    <3> QED
      BY <3>1, <3>2 DEF Point
  <2>3. h[Y][1][v] = IF <<Y, v>> \in phis THEN Phi(Y, v)
                     ELSE held[Frame.block][End(Frame.block)][v]
    BY DEF Below
  <2>4. Point(Frame) = End(Frame.block)
    <3>1. ~(Frame.at <= End(Frame.block))
      <4>1. Frame.at \in Nat /\ End(Frame.block) \in Int
        BY <1>1, LastCall DEF End
      <4> QED
        BY <1>1, <4>1
    <3> QED
      BY <3>1 DEF Point
  <2>5. held[Frame.block][End(Frame.block)][v] = Nth(varStack[v], Len(varStack[v]))
    BY <1>3, <1>4, <1>8, <1>10, <2>1, <2>4
  <2>6. Nth(varStack'[v], Len(varStack'[v]))
          = IF <<Y, v>> \in phis THEN Phi(Y, v) ELSE Nth(varStack[v], Len(varStack[v]))
    BY <1>1, <2>1, PushedTop
  <2> QED
    BY <1>13, <2>1, <2>2, <2>3, <2>5, <2>6
<1>19. \A v \in Promotable : \A k \in 1..m :
         h[frames'[k].block][Point(frames'[k])][v] = Nth(varStack'[v], t[k][v])
  BY <1>4, <1>17, <1>18
<1>20. \A v \in Stack : \A k \in 1..m :
         /\ \A l \in 1..k : t[l][v] <= t[k][v]
         /\ k # 1 => t[k][v] = t[k - 1][v] + frames'[k].pushed[v]
  BY <1>14, <1>15
<1>21. Tops(h, t)'
  BY <1>1, <1>5, <1>13, <1>19, <1>20, TopsNow
<1> QED
  BY <1>21

\* The call of replaceUses() on a child.
LEMMA DescendFirst ==
  ASSUME IInv, GivenIs, FirstPass, runs = 0, given' = given, NEW Y \in Block, Descend(Y)
  PROVE  FirstPass'
<1>1. TypeOK /\ Walk /\ mine = phis
  BY DEF IInv, FirstRun
<1>2. /\ phase = "Rename" /\ phase' = phase
      /\ succ' = succ /\ kids' = kids /\ code' = code /\ phis' = phis
      /\ promoted' = promoted /\ incoming' = incoming
  BY DEF Descend, InTree, places
<1>3. PICK held, hts : Renaming(held) /\ Tops(held, hts) /\ KidsLeft
  BY <1>2 DEF FirstPass
<1>4. PICK h : Below(held, h, Y)
  <2> DEFINE start == [v \in Promotable |-> IF <<Y, v>> \in phis THEN Phi(Y, v)
                                            ELSE held[Frame.block][End(Frame.block)][v]]
             u == [b \in Block |-> [j \in Nat |->
                     IF b = Y /\ j = 1 THEN start ELSE held[b][j]]]
  <2>1. u[Y][1] = start /\ \A b \in Block : \A j \in Nat : b # Y => u[b][j] = held[b][j]
    OBVIOUS
  <2>2. \A v \in Promotable : start[v] = IF <<Y, v>> \in phis THEN Phi(Y, v)
                                         ELSE held[Frame.block][End(Frame.block)][v]
    OBVIOUS
  <2> HIDE DEF start, u
  <2>3. Below(held, u, Y)
    BY <2>1, <2>2 DEF Below
  <2> QED
    BY <2>3
<1>5. Renaming(h)'
  BY <1>1, <1>2, <1>3, <1>4, BelowExtends, RenamesOn
<1>6. \E t : Tops(h, t)'
  BY <1>1, <1>3, <1>4, DescendTops
<1>7. KidsLeft'
  <2>1. Frame' = Call(Y)
    BY <1>1, <1>3, ReachedDown, ReplacedAlike DEF Renaming
  <2>2. Frame'.block = Y /\ Frame'.kids = kids[Y]
    BY <1>1, <2>1, Push
  <2> QED
    BY <1>2, <2>2 DEF KidsLeft
<1> QED
  BY <1>2, <1>5, <1>6, <1>7 DEF FirstPass

-----------------------------------------------------------------------------
(* The beginning of the walk                                               *)

\* Nothing is renamed when the walk begins, and the allocas are undefined.
LEMMA BeginRenames ==
  ASSUME TypeOK, Walk, GivenIs, Fresh, given' = given, BeginRenaming,
         NEW h, \A v \in Promotable : h[Entry][1][v] = Undef
  PROVE  Renaming(h)'
<1>1. /\ todo = {} /\ succ' = succ /\ kids' = kids /\ code' = code /\ phis' = phis
      /\ promoted' = promoted /\ incoming' = incoming
  BY DEF BeginRenaming, places
<1>2. /\ code = given /\ promoted = Promotable
      /\ \A phi \in phis : /\ phi[1] # Entry /\ phi[2] \in Promotable
                           /\ DOMAIN incoming[phi] = {}
  BY <1>1 DEF Fresh
<1>3. \A b : End(b)' = End(b)
  BY <1>1, SameGiven
<1>4. Promotable' = Promotable /\ (\A val : PromVal(val)' <=> PromVal(val))
      /\ (\A val : Meaning(h, val)' = Meaning(h, val))
      /\ (\A val, b, j : There(val, b, j)' <=> There(val, b, j))
  BY <1>1, SameGiven
<1>5. \A b \in Block : \A j \in 1..End(b) + 1 : Reached(b, j)' <=> b = Entry /\ j = 1
  BY ReachedBegin
<1>6. ASSUME NEW b \in Block, NEW j \in DOMAIN given[b]
      PROVE  j + 1 \in 1..End(b) + 1 /\ j + 1 # 1
  BY GivenCode DEF End
<1>7. Replaced(h)'
  <2>1. ASSUME NEW val, PromVal(val)
        PROVE  ~Reached(val[2], val[3] + 1)'
    <3>1. PICK b \in Block : b = val[2]
      BY <2>1 DEF PromVal
    <3>2. PICK j : j = val[3] + 1 /\ j \in 1..End(b) + 1 /\ j # 1
      BY <1>6, <2>1, <3>1 DEF PromVal
    <3>3. ~Reached(b, j)'
      BY <1>5, <3>2
    <3> QED
      BY <3>1, <3>2, <3>3, Zenon
  <2>2. ASSUME NEW b \in Block
        PROVE  (/\ Len(code[b]) = Len(given[b])
                /\ DOMAIN code[b] = DOMAIN given[b]
                /\ \A j \in DOMAIN given[b] :
                     /\ code[b][j].op = given[b][j].op /\ code[b][j].var = given[b][j].var
                     /\ given[b][j].op = "load" => code[b][j].val = given[b][j].val
                     /\ given[b][j].op # "load" =>
                          LET val == given[b][j].val
                          IN code[b][j].val = IF PromVal(val) /\ Reached(val[2], val[3] + 1)
                                              THEN Meaning(h, val) ELSE val)'
    BY <1>1, <1>2, <1>4, <2>1
  <2> QED
    BY <2>2 DEF Replaced
<1>8. HeldWell(h)'
  <2>1. ASSUME NEW b \in Block, NEW j \in 1..End(b), Reached(b, j)', NEW v \in Promotable
        PROVE  /\ h[b][j][v] \in Value /\ There(h[b][j][v], b, j)
               /\ ~PromVal(h[b][j][v]) /\ h[b][j][v][1] # "alloca"
    <3>1. b = Entry /\ j = 1
      <4>1. j \in 1..End(b) + 1
        BY GivenCode
      <4> QED
        BY <1>5, <2>1, <4>1
    <3>2. h[b][j][v] = Undef
      BY <3>1
    <3>3. Undef \in Value /\ Undef[1] = "undef"
      BY DEF Undef, Value
    <3> QED
      BY <3>2, <3>3 DEF There, PromVal
  <2> QED
    BY <1>3, <1>4, <2>1 DEF HeldWell
<1>9. HeldSteps(h)'
  <2>1. ASSUME NEW b \in Block, NEW j \in DOMAIN given[b]
        PROVE  ~Reached(b, j + 1)'
    <3>1. PICK i : i = j + 1 /\ i \in 1..End(b) + 1 /\ i # 1
      BY <1>6
    <3>2. ~Reached(b, i)'
      BY <1>5, <3>1
    <3> QED
      BY <3>1, <3>2, Zenon
  <2>2. \A b \in Block : Reached(b, 1)' <=> b = Entry
    <3>1. \A b \in Block : 1 \in 1..End(b) + 1
      BY GivenCode
    <3> QED
      BY <1>5, <3>1
  <2>3. \A v : <<Entry, v>> \notin phis
    BY <1>2
  <2>4. \A d \in Block : kids[d] \subseteq Block /\ Entry \notin kids[d]
    BY EntryIsBlock, DomEntry, Child
  <2>5. ASSUME NEW v \in Promotable
        PROVE  /\ Reached(Entry, 1)' => h[Entry][1][v] = Undef
               /\ \A b \in Block : Reached(b, 1)' => <<b, v>> \notin phis
               /\ \A d \in Block : \A b \in kids[d] : ~Reached(b, 1)'
    BY <2>2, <2>3, <2>4
  <2> QED
    BY <1>1, <1>3, <1>4, <2>1, <2>5 DEF HeldSteps
<1>10. HeldIncoming(h)'
  BY <1>1, <1>2 DEF HeldIncoming
<1> QED
  <2>1. promoted' = Promotable'
    BY <1>1, <1>2, <1>4
  <2>2. phis' \subseteq (Block \ {Entry}) \X Promotable'
    BY <1>1, <1>2, <1>4 DEF TypeOK
  <2> QED
    BY <1>7, <1>8, <1>9, <1>10, <2>1, <2>2 DEF Renaming

\* The call of replaceUses() on the entry block.
LEMMA BeginRenamingFirst ==
  ASSUME IInv, GivenIs, FirstPass, runs = 0, given' = given, BeginRenaming
  PROVE  FirstPass'
<1>1. TypeOK /\ Walk /\ mine = phis
  BY DEF IInv, FirstRun
<1>2. /\ phase = "Place" /\ phase' = "Rename" /\ succ' = succ /\ varStack' = PushPhis(Entry)
      /\ kids' = kids
  BY DEF BeginRenaming
<1>3. Fresh
  BY <1>2 DEF FirstPass
<1>4. PICK h : \A v \in Promotable : h[Entry][1][v] = Undef
  <2> DEFINE u == [b \in Block |-> [j \in Nat |-> [v \in Promotable |-> Undef]]]
  <2>1. \A v \in Promotable : u[Entry][1][v] = Undef
    BY EntryIsBlock
  <2> QED
    BY <2>1
<1>5. Renaming(h)'
  BY <1>1, <1>3, <1>4, BeginRenames
<1>6. /\ Frame' = Call(Entry) /\ Len(frames') = 1 /\ DOMAIN frames' = {1}
      /\ frames'[1] = Call(Entry)
  BY <1>1, ReachedBegin
<1>7. /\ Call(Entry).block = Entry /\ Call(Entry).at = 1 /\ Call(Entry).kids = kids[Entry]
      /\ PushPhis(Entry) \in [Stack -> Seq(Value)]
  BY <1>1, EntryIsBlock, Push
<1>8. KidsLeft'
  <2>1. Frame'.block = Entry /\ Frame'.kids = kids[Entry]
    BY <1>6, <1>7
  <2> QED
    BY <1>2, <2>1 DEF KidsLeft
<1>9. ASSUME NEW v \in Stack PROVE Len(varStack'[v]) \in Nat
  <2>1. varStack'[v] \in Seq(Value)
    BY <1>2, <1>7
  <2> QED
    BY <2>1, LenProperties
<1>10. PICK new \in [Stack -> Nat] : \A v \in Stack : new[v] = Len(varStack'[v])
  <2> DEFINE u == [v \in Stack |-> Len(varStack'[v])]
  <2>1. u \in [Stack -> Nat] /\ \A v \in Stack : u[v] = Len(varStack'[v])
    BY <1>9
  <2> QED
    BY <2>1
<1>11. PICK one \in Nat \ {0} : one = 1 /\ 1..one = {1}
  <2>1. 1..1 = {1}
    OBVIOUS
  <2> QED
    BY <2>1
<1>12. PICK t \in [1..one -> [Stack -> Nat]] : t[1] = new
  <2> DEFINE u == [k \in 1..one |-> new]
  <2>1. u \in [1..one -> [Stack -> Nat]] /\ u[1] = new
    BY <1>11
  <2> QED
    BY <2>1
<1>13. \A v \in Stack : t[one][v] = Len(varStack'[v])
  BY <1>10, <1>11, <1>12
<1>14. \A v \in Stack : \A k \in 1..one :
         /\ \A l \in 1..k : t[l][v] <= t[k][v]
         /\ k # 1 => t[k][v] = t[k - 1][v] + frames'[k].pushed[v]
  <2> SUFFICES ASSUME NEW v \in Stack, NEW k \in 1..one, NEW l \in 1..k
               PROVE  t[l][v] <= t[k][v] /\ k = 1
    BY <1>11
  <2>1. k = 1 /\ l = 1
    BY <1>11
  <2> QED
    BY <1>9, <1>11, <1>13, <2>1
<1>15. ASSUME NEW v \in Promotable
       PROVE  h[frames'[1].block][Point(frames'[1])][v] = Nth(varStack'[v], t[1][v])
  <2>1. v \in Var /\ v \in Stack
    BY DEF Promotable, Stack
  <2>2. frames'[1].block = Entry /\ Point(frames'[1]) = 1
    <3>1. 1 <= End(Entry)
      BY EntryIsBlock, GivenCode
    <3> QED
      BY <1>6, <1>7, <3>1 DEF Point
  <2>3. <<Entry, v>> \notin phis
    BY <1>3 DEF Fresh
  <2>4. Nth(varStack'[v], Len(varStack'[v])) = Nth(varStack[v], Len(varStack[v]))
    BY <1>1, <1>2, <2>1, <2>3, EntryIsBlock, PushedTop
  <2>5. varStack[v] = <<>>
    BY <1>1, <1>2, <2>1 DEF Walk
  <2>6. Nth(varStack[v], Len(varStack[v])) = Undef
    BY <2>5 DEF Nth
  <2> QED
    BY <1>4, <1>11, <1>13, <2>1, <2>2, <2>4, <2>6
<1>16. \A v \in Promotable : \A k \in 1..one :
         h[frames'[k].block][Point(frames'[k])][v] = Nth(varStack'[v], t[k][v])
  BY <1>11, <1>15
<1>17. Len(frames') = one /\ DOMAIN frames' = 1..one
  BY <1>6, <1>11
<1>18. Tops(h, t)'
  BY <1>2, <1>13, <1>14, <1>16, <1>17, TopsNow
<1> QED
  BY <1>2, <1>5, <1>8, <1>18 DEF FirstPass

-----------------------------------------------------------------------------
(* From a block to the blocks it is followed by                            *)

\* Of some blocks one has none of the others above it.
LEMMA Highest ==
  ASSUME TypeOK, NEW S \in SUBSET Block, S # {}
  PROVE  \E x \in S : \A y \in S : Dom(y, x) => y = x
<1> DEFINE Size(c) == Cardinality({e \in Block : Dom(e, c)})
           T == {Size(c) : c \in S}
<1>1. \A c \in Block : IsFiniteSet({e \in Block : Dom(e, c)}) /\ Size(c) \in Nat
  <2>1. IsFiniteSet(Block)
    BY MemToRegAssumption, FS_Interval DEF Block
  <2> QED
    BY <2>1, FS_Subset, FS_CardinalityType
<1>2. PICK x \in S : \A y \in S : Size(x) <= Size(y)
  <2> HIDE DEF Size
  <2>1. T \subseteq Nat /\ T # {}
    BY <1>1
  <2>2. PICK n \in T : \A k \in T : n <= k
    BY <2>1, LeastNat
  <2> QED
    BY <2>2
<1>3. ASSUME NEW y \in S, Dom(y, x), y # x PROVE FALSE
  <2>1. x \in Block /\ y \in Block
    OBVIOUS
  <2>2. {e \in Block : Dom(e, y)} \subseteq {e \in Block : Dom(e, x)}
    BY <1>3, <2>1, DomTransitive
  <2>3. x \notin {e \in Block : Dom(e, y)} /\ x \in {e \in Block : Dom(e, x)}
    BY <1>3, <2>1, DomAntisymmetric, DomSelf
  <2>4. Size(y) <= Size(x) /\ Size(y) # Size(x)
    BY <1>1, <2>1, <2>2, <2>3, FS_Subset
  <2>5. Size(y) \in Nat /\ Size(x) \in Nat /\ Size(x) <= Size(y)
    BY <1>1, <1>2, <2>1
  <2> QED
    BY <2>4, <2>5
<1> QED
  BY <1>2, <1>3

\* One has none of the others below it.
LEMMA Lowest ==
  ASSUME TypeOK, NEW S \in SUBSET Block, S # {}
  PROVE  \E x \in S : \A y \in S : Dom(x, y) => y = x
<1> DEFINE Size(c) == Cardinality({e \in Block : Dom(c, e)})
           T == {Size(c) : c \in S}
<1>1. \A c \in Block : IsFiniteSet({e \in Block : Dom(c, e)}) /\ Size(c) \in Nat
  <2>1. IsFiniteSet(Block)
    BY MemToRegAssumption, FS_Interval DEF Block
  <2> QED
    BY <2>1, FS_Subset, FS_CardinalityType
<1>2. PICK x \in S : \A y \in S : Size(x) <= Size(y)
  <2> HIDE DEF Size
  <2>1. T \subseteq Nat /\ T # {}
    BY <1>1
  <2>2. PICK n \in T : \A k \in T : n <= k
    BY <2>1, LeastNat
  <2> QED
    BY <2>2
<1>3. ASSUME NEW y \in S, Dom(x, y), y # x PROVE FALSE
  <2>1. x \in Block /\ y \in Block
    OBVIOUS
  <2>2. {e \in Block : Dom(y, e)} \subseteq {e \in Block : Dom(x, e)}
    BY <1>3, <2>1, DomTransitive
  <2>3. x \notin {e \in Block : Dom(y, e)} /\ x \in {e \in Block : Dom(x, e)}
    BY <1>3, <2>1, DomAntisymmetric, DomSelf
  <2>4. Size(y) <= Size(x) /\ Size(y) # Size(x)
    BY <1>1, <2>1, <2>2, <2>3, FS_Subset
  <2>5. Size(y) \in Nat /\ Size(x) \in Nat /\ Size(x) <= Size(y)
    BY <1>1, <1>2, <2>1
  <2> QED
    BY <2>4, <2>5
<1> QED
  BY <1>2, <1>3

\* Each block but the entry block is a child in the dominator tree.
LEMMA Parent ==
  ASSUME TypeOK, NEW b \in Block, b # Entry
  PROVE  \E d \in Block : b \in kids[d]
<1> DEFINE S == {d \in Block : Dom(d, b) /\ d # b}
<1>1. S \in SUBSET Block /\ S # {}
  BY DomEntry, EntryIsBlock
<1>2. PICK d \in S : \A y \in S : Dom(d, y) => y = d
  BY <1>1, Lowest
<1>3. d \in Block /\ Dom(d, b) /\ d # b
  BY <1>2
<1>4. PICK c \in kids[d] : Dom(c, b)
  BY <1>3, ChildAbove
<1>5. c \in Block /\ c # d /\ Dom(d, c)
  BY <1>3, <1>4, Child
<1>6. c = b
  <2> SUFFICES ASSUME c # b PROVE FALSE
    OBVIOUS
  <2>1. c \in S
    BY <1>4, <1>5
  <2> QED
    BY <1>2, <1>5, <2>1
<1> QED
  BY <1>3, <1>4, <1>6

\* A block that dominates a predecessor, below the parent d, has b on its
\* dominance frontier.
LEMMA OnFrontier ==
  ASSUME TypeOK, NEW b \in Block, NEW d \in Block, b \in kids[d], NEW p \in Preds(b),
         NEW x \in Block, Dom(d, x), x # d, Dom(x, p)
  PROVE  b \in df[x]
<1>1. /\ b # d /\ Dom(d, b) /\ \A e \in Block : e # b => (Dom(e, b) <=> Dom(e, d))
  BY Child
<1>2. ~(Dom(x, b) /\ x # b)
  BY <1>1, DomAntisymmetric
<1>3. p \in Block /\ \E i \in DOMAIN succ[p] : succ[p][i] = b
  BY DEF Preds, Succs
<1>4. \A c, e \in Block : e \in Dominators(succ)[c] <=> Dom(e, c)
  BY DEF Dominators, Dom
<1>5. df = Frontier(succ, Dominators(succ))
  BY DEF TypeOK
<1>6. df[x] = {y \in Block :
          /\ ~(x \in Dominators(succ)[y] /\ x # y)
          /\ \E q \in Block : x \in Dominators(succ)[q] /\ \E i \in DOMAIN succ[q] : succ[q][i] = y}
  BY <1>5 DEF Frontier
<1> QED
  BY <1>2, <1>3, <1>4, <1>6

\* Where an alloca is not stored to it holds the same value at the end.
LEMMA HeldThrough ==
  ASSUME TypeOK, GivenIs, phase # "Rename", NEW held, Renaming(held),
         NEW v \in Promotable, NEW x \in Block, x # Entry, x \notin StoreBlocks(v)
  PROVE  held[x][End(x)][v] = held[x][1][v]
<1>1. \A b, j : Reached(b, j)
  BY DEF Reached
<1>2. DOMAIN given[x] = 1..Len(given[x]) /\ Len(given[x]) \in Nat
  BY GivenCode
<1>3. \A j \in DOMAIN given[x] : held[x][j + 1][v] = held[x][j][v]
  <2> SUFFICES ASSUME NEW j \in DOMAIN given[x]
               PROVE  held[x][j + 1][v] = held[x][j][v]
    OBVIOUS
  <2>1. held[x][j + 1][v] = Effect(code[x][j], v, held[x][j][v])
    BY <1>1 DEF Renaming, HeldSteps
  <2>2. code[x][j].op = given[x][j].op /\ j \in DOMAIN code[x]
    BY DEF Renaming, Replaced
  <2>3. code[x][j].op # "alloca"
    BY <2>2, GivenCode
  <2>4. ~(code[x][j].op = "store" /\ code[x][j].var = v)
    BY <2>2 DEF StoreBlocks
  <2> QED
    BY <2>1, <2>3, <2>4 DEF Effect
<1> DEFINE W == {n \in Nat : n <= Len(given[x]) => held[x][n + 1][v] = held[x][1][v]}
<1>4. 0 \in W
  OBVIOUS
<1>5. ASSUME NEW n \in Nat, n \in W PROVE n + 1 \in W
  <2> SUFFICES ASSUME n + 1 <= Len(given[x])
               PROVE  held[x][n + 1 + 1][v] = held[x][1][v]
    OBVIOUS
  <2>1. n + 1 \in DOMAIN given[x] /\ n <= Len(given[x])
    BY <1>2
  <2>2. held[x][n + 1][v] = held[x][1][v]
    BY <1>5, <2>1
  <2> QED
    BY <1>3, <2>1, <2>2
<1>6. Nat \subseteq W
  BY <1>4, <1>5, AllNat
<1>7. PICK l \in Nat : l = Len(given[x])
  BY <1>2
<1>8. held[x][l + 1][v] = held[x][1][v]
  BY <1>6, <1>7
<1> QED
  BY <1>7, <1>8 DEF End

\* Where a block has no phi node for an alloca, it holds the same value at the
\* end of each predecessor.
LEMMA EdgeHeld ==
  ASSUME TypeOK, GivenIs, mine = phis, phase # "Rename", AllFrontiers,
         NEW held, Renaming(held), NEW v \in Promotable,
         NEW b \in Block, NEW p \in Preds(b), <<b, v>> \notin phis
  PROVE  /\ held[b][1][v] = held[p][End(p)][v]
         /\ held[b][1][v][1] \in {"load", "phi"} => held[b][1][v][2] # b
<1>1. \A c, j : Reached(c, j)
  BY DEF Reached
<1>2. p \in Block /\ b # Entry
  BY Graph DEF Preds, Succs
<1>3. PICK d \in Block : b \in kids[d]
  BY <1>2, Parent
<1>4. b # d /\ Dom(d, b) /\ Dom(d, p)
  BY <1>2, <1>3, Child, DomPred
<1>5. held[b][1][v] = held[d][End(d)][v]
  BY <1>1, <1>3 DEF Renaming, HeldSteps
<1> DEFINE S == {x \in Block : Dom(d, x) /\ Dom(x, p) /\ held[x][End(x)][v] # held[d][End(d)][v]}
<1>6. S = {}
  <2> SUFFICES ASSUME S # {} PROVE FALSE
    OBVIOUS
  <2>1. PICK x \in S : \A y \in S : Dom(y, x) => y = x
    BY Highest
  <2>2. /\ x \in Block /\ Dom(d, x) /\ Dom(x, p)
        /\ held[x][End(x)][v] # held[d][End(d)][v]
    BY <2>1
  <2>3. x # d /\ x # Entry
    BY <2>2, DomEntry
  <2>4. b \in df[x]
    BY <1>3, <2>2, <2>3, OnFrontier
  <2>5. x \notin StoreBlocks(v) /\ <<x, v>> \notin phis
    <3>1. \A X \in StoreBlocks(v) \union PhiBlocks(v) : df[X] \subseteq PhiBlocks(v)
      BY DEF AllFrontiers, Renaming, HoldsFrontiers
    <3>2. b \notin PhiBlocks(v)
      BY DEF PhiBlocks
    <3>3. x \notin StoreBlocks(v) \union PhiBlocks(v)
      BY <2>4, <3>1, <3>2
    <3> QED
      BY <2>2, <3>3 DEF PhiBlocks
  <2>6. PICK e \in Block : x \in kids[e]
    BY <2>2, <2>3, Parent
  <2>7. e # x /\ Dom(e, x) /\ Dom(d, e)
    BY <2>2, <2>3, <2>6, Child
  <2>8. Dom(e, p)
    BY <1>2, <2>2, <2>7, DomTransitive
  <2>9. held[e][End(e)][v] = held[d][End(d)][v]
    BY <2>1, <2>7, <2>8
  <2>10. held[x][1][v] = held[e][End(e)][v]
    BY <1>1, <2>5, <2>6 DEF Renaming, HeldSteps
  <2>11. held[x][End(x)][v] = held[x][1][v]
    BY <2>2, <2>3, <2>5, HeldThrough
  <2> QED
    BY <2>2, <2>9, <2>10, <2>11
<1>7. held[p][End(p)][v] = held[d][End(d)][v]
  BY <1>2, <1>4, <1>6, DomSelf
<1>8. ASSUME held[b][1][v][1] \in {"load", "phi"} PROVE held[b][1][v][2] # b
  <2>1. PICK w : w = held[b][1][v] /\ w = held[d][End(d)][v]
    BY <1>5
  <2>2. There(w, d, End(d))
    <3>1. End(d) \in 1..End(d)
      BY GivenCode
    <3> QED
      BY <1>1, <2>1, <3>1 DEF Renaming, HeldWell
  <2>3. Dom(w[2], d)
    BY <1>8, <2>1, <2>2 DEF There
  <2>4. w[2] # b
    BY <1>4, <2>3, DomAntisymmetric
  <2> QED
    BY <2>1, <2>4
<1> QED
  BY <1>5, <1>7, <1>8

\* What is held when all was renamed flows along every edge.
LEMMA AllFlows ==
  ASSUME TypeOK, PhisComplete, GivenIs, mine = phis, phase = "Erase", AllFrontiers,
         NEW held, Renaming(held)
  PROVE  Rewritten(held, code) /\ HeldThere(held) /\ HeldFlows(held, code)
<1>1. \A c, j : Reached(c, j)
  BY DEF Reached
<1>2. Rewritten(held, code)
  <2>1. ASSUME NEW b \in Block, NEW j \in DOMAIN given[b], given[b][j].op # "load"
        PROVE  code[b][j].val = Meaning(held, given[b][j].val)
    <3>1. PICK val : val = given[b][j].val
      OBVIOUS
    <3>2. code[b][j].val = IF PromVal(val) /\ Reached(val[2], val[3] + 1)
                           THEN Meaning(held, val) ELSE val
      BY <2>1, <3>1 DEF Renaming, Replaced
    <3>3. ~PromVal(val) => Meaning(held, val) = val
      BY DEF Meaning
    <3> QED
      BY <1>1, <3>1, <3>2, <3>3
  <2>2. \A b \in Block :
          /\ Len(code[b]) = Len(given[b])
          /\ DOMAIN code[b] = DOMAIN given[b]
          /\ \A j \in DOMAIN given[b] :
               /\ code[b][j].op = given[b][j].op /\ code[b][j].var = given[b][j].var
               /\ given[b][j].op = "load" => code[b][j].val = given[b][j].val
    BY DEF Renaming, Replaced
  <2>3. code \in [Block -> Seq(Instruction)]
    BY DEF TypeOK
  <2> QED
    BY <2>1, <2>2, <2>3 DEF Rewritten
<1>3. HeldThere(held)
  BY <1>1 DEF Renaming, HeldWell, HeldThere
<1>4. ASSUME NEW v \in Promotable
      PROVE  /\ held[Entry][1][v] = Undef
             /\ \A b \in Block : \A j \in DOMAIN given[b] :
                  held[b][j + 1][v] = Effect(code[b][j], v, held[b][j][v])
  BY <1>1 DEF Renaming, HeldSteps
<1>5. ASSUME NEW v \in Promotable, NEW b \in Block, NEW p \in Preds(b), <<b, v>> \in phis
      PROVE  /\ held[b][1][v] = Phi(b, v)
             /\ p \in DOMAIN incoming[<<b, v>>]
             /\ incoming[<<b, v>>][p] = held[p][End(p)][v]
  <2>1. held[b][1][v] = Phi(b, v)
    BY <1>1, <1>5 DEF Renaming, HeldSteps
  <2>2. PICK phi \in phis : phi = <<b, v>> /\ phi[1] = b /\ phi[2] = v
    BY <1>5
  <2>3. DOMAIN incoming[phi] = Preds(b)
    BY <2>2 DEF PhisComplete
  <2>4. incoming[phi][p] = held[p][End(p)][v]
    BY <2>2, <2>3 DEF Renaming, HeldIncoming
  <2> QED
    BY <2>1, <2>2, <2>3, <2>4
<1>6. ASSUME NEW v \in Promotable, NEW b \in Block, NEW p \in Preds(b), <<b, v>> \notin phis
      PROVE  /\ held[b][1][v] = held[p][End(p)][v]
             /\ held[b][1][v][1] \in {"load", "phi"} => held[b][1][v][2] # b
  BY <1>6, EdgeHeld
<1>7. HeldFlows(held, code)
  BY <1>4, <1>5, <1>6 DEF HeldFlows
<1> QED
  BY <1>2, <1>3, <1>7

-----------------------------------------------------------------------------
(* Erasing, placing phi nodes, and the start                               *)

\* What is left of the code of a block.
LEMMA LeftOf ==
  ASSUME NEW s \in Seq(Instruction), NEW t, t = Kept(s)
  PROVE  /\ \A i \in DOMAIN t : ~ToErase(t[i])
         /\ \A k \in DOMAIN s : ~ToErase(s[k]) => \E i \in DOMAIN t : t[i] = s[k]
<1>1. IsWhatStays(t, s)
  BY KeptInOrder
<1>2. t \in Seq(Instruction)
  BY <1>1 DEF IsWhatStays
<1>3. DOMAIN t = 1..Len(t) /\ DOMAIN s = 1..Len(s)
  BY <1>2, LenProperties
<1>4. PICK e \in [1..Len(t) -> 1..Len(s)] :
        /\ \A i \in 1..Len(t) : t[i] = s[e[i]] /\ ~ToErase(s[e[i]])
        /\ \A i, j \in 1..Len(t) : i < j => e[i] < e[j]
        /\ \A k \in 1..Len(s) : ~ToErase(s[k]) => \E i \in 1..Len(t) : e[i] = k
  BY <1>1, Zenon DEF IsWhatStays
<1>5. \A i \in 1..Len(t) : ~ToErase(t[i])
  BY <1>4
<1>6. \A k \in 1..Len(s) : ~ToErase(s[k]) => \E i \in 1..Len(t) : t[i] = s[k]
  BY <1>4
<1> QED
  BY <1>3, <1>5, <1>6

\* The promoted loads and stores are erased.
LEMMA EraseFirst ==
  ASSUME IInv, GivenIs, FirstPass, runs = 0, given' = given, Erase
  PROVE  FirstPass'
<1>1. TypeOK /\ PhisComplete /\ mine = phis
  BY DEF IInv, FirstRun
<1>2. /\ phase = "Erase" /\ phase' = "Done" /\ succ' = succ /\ phis' = phis
      /\ incoming' = incoming /\ promoted' = promoted
      /\ code' = [b \in Block |-> Kept(code[b])]
  BY DEF Erase, places
<1>3. AllFrontiers /\ \E held : Renaming(held)
  BY <1>2 DEF FirstPass
<1>4. PICK held : Renaming(held)
  BY <1>3
<1>5. PICK pre : pre = code
  OBVIOUS
<1>6. Rewritten(held, pre) /\ HeldThere(held) /\ HeldFlows(held, pre)
  BY <1>1, <1>2, <1>3, <1>4, <1>5, AllFlows
<1>7. Promotable' = Promotable /\ (\A b : End(b)' = End(b))
      /\ (\A val : Meaning(held, val)' = Meaning(held, val))
      /\ (\A val, b, j : There(val, b, j)' <=> There(val, b, j))
  BY <1>2, SameGiven
<1>8. Rewritten(held, pre)'
  BY <1>6, <1>7 DEF Rewritten
<1>9. HeldThere(held)'
  BY <1>6, <1>7 DEF HeldThere
<1>10. HeldFlows(held, pre)'
  BY <1>2, <1>6, <1>7 DEF HeldFlows, Preds, Succs
<1>11. phis' \subseteq (Block \ {Entry}) \X Promotable'
  BY <1>2, <1>4, <1>7 DEF Renaming
<1>12. \A i : ToErase(i) <=> Erased(i)
  BY <1>4 DEF ToErase, Erased, Renaming
<1>13. \A i : Erased(i)' <=> Erased(i)
  BY <1>7 DEF Erased
<1>14. ASSUME NEW b \in Block, NEW m
       PROVE  (\E f : /\ f[0] = m
                      /\ \A n \in 1..Len(pre[b]) :
                           f[n] = IF Erased(pre[b][n]) THEN f[n - 1]
                                  ELSE Exec(f[n - 1], pre[b][n])
                      /\ ExecBlock(m, code[b]) = f[Len(pre[b])])'
  <2>1. pre[b] \in Seq(Instruction) /\ code'[b] = Kept(pre[b])
    BY <1>1, <1>2, <1>5 DEF TypeOK
  <2>2. PICK f : /\ f[0] = m
                 /\ \A n \in 1..Len(pre[b]) :
                      f[n] = IF ToErase(pre[b][n]) THEN f[n - 1]
                             ELSE Exec(f[n - 1], pre[b][n])
                 /\ ExecBlock(m, Kept(pre[b])) = f[Len(pre[b])]
    BY <2>1, RunKept
  <2>3. ASSUME NEW n \in 1..Len(pre[b])
        PROVE  f[n] = IF Erased(pre[b][n])' THEN f[n - 1] ELSE Exec(f[n - 1], pre[b][n])
    <3>1. Erased(pre[b][n])' <=> ToErase(pre[b][n])
      BY <1>12, <1>13
    <3> QED
      BY <2>2, <3>1
  <2>4. ExecBlock(m, code'[b]) = f[Len(pre[b])]
    BY <2>1, <2>2
  <2> QED
    BY <2>2, <2>3, <2>4
<1>15. \A b \in Block : Shortened(pre[b], code[b])'
  BY <1>14, Zenon DEF Shortened
<1>16. Simulates(held, pre)'
  BY <1>8, <1>9, <1>10, <1>11, <1>15 DEF Simulates
<1>17. Cleared'
  <2>1. ASSUME NEW b \in Block
        PROVE  /\ \A i \in DOMAIN code'[b] : ~ToErase(code'[b][i])
               /\ \A k \in DOMAIN code[b] : ~ToErase(code[b][k]) =>
                    \E i \in DOMAIN code'[b] : code'[b][i] = code[b][k]
    <3>1. code[b] \in Seq(Instruction) /\ code'[b] = Kept(code[b])
      BY <1>1, <1>2 DEF TypeOK
    <3> QED
      BY <3>1, LeftOf
  <2>2. \A b \in Block : \A i \in DOMAIN code'[b] : ~Erased(code[b][i])'
    BY <1>12, <1>13, <2>1
  <2>3. ASSUME NEW v \in Var \ Promotable
        PROVE  \E b \in Block : \E i \in DOMAIN code'[b] :
                 code'[b][i].op = "use" /\ code'[b][i].val = Alloca(v)
    <3>1. PICK b \in Block : \E k \in DOMAIN given[b] :
            given[b][k].op = "use" /\ given[b][k].val = Alloca(v)
      BY <2>3 DEF Promotable
    <3>2. PICK k \in DOMAIN given[b] : given[b][k].op = "use" /\ given[b][k].val = Alloca(v)
      BY <3>1
    <3>3. k \in DOMAIN code[b] /\ code[b][k].op = "use" /\ code[b][k].val = Alloca(v)
      <4>1. ~PromVal(Alloca(v))
        BY DEF PromVal, Alloca
      <4> QED
        BY <1>4, <3>2, <4>1 DEF Renaming, Replaced
    <3>4. ~ToErase(code[b][k])
      BY <3>3 DEF ToErase
    <3> QED
      BY <2>1, <3>3, <3>4
  <2> QED
    BY <1>7, <2>2, <2>3 DEF Cleared
<1> QED
  BY <1>2, <1>16, <1>17 DEF FirstPass

\* An alloca is looked at: it is promoted if no instruction has its address.
LEMMA LookAtFirst ==
  ASSUME IInv, GivenIs, FirstPass, runs = 0, given' = given, NEW v \in Var, LookAt(v)
  PROVE  FirstPass'
<1>1. /\ phase = "Place" /\ phase' = phase /\ todo' = todo \ {v} /\ v \in todo
      /\ succ' = succ /\ code' = code /\ phis' = phis /\ incoming' = incoming
      /\ promoted' = IF CanAllocaBeReplaced(v) THEN promoted \union {v} ELSE promoted
  BY DEF LookAt, Start
<1>2. Fresh
  BY <1>1 DEF FirstPass
<1>3. Promotable' = Promotable
  BY <1>1, SameGiven
<1>4. CanAllocaBeReplaced(v) <=> v \in Promotable
  <2>1. CanAllocaBeReplaced(v) <=>
          \A b \in Block : \A i \in DOMAIN given[b] :
            given[b][i].op = "use" => given[b][i].val # Alloca(v)
    BY <1>2 DEF Fresh, CanAllocaBeReplaced, Instrs
  <2> QED
    BY <2>1 DEF Promotable
<1>5. promoted' = Promotable' \ todo'
  BY <1>1, <1>2, <1>3, <1>4 DEF Fresh
<1>6. Fresh'
  BY <1>1, <1>2, <1>3, <1>5 DEF Fresh
<1> QED
  BY <1>1, <1>6 DEF FirstPass

\* The phi nodes of an alloca, none of them in the entry block.
LEMMA PlacePhisFirst ==
  ASSUME IInv, GivenIs, FirstPass, runs = 0, given' = given, NEW X \in Block, PlacePhis(X)
  PROVE  FirstPass'
<1>1. TypeOK /\ PhisPlaced
  BY DEF IInv
<1>2. /\ phase = "Place" /\ phase' = phase /\ todo' = todo /\ promoted' = promoted
      /\ succ' = succ /\ code' = code /\ X \in work
      /\ phis' = phis \union {<<Y, placing>> : Y \in Joins(X)}
      /\ incoming' = [phi \in phis' |-> IF phi \in phis THEN incoming[phi] ELSE <<>>]
  BY DEF PlacePhis, Place
<1>3. Fresh
  BY <1>2 DEF FirstPass
<1>4. Promotable' = Promotable
  BY <1>2, SameGiven
<1>5. placing \in Promotable
  BY <1>1, <1>2, <1>3 DEF PhisPlaced, Fresh
<1>6. Entry \notin df[X]
  <2> SUFFICES ASSUME Entry \in df[X] PROVE FALSE
    OBVIOUS
  <2>1. \E q \in Block : \E i \in DOMAIN succ[q] : succ[q][i] = Entry
    BY <1>1 DEF TypeOK, Frontier
  <2> QED
    BY <1>1, <2>1, Graph
<1>7. ASSUME NEW phi \in phis'
      PROVE  phi[1] # Entry /\ phi[2] \in Promotable /\ DOMAIN incoming'[phi] = {}
  <2>1. CASE phi \in phis
    BY <1>2, <1>3, <2>1 DEF Fresh
  <2>2. CASE phi \notin phis
    <3>1. PICK Y \in df[X] : phi = <<Y, placing>>
      BY <1>2, <2>2 DEF Joins
    <3>2. incoming'[phi] = <<>>
      BY <1>2, <2>2
    <3> QED
      BY <1>5, <1>6, <3>1, <3>2
  <2> QED
    BY <2>1, <2>2
<1>8. Fresh'
  BY <1>2, <1>3, <1>4, <1>7 DEF Fresh
<1> QED
  BY <1>2, <1>8 DEF FirstPass

\* At the start.
LEMMA InitFirst ==
  ASSUME PInit
  PROVE  GivenIs /\ FirstPass
<1>1. /\ Init /\ given = code /\ phase = "Place" /\ promoted = {} /\ todo = Var /\ phis = {}
  BY DEF PInit, Init
<1>2. GivenIs
  BY <1>1 DEF Init, GivenIs
<1>3. Promotable \ todo = {}
  BY <1>1 DEF Promotable
<1>4. Fresh
  BY <1>1, <1>3 DEF Fresh
<1> QED
  BY <1>1, <1>2, <1>4 DEF FirstPass

-----------------------------------------------------------------------------
(* The steps of the first run                                              *)

\* No step of a run changes the graph or counts the run.
LEMMA StepRuns ==
  ASSUME RunStep
  PROVE  succ' = succ /\ runs' = runs
<1>1. ASSUME NEW v \in Var, LookAt(v) PROVE succ' = succ /\ runs' = runs
  BY <1>1 DEF LookAt, Start
<1>2. ASSUME NEW X \in Block, PlacePhis(X) PROVE succ' = succ /\ runs' = runs
  BY <1>2 DEF PlacePhis, Place
<1>3. ASSUME NEW Y \in Block, Descend(Y) PROVE succ' = succ /\ runs' = runs
  BY <1>3 DEF Descend
<1>4. BeginRenaming => succ' = succ /\ runs' = runs
  BY DEF BeginRenaming
<1>5. RenameAlloca => succ' = succ /\ runs' = runs
  BY DEF RenameAlloca
<1>6. RenameStore => succ' = succ /\ runs' = runs
  BY DEF RenameStore
<1>7. RenameLoad => succ' = succ /\ runs' = runs
  BY DEF RenameLoad
<1>8. SkipInstr => succ' = succ /\ runs' = runs
  BY DEF SkipInstr
<1>9. FillPhis => succ' = succ /\ runs' = runs
  BY DEF FillPhis, Fill
<1>10. ReadEmptyStack => succ' = succ /\ runs' = runs
  BY DEF ReadEmptyStack
<1>11. Return => succ' = succ /\ runs' = runs
  BY DEF Return
<1>12. Erase => succ' = succ /\ runs' = runs
  BY DEF Erase
<1> QED
  BY <1>1, <1>2, <1>3, <1>4, <1>5, <1>6, <1>7, <1>8, <1>9, <1>10, <1>11, <1>12
  DEF RunStep

\* The pass never goes back to its first run.
LEMMA NextRuns ==
  ASSUME IInv, Next
  PROVE  succ' = succ /\ (runs # 0 => runs' # 0)
<1>1. runs \in Nat
  BY DEF IInv, TypeOK
<1>2. CASE RunAgain
  <2>1. succ' = succ /\ runs' = runs + 1
    BY <1>2 DEF RunAgain
  <2> QED
    BY <1>1, <2>1
<1>3. CASE RunStep
  BY <1>3, StepRuns
<1> QED
  BY <1>2, <1>3 DEF Next

\* The function stays the one that was given.
LEMMA NextGiven ==
  ASSUME GivenIs, succ' = succ, given' = given
  PROVE  GivenIs'
BY DEF GivenIs

\* A step of the first run.
LEMMA NextFirst ==
  ASSUME IInv, GivenIs, FirstPass, given' = given, Next
  PROVE  FirstPass'
<1>1. runs # 0 => FirstPass'
  BY NextRuns DEF FirstPass
<1>2. ASSUME runs = 0 PROVE FirstPass'
  <2>1. ASSUME NEW v \in Var, LookAt(v) PROVE FirstPass'
    BY <1>2, <2>1, LookAtFirst
  <2>2. ASSUME NEW X \in Block, PlacePhis(X) PROVE FirstPass'
    BY <1>2, <2>2, PlacePhisFirst
  <2>3. ASSUME NEW Y \in Block, Descend(Y) PROVE FirstPass'
    BY <1>2, <2>3, DescendFirst
  <2>4. CASE BeginRenaming
    BY <1>2, <2>4, BeginRenamingFirst
  <2>5. CASE RenameAlloca
    BY <1>2, <2>5, RenameAllocaFirst
  <2>6. CASE RenameStore
    BY <1>2, <2>6, RenameStoreFirst
  <2>7. CASE RenameLoad
    BY <1>2, <2>7, RenameLoadFirst
  <2>8. CASE SkipInstr
    BY <1>2, <2>8, SkipInstrFirst
  <2>9. CASE FillPhis
    BY <1>2, <2>9, FillPhisFirst
  <2>10. CASE ReadEmptyStack
    BY <1>2, <2>10, FirstRunReads
  <2>11. CASE Return
    BY <1>2, <2>11, ReturnFirst
  <2>12. CASE Erase
    BY <1>2, <2>12, EraseFirst
  <2>13. CASE RunAgain
    <3>1. runs' # 0
      BY <1>2, <2>13 DEF RunAgain
    <3> QED
      BY <3>1 DEF FirstPass
  <2> QED
    BY <2>1, <2>2, <2>3, <2>4, <2>5, <2>6, <2>7, <2>8, <2>9, <2>10, <2>11, <2>12, <2>13
    DEF Next, RunStep
<1> QED
  BY <1>1, <1>2

\* What holds of the code stays so while it stays as it is. No phi node has an
\* operand if there is none.
LEMMA SameSimulates ==
  ASSUME succ' = succ, code' = code, phis' = phis, given' = given,
         incoming' = incoming \/ phis = {}
  PROVE  /\ \A held, pre : Simulates(held, pre)' <=> Simulates(held, pre)
         /\ \A held, m, a, b, j : Agree(held, m, a, b, j)' <=> Agree(held, m, a, b, j)
         /\ Cleared' <=> Cleared
<1>2. /\ Promotable' = Promotable
      /\ \A b : End(b)' = End(b)
      /\ \A val : PromVal(val)' <=> PromVal(val)
      /\ \A held, val : Meaning(held, val)' = Meaning(held, val)
      /\ \A val, b, j : There(val, b, j)' <=> There(val, b, j)
  BY SameGiven
<1>3. (\A i : Erased(i)' <=> Erased(i)) /\ (\A b : Preds(b)' = Preds(b))
  BY <1>2 DEF Erased, Preds, Succs
<1>4. \A s, t : Shortened(s, t)' <=> Shortened(s, t)
  <2> SUFFICES ASSUME NEW s, NEW t PROVE Shortened(s, t)' <=> Shortened(s, t)
    OBVIOUS
  <2>1. ASSUME NEW f
        PROVE  (\A n \in 1..Len(s) :
                  f[n] = IF Erased(s[n])' THEN f[n - 1] ELSE Exec(f[n - 1], s[n]))
               <=> (\A n \in 1..Len(s) :
                  f[n] = IF Erased(s[n]) THEN f[n - 1] ELSE Exec(f[n - 1], s[n]))
    BY <1>3
  <2>2. ASSUME NEW m
        PROVE  (\E f : /\ f[0] = m
                       /\ \A n \in 1..Len(s) :
                            f[n] = IF Erased(s[n]) THEN f[n - 1] ELSE Exec(f[n - 1], s[n])
                       /\ ExecBlock(m, t) = f[Len(s)])'
               <=> \E f : /\ f[0] = m
                          /\ \A n \in 1..Len(s) :
                               f[n] = IF Erased(s[n]) THEN f[n - 1] ELSE Exec(f[n - 1], s[n])
                          /\ ExecBlock(m, t) = f[Len(s)]
    BY <2>1, Zenon
  <2> QED
    BY <2>2, Zenon DEF Shortened
<1>5. \A held, pre : Rewritten(held, pre)' <=> Rewritten(held, pre)
  BY <1>2 DEF Rewritten
<1>6. \A held : HeldThere(held)' <=> HeldThere(held)
  BY <1>2 DEF HeldThere
<1>7. \A held, pre : HeldFlows(held, pre)' <=> HeldFlows(held, pre)
  <2>1. CASE incoming' = incoming
    BY <1>2, <1>3, <2>1 DEF HeldFlows
  <2>2. CASE phis = {}
    BY <1>2, <1>3, <2>2 DEF HeldFlows
  <2> QED
    BY <2>1, <2>2
<1>8. \A held, pre : Simulates(held, pre)' <=> Simulates(held, pre)
  BY <1>2, <1>4, <1>5, <1>6, <1>7 DEF Simulates
<1>9. \A held, m, a, b, j : Agree(held, m, a, b, j)' <=> Agree(held, m, a, b, j)
  BY <1>2 DEF Agree
<1>10. Cleared' <=> Cleared
  BY <1>2, <1>3 DEF Cleared
<1> QED
  BY <1>8, <1>9, <1>10

\* A step that is none of the pass.
LEMMA StutterFirst ==
  ASSUME FirstPass, UNCHANGED vars, given' = given
  PROVE  FirstPass'
<1>1. /\ succ' = succ /\ kids' = kids /\ code' = code /\ phis' = phis /\ df' = df
      /\ incoming' = incoming /\ promoted' = promoted /\ todo' = todo /\ mine' = mine
      /\ varStack' = varStack /\ frames' = frames /\ phase' = phase /\ runs' = runs
  BY DEF vars, places
<1>2. /\ Promotable' = Promotable
      /\ \A b : End(b)' = End(b)
      /\ \A val : PromVal(val)' <=> PromVal(val)
      /\ \A held, val : Meaning(held, val)' = Meaning(held, val)
      /\ \A val, b, j : There(val, b, j)' <=> There(val, b, j)
  BY <1>1, SameGiven
<1>3. \A b, j : Reached(b, j)' <=> Reached(b, j)
  BY <1>1 DEF Reached, Above, Dom, Frame
<1>4. Fresh' <=> Fresh
  BY <1>1, <1>2 DEF Fresh
<1>5. KidsLeft' <=> KidsLeft
  BY <1>1, <1>2 DEF KidsLeft, Frame
<1>6. AllFrontiers' <=> AllFrontiers
  BY <1>1 DEF AllFrontiers, HoldsFrontiers, StoreBlocks, PhiBlocks
<1>7. \A held : Replaced(held)' <=> Replaced(held)
  BY <1>1, <1>2, <1>3 DEF Replaced
<1>8. \A held : HeldWell(held)' <=> HeldWell(held)
  BY <1>2, <1>3 DEF HeldWell
<1>9. \A held : HeldSteps(held)' <=> HeldSteps(held)
  BY <1>1, <1>2, <1>3 DEF HeldSteps
<1>10. \A held : HeldIncoming(held)' <=> HeldIncoming(held)
  BY <1>1, <1>2, <1>3 DEF HeldIncoming
<1>11. \A held : Renaming(held)' <=> Renaming(held)
  BY <1>1, <1>2, <1>7, <1>8, <1>9, <1>10 DEF Renaming
<1>12. \A hts : Heights(hts)' <=> Heights(hts)
  BY <1>1 DEF Heights
<1>13. \A f : Point(f)' = Point(f)
  BY <1>2 DEF Point
<1>14. \A held, hts : Tops(held, hts)' <=> Tops(held, hts)
  BY <1>1, <1>2, <1>12, <1>13 DEF Tops
<1>15. (\A held, pre : Simulates(held, pre)' <=> Simulates(held, pre)) /\ (Cleared' <=> Cleared)
  BY <1>1, SameSimulates
<1> QED
  BY <1>1, <1>4, <1>5, <1>6, <1>11, <1>14, <1>15 DEF FirstPass

-----------------------------------------------------------------------------
(* The two machines                                                        *)

\* The function the pass returns does what the one that was given does.
Promised == phase = "Done" => \E held, pre : Simulates(held, pre)

\* The machines agree on what the pass has promised.
InStep ==
  /\ steps \in Nat
  /\ phase # "Done" => steps = 0
  /\ steps = 0 <=> at = 0
  /\ at = 0 => before = Machine /\ after = Machine
  /\ at # 0 => /\ at \in Block
               /\ \E held, pre : /\ Simulates(held, pre)
                                 /\ Agree(held, before, after, at, End(at))

\* Both machines run a block.
LEMMA RunInStep ==
  ASSUME TypeOK, GivenIs, Promised, InStep, NEW b \in Block, RunBlock(b)
  PROVE  InStep'
<1>1. /\ phase = "Done" /\ at' = b /\ steps' = steps + 1 /\ phase' = phase
      /\ before' = ExecBlock([before EXCEPT !.out = <<>>], given[b])
      /\ after' = ExecBlock(Entering(after, b), code[b])
      /\ UNCHANGED vars /\ given' = given /\ succ' = succ /\ code' = code
      /\ phis' = phis /\ incoming' = incoming
  BY DEF RunBlock, vars
<1>2. PICK m : m = [before EXCEPT !.out = <<>>]
  OBVIOUS
<1>3. PICK c : c = Entering(after, b)
  OBVIOUS
<1>4. b # 0 /\ steps' \in Nat /\ steps' # 0
  BY <1>1, EntryIsBlock DEF InStep
<1>5. PICK held, pre : Simulates(held, pre) /\ Agree(held, m, c, b, 1)
  <2>1. CASE at = 0
    <3>1. PICK held, pre : Simulates(held, pre)
      BY <1>1 DEF Promised
    <3>2. b = Entry /\ before = Machine /\ after = Machine
      BY <2>1 DEF RunBlock, InStep
    <3>3. m = [Machine EXCEPT !.out = <<>>] /\ c = Entering(Machine, Entry)
      BY <1>2, <1>3, <3>2
    <3>4. Agree(held, m, c, Entry, 1)
      BY <3>1, <3>3, MachinesAgree
    <3> QED
      BY <3>1, <3>2, <3>4
  <2>2. CASE at # 0
    <3>1. at \in Block
      BY <2>2 DEF InStep
    <3>2. PICK held, pre : Simulates(held, pre) /\ Agree(held, before, after, at, End(at))
      BY <2>2 DEF InStep
    <3>3. at \in Preds(b)
      BY <2>2, <3>1 DEF RunBlock, Preds
    <3>4. Agree(held, m, c, b, 1)
      BY <1>2, <1>3, <3>2, <3>3, EnterAgrees
    <3> QED
      BY <3>2, <3>4
  <2> QED
    BY <2>1, <2>2
<1>6. Agree(held, ExecBlock(m, given[b]), ExecBlock(c, code[b]), b, End(b))
  BY <1>5, BlockAgrees
<1>7. PICK j : j = End(b)
  OBVIOUS
<1>8. Agree(held, before', after', b, j)
  BY <1>1, <1>2, <1>3, <1>6, <1>7
<1>9. j = End(b)'
  BY <1>1, <1>7, SameGiven
<1>10. Simulates(held, pre)' /\ (\A m1, a1, b1, j1 :
         Agree(held, m1, a1, b1, j1)' <=> Agree(held, m1, a1, b1, j1))
  BY <1>1, <1>5, SameSimulates
<1>11. PICK m2, a2 : m2 = before' /\ a2 = after'
  OBVIOUS
<1>12. Agree(held, m2, a2, b, j)
  BY <1>8, <1>11
<1>13. Agree(held, m2, a2, b, j)'
  BY <1>10, <1>12
<1>14. Agree(held, before, after, at, End(at))'
  BY <1>1, <1>9, <1>11, <1>13
<1> QED
  BY <1>1, <1>4, <1>10, <1>14 DEF InStep

\* The pass runs before the machines do.
LEMMA PassInStep ==
  ASSUME InStep, PassStep
  PROVE  InStep'
BY DEF PassStep, InStep, machines

\* A step of the rest of the compiler.
LEMMA StutterInStep ==
  ASSUME InStep, UNCHANGED pvars
  PROVE  InStep'
<1>1. /\ UNCHANGED vars /\ given' = given /\ at' = at /\ steps' = steps
      /\ before' = before /\ after' = after /\ succ' = succ /\ phase' = phase
      /\ code' = code /\ phis' = phis /\ incoming' = incoming
  BY DEF pvars, machines, vars
<1>2. CASE at = 0
  BY <1>1, <1>2 DEF InStep
<1>3. CASE at # 0
  <2>1. PICK held, pre : Simulates(held, pre) /\ Agree(held, before, after, at, End(at))
    BY <1>3 DEF InStep
  <2>2. PICK m, a, b, j : m = before /\ a = after /\ b = at /\ j = End(at)
    OBVIOUS
  <2>3. Simulates(held, pre)' /\ Agree(held, m, a, b, j)'
    BY <1>1, <2>1, <2>2, SameSimulates
  <2>4. m = before' /\ a = after' /\ b = at'
    BY <1>1, <2>2
  <2>5. \A x : End(x)' = End(x)
    BY <1>1, SameGiven
  <2>6. j = End(b)'
    BY <2>2, <2>5
  <2>7. Agree(held, before, after, at, End(at))'
    BY <2>3, <2>4, <2>6
  <2> QED
    BY <1>1, <1>3, <2>3, <2>7 DEF InStep
<1> QED
  BY <1>2, <1>3

-----------------------------------------------------------------------------
(* Running the pass once more                                              *)

\* The pass has nothing to do but to fill phi nodes, whose allocas it no longer
\* knows, and what it was given does what the first code did if there are none.
Settled ==
  /\ Cleared
  /\ mine = {} /\ work = {} /\ promoted \subseteq Promotable
  /\ phis \subseteq (Block \ {Entry}) \X Promotable
  /\ phis = {} => \E held, pre : Simulates(held, pre)

\* The stack they are filled from has only phi nodes.
PhisOnly == \A j \in DOMAIN varStack[NoVar] : varStack[NoVar][j][1] = "phi"

\* A phi node can be filled at p only if one dominates p.
Covered(p) == \E phi \in phis : Dom(phi[1], p)
\* Where the walk has filled phi nodes, the blocks are covered.
Served ==
  /\ phase = "Rename" =>
       \A phi \in phis : \A p \in Preds(phi[1]) :
         Covered(p) \/ Pending(p, Len(code[p]) + 1)
  /\ phase \in {"Erase", "Done"} =>
       \A phi \in phis : \A p \in Preds(phi[1]) : Covered(p)

\* The pass runs on code it has returned before.
LaterPass == runs # 0 => Settled /\ PhisOnly /\ Served

\* No path comes to a block with a phi node first, so the pass fails if there is
\* one.
LEMMA NoneServed ==
  ASSUME TypeOK, Settled, Served, phase = "Done"
  PROVE  phis = {}
<1>1. PICK T \in SUBSET Block : T = {b \in Block : ~Covered(b)}
  OBVIOUS
<1>2. Entry \in T
  <2> SUFFICES ASSUME Covered(Entry) PROVE FALSE
    BY <1>1, EntryIsBlock
  <2>1. PICK phi \in phis : Dom(phi[1], Entry)
    BY DEF Covered
  <2>2. phi[1] \in Block \ {Entry}
    BY DEF Settled
  <2> QED
    BY <2>1, <2>2, DomEntry
<1>3. ASSUME NEW b \in T, NEW i \in DOMAIN succ[b], succ[b][i] # 0
      PROVE  succ[b][i] \in T
  <2>1. PICK c \in Block : c = succ[b][i]
    BY Graph
  <2>2. b \in Preds(c) /\ b \in Block
    BY <2>1 DEF Preds, Succs
  <2>3. ~Covered(c)
    <3> SUFFICES ASSUME NEW phi \in phis, Dom(phi[1], c) PROVE FALSE
      BY DEF Covered
    <3>1. CASE phi[1] = c
      BY <1>1, <2>2, <3>1 DEF Served
    <3>2. CASE phi[1] # c
      BY <1>1, <2>2, <3>2, DomPred DEF Covered
    <3> QED
      BY <3>1, <3>2
  <2> QED
    BY <1>1, <2>1, <2>3
<1>4. T = Block
  <2>1. Closed(succ, 0, T)
    BY <1>2, <1>3 DEF Closed
  <2> QED
    BY <2>1, Graph
<1>5. ASSUME NEW phi \in phis PROVE FALSE
  <2>1. phi[1] \in Block
    BY DEF Settled
  <2>2. Covered(phi[1])
    BY <2>1, DomSelf DEF Covered
  <2> QED
    BY <1>1, <1>4, <2>1, <2>2
<1> QED
  BY <1>5

\* What the pass returns is what is needed, in each of its runs.
LEMMA AllPromised ==
  ASSUME TypeOK, FirstPass, LaterPass
  PROVE  Promised
<1> SUFFICES ASSUME phase = "Done" PROVE \E held, pre : Simulates(held, pre)
  BY DEF Promised
<1>1. CASE runs = 0
  BY <1>1 DEF FirstPass
<1>2. CASE runs # 0
  <2>1. phis = {}
    BY <1>2, NoneServed DEF LaterPass
  <2> QED
    BY <1>2, <2>1 DEF LaterPass, Settled
<1> QED
  BY <1>1, <1>2

\* A step that leaves the code and the phi nodes as they are.
LEMMA SettledOn ==
  ASSUME Settled, succ' = succ, code' = code, phis' = phis, given' = given,
         incoming' = incoming \/ phis = {}, mine' = {}, work' = {},
         promoted' \subseteq Promotable
  PROVE  Settled'
<1>1. /\ \A held, pre : Simulates(held, pre)' <=> Simulates(held, pre)
      /\ Cleared' <=> Cleared
  BY SameSimulates
<1>2. Promotable' = Promotable
  BY SameGiven
<1> QED
  BY <1>1, <1>2 DEF Settled

\* The pass finds neither store nor load to promote.
LEMMA SettledInstr ==
  ASSUME Settled, NEW b \in Block, NEW i \in DOMAIN code[b]
  PROVE  ~ToErase(code[b][i])
BY DEF Settled, Cleared, Erased, ToErase

\* The run starts over: what the pass returned is what it is given.
LEMMA RunAgainLater ==
  ASSUME IInv, GivenIs, FirstPass, LaterPass, given' = given, RunAgain
  PROVE  LaterPass'
<1>1. TypeOK /\ PhisPlaced
  BY DEF IInv
<1>2. /\ phase = "Done" /\ phase' = "Place" /\ mine' = {} /\ promoted' = {}
      /\ varStack' = [v \in DOMAIN varStack |-> <<>>]
      /\ succ' = succ /\ code' = code /\ phis' = phis /\ incoming' = incoming
      /\ work' = work
  BY DEF RunAgain
<1>3. work = {}
  BY <1>1, <1>2 DEF PhisPlaced
<1>4. /\ Cleared /\ phis \subseteq (Block \ {Entry}) \X Promotable
      /\ phis = {} => \E held, pre : Simulates(held, pre)
  <2>1. CASE runs = 0
    BY <1>2, <2>1 DEF FirstPass, Simulates
  <2>2. CASE runs # 0
    BY <2>2 DEF LaterPass, Settled
  <2> QED
    BY <2>1, <2>2
<1>5. Settled'
  <2>1. /\ \A held, pre : Simulates(held, pre)' <=> Simulates(held, pre)
        /\ Cleared' <=> Cleared
    BY <1>2, SameSimulates
  <2>2. Promotable' = Promotable
    BY <1>2, SameGiven
  <2> QED
    BY <1>2, <1>3, <1>4, <2>1, <2>2 DEF Settled
<1>6. PhisOnly'
  <2>1. NoVar \in DOMAIN varStack
    BY <1>1 DEF TypeOK, Stack
  <2> QED
    BY <1>2, <2>1 DEF PhisOnly
<1>7. Served'
  BY <1>2 DEF Served
<1> QED
  BY <1>5, <1>6, <1>7 DEF LaterPass

\* No alloca is promoted whose address is taken, and there are no stores.
LEMMA LookAtLater ==
  ASSUME IInv, GivenIs, LaterPass, runs # 0, given' = given, NEW v \in Var, LookAt(v)
  PROVE  LaterPass'
<1>1. /\ phase = "Place" /\ phase' = phase /\ varStack' = varStack
      /\ succ' = succ /\ code' = code /\ phis' = phis /\ incoming' = incoming
      /\ mine' = mine
      /\ ~CanAllocaBeReplaced(v) => promoted' = promoted /\ work' = work
      /\ CanAllocaBeReplaced(v) =>
           promoted' = promoted \union {v} /\ work' = StoreBlocks(v)
  BY DEF LookAt, Start
<1>2. Settled /\ PhisOnly
  BY DEF LaterPass
<1>3. CanAllocaBeReplaced(v) => v \in Promotable
  BY <1>2 DEF Settled, Cleared, CanAllocaBeReplaced, Instrs
<1>4. v \in Promotable => StoreBlocks(v) = {}
  BY <1>2 DEF Settled, Cleared, Erased, StoreBlocks
<1>5. promoted' \subseteq Promotable /\ work' = {} /\ mine' = {}
  BY <1>1, <1>2, <1>3, <1>4 DEF Settled
<1>6. Settled'
  BY <1>1, <1>2, <1>5, SettledOn
<1>7. PhisOnly' /\ Served'
  BY <1>1, <1>2 DEF PhisOnly, Served
<1> QED
  BY <1>6, <1>7 DEF LaterPass

\* What the renaming starts with and goes back to.
LEMMA PushedOnly ==
  ASSUME TypeOK, PhisOnly, NEW b \in Block, varStack' = PushPhis(b)
  PROVE  PhisOnly'
<1>1. NoVar \in Stack
  BY DEF Stack
<1> SUFFICES ASSUME NEW j \in DOMAIN varStack'[NoVar] PROVE varStack'[NoVar][j][1] = "phi"
  BY DEF PhisOnly
<1>2. \/ j \in DOMAIN varStack[NoVar] /\ PushPhis(b)[NoVar][j] = varStack[NoVar][j]
      \/ \E phi \in PhisFor(b, NoVar) : PushPhis(b)[NoVar][j] = Phi(phi[1], phi[2])
  BY <1>1, PushedValues
<1>3. CASE j \in DOMAIN varStack[NoVar] /\ PushPhis(b)[NoVar][j] = varStack[NoVar][j]
  BY <1>3 DEF PhisOnly
<1>4. CASE \E phi \in PhisFor(b, NoVar) : PushPhis(b)[NoVar][j] = Phi(phi[1], phi[2])
  BY <1>4 DEF Phi
<1> QED
  BY <1>2, <1>3, <1>4

\* The place after the end of a block.
LEMMA EndPlace ==
  ASSUME TypeOK, NEW p \in Block
  PROVE  Len(code[p]) \in Nat /\ Len(code[p]) + 1 \in Nat \ {0} /\ Len(code[p]) + 1 \in Int
<1>1. code[p] \in Seq(Instruction)
  BY DEF TypeOK
<1>2. Len(code[p]) \in Nat
  BY <1>1, LenProperties
<1> QED
  BY <1>2

\* Preds and Covered speak of the graph and the phi nodes.
LEMMA SameCovered ==
  ASSUME succ' = succ, phis' = phis
  PROVE  /\ \A b : Preds(b)' = Preds(b)
         /\ \A p : Covered(p)' <=> Covered(p)
BY DEF Preds, Succs, Covered, Dom

\* The last call goes on by one.
LEMMA ServedGoesOn ==
  ASSUME TypeOK, Walk, Served, phase = "Rename", phase' = "Rename",
         NEW pushed \in [Stack -> Nat], frames' = Advanced(pushed),
         succ' = succ, kids' = kids, code' = code, phis' = phis,
         Frame.at = Len(code[Frame.block]) + 1 =>
           \A phi \in phis : Frame.block \in Preds(phi[1]) => Covered(Frame.block)
  PROVE  Served'
<1>1. \A b \in Block : \A i \in Int :
        Pending(b, i) => Pending(b, i)' \/ (b = Frame.block /\ i = Frame.at)
  <2>1. Alike(code, code')
    BY DEF Alike
  <2> QED
    BY <2>1, Advance
<1>2. ASSUME NEW phi \in phis, NEW p \in Preds(phi[1])
      PROVE  Covered(p) \/ Pending(p, Len(code[p]) + 1)'
  <2>1. p \in Block
    BY DEF Preds
  <2>2. PICK i \in Int : i = Len(code[p]) + 1 /\ i = Len(code'[p]) + 1
    BY <2>1, EndPlace
  <2>3. Covered(p) \/ Pending(p, i)
    BY <2>2 DEF Served
  <2>4. p = Frame.block /\ i = Frame.at => Covered(p)
    BY <2>2
  <2>5. Covered(p) \/ Pending(p, i)'
    BY <1>1, <2>1, <2>3, <2>4
  <2> QED
    BY <2>2, <2>5
<1> QED
  BY <1>2, SameCovered DEF Served

\* An alloca pushes undef on a stack of its own.
LEMMA RenameAllocaLater ==
  ASSUME IInv, GivenIs, LaterPass, runs # 0, given' = given, RenameAlloca
  PROVE  LaterPass'
<1>1. TypeOK /\ Walk /\ CodeShape
  BY DEF IInv
<1>2. /\ InCode /\ phase = "Rename" /\ phase' = phase /\ Instr.op = "alloca"
      /\ varStack' = [varStack EXCEPT ![Instr.var] = Append(@, Undef)]
      /\ frames' = Advanced(Frame.pushed)
      /\ succ' = succ /\ kids' = kids /\ code' = code /\ phis' = phis
      /\ incoming' = incoming /\ places' = places
  BY DEF RenameAlloca, InCode
<1>3. mine' = mine /\ work' = work /\ promoted' = promoted
  BY <1>2 DEF places
<1>4. /\ Frame.block \in Block /\ Frame.at \in DOMAIN code[Frame.block]
      /\ Instr = code[Frame.block][Frame.at] /\ Frame.pushed \in [Stack -> Nat]
      /\ Frame.at \in Nat
  BY <1>1, <1>2, AtInstr
<1>5. Settled /\ PhisOnly /\ Served
  BY DEF LaterPass
<1>6. Settled'
  BY <1>2, <1>3, <1>5, SettledOn DEF Settled
<1>7. PhisOnly'
  <2>1. Instr.var \in Var
    BY <1>1, <1>2, <1>4 DEF CodeShape
  <2>2. Instr.var # NoVar
    BY <2>1 DEF Var, NoVar
  <2> QED
    BY <1>2, <1>5, <2>2 DEF PhisOnly
<1>8. Served'
  <2>1. Frame.at # Len(code[Frame.block]) + 1
    <3>1. Frame.at <= Len(code[Frame.block])
      BY <1>2 DEF InCode
    <3>2. Len(code[Frame.block]) \in Nat
      BY <1>1, <1>4, EndPlace
    <3> QED
      BY <1>4, <3>1, <3>2
  <2> QED
    BY <1>1, <1>2, <1>4, <1>5, <2>1, ServedGoesOn
<1> QED
  BY <1>6, <1>7, <1>8 DEF LaterPass

\* An instruction that is left alone.
LEMMA SkipInstrLater ==
  ASSUME IInv, GivenIs, LaterPass, runs # 0, given' = given, SkipInstr
  PROVE  LaterPass'
<1>1. TypeOK /\ Walk
  BY DEF IInv
<1>2. /\ InCode /\ phase = "Rename" /\ phase' = phase
      /\ varStack' = varStack
      /\ frames' = Advanced(Frame.pushed)
      /\ succ' = succ /\ kids' = kids /\ code' = code /\ phis' = phis
      /\ incoming' = incoming /\ places' = places
  BY DEF SkipInstr, InCode
<1>3. mine' = mine /\ work' = work /\ promoted' = promoted
  BY <1>2 DEF places
<1>4. Frame.block \in Block /\ Frame.pushed \in [Stack -> Nat] /\ Frame.at \in Nat
  BY <1>1, <1>2, AtInstr
<1>5. Settled /\ PhisOnly /\ Served
  BY DEF LaterPass
<1>6. Settled'
  BY <1>2, <1>3, <1>5, SettledOn DEF Settled
<1>7. PhisOnly'
  BY <1>2, <1>5 DEF PhisOnly
<1>8. Served'
  <2>1. Frame.at # Len(code[Frame.block]) + 1
    <3>1. Frame.at <= Len(code[Frame.block])
      BY <1>2 DEF InCode
    <3>2. Len(code[Frame.block]) \in Nat
      BY <1>1, <1>4, EndPlace
    <3> QED
      BY <1>4, <3>1, <3>2
  <2> QED
    BY <1>1, <1>2, <1>4, <1>5, <2>1, ServedGoesOn
<1> QED
  BY <1>6, <1>7, <1>8 DEF LaterPass

\* There is nothing to promote.
LEMMA NoStoreLater ==
  ASSUME IInv, LaterPass, runs # 0
  PROVE  ~RenameStore /\ ~RenameLoad /\ \A X \in Block : ~PlacePhis(X)
<1>1. TypeOK /\ Walk /\ Settled
  BY DEF IInv, LaterPass
<1>2. ASSUME InCode, Instr.op \in {"store", "load"}, Instr.var \in promoted PROVE FALSE
  <2>1. /\ Frame.block \in Block /\ Frame.at \in DOMAIN code[Frame.block]
        /\ Instr = code[Frame.block][Frame.at]
    BY <1>1, <1>2, AtInstr
  <2> QED
    BY <1>1, <1>2, <2>1, SettledInstr DEF ToErase
<1>3. ~RenameStore
  BY <1>2 DEF RenameStore
<1>4. ~RenameLoad
  BY <1>2 DEF RenameLoad
<1>5. \A X \in Block : ~PlacePhis(X)
  BY <1>1 DEF PlacePhis, Place, Settled
<1> QED
  BY <1>3, <1>4, <1>5

\* A phi node that is filled gets another one, which dominates the block.
LEMMA FillPhisLater ==
  ASSUME IInv, GivenIs, LaterPass, runs # 0, given' = given, FillPhis
  PROVE  LaterPass'
<1>1. TypeOK /\ Walk /\ StacksAvailable
  BY DEF IInv
<1>2. /\ phase = "Rename" /\ phase' = phase /\ varStack' = varStack
      /\ \A phi \in NextPhis : varStack[AllocaOf(phi)] # <<>>
      /\ incoming' = [phi \in phis |->
           IF phi \in NextPhis
           THEN [p \in DOMAIN incoming[phi] \union {Frame.block} |->
                   IF p = Frame.block THEN Last(varStack[AllocaOf(phi)])
                                      ELSE incoming[phi][p]]
           ELSE incoming[phi]]
      /\ frames' = Advanced(Frame.pushed)
      /\ succ' = succ /\ kids' = kids /\ code' = code /\ phis' = phis
      /\ places' = places
  BY DEF FillPhis, Fill, AtEnd
<1>3. mine' = mine /\ work' = work /\ promoted' = promoted
  BY <1>2 DEF places
<1>4. Frame.block \in Block /\ Frame.pushed \in [Stack -> Nat]
  BY <1>1, <1>2, LastCall
<1>5. Settled /\ PhisOnly /\ Served
  BY DEF LaterPass
<1>6. Settled'
  <2>1. /\ \A held, pre : phis = {} => (Simulates(held, pre)' <=> Simulates(held, pre))
        /\ Cleared' <=> Cleared
    <3>1. phis = {} => \A held, pre : Simulates(held, pre)' <=> Simulates(held, pre)
      BY <1>2, SameSimulates
    <3>2. Promotable' = Promotable
      BY <1>2, SameGiven
    <3>3. Cleared' <=> Cleared
      BY <1>2, <3>2 DEF Cleared, Erased
    <3> QED
      BY <3>1, <3>3
  <2>2. Promotable' = Promotable
    BY <1>2, SameGiven
  <2>3. phis' = phis
    BY <1>2
  <2> HIDE <1>2
  <2> QED
    BY <1>3, <1>5, <2>1, <2>2, <2>3 DEF Settled
<1>7. PhisOnly'
  BY <1>2, <1>5 DEF PhisOnly
<1>8. ASSUME NEW phi \in phis, Frame.block \in Preds(phi[1])
      PROVE  Covered(Frame.block)
  <2>1. phi \in NextPhis
    BY <1>4, <1>8 DEF NextPhis, PhisOf, Preds
  <2>2. AllocaOf(phi) = NoVar /\ NoVar \in Stack
    BY <1>5 DEF AllocaOf, Settled, Stack
  <2>3. varStack[NoVar] # <<>>
    BY <1>2, <2>1, <2>2
  <2>4. /\ \E j \in DOMAIN varStack[NoVar] : Last(varStack[NoVar]) = varStack[NoVar][j]
        /\ Available(succ, code, phis, Last(varStack[NoVar]), Frame.block, Frame.at)
    BY <1>1, <1>2, <2>2, <2>3, TopValue
  <2>5. PICK val : val = Last(varStack[NoVar])
    OBVIOUS
  <2>6. val[1] = "phi"
    BY <1>5, <2>4, <2>5 DEF PhisOnly
  <2>7. Dominates(succ, val[2], Frame.block) /\ <<val[2], val[3]>> \in phis
    BY <2>4, <2>5, <2>6 DEF Available
  <2>8. PICK other \in phis : other[1] = val[2]
    BY <2>7
  <2> QED
    BY <2>7, <2>8 DEF Covered, Dom
<1>9. Served'
  BY <1>1, <1>2, <1>4, <1>5, <1>8, ServedGoesOn
<1> QED
  BY <1>6, <1>7, <1>9 DEF LaterPass

\* A stack is read that is empty.
LEMMA ReadEmptyStackLater ==
  ASSUME IInv, GivenIs, LaterPass, runs # 0, given' = given, ReadEmptyStack
  PROVE  LaterPass'
<1>1. /\ phase' = "Undefined" /\ varStack' = varStack /\ places' = places
      /\ succ' = succ /\ code' = code /\ phis' = phis /\ incoming' = incoming
  BY DEF ReadEmptyStack
<1>2. mine' = mine /\ work' = work /\ promoted' = promoted
  BY <1>1 DEF places
<1>3. Settled'
  BY <1>1, <1>2, SettledOn DEF LaterPass, Settled
<1>4. PhisOnly' /\ Served'
  BY <1>1 DEF LaterPass, PhisOnly, Served
<1> QED
  BY <1>3, <1>4 DEF LaterPass

\* The walk begins, all of it to come.
LEMMA BeginRenamingLater ==
  ASSUME IInv, GivenIs, LaterPass, runs # 0, given' = given, BeginRenaming
  PROVE  LaterPass'
<1>1. TypeOK
  BY DEF IInv
<1>2. PICK r : r = Call(Entry) /\ frames' = <<r>>
  BY DEF BeginRenaming
<1>3. /\ phase' = "Rename" /\ varStack' = PushPhis(Entry) /\ places' = places
      /\ succ' = succ /\ code' = code /\ phis' = phis /\ incoming' = incoming
  BY DEF BeginRenaming
<1>4. mine' = mine /\ work' = work /\ promoted' = promoted
  BY <1>3 DEF places
<1>5. Settled'
  BY <1>3, <1>4, SettledOn DEF LaterPass, Settled
<1>6. PhisOnly'
  BY <1>1, <1>3, PushedOnly, EntryIsBlock DEF LaterPass
<1>7. r.block = Entry /\ r.at = 1 /\ r.kids = kids[Entry]
  BY <1>1, <1>2, Push, EntryIsBlock
<1>8. Len(frames') = 1 /\ DOMAIN frames' = {1} /\ frames'[1] = r
  BY <1>2
<1>9. ASSUME NEW b \in Block, NEW i \in Nat \ {0} PROVE Pending(b, i)'
  <2>1. CASE b = Entry
    <3>1. Frame' = r
      BY <1>8 DEF Frame
    <3> QED
      BY <1>7, <2>1, <3>1 DEF Pending
  <2>2. CASE b # Entry
    <3>1. PICK c \in kids[Entry] : Dom(c, b)
      BY <1>1, <2>2, DomEntry, ChildAbove, EntryIsBlock
    <3>2. Dominates(succ, c, b)'
      BY <1>3, <3>1 DEF Dom
    <3> QED
      BY <1>7, <1>8, <3>1, <3>2 DEF Pending
  <2> QED
    BY <2>1, <2>2
<1>10. ASSUME NEW p \in Block PROVE Pending(p, Len(code[p]) + 1)'
  <2>1. PICK i \in Nat \ {0} : i = Len(code[p]) + 1 /\ i = Len(code'[p]) + 1
    BY <1>1, <1>3, EndPlace
  <2> QED
    BY <1>9, <2>1
<1>11. Served'
  BY <1>3, <1>10 DEF Served, Preds
<1> QED
  BY <1>5, <1>6, <1>11 DEF LaterPass

\* A child is called.
LEMMA DescendLater ==
  ASSUME IInv, GivenIs, LaterPass, runs # 0, given' = given, NEW Y \in Block, Descend(Y)
  PROVE  LaterPass'
<1>1. TypeOK /\ Walk
  BY DEF IInv
<1>2. /\ phase = "Rename" /\ phase' = phase /\ varStack' = PushPhis(Y)
      /\ succ' = succ /\ code' = code /\ phis' = phis /\ incoming' = incoming
      /\ places' = places
  BY DEF Descend, InTree
<1>3. mine' = mine /\ work' = work /\ promoted' = promoted
  BY <1>2 DEF places
<1>4. Settled /\ PhisOnly /\ Served
  BY DEF LaterPass
<1>5. Settled'
  BY <1>2, <1>3, <1>4, SettledOn DEF Settled
<1>6. PhisOnly'
  BY <1>1, <1>2, <1>4, PushedOnly
<1>7. \A b \in Block : \A i \in Nat \ {0} :
        Pending(b, i) => Pending(b, i)' \/ i > Len(code[b]) + 1
  BY <1>1, DownWalk
<1>8. ASSUME NEW phi \in phis, NEW p \in Preds(phi[1])
      PROVE  Covered(p) \/ Pending(p, Len(code[p]) + 1)'
  <2>1. p \in Block
    BY DEF Preds
  <2>2. PICK i \in Nat \ {0} : i = Len(code[p]) + 1 /\ i = Len(code'[p]) + 1
    BY <1>1, <1>2, <2>1, EndPlace
  <2>3. ~(i > Len(code[p]) + 1)
    BY <2>2
  <2>4. Covered(p) \/ Pending(p, i)
    BY <1>2, <1>4, <2>2 DEF Served
  <2>5. Covered(p) \/ Pending(p, i)'
    BY <1>7, <2>1, <2>3, <2>4
  <2> QED
    BY <2>2, <2>5
<1>9. Served'
  BY <1>2, <1>8, SameCovered DEF Served
<1> QED
  BY <1>5, <1>6, <1>9 DEF LaterPass

\* A call returns.
LEMMA ReturnLater ==
  ASSUME IInv, GivenIs, LaterPass, runs # 0, given' = given, Return
  PROVE  LaterPass'
<1>1. TypeOK /\ Walk
  BY DEF IInv
<1>2. /\ phase = "Rename" /\ places' = places
      /\ succ' = succ /\ code' = code /\ phis' = phis /\ incoming' = incoming
  BY DEF Return, InTree
<1>3. mine' = mine /\ work' = work /\ promoted' = promoted
  BY <1>2 DEF places
<1>4. PICK n \in Nat \ {0} : n = Len(frames)
  BY <1>1, <1>2, Frames
<1>5. phase' = IF n = 1 THEN "Erase" ELSE "Rename"
  BY <1>2, <1>4 DEF Return
<1>6. Settled /\ PhisOnly /\ Served
  BY DEF LaterPass
<1>7. Settled'
  BY <1>2, <1>3, <1>6, SettledOn DEF Settled
<1>8. PhisOnly'
  <2>1. \A j \in DOMAIN varStack'[NoVar] :
          j \in DOMAIN varStack[NoVar] /\ varStack'[NoVar][j] = varStack[NoVar][j]
    BY <1>1, <1>4, Up DEF Stack
  <2> QED
    BY <1>6, <2>1 DEF PhisOnly
<1>9. ASSUME NEW phi \in phis, NEW p \in Preds(phi[1])
      PROVE  Covered(p) \/ (n # 1 /\ Pending(p, Len(code[p]) + 1)')
  <2>1. p \in Block
    BY DEF Preds
  <2>2. PICK i \in Nat \ {0} : i = Len(code[p]) + 1 /\ i = Len(code'[p]) + 1
    BY <1>1, <1>2, <2>1, EndPlace
  <2>3. ~(i > Len(code[p]) + 1)
    BY <2>2
  <2>4. Covered(p) \/ Pending(p, i)
    BY <1>2, <1>6, <2>2 DEF Served
  <2>5. Covered(p) \/ (n # 1 /\ Pending(p, i)')
    BY <1>1, <1>4, <2>1, <2>3, <2>4, UpPending
  <2> QED
    BY <2>2, <2>5
<1>10. Served'
  BY <1>2, <1>5, <1>9, SameCovered DEF Served
<1> QED
  BY <1>7, <1>8, <1>10 DEF LaterPass

\* Nothing is left to erase.
LEMMA EraseLater ==
  ASSUME IInv, GivenIs, LaterPass, runs # 0, given' = given, Erase
  PROVE  LaterPass'
<1>1. TypeOK
  BY DEF IInv
<1>2. /\ phase = "Erase" /\ phase' = "Done" /\ places' = places /\ varStack' = varStack
      /\ succ' = succ /\ phis' = phis /\ incoming' = incoming
      /\ code' = [b \in Block |-> Kept(code[b])]
  BY DEF Erase
<1>3. mine' = mine /\ work' = work /\ promoted' = promoted
  BY <1>2 DEF places
<1>4. Settled /\ PhisOnly /\ Served
  BY DEF LaterPass
<1>5. ASSUME NEW b \in Block PROVE Kept(code[b]) = code[b]
  <2>1. code[b] \in Seq(Instruction) /\ DOMAIN code[b] = 1..Len(code[b])
    BY <1>1, LenProperties DEF TypeOK
  <2>2. \A k \in 1..Len(code[b]) : ~ToErase(code[b][k])
    BY <1>4, <2>1, SettledInstr
  <2> QED
    BY <2>1, <2>2, AllKept
<1>6. code' = code
  BY <1>1, <1>2, <1>5 DEF TypeOK
<1>7. Settled'
  BY <1>2, <1>3, <1>4, <1>6, SettledOn DEF Settled
<1>8. PhisOnly'
  BY <1>2, <1>4 DEF PhisOnly
<1>9. Served'
  BY <1>2, <1>4, SameCovered DEF Served
<1> QED
  BY <1>7, <1>8, <1>9 DEF LaterPass

\* A step that is none of the pass.
LEMMA StutterLater ==
  ASSUME LaterPass, UNCHANGED vars, given' = given
  PROVE  LaterPass'
<1>1. /\ succ' = succ /\ code' = code /\ phis' = phis /\ incoming' = incoming
      /\ mine' = mine /\ work' = work /\ promoted' = promoted
      /\ varStack' = varStack /\ frames' = frames /\ runs' = runs /\ phase' = phase
  BY DEF vars, places
<1> SUFFICES ASSUME runs # 0 PROVE Settled' /\ PhisOnly' /\ Served'
  BY <1>1 DEF LaterPass
<1>2. Settled'
  BY <1>1, SettledOn DEF LaterPass, Settled
<1>3. PhisOnly'
  BY <1>1 DEF LaterPass, PhisOnly
<1>4. \A b, i : Pending(b, i)' <=> Pending(b, i)
  BY <1>1 DEF Pending, Frame
<1>5. Served'
  BY <1>1, <1>4, SameCovered DEF LaterPass, Served
<1> QED
  BY <1>2, <1>3, <1>5

\* A step of the pass, in whichever run.
LEMMA NextLater ==
  ASSUME IInv, GivenIs, FirstPass, LaterPass, given' = given, Next
  PROVE  LaterPass'
<1>1. CASE RunAgain
  BY <1>1, RunAgainLater
<1>2. CASE runs = 0 /\ RunStep
  <2>1. runs' = runs
    BY <1>2, StepRuns
  <2> QED
    BY <1>2, <2>1 DEF LaterPass
<1>3. CASE runs # 0 /\ RunStep
  <2>1. ASSUME NEW v \in Var, LookAt(v) PROVE LaterPass'
    BY <1>3, <2>1, LookAtLater
  <2>2. ASSUME NEW X \in Block, PlacePhis(X) PROVE LaterPass'
    BY <1>3, <2>2, NoStoreLater
  <2>3. ASSUME NEW Y \in Block, Descend(Y) PROVE LaterPass'
    BY <1>3, <2>3, DescendLater
  <2>4. CASE BeginRenaming
    BY <1>3, <2>4, BeginRenamingLater
  <2>5. CASE RenameAlloca
    BY <1>3, <2>5, RenameAllocaLater
  <2>6. CASE RenameStore
    BY <1>3, <2>6, NoStoreLater
  <2>7. CASE RenameLoad
    BY <1>3, <2>7, NoStoreLater
  <2>8. CASE SkipInstr
    BY <1>3, <2>8, SkipInstrLater
  <2>9. CASE FillPhis
    BY <1>3, <2>9, FillPhisLater
  <2>10. CASE ReadEmptyStack
    BY <1>3, <2>10, ReadEmptyStackLater
  <2>11. CASE Return
    BY <1>3, <2>11, ReturnLater
  <2>12. CASE Erase
    BY <1>3, <2>12, EraseLater
  <2> QED
    BY <1>3, <2>1, <2>2, <2>3, <2>4, <2>5, <2>6, <2>7, <2>8, <2>9, <2>10, <2>11, <2>12
    DEF RunStep
<1> QED
  BY <1>1, <1>2, <1>3 DEF Next

-----------------------------------------------------------------------------
(* The machines see the same in each block, in whichever order the phi     *)
(* nodes were placed and the tree was walked, and whether the pass was run *)
(* once or more often.                                                     *)

\* The inductive invariant of the pass and the machines.
PInv == IInv /\ GivenIs /\ FirstPass /\ LaterPass /\ InStep

\* Machines that are in step have seen the same.
LEMMA SeenAlike ==
  ASSUME InStep
  PROVE  BehaviourPreserved
<1>1. CASE at = 0
  BY <1>1 DEF InStep, BehaviourPreserved
<1>2. CASE at # 0
  BY <1>2 DEF InStep, Agree, BehaviourPreserved
<1> QED
  BY <1>1, <1>2

\* PInv holds at the start.
LEMMA PInitPInv ==
  ASSUME PInit
  PROVE  PInv
<1>1. IInv
  BY InitIInv DEF PInit
<1>2. GivenIs /\ FirstPass
  BY InitFirst
<1>3. LaterPass
  BY DEF PInit, Init, LaterPass
<1>4. InStep
  BY DEF PInit, InStep
<1> QED
  BY <1>1, <1>2, <1>3, <1>4 DEF PInv

\* Each step of the pass and of the machines keeps it.
LEMMA PNextPInv ==
  ASSUME PInv, [PNext]_pvars
  PROVE  PInv'
<1>1. IInv /\ GivenIs /\ FirstPass /\ LaterPass /\ InStep /\ TypeOK
  BY DEF PInv, IInv
<1>2. CASE PassStep
  <2>1. Next /\ given' = given
    BY <1>2 DEF PassStep
  <2>2. IInv'
    BY <1>1, <2>1, NextIInv
  <2>3. GivenIs'
    BY <1>1, <2>1, NextRuns, NextGiven
  <2>4. FirstPass'
    BY <1>1, <2>1, NextFirst
  <2>5. LaterPass'
    BY <1>1, <2>1, NextLater
  <2>6. InStep'
    BY <1>1, <1>2, PassInStep
  <2> QED
    BY <2>2, <2>3, <2>4, <2>5, <2>6 DEF PInv
<1>3. ASSUME UNCHANGED vars, given' = given
      PROVE  IInv' /\ GivenIs' /\ FirstPass' /\ LaterPass'
  <2>1. succ' = succ
    BY <1>3 DEF vars
  <2>2. IInv'
    BY <1>1, <1>3, StutterIInv
  <2>3. GivenIs'
    BY <1>1, <1>3, <2>1, NextGiven
  <2>4. FirstPass'
    BY <1>1, <1>3, StutterFirst
  <2>5. LaterPass'
    BY <1>1, <1>3, StutterLater
  <2> QED
    BY <2>2, <2>3, <2>4, <2>5
<1>4. ASSUME NEW b \in Block, RunBlock(b) PROVE PInv'
  <2>1. UNCHANGED vars /\ given' = given
    BY <1>4 DEF RunBlock
  <2>2. Promised
    BY <1>1, AllPromised
  <2>3. InStep'
    BY <1>1, <1>4, <2>2, RunInStep
  <2> QED
    BY <1>3, <2>1, <2>3 DEF PInv
<1>5. CASE UNCHANGED pvars
  <2>1. UNCHANGED vars /\ given' = given
    BY <1>5 DEF pvars
  <2>2. InStep'
    BY <1>1, <1>5, StutterInStep
  <2> QED
    BY <1>3, <2>1, <2>2 DEF PInv
<1> QED
  BY <1>2, <1>4, <1>5 DEF PNext

(* PInv is an invariant of the pass followed by the machines.              *)
LEMMA PInvariance == PSpec => []PInv
<1>1. PInit => PInv
  BY PInitPInv
<1>2. PInv /\ [PNext]_pvars => PInv'
  BY PNextPInv
<1> QED
  BY <1>1, <1>2, PTL DEF PSpec

(* What the pass returns behaves like the code it was given: along every   *)
(* path through the function the two machines see the same values in each  *)
(* block, whatever the function and however often the pass is run.         *)
THEOREM PromotionPreservesBehaviour == PSpec => []BehaviourPreserved
<1>1. PInv => BehaviourPreserved
  BY SeenAlike DEF PInv
<1> QED
  BY <1>1, PInvariance, PTL

(* A function with phi nodes does not survive a second mem2reg: the phi    *)
(* nodes are not in the new phiAllocaMap, and the first of them that is    *)
(* filled from a block no phi node dominates reads an empty stack.         *)
THEOREM OnlyPhiFreeRunsAgain == PSpec => [](runs # 0 /\ phase = "Done" => phis = {})
<1>1. PInv => (runs # 0 /\ phase = "Done" => phis = {})
  BY NoneServed DEF PInv, IInv, LaterPass
<1> QED
  BY <1>1, PInvariance, PTL
=============================================================================
