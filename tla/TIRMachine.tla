------------------------------ MODULE TIRMachine ------------------------------
(***************************************************************************)
(* What a function of the intermediate representation does when it runs:   *)
(* external to the source, which lowers it to machine code, and as strict  *)
(* as the comments in include/tir/Instructions.h. A value that is loaded,  *)
(* stored, compared or passed at another type than its own, a load from    *)
(* memory that was not allocated and a division by zero are undefined.     *)
(*                                                                         *)
(* Values are <<type, n>>, n being the bits of an integer, without sign,   *)
(* or an address: a tuple <<region, which, index>>. The memory maps the    *)
(* addresses that were written to values; memory from malloc starts as     *)
(* zeros. A run is a record                                                *)
(*   regs, mem    values of the instructions and of the memory             *)
(*   blocks       the sizes of what malloc returned, in bytes              *)
(*   log          the calls of other methods                               *)
(*   to           where the terminator of the block went, or 0             *)
(*   outcome      running, returned, thrown, undefined or, after too many  *)
(*                blocks, endless                                          *)
(*   value        what it returned                                         *)
(***************************************************************************)
EXTENDS TIR

CONSTANT
  Methods     \* the external methods: name -> the types [params, returns]

NullAddress == <<"null", 0, 0>>
NoValue     == <<"void", 0>>

Signed(ty, n) == IF n >= 2 ^ (Bits[ty] - 1) THEN n - 2 ^ Bits[ty] ELSE n
Pattern(ty, n) == n % 2 ^ Bits[ty]

----------------------------------------------------------------------------
(* Operands *)

Stop(M, outcome) == [M EXCEPT !.outcome = outcome]
Undefined(M)     == Stop(M, "undefined")
Define(M, i, v)  == [M EXCEPT !.regs = (i :> v) @@ @]

ValueOf(M, v) ==
    CASE v[1] = "int"    -> <<v[2], v[3]>>
      [] v[1] = "null"   -> <<"ptr", NullAddress>>
      [] v[1] = "arg"    -> M.args[v[3]]
      [] v[1] = "global" -> <<"ptr", <<"static", v[3], 0>>>>
      [] OTHER           -> M.regs[v[3]]

----------------------------------------------------------------------------
(* Memory *)

Zero(ty) == <<ty, IF ty = "ptr" THEN NullAddress ELSE 0>>

\* An element of one bit has a byte of its own.
Stride(ty) == IF ty = "i1" THEN 1 ELSE SizeInBytes[ty]
Fits(M, addr, ty) ==
    \/ addr[1] \in {"slot", "static", "field"}
    \/ addr[1] = "elem" /\ (addr[3] + 1) * Stride(ty) <= M.blocks[addr[2]]

Load(M, i, addr, ty) ==
    IF ~Fits(M, addr, ty) THEN Undefined(M)
    ELSE IF addr \in DOMAIN M.mem
         THEN IF M.mem[addr][1] = ty THEN Define(M, i, M.mem[addr]) ELSE Undefined(M)
    ELSE IF addr[1] \in {"elem", "field"} THEN Define(M, i, Zero(ty)) ELSE Undefined(M)

TypeAt(M, addr, ty) == IF addr \in DOMAIN M.mem THEN M.mem[addr][1] ELSE ty

Store(M, addr, v) ==
    IF Fits(M, addr, v[1]) /\ TypeAt(M, addr, v[1]) = v[1]
    THEN [M EXCEPT !.mem = (addr :> v) @@ @] ELSE Undefined(M)

\* A field of the structure, or an element of the array, at ptr.
GetElementPtr(ptr, what, idx) ==
    IF ptr[1] # "block" THEN NullAddress
    ELSE <<IF what = "Array" THEN "field" ELSE "elem", ptr[2], idx>>

----------------------------------------------------------------------------
(* Integers *)

Magnitude(a) == IF a < 0 THEN -a ELSE a
Truncated(a, b) ==
    LET q == Magnitude(a) \div Magnitude(b) IN IF (a < 0) = (b < 0) THEN q ELSE -q

Divide(M, i, ty, op, a, b) ==
    IF b = 0 THEN Undefined(M)
    ELSE Define(M, i, <<ty, Pattern(ty, IF op = "Div" THEN Truncated(a, b)
                                        ELSE a - b * Truncated(a, b))>>)

BitsOf(n) == {k \in 0..5 : (n \div 2 ^ k) % 2 = 1}
FromBits(S) == SumSet({2 ^ k : k \in S})

Computed(op, a, b) ==
    CASE op = "Add" -> a + b
      [] op = "Sub" -> a - b
      [] op = "Mul" -> a * b
      [] op = "And" -> FromBits(BitsOf(a) \cap BitsOf(b))
      [] op = "Or"  -> FromBits(BitsOf(a) \cup BitsOf(b))
      [] OTHER      -> FromBits((BitsOf(a) \cup BitsOf(b)) \ (BitsOf(a) \cap BitsOf(b)))

Binary(M, i, op, l, r) ==
    IF l[1] # r[1] \/ l[1] \notin DOMAIN Bits THEN Undefined(M)
    ELSE IF op \in {"Div", "Rem"} THEN Divide(M, i, l[1], op, Signed(l[1], l[2]), Signed(r[1], r[2]))
    ELSE Define(M, i, <<l[1], Pattern(l[1], Computed(op, l[2], r[2]))>>)

Holds(pred, a, b) ==
    CASE pred = "LT" -> a < b
      [] pred = "LE" -> a <= b
      [] pred = "GT" -> a > b
      [] OTHER       -> a >= b

\* Integers are compared with their sign.
Compare(M, i, pred, l, r) ==
    LET result == IF pred = "EQ" THEN l[2] = r[2]
                  ELSE IF pred = "NE" THEN l[2] # r[2]
                  ELSE Holds(pred, Signed(l[1], l[2]), Signed(r[1], r[2]))
    IN IF l[1] # r[1] THEN Undefined(M) ELSE Define(M, i, <<"i1", IF result THEN 1 ELSE 0>>)

Cast(v, op, ty) ==
    <<ty, Pattern(ty, IF op = "SExt" THEN Signed(v[1], v[2]) ELSE v[2])>>

----------------------------------------------------------------------------
(* Calls *)

\* The array whose structure is at v, in the order of creation.
Reference(v) == IF v[1] = "ptr" THEN <<"ptr", v[2][2] \div 2>> ELSE v

Allocate(M, i, bytes) ==
    LET N == [M EXCEPT !.blocks = Append(@, bytes[2])]
    IN Define(N, i, <<"ptr", <<"block", Len(N.blocks), 0>>>>)

LengthAt(M, ptr) ==
    LET addr == GetElementPtr(ptr, "Array", 0)
    IN IF addr \in DOMAIN M.mem THEN M.mem[addr][2] ELSE 0

\* Other methods count their calls in the static field calls.
CallCount == <<"static", "calls", 0>>
External(M, i, name, args) ==
    LET f == Methods[name]
        count == Pattern("i32", M.mem[CallCount][2] + 1)
        called == [M EXCEPT !.mem[CallCount] = <<"i32", count>>,
                            !.log = Append(@, <<name, [k \in DOMAIN args |-> Reference(args[k])]>>)]
    IN IF [k \in DOMAIN args |-> args[k][1]] # f.params THEN Undefined(M)
       ELSE IF f.returns = "void" THEN called
       ELSE Define(called, i, <<f.returns, Pattern(f.returns, count)>>)

Call(M, i, name, args) ==
    CASE name = "malloc" -> Allocate(M, i, args[1])
      [] name = "check_null" -> IF args[1][2] = NullAddress THEN Stop(M, "thrown") ELSE M
      [] name = "check_array_bounds" ->
           IF args[2][2] < LengthAt(M, args[1][2]) THEN M ELSE Stop(M, "thrown")
      [] OTHER -> External(M, i, name, args)

----------------------------------------------------------------------------
(* Running *)

Branch(M, cond, ifTrue, ifFalse) ==
    IF cond[1] # "i1" THEN Undefined(M)
    ELSE [M EXCEPT !.to = IF cond[2] = 1 THEN ifTrue ELSE ifFalse]

Return(M, vals) ==
    LET v == IF vals = <<>> THEN NoValue ELSE vals[1]
    IN IF v[1] # M.returns THEN Undefined(M)
       ELSE [Stop(M, "returned") EXCEPT !.value = Reference(v)]

Perform(M, i, instr, v) ==
    CASE instr.op = "alloca" -> Define(M, i, <<"ptr", <<"slot", i, 0>>>>)
      [] instr.op = "load"   -> Load(M, i, v[1][2], instr.ty)
      [] instr.op = "store"  -> Store(M, v[2][2], v[1])
      [] instr.op = "bin"    -> Binary(M, i, instr.what, v[1], v[2])
      [] instr.op = "cmp"    -> Compare(M, i, instr.what, v[1], v[2])
      [] instr.op = "cast"   -> Define(M, i, Cast(v[1], instr.what, instr.ty))
      [] instr.op = "gep"    ->
           Define(M, i, <<"ptr", GetElementPtr(v[1][2], instr.what, v[2][2])>>)
      [] instr.op = "call"   -> Call(M, i, instr.kids[1][3], Tail(v))
      [] instr.op = "ret"    -> Return(M, v)
      [] OTHER -> Branch(M, v[1], instr.kids[2][3], instr.kids[3][3])

NoOperand(v) == v[1] \in {"block", "fn"}
Execute(F, M, i) ==
    LET kids == F.instrs[i].kids
    IN IF M.outcome # "running" \/ M.to # 0 THEN M
       ELSE Perform(M, i, F.instrs[i],
                    [k \in DOMAIN kids |-> IF NoOperand(kids[k]) THEN NoValue
                                           ELSE ValueOf(M, kids[k])])

RECURSIVE RunFrom(_, _, _, _)
RunFrom(F, M, bb, fuel) ==
    LET One(N, i) == Execute(F, N, i)
        after == FoldLeft(One, [M EXCEPT !.to = 0], F.blocks[bb])
    IN IF fuel = 0 THEN Stop(M, "endless")
       ELSE IF after.outcome = "running" THEN RunFrom(F, after, after.to, fuel - 1)
       ELSE after

RunFunction(F, returns, args, mem, blocks, fuel) ==
    RunFrom(F, [regs |-> << >>, mem |-> mem, blocks |-> blocks, log |-> <<>>, args |-> args,
                to |-> 0, outcome |-> "running", value |-> NoValue, returns |-> returns],
            Entry, fuel)
=============================================================================
