-------------------------- MODULE PromotedFunction --------------------------
(***************************************************************************)
(* What MemToReg promises: the function it returns behaves like the one it *)
(* was given. Once the pass is done, both are run side by side, along the  *)
(* same path of blocks. Phi nodes are read as the back end reads them      *)
(* (passes/mc/MIRBuilder.cc gives each its operand for the predecessor):   *)
(* all at once, on entry to their block.                                   *)
(***************************************************************************)
EXTENDS MemToReg

CONSTANT MaxSteps   \* bound: the blocks a run passes through

VARIABLES
  given,     \* the code before the pass
  at,        \* the block run last, 0 before the entry block
  steps,     \* the number of blocks that were run
  before,    \* the machine that runs the code before the pass
  after      \* the machine that runs the code after the pass

machines == <<at, steps, before, after>>
pvars == <<vars, given, machines>>

(***************************************************************************)
(* A machine: the memory of the allocas, the values of the loads and phi   *)
(* nodes that were run, what the other instructions have seen in the block.*)
(***************************************************************************)
Machine == [mem |-> [v \in Var |-> Undef], env |-> <<>>, out |-> <<>>]

Eval(m, val) == IF val \in DOMAIN m.env THEN m.env[val] ELSE val

Set(f, x, y) == [z \in DOMAIN f \union {x} |-> IF z = x THEN y ELSE f[z]]

Exec(m, i) ==
  IF i.op = "alloca" THEN [m EXCEPT !.mem[i.var] = Undef]
  ELSE IF i.op = "store" THEN [m EXCEPT !.mem[i.var] = Eval(m, i.val)]
  ELSE IF i.op = "load" THEN [m EXCEPT !.env = Set(@, i.val, m.mem[i.var])]
  ELSE [m EXCEPT !.out = Append(@, Eval(m, i.val))]

\* The operand of a phi node for the predecessor p.
Operand(phi, p) == IF p \in DOMAIN incoming[phi] THEN incoming[phi][p] ELSE Undef

Entering(m, b) ==
  LET here == {Phi(phi[1], phi[2]) : phi \in PhisOf(b)}
  IN [m EXCEPT !.out = <<>>,
               !.env = [x \in DOMAIN m.env \union here |->
                          IF x \in here
                          THEN Eval(m, Operand(<<x[2], x[3]>>, at))
                          ELSE m.env[x]]]

ExecBlock(m, instrs) ==
  LET run[n \in 0..Len(instrs)] ==
        IF n = 0 THEN m ELSE Exec(run[n - 1], instrs[n])
  IN run[Len(instrs)]

PInit ==
  /\ Init
  /\ given = code
  /\ at = 0
  /\ steps = 0
  /\ before = Machine
  /\ after = Machine

PassStep ==
  /\ steps = 0
  /\ Next
  /\ UNCHANGED <<given, machines>>

RunBlock(b) ==
  /\ phase = "Done"
  /\ steps < MaxSteps
  /\ IF at = 0 THEN b = Entry ELSE b \in Succs(at)
  /\ at' = b
  /\ steps' = steps + 1
  /\ before' = ExecBlock([before EXCEPT !.out = <<>>], given[b])
  /\ after' = ExecBlock(Entering(after, b), code[b])
  /\ UNCHANGED <<vars, given>>

PNext == PassStep \/ \E b \in Block : RunBlock(b)
PSpec == PInit /\ [][PNext]_pvars /\ WF_pvars(PassStep)

-----------------------------------------------------------------------------
(* Properties *)

\* mem2reg keeps the meaning of the function: on every path, whatever else
\* uses a value sees the same values before and after, also the values of
\* variables that are carried round a loop or exchanged in it.
BehaviourPreserved == before.out = after.out
=============================================================================
