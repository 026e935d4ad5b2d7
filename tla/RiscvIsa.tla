------------------------------ MODULE RiscvIsa ------------------------------
(***************************************************************************)
(* What the processor promises to a program: one instruction after the     *)
(* other takes effect on the pc, the registers and the memory, atomically  *)
(* and in program order.  No stages, no scoreboard, no multi-cycle unit.   *)
(***************************************************************************)
EXTENDS RiscvProgram

VARIABLES
    prog,   \* the program in instruction memory
    pc,     \* address of the next instruction
    regs,   \* the register file
    mem     \* data memory

vars == <<prog, pc, regs, mem>>

Current == prog[pc]

\* A branch's outcome, from the values of its operands.
Taken(i, a, b) ==
    \/ i.op \in {"JAL", "JALR"}
    \/ i.op = "BEQ" /\ a = b
    \/ i.op = "BNE" /\ a # b
    \/ i.op = "BLTU" /\ a < b

Successor(i, a, b) ==
    IF ~Taken(i, a, b) THEN Plus(pc, 1)
    ELSE Plus(IF i.op = "JALR" THEN a ELSE pc, i.imm)

\* The value an instruction leaves in rd, one line per kind of instruction.
Value(i, a, b) ==
    CASE i.op = "ALU"             -> Alu(i.fn, a, b)
      [] i.op = "ALUI"            -> Alu(i.fn, a, i.imm)
      [] i.op = "LUI"             -> i.imm
      [] i.op = "AUIPC"           -> Plus(pc, i.imm)
      [] i.op \in MOps            -> MulDiv(i.op, a, b)
      [] i.op \in {"JAL", "JALR"} -> Plus(pc, 1)
      [] i.op = "LW"              -> mem[Plus(a, i.imm)]

Init ==
    /\ prog \in Programs
    /\ pc \in Word
    /\ regs = [r \in Reg |-> 0]
    /\ mem = [a \in Word |-> 0]

Step ==
    LET i == Current
        a == regs[i.rs1]
        b == regs[i.rs2]
    IN  /\ pc' = Successor(i, a, b)
        /\ regs' = IF WritesRd(i) THEN [regs EXCEPT ![i.rd] = Value(i, a, b)] ELSE regs
        /\ mem' = IF i.op = "SW" THEN [mem EXCEPT ![Plus(a, i.imm)] = b] ELSE mem
        /\ UNCHANGED prog

Spec == Init /\ [][Step]_vars
=============================================================================
