---------------------------- MODULE RiscvProgram ----------------------------
(***************************************************************************)
(* The words, registers and instructions that the architecture (RiscvIsa)  *)
(* and the pipeline that runs them (CpuPipeline) share.                    *)
(*                                                                         *)
(* Data is abstracted, control is not.  A word is a residue modulo         *)
(* WordCount (2^32 in the code); addresses count instruction words, so the *)
(* code's pc + 4 is Plus(pc, 1).  What the arithmetic units compute is a   *)
(* parameter: Alu stands for RiscvIntAluPlugin::compute and MulDiv for     *)
(* RiscvMulPlugin::compute, of which only the range matters here.  An      *)
(* instruction is a record; fn is the operation that infer_opcode derives  *)
(* from its funct3/funct7 bits whatever the instruction is, because the    *)
(* ALU plugin evaluates it for every instruction.                          *)
(***************************************************************************)
EXTENDS Integers

CONSTANTS
    WordCount,        \* number of values of a register, address or pc
    RegCount,         \* number of registers; register 0 is hard-wired to zero
    AluFn,            \* operations of the integer ALU
    Alu(_, _, _),     \* Alu(fn, a, b): result of the integer ALU
    MulDiv(_, _, _),  \* MulDiv(op, a, b): result of an M-extension operation
    Programs          \* the programs considered: functions from Word to Instruction

Word == 0 .. (WordCount - 1)
Reg  == 0 .. (RegCount - 1)

\* T arithmetic wraps: all of uint32_t's additions in the pipeline.
Plus(a, b) == (a + b) % WordCount

\* One member per timing class of the M extension: MUL takes one tick of the
\* multi-cycle unit, the MULH family two, the DIV/REM family DivSteps + 1.
MOps == {"MUL", "MULH", "DIV"}

BranchOps == {"BEQ", "BNE", "BLTU", "JAL", "JALR"}

Ops == {"ALU", "ALUI", "LUI", "AUIPC", "LW", "SW", "UNKNOWN"} \cup MOps \cup BranchOps

Instruction ==
    [op : Ops, fn : AluFn, rd : Reg, rs1 : Reg, rs2 : Reg, imm : Word]

\* RiscvDecodePlugin::writes_rd
WritesRd(i) ==
    /\ i.rd # 0
    /\ i.op \in {"ALU", "ALUI", "LUI", "AUIPC", "LW", "JAL", "JALR"} \cup MOps

\* RiscvDecodePlugin::is_rs2_used
ReadsRs2(i) == i.op \in {"ALU", "SW", "BEQ", "BNE", "BLTU"} \cup MOps

\* An M operation is never followed by another one.
Spaced(p) == \A a \in Word : p[a].op \in MOps => p[Plus(a, 1)].op \notin MOps

ASSUME WordAssumption == WordCount \in Nat /\ WordCount >= 2
ASSUME RegAssumption  == RegCount \in Nat /\ RegCount >= 1
ASSUME AluAssumption ==
    /\ AluFn # {}
    /\ \A fn \in AluFn, a \in Word, b \in Word : Alu(fn, a, b) \in Word
ASSUME MulDivAssumption ==
    \A op \in MOps, a \in Word, b \in Word : MulDiv(op, a, b) \in Word
ASSUME ProgramsAssumption == Programs \subseteq [Word -> Instruction]
=============================================================================
