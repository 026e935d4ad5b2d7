--------------------------- MODULE MCCpuPipeline ----------------------------
(***************************************************************************)
(* Small processors for TLC: 4 words, 3 registers, programs of 4           *)
(* instructions drawn from a palette and started at any of them.           *)
(***************************************************************************)
EXTENDS CpuPipeline, StageSchedule

MCAluFn == {"ADD", "SUB"}

MCAlu(fn, a, b) == IF fn = "SUB" THEN (a - b) % WordCount ELSE (a + b) % WordCount

\* Unsigned operands; division by zero gives all ones, as in RISC-V.
MCMulDiv(op, a, b) ==
    CASE op = "MUL"  -> (a * b) % WordCount
      [] op = "MULH" -> (a * b) \div WordCount
      [] op = "DIV"  -> IF b = 0 THEN WordCount - 1 ELSE a \div b

I(op, fn, rd, rs1, rs2, imm) ==
    [op |-> op, fn |-> fn, rd |-> rd, rs1 |-> rs1, rs2 |-> rs2, imm |-> imm]

\* addi x1, x2, 3; sub x2, x1, x2
Arithmetic == {I("ALUI", "ADD", 1, 2, 0, 3), I("ALU", "SUB", 2, 1, 2, 0)}

\* bne x1, x2, 2; jalr x2, x1, 1; bltu x1, x2, 3; beq x1, x0, 3; jal x1, 2
Control ==
    {I("BNE", "ADD", 0, 1, 2, 2), I("JALR", "ADD", 2, 1, 0, 1),
     I("BLTU", "ADD", 0, 1, 2, 3), I("BEQ", "ADD", 0, 1, 0, 3), I("JAL", "ADD", 1, 0, 0, 2)}

LoadStore == {I("LW", "ADD", 2, 1, 0, 1), I("SW", "ADD", 0, 1, 2, 1)}

Upper == {I("LUI", "ADD", 2, 0, 0, 2), I("AUIPC", "ADD", 1, 0, 0, 1)}

\* mul x1, x1, x2; mulhu x2, x2, x1; div x2, x1, x2 (rd is an operand)
MulDivOps ==
    {I("MUL", "ADD", 1, 1, 2, 0), I("MULH", "SUB", 2, 2, 1, 0), I("DIV", "ADD", 2, 1, 2, 0)}

ProgramsOver(palette) == [Word -> palette]

\* No M operation follows another one.
SpacedOver(palette) == {p \in ProgramsOver(palette) : Spaced(p)}

DataPrograms ==
    SpacedOver(Arithmetic \cup LoadStore \cup MulDivOps)

ControlPrograms ==
    SpacedOver(Control \cup Upper \cup {I("MULH", "SUB", 2, 2, 1, 0), I("UNKNOWN", "ADD", 1, 1, 2, 0)})

AllPrograms == DataPrograms \cup ControlPrograms

\* The schedules, written out so that TLC computes them once.
Order3 == <<"if", "exmem", "wb", "decode", "execute", "memory", "writeback", "fetch">>
Order5 == <<"fetch", "decode", "execute", "memory", "writeback">>
Order7 == <<"fetch", "decode", "execute", "memory", "writeback", "retire", "commit">>

ASSUME ScheduleAssumption ==
    Order3 = BuiltOrder(3) /\ Order5 = BuiltOrder(5) /\ Order7 = BuiltOrder(7)
=============================================================================
