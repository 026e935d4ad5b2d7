----------------------------- MODULE MCChmemCpu -----------------------------
(***************************************************************************)
(* A small CH_MEM processor for TLC: 4 words, 2 registers, 2 predictor     *)
(* entries, programs of 4 instructions from a palette started anywhere.    *)
(***************************************************************************)
EXTENDS ChmemCpu

MCAluFn == {"ADD"}
MCAlu(fn, a, b) == (a + b) % WordCount
MCMulDiv(op, a, b) == (a * b) % WordCount

\* The immediate stands for bits 31..20.  An UNKNOWN instruction whose imm
\* names a CSR is csrrw (rs2 = 0) or csrrsi (rs2 # 0).
MCFunct12(i) ==
    CASE i.imm = 0 -> "ECALL" [] i.imm = 1 -> "EBREAK"
      [] i.imm = 2 -> "mstatus" [] OTHER -> "mepc"

MCZicsr(i) ==
    IF i.op # "UNKNOWN" \/ i.imm < 2 THEN "NONE" ELSE IF i.rs2 # 0 THEN "RSI" ELSE "RW"

I(op, rd, rs1, rs2, imm) ==
    [op |-> op, fn |-> "ADD", rd |-> rd, rs1 |-> rs1, rs2 |-> rs2, imm |-> imm]

\* addi x1, x1, 3; sw x1, 1(x1); lw x1, 0(x1)
Data == {I("ALUI", 1, 1, 0, 3), I("SW", 0, 1, 1, 1), I("LW", 1, 1, 0, 0)}

\* bne x1, x0, 2; beq x0, x0, 3; jal x1, 2; jalr x1, x1, 1
Control ==
    {I("BNE", 0, 1, 0, 2), I("BEQ", 0, 0, 0, 3), I("JAL", 1, 0, 0, 2), I("JALR", 1, 1, 0, 1)}

\* csrrw x1, mstatus, x1; csrrsi x0, mepc, 1; ecall
System == {I("UNKNOWN", 1, 1, 0, 2), I("UNKNOWN", 0, 1, 1, 3), I("UNKNOWN", 0, 0, 0, 0)}

MCPrograms == [Word -> Data \cup Control] \cup
              [Word -> System \cup {I("ALUI", 1, 1, 0, 3), I("JAL", 1, 0, 0, 2)}]
=============================================================================
