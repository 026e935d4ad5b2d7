------------------------- MODULE InstructionDecode --------------------------
(***************************************************************************)
(* One RV32IM instruction word is decoded several times: by decode_rv32,   *)
(* whose answer decides writes_rd, reads_rs2 and op_class, and again by    *)
(* each execution plugin, which looks at the raw opcode, funct3 and funct7 *)
(* fields.  This module follows a word through the plugins and records     *)
(* what is done with it.  CpuPipeline takes the agreement for granted: its *)
(* instructions carry one operation each.  The M extension is that of      *)
(* MulDivFsmPlugin.                                                        *)
(***************************************************************************)
EXTENDS Naturals

CONSTANT
    Funct7s    \* the funct7 values tried; 0, 1 and 32 have a meaning

ASSUME Funct7Assumption == {0, 1, 32} \subseteq Funct7s /\ Funct7s \subseteq 0 .. 127

Opcodes == {"LUI", "AUIPC", "JAL", "JALR", "BRANCH", "LOAD", "STORE", "OPIMM", "OP",
            "FENCE", "SYSTEM", "OTHER"}

\* The fields the plugins look at; rd0 says that the rd field is zero.
Fields == [opcode : Opcodes, funct3 : 0 .. 7, funct7 : Funct7s, rd0 : BOOLEAN]

VARIABLES
    word,     \* the instruction in the pipeline
    dec,      \* DecodePayload: op (not kept by the code), op_class, writes_rd, reads_rs2
    effect,   \* what the pass did to rd, memory and the pc
    stage     \* the stage to run next

vars == <<word, dec, effect, stage>>

-----------------------------------------------------------------------------
\* decode_rv32

Entry(table, funct3) == IF funct3 \in DOMAIN table THEN table[funct3] ELSE "UNKNOWN"

BranchOp ==
    [f \in {0, 1, 4, 5, 6, 7} |->
        CASE f = 0 -> "BEQ" [] f = 1 -> "BNE" [] f = 4 -> "BLT" [] f = 5 -> "BGE"
          [] f = 6 -> "BLTU" [] f = 7 -> "BGEU"]
LoadOp ==
    [f \in {0, 1, 2, 4, 5} |->
        CASE f = 0 -> "LB" [] f = 1 -> "LH" [] f = 2 -> "LW" [] f = 4 -> "LBU" [] f = 5 -> "LHU"]
StoreOp == [f \in 0 .. 2 |-> CASE f = 0 -> "SB" [] f = 1 -> "SH" [] f = 2 -> "SW"]
MulDivOp ==
    [f \in 0 .. 7 |->
        CASE f = 0 -> "MUL" [] f = 1 -> "MULH" [] f = 2 -> "MULHSU" [] f = 3 -> "MULHU"
          [] f = 4 -> "DIV" [] f = 5 -> "DIVU" [] f = 6 -> "REM"    [] f = 7 -> "REMU"]

\* funct7 counts only where it tells two operations apart.
ByFunct7(f7, plain, other) ==
    CASE f7 = 0 -> plain [] f7 = 32 -> other [] OTHER -> "UNKNOWN"

ImmediateOp(f7) ==
    [f \in 0 .. 7 |->
        CASE f = 0 -> "ADDI"  [] f = 1 -> "SLLI" [] f = 2 -> "SLTI" [] f = 3 -> "SLTIU"
          [] f = 4 -> "XORI"  [] f = 5 -> ByFunct7(f7, "SRLI", "SRAI")
          [] f = 6 -> "ORI"   [] f = 7 -> "ANDI"]

RegisterOp(f7) ==
    [f \in 0 .. 7 |->
        CASE f = 0 -> ByFunct7(f7, "ADD", "SUB") [] f = 1 -> "SLL" [] f = 2 -> "SLT"
          [] f = 3 -> "SLTU" [] f = 4 -> "XOR" [] f = 5 -> ByFunct7(f7, "SRL", "SRA")
          [] f = 6 -> "OR"   [] f = 7 -> "AND"]

decode_rv32(w) ==
    CASE w.opcode = "BRANCH" -> Entry(BranchOp, w.funct3)
      [] w.opcode = "LOAD"   -> Entry(LoadOp, w.funct3)
      [] w.opcode = "STORE"  -> Entry(StoreOp, w.funct3)
      [] w.opcode = "OPIMM"  -> ImmediateOp(w.funct7)[w.funct3]
      [] w.opcode = "OP"     -> IF w.funct7 = 1 THEN MulDivOp[w.funct3]
                                ELSE RegisterOp(w.funct7)[w.funct3]
      [] w.opcode = "OTHER"  -> "UNKNOWN"
      [] OTHER               -> w.opcode    \* LUI, AUIPC, JAL, JALR, FENCE, SYSTEM

Branches   == {BranchOp[f] : f \in DOMAIN BranchOp}
Loads      == {LoadOp[f] : f \in DOMAIN LoadOp}
Stores     == {StoreOp[f] : f \in DOMAIN StoreOp}
MulDivs    == {MulDivOp[f] : f \in DOMAIN MulDivOp}
Immediates == {ImmediateOp(f7)[f] : f7 \in {0, 32}, f \in 0 .. 7}
Registers  == {RegisterOp(f7)[f] : f7 \in {0, 32}, f \in 0 .. 7}

get_op_class(op) ==
    CASE op \in Branches \cup {"JAL", "JALR"} -> "BRANCH"
      [] op \in Loads                         -> "LOAD"
      [] op \in Stores                        -> "STORE"
      [] op \in {"FENCE", "SYSTEM"}           -> "SYSTEM"
      [] op = "UNKNOWN"                       -> "UNKNOWN"
      [] OTHER                                -> "ALU"

writes_rd(op, funct3, rd0) ==
    /\ ~rd0
    /\ \/ op \in {"LUI", "AUIPC", "JAL", "JALR"} \cup Immediates \cup Registers
                 \cup MulDivs \cup Loads
       \/ op = "SYSTEM" /\ funct3 # 0

is_rs2_used(op) == op \in Registers \cup MulDivs \cup Stores \cup Branches

-----------------------------------------------------------------------------
\* What each plugin makes of the fields

\* RiscvIntAluPlugin::infer_opcode
infer_opcode(f3, f7) ==
    CASE f3 = 0 -> (IF f7 = 32 THEN "SUB" ELSE "ADD")
      [] f3 = 1 -> "SLL" [] f3 = 2 -> "SLT" [] f3 = 3 -> "SLTU" [] f3 = 4 -> "XOR"
      [] f3 = 5 -> (IF f7 = 32 THEN "SRA" ELSE "SRL")
      [] f3 = 6 -> "OR"  [] f3 = 7 -> "AND"

\* RiscvIntAluPlugin: operation and second operand.
AluEffect(w, reads_rs2) ==
    IF w.opcode \in {"LUI", "AUIPC"} THEN <<w.opcode, "imm">>
    ELSE <<infer_opcode(w.funct3, w.funct7), IF reads_rs2 THEN "rs2" ELSE "imm">>

\* MulDivFsmPlugin: the capture condition and funct3_to_opcode.
FsmTakes(w) == w.opcode = "OP" /\ w.funct7 = 1

\* A defect, the one branch.h:71-74 tells of: JAL and JALR told by funct7.
LinksByFunct7(w, op_class) == op_class = "BRANCH" /\ w.funct7 = 0

\* RiscvBranchPlugin: is the pc's successor linked, and what decides the pc.
Links(w, op_class) == op_class = "BRANCH" /\ w.opcode \in {"JAL", "JALR"}

BranchEffect(w, op_class) ==
    IF op_class # "BRANCH" THEN "next"
    ELSE IF Links(w, op_class) THEN w.opcode
    ELSE Entry(BranchOp, w.funct3)

\* The last writer of RD_DATA wins: DBus, Branch, MulDivFsm, IntAlu.
RdValue(w, d) ==
    CASE d.op_class = "LOAD"  -> <<Entry(LoadOp, w.funct3), "mem">>
      [] Links(w, d.op_class) -> <<"PC+4", "pc">>
      [] FsmTakes(w)          -> <<MulDivOp[w.funct3], "rs2">>
      [] OTHER                -> AluEffect(w, d.reads_rs2)

NoValue == <<"none", "none">>
NoEffect == [rd |-> NoValue, store |-> "none", pc |-> "next"]

-----------------------------------------------------------------------------
\* A pass of one word

NoDecode == [op |-> "UNKNOWN", op_class |-> "UNKNOWN", writes_rd |-> FALSE,
             reads_rs2 |-> FALSE]

\* The word w has been fetched; InstructionDecode's users say which words are.
Fetched(w) ==
    /\ word = w
    /\ dec = NoDecode
    /\ effect = NoEffect
    /\ stage = "decode"

\* RiscvDecodePlugin's callback
Decode ==
    /\ stage = "decode"
    /\ LET op == decode_rv32(word)
       IN  dec' = [op        |-> op,
                   op_class  |-> get_op_class(op),
                   writes_rd |-> writes_rd(op, word.funct3, word.rd0),
                   reads_rs2 |-> is_rs2_used(op)]
    /\ stage' = "execute"
    /\ UNCHANGED <<word, effect>>

\* execute, memory and writeback: the callbacks of IntAlu, MulDivFsm, Branch,
\* Lsu, DBus and RegFile, and the pc update.
Execute ==
    /\ stage = "execute"
    /\ effect' = [rd    |-> IF dec.writes_rd THEN RdValue(word, dec) ELSE NoValue,
                  store |-> IF dec.op_class = "STORE" THEN Entry(StoreOp, word.funct3)
                            ELSE "none",
                  pc    |-> BranchEffect(word, dec.op_class)]
    /\ stage' = "done"
    /\ UNCHANGED <<word, dec>>

TlmNext == Decode \/ Execute

-----------------------------------------------------------------------------
\* What an operation is to do, from the operation alone

RegisterForm ==
    [op \in Immediates |->
        CASE op = "ADDI" -> "ADD"   [] op = "SLTI" -> "SLT" [] op = "SLTIU" -> "SLTU"
          [] op = "XORI" -> "XOR"   [] op = "ORI" -> "OR"   [] op = "ANDI" -> "AND"
          [] op = "SLLI" -> "SLL"   [] op = "SRLI" -> "SRL" [] op = "SRAI" -> "SRA"]

Meaning(op) ==
    CASE op \in Registers \cup MulDivs -> <<op, "rs2">>
      [] op \in Immediates             -> <<RegisterForm[op], "imm">>
      [] op \in {"LUI", "AUIPC"}       -> <<op, "imm">>
      [] op \in Loads                  -> <<op, "mem">>
      [] op \in {"JAL", "JALR"}        -> <<"PC+4", "pc">>
      [] OTHER                         -> NoValue

Done == stage = "done"

\* An ADDI whose immediate has 0x20 in its upper seven bits: they are what
\* funct7 is of other words, and int_alu.h:117 takes them for it.
AddiWithSubBits == dec.op = "ADDI" /\ word.funct7 = 32

\* The plugins together do what the decoded operation means: the value rd
\* gets, the width stored and the condition that decides the pc all belong to
\* the same operation (decoder_table.h:283-391 against int_alu.h:115-127,
\* branch.h:75-103, mul_div_fsm.h:314-318, dbus.h:86-137).  It is not so for
\* two kinds of word: SYSTEM, which no plugin executes, and AddiWithSubBits,
\* which subtracts.
PluginsAgree ==
    Done /\ dec.op # "SYSTEM" /\ ~AddiWithSubBits =>
        /\ effect.rd = IF word.rd0 THEN NoValue ELSE Meaning(dec.op)
        /\ effect.store = IF dec.op \in Stores THEN dec.op ELSE "none"
        /\ effect.pc = IF dec.op \in Branches \cup {"JAL", "JALR"} THEN dec.op ELSE "next"

=============================================================================
