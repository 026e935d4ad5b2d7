------------------------ MODULE ChmemDatapath_proof -------------------------
(***************************************************************************)
(* Proofs about the datapaths: the TLM plugins agree with their decoder    *)
(* for every word, and the CH_MEM circuits with the TLM plugins for every  *)
(* word, whatever its immediate's bits, and registers of every width.      *)
(***************************************************************************)
EXTENDS ChmemDatapath, WellFoundedInduction, TLAPS

-----------------------------------------------------------------------------
(* The decoder's tables *)

\* Each funct3 of a branch names its operation or none.
LEMMA BranchTable ==
    \A f \in 0 .. 7 :
        Entry(BranchOp, f) = CASE f = 0 -> "BEQ" [] f = 1 -> "BNE" [] f = 4 -> "BLT"
                               [] f = 5 -> "BGE" [] f = 6 -> "BLTU" [] f = 7 -> "BGEU"
                               [] OTHER -> "UNKNOWN"
BY DEF Entry, BranchOp

\* Each funct3 of a load.
LEMMA LoadTable ==
    \A f \in 0 .. 7 :
        Entry(LoadOp, f) = CASE f = 0 -> "LB" [] f = 1 -> "LH" [] f = 2 -> "LW"
                             [] f = 4 -> "LBU" [] f = 5 -> "LHU" [] OTHER -> "UNKNOWN"
BY DEF Entry, LoadOp

\* Each funct3 of a store.
LEMMA StoreTable ==
    \A f \in 0 .. 7 :
        Entry(StoreOp, f) = CASE f = 0 -> "SB" [] f = 1 -> "SH" [] f = 2 -> "SW"
                              [] OTHER -> "UNKNOWN"
BY DEF Entry, StoreOp

\* The operations of each table.
LEMMA OperationSets ==
    /\ Branches = {"BEQ", "BNE", "BLT", "BGE", "BLTU", "BGEU"}
    /\ Loads = {"LB", "LH", "LW", "LBU", "LHU"}
    /\ Stores = {"SB", "SH", "SW"}
    /\ MulDivs = {"MUL", "MULH", "MULHSU", "MULHU", "DIV", "DIVU", "REM", "REMU"}
    /\ Immediates = {"ADDI", "SLLI", "SLTI", "SLTIU", "XORI", "SRLI", "SRAI", "ORI", "ANDI"}
    /\ Registers = {"ADD", "SUB", "SLL", "SLT", "SLTU", "XOR", "SRL", "SRA", "OR", "AND"}
<1>1. Branches = {"BEQ", "BNE", "BLT", "BGE", "BLTU", "BGEU"}
  <2>1. DOMAIN BranchOp = {0, 1, 4, 5, 6, 7}
    BY DEF BranchOp
  <2>2. Branches = {BranchOp[0], BranchOp[1], BranchOp[4], BranchOp[5], BranchOp[6], BranchOp[7]}
    BY <2>1 DEF Branches
  <2> QED BY <2>2 DEF BranchOp
<1>2. Loads = {"LB", "LH", "LW", "LBU", "LHU"}
  <2>1. DOMAIN LoadOp = {0, 1, 2, 4, 5}
    BY DEF LoadOp
  <2>2. Loads = {LoadOp[0], LoadOp[1], LoadOp[2], LoadOp[4], LoadOp[5]}
    BY <2>1 DEF Loads
  <2> QED BY <2>2 DEF LoadOp
<1>3. Stores = {"SB", "SH", "SW"}
  <2>1. DOMAIN StoreOp = {0, 1, 2}
    BY DEF StoreOp
  <2>2. Stores = {StoreOp[0], StoreOp[1], StoreOp[2]}
    BY <2>1 DEF Stores
  <2> QED BY <2>2 DEF StoreOp
<1> DEFINE All(F) == {F[0], F[1], F[2], F[3], F[4], F[5], F[6], F[7]}
<1>4. \A x : x \in 0 .. 7 <=> x \in {0, 1, 2, 3, 4, 5, 6, 7}
  OBVIOUS
<1>5. MulDivs = {"MUL", "MULH", "MULHSU", "MULHU", "DIV", "DIVU", "REM", "REMU"}
  <2>1. DOMAIN MulDivOp = 0 .. 7
    BY DEF MulDivOp
  <2>2. MulDivs = All(MulDivOp)
    BY <2>1, <1>4 DEF MulDivs
  <2> QED BY <2>2 DEF MulDivOp
<1>6. Immediates = {"ADDI", "SLLI", "SLTI", "SLTIU", "XORI", "SRLI", "SRAI", "ORI", "ANDI"}
  <2>1. Immediates = All(ImmediateOp(0)) \cup All(ImmediateOp(32))
    BY <1>4 DEF Immediates
  <2>2. All(ImmediateOp(0)) = {"ADDI", "SLLI", "SLTI", "SLTIU", "XORI", "SRLI", "ORI", "ANDI"}
    BY DEF ImmediateOp, ByFunct7
  <2>3. All(ImmediateOp(32)) = {"ADDI", "SLLI", "SLTI", "SLTIU", "XORI", "SRAI", "ORI", "ANDI"}
    BY DEF ImmediateOp, ByFunct7
  <2> QED BY <2>1, <2>2, <2>3
<1>7. Registers = {"ADD", "SUB", "SLL", "SLT", "SLTU", "XOR", "SRL", "SRA", "OR", "AND"}
  <2>1. Registers = All(RegisterOp(0)) \cup All(RegisterOp(32))
    BY <1>4 DEF Registers
  <2>2. All(RegisterOp(0)) = {"ADD", "SLL", "SLT", "SLTU", "XOR", "SRL", "OR", "AND"}
    BY DEF RegisterOp, ByFunct7
  <2>3. All(RegisterOp(32)) = {"SUB", "SLL", "SLT", "SLTU", "XOR", "SRA", "OR", "AND"}
    BY DEF RegisterOp, ByFunct7
  <2> QED BY <2>1, <2>2, <2>3
<1> QED BY <1>1, <1>2, <1>3, <1>5, <1>6, <1>7

-----------------------------------------------------------------------------
(* A word in the TLM plugins *)

Words == [opcode : Opcodes, funct3 : 0 .. 7, funct7 : 0 .. 127, rd0 : BOOLEAN]

\* What Decode and Execute make of a word.
DecodeOf(w) ==
    [op        |-> decode_rv32(w),
     op_class  |-> get_op_class(decode_rv32(w)),
     writes_rd |-> writes_rd(decode_rv32(w), w.funct3, w.rd0),
     reads_rs2 |-> is_rs2_used(decode_rv32(w))]

EffectOf(w, d) ==
    [rd    |-> IF d.writes_rd THEN RdValue(w, d) ELSE NoValue,
     store |-> IF d.op_class = "STORE" THEN Entry(StoreOp, w.funct3) ELSE "none",
     pc    |-> BranchEffect(w, d.op_class)]

\* The fields of a word.
LEMMA WordFields ==
    ASSUME NEW w \in Words
    PROVE  /\ w.opcode \in Opcodes /\ w.rd0 \in BOOLEAN
           /\ w.funct3 \in 0 .. 7 /\ w.funct7 \in 0 .. 127
BY DEF Words

\* The class of an operation.
LEMMA ClassOf ==
    ASSUME NEW op
    PROVE  /\ op \in Branches => get_op_class(op) = "BRANCH"
           /\ op \in Loads => get_op_class(op) = "LOAD"
           /\ op \in Stores => get_op_class(op) = "STORE"
           /\ op \in MulDivs \cup Immediates \cup Registers \cup {"LUI", "AUIPC"} =>
                  get_op_class(op) = "ALU"
           /\ op \in {"JAL", "JALR"} => get_op_class(op) = "BRANCH"
           /\ op \in {"FENCE", "SYSTEM"} => get_op_class(op) = "SYSTEM"
           /\ op = "UNKNOWN" => get_op_class(op) = "UNKNOWN"
BY OperationSets DEF get_op_class

\* Which operations write rd and read rs2.
LEMMA UsesOf ==
    ASSUME NEW op, NEW f, NEW rd0 \in BOOLEAN
    PROVE  /\ op \in Branches \cup Stores \cup {"FENCE", "UNKNOWN"} => ~writes_rd(op, f, rd0)
           /\ op \in Loads \cup MulDivs \cup Immediates \cup Registers
                    \cup {"LUI", "AUIPC", "JAL", "JALR"} => (writes_rd(op, f, rd0) <=> ~rd0)
           /\ (writes_rd("SYSTEM", f, rd0) <=> ~rd0 /\ f # 0)
           /\ op \in Registers \cup MulDivs \cup Stores \cup Branches => is_rs2_used(op)
           /\ op \in Loads \cup Immediates
                    \cup {"LUI", "AUIPC", "JAL", "JALR", "FENCE", "SYSTEM", "UNKNOWN"} =>
                  ~is_rs2_used(op)
<1>1. /\ op \in Branches \cup Stores \cup {"FENCE", "UNKNOWN"} => ~writes_rd(op, f, rd0)
      /\ (writes_rd("SYSTEM", f, rd0) <=> ~rd0 /\ f # 0)
  BY OperationSets DEF writes_rd
<1>2. op \in Loads \cup MulDivs \cup Immediates \cup Registers
                    \cup {"LUI", "AUIPC", "JAL", "JALR"} => (writes_rd(op, f, rd0) <=> ~rd0)
  BY DEF writes_rd
<1>3. op \in Registers \cup MulDivs \cup Stores \cup Branches => is_rs2_used(op)
  BY DEF is_rs2_used
<1>4. op \in Loads \cup Immediates
                    \cup {"LUI", "AUIPC", "JAL", "JALR", "FENCE", "SYSTEM", "UNKNOWN"} =>
                  ~is_rs2_used(op)
  BY OperationSets DEF is_rs2_used
<1> QED BY <1>1, <1>2, <1>3, <1>4

\* What decode_rv32 makes of each opcode.
LEMMA OperationOf ==
    ASSUME NEW w \in Words
    PROVE  LET op == decode_rv32(w) IN
           /\ w.opcode = "BRANCH" =>
                  op = Entry(BranchOp, w.funct3) /\ op \in Branches \cup {"UNKNOWN"}
           /\ w.opcode = "LOAD" => op = Entry(LoadOp, w.funct3) /\ op \in Loads \cup {"UNKNOWN"}
           /\ w.opcode = "STORE" => op = Entry(StoreOp, w.funct3) /\ op \in Stores \cup {"UNKNOWN"}
           /\ w.opcode = "OPIMM" =>
                  op = ImmediateOp(w.funct7)[w.funct3] /\ op \in Immediates \cup {"UNKNOWN"}
           /\ w.opcode = "OP" /\ w.funct7 = 1 => op = MulDivOp[w.funct3] /\ op \in MulDivs
           /\ w.opcode = "OP" /\ w.funct7 # 1 =>
                  op = RegisterOp(w.funct7)[w.funct3] /\ op \in Registers \cup {"UNKNOWN"}
           /\ w.opcode = "OTHER" => op = "UNKNOWN"
           /\ w.opcode \in {"LUI", "AUIPC", "JAL", "JALR", "FENCE", "SYSTEM"} => op = w.opcode
<1> DEFINE op == decode_rv32(w)
<1> USE WordFields
<1>1. w.opcode = "BRANCH" => op = Entry(BranchOp, w.funct3) /\ op \in Branches \cup {"UNKNOWN"}
  BY BranchTable, OperationSets DEF decode_rv32
<1>2. w.opcode = "LOAD" => op = Entry(LoadOp, w.funct3) /\ op \in Loads \cup {"UNKNOWN"}
  BY LoadTable, OperationSets DEF decode_rv32
<1>3. w.opcode = "STORE" => op = Entry(StoreOp, w.funct3) /\ op \in Stores \cup {"UNKNOWN"}
  BY StoreTable, OperationSets DEF decode_rv32
<1>4. w.opcode = "OPIMM" =>
          op = ImmediateOp(w.funct7)[w.funct3] /\ op \in Immediates \cup {"UNKNOWN"}
  BY OperationSets DEF decode_rv32, ImmediateOp, ByFunct7
<1>5. w.opcode = "OP" /\ w.funct7 = 1 => op = MulDivOp[w.funct3] /\ op \in MulDivs
  BY OperationSets DEF decode_rv32, MulDivOp
<1>6. w.opcode = "OP" /\ w.funct7 # 1 =>
          op = RegisterOp(w.funct7)[w.funct3] /\ op \in Registers \cup {"UNKNOWN"}
  BY OperationSets DEF decode_rv32, RegisterOp, ByFunct7
<1>7. /\ w.opcode = "OTHER" => op = "UNKNOWN"
      /\ w.opcode \in {"LUI", "AUIPC", "JAL", "JALR", "FENCE", "SYSTEM"} => op = w.opcode
  BY DEF decode_rv32
<1> QED BY <1>1, <1>2, <1>3, <1>4, <1>5, <1>6, <1>7

\* One word: rd, the store and the pc get what the operation means.
AgreesWith(w, op, e) ==
    /\ e.rd = IF w.rd0 THEN NoValue ELSE Meaning(op)
    /\ e.store = IF op \in Stores THEN op ELSE "none"
    /\ e.pc = IF op \in Branches \cup {"JAL", "JALR"} THEN op ELSE "next"

\* The plugins do to a word what its operation means.
LEMMA EffectAgrees ==
    ASSUME NEW w \in Words, decode_rv32(w) # "SYSTEM",
           ~(decode_rv32(w) = "ADDI" /\ w.funct7 = 32)
    PROVE  AgreesWith(w, decode_rv32(w), EffectOf(w, DecodeOf(w)))
<1> DEFINE op == decode_rv32(w)
           class == get_op_class(op)
           e == EffectOf(w, DecodeOf(w))
<1> DEFINE writes == writes_rd(op, w.funct3, w.rd0)
           reads == is_rs2_used(op)
           value == RdValue(w, DecodeOf(w))
<1>1. /\ e.rd = IF writes THEN value ELSE NoValue
      /\ e.store = IF class = "STORE" THEN Entry(StoreOp, w.funct3) ELSE "none"
      /\ e.pc = BranchEffect(w, class)
  BY DEF EffectOf, DecodeOf
<1>2. value =
          CASE class = "LOAD"  -> <<Entry(LoadOp, w.funct3), "mem">>
            [] Links(w, class) -> <<"PC+4", "pc">>
            [] FsmTakes(w)     -> <<MulDivOp[w.funct3], "rs2">>
            [] OTHER           -> AluEffect(w, reads)
  BY DEF RdValue, DecodeOf
<1>a. /\ w.opcode \in Opcodes /\ w.rd0 \in BOOLEAN
      /\ w.funct3 \in 0 .. 7 /\ w.funct7 \in 0 .. 127
      /\ op # "SYSTEM" /\ ~(op = "ADDI" /\ w.funct7 = 32)
  BY WordFields
<1>b. /\ w.opcode = "BRANCH" => op = Entry(BranchOp, w.funct3) /\ op \in Branches \cup {"UNKNOWN"}
      /\ w.opcode = "LOAD" => op = Entry(LoadOp, w.funct3) /\ op \in Loads \cup {"UNKNOWN"}
      /\ w.opcode = "STORE" => op = Entry(StoreOp, w.funct3) /\ op \in Stores \cup {"UNKNOWN"}
      /\ w.opcode = "OPIMM" =>
             op = ImmediateOp(w.funct7)[w.funct3] /\ op \in Immediates \cup {"UNKNOWN"}
      /\ w.opcode = "OP" /\ w.funct7 = 1 => op = MulDivOp[w.funct3] /\ op \in MulDivs
      /\ w.opcode = "OP" /\ w.funct7 # 1 =>
             op = RegisterOp(w.funct7)[w.funct3] /\ op \in Registers \cup {"UNKNOWN"}
      /\ w.opcode = "OTHER" => op = "UNKNOWN"
      /\ w.opcode \in {"LUI", "AUIPC", "JAL", "JALR", "FENCE", "SYSTEM"} => op = w.opcode
  BY OperationOf
<1>c. /\ op \in Branches \cup Stores \cup {"FENCE", "UNKNOWN"} => ~writes
      /\ op \in Loads \cup MulDivs \cup Immediates \cup Registers
               \cup {"LUI", "AUIPC", "JAL", "JALR"} => (writes <=> ~w.rd0)
      /\ op \in Registers \cup MulDivs \cup Stores \cup Branches => reads
      /\ op \in Loads \cup Immediates
               \cup {"LUI", "AUIPC", "JAL", "JALR", "FENCE", "SYSTEM", "UNKNOWN"} => ~reads
  BY <1>a, UsesOf
<1>d. /\ op \in Branches => class = "BRANCH"
      /\ op \in Loads => class = "LOAD"
      /\ op \in Stores => class = "STORE"
      /\ op \in MulDivs \cup Immediates \cup Registers \cup {"LUI", "AUIPC"} => class = "ALU"
      /\ op \in {"JAL", "JALR"} => class = "BRANCH"
      /\ op \in {"FENCE", "SYSTEM"} => class = "SYSTEM"
      /\ op = "UNKNOWN" => class = "UNKNOWN"
  BY ClassOf
<1> SUFFICES AgreesWith(w, op, e)
  OBVIOUS
<1> HIDE DEF op, class, e, writes, reads, value
<1> USE OperationSets
<1>3. CASE w.opcode = "BRANCH"
  <2>1. class \in {"BRANCH", "UNKNOWN"} /\ (class = "BRANCH" <=> op \in Branches)
    BY <1>3, <1>b, <1>d
  <2>2. e.rd = NoValue /\ e.store = "none"
    BY <1>1, <1>3, <2>1, <1>b, <1>c
  <2>3. e.pc = IF op \in Branches THEN op ELSE "next"
    BY <1>1, <1>3, <2>1, <1>b DEF BranchEffect, Links
  <2>4. Meaning(op) = NoValue /\ op \notin Stores \cup {"JAL", "JALR"}
    BY <1>3, <1>b DEF Meaning
  <2> QED BY <2>2, <2>3, <2>4 DEF AgreesWith
<1>4. CASE w.opcode = "LOAD"
  <2>1. class \in {"LOAD", "UNKNOWN"} /\ (class = "LOAD" <=> op \in Loads)
    BY <1>4, <1>b, <1>d
  <2>2. e.store = "none" /\ e.pc = "next"
    BY <1>1, <2>1 DEF BranchEffect
  <2>3. CASE op \in Loads
    <3>1. e.rd = IF w.rd0 THEN NoValue ELSE <<op, "mem">>
      <4>1. writes <=> ~w.rd0
        BY <2>3, <1>c
      <4>2. value = <<op, "mem">>
        BY <1>2, <1>4, <2>1, <2>3, <1>b DEF Links, FsmTakes
      <4> QED BY <1>1, <4>1, <4>2
    <3>2. Meaning(op) = <<op, "mem">>
      BY <2>3 DEF Meaning
    <3> QED BY <2>2, <2>3, <3>1, <3>2 DEF AgreesWith
  <2>4. CASE op = "UNKNOWN"
    BY <1>1, <2>2, <2>4, <1>c DEF AgreesWith, Meaning
  <2> QED BY <1>4, <2>3, <2>4, <1>b
<1>5. CASE w.opcode = "STORE"
  <2>1. class \in {"STORE", "UNKNOWN"} /\ (class = "STORE" <=> op \in Stores)
    BY <1>5, <1>b, <1>d
  <2>2. e.rd = NoValue /\ e.pc = "next"
    BY <1>1, <1>5, <2>1, <1>b, <1>c DEF BranchEffect
  <2>3. e.store = IF op \in Stores THEN op ELSE "none"
    BY <1>1, <1>5, <2>1, <1>b
  <2>4. Meaning(op) = NoValue /\ op \notin Branches \cup {"JAL", "JALR"}
    BY <1>5, <1>b DEF Meaning
  <2> QED BY <2>2, <2>3, <2>4 DEF AgreesWith
<1>6. CASE w.opcode = "OP" /\ w.funct7 = 1
  <2>1. op = MulDivOp[w.funct3] /\ op \in MulDivs /\ class = "ALU"
    BY <1>6, <1>b, <1>d
  <2>2. e.store = "none" /\ e.pc = "next"
    BY <1>1, <2>1 DEF BranchEffect
  <2>3. value = <<op, "rs2">>
    BY <1>2, <1>6, <2>1 DEF Links, FsmTakes
  <2>4. Meaning(op) = <<op, "rs2">>
    BY <2>1 DEF Meaning
  <2>5. e.rd = IF w.rd0 THEN NoValue ELSE <<op, "rs2">>
    BY <1>1, <2>1, <2>3, <1>c
  <2> QED BY <2>1, <2>2, <2>4, <2>5 DEF AgreesWith
<1>7. CASE w.opcode = "OP" /\ w.funct7 # 1
  <2>1. op = RegisterOp(w.funct7)[w.funct3] /\ op \in Registers \cup {"UNKNOWN"}
    BY <1>7, <1>b
  <2>2. class \in {"ALU", "UNKNOWN"}
    BY <2>1, <1>d
  <2>3. e.store = "none" /\ e.pc = "next"
    BY <1>1, <2>2 DEF BranchEffect
  <2>4. CASE op \in Registers
    <3>1. op = infer_opcode(w.funct3, w.funct7)
      BY <1>a, <2>1, <2>4 DEF RegisterOp, ByFunct7, infer_opcode
    <3>2. reads /\ (writes <=> ~w.rd0)
      BY <2>4, <1>c
    <3>3. value = <<op, "rs2">>
      BY <1>2, <1>7, <2>2, <3>1, <3>2 DEF Links, FsmTakes, AluEffect
    <3>4. Meaning(op) = <<op, "rs2">>
      BY <2>4 DEF Meaning
    <3> QED BY <1>1, <2>3, <2>4, <3>2, <3>3, <3>4 DEF AgreesWith
  <2>5. CASE op = "UNKNOWN"
    BY <1>1, <2>3, <2>5, <1>c DEF AgreesWith, Meaning
  <2> QED BY <2>1, <2>4, <2>5
<1>8. CASE w.opcode \in {"LUI", "AUIPC"}
  <2>1. op = w.opcode /\ class = "ALU"
    BY <1>8, <1>b, <1>d
  <2>2. e.store = "none" /\ e.pc = "next"
    BY <1>1, <2>1 DEF BranchEffect
  <2>3. value = <<op, "imm">>
    BY <1>2, <1>8, <2>1 DEF Links, FsmTakes, AluEffect
  <2>4. Meaning(op) = <<op, "imm">>
    BY <1>8, <2>1 DEF Meaning
  <2>5. e.rd = IF w.rd0 THEN NoValue ELSE <<op, "imm">>
    BY <1>1, <1>8, <2>1, <2>3, <1>c
  <2> QED BY <1>8, <2>1, <2>2, <2>4, <2>5 DEF AgreesWith
<1>9. CASE w.opcode \in {"JAL", "JALR"}
  <2>1. op = w.opcode /\ class = "BRANCH"
    BY <1>9, <1>b, <1>d
  <2>2. e.store = "none" /\ e.pc = op
    BY <1>1, <1>9, <2>1 DEF BranchEffect, Links
  <2>3. value = <<"PC+4", "pc">>
    <3>1. Links(w, class) /\ class # "LOAD" /\ ~FsmTakes(w)
      BY <1>9, <2>1 DEF Links, FsmTakes
    <3> QED BY <1>2, <3>1
  <2>4. Meaning(op) = <<"PC+4", "pc">>
    BY <1>9, <2>1 DEF Meaning
  <2>5. e.rd = IF w.rd0 THEN NoValue ELSE <<"PC+4", "pc">>
    BY <1>1, <1>9, <2>1, <2>3, <1>c
  <2> QED BY <1>9, <2>1, <2>2, <2>4, <2>5 DEF AgreesWith
<1>10. CASE w.opcode \in {"FENCE", "OTHER"}
  <2>1. op \in {"FENCE", "UNKNOWN"} /\ class \in {"SYSTEM", "UNKNOWN"}
    BY <1>10, <1>b, <1>d
  <2> QED BY <1>1, <2>1, <1>c DEF AgreesWith, Meaning, BranchEffect
<1>12. CASE w.opcode = "OPIMM"
  <2>1. op = ImmediateOp(w.funct7)[w.funct3] /\ op \in Immediates \cup {"UNKNOWN"}
    BY <1>12, <1>b
  <2>2. class \in {"ALU", "UNKNOWN"}
    BY <2>1, <1>d
  <2>3. e.store = "none" /\ e.pc = "next"
    BY <1>1, <2>2 DEF BranchEffect
  <2>4. CASE op \in Immediates
    <3>1. RegisterForm[op] = infer_opcode(w.funct3, w.funct7)
      <4>1. /\ w.funct3 = 0 => op = "ADDI" /\ w.funct7 # 32
            /\ w.funct3 = 1 => op = "SLLI"
            /\ w.funct3 = 2 => op = "SLTI"
            /\ w.funct3 = 3 => op = "SLTIU"
            /\ w.funct3 = 4 => op = "XORI"
            /\ w.funct3 = 6 => op = "ORI"
            /\ w.funct3 = 7 => op = "ANDI"
        BY <1>a, <2>1 DEF ImmediateOp
      <4>2. w.funct3 = 5 => \/ w.funct7 = 0 /\ op = "SRLI"
                            \/ w.funct7 = 32 /\ op = "SRAI"
        BY <1>a, <2>1, <2>4 DEF ImmediateOp, ByFunct7
      <4>3. w.funct3 \in {0, 1, 2, 3, 4, 5, 6, 7}
        BY <1>a
      <4>4. RegisterForm[op] = CASE op = "ADDI" -> "ADD"  [] op = "SLTI" -> "SLT"
                                 [] op = "SLTIU" -> "SLTU" [] op = "XORI" -> "XOR"
                                 [] op = "ORI" -> "OR"    [] op = "ANDI" -> "AND"
                                 [] op = "SLLI" -> "SLL"  [] op = "SRLI" -> "SRL"
                                 [] op = "SRAI" -> "SRA"
        BY <2>4 DEF RegisterForm
      <4> QED BY <4>1, <4>2, <4>3, <4>4 DEF infer_opcode
    <3>2. ~reads /\ (writes <=> ~w.rd0)
      BY <2>4, <1>c
    <3>3. value = <<RegisterForm[op], "imm">>
      BY <1>2, <1>12, <2>2, <3>1, <3>2 DEF Links, FsmTakes, AluEffect
    <3>4. Meaning(op) = <<RegisterForm[op], "imm">>
      BY <2>4 DEF Meaning
    <3> QED BY <1>1, <2>3, <2>4, <3>2, <3>3, <3>4 DEF AgreesWith
  <2>5. CASE op = "UNKNOWN"
    BY <1>1, <2>3, <2>5, <1>c DEF AgreesWith, Meaning
  <2> QED BY <2>1, <2>4, <2>5
<1>13. w.opcode # "SYSTEM"
  BY <1>a, <1>b
<1> QED
  BY <1>3, <1>4, <1>5, <1>6, <1>7, <1>8, <1>9, <1>10, <1>12, <1>13, <1>a DEF Opcodes

-----------------------------------------------------------------------------
(* Both decoders on one word *)

\* The format of an operation.
LEMMA FormatOf ==
    ASSUME NEW op
    PROVE  /\ op \in {"LUI", "AUIPC"} => get_format(op) = "U"
           /\ op = "JAL" => get_format(op) = "J"
           /\ op \in Branches => get_format(op) = "B"
           /\ op \in Stores => get_format(op) = "S"
           /\ op \in Registers \cup MulDivs => get_format(op) = "R"
           /\ op \in Loads \cup Immediates \cup {"JALR", "FENCE", "SYSTEM"} => get_format(op) = "I"
BY OperationSets DEF get_format

\* The selects of the circuit, for a word that decode_rv32 knows.
LEMMA SelectsAgree ==
    ASSUME NEW w \in Words, decode_rv32(w) # "UNKNOWN"
    PROVE  LET op == decode_rv32(w) IN
           /\ ChWritesRd(w) <=> writes_rd(op, w.funct3, w.rd0)
           /\ ChReadsRs2(w) <=> is_rs2_used(op)
           /\ ChOpClass(w) = get_op_class(op)
           /\ ChFormat(w) = get_format(op)
<1> DEFINE op == decode_rv32(w)
           writes == writes_rd(op, w.funct3, w.rd0)
           reads == is_rs2_used(op)
           class == get_op_class(op)
           format == get_format(op)
<1>1. /\ w.opcode \in Opcodes /\ w.rd0 \in BOOLEAN
      /\ op # "UNKNOWN"
  BY WordFields
<1>2. /\ w.opcode = "BRANCH" => op \in Branches
      /\ w.opcode = "LOAD" => op \in Loads
      /\ w.opcode = "STORE" => op \in Stores
      /\ w.opcode = "OPIMM" => op \in Immediates
      /\ w.opcode = "OP" => op \in MulDivs \cup Registers
      /\ w.opcode # "OTHER"
      /\ w.opcode \in {"LUI", "AUIPC", "JAL", "JALR", "FENCE", "SYSTEM"} => op = w.opcode
  BY OperationOf
<1>3. /\ op \in Branches \cup Stores \cup {"FENCE", "UNKNOWN"} => ~writes
      /\ op \in Loads \cup MulDivs \cup Immediates \cup Registers
               \cup {"LUI", "AUIPC", "JAL", "JALR"} => (writes <=> ~w.rd0)
      /\ op = "SYSTEM" => (writes <=> ~w.rd0 /\ w.funct3 # 0)
      /\ op \in Registers \cup MulDivs \cup Stores \cup Branches => reads
      /\ op \in Loads \cup Immediates
               \cup {"LUI", "AUIPC", "JAL", "JALR", "FENCE", "SYSTEM", "UNKNOWN"} => ~reads
  BY <1>1, UsesOf
<1>4. /\ op \in Branches => class = "BRANCH"
      /\ op \in Loads => class = "LOAD"
      /\ op \in Stores => class = "STORE"
      /\ op \in MulDivs \cup Immediates \cup Registers \cup {"LUI", "AUIPC"} => class = "ALU"
      /\ op \in {"JAL", "JALR"} => class = "BRANCH"
      /\ op \in {"FENCE", "SYSTEM"} => class = "SYSTEM"
  BY ClassOf
<1>5. /\ op \in {"LUI", "AUIPC"} => format = "U"
      /\ op = "JAL" => format = "J"
      /\ op \in Branches => format = "B"
      /\ op \in Stores => format = "S"
      /\ op \in Registers \cup MulDivs => format = "R"
      /\ op \in Loads \cup Immediates \cup {"JALR", "FENCE", "SYSTEM"} => format = "I"
  BY FormatOf
<1> HIDE DEF op, writes, reads, class, format
<1>6. ChWritesRd(w) <=> writes
  BY <1>1, <1>2, <1>3 DEF ChWritesRd, Opcodes
<1>7. ChReadsRs2(w) <=> reads
  BY <1>1, <1>2, <1>3 DEF ChReadsRs2, Opcodes
<1>8. ChOpClass(w) = class
  BY <1>1, <1>2, <1>4 DEF ChOpClass, Opcodes
<1>9. ChFormat(w) = format
  BY <1>1, <1>2, <1>5 DEF ChFormat, Opcodes
<1> QED BY <1>6, <1>7, <1>8, <1>9 DEF op, writes, reads, class, format

\* The sign, copied from bit n up, in both notations.
LEMMA SignAgrees ==
    ASSUME NEW n \in 0 .. 31, NEW s, s \subseteq 0 .. n, NEW b, 31 \in b <=> n \in s
    PROVE  SignFrom(s, n) = IF 31 \in b THEN s \cup Max(s) .. 31 ELSE s
<1>1. CASE 31 \in b
  <2>1. n \in s /\ \A y \in s : n >= y
    BY <1>1
  <2>2. Max(s) \in s /\ \A y \in s : Max(s) >= y
    BY <2>1 DEF Max
  <2>3. Max(s) = n
    <3>1. Max(s) \in 0 .. n /\ Max(s) >= n
      BY <2>1, <2>2
    <3> QED BY <3>1
  <2> QED BY <1>1, <2>1, <2>3 DEF SignFrom
<1>2. CASE 31 \notin b
  BY <1>2 DEF SignFrom
<1> QED BY <1>1, <1>2

\* Every wire of an immediate is the bit the TLM decoder moves there.
LEMMA ImmIAgrees ==
    ASSUME NEW b \in SUBSET (7 .. 31)
    PROVE  ImmI(b) = LET s == Moved(b, 20, 31, 0)
                     IN  IF 31 \in b THEN s \cup Max(s) .. 31 ELSE s
<1> DEFINE s == Moved(b, 20, 31, 0)
<1>1. ShiftedRight(b, 20) = s
  BY DEF ShiftedRight, Moved
<1>2. s \subseteq 0 .. 11 /\ (31 \in b <=> 11 \in s)
  BY DEF Moved
<1> HIDE DEF s
<1>a. 11 \in 0 .. 31
  OBVIOUS
<1>3. SignFrom(s, 11) = IF 31 \in b THEN s \cup Max(s) .. 31 ELSE s
  BY <1>2, <1>a, SignAgrees
<1> QED BY <1>1, <1>3 DEF ImmI, s

\* The same of a store.
LEMMA ImmSAgrees ==
    ASSUME NEW b \in SUBSET (7 .. 31)
    PROVE  ImmS(b) = LET s == Moved(b, 25, 31, 5) \cup Moved(b, 7, 11, 0)
                     IN  IF 31 \in b THEN s \cup Max(s) .. 31 ELSE s
<1> DEFINE s == Moved(b, 25, 31, 5) \cup Moved(b, 7, 11, 0)
           t == (ShiftedRight(b, 20) \cap 5 .. 11) \cup (ShiftedRight(b, 7) \cap 0 .. 4)
<1>1. t = s
  BY DEF ShiftedRight, Moved
<1>2. s \subseteq 0 .. 11 /\ (31 \in b <=> 11 \in s)
  BY DEF Moved
<1> HIDE DEF s
<1>a. 11 \in 0 .. 31
  OBVIOUS
<1>3. SignFrom(s, 11) = IF 31 \in b THEN s \cup Max(s) .. 31 ELSE s
  BY <1>2, <1>a, SignAgrees
<1> QED BY <1>1, <1>3 DEF ImmS, s

\* The same of a branch.
LEMMA ImmBAgrees ==
    ASSUME NEW b \in SUBSET (7 .. 31)
    PROVE  ImmB(b) = LET s == Moved(b, 31, 31, 12) \cup Moved(b, 7, 7, 11)
                              \cup Moved(b, 25, 30, 5) \cup Moved(b, 8, 11, 1)
                     IN  IF 31 \in b THEN s \cup Max(s) .. 31 ELSE s
<1> DEFINE s == Moved(b, 31, 31, 12) \cup Moved(b, 7, 7, 11)
                \cup Moved(b, 25, 30, 5) \cup Moved(b, 8, 11, 1)
           t == (ShiftedRight(b, 19) \cap {12}) \cup (IF 7 \in b THEN {11} ELSE {})
                \cup (ShiftedRight(b, 20) \cap 5 .. 10) \cup (ShiftedRight(b, 7) \cap 1 .. 4)
<1>1. t = s
  BY DEF ShiftedRight, Moved
<1>2. s \subseteq 0 .. 12 /\ (31 \in b <=> 12 \in s)
  BY DEF Moved
<1> HIDE DEF s
<1>a. 12 \in 0 .. 31
  OBVIOUS
<1>3. SignFrom(s, 12) = IF 31 \in b THEN s \cup Max(s) .. 31 ELSE s
  BY <1>2, <1>a, SignAgrees
<1> QED BY <1>1, <1>3 DEF ImmB, s

\* The same of a jump.
LEMMA ImmJAgrees ==
    ASSUME NEW b \in SUBSET (7 .. 31)
    PROVE  ImmJ(b) = LET s == Moved(b, 31, 31, 20) \cup Moved(b, 12, 19, 12)
                              \cup Moved(b, 20, 20, 11) \cup Moved(b, 21, 30, 1)
                     IN  IF 31 \in b THEN s \cup Max(s) .. 31 ELSE s
<1> DEFINE s == Moved(b, 31, 31, 20) \cup Moved(b, 12, 19, 12)
                \cup Moved(b, 20, 20, 11) \cup Moved(b, 21, 30, 1)
           t == (ShiftedRight(b, 11) \cap {20}) \cup (b \cap 12 .. 19)
                \cup (ShiftedRight(b, 9) \cap {11}) \cup (ShiftedRight(b, 20) \cap 1 .. 10)
<1>1. t = s
  BY DEF ShiftedRight, Moved
<1>2. s \subseteq 0 .. 20 /\ (31 \in b <=> 20 \in s)
  BY DEF Moved
<1> HIDE DEF s
<1>a. 20 \in 0 .. 31
  OBVIOUS
<1>3. SignFrom(s, 20) = IF 31 \in b THEN s \cup Max(s) .. 31 ELSE s
  BY <1>2, <1>a, SignAgrees
<1> QED BY <1>1, <1>3 DEF ImmJ, s

\* An upper immediate's sign is bit 31 itself.
LEMMA ImmUAgrees ==
    ASSUME NEW b \in SUBSET (7 .. 31)
    PROVE  ImmU(b) = LET s == b \cap 12 .. 31 IN IF 31 \in b THEN s \cup Max(s) .. 31 ELSE s
<1> DEFINE s == b \cap 12 .. 31
<1>1. s \subseteq 0 .. 31 /\ (31 \in b <=> 31 \in s)
  OBVIOUS
<1>0. ImmU(b) = s
  <2>1. ASSUME NEW i \in b PROVE i \notin 0 .. 11 <=> i \in 12 .. 31
    <3>1. i \in 7 .. 31
      OBVIOUS
    <3> QED BY <3>1
  <2> QED BY <2>1 DEF ImmU
<1> HIDE DEF s
<1>a. 31 \in 0 .. 31
  OBVIOUS
<1>2. SignFrom(s, 31) = IF 31 \in b THEN s \cup Max(s) .. 31 ELSE s
  BY <1>1, <1>a, SignAgrees
<1>3. SignFrom(s, 31) = s
  BY <1>1 DEF SignFrom
<1> QED BY <1>0, <1>2, <1>3 DEF s

\* The immediate of a word that decode_rv32 knows and a plugin reads.
LEMMA ImmediatesAgree ==
    ASSUME NEW w \in Words, NEW b \in SUBSET (7 .. 31), decode_rv32(w) # "UNKNOWN",
           w.opcode \notin {"FENCE", "SYSTEM"}
    PROVE  ChImmediate(w.opcode, b) = get_imm(decode_rv32(w), b)
<1> DEFINE op == decode_rv32(w)
           format == get_format(op)
           Wide(s) == IF 31 \in b THEN s \cup Max(s) .. 31 ELSE s
<1>1. /\ format = "I" => get_imm(op, b) = Wide(Moved(b, 20, 31, 0))
      /\ format = "S" => get_imm(op, b) = Wide(Moved(b, 25, 31, 5) \cup Moved(b, 7, 11, 0))
      /\ format = "B" => get_imm(op, b) = Wide(Moved(b, 31, 31, 12) \cup Moved(b, 7, 7, 11)
                              \cup Moved(b, 25, 30, 5) \cup Moved(b, 8, 11, 1))
      /\ format = "U" => get_imm(op, b) = Wide(b \cap 12 .. 31)
      /\ format = "J" => get_imm(op, b) = Wide(Moved(b, 31, 31, 20) \cup Moved(b, 12, 19, 12)
                              \cup Moved(b, 20, 20, 11) \cup Moved(b, 21, 30, 1))
      /\ format = "R" => get_imm(op, b) = {}
  BY DEF get_imm
<1>2. /\ ImmI(b) = Wide(Moved(b, 20, 31, 0))
      /\ ImmS(b) = Wide(Moved(b, 25, 31, 5) \cup Moved(b, 7, 11, 0))
      /\ ImmB(b) = Wide(Moved(b, 31, 31, 12) \cup Moved(b, 7, 7, 11)
                              \cup Moved(b, 25, 30, 5) \cup Moved(b, 8, 11, 1))
      /\ ImmU(b) = Wide(b \cap 12 .. 31)
      /\ ImmJ(b) = Wide(Moved(b, 31, 31, 20) \cup Moved(b, 12, 19, 12)
                              \cup Moved(b, 20, 20, 11) \cup Moved(b, 21, 30, 1))
  BY ImmIAgrees, ImmSAgrees, ImmBAgrees, ImmUAgrees, ImmJAgrees
<1>3. format = ChFormat(w)
  BY SelectsAgree
<1>4. w.opcode \in Opcodes \ {"FENCE", "SYSTEM", "OTHER"}
  BY WordFields, OperationOf
<1> HIDE DEF op, format, Wide
<1>5. ChImmediate(w.opcode, b) = get_imm(op, b)
  <2>1. CASE w.opcode \in {"LUI", "AUIPC"}
    BY <1>1, <1>2, <1>3, <2>1 DEF ChImmediate, ChFormat
  <2>2. CASE w.opcode = "JAL"
    BY <1>1, <1>2, <1>3, <2>2 DEF ChImmediate, ChFormat
  <2>3. CASE w.opcode \in {"JALR", "LOAD", "OPIMM"}
    BY <1>1, <1>2, <1>3, <2>3 DEF ChImmediate, ChFormat
  <2>4. CASE w.opcode = "BRANCH"
    BY <1>1, <1>2, <1>3, <2>4 DEF ChImmediate, ChFormat
  <2>5. CASE w.opcode = "STORE"
    BY <1>1, <1>2, <1>3, <2>5 DEF ChImmediate, ChFormat
  <2>6. CASE w.opcode = "OP"
    BY <1>1, <1>3, <2>6 DEF ChImmediate, ChFormat
  <2> QED BY <1>4, <2>1, <2>2, <2>3, <2>4, <2>5, <2>6 DEF Opcodes
<1> QED BY <1>5 DEF op

-----------------------------------------------------------------------------
(* Comparison, and the branch units *)

\* Half of the words are negative.
LEMMA Halves == /\ W \in Nat /\ Pow[XLEN - 1] \in Nat \ {0}
                /\ W = 2 * Pow[XLEN - 1] /\ W \div 2 = Pow[XLEN - 1]
<1>1. XLEN - 1 \in 0 .. XLEN - 1 /\ (XLEN - 1) + 1 = XLEN /\ XLEN \in 0 .. XLEN
      /\ XLEN - 1 \in 0 .. XLEN
  BY XlenAssumption
<1>2. Pow[XLEN] = 2 * Pow[XLEN - 1] /\ Pow[XLEN - 1] \in Nat \ {0}
  <2>1. Pow[(XLEN - 1) + 1] = 2 * Pow[XLEN - 1]
    BY <1>1, PowAssumption
  <2> QED BY <1>1, <2>1, PowAssumption
<1>3. \A h \in Nat : (2 * h) \div 2 = h
  OBVIOUS
<1> QED BY <1>2, <1>3 DEF W

\* The remainder of a difference of words.
LEMMA Difference ==
    ASSUME NEW a \in Word, NEW b \in Word
    PROVE  (a - b) % W = IF a >= b THEN a - b ELSE (a - b) + W
<1>1. W \in Nat /\ a \in 0 .. W - 1 /\ b \in 0 .. W - 1
  BY Halves DEF Word
<1> HIDE DEF W
<1>2. CASE a >= b
  BY <1>1, <1>2
<1>3. CASE ~(a >= b)
  BY <1>1, <1>3
<1> QED BY <1>2, <1>3

\* LessSigned is the order of the signed values.
LEMMA LessIsLess ==
    ASSUME NEW a \in Word, NEW b \in Word
    PROVE  LessSigned(a, b) <=> AsSigned(a) < AsSigned(b)
<1> DEFINE H == Pow[XLEN - 1]
<1>1. /\ H \in Nat \ {0} /\ W = 2 * H /\ W \div 2 = H
      /\ a \in 0 .. W - 1 /\ b \in 0 .. W - 1
  BY Halves DEF Word
<1>2. (a - b) % W = IF a >= b THEN a - b ELSE (a - b) + W
  BY Difference
<1> DEFINE d == (a - b) % W
<1>3. /\ Negative(a) <=> a >= H
      /\ Negative(b) <=> b >= H
      /\ Negative(d) <=> d >= H
      /\ AsSigned(a) = IF a >= H THEN a - W ELSE a
      /\ AsSigned(b) = IF b >= H THEN b - W ELSE b
  BY <1>1 DEF Negative, AsSigned
<1>4. LessSigned(a, b) <=> IF (a >= H) # (b >= H) THEN a >= H ELSE d >= H
  BY <1>3 DEF LessSigned, Negative
<1> HIDE DEF d, H, W
<1>5. d = IF a >= b THEN a - b ELSE (a - b) + W
  BY <1>2 DEF d
<1> QED BY <1>1, <1>3, <1>4, <1>5

Inputs == [rs1 : Word, rs2 : Word, imm : Word, pc : Word, flush : BOOLEAN]

\* The branch circuit on one word and its operands.
BranchAgrees(w, class, i, circuit) ==
    LET tlm == BranchResult(w, class, i)
    IN  /\ circuit.taken_raw = tlm.taken
        /\ circuit.taken = (tlm.taken /\ ~i.flush)
        /\ circuit.taken =>
              circuit.target = IF w.opcode = "JALR" THEN (tlm.target \div 2) * 2
                               ELSE tlm.target

\* Both branch units decide and aim alike.
LEMMA BranchUnitsAgree ==
    ASSUME NEW w \in Words, NEW i \in Inputs
    PROVE  BranchAgrees(w, get_op_class(decode_rv32(w)), i, BranchOutputs(w, i))
<1> DEFINE class == get_op_class(decode_rv32(w))
           less == AsSigned(i.rs1) < AsSigned(i.rs2)
<1>1. /\ i.rs1 \in Word /\ i.rs2 \in Word /\ i.flush \in BOOLEAN
      /\ w.opcode \in Opcodes /\ w.funct3 \in 0 .. 7
  BY WordFields DEF Inputs
<1>2. /\ i.rs1 \in Int /\ i.rs2 \in Int /\ AsSigned(i.rs1) \in Int /\ AsSigned(i.rs2) \in Int
      /\ LessSigned(i.rs1, i.rs2) <=> less
      /\ AsSigned(i.rs1) >= AsSigned(i.rs2) <=> ~less
  <2>1. i.rs1 \in Int /\ i.rs2 \in Int /\ W \in Int
    BY <1>1, Halves DEF Word
  <2>2. AsSigned(i.rs1) \in Int /\ AsSigned(i.rs2) \in Int
    BY <2>1 DEF AsSigned
  <2> QED BY <1>1, <2>1, <2>2, LessIsLess
<1>3. /\ class = "BRANCH" => w.opcode \in {"BRANCH", "JAL", "JALR"}
      /\ w.opcode \in {"JAL", "JALR"} => class = "BRANCH"
      /\ w.opcode = "BRANCH" => (class = "BRANCH" <=> w.funct3 \notin {2, 3})
  <2>1. w.opcode = "BRANCH" =>
            /\ decode_rv32(w) \in Branches <=> w.funct3 \notin {2, 3}
            /\ decode_rv32(w) \in Branches \cup {"UNKNOWN"}
    BY <1>1, OperationOf, BranchTable, OperationSets
  <2>2. w.opcode = "BRANCH" => (class = "BRANCH" <=> w.funct3 \notin {2, 3})
    BY <2>1, ClassOf
  <2>3. w.opcode \in {"JAL", "JALR"} => class = "BRANCH"
    BY OperationOf, ClassOf
  <2>4. w.opcode \notin {"BRANCH", "JAL", "JALR"} => class # "BRANCH"
    BY <1>1, OperationOf, ClassOf DEF Opcodes
  <2> QED BY <2>2, <2>3, <2>4
<1> HIDE DEF class, less
<1> DEFINE raw == \/ w.opcode \in {"JAL", "JALR"}
                  \/ w.opcode = "BRANCH" /\ Condition(w.funct3, i.rs1, i.rs2)
           tlm == BranchResult(w, class, i)
           circuit == BranchOutputs(w, i)
<1>4. tlm.taken <=> raw
  <2>1. CASE w.opcode # "BRANCH"
    BY <1>3, <2>1 DEF BranchResult
  <2>2. CASE w.opcode = "BRANCH"
    <3> DEFINE cond == Condition(w.funct3, i.rs1, i.rs2)
               holds == CASE w.funct3 = 0 -> i.rs1 = i.rs2
                          [] w.funct3 = 1 -> i.rs1 # i.rs2
                          [] w.funct3 = 4 -> AsSigned(i.rs1) < AsSigned(i.rs2)
                          [] w.funct3 = 5 -> AsSigned(i.rs1) >= AsSigned(i.rs2)
                          [] w.funct3 = 6 -> i.rs1 < i.rs2
                          [] w.funct3 = 7 -> i.rs1 >= i.rs2
                          [] OTHER        -> FALSE
    <3>1. raw <=> cond
      BY <2>2
    <3>2. tlm.taken <=> class = "BRANCH" /\ holds
      BY <2>2 DEF BranchResult
    <3>3. w.funct3 \in {2, 3} => ~cond
      BY DEF Condition
    <3>4. w.funct3 \in {0, 1, 6, 7} => (cond <=> holds)
      BY DEF Condition
    <3>5. w.funct3 = 4 => (cond <=> holds)
      <4>1. w.funct3 = 4 => (cond <=> LessSigned(i.rs1, i.rs2)) /\ (holds <=> less)
        BY DEF Condition, less
      <4> QED BY <4>1, <1>2
    <3>6. w.funct3 = 5 => (cond <=> holds)
      <4>1. w.funct3 = 5 => /\ cond <=> ~LessSigned(i.rs1, i.rs2)
                            /\ holds <=> AsSigned(i.rs1) >= AsSigned(i.rs2)
        BY DEF Condition
      <4> QED BY <4>1, <1>2
    <3> HIDE DEF cond, holds, raw, tlm
    <3>7. w.funct3 \in {2, 3} \/ w.funct3 \in {0, 1, 6, 7} \/ w.funct3 = 4 \/ w.funct3 = 5
      BY <1>1
    <3> QED BY <1>3, <2>2, <3>1, <3>2, <3>3, <3>4, <3>5, <3>6, <3>7
  <2> QED BY <2>1, <2>2
<1>5. tlm.taken \in BOOLEAN /\ raw \in BOOLEAN
  BY DEF BranchResult
<1>6. /\ circuit.taken_raw = raw
      /\ circuit.taken = (raw /\ ~i.flush)
      /\ circuit.target = IF w.opcode = "JALR" THEN (((i.rs1 + i.imm) % W) \div 2) * 2
                          ELSE (i.pc + i.imm) % W
  BY DEF BranchOutputs, Heeded
<1>7. tlm.taken => tlm.target = IF w.opcode = "JALR" THEN (i.rs1 + i.imm) % W
                                ELSE (i.pc + i.imm) % W
  BY DEF BranchResult
<1> HIDE DEF raw, tlm, circuit
<1>8. raw = tlm.taken
  BY <1>4, <1>5
<1> QED BY <1>6, <1>7, <1>8 DEF BranchAgrees, class, tlm, circuit

-----------------------------------------------------------------------------
(* Division of integers by naturals *)

\* What a division by a natural number returns.
LEMMA DivMod ==
    ASSUME NEW n \in Int, NEW d \in Nat \ {0}
    PROVE  /\ n \div d \in Int /\ n % d \in 0 .. (d - 1)
           /\ n = (n \div d) * d + (n % d)
OBVIOUS

\* A multiple of a natural that is less than it is not positive.
LEMMA SmallMultiple ==
    ASSUME NEW k \in Int, NEW d \in Nat \ {0}, k * d < d
    PROVE  k <= 0
<1> SUFFICES ASSUME k >= 1 PROVE FALSE
  OBVIOUS
<1>1. PICK j \in Nat : k = j + 1
  <2>1. k - 1 \in Nat /\ k = (k - 1) + 1
    OBVIOUS
  <2> QED BY <2>1
<1>2. k * d = j * d + d
  BY <1>1
<1>3. j * d >= 0
  BY <1>1
<1> QED BY <1>2, <1>3

\* Quotient and remainder are determined by what they satisfy.
LEMMA DivUnique ==
    ASSUME NEW n \in Int, NEW d \in Nat \ {0}, NEW q \in Int, NEW r \in 0 .. (d - 1),
           n = q * d + r
    PROVE  n \div d = q /\ n % d = r
<1> DEFINE k == n \div d
           m == n % d
<1>1. k \in Int /\ m \in 0 .. (d - 1) /\ n = k * d + m
  BY DivMod
<1> HIDE DEF k, m
<1>2. (k - q) * d = r - m /\ (q - k) * d = m - r
  BY <1>1
<1>3. k - q <= 0
  BY <1>1, <1>2, SmallMultiple
<1>4. q - k <= 0
  BY <1>1, <1>2, SmallMultiple
<1>5. k = q
  BY <1>1, <1>3, <1>4
<1>6. m = r
  BY <1>1, <1>5
<1> QED BY <1>5, <1>6 DEF k, m

\* Multiples of the divisor do not count for the remainder.
LEMMA ModShift ==
    ASSUME NEW x \in Int, NEW k \in Int, NEW d \in Nat \ {0}
    PROVE  (x + k * d) % d = x % d /\ (x + k * d) \div d = (x \div d) + k
<1> DEFINE q == x \div d
           r == x % d
           y == x + k * d
<1>1. q \in Int /\ r \in 0 .. (d - 1) /\ x = q * d + r
  BY DivMod
<1> HIDE DEF q, r
<1>2. y \in Int /\ y = (q + k) * d + r /\ q + k \in Int
  BY <1>1
<1> HIDE DEF y
<1>3. y \div d = q + k /\ y % d = r
  BY <1>1, <1>2, DivUnique
<1> QED BY <1>3 DEF y, q, r

\* The upper half of a product's two words.
LEMMA UpperHalf ==
    ASSUME NEW x \in Int, NEW w \in Nat \ {0}
    PROVE  (x % (w * w)) \div w = (x \div w) % w
<1> DEFINE s == x % (w * w)
           p == x \div (w * w)
           t == s \div w
           u == s % w
<1>1. w * w \in Nat \ {0}
  OBVIOUS
<1>2. p \in Int /\ s \in 0 .. (w * w - 1) /\ x = p * (w * w) + s
  <2> DEFINE e == w * w
  <2>1. e \in Nat \ {0}
    BY <1>1
  <2> HIDE DEF e
  <2>2. x \div e \in Int /\ x % e \in 0 .. (e - 1) /\ x = (x \div e) * e + (x % e)
    BY <2>1, DivMod
  <2> QED BY <2>2 DEF e
<1> HIDE DEF s, p
<1>3. t \in Int /\ u \in 0 .. (w - 1) /\ s = t * w + u
  BY <1>2, DivMod
<1> HIDE DEF t, u
<1>4. t \in 0 .. (w - 1)
  <2>1. (t - (w - 1)) * w < w
    <3>1. (t - (w - 1)) * w = t * w - w * w + w
      BY <1>3
    <3> QED BY <3>1, <1>1, <1>2, <1>3
  <2>2. t - (w - 1) <= 0
    BY <2>1, <1>3, SmallMultiple
  <2>3. (0 - t) * w < w
    <3>1. (0 - t) * w = u - s
      BY <1>3, <1>2
    <3> QED BY <3>1, <1>2, <1>3
  <2>4. 0 - t <= 0
    BY <2>3, <1>3, SmallMultiple
  <2> QED BY <2>2, <2>4, <1>3
<1>5. x = (p * w + t) * w + u /\ p * w + t \in Int
  BY <1>2, <1>3
<1>6. x \div w = p * w + t
  BY <1>5, <1>3, DivUnique
<1>7. (p * w + t) % w = t
  BY <1>2, <1>4, DivUnique
<1> QED BY <1>6, <1>7 DEF t, s

-----------------------------------------------------------------------------
(* Shifts *)

\* A set of numbers that is not empty has a least one.
LEMMA LeastOf ==
    ASSUME NEW T, T \subseteq Nat, T # {}
    PROVE  \E n \in T : \A m \in T : ~ (m < n)
<1>1. \E n \in T : \A m \in T : <<m, n>> \notin OpToRel(<, Nat)
  BY NatLessThanWellFounded, WFMin
<1> QED BY <1>1 DEF OpToRel

\* 2^XLEN is the product of 2^n and 2^(XLEN - n).
LEMMA PowSplit ==
    ASSUME NEW n \in 0 .. XLEN
    PROVE  /\ XLEN - n \in 0 .. XLEN
           /\ Pow[n] \in Nat \ {0} /\ Pow[XLEN - n] \in Nat \ {0}
           /\ W = Pow[n] * Pow[XLEN - n]
<1> DEFINE Splits(m) == W = Pow[m] * Pow[XLEN - m]
           T == {m \in 0 .. XLEN : ~Splits(m)}
<1>1. \A m \in 0 .. XLEN : XLEN - m \in 0 .. XLEN /\ Pow[m] \in Nat \ {0}
                           /\ Pow[XLEN - m] \in Nat \ {0}
  BY XlenAssumption, PowAssumption
<1>2. T = {}
  <2> SUFFICES ASSUME T # {} PROVE FALSE
    OBVIOUS
  <2>1. T \subseteq Nat
    BY XlenAssumption
  <2>2. PICK m \in T : \A k \in T : ~ (k < m)
    <3> HIDE DEF T
    <3> QED BY <2>1, LeastOf
  <2>3. m \in 0 .. XLEN /\ ~Splits(m)
    BY <2>2
  <2>4. CASE m = 0
    <3>1. Pow[0] = 1 /\ XLEN - 0 = XLEN
      BY PowAssumption, XlenAssumption
    <3>2. Pow[XLEN] \in Nat
      BY Halves DEF W
    <3> QED BY <2>3, <2>4, <3>1, <3>2 DEF W
  <2>5. CASE m # 0
    <3> DEFINE k == m - 1
    <3>1. k \in 0 .. XLEN /\ k \in 0 .. XLEN - 1 /\ k + 1 = m /\ k < m
      BY <2>3, <2>5, XlenAssumption
    <3>2. Splits(k)
      BY <2>2, <3>1
    <3>3. Pow[m] = 2 * Pow[k]
      BY <3>1, PowAssumption
    <3>4. XLEN - m \in 0 .. XLEN - 1 /\ (XLEN - m) + 1 = XLEN - k
      BY <2>3, <3>1, XlenAssumption
    <3>5. Pow[XLEN - k] = 2 * Pow[XLEN - m]
      BY <3>4, PowAssumption
    <3> DEFINE p == Pow[k]
               q == Pow[XLEN - m]
    <3>6. p \in Nat /\ q \in Nat
      BY <1>1, <2>3, <3>1
    <3>7. W = p * (2 * q) /\ Pow[m] * Pow[XLEN - m] = (2 * p) * q
      BY <3>2, <3>3, <3>5
    <3> HIDE DEF p, q
    <3>8. W = Pow[m] * Pow[XLEN - m]
      BY <3>6, <3>7
    <3> QED BY <2>3, <3>8
  <2> QED BY <2>4, <2>5
<1>3. Splits(n)
  BY <1>2
<1> QED BY <1>1, <1>3

\* The arithmetic shift: the fill's ones are the quotient's sign.
LEMMA ShiftRightSigned ==
    ASSUME NEW a \in Word, NEW n \in 0 .. XLEN
    PROVE  BitOr(a \div Pow[n], SignFill(a, n)) = (AsSigned(a) \div Pow[n]) % W
<1> DEFINE p == Pow[n]
           q == Pow[XLEN - n]
           low == a \div p
<1>1. p \in Nat \ {0} /\ q \in Nat \ {0} /\ W = p * q /\ XLEN - n \in 0 .. XLEN
  BY PowSplit
<1>2. W \in Nat \ {0} /\ a \in 0 .. W - 1 /\ 0 \in Word /\ AllOnes = W - 1
  <2>1. W \in Nat \ {0}
    BY Halves
  <2> QED BY <2>1 DEF Word, AllOnes
<1>3. \A x \in Word : BitAnd(0, x) = 0 /\ BitAnd(W - 1, x) = x
  BY BitsAssumption
<1>4. \A l \in 0 .. q - 1, h \in Word : h % q = 0 => BitOr(l, h) = l + h
  BY <1>1, BitsAssumption
<1>5. /\ Negative(a) => AsSigned(a) = a - W
      /\ ~Negative(a) => AsSigned(a) = a
  BY <1>2 DEF Negative, AsSigned
<1> DEFINE rest == a % p
<1>6. low \in Int /\ rest \in 0 .. p - 1 /\ a = low * p + rest
  <2>1. a \in Int
    BY <1>2
  <2>2. p \in Nat \ {0}
    BY <1>1
  <2> HIDE DEF p
  <2> QED BY <2>1, <2>2, DivMod
<1>7. Word = 0 .. W - 1
  BY DEF Word
<1>8. SignFill(a, n) = BitAnd(IF Negative(a) THEN W - 1 ELSE 0, (W - 1) - ((W - 1) \div p))
  BY <1>2 DEF SignFill
<1> HIDE DEF p, q, W, low, rest
<1>9. low \in 0 .. q - 1
  <2>1. (low - (q - 1)) * p < p
    <3>1. (low - (q - 1)) * p = low * p - p * q + p
      BY <1>1, <1>6
    <3> QED BY <3>1, <1>1, <1>2, <1>6
  <2>2. low - (q - 1) <= 0
    BY <2>1, <1>1, <1>6, SmallMultiple
  <2>3. (0 - low) * p < p
    <3>1. (0 - low) * p = rest - a
      BY <1>1, <1>6
    <3> QED BY <3>1, <1>1, <1>2, <1>6
  <2>4. 0 - low <= 0
    BY <2>3, <1>1, <1>6, SmallMultiple
  <2> QED BY <2>2, <2>4, <1>1, <1>6
<1>10. (W - 1) \div p = q - 1
  <2>1. W - 1 = (q - 1) * p + (p - 1)
    BY <1>1
  <2>2. q - 1 \in Int /\ p - 1 \in 0 .. (p - 1) /\ W - 1 \in Int
    BY <1>1, <1>2
  <2> QED BY <2>1, <2>2, <1>1, DivUnique
<1>11. q <= W /\ low < W /\ W - q \in Word
  <2>1. PICK j \in Nat : p = j + 1
    <3>1. p - 1 \in Nat /\ p = (p - 1) + 1
      BY <1>1
    <3> QED BY <3>1
  <2>2. W = j * q + q /\ j * q >= 0
    BY <2>1, <1>1
  <2>3. q <= W
    BY <2>2, <1>1, <1>2
  <2> QED BY <2>3, <1>1, <1>2, <1>7, <1>9
<1>12. CASE Negative(a)
  <2>1. SignFill(a, n) = W - q
    <3>1. (W - 1) - (q - 1) = W - q
      BY <1>1, <1>2
    <3> QED BY <3>1, <1>3, <1>8, <1>10, <1>11, <1>12
  <2>2. (W - q) % q = 0
    <3>1. W - q = (p - 1) * q + 0 /\ p - 1 \in Int /\ W - q \in Int /\ 0 \in 0 .. q - 1
      BY <1>1, <1>2
    <3> QED BY <3>1, <1>1, DivUnique
  <2>3. BitOr(low, SignFill(a, n)) = low + (W - q)
    BY <1>4, <1>9, <1>11, <2>1, <2>2
  <2>4. (a - W) \div p = low - q
    <3>1. a - W = (low - q) * p + rest /\ a - W \in Int /\ low - q \in Int
      BY <1>1, <1>2, <1>6
    <3> DEFINE k == low - q
               x == a - W
    <3>2. x = k * p + rest /\ x \in Int /\ k \in Int
      BY <3>1
    <3> HIDE DEF k, x
    <3>3. x \div p = k
      BY <3>2, <1>1, <1>6, DivUnique
    <3> QED BY <3>3 DEF k, x
  <2>5. (low - q) % W = low + (W - q)
    <3>1. low - q = (0 - 1) * W + (low + (W - q)) /\ low + (W - q) \in 0 .. W - 1
          /\ low - q \in Int /\ 0 - 1 \in Int
      BY <1>1, <1>2, <1>9, <1>11
    <3> QED BY <3>1, <1>2, DivUnique
  <2> QED BY <1>5, <1>12, <2>3, <2>4, <2>5 DEF p, low
<1>13. CASE ~Negative(a)
  <2>0. (W - 1) - ((W - 1) \div p) \in Word
    BY <1>1, <1>2, <1>7, <1>10, <1>11
  <2>1. SignFill(a, n) = 0
    BY <1>3, <1>8, <1>13, <2>0
  <2>2. 0 % q = 0
    BY <1>1
  <2>3. BitOr(low, SignFill(a, n)) = low
    BY <1>2, <1>4, <1>9, <2>1, <2>2
  <2>4. low % W = low
    <3>1. low = 0 * W + low /\ low \in 0 .. W - 1
      BY <1>2, <1>9, <1>11
    <3> QED BY <3>1, <1>2, DivUnique
  <2> QED BY <1>5, <1>13, <2>3, <2>4 DEF p, low
<1> QED BY <1>12, <1>13

-----------------------------------------------------------------------------
(* Products and quotients *)

\* Signs, magnitudes and complements, with the sign's weight.
LEMMA WordFacts ==
    ASSUME NEW a \in Word
    PROVE  /\ W \in Nat \ {0} /\ a \in 0 .. W - 1
           /\ Negative(a) => AsSigned(a) = a - W /\ Extended(a) = AsSigned(a) + W * W
           /\ ~Negative(a) => AsSigned(a) = a /\ Extended(a) = a
           /\ Magnitude(a) \in 0 .. W - 1
           /\ Negative(a) => AsSigned(a) < 0 /\ AsSigned(a) = -Magnitude(a)
           /\ ~Negative(a) => AsSigned(a) >= 0 /\ AsSigned(a) = Magnitude(a)
           /\ Magnitude(a) = 0 <=> a = 0
           /\ Negated(a) = (0 - a) % W
<1> DEFINE H == Pow[XLEN - 1]
           square == W * W
<1>1. H \in Nat \ {0} /\ W = 2 * H /\ W \div 2 = H /\ W \in Nat \ {0} /\ a \in 0 .. W - 1
  BY Halves DEF Word
<1>2. Negative(a) <=> a >= H
  BY <1>1 DEF Negative
<1>3. square \in Int
  BY <1>1
<1>4. /\ Negative(a) => AsSigned(a) = a - W /\ Extended(a) = AsSigned(a) + square
      /\ ~Negative(a) => AsSigned(a) = a /\ Extended(a) = a
  <2>1. Extended(a) = IF Negative(a) THEN a + square - W ELSE a
    BY DEF Extended
  <2>2. AsSigned(a) = IF a >= H THEN a - W ELSE a
    BY <1>1 DEF AsSigned
  <2> HIDE DEF square, H, W
  <2>3. a + square - W = (a - W) + square
    BY <1>1, <1>3
  <2>4. CASE Negative(a)
    <3>1. AsSigned(a) = a - W
      BY <1>2, <2>2, <2>4
    <3>2. Extended(a) = a + square - W
      BY <2>1, <2>4
    <3> QED BY <2>3, <2>4, <3>1, <3>2
  <2>5. CASE ~Negative(a)
    BY <1>2, <2>1, <2>2, <2>5
  <2> QED BY <2>4, <2>5
<1>5. Negated(a) = IF a = 0 THEN 0 ELSE W - a
  <2>1. Negated(a) = ((W - 1 - a) + 1) % W
    BY DEF Negated
  <2> HIDE DEF W, H
  <2>2. (W - 1 - a) + 1 = W - a
    BY <1>1
  <2>3. CASE a = 0
    <3>1. W = 1 * W + 0 /\ 0 \in 0 .. W - 1 /\ W \in Int /\ W - a = W
      BY <1>1, <2>3
    <3>2. W % W = 0
      BY <3>1, <1>1, DivUnique
    <3> QED BY <2>1, <2>2, <2>3, <3>1, <3>2
  <2>4. CASE a # 0
    <3> DEFINE x == W - a
    <3>1. x = 0 * W + x /\ x \in 0 .. W - 1
      BY <1>1, <2>4
    <3> HIDE DEF x
    <3>2. x % W = x
      BY <3>1, <1>1, DivUnique
    <3> QED BY <2>1, <2>2, <2>4, <3>2 DEF x
  <2> QED BY <2>3, <2>4
<1>6. Magnitude(a) = IF Negative(a) THEN Negated(a) ELSE a
  BY DEF Magnitude
<1>7. Negated(a) = (0 - a) % W
  <2> HIDE DEF W, H
  <2>1. CASE a = 0
    BY <1>1, <1>5, <2>1
  <2>2. CASE a # 0
    <3> DEFINE x == 0 - a
               y == W - a
    <3>1. x = (0 - 1) * W + y /\ y \in 0 .. W - 1 /\ x \in Int /\ 0 - 1 \in Int
      BY <1>1, <2>2
    <3> HIDE DEF x, y
    <3>2. x % W = y
      BY <3>1, <1>1, DivUnique
    <3> QED BY <1>5, <2>2, <3>2 DEF x, y
  <2> QED BY <2>1, <2>2
<1> DEFINE m == Magnitude(a)
           s == AsSigned(a)
<1>8. /\ m \in 0 .. W - 1
      /\ Negative(a) => s < 0 /\ s = -m
      /\ ~Negative(a) => s >= 0 /\ s = m
      /\ m = 0 <=> a = 0
  <2> HIDE DEF m, s, square, H, W
  <2>1. s = IF Negative(a) THEN a - W ELSE a
    BY <1>4 DEF s
  <2>2. m = IF Negative(a) THEN W - a ELSE a
    <3>1. Negative(a) => a # 0
      BY <1>1, <1>2
    <3> QED BY <3>1, <1>5, <1>6 DEF m
  <2> QED BY <1>1, <1>2, <2>1, <2>2
<1> QED BY <1>1, <1>4, <1>7, <1>8

\* A word and its signed value are the same but for multiples of W.
LEMMA SignedShift ==
    ASSUME NEW a \in Word
    PROVE  \E e \in {0, 1} : AsSigned(a) = a - e * W /\ Extended(a) = AsSigned(a) + e * (W * W)
<1>1. CASE Negative(a)
  <2>1. AsSigned(a) = a - 1 * W /\ Extended(a) = AsSigned(a) + 1 * (W * W)
    <3>1. AsSigned(a) = a - W /\ Extended(a) = AsSigned(a) + W * W /\ W \in Nat
      BY <1>1, WordFacts
    <3>2. 1 * W = W /\ 1 * (W * W) = W * W
      BY <3>1
    <3> QED BY <3>1, <3>2
  <2> QED BY <2>1
<1>2. CASE ~Negative(a)
  <2>1. AsSigned(a) = a - 0 * W /\ Extended(a) = AsSigned(a) + 0 * (W * W)
    <3>1. AsSigned(a) = a /\ Extended(a) = a /\ W \in Nat /\ a \in Nat
      BY <1>2, WordFacts
    <3>2. 0 * W = 0 /\ 0 * (W * W) = 0
      BY <3>1
    <3> QED BY <3>1, <3>2
  <2> QED BY <2>1
<1> QED BY <1>1, <1>2

\* MUL, MULH, MULHSU and MULHU.
LEMMA Products ==
    ASSUME NEW a \in Word, NEW b \in Word
    PROVE  /\ (a * b) % W = (AsSigned(a) * AsSigned(b)) % W
           /\ HighHalf(Extended(a) * Extended(b)) = ((AsSigned(a) * AsSigned(b)) \div W) % W
           /\ HighHalf(Extended(a) * b) = ((AsSigned(a) * b) \div W) % W
           /\ HighHalf(a * b) = (a * b) \div W
<1> DEFINE sa == AsSigned(a)
           sb == AsSigned(b)
           xa == Extended(a)
           xb == Extended(b)
           V == W * W
<1>1. W \in Nat \ {0} /\ a \in 0 .. W - 1 /\ b \in 0 .. W - 1
  BY WordFacts
<1>2. PICK e \in {0, 1} : sa = a - e * W /\ xa = sa + e * V
  BY SignedShift
<1>3. PICK g \in {0, 1} : sb = b - g * W /\ xb = sb + g * V
  BY SignedShift
<1>4. /\ HighHalf(xa * xb) = ((xa * xb) % V) \div W
      /\ HighHalf(xa * b) = ((xa * b) % V) \div W
      /\ HighHalf(a * b) = ((a * b) % V) \div W
  BY DEF HighHalf
<1>5. V \in Nat \ {0}
  BY <1>1
<1> HIDE DEF sa, sb, xa, xb, W
<1>6. \A x \in Int : (x % V) \div W = (x \div W) % W
  BY <1>1, UpperHalf
<1> HIDE DEF V
<1>7. e \in Int /\ g \in Int /\ e * W \in Int /\ g * W \in Int /\ e * V \in Int /\ g * V \in Int
  BY <1>1, <1>5
<1>8. sa \in Int /\ sb \in Int /\ xa \in Int /\ xb \in Int
  BY <1>1, <1>2, <1>3, <1>7
<1>9. (a * b) % W = (sa * sb) % W
  <2> DEFINE k == e * sb + g * sa + e * g * W
  <2>1. a = sa + e * W /\ b = sb + g * W
    BY <1>1, <1>2, <1>3, <1>7
  <2>2. a * b = sa * sb + k * W
    BY <2>1, <1>1, <1>7, <1>8
  <2> DEFINE x == sa * sb
             y == a * b
  <2>3. k \in Int /\ x \in Int /\ y = x + k * W
    BY <1>1, <1>7, <1>8, <2>2
  <2> HIDE DEF k, x, y
  <2>4. y % W = x % W
    BY <2>3, <1>1, ModShift
  <2> QED BY <2>4 DEF x, y
<1>10. (xa * xb) % V = (sa * sb) % V
  <2> DEFINE k == e * sb + g * sa + e * g * V
  <2>1. xa * xb = sa * sb + k * V
    BY <1>2, <1>3, <1>5, <1>7, <1>8
  <2> DEFINE x == sa * sb
             y == xa * xb
  <2>2. k \in Int /\ x \in Int /\ y = x + k * V
    BY <1>5, <1>7, <1>8, <2>1
  <2> HIDE DEF k, x, y
  <2>3. y % V = x % V
    BY <2>2, <1>5, ModShift
  <2> QED BY <2>3 DEF x, y
<1>11. (xa * b) % V = (sa * b) % V
  <2> DEFINE k == e * b
  <2>1. xa * b = sa * b + k * V
    BY <1>1, <1>2, <1>5, <1>7, <1>8
  <2> DEFINE x == sa * b
             y == xa * b
  <2>2. k \in Int /\ x \in Int /\ y = x + k * V
    BY <1>1, <1>7, <1>8, <2>1
  <2> HIDE DEF k, x, y
  <2>3. y % V = x % V
    BY <2>2, <1>5, ModShift
  <2> QED BY <2>3 DEF x, y
<1>12. (a * b) % V = a * b
  <2> DEFINE x == a * b
  <2>1. x \in 0 .. V - 1
    <3>1. x >= 0 /\ x \in Int
      BY <1>1
    <3>2. x <= (W - 1) * b /\ (W - 1) * b <= (W - 1) * (W - 1)
      <4>1. (W - 1 - a) * b >= 0 /\ (W - 1) * (W - 1 - b) >= 0
        <5>1. W - 1 - a \in Nat /\ b \in Nat /\ W - 1 \in Nat /\ W - 1 - b \in Nat
          BY <1>1
        <5>2. \A m, n \in Nat : m * n >= 0
          OBVIOUS
        <5> QED BY <5>1, <5>2
      <4>2. (W - 1 - a) * b = (W - 1) * b - x
            /\ (W - 1) * (W - 1 - b) = (W - 1) * (W - 1) - (W - 1) * b
        BY <1>1
      <4> QED BY <1>1, <4>1, <4>2, <3>1
    <3>3. (W - 1) * (W - 1) = V - 2 * W + 1
      BY <1>1 DEF V
    <3>4. (W - 1) * b \in Int /\ (W - 1) * (W - 1) \in Int
      BY <1>1
    <3> HIDE DEF x
    <3> QED BY <3>1, <3>2, <3>3, <3>4, <1>1, <1>5
  <2> HIDE DEF x
  <2>2. x = 0 * V + x /\ x \in Int
    BY <2>1, <1>5
  <2> QED BY <2>1, <2>2, <1>5, DivUnique DEF x
<1>13. sa * sb \in Int /\ sa * b \in Int
  BY <1>1, <1>8
<1> QED BY <1>4, <1>6, <1>9, <1>10, <1>11, <1>12, <1>13 DEF sa, sb, xa, xb

\* Quotient and remainder of words are words.
LEMMA QuotientWords ==
    ASSUME NEW m \in Nat, NEW d \in Nat \ {0}, NEW w \in Nat, m < w, d < w
    PROVE  /\ m \div d \in 0 .. w - 1 /\ m % d \in 0 .. w - 1 /\ m % d < d
           /\ m = (m \div d) * d + (m % d)
<1> DEFINE q == m \div d
           r == m % d
<1>1. q \in Int /\ r \in 0 .. (d - 1) /\ m = q * d + r
  BY DivMod
<1> HIDE DEF q, r
<1>2. (0 - q) * d < d
  <2>1. (0 - q) * d = r - m
    BY <1>1
  <2> QED BY <2>1, <1>1
<1>3. 0 - q <= 0
  BY <1>1, <1>2, SmallMultiple
<1>4. q * d >= q
  <2>1. q * (d - 1) >= 0
    <3>1. q \in Nat /\ d - 1 \in Nat
      BY <1>1, <1>3
    <3>2. \A x, y \in Nat : x * y >= 0
      OBVIOUS
    <3> QED BY <3>1, <3>2
  <2>2. q * (d - 1) = q * d - q
    BY <1>1
  <2> QED BY <1>1, <2>1, <2>2
<1>5. q * d \in Int
  BY <1>1
<1> QED BY <1>1, <1>3, <1>4, <1>5 DEF q, r

\* A word is its own remainder.
LEMMA WordMod ==
    ASSUME NEW a \in Word
    PROVE  a % W = a
<1>1. W \in Nat \ {0} /\ a \in 0 .. W - 1
  BY WordFacts
<1> HIDE DEF W
<1>2. a = 0 * W + a
  BY <1>1
<1> QED BY <1>1, <1>2, DivUnique

\* DIV and REM divide the signed values, whatever their signs.
LEMMA SignedDivision ==
    ASSUME NEW a \in Word, NEW b \in Word, b # 0
    PROVE  LET quotient == Magnitude(a) \div Magnitude(b)
               remainder == Magnitude(a) % Magnitude(b)
           IN  \E q, r \in -W .. W :
                   /\ Divides(AsSigned(a), AsSigned(b), q, r)
                   /\ q % W = IF Negative(a) # Negative(b) THEN Negated(quotient) ELSE quotient
                   /\ r % W = IF Negative(a) THEN Negated(remainder) ELSE remainder
<1> DEFINE m == Magnitude(a)
           d == Magnitude(b)
           k == m \div d
           l == m % d
           sa == AsSigned(a)
           sb == AsSigned(b)
           q == IF Negative(a) # Negative(b) THEN 0 - k ELSE k
           r == IF Negative(a) THEN 0 - l ELSE l
<1>1. W \in Nat \ {0} /\ m \in 0 .. W - 1 /\ d \in 0 .. W - 1 /\ d # 0
  BY WordFacts
<1>2. /\ Negative(a) => sa < 0 /\ sa = -m
      /\ ~Negative(a) => sa >= 0 /\ sa = m
      /\ Negative(b) => sb < 0 /\ sb = -d
      /\ ~Negative(b) => sb >= 0 /\ sb = d
  BY WordFacts
<1>3. k \in Word /\ l \in Word /\ l < d /\ m = k * d + l
  <2> HIDE DEF m, d, W
  <2>1. m \in Nat /\ d \in Nat \ {0} /\ m < W /\ d < W /\ W \in Nat
    BY <1>1
  <2>2. k \in 0 .. W - 1 /\ l \in 0 .. W - 1 /\ l < d /\ m = k * d + l
    BY <2>1, QuotientWords
  <2> QED BY <2>2 DEF Word
<1>4. Negated(k) = (0 - k) % W /\ k % W = k /\ Negated(l) = (0 - l) % W /\ l % W = l
  <2> HIDE DEF k, l
  <2> QED BY <1>3, WordFacts, WordMod
<1>5. k \in 0 .. W - 1 /\ l \in 0 .. W - 1
  BY <1>3 DEF Word
<1>6. /\ q % W = IF Negative(a) # Negative(b) THEN Negated(k) ELSE k
      /\ r % W = IF Negative(a) THEN Negated(l) ELSE l
  <2> HIDE DEF k, l, W
  <2> QED BY <1>4
<1>7. q \in -W .. W /\ r \in -W .. W
  <2> HIDE DEF k, l, W
  <2> QED BY <1>1, <1>5
<1>8. Divides(sa, sb, q, r)
  <2> DEFINE p == k * d
  <2>1. p \in Int /\ m = p + l /\ k * (0 - d) = 0 - p /\ (0 - k) * d = 0 - p
        /\ (0 - k) * (0 - d) = p /\ (0 - d) = -d /\ (0 - m) = -m
    <3> HIDE DEF k, l, m, d, W
    <3> QED BY <1>1, <1>3, <1>5
  <2>2. sa = q * sb + r
    <3>1. CASE Negative(a) /\ Negative(b)
      <4>1. q = k /\ r = 0 - l /\ sa = 0 - m /\ sb = 0 - d
        BY <1>2, <2>1, <3>1
      <4> HIDE DEF k, l, m, d, W, sa, sb, q, r, p
      <4>2. q * sb = 0 - p
        BY <2>1, <4>1 DEF p
      <4> QED BY <1>1, <1>5, <2>1, <4>1, <4>2
    <3>2. CASE Negative(a) /\ ~Negative(b)
      <4>1. q = 0 - k /\ r = 0 - l /\ sa = 0 - m /\ sb = d
        BY <1>2, <2>1, <3>2
      <4> HIDE DEF k, l, m, d, W, sa, sb, q, r, p
      <4>2. q * sb = 0 - p
        BY <2>1, <4>1 DEF p
      <4> QED BY <1>1, <1>5, <2>1, <4>1, <4>2
    <3>3. CASE ~Negative(a) /\ Negative(b)
      <4>1. q = 0 - k /\ r = l /\ sa = m /\ sb = 0 - d
        BY <1>2, <2>1, <3>3
      <4> HIDE DEF k, l, m, d, W, sa, sb, q, r, p
      <4>2. q * sb = p
        BY <2>1, <4>1 DEF p
      <4> QED BY <1>1, <1>5, <2>1, <4>1, <4>2
    <3>4. CASE ~Negative(a) /\ ~Negative(b)
      <4>0. ~(Negative(a) # Negative(b))
        BY <3>4 DEF Negative
      <4>1. q = k /\ r = l /\ sa = m /\ sb = d
        <5> HIDE DEF k, l, m, d, sa, sb
        <5> QED BY <1>2, <3>4, <4>0
      <4> HIDE DEF k, l, m, d, W, sa, sb, q, r, p
      <4> QED BY <1>1, <1>3, <1>5, <4>1
    <3> QED BY <3>1, <3>2, <3>3, <3>4
  <2>3. /\ r = 0 \/ (r < 0) = (sa < 0)
        /\ (IF r < 0 THEN -r ELSE r) < (IF sb < 0 THEN -sb ELSE sb)
    <3> HIDE DEF k, l, m, d, W, sa, sb
    <3>1. (IF r < 0 THEN -r ELSE r) = l /\ (IF sb < 0 THEN -sb ELSE sb) = d
      BY <1>1, <1>2, <1>5
    <3>2. r = 0 \/ (r < 0) = (sa < 0)
      <4>1. CASE Negative(a)
        BY <1>1, <1>2, <1>5, <4>1
      <4>2. CASE ~Negative(a)
        BY <1>1, <1>2, <1>5, <4>2
      <4> QED BY <4>1, <4>2
    <3> QED BY <1>3, <3>1, <3>2
  <2> HIDE DEF sa, sb, q, r
  <2> QED BY <2>2, <2>3 DEF Divides
<1> HIDE DEF q, r
<1> QED BY <1>6, <1>7, <1>8

\* DIVU and REMU.
LEMMA UnsignedDivision ==
    ASSUME NEW a \in Word, NEW b \in Word, b # 0
    PROVE  \E q, r \in -W .. W :
               Divides(a, b, q, r) /\ a \div b = q /\ a % b = r
<1> DEFINE q == a \div b
           r == a % b
<1>1. W \in Nat \ {0} /\ a \in 0 .. W - 1 /\ b \in 0 .. W - 1
  BY WordFacts
<1>2. q \in 0 .. W - 1 /\ r \in 0 .. W - 1 /\ r < b /\ a = q * b + r
  <2> HIDE DEF W
  <2>1. a \in Nat /\ b \in Nat \ {0} /\ a < W /\ b < W /\ W \in Nat
    BY <1>1
  <2> QED BY <2>1, QuotientWords
<1> HIDE DEF q, r, W
<1>3. Divides(a, b, q, r)
  BY <1>1, <1>2 DEF Divides
<1>4. q \in -W .. W /\ r \in -W .. W
  BY <1>1, <1>2
<1> QED BY <1>3, <1>4 DEF q, r

\* The M extension, operation by operation.
LEMMA MulDivsCompute ==
    ASSUME NEW f3 \in 0 .. 7, NEW a \in Word, NEW b \in Word
    PROVE  MulDivMeans(MulDivOp[f3], a, b, MulDivResult(f3, a, b))
<1> DEFINE value == MulDivResult(f3, a, b)
           quotient == Magnitude(a) \div Magnitude(b)
           remainder == Magnitude(a) % Magnitude(b)
<1>1. W \in Nat \ {0} /\ a \in 0 .. W - 1 /\ b \in 0 .. W - 1
  BY WordFacts
<1>2. CASE f3 = 0
  <2>1. value = (a * b) % W /\ MulDivOp[f3] = "MUL"
    BY <1>2 DEF MulDivResult, MulDivOp
  <2>2. value = (AsSigned(a) * AsSigned(b)) % W
    BY <2>1, Products
  <2> QED BY <2>1, <2>2 DEF MulDivMeans
<1>3. CASE f3 = 1
  <2>1. value = HighHalf(Extended(a) * Extended(b)) /\ MulDivOp[f3] = "MULH"
    BY <1>3 DEF MulDivResult, MulDivOp
  <2>2. value = ((AsSigned(a) * AsSigned(b)) \div W) % W
    BY <2>1, Products
  <2> QED BY <2>1, <2>2 DEF MulDivMeans
<1>4. CASE f3 = 2
  <2>1. value = HighHalf(Extended(a) * b) /\ MulDivOp[f3] = "MULHSU"
    BY <1>4 DEF MulDivResult, MulDivOp
  <2>2. value = ((AsSigned(a) * b) \div W) % W
    BY <2>1, Products
  <2> QED BY <2>1, <2>2 DEF MulDivMeans
<1>5. CASE f3 = 3
  <2>1. value = HighHalf(a * b) /\ MulDivOp[f3] = "MULHU"
    BY <1>5 DEF MulDivResult, MulDivOp
  <2>2. value = (a * b) \div W
    BY <2>1, Products
  <2> QED BY <2>1, <2>2 DEF MulDivMeans
<1>6. CASE f3 \in 4 .. 7 /\ b = 0
  <2>1. value = IF f3 \in {4, 5} THEN W - 1 ELSE a
    BY <1>6 DEF MulDivResult, AllOnes
  <2>2. /\ MulDivOp[f3] \in {"DIV", "DIVU", "REM", "REMU"}
        /\ MulDivOp[f3] \in {"DIV", "DIVU"} <=> f3 \in {4, 5}
    BY <1>6 DEF MulDivOp
  <2> QED BY <1>6, <2>1, <2>2 DEF MulDivMeans
<1>7. ASSUME b # 0
      PROVE  SafeDivisor(b) = b /\ SafeDivisor(Magnitude(b)) = Magnitude(b)
  <2>1. Magnitude(b) # 0
    BY <1>7, WordFacts
  <2> QED BY <1>7, <2>1 DEF SafeDivisor
<1>8. CASE f3 \in {4, 6} /\ b # 0
  <2>1. PICK q \in -W .. W, r \in -W .. W :
            /\ Divides(AsSigned(a), AsSigned(b), q, r)
            /\ q % W = IF Negative(a) # Negative(b) THEN Negated(quotient) ELSE quotient
            /\ r % W = IF Negative(a) THEN Negated(remainder) ELSE remainder
    BY <1>8, SignedDivision
  <2>2. CASE f3 = 4
    <3>1. MulDivOp[f3] = "DIV"
      BY <2>2 DEF MulDivOp
    <3>2. value = IF Negative(a) # Negative(b) THEN Negated(quotient) ELSE quotient
      BY <1>7, <1>8, <2>2 DEF MulDivResult
    <3>3. value = q % W
      BY <2>1, <3>2
    <3> HIDE DEF value
    <3>4. MulDivMeans(MulDivOp[f3], a, b, value)
      BY <1>8, <2>1, <3>1, <3>3 DEF MulDivMeans
    <3> QED BY <3>4 DEF value
  <2>3. CASE f3 = 6
    <3>1. MulDivOp[f3] = "REM"
      BY <2>3 DEF MulDivOp
    <3>2. value = IF Negative(a) THEN Negated(remainder) ELSE remainder
      BY <1>7, <1>8, <2>3 DEF MulDivResult
    <3>3. value = r % W
      BY <2>1, <3>2
    <3> HIDE DEF value
    <3>4. MulDivMeans(MulDivOp[f3], a, b, value)
      BY <1>8, <2>1, <3>1, <3>3 DEF MulDivMeans
    <3> QED BY <3>4 DEF value
  <2> QED BY <1>8, <2>2, <2>3
<1>9. CASE f3 \in {5, 7} /\ b # 0
  <2>1. PICK q \in -W .. W, r \in -W .. W : Divides(a, b, q, r) /\ a \div b = q /\ a % b = r
    BY <1>9, UnsignedDivision
  <2>2. CASE f3 = 5
    <3>1. MulDivOp[f3] = "DIVU" /\ value = q
      BY <1>7, <1>9, <2>1, <2>2 DEF MulDivResult, MulDivOp
    <3> HIDE DEF value
    <3>2. MulDivMeans(MulDivOp[f3], a, b, value)
      BY <1>9, <2>1, <3>1 DEF MulDivMeans
    <3> QED BY <3>2 DEF value
  <2>3. CASE f3 = 7
    <3>1. MulDivOp[f3] = "REMU" /\ value = r
      BY <1>7, <1>9, <2>1, <2>3 DEF MulDivResult, MulDivOp
    <3> HIDE DEF value
    <3>2. MulDivMeans(MulDivOp[f3], a, b, value)
      BY <1>9, <2>1, <3>1 DEF MulDivMeans
    <3> QED BY <3>2 DEF value
  <2> QED BY <1>9, <2>2, <2>3
<1> QED BY <1>2, <1>3, <1>4, <1>5, <1>6, <1>8, <1>9

-----------------------------------------------------------------------------
(* The arithmetic units *)

\* The operations outside the M extension.
LEMMA BaseAgrees ==
    ASSUME NEW f3 \in 0 .. 7, NEW f7 \in {0, 32}, f7 = 32 => f3 \in {0, 5},
           NEW a \in Word, NEW c \in Word
    PROVE  BaseResult(f3, f7, a, c) = Compute(RegisterOp(f7)[f3], a, c)
<1> DEFINE op == RegisterOp(f7)[f3]
           n == ShiftAmount(c)
<1>1. n \in 0 .. XLEN
  <2>1. c \in Nat
    BY Halves DEF Word
  <2>2. c % XLEN \in 0 .. XLEN - 1
    BY <2>1, XlenAssumption
  <2> QED BY <2>2, XlenAssumption DEF ShiftAmount
<1>2. /\ f3 = 0 => op = IF f7 = 32 THEN "SUB" ELSE "ADD"
      /\ f3 = 1 => op = "SLL"
      /\ f3 = 2 => op = "SLT"
      /\ f3 = 3 => op = "SLTU"
      /\ f3 = 4 => op = "XOR"
      /\ f3 = 5 => op = IF f7 = 32 THEN "SRA" ELSE "SRL"
      /\ f3 = 6 => op = "OR"
      /\ f3 = 7 => op = "AND"
  BY DEF RegisterOp, ByFunct7
<1> SUFFICES BaseResult(f3, f7, a, c) = Compute(op, a, c)
  OBVIOUS
<1> HIDE DEF op
<1>3. CASE f3 \in {0, 1, 3, 4, 6, 7}
  BY <1>2, <1>3 DEF BaseResult, Compute
<1>4. CASE f3 = 2
  <2>1. LessSigned(a, c) <=> AsSigned(a) < AsSigned(c)
    BY LessIsLess
  <2>2. BaseResult(f3, f7, a, c) = IF LessSigned(a, c) THEN 1 ELSE 0
    BY <1>4 DEF BaseResult
  <2>3. Compute(op, a, c) = IF AsSigned(a) < AsSigned(c) THEN 1 ELSE 0
    BY <1>2, <1>4 DEF Compute
  <2> QED BY <2>1, <2>2, <2>3
<1>5. CASE f3 = 5 /\ f7 = 0
  BY <1>2, <1>5 DEF BaseResult, Compute
<1>6. CASE f3 = 5 /\ f7 = 32
  <2>1. BaseResult(f3, f7, a, c) = BitOr(a \div Pow[n], SignFill(a, n))
    BY <1>6 DEF BaseResult
  <2>2. Compute(op, a, c) = (AsSigned(a) \div Pow[n]) % W
    BY <1>2, <1>6 DEF Compute
  <2>3. BitOr(a \div Pow[n], SignFill(a, n)) = (AsSigned(a) \div Pow[n]) % W
    <3> HIDE DEF n
    <3> QED BY <1>1, ShiftRightSigned
  <2> QED BY <2>1, <2>2, <2>3
<1> QED BY <1>3, <1>4, <1>5, <1>6

\* What AluComputes asks of a result.
ResultMeans(op, i, value) ==
    CASE op \in Registers          -> value = Compute(op, i.rs1, i.rs2)
      [] op \in Immediates         -> value = Compute(RegisterForm[op], i.rs1, i.imm)
      [] op \in MulDivs            -> MulDivMeans(op, i.rs1, i.rs2, value)
      [] op \in Loads \cup Stores  -> value = (i.rs1 + i.imm) % W
      [] op = "LUI"                -> value = i.imm
      [] op = "AUIPC"              -> value = (i.pc + i.imm) % W
      [] OTHER                     -> value = 0

\* The arithmetic circuit on a word decode_rv32 knows.
LEMMA AluAgrees ==
    ASSUME NEW w \in Words, NEW i \in Inputs, NEW d, d.reads_rs2 = ChReadsRs2(w),
           decode_rv32(w) # "UNKNOWN",
           w.opcode = "OP" =>
               w.funct7 \in {0, 1} \/ (w.funct7 = 32 /\ w.funct3 \in {0, 5})
    PROVE  ResultMeans(decode_rv32(w), i, Alu(w, d, i))
<1> DEFINE op == decode_rv32(w)
           value == Alu(w, d, i)
           f7 == IF w.opcode = "OPIMM" /\ w.funct3 # 5 THEN 0 ELSE w.funct7
           op2 == IF d.reads_rs2 THEN i.rs2 ELSE i.imm
<1>1. /\ w.opcode \in Opcodes /\ w.funct3 \in 0 .. 7 /\ w.funct7 \in 0 .. 127
      /\ i.rs1 \in Word /\ i.rs2 \in Word /\ i.imm \in Word
      /\ op # "UNKNOWN"
  BY WordFields DEF Inputs
<1>2. /\ w.opcode = "BRANCH" => op \in Branches
      /\ w.opcode = "LOAD" => op \in Loads
      /\ w.opcode = "STORE" => op \in Stores
      /\ w.opcode = "OPIMM" => op = ImmediateOp(w.funct7)[w.funct3] /\ op \in Immediates
      /\ w.opcode = "OP" /\ w.funct7 = 1 => op = MulDivOp[w.funct3] /\ op \in MulDivs
      /\ w.opcode = "OP" /\ w.funct7 # 1 =>
             op = RegisterOp(w.funct7)[w.funct3] /\ op \in Registers
      /\ w.opcode # "OTHER"
      /\ w.opcode \in {"LUI", "AUIPC", "JAL", "JALR", "FENCE", "SYSTEM"} => op = w.opcode
  BY OperationOf
<1>3. value = CASE w.opcode = "OP" /\ w.funct7 = 1  -> MulDivResult(w.funct3, i.rs1, i.rs2)
                [] Selected(w)                      -> BaseResult(w.funct3, f7, i.rs1, op2)
                [] w.opcode \in {"LOAD", "STORE"}   -> (i.rs1 + i.imm) % W
                [] w.opcode = "LUI"                 -> i.imm
                [] w.opcode = "AUIPC"               -> (i.pc + i.imm) % W
                [] OTHER                            -> 0
  BY DEF Alu
<1> SUFFICES ResultMeans(op, i, value)
  OBVIOUS
<1>4. Selected(w) => w.opcode \in {"OP", "OPIMM"} /\ ~(w.opcode = "OP" /\ w.funct7 = 1)
  BY <1>1 DEF Selected
<1> HIDE DEF op, value
<1>5. CASE w.opcode = "OP" /\ w.funct7 = 1
  <2>1. value = MulDivResult(w.funct3, i.rs1, i.rs2)
    BY <1>3, <1>4, <1>5
  <2>2. MulDivMeans(op, i.rs1, i.rs2, value)
    BY <1>1, <1>2, <1>5, <2>1, MulDivsCompute
  <2> QED BY <1>2, <1>5, <2>2, OperationSets DEF ResultMeans
<1>6. CASE w.opcode = "OP" /\ w.funct7 # 1
  <2>1. Selected(w) /\ w.funct7 \in {0, 32} /\ (w.funct7 = 32 => w.funct3 \in {0, 5})
    BY <1>6 DEF Selected
  <2>2. op2 = i.rs2 /\ f7 = w.funct7
    BY <1>6 DEF ChReadsRs2
  <2>3. value = BaseResult(w.funct3, w.funct7, i.rs1, i.rs2)
    BY <1>3, <1>6, <2>1, <2>2
  <2>4. value = Compute(op, i.rs1, i.rs2)
    BY <1>1, <1>2, <1>6, <2>1, <2>3, BaseAgrees
  <2> QED BY <1>2, <1>6, <2>4, OperationSets DEF ResultMeans
<1>7. CASE w.opcode = "OPIMM"
  <2>1. op2 = i.imm
    BY <1>7 DEF ChReadsRs2
  <2>2. f7 \in {0, 32} /\ (f7 = 32 => w.funct3 \in {0, 5}) /\ Selected(w)
    <3>1. w.funct3 = 5 => w.funct7 \in {0, 32}
      BY <1>1, <1>2, <1>7 DEF ImmediateOp, ByFunct7
    <3> QED BY <1>7, <3>1 DEF Selected
  <2>3. RegisterForm[op] = RegisterOp(f7)[w.funct3]
    <3>1. op \in Immediates
      BY <1>2, <1>7
    <3>2. CASE w.funct3 # 5
      <4>1. op = CASE w.funct3 = 0 -> "ADDI" [] w.funct3 = 1 -> "SLLI" [] w.funct3 = 2 -> "SLTI"
                   [] w.funct3 = 3 -> "SLTIU" [] w.funct3 = 4 -> "XORI" [] w.funct3 = 6 -> "ORI"
                   [] w.funct3 = 7 -> "ANDI"
        BY <1>1, <1>2, <1>7, <3>2 DEF ImmediateOp
      <4> QED BY <1>1, <1>7, <3>1, <3>2, <4>1 DEF RegisterForm, RegisterOp, ByFunct7
    <3>3. CASE w.funct3 = 5
      <4>1. op = IF f7 = 0 THEN "SRLI" ELSE "SRAI"
        BY <1>2, <1>7, <2>2, <3>3 DEF ImmediateOp, ByFunct7
      <4> QED BY <2>2, <3>1, <3>3, <4>1 DEF RegisterForm, RegisterOp, ByFunct7
    <3> QED BY <3>2, <3>3
  <2> HIDE DEF f7, op2
  <2>4. value = BaseResult(w.funct3, f7, i.rs1, i.imm)
    BY <1>3, <1>7, <2>1, <2>2
  <2>5. value = Compute(RegisterForm[op], i.rs1, i.imm)
    BY <1>1, <2>2, <2>3, <2>4, BaseAgrees
  <2> QED BY <1>2, <1>7, <2>5, OperationSets DEF ResultMeans
<1>8. CASE w.opcode \in {"LOAD", "STORE"}
  <2>1. value = (i.rs1 + i.imm) % W
    BY <1>3, <1>4, <1>8
  <2> QED BY <1>2, <1>8, <2>1, OperationSets DEF ResultMeans
<1>9. CASE w.opcode \in {"LUI", "AUIPC"}
  <2>1. value = IF w.opcode = "LUI" THEN i.imm ELSE (i.pc + i.imm) % W
    BY <1>3, <1>4, <1>9
  <2> QED BY <1>2, <1>9, <2>1, OperationSets DEF ResultMeans
<1>10. CASE w.opcode \in {"BRANCH", "JAL", "JALR", "FENCE", "SYSTEM"}
  <2>1. value = 0
    BY <1>3, <1>4, <1>10
  <2> QED BY <1>2, <1>10, <2>1, OperationSets DEF ResultMeans
<1> QED BY <1>1, <1>2, <1>5, <1>6, <1>7, <1>8, <1>9, <1>10 DEF Opcodes

-----------------------------------------------------------------------------
(* A word through the plugins and the circuits *)

\* What Settle makes of a word.
SettledOf(w, b, i) ==
    [settled |-> TRUE, decoded |-> ChDecoded(w, b), result |-> Alu(w, ChDecoded(w, b), i),
     branch |-> BranchOutputs(w, i)]

\* The inductive invariant: each stage has done what it does to the word.
DatapathInv ==
    /\ word \in Words /\ in \in Inputs /\ bits \in SUBSET (7 .. 31)
    /\ stage \in {"decode", "execute", "done"}
    /\ stage # "decode" => dec = DecodeOf(word)
    /\ stage = "done" => effect = EffectOf(word, dec)
    /\ hw = NotSettled \/ (stage = "done" /\ hw = SettledOf(word, bits, in))

\* Fields put together from bits are in range.
LEMMA WordOfType ==
    ASSUME NEW opcode \in Opcodes, NEW b
    PROVE  WordOf(opcode, b) \in Words
<1>1. \A j, weight \in Nat : Value(b, j, weight) \in {0, weight}
  BY DEF Value
<1>2. /\ Value(b, 12, 1) \in {0, 1} /\ Value(b, 13, 2) \in {0, 2} /\ Value(b, 14, 4) \in {0, 4}
      /\ Value(b, 25, 1) \in {0, 1} /\ Value(b, 26, 2) \in {0, 2} /\ Value(b, 27, 4) \in {0, 4}
      /\ Value(b, 28, 8) \in {0, 8} /\ Value(b, 29, 16) \in {0, 16}
      /\ Value(b, 30, 32) \in {0, 32} /\ Value(b, 31, 64) \in {0, 64}
  BY <1>1
<1>3. Value(b, 12, 1) + Value(b, 13, 2) + Value(b, 14, 4) \in 0 .. 7
  BY <1>2
<1>4. Value(b, 25, 1) + Value(b, 26, 2) + Value(b, 27, 4) + Value(b, 28, 8)
      + Value(b, 29, 16) + Value(b, 30, 32) + Value(b, 31, 64) \in 0 .. 127
  BY <1>2
<1> QED BY <1>3, <1>4 DEF WordOf, Words

\* A word that was fetched.
LEMMA DatapathStarts == DatapathInit => DatapathInv
<1> SUFFICES ASSUME DatapathInit PROVE DatapathInv
  OBVIOUS
<1>1. Fields \subseteq Words
  BY Funct7Assumption DEF Fields, Words
<1>2. 0 \in Word
  BY Halves DEF Word
<1>3. word \in Words /\ in \in Inputs /\ bits \in SUBSET (7 .. 31) /\ stage = "decode"
  <2>1. ASSUME NEW w \in Fields, NEW f \in BOOLEAN,
               NEW o \in IF w.rd0 THEN {AnOperand} ELSE Operands,
               Fetched(w), bits = {},
               in = [rs1 |-> o.rs1, rs2 |-> o.rs2, imm |-> o.imm, pc |-> o.pc, flush |-> f]
        PROVE  word \in Words /\ in \in Inputs /\ bits \in SUBSET (7 .. 31) /\ stage = "decode"
    <3>1. AnOperand \in Operands
      BY OperandsAssumption DEF AnOperand
    <3>2. o \in Operands
      BY <3>1, <2>1
    <3>3. o \in OperandsType
      BY <3>2, OperandsAssumption
    <3>4. in \in Inputs
      BY <2>1, <3>3 DEF OperandsType, Inputs
    <3> QED BY <1>1, <2>1, <3>4 DEF Fetched
  <2>2. ASSUME NEW opcode \in Opcodes,
               NEW b \in UNION {kSubset(k, WordBits) : k \in 1 .. MaxBits},
               Fetched(WordOf(opcode, b)), bits = b,
               in = [rs1 |-> 0, rs2 |-> 0, imm |-> 0, pc |-> 0, flush |-> FALSE]
        PROVE  word \in Words /\ in \in Inputs /\ bits \in SUBSET (7 .. 31) /\ stage = "decode"
    <3>1. PICK k \in 1 .. MaxBits : b \in kSubset(k, WordBits)
      OBVIOUS
    <3>2. b \subseteq WordBits
      BY <3>1 DEF kSubset
    <3>3. WordBits \subseteq 7 .. 31
      BY DEF WordBits
    <3>4. in \in Inputs
      BY <1>2, <2>2 DEF Inputs
    <3>5. WordOf(opcode, b) \in Words
      BY WordOfType
    <3> QED BY <2>2, <3>2, <3>3, <3>4, <3>5 DEF Fetched
  <2> QED BY <2>1, <2>2 DEF DatapathInit
<1>4. hw = NotSettled
  BY DEF DatapathInit
<1> QED BY <1>3, <1>4 DEF DatapathInv

\* Every stage keeps the invariant.
LEMMA DatapathKeeps == DatapathInv /\ [DatapathNext]_<<vars, dpVars>> => DatapathInv'
<1> SUFFICES ASSUME DatapathInv, [DatapathNext]_<<vars, dpVars>> PROVE DatapathInv'
  OBVIOUS
<1>1. CASE Decode /\ UNCHANGED dpVars
  <2>1. dec' = DecodeOf(word) /\ word' = word /\ stage = "decode" /\ stage' = "execute"
    BY <1>1 DEF Decode, DecodeOf
  <2>2. in' = in /\ bits' = bits /\ hw' = hw /\ hw = NotSettled
    BY <1>1, <2>1 DEF dpVars, DatapathInv
  <2> QED BY <2>1, <2>2 DEF DatapathInv, NotSettled
<1>2. CASE Execute /\ UNCHANGED dpVars
  <2>1. effect' = EffectOf(word, dec) /\ word' = word /\ dec' = dec /\ stage = "execute"
        /\ stage' = "done"
    BY <1>2 DEF Execute, EffectOf
  <2>2. in' = in /\ bits' = bits /\ hw' = hw /\ hw = NotSettled
    BY <1>2, <2>1 DEF dpVars, DatapathInv
  <2> QED BY <2>1, <2>2 DEF DatapathInv, NotSettled
<1>3. CASE Settle
  <2>1. /\ word' = word /\ dec' = dec /\ effect' = effect /\ stage' = stage /\ stage = "done"
        /\ in' = in /\ bits' = bits
    BY <1>3 DEF Settle, vars, Done
  <2>2. hw' = SettledOf(word, bits, in)
    BY <1>3 DEF Settle, SettledOf
  <2> QED BY <2>1, <2>2 DEF DatapathInv
<1>4. CASE UNCHANGED <<vars, dpVars>>
  <2>1. /\ word' = word /\ dec' = dec /\ effect' = effect /\ stage' = stage
        /\ in' = in /\ bits' = bits /\ hw' = hw
    BY <1>4 DEF vars, dpVars
  <2> QED BY <2>1 DEF DatapathInv, NotSettled
<1> QED BY <1>1, <1>2, <1>3, <1>4 DEF DatapathNext

\* Every stage does to the word what its definition says, and to its own word
\* (decode.h:61-88, dbus.h:82-138, int_alu_chmem.h:115-136).
THEOREM Invariance == DatapathSpec => []DatapathInv
<1> QED BY DatapathStarts, DatapathKeeps, PTL DEF DatapathSpec

-----------------------------------------------------------------------------

\* For every word but SYSTEM and an ADDI with 0x20 in bits 31:25 the plugins do
\* what the decoder says of it (decoder_table.h:283-391 against
\* int_alu.h:115-127, branch.h:75-103, mul_div_fsm.h:314-318, dbus.h:86-137).
THEOREM Plugins == DatapathSpec => []PluginsAgree
<1>1. DatapathInv => PluginsAgree
  <2> SUFFICES ASSUME DatapathInv, Done, dec.op # "SYSTEM", ~AddiWithSubBits
               PROVE  AgreesWith(word, dec.op, effect)
    BY DEF PluginsAgree, AgreesWith
  <2>1. word \in Words /\ dec = DecodeOf(word) /\ effect = EffectOf(word, DecodeOf(word))
    BY DEF DatapathInv, Done
  <2>2. dec.op = decode_rv32(word)
    BY <2>1 DEF DecodeOf
  <2> QED BY <2>1, <2>2, EffectAgrees DEF AddiWithSubBits
<1> QED BY <1>1, Invariance, PTL

\* What a settled state has of its word.
LEMMA SettledState ==
    ASSUME DatapathInv, hw.settled
    PROVE  /\ word \in Words /\ in \in Inputs /\ bits \in SUBSET (7 .. 31)
           /\ dec.op = decode_rv32(word) /\ dec.op_class = get_op_class(decode_rv32(word))
           /\ dec.writes_rd = writes_rd(decode_rv32(word), word.funct3, word.rd0)
           /\ dec.reads_rs2 = is_rs2_used(decode_rv32(word))
           /\ hw.decoded = ChDecoded(word, bits)
           /\ hw.result = Alu(word, ChDecoded(word, bits), in)
           /\ hw.branch = BranchOutputs(word, in)
<1>1. hw # NotSettled
  BY DEF NotSettled
<1>2. stage = "done" /\ hw = SettledOf(word, bits, in)
  BY <1>1 DEF DatapathInv
<1>3. dec = DecodeOf(word)
  BY <1>2 DEF DatapathInv
<1>4. word \in Words /\ in \in Inputs /\ bits \in SUBSET (7 .. 31)
  BY DEF DatapathInv
<1>5. /\ dec.op = decode_rv32(word) /\ dec.op_class = get_op_class(decode_rv32(word))
      /\ dec.writes_rd = writes_rd(decode_rv32(word), word.funct3, word.rd0)
      /\ dec.reads_rs2 = is_rs2_used(decode_rv32(word))
  BY <1>3 DEF DecodeOf
<1>6. /\ hw.decoded = ChDecoded(word, bits)
      /\ hw.result = Alu(word, ChDecoded(word, bits), in)
      /\ hw.branch = BranchOutputs(word, in)
  BY <1>2 DEF SettledOf
<1> QED BY <1>4, <1>5, <1>6

\* Both decoders make the same of every legal word, for words with any bits
\* set (decode_chmem.h:307-402 against decode.h:99-146,
\* decoder_table.h:229-423).
THEOREM Decoders == DatapathSpec => []DecodersAgree
<1>1. DatapathInv => DecodersAgree
  <2> SUFFICES ASSUME DatapathInv, hw.settled, Legal PROVE
          /\ hw.decoded.writes_rd = dec.writes_rd
          /\ hw.decoded.reads_rs2 = dec.reads_rs2
          /\ hw.decoded.op_class = dec.op_class
          /\ hw.decoded.format = get_format(dec.op)
          /\ dec.op_class # "SYSTEM" => hw.decoded.imm = get_imm(dec.op, bits)
    BY DEF DecodersAgree
  <2> DEFINE op == decode_rv32(word)
  <2>1. /\ word \in Words /\ bits \in SUBSET (7 .. 31)
        /\ dec.op = op /\ dec.op_class = get_op_class(op)
        /\ dec.writes_rd = writes_rd(op, word.funct3, word.rd0)
        /\ dec.reads_rs2 = is_rs2_used(op)
        /\ hw.decoded = ChDecoded(word, bits)
    BY SettledState
  <2>2. op # "UNKNOWN"
    BY <2>1 DEF Legal
  <2>3. /\ ChWritesRd(word) <=> writes_rd(op, word.funct3, word.rd0)
        /\ ChReadsRs2(word) <=> is_rs2_used(op)
        /\ ChOpClass(word) = get_op_class(op)
        /\ ChFormat(word) = get_format(op)
    BY <2>1, <2>2, SelectsAgree
  <2>4. /\ hw.decoded.writes_rd = ChWritesRd(word) /\ hw.decoded.reads_rs2 = ChReadsRs2(word)
        /\ hw.decoded.op_class = ChOpClass(word) /\ hw.decoded.format = ChFormat(word)
        /\ hw.decoded.imm = ChImmediate(word.opcode, bits)
    BY <2>1 DEF ChDecoded
  <2>5. hw.decoded.writes_rd = dec.writes_rd
    <3>1. ChWritesRd(word) = writes_rd(op, word.funct3, word.rd0)
      BY <2>3 DEF ChWritesRd, writes_rd
    <3> QED BY <2>1, <2>4, <3>1
  <2>6. hw.decoded.reads_rs2 = dec.reads_rs2
    <3>1. ChReadsRs2(word) = is_rs2_used(op)
      BY <2>3 DEF ChReadsRs2, is_rs2_used
    <3> QED BY <2>1, <2>4, <3>1
  <2>7. ASSUME dec.op_class # "SYSTEM"
        PROVE  hw.decoded.imm = get_imm(dec.op, bits)
    <3>1. word.opcode \notin {"FENCE", "SYSTEM"}
      BY <2>1, <2>7, OperationOf, ClassOf
    <3>2. ChImmediate(word.opcode, bits) = get_imm(op, bits)
      BY <2>1, <2>2, <3>1, ImmediatesAgree
    <3> QED BY <2>1, <2>4, <3>2
  <2> QED BY <2>1, <2>3, <2>4, <2>5, <2>6, <2>7
<1> QED BY <1>1, Invariance, PTL

\* For registers of every width the arithmetic circuit computes what the TLM
\* datapath does, and products, quotients and remainders that the instruction
\* set asks for (int_alu_chmem.h:116-342 against int_alu.h:88-113).
THEOREM Arithmetic == DatapathSpec => []AluComputes
<1>1. DatapathInv => AluComputes
  <2> SUFFICES ASSUME DatapathInv, hw.settled, Legal, bits = {}
               PROVE  ResultMeans(dec.op, in, hw.result)
    BY DEF AluComputes, ResultMeans
  <2> DEFINE d == ChDecoded(word, bits)
  <2>1. /\ word \in Words /\ in \in Inputs
        /\ dec.op = decode_rv32(word) /\ hw.result = Alu(word, d, in)
    BY SettledState
  <2>2. /\ decode_rv32(word) # "UNKNOWN"
        /\ word.opcode = "OP" =>
               word.funct7 \in {0, 1} \/ (word.funct7 = 32 /\ word.funct3 \in {0, 5})
    BY <2>1 DEF Legal
  <2>3. d.reads_rs2 = ChReadsRs2(word)
    BY DEF ChDecoded
  <2> HIDE DEF d
  <2> QED BY <2>1, <2>2, <2>3, AluAgrees
<1> QED BY <1>1, Invariance, PTL

\* For registers of every width the branch circuit takes the branches the TLM
\* plugin takes, to its targets but for JALR's bit 0 (branch_chmem.h:199-266
\* against branch.h:75-132).
THEOREM BranchUnits == DatapathSpec => []BranchDecides
<1>1. DatapathInv => BranchDecides
  <2> SUFFICES ASSUME DatapathInv, hw.settled
               PROVE  BranchAgrees(word, dec.op_class, in, hw.branch)
    BY DEF BranchDecides, BranchAgrees
  <2>1. /\ word \in Words /\ in \in Inputs
        /\ dec.op_class = get_op_class(decode_rv32(word))
        /\ hw.branch = BranchOutputs(word, in)
    BY SettledState
  <2> QED BY <2>1, BranchUnitsAgree
<1> QED BY <1>1, Invariance, PTL

=============================================================================
