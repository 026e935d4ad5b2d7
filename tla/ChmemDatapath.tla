--------------------------- MODULE ChmemDatapath ----------------------------
(***************************************************************************)
(* The combinational circuits that RiscvDecodePluginChmem,                 *)
(* RiscvIntAluPlugin (CH_MEM) and RiscvBranchPlugin (CH_MEM) emit, next to *)
(* the TLM plugins of InstructionDecode: one word goes through both.       *)
(*                                                                         *)
(* A word is given in one of two ways.  By its fields, with operands of    *)
(* XLEN bits: the datapath's results.  Or by the set of its bits above the *)
(* opcode, at most MaxBits of them: the 32-bit immediates, which are wired *)
(* bit by bit, so that a few bits at a time show every wire.               *)
(***************************************************************************)
EXTENDS Integers, InstructionDecode, FiniteSetsExt

CONSTANTS
    XLEN,        \* bits of a register, a power of two; 32 in the code
    Pow,         \* the powers of two up to 2^XLEN
    BitAnd(_, _), BitOr(_, _), BitXor(_, _),    \* &, | and ^ of two words
    Operands,    \* records of register, immediate and pc values tried
    MaxBits      \* how many bits above the opcode are set at a time

ASSUME XlenAssumption == XLEN \in Nat \ {0}
ASSUME PowAssumption ==
    /\ Pow \in [0 .. XLEN -> Nat \ {0}]
    /\ Pow[0] = 1
    /\ \A n \in 0 .. (XLEN - 1) : Pow[n + 1] = 2 * Pow[n]

W == Pow[XLEN]
Word == 0 .. W - 1

\* What the sign fill needs of & and |: a mask of zeros or ones, and words
\* with no bit in common.
ASSUME BitsAssumption ==
    /\ \A x \in Word : BitAnd(0, x) = 0 /\ BitAnd(W - 1, x) = x
    /\ \A n \in 0 .. XLEN : \A low \in 0 .. Pow[n] - 1, high \in Word :
           high % Pow[n] = 0 => BitOr(low, high) = low + high

OperandsType == [rs1 : Word, rs2 : Word, imm : Word, pc : Word]

ASSUME OperandsAssumption == Operands \subseteq OperandsType /\ Operands # {}

VARIABLES
    bits,    \* the word's bits, when it is given by its bits
    in,      \* the operands, and FLUSH
    hw       \* what the circuits drive

dpVars == <<bits, in, hw>>

-----------------------------------------------------------------------------
\* RiscvDecodePluginChmem: immediates are sets of bit positions

ShiftedRight(s, n) == {i - n : i \in {j \in s : j >= n}}
SignFrom(s, n) == IF n \in s THEN s \cup n .. 31 ELSE s

ImmI(b) == SignFrom(ShiftedRight(b, 20), 11)
ImmS(b) == SignFrom((ShiftedRight(b, 20) \cap 5 .. 11)
                    \cup (ShiftedRight(b, 7) \cap 0 .. 4), 11)

\* A defect: the branch offset put together as a store's, bit 7 left at bit 0.
ImmBAsStore(b) == SignFrom((ShiftedRight(b, 19) \cap {12})
                           \cup (ShiftedRight(b, 20) \cap 5 .. 10)
                           \cup (ShiftedRight(b, 7) \cap 0 .. 4), 12)

ImmB(b) == SignFrom((ShiftedRight(b, 19) \cap {12})
                    \cup (IF 7 \in b THEN {11} ELSE {})
                    \cup (ShiftedRight(b, 20) \cap 5 .. 10)
                    \cup (ShiftedRight(b, 7) \cap 1 .. 4), 12)
ImmU(b) == b \ 0 .. 11
ImmJ(b) == SignFrom((ShiftedRight(b, 11) \cap {20})
                    \cup (b \cap 12 .. 19)
                    \cup (ShiftedRight(b, 9) \cap {11})
                    \cup (ShiftedRight(b, 20) \cap 1 .. 10), 20)

ChImmediate(opcode, b) ==
    CASE opcode \in {"LUI", "AUIPC"}          -> ImmU(b)
      [] opcode = "JAL"                       -> ImmJ(b)
      [] opcode \in {"JALR", "LOAD", "OPIMM"} -> ImmI(b)
      [] opcode = "BRANCH"                    -> ImmB(b)
      [] opcode = "STORE"                     -> ImmS(b)
      [] OTHER                                -> {}

ChWritesRd(w) ==
    /\ \/ w.opcode \in {"LUI", "AUIPC", "JAL", "JALR", "LOAD", "OPIMM", "OP"}
       \/ w.opcode = "SYSTEM" /\ w.funct3 # 0
    /\ ~w.rd0

ChReadsRs1(w) ==
    \/ w.opcode \in {"JALR", "BRANCH", "LOAD", "STORE", "OPIMM", "OP"}
    \/ w.opcode = "SYSTEM" /\ w.funct3 # 0

ChReadsRs2(w) == w.opcode \in {"OP", "STORE", "BRANCH"}

ChOpClass(w) ==
    CASE w.opcode \in {"LUI", "AUIPC", "OPIMM", "OP"} -> "ALU"
      [] w.opcode \in {"JAL", "JALR", "BRANCH"}       -> "BRANCH"
      [] w.opcode \in {"LOAD", "STORE"}               -> w.opcode
      [] w.opcode \in {"FENCE", "SYSTEM"}             -> "SYSTEM"
      [] OTHER                                        -> "UNKNOWN"

ChFormat(w) ==
    CASE w.opcode \in {"OPIMM", "LOAD", "JALR", "FENCE", "SYSTEM"} -> "I"
      [] w.opcode = "STORE"                                       -> "S"
      [] w.opcode = "BRANCH"                                      -> "B"
      [] w.opcode \in {"LUI", "AUIPC"}                            -> "U"
      [] w.opcode = "JAL"                                         -> "J"
      [] OTHER                                                    -> "R"

ChDecoded(w, b) ==
    [writes_rd |-> ChWritesRd(w), reads_rs1 |-> ChReadsRs1(w),
     reads_rs2 |-> ChReadsRs2(w), op_class |-> ChOpClass(w),
     format |-> ChFormat(w), imm |-> ChImmediate(w.opcode, b)]

-----------------------------------------------------------------------------
\* RiscvIntAluPlugin (CH_MEM): XLEN-bit unsigned arithmetic

Negative(x) == x >= W \div 2
Negated(x) == ((W - 1 - x) + 1) % W
Magnitude(x) == IF Negative(x) THEN Negated(x) ELSE x
ShiftAmount(x) == x % XLEN
AllOnes == W - 1

\* sext<64>: the value in 2 * XLEN bits.
Extended(x) == IF Negative(x) THEN x + W * W - W ELSE x
HighHalf(product) == (product % (W * W)) \div W

\* A defect, an SLT that looks only at the sign of the difference.
LessBySubtraction(a, b) == Negative((a - b) % W)

\* Different signs: the negative one is less; same sign: the difference's sign.
LessSigned(a, b) ==
    IF Negative(a) # Negative(b) THEN Negative(a) ELSE Negative((a - b) % W)

\* A defect, the fill int_alu_chmem.h:244-246 tells of: the copies of the sign
\* were shifted out and came back as zeros.
SignFillLost(a, n) ==
    ((IF Negative(a) THEN AllOnes ELSE 0) \div Pow[n]) * Pow[n] % Pow[XLEN - 1]

SignFill(a, n) ==
    BitAnd(IF Negative(a) THEN AllOnes ELSE 0, AllOnes - (AllOnes \div Pow[n]))

SafeDivisor(b) == IF b = 0 THEN 1 ELSE b

BaseResult(f3, f7, a, op2) ==
    LET n == ShiftAmount(op2)
    IN  CASE f3 = 0 -> IF f7 = 32 THEN (a - op2) % W ELSE (a + op2) % W
          [] f3 = 1 -> (a * Pow[n]) % W
          [] f3 = 2 -> IF LessSigned(a, op2) THEN 1 ELSE 0
          [] f3 = 3 -> IF a < op2 THEN 1 ELSE 0
          [] f3 = 4 -> BitXor(a, op2)
          [] f3 = 5 -> IF f7 = 32 THEN BitOr(a \div Pow[n], SignFill(a, n)) ELSE a \div Pow[n]
          [] f3 = 6 -> BitOr(a, op2)
          [] f3 = 7 -> BitAnd(a, op2)

MulDivResult(f3, a, b) ==
    LET quotient == Magnitude(a) \div SafeDivisor(Magnitude(b))
        remainder == Magnitude(a) % SafeDivisor(Magnitude(b))
    IN  CASE f3 = 0 -> (a * b) % W
          [] f3 = 1 -> HighHalf(Extended(a) * Extended(b))
          [] f3 = 2 -> HighHalf(Extended(a) * b)
          [] f3 = 3 -> HighHalf(a * b)
          [] f3 = 4 -> IF b = 0 THEN AllOnes
                       ELSE IF Negative(a) # Negative(b) THEN Negated(quotient) ELSE quotient
          [] f3 = 5 -> IF b = 0 THEN AllOnes ELSE a \div SafeDivisor(b)
          [] f3 = 6 -> IF b = 0 THEN a
                       ELSE IF Negative(a) THEN Negated(remainder) ELSE remainder
          [] f3 = 7 -> IF b = 0 THEN a ELSE a % SafeDivisor(b)

\* Which words a funct7 is right for: is_add ... is_and.
Selected(w) ==
    CASE w.opcode = "OP"    -> w.funct7 = 0 \/ (w.funct7 = 32 /\ w.funct3 \in {0, 5})
      [] w.opcode = "OPIMM" -> w.funct3 = 5 => w.funct7 \in {0, 32}
      [] OTHER              -> FALSE

\* An immediate operation's funct7 is part of its immediate but for a shift.
Alu(w, decoded, i) ==
    LET op2 == IF decoded.reads_rs2 THEN i.rs2 ELSE i.imm
        f7  == IF w.opcode = "OPIMM" /\ w.funct3 # 5 THEN 0 ELSE w.funct7
    IN  CASE w.opcode = "OP" /\ w.funct7 = 1  -> MulDivResult(w.funct3, i.rs1, i.rs2)
          [] Selected(w)                      -> BaseResult(w.funct3, f7, i.rs1, op2)
          [] w.opcode \in {"LOAD", "STORE"}   -> (i.rs1 + i.imm) % W
          [] w.opcode = "LUI"                 -> i.imm
          [] w.opcode = "AUIPC"               -> (i.pc + i.imm) % W
          [] OTHER                            -> 0

-----------------------------------------------------------------------------
\* RiscvBranchPlugin (CH_MEM)::branch_compute

Condition(f3, a, b) ==
    CASE f3 = 0 -> a = b
      [] f3 = 1 -> a # b
      [] f3 = 4 -> LessSigned(a, b)
      [] f3 = 5 -> ~LessSigned(a, b)
      [] f3 = 6 -> a < b
      [] f3 = 7 -> a >= b
      [] OTHER  -> FALSE

Heeded(raw, flush) == raw /\ ~flush

BranchOutputs(w, i) ==
    LET raw == \/ w.opcode \in {"JAL", "JALR"}
               \/ w.opcode = "BRANCH" /\ Condition(w.funct3, i.rs1, i.rs2)
        sum == (i.rs1 + i.imm) % W
    IN  [taken_raw |-> raw, taken |-> Heeded(raw, i.flush),
         is_branch |-> w.opcode = "BRANCH", is_jal |-> w.opcode = "JAL",
         target |-> IF w.opcode = "JALR" THEN (sum \div 2) * 2 ELSE (i.pc + i.imm) % W]

-----------------------------------------------------------------------------
\* RiscvIntAluPlugin<uint32_t>::compute, the TLM datapath, on the same operands

AsSigned(x) == IF x >= W \div 2 THEN x - W ELSE x

Compute(op, a, b) ==
    LET n == ShiftAmount(b)
    IN  CASE op = "ADD"  -> (a + b) % W
          [] op = "SUB"  -> (a - b) % W
          [] op = "SLL"  -> (a * Pow[n]) % W
          [] op = "SLT"  -> IF AsSigned(a) < AsSigned(b) THEN 1 ELSE 0
          [] op = "SLTU" -> IF a < b THEN 1 ELSE 0
          [] op = "XOR"  -> BitXor(a, b)
          [] op = "SRL"  -> a \div Pow[n]
          [] op = "SRA"  -> (AsSigned(a) \div Pow[n]) % W
          [] op = "OR"   -> BitOr(a, b)
          [] op = "AND"  -> BitAnd(a, b)

\* RiscvBranchPlugin (TLM)
BranchResult(w, op_class, i) ==
    LET holds == CASE w.funct3 = 0 -> i.rs1 = i.rs2
                   [] w.funct3 = 1 -> i.rs1 # i.rs2
                   [] w.funct3 = 4 -> AsSigned(i.rs1) < AsSigned(i.rs2)
                   [] w.funct3 = 5 -> AsSigned(i.rs1) >= AsSigned(i.rs2)
                   [] w.funct3 = 6 -> i.rs1 < i.rs2
                   [] w.funct3 = 7 -> i.rs1 >= i.rs2
                   [] OTHER        -> FALSE
        taken == op_class = "BRANCH" /\ (w.opcode = "BRANCH" => holds)
    IN  [taken  |-> taken,
         target |-> IF ~taken THEN (i.pc + 4) % W
                    ELSE ((IF w.opcode = "JALR" THEN i.rs1 ELSE i.pc) + i.imm) % W]

\* get_format, get_imm: the TLM decoder's, again on sets of bit positions.
get_format(op) ==
    CASE op \in {"LUI", "AUIPC"}     -> "U"
      [] op = "JAL"                  -> "J"
      [] op \in Branches             -> "B"
      [] op \in Stores               -> "S"
      [] op \in Registers \cup MulDivs -> "R"
      [] OTHER                       -> "I"

Moved(b, from, to, at) == {at + i - from : i \in b \cap from .. to}

get_imm(op, b) ==
    LET format == get_format(op)
        short == CASE format = "I" -> Moved(b, 20, 31, 0)
                   [] format = "S" -> Moved(b, 25, 31, 5) \cup Moved(b, 7, 11, 0)
                   [] format = "B" -> Moved(b, 31, 31, 12) \cup Moved(b, 7, 7, 11)
                                      \cup Moved(b, 25, 30, 5) \cup Moved(b, 8, 11, 1)
                   [] format = "U" -> b \cap 12 .. 31
                   [] format = "J" -> Moved(b, 31, 31, 20) \cup Moved(b, 12, 19, 12)
                                      \cup Moved(b, 20, 20, 11) \cup Moved(b, 21, 30, 1)
                   [] OTHER        -> {}
    IN  IF 31 \in b /\ format # "R" THEN short \cup Max(short) .. 31 ELSE short

-----------------------------------------------------------------------------
\* A word through the TLM plugins, then through the circuits

WordBits == {7 + k : k \in 0 .. 24}

Value(b, i, weight) == IF i \in b THEN weight ELSE 0

WordOf(opcode, b) ==
    [opcode |-> opcode,
     funct3 |-> Value(b, 12, 1) + Value(b, 13, 2) + Value(b, 14, 4),
     funct7 |-> Value(b, 25, 1) + Value(b, 26, 2) + Value(b, 27, 4) + Value(b, 28, 8)
                + Value(b, 29, 16) + Value(b, 30, 32) + Value(b, 31, 64),
     rd0 |-> b \cap 7 .. 11 = {}]

AnOperand == CHOOSE i \in Operands : TRUE
NotSettled == [settled |-> FALSE]

DatapathInit ==
    /\ \/ \E w \in Fields, f \in BOOLEAN :
            \E o \in IF w.rd0 THEN {AnOperand} ELSE Operands :
                /\ f => w.opcode \in {"BRANCH", "JAL", "JALR"}
                /\ Fetched(w)
                /\ in = [rs1 |-> o.rs1, rs2 |-> o.rs2, imm |-> o.imm, pc |-> o.pc,
                         flush |-> f]
                /\ bits = {}
       \/ \E opcode \in Opcodes, b \in UNION {kSubset(k, WordBits) : k \in 1 .. MaxBits} :
            /\ Fetched(WordOf(opcode, b))
            /\ in = [rs1 |-> 0, rs2 |-> 0, imm |-> 0, pc |-> 0, flush |-> FALSE]
            /\ bits = b
    /\ hw = NotSettled

\* The stages' closures, evaluated for one cycle.
Settle ==
    /\ Done
    /\ hw = NotSettled
    /\ LET d == ChDecoded(word, bits)
       IN  hw' = [settled |-> TRUE, decoded |-> d, result |-> Alu(word, d, in),
                  branch |-> BranchOutputs(word, in)]
    /\ UNCHANGED <<vars, bits, in>>

DatapathNext ==
    \/ Decode /\ UNCHANGED dpVars
    \/ Execute /\ UNCHANGED dpVars
    \/ Settle

DatapathSpec == DatapathInit /\ [][DatapathNext]_<<vars, dpVars>>

-----------------------------------------------------------------------------
\* The circuits against the TLM plugins.  The decoder's table leaves funct7 of
\* some operations unread, the circuits leave some funct3 unread: a word whose
\* every field is the one the instruction set asks for is legal.
Legal ==
    /\ dec.op # "UNKNOWN"
    /\ word.opcode = "OP" => 
           word.funct7 \in {0, 1} \/ (word.funct7 = 32 /\ word.funct3 \in {0, 5})
    /\ dec.op = "SLLI" => word.funct7 = 0

\* Both decoders make the same of a legal word: whether it writes rd and reads
\* rs2, its class, the format its immediate is taken by, and the immediate,
\* wire by wire and with its sign (decode_chmem.h:307-402 against
\* decode.h:99-146, decoder_table.h:229-423).  FENCE and SYSTEM have no
\* immediate in the circuit (decode_chmem.h:305) and no plugin reads theirs.
DecodersAgree ==
    hw.settled /\ Legal =>
        /\ hw.decoded.writes_rd = dec.writes_rd
        /\ hw.decoded.reads_rs2 = dec.reads_rs2
        /\ hw.decoded.op_class = dec.op_class
        /\ hw.decoded.format = get_format(dec.op)
        /\ dec.op_class # "SYSTEM" => hw.decoded.imm = get_imm(dec.op, bits)

\* What the instruction set says of a division: a = q * b + r, the remainder
\* is smaller than the divisor and has the dividend's sign; by zero all ones
\* and the dividend; -2^(XLEN-1) by -1 is itself with remainder 0.
Divides(a, b, q, r) == /\ a = q * b + r
                       /\ r = 0 \/ (r < 0) = (a < 0)
                       /\ (IF r < 0 THEN -r ELSE r) < (IF b < 0 THEN -b ELSE b)

MulDivMeans(op, a, b, value) ==
    LET sa == AsSigned(a)
        sb == AsSigned(b)
        range == -W .. W
    IN  CASE op = "MUL"    -> value = (sa * sb) % W
          [] op = "MULH"   -> value = ((sa * sb) \div W) % W
          [] op = "MULHSU" -> value = ((sa * b) \div W) % W
          [] op = "MULHU"  -> value = (a * b) \div W
          [] op \in {"DIV", "DIVU"} /\ b = 0 -> value = W - 1
          [] op \in {"REM", "REMU"} /\ b = 0 -> value = a
          [] op = "DIV" /\ b # 0  -> \E q, r \in range : Divides(sa, sb, q, r) /\ value = q % W
          [] op = "REM" /\ b # 0  -> \E q, r \in range : Divides(sa, sb, q, r) /\ value = r % W
          [] op = "DIVU" /\ b # 0 -> \E r \in range : Divides(a, b, value, r)
          [] op = "REMU" /\ b # 0 -> \E q \in range : Divides(a, b, q, value)

\* The circuit's result of a legal word is that of the operation it is decoded
\* as, by the arithmetic of the TLM unit (int_alu.h:88-113), for the M
\* extension the one the instruction set asks for; of a load or a store it is
\* the address (int_alu_chmem.h:116-342; division by zero and overflow at
\* :259-268).  Which operation the TLM plugin runs for the word is PluginsAgree:
\* for AddiWithSubBits the circuit adds and the plugin subtracts.
AluComputes ==
    hw.settled /\ Legal /\ bits = {} =>
        CASE dec.op \in Registers          -> hw.result = Compute(dec.op, in.rs1, in.rs2)
          [] dec.op \in Immediates         -> hw.result = Compute(RegisterForm[dec.op], in.rs1, in.imm)
          [] dec.op \in MulDivs            -> MulDivMeans(dec.op, in.rs1, in.rs2, hw.result)
          [] dec.op \in Loads \cup Stores  -> hw.result = (in.rs1 + in.imm) % W
          [] dec.op = "LUI"                -> hw.result = in.imm
          [] dec.op = "AUIPC"              -> hw.result = (in.pc + in.imm) % W
          [] OTHER                         -> hw.result = 0

\* The branch circuit decides and aims as the TLM plugin does, except that it
\* clears bit 0 of JALR's target; a word in the shadow of a taken branch
\* redirects nothing (branch_chmem.h:199-266 against branch.h:75-132).
BranchDecides ==
    hw.settled /\ bits = {} =>
        LET tlm == BranchResult(word, dec.op_class, in)
        IN  /\ hw.branch.taken_raw = tlm.taken
            /\ hw.branch.taken = (tlm.taken /\ ~in.flush)
            /\ hw.branch.taken =>
                  hw.branch.target = IF word.opcode = "JALR" THEN (tlm.target \div 2) * 2
                                     ELSE tlm.target
=============================================================================
