---------------------------- MODULE RadixDivider ----------------------------
(***************************************************************************)
(* The division half of MulDivFsmPlugin: DIV, DIVU, REM and REMU by        *)
(* restoring division, one quotient bit per tick, on a Width-bit unsigned  *)
(* type (uint32_t in the code).  CpuPipeline takes the unit's result as a  *)
(* parameter; this module is about the bits.                               *)
(***************************************************************************)
EXTENDS Integers

CONSTANTS
    Width,    \* bits of a register (32)
    Pow2       \* the powers of two up to 2^Width

ASSUME WidthAssumption == Width \in Nat /\ Width >= 2
ASSUME Pow2Assumption ==
    /\ Pow2 \in [0 .. Width -> Nat \ {0}]
    /\ Pow2[0] = 1
    /\ \A n \in 0 .. (Width - 1) : Pow2[n + 1] = 2 * Pow2[n]

DivWord == 0 .. (Pow2[Width] - 1)
DivOps == {"DIV", "DIVU", "REM", "REMU"}

VARIABLE
    unit   \* the plugin's fields, one record: see Unit

Unit == [state : {"IDLE", "DIVIDE", "WRITE_BACK"}, opcode : DivOps, rs1 : DivWord, rs2 : DivWord,
         iter : 0 .. Width, special : BOOLEAN, rs1_neg : BOOLEAN, rs2_neg : BOOLEAN,
         dividend_mag : DivWord, divisor_mag : DivWord, remainder : DivWord, quotient : DivWord,
         result : DivWord]

-----------------------------------------------------------------------------
\* T arithmetic

Negate(x) == (Pow2[Width] - x) % Pow2[Width]        \* static_cast<T>(0) - x
IsNegative(x) == x >= Pow2[Width - 1]              \* static_cast<int32_t>(x) < 0
Bit(x, k) == (x \div Pow2[k]) % 2                  \* (x >> k) & 1
SetBit(x, k) == IF Bit(x, k) = 1 THEN x ELSE x + Pow2[k]    \* x | (1 << k)
ShiftIn(x, b) == ((2 * x) % Pow2[Width]) + b       \* (x << 1) | b

IntMin == Pow2[Width - 1]
DivOnes == Pow2[Width] - 1

SignedOp(op) == op \in {"DIV", "REM"}
WantsQuotient(op) == op \in {"DIV", "DIVU"}

-----------------------------------------------------------------------------
\* What a division is to return: RiscvMulPlugin::compute.  C++ division
\* truncates, so it divides magnitudes and then restores the sign.

DivMagnitude(op, x) == IF SignedOp(op) /\ IsNegative(x) THEN Negate(x) ELSE x

DivCompute(op, a, b) ==
    LET q == DivMagnitude(op, a) \div DivMagnitude(op, b)
        r == DivMagnitude(op, a) % DivMagnitude(op, b)
    IN  CASE b = 0 -> IF WantsQuotient(op) THEN DivOnes ELSE a
          [] b # 0 /\ SignedOp(op) /\ a = IntMin /\ b = DivOnes ->
               IF op = "DIV" THEN a ELSE 0
          [] OTHER ->
               IF WantsQuotient(op)
               THEN IF SignedOp(op) /\ IsNegative(a) # IsNegative(b) THEN Negate(q) ELSE q
               ELSE IF SignedOp(op) /\ IsNegative(a) THEN Negate(r) ELSE r

-----------------------------------------------------------------------------
\* set_opcode and set_operands
Captured(u, op, a, b) ==
    [u EXCEPT !.state = "DIVIDE", !.opcode = op, !.rs1 = a, !.rs2 = b, !.iter = 0,
              !.special = FALSE, !.rs1_neg = FALSE, !.rs2_neg = FALSE]

Overflows(u) == SignedOp(u.opcode) /\ u.rs1 = IntMin /\ u.rs2 = DivOnes

\* init_divide: signs, magnitudes, and the two cases with a fixed answer.
InitDivide(u) ==
    LET divisor == DivMagnitude(u.opcode, u.rs2)
    IN  [u EXCEPT
           !.rs1_neg = SignedOp(u.opcode) /\ IsNegative(u.rs1),
           !.rs2_neg = SignedOp(u.opcode) /\ IsNegative(u.rs2),
           !.dividend_mag = DivMagnitude(u.opcode, u.rs1),
           !.divisor_mag = divisor,
           !.remainder = 0,
           !.quotient = 0,
           !.special = divisor = 0 \/ Overflows(u),
           !.result = IF divisor = 0 THEN IF WantsQuotient(u.opcode) THEN DivOnes ELSE u.rs1
                      ELSE IF Overflows(u) THEN IF u.opcode = "REM" THEN 0 ELSE u.rs1
                      ELSE @]

\* One bit of the quotient, from the top.
Iterate(u) ==
    LET k == Width - 1 - u.iter
        shifted == ShiftIn(u.remainder, Bit(u.dividend_mag, k))
    IN  IF u.special THEN [u EXCEPT !.iter = @ + 1]
        ELSE IF shifted >= u.divisor_mag
        THEN [u EXCEPT !.remainder = shifted - u.divisor_mag,
                       !.quotient = SetBit(@, k), !.iter = @ + 1]
        ELSE [u EXCEPT !.remainder = shifted, !.iter = @ + 1]

\* A defect: the remainder takes the quotient's sign.
FinishSignOfQuotient(u) ==
    LET value == IF WantsQuotient(u.opcode) THEN u.quotient ELSE u.remainder
        flip  == SignedOp(u.opcode) /\ u.rs1_neg # u.rs2_neg
    IN  [u EXCEPT !.state = "WRITE_BACK", !.iter = 0,
                  !.result = IF u.special THEN @ ELSE IF flip THEN Negate(value) ELSE value]

\* The tick after the last bit: the sign, and the write-back state.
Finish(u) ==
    LET value == IF WantsQuotient(u.opcode) THEN u.quotient ELSE u.remainder
        flip  == \/ u.opcode = "DIV" /\ u.rs1_neg # u.rs2_neg
                 \/ u.opcode = "REM" /\ u.rs1_neg
    IN  [u EXCEPT !.state = "WRITE_BACK", !.iter = 0,
                  !.result = IF u.special THEN @ ELSE IF flip THEN Negate(value) ELSE value]

\* on_tick
OnTick(u) ==
    IF u.state = "DIVIDE" THEN
        IF u.iter = 0 THEN Iterate(InitDivide(u))
        ELSE IF u.iter < Width THEN Iterate(u)
        ELSE Finish(u)
    ELSE [u EXCEPT !.state = "IDLE"]

-----------------------------------------------------------------------------
DivInit ==
    unit = [state |-> "IDLE", opcode |-> "DIV", rs1 |-> 0, rs2 |-> 0, iter |-> 0,
            special |-> FALSE, rs1_neg |-> FALSE, rs2_neg |-> FALSE,
            dividend_mag |-> 0, divisor_mag |-> 0, remainder |-> 0, quotient |-> 0,
            result |-> 0]

\* The execute callback with a division while the unit is idle: capture and
\* the first tick.
Issue ==
    /\ unit.state = "IDLE"
    /\ \E op \in DivOps, a, b \in DivWord : unit' = OnTick(Captured(unit, op, a, b))

\* The execute callback of every run while the unit is not idle.
Tick ==
    /\ unit.state # "IDLE"
    /\ unit' = OnTick(unit)

DivNext == Issue \/ Tick

DivSpec == DivInit /\ [][DivNext]_unit

-----------------------------------------------------------------------------
\* Every field has its type: in particular the counter stays within Width.
DivTypeOK == unit \in Unit

Working == unit.state = "DIVIDE" /\ unit.iter >= 1

\* Shifting a bit into the remainder never loses its top bit, although the
\* remainder may be as large as the divisor and the divisor may have its top
\* bit set (mul_div_fsm.h:239-240, T is 32 bits wide and so is the remainder).
NoShiftOverflow ==
    Working /\ ~unit.special /\ unit.iter < Width => 2 * unit.remainder + 1 < Pow2[Width]

\* What the bits produced so far mean: the dividend's bits still to come are
\* below Pow2[Width - iter], the others are divided (mul_div_fsm.h:236-246).
Partial(u) ==
    LET rest == Pow2[Width - u.iter]
    IN  /\ u.dividend_mag = u.quotient * u.divisor_mag
                            + u.remainder * rest + (u.dividend_mag % rest)
        /\ u.quotient % rest = 0
        /\ u.remainder < u.divisor_mag

PartialDivision == Working /\ ~unit.special => Partial(unit)

\* The unit answers what RiscvMulPlugin::compute, the one-cycle implementation
\* of the same instructions, answers: the signs, division by zero and
\* INT_MIN / -1 included (mul_div_fsm.h:373-396 against mul.h:117-147).
DivisionCorrect ==
    unit.state = "WRITE_BACK" => unit.result = DivCompute(unit.opcode, unit.rs1, unit.rs2)

-----------------------------------------------------------------------------
\* The inductive invariant, of a unit u.

\* What init_divide leaves for the iterations.
Begun(u) ==
    /\ u.rs1_neg = (SignedOp(u.opcode) /\ IsNegative(u.rs1))
    /\ u.rs2_neg = (SignedOp(u.opcode) /\ IsNegative(u.rs2))
    /\ u.dividend_mag = DivMagnitude(u.opcode, u.rs1)
    /\ u.divisor_mag = DivMagnitude(u.opcode, u.rs2)
    /\ u.special <=> u.divisor_mag = 0 \/ Overflows(u)
    /\ u.special => u.result = DivCompute(u.opcode, u.rs1, u.rs2)

UnitInv(u) ==
    /\ u \in Unit
    /\ u.state = "DIVIDE" /\ u.iter >= 1 => Begun(u) /\ (~u.special => Partial(u))
    /\ u.state = "WRITE_BACK" => u.result = DivCompute(u.opcode, u.rs1, u.rs2)

IInv == UnitInv(unit)
=============================================================================
