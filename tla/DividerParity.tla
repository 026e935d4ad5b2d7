--------------------------- MODULE DividerParity ----------------------------
(***************************************************************************)
(* The state machine of the multiply/divide unit in the CH_MEM backend     *)
(* (ip/cpu/plugins/mul_div_fsm_chmem.h, on FsmBase of                      *)
(* include/cf/plugin/multi_cycle_fsm.h), clocked with the unit of the TLM  *)
(* backend, RadixDivider.  Its driver gives it the opcode with the run     *)
(* that issues the division and waits until both are idle.  The two do not *)
(* keep the same count of clocks.                                          *)
(***************************************************************************)
EXTENDS RadixDivider

VARIABLE
    rtl   \* the registers: the state, counter_reg_, result_reg_, busy_cycles_reg_

RtlInit == rtl = [state |-> "IDLE", counter |-> 0, result |-> 0, busy |-> 0]

\* The transitions of create_fsm for a division; op is opcode_sig_.
RtlStateAfter(op) ==
    CASE rtl.state = "IDLE" -> IF op = "DIV" THEN "DIVIDE" ELSE "IDLE"
      [] rtl.state = "DIVIDE" -> IF rtl.counter >= Width THEN "WRITE_BACK" ELSE "DIVIDE"
      [] rtl.state = "WRITE_BACK" -> "IDLE"

\* A defect: the counter kept between divisions.
CounterKept ==
    IF rtl.state = "DIVIDE" /\ rtl.counter < Width THEN rtl.counter + 1 ELSE rtl.counter

\* counter_next
CounterAfter ==
    IF rtl.state # "DIVIDE" THEN 0
    ELSE IF rtl.counter >= Width THEN rtl.counter
    ELSE rtl.counter + 1

\* One clock.  The result is a constant of the code, 3, latched if the opcode
\* is still there in the write-back state; busy_cycles_reg_ is 33 from the
\* first clock on.
RtlTick(op) ==
    rtl' = [state |-> RtlStateAfter(op),
            counter |-> CounterAfter,
            result |-> IF rtl.state = "WRITE_BACK" /\ op = "DIV" THEN 3 ELSE 0,
            busy |-> Width + 1]

DivOpcodes == {"NONE", "DIV"}

ParityInit == DivInit /\ RtlInit

\* Both take the division.
IssueBoth ==
    /\ rtl.state = "IDLE"
    /\ Issue
    /\ RtlTick("DIV")

\* A run and a clock while the unit is at work; the opcode may stay or go.
TickBoth == Tick /\ \E op \in DivOpcodes : RtlTick(op)

\* FsmBase::tick in IDLE does nothing.
TickRtl ==
    /\ unit.state = "IDLE"
    /\ rtl.state # "IDLE"
    /\ \E op \in DivOpcodes : RtlTick(op)
    /\ UNCHANGED unit

ParityNext == IssueBoth \/ TickBoth \/ TickRtl

ParitySpec == ParityInit /\ [][ParityNext]_<<unit, rtl>>

-----------------------------------------------------------------------------
\* The machine of the CH_MEM backend is behind the TLM unit by exactly one clock
\* in every division, special cases and divisions one after another included:
\* the TLM unit already works in the run that captures the operands, the CH_MEM
\* machine only leaves IDLE in that clock.  It therefore ends a division one
\* clock later, which is not the cycle parity of
\* openspec/specs/multi-cycle-fsm/spec.md:43-45: "cycle count SHALL differ by at
\* most 0".
OneClockBehind ==
    /\ rtl.state = "IDLE" => unit.state = "IDLE"
    /\ rtl.state = "DIVIDE" =>
           \/ unit.state = "DIVIDE" /\ unit.iter = rtl.counter + 1
           \/ unit.state = "WRITE_BACK" /\ rtl.counter = Width
    /\ rtl.state = "WRITE_BACK" => unit.state = "IDLE"
    /\ unit.state # "IDLE" => rtl.busy = Width + 1
=============================================================================
