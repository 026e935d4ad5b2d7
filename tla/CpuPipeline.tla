---------------------------- MODULE CpuPipeline -----------------------------
(***************************************************************************)
(* One processor of the TLM backend: PipeBuilder::run() driving the plugins *)
(* that CpuFactory::build_cpu registers with enable_mmu = false.           *)
(*                                                                         *)
(* A run visits the stages in StageOrder once per hardware thread.  A      *)
(* stage whose CtrlLinks halt is skipped as a whole; otherwise its EARLY,  *)
(* NORMAL and LATE callbacks all run, so one action here is one stage of   *)
(* one run, and the variables fetch, decode, execute and memory are the    *)
(* payload nodes through which the plugins talk.  The writeback node is a  *)
(* copy of the memory node made by the stage that consumes it, and is not  *)
(* kept.  Because every instruction goes through all stages in one run,    *)
(* only a multi-cycle operation makes a run stop short of an instruction.  *)
(***************************************************************************)
EXTENDS RiscvProgram, Sequences

CONSTANTS
    StageOrder,  \* the stage names, in the order a run visits them
    MulImpl,     \* "FSM" or "LEGACY": which M-extension plugin is registered
    DivSteps,    \* iterations of a division (32)
    NThreads     \* config.n_threads

Stages == {"fetch", "decode", "execute", "memory", "writeback"}

ASSUME OrderAssumption ==
    /\ StageOrder \in Seq(STRING)
    /\ \A s \in Stages : \E j \in 1 .. Len(StageOrder) : StageOrder[j] = s
ASSUME UnitAssumption ==
    /\ MulImpl \in {"FSM", "LEGACY"}
    /\ DivSteps \in Nat /\ DivSteps >= 1
    /\ NThreads \in Nat /\ NThreads >= 1

VARIABLES
    prog,        \* instructions in the host memory
    regs,        \* RegFilePlugin::regs_[0]; there is a single bank
    mem,         \* data in the host memory
    fetch,       \* node "fetch": pc, ins
    decode,      \* node "decode": pc, ins, rs1, rs2
    execute,     \* node "execute": the above, rd_data, taken, target
    memory,      \* node "memory": pc, ins, rd_data, taken, target
    scoreboard,  \* HazardPlugin::scoreboard_[0]: registers in flight
    hazard,      \* HazardPlugin::last_decoded_hazard_
    fsm,         \* MulDivFsmPlugin: state, op, operands, steps done, result
    step,        \* position in StageOrder of the stage to visit next
    tid          \* the hardware thread of this pass

vars == <<prog, regs, mem, fetch, decode, execute, memory, scoreboard,
          hazard, fsm, step, tid>>

\* A payload that was never written reads as zero; the zero word decodes to
\* no operation.
NoIns(fn) == [op |-> "UNKNOWN", fn |-> fn, rd |-> 0, rs1 |-> 0, rs2 |-> 0, imm |-> 0]
Empty == NoIns(CHOOSE fn \in AluFn : TRUE)

FsmStates == {"IDLE", "MULTIPLY", "DIVIDE", "WRITE_BACK"}

Init ==
    /\ prog \in Programs
    /\ regs = [r \in Reg |-> 0]
    /\ mem = [a \in Word |-> 0]
    /\ \E entry \in Word : fetch = [pc |-> entry, ins |-> Empty]
    /\ decode = [pc |-> 0, ins |-> Empty, rs1 |-> 0, rs2 |-> 0]
    /\ execute = [pc |-> 0, ins |-> Empty, rs1 |-> 0, rs2 |-> 0,
                  rd_data |-> 0, taken |-> FALSE, target |-> 0]
    /\ memory = [pc |-> 0, ins |-> Empty, rd_data |-> 0, taken |-> FALSE, target |-> 0]
    /\ scoreboard = {}
    /\ hazard = "NONE"
    /\ fsm = [state |-> "IDLE", op |-> "NONE", rs1 |-> 0, rs2 |-> 0,
              steps |-> 0, result |-> 0]
    /\ step = 1
    /\ tid = 0

-----------------------------------------------------------------------------
\* Scheduling

At(s) == step <= Len(StageOrder) /\ StageOrder[step] = s

Advance == step' = step + 1 /\ UNCHANGED tid

\* The multi-cycle unit is working: it freezes fetch and decode.
FsmBusy == fsm.state \in {"MULTIPLY", "DIVIDE"}

\* Defects of the stall that the checks must see: decode not frozen,
\* execute frozen with the stages before it.
StallsFetchOnly(s) ==
    \/ s = "fetch" /\ FsmBusy
    \/ s = "execute" /\ hazard # "NONE"

StallsExecuteToo(s) ==
    \/ s \in {"fetch", "decode", "execute"} /\ FsmBusy
    \/ s = "execute" /\ hazard # "NONE"

\* should_stall_stage: the CtrlLinks registered on a stage, OR-merged.
StallStage(s) ==
    \/ s \in {"fetch", "decode"} /\ FsmBusy
    \/ s = "execute" /\ hazard # "NONE"

-----------------------------------------------------------------------------
\* fetch: IBusPlugin reads the instruction at the node's own pc.

Fetch ==
    /\ At("fetch")
    /\ fetch' = IF StallStage("fetch") THEN fetch
                ELSE [fetch EXCEPT !.ins = prog[fetch.pc]]
    /\ Advance
    /\ UNCHANGED <<prog, regs, mem, decode, execute, memory, scoreboard, hazard, fsm>>

-----------------------------------------------------------------------------
\* decode: StageLink copy, then Decode, Hazard and RegFile in that order.

\* Only thread 0 has a register bank and a scoreboard (N_THREADS = 1).
ReadReg(r) == IF tid = 0 /\ r # 0 THEN regs[r] ELSE 0

HasRaw(r) == tid = 0 /\ r \in scoreboard

\* HazardPlugin::has_hazard; every instruction counts as reading rs1.
HazardKind(i) ==
    IF HasRaw(i.rs1) THEN "RAW_RS1"
    ELSE IF ReadsRs2(i) /\ HasRaw(i.rs2) THEN "RAW_RS2"
    ELSE IF WritesRd(i) /\ HasRaw(i.rd) THEN "WAW"
    ELSE "NONE"

DecodeNode(i) ==
    [pc  |-> fetch.pc,
     ins |-> i,
     rs1 |-> ReadReg(i.rs1),
     rs2 |-> IF ReadsRs2(i) THEN ReadReg(i.rs2) ELSE decode.rs2]

MarkInFlight(i) ==
    IF HazardKind(i) = "NONE" /\ WritesRd(i) /\ tid = 0
    THEN scoreboard \cup {i.rd} ELSE scoreboard

Decode ==
    /\ At("decode")
    /\ IF StallStage("decode")
       THEN UNCHANGED <<decode, hazard, scoreboard>>
       ELSE /\ decode' = DecodeNode(fetch.ins)
            /\ hazard' = HazardKind(fetch.ins)
            /\ scoreboard' = MarkInFlight(fetch.ins)
    /\ Advance
    /\ UNCHANGED <<prog, regs, mem, fetch, execute, memory, fsm>>

-----------------------------------------------------------------------------
\* execute: StageLink copy, then IntAlu, MulDivFsm and Branch in that order.

\* RiscvIntAluPlugin: evaluated for every instruction, M operations included.
IntAlu(d) ==
    CASE d.ins.op = "AUIPC" -> Plus(d.pc, d.ins.imm)
      [] d.ins.op = "LUI"   -> d.ins.imm
      [] OTHER -> Alu(d.ins.fn, d.rs1, IF ReadsRs2(d.ins) THEN d.rs2 ELSE d.ins.imm)

\* set_opcode and set_operands
Capture(f, d) ==
    [f EXCEPT !.state = IF d.ins.op = "DIV" THEN "DIVIDE" ELSE "MULTIPLY",
              !.op = d.ins.op, !.rs1 = d.rs1, !.rs2 = d.rs2, !.steps = 0]

Finish(f) == [f EXCEPT !.state = "WRITE_BACK", !.result = MulDiv(f.op, f.rs1, f.rs2)]

\* MulDivFsmPlugin::on_tick
Tick(f) ==
    CASE f.state = "MULTIPLY" ->
           IF f.op = "MUL" \/ f.steps + 1 >= 2 THEN Finish(f)
           ELSE [f EXCEPT !.steps = @ + 1]
      [] f.state = "DIVIDE" ->
           IF f.steps < DivSteps THEN [f EXCEPT !.steps = @ + 1] ELSE Finish(f)
      [] f.state = "WRITE_BACK" -> [f EXCEPT !.state = "IDLE"]
      [] OTHER -> f

\* The unit's NORMAL callback: an idle unit takes an M operation and ticks
\* once; a unit that is not idle ticks, whatever the instruction.
FsmNext(d) ==
    IF MulImpl = "LEGACY" THEN fsm
    ELSE IF fsm.state = "IDLE" /\ d.ins.op \in MOps THEN Tick(Capture(fsm, d))
    ELSE Tick(fsm)

\* RiscvBranchPlugin
BranchTaken(d) ==
    \/ d.ins.op \in {"JAL", "JALR"}
    \/ d.ins.op = "BEQ"  /\ d.rs1 = d.rs2
    \/ d.ins.op = "BNE"  /\ d.rs1 # d.rs2
    \/ d.ins.op = "BLTU" /\ d.rs1 < d.rs2

BranchTarget(d) ==
    IF ~BranchTaken(d) THEN Plus(d.pc, 1)
    ELSE IF d.ins.op = "JALR" THEN Plus(d.rs1, d.ins.imm)
    ELSE Plus(d.pc, d.ins.imm)

ExecuteNode(d) ==
    [pc |-> d.pc, ins |-> d.ins, rs1 |-> d.rs1, rs2 |-> d.rs2,
     rd_data |-> IF d.ins.op \in {"JAL", "JALR"} THEN Plus(d.pc, 1)
                 ELSE IF FsmNext(d).state = "WRITE_BACK" THEN FsmNext(d).result
                 ELSE IntAlu(d),
     taken  |-> BranchTaken(d),
     target |-> BranchTarget(d)]

Execute ==
    /\ At("execute")
    /\ IF StallStage("execute")
       THEN UNCHANGED <<execute, fsm>>
       ELSE /\ execute' = ExecuteNode(decode)
            /\ fsm' = FsmNext(decode)
    /\ Advance
    /\ UNCHANGED <<prog, regs, mem, fetch, decode, memory, scoreboard, hazard>>

-----------------------------------------------------------------------------
\* memory: StageLink copy, then Lsu computes the address and DBus accesses it.

Address(e) == Plus(e.rs1, e.ins.imm)

Memory ==
    /\ At("memory")
    /\ memory' = [pc |-> execute.pc, ins |-> execute.ins,
                  rd_data |-> IF execute.ins.op = "LW" THEN mem[Address(execute)]
                              ELSE execute.rd_data,
                  taken |-> execute.taken, target |-> execute.target]
    /\ mem' = IF execute.ins.op = "SW" THEN [mem EXCEPT ![Address(execute)] = execute.rs2]
              ELSE mem
    /\ Advance
    /\ UNCHANGED <<prog, regs, fetch, decode, execute, scoreboard, hazard, fsm>>

-----------------------------------------------------------------------------
\* writeback: StageLink copy, then IBus's pc update, Hazard and RegFile.

\* A defect of the pc update: from fetch's pc, which a frozen front end has
\* already advanced.
PcFromFetch(m) == IF m.taken THEN m.target ELSE Plus(fetch.pc, 1)
NextPc(m) == IF m.taken THEN m.target ELSE Plus(m.pc, 1)

Writeback ==
    /\ At("writeback")
    /\ fetch' = [fetch EXCEPT !.pc = NextPc(memory)]
    /\ scoreboard' = IF WritesRd(memory.ins) /\ tid = 0
                     THEN scoreboard \ {memory.ins.rd} ELSE scoreboard
    /\ regs' = IF WritesRd(memory.ins) /\ tid = 0
               THEN [regs EXCEPT ![memory.ins.rd] = memory.rd_data] ELSE regs
    /\ Advance
    /\ UNCHANGED <<prog, mem, decode, execute, memory, hazard, fsm>>

\* A stage on which no plugin of this configuration has a callback that does
\* anything (retire and commit of the 7-stage topology).
OtherStage ==
    /\ step <= Len(StageOrder)
    /\ StageOrder[step] \notin Stages
    /\ Advance
    /\ UNCHANGED <<prog, regs, mem, fetch, decode, execute, memory, scoreboard, hazard, fsm>>

-----------------------------------------------------------------------------
\* The end of a pass: the next thread's pass, or the end of the run.  No
\* CtrlLink of this configuration throws, so the commit hooks always run;
\* the only one resets the remembered hazard.
EndPass ==
    /\ step = Len(StageOrder) + 1
    /\ step' = 1
    /\ tid' = (tid + 1) % NThreads
    /\ hazard' = IF tid + 1 = NThreads THEN "NONE" ELSE hazard
    /\ UNCHANGED <<prog, regs, mem, fetch, decode, execute, memory, scoreboard, fsm>>

Next == Fetch \/ Decode \/ Execute \/ Memory \/ Writeback \/ OtherStage \/ EndPass

\* The caller keeps calling run() (the loop of tools/cpu_sim/main.cpp).
Fairness == WF_vars(Next)

Spec == Init /\ [][Next]_vars
FairSpec == Spec /\ Fairness

-----------------------------------------------------------------------------
\* What the pipeline implements

\* Stage s has been visited in the current pass.
PassedBy(s, n) == \E j \in 1 .. Len(StageOrder) : j < n /\ StageOrder[j] = s
Passed(s) == PassedBy(s, step)

\* An instruction takes effect when it leaves memory; writeback only makes
\* the effect visible.
WritebackDue == Passed("memory") /\ ~Passed("writeback")

\* A multi-cycle operation takes effect in the run that captures it.  Until
\* the run in which the unit finishes has written back, the architectural
\* value of its rd is the unit's result, not what the register file holds
\* (each run in between writes the ALU's answer for the same bits there).
Replaying ==
    /\ MulImpl = "FSM"
    /\ \/ ~Passed("execute") /\ FsmBusy
       \/ Passed("execute") /\ ~Passed("memory") /\ fetch.pc # execute.pc
       \/ Passed("memory") /\ FsmBusy

ArchPc == IF WritebackDue THEN NextPc(memory) ELSE fetch.pc

ArchRegs ==
    IF Replaying THEN
        IF WritesRd(decode.ins)
        THEN [regs EXCEPT ![decode.ins.rd] = MulDiv(fsm.op, fsm.rs1, fsm.rs2)]
        ELSE regs
    ELSE IF WritebackDue /\ WritesRd(memory.ins)
    THEN [regs EXCEPT ![memory.ins.rd] = memory.rd_data]
    ELSE regs

Arch == INSTANCE RiscvIsa WITH pc <- ArchPc, regs <- ArchRegs

\* Every behaviour of the staged pipeline, seen through the pc, registers and
\* memory a program can observe, is an execution of the program one whole
\* instruction at a time: no instruction is skipped, repeated or given the
\* operands or result of another one, whatever the multi-cycle unit delays
\* (stage_link.h, ibus.h, hazard.h, mul_div_fsm.h, branch.h, dbus.h, reg_file.h).
ImplementsIsa == Arch!Spec

-----------------------------------------------------------------------------
\* Properties

\* Types of all variables.
TypeOK ==
    /\ prog \in [Word -> Instruction]
    /\ regs \in [Reg -> Word]
    /\ mem \in [Word -> Word]
    /\ fetch \in [pc : Word, ins : Instruction]
    /\ decode \in [pc : Word, ins : Instruction, rs1 : Word, rs2 : Word]
    /\ execute \in [pc : Word, ins : Instruction, rs1 : Word, rs2 : Word,
                    rd_data : Word, taken : BOOLEAN, target : Word]
    /\ memory \in [pc : Word, ins : Instruction, rd_data : Word,
                   taken : BOOLEAN, target : Word]
    /\ scoreboard \subseteq Reg
    /\ hazard \in {"NONE", "RAW_RS1", "RAW_RS2", "WAW"}
    /\ fsm \in [state : FsmStates, op : MOps \cup {"NONE"}, rs1 : Word, rs2 : Word,
                steps : 0 .. (DivSteps + 1), result : Word]
    /\ step \in 1 .. (Len(StageOrder) + 1)
    /\ tid \in 0 .. (NThreads - 1)

\* No register stays marked in flight across runs and no run ever detects a
\* hazard: the scoreboard never makes execute skip an instruction, which in
\* this pipeline would drop it for good (the deadlock told in hazard.h:210-216).
NoStall ==
    /\ hazard = "NONE"
    /\ step = 1 => scoreboard = {}

\* While the multi-cycle unit works, the front end stays put: decode still
\* holds the operation the unit captured and its operands, and pc points at
\* the instruction after it, run after run (mul_div_fsm.h:280-285).
FrozenWhileBusy ==
    FsmBusy /\ step = 1 =>
        /\ fetch.pc = Plus(decode.pc, 1)
        /\ decode.ins = prog[decode.pc]
        /\ <<decode.ins.op, decode.rs1, decode.rs2>> = <<fsm.op, fsm.rs1, fsm.rs2>>

\* An M operation that reaches writeback carries its own product or quotient,
\* unless the unit is still working on it (mul_div_fsm.h:286-289).
MOpResult ==
    WritebackDue /\ memory.ins.op \in MOps /\ ~FsmBusy =>
        memory.rd_data = MulDiv(memory.ins.op, execute.rs1, execute.rs2)

\* The unit always finishes: no stall it causes keeps it from ticking
\* (mul_div_fsm.h:282-283 tells the deadlock that freezing decode avoids).
MOpCompletes == FsmBusy ~> fsm.state = "WRITE_BACK"

-----------------------------------------------------------------------------
\* The inductive invariant behind these properties, for the single-threaded
\* processor with the multi-cycle unit, a topology that names the plugins'
\* stages, and programs without adjacent M operations.

InOrder ==
    /\ Len(StageOrder) >= 5
    /\ StageOrder[1] = "fetch" /\ StageOrder[2] = "decode" /\ StageOrder[3] = "execute"
    /\ StageOrder[4] = "memory" /\ StageOrder[5] = "writeback"
    /\ \A j \in 6 .. Len(StageOrder) : StageOrder[j] \notin Stages

Configured ==
    /\ InOrder
    /\ MulImpl = "FSM"
    /\ NThreads = 1
    /\ \A p \in Programs : Spaced(p)

BeforeExecute == step \in 1 .. 3
AfterWriteback == step >= 6

\* The unit works for decode's operation, the one before the pc.
UnitHolds ==
    /\ <<fsm.op, fsm.rs1, fsm.rs2>> = <<decode.ins.op, decode.rs1, decode.rs2>>
    /\ decode.ins.op \in MOps
    /\ decode.ins = prog[decode.pc]
    /\ fetch.pc = Plus(decode.pc, 1)

\* decode holds the instruction at the pc, with the registers' values.
Fresh ==
    /\ decode.pc = fetch.pc
    /\ decode.ins = prog[fetch.pc]
    /\ decode.rs1 = regs[decode.ins.rs1]
    /\ ReadsRs2(decode.ins) => decode.rs2 = regs[decode.ins.rs2]

Quiet ==
    /\ hazard = "NONE"
    /\ regs[0] = 0
    /\ tid = 0
    /\ scoreboard \subseteq
         IF step \in 3 .. 5 /\ WritesRd(decode.ins) THEN {decode.ins.rd} ELSE {}

FrontEnd ==
    /\ BeforeExecute \/ AfterWriteback =>
         /\ FsmBusy => UnitHolds
         /\ fsm.state = "WRITE_BACK" => prog[fetch.pc].op \notin MOps
    /\ step = 2 /\ ~FsmBusy => fetch.ins = prog[fetch.pc]
    /\ step = 3 /\ ~FsmBusy => Fresh

\* What execute computed for the instruction in decode.
Executed ==
    /\ execute.pc = decode.pc /\ execute.ins = decode.ins
    /\ execute.rs1 = decode.rs1 /\ execute.rs2 = decode.rs2
    /\ execute.taken = BranchTaken(decode) /\ execute.target = BranchTarget(decode)
    /\ decode.ins = prog[decode.pc]
    /\ decode.ins.op \in MOps =>
         /\ <<fsm.op, fsm.rs1, fsm.rs2>> = <<decode.ins.op, decode.rs1, decode.rs2>>
         /\ \/ FsmBusy
            \/ /\ fsm.state = "WRITE_BACK"
               /\ execute.rd_data = MulDiv(fsm.op, fsm.rs1, fsm.rs2)
    /\ decode.ins.op \notin MOps =>
         /\ fsm.state = "IDLE"
         /\ execute.rd_data = IF decode.ins.op \in {"JAL", "JALR"} THEN Plus(decode.pc, 1)
                              ELSE IntAlu(decode)

BackEnd ==
    /\ step \in {4, 5} => Executed
    /\ step = 4 => \/ Fresh
                   \/ decode.ins.op \in MOps /\ fetch.pc = Plus(decode.pc, 1)
    /\ step = 5 =>
         /\ memory.pc = execute.pc /\ memory.ins = execute.ins
         /\ memory.taken = execute.taken /\ memory.target = execute.target
         /\ execute.ins.op \in MOps => memory.rd_data = execute.rd_data

TypeInv == TypeOK /\ (FsmBusy => fsm.op \in MOps)

IInv == TypeInv /\ prog \in Programs /\ Quiet /\ FrontEnd /\ BackEnd
=============================================================================
