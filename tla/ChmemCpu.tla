------------------------------ MODULE ChmemCpu ------------------------------
(***************************************************************************)
(* One processor of the CH_MEM backend, as CpuFactoryChmem::build_cpu      *)
(* elaborates it: the callbacks run once, to build a circuit, and the      *)
(* circuit then runs one instruction per clock.  Between fetch and         *)
(* writeback there is no register: the only latency is the one cycle of    *)
(* the instruction memory, so the instruction executed in a cycle was      *)
(* addressed in the cycle before.  That one wrong-path slot is what the    *)
(* flush suppresses and what the branch predictor tries to avoid.          *)
(*                                                                         *)
(* The operators below are the circuit's wires, functions of the state;    *)
(* the single action Cycle is a clock edge.  Words and instructions are    *)
(* those of RiscvProgram, an address counts words, and both memories are   *)
(* as large as the address space.                                          *)
(***************************************************************************)
EXTENDS RiscvProgram

CONSTANTS
    EnableBp,       \* build_cpu's enable_bp
    BpUncond,       \* build_cpu's bp_uncond: jal gets entries in the BTB
    BtbEntries,     \* logical entries of BTB and PHT
    Zicsr(_),       \* "NONE", or which instruction of the Zicsr extension it is
    Funct12(_)      \* what bits 31..20 of the instruction name: a CSR or a trap

CsrNames == {"mstatus", "mtvec", "mscratch", "mepc", "mcause", "mip", "mie"}
TrapNames == {"ECALL", "EBREAK", "MRET"}

\* RS and RSI stand for the set and clear forms; I forms have an immediate.
ZicsrOps == {"RW", "RS", "RWI", "RSI"}

\* The zero word, which the instruction memory shows before the first clock.
ZeroWord == [op |-> "UNKNOWN", fn |-> CHOOSE fn \in AluFn : TRUE,
             rd |-> 0, rs1 |-> 0, rs2 |-> 0, imm |-> 0]

ASSUME PredictorAssumption ==
    /\ EnableBp \in BOOLEAN /\ BpUncond \in BOOLEAN
    /\ BtbEntries \in Nat /\ BtbEntries >= 1

ASSUME SystemAssumption ==
    \A p \in Programs : \A a \in Word :
        /\ Zicsr(p[a]) \in ZicsrOps \cup {"NONE"}
        /\ Zicsr(p[a]) # "NONE" => p[a].op = "UNKNOWN"
        /\ Funct12(p[a]) \in CsrNames \cup TrapNames \cup {"mcycle", "OTHER"}
ASSUME ZeroWordAssumption == Zicsr(ZeroWord) = "NONE" /\ Funct12(ZeroWord) = "ECALL"

VARIABLES
    prog,      \* IBusPlugin's imem, preloaded
    regs,      \* RegFilePlugin's registers
    mem,       \* DMemPlugin's memory
    pc,        \* pc: the address fetched in this cycle
    lag,       \* pc_lag: the address fetched in the cycle before
    instr,     \* output of the instruction memory: what was at lag
    started,   \* history: the first cycle, which runs the reset value, is over
    rec,       \* bp_pred_*_buf: what was predicted for the instruction at lag
    brTaken,   \* br_taken_buf: the last cycle's branch was taken
    specOk,    \* bp_spec_ok_buf: and it had been predicted to its target
    missA,     \* bp_mispredict_a_buf: predicted taken and was not
    btb,       \* branch targets
    pht,       \* two-bit direction counters
    csr,       \* the writable machine CSRs
    mcycle     \* the cycle counter

vars == <<prog, regs, mem, pc, lag, instr, started, rec, brTaken, specOk, missA,
          btb, pht, csr, mcycle>>

Slot == 0 .. (BtbEntries - 1)

NoEntry == [valid |-> FALSE, tag |-> 0, target |-> 0, uncond |-> FALSE]
NoPrediction == [valid |-> FALSE, taken |-> FALSE, target |-> 0]

Init ==
    /\ prog \in Programs
    /\ regs = [r \in Reg |-> 0]
    /\ mem = [a \in Word |-> 0]
    /\ pc \in Word                   \* set_initial_pc
    /\ lag = 0
    /\ instr = ZeroWord
    /\ started = FALSE
    /\ rec = NoPrediction
    /\ brTaken = FALSE /\ specOk = FALSE /\ missA = FALSE
    /\ btb = [s \in Slot |-> NoEntry]
    /\ pht = [s \in Slot |-> 0]
    /\ csr = [c \in CsrNames |-> 0]
    /\ mcycle = 0

-----------------------------------------------------------------------------
\* fetch

\* IBusPlugin::gated_flush: the instruction at lag is on the wrong path.
Flush == (brTaken /\ ~specOk) \/ missA

\* BTB and PHT are indexed by the same address bits; a mask keeps the
\* logical entries.
Index(a) == a % BtbEntries

\* BranchPredictorPluginChmem::predict for the address being fetched.
Predict(a) ==
    LET e   == btb[Index(a)]
        hit == EnableBp /\ e.valid /\ e.tag = a
    IN  [valid  |-> hit,
         taken  |-> hit /\ (e.uncond \/ pht[Index(a)] >= 2),
         target |-> IF EnableBp THEN e.target ELSE 0]

-----------------------------------------------------------------------------
\* decode and execute

Rs1 == regs[instr.rs1]
Rs2 == regs[instr.rs2]

\* RiscvDecodePluginChmem::writes_rd and RegFilePlugin's x0 guard.
WritesBack(i) == WritesRd(i) \/ (Zicsr(i) # "NONE" /\ i.rd # 0)

\* RiscvIntAluPlugin's select tree: RD_DATA, and for loads and stores RESULT.
AluResult ==
    CASE instr.op = "ALU"         -> Alu(instr.fn, Rs1, Rs2)
      [] instr.op = "ALUI"        -> Alu(instr.fn, Rs1, instr.imm)
      [] instr.op = "LUI"         -> instr.imm
      [] instr.op = "AUIPC"       -> Plus(lag, instr.imm)
      [] instr.op \in MOps        -> MulDiv(instr.op, Rs1, Rs2)
      [] instr.op \in {"LW", "SW"} -> Plus(Rs1, instr.imm)
      [] OTHER                    -> 0

\* Payload nodes of the stages, as far as the LATE callbacks of execute see
\* them: RD_DATA, the CSR's old value if the CSR unit has published it, and
\* the CSR write.  populate_stage puts a disabled write in every stage.
NoWrite == [en |-> FALSE, name |-> "OTHER", value |-> 0]
ExecuteNode == [data |-> AluResult, read |-> {}, write |-> NoWrite]

\* Factory link 2b, execute to memory, with the return address of a call.
LinkToMemory(n) ==
    [exe |-> n,
     mem |-> [n EXCEPT !.data = IF instr.op \in {"JAL", "JALR"} THEN Plus(lag, 1) ELSE @]]

\* RiscvIntAluPlugin's LATE callback: a published CSR value overrides RD_DATA.
OverrideWithCsr(ns) ==
    IF ns.exe.read = {} THEN ns
    ELSE [ns EXCEPT !.exe.data = CHOOSE v \in ns.exe.read : TRUE]

\* The CSR unit's LATE callback.  Set and clear forms with no operand only
\* read; all others write the operand itself.  Only the set and clear forms
\* take the immediate, which is the rs1 field: write-immediate does not.
CsrWrite(i) ==
    LET name == Funct12(i) IN
    [en    |-> /\ Zicsr(i) # "NONE" /\ name # "mcycle"
               /\ Zicsr(i) \in {"RS", "RSI"} => i.rs1 # 0,
     name  |-> name,
     value |-> IF Zicsr(i) = "RSI" THEN i.rs1 % WordCount ELSE regs[i.rs1]]

CsrExecute(ns) ==
    LET name == Funct12(instr) IN
    [ns EXCEPT !.exe.write = CsrWrite(instr),
               !.exe.read = IF name = "mcycle" THEN {}
                            ELSE {IF name \in CsrNames THEN csr[name] ELSE 0}]

\* The order of registration is the order of execution: the factory's own
\* callbacks first, then the plugins' in the order of their build().
MemoryNode == CsrExecute(OverrideWithCsr(LinkToMemory(ExecuteNode))).mem

-----------------------------------------------------------------------------
\* branch

\* BranchPlugin::branch_compute, before and after the flush.
TakenRaw ==
    \/ instr.op \in {"JAL", "JALR"}
    \/ instr.op = "BEQ" /\ Rs1 = Rs2
    \/ instr.op = "BNE" /\ Rs1 # Rs2
    \/ instr.op = "BLTU" /\ Rs1 < Rs2

Taken == TakenRaw /\ ~Flush

Target == Plus(IF instr.op = "JALR" THEN Rs1 ELSE lag, instr.imm)

IsBranch == instr.op \in {"BEQ", "BNE", "BLTU"}
IsJal    == instr.op = "JAL"

\* IBusPlugin::update_pc: the prediction recorded for the instruction at lag
\* against its outcome.
CaseAOnWrongPath == rec.valid /\ rec.taken /\ ~Taken  \* a defect
CaseA == ~Flush /\ rec.valid /\ rec.taken /\ ~Taken
CaseB == rec.valid /\ ~rec.taken /\ Taken
CaseC == rec.valid /\ rec.taken /\ Taken /\ rec.target = Target

\* Where the instruction being fetched leads, as predicted.
Speculated ==
    LET p == Predict(pc) IN IF p.valid /\ p.taken THEN p.target ELSE Plus(pc, 1)

\* A defect: a correct prediction drops the next instruction's.
NextPcDropping ==
    IF CaseA THEN Plus(lag, 1)
    ELSE IF CaseC THEN Plus(pc, 1)
    ELSE IF CaseB \/ Taken THEN Target
    ELSE Speculated

\* The last of the code's selects wins: case A over B over C over taken.
NextPc ==
    IF CaseA THEN Plus(lag, 1)
    ELSE IF CaseB THEN Target
    ELSE IF CaseC THEN Speculated
    ELSE IF Taken THEN Target
    ELSE Speculated

Saturated(count, up) ==
    IF up THEN (IF count >= 3 THEN 3 ELSE count + 1)
    ELSE (IF count = 0 THEN 0 ELSE count - 1)

\* Defects of the training that the checks must see: the entries of jumps
\* are not marked, or wrong-path instructions train the counters.
UnmarkedBtb ==
    IF EnableBp /\ Taken /\ ~Flush /\ (IsBranch \/ (BpUncond /\ IsJal))
    THEN [btb EXCEPT ![Index(lag)] =
            [valid |-> TRUE, tag |-> lag, target |-> Target, uncond |-> FALSE]]
    ELSE btb

JalrInBtb ==
    IF EnableBp /\ Taken /\ ~Flush
    THEN [btb EXCEPT ![Index(lag)] =
            [valid |-> TRUE, tag |-> lag, target |-> Target, uncond |-> ~IsBranch]]
    ELSE btb

WrongPathPht ==
    IF EnableBp /\ IsBranch
    THEN [pht EXCEPT ![Index(lag)] = Saturated(@, TakenRaw)]
    ELSE pht

\* BranchPredictorPluginChmem::update
TrainedBtb ==
    IF EnableBp /\ Taken /\ ~Flush /\ (IsBranch \/ (BpUncond /\ IsJal))
    THEN [btb EXCEPT ![Index(lag)] =
            [valid |-> TRUE, tag |-> lag, target |-> Target, uncond |-> BpUncond /\ IsJal]]
    ELSE btb

TrainedPht ==
    IF EnableBp /\ IsBranch /\ ~Flush
    THEN [pht EXCEPT ![Index(lag)] = Saturated(@, TakenRaw)]
    ELSE pht

-----------------------------------------------------------------------------
\* memory and writeback

\* DMemPlugin::mem_access, of which only whole words are considered here.
LoadedOr(data) == IF instr.op = "LW" THEN mem[AluResult] ELSE data

StoredMem ==
    IF instr.op = "SW" /\ ~Flush THEN [mem EXCEPT ![AluResult] = Rs2] ELSE mem

\* RegFilePlugin::wb_writeback
WrittenRegs ==
    IF WritesBack(instr) /\ ~Flush
    THEN [regs EXCEPT ![instr.rd] = LoadedOr(MemoryNode.data)] ELSE regs

\* The CSR unit's writeback callback; its branch callback writes mcause and
\* mepc too and is overridden by this one.  Bits 31..20 alone make a trap:
\* the opcode is not looked at, nor is the flush.
WrittenCsr ==
    LET w    == MemoryNode.write
        trap == Funct12(instr) \in {"ECALL", "EBREAK"}
    IN  [c \in CsrNames |->
            IF trap /\ c = "mcause" THEN (IF Funct12(instr) = "ECALL" THEN 11 ELSE 3)
            ELSE IF trap /\ c = "mepc" THEN csr[c]
            ELSE IF w.en /\ w.name = c THEN w.value ELSE csr[c]]

-----------------------------------------------------------------------------
\* A clock edge

Cycle ==
    /\ regs' = WrittenRegs
    /\ mem' = StoredMem
    /\ pc' = NextPc
    /\ lag' = pc
    /\ instr' = prog[pc]
    /\ started' = TRUE
    /\ rec' = Predict(pc)
    /\ brTaken' = Taken
    /\ specOk' = CaseC
    /\ missA' = CaseA
    /\ btb' = TrainedBtb
    /\ pht' = TrainedPht
    /\ csr' = WrittenCsr
    /\ mcycle' = Plus(mcycle, 1)
    /\ UNCHANGED prog

Next == Cycle

\* The clock does not stop.
Fairness == WF_vars(Cycle)

Spec == Init /\ [][Next]_vars /\ Fairness
-----------------------------------------------------------------------------
\* Properties

TypeOK ==
    /\ prog \in Programs
    /\ regs \in [Reg -> Word] /\ mem \in [Word -> Word]
    /\ pc \in Word /\ lag \in Word /\ instr \in Instruction
    /\ started \in BOOLEAN /\ brTaken \in BOOLEAN
    /\ specOk \in BOOLEAN /\ missA \in BOOLEAN
    /\ rec \in [valid : BOOLEAN, taken : BOOLEAN, target : Word]
    /\ btb \in [Slot -> [valid : BOOLEAN, tag : Word, target : Word, uncond : BOOLEAN]]
    /\ pht \in [Slot -> 0 .. 3]
    /\ csr \in [CsrNames -> Word \cup {3, 11}]
    /\ mcycle \in Word

\* The address of the next instruction that takes effect: the one in the
\* execute slot, unless that is a bubble (flushed, or the reset value).
ArchPc == IF Flush \/ ~started THEN pc ELSE lag

Arch == INSTANCE RiscvIsa WITH pc <- ArchPc

archVars == <<prog, ArchPc, regs, mem>>

\* An instruction of Zicsr, or one that traps or returns from a trap.
IsSystem(i) == Zicsr(i) # "NONE" \/ (i.op = "UNKNOWN" /\ Funct12(i) \in TrapNames)

\* Of a SYSTEM instruction no more is claimed than that it leaves the memory and
\* every register but its own rd alone: the circuit does not do what the
\* csr-chmem-zicsr specification asks for.  A CSR keeps its value, rd is given
\* 0, and no trap redirects the pc.
SystemStep ==
    /\ IsSystem(prog[ArchPc])
    /\ \A r \in Reg \ {prog[ArchPc].rd} : regs'[r] = regs[r]
    /\ UNCHANGED <<prog, mem>>

\* Every instruction of RV32IM that a program comes to does on this core what
\* the architecture says, whatever the predictor has learned and whatever SYSTEM
\* instructions came before: no wrong-path instruction writes a register or the
\* memory, and no instruction of the path is lost or runs twice.
ImplementsIsa == Arch!Init /\ [][Arch!Step \/ SystemStep]_archVars

\* A mispredicted or unpredicted branch costs one cycle: the instruction
\* after a suppressed one is never itself suppressed.
OneBubble == [][Flush => ~Flush']_vars

\* Only a branch that takes effect trains the predictor, at its own entry:
\* an instruction of the wrong path teaches it nothing.
OnlyExecutedBranchesTrain ==
    [][\A s \in Slot : btb'[s] # btb[s] \/ pht'[s] # pht[s] =>
          /\ started /\ ~Flush
          /\ s = Index(ArchPc)
          /\ prog[ArchPc].op \in BranchOps]_vars

\* What the BTB holds is true of the program: a conditional branch or a jal,
\* at its own slot, with its own target; a jalr, whose target is a register,
\* has no entry; and only a jal counts as unconditional.
BtbTruthful ==
    \A s \in Slot :
        LET e == btb[s] IN
        e.valid => /\ Index(e.tag) = s
                   /\ prog[e.tag].op \in BranchOps \ {"JALR"}
                   /\ e.target = Plus(e.tag, prog[e.tag].imm)
                   /\ e.uncond => prog[e.tag].op = "JAL"

\* Programs whose jumps and branches always go the same way and do not share
\* predictor entries.
AlwaysTaken(i) == (i.op = "JAL" /\ BpUncond) \/ (i.op = "BEQ" /\ i.rs1 = i.rs2)
NeverTaken(i) == i.op \notin BranchOps \/ (i.op = "BNE" /\ i.rs1 = i.rs2)
Steady ==
    /\ \A a \in Word : AlwaysTaken(prog[a]) \/ NeverTaken(prog[a])
    /\ \A a, b \in Word :
          a # b /\ AlwaysTaken(prog[a]) /\ AlwaysTaken(prog[b]) => Index(a) # Index(b)

\* Such a program is learned: from some cycle on nothing is suppressed.
SteadyIsLearned == EnableBp /\ Steady => <>[]~Flush

\* In the pipeline that the factory builds no CSR instruction changes a CSR:
\* the stage link copies the CSR write before the CSR unit has set it.  Only
\* mcause moves, when bits 31..20 of an instruction look like a trap.
CsrsKeepReset == \A c \in CsrNames \ {"mcause"} : csr[c] = 0
=============================================================================
