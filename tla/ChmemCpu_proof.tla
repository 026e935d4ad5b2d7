--------------------------- MODULE ChmemCpu_proof ---------------------------
(***************************************************************************)
(* Proofs about ChmemCpu, for every program, word size, register count,    *)
(* predictor size and setting.                                             *)
(***************************************************************************)
EXTENDS ChmemCpu, TLAPS

-----------------------------------------------------------------------------
\* The wires

LEMMA PlusType == 0 \in Word /\ 1 \in Word /\ \A a, b \in Word : Plus(a, b) \in Word
BY WordAssumption DEF Plus, Word

\* The instruction memory shows an instruction that does nothing at reset.
LEMMA ZeroType ==
    ZeroWord \in Instruction /\ ZeroWord.op = "UNKNOWN" /\ ZeroWord.rd = 0
<1>1. (CHOOSE fn \in AluFn : TRUE) \in AluFn
  BY AluAssumption
<1>2. 0 \in Reg /\ 0 \in Word
  BY RegAssumption, PlusType DEF Reg
<1> QED BY <1>1, <1>2 DEF ZeroWord, Instruction, Ops

\* The link's copy of the execute node carries the ALU's result or the return
\* address, and a CSR write that is not enabled.
LEMMA MemoryNodeIs ==
    /\ MemoryNode.data = IF instr.op \in {"JAL", "JALR"} THEN Plus(lag, 1) ELSE AluResult
    /\ MemoryNode.write.en = FALSE
<1> DEFINE N == LinkToMemory(ExecuteNode)
<1>1. N.exe.read = {} /\ OverrideWithCsr(N) = N
  BY DEF LinkToMemory, ExecuteNode, OverrideWithCsr
<1>2. MemoryNode = N.mem
  <2>1. CsrExecute(N).mem = N.mem
    BY DEF CsrExecute, LinkToMemory
  <2> QED BY <1>1, <2>1 DEF MemoryNode
<1>3. /\ N.mem.data = IF instr.op \in {"JAL", "JALR"} THEN Plus(lag, 1) ELSE AluResult
      /\ N.mem.write.en = FALSE
  BY DEF LinkToMemory, ExecuteNode, NoWrite
<1> QED BY <1>2, <1>3

\* What the wires carry is well typed.
LEMMA WireTypes ==
    ASSUME TypeOK
    PROVE  /\ Rs1 \in Word /\ Rs2 \in Word
           /\ AluResult \in Word /\ LoadedOr(MemoryNode.data) \in Word
           /\ Target \in Word /\ Speculated \in Word /\ NextPc \in Word
           /\ Predict(pc) \in [valid : BOOLEAN, taken : BOOLEAN, target : Word]
           /\ Flush \in BOOLEAN /\ Taken \in BOOLEAN
           /\ CaseA \in BOOLEAN /\ CaseC \in BOOLEAN
<1>1. /\ instr.op \in Ops /\ instr.fn \in AluFn /\ instr.rs1 \in Reg
      /\ instr.rs2 \in Reg /\ instr.imm \in Word /\ lag \in Word /\ pc \in Word
  BY DEF TypeOK, Instruction
<1>2. Rs1 \in Word /\ Rs2 \in Word
  BY <1>1 DEF TypeOK, Rs1, Rs2
<1>3. AluResult \in Word
  <2>1. \A fn \in AluFn : \A a, b \in Word : Alu(fn, a, b) \in Word
    BY AluAssumption
  <2>2. instr.op \in MOps => MulDiv(instr.op, Rs1, Rs2) \in Word
    BY <1>2, MulDivAssumption
  <2>3. Plus(lag, instr.imm) \in Word /\ Plus(Rs1, instr.imm) \in Word /\ 0 \in Word
    BY <1>1, <1>2, PlusType
  <2> QED BY <1>1, <1>2, <2>1, <2>2, <2>3 DEF AluResult
<1>4. LoadedOr(MemoryNode.data) \in Word
  <2>1. MemoryNode.data \in Word
    BY <1>1, <1>3, PlusType, MemoryNodeIs
  <2> QED BY <1>3, <2>1 DEF LoadedOr, TypeOK
<1>5. Target \in Word
  BY <1>1, <1>2, PlusType DEF Target
<1>6. Predict(pc) \in [valid : BOOLEAN, taken : BOOLEAN, target : Word]
  <2>1. Index(pc) \in Slot
    BY <1>1, PredictorAssumption, WordAssumption DEF Index, Slot, Word
  <2>2. btb[Index(pc)] \in [valid : BOOLEAN, tag : Word, target : Word, uncond : BOOLEAN]
    BY <2>1 DEF TypeOK
  <2> QED BY <2>2, PredictorAssumption, PlusType DEF Predict
<1>7. Speculated \in Word
  BY <1>1, <1>6, PlusType DEF Speculated
<1>8. NextPc \in Word
  BY <1>1, <1>5, <1>7, PlusType DEF NextPc
<1>9. /\ Flush \in BOOLEAN /\ Taken \in BOOLEAN /\ CaseA \in BOOLEAN /\ CaseC \in BOOLEAN
  BY DEF TypeOK, Flush, Taken, TakenRaw, CaseA, CaseC
<1> QED BY <1>2, <1>3, <1>4, <1>5, <1>6, <1>7, <1>8, <1>9

\* A clock edge sets the flush for the instruction after a taken branch that
\* was not predicted to its target, and after a branch wrongly predicted taken.
LEMMA NextFlush ==
    ASSUME TypeOK, Cycle
    PROVE  Flush' <=> (Taken /\ ~CaseC) \/ CaseA
BY WireTypes DEF Cycle, Flush

-----------------------------------------------------------------------------
\* Types

LEMMA TrainingTypes ==
    ASSUME TypeOK
    PROVE  /\ TrainedBtb \in [Slot -> [valid : BOOLEAN, tag : Word, target : Word,
                                       uncond : BOOLEAN]]
           /\ TrainedPht \in [Slot -> 0 .. 3]
<1>1. Index(lag) \in Slot
  BY PredictorAssumption, WordAssumption DEF TypeOK, Index, Slot, Word
<1>2. [valid |-> TRUE, tag |-> lag, target |-> Target, uncond |-> BpUncond /\ IsJal]
        \in [valid : BOOLEAN, tag : Word, target : Word, uncond : BOOLEAN]
  BY WireTypes, PredictorAssumption DEF TypeOK, IsJal
<1>3. \A count \in 0 .. 3 : \A up \in BOOLEAN : Saturated(count, up) \in 0 .. 3
  BY DEF Saturated
<1>4. Saturated(pht[Index(lag)], TakenRaw) \in 0 .. 3
  BY <1>1, <1>3 DEF TypeOK, TakenRaw
<1>5. /\ btb \in [Slot -> [valid : BOOLEAN, tag : Word, target : Word, uncond : BOOLEAN]]
      /\ pht \in [Slot -> 0 .. 3]
  BY DEF TypeOK
<1>6. TrainedBtb \in [Slot -> [valid : BOOLEAN, tag : Word, target : Word, uncond : BOOLEAN]]
  <2> DEFINE e == [valid |-> TRUE, tag |-> lag, target |-> Target, uncond |-> BpUncond /\ IsJal]
  <2>1. TrainedBtb = btb \/ TrainedBtb = [btb EXCEPT ![Index(lag)] = e]
    BY DEF TrainedBtb
  <2> HIDE DEF e
  <2> QED BY <1>2, <1>5, <2>1 DEF e
<1>7. TrainedPht \in [Slot -> 0 .. 3]
  BY <1>4, <1>5 DEF TrainedPht
<1> QED BY <1>6, <1>7

LEMMA InitTypes == Init => TypeOK
<1> SUFFICES ASSUME Init PROVE TypeOK
  OBVIOUS
<1>1. prog \in Programs /\ ZeroWord \in Instruction /\ 0 \in Word
  BY ZeroType, PlusType DEF Init
<1>2. NoEntry \in [valid : BOOLEAN, tag : Word, target : Word, uncond : BOOLEAN]
  BY <1>1 DEF NoEntry
<1>3. NoPrediction \in [valid : BOOLEAN, taken : BOOLEAN, target : Word]
  BY <1>1 DEF NoPrediction
<1>4. /\ regs \in [Reg -> Word] /\ mem \in [Word -> Word]
      /\ pht \in [Slot -> 0 .. 3] /\ csr \in [CsrNames -> Word \cup {3, 11}]
  BY <1>1 DEF Init
<1>5. btb \in [Slot -> [valid : BOOLEAN, tag : Word, target : Word, uncond : BOOLEAN]]
  <2> HIDE DEF NoEntry
  <2> QED BY <1>2 DEF Init
<1> QED BY <1>1, <1>3, <1>4, <1>5 DEF Init, TypeOK

LEMMA NextTypes == TypeOK /\ [Next]_vars => TypeOK'
<1> SUFFICES ASSUME TypeOK, [Next]_vars PROVE TypeOK'
  OBVIOUS
<1>1. CASE Cycle
  <2>1. prog' \in Programs /\ instr' \in Instruction
    <3>1. prog \in [Word -> Instruction]
      BY ProgramsAssumption DEF TypeOK
    <3> QED BY <1>1, <3>1 DEF Cycle, TypeOK
  <2>2. regs' \in [Reg -> Word]
    <3>1. LoadedOr(MemoryNode.data) \in Word
      BY WireTypes
    <3> QED BY <1>1, <3>1 DEF Cycle, WrittenRegs, TypeOK
  <2>3. mem' \in [Word -> Word]
    BY <1>1, WireTypes DEF Cycle, StoredMem, TypeOK
  <2>4. /\ pc' \in Word /\ lag' \in Word /\ started' \in BOOLEAN
        /\ brTaken' \in BOOLEAN /\ specOk' \in BOOLEAN /\ missA' \in BOOLEAN
        /\ rec' \in [valid : BOOLEAN, taken : BOOLEAN, target : Word]
    BY <1>1, WireTypes DEF Cycle, TypeOK
  <2>5. /\ btb' \in [Slot -> [valid : BOOLEAN, tag : Word, target : Word, uncond : BOOLEAN]]
        /\ pht' \in [Slot -> 0 .. 3]
    BY <1>1, TrainingTypes DEF Cycle
  <2>6. csr' \in [CsrNames -> Word \cup {3, 11}]
    <3>1. MemoryNode.write.en = FALSE
      BY MemoryNodeIs
    <3> QED BY <1>1, <3>1 DEF Cycle, WrittenCsr, TypeOK
  <2>7. mcycle' \in Word
    BY <1>1, PlusType DEF Cycle, TypeOK
  <2> QED BY <2>1, <2>2, <2>3, <2>4, <2>5, <2>6, <2>7 DEF TypeOK
<1>2. CASE UNCHANGED vars
  BY <1>2 DEF vars, TypeOK
<1> QED BY <1>1, <1>2 DEF Next

\* Every register and wire keeps its width, for every predictor.
THEOREM Typing == Spec => []TypeOK
BY InitTypes, NextTypes, PTL DEF Spec

\* After a suppressed instruction the next one is not: the cost of a branch is
\* one cycle (ibus_chmem.h:188-200, 333-334).
THEOREM Bubble == Spec => OneBubble
<1>1. TypeOK /\ [Next]_vars => [Flush => ~Flush']_vars
  <2> SUFFICES ASSUME TypeOK, Cycle, Flush PROVE ~Flush'
    BY DEF Next
  <2> QED BY NextFlush DEF Taken, CaseA
<1> QED BY <1>1, Typing, PTL DEF Spec, OneBubble

\* In the pipeline the factory builds no CSR but mcause ever changes
\* (cpu_factory_chmem.h:427-444 before csr_chmem.h:133-293).
THEOREM CsrReset == Spec => []CsrsKeepReset
<1>1. Init => CsrsKeepReset
  BY DEF Init, CsrsKeepReset
<1>2. TypeOK /\ CsrsKeepReset /\ [Next]_vars => CsrsKeepReset'
  <2> SUFFICES ASSUME TypeOK, CsrsKeepReset, Cycle,
                      NEW c \in CsrNames \ {"mcause"}
               PROVE  csr'[c] = 0
    BY DEF Next, vars, CsrsKeepReset
  <2>1. csr'[c] = csr[c]
    BY MemoryNodeIs DEF Cycle, WrittenCsr
  <2> QED BY <2>1 DEF CsrsKeepReset
<1> QED BY <1>1, <1>2, Typing, PTL DEF Spec

-----------------------------------------------------------------------------
\* The inductive invariant

\* Before the first clock nothing is under way.
Reset == ~started => instr = ZeroWord /\ ~Flush /\ ~rec.valid

\* The instruction being executed is the one at lag.
Fetched == started => instr = prog[lag]

\* Unless the instruction at lag is a bubble, the address fetched now is the
\* one that was predicted to follow it.
Followed ==
    started /\ ~Flush =>
        pc = IF rec.valid /\ rec.taken THEN rec.target ELSE Plus(lag, 1)

IInv == TypeOK /\ Reset /\ Fetched /\ Followed

LEMMA InitInv == Init => IInv
<1> SUFFICES ASSUME Init PROVE IInv
  OBVIOUS
<1>1. ~started /\ Reset
  BY DEF Init, Reset, Flush, NoPrediction
<1> QED BY <1>1, InitTypes DEF IInv, Fetched, Followed

LEMMA NextInv == IInv /\ [Next]_vars => IInv'
<1> SUFFICES ASSUME IInv, [Next]_vars PROVE IInv'
  OBVIOUS
<1>1. TypeOK /\ TypeOK'
  BY NextTypes DEF IInv
<1>2. CASE Cycle
  <2>1. started' /\ instr' = prog'[lag']
    BY <1>2 DEF Cycle
  <2>2. ASSUME ~Flush'
        PROVE  pc' = IF rec'.valid /\ rec'.taken THEN rec'.target ELSE Plus(lag', 1)
    <3>1. ~CaseA /\ (Taken => CaseC)
      BY <1>1, <1>2, <2>2, NextFlush
    <3>2. ~CaseB
      BY <3>1 DEF CaseB, CaseC
    <3>3. NextPc = Speculated
      BY <3>1, <3>2 DEF NextPc
    <3> QED BY <1>2, <3>3 DEF Cycle, Speculated
  <2> QED BY <1>1, <2>1, <2>2 DEF IInv, Reset, Fetched, Followed
<1>3. CASE UNCHANGED vars
  <2>1. Flush' = Flush
    BY <1>3 DEF vars, Flush
  <2> QED BY <1>1, <1>3, <2>1 DEF vars, IInv, Reset, Fetched, Followed
<1> QED BY <1>2, <1>3 DEF Next

LEMMA SpecInv == Spec => []IInv
BY InitInv, NextInv, PTL DEF Spec

\* What the reset word does: nothing.
LEMMA ResetIdle ==
    ASSUME IInv, ~started
    PROVE  /\ ~Flush /\ ~Taken /\ ~CaseA /\ ~IsBranch /\ ~IsJal
           /\ ~WritesBack(instr) /\ instr.op # "SW"
<1>1. instr = ZeroWord /\ ~Flush /\ ~rec.valid
  BY DEF IInv, Reset
<1>2. instr.op = "UNKNOWN" /\ instr.rd = 0
  BY <1>1, ZeroType
<1> QED BY <1>1, <1>2 DEF Taken, TakenRaw, CaseA, IsBranch, IsJal, WritesBack, WritesRd

-----------------------------------------------------------------------------
\* Training

\* What the BTB holds is true of the program, whatever was fetched on wrong
\* paths meanwhile (branch_predictor_chmem.h:393-447).
THEOREM Truthful == Spec => []BtbTruthful
<1>1. Init => BtbTruthful
  BY DEF Init, BtbTruthful, NoEntry
<1>2. IInv /\ BtbTruthful /\ [Next]_vars => BtbTruthful'
  <2> SUFFICES ASSUME IInv, BtbTruthful, Cycle PROVE BtbTruthful'
    BY DEF Next, vars, BtbTruthful
  <2>1. TypeOK /\ prog' = prog /\ btb' = TrainedBtb
    BY DEF IInv, Cycle
  <2>2. CASE EnableBp /\ Taken /\ ~Flush /\ (IsBranch \/ (BpUncond /\ IsJal))
    <3> DEFINE e == [valid |-> TRUE, tag |-> lag, target |-> Target,
                     uncond |-> BpUncond /\ IsJal]
    <3>1. started /\ instr = prog[lag]
      BY <2>2, ResetIdle DEF IInv, Fetched
    <3>2. instr.op \in BranchOps \ {"JALR"} /\ (e.uncond => instr.op = "JAL")
      BY <2>2 DEF IsBranch, IsJal, BranchOps
    <3>3. Target = Plus(lag, instr.imm)
      BY <3>2 DEF Target
    <3>4. TrainedBtb = [btb EXCEPT ![Index(lag)] = e]
      BY <2>2 DEF TrainedBtb
    <3>5. \A s \in Slot : btb'[s] = btb[s] \/ (s = Index(lag) /\ btb'[s] = e)
      BY <2>1, <3>4 DEF TypeOK
    <3> HIDE DEF e
    <3>6. /\ e.tag = lag /\ e.target = Target
      BY DEF e
    <3> QED BY <2>1, <3>1, <3>2, <3>3, <3>5, <3>6 DEF BtbTruthful, Index
  <2>3. CASE ~(EnableBp /\ Taken /\ ~Flush /\ (IsBranch \/ (BpUncond /\ IsJal)))
    BY <2>1, <2>3 DEF TrainedBtb, BtbTruthful, Index
  <2> QED BY <2>2, <2>3
<1> QED BY <1>1, <1>2, SpecInv, PTL DEF Spec

\* An instruction of the wrong path teaches the predictor nothing
\* (branch_predictor_chmem.h:412-413, 489-491).
THEOREM Training == Spec => OnlyExecutedBranchesTrain
<1> DEFINE Trains == \A s \in Slot : btb'[s] # btb[s] \/ pht'[s] # pht[s] =>
                         /\ started /\ ~Flush
                         /\ s = Index(ArchPc)
                         /\ prog[ArchPc].op \in BranchOps
<1>1. IInv /\ [Next]_vars => [Trains]_vars
  <2> SUFFICES ASSUME IInv, Cycle, NEW s \in Slot, btb'[s] # btb[s] \/ pht'[s] # pht[s]
               PROVE  /\ started /\ ~Flush
                      /\ s = Index(ArchPc)
                      /\ prog[ArchPc].op \in BranchOps
    BY DEF Next
  <2>1. TypeOK /\ btb' = TrainedBtb /\ pht' = TrainedPht
    BY DEF IInv, Cycle
  <2>2. ~Flush /\ (IsBranch \/ IsJal) /\ s = Index(lag)
    BY <2>1 DEF TypeOK, TrainedBtb, TrainedPht
  <2>3. started /\ instr = prog[lag]
    BY <2>2, ResetIdle DEF IInv, Fetched
  <2> QED BY <2>2, <2>3 DEF ArchPc, IsBranch, IsJal, BranchOps
<1> QED BY <1>1, SpecInv, PTL DEF Spec, OnlyExecutedBranchesTrain

-----------------------------------------------------------------------------
\* Refinement

\* A bubble changes nothing that the program sees.
LEMMA BubbleStep ==
    ASSUME IInv, Cycle, Flush \/ ~started
    PROVE  UNCHANGED archVars
<1>1. TypeOK /\ prog' = prog
  BY DEF IInv, Cycle
<1>2. ~Taken /\ ~CaseA
  BY ResetIdle DEF Taken, CaseA
<1>3. ~Flush' /\ started'
  BY <1>1, <1>2, NextFlush DEF Cycle
<1>4. ArchPc' = ArchPc
  BY <1>3 DEF ArchPc, Cycle
<1>5. regs' = regs /\ mem' = mem
  BY ResetIdle DEF Cycle, WrittenRegs, StoredMem
<1> QED BY <1>1, <1>4, <1>5 DEF archVars

\* The instruction in the execute slot takes effect as a whole.
LEMMA ExecuteStep ==
    ASSUME IInv, Cycle, ~Flush, started, ~IsSystem(prog[ArchPc])
    PROVE  Arch!Step
<1>1. TypeOK /\ prog' = prog /\ ArchPc = lag /\ instr = prog[lag] /\ started'
  BY DEF IInv, Cycle, ArchPc, Fetched
<1>2. Arch!Current = instr /\ Rs1 = regs[instr.rs1] /\ Rs2 = regs[instr.rs2]
  BY <1>1 DEF Arch!Current, Rs1, Rs2
<1>3. Taken <=> Arch!Taken(instr, Rs1, Rs2)
  BY DEF Taken, TakenRaw, Arch!Taken
<1>4. ArchPc' = Arch!Successor(instr, Rs1, Rs2)
  <2>1. Arch!Successor(instr, Rs1, Rs2) = IF Taken THEN Target ELSE Plus(lag, 1)
    BY <1>1, <1>3 DEF Arch!Successor, Target, Arch!Plus, Plus
  <2>2. ArchPc' = IF Flush' THEN NextPc ELSE pc
    BY <1>1 DEF ArchPc, Cycle
  <2>3. pc = IF rec.valid /\ rec.taken THEN rec.target ELSE Plus(lag, 1)
    BY DEF IInv, Followed
  <2>4. CASE Taken
    <3>1. CASE CaseC
      BY <1>1, <2>1, <2>2, <2>3, <2>4, <3>1, NextFlush DEF CaseA, CaseC
    <3>2. CASE ~CaseC
      <4>1. Flush' /\ NextPc = Target
        BY <1>1, <2>4, <3>2, NextFlush DEF CaseA, NextPc
      <4> QED BY <2>1, <2>2, <2>4, <4>1
    <3> QED BY <3>1, <3>2
  <2>5. CASE ~Taken
    <3>1. CASE CaseA
      <4>1. Flush' /\ NextPc = Plus(lag, 1)
        BY <1>1, <3>1, NextFlush DEF NextPc
      <4> QED BY <2>1, <2>2, <2>5, <4>1
    <3>2. CASE ~CaseA
      <4>1. ~Flush' /\ ~(rec.valid /\ rec.taken)
        BY <1>1, <2>5, <3>2, NextFlush DEF CaseA
      <4> QED BY <2>1, <2>2, <2>3, <2>5, <4>1
    <3> QED BY <3>1, <3>2
  <2> QED BY <2>4, <2>5
<1>5. regs' = IF Arch!WritesRd(instr)
              THEN [regs EXCEPT ![instr.rd] = Arch!Value(instr, Rs1, Rs2)] ELSE regs
  <2>1. WritesBack(instr) <=> Arch!WritesRd(instr)
    <3>1. Zicsr(instr) = "NONE"
      BY <1>1 DEF IsSystem
    <3> QED BY <3>1 DEF WritesBack, WritesRd, Arch!WritesRd, MOps, Arch!MOps
  <2>2. ASSUME WritesRd(instr)
        PROVE  LoadedOr(MemoryNode.data) = Arch!Value(instr, Rs1, Rs2)
    <3> DEFINE d == IF instr.op \in {"JAL", "JALR"} THEN Plus(lag, 1) ELSE AluResult
    <3>1. LoadedOr(MemoryNode.data) = IF instr.op = "LW" THEN mem[AluResult] ELSE d
      BY MemoryNodeIs DEF LoadedOr
    <3>2. instr.op \in {"ALU", "ALUI", "LUI", "AUIPC", "LW", "JAL", "JALR"} \cup MOps
      BY <2>2 DEF WritesRd
    <3>3. CASE instr.op \in {"ALU", "ALUI", "LUI", "AUIPC"}
      BY <1>1, <3>1, <3>3 DEF AluResult, Arch!Value, Arch!Plus, Plus, MOps, Arch!MOps
    <3>4. CASE instr.op \in MOps
      BY <1>1, <3>1, <3>4 DEF AluResult, Arch!Value, MOps, Arch!MOps
    <3>5. CASE instr.op \in {"JAL", "JALR"}
      BY <1>1, <3>1, <3>5 DEF Arch!Value, Arch!Plus, Plus, MOps, Arch!MOps
    <3>6. CASE instr.op = "LW"
      BY <1>1, <3>1, <3>6 DEF AluResult, Arch!Value, Arch!Plus, Plus, MOps, Arch!MOps
    <3> QED BY <3>2, <3>3, <3>4, <3>5, <3>6
  <2>3. WritesRd(instr) <=> Arch!WritesRd(instr)
    BY DEF WritesRd, Arch!WritesRd, MOps, Arch!MOps
  <2>4. regs' = IF WritesBack(instr)
                THEN [regs EXCEPT ![instr.rd] = LoadedOr(MemoryNode.data)] ELSE regs
    BY DEF Cycle, WrittenRegs
  <2> QED BY <2>1, <2>2, <2>3, <2>4
<1>6. mem' = IF instr.op = "SW"
             THEN [mem EXCEPT ![Arch!Plus(Rs1, instr.imm)] = Rs2] ELSE mem
  <2>1. CASE instr.op = "SW"
    <3>1. AluResult = Arch!Plus(Rs1, instr.imm)
      BY <2>1 DEF AluResult, Arch!Plus, Plus, MOps
    <3> QED BY <2>1, <3>1 DEF Cycle, StoredMem
  <2>2. CASE instr.op # "SW"
    BY <2>2 DEF Cycle, StoredMem
  <2> QED BY <2>1, <2>2
<1> QED BY <1>1, <1>2, <1>4, <1>5, <1>6 DEF Arch!Step

\* A SYSTEM instruction in the execute slot stores nothing and writes its own rd
\* at most.
LEMMA SystemExecutes ==
    ASSUME IInv, Cycle, ~Flush, started, IsSystem(prog[ArchPc])
    PROVE  SystemStep
<1>1. TypeOK /\ prog' = prog /\ ArchPc = lag /\ instr = prog[lag]
  BY DEF IInv, Cycle, ArchPc, Fetched
<1>2. instr.op = "UNKNOWN"
  BY <1>1, SystemAssumption DEF IsSystem, TypeOK
<1>3. mem' = mem
  BY <1>2 DEF Cycle, StoredMem
<1>4. \A r \in Reg \ {instr.rd} : regs'[r] = regs[r]
  BY <1>1 DEF Cycle, WrittenRegs, TypeOK
<1> QED BY <1>1, <1>3, <1>4 DEF SystemStep

\* The CH_MEM core implements RiscvIsa under the refinement mapping ArchPc,
\* whatever the predictor has learned (ibus_chmem.h:188-407, branch_chmem.h),
\* in every instruction that is not a SYSTEM instruction.
THEOREM Refinement == Spec => ImplementsIsa
<1>1. Init => Arch!Init
  <2> SUFFICES ASSUME Init PROVE Arch!Init
    OBVIOUS
  <2>1. ArchPc = pc
    BY DEF Init, ArchPc
  <2> QED BY <2>1 DEF Init, Arch!Init, Arch!Word, Arch!Reg, Word, Reg
<1>2. IInv /\ [Next]_vars => [Arch!Step \/ SystemStep]_archVars
  <2> SUFFICES ASSUME IInv, [Next]_vars PROVE [Arch!Step \/ SystemStep]_archVars
    OBVIOUS
  <2>1. CASE Cycle
    BY <2>1, BubbleStep, ExecuteStep, SystemExecutes
  <2>2. CASE UNCHANGED vars
    BY <2>2 DEF vars, ArchPc, Flush, archVars
  <2> QED BY <2>1, <2>2 DEF Next
<1> QED BY <1>1, <1>2, SpecInv, PTL DEF Spec, ImplementsIsa
=============================================================================
