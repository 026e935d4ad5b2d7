------------------------- MODULE CpuPipeline_proof --------------------------
(***************************************************************************)
(* Proofs about CpuPipeline, for every word size, register count, program, *)
(* ALU, division length and (for types) topology and thread count.         *)
(***************************************************************************)
EXTENDS CpuPipeline, TLAPS

-----------------------------------------------------------------------------
\* Words and instructions

\* Addition wraps to a word and never maps a pc to itself when stepping by one.
LEMMA PlusLemma ==
    /\ \A a, b \in Word : Plus(a, b) \in Word
    /\ 0 \in Word /\ 1 \in Word
    /\ \A a \in Word : Plus(a, 1) # a
<1>1. \A a, b \in Word : Plus(a, b) \in Word
  BY WordAssumption DEF Plus, Word
<1>2. 0 \in Word /\ 1 \in Word
  BY WordAssumption DEF Word
<1>3. ASSUME NEW a \in Word PROVE Plus(a, 1) # a
  <2>1. CASE a + 1 < WordCount
    BY <2>1, WordAssumption DEF Plus, Word
  <2>2. CASE a + 1 = WordCount
    BY <2>2, WordAssumption DEF Plus, Word
  <2> QED BY <2>1, <2>2, WordAssumption DEF Word
<1> QED BY <1>1, <1>2, <1>3

\* The instruction a node holds before anything was written to it.
LEMMA EmptyLemma == Empty \in Instruction /\ Empty.op = "UNKNOWN" /\ Empty.rd = 0
<1>1. (CHOOSE fn \in AluFn : TRUE) \in AluFn
  BY AluAssumption
<1>2. 0 \in Reg /\ 0 \in Word
  BY RegAssumption, WordAssumption DEF Reg, Word
<1> QED BY <1>1, <1>2 DEF Empty, NoIns, Instruction, Ops

-----------------------------------------------------------------------------
\* Types

\* What execute computes is well typed.
LEMMA ExecuteTypes ==
    ASSUME TypeInv
    PROVE  /\ ExecuteNode(decode) \in
                [pc : Word, ins : Instruction, rs1 : Word, rs2 : Word,
                 rd_data : Word, taken : BOOLEAN, target : Word]
           /\ FsmNext(decode) \in
                [state : FsmStates, op : MOps \cup {"NONE"}, rs1 : Word, rs2 : Word,
                 steps : 0 .. (DivSteps + 1), result : Word]
           /\ FsmNext(decode).state \in {"MULTIPLY", "DIVIDE"} => FsmNext(decode).op \in MOps
<1> DEFINE Unit == [state : FsmStates, op : MOps \cup {"NONE"}, rs1 : Word, rs2 : Word,
                    steps : 0 .. (DivSteps + 1), result : Word]
           HasOp(f) == f.state \in {"MULTIPLY", "DIVIDE"} => f.op \in MOps
<1> USE DEF TypeInv, TypeOK
<1>1. ASSUME NEW f \in Unit, HasOp(f)
      PROVE  Tick(f) \in Unit /\ HasOp(Tick(f))
  <2>1. f.op \in MOps => MulDiv(f.op, f.rs1, f.rs2) \in Word
    BY <1>1, MulDivAssumption
  <2>2. CASE f.state = "MULTIPLY"
    <3>1. CASE f.op = "MUL" \/ f.steps + 1 >= 2
      BY <1>1, <2>1, <2>2, <3>1 DEF Tick, Finish, FsmStates
    <3>2. CASE ~(f.op = "MUL" \/ f.steps + 1 >= 2)
      BY <1>1, <2>2, <3>2, UnitAssumption DEF Tick, FsmStates
    <3> QED BY <3>1, <3>2
  <2>3. CASE f.state = "DIVIDE"
    <3>1. CASE f.steps < DivSteps
      BY <1>1, <2>3, <3>1, UnitAssumption DEF Tick, FsmStates
    <3>2. CASE ~(f.steps < DivSteps)
      BY <1>1, <2>1, <2>3, <3>2 DEF Tick, Finish, FsmStates
    <3> QED BY <3>1, <3>2
  <2>4. CASE f.state \in {"WRITE_BACK", "IDLE"}
    BY <1>1, <2>4 DEF Tick, FsmStates
  <2>5. f.state \in FsmStates
    BY <1>1
  <2> HIDE DEF Unit, HasOp
  <2> QED BY <2>2, <2>3, <2>4, <2>5 DEF FsmStates
<1>2. fsm \in Unit /\ HasOp(fsm)
  BY DEF FsmBusy
<1>3. ASSUME decode.ins.op \in MOps
      PROVE  Capture(fsm, decode) \in Unit /\ HasOp(Capture(fsm, decode))
  <2>1. 0 \in 0 .. (DivSteps + 1) /\ decode.rs1 \in Word /\ decode.rs2 \in Word
    BY UnitAssumption
  <2>2. CASE decode.ins.op = "DIV"
    BY <1>2, <1>3, <2>1, <2>2 DEF Capture, FsmStates
  <2>3. CASE decode.ins.op # "DIV"
    BY <1>2, <1>3, <2>1, <2>3 DEF Capture, FsmStates
  <2> QED BY <2>2, <2>3
<1>4. FsmNext(decode) \in Unit /\ HasOp(FsmNext(decode))
  <2> HIDE DEF Unit, HasOp
  <2> QED BY <1>1, <1>2, <1>3 DEF FsmNext
<1>5. /\ decode.ins \in Instruction /\ decode.ins.imm \in Word /\ decode.ins.fn \in AluFn
      /\ decode.pc \in Word /\ decode.rs1 \in Word /\ decode.rs2 \in Word
  BY DEF Instruction
<1>6. IntAlu(decode) \in Word
  BY <1>5, PlusLemma, AluAssumption DEF IntAlu
<1>7. BranchTaken(decode) \in BOOLEAN
  BY DEF BranchTaken
<1>8. BranchTarget(decode) \in Word
  BY <1>5, PlusLemma DEF BranchTarget
<1>9. ExecuteNode(decode).rd_data \in Word
  BY <1>4, <1>5, <1>6, PlusLemma DEF ExecuteNode
<1> QED BY <1>4, <1>5, <1>7, <1>8, <1>9 DEF ExecuteNode

\* The initial state is well typed.
LEMMA InitTypes == Init => TypeInv
<1> SUFFICES ASSUME Init PROVE TypeInv
  OBVIOUS
<1>1. 0 \in Word /\ 0 \in Reg /\ 0 \in 0 .. (DivSteps + 1) /\ 0 \in 0 .. (NThreads - 1)
  BY PlusLemma, RegAssumption, UnitAssumption DEF Reg
<1>2. Empty \in Instruction
  BY EmptyLemma
<1>3. 1 \in 1 .. (Len(StageOrder) + 1)
  BY OrderAssumption
<1>4. prog \in [Word -> Instruction]
  BY ProgramsAssumption DEF Init
<1>5. fetch \in [pc : Word, ins : Instruction]
  BY <1>2 DEF Init
<1>6. decode \in [pc : Word, ins : Instruction, rs1 : Word, rs2 : Word]
  BY <1>1, <1>2 DEF Init
<1>7. execute \in [pc : Word, ins : Instruction, rs1 : Word, rs2 : Word,
                   rd_data : Word, taken : BOOLEAN, target : Word]
  BY <1>1, <1>2 DEF Init
<1>8. memory \in [pc : Word, ins : Instruction, rd_data : Word,
                  taken : BOOLEAN, target : Word]
  BY <1>1, <1>2 DEF Init
<1>9. fsm \in [state : FsmStates, op : MOps \cup {"NONE"}, rs1 : Word, rs2 : Word,
               steps : 0 .. (DivSteps + 1), result : Word] /\ ~FsmBusy
  BY <1>1 DEF Init, FsmStates, FsmBusy
<1> QED BY <1>1, <1>3, <1>4, <1>5, <1>6, <1>7, <1>8, <1>9 DEF Init, TypeInv, TypeOK

\* Every step keeps the types, whatever the topology and the thread count.
LEMMA NextTypes == TypeInv /\ [Next]_vars => TypeInv'
<1> SUFFICES ASSUME TypeInv, [Next]_vars PROVE TypeInv'
  OBVIOUS
<1> USE DEF TypeInv, TypeOK
<1>1. Len(StageOrder) \in Nat
  BY OrderAssumption
<1>2. step < Len(StageOrder) + 1 => step + 1 \in 1 .. (Len(StageOrder) + 1)
  BY <1>1
<1>3. CASE Fetch
  <2>1. prog[fetch.pc] \in Instruction
    OBVIOUS
  <2>2. fetch' \in [pc : Word, ins : Instruction]
    BY <1>3, <2>1 DEF Fetch
  <2> QED BY <1>1, <1>2, <1>3, <2>2 DEF Fetch, At, Advance, FsmBusy
<1>4. CASE Decode
  <2>1. \A r \in Reg : ReadReg(r) \in Word
    BY PlusLemma DEF ReadReg
  <2>2. fetch.ins.rs1 \in Reg /\ fetch.ins.rs2 \in Reg /\ fetch.ins.rd \in Reg
    BY DEF Instruction
  <2>3. decode' \in [pc : Word, ins : Instruction, rs1 : Word, rs2 : Word]
    BY <1>4, <2>1, <2>2 DEF Decode, DecodeNode
  <2>4. hazard' \in {"NONE", "RAW_RS1", "RAW_RS2", "WAW"}
    BY <1>4 DEF Decode, HazardKind
  <2>5. scoreboard' \subseteq Reg
    BY <1>4, <2>2 DEF Decode, MarkInFlight
  <2> QED BY <1>1, <1>2, <1>4, <2>3, <2>4, <2>5 DEF Decode, At, Advance, FsmBusy
<1>5. CASE Execute
  <2>1. execute' \in [pc : Word, ins : Instruction, rs1 : Word, rs2 : Word,
                      rd_data : Word, taken : BOOLEAN, target : Word]
    BY <1>5, ExecuteTypes DEF Execute
  <2>2. fsm' \in [state : FsmStates, op : MOps \cup {"NONE"}, rs1 : Word, rs2 : Word,
                  steps : 0 .. (DivSteps + 1), result : Word]
    BY <1>5, ExecuteTypes DEF Execute
  <2>3. (FsmBusy => fsm.op \in MOps)'
    BY <1>5, ExecuteTypes DEF Execute, FsmBusy
  <2> QED BY <1>1, <1>2, <1>5, <2>1, <2>2, <2>3 DEF Execute, At, Advance
<1>6. CASE Memory
  <2>1. Address(execute) \in Word
    BY PlusLemma DEF Address, Instruction
  <2>2. memory' \in [pc : Word, ins : Instruction, rd_data : Word,
                     taken : BOOLEAN, target : Word]
    BY <1>6, <2>1 DEF Memory
  <2>3. mem' \in [Word -> Word]
    BY <1>6, <2>1 DEF Memory
  <2> QED BY <1>1, <1>2, <1>6, <2>2, <2>3 DEF Memory, At, Advance, FsmBusy
<1>7. CASE Writeback
  <2>1. NextPc(memory) \in Word
    BY PlusLemma DEF NextPc
  <2>2. fetch' \in [pc : Word, ins : Instruction]
    BY <1>7, <2>1 DEF Writeback
  <2>3. regs' \in [Reg -> Word]
    BY <1>7 DEF Writeback
  <2>4. scoreboard' \subseteq Reg
    BY <1>7 DEF Writeback
  <2> QED BY <1>1, <1>2, <1>7, <2>2, <2>3, <2>4 DEF Writeback, At, Advance, FsmBusy
<1>8. CASE OtherStage
  BY <1>1, <1>2, <1>8 DEF OtherStage, Advance, FsmBusy
<1>9. CASE EndPass
  <2>1. (tid + 1) % NThreads \in 0 .. (NThreads - 1)
    BY UnitAssumption
  <2>2. 1 \in 1 .. (Len(StageOrder) + 1)
    BY <1>1
  <2> QED BY <1>9, <2>1, <2>2 DEF EndPass, FsmBusy
<1>10. CASE UNCHANGED vars
  BY <1>10 DEF vars, FsmBusy
<1> QED BY <1>3, <1>4, <1>5, <1>6, <1>7, <1>8, <1>9, <1>10 DEF Next

\* The pipeline's variables keep their types, for every topology, either
\* M-extension plugin and any number of hardware threads: payload nodes hold
\* words and instructions, and the multi-cycle unit's counter stays in range.
THEOREM Typing == Spec => []TypeOK
<1>1. TypeInv => TypeOK
  BY DEF TypeInv
<1> QED BY InitTypes, NextTypes, <1>1, PTL DEF Spec

-----------------------------------------------------------------------------
\* The schedule

\* In the named topologies a stage's turn is its position.
LEMMA Turns ==
    ASSUME Configured, TypeInv
    PROVE  /\ At("fetch") <=> step = 1
           /\ At("decode") <=> step = 2
           /\ At("execute") <=> step = 3
           /\ At("memory") <=> step = 4
           /\ At("writeback") <=> step = 5
           /\ step <= Len(StageOrder) /\ StageOrder[step] \notin Stages <=>
                step \in 6 .. Len(StageOrder)
<1>1. step \in 1 .. (Len(StageOrder) + 1) /\ Len(StageOrder) \in Nat
  BY OrderAssumption DEF TypeInv, TypeOK
<1>2. CASE step <= 5
  BY <1>1, <1>2 DEF Configured, InOrder, At, Stages
<1>3. CASE step > 5
  BY <1>1, <1>3 DEF Configured, InOrder, At, Stages
<1> QED BY <1>1, <1>2, <1>3

LEMMA PassedStages ==
    ASSUME Configured, NEW n \in 1 .. (Len(StageOrder) + 1)
    PROVE  /\ PassedBy("execute", n) <=> n >= 4
           /\ PassedBy("memory", n) <=> n >= 5
           /\ PassedBy("writeback", n) <=> n >= 6
<1>1. Len(StageOrder) \in Nat /\ Len(StageOrder) >= 5
  BY OrderAssumption DEF Configured, InOrder
<1>2. \A j \in 1 .. Len(StageOrder) :
        /\ StageOrder[j] = "execute" <=> j = 3
        /\ StageOrder[j] = "memory" <=> j = 4
        /\ StageOrder[j] = "writeback" <=> j = 5
  <2> SUFFICES ASSUME NEW j \in 1 .. Len(StageOrder)
               PROVE  /\ StageOrder[j] = "execute" <=> j = 3
                      /\ StageOrder[j] = "memory" <=> j = 4
                      /\ StageOrder[j] = "writeback" <=> j = 5
    OBVIOUS
  <2>1. CASE j <= 5
    BY <1>1, <2>1 DEF Configured, InOrder
  <2>2. CASE j > 5
    BY <1>1, <2>2 DEF Configured, InOrder, Stages
  <2> QED BY <1>1, <2>1, <2>2
<1>3. 3 \in 1 .. Len(StageOrder) /\ 4 \in 1 .. Len(StageOrder) /\ 5 \in 1 .. Len(StageOrder)
  BY <1>1
<1>4. PassedBy("execute", n) <=> 3 < n
  BY <1>1, <1>2, <1>3 DEF PassedBy
<1>5. PassedBy("memory", n) <=> 4 < n
  BY <1>1, <1>2, <1>3 DEF PassedBy
<1>6. PassedBy("writeback", n) <=> 5 < n
  BY <1>1, <1>2, <1>3 DEF PassedBy
<1> QED BY <1>1, <1>4, <1>5, <1>6

-----------------------------------------------------------------------------
\* The inductive invariant

LEMMA InitInv == ASSUME Configured, Init PROVE IInv
<1>1. TypeInv
  BY InitTypes
<1>2. prog \in Programs
  BY DEF Init
<1>3. 0 \in Reg /\ tid = 0
  BY RegAssumption DEF Init, Reg
<1>4. Quiet
  BY <1>3 DEF Init, Quiet
<1>5. ~FsmBusy /\ fsm.state = "IDLE" /\ step = 1
  BY DEF Init, FsmBusy
<1> QED BY <1>1, <1>2, <1>4, <1>5 DEF IInv, FrontEnd, BackEnd

LEMMA FetchInv == ASSUME Configured, IInv, Fetch PROVE Quiet' /\ FrontEnd' /\ BackEnd'
<1>1. step = 1 /\ step' = 2 /\ TypeOK
  BY Turns DEF IInv, Fetch, Advance, TypeInv
<1>2. UNCHANGED <<regs, scoreboard, hazard, tid, fsm, decode, prog>> /\ fetch'.pc = fetch.pc
  BY <1>1 DEF Fetch, Advance, TypeOK
<1>3. Quiet'
  BY <1>1, <1>2 DEF IInv, Quiet
<1>4. FsmBusy' = FsmBusy /\ UnitHolds' = UnitHolds
  BY <1>2 DEF FsmBusy, UnitHolds
<1>5. ~FsmBusy => fetch'.ins = prog[fetch.pc]
  BY <1>1 DEF Fetch, StallStage, IInv, Quiet, TypeOK
<1>6. FrontEnd'
  BY <1>1, <1>2, <1>4, <1>5 DEF IInv, FrontEnd, BeforeExecute, AfterWriteback
<1> QED BY <1>1, <1>3, <1>6 DEF BackEnd

LEMMA DecodeInv == ASSUME Configured, IInv, Decode PROVE Quiet' /\ FrontEnd' /\ BackEnd'
<1>1. step = 2 /\ step' = 3 /\ TypeOK
  BY Turns DEF IInv, Decode, Advance, TypeInv
<1>2. UNCHANGED <<regs, tid, fsm, fetch, prog>>
  BY DEF Decode, Advance
<1>3. FsmBusy' = FsmBusy /\ BeforeExecute /\ scoreboard = {} /\ tid = 0
  BY <1>1, <1>2 DEF FsmBusy, BeforeExecute, IInv, Quiet
<1>4. CASE FsmBusy
  <2>1. UNCHANGED <<decode, hazard, scoreboard>>
    BY <1>4 DEF Decode, StallStage
  <2> QED BY <1>1, <1>2, <1>3, <1>4, <2>1
          DEF IInv, Quiet, FrontEnd, BackEnd, BeforeExecute, AfterWriteback, UnitHolds
<1>5. CASE ~FsmBusy
  <2>1. /\ decode' = DecodeNode(fetch.ins)
        /\ hazard' = HazardKind(fetch.ins)
        /\ scoreboard' = MarkInFlight(fetch.ins)
    BY <1>5 DEF Decode, StallStage
  <2>2. HazardKind(fetch.ins) = "NONE"
    BY <1>3 DEF HazardKind, HasRaw
  <2>3. fetch.ins = prog[fetch.pc] /\ fetch.ins \in Instruction
    BY <1>1, <1>5 DEF IInv, FrontEnd, TypeOK
  <2>4. \A r \in Reg : ReadReg(r) = regs[r]
    BY <1>3 DEF ReadReg, IInv, Quiet
  <2>5. decode'.ins = fetch.ins /\ decode'.pc = fetch.pc
    BY <2>1 DEF DecodeNode
  <2>6. Fresh'
    BY <1>2, <2>1, <2>3, <2>4 DEF Fresh, DecodeNode, Instruction
  <2>7. Quiet'
    BY <1>1, <1>2, <1>3, <2>1, <2>2, <2>5 DEF IInv, Quiet, MarkInFlight
  <2>8. FrontEnd'
    BY <1>1, <1>2, <1>3, <1>5, <2>6 DEF IInv, FrontEnd, BeforeExecute, AfterWriteback
  <2> QED BY <1>1, <2>7, <2>8 DEF BackEnd
<1> QED BY <1>4, <1>5

\* A working unit keeps its operation and operands; when it finishes, its
\* result is their product or quotient.
LEMMA TickWorks ==
    ASSUME NEW f \in [state : FsmStates, op : MOps \cup {"NONE"}, rs1 : Word, rs2 : Word,
                      steps : 0 .. (DivSteps + 1), result : Word],
           f.state \in {"MULTIPLY", "DIVIDE"}
    PROVE  /\ Tick(f).op = f.op /\ Tick(f).rs1 = f.rs1 /\ Tick(f).rs2 = f.rs2
           /\ \/ Tick(f).state \in {"MULTIPLY", "DIVIDE"}
              \/ /\ Tick(f).state = "WRITE_BACK"
                 /\ Tick(f).result = MulDiv(f.op, f.rs1, f.rs2)
<1>1. CASE f.state = "MULTIPLY"
  <2>1. CASE f.op = "MUL" \/ f.steps + 1 >= 2
    BY <1>1, <2>1 DEF Tick, Finish
  <2>2. CASE ~(f.op = "MUL" \/ f.steps + 1 >= 2)
    BY <1>1, <2>2 DEF Tick
  <2> QED BY <2>1, <2>2
<1>2. CASE f.state = "DIVIDE"
  <2>1. CASE f.steps < DivSteps
    BY <1>2, <2>1 DEF Tick
  <2>2. CASE ~(f.steps < DivSteps)
    BY <1>2, <2>2 DEF Tick, Finish
  <2> QED BY <2>1, <2>2
<1> QED BY <1>1, <1>2

LEMMA CaptureWorks ==
    ASSUME TypeInv, decode.ins.op \in MOps
    PROVE  LET c == Capture(fsm, decode)
           IN  /\ c \in [state : FsmStates, op : MOps \cup {"NONE"}, rs1 : Word, rs2 : Word,
                         steps : 0 .. (DivSteps + 1), result : Word]
               /\ c.state \in {"MULTIPLY", "DIVIDE"}
               /\ c.op = decode.ins.op /\ c.rs1 = decode.rs1 /\ c.rs2 = decode.rs2
<1>1. 0 \in 0 .. (DivSteps + 1)
  BY UnitAssumption
<1>2. CASE decode.ins.op = "DIV"
  BY <1>1, <1>2 DEF Capture, TypeInv, TypeOK, FsmStates
<1>3. CASE decode.ins.op # "DIV"
  BY <1>1, <1>3 DEF Capture, TypeInv, TypeOK, FsmStates
<1> QED BY <1>2, <1>3

LEMMA ExecuteInv == ASSUME Configured, IInv, Execute PROVE Quiet' /\ FrontEnd' /\ BackEnd'
<1>1. step = 3 /\ step' = 4 /\ TypeInv /\ TypeOK
  BY Turns DEF IInv, Execute, Advance, TypeInv
<1>2. UNCHANGED <<regs, scoreboard, hazard, tid, fetch, decode, prog>>
  BY DEF Execute, Advance
<1>3. execute' = ExecuteNode(decode) /\ fsm' = FsmNext(decode)
  BY DEF Execute, StallStage, IInv, Quiet
<1>4. Quiet'
  BY <1>1, <1>2 DEF IInv, Quiet
<1>5. FrontEnd'
  BY <1>1 DEF FrontEnd, BeforeExecute, AfterWriteback
<1>6. /\ execute'.pc = decode.pc /\ execute'.ins = decode.ins
      /\ execute'.rs1 = decode.rs1 /\ execute'.rs2 = decode.rs2
      /\ execute'.taken = BranchTaken(decode) /\ execute'.target = BranchTarget(decode)
      /\ execute'.rd_data = IF decode.ins.op \in {"JAL", "JALR"} THEN Plus(decode.pc, 1)
                            ELSE IF fsm'.state = "WRITE_BACK" THEN fsm'.result
                            ELSE IntAlu(decode)
  BY <1>3 DEF ExecuteNode
<1>7. /\ BranchTaken(decode)' = BranchTaken(decode)
      /\ BranchTarget(decode)' = BranchTarget(decode)
      /\ IntAlu(decode)' = IntAlu(decode)
  BY <1>2 DEF BranchTaken, BranchTarget, IntAlu
<1>8. fsm.state \in FsmStates
  BY <1>1 DEF TypeOK
<1>9. CASE FsmBusy
  <2>1. UnitHolds
    BY <1>1, <1>9 DEF IInv, FrontEnd, BeforeExecute
  <2>2. fsm' = Tick(fsm)
    BY <1>3, <1>9 DEF FsmNext, FsmBusy, Configured
  <2>3. /\ fsm'.op = fsm.op /\ fsm'.rs1 = fsm.rs1 /\ fsm'.rs2 = fsm.rs2
        /\ \/ FsmBusy'
           \/ fsm'.state = "WRITE_BACK" /\ fsm'.result = MulDiv(fsm.op, fsm.rs1, fsm.rs2)
    BY <1>1, <1>9, <2>2, TickWorks DEF FsmBusy, TypeOK
  <2>4. Executed'
    BY <1>2, <1>6, <1>7, <2>1, <2>3 DEF Executed, UnitHolds, MOps, FsmBusy
  <2> QED BY <1>1, <1>2, <1>4, <1>5, <2>1, <2>4 DEF BackEnd, UnitHolds
<1>10. CASE ~FsmBusy
  <2>1. Fresh
    BY <1>1, <1>10 DEF IInv, FrontEnd
  <2>2. Fresh'
    BY <1>2, <2>1 DEF Fresh
  <2>3. ASSUME decode.ins.op \in MOps PROVE Executed'
    <3>1. fsm.state = "IDLE"
      BY <1>1, <1>8, <1>10, <2>1, <2>3
         DEF IInv, FrontEnd, BeforeExecute, FsmStates, FsmBusy, Fresh
    <3>2. fsm' = Tick(Capture(fsm, decode))
      BY <1>3, <2>3, <3>1 DEF FsmNext, Configured
    <3>3. /\ fsm'.op = decode.ins.op /\ fsm'.rs1 = decode.rs1 /\ fsm'.rs2 = decode.rs2
          /\ \/ FsmBusy'
             \/ /\ fsm'.state = "WRITE_BACK"
                /\ fsm'.result = MulDiv(decode.ins.op, decode.rs1, decode.rs2)
      BY <1>1, <2>3, <3>2, TickWorks, CaptureWorks DEF FsmBusy
    <3> QED BY <1>2, <1>6, <1>7, <2>1, <2>3, <3>3 DEF Executed, Fresh, MOps, FsmBusy
  <2>4. ASSUME decode.ins.op \notin MOps PROVE Executed'
    <3>1. fsm' = Tick(fsm)
      BY <1>3, <2>4 DEF FsmNext, Configured
    <3>2. fsm'.state = "IDLE"
      BY <1>1, <1>8, <1>10, <3>1 DEF FsmStates, FsmBusy, Tick, TypeOK
    <3> QED BY <1>2, <1>6, <1>7, <2>1, <2>4, <3>2 DEF Executed, Fresh
  <2>5. Executed'
    BY <2>3, <2>4
  <2> QED BY <1>1, <1>4, <1>5, <2>2, <2>5 DEF BackEnd
<1> QED BY <1>9, <1>10

LEMMA MemoryInv == ASSUME Configured, IInv, Memory PROVE Quiet' /\ FrontEnd' /\ BackEnd'
<1>1. step = 4 /\ step' = 5 /\ TypeOK
  BY Turns DEF IInv, Memory, Advance, TypeInv
<1>2. UNCHANGED <<regs, scoreboard, hazard, tid, fetch, decode, execute, fsm, prog>>
  BY DEF Memory, Advance
<1>3. Quiet'
  BY <1>1, <1>2 DEF IInv, Quiet
<1>4. FrontEnd'
  BY <1>1 DEF FrontEnd, BeforeExecute, AfterWriteback
<1>5. Executed'
  <2>1. Executed
    BY <1>1 DEF IInv, BackEnd
  <2>2. /\ BranchTaken(decode)' = BranchTaken(decode)
        /\ BranchTarget(decode)' = BranchTarget(decode)
        /\ IntAlu(decode)' = IntAlu(decode) /\ FsmBusy' = FsmBusy
    BY <1>2 DEF BranchTaken, BranchTarget, IntAlu, FsmBusy
  <2> QED BY <1>2, <2>1, <2>2 DEF Executed
<1>6. /\ memory'.pc = execute.pc /\ memory'.ins = execute.ins
      /\ memory'.taken = execute.taken /\ memory'.target = execute.target
      /\ execute.ins.op \in MOps => memory'.rd_data = execute.rd_data
  BY DEF Memory, MOps
<1> QED BY <1>1, <1>2, <1>3, <1>4, <1>5, <1>6 DEF BackEnd

LEMMA WritebackInv == ASSUME Configured, IInv, Writeback PROVE Quiet' /\ FrontEnd' /\ BackEnd'
<1>1. step = 5 /\ step' = 6 /\ TypeOK /\ prog \in Programs
  BY Turns DEF IInv, Writeback, Advance, TypeInv
<1>2. UNCHANGED <<decode, execute, memory, fsm, prog, hazard, tid>>
  BY DEF Writeback, Advance
<1>3. /\ Executed
      /\ memory.pc = decode.pc /\ memory.ins = decode.ins
      /\ memory.taken = BranchTaken(decode)
  BY <1>1 DEF IInv, BackEnd, Executed
<1>4. decode.ins \in Instruction /\ decode.pc \in Word /\ tid = 0 /\ hazard = "NONE"
  BY <1>1 DEF TypeOK, IInv, Quiet
<1>5. Quiet'
  <2>1. regs'[0] = 0
    BY <1>1 DEF Writeback, WritesRd, IInv, Quiet, TypeOK
  <2>2. scoreboard' = {}
    BY <1>1, <1>3, <1>4 DEF Writeback, IInv, Quiet
  <2> QED BY <1>1, <1>2, <1>4, <2>1, <2>2 DEF Quiet
<1>6. ASSUME decode.ins.op \in MOps
      PROVE  fetch'.pc = Plus(decode.pc, 1) /\ prog[fetch'.pc].op \notin MOps
  <2>1. ~memory.taken
    BY <1>3, <1>6 DEF BranchTaken, MOps
  <2>2. fetch'.pc = Plus(decode.pc, 1)
    BY <1>1, <1>3, <2>1 DEF Writeback, NextPc, TypeOK
  <2>3. Spaced(prog) /\ decode.ins = prog[decode.pc]
    BY <1>1, <1>3 DEF Configured, Executed
  <2> QED BY <1>4, <1>6, <2>2, <2>3 DEF Spaced
<1>7. FsmBusy \/ fsm.state = "WRITE_BACK" => decode.ins.op \in MOps
  BY <1>3 DEF Executed, FsmBusy
<1>8. FsmBusy' => UnitHolds'
  <2> SUFFICES ASSUME FsmBusy PROVE UnitHolds'
    BY <1>2 DEF FsmBusy
  <2> QED BY <1>2, <1>3, <1>6, <1>7 DEF UnitHolds, Executed
<1>9. FrontEnd'
  BY <1>1, <1>2, <1>6, <1>7, <1>8 DEF FrontEnd, BeforeExecute, AfterWriteback, FsmBusy
<1> QED BY <1>1, <1>5, <1>9 DEF BackEnd

\* The steps that only move on: stages without callbacks, the end of a pass.
LEMMA OtherInv ==
    ASSUME Configured, IInv, OtherStage \/ EndPass
    PROVE  Quiet' /\ FrontEnd' /\ BackEnd'
<1>1. step \in 6 .. (Len(StageOrder) + 1) /\ TypeOK /\ Len(StageOrder) \in Nat
  <2>1. Len(StageOrder) \in Nat /\ Len(StageOrder) >= 5 /\ step \in 1 .. (Len(StageOrder) + 1)
    BY OrderAssumption DEF Configured, InOrder, IInv, TypeInv, TypeOK
  <2> QED BY <2>1, Turns DEF IInv, OtherStage, EndPass, TypeInv
<1>2. /\ UNCHANGED <<prog, regs, mem, fetch, decode, execute, memory, scoreboard, fsm>>
      /\ step' >= 6 \/ step' = 1
      /\ tid' = 0 /\ hazard' = "NONE"
  BY <1>1 DEF OtherStage, EndPass, Advance, Configured, IInv, Quiet
<1>3. Quiet'
  BY <1>1, <1>2 DEF IInv, Quiet
<1>4. FsmBusy' = FsmBusy /\ UnitHolds' = UnitHolds
  BY <1>2 DEF FsmBusy, UnitHolds
<1>5. AfterWriteback
  BY <1>1 DEF AfterWriteback
<1>6. FrontEnd'
  BY <1>2, <1>4, <1>5 DEF IInv, FrontEnd
<1> QED BY <1>2, <1>3, <1>6 DEF BackEnd

LEMMA StutterInv == ASSUME IInv, UNCHANGED vars PROVE Quiet' /\ FrontEnd' /\ BackEnd'
<1>1. FsmBusy' = FsmBusy /\ UnitHolds' = UnitHolds /\ Fresh' = Fresh
  BY DEF vars, FsmBusy, UnitHolds, Fresh
<1>2. Executed' = Executed
  BY <1>1 DEF vars, Executed, BranchTaken, BranchTarget, IntAlu
<1>3. Quiet' /\ FrontEnd'
  BY <1>1 DEF vars, IInv, Quiet, FrontEnd, BeforeExecute, AfterWriteback
<1>4. BackEnd'
  BY <1>1, <1>2 DEF vars, IInv, BackEnd
<1> QED BY <1>3, <1>4

LEMMA NextInv == ASSUME Configured, IInv, [Next]_vars PROVE IInv'
<1>1. TypeInv'
  BY NextTypes DEF IInv
<1>2. (prog \in Programs)'
  BY DEF IInv, Next, vars, Fetch, Decode, Execute, Memory, Writeback, OtherStage, EndPass
<1>3. Quiet' /\ FrontEnd' /\ BackEnd'
  BY FetchInv, DecodeInv, ExecuteInv, MemoryInv, WritebackInv, OtherInv, StutterInv DEF Next
<1> QED BY <1>1, <1>2, <1>3 DEF IInv

LEMMA SpecInv == ASSUME Configured PROVE Spec => []IInv
<1>1. Init => IInv
  BY InitInv
<1>2. IInv /\ [Next]_vars => IInv'
  BY NextInv
<1> QED BY <1>1, <1>2, PTL DEF Spec

-----------------------------------------------------------------------------
\* The safety properties

\* The scoreboard is empty between runs and never stalls execute: the
\* deadlock told in hazard.h:210-216 is out of reach.
THEOREM NeverStalls == ASSUME Configured PROVE Spec => []NoStall
<1>1. IInv => NoStall
  BY DEF IInv, Quiet, NoStall
<1> QED BY SpecInv, <1>1, PTL

\* While the unit works, decode holds its operation and pc the next address.
THEOREM Frozen == ASSUME Configured PROVE Spec => []FrozenWhileBusy
<1>1. IInv => FrozenWhileBusy
  BY DEF IInv, FrontEnd, BeforeExecute, UnitHolds, FrozenWhileBusy
<1> QED BY SpecInv, <1>1, PTL

\* Between memory and writeback, and while a multi-cycle operation replays.
LEMMA View ==
    ASSUME Configured, TypeInv
    PROVE  /\ WritebackDue <=> step = 5
           /\ Replaying <=> \/ step <= 3 /\ FsmBusy
                            \/ step = 4 /\ fetch.pc # execute.pc
                            \/ step >= 5 /\ FsmBusy
<1>1. step \in 1 .. (Len(StageOrder) + 1) /\ Len(StageOrder) \in Nat
  BY OrderAssumption DEF TypeInv, TypeOK
<1>2. /\ Passed("execute") <=> step >= 4
      /\ Passed("memory") <=> step >= 5
      /\ Passed("writeback") <=> step >= 6
  BY <1>1, PassedStages DEF Passed
<1> QED BY <1>1, <1>2 DEF WritebackDue, Replaying, Configured

LEMMA ViewNext ==
    ASSUME Configured, TypeInv'
    PROVE  /\ WritebackDue' <=> step' = 5
           /\ Replaying' <=> \/ step' <= 3 /\ FsmBusy'
                             \/ step' = 4 /\ fetch'.pc # execute'.pc
                             \/ step' >= 5 /\ FsmBusy'
<1>1. step' \in 1 .. (Len(StageOrder) + 1) /\ Len(StageOrder) \in Nat
  BY OrderAssumption DEF TypeInv, TypeOK
<1>2. /\ Passed("execute")' <=> step' >= 4
      /\ Passed("memory")' <=> step' >= 5
      /\ Passed("writeback")' <=> step' >= 6
  BY <1>1, PassedStages DEF Passed, PassedBy
<1> QED BY <1>1, <1>2 DEF WritebackDue, Replaying, Configured

\* A finished M operation reaches writeback with its own result.
THEOREM MResult == ASSUME Configured PROVE Spec => []MOpResult
<1>1. ASSUME IInv PROVE MOpResult
  <2> SUFFICES ASSUME WritebackDue, memory.ins.op \in MOps, ~FsmBusy
               PROVE  memory.rd_data = MulDiv(memory.ins.op, execute.rs1, execute.rs2)
    BY DEF MOpResult
  <2>1. step = 5
    BY <1>1, View DEF IInv
  <2> QED BY <1>1, <2>1 DEF IInv, BackEnd, Executed
<1> QED BY SpecInv, <1>1, PTL

-----------------------------------------------------------------------------
\* The refinement of RiscvIsa

\* A fresh instruction leaves memory with the value the architecture defines.
LEMMA FreshValue ==
    ASSUME TypeOK, Fresh, Executed, Memory, ArchPc = fetch.pc, ArchRegs = regs,
           WritesRd(decode.ins), decode.ins.op \notin MOps
    PROVE  memory'.rd_data = Arch!Value(decode.ins, regs[decode.ins.rs1], regs[decode.ins.rs2])
<1> DEFINE i == decode.ins
           v == Arch!Value(i, regs[i.rs1], regs[i.rs2])
<1>1. /\ memory'.rd_data = IF i.op = "LW" THEN mem[Plus(decode.rs1, i.imm)]
                           ELSE execute.rd_data
      /\ execute.rd_data = IF i.op \in {"JAL", "JALR"} THEN Plus(decode.pc, 1)
                           ELSE IntAlu(decode)
  BY DEF Memory, Executed, Address
<1>2. decode.pc = fetch.pc /\ decode.rs1 = regs[i.rs1]
  BY DEF Fresh
<1>3. CASE i.op = "ALU"
  <2>1. IntAlu(decode) = Alu(i.fn, decode.rs1, decode.rs2) /\ decode.rs2 = regs[i.rs2]
    BY <1>3 DEF IntAlu, ReadsRs2, Fresh
  <2>2. v = Alu(i.fn, regs[i.rs1], regs[i.rs2])
    BY <1>3 DEF Arch!Value, Arch!MOps
  <2> QED BY <1>1, <1>2, <1>3, <2>1, <2>2
<1>4. CASE i.op = "ALUI"
  <2>1. IntAlu(decode) = Alu(i.fn, decode.rs1, i.imm)
    BY <1>4 DEF IntAlu, ReadsRs2, MOps
  <2>2. v = Alu(i.fn, regs[i.rs1], i.imm)
    BY <1>4 DEF Arch!Value, Arch!MOps
  <2> QED BY <1>1, <1>2, <1>4, <2>1, <2>2
<1>5. CASE i.op = "LUI"
  <2>1. IntAlu(decode) = i.imm /\ v = i.imm
    BY <1>5 DEF IntAlu, Arch!Value, Arch!MOps
  <2> QED BY <1>1, <1>5, <2>1
<1>6. CASE i.op = "AUIPC"
  <2>1. IntAlu(decode) = Plus(decode.pc, i.imm) /\ v = Plus(ArchPc, i.imm)
    BY <1>6 DEF IntAlu, Arch!Value, Arch!MOps, Arch!Plus, Plus
  <2> QED BY <1>1, <1>2, <1>6, <2>1
<1>7. CASE i.op \in {"JAL", "JALR"}
  <2>1. v = Plus(ArchPc, 1)
    BY <1>7 DEF Arch!Value, Arch!Plus, Plus, Arch!MOps
  <2> QED BY <1>1, <1>2, <1>7, <2>1
<1>8. CASE i.op = "LW"
  <2>1. v = mem[Plus(regs[i.rs1], i.imm)]
    BY <1>8 DEF Arch!Value, Arch!Plus, Plus, Arch!MOps
  <2> QED BY <1>1, <1>2, <1>8, <2>1
<1> QED BY <1>3, <1>4, <1>5, <1>6, <1>7, <1>8 DEF WritesRd

\* The memory stage makes a fresh instruction's whole effect visible at once.
LEMMA FreshStep ==
    ASSUME Configured, IInv, TypeInv', Memory, Fresh
    PROVE  Arch!Step
<1> DEFINE i == decode.ins
           a == regs[i.rs1]
           b == regs[i.rs2]
<1>1. step = 4 /\ step' = 5 /\ TypeInv /\ TypeOK
  BY Turns DEF IInv, Memory, Advance, TypeInv
<1>2. UNCHANGED <<prog, regs, fetch, decode, execute, fsm>>
  BY DEF Memory
<1>3. Executed
  BY <1>1 DEF IInv, BackEnd
<1>4. fetch.pc = execute.pc /\ FsmBusy' = FsmBusy
  BY <1>2, <1>3 DEF Executed, Fresh, FsmBusy
<1>5. ~WritebackDue /\ ~Replaying /\ WritebackDue' /\ (Replaying' <=> FsmBusy)
  BY <1>1, <1>4, View, ViewNext
<1>6. ArchPc = fetch.pc /\ ArchRegs = regs
  BY <1>5 DEF ArchPc, ArchRegs
<1>7. /\ Arch!Current = i /\ i \in Instruction
      /\ decode.rs1 = a /\ decode.pc = fetch.pc
      /\ ReadsRs2(i) => decode.rs2 = b
  BY <1>1, <1>6 DEF Fresh, Arch!Current, TypeOK
<1>8. FsmBusy \/ fsm.state = "WRITE_BACK" => i.op \in MOps
  BY <1>3 DEF Executed, FsmBusy
<1>9. ArchPc' = Arch!Successor(i, a, b)
  <2>1. ArchPc' = NextPc(memory')
    BY <1>5 DEF ArchPc, NextPc
  <2>2. memory'.taken = BranchTaken(decode) /\ memory'.target = BranchTarget(decode)
        /\ memory'.pc = decode.pc
    BY <1>3 DEF Memory, Executed
  <2>3. BranchTaken(decode) <=> Arch!Taken(i, a, b)
    BY <1>7 DEF BranchTaken, Arch!Taken, ReadsRs2
  <2>4. CASE ~BranchTaken(decode)
    BY <1>6, <1>7, <2>1, <2>2, <2>3, <2>4 DEF NextPc, Arch!Successor, Arch!Plus, Plus
  <2>5. CASE BranchTaken(decode)
    BY <1>6, <1>7, <2>1, <2>2, <2>3, <2>5
       DEF NextPc, BranchTarget, Arch!Successor, Arch!Plus, Plus
  <2> QED BY <2>4, <2>5
<1>10. Arch!WritesRd(i) <=> WritesRd(i)
  BY DEF Arch!WritesRd, WritesRd, Arch!MOps, MOps
<1>11. memory'.ins = i
  BY <1>3 DEF Memory, Executed
<1>12. ArchRegs' = IF WritesRd(i) THEN [regs EXCEPT ![i.rd] = Arch!Value(i, a, b)] ELSE regs
  <2>1. CASE i.op \in MOps
    <3>1. Arch!Value(i, a, b) = MulDiv(i.op, a, b)
      BY <2>1 DEF Arch!Value, Arch!MOps, MOps
    <3>2. ReadsRs2(i)
      BY <2>1 DEF ReadsRs2
    <3>3. MulDiv(fsm.op, fsm.rs1, fsm.rs2) = MulDiv(i.op, a, b)
      BY <1>3, <1>7, <2>1, <3>2 DEF Executed
    <3>4. FsmBusy \/ memory'.rd_data = MulDiv(fsm.op, fsm.rs1, fsm.rs2)
      BY <1>3, <2>1 DEF Executed, Memory, MOps
    <3> QED BY <1>2, <1>5, <1>11, <3>1, <3>3, <3>4 DEF ArchRegs
  <2>2. CASE i.op \notin MOps
    <3>1. ~FsmBusy
      BY <1>8, <2>2
    <3>2. WritesRd(i) => memory'.rd_data = Arch!Value(i, a, b)
      BY <1>1, <1>3, <1>6, <2>2, FreshValue
    <3> QED BY <1>2, <1>5, <1>11, <3>1, <3>2 DEF ArchRegs
  <2> QED BY <2>1, <2>2
<1>13. mem' = IF i.op = "SW" THEN [mem EXCEPT ![Arch!Plus(a, i.imm)] = b] ELSE mem
  BY <1>3, <1>7 DEF Memory, Executed, Address, Plus, Arch!Plus, ReadsRs2
<1> QED BY <1>2, <1>6, <1>7, <1>9, <1>10, <1>12, <1>13 DEF Arch!Step

\* While an operation replays, the memory stage changes nothing observable.
LEMMA ReplayStep ==
    ASSUME Configured, IInv, TypeInv', Memory, ~Fresh
    PROVE  UNCHANGED Arch!vars
<1>1. step = 4 /\ step' = 5 /\ TypeInv /\ TypeOK
  BY Turns DEF IInv, Memory, Advance, TypeInv
<1>2. UNCHANGED <<prog, regs, fetch, decode, execute, fsm>>
  BY DEF Memory
<1>3. Executed /\ decode.ins.op \in MOps /\ fetch.pc = Plus(decode.pc, 1)
  BY <1>1 DEF IInv, BackEnd
<1>4. fetch.pc # execute.pc /\ FsmBusy' = FsmBusy
  BY <1>1, <1>2, <1>3, PlusLemma DEF Executed, TypeOK, FsmBusy
<1>5. ~WritebackDue /\ Replaying /\ WritebackDue' /\ (Replaying' <=> FsmBusy)
  BY <1>1, <1>4, View, ViewNext
<1>6. memory'.ins = decode.ins /\ memory'.rd_data = execute.rd_data
      /\ memory'.pc = decode.pc /\ ~memory'.taken
  BY <1>3 DEF Memory, Executed, MOps, BranchTaken
<1>7. ArchPc' = ArchPc
  BY <1>3, <1>5, <1>6 DEF ArchPc, NextPc
<1>8. ArchRegs' = ArchRegs
  <2>1. FsmBusy \/ memory'.rd_data = MulDiv(fsm.op, fsm.rs1, fsm.rs2)
    BY <1>3, <1>6 DEF Executed
  <2> QED BY <1>2, <1>5, <1>6, <2>1 DEF ArchRegs
<1>9. mem' = mem
  BY <1>3 DEF Memory, Executed, MOps
<1> QED BY <1>2, <1>7, <1>8, <1>9 DEF Arch!vars

\* The stages before memory change nothing observable.
LEMMA EarlyStep ==
    ASSUME Configured, IInv, TypeInv', Fetch \/ Decode \/ Execute
    PROVE  UNCHANGED Arch!vars
<1>1. TypeInv /\ TypeOK
  BY DEF IInv, TypeInv
<1>2. UNCHANGED <<prog, regs, mem>> /\ fetch'.pc = fetch.pc
  BY <1>1 DEF Fetch, Decode, Execute, TypeOK
<1>3. CASE Fetch
  <2>1. step = 1 /\ step' = 2 /\ UNCHANGED <<decode, fsm>> /\ FsmBusy' = FsmBusy
    BY <1>1, <1>3, Turns DEF Fetch, Advance, FsmBusy
  <2> QED BY <1>1, <1>2, <2>1, View, ViewNext DEF ArchPc, ArchRegs, Arch!vars
<1>4. CASE Decode
  <2>1. step = 2 /\ step' = 3 /\ UNCHANGED fsm /\ FsmBusy' = FsmBusy
    BY <1>1, <1>4, Turns DEF Decode, Advance, FsmBusy
  <2>2. FsmBusy => UNCHANGED decode
    BY <1>4 DEF Decode, StallStage
  <2>3. ~WritebackDue /\ ~WritebackDue' /\ (Replaying <=> FsmBusy) /\ (Replaying' <=> FsmBusy)
    BY <1>1, <2>1, View, ViewNext
  <2>4. ArchPc' = ArchPc
    BY <1>2, <2>3 DEF ArchPc
  <2>5. ArchRegs' = ArchRegs
    BY <1>2, <2>1, <2>2, <2>3 DEF ArchRegs
  <2> QED BY <1>2, <2>4, <2>5 DEF Arch!vars
<1>5. CASE Execute
  <2>1. step = 3 /\ step' = 4 /\ UNCHANGED <<decode, fetch>>
    BY <1>1, <1>5, Turns DEF Execute, Advance
  <2>2. execute'.pc = decode.pc /\ fsm' = FsmNext(decode)
    BY <1>5 DEF Execute, ExecuteNode, StallStage, IInv, Quiet
  <2>3. ~WritebackDue /\ ~WritebackDue' /\ (Replaying <=> FsmBusy)
        /\ (Replaying' <=> fetch.pc # decode.pc)
    BY <1>1, <2>1, <2>2, View, ViewNext
  <2>4. CASE FsmBusy
    <3>1. UnitHolds
      BY <2>1, <2>4 DEF IInv, FrontEnd, BeforeExecute
    <3>2. fetch.pc # decode.pc
      BY <1>1, <3>1, PlusLemma DEF UnitHolds, TypeOK
    <3>3. fsm'.op = fsm.op /\ fsm'.rs1 = fsm.rs1 /\ fsm'.rs2 = fsm.rs2
      BY <1>1, <2>2, <2>4, TickWorks DEF FsmNext, FsmBusy, Configured, TypeOK
    <3> QED BY <1>2, <2>1, <2>3, <2>4, <3>2, <3>3 DEF ArchPc, ArchRegs, Arch!vars
  <2>5. CASE ~FsmBusy
    <3>1. fetch.pc = decode.pc
      BY <2>1, <2>5 DEF IInv, FrontEnd, Fresh
    <3> QED BY <1>2, <2>1, <2>3, <2>5, <3>1 DEF ArchPc, ArchRegs, Arch!vars
  <2> QED BY <2>4, <2>5
<1> QED BY <1>3, <1>4, <1>5

\* Writeback only makes visible in fetch and regs what memory promised.
LEMMA WritebackStep ==
    ASSUME Configured, IInv, TypeInv', Writeback
    PROVE  UNCHANGED Arch!vars
<1>1. step = 5 /\ step' = 6 /\ TypeInv /\ TypeOK
  BY Turns DEF IInv, Writeback, Advance, TypeInv
<1>2. UNCHANGED <<prog, mem, decode, execute, memory, fsm>> /\ FsmBusy' = FsmBusy
  BY DEF Writeback, FsmBusy
<1>3. memory.ins = decode.ins /\ tid = 0
  BY <1>1 DEF IInv, BackEnd, Executed, Quiet
<1>4. WritebackDue /\ ~WritebackDue' /\ (Replaying <=> FsmBusy) /\ (Replaying' <=> FsmBusy)
  BY <1>1, <1>2, View, ViewNext
<1>5. ArchPc' = ArchPc
  BY <1>1, <1>4 DEF ArchPc, Writeback, TypeOK
<1>6. regs' = IF WritesRd(decode.ins) THEN [regs EXCEPT ![decode.ins.rd] = memory.rd_data]
              ELSE regs
  BY <1>3 DEF Writeback
<1>7. decode.ins.rd \in Reg /\ regs \in [Reg -> Word]
  BY <1>1 DEF TypeOK, Instruction
<1>8. ArchRegs' = ArchRegs
  BY <1>2, <1>3, <1>4, <1>6, <1>7 DEF ArchRegs
<1> QED BY <1>2, <1>5, <1>8 DEF Arch!vars

LEMMA OtherStep ==
    ASSUME Configured, IInv, TypeInv', OtherStage \/ EndPass
    PROVE  UNCHANGED Arch!vars
<1>1. step \in 6 .. (Len(StageOrder) + 1) /\ TypeInv /\ Len(StageOrder) \in Nat
  <2>1. Len(StageOrder) \in Nat /\ Len(StageOrder) >= 5 /\ step \in 1 .. (Len(StageOrder) + 1)
    BY OrderAssumption DEF Configured, InOrder, IInv, TypeInv, TypeOK
  <2> QED BY <2>1, Turns DEF IInv, OtherStage, EndPass, TypeInv
<1>2. /\ UNCHANGED <<prog, regs, mem, fetch, decode, fsm>>
      /\ step' > 6 \/ step' = 1
  BY <1>1 DEF OtherStage, EndPass, Advance
<1>3. ~WritebackDue /\ ~WritebackDue' /\ (Replaying <=> FsmBusy) /\ (Replaying' <=> FsmBusy)
  <2>1. FsmBusy' = FsmBusy
    BY <1>2 DEF FsmBusy
  <2>2. ~WritebackDue /\ (Replaying <=> FsmBusy)
    BY <1>1, View
  <2>3. step' \in Nat /\ (step' > 6 \/ step' = 1)
    BY <1>1, <1>2 DEF OtherStage, EndPass, Advance
  <2>4. ~WritebackDue' /\ (Replaying' <=> FsmBusy)
    BY <2>1, <2>3, ViewNext
  <2> QED BY <2>2, <2>4
<1> QED BY <1>2, <1>3 DEF ArchPc, ArchRegs, Arch!vars

\* Nothing observable changes when nothing changes.
LEMMA StutterStep == ASSUME UNCHANGED vars PROVE UNCHANGED Arch!vars
<1>1. WritebackDue' = WritebackDue /\ Replaying' = Replaying
  BY DEF vars, WritebackDue, Replaying, Passed, PassedBy, FsmBusy
<1>2. ArchPc' = ArchPc
  BY <1>1 DEF vars, ArchPc, NextPc
<1>3. ArchRegs' = ArchRegs
  BY <1>1 DEF vars, ArchRegs
<1> QED BY <1>2, <1>3 DEF vars, Arch!vars

\* The pipeline executes programs one whole instruction at a time: with the
\* multi-cycle unit, one hardware thread, a 5-, 7- or 10-stage topology and
\* no adjacent M operations, every behaviour implements RiscvIsa under the
\* refinement mapping ArchPc, ArchRegs (mul_div_fsm.h:279-289, ibus.h:110-124).
THEOREM Refinement == ASSUME Configured PROVE Spec => ImplementsIsa
<1>1. Init => Arch!Init
  <2> SUFFICES ASSUME Init PROVE Arch!Init
    OBVIOUS
  <2>1. TypeInv /\ step = 1 /\ ~FsmBusy
    BY InitTypes DEF Init, FsmBusy
  <2>2. ArchPc = fetch.pc /\ ArchRegs = regs
    BY <2>1, View DEF ArchPc, ArchRegs
  <2> QED BY <2>2 DEF Init, Arch!Init, Arch!Word, Arch!Reg, Word, Reg
<1>2. IInv /\ [Next]_vars => [Arch!Step]_(Arch!vars)
  <2> SUFFICES ASSUME IInv, [Next]_vars PROVE [Arch!Step]_(Arch!vars)
    OBVIOUS
  <2>1. TypeInv'
    BY NextTypes DEF IInv
  <2>2. CASE Fetch \/ Decode \/ Execute
    BY <2>1, <2>2, EarlyStep
  <2>3. CASE Memory
    BY <2>1, <2>3, FreshStep, ReplayStep
  <2>4. CASE Writeback
    BY <2>1, <2>4, WritebackStep
  <2>5. CASE OtherStage \/ EndPass
    BY <2>1, <2>5, OtherStep
  <2>6. CASE UNCHANGED vars
    BY <2>6, StutterStep
  <2> QED BY <2>2, <2>3, <2>4, <2>5, <2>6 DEF Next
<1>3. Spec => []IInv
  BY SpecInv
<1> QED BY <1>1, <1>2, <1>3, PTL DEF Spec, ImplementsIsa, Arch!Spec
=============================================================================
