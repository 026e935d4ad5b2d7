------------------------------ MODULE OpenCore ------------------------------
(***************************************************************************)
(* The CH_MEM open core cycle by cycle: IBusPortPlugin, DMemPortPlugin and *)
(* RegFileBridgePlugin with the register file it holds, connected to       *)
(* VerifyMemModelPlugin, the memory outside.  An access leaves the core    *)
(* one cycle after its instruction was published, and the memory, not the  *)
(* core, merges a narrow store into the word.                              *)
(*                                                                         *)
(* Beside it, fed with the same instructions, the data memory of the       *)
(* closed core, DMemPlugin, which stores in the same cycle and merges by   *)
(* itself.  What is not in src/ and is left to the assembly: the wires     *)
(* from the instruction to the register file's ports, and the branch       *)
(* stage, which masks its decision with FLUSH as branch_iface_chmem.h      *)
(* asks.  Instruction memory is the program: programs store only to data.  *)
(***************************************************************************)
EXTENDS OpenCoreProgram

CONSTANT CountBound    \* mem_sig_updates counts modulo this; 2^32 in the code

ASSUME CountAssumption == CountBound \in Nat \ {0, 1}

VARIABLES
    prog,      \* what the memory answers to a fetch
    pc,        \* open_pc_reg
    pcLag,     \* open_pc_lag: the address of the published instruction
    instr,     \* open_instr: the published instruction
    flush,     \* open_flush_reg
    regs,      \* open_reg_0 .. open_reg_31
    req,       \* open_dmem_addr, _data, _size, _we, _off and _signed
    mem,       \* verify_mem
    sig,       \* open_mem_sig_updates, and what was last folded into open_mem_sig
    preMem,    \* dmem, the closed core's memory
    preSig,    \* mem_sig_updates and the last fold of mem_sig
    last       \* the instruction whose request is on the port (no code: history)

coreVars == <<pc, pcLag, instr, flush, regs, req>>
vars == <<prog, coreVars, mem, sig, preMem, preSig, last>>

Memory == [0 .. Words - 1 -> Word]
WordAddr(addr) == (addr \div 4) % Words

NoRequest == [addr |-> 0, off |-> 0, data |-> ZeroData, size |-> 0, we |-> FALSE,
              signed |-> FALSE]
NoSig == [updates |-> 0, word |-> 0, data |-> ZeroData]

Init ==
    /\ prog \in Programs
    /\ pc = 0
    /\ pcLag = 0
    /\ instr = ZeroInstr
    /\ flush = FALSE
    /\ regs = [r \in Regs |-> ZeroData]
    /\ req = NoRequest
    /\ mem = [w \in 0 .. Words - 1 |-> ZeroData]
    /\ sig = NoSig
    /\ preMem = mem
    /\ preSig = NoSig
    /\ last = ZeroInstr

-----------------------------------------------------------------------------
\* IBusPortPlugin, and the branch stage outside it

Taken == instr.op = "bne" /\ regs[instr.rs2] # ZeroData /\ ~flush

Fetch ==
    /\ instr' = prog[pc]
    /\ pcLag' = pc

UpdatePc ==
    /\ pc' = IF Taken THEN instr.target ELSE Succ(pc)
    /\ flush' = Taken

-----------------------------------------------------------------------------
\* RegFileBridgePlugin and RegFileComponent

RdWe == instr.op = "li"
WeMasked == RdWe /\ ~flush

WriteRegs ==
    regs' = [r \in Regs |-> IF WeMasked /\ r = instr.rd /\ r # 0 THEN instr.imm ELSE regs[r]]

-----------------------------------------------------------------------------
\* DMemPortPlugin

\* An instruction that accesses no memory has size 4.
AccessSize == IF instr.op \in {"load", "store"} THEN instr.size ELSE 4

\* A defect: a store in a branch's shadow is sent as any other.
RequestUnmasked ==
    [addr |-> instr.addr, off |-> instr.addr % 4, data |-> regs[instr.rs2],
     size |-> AccessSize, we |-> instr.op = "store",
     signed |-> instr.op = "load" /\ instr.signed /\ instr.size # 4]

Request ==
    [addr |-> instr.addr, off |-> instr.addr % 4, data |-> regs[instr.rs2],
     size |-> AccessSize, we |-> instr.op = "store" /\ ~flush,
     signed |-> instr.op = "load" /\ instr.signed /\ instr.size # 4]

\* Lane of an access in its word: a half word is told by off = 2.
PortLane(r) == CASE r.size = 1 -> r.off
                 [] r.size = 2 -> IF r.off = 2 THEN 2 ELSE 0
                 [] OTHER      -> 0

Extracted(word, lane, size, signed) ==
    [n \in Lane |-> IF n < size THEN word[lane + n]
                    ELSE IF signed THEN word[lane + size - 1] ELSE 0]

\* The defect dmem_port_chmem.h:371-376 tells of: the flag never reaches the
\* register and a byte is always zero-extended.
PortLoadUnsigned ==
    Extracted(mem[WordAddr(req.addr)], PortLane(req), req.size, FALSE)

\* rd_data, one cycle after the load was published.
PortLoad ==
    IF req.size = 4 THEN mem[WordAddr(req.addr)]
    ELSE Extracted(mem[WordAddr(req.addr)], PortLane(req), req.size, req.signed)

-----------------------------------------------------------------------------
\* VerifyMemModelPlugin

Strobed(old, lane, size, data) ==
    [n \in Lane |-> IF n \in lane .. lane + size - 1 THEN data[n - lane] ELSE old[n]]

Merged == Strobed(mem[WordAddr(req.addr)], PortLane(req), req.size, req.data)

MemoryAfterRequest == IF req.we THEN [mem EXCEPT ![WordAddr(req.addr)] = Merged] ELSE mem

Folded(s, word, data) ==
    [updates |-> (s.updates + 1) % CountBound, word |-> word, data |-> data]

SigAfterRequest == IF req.we THEN Folded(sig, WordAddr(req.addr), Merged) ELSE sig

SlaveWrite ==
    /\ mem' = MemoryAfterRequest
    /\ sig' = SigAfterRequest

-----------------------------------------------------------------------------
\* DMemPlugin of the closed core, on the published instruction

\* A half word is told by bit 1 of the address.
PreLane(i) == CASE i.size = 1 -> i.addr % 4
                [] i.size = 2 -> ((i.addr % 4) \div 2) * 2
                [] OTHER      -> 0

PreWord(i) == preMem[WordAddr(i.addr)]

PreLoad(i) == Extracted(PreWord(i), PreLane(i), i.size, i.signed)

PreMerged == Strobed(PreWord(instr), PreLane(instr), instr.size, regs[instr.rs2])

\* A defect: the signature counts the store a flush suppressed.
StoreCounted == instr.op = "store"

StoreActive == instr.op = "store" /\ ~flush

PreloadedStore ==
    /\ preMem' = IF StoreActive THEN [preMem EXCEPT ![WordAddr(instr.addr)] = PreMerged]
                 ELSE preMem
    /\ preSig' = IF StoreActive THEN Folded(preSig, WordAddr(instr.addr), PreMerged)
                 ELSE preSig

-----------------------------------------------------------------------------
\* One clock cycle: every register takes its next value.
Cycle ==
    /\ Fetch
    /\ UpdatePc
    /\ WriteRegs
    /\ req' = Request
    /\ SlaveWrite
    /\ PreloadedStore
    /\ last' = instr
    /\ UNCHANGED prog

Next == Cycle

Spec == Init /\ [][Next]_vars

-----------------------------------------------------------------------------
Request_ == [addr : Address, off : Lane, data : Word, size : Size \cup {0}, we : BOOLEAN,
             signed : BOOLEAN]
Sig == [updates : 0 .. CountBound - 1, word : 0 .. Words - 1, data : Word]

\* The types of the registers and memories.
TypeOK ==
    /\ prog \in [Pc -> Instr]
    /\ pc \in Pc
    /\ pcLag \in Pc
    /\ instr \in Instr
    /\ flush \in BOOLEAN
    /\ regs \in [Regs -> Word]
    /\ req \in Request_
    /\ mem \in Memory
    /\ sig \in Sig
    /\ preMem \in Memory
    /\ preSig \in Sig
    /\ last \in Instr

\* A bubble is published after reset and after a taken branch.
Bubble == flush \/ instr = ZeroInstr

Bytes(m) == [a \in Address |-> m[a \div 4][a % 4]]

\* The next instruction in program order, and memory as program order has it:
\* the request on the port is as good as done.
IsaPc == IF Bubble THEN pc ELSE pcLag
IsaBytes == Bytes(MemoryAfterRequest)

Arch == INSTANCE OpenCoreIsa WITH pc <- IsaPc, bytes <- IsaBytes

\* The core and the memory at its ports execute the program instruction by
\* instruction: the word fetched in the shadow of a branch leaves no trace in
\* the registers or in memory, although its store is only suppressed one stage
\* before the port (branch_iface_chmem.h: FLUSH one cycle after the branch).
ExecutesProgram == Arch!Spec

\* A load returns, one cycle later, the bytes that program order has at its
\* address, stores just before it included, with their sign; and so does the
\* closed core's memory (dmem_port_chmem.h:62-64).
LoadsInOrder ==
    last.op = "load" => /\ PortLoad = Loaded(IsaBytes, last)
                        /\ PreLoad(last) = PortLoad

\* Two of the final observables that are to be the same for both cores
\* (ADR-091 H-3: tohost, regs, memsig): the words of memory, and the signature
\* with its count, folded once for every store that took effect.
SameFinalMemory ==
    /\ preMem = MemoryAfterRequest
    /\ preSig = SigAfterRequest

=============================================================================
