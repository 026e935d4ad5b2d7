# ChipForge: TLA+ models, model checking and proofs

ChipForge is a plugin framework for describing RISC-V processors. Its TLM
backend executes the plugins as transaction-level C++ models; its CH_MEM
backend runs plugins with the same interfaces once, to elaborate a circuit that
is simulated or written out as Verilog. This directory models the framework,
the processors of both backends, their memory systems and the programs around
them. Paths in this file are relative to the repository root.

## 1. Inventory of the system

| Component | State it keeps | Operations | Hard behaviour | Correct when |
|---|---|---|---|---|
| Stage scheduling: PipeBuilder (`include/cf/plugin/pipe_builder.h`) | plugins, list of (stage, phase, callback), one payload node per stage, CtrlLinks, storages | `register_plugin`, `at_stage`, `build`, `run`, `elaborate` | stage order is the order of first registration; a halted stage is skipped as a whole; a throw ends a run without commits; a second `build` registers everything twice | a pass runs whole stages in schedule order; the circuit of a builder that was built once has every callback once |
| Framework primitives: CtrlLink, PipeNode, PipeArbitration, Payload, storage (`include/cf/plugin`) | halt/throw/flush conditions; valid/ready/cancel; cells of a node; double buffers | `halt_when`, `should_halt`, node transitions, `get`, `commit` | a cell that was never written reads as zero; a cell keeps its value until overwritten | no consumer mistakes an old cell for a new one |
| CPU pipeline, TLM plugins (`ip/cpu/plugins`, `ip/cpu/arch/riscv`) | pc, registers, scoreboard, payloads of the nodes | fetch, decode, hazard check, ALU, branch, load/store, write-back | four plugins write RD_DATA in one run; a skipped stage leaves old payloads; the pc of the next fetch comes from the write-back node | the program's instructions take effect one by one, in order |
| Multi-cycle unit (`mul_div_fsm.h`, `mul_div_fsm_chmem.h`) | state, operation, operands, step counter, remainder and quotient | capture, tick | freezes fetch and decode over many runs while execute, memory and writeback go on with the same instruction | rd gets the quotient or product, once, and nothing waits for ever |
| Decoder (`decoder_table.h`, `decode.h`, `decode_chmem.h`) | none | `decode_rv32`, `get_op_class`, `writes_rd` | the execution plugins decode the raw word again, each with its own rule, and the circuits once more | all of them mean the same operation |
| TLB library (`ip/mmu/lib`) | ways of every level, replacement policy | `lookup`, `refill_from_ptw`, four invalidations | shadow fill; each level evicts on its own | never a translation that was replaced or invalidated |
| Page-table walker (`ip/mmu/lib/ptw.cpp`, `mmu_ptw_chmem.h`) | one walk in flight with its callbacks; a state machine | `start_walk`, `advance`; a clock | a second miss replaces the walk; a walk that spans runs; a result read from the input of the moment | every walk ends, in the node and TLB it was started for; both walkers walk alike |
| MMU plugin (`ip/mmu/tlm/MMUPlugin.cpp`, `ip/cpu/plugins/mmu.cpp`, `mmu_exception_handler.h`) | satp, current ASID, lookup nodes, pending exception | two lookups, three walker stages, satp write, `sfence_vma`, `mmu_exit` | stale PADDR in a node; satp written while a walk runs; a fault reported in a later run | no translation of an earlier root survives; a request that stays is answered |
| L1 cache (`ip/cache`, `l1_cache_refill_fsm_chmem.h`) | lines, refill state | lookup, refill, a clock of the machine | a miss fills whatever memory answered last; a request replaced during a refill | a hit carries its own line; every request is served |
| Transaction bridges (`src/cf_plugin/bridge`) | request and response slots | adapter `tick` | a response for every tick, dropped if the slot is full; ids cut to 8 bits | each answer is of the run before it |
| CSR unit (`csr_chmem.h`) | CSRs of the generated hardware | CSR instructions, trap detection | its output reaches no register by the order of registration | what the wiring lets through is known |
| CH_MEM processor, closed core (`ip/cpu/plugins/*_chmem.h`, `cpu_factory_chmem.h`) | pc, registers, memories, predictor tables, CSRs | one clock | a wrong-path slot behind every branch; a predictor that is trained and asked in the same cycle | the circuit implements the architecture, whatever was predicted |
| CH_MEM open core (`ip/cpu/core`) | pc, published instruction, request on the port, memory model | one clock | accesses leave a clock later than their instruction; flush and bus latency have to meet | same final registers and memory as program order and as the closed core |
| CH_MEM MMU (`MMUPlugin_chmem.h`) | TLB lanes, satp | load before elaboration, lookups every clock | host-given entries arrive with the first clock; an unbound port asks for page 0 | after every clock a bound port has its translation |
| Host memory and loading (`picolibc_host_memory.h`, `tools/cpu_sim`) | window of bytes, tohost, exit code | read, write, load | accesses over the window's edge; tohost anywhere in a wider store; two loaders that read different headers | memory is flat; the exit code is the byte stored; both backends get one image |
| Configuration and verification tooling (`cpu_config_chmem_json.h`, `tools/parity*`, `tools/verilator_runner`) | the configuration; work directory, threads, reports | parse, validate, build; run, judge | a field ignored; reports of an earlier invocation; time limits; a runner that cannot be started; threads | built as asked; PASS is agreement, FAIL is divergence, everything else an error |
| Branch predictor, TLM (`branch_predictor.h`) | counters, BTB | predict, update | none: nobody reads the prediction | |

**Interaction.** Plugins never call one another. They meet in the payload nodes
that one `run()` walks through, in the CtrlLinks that decide which stages are
skipped, and, for the TLM MMU, in a shared TLB and a shared walker whose
callbacks write into the node of the lookup that started the walk. `cpu_sim`
calls `run()` in a loop; a bridge adapter calls it once for each tick of a
transaction-level simulation. In the CH_MEM backend the callbacks run once: what
a callback reads is then a wire or a register of the circuit for good, and the
order of registration decides which. Around the processors, runners build a
configured core, load an ELF file and report; the parity gate starts the runners
of two simulators in several threads and compares their reports, which lie in
a directory that outlives the invocation. So the hazards are orders of
callbacks, values that outlive the run or clock that wrote them, operations
that last longer than one run, and, around the gate, processes that end at any
point.

PROJECT.json lists every component with what is modelled of it, and every
hazard with its line and the property that watches it.

## 2. Modules

| Module | What it is | State and actions against the code |
|---|---|---|
| `RiscvProgram` | instructions and what plugins decide about them | an instruction is a record; words and registers are small sets |
| `RiscvIsa` | **abstract specification**: one instruction at a time | `Step` executes the instruction at `pc` completely |
| `StageSchedule` | `canonical_stage_order` over the topologies of `cpu_factory.h` | `BuiltOrder(n)` is the order of an n-stage processor |
| `PipeBuilder`, `PipeBuilder_proof` | the framework's builder with any plugins | `stages` is the list of registrations, in the order the code appends them; `RegisterPlugin` and `Build` at any time between calls, `MaxBuilds` bounding the builds only; a build in steps, one for each `setup()` and `build()` of a plugin, which may throw: `Build`, `CallPlugin`, `PluginThrows`, `EndBuild`; an elaboration in steps: `Elaborate`, `ElaborateCallback`, `EndElaborate`; and a run in steps: `BeginRun`, `EnterStage`, `Callback`, `NextThread`, `EndRun` with its throw and its commit hooks |
| `CpuPipeline`, `CpuPipeline_proof` | the TLM processor with `enable_mmu = false` | one action per stage of a run and `EndPass`, which passes the next run to the next thread; `fetch`, `decode`, `execute`, `memory` are the nodes; refines `RiscvIsa` |
| `RadixDivider`, `RadixDivider_proof` | the bits of the TLM divisions | `Issue` is the execute callback that captures, `Tick` the later ones |
| `DividerParity` | `RadixDivider` together with the CH_MEM state machine, proved about in `RadixDivider_proof` | one clock beside one run |
| `InstructionDecode` | a word through the TLM decoder and plugins | `Decode`, `Execute`, `Fetch` |
| `ChmemDatapath`, `ChmemDatapath_proof` | the same word through the CH_MEM circuits | extends `InstructionDecode`; operators for the decoder's selects, immediates, ALU and branch unit, on operands of `XLEN` bits; the powers of two and the bitwise operations on words are the constants `Pow` (`Pow2` in the divider), `BitAnd`, `BitOr`, `BitXor` |
| `TranslationCache` | **abstract specification**: a lossy memory of translations | `Lookup`, `Refill`, `Invalidate` |
| `MultiLevelTlb` | the stack of TLB levels | one action per method of MultiLevelTLB; refines `TranslationCache` |
| `MmuPlugin` | lookups, walker and exception path around `MultiLevelTlb` | `step` is the position in the MMU's part of a run; the callbacks of a walk are part of the step that ends it |
| `MmuBridge` | the adapter in front of `MmuPlugin` | `Offer`, `BeginTick`, the steps of the run (`InRun`), `EndTick`; the slots `req_in`, `resp_out` |
| `L1CacheBridge` | the L1 plugin, behind its adapter or under a test | `L1Offer`, `Tick`, and the calls of a test, `Issue`, `MemResp`, `RunOnce`, in any order: a miss stores what the payload holds; `filled` remembers the sets filled with memory's answer for their own line |
| `PtWalkFsm` | the CH_MEM walker beside the TLM walker | `Begin`, one action per class of entry, `Return`; `ptw` is the TLM walker |
| `L1RefillFsm` | the CH_MEM refill machine with its host | one action per transition; memory answers at any time |
| `ChmemTlb` | the CH_MEM TLB with two ports | the load before elaboration is the initial state; then clocks |
| `Memory_proof` | theorems about `MultiLevelTlb`, `MmuPlugin`, `MmuBridge`, `L1CacheBridge`, `PtWalkFsm` and `ChmemTlb` | |
| `ChmemCpu`, `ChmemCpu_proof` | the closed core | the wires are operators of the state, the single action `Cycle` is a clock edge; refines `RiscvIsa` under `ArchPc`, SYSTEM instructions excepted (`SystemStep`) |
| `OpenCoreProgram`, `OpenCoreIsa` | programs of loads, stores and branches with bytes, and their **abstract specification** | `Step` |
| `OpenCore`, `OpenCore_proof` | the open core, its memory model, and the closed core's data memory fed with the same instructions | `Cycle`; refines `OpenCoreIsa` |
| `HostMemory` | window, tohost, ELF loading of both backends, `cpu_sim`'s loop | `StartBare`, `LoadFile`, `RefuseFile` (every refusal of the loader), `RunStore` and `RunWithoutStore`, a run with or without a store |
| `ChmemConfig` | flags and documents up to the circuit and the harness | one action per step of the runners' `main` |
| `ParityGate` | the gate, its threads, runners and work directory | one action per phase of a case, with every way a runner may end; `RunnerMissing`, `Abort` and `Leave` are the exception of a runner that cannot be started, on its way through the pool and out of the interpreter |
| `Tools_proof` | theorems about `HostMemory`, `ChmemConfig` and `ParityGate` | |
| `MC*` | instances for TLC | programs, page tables, files, documents, builds |

`MmuPlugin` composes with the TLB by conjoining the TLB's own actions (`Hit`,
`Miss`, `Refill`, `InvalidateAll`, ...) with its own changes, and `MmuBridge`
with `MmuPlugin` in the same way. `CpuPipeline` takes the result of a
multi-cycle operation from the constant `MulDiv` and its duration from
`DivSteps`; `RadixDivider` shows what the unit computes in that time. `MCParts`,
`MCUnits` and `MCTools` put components that do not interact into one run, one of
them in each behaviour, so that their states are added and not multiplied.

### Abstractions

* A word of memory, an address and a register value are numbers below
  `WordCount`; the program counter counts words (`+ 4` is `Plus(pc, 1)`).
  Arithmetic wraps. Program and data memory are separate maps, as they are in
  the CH_MEM cores: no program that modifies itself is modelled.
* An instruction's operation and immediate are given; what `decode_rv32`, the
  plugins and the circuits make of raw fields is `InstructionDecode` and
  `ChmemDatapath`. Byte and half-word accesses are in `OpenCore` and
  `HostMemory`, where a byte is one bit or a small number.
* A node that was never written reads as zeros, as `PayloadStore::get` returns.
* TLB levels are fully associative. `TLBFactory::create` throws for every other
  shape, because its VIPT check (`tlb_factory.cpp:40`) adds the index bits to
  12 offset bits. `PagesPerTag` is 2 to the number of low page-number bits that
  the tag leaves out (512 in the code). `TranslationCache`, the specification,
  is keyed by page and not by tag. The victim of a full level is way 0:
  `TLB` never calls `on_access` or `on_insert`, so every policy keeps naming
  its first way. No code sets the global bit. The counters are left out.
* A page table is a function from pages to frames. A page without a leaf faults
  at any level of the walk: invalid entry and reserved encoding both end there.
  Page tables do not change during a walk. `PtWalkFsm` has the entries
  themselves, with any bits.
* satp writes and `sfence_vma` happen between runs. Their stages come after the
  walker's in a run, and no production plugin writes the payload keys that
  trigger them; they are the owner's calls.
* `L1CacheBridge` has a set and a tag for an address, and a word for a line.
  `Memory` gives every line a different word, so that a line taken for another
  one shows.
* The circuit of `ChmemCpu` is the one the factory elaborates: where a stage
  link copies a value before its producer has run, the wire has the producer's
  default for good. The hazard unit's halt is a constant false.
* An ELF file is its sections and segments; a JSON value is a record whose field
  names its type; a report of a runner has what the gate compares, and hashes
  tell everything apart.

## 3. Runs

"viol." means that TLC is expected to refute the one property, which is what a
document or comment of the repository says.

| Run | Bounds | States | Checks |
|---|---|---|---|
| `cpu` | 4 words, 3 registers, all spaced programs over two palettes, any entry point, 7 stages, 2 division steps | 667,540 | `ImplementsIsa`, `FrozenWhileBusy`, `MOpCompletes` |
| `cpu_legacy` viol. | `MulImpl = "LEGACY"`, 5 stages | | `MOpResult` |
| `parts` | the four parts below, one in a behaviour | 1,088,484 | |
| | datapath: all opcode, funct3 and meaningful funct7 values with all pairs of 4-bit operands; all words of at most two bits above the opcode | | `PluginsAgree`, `DecodersAgree`, `AluComputes`, `BranchDecides` |
| | divider: 3 bits, all operands, division after division | | `DivisionCorrect`, `OneClockBehind` |
| | TLB: levels of 1 and 3 ways, 2 pages of one tag each, 2 ASIDs, 2 frames | | `LevelsAgree`, `ImplementsCache` |
| | builder: three plugins in any order, two threads, up to two builds that may fail, links that halt and throw | | `PassIsWhole`, `StallIsFresh`, `CircuitIsComplete` |
| `chmem_cpu` | 4 words, 2 registers, 2 predictor entries, all programs of two palettes, any entry point | 149,971 | `ImplementsIsa`, `OneBubble`, `OnlyExecutedBranchesTrain`, `BtbTruthful`, `SteadyIsLearned` |
| `open_core` | programs of 5 words; every size and place of an access in a word; 2 words of memory | 41,312 | `ExecutesProgram`, `LoadsInOrder`, `SameFinalMemory` |
| `units` | the six parts of the memory system, one in a behaviour (see `MCUnits`) | 168,235 | `TlbMatchesSatp`, `EventuallyTranslated`, `SecondRunTranslates`, `AnswersAreOwn`, `AnsweredFillIsMemory`, `SameWalk`, `WalkEnds`, `RequestsAreServed`, `AccessTranslated` |
| `tools` | the three tools, one in a behaviour (see `MCTools`) | 118,773 | `MemoryIsFlat`, `ExitMatchesMemory`, `SameImage`, `NothingIsIgnored`, `BuiltAsAsked`, `VerdictIsTrue`, `FaultIsError`, `ExitTellsAll`, `GateReturns` |
| `bp_config` viol. | configuration only | | `HarnessMatchesCpu` |
| `parity_stale` viol. | the gate with one thread and a work directory that is used again | | `FaultIsError` |
| `build_twice` viol. | the builder of `parts`, built a second time | | `BuildIsIdempotent` |
| `shared_tags` viol. | the TLB of `parts` with a third page that shares its tag | | `ImplementsCache` |
| `gate_crash` viol. | the gate with one thread; runners that cannot be started | | `OneIsDivergence` |

What the properties say, in the order of the table: the staged TLM processor
implements the architecture, freezes its front end while the multi-cycle unit
works, and always finishes; decoders, immediates, ALUs and branch units of both
backends mean the same, an ADDI whose immediate looks like a subtraction and
SYSTEM words excepted; the serial divider equals the one-cycle one, and the
CH_MEM state machine is behind it by one clock, neither more nor less; the TLB
levels are one lossy memory of the pages, as long as each page has its own tag;
a pass of the builder's schedule runs whole stages, decides a stage's halt from
this run's conditions or from those that the run before failed to clear, and the
circuit of a builder that was built once has every callback once; the CH_MEM core
implements RV32IM, whatever was predicted, loses at most one cycle for a branch,
and learns a steady program; the open core does what program order does and
leaves what the closed core's memory has; no translation of an earlier root
survives and every request to MMU, walker, cache and bridge is answered, a
repeated one with its own data; a hit in a set that was filled with memory's
answer for its line carries that line; a bound port of the CH_MEM TLB has its
translation after every clock; host memory is flat, both loaders give one image,
a configuration is refused or built as asked, the tail of one number excepted,
and the gate's verdict is true, and its exit code if its runners could be
started.

A property that leaves a case out names it in its comment; section 5 says what
the code does there and which document asks for something else. For four of
those cases a run checks the document's demand and TLC refutes it:
`BuildIsIdempotent`, `ImplementsCache` with shared tags, `OneIsDivergence`, and
`FaultIsError` in a directory that is used again.

**Type invariants** are not run properties: they are proved, as the theorems
named `Typing` and `WalkTyping` or as the first part of each inductive invariant
of section 4.

**Why the bounds are enough.**

* `cpu`: four words hold every pattern of producer, consumer and branch at
  distance one to three, and programs loop, so an instruction also meets what an
  earlier lap left in nodes, scoreboard and unit. Three registers give x0, a
  destination and a different source. Two division steps are the smallest number
  that separates first, middle and last tick. The theorems hold for every
  number.
* `parts`, datapath: every function of the operands is a comparison, a bitwise
  or modular operation with special cases at zero, -1 and INT_MIN, all of which
  four bits have. An immediate's bits are independent of one another, so words
  of two bits set show each position and each carry of sign. The theorems hold
  for every width and for every word.
* `parts`, divider: three bits have both signs, INT_MIN, -1, zero, divisors with
  the top bit set, and a first, a middle and a last step. The theorem holds for
  every width.
* `parts`, TLB: the deep level holds 3 and the shallow one 1 of the 4 keys, so
  both evict, and each evicts what the other keeps. `shared_tags` needs one page
  more.
* `parts`, builder: with three plugins one stage has callbacks of several
  plugins and several phases, one link halts its own and a later stage and one
  an earlier stage, and one plugin without and two with a commit hook meet a
  throw anywhere; the second build comes before, between and after runs and
  registrations. The theorems hold for any plugins, callbacks and number of
  threads and builds.
* `chmem_cpu`: two predictor entries for four words make entries be shared,
  evicted and retrained; a program may branch at, into and over the slot behind
  a branch. The theorems hold for every size.
* `open_core`: an access takes effect one clock after its instruction and a
  flush one clock after its branch, so five instructions with a store in the
  shadow of a branch and a loop meet every order of the two. The theorems hold
  for every program.
* `units`: the shallow TLB level evicts at every change of page, two roots
  disagree on a page and only one of them maps the other page, so that a stale
  entry, a stale node and a fault after a success all occur; page 0 is also the
  identity translation of address 0 in Bare mode. The cache has two sets and two
  tags, and three ids of which two are left after the cut to `IdRange`. Two
  lanes put a hit first, last or nowhere. Longer sequences repeat these, and the
  run explores all lengths. The theorems hold for every size of these.
* `tools`: the window is 16 of 64 bytes; stores of 1, 2 and 4 bytes begin at,
  before and behind its edges and tohost. Documents have up to two settings, as
  the code treats a setting without regard to more than its own and its
  predecessor's failure. Two threads and two cases are what the shared work
  directory and the order of verdicts need: a case only touches its own
  directory and the thread pool's queue. The theorems hold for every file,
  document and corpus.

**Deadlock** is checked in all runs but those whose system really stops: `parts`,
`build_twice` and `shared_tags` (an elaborated circuit is finished, and so is a
word when every verdict is in), `tools`, `bp_config`, `parity_stale` and
`gate_crash` (a program that has ended stays ended). `open_core` and `chmem_cpu`
are circuits, whose clock never stops.

**Fairness.** `FairSpec` of `CpuPipeline` and the pipeline's part of `units`
assume weak fairness of the steps of a run, because `cpu_sim` calls `run()` in a
loop (`tools/cpu_sim/main.cpp:263-268`) and a run always goes through its stages.
The loop is bounded by the option `cycles`: liveness says what happens if that
bound is large enough. The CH_MEM core has a fair `Cycle`: the clock runs. The
walker and the refill machine have, besides the clock, the memory's answers,
which the host owes them. A bridge adapter is ticked by its simulation. The
gate's runners end, because `subprocess.run` has a time limit; the fair actions
of `ParityGate` are the steps of its threads. Nothing else is fair: not the
owner's calls (satp writes, fences, a new request, a request offered to a
bridge), not the calls of `PipeBuilder`'s user. `EventuallyTranslated` has the
premise that satp writes and fences stop and that the request stays the same;
`WalkEnds` excepts the entry that may only be written, on which the machine
waits for ever (section 5).

**Mutants.** Each property of a passing run is paired with a defect, defined
beside the definition it replaces and marked as a defect in its comment, under
which the same run fails.

## 4. Proofs

Every safety property of a passing run, invariant or action property, is a
theorem here, for every value of the constants. TLC checked the inductive
invariants on small instances before they were proved.

| Theorems | Module | For every |
|---|---|---|
| `Typing` | `CpuPipeline_proof` | topology, thread count, multiplier, program |
| `NeverStalls`, `Frozen`, `MResult`, `Refinement` | `CpuPipeline_proof` | word size, register count, ALU, division length, in-order topology, set of spaced programs (`Configured`) |
| `Typing`, `NoOverflow`, `Bits`, `Division` | `RadixDivider_proof` | width of at least 2 bits |
| `Parity`, `ParityDivision` | `RadixDivider_proof` | width, and start of either machine (`Parity`: one clock behind) |
| `Plugins`, `Decoders` | `ChmemDatapath_proof` | instruction word: any opcode, fields and set of bits (`Plugins`: but SYSTEM words and an ADDI with 0x20 in the place of funct7) |
| `Arithmetic`, `BranchUnits` | `ChmemDatapath_proof` | register width, set of operands, immediates |
| `Whole`, `Complete`, `FreshStall` | `PipeBuilder_proof` | set of plugins, their registrations, links and hooks, thread count, number of builds (`Complete`: of a builder that was built once) |
| `Typing`, `OneWay`, `Agreement` | `Memory_proof` | depth, level sizes, pages, ASIDs, with and without shadow fill |
| `Refinement` | `Memory_proof` | the same, if no two pages in use share a tag (`OwnTags`) |
| `TlbIsCurrent` | `Memory_proof` | page table, set of requests, TLB, walk of at most three levels |
| `SecondRun` | `Memory_proof` | the same, if no two pages in use share a tag (`OwnTags`) |
| `OwnAnswers`, `HitsAreMemory` | `Memory_proof` | set of addresses, cache geometry, memory content, ids (`HitsAreMemory`: of sets filled with memory's answer) |
| `WalkTyping`, `Alike` | `Memory_proof` | set of page numbers |
| `PortsTranslated` | `Memory_proof` | number of lanes, entries, bound ports, after every clock |
| `Typing`, `Refinement`, `Bubble`, `Truthful`, `Training`, `CsrReset` | `ChmemCpu_proof` | word size, register count, ALU, predictor size and options, program (`Refinement`: every instruction but SYSTEM ones) |
| `LoadOrder`, `MemoriesAgree`, `Refinement` | `OpenCore_proof` | program, memory size, register file, counter width |
| `Obeyed`, `Built` | `Tools_proof` | set of command lines and documents (`Obeyed`: but a number with a tail in the simulator's runner; `Built`: the circuit, not the harness) |
| `Exit` | `Tools_proof` | corpus, exceptions, number of threads, work directory (of an invocation whose runners could all be started) |
| `Verdict`, `Fault` | `Tools_proof` | the same, in a fresh work directory (`Fresh`) |
| `Flat`, `ExitByte` | `Tools_proof` | file, window, address of tohost, sequence of stores |
| `SameStart` | `Tools_proof` | file whose segments hold what its sections say (`WellLinked`) |

The assumptions on constants are named where the constants are declared; TLC
evaluates them in the runs above. Hypotheses of a theorem that are not such
assumptions are in the table: they name configurations that the code allows
beside others, and the passing runs that check the property satisfy them. Where
the property fails without the hypothesis, the text below
says how.

**Pipeline.** `Configured` names what the code's default does not give for
free: the multi-cycle unit, one thread, a topology that names the plugins'
stages, and no M operation directly after another one (`Spaced`). The unit is
in WRITE_BACK when the next instruction reaches decode and captures in IDLE
only (`mul_div_fsm.h:312`), so a second M operation is not captured; with the
default multiplier `cpu_legacy` refutes `MOpResult`. The inductive invariant
`IInv` of `CpuPipeline` has four parts. `Quiet`: between writeback and decode
nothing is marked in the scoreboard, and in between only decode's own
destination is. `FrontEnd`: a busy unit works for the instruction that decode
holds, whose successor is at the pc, and a unit in WRITE_BACK will not meet an M
operation next. `BackEnd`: between execute and writeback the nodes hold what
execute computed for decode's instruction. `TypeInv` adds that a busy unit holds
an M operation. One lemma per stage shows that it is preserved. The refinement
mapping reads the architectural pc and registers before writeback from the
memory node, and during a replay, when the register file holds intermediate
values, from the unit's operands; an instruction takes effect at `Memory`,
every other step stutters.

**Divider.** `Partial` is the loop invariant of restoring division: dividend =
quotient times divisor plus remainder times the weight of the bits still to
come plus those bits. `Begun` keeps the magnitudes, signs and special cases
that `init_divide` set up. The arithmetic lemmas (`DivMod`, `DivUnique`,
`OneBit`) are proved from the integers' properties; powers of two come from the
constant function `Pow2`, so no recursion is involved. `Parity` adds that both
machines count together at a distance: the circuit's machine is one clock behind,
as the unit works in the run that captures its operands already, and ends a
division one clock later.

**TLB.** `OneWayPerKey` is inductive given types. `LevelsAgree` needs that a hit
answers from the deepest level and copies to all levels above, that a refill
reaches all levels, and `UnfilledEmpty`: without shadow fill only the deepest
level is ever filled. The refinement maps the levels to the translation any
of them holds for a page, which `LevelsAgree` makes unique for a tag and
`OwnTags`, the hypothesis of `Refinement`, for a page.

**CH_MEM core.** The state between fetch and execute is one instruction deep:
`Fetched` says that the instruction executed is the one at `lag`, the address
fetched a cycle before, and `Followed` that the address fetched now is what was
recorded as the prediction for it, unless the slot is a bubble. `Reset` covers
the first clock, when the instruction memory still shows a zero word. Together
they are `IInv`. Under the mapping `ArchPc`, which is `pc` while the slot is a
bubble and `lag` otherwise, a bubble stutters (`BubbleStep`) and every other
clock is the architecture's `Step` (`ExecuteStep`): the three cases of the
redirect (an unpredicted taken branch, a wrong prediction, a wrong target) each
leave the pc at the architectural successor or raise the flush. `Truthful` needs
`IInv` because the BTB is trained with the record of a prediction made a cycle
earlier; `Training` needs it to know that the trained slot belongs to the
instruction that took effect. `CsrReset` states a fact of the wiring: no CSR
instruction ever changes a CSR but mcause. Of a SYSTEM instruction, CSR access or
trap, the refinement claims no more than that it leaves the program, the memory
and every register but its own rd alone: the specification of CSRs asks for
effects the circuit does not have (section 5).

**Walker.** `SameWalk` is inductive given types: while the machine waits at a
level, the TLM walk on the same entries is at that level, and an entry both
read alike takes both to the same place.

**Decoders and datapaths.** `DatapathInv` says that each stage has done to the
word what its definition says, so that every theorem is about operators. The
tables (`Plugins`, `Decoders`) are cases over opcode and fields. An immediate is
a set of bits, wired one by one in the circuit and moved as ranges by the TLM
decoder; one lemma per format shows the two sets equal, sign included.
`Arithmetic` needs most: the circuit compares signed numbers by their sign bits
and the sign of their difference, shifts right with a sign fill that it ors to
the word, takes the upper half of a product from a product of the operands
extended to doubled width, and divides magnitudes. The lemmas for these
(`PowSplit`, `ShiftRightSigned`, `UpperHalf`, `ModShift`, `SignedDivision`) rest
on uniqueness of quotient and remainder. Of `BitAnd` and `BitOr` they use only
what `BitsAssumption` says: a mask of zeros or ones, and the sum of words with
no bit in common.

**Builder.** `IInv` of `PipeBuilder_proof` has six parts. `TypeInv` and
`ControlInv` say what each place of the control leaves untouched. `RegInv`: the
list of registrations holds, as long as no second build has begun (`Len(begun)
<= 1`), the callbacks of exactly those calls that were made, each once
(`RegOk`), so that after a build without a failure none is missing; a second
build repeats them, and `build_twice` shows it. `PassInv`: callbacks done and to
do, put together, are in schedule order, the stages to come follow all of them,
and no stage is lost that was not skipped. `CircuitInv` carries that to the
circuit of an elaboration. `StallInv`: a condition that a commit hook clears
holds only in the run that raised it, unless the run before ended with an
exception, which leaves without commits, or came before the hook was registered;
these are the exceptions `StallIsFresh` makes too.

**MMU.** `TlbMatchesSatp` needs `WalkInRun`: a walk ends in the run that began
it, one level for each of the three walker stages, so that satp cannot change
under it. With the four levels of Sv48 that is false and so is the property
(section 5). `SecondRunTranslates` needs `OneAddress`, which both lookups have
when the request comes through the bridge: the walk of the instruction lookup is
taken over by the other one, so no fault of one page is seen for another. And it
needs `KnownAfterRun`: what the first run found is in the TLB when the second
one looks it up. Pages that share a tag break it (section 5), hence `OwnTags`.

**Caches and ports.** `L1Inv` has these parts besides types: a set holds the
tag looked up in it last (`HoldsLatest`), the payload is the adapter's last
request (`PayloadIsAsked`), and, where a test answers for memory, the answer in
the payload is that for the line delivered last and the line of a set that was
filled with its own answer is memory's (`StoreIsMemory`). For the CH_MEM MMU
`LanesInv` says that the lanes are at reset or hold the host's entries for good.

**Open core.** An access is on the port one clock after its instruction. The
invariant says what the port carries (`PortInv`: the access of the last
instruction, its store perhaps suppressed by a flush) and what is published
(`PublishedInv`: the instruction at the address fetched a clock before, with the
pc one further, or at a branch's target). `SameFinalMemory` is inductive with
these: the closed core's memory is the open one's with the pending store
applied. The refinement mapping applies the pending store too, and takes the pc
of the published instruction unless that is a bubble.

**Configuration, gate and host memory.** `Asked` relates arguments to the one
configuration they ask for; `ConfigInv` says that a runner has none, that one, or
a circuit of it. The gate's `PoolInv` says that no case is worked on by two
threads, waits twice or is forgotten, so a case's files belong to one thread at
a time. `ReportInv` follows a case through its directory: before its runners
start nothing is there, a netlist, model or report is of this build, and a
failed runner's report is missing until the case is judged. "Nothing is there" is
what a fresh directory gives; in one that is used again `parity_stale` refutes
`FaultIsError`. A case whose runner could not be started is left without a
verdict, and `ExitTellsAll` is about invocations without such a case: there the
exit code is an exception's (`gate_crash`).

For the host's memory `HostInv` relates the window to flat memory
byte by byte and the exit code to the byte at tohost. `SameStart` compares the
loaders: one copies sections byte by byte into the window, the other segments
word by word into two memories; `WellLinked` is what a linker does.

**Recursive functions.** Where a fact about all numbers up to a bound is needed,
such as that the powers of two split, the proof takes the least number for which
it fails and finds a smaller one. No induction theorem is instantiated.

**Only model-checked.** Liveness (`MOpCompletes`, `SteadyIsLearned`,
`EventuallyTranslated`, `WalkEnds`, `RequestsAreServed`, `GateReturns`), which
rests on fairness and ENABLED and is out of the prover's reach. What
`StageSchedule` computes for the factory's topologies is evaluated by TLC as the
assumption `ScheduleAssumption`; the pipeline's proofs take the order as a
hypothesis (`Configured`). The refill machine `L1RefillFsm` has only a liveness
property. Nothing is proved about the two configurations whose runs are expected
to fail.

## 5. Differences between code and documents

Six have a run, listed in PROJECT.json under "findings": `cpu_legacy` (the
default multiplier's result never reaches rd), `bp_config` (the harness reads
counters that a netlist without a predictor does not have), `parity_stale`
(a runner that leaves no report is judged by an older one), `build_twice` (a
second `build()` registers everything again), `shared_tags` (a page hits on its
neighbour's entry) and `gate_crash` (a runner that cannot be started ends the
gate with the exit code of a divergence). The following were met while
modelling. Where the models have the behaviour, a property that is not true of
it excepts it, and says so in its comment.

**TLM processor**

* The word of an ADDI whose immediate has 0x20 in bits 11:5 subtracts: the ALU
  looks at funct7 (`int_alu.h:117`) for what its comment (`:73`) and
  `decoder_table.h:73` call an immediate. `PluginsAgree` excepts such words
  (`AddiWithSubBits`); the CH_MEM circuit adds (`AluComputes`).
* An M operation directly after another one is not captured
  (`mul_div_fsm.h:312`), against `openspec/specs/multi-cycle-fsm/spec.md:33-41`.
  The CH_MEM machine needs one clock more for a division than the TLM unit,
  where the scenario at `:43-45` asks for equal counts. `OneClockBehind` states
  what is the case instead: one clock, in every division.
* `TopologyBuilder<3>` names the stages if, exmem and wb, on which no plugin has
  a callback; `ScheduleAssumption` of `MCCpuPipeline` evaluates the order that
  results, in which fetch comes last, against
  `openspec/specs/cpu-stage-ordered-scheduling/spec.md:12`.
* `RegFilePlugin` has one register bank (`cpu_factory.h:574`), so writes of a
  pass with `tid >= 1` are dropped (`reg_file.h:113`), although
  `cpu_factory.h:138` offers one to four threads.
* JALR keeps bit 0 of its target (`branch.h:81`); the CH_MEM branch unit clears
  it (`branch_chmem.h:212`).

**Framework**

* `build()` is called idempotent in `pipe_builder.h:141-143` and registers every
  callback again when called twice (`:160`): run `build_twice`.
  `CircuitIsComplete` is about builders that were built once.
* The factories ignore the result of `build()`. A build that failed leaves
  `built_` set, and `elaborate()` makes a circuit of what was registered until
  then (`cpu_factory_chmem.h:485`). `CircuitIsComplete` is about builders whose
  build succeeded.
* `CtrlLink::clear()` (`ctrl_link.h:182`) keeps the count of stateful halts.
* `storage.h`'s double buffer swaps at a commit, so a write is read two commits
  later. No target sets the option.

**TLM MMU, caches and bridges**

* The walk has three stages (`MMUPlugin.cpp:163`), although
  `ip/mmu/README.md:23` lists Sv48: with four levels a walk
  never ends in the run that began it. One that goes on in later runs and began
  before satp was set to Bare refills the TLB afterwards: `TlbMatchesSatp` fails
  with `WalkLevels = 4`, and `TlbIsCurrent` is about at most three levels.
* Pages that share a tag hit on one another's entries (`tlb.h:75`), against
  `openspec/specs/mmu-tlb-lookup-insert/spec.md:14-16` and `:42-44`: run
  `shared_tags`. The other runs have pages with a tag of their own, and
  `Refinement` and `SecondRun` assume it.
* An entry evicted from a deep TLB level stays in shallow ones, against
  `openspec/specs/mmu-multi-level-coherence/spec.md:40`. The answers are right
  nevertheless (`LevelsAgree`, `ImplementsCache`).
* The replacement policies are never told about accesses (`tlb.h:131`), against
  `openspec/specs/mmu-tlb-lookup-insert/spec.md:36`.
* The memory stage takes the translation of the run before (`dbus.h:73`): its
  lookup comes later in the pass, against
  `openspec/specs/cpu-stage-ordered-scheduling/spec.md:34`, and a page fault never
  reaches the exception handler (`mmu_exception_handler.h:52`), against
  `openspec/specs/cpu-mmu-exception-routing/spec.md:4` and `:8`.
* When both lookups of a run miss, the fetch side's node keeps PTW_ACTIVE past
  the end of the run, against the note at
  `docs/architecture/adr/ADR-045-plugin-ctrl-link-consumption.md:103`.
* Through the MMU bridge a fault never reaches the response, the transaction id
  is always 0, the access type and permissions are dropped, and physical address
  0 reads as a miss. Any other PADDR counts as a hit (`MMUPlugin.h:99-110`), so
  a run whose walk has not ended answers with the page of an earlier request;
  `SecondRunTranslates` is about the next run.
* A miss stores what the payload holds of memory's answers
  (`L1CachePlugin.cpp:203`), 0 or another line's data if none came for its own;
  hits are then answered with it. Behind the cache bridge nobody calls
  `refill_from_memory`, so a line is filled with 0 and a repeated request hits
  with 0 (against `:206`). `AnsweredFillIsMemory` is about sets whose miss was
  answered. Every tick makes a response, with or without a request; it is
  dropped when the slot is full; writes are dropped, and ids are cut to 8 bits
  (`l1_cache_bridge_adapter.cpp:60`).
* `openspec/specs/cache-4way-lru-policy` describes 64 sets of four ways with
  LRU; the plugin has 256 direct-mapped sets.

**CH_MEM backend**

* A CSR instruction never reaches a CSR or rd (`cpu_factory_chmem.h:442`,
  `int_alu_chmem.h:351-386`), against
  `openspec/specs/csr-chmem-zicsr/spec.md:37-41`, and no trap redirects the pc
  (`:71-77`). `ImplementsIsa` of `ChmemCpu` claims nothing of a SYSTEM
  instruction but that it disturbs nothing else.
  CSRRWI writes the value of rs1 (`csr_chmem.h:272-280` against `:269`).
  The trap detection looks at neither opcode nor flush (`csr_chmem.h:365-389`),
  mepc never gets the pc and nobody reads TRAP_PENDING.
* The walker waits for ever on an entry that may only be written
  (`mmu_ptw_chmem.h:262`); it faults on every entry that may be read and
  written, where its header (`:43`, `:48`) calls {1,0,0} reserved and the comment
  at `test_mmu_ptw_fsm_chmem.cpp:107` takes R and W for a leaf. The TLM walker
  faults on write without read and has no superpages.
* An unbound port of the CH_MEM TLB asks for page 0, and entries loaded by the
  host arrive with the first clock only, whatever `MMUPlugin_chmem.h:181-184`
  and `:123-124`, `:209-210` say of both. `AccessTranslated` is about bound ports
  after a clock.
* Both cores differ on words no compiler emits: a LOAD with funct3 = 3 writes
  rd, an OP with an unknown funct7 writes 0 to rd; a store with funct3 of 3 or
  more writes a whole word in the open core. A half-word access at offset 3
  differs between the open core's memory and the closed one's, which
  `dmem_port_chmem.h:62-64` calls isomorphic bit by bit.
* In the open core `req_ready` is ignored, the ELF image is kept and never
  loaded, and a load over a register that was not written in the cycle before
  overrides RD_DATA.

**Loading and host memory**

* Only the low byte stored to tohost counts: 257 passes and 256 is no exit. With
  no .tohost section, a non-zero byte at address 0 ends the program.
* Sections that lie partly in the window are cut silently; sections below the
  entry are dropped when its page is 0; read-only segments are loaded nowhere by
  the CH_MEM loader. `openspec/specs/cpu-real-fetch-and-memory/spec.md:138` says
  that `--base-addr` defaults to 0; the code takes the entry's page. `SameImage`
  is about files whose data both loaders look at.

**Configuration and gate**

* A runner that is missing raises FileNotFoundError, which nothing catches
  (`parity_gate.py:354-363`): the gate returns 1, which means FAIL, and not 2,
  and writes no report: run `gate_crash`. A FAIL keeps the error kind of an
  earlier ERROR of its case. A failed self-check of the Verilator runner (2) is
  lost when a report was written. A simulator runner that ends with 2 at its
  cycle limit is a partial case and may PASS.
* `generate_verilog` and the harness's build return 1 where 2 stands for errors.
  The harness links every .cpp left in its directory
  (`cpu_verilator_sim.cpp:327`). A time limit ends the runner and not its
  children (`parity_gate.py:354`).
* `--btb-entries 16abc` is taken for 16 by one runner
  (`parity_sim_runner.cpp:197`) and refused by the other, whose comment
  (`cpu_verilator_sim.cpp:184`) demands the full parse; `NothingIsIgnored`
  excepts the tail in the first (`HasTail`).
  `name` inside params is known and never read, the flat form refuses the meta
  fields, only the first wrong value is reported, the positional overload of
  `build_cpu` validates nothing, and `mmu_mode` and `enable_mmu` are only
  logged.

## 6. Not modelled, and the plan

Left out, with the reason:

* the TLM branch predictor: its prediction is read by nobody;
* the handshakes of PipeNode and PipeArbitration, which neither `run()` nor a
  plugin drives; `declare_substage` and the connectors, which nothing calls;
  the second buffer of `array_store`, a build option no target sets;
* the numbers and fields of CSRs: no CSR instruction takes effect;
* the CH_MEM exception handler, a wire nothing writes; the factory registers
  neither it nor the CH_MEM MMU nor its multiply/divide machine, so these are
  units of their own here too;
* the addresses of page-table entries, superpages' page numbers, and stores to
  page tables during a walk: the walkers' control does not look at them;
* the pipeline together with the MMU (the difference on the memory stage's
  translation above is known; the fetch side joins the two modules at PADDR);
* the bytes of ELF headers, the histograms of `--stats`, the syntax of corpus
  and exception files, the gate's checks of the corpus and its self-test,
  `parity_report.py` and `parity_replay.py`: they format or read text.

Done, in this order: the TLM pipeline, divider and TLB with their proofs, the
decoders, the MMU; then the CH_MEM core with its proofs, the datapaths, the
framework's builder, the bridges, caches and CH_MEM units of the memory system
with the walker's proof, the open core, host memory and loading, configuration
and the gate; then the proofs about the builder, the datapaths, the divider
beside its circuit, MMU, bridges, cache and CH_MEM ports, the open core and the
tools.

Left:

1. `CpuPipeline` with translated fetch and data addresses.
2. The framework's double buffer and handshakes, once code uses them.
3. What remains of liveness on paper: a variant for each of the six properties,
   of which the prover could check the decrease if not the conclusion.

Hazards known and not in PROJECT.json's list, which keeps those a property
watches and a few that say why none can: a topology that orders the stages
wrongly (`cpu_factory.h:268`), register banks for more threads than there are
(`reg_file.h:113`), the ALU that takes an ADDI for a subtraction
(`int_alu.h:117`), the victim that is always way 0 (`tlb.h:131`), the fault code
that is never cleared (`MMUPlugin.cpp:141`) and that the exception path drops
(`mmu_exception_handler.h:52`), the walker that waits for ever
(`mmu_ptw_chmem.h:262`) and shows the input of the moment (`:303`), a line
changed during a refill (`l1_cache_refill_fsm_chmem.h:187`), the first clock and
the unbound port of the CH_MEM TLB (`MMUPlugin_chmem.h:185`, `:209`), CSR
results that reach no register (`cpu_factory_chmem.h:442`), and a compiler that
outlives its runner's time limit (`parity_gate.py:354`).
