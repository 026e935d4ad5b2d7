------------------------------ MODULE MCTools ------------------------------
(***************************************************************************)
(* The tools around the processor, one of them in a behaviour.             *)
(*                                                                         *)
(* Host memory: a window of 16 bytes in 64.  The files begin at the base   *)
(* of the CH_MEM memories, in the lowest page away from 0 and at 0; one    *)
(* has its .tohost at an odd address and set, one has none, one a section  *)
(* that leaves the window, one a section that begins below it; some are    *)
(* refused.                                                                *)
(*                                                                         *)
(* Configuration: documents of up to two settings, right and wrong, nested *)
(* or flat, and flags in any combination.                                  *)
(*                                                                         *)
(* Parity gate: two cases, of the two layers, and two threads; builds that *)
(* agree, differ in one thing, do not end or leave a hollow signature.     *)
(***************************************************************************)
EXTENDS HostMemory, ChmemConfig, ParityGate, TLC

CONSTANT Units   \* of "host", "config" and "gate"

(* Host memory *)

Sec(name, addr, bytes) == [name |-> name, addr |-> addr, bytes |-> bytes, alloc |-> TRUE]
Seg(flags, vaddr, bytes) == [flags |-> flags, vaddr |-> vaddr, bytes |-> bytes, load |-> TRUE]
Elf(entry, sections, segments) ==
    [readable |-> TRUE, entry |-> entry, sections |-> sections, segments |-> segments]

Code == <<3, 4, 5, 6, 7, 8, 9, 3>>
Table == <<5, 0, 6, 0>>
Zero == <<0, 0, 0, 0>>

\* Code, read-only data and .tohost, as riscv-tests are linked.
Linked == Elf(32, <<Sec(".text", 32, Code), Sec(".rodata", 40, Table), Sec(".tohost", 44, Zero)>>,
              <<Seg({"R", "X"}, 32, Code), Seg({"R"}, 40, Table), Seg({"R", "W"}, 44, Zero)>>)

MCFiles ==
    { Linked,
      \* .tohost set by the file, at an odd address; data written and executed
      Elf(36, <<Sec(".text", 36, Code \o Zero), Sec(".tohost", 33, <<2, 0>>)>>,
          <<Seg({"R", "W", "X"}, 36, Code \o Zero), Seg({"R", "W"}, 33, <<2, 0>>)>>),
      \* no .tohost; the data leave the window
      Elf(32, <<Sec(".text", 32, Code), Sec(".data", 44, Code)>>,
          <<Seg({"R", "X"}, 32, Code), Seg({"R", "W"}, 44, Code)>>),
      \* the lowest page, away from 0
      Elf(4, <<Sec(".text", 4, Code), Sec(".data", 16, Table)>>, <<Seg({"R", "X"}, 4, Code)>>),
      \* the same, entered behind the beginning of the code
      Elf(8, <<Sec(".text", 4, Code), Sec(".data", 12, Table)>>, <<Seg({"R", "X"}, 4, Code)>>),
      \* at 0, where a missing .tohost is taken to be
      Elf(0, <<Sec(".text", 0, Code)>>, <<Seg({"R", "X"}, 0, Code)>>),
      \* the end of the address space
      Elf(48, <<Sec(".text", 48, Code), Sec(".a", 60, Table), Sec(".b", 60, Zero)>>, <<>>),
      \* refused: sections that overlap, none to load, no headers
      Elf(32, <<Sec(".text", 32, Code), Sec(".data", 44, Table), Sec(".b", 28, Code)>>, <<>>),
      Elf(32, <<[Sec(".tohost", 44, Zero) EXCEPT !.alloc = FALSE]>>, <<>>),
      [Linked EXCEPT !.readable = FALSE] }

MCOptions == [base : {{}, {32}}, tohost : {{}, {45}}]

MCStores ==
    [addr : {0, 3, 15, 30, 33, 42, 44, 46}, bytes : {<<0>>, <<1>>, <<2, 1>>, <<1, 0, 2, 1>>}]
-----------------------------------------------------------------------------
(* Configuration *)

SettingNames == {"name", "initial_pc", "enable_bp", "btb_entries", "bp_uncond", "mmu_mode",
                 "enable_cache", "n_lanes", "enable_bpp", "description"}

SettingValues == {[bool |-> TRUE], [bool |-> FALSE], [int |-> 16], [int |-> 258],
                  [int |-> Word], [text |-> "sv39"], [text |-> "sv64"]}

SomeSettings ==
    UNION {[names -> SettingValues] :
           names \in {{m, n} : m, n \in SettingNames} \cup {{}}}

Parsed(keys) == [opens |-> TRUE, parses |-> TRUE, keys |-> keys]

MCDocuments ==
    {Parsed("params" :> [object |-> s]) : s \in SomeSettings}
    \cup {Parsed(s) : s \in {t \in SomeSettings : Cardinality(DOMAIN t) < 2}}
    \cup {Parsed("params" :> [object |-> "btb_entries" :> [int |-> 16]]
                    @@ k :> [text |-> "x"]) : k \in {"name", "description", "n_lanes"}}
    \cup {Parsed("params" :> [int |-> 16] @@ "enable_bp" :> [bool |-> FALSE]),
          [Parsed(<<>>) EXCEPT !.opens = FALSE], [Parsed(<<>>) EXCEPT !.parses = FALSE]}

FlagSets ==
    { c @@ b @@ u @@ n @@ m :
        c \in {<<>>, "enable_cache" :> [bool |-> TRUE]},
        b \in {<<>>, "enable_bp" :> [bool |-> FALSE]},
        u \in {<<>>, "bp_uncond" :> [bool |-> FALSE]},
        n \in {<<>>} \cup {"btb_entries" :> [int |-> i, tail |-> t] : i \in {16, 100}, t \in BOOLEAN},
        m \in {<<>>, "mmu_mode" :> [text |-> "sv39"], "mmu_mode" :> [text |-> "sv64"]} }

MCArguments ==
    [config : {{d} : d \in MCDocuments}, flags : {<<>>}]
    \cup [config : {{}}, flags : FlagSets]
    \cup {[config |-> {Parsed("enable_bp" :> [bool |-> FALSE])},
           flags |-> "enable_bp" :> [bool |-> FALSE]]}
-----------------------------------------------------------------------------
(* Parity gate *)

Sample(pc, word, regs, updates) ==
    [pc |-> pc, tohost |-> word, regs |-> regs, memsig |-> updates, updates |-> updates]

Behaviour(dag, trace) == [dag |-> dag, trace |-> trace]
Passes == Behaviour(1, <<Sample(1, 0, 0, 0), Sample(2, 1, 5, 1), Sample(3, 1, 6, 1)>>)
OtherRegisters == Behaviour(1, <<Sample(1, 0, 0, 0), Sample(2, 1, 4, 1), Sample(3, 1, 6, 1)>>)
OtherPath == Behaviour(1, <<Sample(2, 0, 0, 0), Sample(2, 1, 5, 1), Sample(3, 1, 6, 1)>>)
Later == Behaviour(1, <<Sample(1, 0, 0, 0), Sample(2, 0, 5, 0), Sample(3, 1, 6, 1)>>)
Endless == Behaviour(1, <<Sample(1, 0, 0, 0), Sample(2, 2, 5, 1), Sample(3, 2, 6, 1)>>)
Hollow == Behaviour(1, <<Sample(1, 0, 0, 0), Sample(2, 1, 5, 0), Sample(3, 1, 6, 0)>>)

Pair(s, v) == [sim |-> s, vl |-> v]
Two(p, q) == "p" :> p @@ "q" :> q

MCBuilds ==
    { Two(Pair(Passes, Passes), Pair(Endless, Endless)),
      Two(Pair(Endless, Endless), Pair(Passes, OtherRegisters)),
      Two(Pair(Passes, OtherPath), Pair(Hollow, Hollow)),
      Two(Pair(Later, Passes), Pair(Passes, [Passes EXCEPT !.dag = 2])),
      Two(Pair(Passes, OtherRegisters), Pair(Passes, Passes)) }

MCCorpus == << [name |-> "p", layer |-> "pr", cap |-> 3],
               [name |-> "q", layer |-> "night", cap |-> 2] >>

MCExceptions ==
    { [observation |-> "regs", scope |-> {"q"}, expired |-> FALSE],
      [observation |-> "regs", scope |-> {"p"}, expired |-> TRUE] }
-----------------------------------------------------------------------------
VARIABLE unit   \* the tool that is used

toolVars == <<unit, hostVars, configVars, gateVars>>

MCInit ==
    /\ unit \in Units
    /\ unit # "host" => file = {} /\ option = (CHOOSE o \in Options : TRUE)
    /\ unit # "config" => given = [config |-> {}, flags |-> <<>>]
    /\ unit # "gate" => build = (CHOOSE b \in Builds : TRUE)
    /\ HostInit
    /\ ConfigInit
    /\ GateInit

MCNext ==
    /\ UNCHANGED unit
    /\ \/ unit = "host" /\ HostNext /\ UNCHANGED <<configVars, gateVars>>
       \/ unit = "config" /\ ConfigNext /\ UNCHANGED <<hostVars, gateVars>>
       \/ unit = "gate" /\ GateNext /\ UNCHANGED <<hostVars, configVars>>

\* The tools at rest have no fair action enabled.
MCSpec == MCInit /\ [][MCNext]_toolVars /\ GateFairness
=============================================================================
