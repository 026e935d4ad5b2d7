---------------------------- MODULE ChmemConfig ----------------------------
(***************************************************************************)
(* How the two runners of the CH_MEM processor, parity_sim_runner and      *)
(* cpu_verilator_sim, get from their arguments to the circuit they build:  *)
(* flags or a JSON document become a CpuConfigChmem, which is validated    *)
(* and given to CpuFactoryChmem::build_cpu; cpu_verilator_sim then         *)
(* compiles its harness with or without the reads of the predictor's       *)
(* counters.  Both runners get the same arguments, as parity_gate.py       *)
(* passes them on.                                                         *)
(*                                                                         *)
(* A JSON value is a record with one field, which names its type; an       *)
(* object is a function from its keys.  A number of a flag may have other  *)
(* characters after it (tail).                                             *)
(***************************************************************************)
EXTENDS Integers

CONSTANTS
    Arguments,   \* [config, flags]: a document or none, and the flags given
    Unset,       \* no configuration, no circuit yet
    Word,        \* 2^32 in the code
    ElfBase      \* kElfBase, 0x80000000

\* What stands behind --config: whether the file opens and parses, and its
\* keys.  A set, empty without --config.
ASSUME ConfigAssumption ==
    /\ ElfBase \in 0 .. Word - 1 /\ ElfBase % 4 = 0 /\ Word > 256
    /\ \A a \in Arguments : a.config = {} \/ \E d \in a.config : a.config = {d}

Runners == {"simulator", "verilator"}

VARIABLES given,     \* the arguments of both
          step,      \* where each runner is
          cfg,       \* its CpuConfigChmem
          errors,    \* the fields the loader has complained about
          circuit,   \* what build_cpu made of it
          harness    \* cpu_verilator_sim: does the harness read the counters?

configVars == <<given, step, cfg, errors, circuit, harness>>
-----------------------------------------------------------------------------
(* The loader *)

BoolFields == {"enable_bp", "bp_uncond", "enable_mmu", "enable_cache"}
NumberFields == {"initial_pc", "btb_entries"}
TextFields == {"mmu_mode"}
Fields == BoolFields \cup NumberFields \cup TextFields

Meta == {"name", "type", "description", "$schema", "info", "tags", "_comment", "$comment"}
Known == Fields \cup {"name"}

Defaults == [initial_pc |-> [int |-> ElfBase], enable_bp |-> [bool |-> TRUE],
             btb_entries |-> [int |-> 256], bp_uncond |-> [bool |-> TRUE],
             enable_mmu |-> [bool |-> FALSE], mmu_mode |-> [text |-> "bare"],
             enable_cache |-> [bool |-> FALSE]]

Nested(d) == "params" \in DOMAIN d.keys /\ "object" \in DOMAIN d.keys["params"]

\* The keys of params, or of the document itself when it has no params.
Settings(d) == IF Nested(d) THEN d.keys["params"].object ELSE d.keys

\* What the parsers return.  A JSON value has one type; switches are Booleans
\* and every flag sets a field, --btb-entries to the number it begins with.
ASSUME ParserAssumption ==
    \A a \in Arguments :
        /\ \A d \in a.config : d.opens /\ d.parses => \A k \in DOMAIN Settings(d) :
              LET v == Settings(d)[k] IN
              /\ "bool" \in DOMAIN v => v.bool \in BOOLEAN /\ v = [bool |-> v.bool]
              /\ "int" \in DOMAIN v => v = [int |-> v.int]
        /\ DOMAIN a.flags \subseteq Fields
        /\ \A k \in DOMAIN a.flags :
              LET v == a.flags[k] IN
              /\ k \in BoolFields => v.bool \in BOOLEAN /\ v = [bool |-> v.bool]
              /\ k = "initial_pc" => v = [int |-> v.int]

\* A defect: only the fields of the TLM backend are refused, not every
\* unknown one.
OnlyListedRefused(d) ==
    {k \in DOMAIN Settings(d) : k \in {"n_lanes", "branch_predictor"}}

\* The tables of fields with a reason and the fallback for all others come
\* to the same set.
Unsupported(d) ==
    {k \in DOMAIN Settings(d) : k \notin Known}
        \cup IF Nested(d) THEN DOMAIN d.keys \ (Meta \cup {"params"}) ELSE {}

OfItsType(k, v) ==
    \/ k \in BoolFields /\ "bool" \in DOMAIN v
    \/ k \in TextFields /\ "text" \in DOMAIN v
    \/ k \in NumberFields /\ "int" \in DOMAIN v /\ v.int \in 0 .. Word - 1

Unreadable(d) ==
    {k \in DOMAIN Settings(d) \cap Fields : ~OfItsType(k, Settings(d)[k])}

Complaints(d) == Unsupported(d) \cup Unreadable(d)

With(base, settings) ==
    [k \in Fields |-> IF k \in DOMAIN settings THEN settings[k] ELSE base[k]]

\* validate_cpu_config_chmem
Valid(c) ==
    /\ c.btb_entries.int \in {16, 32, 64, 128, 256}
    /\ c.mmu_mode.text \in {"bare", "sv32", "sv39", "sv48"}
    /\ c.initial_pc.int % 4 = 0
-----------------------------------------------------------------------------
(* The runners *)

ConfigInit ==
    /\ given \in Arguments
    /\ step = [r \in Runners |-> "arguments"]
    /\ cfg = [r \in Runners |-> Unset]
    /\ errors = [r \in Runners |-> {}]
    /\ circuit = [r \in Runners |-> Unset]
    /\ harness = Unset

GoTo(r, s) == step' = [step EXCEPT ![r] = s]

\* Exit code 2: the arguments, the document or its values.
Refuse(r) ==
    /\ GoTo(r, "refused")
    /\ UNCHANGED <<given, cfg, circuit, harness>>

\* The number of --btb-entries has other characters after it.
HasTail == "btb_entries" \in DOMAIN given.flags /\ given.flags["btb_entries"].tail

\* --config with a flag of the configuration; cpu_verilator_sim also reads
\* the number of --btb-entries to its end.
BadArguments(r) ==
    \/ given.config # {} /\ DOMAIN given.flags # {}
    \/ r = "verilator" /\ HasTail

RefuseArguments(r) ==
    /\ step[r] = "arguments" /\ BadArguments(r)
    /\ Refuse(r)
    /\ UNCHANGED errors

\* The flags and the program's base; --btb-entries is its number.
TakeFlags(r) ==
    /\ step[r] = "arguments" /\ ~BadArguments(r) /\ given.config = {}
    /\ cfg' = [cfg EXCEPT ![r] =
                 With(Defaults, [k \in DOMAIN given.flags |->
                        IF k = "btb_entries" THEN [int |-> given.flags[k].int]
                        ELSE given.flags[k]])]
    /\ GoTo(r, "configured")
    /\ UNCHANGED <<given, errors, circuit, harness>>

\* load_cpu_config_chmem; a file that cannot be opened or parsed has no field.
LoadDocument(r) ==
    /\ step[r] = "arguments" /\ ~BadArguments(r)
    /\ \E d \in given.config :
        /\ d.opens /\ d.parses /\ Complaints(d) = {}
        /\ Valid(With(Defaults, Settings(d)))
        /\ cfg' = [cfg EXCEPT ![r] = With(Defaults, Settings(d))]
    /\ GoTo(r, "configured")
    /\ UNCHANGED <<given, errors, circuit, harness>>

RefuseDocument(r) ==
    /\ step[r] = "arguments" /\ ~BadArguments(r)
    /\ \E d \in given.config :
        IF d.opens /\ d.parses
        THEN /\ Complaints(d) = {} => ~Valid(With(Defaults, Settings(d)))
             /\ errors' = [errors EXCEPT ![r] = Complaints(d)]
        ELSE UNCHANGED errors
    /\ Refuse(r)

RefuseValues(r) ==
    /\ step[r] = "configured" /\ ~Valid(cfg[r])
    /\ Refuse(r)
    /\ UNCHANGED errors

\* A defect: the number of entries is not handed on.
CircuitOfDefaults(c) ==
    [pc |-> c.initial_pc.int,
     predictor |-> IF c.enable_bp.bool THEN {[entries |-> 256, uncond |-> c.bp_uncond.bool]} ELSE {}]

\* build_cpu: the program counter's initial value and the predictor, if it
\* is registered.  enable_mmu and mmu_mode are written to the log.
Circuit(c) ==
    [pc |-> c.initial_pc.int,
     predictor |-> IF c.enable_bp.bool
                   THEN {[entries |-> c.btb_entries.int, uncond |-> c.bp_uncond.bool]} ELSE {}]

\* It throws when there is to be a cache, which ends the runner.
Build(r) ==
    /\ step[r] = "configured" /\ Valid(cfg[r])
    /\ IF cfg[r].enable_cache.bool
       THEN GoTo(r, "thrown") /\ UNCHANGED circuit
       ELSE GoTo(r, "built") /\ circuit' = [circuit EXCEPT ![r] = Circuit(cfg[r])]
    /\ UNCHANGED <<given, cfg, errors, harness>>

\* build_libvtop: CF_BP_STATS_READ follows the flag, whatever cfg says.
CompileHarness ==
    /\ step["verilator"] = "built"
    /\ harness' = [reads |-> "enable_bp" \notin DOMAIN given.flags]
    /\ GoTo("verilator", "compiled")
    /\ UNCHANGED <<given, cfg, errors, circuit>>

ConfigNext ==
    \/ \E r \in Runners :
        \/ RefuseArguments(r) \/ TakeFlags(r)
        \/ LoadDocument(r) \/ RefuseDocument(r)
        \/ RefuseValues(r) \/ Build(r)
    \/ CompileHarness

ConfigSpec == ConfigInit /\ [][ConfigNext]_configVars
-----------------------------------------------------------------------------
(* Properties *)

\* ip/cpu/configs/cpu_config_chmem_json.h: nothing is ignored in silence.
\* Every setting of a document that is accepted has reached the configuration
\* (its name apart, which params may repeat and nobody reads), and so has
\* every flag, to its last character; all else has its default.  The simulator's
\* runner is excepted where it does drop something: what follows the number of
\* --btb-entries, which cpu_verilator_sim.cpp:184 says must not happen.
NothingIsIgnored ==
    \A r \in Runners : cfg[r] # Unset /\ ~(r = "simulator" /\ HasTail) =>
        /\ \A d \in given.config : \A k \in DOMAIN Settings(d) \ {"name"} :
                k \in DOMAIN cfg[r] /\ cfg[r][k] = Settings(d)[k]
        /\ \A k \in DOMAIN given.flags : k \in DOMAIN cfg[r] /\
                IF k = "btb_entries"
                THEN cfg[r][k].int = given.flags[k].int /\ ~given.flags[k].tail
                ELSE cfg[r][k] = given.flags[k]
        /\ \A k \in Fields :
                (k \notin DOMAIN given.flags /\ \A d \in given.config : k \notin DOMAIN Settings(d))
                    => cfg[r][k] = Defaults[k]

\* The circuit is the one asked for: what the document or the flags say of
\* the predictor and the first address is in it, and whoever asks for a cache
\* gets none without being told.  Of --btb-entries it is the number that counts.
BuiltAsAsked ==
    \A r \in Runners : circuit[r] # Unset =>
        LET asked == IF given.config = {} THEN given.flags
                     ELSE Settings(CHOOSE d \in given.config : TRUE)
            Says(k, v) == IF k \in DOMAIN asked THEN asked[k] = v ELSE Defaults[k] = v
        IN
        /\ Says("initial_pc", [int |-> circuit[r].pc])
        /\ Says("enable_bp", [bool |-> circuit[r].predictor # {}])
        /\ \A p \in circuit[r].predictor :
            /\ Says("bp_uncond", [bool |-> p.uncond])
            /\ IF "btb_entries" \in DOMAIN asked THEN asked["btb_entries"].int = p.entries
               ELSE p.entries = 256
            /\ p.entries \in {16, 32, 64, 128, 256}
        /\ Says("enable_cache", [bool |-> FALSE])

\* tools/verilator_runner/sim_main.cpp:171-174: without a predictor the
\* netlist has none of the counters and reading them does not compile, so the
\* harness must be compiled according to whether there is a predictor.
HarnessMatchesCpu ==
    step["verilator"] = "compiled" =>
        harness.reads <=> circuit["verilator"].predictor # {}
=============================================================================
