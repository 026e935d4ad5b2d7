---------------------------- MODULE PipeBuilder ----------------------------
(***************************************************************************)
(* The framework's PipeBuilder: an owner registers plugins, builds them    *)
(* and then either calls run() in a loop (the transaction-level backend)   *)
(* or elaborates a circuit (CH_MEM).  build() asks every plugin what it    *)
(* provides and requires, then calls every setup() and every build();      *)
(* these register callbacks for a stage and a phase, CtrlLinks that halt a *)
(* stage or end a run, and commit hooks.  Nothing keeps the owner from     *)
(* registering a plugin after build() or from building again.              *)
(*                                                                         *)
(* A callback is known by the plugin and the call that registered it; what *)
(* it computes is reduced to the two conditions of its plugin's CtrlLink,  *)
(* which any of its callbacks may change.  A commit hook clears the halt   *)
(* condition, as HazardPlugin's does, so their order does not matter.      *)
(***************************************************************************)
EXTENDS Naturals, Sequences, FiniteSets, SequencesExt

CONSTANTS
    Plugins,      \* the plugins there are
    SetupOf(_),   \* [stage, phase] of the callbacks that setup() registers
    BuildOf(_),   \* and build()
    HaltsOf(_),   \* stages on which the plugin registers its CtrlLink
    HasHook(_),   \* does it register a commit hook
    Provides(_), Requires(_),  \* capabilities
    Threads,      \* set_n_threads
    MaxBuilds     \* bound on the builds that an owner begins

Phases == <<"EARLY", "NORMAL", "LATE">>

ASSUME ThreadsAssumption == Threads \in Nat /\ Threads >= 1

ASSUME RegistrationAssumption ==
    \A p \in Plugins : \A regs \in {SetupOf(p), BuildOf(p)} :
        /\ regs \in Seq(ToSet(regs))
        /\ \A k \in DOMAIN regs : regs[k].phase \in ToSet(Phases)

VARIABLES
    plugins,   \* plugins_: in the order of registration
    stages,    \* stages_: registered callbacks, in the order of registration
    links,     \* stage_ctrl_links_: <<stage, plugin>> pairs
    hooks,     \* the plugins with an entry in commit_hooks_
    built,     \* built_
    begun,     \* history: what was registered when each build() began
    outcome,    \* what build() returned: "none", "ok" or "failed"
    calls,     \* the calls of plugins that build() has still to make
    circuit,   \* callbacks run by an elaborate() that succeeded, in a set
    pc,        \* "owner" between calls; "build", also within elaborate()
               \* as "autobuild"; "circuit" in elaborate(), "stages" in run()
    tid,       \* the thread of this pass
    order,     \* the stages to come in this pass, or in this elaboration
    todo,      \* callbacks of the current stage that are still to run
    halt,      \* plugins whose halt_when condition holds
    fault,     \* plugins whose throw_when condition holds
    done,      \* history: positions in stages_ of the callbacks run so far
    skipped,   \* history: stages that this pass found halted
    raised,    \* history: plugins that have run in this run()
    swept      \* history: plugins whose commit hooks the previous run() called

setupVars == <<plugins, stages, links, hooks, built, begun, outcome, calls, circuit>>
runVars == <<pc, tid, order, todo, halt, fault, done, skipped, raised, swept>>
pipeVars == <<setupVars, runVars>>

PipeInit ==
    /\ plugins = <<>> /\ stages = <<>> /\ links = {} /\ hooks = {}
    /\ built = FALSE /\ begun = <<>> /\ outcome = "none" /\ calls = <<>> /\ circuit = {}
    /\ pc = "owner" /\ tid = 0 /\ order = <<>> /\ todo = <<>>
    /\ halt = {} /\ fault = {}
    /\ done = <<>> /\ skipped = {} /\ raised = {} /\ swept = {}

-----------------------------------------------------------------------------
\* The schedule

\* The members of a set of positions up to n, in order.
InOrder(n, chosen) ==
    LET upTo[k \in 0 .. n] ==
            IF k = 0 THEN <<>>
            ELSE IF k \in chosen THEN Append(upTo[k - 1], k) ELSE upTo[k - 1]
    IN upTo[n]

\* canonical_stage_order: stages in the order in which they first occur.
CanonicalOrder(s) ==
    LET firsts == {k \in DOMAIN s : \A j \in 1 .. k - 1 : s[j].stage # s[k].stage}
        places == InOrder(Len(s), firsts)
    IN [k \in DOMAIN places |-> s[places[k]].stage]

InPhase(s, stage, p) ==
    InOrder(Len(s), {k \in DOMAIN s : s[k].stage = stage /\ s[k].phase = Phases[p]})

\* The callbacks of a stage, phase by phase, each in order of registration.
Bucket(s, stage) == InPhase(s, stage, 1) \o InPhase(s, stage, 2) \o InPhase(s, stage, 3)

-----------------------------------------------------------------------------
\* Setting up

RegisterPlugin(p) ==
    /\ pc = "owner"
    /\ ~Contains(plugins, p)
    /\ plugins' = Append(plugins, p)
    /\ UNCHANGED <<stages, links, hooks, built, begun, outcome, calls, circuit, runVars>>

Callbacks(p, part) ==
    LET regs == IF part = "setup" THEN SetupOf(p) ELSE BuildOf(p)
    IN  [k \in DOMAIN regs |-> [plugin |-> p, part |-> part, nth |-> k,
                                stage |-> regs[k].stage, phase |-> regs[k].phase]]

CallsInterleaved ==  \* a defect: each plugin is set up and built on its own
    [k \in 1 .. 2 * Len(plugins) |->
        <<plugins[(k + 1) \div 2], IF k % 2 = 1 THEN "setup" ELSE "build">>]

\* The calls that build() makes: every setup(), then every build().
Calls ==
    [k \in DOMAIN plugins |-> <<plugins[k], "setup">>] \o
    [k \in DOMAIN plugins |-> <<plugins[k], "build">>]

Resolved ==
    \A p \in ToSet(plugins) :
        Requires(p) \subseteq UNION {Provides(q) : q \in ToSet(plugins)}

\* build() up to the first setup().  An unresolved capability ends it before
\* any plugin is set up; built_ is set in any case, and read by no build().
BeginBuild(caller) ==
    /\ Len(begun) < MaxBuilds
    /\ built' = TRUE
    /\ begun' = Append(begun, plugins)
    /\ IF Resolved THEN pc' = caller /\ calls' = Calls /\ UNCHANGED outcome
       ELSE pc' = "owner" /\ outcome' = "failed" /\ UNCHANGED calls
    /\ UNCHANGED <<plugins, stages, links, hooks, circuit,
                   tid, order, todo, halt, fault, done, skipped, raised, swept>>

Build ==
    /\ pc = "owner"
    /\ BeginBuild("build")

\* The loop over the stages begins anew.
BeginPass(where) ==
    /\ pc' = where
    /\ order' = CanonicalOrder(stages)
    /\ todo' = <<>> /\ done' = <<>> /\ skipped' = {}

\* A setup() or build() registers callbacks; build() also CtrlLinks and a
\* commit hook.
CallPlugin ==
    /\ pc \in {"build", "autobuild"} /\ calls # <<>>
    /\ LET p == Head(calls)[1]
           part == Head(calls)[2]
       IN  /\ stages' = stages \o Callbacks(p, part)
           /\ links' = links \cup (IF part = "build" THEN HaltsOf(p) \X {p} ELSE {})
           /\ hooks' = hooks \cup {q \in {p} : part = "build" /\ HasHook(q)}
    /\ calls' = Tail(calls)
    /\ UNCHANGED <<plugins, built, begun, outcome, circuit, runVars>>

\* A call that throws, at its top as RiscvMulDivFsmPlugin::build, ends build()
\* there, and elaborate() with it: what was registered so far is left in place.
PluginThrows ==
    /\ pc \in {"build", "autobuild"} /\ calls # <<>>
    /\ pc' = "owner" /\ outcome' = "failed" /\ calls' = <<>>
    /\ UNCHANGED <<plugins, stages, links, hooks, built, begun, circuit,
                   tid, order, todo, halt, fault, done, skipped, raised, swept>>

EndBuild ==
    /\ pc \in {"build", "autobuild"} /\ calls = <<>>
    /\ outcome' = "ok"
    /\ IF pc = "build" THEN pc' = "owner" /\ UNCHANGED <<order, todo, done, skipped>>
       ELSE BeginPass("circuit")
    /\ UNCHANGED <<plugins, stages, links, hooks, built, begun, calls, circuit,
                   tid, halt, fault, raised, swept>>

\* elaborate() builds if nobody has.
Elaborate ==
    /\ pc = "owner"
    /\ IF built
       THEN /\ BeginPass("circuit")
            /\ UNCHANGED <<setupVars, tid, halt, fault, raised, swept>>
       ELSE BeginBuild("autobuild")

-----------------------------------------------------------------------------
\* run() and elaborate()

\* The owner of the transaction-level backend runs a processor it has built.
BeginRun ==
    /\ pc = "owner" /\ built /\ circuit = {}
    /\ BeginPass("stages")
    /\ tid' = 0 /\ raised' = {}
    /\ UNCHANGED <<setupVars, halt, fault, swept>>

\* should_stall_stage
Stalled(stage) == \E l \in links : l[1] = stage /\ l[2] \in halt

\* elaborate() takes every stage, whatever the CtrlLinks say.
EnterStage ==
    /\ pc \in {"stages", "circuit"} /\ todo = <<>> /\ order # <<>>
    /\ order' = Tail(order)
    /\ IF pc = "stages" /\ Stalled(Head(order))
       THEN skipped' = skipped \cup {Head(order)} /\ UNCHANGED todo
       ELSE todo' = Bucket(stages, Head(order)) /\ UNCHANGED skipped
    /\ UNCHANGED <<setupVars, pc, tid, halt, fault, done, raised, swept>>

\* A defect: the stall check is made again before every callback.
CallbackRechecked ==
    /\ pc = "stages" /\ todo # <<>>
    /\ LET e == stages[Head(todo)] IN
       /\ \E h \in SUBSET {e.plugin} : halt' = (halt \ {e.plugin}) \cup h
       /\ \E f \in SUBSET {e.plugin} : fault' = (fault \ {e.plugin}) \cup f
       /\ raised' = raised \cup {e.plugin}
       /\ todo' = IF \E l \in links : l[1] = e.stage /\ l[2] \in halt'
                  THEN <<>> ELSE Tail(todo)
    /\ done' = Append(done, Head(todo))
    /\ UNCHANGED <<setupVars, pc, tid, order, skipped, swept>>

Callback ==
    /\ pc = "stages" /\ todo # <<>>
    /\ LET p == stages[Head(todo)].plugin IN
       /\ \E h \in SUBSET {p} : halt' = (halt \ {p}) \cup h
       /\ \E f \in SUBSET {p} : fault' = (fault \ {p}) \cup f
       /\ raised' = raised \cup {p}
    /\ todo' = Tail(todo)
    /\ done' = Append(done, Head(todo))
    /\ UNCHANGED <<setupVars, pc, tid, order, skipped, swept>>

\* In an elaboration a callback makes a part of the circuit.
ElaborateCallback ==
    /\ pc = "circuit" /\ todo # <<>>
    /\ todo' = Tail(todo)
    /\ done' = Append(done, Head(todo))
    /\ UNCHANGED <<setupVars, pc, tid, order, halt, fault, skipped, raised, swept>>

EndElaborate ==
    /\ pc = "circuit" /\ todo = <<>> /\ order = <<>>
    /\ pc' = "owner"
    /\ circuit' = {done}
    /\ UNCHANGED <<plugins, stages, links, hooks, built, begun, outcome, calls,
                   tid, order, todo, halt, fault, done, skipped, raised, swept>>

NextThread ==
    /\ pc = "stages" /\ todo = <<>> /\ order = <<>> /\ tid + 1 < Threads
    /\ BeginPass("stages")
    /\ tid' = tid + 1
    /\ UNCHANGED <<setupVars, halt, fault, raised, swept>>

\* The CtrlLinks are asked whether to throw when all threads have passed; a
\* run that throws calls no commit hook.
Throws == \E l \in links : l[2] \in fault

CommitFirst ==  \* a defect: one hook only
    /\ pc = "stages" /\ todo = <<>> /\ order = <<>> /\ tid + 1 = Threads
    /\ pc' = "owner"
    /\ swept' = IF Throws THEN {} ELSE hooks
    /\ halt' = IF Throws THEN halt ELSE halt \ {h \in hooks : h = CHOOSE g \in hooks : TRUE}
    /\ UNCHANGED <<setupVars, tid, order, todo, fault, done, skipped, raised>>

EndRun ==
    /\ pc = "stages" /\ todo = <<>> /\ order = <<>> /\ tid + 1 = Threads
    /\ pc' = "owner"
    /\ swept' = IF Throws THEN {} ELSE hooks
    /\ halt' = halt \ swept'
    /\ UNCHANGED <<setupVars, tid, order, todo, fault, done, skipped, raised>>

Running == EnterStage \/ Callback \/ NextThread \/ EndRun

Building == CallPlugin \/ PluginThrows \/ EndBuild

Elaborating == Elaborate \/ ElaborateCallback \/ EndElaborate

PipeNext ==
    \/ \E p \in Plugins : RegisterPlugin(p)
    \/ Build \/ Building
    \/ Elaborating
    \/ BeginRun \/ Running

PipeSpec == PipeInit /\ [][PipeNext]_pipeVars
-----------------------------------------------------------------------------
\* Properties

\* The order of a pass, stated on its own: by first occurrence of the stage,
\* then by phase, then by registration.
FirstOfStage(k) == CHOOSE j \in DOMAIN stages :
                 /\ stages[j].stage = stages[k].stage
                 /\ \A i \in 1 .. j - 1 : stages[i].stage # stages[k].stage
PhaseOf(k) == CHOOSE p \in 1 .. 3 : Phases[p] = stages[k].phase
Before(j, k) ==
    \/ FirstOfStage(j) < FirstOfStage(k)
    \/ FirstOfStage(j) = FirstOfStage(k) /\ PhaseOf(j) < PhaseOf(k)
    \/ FirstOfStage(j) = FirstOfStage(k) /\ PhaseOf(j) = PhaseOf(k) /\ j < k
InSchedule(s) == \A i, j \in DOMAIN s : i < j => Before(s[i], s[j])

\* A pass runs the callbacks of every stage that was not halted when the pass
\* reached it, each once and in order, and none of a halted stage: a stage is
\* never left halfway, whatever its callbacks do to the conditions.
PassIsWhole ==
    /\ InSchedule(done)
    /\ pc = "stages" /\ todo = <<>> /\ order = <<>> =>
          ToSet(done) = {k \in DOMAIN stages : stages[k].stage \notin skipped}

\* A stage is skipped for a condition that a callback of this very run has
\* raised, or for one that the previous run did not clear: it ended with an
\* exception, or nobody had registered the hook yet.
StallIsFresh ==
    [][\A s \in skipped' \ skipped :
          \E l \in links : /\ l[1] = s /\ l[2] \in halt
                           /\ l[2] \in raised \/ l[2] \notin swept]_pipeVars

\* The owner registered its plugins and then built them, once, as the factories
\* do, and the build did not fail.
BuiltOnce == begun = <<plugins>> /\ outcome # "failed"

\* The circuit of an owner that built once has every callback of every plugin,
\* once, and what setup() registers for a stage and phase comes before what
\* build() does.
CircuitIsComplete ==
    \A c \in circuit : BuiltOnce =>
        /\ InSchedule(c)
        /\ \A p \in ToSet(plugins), part \in {"setup", "build"} :
              \A k \in DOMAIN Callbacks(p, part) :
                  Cardinality({i \in DOMAIN c : stages[c[i]] = Callbacks(p, part)[k]}) = 1
        /\ \A i, j \in DOMAIN c :
              LET a == stages[c[i]]
                  b == stages[c[j]]
              IN  /\ a.stage = b.stage /\ a.phase = b.phase
                  /\ a.part = "setup" /\ b.part = "build"
                  => i < j

\* What pipe_builder.h says of build(), that it may be called again: once it has
\* succeeded, no callback that stands in stages_ is registered a second time.
BuildIsIdempotent ==
    [][outcome = "ok" => \A k \in DOMAIN stages' \ DOMAIN stages :
                           stages'[k] \notin ToSet(stages)]_pipeVars
=============================================================================
