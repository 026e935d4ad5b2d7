--------------------------- MODULE StageSchedule ----------------------------
(***************************************************************************)
(* The order in which PipeBuilder::run() visits the stages: the order of   *)
(* their first registration.  CpuFactory expands the topology before       *)
(* PipeBuilder::build() lets the plugins register their own callbacks, so  *)
(* a topology that names the plugins' stages fixes the order and one that  *)
(* does not (the 3-stage one) leaves it to the plugins.                    *)
(***************************************************************************)
EXTENDS SequencesExt

\* PipeBuilder::canonical_stage_order
CanonicalOrder(registered) ==
    FoldLeft(LAMBDA order, s : IF Contains(order, s) THEN order ELSE Append(order, s),
             <<>>, registered)

FiveStages == <<"fetch", "decode", "execute", "memory", "writeback">>

\* TopologyBuilder<n>::expand; sub-stages get no callback and no turn.
Topology(n) ==
    CASE n = 3  -> <<"if", "exmem", "wb">>
      [] n = 5  -> FiveStages
      [] n = 7  -> FiveStages \o <<"retire", "commit">>
      [] n = 10 -> FiveStages \o <<"retire">>

\* The stages that the plugins' build() registers callbacks on, in the order
\* of register_early_plugins, register_normal_plugins, register_late_plugins.
PluginStages ==
       <<"decode", "execute", "memory", "writeback">>  \* StageLink
    \o <<"fetch", "writeback", "fetch", "execute">>    \* IBus, BranchPredictor
    \o <<"decode", "decode", "writeback">>             \* Decode, Hazard
    \o <<"execute", "execute", "execute", "memory">>   \* IntAlu, Mul, Branch, Lsu
    \o <<"memory", "decode", "writeback">>             \* DBus, RegFile

\* The stages of a processor that CpuFactory::build_cpu returns.
BuiltOrder(n) == CanonicalOrder(Topology(n) \o PluginStages)
=============================================================================
