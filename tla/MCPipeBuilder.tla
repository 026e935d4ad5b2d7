--------------------------- MODULE MCPipeBuilder ---------------------------
(***************************************************************************)
(* PipeBuilder with three plugins: one that judges hazards in decode, as   *)
(* HazardPlugin, and halts execute and decode itself, where another        *)
(* callback comes after it; one that writes back from setup() and moves    *)
(* payloads before and after the others, as RegFilePlugin and              *)
(* StageLinkPlugin; and one that executes, halts decode, and needs a       *)
(* capability of the second.                                               *)
(***************************************************************************)
EXTENDS PipeBuilder

CONSTANTS hazard, link, alu

MCPlugins == {hazard, link, alu}
At(stage, phase) == [stage |-> stage, phase |-> phase]

MCSetupOf(p) ==
    IF p = link THEN <<At("execute", "NORMAL")>> ELSE <<>>
MCBuildOf(p) ==
    CASE p = hazard -> <<At("decode", "NORMAL")>>
      [] p = link   -> <<At("execute", "EARLY"), At("decode", "LATE")>>
      [] p = alu    -> <<At("execute", "NORMAL")>>
MCHaltsOf(p) ==
    CASE p = hazard -> {"decode", "execute"}
      [] p = link   -> {}
      [] p = alu    -> {"decode"}
MCHasHook(p) == p \in {hazard, alu}
MCProvides(p) == IF p = link THEN {"bus"} ELSE {}
MCRequires(p) == IF p = alu THEN {"bus"} ELSE {}
=============================================================================
