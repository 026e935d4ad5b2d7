------------------------------- MODULE MCUnits -------------------------------
(***************************************************************************)
(* The parts of the memory system, one of the six in a behaviour, so that  *)
(* the run adds their states up and does not multiply them.                *)
(*                                                                         *)
(* Three are of the TLM backend: the cache behind its adapter, with two    *)
(* sets, two tags and ids that do not fit its own; the MMU behind its      *)
(* adapter and the MMU in the processor's pipeline, with two pages, each   *)
(* with a tag of its own, and two page tables, the second page missing     *)
(* from one of them.                                                       *)
(*                                                                         *)
(* Three are units of the CH_MEM backend that no code joins yet: the       *)
(* page-table walker, with two page numbers to tell a result from another  *)
(* entry's; the refill machine of the cache, with two lines that contend;  *)
(* the TLB, with two lanes, so that a hit may be in the first, in the last *)
(* or in none, and 0, what an unbound port asks for, among the pages.      *)
(***************************************************************************)
EXTENDS L1CacheBridge, MmuBridge, PtWalkFsm, L1RefillFsm, ChmemTlb, TLC

CONSTANTS r1, r2

MemoryOfLines == [l \in Lines |-> 1 + 2 * l.set + l.tag]

TwoLevels == <<1, 2>>
TwoTables == r1 :> [p \in Pages |-> 10 + p] @@ r2 :> [p \in Pages |-> IF p = 0 THEN 20 ELSE NoFrame]
AllRequests == [ifetch : Pages, loadstore : Pages, asid : Asids]

MCRefillLines == {"a", "b"}
MCPpns == {1, 2}
MCTlbPages == {0, 1}
MCTlbFrames == {0, 1, 2}

VARIABLE unit   \* what is run

chmemVars == <<walkVars, refillVars, laneVars>>
allUnitVars == <<unit, l1Vars, bridgeVars, chmemVars>>

\* A unit that is not run is in one of its initial states.
MCInit ==
    /\ unit \in {"cache", "mmu", "pipeline", "walker", "refill", "lanes"}
    /\ L1Init
    /\ unit # "cache" => driver = "adapter"
    /\ CASE unit = "mmu" -> BridgeInit
         [] unit # "mmu" -> MmuInit /\ req_in = None /\ resp_out = None /\ runs = 0
    /\ unit \notin {"mmu", "pipeline"} => satp = Bare /\ req = Issued(0, 0)
    /\ WalkInit
    /\ RefillInit
    /\ TlbInit
    /\ unit # "lanes" => preload = [lanes |-> [i \in 1 .. Lanes |-> ZeroEntry],
                                    mode |-> "Bare", given |-> {}, bound |-> {}]

TlmNext ==
    \/ unit = "cache" /\ L1Next /\ UNCHANGED bridgeVars
    \/ unit = "mmu" /\ BridgeNext /\ UNCHANGED l1Vars
    \/ unit = "pipeline" /\ MmuNext /\ UNCHANGED <<l1Vars, req_in, resp_out, runs>>

\* An entry that may only be written stops the walker for good; its clock
\* goes on.
ChmemNext ==
    \/ unit = "walker" /\ WalkNext /\ UNCHANGED <<refillVars, laneVars>>
    \/ unit = "walker" /\ Stuck /\ UNCHANGED chmemVars
    \/ unit = "refill" /\ RefillNext /\ UNCHANGED <<walkVars, laneVars>>
    \/ unit = "lanes" /\ TlbNext /\ UNCHANGED <<walkVars, refillVars>>

MCNext ==
    /\ UNCHANGED unit
    /\ \/ TlmNext /\ UNCHANGED chmemVars
       \/ ChmemNext /\ UNCHANGED <<l1Vars, bridgeVars>>

Ticks == (\E moved \in BOOLEAN : BeginTick(moved)) \/ InRun \/ EndTick

\* The simulation loop runs the pipeline again and again, the simulation
\* ticks the adapter, and the clock runs.  The refill machine and the walker
\* have no fair action enabled while they are at rest.
MCFairness ==
    /\ WF_allVars(unit = "pipeline" /\ Run)
    /\ WF_bridgeVars(unit = "mmu" /\ Ticks)
    /\ WalkFairness
    /\ RefillFairness

MCSpec == MCInit /\ [][MCNext]_allUnitVars /\ MCFairness
=============================================================================
