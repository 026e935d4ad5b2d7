----------------------------- MODULE MmuPlugin ------------------------------
(***************************************************************************)
(* The MMU in a pipeline (ip/mmu/tlm/MMUPlugin.cpp, ip/mmu/lib/ptw.cpp,    *)
(* ip/cpu/plugins/mmu.cpp).  A run of the PipeBuilder ends with the MMU's  *)
(* stages: translate the pc, translate the load/store address, three times *)
(* one step of the page-table walker, report a fault to the processor.     *)
(* Both lookups share one TLB and one walker.  Between runs the owner may  *)
(* write satp or fence; the stages before the MMU's come first in a run.   *)
(***************************************************************************)
EXTENDS MultiLevelTlb

CONSTANTS
    Roots,          \* values of satp that turn translation on
    Bare,           \* the value that turns it off
    Table,          \* Table[r][p]: the leaf for page p, NoFrame if there is none
    WalkLevels,     \* max_levels_: 2 for Sv32, 3 for Sv39, 4 for Sv48
    Requests        \* what the two lookups of a run may be asked for

Sides == {"ifetch", "loadstore"}

ASSUME MmuAssumption ==
    /\ Pages \subseteq Frames
    /\ Bare \notin Roots
    /\ Table \in [Roots -> [Pages -> Frames \cup {NoFrame}]]
    /\ WalkLevels \in Nat \ {0}
    /\ Asids \subseteq Nat
    /\ Requests \subseteq [ifetch : Pages, loadstore : Pages, asid : Asids]

VARIABLES
    step,       \* 1: between runs; 2, 3: the lookups; 4 to 6: ptw_l0 to ptw_l2;
                \* 7: mmu_exit
    satp,       \* satp_value_ and satp_ppn_
    req,        \* the addresses of this run and current_asid_
    node,       \* node[s]: the payload of the nodes tlb_lookup_*
    walk,       \* the walk in flight, or NoWalk
    code,       \* code[n]: whether node n has a CPU_EXCEPTION_CODE
    pending     \* mmu_exception_pending_

mmuVars == <<step, satp, req, node, walk, code, pending>>
allVars == <<tlb, answer, step, satp, req, node, walk, code, pending>>

NoWalk == [busy |-> FALSE]
Walks == [busy : {TRUE}, level : 0 .. WalkLevels - 1, page : Pages, root : Roots, side : Sides]

\* The payload before anything was written reads as zeros.
EmptyNode == [vaddr |-> NoFrame, paddr |-> NoFrame, valid |-> FALSE, active |-> FALSE, fault |-> FALSE]

MmuInit ==
    /\ Init
    /\ step = 1
    /\ satp \in Roots \cup {Bare}
    /\ req \in Requests
    /\ node = [s \in Sides |-> EmptyNode]
    /\ walk = NoWalk
    /\ code = [n \in {"memory", "tlb_lookup_loadstore"} |-> FALSE]
    /\ pending = FALSE

-----------------------------------------------------------------------------
\* Between runs

\* RiscvMMUPlugin::csr_write_satp; it leaves the walker alone.
CsrWriteSatp(root) ==
    /\ step = 1
    /\ satp' = root
    /\ InvalidateAll
    /\ UNCHANGED <<step, req, node, walk, code, pending>>

\* RiscvMMUPlugin::sfence_vma; S is the page of rs1, empty if rs1 is 0, and
\* ASID 0 is 0 in rs2.
SfenceVma(S, a) ==
    /\ step = 1
    /\ \/ S = {} /\ a = 0 /\ InvalidateAll
       \/ S = {} /\ a # 0 /\ InvalidateAsid(a)
       \/ a = 0 /\ \E p \in S : InvalidateVaddrAnyAsid(p)
       \/ a # 0 /\ \E p \in S : InvalidateVaddr(p, a)
    /\ UNCHANGED mmuVars

-----------------------------------------------------------------------------
\* A run

\* The stages before the MMU's, or issue_request, set the addresses, and the
\* exception handler looks at the node of the memory stage.
Request(r) ==
    /\ step = 1
    /\ req' = r
    /\ pending' = (pending \/ code["memory"])
    /\ step' = 2
    /\ UNCHANGED <<tlb, answer, satp, node, walk, code>>

\* do_lookup

LookingUp(s) == step = (IF s = "ifetch" THEN 2 ELSE 3)

Translated(s, f) ==
    node' = [node EXCEPT ![s].paddr = f, ![s].valid = TRUE, ![s].vaddr = req[s]]

\* Translation is off: the address itself.
LookupBare(s) ==
    /\ LookingUp(s)
    /\ satp = Bare
    /\ Translated(s, req[s])
    /\ step' = step + 1
    /\ UNCHANGED <<tlb, answer, satp, req, walk, code, pending>>

LookupHit(s) ==
    /\ LookingUp(s)
    /\ satp # Bare
    /\ Hit(req[s], req.asid)
    /\ Translated(s, answer')
    /\ step' = step + 1
    /\ UNCHANGED <<satp, req, walk, code, pending>>

\* A miss starts a walk, over one that may be in flight; PADDR and
\* PADDR_VALID keep the result of an earlier lookup.
LookupMiss(s) ==
    /\ LookingUp(s)
    /\ satp # Bare
    /\ Miss(req[s], req.asid)
    /\ node' = [node EXCEPT ![s].active = TRUE]
    /\ walk' = [busy |-> TRUE, level |-> 0, page |-> req[s], root |-> satp, side |-> s]
    /\ step' = step + 1
    /\ UNCHANGED <<satp, req, code, pending>>

-----------------------------------------------------------------------------
\* PTW::advance, once in each of ptw_l0, ptw_l1 and ptw_l2; the page table
\* stays as it is

Walking == step \in 4 .. 6

WalkIdle ==
    /\ Walking
    /\ ~walk.busy
    /\ step' = step + 1
    /\ UNCHANGED <<tlb, answer, satp, req, node, walk, code, pending>>

AtLeaf == walk.level + 1 >= WalkLevels

\* A page without a leaf may lack an entry at any level.
WalkDown ==
    /\ Walking
    /\ walk.busy
    /\ ~AtLeaf
    /\ walk' = [walk EXCEPT !.level = @ + 1]
    /\ step' = step + 1
    /\ UNCHANGED <<tlb, answer, satp, req, node, code, pending>>

\* A defect: the refill left out of the success callback.
FindsWithoutRefill ==
    /\ Walking
    /\ walk.busy
    /\ AtLeaf
    /\ Table[walk.root][walk.page] # NoFrame
    /\ node' = [node EXCEPT ![walk.side] =
                  [@ EXCEPT !.paddr = Table[walk.root][walk.page], !.valid = TRUE,
                            !.vaddr = walk.page, !.active = FALSE]]
    /\ walk' = NoWalk
    /\ step' = step + 1
    /\ UNCHANGED <<tlb, answer, satp, req, code, pending>>

\* on_success: the node of the lookup that started the walk, then the TLB
\* under the ASID of now.
WalkFinds ==
    /\ Walking
    /\ walk.busy
    /\ AtLeaf
    /\ Table[walk.root][walk.page] # NoFrame
    /\ node' = [node EXCEPT ![walk.side] =
                  [@ EXCEPT !.paddr = Table[walk.root][walk.page], !.valid = TRUE,
                            !.vaddr = walk.page, !.active = FALSE]]
    /\ Refill(walk.page, req.asid, Table[walk.root][walk.page])
    /\ walk' = NoWalk
    /\ step' = step + 1
    /\ UNCHANGED <<satp, req, code, pending>>

\* on_fault; EXCEPTION_CODE is never cleared.
WalkFaults ==
    /\ Walking
    /\ walk.busy
    /\ Table[walk.root][walk.page] = NoFrame
    /\ node' = [node EXCEPT ![walk.side] =
                  [@ EXCEPT !.valid = FALSE, !.fault = TRUE, !.vaddr = walk.page, !.active = FALSE]]
    /\ walk' = NoWalk
    /\ step' = step + 1
    /\ UNCHANGED <<tlb, answer, satp, req, code, pending>>

\* The last stage reports to the node of the load/store lookup.
MmuExit ==
    /\ step = 7
    /\ code' = [code EXCEPT !["tlb_lookup_loadstore"] = node["loadstore"].fault]
    /\ step' = 1
    /\ UNCHANGED <<tlb, answer, satp, req, node, walk, pending>>

Run ==
    \/ \E r \in Requests : Request(r)
    \/ \E s \in Sides : LookupBare(s) \/ LookupHit(s) \/ LookupMiss(s)
    \/ WalkIdle
    \/ WalkDown
    \/ WalkFinds
    \/ WalkFaults
    \/ MmuExit

MmuNext ==
    \/ \E root \in Roots \cup {Bare} : CsrWriteSatp(root)
    \/ \E S \in {{}} \cup {{p} : p \in Pages}, a \in Asids : SfenceVma(S, a)
    \/ Run

MmuSpec == MmuInit /\ [][MmuNext]_allVars

\* The simulation loop runs the pipeline again and again.
FairMmuSpec == MmuSpec /\ WF_allVars(Run)

-----------------------------------------------------------------------------
\* Properties

MmuTypeOK ==
    /\ TypeOK
    /\ step \in 1 .. 7
    /\ satp \in Roots \cup {Bare}
    /\ req \in Requests
    /\ node \in [Sides -> [vaddr : Pages \cup {NoFrame}, paddr : Frames \cup {NoFrame},
                           valid : BOOLEAN, active : BOOLEAN, fault : BOOLEAN]]
    /\ walk \in Walks \cup {NoWalk}
    /\ code \in [{"memory", "tlb_lookup_loadstore"} -> BOOLEAN]
    /\ pending \in BOOLEAN

Translation(root, p) == IF root = Bare THEN p ELSE Table[root][p]

\* The TLB speaks for the page tables that satp points to, in whatever run a
\* walk was started and satp was written: no entry of an older root survives.
TlbMatchesSatp ==
    \A l \in LevelIds : \A w \in WayIds(l) :
        tlb[l][w] # NoEntry =>
            /\ satp # Bare
            /\ \E p \in Pages : TagOf(p) = tlb[l][w].key[1] /\ Table[satp][p] = tlb[l][w].frame

\* What node s says about page p under root: its frame, or a fault.
Says(s, root, p) ==
    /\ node[s].vaddr = p
    /\ IF Translation(root, p) = NoFrame THEN ~node[s].valid /\ node[s].fault
       ELSE node[s].valid /\ node[s].paddr = Translation(root, p)

\* ip/mmu/README.md:14 and :23, and every walk of this unit: a request that
\* stays the same, with satp and the TLB left alone, is translated for good
\* on both sides.
Settled(r, root) == req = r /\ satp = root

EventuallyTranslated ==
    \A r \in Requests, root \in Roots :
        /\ Table[root][r.ifetch] # NoFrame
        /\ Table[root][r.loadstore] # NoFrame
        /\ <>[]Settled(r, root)
        /\ <>[][step' # step]_allVars
        => <>[](Says("ifetch", root, r.ifetch) /\ Says("loadstore", root, r.loadstore))
=============================================================================
