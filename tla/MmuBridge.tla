----------------------------- MODULE MmuBridge -----------------------------
(***************************************************************************)
(* The way into the MMU plugin from a transaction-level simulation         *)
(* (cf_plugin/bridge/mmu_bridge*.cpp).  One tick of the adapter takes a    *)
(* request out of its slot, runs the pipeline of MmuPlugin, without the    *)
(* processor's stages, and answers with what the node of the instruction   *)
(* lookup says.  Both lookups of the run are for the request's address.    *)
(***************************************************************************)
EXTENDS MmuPlugin

CONSTANT None       \* an empty slot

VARIABLES
    req_in, resp_out,   \* the adapter's slots
    runs                \* history: runs of this request in a row; two stands for more

bridgeVars == <<tlb, answer, step, satp, req, node, walk, code, pending, req_in, resp_out, runs>>

\* issue_request takes the address and the ASID; the transaction id and the
\* access type stay behind.
Issued(p, a) == [ifetch |-> p, loadstore |-> p, asid |-> a]
Asked == {Issued(p, a) : p \in Pages, a \in Asids}

\* Translation is on in the default configuration, Sv39.
BridgeInit ==
    /\ MmuInit
    /\ satp \in Roots
    /\ req = Issued(0, 0)
    /\ req_in = None /\ resp_out = None
    /\ runs = 0

ASSUME BridgeAssumption ==
    /\ 0 \in Pages /\ 0 \in Asids
    /\ Asked \subseteq Requests
    /\ None \notin Asked

\* The simulation puts a request into the slot.
Offer(r) ==
    /\ step = 1
    /\ req_in = None
    /\ req_in' = r
    /\ UNCHANGED <<tlb, answer, step, satp, req, node, walk, code, pending, resp_out, runs>>

\* MMUTLMBridgeAdapter::tick up to the run; the stream adapter moves the last
\* response on if it can.
BeginTick(moved) ==
    /\ step = 1
    /\ req' = IF req_in = None THEN req ELSE req_in
    /\ runs' = IF req' = req /\ runs > 0 THEN 2 ELSE 1
    /\ req_in' = None
    /\ resp_out' = IF moved THEN None ELSE resp_out
    /\ step' = 2
    /\ UNCHANGED <<tlb, answer, satp, node, walk, code, pending>>

Lookups == \E s \in Sides : LookupHit(s) \/ LookupMiss(s)
Walker == WalkIdle \/ WalkDown \/ WalkFinds \/ WalkFaults

InRun ==
    /\ Lookups \/ Walker
    /\ UNCHANGED <<req_in, resp_out, runs>>

\* MMUPlugin::read_response: a hit is an address other than zero without an
\* exception code.
Response ==
    [paddr |-> node["ifetch"].paddr, fault |-> node["ifetch"].fault,
     hit |-> ~node["ifetch"].fault /\ node["ifetch"].paddr # NoFrame]

\* The end of the tick: an answer, request or not, if the slot is empty.
EndTick ==
    /\ step = 7
    /\ resp_out' = IF resp_out = None THEN Response ELSE resp_out
    /\ step' = 1
    /\ UNCHANGED <<tlb, answer, satp, req, node, walk, code, pending, req_in, runs>>

BridgeNext ==
    \/ \E r \in Asked : Offer(r)
    \/ \E moved \in BOOLEAN : BeginTick(moved)
    \/ InRun
    \/ EndTick

BridgeSpec == BridgeInit /\ [][BridgeNext]_bridgeVars

-----------------------------------------------------------------------------
\* Properties

\* An answer that the end of a tick puts into the slot.
Answers == EndTick /\ resp_out = None

\* A request that is run a second time is answered, as a hit, with the frame
\* the page table has for its page.
SecondRunTranslates ==
    [][Answers /\ runs = 2 /\ Table[satp][req.ifetch] # NoFrame
         => resp_out'.hit /\ resp_out'.paddr = Table[satp][req.ifetch]]_bridgeVars
=============================================================================
