---------------------------- MODULE L1RefillFsm -----------------------------
(***************************************************************************)
(* The refill machine of the L1 cache in the CH_MEM backend                *)
(* (ip/cache/plugins/l1_cache_refill_fsm_chmem.h) with the host that       *)
(* drives it: a requester that asks until it has a hit or wants another    *)
(* line, a tag array of one line, and a memory that answers each           *)
(* refill_req it sees once, after any number of clocks.  The four flags    *)
(* are registers, so the host sees them one clock after their state.       *)
(***************************************************************************)
CONSTANT RefillLines   \* the lines of memory that share the cache's line

VARIABLES
    refillState,  \* the state of the machine
    flags,        \* the registers hit_cap_, miss_cap_, refill_req_cap_ and
                  \* refill_done_cap_: the names of those that are 1
    wanted,       \* the line the requester asks for, a set of at most one
    held,         \* the line in the tag array, a set of at most one
    fetched,      \* the line the last miss was for
    owing         \* whether the memory has yet to answer a refill_req

refillVars == <<refillState, flags, wanted, held, fetched, owing>>

RefillInit ==
    /\ refillState = "IDLE"
    /\ flags = {}
    /\ wanted = {}
    /\ held = {}
    /\ fetched = {}
    /\ owing = FALSE

-----------------------------------------------------------------------------
\* A new request, at any time, a refill for another line included.
Ask(l) ==
    /\ wanted # {l}
    /\ wanted' = {l}
    /\ UNCHANGED <<refillState, flags, held, fetched, owing>>

\* A clock in IDLE.
Accept ==
    /\ refillState = "IDLE"
    /\ wanted # {}
    /\ refillState' = "LOOKUP"
    /\ flags' = {}
    /\ UNCHANGED <<wanted, held, fetched, owing>>

\* A clock in LOOKUP: hit_cond is tag_match and line_valid.  The requester
\* sees the flag and drops its request.
LookupHits ==
    /\ refillState = "LOOKUP"
    /\ held = wanted
    /\ refillState' = "IDLE"
    /\ flags' = {"hit"}
    /\ wanted' = {}
    /\ UNCHANGED <<held, fetched, owing>>

LookupMisses ==
    /\ refillState = "LOOKUP"
    /\ held # wanted
    /\ refillState' = "MISS"
    /\ flags' = {"miss"}
    /\ fetched' = wanted
    /\ UNCHANGED <<wanted, held, owing>>

\* A clock in MISS; the machine does not look at mem_rdata_valid.
IssueRequest ==
    /\ refillState = "MISS"
    /\ refillState' = "REFILL_WAIT"
    /\ flags' = {"refill_req"}
    /\ owing' = TRUE
    /\ UNCHANGED <<wanted, held, fetched>>

\* Clocks in REFILL_WAIT, without and with mem_rdata_valid.
WaitsForData ==
    /\ refillState = "REFILL_WAIT"
    /\ flags' = {}
    /\ UNCHANGED <<refillState, wanted, held, fetched, owing>>

\* A defect: the data dropped.
RefillsNothing ==
    /\ refillState = "REFILL_WAIT"
    /\ owing
    /\ refillState' = "IDLE"
    /\ flags' = {"refill_done"}
    /\ owing' = FALSE
    /\ UNCHANGED <<wanted, held, fetched>>

\* The host writes the line back when it sees refill_done.
Refills ==
    /\ refillState = "REFILL_WAIT"
    /\ owing
    /\ refillState' = "IDLE"
    /\ flags' = {"refill_done"}
    /\ owing' = FALSE
    /\ held' = fetched
    /\ UNCHANGED <<wanted, fetched>>

RefillNext ==
    \/ \E l \in RefillLines : Ask(l)
    \/ Accept
    \/ LookupHits
    \/ LookupMisses
    \/ IssueRequest
    \/ WaitsForData
    \/ Refills

\* The clock runs, and the memory answers what it was asked.
RefillFairness ==
    WF_refillVars(Accept) /\ WF_refillVars(LookupHits) /\ WF_refillVars(LookupMisses)
        /\ WF_refillVars(IssueRequest) /\ WF_refillVars(Refills)

RefillSpec == RefillInit /\ [][RefillNext]_refillVars /\ RefillFairness

-----------------------------------------------------------------------------
\* l1_cache_refill_fsm_chmem.h:48-50: a request that comes during a refill
\* waits for it and is then taken: one that is kept in the end hits, unless
\* requests for another line come between.
RequestsAreServed ==
    \A l \in RefillLines : wanted = {l} ~> ("hit" \in flags \/ wanted # {l})
=============================================================================
