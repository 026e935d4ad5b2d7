--------------------------- MODULE L1CacheBridge ---------------------------
(***************************************************************************)
(* The L1 cache plugin and the way into it from a transaction-level        *)
(* simulation (ip/cache/plugins/L1CachePlugin.cpp and                      *)
(* cf_plugin/bridge/l1_cache_bridge*.cpp).  One run of the plugin looks a  *)
(* line up in its only way and, on a miss, fills the set with whatever     *)
(* memory answered last.  The adapter ticks the bridge from an event       *)
(* queue: a request slot in, a run, a response slot out.  A test drives    *)
(* the plugin itself: request, memory's answer, run.  An address is a      *)
(* set and a tag; the offset within the line plays no part.                *)
(***************************************************************************)
EXTENDS Integers

CONSTANTS
    Sets,           \* 0 .. kNumSets - 1
    Tags,           \* addr[31:12], from 0
    Ids,            \* transaction ids of the stream
    IdRange,        \* ids the 8 bits of CacheReq can hold
    Memory,         \* Memory[line]: what the memory below would answer
    Empty            \* an empty slot

Lines == [set : Sets, tag : Tags]
ZeroLine == [set |-> 0, tag |-> 0]
Words == {0} \cup {Memory[l] : l \in Lines}
CacheReqs == [line : Lines, id : Ids, write : BOOLEAN]
CacheResps == [id : 0 .. IdRange - 1, hit : BOOLEAN, data : Words]

ASSUME CacheAssumption ==
    /\ Sets \subseteq Nat /\ 0 \in Sets
    /\ Tags \subseteq Nat /\ 0 \in Tags
    /\ Ids \subseteq Nat
    /\ IdRange \in Nat \ {0}
    /\ Memory \in [Lines -> Nat \ {0}]
    /\ Empty \notin CacheReqs \cup CacheResps \cup Tags \cup Lines

VARIABLES
    driver,     \* who calls the plugin: the adapter, or a test
    cache_req_in, cache_resp_out,   \* the adapter's slots
    payload,       \* the payload of the node that both stages share
    store,      \* tags_, data_, valid_
    asked,      \* history: the request accepted last
    latest,     \* history: the tag each set was last looked up for
    delivered,  \* history: the line memory answered last for
    filled      \* history: the sets whose last miss had memory's answer for
                \* its own line at hand

l1Vars == <<driver, cache_req_in, cache_resp_out, payload, store, asked, latest, delivered, filled>>

\* A payload key that was never written reads as zero.
L1Init ==
    /\ driver \in {"adapter", "test"}
    /\ cache_req_in = Empty /\ cache_resp_out = Empty
    /\ payload = [line |-> ZeroLine, id |-> 0, hit |-> FALSE, data |-> 0, mem |-> 0]
    /\ store = [s \in Sets |-> [valid |-> FALSE, tag |-> 0, data |-> 0]]
    /\ asked = Empty
    /\ latest = [s \in Sets |-> Empty]
    /\ delivered = Empty
    /\ filled = {}

-----------------------------------------------------------------------------
\* The plugin, on a payload n

\* issue_request; a write is kept in the payload and nobody looks at it.
L1Issued(n, r) == [n EXCEPT !.line = r.line, !.id = r.id % IdRange]

\* A defect: the tag left out of the comparison.
HitsAnyTag(l) == store[l.set].valid
Hits(l) == store[l.set].valid /\ store[l.set].tag = l.tag

\* The lookup stage.
LookedUp(n) ==
    [n EXCEPT !.hit = Hits(n.line),
              !.data = IF Hits(n.line) THEN store[n.line.set].data ELSE 0]

\* The refill stage: what the payload holds of memory's answers is written,
\* whichever line it is for.
Refilled(n) ==
    IF n.hit THEN store
    ELSE [store EXCEPT ![n.line.set] = [valid |-> TRUE, tag |-> n.line.tag, data |-> n.mem]]

\* One run on a node that a request may just have been written to.
RunFrom(n) ==
    /\ payload' = LookedUp(n)
    /\ store' = Refilled(LookedUp(n))
    /\ latest' = [latest EXCEPT ![n.line.set] = n.line.tag]
    /\ filled' = IF Hits(n.line) THEN filled
                 ELSE IF delivered = n.line THEN filled \cup {n.line.set}
                 ELSE filled \ {n.line.set}
    /\ UNCHANGED delivered

-----------------------------------------------------------------------------
\* The adapter

\* The simulation puts a request into the slot.
L1Offer(r) ==
    /\ driver = "adapter"
    /\ cache_req_in = Empty
    /\ cache_req_in' = r
    /\ UNCHANGED <<driver, cache_resp_out, payload, store, asked, latest, delivered, filled>>

Accepted == IF cache_req_in = Empty THEN payload ELSE L1Issued(payload, cache_req_in)

\* read_response, in the fields of the stream.
ResponseOf(n) == [id |-> n.id, hit |-> n.hit, data |-> n.data]

\* A defect: the outcome read before the run.
ResponseOfLastRun == [id |-> Accepted.id, hit |-> payload.hit, data |-> payload.data]
L1Response == ResponseOf(LookedUp(Accepted))

\* L1CacheTLMBridgeAdapter::tick: take the request if there is one, let the
\* stream adapter move the response on if it can, run, and answer, request or
\* not, if the slot is empty by then.
Tick(moved) ==
    /\ driver = "adapter"
    /\ cache_req_in' = Empty
    /\ asked' = IF cache_req_in = Empty THEN asked ELSE cache_req_in
    /\ RunFrom(Accepted)
    /\ IF cache_resp_out = Empty \/ moved
         THEN cache_resp_out' = L1Response
         ELSE UNCHANGED cache_resp_out
    /\ UNCHANGED driver

-----------------------------------------------------------------------------
\* A test, on the plugin itself

Issue(r) ==
    /\ driver = "test"
    /\ payload' = L1Issued(payload, r)
    /\ asked' = r
    /\ UNCHANGED <<driver, cache_req_in, cache_resp_out, store, latest, delivered, filled>>

\* refill_from_memory with the line that was asked for.
MemResp ==
    /\ driver = "test"
    /\ payload' = [payload EXCEPT !.mem = Memory[payload.line]]
    /\ delivered' = payload.line
    /\ UNCHANGED <<driver, cache_req_in, cache_resp_out, store, asked, latest, filled>>

\* pb.run(), with memory's answer at hand or without it.
RunOnce ==
    /\ driver = "test"
    /\ RunFrom(payload)
    /\ UNCHANGED <<driver, cache_req_in, cache_resp_out, asked>>

L1Next ==
    \/ \E r \in CacheReqs : L1Offer(r) \/ Issue(r)
    \/ \E moved \in BOOLEAN : Tick(moved)
    \/ MemResp
    \/ RunOnce

L1Spec == L1Init /\ [][L1Next]_l1Vars

-----------------------------------------------------------------------------
\* Properties

\* The slots, the payload and the store hold what their types allow; a wide
\* transaction id is cut to the bits of the cache's.
L1TypeOK ==
    /\ driver \in {"adapter", "test"}
    /\ cache_req_in \in CacheReqs \cup {Empty}
    /\ cache_resp_out \in CacheResps \cup {Empty}
    /\ payload \in [line : Lines, id : 0 .. IdRange - 1, hit : BOOLEAN, data : Words, mem : Words]
    /\ store \in [Sets -> [valid : BOOLEAN, tag : Tags, data : Words]]
    /\ asked \in CacheReqs \cup {Empty}
    /\ latest \in [Sets -> Tags \cup {Empty}]
    /\ delivered \in Lines \cup {Empty}
    /\ filled \subseteq Sets

\* A set holds the line it was last looked up for and no other: both stages of
\* a run work on one payload, so the fill goes where the lookup missed.
HoldsLatest ==
    \A s \in Sets : IF latest[s] = Empty THEN ~store[s].valid
                    ELSE store[s].valid /\ store[s].tag = latest[s]

Repeated(l) == latest[l.set] = l.tag
\* Every answer put into the slot is the answer to the request accepted last,
\* whether that was in this tick or earlier: the id, the outcome of this tick's
\* lookup of its line and the data go together.
AnswersAreOwn ==
    [][cache_resp_out' # cache_resp_out =>
         LET id == IF asked' = Empty THEN 0 ELSE asked'.id % IdRange
             line == IF asked' = Empty THEN ZeroLine ELSE asked'.line
         IN  cache_resp_out' = [id |-> id, hit |-> Repeated(line),
                          data |-> IF Repeated(line) THEN store[line.set].data ELSE 0]]_l1Vars

\* A hit in a set whose last miss found memory's answer for its own line is
\* answered with the data of the line asked for, however the lines evicted each
\* other before and whatever was answered since.  The premise is needed: a miss
\* stores whatever the payload holds, and every hit until the line is evicted is
\* answered with that.
AnsweredFillIsMemory ==
    [][RunOnce /\ payload'.hit /\ payload'.line.set \in filled
         => payload'.data = Memory[payload'.line]]_l1Vars
=============================================================================
