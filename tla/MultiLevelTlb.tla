--------------------------- MODULE MultiLevelTlb ----------------------------
(***************************************************************************)
(* The look-aside buffers of the MMU (ip/mmu/lib): a stack of levels, each *)
(* fully associative, the only shape TLBFactory::create lets through.  A   *)
(* lookup asks every level and the deepest hit answers; a refill writes    *)
(* the deepest level; with shadow fill both also write the levels above.   *)
(***************************************************************************)
EXTENDS Integers

CONSTANTS
    Depth,          \* number of levels; 1 is the shallowest
    Ways,           \* Ways[l]: entries of level l
    ShadowFill,     \* shadow_fill_enabled_
    Pages,          \* virtual page numbers
    PagesPerTag,    \* 2^ASID_BITS: lookup drops that many low bits of the vpn
    Asids,
    Frames,         \* what an entry holds: pfn and perms
    NoFrame,        \* the result of a miss
    NoEntry         \* a way with valid_ = false

LevelIds == 1 .. Depth

ASSUME ConstantsAssumption ==
    /\ Depth \in Nat \ {0}
    /\ Ways \in [LevelIds -> Nat \ {0}]
    /\ ShadowFill \in BOOLEAN
    /\ Pages \subseteq Nat
    /\ PagesPerTag \in Nat \ {0}
    /\ NoFrame \notin Frames

\* tlb.h:75: the tag is the vpn without its ASID_BITS low bits.
TagOf(p) == p \div PagesPerTag

Keys == {TagOf(p) : p \in Pages} \X Asids
Entries == [key : Keys, frame : Frames]

ASSUME EntryAssumption == NoEntry \notin Entries

VARIABLES
    tlb,        \* tlb[l][w]: way w of level l, an entry or NoEntry
    answer      \* what the latest lookup returned

tlbVars == <<tlb, answer>>

KeyOf(p, a) == <<TagOf(p), a>>
WayIds(l) == 1 .. Ways[l]
AllWays == UNION {WayIds(l) : l \in LevelIds}

-----------------------------------------------------------------------------
\* One level: TLB::lookup, TLB::insert and insert_from.

Matching(t, k) == {w \in DOMAIN t : t[w] # NoEntry /\ t[w].key = k}
Free(t) == {w \in DOMAIN t : t[w] = NoEntry}

\* The loops over the ways stop at the first one; a set of at most one way.
FirstOf(S) == {w \in S : \A v \in S : w <= v}

\* select_victim of every policy: TLB never calls on_access or on_insert, so
\* the policies keep their initial state and always name way 0.
Victim == 1

\* A defect: insert looks for a free way before a match.
SlotFreeFirst(t, k) ==
    IF Free(t) # {} THEN FirstOf(Free(t))
    ELSE IF Matching(t, k) # {} THEN FirstOf(Matching(t, k))
    ELSE {Victim}

\* The way an insert writes: the match, else a free way, else the victim.
Slot(t, k) ==
    IF Matching(t, k) # {} THEN FirstOf(Matching(t, k))
    ELSE IF Free(t) # {} THEN FirstOf(Free(t))
    ELSE {Victim}

\* Every level of L is given the entry for k.
InsertInto(L, k, f) ==
    \E slot \in [LevelIds -> AllWays] :
        /\ \A l \in L : slot[l] \in Slot(tlb[l], k)
        /\ \A l \in LevelIds \ L : slot[l] = 1
        /\ tlb' = [l \in LevelIds |->
                     IF l \in L THEN [tlb[l] EXCEPT ![slot[l]] = [key |-> k, frame |-> f]]
                     ELSE tlb[l]]

-----------------------------------------------------------------------------
\* MultiLevelTLB

Init ==
    /\ tlb = [l \in LevelIds |-> [w \in WayIds(l) |-> NoEntry]]
    /\ answer = NoFrame

HitLevels(k) == {l \in LevelIds : Matching(tlb[l], k) # {}}

\* lookup, no level has the key.
Miss(p, a) ==
    /\ HitLevels(KeyOf(p, a)) = {}
    /\ answer' = NoFrame
    /\ UNCHANGED tlb

FilledByHit(d) == IF ShadowFill THEN {l \in LevelIds : l < d} ELSE {}

\* lookup, the deepest hit answers and is copied to the levels above it.
Hit(p, a) ==
    \E d \in HitLevels(KeyOf(p, a)) :
        /\ \A l \in HitLevels(KeyOf(p, a)) : l <= d
        /\ \E w \in FirstOf(Matching(tlb[d], KeyOf(p, a))) :
              /\ answer' = tlb[d][w].frame
              /\ InsertInto(FilledByHit(d), KeyOf(p, a), tlb[d][w].frame)

Lookup(p, a) == Miss(p, a) \/ Hit(p, a)

\* A defect: the shadow fill of a refill left out.
RefillsDeepestOnly == {Depth}

RefilledLevels == IF ShadowFill THEN LevelIds ELSE {Depth}

\* refill_from_ptw
Refill(p, a, f) ==
    /\ InsertInto(RefilledLevels, KeyOf(p, a), f)
    /\ UNCHANGED answer

\* A defect: an invalidation that stops at the deepest level.
DropDeepest(S) ==
    /\ tlb' = [tlb EXCEPT ![Depth] =
                 [w \in WayIds(Depth) |->
                    IF tlb[Depth][w] # NoEntry /\ tlb[Depth][w].key \in S THEN NoEntry
                    ELSE tlb[Depth][w]]]
    /\ UNCHANGED answer

\* Every level loses its entries for the keys of S.
Drop(S) ==
    /\ tlb' = [l \in LevelIds |->
                 [w \in WayIds(l) |->
                    IF tlb[l][w] # NoEntry /\ tlb[l][w].key \in S THEN NoEntry
                    ELSE tlb[l][w]]]
    /\ UNCHANGED answer

\* No entry has the global bit: no code sets it.
InvalidateVaddr(p, a) == Drop({KeyOf(p, a)})
InvalidateVaddrAnyAsid(p) == Drop({k \in Keys : k[1] = TagOf(p)})
InvalidateAsid(a) == Drop({k \in Keys : k[2] = a})
InvalidateAll == Drop(Keys)

Next ==
    \/ \E p \in Pages, a \in Asids : Lookup(p, a)
    \/ \E p \in Pages, a \in Asids, f \in Frames : Refill(p, a, f)
    \/ \E p \in Pages, a \in Asids : InvalidateVaddr(p, a)
    \/ \E p \in Pages : InvalidateVaddrAnyAsid(p)
    \/ \E a \in Asids : InvalidateAsid(a)
    \/ InvalidateAll

Spec == Init /\ [][Next]_tlbVars

-----------------------------------------------------------------------------
\* Properties

TypeOK ==
    /\ tlb = [l \in LevelIds |-> tlb[l]]
    /\ \A l \in LevelIds : tlb[l] \in [WayIds(l) -> Entries \cup {NoEntry}]
    /\ answer \in Frames \cup {NoFrame}

\* A level holds a key in one way at most, whatever was inserted, evicted and
\* invalidated before: otherwise updating the first match would leave a stale
\* twin behind it.
OneWayPerKey ==
    \A l \in LevelIds : \A v, w \in WayIds(l) :
        tlb[l][v] # NoEntry /\ tlb[l][w] # NoEntry /\ tlb[l][v].key = tlb[l][w].key
            => v = w

\* Levels that hold the same key hold the same translation for it: it does not
\* matter which of them answers, although evictions leave each with its own
\* set of keys.
LevelsAgree ==
    \A l, m \in LevelIds : \A v \in WayIds(l), w \in WayIds(m) :
        tlb[l][v] # NoEntry /\ tlb[m][w] # NoEntry /\ tlb[l][v].key = tlb[m][w].key
            => tlb[l][v].frame = tlb[m][w].frame

\* Refinement mapping: the translation that a page and an ASID are answered
\* with, by whatever level.
Holds(k, f) == \E l \in LevelIds : \E w \in WayIds(l) : tlb[l][w] = [key |-> k, frame |-> f]

PageKeys == Pages \X Asids
Known == [j \in PageKeys |-> LET k == KeyOf(j[1], j[2]) IN
                            IF \E f \in Frames : Holds(k, f)
                            THEN CHOOSE f \in Frames : Holds(k, f)
                            ELSE NoFrame]

Cache == INSTANCE TranslationCache WITH Keys <- PageKeys, known <- Known

\* mmu-tlb-lookup-insert: the stack of levels is a lossy memory of the latest
\* refills of every page; a lookup never returns a translation of another page
\* or one that was replaced or invalidated in any level.  It is one as long as
\* no two pages share a tag; pages that do are answered for one another.
ImplementsCache == Cache!Spec
=============================================================================
