---------------------------- MODULE Memory_proof ----------------------------
(***************************************************************************)
(* Proofs about the memory system.                                         *)
(*                                                                         *)
(* The TLM backend: the look-aside buffers, for any number of levels of    *)
(* any sizes with and without shadow fill; the MMU over them, in the       *)
(* pipeline and behind its adapter; the L1 cache.  For any pages and page  *)
(* tables, any sets, tags and ids.                                         *)
(*                                                                         *)
(* The CH_MEM backend: both page-table walkers, for any page numbers and   *)
(* any sequence of entries, and the TLB, for any number of lanes and any   *)
(* pages.                                                                  *)
(***************************************************************************)
EXTENDS MmuBridge, L1CacheBridge, PtWalkFsm, ChmemTlb, TLAPS

-----------------------------------------------------------------------------
(* MultiLevelTlb *)

\* Without shadow fill only the deepest level is ever written.
UnfilledEmpty ==
    ~ShadowFill => \A l \in LevelIds \ {Depth} : \A w \in WayIds(l) : tlb[l][w] = NoEntry

\* The inductive invariant: TypeOK, the two properties and UnfilledEmpty,
\* without which a refill could leave an older translation in a level above.
IInv == TypeOK /\ OneWayPerKey /\ LevelsAgree /\ UnfilledEmpty

\* All entries for key k outside the levels of L hold translation f.
HeldElsewhere(L, k, f) ==
    \A l \in LevelIds \ L : \A w \in WayIds(l) :
        tlb[l][w] # NoEntry /\ tlb[l][w].key = k => tlb[l][w].frame = f

\* What an insert of (k, f) makes of level l: one way holds the new entry,
\* the others are what they were and are not for k.
InsertedAt(l, k, f) ==
    \E w \in WayIds(l) :
        /\ tlb'[l] = [tlb[l] EXCEPT ![w] = [key |-> k, frame |-> f]]
        /\ \A v \in WayIds(l) \ {w} : tlb[l][v] # NoEntry => tlb[l][v].key # k

-----------------------------------------------------------------------------

LEMMA InsertEffect ==
    ASSUME IInv, NEW L \in SUBSET LevelIds, NEW k \in Keys, NEW f \in Frames,
           InsertInto(L, k, f)
    PROVE  /\ tlb' = [l \in LevelIds |-> tlb'[l]]
           /\ \A l \in LevelIds \ L : tlb'[l] = tlb[l]
           /\ \A l \in L : InsertedAt(l, k, f)
<1>1. PICK slot \in [LevelIds -> AllWays] :
        /\ \A l \in L : slot[l] \in Slot(tlb[l], k)
        /\ tlb' = [l \in LevelIds |->
                     IF l \in L THEN [tlb[l] EXCEPT ![slot[l]] = [key |-> k, frame |-> f]]
                     ELSE tlb[l]]
  BY DEF InsertInto
<1>2. ASSUME NEW l \in L PROVE InsertedAt(l, k, f)
  <2>1. tlb'[l] = [tlb[l] EXCEPT ![slot[l]] = [key |-> k, frame |-> f]]
    BY <1>1
  <2>2. DOMAIN tlb[l] = WayIds(l)
    BY DEF IInv, TypeOK
  <2>3. Ways[l] \in Nat \ {0}
    BY ConstantsAssumption
  <2>4. slot[l] \in WayIds(l)
    <3>1. slot[l] \in FirstOf(Matching(tlb[l], k)) \cup FirstOf(Free(tlb[l])) \cup {1}
      BY <1>1 DEF Slot, Victim
    <3>2. slot[l] \in DOMAIN tlb[l] \cup {1}
      BY <3>1 DEF FirstOf, Matching, Free
    <3>3. 1 \in WayIds(l)
      BY <2>3 DEF WayIds
    <3>4. QED BY <3>2, <3>3, <2>2
  <2>5. ASSUME NEW v \in WayIds(l) \ {slot[l]}, tlb[l][v] # NoEntry PROVE tlb[l][v].key # k
    <3>1. CASE Matching(tlb[l], k) = {}
      BY <3>1, <2>2, <2>5 DEF Matching
    <3>2. CASE Matching(tlb[l], k) # {}
      <4>1. slot[l] \in Matching(tlb[l], k)
        BY <1>1, <3>2 DEF Slot, FirstOf
      <4>2. QED BY <4>1, <2>2, <2>5 DEF Matching, IInv, OneWayPerKey
    <3>3. QED BY <3>1, <3>2
  <2>6. QED BY <2>1, <2>4, <2>5 DEF InsertedAt
<1>3. QED BY <1>1, <1>2

LEMMA InsertPreserves ==
    ASSUME IInv, NEW L \in SUBSET LevelIds, NEW k \in Keys, NEW f \in Frames,
           InsertInto(L, k, f), HeldElsewhere(L, k, f), ~ShadowFill => L \subseteq {Depth},
           answer' \in Frames \cup {NoFrame}
    PROVE  IInv'
<1>1. /\ tlb' = [l \in LevelIds |-> tlb'[l]]
      /\ \A l \in LevelIds \ L : tlb'[l] = tlb[l]
      /\ \A l \in L : InsertedAt(l, k, f)
  BY InsertEffect
<1>2. [key |-> k, frame |-> f] \in Entries /\ [key |-> k, frame |-> f] # NoEntry
  BY EntryAssumption DEF Entries
<1>3. \A l \in LevelIds : tlb[l] \in [WayIds(l) -> Entries \cup {NoEntry}]
  BY DEF IInv, TypeOK
<1>4. TypeOK'
  <2>1. ASSUME NEW l \in LevelIds PROVE tlb'[l] \in [WayIds(l) -> Entries \cup {NoEntry}]
    <3>1. CASE l \in L
      <4>1. PICK w \in WayIds(l) : tlb'[l] = [tlb[l] EXCEPT ![w] = [key |-> k, frame |-> f]]
        BY <1>1, <3>1 DEF InsertedAt
      <4>2. QED BY <4>1, <1>2, <1>3
    <3>2. QED BY <3>1, <1>1, <1>3
  <2>2. QED BY <2>1, <1>1 DEF TypeOK, WayIds, Entries, Keys
\* An entry of the new state is the one inserted, or is old and for another
\* key, or is old in a level that was not written.
<1>5. ASSUME NEW l \in LevelIds, NEW w \in WayIds(l), tlb'[l][w] # NoEntry
      PROVE  \/ tlb'[l][w] = [key |-> k, frame |-> f]
             \/ tlb'[l][w] = tlb[l][w] /\ tlb[l][w].key # k
             \/ tlb'[l][w] = tlb[l][w] /\ tlb[l][w].key = k /\ tlb[l][w].frame = f
  <2>1. CASE l \in L
    <3>1. PICK u \in WayIds(l) :
            /\ tlb'[l] = [tlb[l] EXCEPT ![u] = [key |-> k, frame |-> f]]
            /\ \A v \in WayIds(l) \ {u} : tlb[l][v] # NoEntry => tlb[l][v].key # k
      BY <1>1, <2>1 DEF InsertedAt
    <3>2. QED BY <3>1, <1>3, <1>5
  <2>2. CASE l \notin L
    BY <2>2, <1>1, <1>5 DEF HeldElsewhere
  <2>3. QED BY <2>1, <2>2
<1>6. OneWayPerKey'
  <2>1. ASSUME NEW l \in LevelIds, NEW v \in WayIds(l), NEW w \in WayIds(l),
               tlb'[l][v] # NoEntry, tlb'[l][w] # NoEntry, tlb'[l][v].key = tlb'[l][w].key
        PROVE  v = w
    <3>1. CASE l \in L
      <4>1. PICK u \in WayIds(l) :
              /\ tlb'[l] = [tlb[l] EXCEPT ![u] = [key |-> k, frame |-> f]]
              /\ \A x \in WayIds(l) \ {u} : tlb[l][x] # NoEntry => tlb[l][x].key # k
        BY <1>1, <3>1 DEF InsertedAt
      <4>2. QED BY <4>1, <1>3, <2>1 DEF IInv, OneWayPerKey
    <3>2. QED BY <3>1, <1>1, <2>1 DEF IInv, OneWayPerKey
  <2>2. QED BY <2>1 DEF OneWayPerKey, WayIds
<1>7. LevelsAgree'
  <2>1. ASSUME NEW l \in LevelIds, NEW m \in LevelIds, NEW v \in WayIds(l), NEW w \in WayIds(m),
               tlb'[l][v] # NoEntry, tlb'[m][w] # NoEntry, tlb'[l][v].key = tlb'[m][w].key
        PROVE  tlb'[l][v].frame = tlb'[m][w].frame
    BY <1>5, <2>1 DEF IInv, LevelsAgree
  <2>2. QED BY <2>1 DEF LevelsAgree, WayIds
<1>8. UnfilledEmpty'
  BY <1>1 DEF IInv, UnfilledEmpty, WayIds
<1>9. QED BY <1>4, <1>6, <1>7, <1>8 DEF IInv

LEMMA DropPreserves ==
    ASSUME IInv, NEW S, Drop(S) PROVE IInv'
<1>1. \A l \in LevelIds : \A w \in WayIds(l) :
        tlb'[l][w] = IF tlb[l][w] # NoEntry /\ tlb[l][w].key \in S THEN NoEntry ELSE tlb[l][w]
  BY DEF Drop, WayIds
<1>2. \A l \in LevelIds : \A w \in WayIds(l) : tlb'[l][w] \in {tlb[l][w], NoEntry}
  BY <1>1
<1>3. TypeOK'
  <2>1. \A l \in LevelIds : tlb'[l] = [w \in WayIds(l) |-> tlb'[l][w]]
    BY DEF Drop
  <2>2. \A l \in LevelIds : tlb'[l] \in [WayIds(l) -> Entries \cup {NoEntry}]
    BY <2>1, <1>2 DEF IInv, TypeOK
  <2>3. QED BY <2>2 DEF IInv, TypeOK, Drop, WayIds, Entries, Keys
<1>4. OneWayPerKey' /\ LevelsAgree' /\ UnfilledEmpty'
  BY <1>2 DEF IInv, OneWayPerKey, LevelsAgree, UnfilledEmpty, WayIds
<1>5. QED BY <1>3, <1>4 DEF IInv

-----------------------------------------------------------------------------

LEMMA KeyOfType ==
    ASSUME NEW p \in Pages, NEW a \in Asids PROVE KeyOf(p, a) \in Keys
  BY DEF KeyOf, Keys

\* A refill writes every level that can hold the key.
LEMMA RefillElsewhere ==
    ASSUME IInv, NEW k \in Keys, NEW f \in Frames
    PROVE  /\ RefilledLevels \in SUBSET LevelIds
           /\ HeldElsewhere(RefilledLevels, k, f)
           /\ ~ShadowFill => RefilledLevels \subseteq {Depth}
           /\ RefilledLevels # {}
<1>1. Depth \in LevelIds
  BY ConstantsAssumption DEF LevelIds
<1>2. CASE ShadowFill
  BY <1>1, <1>2 DEF RefilledLevels, HeldElsewhere
<1>3. CASE ~ShadowFill
  BY <1>1, <1>3 DEF RefilledLevels, HeldElsewhere, IInv, UnfilledEmpty
<1>4. QED BY <1>2, <1>3

\* A hit answers with a translation that all other entries for the key hold.
LEMMA HitElsewhere ==
    ASSUME IInv, NEW p \in Pages, NEW a \in Asids, Hit(p, a)
    PROVE  \E d \in LevelIds, f \in Frames :
              /\ answer' = f
              /\ Holds(KeyOf(p, a), f)
              /\ FilledByHit(d) \in SUBSET LevelIds
              /\ InsertInto(FilledByHit(d), KeyOf(p, a), f)
              /\ \A L \in SUBSET LevelIds : HeldElsewhere(L, KeyOf(p, a), f)
              /\ ~ShadowFill => FilledByHit(d) \subseteq {Depth}
<1> DEFINE k == KeyOf(p, a)
<1>1. PICK d \in HitLevels(k) : \E w \in FirstOf(Matching(tlb[d], k)) :
        /\ answer' = tlb[d][w].frame
        /\ InsertInto(FilledByHit(d), k, tlb[d][w].frame)
  BY DEF Hit
<1>2. PICK w \in FirstOf(Matching(tlb[d], k)) :
        /\ answer' = tlb[d][w].frame
        /\ InsertInto(FilledByHit(d), k, tlb[d][w].frame)
  BY <1>1
<1>3. d \in LevelIds
  BY <1>1 DEF HitLevels
<1>4. w \in WayIds(d) /\ tlb[d][w] # NoEntry /\ tlb[d][w].key = k
  BY <1>2, <1>3 DEF FirstOf, Matching, IInv, TypeOK
<1>5. tlb[d][w] \in Entries
  BY <1>3, <1>4 DEF IInv, TypeOK
<1>6. tlb[d][w].frame \in Frames /\ tlb[d][w] = [key |-> k, frame |-> tlb[d][w].frame]
  BY <1>4, <1>5 DEF Entries
<1>7. Holds(k, tlb[d][w].frame)
  BY <1>3, <1>4, <1>6 DEF Holds
<1>8. \A L \in SUBSET LevelIds : HeldElsewhere(L, k, tlb[d][w].frame)
  BY <1>3, <1>4 DEF HeldElsewhere, IInv, LevelsAgree
<1>9. FilledByHit(d) \in SUBSET LevelIds /\ (~ShadowFill => FilledByHit(d) \subseteq {Depth})
  BY DEF FilledByHit
<1>10. QED BY <1>2, <1>3, <1>6, <1>7, <1>8, <1>9

LEMMA NextPreserves == IInv /\ [Next]_tlbVars => IInv'
<1> SUFFICES ASSUME IInv, [Next]_tlbVars PROVE IInv'
  OBVIOUS
<1>1. CASE UNCHANGED tlbVars
  BY <1>1 DEF tlbVars, IInv, TypeOK, OneWayPerKey, LevelsAgree, UnfilledEmpty, WayIds
<1>2. ASSUME NEW p \in Pages, NEW a \in Asids, Miss(p, a) PROVE IInv'
  BY <1>2 DEF Miss, IInv, TypeOK, OneWayPerKey, LevelsAgree, UnfilledEmpty, WayIds
<1>3. ASSUME NEW p \in Pages, NEW a \in Asids, Hit(p, a) PROVE IInv'
  <2>1. PICK d \in LevelIds, f \in Frames :
           /\ answer' = f
           /\ FilledByHit(d) \in SUBSET LevelIds
           /\ InsertInto(FilledByHit(d), KeyOf(p, a), f)
           /\ HeldElsewhere(FilledByHit(d), KeyOf(p, a), f)
           /\ ~ShadowFill => FilledByHit(d) \subseteq {Depth}
    BY <1>3, HitElsewhere
  <2>2. QED BY <2>1, KeyOfType, InsertPreserves
<1>4. ASSUME NEW p \in Pages, NEW a \in Asids, NEW f \in Frames, Refill(p, a, f) PROVE IInv'
  <2>1. answer' \in Frames \cup {NoFrame}
    BY <1>4 DEF Refill, IInv, TypeOK
  <2>2. QED BY <1>4, <2>1, KeyOfType, RefillElsewhere, InsertPreserves DEF Refill
<1>5. ASSUME NEW p \in Pages, NEW a \in Asids, InvalidateVaddr(p, a) PROVE IInv'
  BY <1>5, DropPreserves DEF InvalidateVaddr
<1>6. ASSUME NEW p \in Pages, InvalidateVaddrAnyAsid(p) PROVE IInv'
  BY <1>6, DropPreserves DEF InvalidateVaddrAnyAsid
<1>7. ASSUME NEW a \in Asids, InvalidateAsid(a) PROVE IInv'
  BY <1>7, DropPreserves DEF InvalidateAsid
<1>8. CASE InvalidateAll
  BY <1>8, DropPreserves DEF InvalidateAll
<1>9. QED BY <1>1, <1>2, <1>3, <1>4, <1>5, <1>6, <1>7, <1>8 DEF Next, Lookup

LEMMA InitHolds == Init => IInv
  BY ConstantsAssumption DEF Init, IInv, TypeOK, OneWayPerKey, LevelsAgree, UnfilledEmpty

\* The inductive invariant holds in every reachable state.
THEOREM Invariance == Spec => []IInv
  BY InitHolds, NextPreserves, PTL DEF Spec

\* The levels keep their shape.
THEOREM Typing == Spec => []TypeOK
  BY Invariance, PTL DEF IInv

\* insert_from and the invalidations never leave a key in two ways of a level.
THEOREM OneWay == Spec => []OneWayPerKey
  BY Invariance, PTL DEF IInv

\* Every level that knows a key knows the same translation for it, so that
\* "the deepest hit answers" is as good as any other choice.
THEOREM Agreement == Spec => []LevelsAgree
  BY Invariance, PTL DEF IInv

-----------------------------------------------------------------------------
\* The translation kept under a tag and an ASID, and what the entries say of
\* it now and after a step.
TagKnown == [k \in Keys |-> IF \E f \in Frames : Holds(k, f)
                            THEN CHOOSE f \in Frames : Holds(k, f)
                            ELSE NoFrame]

LEMMA KnownNow ==
    ASSUME IInv, NEW k \in Keys
    PROVE  /\ \A f \in Frames : Holds(k, f) => TagKnown[k] = f
           /\ (\A f \in Frames : ~Holds(k, f)) => TagKnown[k] = NoFrame
           /\ TagKnown[k] # NoFrame => TagKnown[k] \in Frames /\ Holds(k, TagKnown[k])
<1>1. \A f, g \in Frames : Holds(k, f) /\ Holds(k, g) => f = g
  <2>1. ASSUME NEW f \in Frames, NEW g \in Frames, Holds(k, f), Holds(k, g) PROVE f = g
    <3>1. [key |-> k, frame |-> f] # NoEntry /\ [key |-> k, frame |-> g] # NoEntry
      BY EntryAssumption DEF Entries
    <3>2. QED BY <2>1, <3>1 DEF Holds, IInv, LevelsAgree
  <2>2. QED BY <2>1
<1>2. QED BY <1>1, ConstantsAssumption DEF TagKnown

LEMMA KnownNext ==
    ASSUME IInv', NEW k \in Keys
    PROVE  /\ \A f \in Frames : Holds(k, f)' => TagKnown'[k] = f
           /\ (\A f \in Frames : ~Holds(k, f)') => TagKnown'[k] = NoFrame
           /\ TagKnown'[k] # NoFrame => TagKnown'[k] \in Frames /\ \E f \in Frames : f = TagKnown'[k] /\ Holds(k, f)'
<1>1. \A f, g \in Frames : Holds(k, f)' /\ Holds(k, g)' => f = g
  <2>1. ASSUME NEW f \in Frames, NEW g \in Frames, Holds(k, f)', Holds(k, g)' PROVE f = g
    <3>1. [key |-> k, frame |-> f] # NoEntry /\ [key |-> k, frame |-> g] # NoEntry
      BY EntryAssumption DEF Entries
    <3>2. QED BY <2>1, <3>1 DEF Holds, IInv, LevelsAgree, WayIds
  <2>2. QED BY <2>1
<1>2. QED BY <1>1, ConstantsAssumption DEF TagKnown, Holds, WayIds

LEMMA KnownType ==
    /\ IInv => TagKnown \in [Keys -> Frames \cup {NoFrame}]
    /\ IInv' => TagKnown' \in [Keys -> Frames \cup {NoFrame}]
<1>1. TagKnown = [k \in Keys |-> TagKnown[k]] /\ TagKnown' = [k \in Keys |-> TagKnown'[k]]
  BY DEF TagKnown
<1>2. ASSUME IInv PROVE \A k \in Keys : TagKnown[k] \in Frames \cup {NoFrame}
  BY <1>2, KnownNow
<1>3. ASSUME IInv' PROVE \A k \in Keys : TagKnown'[k] \in Frames \cup {NoFrame}
  BY <1>3, KnownNext
<1>4. QED BY <1>1, <1>2, <1>3

\* An insert of (k, f) teaches nothing about other keys, and leaves k known as
\* f if some level was written or k was known as f before.
LEMMA InsertForgets ==
    ASSUME IInv, IInv', NEW L \in SUBSET LevelIds, NEW k \in Keys, NEW f \in Frames,
           InsertInto(L, k, f), L # {} \/ Holds(k, f)
    PROVE  /\ TagKnown'[k] = f
           /\ \A j \in Keys \ {k} : TagKnown'[j] \in {TagKnown[j], NoFrame}
<1>1. /\ \A l \in LevelIds \ L : tlb'[l] = tlb[l]
      /\ \A l \in L : InsertedAt(l, k, f)
  BY InsertEffect
<1>2. \A l \in LevelIds : tlb[l] \in [WayIds(l) -> Entries \cup {NoEntry}]
  BY DEF IInv, TypeOK
<1>3. Holds(k, f)'
  <2>1. CASE L # {}
    <3>1. PICK l \in L : InsertedAt(l, k, f)
      BY <1>1, <2>1
    <3>2. QED BY <3>1, <1>2 DEF InsertedAt, Holds, WayIds
  <2>2. CASE L = {}
    BY <2>2, <1>1 DEF Holds, WayIds
  <2>3. QED BY <2>1, <2>2
<1>4. ASSUME NEW j \in Keys \ {k}, TagKnown'[j] # NoFrame PROVE TagKnown'[j] = TagKnown[j]
  <2>1. PICK g \in Frames : g = TagKnown'[j] /\ Holds(j, g)'
    BY <1>4, KnownNext
  <2>2. PICK l, w : l \in LevelIds /\ w \in WayIds(l) /\ tlb'[l][w] = [key |-> j, frame |-> g]
    BY <2>1 DEF Holds, WayIds
  <2>3. tlb[l][w] = [key |-> j, frame |-> g]
    <3>1. CASE l \in L
      <4>1. PICK u \in WayIds(l) : tlb'[l] = [tlb[l] EXCEPT ![u] = [key |-> k, frame |-> f]]
        BY <1>1, <3>1 DEF InsertedAt
      <4>2. u # w
        BY <4>1, <2>2, <1>2
      <4>3. QED BY <4>1, <4>2, <2>2, <1>2
    <3>2. QED BY <3>1, <1>1, <2>2
  <2>4. Holds(j, g)
    BY <2>2, <2>3 DEF Holds
  <2>5. QED BY <2>1, <2>4, KnownNow
<1>5. QED BY <1>3, <1>4, KnownNext

\* Dropping the keys of S makes exactly them unknown.
LEMMA DropForgets ==
    ASSUME IInv, IInv', NEW S \in SUBSET Keys, Drop(S)
    PROVE  \A k \in Keys : TagKnown'[k] = IF k \in S THEN NoFrame ELSE TagKnown[k]
<1>1. \A l \in LevelIds : \A w \in WayIds(l) :
        tlb'[l][w] = IF tlb[l][w] # NoEntry /\ tlb[l][w].key \in S THEN NoEntry ELSE tlb[l][w]
  BY DEF Drop, WayIds
<1>2. \A k \in Keys, f \in Frames : [key |-> k, frame |-> f] # NoEntry
  BY EntryAssumption DEF Entries
<1>3. ASSUME NEW k \in Keys, NEW f \in Frames
      PROVE  Holds(k, f)' <=> k \notin S /\ Holds(k, f)
  <2>1. ASSUME Holds(k, f)' PROVE k \notin S /\ Holds(k, f)
    <3>1. PICK l, w : l \in LevelIds /\ w \in WayIds(l) /\ tlb'[l][w] = [key |-> k, frame |-> f]
      BY <2>1 DEF Holds, WayIds
    <3>2. tlb[l][w] = [key |-> k, frame |-> f] /\ k \notin S
      BY <3>1, <1>1, <1>2
    <3>3. QED BY <3>1, <3>2 DEF Holds
  <2>2. ASSUME k \notin S, Holds(k, f) PROVE Holds(k, f)'
    <3>1. PICK l, w : l \in LevelIds /\ w \in WayIds(l) /\ tlb[l][w] = [key |-> k, frame |-> f]
      BY <2>2 DEF Holds
    <3>2. tlb'[l][w] = [key |-> k, frame |-> f]
      BY <3>1, <1>1, <2>2
    <3>3. QED BY <3>1, <3>2 DEF Holds, WayIds
  <2>3. QED BY <2>1, <2>2
<1>4. QED BY <1>3, KnownNow, KnownNext

\* No two pages share a tag: the premise of what is said of pages, which the
\* lookup itself does not know.
OwnTags == \A p, q \in Pages : TagOf(p) = TagOf(q) => p = q

\* The refinement mapping, page by page.
LEMMA PagesKnown ==
    ASSUME NEW p \in Pages, NEW a \in Asids
    PROVE  /\ <<p, a>> \in PageKeys /\ KeyOf(p, a) \in Keys
           /\ Known[<<p, a>>] = TagKnown[KeyOf(p, a)]
           /\ Known'[<<p, a>>] = TagKnown'[KeyOf(p, a)]
<1>1. <<p, a>> \in PageKeys /\ KeyOf(p, a) \in Keys
  BY KeyOfType DEF PageKeys
<1>2. Known[<<p, a>>] = TagKnown[KeyOf(p, a)]
  BY <1>1 DEF Known, TagKnown
<1>3. Known'[<<p, a>>] = TagKnown'[KeyOf(p, a)]
  BY <1>1 DEF Known, TagKnown, Holds, WayIds
<1> QED BY <1>1, <1>2, <1>3

LEMMA MappingType ==
    ASSUME IInv, IInv'
    PROVE  /\ Known \in [PageKeys -> Frames \cup {NoFrame}]
           /\ Known' \in [PageKeys -> Frames \cup {NoFrame}]
<1>1. Known = [j \in PageKeys |-> Known[j]] /\ Known' = [j \in PageKeys |-> Known'[j]]
  BY DEF Known
<1>2. \A j \in PageKeys : \E p \in Pages, a \in Asids : j = <<p, a>>
  BY DEF PageKeys
<1>3. ASSUME NEW p \in Pages, NEW a \in Asids
      PROVE  Known[<<p, a>>] \in Frames \cup {NoFrame} /\ Known'[<<p, a>>] \in Frames \cup {NoFrame}
  BY PagesKnown, KnownType
<1> QED BY <1>1, <1>2, <1>3

\* What a page forgets when its tag does.
LEMMA PagesForget ==
    ASSUME OwnTags, NEW p \in Pages, NEW a \in Asids,
           \A k \in Keys \ {KeyOf(p, a)} : TagKnown'[k] \in {TagKnown[k], NoFrame}
    PROVE  \A j \in PageKeys \ {<<p, a>>} : Known'[j] \in {Known[j], NoFrame}
<1> SUFFICES ASSUME NEW q \in Pages, NEW b \in Asids, <<q, b>> # <<p, a>>
             PROVE  Known'[<<q, b>>] \in {Known[<<q, b>>], NoFrame}
  BY DEF PageKeys
<1>1. KeyOf(q, b) # KeyOf(p, a)
  BY DEF OwnTags, KeyOf
<1> QED BY <1>1, PagesKnown

\* Dropping keys is an invalidation of the pages that have them.
LEMMA DropInvalidates ==
    ASSUME IInv, IInv', NEW S \in SUBSET Keys, Drop(S)
    PROVE  \E T \in SUBSET PageKeys : Cache!Invalidate(T)
<1> DEFINE T == {j \in PageKeys : KeyOf(j[1], j[2]) \in S}
<1>1. ASSUME NEW p \in Pages, NEW a \in Asids
      PROVE  Known'[<<p, a>>] = IF <<p, a>> \in T THEN NoFrame ELSE Known[<<p, a>>]
  <2>1. <<p, a>> \in T <=> KeyOf(p, a) \in S
    BY PagesKnown
  <2> QED BY <2>1, PagesKnown, DropForgets
<1>2. Known' = [j \in PageKeys |-> Known'[j]]
  BY DEF Known
<1>3. \A j \in PageKeys : \E p \in Pages, a \in Asids : j = <<p, a>>
  BY DEF PageKeys
<1>4. answer' = answer
  BY DEF Drop
<1> HIDE DEF T
<1>5. \A j \in PageKeys : Known'[j] = IF j \in T THEN NoFrame ELSE Known[j]
  BY <1>1, <1>3
<1>6. Known' = [j \in PageKeys |-> IF j \in T THEN NoFrame ELSE Known[j]]
  BY <1>2, <1>5
<1>7. Cache!Invalidate(T)
  BY <1>4, <1>6 DEF Cache!Invalidate
<1> QED BY <1>7 DEF T

LEMMA StepRefines ==
    ASSUME OwnTags, IInv, IInv', [Next]_tlbVars
    PROVE  [Cache!Next]_(Cache!vars)
<1>1. CASE UNCHANGED tlbVars
  BY <1>1 DEF tlbVars, Cache!vars, Known, Holds, WayIds
<1>2. ASSUME NEW p \in Pages, NEW a \in Asids, Miss(p, a) PROVE Cache!Next
  <2>1. \A f \in Frames : ~Holds(KeyOf(p, a), f)
    <3>1. ASSUME NEW f \in Frames, Holds(KeyOf(p, a), f) PROVE FALSE
      <4>1. PICK l, w : l \in LevelIds /\ w \in WayIds(l) /\ tlb[l][w] = [key |-> KeyOf(p, a), frame |-> f]
        BY <3>1 DEF Holds
      <4>2. tlb[l][w] # NoEntry
        BY <4>1, KeyOfType, EntryAssumption DEF Entries
      <4>3. w \in Matching(tlb[l], KeyOf(p, a))
        BY <4>1, <4>2 DEF Matching, IInv, TypeOK
      <4>4. QED BY <4>1, <4>3, <1>2 DEF Miss, HitLevels
    <3>2. QED BY <3>1
  <2>2. Known[<<p, a>>] = NoFrame
    BY <2>1, KeyOfType, KnownNow, PagesKnown
  <2>3. Known' = Known /\ answer' = NoFrame
    BY <1>2 DEF Miss, Known, Holds, WayIds
  <2>4. Cache!Lookup(<<p, a>>)
    BY <2>2, <2>3, MappingType DEF Cache!Lookup, Cache!ForgetsOutside
  <2>5. QED BY <2>4, PagesKnown DEF Cache!Next
<1>3. ASSUME NEW p \in Pages, NEW a \in Asids, Hit(p, a) PROVE Cache!Next
  <2>1. PICK d \in LevelIds, f \in Frames :
           /\ answer' = f
           /\ Holds(KeyOf(p, a), f)
           /\ FilledByHit(d) \in SUBSET LevelIds
           /\ InsertInto(FilledByHit(d), KeyOf(p, a), f)
           /\ HeldElsewhere(FilledByHit(d), KeyOf(p, a), f)
    BY <1>3, HitElsewhere
  <2>2. Known[<<p, a>>] = f
    BY <2>1, KeyOfType, KnownNow, PagesKnown
  <2>3. /\ TagKnown'[KeyOf(p, a)] = f
        /\ \A k \in Keys \ {KeyOf(p, a)} : TagKnown'[k] \in {TagKnown[k], NoFrame}
    BY <2>1, KeyOfType, InsertForgets
  <2>4. /\ Known'[<<p, a>>] = f
        /\ \A j \in PageKeys \ {<<p, a>>} : Known'[j] \in {Known[j], NoFrame}
    BY <2>3, PagesKnown, PagesForget
  <2>5. Cache!Lookup(<<p, a>>)
    BY <2>1, <2>2, <2>4, MappingType DEF Cache!Lookup, Cache!ForgetsOutside
  <2>6. QED BY <2>5, PagesKnown DEF Cache!Next
<1>4. ASSUME NEW p \in Pages, NEW a \in Asids, NEW f \in Frames, Refill(p, a, f)
      PROVE  Cache!Next
  <2>1. InsertInto(RefilledLevels, KeyOf(p, a), f) /\ answer' = answer
    BY <1>4 DEF Refill
  <2>2. /\ TagKnown'[KeyOf(p, a)] = f
        /\ \A k \in Keys \ {KeyOf(p, a)} : TagKnown'[k] \in {TagKnown[k], NoFrame}
    BY <2>1, KeyOfType, RefillElsewhere, InsertForgets
  <2>3. /\ Known'[<<p, a>>] = f
        /\ \A j \in PageKeys \ {<<p, a>>} : Known'[j] \in {Known[j], NoFrame}
    BY <2>2, PagesKnown, PagesForget
  <2>4. Cache!Refill(<<p, a>>, f)
    BY <2>1, <2>3, MappingType DEF Cache!Refill, Cache!ForgetsOutside
  <2>5. QED BY <2>4, PagesKnown DEF Cache!Next
<1>5. ASSUME NEW S \in SUBSET Keys, Drop(S) PROVE Cache!Next
  BY <1>5, DropInvalidates DEF Cache!Next
<1>6. ASSUME NEW p \in Pages, NEW a \in Asids, InvalidateVaddr(p, a) PROVE Cache!Next
  BY <1>6, <1>5, KeyOfType DEF InvalidateVaddr
<1>7. ASSUME NEW p \in Pages, InvalidateVaddrAnyAsid(p) PROVE Cache!Next
  BY <1>7, <1>5 DEF InvalidateVaddrAnyAsid
<1>8. ASSUME NEW a \in Asids, InvalidateAsid(a) PROVE Cache!Next
  BY <1>8, <1>5 DEF InvalidateAsid
<1>9. CASE InvalidateAll
  BY <1>9, <1>5 DEF InvalidateAll
<1>10. QED
  BY <1>1, <1>2, <1>3, <1>4, <1>6, <1>7, <1>8, <1>9 DEF Next, Lookup

LEMMA InitRefines == Init => Cache!Init
<1> SUFFICES ASSUME Init PROVE Cache!Init
  OBVIOUS
<1>1. \A k \in Keys, f \in Frames : ~Holds(k, f)
  BY EntryAssumption DEF Init, Holds, Entries
<1>2. \A p \in Pages, a \in Asids : KeyOf(p, a) \in Keys
  BY KeyOfType
<1>3. \A j \in PageKeys : KeyOf(j[1], j[2]) \in Keys
  BY <1>2 DEF PageKeys
<1>4. QED BY <1>1, <1>3 DEF Init, Cache!Init, Known

\* While no two pages share a tag the levels, through lookups, shadow fills,
\* refills, evictions and all four invalidations, are one lossy memory of the
\* latest refills of every page.
THEOREM Refinement ==
    ASSUME OwnTags
    PROVE  Spec => ImplementsCache
  BY InitRefines, StepRefines, InitHolds, NextPreserves, PTL
     DEF Spec, ImplementsCache, Cache!Spec

-----------------------------------------------------------------------------
\* MmuPlugin: the inductive invariant

\* A walk is one level deep for every step of the walker since its lookup, and
\* walks the tables of the present satp.
WalkInRun ==
    walk.busy => /\ walk \in Walks
                 /\ walk.root = satp
                 /\ step \in 3 .. 6
                 /\ walk.level = IF step = 3 THEN 0 ELSE step - 4

MmuInv ==
    /\ MmuTypeOK
    /\ IInv
    /\ WalkInRun
    /\ TlbMatchesSatp

\* MmuBridge: both lookups are for the request's address, so a walk that the
\* instruction lookup starts is taken over by the other lookup, and the
\* instruction lookup's node never sees a fault.
OneAddress ==
    /\ req \in Asked
    /\ walk.busy => walk.page = req.ifetch
    /\ walk.busy /\ step = 3 => HitLevels(KeyOf(req.ifetch, req.asid)) = {}
    /\ walk.busy /\ step # 3 => walk.side = "loadstore"
    /\ ~node["ifetch"].fault

\* A request that has a frame is in the TLB from the end of its first run on,
\* and the instruction lookup of its second run finds it there.
KnownAfterRun ==
    Table[satp][req.ifetch] # NoFrame =>
        /\ runs > 0 /\ (step # 2 \/ runs = 2) /\ ~walk.busy =>
               HitLevels(KeyOf(req.ifetch, req.asid)) # {}
        /\ runs = 2 /\ step > 2 => /\ step = 3 => ~walk.busy
                                   /\ node["ifetch"].paddr = Table[satp][req.ifetch]

BridgeInv ==
    /\ MmuInv
    /\ satp \in Roots
    /\ runs \in 0 .. 2
    /\ req_in \in Asked \cup {None}
    /\ step \in 2 .. 7 => runs > 0
    /\ OneAddress
    /\ KnownAfterRun

-----------------------------------------------------------------------------
\* MmuPlugin: the look-aside buffers

\* The request of a run asks both lookups for pages under an ASID.
LEMMA RequestTypes ==
    ASSUME NEW r \in Requests
    PROVE  /\ r.asid \in Asids
           /\ \A s \in Sides : r[s] \in Pages
BY MmuAssumption DEF Sides

\* A write of the TLB that adds at most a translation satp's tables have, and
\* leaves satp alone.
TeachesSatp ==
    \A l \in LevelIds : \A w \in WayIds(l) :
        \/ tlb'[l][w] \in {tlb[l][w], NoEntry}
        \/ /\ satp # Bare
           /\ \E q \in Pages : /\ TagOf(q) = tlb'[l][w].key[1]
                               /\ Table[satp][q] = tlb'[l][w].frame

LEMMA TeachingKeeps ==
    ASSUME TlbMatchesSatp, TeachesSatp, satp' = satp
    PROVE  TlbMatchesSatp'
BY DEF TlbMatchesSatp, TeachesSatp, WayIds, TagOf

\* An insert under a key writes an entry for that key or nothing.
LEMMA InsertTeaches ==
    ASSUME IInv, NEW L \in SUBSET LevelIds, NEW k \in Keys, NEW f \in Frames,
           InsertInto(L, k, f), satp # Bare,
           \E q \in Pages : TagOf(q) = k[1] /\ Table[satp][q] = f
    PROVE  TeachesSatp
<1>1. /\ \A l \in LevelIds \ L : tlb'[l] = tlb[l]
      /\ \A l \in L : InsertedAt(l, k, f)
  BY InsertEffect
<1> SUFFICES ASSUME NEW l \in LevelIds, NEW w \in WayIds(l)
             PROVE  tlb'[l][w] = tlb[l][w] \/ tlb'[l][w] = [key |-> k, frame |-> f]
  BY DEF TeachesSatp
<1>2. CASE l \in L
  <2>1. PICK v \in WayIds(l) : tlb'[l] = [tlb[l] EXCEPT ![v] = [key |-> k, frame |-> f]]
    BY <1>1, <1>2 DEF InsertedAt
  <2>2. DOMAIN tlb[l] = WayIds(l)
    BY DEF IInv, TypeOK
  <2> QED BY <2>1, <2>2
<1>3. CASE l \notin L
  BY <1>1, <1>3
<1> QED BY <1>2, <1>3

\* What a lookup that hits does to the TLB: it answers with a frame that satp's
\* tables have for a page of the tag, and copies it.
LEMMA HitTeaches ==
    ASSUME IInv, TlbMatchesSatp, satp # Bare,
           NEW p \in Pages, NEW a \in Asids, Hit(p, a)
    PROVE  /\ TeachesSatp
           /\ answer' \in Frames
           /\ \E q \in Pages : TagOf(q) = TagOf(p) /\ Table[satp][q] = answer'
           /\ IInv'
<1> DEFINE k == KeyOf(p, a)
<1>1. PICK d \in LevelIds, f \in Frames :
        /\ answer' = f
        /\ Holds(k, f)
        /\ FilledByHit(d) \in SUBSET LevelIds
        /\ InsertInto(FilledByHit(d), k, f)
  BY HitElsewhere
<1>2. k \in Keys /\ k[1] = TagOf(p)
  BY KeyOfType DEF KeyOf
<1>3. PICK l, w : /\ l \in LevelIds /\ w \in WayIds(l)
                /\ tlb[l][w] = [key |-> k, frame |-> f]
  BY <1>1 DEF Holds
<1>4. tlb[l][w] # NoEntry /\ tlb[l][w].key = k /\ tlb[l][w].frame = f
  BY <1>2, <1>3, EntryAssumption DEF Entries
<1>5. \E q \in Pages : TagOf(q) = k[1] /\ Table[satp][q] = f
  BY <1>3, <1>4 DEF TlbMatchesSatp
<1>6. TeachesSatp
  BY <1>1, <1>2, <1>5, InsertTeaches
<1>7. IInv'
  BY NextPreserves DEF Next, Lookup
<1> QED BY <1>1, <1>2, <1>5, <1>6, <1>7

\* A refill with a leaf of satp's tables.
LEMMA RefillTeaches ==
    ASSUME IInv, satp # Bare, NEW p \in Pages, NEW a \in Asids,
           Table[satp][p] \in Frames, Refill(p, a, Table[satp][p])
    PROVE  TeachesSatp /\ IInv' /\ answer' = answer
<1> DEFINE k == KeyOf(p, a)
<1>1. k \in Keys /\ k[1] = TagOf(p)
  BY KeyOfType DEF KeyOf
<1>2. RefilledLevels \in SUBSET LevelIds
  BY <1>1, RefillElsewhere
<1>3. TeachesSatp
  BY <1>1, <1>2, InsertTeaches DEF Refill
<1>4. IInv'
  BY NextPreserves DEF Next
<1> QED BY <1>3, <1>4 DEF Refill

\* Invalidations only take entries away; the one of satp leaves none.
LEMMA DropTeaches ==
    ASSUME IInv, NEW S, Drop(S)
    PROVE  TeachesSatp /\ IInv' /\ answer' = answer
<1>1. \A l \in LevelIds : \A w \in WayIds(l) : tlb'[l][w] \in {tlb[l][w], NoEntry}
  BY DEF Drop, WayIds
<1> QED BY <1>1, DropPreserves DEF TeachesSatp, Drop

LEMMA DropAllEmpties ==
    ASSUME IInv, Drop(Keys)
    PROVE  \A l \in LevelIds : \A w \in WayIds(l) : tlb'[l][w] = NoEntry
<1> SUFFICES ASSUME NEW l \in LevelIds, NEW w \in WayIds(l)
             PROVE  tlb'[l][w] = NoEntry
  OBVIOUS
<1>1. tlb[l][w] # NoEntry => tlb[l][w].key \in Keys
  BY DEF IInv, TypeOK, Entries
<1> QED BY <1>1 DEF Drop, WayIds

-----------------------------------------------------------------------------
\* MmuPlugin: lookups and the walker

NodeType == [vaddr : Pages \cup {NoFrame}, paddr : Frames \cup {NoFrame},
             valid : BOOLEAN, active : BOOLEAN, fault : BOOLEAN]

\* What the MMU's stages write into a node keeps its type.
LEMMA NodeTypes ==
    ASSUME node \in [Sides -> NodeType], NEW s \in Sides
    PROVE  /\ \A p \in Pages, f \in Frames :
                 /\ [node EXCEPT ![s].paddr = f, ![s].valid = TRUE, ![s].vaddr = p]
                      \in [Sides -> NodeType]
                 /\ [node EXCEPT ![s] = [@ EXCEPT !.paddr = f, !.valid = TRUE, !.vaddr = p,
                                                  !.active = FALSE]]
                      \in [Sides -> NodeType]
           /\ \A p \in Pages :
                 [node EXCEPT ![s] = [@ EXCEPT !.valid = FALSE, !.fault = TRUE, !.vaddr = p,
                                               !.active = FALSE]]
                   \in [Sides -> NodeType]
           /\ [node EXCEPT ![s].active = TRUE] \in [Sides -> NodeType]
<1>1. node[s] \in NodeType
  OBVIOUS
<1>2. \A n \in NodeType : [node EXCEPT ![s] = n] \in [Sides -> NodeType]
  OBVIOUS
<1>3. ASSUME NEW p \in Pages, NEW f \in Frames
      PROVE  /\ [node EXCEPT ![s].paddr = f, ![s].valid = TRUE, ![s].vaddr = p]
                  \in [Sides -> NodeType]
             /\ [node EXCEPT ![s] = [@ EXCEPT !.paddr = f, !.valid = TRUE, !.vaddr = p,
                                              !.active = FALSE]]
                  \in [Sides -> NodeType]
  <2>1. [node[s] EXCEPT !.paddr = f, !.valid = TRUE, !.vaddr = p] \in NodeType
    BY <1>1 DEF NodeType
  <2>2. [node EXCEPT ![s].paddr = f, ![s].valid = TRUE, ![s].vaddr = p]
          = [node EXCEPT ![s] = [node[s] EXCEPT !.paddr = f, !.valid = TRUE, !.vaddr = p]]
    BY <1>1 DEF NodeType
  <2>3. [node[s] EXCEPT !.paddr = f, !.valid = TRUE, !.vaddr = p, !.active = FALSE] \in NodeType
    BY <1>1 DEF NodeType
  <2> QED BY <1>2, <2>1, <2>2, <2>3
<1>4. ASSUME NEW p \in Pages
      PROVE  [node EXCEPT ![s] = [@ EXCEPT !.valid = FALSE, !.fault = TRUE, !.vaddr = p,
                                           !.active = FALSE]]
               \in [Sides -> NodeType]
  <2>1. [node[s] EXCEPT !.valid = FALSE, !.fault = TRUE, !.vaddr = p, !.active = FALSE]
          \in NodeType
    BY <1>1 DEF NodeType
  <2> QED BY <1>2, <2>1
<1>5. [node EXCEPT ![s].active = TRUE] \in [Sides -> NodeType]
  <2>1. [node[s] EXCEPT !.active = TRUE] \in NodeType
    BY <1>1 DEF NodeType
  <2> QED BY <1>2, <2>1
<1> QED BY <1>3, <1>4, <1>5

\* A lookup keeps the invariant.
LEMMA LookupKeeps ==
    ASSUME MmuInv, NEW s \in Sides, LookupBare(s) \/ LookupHit(s) \/ LookupMiss(s)
    PROVE  MmuInv'
<1>1. step \in {2, 3} /\ step' = step + 1 /\ step' \in 1 .. 7 /\ UNCHANGED <<satp, req, code, pending>>
  BY DEF LookupBare, LookupHit, LookupMiss, LookingUp
<1>2. req[s] \in Pages /\ req.asid \in Asids /\ req[s] \in Frames
  BY RequestTypes, MmuAssumption DEF MmuInv, MmuTypeOK
<1>3. CASE LookupBare(s)
  <2>1. TypeOK' /\ IInv' /\ TeachesSatp
    BY <1>3 DEF LookupBare, MmuInv, IInv, TypeOK, OneWayPerKey, LevelsAgree, UnfilledEmpty,
                WayIds, TeachesSatp
  <2>2. MmuTypeOK'
    BY <1>1, <1>2, <1>3, <2>1, NodeTypes
       DEF LookupBare, Translated, MmuInv, MmuTypeOK, NodeType
  <2>3. WalkInRun'
    <3>1. ~walk.busy \/ (walk.busy /\ step = 3 /\ walk.level = 0)
      BY <1>1 DEF MmuInv, WalkInRun
    <3> QED BY <1>1, <1>3, <3>1 DEF LookupBare, MmuInv, WalkInRun
  <2> QED BY <1>1, <2>1, <2>2, <2>3, TeachingKeeps DEF MmuInv
<1>4. CASE LookupHit(s)
  <2>1. satp # Bare /\ Hit(req[s], req.asid) /\ Translated(s, answer') /\ walk' = walk
    BY <1>4 DEF LookupHit
  <2>2. TeachesSatp /\ answer' \in Frames /\ IInv' /\ TypeOK'
    BY <1>2, <2>1, HitTeaches DEF MmuInv, IInv
  <2>3. MmuTypeOK'
    BY <1>1, <1>2, <2>1, <2>2, NodeTypes
       DEF Translated, MmuInv, MmuTypeOK, NodeType
  <2>4. WalkInRun'
    <3>1. ~walk.busy \/ (walk.busy /\ step = 3 /\ walk.level = 0)
      BY <1>1 DEF MmuInv, WalkInRun
    <3> QED BY <1>1, <2>1, <3>1 DEF MmuInv, WalkInRun
  <2> QED BY <1>1, <2>2, <2>3, <2>4, TeachingKeeps DEF MmuInv
<1>5. CASE LookupMiss(s)
  <2>1. /\ satp # Bare /\ Miss(req[s], req.asid)
        /\ walk' = [busy |-> TRUE, level |-> 0, page |-> req[s], root |-> satp, side |-> s]
        /\ node' = [node EXCEPT ![s].active = TRUE]
    BY <1>5 DEF LookupMiss
  <2>2. satp \in Roots
    BY <2>1 DEF MmuInv, MmuTypeOK
  <2>3. walk' \in Walks
    <3>1. 0 \in 0 .. WalkLevels - 1
      BY MmuAssumption
    <3> QED BY <1>2, <2>1, <2>2, <3>1 DEF Walks
  <2>4. IInv' /\ TypeOK' /\ TeachesSatp
    BY <1>2, <2>1, NextPreserves DEF Next, Lookup, Miss, MmuInv, IInv, TeachesSatp
  <2>5. MmuTypeOK'
    BY <1>1, <2>1, <2>3, <2>4, NodeTypes DEF MmuInv, MmuTypeOK, NodeType
  <2>6. WalkInRun'
    BY <1>1, <2>1, <2>3 DEF WalkInRun
  <2> QED BY <1>1, <2>4, <2>5, <2>6, TeachingKeeps DEF MmuInv
<1> QED BY <1>3, <1>4, <1>5

\* A step of the walker keeps it.  With three levels the walk is at its end
\* when the run is, so satp is still what the walk was started with.
LEMMA WalkerKeeps ==
    ASSUME MmuInv, Walker, WalkLevels <= 3
    PROVE  MmuInv'
<1>1. step \in 4 .. 6 /\ step' = step + 1 /\ step' \in 5 .. 7 /\ UNCHANGED <<satp, req, code, pending>>
  BY DEF Walker, WalkIdle, WalkDown, WalkFinds, WalkFaults, Walking
<1>2. req.asid \in Asids
  BY RequestTypes DEF MmuInv, MmuTypeOK
<1>3. ~NoWalk.busy
  BY DEF NoWalk
<1>4. walk.busy => /\ walk.level = step - 4 /\ walk.root = satp /\ satp \in Roots /\ satp # Bare
                   /\ walk.page \in Pages /\ walk.side \in Sides /\ walk \in Walks
                   /\ walk.level \in 0 .. WalkLevels - 1
  <2> SUFFICES ASSUME walk.busy
               PROVE  /\ walk.level = step - 4 /\ walk.root = satp /\ satp \in Roots
                      /\ satp # Bare /\ walk.page \in Pages /\ walk.side \in Sides
                      /\ walk \in Walks /\ walk.level \in 0 .. WalkLevels - 1
    OBVIOUS
  <2>1. walk \in Walks /\ walk.root = satp /\ walk.level = step - 4
    BY <1>1 DEF MmuInv, WalkInRun
  <2>2. /\ walk.root \in Roots /\ walk.page \in Pages /\ walk.side \in Sides
        /\ walk.level \in 0 .. WalkLevels - 1
    BY <2>1 DEF Walks
  <2> QED BY <2>1, <2>2, MmuAssumption
<1>5. CASE WalkIdle
  <2>1. UNCHANGED <<tlb, answer, node, walk>> /\ ~walk.busy
    BY <1>5 DEF WalkIdle
  <2>2. TypeOK' /\ IInv' /\ TeachesSatp
    BY <2>1 DEF MmuInv, IInv, TypeOK, OneWayPerKey, LevelsAgree, UnfilledEmpty, WayIds,
                TeachesSatp
  <2> QED BY <1>1, <2>1, <2>2, TeachingKeeps DEF MmuInv, MmuTypeOK, WalkInRun
<1>6. CASE WalkDown
  <2>1. /\ UNCHANGED <<tlb, answer, node>> /\ walk.busy
        /\ walk' = [walk EXCEPT !.level = @ + 1] /\ ~(walk.level + 1 >= WalkLevels)
    BY <1>6 DEF WalkDown, AtLeaf
  <2>2. TypeOK' /\ IInv' /\ TeachesSatp
    BY <2>1 DEF MmuInv, IInv, TypeOK, OneWayPerKey, LevelsAgree, UnfilledEmpty, WayIds,
                TeachesSatp
  <2>3. walk.level + 1 \in 0 .. WalkLevels - 1
    BY <1>4, <2>1, MmuAssumption
  <2>4. walk' \in Walks /\ walk'.busy /\ walk'.root = satp /\ walk'.level = walk.level + 1
    BY <1>4, <2>1, <2>3 DEF Walks
  <2>5. step # 6
    BY <1>4, <2>1, MmuAssumption
  <2>6. WalkInRun'
    BY <1>1, <1>4, <2>1, <2>4, <2>5 DEF WalkInRun
  <2>7. MmuTypeOK'
    BY <1>1, <2>1, <2>2, <2>4 DEF MmuInv, MmuTypeOK
  <2> QED BY <1>1, <2>2, <2>6, <2>7, TeachingKeeps DEF MmuInv
<1>7. CASE WalkFinds
  <2> DEFINE f == Table[walk.root][walk.page]
  <2>1. /\ walk.busy /\ f # NoFrame /\ walk' = NoWalk /\ Refill(walk.page, req.asid, f)
        /\ node' = [node EXCEPT ![walk.side] =
                      [@ EXCEPT !.paddr = f, !.valid = TRUE, !.vaddr = walk.page,
                                !.active = FALSE]]
    BY <1>7 DEF WalkFinds
  <2>2. f \in Frames /\ f = Table[satp][walk.page]
    BY <1>4, <2>1, MmuAssumption
  <2>3. TeachesSatp /\ IInv' /\ TypeOK'
    BY <1>2, <1>4, <2>1, <2>2, RefillTeaches DEF MmuInv, IInv
  <2>4. MmuTypeOK'
    <3> HIDE DEF f
    <3>1. node' \in [Sides -> NodeType]
      <4>1. node \in [Sides -> NodeType]
        BY DEF MmuInv, MmuTypeOK, NodeType
      <4>2. f \in Frames /\ walk.page \in Pages /\ walk.side \in Sides
        BY <1>4, <2>1, <2>2
      <4>3. [node EXCEPT ![walk.side] =
               [@ EXCEPT !.paddr = f, !.valid = TRUE, !.vaddr = walk.page, !.active = FALSE]]
              \in [Sides -> NodeType]
        BY <4>1, <4>2, NodeTypes
      <4> QED BY <2>1, <4>3
    <3> QED BY <1>1, <2>1, <2>3, <3>1 DEF MmuInv, MmuTypeOK, NodeType
  <2> QED BY <1>1, <1>3, <2>1, <2>3, <2>4, TeachingKeeps DEF MmuInv, WalkInRun
<1>8. CASE WalkFaults
  <2>1. /\ UNCHANGED <<tlb, answer>> /\ walk.busy /\ walk' = NoWalk
        /\ node' = [node EXCEPT ![walk.side] =
                      [@ EXCEPT !.valid = FALSE, !.fault = TRUE, !.vaddr = walk.page,
                                !.active = FALSE]]
    BY <1>8 DEF WalkFaults
  <2>2. TypeOK' /\ IInv' /\ TeachesSatp
    BY <2>1 DEF MmuInv, IInv, TypeOK, OneWayPerKey, LevelsAgree, UnfilledEmpty, WayIds,
                TeachesSatp
  <2>3. MmuTypeOK'
    <3>1. node' \in [Sides -> NodeType]
      <4>1. node \in [Sides -> NodeType]
        BY DEF MmuInv, MmuTypeOK, NodeType
      <4> QED BY <1>4, <2>1, <4>1, NodeTypes
    <3> QED BY <1>1, <2>1, <2>2, <3>1 DEF MmuInv, MmuTypeOK, NodeType
  <2> QED BY <1>1, <1>3, <2>1, <2>2, <2>3, TeachingKeeps DEF MmuInv, WalkInRun
<1> QED BY <1>5, <1>6, <1>7, <1>8 DEF Walker

-----------------------------------------------------------------------------
\* MmuPlugin: the invariant holds

LEMMA MmuStarts == MmuInit => MmuInv
<1> SUFFICES ASSUME MmuInit PROVE MmuInv
  OBVIOUS
<1>1. TypeOK /\ IInv
  BY InitHolds DEF MmuInit, IInv
<1>2. MmuTypeOK
  <2>1. EmptyNode \in NodeType
    BY DEF EmptyNode, NodeType
  <2>2. node \in [Sides -> NodeType]
    <3> HIDE DEF EmptyNode
    <3> QED BY <2>1 DEF MmuInit
  <2>3. code \in [{"memory", "tlb_lookup_loadstore"} -> BOOLEAN]
    BY DEF MmuInit
  <2>4. /\ step = 1 /\ satp \in Roots \cup {Bare} /\ req \in Requests
        /\ walk = NoWalk /\ pending = FALSE
    BY DEF MmuInit
  <2>5. step \in 1 .. 7 /\ walk \in Walks \cup {NoWalk}
    BY <2>4
  <2>7. pending \in BOOLEAN
    BY <2>4, Zenon
  <2>6. node \in [Sides -> [vaddr : Pages \cup {NoFrame}, paddr : Frames \cup {NoFrame},
                            valid : BOOLEAN, active : BOOLEAN, fault : BOOLEAN]]
    BY <2>2 DEF NodeType
  <2> QED BY <1>1, <2>3, <2>4, <2>5, <2>6, <2>7 DEF MmuTypeOK
<1>3. WalkInRun
  BY DEF MmuInit, WalkInRun, NoWalk
<1>4. TlbMatchesSatp
  BY DEF MmuInit, Init, TlbMatchesSatp
<1> QED BY <1>1, <1>2, <1>3, <1>4 DEF MmuInv

LEMMA MmuNextKeeps ==
    ASSUME MmuInv, [MmuNext]_allVars, WalkLevels <= 3
    PROVE  MmuInv'
<1>1. ASSUME UNCHANGED <<tlb, answer, satp, node, walk>>,
             req' \in Requests, code' \in [{"memory", "tlb_lookup_loadstore"} -> BOOLEAN],
             pending' \in BOOLEAN, step' \in 1 .. 7, step' = step \/ ~walk.busy
      PROVE  MmuInv'
  <2>1. IInv' /\ TypeOK' /\ TlbMatchesSatp'
    BY <1>1 DEF MmuInv, IInv, TypeOK, OneWayPerKey, LevelsAgree, UnfilledEmpty, WayIds,
                TlbMatchesSatp
  <2>2. MmuTypeOK' /\ WalkInRun'
    BY <1>1, <2>1 DEF MmuInv, MmuTypeOK, WalkInRun
  <2> QED BY <2>1, <2>2 DEF MmuInv
<1>2. ASSUME NEW root \in Roots \cup {Bare}, CsrWriteSatp(root) PROVE MmuInv'
  <2>1. Drop(Keys) /\ step = 1 /\ satp' = root /\ UNCHANGED <<step, req, node, walk, code, pending>>
    BY <1>2 DEF CsrWriteSatp, InvalidateAll
  <2>2. IInv' /\ TypeOK'
    BY <2>1, DropPreserves DEF MmuInv, IInv
  <2>3. TlbMatchesSatp'
    BY <2>1, DropAllEmpties DEF MmuInv, TlbMatchesSatp, WayIds
  <2>4. MmuTypeOK' /\ WalkInRun'
    BY <2>1, <2>2 DEF MmuInv, MmuTypeOK, WalkInRun
  <2> QED BY <2>2, <2>3, <2>4 DEF MmuInv
<1>3. ASSUME NEW S, NEW a, SfenceVma(S, a) PROVE MmuInv'
  <2>1. UNCHANGED mmuVars
    BY <1>3 DEF SfenceVma
  <2>2. \E K : Drop(K)
    BY <1>3 DEF SfenceVma, InvalidateAll, InvalidateAsid, InvalidateVaddrAnyAsid, InvalidateVaddr
  <2>3. TeachesSatp /\ IInv' /\ TypeOK' /\ answer' = answer
    BY <2>2, DropTeaches DEF MmuInv, IInv
  <2>4. MmuTypeOK' /\ WalkInRun'
    BY <2>1, <2>3 DEF mmuVars, MmuInv, MmuTypeOK, WalkInRun
  <2> QED BY <2>1, <2>3, <2>4, TeachingKeeps DEF mmuVars, MmuInv
<1>4. ASSUME NEW r \in Requests, Request(r) PROVE MmuInv'
  BY <1>1, <1>4 DEF Request, MmuInv, MmuTypeOK, WalkInRun
<1>5. ASSUME NEW s \in Sides, LookupBare(s) \/ LookupHit(s) \/ LookupMiss(s) PROVE MmuInv'
  BY <1>5, LookupKeeps
<1>6. CASE Walker
  BY <1>6, WalkerKeeps
<1>7. CASE MmuExit
  <2>1. node["loadstore"].fault \in BOOLEAN
    BY DEF MmuInv, MmuTypeOK, Sides
  <2> QED BY <1>1, <1>7, <2>1 DEF MmuExit, MmuInv, MmuTypeOK, WalkInRun
<1>8. CASE UNCHANGED allVars
  BY <1>1, <1>8 DEF allVars, MmuInv, MmuTypeOK
<1> QED
  BY <1>2, <1>3, <1>4, <1>5, <1>6, <1>7, <1>8 DEF MmuNext, Run, Walker

\* Bare, Sv32 and Sv39: in every state the TLB speaks for the tables that satp
\* points to, whenever satp was written (mmu.cpp: csr_write_satp).  With the
\* four levels of Sv48 it is not so: a walk outlives its run, and one started
\* before translation was turned off fills the TLB afterwards.
THEOREM TlbIsCurrent ==
    ASSUME WalkLevels <= 3
    PROVE  MmuSpec => []TlbMatchesSatp
<1>1. MmuInit => MmuInv
  BY MmuStarts
<1>2. MmuInv /\ [MmuNext]_allVars => MmuInv'
  BY MmuNextKeeps
<1>3. MmuInv => TlbMatchesSatp
  BY DEF MmuInv
<1> QED BY <1>1, <1>2, <1>3, PTL DEF MmuSpec

-----------------------------------------------------------------------------
\* MmuBridge

\* A key that is in some level stays in one through an insert under it, and an
\* insert into some level brings it there.
LEMMA InsertKeepsKey ==
    ASSUME IInv, NEW L \in SUBSET LevelIds, NEW k \in Keys, NEW f \in Frames,
           InsertInto(L, k, f), L # {} \/ HitLevels(k) # {}
    PROVE  HitLevels(k)' # {}
<1>1. /\ \A l \in LevelIds \ L : tlb'[l] = tlb[l]
      /\ \A l \in L : InsertedAt(l, k, f)
  BY InsertEffect
<1>2. ASSUME NEW l \in L PROVE Matching(tlb'[l], k) # {}
  <2>1. PICK w \in WayIds(l) : tlb'[l] = [tlb[l] EXCEPT ![w] = [key |-> k, frame |-> f]]
    BY <1>1 DEF InsertedAt
  <2>2. DOMAIN tlb[l] = WayIds(l)
    BY DEF IInv, TypeOK
  <2>3. [key |-> k, frame |-> f] # NoEntry
    BY EntryAssumption DEF Entries
  <2>4. w \in Matching(tlb'[l], k)
    BY <2>1, <2>2, <2>3 DEF Matching
  <2> QED BY <2>4
<1>3. \A l \in LevelIds : Matching(tlb'[l], k) # {} => HitLevels(k)' # {}
  BY DEF HitLevels
<1>4. CASE L # {}
  BY <1>2, <1>3, <1>4
<1>5. CASE L = {}
  BY <1>1, <1>5 DEF HitLevels
<1> QED BY <1>4, <1>5

\* The parts of the invariant that speak of the adapter.
LEMMA BridgeStarts ==
    BridgeInit => BridgeInv
<1> SUFFICES ASSUME BridgeInit PROVE BridgeInv
  OBVIOUS
<1>1. MmuInv
  BY MmuStarts DEF BridgeInit
<1>2. OneAddress
  BY BridgeAssumption DEF BridgeInit, MmuInit, OneAddress, Asked, NoWalk, EmptyNode, Sides
<1>3. KnownAfterRun /\ runs \in 0 .. 2 /\ satp \in Roots /\ step = 1 /\ req_in = None
  BY DEF BridgeInit, MmuInit, KnownAfterRun
<1> QED BY <1>1, <1>2, <1>3 DEF BridgeInv

LEMMA AskedParts ==
    ASSUME NEW r \in Asked
    PROVE  /\ r.ifetch \in Pages /\ r.loadstore = r.ifetch /\ r.asid \in Asids
           /\ r["ifetch"] = r.ifetch /\ r["loadstore"] = r.ifetch
           /\ KeyOf(r.ifetch, r.asid) \in Keys
           /\ r \in Requests
BY BridgeAssumption, KeyOfType DEF Asked, Issued

\* Pages with tags of their own: a hit is the frame of the page asked for.

LEMMA BridgeHit ==
    ASSUME BridgeInv, OwnTags, NEW s \in Sides, LookupHit(s),
           NEW k \in Keys, k = KeyOf(req.ifetch, req.asid)
    PROVE  /\ answer' = Table[satp][req.ifetch]
           /\ HitLevels(k) # {}
           /\ HitLevels(k)' # {}
<1>1. req.ifetch \in Pages /\ req.asid \in Asids /\ req[s] = req.ifetch
  BY AskedParts DEF BridgeInv, OneAddress, Sides
<1>2. Hit(req.ifetch, req.asid) /\ satp # Bare
  BY <1>1 DEF LookupHit
<1>3. IInv /\ TlbMatchesSatp
  BY DEF BridgeInv, MmuInv
<1>4. \E q \in Pages : TagOf(q) = TagOf(req.ifetch) /\ Table[satp][q] = answer'
  BY <1>1, <1>2, <1>3, HitTeaches
<1>5. HitLevels(k) # {}
  BY <1>2 DEF Hit
<1>6. HitLevels(k)' # {}
  <2>1. PICK p \in Pages, a \in Asids : p = req.ifetch /\ a = req.asid
    BY <1>1
  <2>2. PICK d \in LevelIds, f \in Frames :
          FilledByHit(d) \in SUBSET LevelIds /\ InsertInto(FilledByHit(d), KeyOf(p, a), f)
    BY <1>2, <1>3, <2>1, HitElsewhere
  <2> QED BY <1>3, <1>5, <2>1, <2>2, InsertKeepsKey
<1> QED BY <1>1, <1>4, <1>5, <1>6 DEF OwnTags

\* A stage of the run keeps the invariant of the MMU, and no more than the slots
\* and the count of runs is new in the bridge.
LEMMA InRunFrame ==
    ASSUME BridgeInv, InRun, WalkLevels <= 3
    PROVE  /\ MmuInv'
           /\ UNCHANGED <<satp, req, runs, req_in, resp_out>>
           /\ step' = step + 1 /\ step' \in 3 .. 7 /\ runs > 0
<1>1. UNCHANGED <<satp, req, runs, req_in, resp_out>> /\ step' = step + 1 /\ step \in 2 .. 6
  BY DEF InRun, Lookups, Walker, LookupHit, LookupMiss, LookingUp, WalkIdle, WalkDown,
         WalkFinds, WalkFaults, Walking
<1>2. MmuInv'
  BY LookupKeeps, WalkerKeeps DEF InRun, Lookups, BridgeInv
<1> QED BY <1>1, <1>2 DEF BridgeInv

\* The lookup's invariant after its step, from what has become of the walk, the
\* node and the key of the request.
LEMMA LookupsKeep ==
    ASSUME BridgeInv, OwnTags, WalkLevels <= 3, InRun,
           NEW s \in Sides, LookupHit(s) \/ LookupMiss(s)
    PROVE  OneAddress' /\ KnownAfterRun'
<1>1. /\ UNCHANGED <<satp, req, runs>> /\ step' = step + 1 /\ runs > 0
      /\ step = IF s = "ifetch" THEN 2 ELSE 3
  BY InRunFrame DEF LookupHit, LookupMiss, LookingUp
<1>2. /\ req \in Asked /\ req.ifetch \in Pages /\ req.asid \in Asids
      /\ req[s] = req.ifetch
      /\ KeyOf(req.ifetch, req.asid) \in Keys
  BY AskedParts DEF BridgeInv, OneAddress, Sides
<1>3. PICK k \in Keys : k = KeyOf(req.ifetch, req.asid)
  BY <1>2
<1>4. KeyOf(req'.ifetch, req'.asid) = k
  BY <1>1, <1>3
<1>5. node \in [Sides -> NodeType] /\ ~node["ifetch"].fault
  BY DEF BridgeInv, MmuInv, MmuTypeOK, NodeType, OneAddress
<1>6. step = 2 => ~walk.busy
  BY DEF BridgeInv, MmuInv, WalkInRun
<1>7. CASE LookupHit(s)
  <2>1. answer' = Table[satp][req.ifetch] /\ HitLevels(k) # {} /\ HitLevels(k)' # {}
    BY <1>3, <1>7, BridgeHit
  <2>2. ~walk.busy /\ walk' = walk
    BY <1>1, <1>3, <1>6, <1>7, <2>1 DEF BridgeInv, OneAddress, LookupHit
  <2>3. node' = [node EXCEPT ![s].paddr = answer', ![s].valid = TRUE, ![s].vaddr = req[s]]
    BY <1>7 DEF LookupHit, Translated
  <2>4. ~node'["ifetch"].fault
    BY <1>5, <2>3 DEF Sides, NodeType
  <2>5. OneAddress'
    BY <1>1, <1>2, <2>2, <2>4 DEF OneAddress
  <2>6. s = "ifetch" => node'["ifetch"].paddr = Table[satp][req.ifetch]
    BY <1>5, <2>1, <2>3 DEF Sides, NodeType
  <2>7. s # "ifetch" => node'["ifetch"] = node["ifetch"]
    BY <1>5, <2>3 DEF Sides
  <2>8. runs = 2 /\ Table[satp][req.ifetch] # NoFrame
          => node'["ifetch"].paddr = Table[satp][req.ifetch]
    BY <1>1, <2>6, <2>7 DEF BridgeInv, KnownAfterRun
  <2> QED BY <1>1, <1>4, <2>1, <2>2, <2>5, <2>8 DEF KnownAfterRun
<1>8. CASE LookupMiss(s)
  <2>1. /\ HitLevels(k) = {} /\ tlb' = tlb
        /\ walk' = [busy |-> TRUE, level |-> 0, page |-> req[s], root |-> satp, side |-> s]
        /\ node' = [node EXCEPT ![s].active = TRUE]
    BY <1>2, <1>3, <1>8 DEF LookupMiss, Miss
  <2>2. HitLevels(k)' = {}
    BY <2>1 DEF HitLevels
  <2>3. ~node'["ifetch"].fault /\ node'["ifetch"].paddr = node["ifetch"].paddr
    BY <1>5, <2>1 DEF Sides, NodeType
  <2>4. OneAddress'
    BY <1>1, <1>2, <1>4, <2>1, <2>2, <2>3 DEF OneAddress, Sides
  <2>5. step = 2 => runs # 2 \/ Table[satp][req.ifetch] = NoFrame
    BY <1>1, <1>3, <1>6, <2>1 DEF BridgeInv, KnownAfterRun
  <2> QED BY <1>1, <2>1, <2>3, <2>4, <2>5 DEF BridgeInv, KnownAfterRun
<1> QED BY <1>7, <1>8

LEMMA WalkerKeepsKnown ==
    ASSUME BridgeInv, WalkLevels <= 3, InRun, Walker
    PROVE  OneAddress' /\ KnownAfterRun'
<1>1. UNCHANGED <<satp, req, runs>> /\ step' = step + 1 /\ step \in 4 .. 6 /\ runs > 0
  BY InRunFrame DEF Walker, WalkIdle, WalkDown, WalkFinds, WalkFaults, Walking
<1>2. /\ req \in Asked /\ req.ifetch \in Pages /\ req.asid \in Asids
      /\ KeyOf(req.ifetch, req.asid) \in Keys
  BY AskedParts DEF BridgeInv, OneAddress
<1>3. PICK k \in Keys : k = KeyOf(req.ifetch, req.asid)
  BY <1>2
<1>4. KeyOf(req'.ifetch, req'.asid) = k
  BY <1>1, <1>3
<1>5. node \in [Sides -> NodeType] /\ ~node["ifetch"].fault
  BY DEF BridgeInv, MmuInv, MmuTypeOK, NodeType, OneAddress
<1>6. walk.busy => walk.page = req.ifetch /\ walk.side = "loadstore" /\ walk.root = satp
                   /\ walk \in Walks
  BY <1>1 DEF BridgeInv, OneAddress, MmuInv, WalkInRun
<1>7. /\ ~walk.busy /\ Table[satp][req.ifetch] # NoFrame => HitLevels(k) # {}
      /\ runs = 2 /\ Table[satp][req.ifetch] # NoFrame
           => node["ifetch"].paddr = Table[satp][req.ifetch]
  BY <1>1, <1>3 DEF BridgeInv, KnownAfterRun
<1>8. ASSUME node'["ifetch"] = node["ifetch"],
             walk'.busy => walk'.page = req.ifetch /\ walk'.side = "loadstore",
             ~walk'.busy /\ Table[satp][req.ifetch] # NoFrame => HitLevels(k)' # {}
      PROVE  OneAddress' /\ KnownAfterRun'
  <2>1. OneAddress'
    BY <1>1, <1>2, <1>5, <1>8 DEF OneAddress
  <2> QED BY <1>1, <1>4, <1>7, <1>8, <2>1 DEF KnownAfterRun
<1>9. ~NoWalk.busy
  BY DEF NoWalk
<1>10. CASE WalkIdle
  <2>1. UNCHANGED <<tlb, node, walk>> /\ ~walk.busy
    BY <1>10 DEF WalkIdle
  <2>2. HitLevels(k)' = HitLevels(k)
    BY <2>1 DEF HitLevels
  <2> QED BY <1>7, <1>8, <2>1, <2>2
<1>11. CASE WalkDown
  <2>1. UNCHANGED node /\ walk.busy /\ walk' = [walk EXCEPT !.level = @ + 1]
    BY <1>11 DEF WalkDown
  <2>2. walk'.busy /\ walk'.page = walk.page /\ walk'.side = walk.side
    BY <1>6, <2>1 DEF Walks
  <2> QED BY <1>6, <1>8, <2>1, <2>2
<1>12. CASE WalkFinds
  <2> DEFINE f == Table[walk.root][walk.page]
             n == [node[walk.side] EXCEPT !.paddr = f, !.valid = TRUE, !.vaddr = walk.page,
                                          !.active = FALSE]
  <2>1. /\ walk.busy /\ f # NoFrame /\ walk' = NoWalk /\ Refill(req.ifetch, req.asid, f)
        /\ node' = [node EXCEPT ![walk.side] = n]
    BY <1>6, <1>12 DEF WalkFinds
  <2>2. node'["ifetch"] = node["ifetch"]
    <3> HIDE DEF n
    <3> QED BY <1>5, <1>6, <2>1 DEF Sides
  <2>3. f \in Frames
    BY <1>6, <2>1, MmuAssumption DEF Walks
  <2>4. HitLevels(k)' # {}
    <3>1. PICK g \in Frames : InsertInto(RefilledLevels, k, g)
      BY <1>3, <2>1, <2>3 DEF Refill
    <3>2. RefilledLevels \in SUBSET LevelIds /\ RefilledLevels # {}
      BY <2>3, RefillElsewhere DEF BridgeInv, MmuInv
    <3> QED BY <3>1, <3>2, InsertKeepsKey DEF BridgeInv, MmuInv
  <2> QED BY <1>8, <1>9, <2>1, <2>2, <2>4
<1>13. CASE WalkFaults
  <2> DEFINE n == [node[walk.side] EXCEPT !.valid = FALSE, !.fault = TRUE, !.vaddr = walk.page,
                                          !.active = FALSE]
  <2>1. /\ walk.busy /\ Table[walk.root][walk.page] = NoFrame /\ walk' = NoWalk
        /\ node' = [node EXCEPT ![walk.side] = n]
    BY <1>13 DEF WalkFaults
  <2>2. node'["ifetch"] = node["ifetch"]
    <3> HIDE DEF n
    <3> QED BY <1>5, <1>6, <2>1 DEF Sides
  <2> QED BY <1>6, <1>8, <1>9, <2>1, <2>2
<1> QED BY <1>10, <1>11, <1>12, <1>13 DEF Walker

LEMMA BridgeKeeps ==
    ASSUME BridgeInv, OwnTags, WalkLevels <= 3, [BridgeNext]_bridgeVars
    PROVE  BridgeInv'
<1>1. ASSUME UNCHANGED <<tlb, answer, satp, node, walk, code, pending>>,
             req' \in Requests, step' \in 1 .. 7, step' = step \/ ~walk.busy
      PROVE  MmuInv'
  <2>1. IInv' /\ TypeOK' /\ TlbMatchesSatp'
    BY <1>1 DEF BridgeInv, MmuInv, IInv, TypeOK, OneWayPerKey, LevelsAgree, UnfilledEmpty,
                WayIds, TlbMatchesSatp
  <2>2. MmuTypeOK' /\ WalkInRun'
    BY <1>1, <2>1 DEF BridgeInv, MmuInv, MmuTypeOK, WalkInRun
  <2> QED BY <2>1, <2>2 DEF MmuInv
<1>2. req \in Asked /\ req \in Requests /\ (walk.busy => step \in 3 .. 6)
  BY AskedParts DEF BridgeInv, OneAddress, MmuInv, WalkInRun
<1>3. ASSUME NEW r \in Asked, Offer(r) PROVE BridgeInv'
  <2>1. UNCHANGED <<tlb, answer, step, satp, req, node, walk, code, pending, runs>> /\ req_in' = r
    BY <1>3 DEF Offer
  <2>2. MmuInv'
    BY <1>1, <1>2, <2>1 DEF BridgeInv, MmuInv, MmuTypeOK
  <2> QED BY <2>1, <2>2 DEF BridgeInv, OneAddress, KnownAfterRun, HitLevels
<1>4. ASSUME NEW moved \in BOOLEAN, BeginTick(moved) PROVE BridgeInv'
  <2>1. /\ step = 1 /\ step' = 2 /\ ~walk.busy /\ req_in' = None
        /\ UNCHANGED <<tlb, answer, satp, node, walk, code, pending>>
    BY <1>2, <1>4 DEF BeginTick
  <2>2. req' \in Asked
    BY <1>2, <1>4 DEF BeginTick, BridgeInv
  <2>3. runs' \in {1, 2} /\ (runs' = 2 => req' = req /\ runs > 0)
    BY <1>4 DEF BeginTick
  <2>4. MmuInv'
    BY <1>1, <2>1, <2>2, AskedParts
  <2>5. OneAddress'
    BY <2>1, <2>2 DEF BridgeInv, OneAddress
  <2>6. KnownAfterRun'
    BY <2>1, <2>3 DEF BridgeInv, KnownAfterRun, HitLevels
  <2> QED BY <2>1, <2>3, <2>4, <2>5, <2>6 DEF BridgeInv
<1>5. CASE InRun
  <2>1. OneAddress' /\ KnownAfterRun'
    BY <1>5, LookupsKeep, WalkerKeepsKnown DEF InRun, Lookups
  <2> QED BY <1>5, <2>1, InRunFrame DEF BridgeInv
<1>6. CASE EndTick
  <2>1. /\ step = 7 /\ step' = 1 /\ ~walk.busy
        /\ UNCHANGED <<tlb, answer, satp, req, node, walk, code, pending, req_in, runs>>
    BY <1>2, <1>6 DEF EndTick
  <2>2. MmuInv'
    BY <1>1, <1>2, <2>1
  <2> QED BY <2>1, <2>2 DEF BridgeInv, OneAddress, KnownAfterRun, HitLevels
<1>7. CASE UNCHANGED bridgeVars
  <2>1. UNCHANGED <<tlb, answer, step, satp, req, node, walk, code, pending, req_in, runs>>
    BY <1>7 DEF bridgeVars
  <2>2. MmuInv'
    BY <1>1, <1>2, <2>1 DEF BridgeInv, MmuInv, MmuTypeOK
  <2> QED BY <2>1, <2>2 DEF BridgeInv, OneAddress, KnownAfterRun, HitLevels
<1> QED BY <1>3, <1>4, <1>5, <1>6, <1>7 DEF BridgeNext

\* A request that is run again is answered with the frame of its page, if no
\* other page in use has its tag and the tables have at most three levels: the
\* walk ends in the first run, its answer is in the node in the second, and no
\* fault of the other lookup's walk is ever seen in its place.
THEOREM SecondRun ==
    ASSUME OwnTags, WalkLevels <= 3
    PROVE  BridgeSpec => SecondRunTranslates
<1>1. BridgeInit => BridgeInv
  BY BridgeStarts
<1>2. BridgeInv /\ [BridgeNext]_bridgeVars => BridgeInv'
  BY BridgeKeeps
<1>3. BridgeInv /\ [BridgeNext]_bridgeVars =>
        [Answers /\ runs = 2 /\ Table[satp][req.ifetch] # NoFrame
           => resp_out'.hit /\ resp_out'.paddr = Table[satp][req.ifetch]]_bridgeVars
  <2> SUFFICES ASSUME BridgeInv, Answers, runs = 2, Table[satp][req.ifetch] # NoFrame
               PROVE  resp_out'.hit /\ resp_out'.paddr = Table[satp][req.ifetch]
    OBVIOUS
  <2>1. step = 7 /\ resp_out' = Response
    BY DEF Answers, EndTick
  <2>2. node["ifetch"].paddr = Table[satp][req.ifetch] /\ ~node["ifetch"].fault
    BY <2>1 DEF BridgeInv, KnownAfterRun, OneAddress
  <2> QED BY <2>1, <2>2 DEF Response
<1> QED BY <1>1, <1>2, <1>3, PTL DEF BridgeSpec, SecondRunTranslates

-----------------------------------------------------------------------------
\* L1CacheBridge

\* Behind the adapter the payload always is for the request accepted last.
PayloadIsAsked ==
    driver = "adapter" =>
        /\ payload.line = IF asked = Empty THEN ZeroLine ELSE asked.line
        /\ payload.id = IF asked = Empty THEN 0 ELSE asked.id % IdRange

\* The payload holds what memory answered last; a set that was filled with the
\* answer for its own line holds memory's data.
StoreIsMemory ==
    /\ delivered # Empty => payload.mem = Memory[delivered]
    /\ \A s \in filled : store[s].data = Memory[[set |-> s, tag |-> store[s].tag]]

L1Inv ==
    /\ L1TypeOK
    /\ HoldsLatest
    /\ PayloadIsAsked
    /\ StoreIsMemory

L1Payload == [line : Lines, id : 0 .. IdRange - 1, hit : BOOLEAN, data : Words, mem : Words]
StoredLine == [valid : BOOLEAN, tag : Tags, data : Words]

\* A tag was looked up last in its set if and only if it is there.
LEMMA RepeatedHits ==
    ASSUME L1Inv, NEW l \in Lines
    PROVE  Hits(l) <=> Repeated(l)
<1>1. l.set \in Sets /\ l.tag \in Tags /\ l.tag # Empty
  BY CacheAssumption DEF Lines
<1> QED BY <1>1 DEF L1Inv, HoldsLatest, Hits, Repeated

LEMMA L1Constants ==
    /\ ZeroLine \in Lines /\ 0 \in Words /\ 0 \in 0 .. IdRange - 1
    /\ \A l \in Lines : Memory[l] \in Words
    /\ \A r \in CacheReqs : r.line \in Lines /\ r.id % IdRange \in 0 .. IdRange - 1
<1>1. ZeroLine \in Lines
  BY CacheAssumption DEF ZeroLine, Lines
<1>2. 0 \in Words /\ \A l \in Lines : Memory[l] \in Words
  BY DEF Words
<1>3. \A r \in CacheReqs : r.line \in Lines /\ r.id \in Nat
  BY CacheAssumption DEF CacheReqs
<1>4. \A n \in Nat : n % IdRange \in 0 .. IdRange - 1
  BY CacheAssumption
<1> QED BY <1>1, <1>2, <1>3, <1>4, CacheAssumption

\* What a run leaves, on a payload n: types, and the set holds the line looked
\* up.
LEMMA RunTypes ==
    ASSUME L1Inv, NEW n \in L1Payload, RunFrom(n)
    PROVE  /\ payload' \in L1Payload
           /\ payload'.line = n.line /\ payload'.id = n.id
           /\ payload'.hit = Hits(n.line)
           /\ payload'.data = IF Hits(n.line) THEN store[n.line.set].data ELSE 0
           /\ store' = IF Hits(n.line) THEN store
                       ELSE [store EXCEPT ![n.line.set] = [valid |-> TRUE, tag |-> n.line.tag,
                                                           data |-> n.mem]]
           /\ store' \in [Sets -> StoredLine]
           /\ latest' \in [Sets -> Tags \cup {Empty}]
           /\ HoldsLatest'
           /\ delivered' = delivered /\ filled' \subseteq Sets
           /\ payload'.mem = n.mem
<1>1. /\ n.line \in Lines /\ n.line.set \in Sets /\ n.line.tag \in Tags /\ n.mem \in Words
      /\ n.line.tag # Empty
  BY CacheAssumption DEF L1Payload, Lines
<1>2. store \in [Sets -> StoredLine] /\ latest \in [Sets -> Tags \cup {Empty}]
  BY DEF L1Inv, L1TypeOK, StoredLine
<1>3. Hits(n.line) \in BOOLEAN /\ store[n.line.set].data \in Words
  BY <1>1, <1>2 DEF Hits, StoredLine
<1>4. LookedUp(n) = [n EXCEPT !.hit = Hits(n.line),
                              !.data = IF Hits(n.line) THEN store[n.line.set].data ELSE 0]
  BY DEF LookedUp
<1>5. /\ LookedUp(n) \in L1Payload
      /\ LookedUp(n).line = n.line /\ LookedUp(n).id = n.id /\ LookedUp(n).mem = n.mem
      /\ LookedUp(n).hit = Hits(n.line)
      /\ LookedUp(n).data = IF Hits(n.line) THEN store[n.line.set].data ELSE 0
  BY <1>3, <1>4, L1Constants DEF L1Payload
<1>6. payload' = LookedUp(n) /\ latest' = [latest EXCEPT ![n.line.set] = n.line.tag]
  BY DEF RunFrom
<1>7. store' = IF Hits(n.line) THEN store
               ELSE [store EXCEPT ![n.line.set] = [valid |-> TRUE, tag |-> n.line.tag,
                                                   data |-> n.mem]]
  BY <1>5 DEF RunFrom, Refilled
<1>8. [valid |-> TRUE, tag |-> n.line.tag, data |-> n.mem] \in StoredLine
  BY <1>1 DEF StoredLine
<1>9. store' \in [Sets -> StoredLine]
  BY <1>1, <1>2, <1>7, <1>8
<1>10. latest' \in [Sets -> Tags \cup {Empty}]
  BY <1>1, <1>2, <1>6
<1>11. HoldsLatest'
  <2> SUFFICES ASSUME NEW s \in Sets
               PROVE  IF latest'[s] = Empty THEN ~store'[s].valid
                      ELSE store'[s].valid /\ store'[s].tag = latest'[s]
    BY DEF HoldsLatest
  <2>1. CASE s # n.line.set
    <3>1. latest'[s] = latest[s] /\ store'[s] = store[s]
      BY <1>1, <1>2, <1>6, <1>7, <2>1
    <3> QED BY <3>1 DEF L1Inv, HoldsLatest
  <2>2. CASE s = n.line.set
    <3>1. latest'[s] = n.line.tag
      BY <1>1, <1>2, <1>6, <2>2
    <3>2. store'[s].valid /\ store'[s].tag = n.line.tag
      <4>1. CASE Hits(n.line)
        BY <1>7, <2>2, <4>1 DEF Hits
      <4>2. CASE ~Hits(n.line)
        BY <1>1, <1>2, <1>7, <2>2, <4>2
      <4> QED BY <4>1, <4>2
    <3> QED BY <1>1, <3>1, <3>2
  <2> QED BY <2>1, <2>2
<1>12. delivered' = delivered /\ filled' \subseteq Sets
  BY <1>1 DEF RunFrom, L1Inv, L1TypeOK
<1> QED BY <1>5, <1>6, <1>7, <1>9, <1>10, <1>11, <1>12

\* A run marks the set it fills if and only if memory's answer was for its line.
LEMMA RunFills ==
    ASSUME L1Inv, NEW n \in L1Payload, n.mem = payload.mem, RunFrom(n)
    PROVE  StoreIsMemory'
<1> DEFINE l == n.line
<1>1. l \in Lines /\ l.set \in Sets /\ l = [set |-> l.set, tag |-> l.tag] /\ l # Empty
  BY CacheAssumption DEF L1Payload, Lines
<1>2. /\ store \in [Sets -> StoredLine] /\ payload'.mem = payload.mem
      /\ delivered' = delivered /\ filled \subseteq Sets
      /\ store' = IF Hits(l) THEN store
                  ELSE [store EXCEPT ![l.set] = [valid |-> TRUE, tag |-> l.tag, data |-> n.mem]]
  BY RunTypes DEF L1Inv, L1TypeOK, StoredLine
<1>3. filled' = IF Hits(l) THEN filled
                ELSE IF delivered = l THEN filled \cup {l.set} ELSE filled \ {l.set}
  BY DEF RunFrom
<1> HIDE DEF l
<1>4. delivered' # Empty => payload'.mem = Memory[delivered']
  BY <1>2 DEF L1Inv, StoreIsMemory
<1>5. ASSUME NEW s \in filled' PROVE store'[s].data = Memory[[set |-> s, tag |-> store'[s].tag]]
  <2>1. CASE Hits(l)
    BY <1>2, <1>3, <1>5, <2>1 DEF L1Inv, StoreIsMemory
  <2>2. CASE ~Hits(l) /\ s # l.set
    BY <1>1, <1>2, <1>3, <1>5, <2>2 DEF L1Inv, StoreIsMemory
  <2>3. CASE ~Hits(l) /\ s = l.set
    <3>1. delivered = l
      BY <1>3, <1>5, <2>3
    <3>2. n.mem = Memory[l]
      BY <1>1, <3>1 DEF L1Inv, StoreIsMemory
    <3>3. store'[s] = [valid |-> TRUE, tag |-> l.tag, data |-> n.mem]
      BY <1>1, <1>2, <2>3
    <3> QED BY <1>1, <2>3, <3>2, <3>3
  <2> QED BY <2>1, <2>2, <2>3
<1> QED BY <1>4, <1>5 DEF StoreIsMemory

\* The payload a tick runs with.
LEMMA AcceptedIs ==
    ASSUME L1Inv, driver = "adapter"
    PROVE  LET a == IF cache_req_in = Empty THEN asked ELSE cache_req_in
           IN  /\ Accepted \in L1Payload
               /\ Accepted.line = IF a = Empty THEN ZeroLine ELSE a.line
               /\ Accepted.id = IF a = Empty THEN 0 ELSE a.id % IdRange
               /\ Accepted.mem = payload.mem
<1>1. payload \in L1Payload
  BY DEF L1Inv, L1TypeOK, L1Payload
<1>2. CASE cache_req_in = Empty
  BY <1>1, <1>2 DEF Accepted, L1Inv, PayloadIsAsked
<1>3. CASE cache_req_in # Empty
  <2>1. cache_req_in \in CacheReqs
    BY <1>3 DEF L1Inv, L1TypeOK
  <2> QED BY <1>1, <1>3, <2>1, L1Constants DEF Accepted, L1Issued, L1Payload
<1> QED BY <1>2, <1>3

LEMMA L1Starts == L1Init => L1Inv
<1> SUFFICES ASSUME L1Init PROVE L1Inv
  OBVIOUS
<1>1. payload \in L1Payload
  BY L1Constants DEF L1Init, L1Payload
<1>2. store \in [Sets -> StoredLine] /\ latest \in [Sets -> Tags \cup {Empty}]
  BY L1Constants, CacheAssumption DEF L1Init, StoredLine
<1>3. L1TypeOK
  BY <1>1, <1>2 DEF L1Init, L1TypeOK, L1Payload, StoredLine
<1>4. HoldsLatest /\ PayloadIsAsked /\ StoreIsMemory
  BY DEF L1Init, HoldsLatest, PayloadIsAsked, StoreIsMemory
<1> QED BY <1>3, <1>4 DEF L1Inv

LEMMA L1Keeps == L1Inv /\ [L1Next]_l1Vars => L1Inv'
<1> SUFFICES ASSUME L1Inv, [L1Next]_l1Vars PROVE L1Inv'
  OBVIOUS
<1>1. /\ payload \in L1Payload /\ store \in [Sets -> StoredLine]
      /\ driver \in {"adapter", "test"} /\ cache_req_in \in CacheReqs \cup {Empty}
      /\ cache_resp_out \in CacheResps \cup {Empty} /\ asked \in CacheReqs \cup {Empty}
      /\ latest \in [Sets -> Tags \cup {Empty}]
      /\ delivered \in Lines \cup {Empty} /\ filled \subseteq Sets
  BY DEF L1Inv, L1TypeOK, L1Payload, StoredLine
<1>2. ASSUME NEW r \in CacheReqs, L1Offer(r) PROVE L1Inv'
  BY <1>2 DEF L1Offer, L1Inv, L1TypeOK, HoldsLatest, PayloadIsAsked, StoreIsMemory
<1>3. ASSUME NEW r \in CacheReqs, Issue(r) PROVE L1Inv'
  <2>1. payload' \in L1Payload
    BY <1>1, <1>3, L1Constants DEF Issue, L1Issued, L1Payload
  <2>2. L1TypeOK'
    BY <1>3, <2>1 DEF Issue, L1Inv, L1TypeOK, L1Payload
  <2>3. payload'.mem = payload.mem
    BY <1>1, <1>3 DEF Issue, L1Issued, L1Payload
  <2> QED BY <1>3, <2>2, <2>3 DEF Issue, L1Inv, HoldsLatest, PayloadIsAsked, StoreIsMemory
<1>4. ASSUME NEW moved \in BOOLEAN, Tick(moved) PROVE L1Inv'
  <2>1. /\ driver = "adapter" /\ driver' = driver /\ RunFrom(Accepted) /\ cache_req_in' = Empty
        /\ asked' = IF cache_req_in = Empty THEN asked ELSE cache_req_in
        /\ cache_resp_out' \in {cache_resp_out, ResponseOf(LookedUp(Accepted))}
    BY <1>4 DEF Tick, L1Response
  <2>2. Accepted \in L1Payload
    BY <2>1, AcceptedIs
  <2>3. ResponseOf(LookedUp(Accepted)) \in CacheResps
    <3>1. payload' \in L1Payload /\ payload' = LookedUp(Accepted)
      BY <2>1, <2>2, RunTypes DEF RunFrom
    <3> QED BY <3>1 DEF ResponseOf, CacheResps, L1Payload
  <2>4. L1TypeOK'
    BY <1>1, <2>1, <2>2, <2>3, RunTypes DEF L1TypeOK, L1Payload, StoredLine
  <2>5. PayloadIsAsked'
    BY <2>1, <2>2, AcceptedIs, RunTypes DEF PayloadIsAsked
  <2>6. StoreIsMemory'
    BY <2>1, <2>2, AcceptedIs, RunFills
  <2> QED BY <2>1, <2>2, <2>4, <2>5, <2>6, RunTypes DEF L1Inv
<1>5. CASE MemResp
  <2>1. payload' \in L1Payload
    BY <1>1, <1>5, L1Constants DEF MemResp, L1Payload
  <2>2. L1TypeOK'
    BY <1>1, <1>5, <2>1 DEF MemResp, L1Inv, L1TypeOK, L1Payload
  <2>3. payload'.mem = Memory[delivered']
    BY <1>1, <1>5 DEF MemResp, L1Payload
  <2> QED BY <1>5, <2>2, <2>3 DEF MemResp, L1Inv, HoldsLatest, PayloadIsAsked, StoreIsMemory
<1>6. CASE RunOnce
  <2>1. /\ driver = "test" /\ RunFrom(payload)
        /\ UNCHANGED <<driver, cache_req_in, cache_resp_out, asked>>
    BY <1>6 DEF RunOnce
  <2>2. L1TypeOK' /\ HoldsLatest'
    BY <1>1, <2>1, RunTypes DEF L1TypeOK, L1Payload, StoredLine
  <2>3. StoreIsMemory'
    BY <1>1, <2>1, RunFills
  <2> QED BY <2>1, <2>2, <2>3 DEF L1Inv, PayloadIsAsked
<1>7. CASE UNCHANGED l1Vars
  BY <1>7 DEF l1Vars, L1Inv, L1TypeOK, HoldsLatest, PayloadIsAsked, StoreIsMemory
<1> QED BY <1>2, <1>3, <1>4, <1>5, <1>6, <1>7 DEF L1Next

\* Behind the adapter an answer's id, outcome and data are those of the request
\* accepted last (l1_cache_bridge_adapter: tick), for any sets, tags and ids.
THEOREM OwnAnswers == L1Spec => AnswersAreOwn
<1>1. L1Inv /\ [L1Next]_l1Vars =>
        [cache_resp_out' # cache_resp_out =>
           LET id == IF asked' = Empty THEN 0 ELSE asked'.id % IdRange
               line == IF asked' = Empty THEN ZeroLine ELSE asked'.line
           IN  cache_resp_out' = [id |-> id, hit |-> Repeated(line),
                            data |-> IF Repeated(line) THEN store[line.set].data ELSE 0]]_l1Vars
  <2> DEFINE id == IF asked' = Empty THEN 0 ELSE asked'.id % IdRange
             line == IF asked' = Empty THEN ZeroLine ELSE asked'.line
  <2> SUFFICES ASSUME L1Inv, L1Next, cache_resp_out' # cache_resp_out
               PROVE  cache_resp_out' = [id |-> id, hit |-> Repeated(line),
                            data |-> IF Repeated(line) THEN store[line.set].data ELSE 0]
    OBVIOUS
  <2>1. PICK moved \in BOOLEAN : Tick(moved)
    BY DEF L1Next, L1Offer, Issue, MemResp, RunOnce
  <2>2. /\ driver = "adapter" /\ RunFrom(Accepted)
        /\ asked' = IF cache_req_in = Empty THEN asked ELSE cache_req_in
        /\ cache_resp_out' = ResponseOf(LookedUp(Accepted))
    BY <2>1 DEF Tick, L1Response
  <2>3. Accepted \in L1Payload /\ Accepted.line = line /\ Accepted.id = id
    BY <2>2, AcceptedIs
  <2>4. line \in Lines
    BY <2>3 DEF L1Payload
  <2>5. payload' = LookedUp(Accepted) /\ payload'.id = id /\ payload'.hit = Hits(line)
        /\ payload'.data = IF Hits(line) THEN store[line.set].data ELSE 0
    BY <2>2, <2>3, RunTypes DEF RunFrom
  <2>6. Hits(line) = Repeated(line)
    BY <2>4, RepeatedHits DEF Hits, Repeated
  <2> HIDE DEF id, line
  <2> QED BY <2>2, <2>5, <2>6 DEF ResponseOf
<1> QED BY <1>1, L1Starts, L1Keeps, PTL DEF L1Spec, AnswersAreOwn

\* The data of a hit is memory's in every set whose last miss found memory's
\* answer for its own line, for any number of sets and of lines that evict each
\* other; of the sets filled with anything else nothing is said.
THEOREM HitsAreMemory == L1Spec => AnsweredFillIsMemory
<1>1. L1Inv /\ [L1Next]_l1Vars =>
        [RunOnce /\ payload'.hit /\ payload'.line.set \in filled
           => payload'.data = Memory[payload'.line]]_l1Vars
  <2> SUFFICES ASSUME L1Inv, RunOnce, payload'.hit, payload'.line.set \in filled
               PROVE  payload'.data = Memory[payload'.line]
    OBVIOUS
  <2>1. payload \in L1Payload /\ RunFrom(payload)
    BY DEF L1Inv, L1TypeOK, L1Payload, RunOnce
  <2> DEFINE l == payload.line
  <2>2. l \in Lines /\ l.set \in Sets /\ l = [set |-> l.set, tag |-> l.tag]
    BY <2>1 DEF L1Payload, Lines
  <2>3. payload'.line = l /\ Hits(l) /\ payload'.data = store[l.set].data
    BY <2>1, RunTypes
  <2>4. store[l.set].tag = l.tag
    BY <2>3 DEF Hits
  <2> QED BY <2>2, <2>3, <2>4 DEF L1Inv, StoreIsMemory
<1> QED BY <1>1, L1Starts, L1Keeps, PTL DEF L1Spec, AnsweredFillIsMemory


-----------------------------------------------------------------------------
(* PtWalkFsm: the walkers *)

\* What an answer makes of PTW is a state of PTW.
LEMMA PtwTypes ==
    ASSUME WalkTypeOK, NEW e \in Ptes
    PROVE  PtwAdvance(e) \in PtwStates
<1>1. PtwFault(12) \in PtwStates /\ PtwFault(15) \in PtwStates
  BY DEF PtwFault, PtwStates
<1>2. PtwFound(e.ppn) \in PtwStates
  <2>1. e.ppn \in Ppns
    BY DEF Ptes
  <2> QED BY <2>1 DEF PtwFound, PtwStates
<1>3. ASSUME ptw.busy, ~(ptw.level + 1 >= 2)
      PROVE  [busy |-> TRUE, level |-> ptw.level + 1] \in PtwStates
  <2>1. ptw \in [busy : {TRUE}, level : {0, 1}]
    BY <1>3 DEF WalkTypeOK, PtwStates
  <2>2. ptw.level + 1 = 1
    BY <1>3, <2>1
  <2> QED BY <2>2 DEF PtwStates
<1> QED BY <1>1, <1>2, <1>3 DEF PtwAdvance, WalkTypeOK

\* An answer keeps the types of the entry and of PTW.
LEMMA AnsweredTypes ==
    ASSUME WalkTypeOK, NEW e \in Ptes, Answered(e)
    PROVE  start' \in BOOLEAN /\ pte' \in Ptes /\ ptw' \in PtwStates /\ alike' \in BOOLEAN
<1>1. start' \in BOOLEAN /\ pte' \in Ptes /\ ptw' \in PtwStates
  BY PtwTypes DEF Answered, WalkTypeOK
<1>2. alike' \in BOOLEAN
  BY DEF Answered
<1> QED BY <1>1, <1>2

\* The types of the machine, its inputs and PTW (mmu_ptw_chmem.h:150-330).
THEOREM WalkTyping == WalkSpec => []WalkTypeOK
<1>1. WalkInit => WalkTypeOK
  <2>1. Ppns # {} => NoPte \in Ptes
    BY DEF NoPte, Ptes
  <2>2. PtwFault(0) \in PtwStates
    BY DEF PtwFault, PtwStates
  <2> QED BY <2>1, <2>2, PpnsAssumption DEF WalkInit, WalkTypeOK
<1>2. WalkTypeOK /\ [WalkNext]_walkVars => WalkTypeOK'
  <2> SUFFICES ASSUME WalkTypeOK, [WalkNext]_walkVars PROVE WalkTypeOK'
    OBVIOUS
  <2>1. CASE Raise
    BY <2>1 DEF Raise, WalkTypeOK
  <2>2. CASE Begin
    <3>1. PtwStart \in PtwStates
      BY DEF PtwStart, PtwStates
    <3> QED BY <2>2, <3>1 DEF Begin, WalkTypeOK
  <2>3. ASSUME NEW e \in Ptes,
               FindsFault(e) \/ FindsLeaf(e) \/ FindsPointer(e) \/ FindsWriteOnly(e)
        PROVE  WalkTypeOK'
    <3>1. Answered(e)
      BY <2>3 DEF FindsFault, FindsLeaf, FindsPointer, FindsWriteOnly
    <3>2. walkState' \in {"IDLE", "L0_WAIT", "L1_WAIT", "DONE", "FAULT"} /\ owed' \in BOOLEAN
      BY <2>3 DEF FindsFault, FindsLeaf, FindsPointer, FindsWriteOnly, WalkTypeOK
    <3> QED BY <3>1, <3>2, AnsweredTypes DEF WalkTypeOK
  <2>4. CASE Return
    BY <2>4 DEF Return, WalkTypeOK
  <2>5. CASE UNCHANGED walkVars
    BY <2>5 DEF walkVars, WalkTypeOK
  <2> QED BY <2>1, <2>2, <2>3, <2>4, <2>5 DEF WalkNext, Answer
<1> QED BY <1>1, <1>2, PTL DEF WalkSpec

\* On entries that both read alike the machine is where PTW is and ends as it
\* does (mmu_ptw_chmem.h:228-330 against ptw.cpp).
THEOREM Alike == WalkSpec => []SameWalk
<1>1. WalkInit => SameWalk
  BY DEF WalkInit, SameWalk, Done, Fault
<1>2. WalkTypeOK /\ SameWalk /\ [WalkNext]_walkVars => SameWalk'
  <2> SUFFICES ASSUME WalkTypeOK, SameWalk, [WalkNext]_walkVars, alike' PROVE SameWalk'
    BY DEF SameWalk
  <2>1. CASE Raise
    BY <2>1 DEF Raise, SameWalk, Done, Fault, FaultCode, ResultPpn
  <2>2. CASE Begin
    BY <2>2 DEF Begin, SameWalk, Done, Fault
  <2>3. ASSUME NEW e \in Ptes, Answered(e)
        PROVE  /\ alike /\ AlikeIn(walkState, e) /\ pte' = e /\ ptw' = PtwAdvance(e)
               /\ walkState = "L0_WAIT" => ptw = PtwStart
               /\ walkState = "L1_WAIT" => ptw = [busy |-> TRUE, level |-> 1]
    BY <2>3 DEF Answered, SameWalk
  <2>4. ASSUME NEW e \in Ptes, FindsFault(e) PROVE SameWalk'
    <3>1. Answered(e) /\ Waiting /\ walkState' = "FAULT"
      BY <2>4 DEF FindsFault, Answered
    <3>2. ~e.v
      BY <2>3, <2>4, <3>1 DEF FindsFault, AlikeIn, Waiting, IsPtr, IsLeaf, IsReserved
    <3>3. ptw' = PtwFault(12)
      BY <2>3, <3>1, <3>2 DEF Waiting, PtwAdvance, PtwStart
    <3> QED BY <2>3, <3>1, <3>2, <3>3 DEF SameWalk, Done, Fault, FaultCode
  <2>5. ASSUME NEW e \in Ptes, FindsLeaf(e) PROVE SameWalk'
    <3>1. Answered(e) /\ Waiting /\ walkState' = "DONE" /\ e.v /\ IsLeaf(e)
      BY <2>5 DEF FindsLeaf, Answered
    <3>2. walkState = "L1_WAIT" /\ ~e.w
      BY <2>3, <3>1 DEF AlikeIn, Waiting, IsPtr, IsLeaf
    <3>3. ptw' = PtwFound(e.ppn)
      BY <2>3, <3>1, <3>2 DEF PtwAdvance, PtwStart
    <3> QED BY <2>3, <3>1, <3>3 DEF SameWalk, Done, Fault, ResultPpn
  <2>6. ASSUME NEW e \in Ptes, FindsPointer(e) PROVE SameWalk'
    <3>1. Answered(e) /\ walkState = "L0_WAIT" /\ walkState' = "L1_WAIT" /\ e.v /\ IsPtr(e)
      BY <2>6 DEF FindsPointer
    <3>2. ptw' = [busy |-> TRUE, level |-> 1]
      <4>1. ptw = PtwStart /\ PtwStart.busy /\ PtwStart.level = 0
        BY <2>3, <3>1 DEF PtwStart
      <4> QED BY <2>3, <3>1, <4>1 DEF PtwAdvance, IsPtr
    <3> QED BY <3>1, <3>2 DEF SameWalk, Done, Fault
  <2>7. ASSUME NEW e \in Ptes, FindsWriteOnly(e) PROVE FALSE
    <3>1. Answered(e) /\ Waiting /\ e.v /\ e.w /\ ~e.r /\ ~e.x
      BY <2>7 DEF FindsWriteOnly, Answered
    <3> QED BY <2>3, <3>1 DEF AlikeIn, Waiting, IsPtr, IsLeaf
  <2>8. CASE Return
    BY <2>8 DEF Return, SameWalk, Done, Fault
  <2>9. CASE UNCHANGED walkVars
    BY <2>9 DEF walkVars, SameWalk, Done, Fault, FaultCode, ResultPpn
  <2> QED BY <2>1, <2>2, <2>4, <2>5, <2>6, <2>7, <2>8, <2>9 DEF WalkNext, Answer
<1> QED BY <1>1, <1>2, WalkTyping, PTL DEF WalkSpec

-----------------------------------------------------------------------------
(* ChmemTlb: the lanes and their two ports *)

\* The registers are at reset, or hold what the host gave for good.
LanesInv ==
    /\ preload \in [lanes : Loads, mode : Modes, given : {{}, {TRUE}, {FALSE}}, bound : SUBSET Ports]
    /\ \/ entry = [i \in 1 .. Lanes |-> ZeroEntry] /\ satpMode = FALSE
       \/ entry = preload.lanes /\ satpMode = EncodeSatp(preload.mode, preload.given)

LEMMA LanesStart == TlbInit => LanesInv
BY DEF TlbInit, LanesInv

LEMMA LanesKeep == LanesInv /\ [TlbNext]_laneVars => LanesInv'
<1> SUFFICES ASSUME LanesInv, [TlbNext]_laneVars PROVE LanesInv'
  OBVIOUS
<1>1. ASSUME NEW a, Clock(a) PROVE LanesInv'
  BY <1>1 DEF Clock, LanesInv, EncodeSatp
<1>2. CASE UNCHANGED laneVars
  BY <1>2 DEF laneVars, LanesInv, EncodeSatp
<1> QED BY <1>1, <1>2 DEF TlbNext

\* The select chain finds the one lane that hits.
LEMMA OneLane ==
    ASSUME NEW p \in Ports, NEW i \in 1 .. Lanes, HitLane(p, i),
           \A j \in 1 .. Lanes : HitLane(p, j) => j = i
    PROVE  PaddrPage(p) = entry[i].paddr
<1> DEFINE hits == {j \in 1 .. Lanes : HitLane(p, j)}
<1>1. hits = {i}
  OBVIOUS
<1>2. i \in hits /\ \A j \in hits : j <= i
  BY <1>1
<1> DEFINE top == CHOOSE k \in hits : \A j \in hits : j <= k
<1>3. top \in hits
  BY <1>2
<1>4. top = i
  <2> HIDE DEF hits, top
  <2> QED BY <1>1, <1>3
<1>5. PaddrPage(p) = IF hits = {} THEN 0 ELSE entry[top].paddr
  BY DEF PaddrPage
<1> HIDE DEF top, hits
<1> QED BY <1>1, <1>4, <1>5

\* The registers hold what the host gave.
Clocked == entry = preload.lanes /\ satpMode = EncodeSatp(preload.mode, preload.given)

LEMMA LanesTranslate ==
    ASSUME LanesInv, NEW p \in Ports, Clocked
    PROVE  Translates(p)
<1> DEFINE loaded == {i \in 1 .. Lanes : preload.lanes[i].valid
                                         /\ preload.lanes[i].vaddr = portPage[p]}
           on == TurnedOn
<1> USE DEF Clocked
<1>1. satpMode <=> on
  <2>1. preload.given \in {{}, {TRUE}, {FALSE}}
    BY DEF LanesInv
  <2>2. CASE preload.given = {}
    BY <2>2 DEF EncodeSatp, TurnedOn
  <2>3. CASE preload.given # {}
    BY <2>3 DEF EncodeSatp, TurnedOn
  <2> QED BY <2>2, <2>3
<1>2. \A i \in 1 .. Lanes : HitLane(p, i) <=> i \in loaded
  BY DEF HitLane
<1>3. \A i, j \in loaded : i = j
  <2>1. preload.lanes \in Loads
    BY DEF LanesInv
  <2> QED BY <2>1 DEF Loads
<1> HIDE DEF on
<1>4. CASE on /\ loaded # {}
  <2>1. PICK i \in loaded : TRUE
    BY <1>4
  <2>2. i \in 1 .. Lanes /\ HitLane(p, i) /\ PaddrValid(p)
    BY <1>1, <1>2, <1>4, <2>1 DEF PaddrValid
  <2>3. PaddrPage(p) = preload.lanes[i].paddr
    BY <1>2, <1>3, <2>2, OneLane
  <2>4. AccessPage(p) = preload.lanes[i].paddr
    BY <2>2, <2>3 DEF AccessPage
  <2> QED BY <1>4, <2>1, <2>4 DEF on, Translates
<1>5. CASE ~(on /\ loaded # {})
  <2>1. ~PaddrValid(p)
    BY <1>1, <1>2, <1>5 DEF PaddrValid
  <2>2. AccessPage(p) = portPage[p]
    BY <2>1 DEF AccessPage
  <2> QED BY <1>5, <2>2 DEF on, Translates
<1> QED BY <1>4, <1>5

\* For any number of lanes, after every clock each port that is bound is
\* translated by the lane the host loaded for its page, if translation is on,
\* and left alone otherwise (MMUPlugin_chmem.h:216-226).
THEOREM PortsTranslated == TlbSpec => AccessTranslated
<1>1. [TlbNext]_laneVars => [Clocked']_laneVars
  BY DEF TlbNext, Clock, Clocked, EncodeSatp
<1>2. LanesInv /\ Clocked => BoundTranslate
  BY LanesTranslate DEF BoundTranslate, LanesInv
<1> QED BY <1>1, <1>2, LanesStart, LanesKeep, PTL DEF TlbSpec, AccessTranslated
=============================================================================
