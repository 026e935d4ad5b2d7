------------------------- MODULE PipeBuilder_proof --------------------------
(***************************************************************************)
(* Theorems about PipeBuilder, for any plugins, callbacks, CtrlLinks and   *)
(* number of hardware threads.                                             *)
(***************************************************************************)
EXTENDS PipeBuilder, Integers, FiniteSetTheorems, WellFoundedInduction, TLAPS
-----------------------------------------------------------------------------
(* Sequences of positions *)

\* A set of numbers that is not empty has a least one.
LEMMA LeastOf ==
    ASSUME NEW T, T \subseteq Nat, T # {}
    PROVE  \E n \in T : \A m \in T : ~ (m < n)
<1>1. \E n \in T : \A m \in T : <<m, n>> \notin OpToRel(<, Nat)
  BY NatLessThanWellFounded, WFMin
<1> QED BY <1>1 DEF OpToRel

\* The function InOrder computes.
Lists(n, chosen, F) ==
    F = [k \in 0 .. n |->
            IF k = 0 THEN <<>>
            ELSE IF k \in chosen THEN Append(F[k - 1], k) ELSE F[k - 1]]

LEMMA ListsExists ==
    ASSUME NEW N \in Nat, NEW chosen
    PROVE  \E F : Lists(N, chosen, F)
<1> DEFINE T == {n \in 0 .. N : ~ \E F : Lists(n, chosen, F)}
<1>1. SUFFICES ASSUME T # {} PROVE FALSE
  OBVIOUS
<1>2. PICK n \in T : \A m \in T : ~ (m < n)
  <2>1. T \subseteq Nat
    OBVIOUS
  <2> HIDE DEF T
  <2> QED BY <2>1, <1>1, LeastOf
<1>3. CASE n = 0
  <2>1. Lists(0, chosen, [k \in 0 .. 0 |-> <<>>])
    BY DEF Lists
  <2> QED BY <2>1, <1>2, <1>3
<1>4. CASE n # 0
  <2>1. n - 1 \in 0 .. N /\ n - 1 < n /\ n \in Nat
    BY <1>2, <1>4
  <2>2. PICK F : Lists(n - 1, chosen, F)
    BY <2>1, <1>2
  <2>3. \A k \in 0 .. n - 1 :
            F[k] = IF k = 0 THEN <<>>
                   ELSE IF k \in chosen THEN Append(F[k - 1], k) ELSE F[k - 1]
    BY <2>2 DEF Lists
  <2> DEFINE G == [k \in 0 .. n |->
                      IF k < n THEN F[k]
                      ELSE IF n \in chosen THEN Append(F[n - 1], n) ELSE F[n - 1]]
  <2>4. ASSUME NEW k \in 0 .. n
        PROVE  G[k] = IF k = 0 THEN <<>>
                      ELSE IF k \in chosen THEN Append(G[k - 1], k) ELSE G[k - 1]
    <3>1. CASE k = 0
      BY <3>1, <2>3, <2>1
    <3>2. CASE k # 0 /\ k < n
      <4>1. G[k] = F[k] /\ G[k - 1] = F[k - 1] /\ k \in 0 .. n - 1
        BY <3>2, <2>1
      <4> HIDE DEF G
      <4> QED BY <4>1, <3>2, <2>3
    <3>3. CASE k = n
      <4>1. G[k - 1] = F[k - 1]
        BY <3>3, <2>1
      <4>2. G[k] = IF n \in chosen THEN Append(F[n - 1], n) ELSE F[n - 1]
        BY <3>3, <2>1
      <4> HIDE DEF G
      <4> QED BY <4>1, <4>2, <3>3, <1>4
    <3> QED BY <3>1, <3>2, <3>3, <2>1
  <2>5. G = [k \in 0 .. n |-> G[k]]
    OBVIOUS
  <2> HIDE DEF G
  <2>6. Lists(n, chosen, G)
    BY <2>4, <2>5 DEF Lists
  <2> QED BY <2>6, <1>2
<1> QED BY <1>3, <1>4

\* What the list of the members up to k is.
Ascends(q, k, chosen) ==
    /\ q \in Seq(1 .. k)
    /\ \A i, j \in DOMAIN q : i < j => q[i] < q[j]
    /\ \A x \in 1 .. k : x \in chosen <=> \E i \in DOMAIN q : q[i] = x

LEMMA AscendsStep ==
    ASSUME NEW k \in Nat, k > 0, NEW chosen, NEW q, Ascends(q, k - 1, chosen)
    PROVE  /\ k \in chosen => Ascends(Append(q, k), k, chosen)
           /\ k \notin chosen => Ascends(q, k, chosen)
<1>1. /\ q \in Seq(1 .. k - 1) /\ q \in Seq(1 .. k) /\ Len(q) \in Nat
      /\ DOMAIN q = 1 .. Len(q) /\ \A i \in DOMAIN q : q[i] \in 1 .. k - 1
  BY DEF Ascends
<1>2. ASSUME k \in chosen PROVE Ascends(Append(q, k), k, chosen)
  <2> DEFINE r == Append(q, k)
  <2>1. /\ r \in Seq(1 .. k) /\ DOMAIN r = 1 .. Len(q) + 1
        /\ r[Len(q) + 1] = k /\ \A i \in 1 .. Len(q) : r[i] = q[i]
    BY <1>1
  <2> HIDE DEF r
  <2>2. \A i, j \in DOMAIN r : i < j => r[i] < r[j]
    <3> SUFFICES ASSUME NEW i \in DOMAIN r, NEW j \in DOMAIN r, i < j PROVE r[i] < r[j]
      OBVIOUS
    <3>1. i \in 1 .. Len(q) /\ (j \in 1 .. Len(q) \/ j = Len(q) + 1)
      BY <2>1, <1>1
    <3>2. r[i] = q[i] /\ q[i] \in 1 .. k - 1
      BY <3>1, <2>1, <1>1
    <3> QED BY <3>1, <3>2, <2>1, <1>1 DEF Ascends
  <2>3. ASSUME NEW x \in 1 .. k PROVE x \in chosen <=> \E i \in DOMAIN r : r[i] = x
    <3>1. CASE x = k
      <4>1. Len(q) + 1 \in DOMAIN r
        BY <2>1, <1>1
      <4> QED BY <3>1, <4>1, <2>1, <1>2
    <3>2. CASE x # k
      <4>1. x \in 1 .. k - 1
        BY <3>2
      <4>2. (\E i \in DOMAIN r : r[i] = x) <=> \E i \in DOMAIN q : q[i] = x
        <5>1. ASSUME NEW i \in DOMAIN r, r[i] = x PROVE i \in DOMAIN q /\ q[i] = x
          BY <5>1, <3>2, <2>1, <1>1
        <5>2. ASSUME NEW i \in DOMAIN q, q[i] = x PROVE i \in DOMAIN r /\ r[i] = x
          BY <5>2, <2>1, <1>1
        <5> QED BY <5>1, <5>2
      <4> QED BY <4>1, <4>2 DEF Ascends
    <3> QED BY <3>1, <3>2
  <2> QED BY <2>1, <2>2, <2>3 DEF Ascends, r
<1>3. ASSUME k \notin chosen PROVE Ascends(q, k, chosen)
  <2>1. ASSUME NEW x \in 1 .. k PROVE x \in chosen <=> \E i \in DOMAIN q : q[i] = x
    <3>1. CASE x = k
      BY <3>1, <1>1, <1>3
    <3>2. CASE x # k
      BY <3>2 DEF Ascends
    <3> QED BY <3>1, <3>2
  <2> QED BY <2>1, <1>1 DEF Ascends
<1> QED BY <1>2, <1>3

LEMMA InOrderIs ==
    ASSUME NEW N \in Nat, NEW chosen
    PROVE  Ascends(InOrder(N, chosen), N, chosen)
<1>1. PICK F : Lists(N, chosen, F) /\ InOrder(N, chosen) = F[N]
  <2>1. InOrder(N, chosen) = (CHOOSE F : Lists(N, chosen, F))[N]
    BY DEF InOrder, Lists
  <2> QED BY <2>1, ListsExists
<1>2. /\ F[0] = <<>>
      /\ \A k \in 1 .. N : F[k] = IF k \in chosen THEN Append(F[k - 1], k) ELSE F[k - 1]
  <2>1. \A k \in 0 .. N : F[k] = IF k = 0 THEN <<>>
                               ELSE IF k \in chosen THEN Append(F[k - 1], k) ELSE F[k - 1]
    BY <1>1 DEF Lists
  <2>2. \A k \in 1 .. N : k \in 0 .. N /\ k # 0
    OBVIOUS
  <2>3. 0 \in 0 .. N
    OBVIOUS
  <2> QED BY <2>1, <2>2, <2>3
<1> DEFINE T == {k \in 0 .. N : ~Ascends(F[k], k, chosen)}
<1>3. SUFFICES ASSUME T # {} PROVE FALSE
  BY <1>1
<1>4. PICK k \in T : \A m \in T : ~ (m < k)
  <2>1. T \subseteq Nat
    OBVIOUS
  <2> HIDE DEF T
  <2> QED BY <2>1, <1>3, LeastOf
<1>5. k # 0
  <2>1. Ascends(<<>>, 0, chosen)
    BY DEF Ascends
  <2> QED BY <2>1, <1>2, <1>4
<1>6. k - 1 \in 0 .. N /\ k - 1 < k /\ k \in 1 .. N /\ k \in Nat /\ k > 0
  BY <1>4, <1>5
<1>7. Ascends(F[k - 1], k - 1, chosen)
  BY <1>4, <1>6
<1>8. Ascends(F[k], k, chosen)
  BY <1>2, <1>6, <1>7, AscendsStep
<1> QED BY <1>4, <1>8

-----------------------------------------------------------------------------
(* The order of stages and callbacks *)

IsSeq(s) == Len(s) \in Nat /\ DOMAIN s = 1 .. Len(s)

\* Where a stage first occurs.
FirstAt(s, name) ==
    CHOOSE j \in DOMAIN s :
        s[j].stage = name /\ \A i \in 1 .. j - 1 : s[i].stage # name

LEMMA FirstAtIs ==
    ASSUME NEW s, IsSeq(s), NEW k \in DOMAIN s
    PROVE  LET f == FirstAt(s, s[k].stage) IN
           /\ f \in DOMAIN s /\ s[f].stage = s[k].stage
           /\ \A i \in 1 .. f - 1 : s[i].stage # s[k].stage
           /\ f <= k
<1> DEFINE T == {j \in DOMAIN s : s[j].stage = s[k].stage}
<1>1. T \subseteq Nat /\ T # {}
  BY DEF IsSeq
<1>2. PICK n \in T : \A m \in T : ~ (m < n)
  <2> HIDE DEF T
  <2> QED BY <1>1, LeastOf
<1>3. n \in DOMAIN s /\ s[n].stage = s[k].stage /\ n \in Nat
  BY <1>1
<1>4. ASSUME NEW i \in 1 .. n - 1 PROVE s[i].stage # s[k].stage
  <2>1. i \in DOMAIN s /\ i < n
    BY <1>3 DEF IsSeq
  <2> QED BY <2>1, <1>2
<1>5. LET f == FirstAt(s, s[k].stage) IN
      /\ f \in DOMAIN s /\ s[f].stage = s[k].stage
      /\ \A i \in 1 .. f - 1 : s[i].stage # s[k].stage
  BY <1>3, <1>4 DEF FirstAt
<1> DEFINE f == FirstAt(s, s[k].stage)
<1>6. f <= k
  <2> SUFFICES ASSUME ~ (f <= k) PROVE FALSE
    OBVIOUS
  <2>1. k \in 1 .. f - 1
    <3>1. f \in Nat /\ k \in Nat /\ k >= 1
      BY <1>5 DEF IsSeq
    <3> HIDE DEF f
    <3> QED BY <3>1
  <2> QED BY <2>1, <1>5
<1> QED BY <1>5, <1>6

\* The stages in the order of their first occurrence, every one of them.
IsOrder(s, o) ==
    /\ IsSeq(o)
    /\ \A i \in DOMAIN o : \E k \in DOMAIN s : o[i] = s[k].stage
    /\ \A i, j \in DOMAIN o : i < j => FirstAt(s, o[i]) < FirstAt(s, o[j])

LEMMA CanonicalOrderIs ==
    ASSUME NEW s, IsSeq(s)
    PROVE  /\ IsOrder(s, CanonicalOrder(s))
           /\ \A k \in DOMAIN s : \E i \in DOMAIN CanonicalOrder(s) :
                    CanonicalOrder(s)[i] = s[k].stage
<1> DEFINE firsts == {k \in DOMAIN s : \A j \in 1 .. k - 1 : s[j].stage # s[k].stage}
           places == InOrder(Len(s), firsts)
           o == CanonicalOrder(s)
<1>1. Ascends(places, Len(s), firsts)
  BY InOrderIs DEF IsSeq
<1>2. /\ Len(places) \in Nat /\ DOMAIN places = 1 .. Len(places)
      /\ \A i \in DOMAIN places : places[i] \in DOMAIN s
  <2> HIDE DEF places
  <2>1. places \in Seq(1 .. Len(s)) /\ DOMAIN s = 1 .. Len(s)
    BY <1>1 DEF Ascends, IsSeq
  <2> QED BY <2>1
<1>3. o = [k \in DOMAIN places |-> s[places[k]].stage]
  BY DEF CanonicalOrder
<1> HIDE DEF places, o
<1>4. IsSeq(o) /\ DOMAIN o = DOMAIN places
  BY <1>2, <1>3 DEF IsSeq
<1>5. ASSUME NEW i \in DOMAIN o
      PROVE  places[i] \in DOMAIN s /\ o[i] = s[places[i]].stage /\ FirstAt(s, o[i]) = places[i]
  <2>1. places[i] \in DOMAIN s /\ o[i] = s[places[i]].stage
    BY <1>2, <1>3, <1>4
  <2>2. places[i] \in firsts
    BY <1>1, <1>2, <1>4, <2>1 DEF Ascends, IsSeq
  <2>3. /\ FirstAt(s, o[i]) \in DOMAIN s /\ s[FirstAt(s, o[i])].stage = o[i]
        /\ FirstAt(s, o[i]) <= places[i]
    BY <2>1, FirstAtIs
  <2>4. \A j \in 1 .. places[i] - 1 : s[j].stage # o[i]
    BY <2>1, <2>2
  <2>5. FirstAt(s, o[i]) \notin 1 .. places[i] - 1
    BY <2>3, <2>4
  <2>6. FirstAt(s, o[i]) \in Nat /\ FirstAt(s, o[i]) >= 1 /\ places[i] \in Nat
    BY <2>1, <2>3 DEF IsSeq
  <2>7. FirstAt(s, o[i]) = places[i]
    BY <2>3, <2>5, <2>6
  <2> QED BY <2>1, <2>7
<1>6. \A i, j \in DOMAIN o : i < j => FirstAt(s, o[i]) < FirstAt(s, o[j])
  BY <1>1, <1>4, <1>5 DEF Ascends
<1>7. ASSUME NEW k \in DOMAIN s PROVE \E i \in DOMAIN o : o[i] = s[k].stage
  <2> DEFINE f == FirstAt(s, s[k].stage)
  <2>1. f \in DOMAIN s /\ s[f].stage = s[k].stage /\ f \in firsts
    BY FirstAtIs
  <2> HIDE DEF f, firsts
  <2>2. PICK i \in DOMAIN places : places[i] = f
    BY <1>1, <2>1 DEF Ascends, IsSeq
  <2> QED BY <2>1, <2>2, <1>3, <1>4
<1> QED BY <1>4, <1>5, <1>6, <1>7 DEF IsOrder, o

\* Where a phase comes in a stage.
PhaseAt(s, k) == CHOOSE p \in 1 .. 3 : Phases[p] = s[k].phase

LEMMA PhaseAtIs ==
    ASSUME NEW s, NEW k, s[k].phase \in ToSet(Phases)
    PROVE  /\ PhaseAt(s, k) \in 1 .. 3
           /\ \A p \in 1 .. 3 : s[k].phase = Phases[p] <=> PhaseAt(s, k) = p
<1>1. DOMAIN Phases = 1 .. 3
  BY DEF Phases
<1>2. PICK p \in 1 .. 3 : s[k].phase = Phases[p]
  BY <1>1 DEF ToSet
<1>3. PhaseAt(s, k) \in 1 .. 3 /\ Phases[PhaseAt(s, k)] = s[k].phase
  BY <1>2 DEF PhaseAt
<1>4. \A q, r \in 1 .. 3 : Phases[q] = Phases[r] => q = r
  BY DEF Phases
<1> QED BY <1>3, <1>4

\* A callback comes before another one of the same stage.
Earlier(s, j, k) ==
    \/ PhaseAt(s, j) < PhaseAt(s, k)
    \/ PhaseAt(s, j) = PhaseAt(s, k) /\ j < k

IsBucket(s, name, b) ==
    /\ b \in Seq(Nat)
    /\ \A i \in DOMAIN b : b[i] \in DOMAIN s /\ s[b[i]].stage = name
    /\ \A i, j \in DOMAIN b : i < j => Earlier(s, b[i], b[j])

In(x, q) == \E i \in DOMAIN q : q[i] = x

Precede(s, a, b) == \A i \in DOMAIN a, j \in DOMAIN b : Earlier(s, a[i], b[j])

LEMMA InPhaseIs ==
    ASSUME NEW s, IsSeq(s), \A k \in DOMAIN s : s[k].phase \in ToSet(Phases),
           NEW name, NEW p \in 1 .. 3
    PROVE  LET b == InPhase(s, name, p) IN
           /\ IsBucket(s, name, b)
           /\ \A i \in DOMAIN b : PhaseAt(s, b[i]) = p
           /\ \A k \in DOMAIN s : s[k].stage = name /\ PhaseAt(s, k) = p => In(k, b)
<1> DEFINE chosen == {k \in DOMAIN s : s[k].stage = name /\ s[k].phase = Phases[p]}
           b == InPhase(s, name, p)
<1>1. Ascends(b, Len(s), chosen)
  BY InOrderIs DEF IsSeq, InPhase
<1>2. \A k \in DOMAIN s : k \in chosen <=> s[k].stage = name /\ PhaseAt(s, k) = p
  BY PhaseAtIs
<1> HIDE DEF chosen, b
<1>3. /\ b \in Seq(Nat)
      /\ \A i \in DOMAIN b : b[i] \in DOMAIN s /\ b[i] \in chosen
  BY <1>1 DEF Ascends, IsSeq
<1>4. \A i \in DOMAIN b : s[b[i]].stage = name /\ PhaseAt(s, b[i]) = p
  BY <1>2, <1>3
<1>5. \A i, j \in DOMAIN b : i < j => Earlier(s, b[i], b[j])
  BY <1>1, <1>4 DEF Earlier, Ascends
<1>6. ASSUME NEW k \in DOMAIN s, s[k].stage = name, PhaseAt(s, k) = p PROVE In(k, b)
  BY <1>1, <1>2, <1>6 DEF Ascends, IsSeq, In
<1> QED BY <1>3, <1>4, <1>5, <1>6 DEF IsBucket, b

\* One part of a bucket after another.
Join(a, b) == a \o b

LEMMA Joined ==
    ASSUME NEW s, NEW name, NEW a, NEW b,
           IsBucket(s, name, a), IsBucket(s, name, b), Precede(s, a, b)
    PROVE  /\ IsBucket(s, name, Join(a, b))
           /\ \A x : In(x, Join(a, b)) <=> In(x, a) \/ In(x, b)
<1> DEFINE c == Join(a, b)
           m == Len(a)
           n == Len(b)
<1>1. /\ m \in Nat /\ n \in Nat /\ DOMAIN a = 1 .. m /\ DOMAIN b = 1 .. n
      /\ c \in Seq(Nat) /\ Len(c) = m + n /\ DOMAIN c = 1 .. m + n
      /\ \A i \in 1 .. m + n : c[i] = IF i <= m THEN a[i] ELSE b[i - m]
  <2>1. a \in Seq(Nat) /\ b \in Seq(Nat)
    BY DEF IsBucket
  <2> QED BY <2>1 DEF Join
<1> HIDE DEF c, m, n
<1>2. ASSUME NEW i \in DOMAIN c
      PROVE  \/ i \in DOMAIN a /\ c[i] = a[i]
             \/ (i - m \in DOMAIN b /\ c[i] = b[i - m] /\ i > m)
  BY <1>1
<1>3. \A i \in DOMAIN c : c[i] \in DOMAIN s /\ s[c[i]].stage = name
  BY <1>2 DEF IsBucket
<1>4. ASSUME NEW i \in DOMAIN c, NEW j \in DOMAIN c, i < j PROVE Earlier(s, c[i], c[j])
  <2>1. CASE j \in DOMAIN a /\ c[j] = a[j]
    <3>1. i \in DOMAIN a /\ c[i] = a[i]
      BY <2>1, <1>1, <1>4
    <3> QED BY <2>1, <3>1, <1>4 DEF IsBucket
  <2>2. CASE j - m \in DOMAIN b /\ c[j] = b[j - m] /\ j > m
    <3>1. CASE i \in DOMAIN a /\ c[i] = a[i]
      BY <2>2, <3>1 DEF Precede
    <3>2. CASE i - m \in DOMAIN b /\ c[i] = b[i - m] /\ i > m
      <4>1. i - m < j - m
        BY <1>1, <1>4
      <4> QED BY <2>2, <3>2, <4>1 DEF IsBucket
    <3> QED BY <3>1, <3>2, <1>2
  <2> QED BY <2>1, <2>2, <1>2
<1>5. ASSUME NEW x PROVE In(x, c) <=> In(x, a) \/ In(x, b)
  <2>1. ASSUME NEW i \in DOMAIN a PROVE i \in DOMAIN c /\ c[i] = a[i]
    BY <1>1
  <2>2. ASSUME NEW i \in DOMAIN b PROVE i + m \in DOMAIN c /\ c[i + m] = b[i]
    <3>1. i + m \in 1 .. m + n /\ ~ (i + m <= m) /\ (i + m) - m = i
      BY <1>1
    <3> QED BY <3>1, <1>1
  <2>3. ASSUME NEW i \in DOMAIN c, c[i] = x PROVE In(x, a) \/ In(x, b)
    BY <2>3, <1>2 DEF In
  <2> QED BY <2>1, <2>2, <2>3 DEF In
<1> QED BY <1>1, <1>3, <1>4, <1>5 DEF IsBucket, c

LEMMA BucketIs ==
    ASSUME NEW s, IsSeq(s), \A k \in DOMAIN s : s[k].phase \in ToSet(Phases), NEW name
    PROVE  /\ IsBucket(s, name, Bucket(s, name))
           /\ \A k \in DOMAIN s : s[k].stage = name => In(k, Bucket(s, name))
<1> DEFINE a == InPhase(s, name, 1)
           b == InPhase(s, name, 2)
           c == InPhase(s, name, 3)
           d == Join(a, b)
<1>0. 1 \in 1 .. 3 /\ 2 \in 1 .. 3 /\ 3 \in 1 .. 3
  OBVIOUS
<1>1. /\ IsBucket(s, name, a) /\ \A i \in DOMAIN a : PhaseAt(s, a[i]) = 1
      /\ \A k \in DOMAIN s : s[k].stage = name /\ PhaseAt(s, k) = 1 => In(k, a)
  BY <1>0, InPhaseIs
<1>2. /\ IsBucket(s, name, b) /\ \A i \in DOMAIN b : PhaseAt(s, b[i]) = 2
      /\ \A k \in DOMAIN s : s[k].stage = name /\ PhaseAt(s, k) = 2 => In(k, b)
  BY <1>0, InPhaseIs
<1>3. /\ IsBucket(s, name, c) /\ \A i \in DOMAIN c : PhaseAt(s, c[i]) = 3
      /\ \A k \in DOMAIN s : s[k].stage = name /\ PhaseAt(s, k) = 3 => In(k, c)
  BY <1>0, InPhaseIs
<1> HIDE DEF a, b, c
<1>4. IsBucket(s, name, d) /\ \A x : In(x, d) <=> In(x, a) \/ In(x, b)
  <2>1. Precede(s, a, b)
    BY <1>1, <1>2 DEF Earlier, Precede
  <2> QED BY <2>1, <1>1, <1>2, Joined
<1>5. Precede(s, d, c)
  <2> SUFFICES ASSUME NEW i \in DOMAIN d, NEW j \in DOMAIN c PROVE Earlier(s, d[i], c[j])
    BY DEF Precede
  <2> HIDE DEF d
  <2>1. In(d[i], a) \/ In(d[i], b)
    BY <1>4 DEF In
  <2>2. PhaseAt(s, d[i]) \in {1, 2}
    BY <2>1, <1>1, <1>2 DEF In
  <2> QED BY <2>2, <1>3 DEF Earlier
<1>6. IsBucket(s, name, Join(d, c)) /\ \A x : In(x, Join(d, c)) <=> In(x, d) \/ In(x, c)
  <2> HIDE DEF d
  <2> QED BY <1>3, <1>4, <1>5, Joined
<1>7. Bucket(s, name) = Join(d, c)
  BY DEF Bucket, Join, a, b, c
<1>8. ASSUME NEW k \in DOMAIN s, s[k].stage = name PROVE In(k, Join(d, c))
  <2>1. PhaseAt(s, k) \in {1, 2, 3}
    BY PhaseAtIs
  <2>2. In(k, a) \/ In(k, b) \/ In(k, c)
    BY <2>1, <1>1, <1>2, <1>3, <1>8
  <2> HIDE DEF d
  <2> QED BY <2>2, <1>4, <1>6
<1> HIDE DEF d
<1> QED BY <1>6, <1>7, <1>8
-----------------------------------------------------------------------------
(* A pass over the stages *)

\* Before, of any sequence of callbacks.
Sooner(s, j, k) ==
    \/ FirstAt(s, s[j].stage) < FirstAt(s, s[k].stage)
    \/ s[j].stage = s[k].stage /\ Earlier(s, j, k)

\* Callbacks that may have run, in this order.
RunOk(s, r) ==
    /\ r \in Seq(Nat)
    /\ \A i \in DOMAIN r : r[i] \in DOMAIN s
    /\ \A i, j \in DOMAIN r : i < j => Sooner(s, r[i], r[j])

\* A pass that has run or begun to run the stages of r, with the stages of o
\* to come: the first of them come later than all of r, and no stage is lost.
PassOk(s, o, r, sk) ==
    /\ RunOk(s, r)
    /\ IsOrder(s, o) /\ o \in Seq(ToSet(o))
    /\ \A i \in DOMAIN r, j \in DOMAIN o : FirstAt(s, s[r[i]].stage) < FirstAt(s, o[j])
    /\ \A k \in DOMAIN s : s[k].stage \in sk \/ In(k, r) \/ In(s[k].stage, o)
    /\ \A i \in DOMAIN r : s[r[i]].stage \notin sk
    /\ \A j \in DOMAIN o : o[j] \notin sk

Listed(s) == IsSeq(s) /\ \A k \in DOMAIN s : s[k].phase \in ToSet(Phases)

LEMMA JoinIs ==
    ASSUME NEW S, NEW a \in Seq(S), NEW b \in Seq(S)
    PROVE  LET c == Join(a, b) IN
           /\ c \in Seq(S)
           /\ \A i \in DOMAIN c : \/ i \in DOMAIN a /\ c[i] = a[i]
                                  \/ (i - Len(a) \in DOMAIN b /\ c[i] = b[i - Len(a)] /\ i > Len(a))
           /\ \A i \in DOMAIN a : i \in DOMAIN c /\ c[i] = a[i]
           /\ \A i \in DOMAIN b : i + Len(a) \in DOMAIN c /\ c[i + Len(a)] = b[i]
<1> DEFINE c == Join(a, b)
           m == Len(a)
           n == Len(b)
<1>1. /\ m \in Nat /\ n \in Nat /\ DOMAIN a = 1 .. m /\ DOMAIN b = 1 .. n
      /\ c \in Seq(S) /\ Len(c) = m + n /\ DOMAIN c = 1 .. m + n
      /\ \A i \in 1 .. m + n : c[i] = IF i <= m THEN a[i] ELSE b[i - m]
  BY DEF Join
<1> HIDE DEF c, m, n
<1>2. ASSUME NEW i \in DOMAIN c
      PROVE  \/ i \in DOMAIN a /\ c[i] = a[i]
             \/ (i - m \in DOMAIN b /\ c[i] = b[i - m] /\ i > m)
  <2>1. CASE i <= m
    BY <2>1, <1>1
  <2>2. CASE ~ (i <= m)
    <3>1. i - m \in DOMAIN b /\ i > m
      BY <2>2, <1>1
    <3> QED BY <3>1, <2>2, <1>1
  <2> QED BY <2>1, <2>2
<1>3. \A i \in DOMAIN a : i \in DOMAIN c /\ c[i] = a[i]
  BY <1>1
<1>4. ASSUME NEW i \in DOMAIN b PROVE i + m \in DOMAIN c /\ c[i + m] = b[i]
  <2>1. i + m \in 1 .. m + n /\ ~ (i + m <= m) /\ (i + m) - m = i
    BY <1>1
  <2> QED BY <2>1, <1>1
<1> QED BY <1>1, <1>2, <1>3, <1>4 DEF c, m, n

LEMMA TailIs ==
    ASSUME NEW S, NEW c \in Seq(S), c # <<>>
    PROVE  /\ Tail(c) \in Seq(S) /\ 1 \in DOMAIN c /\ Head(c) = c[1] /\ Head(c) \in S
           /\ \A j \in DOMAIN Tail(c) : /\ j + 1 \in DOMAIN c /\ Tail(c)[j] = c[j + 1]
                                        /\ 1 < j + 1 /\ j \in Nat
           /\ \A x : In(x, c) => x = Head(c) \/ In(x, Tail(c))
<1> DEFINE u == Tail(c)
<1>1. Len(c) \in Nat /\ Len(c) > 0 /\ DOMAIN c = 1 .. Len(c) /\ Head(c) = c[1] /\ c[1] \in S
  OBVIOUS
<1>2. \A j \in 1 .. Len(c) - 1 : u[j] = c[j + 1]
  OBVIOUS
<1>3. u \in Seq(S) /\ Len(u) = Len(c) - 1
  BY <1>1
<1> HIDE DEF u
<1>4. DOMAIN u = 1 .. Len(c) - 1
  BY <1>3
<1>5. ASSUME NEW x, In(x, c) PROVE x = c[1] \/ In(x, u)
  <2>1. PICK i \in DOMAIN c : c[i] = x
    BY <1>5 DEF In
  <2>2. CASE i = 1
    BY <2>1, <2>2
  <2>3. CASE i # 1
    <3>1. i - 1 \in DOMAIN u /\ (i - 1) + 1 = i
      BY <2>3, <1>1, <1>4
    <3>2. u[i - 1] = c[i]
      BY <3>1, <1>2, <1>4
    <3> QED BY <3>1, <3>2, <2>1 DEF In
  <2> QED BY <2>2, <2>3
<1>6. ASSUME NEW j \in DOMAIN u
      PROVE  j + 1 \in DOMAIN c /\ u[j] = c[j + 1] /\ 1 < j + 1 /\ j \in Nat
  <2>1. j \in 1 .. Len(c) - 1 /\ j \in Nat /\ 1 < j + 1 /\ j + 1 \in 1 .. Len(c)
    BY <1>1, <1>4
  <2> QED BY <2>1, <1>1, <1>2
<1> QED BY <1>1, <1>3, <1>5, <1>6 DEF u

LEMMA PassBegins ==
    ASSUME NEW s, Listed(s)
    PROVE  PassOk(s, CanonicalOrder(s), <<>>, {})
<1> DEFINE o == CanonicalOrder(s)
<1>1. IsOrder(s, o) /\ \A k \in DOMAIN s : \E i \in DOMAIN o : o[i] = s[k].stage
  BY CanonicalOrderIs DEF Listed
<1>2. o \in Seq(ToSet(o))
  <2>1. o = [i \in 1 .. Len(o) |-> o[i]] /\ Len(o) \in Nat
    <3>1. o = [i \in DOMAIN o |-> o[i]]
      BY DEF CanonicalOrder
    <3> HIDE DEF o
    <3> QED BY <3>1, <1>1 DEF IsOrder, IsSeq
  <2>2. \A i \in 1 .. Len(o) : o[i] \in ToSet(o)
    BY <1>1 DEF IsOrder, IsSeq, ToSet
  <2> HIDE DEF o
  <2> QED BY <2>1, <2>2
<1> HIDE DEF o
<1>3. RunOk(s, <<>>)
  BY DEF RunOk
<1>4. DOMAIN <<>> = {}
  OBVIOUS
<1> QED BY <1>1, <1>2, <1>3, <1>4 DEF PassOk, In, o

\* Taking the first of the stages to come leaves an order.
LEMMA OrderTail ==
    ASSUME NEW s, NEW o, IsOrder(s, o), o \in Seq(ToSet(o)), o # <<>>
    PROVE  /\ IsOrder(s, Tail(o)) /\ Tail(o) \in Seq(ToSet(Tail(o)))
           /\ \A j \in DOMAIN Tail(o) : j + 1 \in DOMAIN o /\ Tail(o)[j] = o[j + 1]
           /\ 1 \in DOMAIN o /\ Head(o) = o[1]
           /\ \A j \in DOMAIN Tail(o) : FirstAt(s, Head(o)) < FirstAt(s, Tail(o)[j])
           /\ \A x : In(x, o) => x = Head(o) \/ In(x, Tail(o))
<1> DEFINE u == Tail(o)
<1>1. /\ u \in Seq(ToSet(o)) /\ 1 \in DOMAIN o /\ Head(o) = o[1]
      /\ \A j \in DOMAIN u : j + 1 \in DOMAIN o /\ u[j] = o[j + 1] /\ 1 < j + 1 /\ j \in Nat
      /\ \A x : In(x, o) => x = Head(o) \/ In(x, u)
  BY TailIs
<1> HIDE DEF u
<1>2. IsOrder(s, u)
  <2>1. \A i \in DOMAIN u : \E k \in DOMAIN s : u[i] = s[k].stage
    BY <1>1 DEF IsOrder
  <2>2. ASSUME NEW i \in DOMAIN u, NEW j \in DOMAIN u, i < j
        PROVE  FirstAt(s, u[i]) < FirstAt(s, u[j])
    <3>1. i + 1 < j + 1
      BY <1>1, <2>2
    <3> QED BY <3>1, <1>1 DEF IsOrder
  <2>3. IsSeq(u)
    BY <1>1 DEF IsSeq
  <2> QED BY <2>1, <2>2, <2>3 DEF IsOrder
<1>3. u \in Seq(ToSet(u))
  <2>1. /\ Len(u) \in Nat /\ DOMAIN u = 1 .. Len(u)
        /\ u = [j \in 1 .. Len(u) |-> u[j]]
    BY <1>1
  <2>2. \A j \in 1 .. Len(u) : u[j] \in ToSet(u)
    BY <2>1 DEF ToSet
  <2> QED BY <2>1, <2>2
<1>4. ASSUME NEW j \in DOMAIN u PROVE FirstAt(s, o[1]) < FirstAt(s, u[j])
  BY <1>1 DEF IsOrder
<1> QED BY <1>1, <1>2, <1>3, <1>4 DEF u

LEMMA PassSkips ==
    ASSUME NEW s, Listed(s), NEW o, NEW r, NEW sk, PassOk(s, o, r, sk), o # <<>>
    PROVE  PassOk(s, Tail(o), r, sk \cup {Head(o)})
<1> DEFINE u == Tail(o)
           h == Head(o)
<1>1. /\ IsOrder(s, u) /\ u \in Seq(ToSet(u))
      /\ \A j \in DOMAIN u : j + 1 \in DOMAIN o /\ u[j] = o[j + 1]
      /\ 1 \in DOMAIN o /\ h = o[1]
      /\ \A j \in DOMAIN u : FirstAt(s, h) < FirstAt(s, u[j])
      /\ \A x : In(x, o) => x = h \/ In(x, u)
  BY OrderTail DEF PassOk
<1> HIDE DEF u, h
<1>2. \A j \in DOMAIN o : FirstAt(s, o[j]) \in Nat
  <2>1. \A j \in DOMAIN o : \E k \in DOMAIN s : o[j] = s[k].stage
    BY DEF PassOk, IsOrder
  <2> QED BY <2>1, FirstAtIs DEF Listed, IsSeq
<1>3. \A j \in DOMAIN u : u[j] # h /\ u[j] \notin sk
  BY <1>1, <1>2 DEF PassOk
<1>4. ASSUME NEW i \in DOMAIN r PROVE s[r[i]].stage # h
  <2>1. FirstAt(s, s[r[i]].stage) < FirstAt(s, h)
    BY <1>1 DEF PassOk
  <2> QED BY <2>1, <1>1, <1>2
<1>5. \A i \in DOMAIN r, j \in DOMAIN u : FirstAt(s, s[r[i]].stage) < FirstAt(s, u[j])
  BY <1>1 DEF PassOk
<1> QED BY <1>1, <1>3, <1>4, <1>5 DEF PassOk, u, h

LEMMA PassTakes ==
    ASSUME NEW s, Listed(s), NEW o, NEW r, NEW sk, PassOk(s, o, r, sk), o # <<>>
    PROVE  PassOk(s, Tail(o), Join(r, Bucket(s, Head(o))), sk)
<1> DEFINE u == Tail(o)
           h == Head(o)
           b == Bucket(s, h)
           c == Join(r, b)
<1>1. /\ IsOrder(s, u) /\ u \in Seq(ToSet(u))
      /\ \A j \in DOMAIN u : j + 1 \in DOMAIN o /\ u[j] = o[j + 1]
      /\ 1 \in DOMAIN o /\ h = o[1]
      /\ \A j \in DOMAIN u : FirstAt(s, h) < FirstAt(s, u[j])
      /\ \A x : In(x, o) => x = h \/ In(x, u)
  BY OrderTail DEF PassOk
<1>2. /\ b \in Seq(Nat)
      /\ \A i \in DOMAIN b : b[i] \in DOMAIN s /\ s[b[i]].stage = h
      /\ \A i, j \in DOMAIN b : i < j => Earlier(s, b[i], b[j])
      /\ \A k \in DOMAIN s : s[k].stage = h => In(k, b)
  BY BucketIs DEF Listed, IsBucket
<1> HIDE DEF u, h, b
<1>3. /\ r \in Seq(Nat) /\ \A i \in DOMAIN r : r[i] \in DOMAIN s
      /\ \A i, j \in DOMAIN r : i < j => Sooner(s, r[i], r[j])
  BY DEF PassOk, RunOk
<1> DEFINE m == Len(r)
<1>4. /\ c \in Seq(Nat) /\ m \in Nat /\ \A i \in DOMAIN c : i \in Nat
      /\ \A i \in DOMAIN c : \/ i \in DOMAIN r /\ c[i] = r[i]
                             \/ (i - m \in DOMAIN b /\ c[i] = b[i - m] /\ i > m)
      /\ \A i \in DOMAIN r : i \in DOMAIN c /\ c[i] = r[i] /\ i <= m
      /\ \A i \in DOMAIN b : i + m \in DOMAIN c /\ c[i + m] = b[i]
  <2>1. m \in Nat /\ \A i \in DOMAIN r : i <= m
    BY <1>3
  <2>2. c \in Seq(Nat)
    BY <1>2, <1>3, JoinIs
  <2>3. \A i \in DOMAIN c : i \in Nat
    <3> HIDE DEF c
    <3> QED BY <2>2
  <2>4. /\ \A i \in DOMAIN c : \/ i \in DOMAIN r /\ c[i] = r[i]
                               \/ (i - m \in DOMAIN b /\ c[i] = b[i - m] /\ i > m)
        /\ \A i \in DOMAIN r : i \in DOMAIN c /\ c[i] = r[i]
        /\ \A i \in DOMAIN b : i + m \in DOMAIN c /\ c[i + m] = b[i]
    BY <1>2, <1>3, JoinIs
  <2> HIDE DEF c, m
  <2> QED BY <2>1, <2>2, <2>3, <2>4
<1> HIDE DEF c, m
<1>5. ASSUME NEW i \in DOMAIN r PROVE FirstAt(s, s[r[i]].stage) < FirstAt(s, h)
  BY <1>1 DEF PassOk
<1>6. \A i \in DOMAIN c : c[i] \in DOMAIN s
  BY <1>2, <1>3, <1>4
<1>7. ASSUME NEW i \in DOMAIN c, NEW j \in DOMAIN c, i < j PROVE Sooner(s, c[i], c[j])
  <2>0. i \in Int /\ j \in Int
    BY <1>4
  <2>1. CASE j \in DOMAIN r /\ c[j] = r[j]
    <3>1. i \in DOMAIN r /\ c[i] = r[i]
      BY <2>0, <2>1, <1>4, <1>7
    <3> QED BY <2>1, <3>1, <1>3, <1>7
  <2>2. CASE j - m \in DOMAIN b /\ c[j] = b[j - m] /\ j > m
    <3>1. CASE i \in DOMAIN r /\ c[i] = r[i]
      BY <2>2, <3>1, <1>2, <1>5 DEF Sooner
    <3>2. CASE i - m \in DOMAIN b /\ c[i] = b[i - m] /\ i > m
      <4>1. i - m < j - m
        BY <2>0, <1>4, <1>7
      <4> QED BY <2>2, <3>2, <4>1, <1>2 DEF Sooner
    <3> QED BY <3>1, <3>2, <1>4
  <2> QED BY <2>1, <2>2, <1>4
<1>8. ASSUME NEW i \in DOMAIN c, NEW j \in DOMAIN u
      PROVE  FirstAt(s, s[c[i]].stage) < FirstAt(s, u[j])
  <2>1. CASE i \in DOMAIN r /\ c[i] = r[i]
    BY <2>1, <1>1 DEF PassOk
  <2>2. CASE i - m \in DOMAIN b /\ c[i] = b[i - m]
    BY <2>2, <1>1, <1>2
  <2> QED BY <2>1, <2>2, <1>4
<1>9. ASSUME NEW k \in DOMAIN s
      PROVE  s[k].stage \in sk \/ In(k, c) \/ In(s[k].stage, u)
  <2>1. CASE In(k, r)
    BY <2>1, <1>4 DEF In
  <2>2. CASE In(s[k].stage, o)
    <3>1. s[k].stage = h => In(k, c)
      BY <1>2, <1>4 DEF In
    <3> QED BY <2>2, <3>1, <1>1
  <2> QED BY <2>1, <2>2 DEF PassOk
<1>10. ASSUME NEW i \in DOMAIN c PROVE s[c[i]].stage \notin sk
  <2>1. CASE i \in DOMAIN r /\ c[i] = r[i]
    BY <2>1 DEF PassOk
  <2>2. CASE i - m \in DOMAIN b /\ c[i] = b[i - m]
    BY <2>2, <1>1, <1>2 DEF PassOk
  <2> QED BY <2>1, <2>2, <1>4
<1>11. \A j \in DOMAIN u : u[j] \notin sk
  BY <1>1 DEF PassOk
<1>12. RunOk(s, c)
  BY <1>4, <1>6, <1>7 DEF RunOk
<1>13. PassOk(s, u, c, sk)
  BY <1>1, <1>8, <1>9, <1>10, <1>11, <1>12 DEF PassOk
<1> QED BY <1>13 DEF u, c, b, h
-----------------------------------------------------------------------------
(* Registration *)

Parts == {"setup", "build"}

Entry == UNION {ToSet(Callbacks(p, part)) : p \in Plugins, part \in Parts}

LEMMA CallbacksAre ==
    ASSUME NEW p \in Plugins, NEW part \in Parts
    PROVE  LET c == Callbacks(p, part) IN
           /\ c \in Seq(Entry)
           /\ \A k \in DOMAIN c : /\ c[k].plugin = p /\ c[k].part = part /\ c[k].nth = k
                                  /\ c[k].phase \in ToSet(Phases)
<1> DEFINE regs == IF part = "setup" THEN SetupOf(p) ELSE BuildOf(p)
           c == Callbacks(p, part)
<1>1. regs \in Seq(ToSet(regs)) /\ \A k \in DOMAIN regs : regs[k].phase \in ToSet(Phases)
  BY RegistrationAssumption
<1>2. c = [k \in DOMAIN regs |-> [plugin |-> p, part |-> part, nth |-> k,
                                  stage |-> regs[k].stage, phase |-> regs[k].phase]]
  BY DEF Callbacks
<1> HIDE DEF regs, c
<1>3. Len(regs) \in Nat /\ DOMAIN regs = 1 .. Len(regs)
  BY <1>1
<1>4. \A k \in 1 .. Len(regs) : c[k] \in Entry
  <2>1. \A k \in DOMAIN c : c[k] \in ToSet(c)
    BY DEF ToSet
  <2>2. \A k \in DOMAIN c : c[k] \in Entry
    BY <2>1 DEF Entry, c
  <2> QED BY <2>2, <1>2, <1>3
<1>5. c \in Seq(Entry)
  <2>1. c = [k \in 1 .. Len(regs) |-> c[k]]
    BY <1>2, <1>3
  <2> QED BY <2>1, <1>3, <1>4
<1>6. \A k \in DOMAIN c : /\ c[k].plugin = p /\ c[k].part = part /\ c[k].nth = k
                          /\ c[k].phase \in ToSet(Phases)
  BY <1>1, <1>2
<1> QED BY <1>5, <1>6 DEF c

LEMMA EntryIs ==
    ASSUME NEW e \in Entry
    PROVE  /\ e.phase \in ToSet(Phases) /\ e.plugin \in Plugins /\ e.part \in Parts
<1>1. PICK p \in Plugins, part \in Parts : e \in ToSet(Callbacks(p, part))
  BY DEF Entry
<1>2. PICK k \in DOMAIN Callbacks(p, part) : e = Callbacks(p, part)[k]
  BY <1>1 DEF ToSet
<1> QED BY <1>2, CallbacksAre

\* Registered callbacks s with the calls c to come: nothing twice, and what
\* setup() registers before what build() does.
RegOk(s, c) ==
    /\ \A i, j \in DOMAIN c : i < j =>
          c[i] # c[j] /\ (c[i][2] = "build" => c[j][2] = "build")
    /\ \A i, j \in DOMAIN s : i < j =>
          s[i] # s[j] /\ (s[i].part = "build" => s[j].part = "build")
    /\ \A i \in DOMAIN s, j \in DOMAIN c :
          /\ <<s[i].plugin, s[i].part>> # c[j]
          /\ s[i].part = "build" => c[j][2] = "build"

\* The callbacks of p and part are registered or will be.
Due(s, c, p, part) ==
    \/ In(<<p, part>>, c)
    \/ \A k \in DOMAIN Callbacks(p, part) : In(Callbacks(p, part)[k], s)

\* A call registers its callbacks.
LEMMA RegCall ==
    ASSUME NEW s \in Seq(Entry), NEW c \in Seq(Plugins \X Parts), c # <<>>, RegOk(s, c)
    PROVE  LET t == Join(s, Callbacks(Head(c)[1], Head(c)[2])) IN
           /\ RegOk(t, Tail(c)) /\ t \in Seq(Entry) /\ Tail(c) \in Seq(Plugins \X Parts)
           /\ \A p \in Plugins, part \in Parts :
                 Due(s, c, p, part) => Due(t, Tail(c), p, part)
<1> DEFINE p == Head(c)[1]
           part == Head(c)[2]
           new == Callbacks(p, part)
           t == Join(s, new)
           u == Tail(c)
<1>1. /\ u \in Seq(Plugins \X Parts) /\ 1 \in DOMAIN c /\ Head(c) = c[1]
      /\ Head(c) \in Plugins \X Parts
      /\ \A j \in DOMAIN u : /\ j + 1 \in DOMAIN c /\ u[j] = c[j + 1]
                             /\ 1 < j + 1 /\ j \in Nat
      /\ \A x : In(x, c) => x = Head(c) \/ In(x, u)
  BY TailIs
<1>2. p \in Plugins /\ part \in Parts /\ c[1] = <<p, part>>
  BY <1>1
<1> HIDE DEF p, part
<1>3. /\ new \in Seq(Entry)
      /\ \A k \in DOMAIN new : new[k].plugin = p /\ new[k].part = part /\ new[k].nth = k
  BY <1>2, CallbacksAre
<1> HIDE DEF new
<1> DEFINE m == Len(s)
<1>4. /\ t \in Seq(Entry) /\ m \in Nat
      /\ \A i \in DOMAIN t : \/ i \in DOMAIN s /\ t[i] = s[i] /\ i <= m
                             \/ (i - m \in DOMAIN new /\ t[i] = new[i - m] /\ i > m)
      /\ \A i \in DOMAIN s : i \in DOMAIN t /\ t[i] = s[i]
      /\ \A i \in DOMAIN new : i + m \in DOMAIN t /\ t[i + m] = new[i]
      /\ \A i \in DOMAIN t : i \in Nat
  <2>1. m \in Nat /\ \A i \in DOMAIN s : i <= m
    OBVIOUS
  <2>2. t \in Seq(Entry)
    BY <1>3, JoinIs
  <2>3. \A i \in DOMAIN t : i \in Nat
    <3> HIDE DEF t
    <3> QED BY <2>2
  <2>4. /\ \A i \in DOMAIN t : \/ i \in DOMAIN s /\ t[i] = s[i]
                               \/ (i - m \in DOMAIN new /\ t[i] = new[i - m] /\ i > m)
        /\ \A i \in DOMAIN s : i \in DOMAIN t /\ t[i] = s[i]
        /\ \A i \in DOMAIN new : i + m \in DOMAIN t /\ t[i + m] = new[i]
    BY <1>3, JoinIs
  <2> HIDE DEF t, m
  <2> QED BY <2>1, <2>2, <2>3, <2>4
<1> HIDE DEF t, u, m
<1>5. ASSUME NEW i \in DOMAIN u, NEW j \in DOMAIN u, i < j
      PROVE  u[i] # u[j] /\ (u[i][2] = "build" => u[j][2] = "build")
  <2>1. i + 1 < j + 1
    BY <1>1, <1>5
  <2> QED BY <2>1, <1>1 DEF RegOk
<1>6. ASSUME NEW j \in DOMAIN u
      PROVE  <<p, part>> # u[j] /\ (part = "build" => u[j][2] = "build")
  <2>1. c[1] # c[j + 1] /\ (c[1][2] = "build" => c[j + 1][2] = "build")
    BY <1>1 DEF RegOk
  <2> QED BY <2>1, <1>1, <1>2
<1>7. ASSUME NEW i \in DOMAIN s
      PROVE  <<s[i].plugin, s[i].part>> # <<p, part>> /\ (s[i].part = "build" => part = "build")
  <2>1. <<s[i].plugin, s[i].part>> # c[1] /\ (s[i].part = "build" => c[1][2] = "build")
    BY <1>1 DEF RegOk
  <2> QED BY <2>1, <1>2
<1>8. ASSUME NEW i \in DOMAIN t, NEW j \in DOMAIN t, i < j
      PROVE  t[i] # t[j] /\ (t[i].part = "build" => t[j].part = "build")
  <2>1. CASE j \in DOMAIN s /\ t[j] = s[j] /\ j <= m
    <3>1. i \in DOMAIN s /\ t[i] = s[i]
      BY <2>1, <1>4, <1>8
    <3> QED BY <2>1, <3>1, <1>8 DEF RegOk
  <2>2. CASE j - m \in DOMAIN new /\ t[j] = new[j - m] /\ j > m
    <3>1. CASE i \in DOMAIN s /\ t[i] = s[i]
      <4>1. t[j].plugin = p /\ t[j].part = part
        BY <2>2, <1>3
      <4> QED BY <4>1, <3>1, <1>7
    <3>2. CASE i - m \in DOMAIN new /\ t[i] = new[i - m] /\ i > m
      <4>1. i - m # j - m
        BY <1>4, <1>8
      <4>2. t[i].nth # t[j].nth /\ t[i].part = part /\ t[j].part = part
        BY <4>1, <2>2, <3>2, <1>3
      <4> QED BY <4>2
    <3> QED BY <3>1, <3>2, <1>4
  <2> QED BY <2>1, <2>2, <1>4
<1>9. ASSUME NEW i \in DOMAIN t, NEW j \in DOMAIN u
      PROVE  /\ <<t[i].plugin, t[i].part>> # u[j]
             /\ t[i].part = "build" => u[j][2] = "build"
  <2>1. CASE i \in DOMAIN s /\ t[i] = s[i]
    BY <2>1, <1>1 DEF RegOk
  <2>2. CASE i - m \in DOMAIN new /\ t[i] = new[i - m]
    <3>1. t[i].plugin = p /\ t[i].part = part
      BY <2>2, <1>3
    <3> QED BY <3>1, <1>6
  <2> QED BY <2>1, <2>2, <1>4
<1>10. RegOk(t, u)
  BY <1>5, <1>8, <1>9 DEF RegOk
<1>11. ASSUME NEW q \in Plugins, NEW x \in Parts, Due(s, c, q, x) PROVE Due(t, u, q, x)
  <2>1. \A e : In(e, s) \/ In(e, new) => In(e, t)
    BY <1>4 DEF In
  <2>2. CASE <<q, x>> = Head(c)
    <3>1. q = p /\ x = part
      BY <2>2, <1>1, <1>2
    <3>2. \A k \in DOMAIN new : In(new[k], new)
      BY DEF In
    <3> QED BY <3>1, <3>2, <2>1 DEF Due, new
  <2>3. CASE In(<<q, x>>, u)
    BY <2>3 DEF Due
  <2>4. CASE \A k \in DOMAIN Callbacks(q, x) : In(Callbacks(q, x)[k], s)
    BY <2>4, <2>1 DEF Due
  <2> QED BY <2>2, <2>3, <2>4, <1>1, <1>11 DEF Due
<1> QED BY <1>1, <1>4, <1>10, <1>11 DEF t, new, p, part, u
-----------------------------------------------------------------------------
(* The invariant *)

TypeInv ==
    /\ plugins \in Seq(Plugins) /\ stages \in Seq(Entry)
    /\ calls \in Seq(Plugins \X Parts)
    /\ todo \in Seq(Nat) /\ done \in Seq(Nat)
    /\ built \in BOOLEAN /\ begun \in Seq(Seq(Plugins))
    /\ pc \in {"owner", "build", "autobuild", "circuit", "stages"}

\* What is as it was at first until the plugins are built.
Fresh == halt = {} /\ done = <<>> /\ todo = <<>> /\ circuit = {}
ControlInv ==
    /\ ~built <=> begun = <<>>
    /\ ~built => pc = "owner" /\ stages = <<>> /\ outcome = "none" /\ Fresh
    /\ pc \in {"build", "autobuild"} /\ Len(begun) = 1 => outcome = "none" /\ Fresh
    /\ pc = "autobuild" => Len(begun) = 1
    /\ pc \notin {"build", "autobuild"} => calls = <<>>
    /\ pc \in {"owner", "build", "autobuild"} => todo = <<>>
    /\ begun # <<>> => Len(begun[1]) <= Len(plugins)

\* What the first build() has registered and will register.
RegInv ==
    /\ \A i, j \in DOMAIN plugins : i < j => plugins[i] # plugins[j]
    /\ Len(begun) <= 1 => RegOk(stages, calls)
    /\ BuiltOnce => \A p \in ToSet(plugins), part \in Parts : Due(stages, calls, p, part)

PassInv ==
    /\ RunOk(stages, done)
    /\ pc \in {"circuit", "stages"} => PassOk(stages, order, Join(done, todo), skipped)
    /\ pc = "circuit" => skipped = {}

\* A circuit is in the order of the schedule, and has every callback there is
\* as long as nobody builds again.
CircuitInv ==
    \A c \in circuit :
        /\ RunOk(stages, c)
        /\ Len(begun) <= 1 => \A k \in DOMAIN stages : In(k, c)

\* A condition that the previous run's hooks cleared was raised in this run.
StallInv == \A q \in halt : q \notin swept \/ (pc = "stages" /\ q \in raised)

IInv == TypeInv /\ ControlInv /\ RegInv /\ PassInv /\ CircuitInv /\ StallInv

LEMMA StagesListed == TypeInv => Listed(stages)
<1> SUFFICES ASSUME TypeInv PROVE Listed(stages)
  OBVIOUS
<1>1. IsSeq(stages) /\ \A k \in DOMAIN stages : stages[k] \in Entry
  BY DEF TypeInv, IsSeq
<1> QED BY <1>1, EntryIs DEF Listed

LEMMA JoinEmpty == ASSUME NEW a \in Seq(Nat) PROVE Join(a, <<>>) = a /\ Join(<<>>, a) = a
BY DEF Join

\* Running the first of the callbacks that are to run.
LEMMA JoinMoves ==
    ASSUME NEW a \in Seq(Nat), NEW b \in Seq(Nat), b # <<>>
    PROVE  /\ Join(Append(a, Head(b)), Tail(b)) = Join(a, b)
           /\ Tail(b) \in Seq(Nat) /\ Append(a, Head(b)) \in Seq(Nat)
<1>1. Head(b) \in Nat /\ Tail(b) \in Seq(Nat) /\ Append(a, Head(b)) \in Seq(Nat)
  OBVIOUS
<1> DEFINE c == Append(a, Head(b))
           d == Tail(b)
           m == Len(a)
           n == Len(b)
<1>2. /\ m \in Nat /\ n \in Nat /\ n >= 1 /\ Len(c) = m + 1 /\ Len(d) = n - 1
      /\ \A i \in 1 .. m : c[i] = a[i]
      /\ c[m + 1] = b[1]
      /\ \A i \in 1 .. n - 1 : d[i] = b[i + 1]
  OBVIOUS
<1>3. /\ Len(Join(a, b)) = m + n /\ Join(a, b) \in Seq(Nat)
      /\ \A i \in 1 .. m + n : Join(a, b)[i] = IF i <= m THEN a[i] ELSE b[i - m]
  BY DEF Join
<1> HIDE DEF c, d
<1>4. /\ Len(Join(c, d)) = Len(c) + Len(d) /\ Join(c, d) \in Seq(Nat)
      /\ \A i \in 1 .. Len(c) + Len(d) :
             Join(c, d)[i] = IF i <= Len(c) THEN c[i] ELSE d[i - Len(c)]
  <2>1. c \in Seq(Nat) /\ d \in Seq(Nat)
    BY <1>1 DEF c, d
  <2> QED BY <2>1 DEF Join
<1> HIDE DEF m, n
<1>5. ASSUME NEW i \in 1 .. m + n
      PROVE  (IF i <= m + 1 THEN c[i] ELSE d[i - (m + 1)]) = (IF i <= m THEN a[i] ELSE b[i - m])
  <2>1. CASE i <= m
    BY <2>1, <1>2
  <2>2. CASE i = m + 1
    BY <2>2, <1>2
  <2>3. CASE i > m + 1
    <3>1. i - (m + 1) \in 1 .. n - 1 /\ (i - (m + 1)) + 1 = i - m
      BY <2>3, <1>2
    <3>2. d[i - (m + 1)] = b[i - m]
      BY <3>1, <1>2
    <3> QED BY <3>2, <2>3, <1>2
  <2> QED BY <2>1, <2>2, <2>3, <1>2
<1>6. Len(c) + Len(d) = m + n
  BY <1>2
<1> DEFINE x == Join(c, d)
           y == Join(a, b)
<1>7. \A i \in 1 .. m + n : x[i] = y[i]
  BY <1>2, <1>3, <1>4, <1>5, <1>6
<1>8. x \in Seq(Nat) /\ y \in Seq(Nat) /\ Len(x) = m + n /\ Len(y) = m + n
  BY <1>3, <1>4, <1>6
<1> HIDE DEF x, y
<1>9. x = [i \in 1 .. m + n |-> x[i]] /\ y = [i \in 1 .. m + n |-> y[i]]
  BY <1>8
<1>10. x = y
  BY <1>7, <1>9
<1> QED BY <1>1, <1>10 DEF c, d, x, y

\* What has run is a part of what has run or is about to.
LEMMA RunStarts ==
    ASSUME NEW s, NEW a \in Seq(Nat), NEW b \in Seq(Nat), RunOk(s, Join(a, b))
    PROVE  RunOk(s, a)
<1> DEFINE c == Join(a, b)
<1>1. \A i \in DOMAIN a : i \in DOMAIN c /\ c[i] = a[i]
  BY JoinIs
<1> HIDE DEF c
<1> QED BY <1>1 DEF RunOk, c

\* The calls that build() makes are all there are, setup() first.
LEMMA CallsAre ==
    ASSUME plugins \in Seq(Plugins),
           \A i, j \in DOMAIN plugins : i < j => plugins[i] # plugins[j]
    PROVE  /\ Calls \in Seq(Plugins \X Parts) /\ RegOk(<<>>, Calls)
           /\ \A p \in ToSet(plugins), part \in Parts : Due(<<>>, Calls, p, part)
<1> DEFINE a == [k \in DOMAIN plugins |-> <<plugins[k], "setup">>]
           b == [k \in DOMAIN plugins |-> <<plugins[k], "build">>]
           c == Join(a, b)
           n == Len(plugins)
<1>1. n \in Nat /\ DOMAIN plugins = 1 .. n /\ \A k \in 1 .. n : plugins[k] \in Plugins
  OBVIOUS
<1>2. /\ a \in Seq(Plugins \X Parts) /\ Len(a) = n
      /\ b \in Seq(Plugins \X Parts) /\ Len(b) = n
  <2> HIDE DEF n
  <2>1. /\ \A k \in 1 .. n : <<plugins[k], "setup">> \in Plugins \X Parts
        /\ \A k \in 1 .. n : <<plugins[k], "build">> \in Plugins \X Parts
    BY <1>1 DEF Parts
  <2>2. /\ a = [k \in 1 .. n |-> <<plugins[k], "setup">>]
        /\ b = [k \in 1 .. n |-> <<plugins[k], "build">>]
    BY <1>1
  <2> HIDE DEF a, b
  <2> QED BY <2>1, <2>2, <1>1
<1>3. Calls = c
  BY DEF Calls, Join
<1>4. /\ DOMAIN a = DOMAIN plugins /\ \A k \in DOMAIN plugins : a[k] = <<plugins[k], "setup">>
      /\ DOMAIN b = DOMAIN plugins /\ \A k \in DOMAIN plugins : b[k] = <<plugins[k], "build">>
  OBVIOUS
<1> HIDE DEF a, b
<1>5. c \in Seq(Plugins \X Parts)
  BY <1>2, JoinIs
<1>6. \A i \in DOMAIN c : \/ i \in DOMAIN a /\ c[i] = a[i]
                          \/ (i - n \in DOMAIN b /\ c[i] = b[i - n] /\ i > n)
  BY <1>2, JoinIs
<1>7. /\ \A i \in DOMAIN a : i \in DOMAIN c /\ c[i] = a[i]
      /\ \A i \in DOMAIN b : i + n \in DOMAIN c /\ c[i + n] = b[i]
  BY <1>2, JoinIs
<1>8. \A i \in DOMAIN c : i \in Nat
  <2> HIDE DEF c
  <2> QED BY <1>5
<1> HIDE DEF c, n
<1>9. ASSUME NEW i \in DOMAIN c, NEW j \in DOMAIN c, i < j
      PROVE  c[i] # c[j] /\ (c[i][2] = "build" => c[j][2] = "build")
  <2>1. CASE j \in DOMAIN a /\ c[j] = a[j]
    <3>1. i \in DOMAIN a /\ c[i] = a[i]
      BY <2>1, <1>1, <1>4, <1>6, <1>8, <1>9
    <3> QED BY <2>1, <3>1, <1>4, <1>9
  <2>2. CASE j - n \in DOMAIN b /\ c[j] = b[j - n] /\ j > n
    <3>1. CASE i \in DOMAIN a /\ c[i] = a[i]
      BY <2>2, <3>1, <1>4
    <3>2. CASE i - n \in DOMAIN b /\ c[i] = b[i - n] /\ i > n
      <4>1. i - n < j - n
        BY <1>1, <1>8, <1>9
      <4> QED BY <2>2, <3>2, <4>1, <1>4
    <3> QED BY <3>1, <3>2, <1>6
  <2> QED BY <2>1, <2>2, <1>6
<1>10. RegOk(<<>>, c)
  <2>1. DOMAIN <<>> = {}
    OBVIOUS
  <2> QED BY <2>1, <1>9 DEF RegOk
<1>11. ASSUME NEW p \in ToSet(plugins), NEW part \in Parts PROVE Due(<<>>, c, p, part)
  <2>1. PICK k \in DOMAIN plugins : plugins[k] = p
    BY DEF ToSet
  <2>2. a[k] = <<p, "setup">> /\ b[k] = <<p, "build">> /\ k \in DOMAIN a /\ k \in DOMAIN b
    BY <2>1, <1>4
  <2> QED BY <2>2, <1>7 DEF Due, In, Parts
<1> QED BY <1>3, <1>5, <1>10, <1>11
\* What has run is still in order when more callbacks are registered.
LEMMA RunGrows ==
    ASSUME NEW s \in Seq(Entry), NEW new \in Seq(Entry), NEW r, RunOk(s, r)
    PROVE  RunOk(Join(s, new), r)
<1> DEFINE t == Join(s, new)
<1>1. t \in Seq(Entry) /\ \A i \in DOMAIN s : i \in DOMAIN t /\ t[i] = s[i]
  BY JoinIs
<1> HIDE DEF t
<1>2. IsSeq(s) /\ IsSeq(t)
  BY <1>1 DEF IsSeq
<1>3. ASSUME NEW k \in DOMAIN s PROVE FirstAt(t, t[k].stage) = FirstAt(s, s[k].stage)
  <2> DEFINE f == FirstAt(s, s[k].stage)
             g == FirstAt(t, t[k].stage)
  <2>1. /\ f \in DOMAIN s /\ s[f].stage = s[k].stage
        /\ \A i \in 1 .. f - 1 : s[i].stage # s[k].stage
    BY <1>2, FirstAtIs
  <2>2. /\ g \in DOMAIN t /\ t[g].stage = t[k].stage /\ g <= k
        /\ \A i \in 1 .. g - 1 : t[i].stage # t[k].stage
    BY <1>1, <1>2, FirstAtIs
  <2> HIDE DEF f, g
  <2>3. g \in DOMAIN s /\ f \in Nat /\ g \in Nat /\ f >= 1 /\ g >= 1
    BY <2>1, <2>2, <1>2 DEF IsSeq
  <2>4. ~(f < g)
    <3> SUFFICES ASSUME f < g PROVE FALSE
      OBVIOUS
    <3>1. f \in 1 .. g - 1
      BY <2>3
    <3> QED BY <3>1, <2>1, <2>2, <1>1
  <2>5. ~(g < f)
    <3> SUFFICES ASSUME g < f PROVE FALSE
      OBVIOUS
    <3>1. g \in 1 .. f - 1
      BY <2>3
    <3> QED BY <3>1, <2>1, <2>2, <2>3, <1>1
  <2> QED BY <2>3, <2>4, <2>5 DEF f, g
<1>4. \A k \in DOMAIN s : PhaseAt(t, k) = PhaseAt(s, k)
  BY <1>1 DEF PhaseAt
<1>5. \A j, k \in DOMAIN s : Sooner(s, j, k) => Sooner(t, j, k)
  BY <1>1, <1>3, <1>4 DEF Sooner, Earlier
<1> QED BY <1>1, <1>5 DEF RunOk, t
-----------------------------------------------------------------------------
(* The steps *)

LEMMA RegisterStep == ASSUME IInv, NEW p \in Plugins, RegisterPlugin(p) PROVE IInv'
<1> USE DEF IInv
<1>1. /\ pc = "owner" /\ plugins' = Append(plugins, p) /\ ~Contains(plugins, p)
      /\ UNCHANGED <<stages, links, hooks, built, begun, outcome, calls, circuit>>
      /\ UNCHANGED <<pc, tid, order, todo, halt, fault, done, skipped, raised, swept>>
  BY DEF RegisterPlugin, runVars
<1>2. TypeInv'
  BY <1>1 DEF TypeInv
<1>3. ASSUME NEW i \in DOMAIN plugins', NEW j \in DOMAIN plugins', i < j
      PROVE  plugins'[i] # plugins'[j]
  <2> DEFINE n == Len(plugins)
  <2>1. /\ n \in Nat /\ DOMAIN plugins = 1 .. n /\ DOMAIN plugins' = 1 .. n + 1
        /\ \A k \in 1 .. n : plugins'[k] = plugins[k]
        /\ plugins'[n + 1] = p
    BY <1>1 DEF TypeInv
  <2>2. \A k \in 1 .. n : plugins[k] # p
    BY <1>1 DEF Contains
  <2> HIDE DEF n
  <2>3. i \in 1 .. n /\ plugins'[i] = plugins[i]
    BY <2>1, <1>3
  <2>4. CASE j = n + 1
    BY <2>1, <2>2, <2>3, <2>4
  <2>5. CASE j # n + 1
    <3>1. j \in 1 .. n
      BY <2>1, <2>5
    <3>2. plugins[i] # plugins[j]
      BY <2>1, <2>3, <3>1, <1>3 DEF RegInv
    <3> QED BY <3>1, <3>2, <2>1, <2>3
  <2> QED BY <2>4, <2>5
<1>4. Len(plugins') = Len(plugins) + 1 /\ Len(plugins) \in Nat
  BY <1>1 DEF TypeInv
<1>5. ASSUME begun # <<>> PROVE Len(begun[1]) <= Len(plugins) /\ Len(begun[1]) \in Nat
  <2>1. begun[1] \in Seq(Plugins)
    BY <1>5 DEF TypeInv
  <2> QED BY <1>5, <2>1 DEF ControlInv
<1>6. ~BuiltOnce'
  <2> SUFFICES ASSUME begun = <<plugins'>> PROVE FALSE
    BY <1>1 DEF BuiltOnce
  <2>1. begun # <<>> /\ begun[1] = plugins'
    OBVIOUS
  <2> QED BY <2>1, <1>4, <1>5
<1>7. RegInv'
  BY <1>1, <1>3, <1>6 DEF RegInv
<1>8. ControlInv'
  BY <1>1, <1>4, <1>5 DEF ControlInv, Fresh
<1>9. PassInv' /\ CircuitInv' /\ StallInv'
  BY <1>1 DEF PassInv, CircuitInv, StallInv
<1> QED BY <1>2, <1>7, <1>8, <1>9

LEMMA BeginBuildStep ==
    ASSUME IInv, pc = "owner", NEW caller \in {"build", "autobuild"}, BeginBuild(caller),
           caller = "autobuild" => ~built
    PROVE  IInv'
<1> USE DEF IInv
<1>1. /\ built' = TRUE /\ begun' = Append(begun, plugins)
      /\ UNCHANGED <<plugins, stages, links, hooks, circuit>>
      /\ UNCHANGED <<tid, order, todo, halt, fault, done, skipped, raised, swept>>
      /\ \/ pc' = caller /\ calls' = Calls /\ UNCHANGED outcome
         \/ pc' = "owner" /\ outcome' = "failed" /\ UNCHANGED calls
  BY DEF BeginBuild
<1>2. /\ begun \in Seq(Seq(Plugins)) /\ plugins \in Seq(Plugins) /\ Len(begun) \in Nat
      /\ begun' \in Seq(Seq(Plugins)) /\ Len(begun') = Len(begun) + 1
      /\ begun # <<>> => Len(begun) >= 1 /\ begun'[1] = begun[1]
      /\ begun = <<>> => begun'[1] = plugins
  BY <1>1 DEF TypeInv
<1>3. ~built => stages = <<>> /\ Fresh /\ outcome = "none"
  BY DEF ControlInv
<1>4. built => Len(begun') >= 2
  BY <1>2 DEF ControlInv, TypeInv
<1>5. calls = <<>> /\ todo = <<>>
  BY DEF ControlInv
<1>6. /\ Calls \in Seq(Plugins \X Parts) /\ RegOk(<<>>, Calls)
      /\ \A p \in ToSet(plugins), part \in Parts : Due(<<>>, Calls, p, part)
  BY CallsAre DEF TypeInv, RegInv
<1>7. TypeInv'
  BY <1>1, <1>2, <1>6 DEF TypeInv
<1>8. ControlInv'
  <2>1. begun' # <<>> /\ Len(begun'[1]) <= Len(plugins')
    <3>1. Len(plugins) \in Nat /\ begun' # <<>>
      BY <1>2
    <3>2. CASE begun = <<>>
      BY <3>1, <3>2, <1>1, <1>2
    <3>3. CASE begun # <<>>
      BY <3>1, <3>3, <1>1, <1>2 DEF ControlInv
    <3> QED BY <3>2, <3>3
  <2>2. ~built => Len(begun') = 1
    BY <1>2 DEF ControlInv
  <2>3. Len(begun') = 1 => ~built
    <3>1. Len(begun') = 1 => ~(Len(begun') >= 2)
      OBVIOUS
    <3> QED BY <3>1, <1>4
  <2>4. pc' \in {"build", "autobuild"} /\ Len(begun') = 1 => outcome' = "none" /\ Fresh'
    BY <1>1, <1>3, <2>3 DEF Fresh
  <2> QED BY <1>1, <1>5, <2>1, <2>2, <2>4 DEF ControlInv
<1>9. RegInv'
  <2>1. CASE built
    <3>1. begun' # <<plugins'>>
      BY <2>1, <1>4
    <3> QED BY <2>1, <3>1, <1>1, <1>4 DEF RegInv, BuiltOnce
  <2>2. CASE ~built
    <3>1. RegOk(<<>>, <<>>)
      BY DEF RegOk
    <3>2. CASE calls' = Calls
      BY <2>2, <3>2, <1>1, <1>3, <1>6 DEF RegInv
    <3>3. CASE outcome' = "failed" /\ calls' = calls
      BY <2>2, <3>1, <3>3, <1>1, <1>3, <1>5 DEF RegInv, BuiltOnce
    <3> QED BY <3>2, <3>3, <1>1
  <2> QED BY <2>1, <2>2
<1>10. PassInv'
  BY <1>1 DEF PassInv
<1>11. CircuitInv'
  <2>1. CASE built
    BY <2>1, <1>1, <1>2, <1>4 DEF CircuitInv
  <2>2. CASE ~built
    BY <2>2, <1>1, <1>3 DEF CircuitInv, Fresh
  <2> QED BY <2>1, <2>2
<1>12. StallInv'
  BY <1>1 DEF StallInv
<1> QED BY <1>7, <1>8, <1>9, <1>10, <1>11, <1>12

LEMMA CallStep == ASSUME IInv, CallPlugin PROVE IInv'
<1> USE DEF IInv
<1> DEFINE p == Head(calls)[1]
           part == Head(calls)[2]
<1>1. /\ pc \in {"build", "autobuild"} /\ calls # <<>>
      /\ stages' = Join(stages, Callbacks(p, part))
      /\ calls' = Tail(calls)
      /\ UNCHANGED <<plugins, built, begun, outcome, circuit>>
      /\ UNCHANGED <<pc, tid, order, todo, halt, fault, done, skipped, raised, swept>>
  BY DEF CallPlugin, runVars, Join
<1>2. /\ links' = links \cup (IF part = "build" THEN HaltsOf(p) \X {p} ELSE {})
      /\ hooks' = hooks \cup {q \in {p} : part = "build" /\ HasHook(q)}
  BY DEF CallPlugin
<1>3. Head(calls) \in Plugins \X Parts /\ Tail(calls) \in Seq(Plugins \X Parts)
  BY <1>1, TailIs DEF TypeInv
<1>4. Callbacks(p, part) \in Seq(Entry)
  BY <1>3, CallbacksAre
<1>5. stages \in Seq(Entry) /\ stages' \in Seq(Entry)
  BY <1>1, <1>4, JoinIs DEF TypeInv
<1>6. ASSUME Len(begun) <= 1
      PROVE  /\ RegOk(stages', calls')
             /\ \A q \in Plugins, x \in Parts :
                    Due(stages, calls, q, x) => Due(stages', calls', q, x)
  BY <1>1, <1>6, RegCall DEF TypeInv, RegInv
<1>7. \A r : RunOk(stages, r) => RunOk(stages', r)
  BY <1>1, <1>4, <1>5, RunGrows
<1> HIDE DEF p, part
<1>8. TypeInv'
  BY <1>1, <1>3, <1>5 DEF TypeInv
<1>9. built /\ begun # <<>> /\ begun \in Seq(Seq(Plugins)) /\ todo = <<>>
  BY <1>1 DEF ControlInv, TypeInv
<1>10. Len(begun) \in Nat /\ Len(begun) >= 1
  BY <1>9
<1>11. ControlInv'
  BY <1>1, <1>9 DEF ControlInv, Fresh
<1>12. RegInv'
  <2>1. \A q \in ToSet(plugins) : q \in Plugins
    BY DEF TypeInv, ToSet
  <2>2. BuiltOnce => Len(begun) <= 1
    BY DEF BuiltOnce
  <2>3. BuiltOnce' <=> BuiltOnce
    BY <1>1 DEF BuiltOnce
  <2> QED BY <2>1, <2>2, <2>3, <1>1, <1>6 DEF RegInv
<1>13. PassInv'
  BY <1>1, <1>7 DEF PassInv
<1>14. CircuitInv'
  <2>1. \A n \in Nat : n >= 1 /\ n <= 1 => n = 1
    OBVIOUS
  <2>2. Len(begun) <= 1 => circuit = {}
    BY <2>1, <1>1, <1>10 DEF ControlInv, Fresh
  <2> QED BY <2>2, <1>1, <1>7 DEF CircuitInv
<1>15. StallInv'
  BY <1>1 DEF StallInv
<1> QED BY <1>8, <1>11, <1>12, <1>13, <1>14, <1>15

LEMMA ThrowStep == ASSUME IInv, PluginThrows PROVE IInv'
<1> USE DEF IInv
<1>1. /\ pc \in {"build", "autobuild"} /\ pc' = "owner" /\ outcome' = "failed" /\ calls' = <<>>
      /\ UNCHANGED <<plugins, stages, links, hooks, built, begun, circuit>>
      /\ UNCHANGED <<tid, order, todo, halt, fault, done, skipped, raised, swept>>
  BY DEF PluginThrows
<1>2. TypeInv'
  BY <1>1 DEF TypeInv
<1>3. ControlInv'
  BY <1>1 DEF ControlInv, Fresh
<1>4. RegInv'
  BY <1>1 DEF RegInv, RegOk, BuiltOnce
<1>5. PassInv' /\ CircuitInv' /\ StallInv'
  BY <1>1 DEF PassInv, CircuitInv, StallInv
<1> QED BY <1>2, <1>3, <1>4, <1>5

\* A pass begins: in run(), in elaborate(), or after the build elaborate() made.
LEMMA BeginPassStep ==
    ASSUME IInv, NEW where \in {"circuit", "stages"}, BeginPass(where),
           pc \in {"owner", "autobuild", "stages"}, built, calls = <<>>,
           UNCHANGED <<plugins, stages, links, hooks, built, begun, calls, circuit, halt, swept>>,
           outcome' # outcome => outcome # "failed",
           pc = "stages" => where = "stages" /\ raised' = raised
    PROVE  IInv'
<1> USE DEF IInv
<1>1. /\ pc' = where /\ order' = CanonicalOrder(stages)
      /\ todo' = <<>> /\ done' = <<>> /\ skipped' = {}
  BY DEF BeginPass
<1>2. TypeInv'
  BY <1>1 DEF TypeInv
<1>3. ControlInv'
  BY <1>1 DEF ControlInv, Fresh
<1>4. RegInv'
  <2>1. BuiltOnce' => BuiltOnce
    BY DEF BuiltOnce
  <2> QED BY <2>1 DEF RegInv
<1>5. PassInv'
  <2>1. PassOk(stages, CanonicalOrder(stages), <<>>, {})
    BY StagesListed, PassBegins
  <2>2. Join(<<>>, <<>>) = <<>>
    BY DEF Join
  <2> QED BY <2>1, <2>2, <1>1 DEF PassInv, PassOk
<1>6. CircuitInv'
  BY DEF CircuitInv
<1>7. StallInv'
  BY <1>1 DEF StallInv
<1> QED BY <1>2, <1>3, <1>4, <1>5, <1>6, <1>7

LEMMA EndBuildStep == ASSUME IInv, EndBuild PROVE IInv'
<1> USE DEF IInv
<1>1. /\ pc \in {"build", "autobuild"} /\ calls = <<>> /\ outcome' = "ok"
      /\ UNCHANGED <<plugins, stages, links, hooks, built, begun, calls, circuit>>
      /\ UNCHANGED <<tid, halt, fault, raised, swept>>
  BY DEF EndBuild
<1>2. built /\ todo = <<>>
  BY <1>1 DEF ControlInv, TypeInv
<1>3. Len(begun) = 1 => outcome = "none"
  BY <1>1 DEF ControlInv
<1>4. CASE pc = "build"
  <2>1. pc' = "owner" /\ UNCHANGED <<order, todo, done, skipped>>
    BY <1>4 DEF EndBuild
  <2>2. TypeInv'
    BY <1>1, <2>1 DEF TypeInv
  <2>3. ControlInv'
    BY <1>1, <1>2, <2>1 DEF ControlInv, Fresh
  <2>4. RegInv'
    <3>1. BuiltOnce' => BuiltOnce
      BY <1>1, <1>3 DEF BuiltOnce
    <3> QED BY <3>1, <1>1 DEF RegInv
  <2>5. PassInv' /\ CircuitInv' /\ StallInv'
    BY <1>1, <1>4, <2>1 DEF PassInv, CircuitInv, StallInv
  <2> QED BY <2>2, <2>3, <2>4, <2>5
<1>5. CASE pc = "autobuild"
  <2>1. BeginPass("circuit")
    BY <1>5 DEF EndBuild
  <2>2. "circuit" \in {"circuit", "stages"} /\ outcome # "failed"
    BY <1>3, <1>5 DEF ControlInv
  <2> QED BY <2>1, <2>2, <1>1, <1>2, <1>5, BeginPassStep
<1> QED BY <1>1, <1>4, <1>5

LEMMA ElaborateStep == ASSUME IInv, Elaborate PROVE IInv'
<1> USE DEF IInv
<1>1. pc = "owner"
  BY DEF Elaborate
<1>2. CASE built
  <2>1. /\ BeginPass("circuit")
        /\ UNCHANGED <<plugins, stages, links, hooks, built, begun, outcome, calls, circuit>>
        /\ UNCHANGED <<halt, swept, raised>>
    BY <1>2 DEF Elaborate, setupVars
  <2>2. calls = <<>> /\ "circuit" \in {"circuit", "stages"}
    BY <1>1 DEF ControlInv
  <2> QED BY <1>1, <1>2, <2>1, <2>2, BeginPassStep
<1>3. CASE ~built
  <2>1. BeginBuild("autobuild")
    BY <1>3 DEF Elaborate
  <2> QED BY <2>1, <1>1, <1>3, BeginBuildStep
<1> QED BY <1>2, <1>3

LEMMA BeginRunStep == ASSUME IInv, BeginRun PROVE IInv'
<1> USE DEF IInv
<1>1. /\ pc = "owner" /\ built /\ BeginPass("stages")
      /\ UNCHANGED <<plugins, stages, links, hooks, built, begun, outcome, calls, circuit>>
      /\ UNCHANGED <<halt, swept>>
  BY DEF BeginRun, setupVars
<1>2. calls = <<>> /\ "stages" \in {"circuit", "stages"}
  BY <1>1 DEF ControlInv
<1> QED BY <1>1, <1>2, BeginPassStep

LEMMA NextThreadStep == ASSUME IInv, NextThread PROVE IInv'
<1> USE DEF IInv
<1>1. /\ pc = "stages" /\ BeginPass("stages")
      /\ UNCHANGED <<plugins, stages, links, hooks, built, begun, outcome, calls, circuit>>
      /\ UNCHANGED <<halt, swept, raised>>
  BY DEF NextThread, setupVars
<1>2. calls = <<>> /\ built /\ "stages" \in {"circuit", "stages"}
  BY <1>1 DEF ControlInv, TypeInv
<1> QED BY <1>1, <1>2, BeginPassStep

LEMMA EnterStageStep == ASSUME IInv, EnterStage PROVE IInv'
<1> USE DEF IInv
<1> DEFINE r == Join(done, todo)
<1>1. /\ pc \in {"circuit", "stages"} /\ todo = <<>> /\ order # <<>> /\ order' = Tail(order)
      /\ UNCHANGED <<plugins, stages, links, hooks, built, begun, outcome, calls, circuit>>
      /\ UNCHANGED <<pc, tid, halt, fault, done, raised, swept>>
      /\ \/ pc = "stages" /\ skipped' = skipped \cup {Head(order)} /\ todo' = todo
         \/ skipped' = skipped /\ todo' = Bucket(stages, Head(order))
  BY DEF EnterStage, setupVars
<1>2. Listed(stages) /\ done \in Seq(Nat) /\ r = done
  BY <1>1, StagesListed, JoinEmpty DEF TypeInv
<1>3. PassOk(stages, order, done, skipped)
  BY <1>1, <1>2 DEF PassInv
<1>4. /\ IsBucket(stages, Head(order), Bucket(stages, Head(order)))
      /\ Bucket(stages, Head(order)) \in Seq(Nat)
  BY <1>2, BucketIs DEF Listed, IsBucket
<1>5. TypeInv'
  BY <1>1, <1>4 DEF TypeInv
<1>6. ControlInv'
  BY <1>1 DEF ControlInv, Fresh
<1>7. RegInv' /\ CircuitInv'
  BY <1>1 DEF RegInv, BuiltOnce, CircuitInv
<1>8. PassOk(stages, order', Join(done, todo'), skipped')
  <2>1. CASE skipped' = skipped \cup {Head(order)} /\ todo' = todo
    BY <2>1, <1>1, <1>2, <1>3, PassSkips
  <2>2. CASE skipped' = skipped /\ todo' = Bucket(stages, Head(order))
    BY <2>2, <1>1, <1>2, <1>3, PassTakes
  <2> QED BY <2>1, <2>2, <1>1
<1>9. PassInv'
  BY <1>1, <1>8 DEF PassInv
<1>10. StallInv'
  BY <1>1 DEF StallInv
<1> QED BY <1>5, <1>6, <1>7, <1>9, <1>10

\* A callback runs, of either backend.
LEMMA RunsFirst ==
    ASSUME IInv, pc \in {"circuit", "stages"}, todo # <<>>,
           todo' = Tail(todo), done' = Append(done, Head(todo)),
           UNCHANGED <<stages, order, skipped, pc>>
    PROVE  /\ PassInv' /\ todo' \in Seq(Nat) /\ done' \in Seq(Nat)
<1> USE DEF IInv
<1>1. done \in Seq(Nat) /\ todo \in Seq(Nat)
  BY DEF TypeInv
<1>2. Join(done', todo') = Join(done, todo) /\ todo' \in Seq(Nat) /\ done' \in Seq(Nat)
  BY <1>1, JoinMoves
<1>3. PassOk(stages, order, Join(done', todo'), skipped)
  BY <1>2 DEF PassInv
<1>4. RunOk(stages, done')
  BY <1>2, <1>3, RunStarts DEF PassOk
<1> QED BY <1>2, <1>3, <1>4 DEF PassInv

LEMMA CallbackStep == ASSUME IInv, Callback \/ ElaborateCallback PROVE IInv'
<1> USE DEF IInv
<1>1. /\ pc \in {"circuit", "stages"} /\ todo # <<>>
      /\ todo' = Tail(todo) /\ done' = Append(done, Head(todo))
      /\ UNCHANGED <<plugins, stages, links, hooks, built, begun, outcome, calls, circuit>>
      /\ UNCHANGED <<pc, tid, order, skipped, swept>>
  BY DEF Callback, ElaborateCallback, setupVars
<1>2. \/ halt' = halt
      \/ /\ pc = "stages" /\ \A q \in halt' : q \notin halt => q \in raised'
         /\ \A q \in raised : q \in raised'
  BY DEF Callback, ElaborateCallback
<1>3. raised' = raised \/ (pc = "stages" /\ \A q \in raised : q \in raised')
  BY DEF Callback, ElaborateCallback
<1>4. PassInv' /\ todo' \in Seq(Nat) /\ done' \in Seq(Nat)
  BY <1>1, RunsFirst
<1>5. TypeInv'
  BY <1>1, <1>4 DEF TypeInv
<1>6. ControlInv'
  BY <1>1 DEF ControlInv, Fresh, TypeInv
<1>7. RegInv' /\ CircuitInv'
  BY <1>1 DEF RegInv, BuiltOnce, CircuitInv
<1>8. StallInv'
  BY <1>1, <1>2, <1>3 DEF StallInv
<1> QED BY <1>4, <1>5, <1>6, <1>7, <1>8

LEMMA EndElaborateStep == ASSUME IInv, EndElaborate PROVE IInv'
<1> USE DEF IInv
<1>1. /\ pc = "circuit" /\ todo = <<>> /\ order = <<>> /\ pc' = "owner" /\ circuit' = {done}
      /\ UNCHANGED <<plugins, stages, links, hooks, built, begun, outcome, calls>>
      /\ UNCHANGED <<tid, order, todo, halt, fault, done, skipped, raised, swept>>
  BY DEF EndElaborate
<1>2. TypeInv'
  BY <1>1 DEF TypeInv
<1>3. ControlInv'
  BY <1>1 DEF ControlInv, TypeInv
<1>4. RegInv' /\ PassInv' /\ StallInv'
  BY <1>1 DEF RegInv, BuiltOnce, PassInv, StallInv
<1>5. RunOk(stages, done) /\ \A k \in DOMAIN stages : In(k, done)
  <2>1. PassOk(stages, <<>>, done, {})
    BY <1>1, JoinEmpty DEF PassInv, TypeInv
  <2>2. \A x : ~In(x, <<>>)
    BY DEF In
  <2> QED BY <2>1, <2>2 DEF PassOk
<1>6. CircuitInv'
  BY <1>1, <1>5 DEF CircuitInv
<1> QED BY <1>2, <1>3, <1>4, <1>6

LEMMA EndRunStep == ASSUME IInv, EndRun PROVE IInv'
<1> USE DEF IInv
<1>1. /\ pc = "stages" /\ todo = <<>> /\ pc' = "owner"
      /\ swept' = (IF Throws THEN {} ELSE hooks) /\ halt' = halt \ swept'
      /\ UNCHANGED <<plugins, stages, links, hooks, built, begun, outcome, calls, circuit>>
      /\ UNCHANGED <<tid, order, todo, fault, done, skipped, raised>>
  BY DEF EndRun, setupVars
<1>2. TypeInv'
  BY <1>1 DEF TypeInv
<1>3. ControlInv'
  BY <1>1 DEF ControlInv, Fresh, TypeInv
<1>4. RegInv' /\ PassInv' /\ CircuitInv'
  BY <1>1 DEF RegInv, BuiltOnce, PassInv, CircuitInv
<1>5. StallInv'
  BY <1>1 DEF StallInv
<1> QED BY <1>2, <1>3, <1>4, <1>5

LEMMA Start == PipeInit => IInv
<1> SUFFICES ASSUME PipeInit PROVE IInv
  OBVIOUS
<1> USE DEF PipeInit
<1>1. TypeInv
  <2>1. \A S : <<>> \in Seq(S)
    OBVIOUS
  <2>2. built \in BOOLEAN
    OBVIOUS
  <2> QED BY <2>1, <2>2 DEF TypeInv
<1>2. ControlInv
  BY DEF ControlInv, Fresh
<1>3. RegInv
  BY DEF RegInv, RegOk, BuiltOnce
<1>4. PassInv /\ CircuitInv /\ StallInv
  BY DEF PassInv, RunOk, CircuitInv, StallInv
<1> QED BY <1>1, <1>2, <1>3, <1>4 DEF IInv

LEMMA Step == IInv /\ [PipeNext]_pipeVars => IInv'
<1> SUFFICES ASSUME IInv, [PipeNext]_pipeVars PROVE IInv'
  OBVIOUS
<1>1. ASSUME NEW p \in Plugins, RegisterPlugin(p) PROVE IInv'
  BY <1>1, RegisterStep
<1>2. CASE Build
  BY <1>2, BeginBuildStep DEF Build
<1>3. CASE Building
  BY <1>3, CallStep, ThrowStep, EndBuildStep DEF Building
<1>4. CASE Elaborating
  BY <1>4, ElaborateStep, CallbackStep, EndElaborateStep DEF Elaborating
<1>5. CASE BeginRun
  BY <1>5, BeginRunStep
<1>6. CASE Running
  BY <1>6, EnterStageStep, CallbackStep, NextThreadStep, EndRunStep DEF Running
<1>7. CASE UNCHANGED pipeVars
  BY <1>7 DEF pipeVars, setupVars, runVars, IInv, TypeInv, ControlInv, Fresh, RegInv, BuiltOnce,
              PassInv, CircuitInv, StallInv
<1> QED BY <1>1, <1>2, <1>3, <1>4, <1>5, <1>6, <1>7 DEF PipeNext

\* The invariant holds of every builder.
THEOREM Invariance == PipeSpec => []IInv
BY Start, Step, PTL DEF PipeSpec
-----------------------------------------------------------------------------
(* Properties *)

\* What comes sooner comes before.
LEMMA SoonerIsBefore ==
    ASSUME Listed(stages), NEW j \in DOMAIN stages, NEW k \in DOMAIN stages,
           Sooner(stages, j, k)
    PROVE  Before(j, k)
<1>1. /\ FirstOfStage(j) = FirstAt(stages, stages[j].stage)
      /\ FirstOfStage(k) = FirstAt(stages, stages[k].stage)
  BY DEF FirstOfStage, FirstAt
<1>2. PhaseOf(j) = PhaseAt(stages, j) /\ PhaseOf(k) = PhaseAt(stages, k)
  BY DEF PhaseOf, PhaseAt
<1> QED BY <1>1, <1>2 DEF Sooner, Earlier, Before

LEMMA RunInSchedule ==
    ASSUME Listed(stages), NEW r, RunOk(stages, r)
    PROVE  InSchedule(r)
BY SoonerIsBefore DEF RunOk, InSchedule

\* A callback is not sooner than itself.
LEMMA NotSooner ==
    ASSUME NEW s, Listed(s), NEW k \in DOMAIN s
    PROVE  ~Sooner(s, k, k)
<1>1. FirstAt(s, s[k].stage) \in Nat
  BY FirstAtIs DEF Listed, IsSeq
<1>2. PhaseAt(s, k) \in Nat /\ k \in Nat
  BY PhaseAtIs DEF Listed, IsSeq
<1> QED BY <1>1, <1>2 DEF Sooner, Earlier

\* A pass of run() or of elaborate() takes the callbacks of each stage in the
\* order of the schedule, and all of a stage that was not halted when the pass
\* reached it.
THEOREM Whole == PipeSpec => []PassIsWhole
<1>1. IInv => PassIsWhole
  <2> SUFFICES ASSUME IInv PROVE PassIsWhole
    OBVIOUS
  <2>1. Listed(stages)
    BY StagesListed DEF IInv
  <2>2. InSchedule(done)
    BY <2>1, RunInSchedule DEF IInv, PassInv
  <2>3. ASSUME pc = "stages", todo = <<>>, order = <<>>
        PROVE  ToSet(done) = {k \in DOMAIN stages : stages[k].stage \notin skipped}
    <3>1. PassOk(stages, <<>>, done, skipped)
      BY <2>3, JoinEmpty DEF IInv, PassInv, TypeInv
    <3>2. \A x : ~In(x, <<>>)
      BY DEF In
    <3>3. \A k \in DOMAIN stages : stages[k].stage \in skipped \/ In(k, done)
      BY <3>1, <3>2 DEF PassOk
    <3>4. \A i \in DOMAIN done : done[i] \in DOMAIN stages /\ stages[done[i]].stage \notin skipped
      BY <3>1 DEF PassOk, RunOk
    <3> QED BY <3>3, <3>4 DEF In, ToSet
  <2> QED BY <2>2, <2>3 DEF PassIsWhole
<1> QED BY <1>1, Invariance, PTL

\* The circuit of an owner that registered its plugins and built them once, with
\* success, has every callback of every plugin once, in schedule order.
THEOREM Complete == PipeSpec => []CircuitIsComplete
<1>1. IInv => CircuitIsComplete
  <2> SUFFICES ASSUME IInv, NEW c \in circuit, BuiltOnce
               PROVE  /\ InSchedule(c)
                      /\ \A p \in ToSet(plugins), part \in Parts :
                            \A k \in DOMAIN Callbacks(p, part) :
                                Cardinality({i \in DOMAIN c :
                                    stages[c[i]] = Callbacks(p, part)[k]}) = 1
                      /\ \A i, j \in DOMAIN c :
                            LET a == stages[c[i]]
                                b == stages[c[j]]
                            IN  /\ a.stage = b.stage /\ a.phase = b.phase
                                /\ a.part = "setup" /\ b.part = "build"
                                => i < j
    BY DEF CircuitIsComplete, Parts
  <2>1. Listed(stages)
    BY StagesListed DEF IInv
  <2>0. Len(begun) = 1
    BY DEF BuiltOnce
  <2>2. RunOk(stages, c) /\ \A k \in DOMAIN stages : In(k, c)
    BY <2>0 DEF IInv, CircuitInv
  <2>3. /\ \A i \in DOMAIN c : c[i] \in DOMAIN stages /\ i \in Nat
        /\ \A i, j \in DOMAIN c : i < j => Sooner(stages, c[i], c[j])
    BY <2>2 DEF RunOk
  <2>4. /\ \A i, j \in DOMAIN stages : i < j =>
              stages[i] # stages[j] /\ (stages[i].part = "build" => stages[j].part = "build")
        /\ \A i \in DOMAIN stages : i \in Nat
    BY <2>0, <2>1 DEF IInv, RegInv, RegOk, Listed, IsSeq
  <2>5. InSchedule(c)
    BY <2>1, <2>2, RunInSchedule
  <2>6. ASSUME NEW i \in DOMAIN c, NEW j \in DOMAIN c, stages[c[i]] = stages[c[j]]
        PROVE  i = j
    <3>1. c[i] = c[j]
      BY <2>3, <2>4, <2>6
    <3>2. ~(i < j) /\ ~(j < i)
      BY <3>1, <2>1, <2>3, NotSooner
    <3> QED BY <3>2, <2>3
  <2>7. ASSUME NEW p \in ToSet(plugins), NEW part \in Parts,
               NEW k \in DOMAIN Callbacks(p, part)
        PROVE  Cardinality({i \in DOMAIN c : stages[c[i]] = Callbacks(p, part)[k]}) = 1
    <3> DEFINE e == Callbacks(p, part)[k]
    <3>1. calls = <<>>
      BY <2>0 DEF IInv, ControlInv, Fresh
    <3>2. In(e, stages)
      <4>1. Due(stages, <<>>, p, part)
        BY <3>1 DEF IInv, RegInv
      <4>2. ~In(<<p, part>>, <<>>)
        BY DEF In
      <4> QED BY <4>1, <4>2 DEF Due
    <3> HIDE DEF e
    <3>3. PICK n \in DOMAIN stages : stages[n] = e
      BY <3>2 DEF In
    <3>4. PICK i \in DOMAIN c : c[i] = n
      BY <2>2 DEF In
    <3>5. {j \in DOMAIN c : stages[c[j]] = e} = {i}
      BY <3>3, <3>4, <2>6
    <3> QED BY <3>5, FS_Singleton DEF e
  <2>8. ASSUME NEW i \in DOMAIN c, NEW j \in DOMAIN c,
               stages[c[i]].stage = stages[c[j]].stage,
               stages[c[i]].phase = stages[c[j]].phase,
               stages[c[i]].part = "setup", stages[c[j]].part = "build"
        PROVE  i < j
    <3>1. CASE i = j
      BY <3>1, <2>8
    <3>2. CASE j < i
      <4>1. Sooner(stages, c[j], c[i])
        BY <3>2, <2>3
      <4>2. PhaseAt(stages, c[i]) = PhaseAt(stages, c[j]) /\ PhaseAt(stages, c[i]) \in Nat
        BY <2>1, <2>3, <2>8, PhaseAtIs DEF Listed, PhaseAt
      <4>3. FirstAt(stages, stages[c[i]].stage) \in Nat
        BY <2>1, <2>3, FirstAtIs DEF Listed, IsSeq
      <4>4. c[j] < c[i]
        BY <4>1, <4>2, <4>3, <2>8 DEF Sooner, Earlier
      <4> QED BY <4>4, <2>3, <2>4, <2>8
    <3> QED BY <3>1, <3>2, <2>3
  <2> QED BY <2>5, <2>7, <2>8
<1> QED BY <1>1, Invariance, PTL

\* A pass skips a stage for a condition that a callback of this run has raised,
\* or for one whose plugin's commit hook the previous run did not call.
THEOREM FreshStall == PipeSpec => StallIsFresh
<1>1. IInv /\ [PipeNext]_pipeVars =>
        [\A s \in skipped' \ skipped :
            \E l \in links : /\ l[1] = s /\ l[2] \in halt
                             /\ l[2] \in raised \/ l[2] \notin swept]_pipeVars
  <2> SUFFICES ASSUME IInv, [PipeNext]_pipeVars, NEW s \in skipped', s \notin skipped
               PROVE  \E l \in links : /\ l[1] = s /\ l[2] \in halt
                                       /\ l[2] \in raised \/ l[2] \notin swept
    BY DEF pipeVars
  <2>1. CASE EnterStage
    <3>1. pc = "stages" /\ Stalled(Head(order)) /\ s = Head(order)
      BY <2>1 DEF EnterStage
    <3>2. PICK l \in links : l[1] = s /\ l[2] \in halt
      BY <3>1 DEF Stalled
    <3> QED BY <3>2 DEF IInv, StallInv
  <2>2. ASSUME ~EnterStage PROVE FALSE
    <3>1. skipped' = skipped \/ skipped' = {}
      BY <2>2 DEF PipeNext, pipeVars, setupVars, runVars, RegisterPlugin, Build, BeginBuild, Building,
                  CallPlugin, PluginThrows, EndBuild, BeginPass, Elaborating, Elaborate,
                  ElaborateCallback, EndElaborate, BeginRun, Running, Callback, NextThread, EndRun
    <3> QED BY <3>1
  <2> QED BY <2>1, <2>2
<1> QED BY <1>1, Invariance, PTL DEF PipeSpec, StallIsFresh
=============================================================================
