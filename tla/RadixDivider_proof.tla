------------------------ MODULE RadixDivider_proof --------------------------
(***************************************************************************)
(* Restoring division is right at every width, and both backends count    *)
(* the same clocks.                                                        *)
(***************************************************************************)
EXTENDS DividerParity, TLAPS

-----------------------------------------------------------------------------
\* Division of natural numbers

LEMMA DivMod ==
    ASSUME NEW n \in Nat, NEW d \in Nat \ {0}
    PROVE  /\ n \div d \in Nat /\ n % d \in 0 .. (d - 1)
           /\ n = (n \div d) * d + (n % d)
OBVIOUS

\* A product of naturals grows with its factors.
LEMMA TimesMonotone ==
    ASSUME NEW a \in Nat, NEW b \in Nat, NEW d \in Nat, a <= b
    PROVE  a * d <= b * d /\ a * d \in Nat /\ b * d \in Nat
<1>1. b * d = a * d + (b - a) * d
  OBVIOUS
<1>2. (b - a) * d >= 0
  <2> DEFINE c == b - a
  <2>1. c \in Nat
    OBVIOUS
  <2>2. c * d >= 0
    <3> HIDE DEF c
    <3> QED BY <2>1
  <2> QED BY <2>2
<1> QED BY <1>1, <1>2

\* Quotient and remainder are determined by what they satisfy.
LEMMA DivUnique ==
    ASSUME NEW n \in Nat, NEW d \in Nat \ {0}, NEW q \in Nat, NEW r \in Nat,
           n = q * d + r, r < d
    PROVE  n \div d = q /\ n % d = r
<1> DEFINE k == n \div d
           m == n % d
<1>1. k \in Nat /\ m \in 0 .. (d - 1) /\ n = k * d + m
  BY DivMod
<1> HIDE DEF k, m
<1>2. ~(k >= q + 1)
  <2> SUFFICES ASSUME k >= q + 1 PROVE FALSE
    OBVIOUS
  <2>1. (q + 1) * d <= k * d
    BY <1>1, TimesMonotone
  <2>2. (q + 1) * d = q * d + d
    OBVIOUS
  <2> QED BY <1>1, <2>1, <2>2
<1>3. ~(q >= k + 1)
  <2> SUFFICES ASSUME q >= k + 1 PROVE FALSE
    OBVIOUS
  <2>1. (k + 1) * d <= q * d
    BY <1>1, TimesMonotone
  <2>2. (k + 1) * d = k * d + d
    BY <1>1
  <2> QED BY <1>1, <2>1, <2>2
<1>4. k = q
  BY <1>1, <1>2, <1>3
<1>5. m = r
  BY <1>1, <1>4
<1> QED BY <1>4, <1>5 DEF k, m

\* Splitting a number at the bits below 2p and below p.
LEMMA BitSplit ==
    ASSUME NEW n \in Nat, NEW p \in Nat \ {0}
    PROVE  n % (2 * p) = ((n \div p) % 2) * p + (n % p)
<1> DEFINE a == n \div p
           r == n % p
           c == a \div 2
           b == a % 2
<1>1. a \in Nat /\ r \in 0 .. (p - 1) /\ n = a * p + r
  BY DivMod
<1>2. c \in Nat /\ b \in {0, 1} /\ a = c * 2 + b
  BY <1>1
<1> HIDE DEF a, r, c, b
<1>3. n = c * (2 * p) + (b * p + r)
  <2>1. (c * 2 + b) * p = c * (2 * p) + b * p
    BY <1>2
  <2> QED BY <1>1, <1>2, <2>1
<1>4. b * p + r \in Nat /\ b * p + r < 2 * p
  BY <1>1, <1>2
<1>5. 2 * p \in Nat \ {0}
  OBVIOUS
<1>6. n % (2 * p) = b * p + r
  BY <1>2, <1>3, <1>4, <1>5, DivUnique
<1> QED BY <1>6 DEF a, b, r

\* One bit of restoring division, on naturals: n is the dividend, d the
\* divisor, q and r what the bits above 2p gave, limit the size of a word.
BitBefore(limit, n, d, q, r, p) ==
    /\ limit \in Nat \ {0} /\ n \in Nat /\ n < limit
    /\ d \in Nat \ {0} /\ q \in Nat /\ r \in Nat /\ r < d /\ p \in Nat \ {0}
    /\ n = q * d + r * (2 * p) + (n % (2 * p))
    /\ q % (2 * p) = 0

BitAfter(limit, n, d, q, r, p) ==
    LET b == (n \div p) % 2
        s == 2 * r + b
    IN  /\ b \in {0, 1}
        /\ s < limit /\ (2 * r) % limit = 2 * r
        /\ (q \div p) % 2 = 0 /\ q % p = 0
        /\ n = q * d + s * p + (n % p)
        /\ s >= d => /\ n = (q + p) * d + (s - d) * p + (n % p)
                     /\ (q + p) % p = 0
                     /\ s - d < d
                     /\ q + p <= n

LEMMA OneBit ==
    ASSUME NEW limit, NEW n, NEW d, NEW q, NEW r, NEW p, BitBefore(limit, n, d, q, r, p)
    PROVE  BitAfter(limit, n, d, q, r, p)
<1> USE DEF BitBefore
<1> DEFINE b == (n \div p) % 2
           s == 2 * r + b
           low == n % p
<1>1. b \in {0, 1} /\ low \in 0 .. (p - 1) /\ n \div p \in Nat
  <2>1. n \div p \in Nat /\ n % p \in 0 .. (p - 1)
    BY DivMod
  <2> DEFINE a == n \div p
  <2>2. a \in Nat
    BY <2>1
  <2> HIDE DEF a
  <2>3. a % 2 \in {0, 1}
    BY <2>2
  <2> QED BY <2>1, <2>3 DEF a
<1>2. n % (2 * p) = b * p + low
  BY BitSplit
<1>3. s \in Nat
  BY <1>1
<1> HIDE DEF b, low
<1>4. n = q * d + s * p + low
  <2>1. s * p = r * (2 * p) + b * p
    BY <1>1
  <2>2. b * p \in Nat /\ r * (2 * p) \in Nat /\ q * d \in Nat
    BY <1>1
  <2> QED BY <1>1, <1>2, <2>1, <2>2
<1> HIDE DEF s
<1>5. s <= s * p /\ s * p \in Nat
  BY <1>3, TimesMonotone
<1>6. q * d \in Nat
  OBVIOUS
<1>7. s < limit
  BY <1>1, <1>3, <1>4, <1>5, <1>6
<1>8. (2 * r) % limit = 2 * r
  <2>1. 2 * r \in Nat /\ 2 * r < limit
    BY <1>1, <1>3, <1>7 DEF s
  <2> DEFINE t == 2 * r
  <2>2. t \in Nat /\ t < limit /\ 0 \in Nat
    BY <2>1
  <2> HIDE DEF t
  <2>3. t = 0 * limit + t
    BY <2>2
  <2>4. t % limit = t
    BY <2>2, <2>3, DivUnique
  <2> QED BY <2>4 DEF t
<1>9. (q \div p) % 2 = 0 /\ q % p = 0
  <2>1. q % (2 * p) = ((q \div p) % 2) * p + (q % p)
    BY BitSplit
  <2>2. q \div p \in Nat /\ q % p \in 0 .. (p - 1)
    BY DivMod
  <2>3. (q \div p) % 2 \in {0, 1}
    BY <2>2
  <2>4. CASE (q \div p) % 2 = 1
    BY <2>1, <2>2, <2>4
  <2>5. CASE (q \div p) % 2 = 0
    BY <2>1, <2>2, <2>5
  <2> QED BY <2>3, <2>4, <2>5
<1>10. ASSUME s >= d
       PROVE  /\ n = (q + p) * d + (s - d) * p + low
              /\ (q + p) % p = 0
              /\ s - d < d
              /\ q + p <= n
  <2>1. (q + p) * d = q * d + p * d /\ (s - d) * p = s * p - p * d
    BY <1>3
  <2>2. n = (q + p) * d + (s - d) * p + low
    BY <1>4, <1>5, <1>6, <2>1
  <2>3. (q + p) % p = 0
    <3> DEFINE c == q \div p
    <3>1. q = c * p + (q % p) /\ c \in Nat
      BY DivMod
    <3>2. q % p = 0
      BY <1>9
    <3> HIDE DEF c
    <3>3. q + p = (c + 1) * p + 0 /\ c + 1 \in Nat /\ 0 \in Nat /\ 0 < p /\ q + p \in Nat
      BY <3>1, <3>2
    <3> QED BY <3>3, DivUnique
  <2>4. s - d < d
    BY <1>1 DEF s
  <2>5. q + p <= (q + p) * d /\ (q + p) * d \in Nat
    <3>1. q + p \in Nat /\ 1 \in Nat /\ 1 <= d
      OBVIOUS
    <3>2. 1 * (q + p) <= d * (q + p)
      BY <3>1, TimesMonotone
    <3> QED BY <3>2
  <2>6. (s - d) * p \in Nat
    <3> DEFINE e == s - d
    <3>1. e \in Nat
      BY <1>3, <1>10
    <3> HIDE DEF e
    <3>2. e * p \in Nat
      BY <3>1
    <3> QED BY <3>2 DEF e
  <2> QED BY <1>1, <2>2, <2>3, <2>4, <2>5, <2>6
<1> QED BY <1>1, <1>4, <1>7, <1>8, <1>9, <1>10 DEF b, s, low, BitAfter

-----------------------------------------------------------------------------
\* Words

LEMMA PowFacts ==
    /\ \A k \in 0 .. Width : Pow2[k] \in Nat \ {0}
    /\ Pow2[Width] = 2 * Pow2[Width - 1] /\ Width - 1 \in 0 .. Width
    /\ DivOnes \in DivWord /\ IntMin \in DivWord /\ 0 \in DivWord
<1>1. \A k \in 0 .. Width : Pow2[k] \in Nat \ {0}
  BY Pow2Assumption
<1>2. Width - 1 \in 0 .. (Width - 1) /\ Width - 1 \in 0 .. Width /\ Width \in 0 .. Width
  BY WidthAssumption
<1>3. Pow2[Width] = 2 * Pow2[Width - 1]
  <2>1. Pow2[(Width - 1) + 1] = 2 * Pow2[Width - 1]
    BY <1>2, Pow2Assumption
  <2> QED BY <2>1, WidthAssumption
<1> QED BY <1>1, <1>2, <1>3 DEF DivOnes, IntMin, DivWord

\* Negation stays in the type, and only zero negates to zero.
LEMMA NegateWord == \A x \in DivWord : Negate(x) \in DivWord /\ (Negate(x) = 0 => x = 0)
<1> SUFFICES ASSUME NEW x \in DivWord PROVE Negate(x) \in DivWord /\ (Negate(x) = 0 => x = 0)
  OBVIOUS
<1>1. Width \in 0 .. Width /\ Pow2[Width] \in Nat \ {0}
  BY PowFacts, WidthAssumption
<1> DEFINE m == Pow2[Width]
<1>2. m \in Nat \ {0} /\ x \in 0 .. (m - 1)
  BY <1>1 DEF DivWord
<1> SUFFICES (m - x) % m \in 0 .. (m - 1) /\ ((m - x) % m = 0 => x = 0)
  BY DEF Negate, DivWord
<1> HIDE DEF m
<1>3. CASE x = 0
  BY <1>2, <1>3
<1>4. CASE x # 0
  <2> DEFINE y == m - x
  <2>1. y \in 1 .. (m - 1)
    BY <1>2, <1>4
  <2> HIDE DEF y
  <2>2. y = 0 * m + y /\ 0 \in Nat /\ y \in Nat /\ y < m
    BY <1>2, <2>1
  <2>3. y % m = y
    BY <1>2, <2>2, DivUnique
  <2> QED BY <2>1, <2>3 DEF y
<1> QED BY <1>3, <1>4

LEMMA MagnitudeWord ==
    \A op \in DivOps, x \in DivWord :
        DivMagnitude(op, x) \in DivWord /\ (DivMagnitude(op, x) = 0 <=> x = 0)
<1> SUFFICES ASSUME NEW op \in DivOps, NEW x \in DivWord
             PROVE  DivMagnitude(op, x) \in DivWord /\ (DivMagnitude(op, x) = 0 <=> x = 0)
  OBVIOUS
<1>1. ~IsNegative(0)
  BY PowFacts DEF IsNegative
<1> QED BY <1>1, NegateWord DEF DivMagnitude

-----------------------------------------------------------------------------
\* The ticks

\* A unit in the course of a division, before its next tick.
Dividing(u) ==
    /\ u \in Unit
    /\ u.state = "DIVIDE"
    /\ Begun(u)
    /\ ~u.special => Partial(u)

\* init_divide prepares the first iteration, or the fixed answer.
LEMMA InitWorks ==
    ASSUME NEW u \in Unit, u.state = "DIVIDE", u.iter = 0
    PROVE  Dividing(InitDivide(u)) /\ InitDivide(u).iter = 0
<1> DEFINE v == InitDivide(u)
           n == DivMagnitude(u.opcode, u.rs1)
           d == DivMagnitude(u.opcode, u.rs2)
<1>1. u.opcode \in DivOps /\ u.rs1 \in DivWord /\ u.rs2 \in DivWord /\ u.result \in DivWord
  BY DEF Unit
<1>2. n \in DivWord /\ d \in DivWord /\ (d = 0 <=> u.rs2 = 0)
  BY <1>1, MagnitudeWord
<1>3. /\ v.state = "DIVIDE" /\ v.opcode = u.opcode /\ v.rs1 = u.rs1 /\ v.rs2 = u.rs2
      /\ v.iter = 0 /\ v.remainder = 0 /\ v.quotient = 0
      /\ v.rs1_neg = (SignedOp(u.opcode) /\ IsNegative(u.rs1))
      /\ v.rs2_neg = (SignedOp(u.opcode) /\ IsNegative(u.rs2))
      /\ v.dividend_mag = n /\ v.divisor_mag = d
      /\ v.special = (d = 0 \/ Overflows(u))
      /\ v.result = IF d = 0 THEN IF WantsQuotient(u.opcode) THEN DivOnes ELSE u.rs1
                    ELSE IF Overflows(u) THEN IF u.opcode = "REM" THEN 0 ELSE u.rs1
                    ELSE u.result
  BY DEF InitDivide, Unit
<1>4. v \in Unit
  <2>1. v.result \in DivWord
    BY <1>1, <1>3, PowFacts
  <2>2. v.rs1_neg \in BOOLEAN /\ v.rs2_neg \in BOOLEAN /\ v.special \in BOOLEAN
    BY <1>3 DEF SignedOp, IsNegative, Overflows
  <2>3. v = [u EXCEPT !.rs1_neg = v.rs1_neg, !.rs2_neg = v.rs2_neg, !.dividend_mag = n,
                      !.divisor_mag = d, !.remainder = 0, !.quotient = 0,
                      !.special = v.special, !.result = v.result]
    BY DEF InitDivide, Unit
  <2> HIDE DEF v, n, d
  <2> QED BY <1>2, <2>1, <2>2, <2>3, PowFacts DEF Unit
<1>5. Overflows(v) = Overflows(u)
  BY <1>3 DEF Overflows
<1>6. v.special => v.result = DivCompute(u.opcode, u.rs1, u.rs2)
  <2>1. CASE d = 0
    BY <1>2, <1>3, <2>1 DEF DivCompute
  <2>2. CASE d # 0 /\ Overflows(u)
    <3>1. u.rs2 # 0 /\ SignedOp(u.opcode) /\ u.rs1 = IntMin /\ u.rs2 = DivOnes
      BY <1>2, <2>2 DEF Overflows
    <3> QED BY <1>3, <2>2, <3>1 DEF DivCompute, SignedOp
  <2> QED BY <1>3, <2>1, <2>2
<1>7. Begun(v)
  BY <1>3, <1>5, <1>6 DEF Begun
<1>8. ~v.special => Partial(v)
  <2> SUFFICES ASSUME ~v.special PROVE Partial(v)
    OBVIOUS
  <2> DEFINE m == Pow2[Width]
  <2>1. m \in Nat \ {0} /\ n \in 0 .. (m - 1) /\ d \in 0 .. (m - 1) /\ d # 0
    <3>1. Width \in 0 .. Width
      BY WidthAssumption
    <3>2. m \in Nat \ {0}
      BY <3>1, PowFacts
    <3>3. d # 0
      <4> HIDE DEF v, n, d, m
      <4> QED BY <1>3
    <3> HIDE DEF v, n, d
    <3> QED BY <1>2, <3>2, <3>3 DEF DivWord
  <2>2. Pow2[Width - v.iter] = m
    <3>1. Width - v.iter = Width
      <4> HIDE DEF v
      <4> QED BY <1>3, WidthAssumption
    <3> QED BY <3>1
  <2> HIDE DEF m, n, d, v
  <2>3. n = 0 * m + n /\ 0 = 0 * m + 0 /\ 0 \in Nat /\ 0 < m /\ n \in Nat /\ n < m
    BY <2>1
  <2>4. n % m = n /\ 0 % m = 0
    BY <2>1, <2>3, DivUnique
  <2>5. n = 0 * d + 0 * m + n
    BY <2>1
  <2> QED BY <1>3, <2>1, <2>2, <2>4, <2>5 DEF Partial
<1> QED BY <1>3, <1>4, <1>7, <1>8 DEF Dividing

\* The unit with its counter below Width, seen as numbers.
LEMMA DividingFacts ==
    ASSUME NEW u, Dividing(u), ~u.special, u.iter \in 0 .. (Width - 1)
    PROVE  LET p == Pow2[Width - 1 - u.iter]
           IN  /\ p \in Nat \ {0} /\ Pow2[Width - u.iter] = 2 * p
               /\ Pow2[Width] \in Nat \ {0}
               /\ u.dividend_mag \in Nat /\ u.dividend_mag < Pow2[Width]
               /\ u.divisor_mag \in Nat \ {0}
               /\ u.quotient \in Nat
               /\ u.remainder \in Nat /\ u.remainder < u.divisor_mag
               /\ u.dividend_mag = u.quotient * u.divisor_mag + u.remainder * (2 * p)
                                   + (u.dividend_mag % (2 * p))
               /\ u.quotient % (2 * p) = 0
<1>1. u \in Unit /\ Begun(u) /\ Partial(u)
  BY DEF Dividing
<1>2. Width - 1 - u.iter \in 0 .. (Width - 1) /\ Width \in 0 .. Width
      /\ (Width - 1 - u.iter) + 1 = Width - u.iter
  BY WidthAssumption
<1>3. Pow2[Width - u.iter] = 2 * Pow2[Width - 1 - u.iter]
  BY <1>2, Pow2Assumption
<1>4. Pow2[Width - 1 - u.iter] \in Nat \ {0} /\ Pow2[Width] \in Nat \ {0}
  BY <1>2, Pow2Assumption
<1>5. /\ u.dividend_mag \in DivWord /\ u.divisor_mag \in DivWord
      /\ u.quotient \in DivWord /\ u.remainder \in DivWord
  BY <1>1 DEF Unit
<1>6. u.remainder < u.divisor_mag
  BY <1>1 DEF Partial
<1>7. /\ u.dividend_mag = u.quotient * u.divisor_mag + u.remainder * Pow2[Width - u.iter]
                          + (u.dividend_mag % Pow2[Width - u.iter])
      /\ u.quotient % Pow2[Width - u.iter] = 0
  BY <1>1 DEF Partial
<1>8. /\ u.dividend_mag \in Nat /\ u.dividend_mag < Pow2[Width]
      /\ u.divisor_mag \in Nat /\ u.quotient \in Nat /\ u.remainder \in Nat
  BY <1>4, <1>5 DEF DivWord
<1>9. u.divisor_mag # 0
  BY <1>6, <1>8
<1> QED BY <1>3, <1>4, <1>6, <1>7, <1>8, <1>9

\* An iteration keeps what the bits so far mean.
LEMMA IterateWorks ==
    ASSUME NEW u, Dividing(u), u.iter \in 0 .. (Width - 1)
    PROVE  Dividing(Iterate(u)) /\ Iterate(u).iter = u.iter + 1
<1>1. u \in Unit /\ u.state = "DIVIDE" /\ Begun(u)
  BY DEF Dividing
<1>2. u.iter + 1 \in 0 .. Width
  BY WidthAssumption
<1>3. CASE u.special
  <2>1. Iterate(u) = [u EXCEPT !.iter = u.iter + 1]
    BY <1>3 DEF Iterate
  <2>2. [u EXCEPT !.iter = u.iter + 1] \in Unit
    BY <1>1, <1>2 DEF Unit
  <2> DEFINE v == [u EXCEPT !.iter = u.iter + 1]
  <2>3. /\ v.state = u.state /\ v.opcode = u.opcode /\ v.rs1 = u.rs1 /\ v.rs2 = u.rs2
        /\ v.special = u.special /\ v.rs1_neg = u.rs1_neg /\ v.rs2_neg = u.rs2_neg
        /\ v.dividend_mag = u.dividend_mag /\ v.divisor_mag = u.divisor_mag
        /\ v.result = u.result /\ v.iter = u.iter + 1
    BY <1>1 DEF Unit
  <2>4. v \in Unit
    BY <2>2
  <2> HIDE DEF v
  <2>5. Begun(v)
    BY <1>1, <2>3 DEF Begun, Overflows
  <2>6. Dividing(v)
    BY <1>1, <1>3, <2>3, <2>4, <2>5 DEF Dividing
  <2> QED BY <2>1, <2>3, <2>6 DEF v
<1>4. CASE ~u.special
  <2> DEFINE k == Width - 1 - u.iter
             p == Pow2[k]
             n == u.dividend_mag
             d == u.divisor_mag
             q == u.quotient
             r == u.remainder
             b == (n \div p) % 2
             sh == 2 * r + b
             limit == Pow2[Width]
             v == Iterate(u)
  <2>1. /\ p \in Nat \ {0} /\ limit \in Nat \ {0}
        /\ n \in Nat /\ n < limit /\ d \in Nat \ {0} /\ q \in Nat /\ r \in Nat /\ r < d
        /\ n = q * d + r * (2 * p) + (n % (2 * p)) /\ q % (2 * p) = 0
    BY <1>4, DividingFacts
  <2>2. /\ b \in {0, 1} /\ sh < limit /\ (2 * r) % limit = 2 * r
        /\ (q \div p) % 2 = 0 /\ q % p = 0
        /\ n = q * d + sh * p + (n % p)
        /\ sh >= d => /\ n = (q + p) * d + (sh - d) * p + (n % p)
                      /\ (q + p) % p = 0 /\ sh - d < d /\ q + p <= n
    <3>1. BitAfter(limit, n, d, q, r, p)
      <4> HIDE DEF p, n, d, q, r, limit, v
      <4>1. BitBefore(limit, n, d, q, r, p)
        BY <2>1 DEF BitBefore
      <4> QED BY <4>1, OneBit
    <3> HIDE DEF p, n, d, q, r, limit, v
    <3> QED BY <3>1 DEF BitAfter
  <2>3. ShiftIn(r, Bit(n, k)) = sh /\ SetBit(q, k) = q + p
    BY <2>2 DEF ShiftIn, Bit, SetBit
  <2>4. v = IF sh >= d
            THEN [u EXCEPT !.remainder = sh - d, !.quotient = q + p, !.iter = u.iter + 1]
            ELSE [u EXCEPT !.remainder = sh, !.iter = u.iter + 1]
    BY <1>4, <2>3 DEF Iterate
  <2>5. /\ v.state = u.state /\ v.opcode = u.opcode /\ v.rs1 = u.rs1 /\ v.rs2 = u.rs2
        /\ v.special = u.special /\ v.rs1_neg = u.rs1_neg /\ v.rs2_neg = u.rs2_neg
        /\ v.dividend_mag = n /\ v.divisor_mag = d
        /\ v.result = u.result /\ v.iter = u.iter + 1
        /\ sh >= d => v.remainder = sh - d /\ v.quotient = q + p
        /\ ~(sh >= d) => v.remainder = sh /\ v.quotient = q
    <3> HIDE DEF sh, p
    <3> QED BY <1>1, <2>4 DEF Unit
  <2>6. v = [u EXCEPT !.remainder = v.remainder, !.quotient = v.quotient,
                      !.iter = u.iter + 1]
    <3> HIDE DEF sh, p
    <3>1. CASE sh >= d
      BY <1>1, <2>4, <3>1 DEF Unit
    <3>2. CASE ~(sh >= d)
      BY <1>1, <2>4, <3>2 DEF Unit
    <3> QED BY <3>1, <3>2
  <2>7. Pow2[Width - v.iter] = p
    <3>1. Width - v.iter = k
      <4> HIDE DEF v
      <4> QED BY <1>2, <2>5, WidthAssumption
    <3> QED BY <3>1
  <2> HIDE DEF v, p, limit, b
  <2>8. /\ v.remainder \in Nat /\ v.remainder < d /\ v.quotient \in Nat
        /\ v.quotient < limit
        /\ n = v.quotient * d + v.remainder * p + (n % p)
        /\ v.quotient % p = 0
    <3>1. sh \in Nat
      <4>1. r \in Nat /\ b \in {0, 1}
        BY <2>1, <2>2
      <4> HIDE DEF r
      <4> QED BY <4>1
    <3>2. q < limit
      <4>1. q \in DivWord
        BY <1>1 DEF Unit
      <4> QED BY <2>1, <4>1 DEF DivWord, limit
    <3> HIDE DEF sh, n, d, q, r
    <3>3. CASE sh >= d
      <4>1. v.remainder = sh - d /\ v.quotient = q + p
        BY <2>5, <3>3
      <4>2. v.remainder \in Nat /\ v.quotient \in Nat
        BY <2>1, <3>1, <3>3, <4>1
      <4>3. v.remainder < d /\ v.quotient < limit
        BY <2>1, <2>2, <3>3, <4>1, <4>2
      <4> QED BY <2>2, <3>3, <4>1, <4>2, <4>3
    <3>4. CASE ~(sh >= d)
      <4>1. v.remainder = sh /\ v.quotient = q
        BY <2>5, <3>4
      <4>2. sh < d
        BY <2>1, <3>1, <3>4
      <4> QED BY <2>1, <2>2, <3>1, <3>2, <4>1, <4>2
    <3> QED BY <3>3, <3>4
  <2>9. v.remainder \in DivWord /\ v.quotient \in DivWord
    <3>1. d \in DivWord
      BY <1>1 DEF Unit
    <3>2. d < limit
      BY <2>1, <3>1 DEF DivWord, limit
    <3> HIDE DEF n, d, q, r
    <3> QED BY <2>1, <2>8, <3>2 DEF DivWord, limit
  <2>10. v \in Unit
    <3> HIDE DEF n, d, q, r, sh
    <3> QED BY <1>1, <1>2, <2>6, <2>9 DEF Unit
  <2>11. Begun(v)
    <3> HIDE DEF q, r, sh
    <3> QED BY <1>1, <2>5 DEF Begun, Overflows
  <2>12. Partial(v)
    <3> HIDE DEF n, d, q, r, sh
    <3> QED BY <2>5, <2>7, <2>8 DEF Partial
  <2>13. Dividing(v)
    <3> HIDE DEF n, d, q, r, sh
    <3> QED BY <1>1, <2>5, <2>10, <2>11, <2>12 DEF Dividing
  <2> QED BY <2>5, <2>13 DEF v
<1> QED BY <1>1, <1>3, <1>4 DEF Unit

\* After the last bit the quotient and the remainder are those of the
\* magnitudes, and the sign makes them those of the operands.
LEMMA FinishWorks ==
    ASSUME NEW u, Dividing(u), u.iter = Width
    PROVE  /\ Finish(u) \in Unit /\ Finish(u).state = "WRITE_BACK"
           /\ Finish(u).opcode = u.opcode /\ Finish(u).rs1 = u.rs1 /\ Finish(u).rs2 = u.rs2
           /\ Finish(u).result = DivCompute(u.opcode, u.rs1, u.rs2)
<1> DEFINE n == u.dividend_mag
           d == u.divisor_mag
           q == u.quotient
           r == u.remainder
           value == IF WantsQuotient(u.opcode) THEN q ELSE r
           flip == \/ u.opcode = "DIV" /\ u.rs1_neg # u.rs2_neg
                   \/ u.opcode = "REM" /\ u.rs1_neg
           res == IF u.special THEN u.result ELSE IF flip THEN Negate(value) ELSE value
           v == [u EXCEPT !.state = "WRITE_BACK", !.iter = 0, !.result = res]
<1>1. u \in Unit /\ Begun(u) /\ (~u.special => Partial(u))
  BY DEF Dividing
<1>2. /\ n \in DivWord /\ d \in DivWord /\ q \in DivWord /\ r \in DivWord /\ u.result \in DivWord
      /\ u.opcode \in DivOps /\ u.rs1 \in DivWord /\ u.rs2 \in DivWord
  BY <1>1 DEF Unit
<1>3. Finish(u) = v
  BY <1>1 DEF Finish, Unit
<1>4. res \in DivWord
  <2>1. Negate(value) \in DivWord
    BY <1>2, NegateWord
  <2> QED BY <1>2, <2>1
<1>5. /\ v \in Unit /\ v.state = "WRITE_BACK" /\ v.opcode = u.opcode
      /\ v.rs1 = u.rs1 /\ v.rs2 = u.rs2 /\ v.result = res
  <2> HIDE DEF res
  <2>1. 0 \in 0 .. Width
    BY WidthAssumption
  <2> QED BY <1>1, <1>4, <2>1 DEF Unit
<1>6. res = DivCompute(u.opcode, u.rs1, u.rs2)
  <2>1. CASE u.special
    BY <1>1, <2>1 DEF Begun
  <2>2. CASE ~u.special
    <3>1. /\ n = q * d + r * 1 + (n % 1) /\ r < d
      <4>1. Pow2[Width - u.iter] = 1
        BY Pow2Assumption, WidthAssumption
      <4> QED BY <1>1, <2>2, <4>1 DEF Partial
    <3>2. n \in Nat /\ d \in Nat /\ q \in Nat /\ r \in Nat
      <4>1. Pow2[Width] \in Nat \ {0}
        BY Pow2Assumption, WidthAssumption
      <4> HIDE DEF n, d, q, r
      <4> QED BY <1>2, <4>1 DEF DivWord
    <3>3. d \in Nat \ {0} /\ n % 1 = 0
      <4> HIDE DEF n, d, q, r
      <4> QED BY <3>1, <3>2
    <3>4. n \div d = q /\ n % d = r
      <4> HIDE DEF n, d, q, r
      <4>1. n = q * d + r
        BY <3>1, <3>2, <3>3
      <4> QED BY <3>1, <3>2, <3>3, <4>1, DivUnique
    <3>5. n = DivMagnitude(u.opcode, u.rs1) /\ d = DivMagnitude(u.opcode, u.rs2)
      BY <1>1 DEF Begun
    <3>6. u.rs2 # 0
      BY <1>2, <3>3, <3>5, MagnitudeWord
    <3>7. ~Overflows(u)
      BY <1>1, <2>2 DEF Begun
    <3>8. /\ u.rs1_neg = (SignedOp(u.opcode) /\ IsNegative(u.rs1))
          /\ u.rs2_neg = (SignedOp(u.opcode) /\ IsNegative(u.rs2))
      BY <1>1 DEF Begun
    <3>9. DivCompute(u.opcode, u.rs1, u.rs2)
            = IF WantsQuotient(u.opcode)
              THEN IF SignedOp(u.opcode) /\ IsNegative(u.rs1) # IsNegative(u.rs2)
                   THEN Negate(q) ELSE q
              ELSE IF SignedOp(u.opcode) /\ IsNegative(u.rs1) THEN Negate(r) ELSE r
      <4> HIDE DEF n, d, q, r
      <4> QED BY <3>4, <3>5, <3>6, <3>7 DEF DivCompute, Overflows
    <3>10. CASE u.opcode = "DIV"
      <4>1. WantsQuotient(u.opcode) /\ SignedOp(u.opcode)
        BY <3>10 DEF WantsQuotient, SignedOp
      <4>2. u.rs1_neg = IsNegative(u.rs1) /\ u.rs2_neg = IsNegative(u.rs2)
        BY <3>8, <4>1 DEF IsNegative
      <4>3. res = IF IsNegative(u.rs1) # IsNegative(u.rs2) THEN Negate(q) ELSE q
        BY <2>2, <3>10, <4>1, <4>2
      <4> QED BY <3>9, <4>1, <4>3
    <3>11. CASE u.opcode = "REM"
      BY <2>2, <3>8, <3>9, <3>11 DEF WantsQuotient, SignedOp
    <3>12. CASE u.opcode \in {"DIVU", "REMU"}
      BY <2>2, <3>9, <3>12 DEF WantsQuotient, SignedOp
    <3> QED BY <1>2, <3>10, <3>11, <3>12 DEF DivOps
  <2> QED BY <2>1, <2>2
<1> QED BY <1>3, <1>5, <1>6

-----------------------------------------------------------------------------
\* The invariant

LEMMA OnTickWorks ==
    ASSUME NEW u, UnitInv(u)
    PROVE  UnitInv(OnTick(u))
<1>1. u \in Unit
  BY DEF UnitInv
<1>2. CASE u.state = "DIVIDE" /\ u.iter = 0
  <2> DEFINE w == InitDivide(u)
  <2>1. Dividing(w) /\ w.iter = 0
    BY <1>1, <1>2, InitWorks
  <2>2. 0 \in 0 .. (Width - 1)
    BY WidthAssumption
  <2> HIDE DEF w
  <2>3. Dividing(Iterate(w))
    BY <2>1, <2>2, IterateWorks
  <2>4. UnitInv(Iterate(w))
    BY <2>3 DEF Dividing, UnitInv
  <2> QED BY <1>2, <2>4 DEF OnTick, w
<1>3. CASE u.state = "DIVIDE" /\ u.iter \in 1 .. (Width - 1)
  <2>1. Dividing(u)
    BY <1>1, <1>3 DEF UnitInv, Dividing
  <2>2. u.iter \in 0 .. (Width - 1) /\ u.iter # 0 /\ u.iter < Width
    BY <1>3, WidthAssumption
  <2>3. Dividing(Iterate(u))
    BY <2>1, <2>2, IterateWorks
  <2>4. UnitInv(Iterate(u))
    BY <2>3 DEF Dividing, UnitInv
  <2> QED BY <1>3, <2>2, <2>4 DEF OnTick
<1>4. CASE u.state = "DIVIDE" /\ u.iter = Width
  <2>1. u.iter >= 1 /\ u.iter # 0 /\ ~(u.iter < Width)
    BY <1>4, WidthAssumption
  <2>2. Dividing(u)
    BY <1>1, <1>4, <2>1 DEF UnitInv, Dividing
  <2>3. UnitInv(Finish(u))
    BY <1>4, <2>2, FinishWorks DEF UnitInv
  <2> QED BY <1>4, <2>1, <2>3 DEF OnTick
<1>5. CASE u.state # "DIVIDE"
  <2> DEFINE w == [u EXCEPT !.state = "IDLE"]
  <2>1. w \in Unit /\ w.state = "IDLE"
    BY <1>1 DEF Unit
  <2>2. UnitInv(w)
    BY <2>1 DEF UnitInv
  <2> QED BY <1>5, <2>2 DEF OnTick
<1>6. u.iter \in 0 .. Width
  BY <1>1 DEF Unit
<1> QED BY <1>2, <1>3, <1>4, <1>5, <1>6, WidthAssumption

LEMMA InitInv == DivInit => IInv
<1> SUFFICES ASSUME DivInit PROVE IInv
  OBVIOUS
<1>1. 0 \in DivWord /\ 0 \in 0 .. Width
  BY PowFacts, WidthAssumption
<1> QED BY <1>1 DEF DivInit, IInv, UnitInv, Unit, DivOps

LEMMA StepInv == IInv /\ [DivNext]_unit => IInv'
<1> SUFFICES ASSUME IInv, [DivNext]_unit PROVE IInv'
  OBVIOUS
<1>1. CASE Issue
  <2>1. PICK op \in DivOps, a \in DivWord, b \in DivWord : unit' = OnTick(Captured(unit, op, a, b))
    BY <1>1 DEF Issue
  <2> DEFINE w == Captured(unit, op, a, b)
  <2>2. w \in Unit /\ w.state = "DIVIDE" /\ w.iter = 0
    <3>1. unit \in Unit
      BY DEF IInv, UnitInv
    <3>2. 0 \in 0 .. Width
      BY WidthAssumption
    <3> QED BY <3>1, <3>2 DEF Unit, Captured
  <2> HIDE DEF w
  <2>3. UnitInv(w)
    BY <2>2 DEF UnitInv
  <2> QED BY <2>1, <2>3, OnTickWorks DEF IInv, w
<1>2. CASE Tick
  BY <1>2, OnTickWorks DEF IInv, Tick
<1>3. CASE UNCHANGED unit
  BY <1>3 DEF IInv
<1> QED BY <1>1, <1>2, <1>3 DEF DivNext

THEOREM Invariance == DivSpec => []IInv
BY InitInv, StepInv, PTL DEF DivSpec

\* Every field of the unit keeps its type at every width (mul_div_fsm.h:229-268).
THEOREM Typing == DivSpec => []DivTypeOK
<1>1. IInv => DivTypeOK
  BY DEF IInv, UnitInv, DivTypeOK
<1> QED BY <1>1, Invariance, PTL

\* The bits produced so far are a division of the dividend's upper bits
\* (mul_div_fsm.h:236-246).
THEOREM Bits == DivSpec => []PartialDivision
<1>1. IInv => PartialDivision
  BY DEF IInv, UnitInv, PartialDivision, Working
<1> QED BY <1>1, Invariance, PTL

\* The remainder never needs more bits than it has (mul_div_fsm.h:239-240).
THEOREM NoOverflow == DivSpec => []NoShiftOverflow
<1>1. IInv => NoShiftOverflow
  <2> SUFFICES ASSUME IInv, Working, ~unit.special, unit.iter < Width
               PROVE  2 * unit.remainder + 1 < Pow2[Width]
    BY DEF NoShiftOverflow
  <2> DEFINE p == Pow2[Width - 1 - unit.iter]
             n == unit.dividend_mag
             d == unit.divisor_mag
             q == unit.quotient
             r == unit.remainder
             half == Pow2[Width - 1]
  <2>1. unit \in Unit /\ Dividing(unit)
    BY DEF IInv, UnitInv, Dividing, Working
  <2>2. unit.iter \in 0 .. (Width - 1)
    BY <2>1, WidthAssumption DEF Unit, Working
  <2>3. /\ p \in Nat \ {0} /\ n \in Nat /\ n < Pow2[Width]
        /\ d \in Nat \ {0} /\ q \in Nat /\ r \in Nat
        /\ n = q * d + r * (2 * p) + (n % (2 * p))
    BY <2>1, <2>2, DividingFacts
  <2>4. Pow2[Width] = 2 * half /\ half \in Nat \ {0}
    BY PowFacts
  <2> HIDE DEF p, n, d, q, r, half
  <2>5. 2 * r <= n
    <3>1. 2 * p \in Nat \ {0}
      BY <2>3
    <3>2. n % (2 * p) \in Nat
      <4> DEFINE e == 2 * p
      <4> HIDE DEF e
      <4>1. e \in Nat \ {0}
        BY <3>1 DEF e
      <4>2. n % e \in Nat
        BY <2>3, <4>1
      <4> QED BY <4>2 DEF e
    <3>3. q * d \in Nat
      BY <2>3
    <3>4. 2 * r <= (2 * p) * r /\ (2 * p) * r = r * (2 * p) /\ r * (2 * p) \in Nat
      <4>1. 2 <= 2 * p
        BY <2>3
      <4> DEFINE e == 2 * p
      <4>2. e \in Nat /\ 2 <= e
        BY <3>1, <4>1
      <4> HIDE DEF e
      <4>3. 2 * r <= e * r /\ e * r \in Nat
        BY <2>3, <4>2, TimesMonotone
      <4>4. e * r = r * e
        BY <2>3, <4>2
      <4> QED BY <4>3, <4>4 DEF e
    <3> DEFINE x == q * d
               y == r * (2 * p)
               z == n % (2 * p)
    <3>5. n = x + y + z /\ 2 * r <= y /\ x \in Nat /\ y \in Nat /\ z \in Nat
      BY <2>3, <3>2, <3>3, <3>4
    <3> HIDE DEF x, y, z
    <3> QED BY <2>3, <3>5
  <2>6. 2 * r + 1 < 2 * half
    BY <2>3, <2>4, <2>5
  <2> QED BY <2>4, <2>6 DEF r
<1> QED BY <1>1, Invariance, PTL

\* At every width the radix-2 unit returns what the one-cycle unit computes
\* (mul_div_fsm.h:229-268 and 373-396 against mul.h:117-147).
THEOREM Division == DivSpec => []DivisionCorrect
<1>1. IInv => DivisionCorrect
  BY DEF IInv, UnitInv, DivisionCorrect
<1> QED BY <1>1, Invariance, PTL

-----------------------------------------------------------------------------
\* The unit beside the CH_MEM machine

\* How a tick moves the state and the counter of the unit.
LEMMA TickMoves ==
    ASSUME NEW u \in Unit
    PROVE  /\ u.state = "DIVIDE" /\ u.iter < Width =>
                  OnTick(u).state = "DIVIDE" /\ OnTick(u).iter = u.iter + 1
           /\ u.state = "DIVIDE" /\ u.iter = Width => OnTick(u).state = "WRITE_BACK"
           /\ u.state # "DIVIDE" => OnTick(u).state = "IDLE"
<1>1. \A v \in Unit : Iterate(v).state = v.state /\ Iterate(v).iter = v.iter + 1
  BY DEF Iterate, Unit
<1>2. InitDivide(u).state = u.state /\ InitDivide(u).iter = u.iter
  BY DEF InitDivide, Unit
<1>3. Iterate(InitDivide(u)).state = u.state /\ Iterate(InitDivide(u)).iter = u.iter + 1
  <2> DEFINE w == InitDivide(u)
  <2>1. DOMAIN w = DOMAIN u
    BY DEF InitDivide
  <2> QED BY <1>2 DEF Iterate, InitDivide, Unit
<1>4. Finish(u).state = "WRITE_BACK"
  BY DEF Finish, Unit
<1>5. u.state # "DIVIDE" => OnTick(u).state = "IDLE"
  BY DEF OnTick, Unit
<1>6. ASSUME u.state = "DIVIDE", u.iter < Width
      PROVE  OnTick(u).state = "DIVIDE" /\ OnTick(u).iter = u.iter + 1
  BY <1>1, <1>3, <1>6 DEF OnTick
<1>7. ASSUME u.state = "DIVIDE", u.iter = Width
      PROVE  OnTick(u).state = "WRITE_BACK"
  <2>1. u.iter # 0 /\ ~(u.iter < Width)
    BY <1>7, WidthAssumption
  <2> QED BY <1>4, <1>7, <2>1 DEF OnTick
<1> QED BY <1>5, <1>6, <1>7

\* The two machines' states and counters together.
ParityInv ==
    /\ IInv
    /\ rtl.state \in {"IDLE", "DIVIDE", "WRITE_BACK"}
    /\ rtl.counter \in 0 .. Width
    /\ OneClockBehind

LEMMA ParityStarts == ParityInit => ParityInv
<1>1. ParityInit => IInv
  BY InitInv DEF ParityInit
<1> QED BY <1>1, WidthAssumption DEF ParityInit, DivInit, RtlInit, ParityInv, OneClockBehind

\* Every step of the two is a step of the unit, or none.
LEMMA ParityIsUnit == [ParityNext]_<<unit, rtl>> => [DivNext]_unit
BY DEF ParityNext, IssueBoth, TickBoth, TickRtl, DivNext

\* What a clock of the CH_MEM machine does to its state and counter.
LEMMA RtlMoves ==
    ASSUME NEW op, RtlTick(op), rtl.counter \in 0 .. Width
    PROVE  /\ rtl'.busy = Width + 1
           /\ rtl'.counter \in 0 .. Width
           /\ rtl.state = "IDLE" => rtl'.counter = 0 /\
                  rtl'.state = IF op = "DIV" THEN "DIVIDE" ELSE "IDLE"
           /\ rtl.state = "DIVIDE" /\ rtl.counter < Width =>
                  rtl'.state = "DIVIDE" /\ rtl'.counter = rtl.counter + 1
           /\ rtl.state = "DIVIDE" /\ rtl.counter = Width => rtl'.state = "WRITE_BACK"
           /\ rtl.state = "WRITE_BACK" => rtl'.state = "IDLE"
<1>1. /\ rtl'.busy = Width + 1 /\ rtl'.counter = CounterAfter
      /\ rtl'.state = RtlStateAfter(op)
  BY DEF RtlTick
<1> QED BY <1>1, WidthAssumption DEF RtlStateAfter, CounterAfter

LEMMA ParityStep == ParityInv /\ [ParityNext]_<<unit, rtl>> => ParityInv'
<1> SUFFICES ASSUME ParityInv, [ParityNext]_<<unit, rtl>> PROVE ParityInv'
  OBVIOUS
<1>1. IInv' /\ unit \in Unit /\ unit' \in Unit
  BY ParityIsUnit, StepInv DEF ParityInv, IInv, UnitInv
<1>2. unit.iter \in 0 .. Width /\ rtl.counter \in 0 .. Width /\ OneClockBehind
      /\ unit.state \in {"IDLE", "DIVIDE", "WRITE_BACK"}
      /\ rtl.state \in {"IDLE", "DIVIDE", "WRITE_BACK"}
  BY <1>1 DEF Unit, ParityInv
<1>3. CASE IssueBoth
  <2>1. PICK op \in DivOps, a \in DivWord, b \in DivWord : unit' = OnTick(Captured(unit, op, a, b))
    BY <1>3 DEF IssueBoth, Issue
  <2>2. Captured(unit, op, a, b) \in Unit /\ Captured(unit, op, a, b).state = "DIVIDE"
        /\ Captured(unit, op, a, b).iter = 0
    <3>1. 0 \in 0 .. Width
      BY WidthAssumption
    <3> QED BY <1>1, <3>1 DEF Unit, Captured
  <2>3. unit'.state = "DIVIDE" /\ unit'.iter = 1
    BY <2>1, <2>2, TickMoves, WidthAssumption
  <2>4. /\ rtl'.state = "DIVIDE" /\ rtl'.counter = 0 /\ rtl'.busy = Width + 1
        /\ rtl'.counter \in 0 .. Width
    BY <1>2, <1>3, RtlMoves DEF IssueBoth
  <2> QED BY <1>1, <2>3, <2>4 DEF ParityInv, OneClockBehind
<1>4. CASE TickBoth
  <2>1. PICK op : RtlTick(op)
    BY <1>4 DEF TickBoth
  <2>2. unit.state # "IDLE" /\ unit' = OnTick(unit) /\ rtl.state = "DIVIDE"
    BY <1>2, <1>4 DEF TickBoth, Tick, OneClockBehind
  <2>3. rtl'.busy = Width + 1 /\ rtl'.counter \in 0 .. Width
    BY <1>2, <2>1, RtlMoves
  <2>4. CASE unit.state = "DIVIDE" /\ unit.iter < Width
    <3>1. rtl.counter < Width /\ unit.iter = rtl.counter + 1
      BY <1>2, <2>2, <2>4, WidthAssumption DEF OneClockBehind
    <3>2. unit'.state = "DIVIDE" /\ unit'.iter = unit.iter + 1
      BY <1>1, <2>2, <2>4, TickMoves
    <3>3. rtl'.state = "DIVIDE" /\ rtl'.counter = rtl.counter + 1
      BY <1>2, <2>1, <2>2, <3>1, RtlMoves
    <3> QED BY <1>1, <2>3, <3>1, <3>2, <3>3 DEF ParityInv, OneClockBehind
  <2>5. CASE unit.state = "DIVIDE" /\ unit.iter = Width
    <3>1. rtl.counter < Width /\ rtl.counter + 1 = Width
      BY <1>2, <2>2, <2>5, WidthAssumption DEF OneClockBehind
    <3>2. unit'.state = "WRITE_BACK"
      BY <1>1, <2>2, <2>5, TickMoves
    <3>3. rtl'.state = "DIVIDE" /\ rtl'.counter = Width
      BY <1>2, <2>1, <2>2, <3>1, RtlMoves
    <3> QED BY <1>1, <2>3, <3>2, <3>3 DEF ParityInv, OneClockBehind
  <2>6. CASE unit.state = "WRITE_BACK"
    <3>1. rtl.counter = Width
      BY <1>2, <2>2, <2>6 DEF OneClockBehind
    <3>2. unit'.state = "IDLE"
      BY <1>1, <2>2, <2>6, TickMoves
    <3>3. rtl'.state = "WRITE_BACK"
      BY <1>2, <2>1, <2>2, <3>1, RtlMoves
    <3> QED BY <1>1, <2>3, <3>2, <3>3 DEF ParityInv, OneClockBehind
  <2>7. unit.state = "DIVIDE" => unit.iter < Width \/ unit.iter = Width
    BY <1>2, WidthAssumption
  <2> QED BY <1>2, <2>2, <2>4, <2>5, <2>6, <2>7
<1>5. CASE TickRtl
  <2>1. PICK op : RtlTick(op)
    BY <1>5 DEF TickRtl
  <2>2. unit.state = "IDLE" /\ unit' = unit /\ rtl.state = "WRITE_BACK"
    BY <1>2, <1>5 DEF TickRtl, OneClockBehind
  <2>3. rtl'.state = "IDLE" /\ rtl'.counter \in 0 .. Width
    BY <1>2, <2>1, <2>2, RtlMoves
  <2> QED BY <1>1, <2>2, <2>3 DEF ParityInv, OneClockBehind
<1>6. CASE UNCHANGED <<unit, rtl>>
  BY <1>1, <1>2, <1>6 DEF ParityInv, OneClockBehind
<1> QED BY <1>3, <1>4, <1>5, <1>6 DEF ParityNext

\* At every width the CH_MEM machine is one clock behind the unit in every
\* division, special cases and divisions one after another included, and ends it
\* one clock later (mul_div_fsm_chmem.h:134-190 against mul_div_fsm.h:282-320).
THEOREM Parity == ParitySpec => []OneClockBehind
<1>1. ParityInv => OneClockBehind
  BY DEF ParityInv
<1> QED BY <1>1, ParityStarts, ParityStep, PTL DEF ParitySpec

\* Clocked together with the CH_MEM machine the unit still divides: the two
\* share no state.
THEOREM ParityDivision == ParitySpec => []DivisionCorrect
<1>1. ParityInit => DivInit
  BY DEF ParityInit
<1>2. ParitySpec => DivSpec
  BY <1>1, ParityIsUnit, PTL DEF ParitySpec, DivSpec
<1> QED BY <1>2, Division, PTL
=============================================================================
