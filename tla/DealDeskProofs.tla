--------------------------- MODULE DealDeskProofs ---------------------------
(***************************************************************************)
(* Proofs about the deal desk, for every width of int64 and float64, every *)
(* list of rules and every snapshot.                                       *)
(*                                                                         *)
(*   1. Rounding to a float64 keeps the order of the whole numbers.        *)
(*   2. A price in whole minor units is converted exactly (PriceFits).     *)
(*   3. The inductive invariant DeskInv: an amount is off by whole turns   *)
(*      of int64, and the answer is that to the rules and the snapshot.    *)
(*   4. What the engine finds at a path stands for what the JSON document  *)
(*      says there (FieldStands).                                          *)
(*   5. What one condition answers: by the document when it is plain, the  *)
(*      same over both stores when it is not mixed, never yes to a field   *)
(*      that is missing.                                                   *)
(*   6. From the conditions to the rules, the answer and the theorems.     *)
(***************************************************************************)
EXTENDS DealDeskProperties, WellFoundedInduction, FiniteSetTheorems, TLAPS

-----------------------------------------------------------------------------
(* Rounding to a float64.                                                  *)

LEMMA LeastNat ==
    ASSUME NEW S \in SUBSET Nat, S # {}
    PROVE  \E n \in S : \A m \in S : n <= m
<1> DEFINE R == OpToRel(<, Nat)
<1>1. IsWellFoundedOn(R, Nat)
  BY NatLessThanWellFounded
<1>2. \A m, n \in Nat : m < n => <<m, n>> \in R
  BY DEF OpToRel
<1> HIDE DEF R
<1>3. PICK n \in S : \A m \in S : ~ (<<m, n>> \in R)
  BY <1>1, WFMin
<1>4. \A m \in S : m \in Nat /\ n \in Nat
  OBVIOUS
<1>5. ASSUME NEW m \in S PROVE n <= m
  <2>1. ~ (m < n)
    BY <1>2, <1>3, <1>4
  <2> QED BY <2>1, <1>4
<1> QED BY <1>5

LEMMA MinIs ==
    ASSUME NEW S \in SUBSET Nat, S # {}
    PROVE  Min(S) \in S
BY LeastNat DEF Min

LEMMA UnitsAre == 1 \in Units /\ Units \subseteq Nat
<1>1. Fraction \in Nat \ {0} /\ Fraction \in Powers /\ \A p \in Powers : p \in Nat \ {0}
  BY MoneyAssumption
<1>2. Fraction % Fraction = 0 /\ Fraction \div Fraction = 1
  BY <1>1
<1>3. \A p \in Powers : p \div Fraction \in Nat
  BY <1>1
<1> QED BY <1>1, <1>2, <1>3 DEF Units

LEMMA FloatsAreInts == Floats \subseteq Int
<1>1. \A m \in -Mantissa .. Mantissa, u \in Units : m * u \in Int
  BY MoneyAssumption, UnitsAre
<1> QED BY <1>1 DEF Floats

LEMMA SmallIsFloat ==
    ASSUME NEW n \in -Mantissa .. Mantissa
    PROVE  n \in Floats
<1>1. n * 1 = n
  BY MoneyAssumption
<1> QED BY <1>1, UnitsAre DEF Floats

LEMMA DistanceType ==
    ASSUME NEW x \in Int, NEW y \in Int
    PROVE  Distance(x, y) \in Nat
BY DEF Distance

LEMMA TieBroken ==
    ASSUME NEW n \in Int, NEW x \in Int, NEW y \in Int, x < y,
           Distance(n, x) = Distance(n, y)
    PROVE  Rounds(n, x, y) \/ Rounds(n, y, x)
<1> DEFINE d == y - x
<1>1. d \in Nat \ {0} /\ Distance(x, y) = d /\ Distance(y, x) = d
  BY DEF Distance
<1>2. y = x + d
  OBVIOUS
<1> HIDE DEF d
<1>3. x \div d \in Int /\ y \div d \in Int /\ x % d \in 0 .. d - 1 /\ y % d \in 0 .. d - 1
  BY <1>1
<1>4. x = d * (x \div d) + (x % d)
  BY <1>1
<1>5. y = d * (y \div d) + (y % d)
  BY <1>1
<1>6. y \div d = (x \div d) + 1
  <2> DEFINE p == x \div d
             q == y \div d
             r == x % d
             s == y % d
             k == q - p - 1
  <2>1. p \in Int /\ q \in Int /\ r \in 0 .. d - 1 /\ s \in 0 .. d - 1
    BY <1>3
  <2>2. d * q + s = (d * p + r) + d
    BY <1>2, <1>4, <1>5
  <2> HIDE DEF p, q, r, s
  <2>3. d * k = r - s /\ k \in Int
    BY <2>1, <2>2, <1>1
  <2>4. r - s < d /\ r - s > -d
    BY <2>1, <1>1
  <2> HIDE DEF k
  <2>5. k = 0
    BY <2>3, <2>4, <1>1
  <2> QED BY <2>5, <2>1 DEF k, p, q
<1>7. ((x \div d) % 2 = 0) \/ ((y \div d) % 2 = 0)
  BY <1>3, <1>6
<1> QED BY <1>1, <1>7 DEF Rounds

LEMMA RoundsNearer ==
    ASSUME NEW n \in Int, NEW x \in Int, NEW y \in Int, Rounds(n, x, y)
    PROVE  Distance(n, x) <= Distance(n, y)
<1>1. Distance(n, x) \in Nat /\ Distance(n, y) \in Nat
  BY DistanceType
<1>2. x = y \/ Distance(n, x) < Distance(n, y) \/ Distance(n, x) = Distance(n, y)
  BY DEF Rounds
<1> QED BY <1>1, <1>2

LEMMA NearestExists ==
    ASSUME NEW n \in Int
    PROVE  \E x \in Floats : \A y \in Floats : Rounds(n, x, y)
<1> DEFINE S == {Distance(n, x) : x \in Floats}
<1>1. S \subseteq Nat
  BY DistanceType, FloatsAreInts
<1>2. S # {}
  BY SmallIsFloat, MoneyAssumption
<1>3. PICK d \in S : \A e \in S : d <= e
  BY <1>1, <1>2, LeastNat
<1>4. PICK x \in Floats : d = Distance(n, x)
  BY <1>3
<1>5. \A y \in Floats : Distance(n, x) <= Distance(n, y)
  BY <1>3, <1>4
<1>6. CASE \A y \in Floats : Rounds(n, x, y)
  BY <1>6
<1>7. CASE \E y \in Floats : ~Rounds(n, x, y)
  <2>1. PICK y \in Floats : ~Rounds(n, x, y)
    BY <1>7
  <2>2. x \in Int /\ y \in Int /\ x # y
    BY <2>1, FloatsAreInts DEF Rounds
  <2>3. Distance(n, y) = Distance(n, x)
    <3>1. Distance(n, x) \in Nat /\ Distance(n, y) \in Nat
      BY <2>2, DistanceType
    <3>2. Distance(n, x) <= Distance(n, y)
      BY <1>5
    <3>3. ~ (Distance(n, x) < Distance(n, y))
      BY <2>1 DEF Rounds
    <3> QED BY <3>1, <3>2, <3>3
  <2>4. Rounds(n, y, x)
    <3>1. CASE x < y
      BY <3>1, <2>1, <2>2, <2>3, TieBroken
    <3>2. CASE y < x
      BY <3>2, <2>1, <2>2, <2>3, TieBroken
    <3> QED BY <3>1, <3>2, <2>2
  <2>5. ASSUME NEW z \in Floats PROVE Rounds(n, y, z)
    <3>1. z \in Int
      BY FloatsAreInts
    <3>2. CASE z = x
      BY <3>2, <2>4
    <3>3. CASE z = y
      BY <3>3 DEF Rounds
    <3>4. CASE z # x /\ z # y
      <4>1. Distance(n, z) # Distance(n, x)
        BY <3>1, <3>4, <2>2, <2>3 DEF Distance
      <4>2. Distance(n, y) < Distance(n, z)
        <5>1. Distance(n, x) \in Nat /\ Distance(n, z) \in Nat
          BY <2>2, <3>1, DistanceType
        <5>2. Distance(n, x) <= Distance(n, z)
          BY <1>5
        <5> QED BY <5>1, <5>2, <4>1, <2>3
      <4> QED BY <4>2 DEF Rounds
    <3> QED BY <3>2, <3>3, <3>4
  <2> QED BY <2>5
<1> QED BY <1>6, <1>7

LEMMA FloatOfFloat ==
    ASSUME NEW n \in Floats
    PROVE  Float(n) = n
BY DEF Float

LEMMA FloatNearest ==
    ASSUME NEW n \in Int
    PROVE  /\ Float(n) \in Floats
           /\ \A y \in Floats : Distance(n, Float(n)) <= Distance(n, y)
<1>1. CASE n \in Floats
  <2>1. \A y \in Floats : y \in Int /\ Distance(n, n) <= Distance(n, y)
    BY FloatsAreInts DEF Distance
  <2> QED BY <1>1, <2>1, FloatOfFloat
<1>2. CASE n \notin Floats
  <2> DEFINE S == {Distance(n, x) : x \in Floats}
             near == {x \in Floats : Distance(n, x) = Min(S)}
  <2>1. S \subseteq Nat
    BY DistanceType, FloatsAreInts
  <2>2. PICK x \in Floats : \A y \in Floats : Rounds(n, x, y)
    BY NearestExists
  <2>3. Distance(n, x) \in S
    OBVIOUS
  <2>4. Min(S) \in S /\ \A e \in S : Min(S) <= e
    <3>1. S # {}
      BY <2>3
    <3> HIDE DEF S
    <3> QED BY <2>1, <3>1, LeastNat DEF Min
  <2>5. Distance(n, x) = Min(S)
    <3>1. PICK y \in Floats : Min(S) = Distance(n, y)
      BY <2>4
    <3>2. Distance(n, x) <= Distance(n, y)
      BY <2>2, RoundsNearer, FloatsAreInts
    <3>3. Min(S) <= Distance(n, x) /\ Distance(n, x) \in Nat /\ Distance(n, y) \in Nat
      BY <2>1, <2>3, <2>4
    <3> QED BY <3>1, <3>2, <3>3
  <2>6. \E z \in near : \A y \in near : Rounds(n, z, y)
    BY <2>2, <2>5
  <2>7. Float(n) \in near
    BY <1>2, <2>6 DEF Float
  <2> QED BY <2>4, <2>7
<1> QED BY <1>1, <1>2

\* Rounding loses nothing on the whole numbers below 2^53, does nothing to what
\* it has rounded, and keeps the order.
THEOREM FloatKeepsOrder ==
    /\ \A n \in -Mantissa .. Mantissa : Float(n) = n
    /\ \A n \in Int : Float(n) \in Int /\ Float(Float(n)) = Float(n)
    /\ \A m, n \in Int : m <= n => Float(m) <= Float(n)
<1>1. ASSUME NEW n \in -Mantissa .. Mantissa PROVE Float(n) = n
  BY SmallIsFloat, FloatOfFloat
<1>2. ASSUME NEW n \in Int PROVE Float(n) \in Int /\ Float(Float(n)) = Float(n)
  BY FloatNearest, FloatOfFloat, FloatsAreInts
<1>3. ASSUME NEW m \in Int, NEW n \in Int, m <= n PROVE Float(m) <= Float(n)
  <2> DEFINE a == Float(m)
             b == Float(n)
  <2>1. a \in Int /\ b \in Int
    BY <1>2
  <2>2. Distance(m, a) <= Distance(m, b) /\ Distance(n, b) <= Distance(n, a)
    BY FloatNearest
  <2>3. CASE m = n
    BY <2>3, <2>1
  <2>4. CASE m < n
    <3> HIDE DEF a, b
    <3>1. a <= b
      BY <2>1, <2>2, <2>4 DEF Distance
    <3> QED BY <3>1 DEF a, b
  <2> QED BY <2>3, <2>4, <1>3
<1> QED BY <1>1, <1>2, <1>3

LEMMA WrapsAround ==
    ASSUME NEW n \in Int
    PROVE  /\ Wrap(n) \in Int64
           /\ \E k \in Int : Wrap(n) = n + k * (2 * MaxAmount + 2)
<1> DEFINE w == 2 * MaxAmount + 2
           z == n - MinAmount
<1>1. w \in Nat \ {0} /\ z \in Int /\ MinAmount \in Int
  BY MoneyAssumption DEF MinAmount
<1>2. MinAmount + w - 1 = MaxAmount
  BY MoneyAssumption DEF MinAmount
<1>3. Wrap(n) = (z % w) + MinAmount
  BY DEF Wrap
<1>4. n = z + MinAmount
  BY <1>1
<1> HIDE DEF w, z
<1>5. z % w \in 0 .. w - 1 /\ z \div w \in Int
  BY <1>1
<1>6. z = w * (z \div w) + (z % w)
  BY <1>1
<1>7. Wrap(n) \in Int64
  BY <1>1, <1>2, <1>3, <1>5, MoneyAssumption DEF Int64
<1>8. Wrap(n) = n + (-(z \div w)) * w
  BY <1>1, <1>3, <1>4, <1>5, <1>6
<1>9. -(z \div w) \in Int
  BY <1>5
<1> QED BY <1>7, <1>8, <1>9 DEF w

-----------------------------------------------------------------------------
(* Amounts.                                                                *)

\* The answer there is was computed from the rules and the snapshot there are.
AnswerCurrent ==
    answer = NoAnswer \/ answer = [store \in StoreKinds |-> handleEvaluateOpportunityRules(store)]

\* While no float64 has rounded it, an amount is off by whole turns of int64.
\* The invariant cannot say that it is exact when it fits: that is lost as soon
\* as worth leaves int64, and may come back.
OffByTurns ==
    rounded \/ \E k \in Int : money.amount = worth + k * (2 * MaxAmount + 2)

DeskInv ==
    /\ rules \in Seq(Rules) /\ rest \in Rest
    /\ money.amount \in Int64 /\ worth \in Int
    /\ OffByTurns
    /\ AnswerCurrent

LEMMA Widths ==
    /\ MaxAmount \in Nat \ {0} /\ MinAmount \in Int /\ Int64 \subseteq Int
    /\ 2 * MaxAmount + 2 \in Nat \ {0}
    /\ 0 \in Int64 /\ -Mantissa .. Mantissa \subseteq Int64
BY MoneyAssumption DEF MinAmount, Int64

LEMMA MinorUnits ==
    ASSUME NEW c
    PROVE  MinorUnitsPerUnit(c) \in Nat \ {0}
BY MoneyAssumption DEF MinorUnitsPerUnit

\* Products and distances.
LEMMA TimesKeepsOrder ==
    ASSUME NEW a \in Int, NEW b \in Int, NEW m \in Nat
    PROVE  /\ a <= b => a * m <= b * m
           /\ m # 0 /\ a < b => a * m < b * m
<1>1. CASE a <= b
  <2>1. b - a \in Nat
    BY <1>1
  <2>2. PICK d \in Nat : d = b - a
    BY <2>1
  <2>3. b = a + d
    BY <2>2
  <2>4. b * m = a * m + d * m
    BY <2>3
  <2>5. d * m \in Nat /\ (m # 0 /\ d # 0 => d * m # 0)
    OBVIOUS
  <2>6. a < b => d # 0
    BY <2>3
  <2>7. a * m \in Int
    OBVIOUS
  <2> QED BY <2>4, <2>5, <2>6, <2>7
<1>2. CASE ~ (a <= b)
  BY <1>2
<1> QED BY <1>1, <1>2

LEMMA DistanceTimes ==
    ASSUME NEW a \in Int, NEW b \in Int, NEW m \in Nat \ {0}
    PROVE  Distance(a * m, b * m) = Distance(a, b) * m
<1>1. a * m \in Int /\ b * m \in Int /\ (a - b) * m = a * m - b * m /\ (b - a) * m = b * m - a * m
  OBVIOUS
<1>2. CASE a < b
  <2>1. a * m < b * m
    BY <1>2, TimesKeepsOrder
  <2> QED BY <1>1, <1>2, <2>1 DEF Distance
<1>3. CASE ~ (a < b)
  <2>1. b * m <= a * m
    BY <1>3, TimesKeepsOrder
  <2>2. ~ (a * m < b * m)
    BY <1>1, <2>1
  <2> QED BY <1>1, <1>3, <2>2 DEF Distance
<1> QED BY <1>2, <1>3

LEMMA Quotient ==
    ASSUME NEW a \in Int, NEW b \in Nat \ {0}
    PROVE  a \div b \in Int /\ (a \div b) * b <= a /\ a < (a \div b) * b + b
<1>1. a \div b \in Int /\ a % b \in 0 .. b - 1 /\ a = b * (a \div b) + (a % b)
  OBVIOUS
<1> DEFINE q == a \div b
           r == a % b
<1>2. q \in Int /\ r \in 0 .. b - 1 /\ a = b * q + r
  BY <1>1
<1> HIDE DEF q, r
<1>3. q * b = b * q /\ q * b \in Int
  BY <1>2
<1>4. q * b <= a /\ a < q * b + b
  BY <1>2, <1>3
<1> QED BY <1>2, <1>4 DEF q

LEMMA QuotientIs ==
    ASSUME NEW a \in Int, NEW b \in Nat \ {0}, NEW k \in Int, k * b <= a, a < k * b + b
    PROVE  a \div b = k
<1> DEFINE q == a \div b
<1>1. q \in Int /\ q * b <= a /\ a < q * b + b
  BY Quotient
<1> HIDE DEF q
<1>2. ~ (q + 1 <= k)
  <2>1. q + 1 <= k => (q + 1) * b <= k * b
    BY <1>1, TimesKeepsOrder
  <2>2. (q + 1) * b = q * b + b /\ q * b \in Int /\ k * b \in Int
    BY <1>1
  <2> QED BY <1>1, <2>1, <2>2
<1>3. ~ (k + 1 <= q)
  <2>1. k + 1 <= q => (k + 1) * b <= q * b
    BY <1>1, TimesKeepsOrder
  <2>2. (k + 1) * b = k * b + b /\ q * b \in Int /\ k * b \in Int
    BY <1>1
  <2> QED BY <1>1, <2>1, <2>2
<1> QED BY <1>1, <1>2, <1>3 DEF q

LEMMA DoublesAre == Doubles \subseteq Int /\ 0 \in Doubles
<1>1. \A m \in -Mantissa .. Mantissa, p \in Powers : m * p \in Int
  BY MoneyAssumption
<1>2. 0 \in -Mantissa .. Mantissa /\ 1 \in Powers /\ 0 = 0 * 1
  BY MoneyAssumption
<1> QED BY <1>1, <1>2 DEF Doubles

LEMMA NearestIsNearest ==
    ASSUME NEW num \in Int, NEW den \in Nat \ {0}, NEW x \in Nearest(num, den), NEW y \in Doubles
    PROVE  x \in Int /\ y \in Int /\ Distance(num, x * den) <= Distance(num, y * den)
<1>1. x \in Int /\ y \in Int
  BY DoublesAre DEF Nearest
<1>2. Rounds(num, x * den, y * den)
  BY DEF Nearest
<1>3. x * den \in Int /\ y * den \in Int
  BY <1>1
<1> QED BY <1>1, <1>2, <1>3, RoundsNearer

\* A number that is not too small is rounded by at most one part in 2^53.
LEMMA NearestError ==
    ASSUME NEW num \in Nat, NEW den \in Nat \ {0}, NEW x \in Nearest(num, den),
           Mantissa * den <= num, num <= (Mantissa * Fraction) * den
    PROVE  x \in Int /\ Distance(num, x * den) * Mantissa <= num
<1>1. Mantissa \in Nat \ {0} /\ Fraction \in Nat \ {0} /\ \A p \in Powers : p \in Nat \ {0}
  BY MoneyAssumption
<1>2. PICK n \in Int : (n - 1) * den < num /\ num <= n * den
  <2> DEFINE q == (num - 1) \div den
  <2>1. q \in Int /\ q * den <= num - 1 /\ num - 1 < q * den + den
    BY Quotient
  <2> HIDE DEF q
  <2>2. (q + 1) - 1 = q /\ (q + 1) * den = q * den + den /\ q * den \in Int
    BY <2>1
  <2>3. ((q + 1) - 1) * den < num /\ num <= (q + 1) * den
    BY <2>1, <2>2
  <2>4. PICK n \in Int : n = q + 1
    BY <2>1
  <2>5. (n - 1) * den < num /\ num <= n * den
    BY <2>3, <2>4
  <2> QED BY <2>5
<1>3. n \in Mantissa .. Mantissa * Fraction
  <2>1. Mantissa * Fraction \in Int /\ Mantissa * den \in Int /\ n * den \in Int /\ (n - 1) * den \in Int
    BY <1>1
  <2>2. ~ (n < Mantissa)
    <3>1. n < Mantissa => n * den < Mantissa * den
      BY <1>1, TimesKeepsOrder
    <3> QED BY <1>2, <2>1, <3>1
  <2>3. ~ (Mantissa * Fraction <= n - 1)
    <3>1. PICK top \in Int : top = Mantissa * Fraction
      BY <2>1
    <3>2. top <= n - 1 => top * den <= (n - 1) * den
      BY TimesKeepsOrder
    <3>3. num <= top * den /\ top * den \in Int
      BY <3>1
    <3> QED BY <1>2, <2>1, <3>1, <3>2, <3>3
  <2> QED BY <1>1, <2>1, <2>2, <2>3
<1>4. PICK p \in Powers : n <= Mantissa * p /\ Mantissa * p < 2 * n
  BY <1>3, PrecisionAssumption
<1>5. PICK s \in Nat \ {0} : s = p * den
  BY <1>1
<1>6. Mantissa * s <= 2 * num
  <2>1. PICK h \in Nat : Mantissa = 2 * h
    <3>1. Mantissa % 2 = 0 /\ Mantissa = 2 * (Mantissa \div 2) + (Mantissa % 2) /\ Mantissa \div 2 \in Nat
      BY <1>1, PrecisionAssumption
    <3> QED BY <3>1
  <2>2. PICK g \in Int : g = h * p
    BY <1>1, <2>1
  <2>3. Mantissa * p = 2 * g
    BY <1>1, <2>1, <2>2
  <2>4. g <= n - 1
    BY <1>2, <1>4, <2>2, <2>3
  <2>5. g * den <= (n - 1) * den
    BY <1>2, <2>2, <2>4, TimesKeepsOrder
  <2>6. Mantissa * s = 2 * (g * den)
    BY <1>1, <1>5, <2>1, <2>2
  <2>7. g * den \in Int /\ (n - 1) * den \in Int
    BY <1>2, <2>2
  <2> QED BY <1>2, <2>5, <2>6, <2>7
<1>7. num <= Mantissa * s
  <2>1. Mantissa * p \in Int /\ (Mantissa * p) * den = Mantissa * s
    BY <1>1, <1>5
  <2>2. n * den <= (Mantissa * p) * den
    BY <1>2, <1>4, <2>1, TimesKeepsOrder
  <2>3. n * den \in Int /\ Mantissa * s \in Int
    BY <1>1, <1>2
  <2> QED BY <1>2, <2>1, <2>2, <2>3
<1>8. PICK q \in Int : q * s <= num /\ num < q * s + s
  <2>1. num \div s \in Int /\ (num \div s) * s <= num /\ num < (num \div s) * s + s
    BY Quotient
  <2> QED BY <2>1
<1>9. q \in 0 .. Mantissa
  <2>1. ~ (q + 1 <= 0)
    <3>1. q + 1 <= 0 => (q + 1) * s <= 0 * s
      BY <1>8, TimesKeepsOrder
    <3>2. (q + 1) * s = q * s + s /\ 0 * s = 0 /\ q * s \in Int
      BY <1>8
    <3> QED BY <1>8, <3>1, <3>2
  <2>2. ~ (Mantissa < q)
    <3>1. Mantissa < q => Mantissa * s < q * s
      BY <1>1, <1>8, TimesKeepsOrder
    <3>2. Mantissa * s \in Int /\ q * s \in Int
      BY <1>1, <1>8
    <3> QED BY <1>7, <1>8, <3>1, <3>2
  <2> QED BY <1>1, <1>8, <2>1, <2>2
<1>10. x \in Int
  BY DoublesAre DEF Nearest
<1> DEFINE d == Distance(num, x * den)
<1>11. d \in Nat
  <2>1. x * den \in Int
    BY <1>10
  <2> QED BY <2>1, DistanceType
<1>12. \A y \in Doubles : d <= Distance(num, y * den)
  BY NearestIsNearest
<1> HIDE DEF d
<1>13. \A m \in 0 .. Mantissa : m * p \in Doubles /\ (m * p) * den = m * s
  <2>1. ASSUME NEW m \in 0 .. Mantissa PROVE m * p \in Doubles /\ (m * p) * den = m * s
    <3>1. m \in -Mantissa .. Mantissa
      BY <1>1
    <3> QED BY <1>1, <1>5, <3>1 DEF Doubles
  <2> QED BY <2>1
<1>14. q * s \in Int /\ d <= Distance(num, q * s)
  BY <1>8, <1>9, <1>12, <1>13
<1>15. 2 * d <= s
  <2>1. CASE q = Mantissa
    <3>1. num = q * s
      BY <1>7, <1>8, <1>14, <2>1
    <3>2. Distance(num, q * s) = 0
      BY <3>1 DEF Distance
    <3> QED BY <1>11, <1>14, <3>2
  <2>2. CASE q # Mantissa
    <3>1. q + 1 \in 0 .. Mantissa
      BY <1>1, <1>9, <2>2
    <3>2. d <= Distance(num, (q + 1) * s) /\ (q + 1) * s = q * s + s
      BY <1>8, <1>12, <1>13, <3>1
    <3>3. Distance(num, q * s) = num - q * s
      BY <1>8, <1>14 DEF Distance
    <3>4. Distance(num, q * s + s) = (q * s + s) - num
      BY <1>8, <1>14 DEF Distance
    <3> QED BY <1>8, <1>11, <1>14, <3>2, <3>3, <3>4
  <2> QED BY <2>1, <2>2
<1>16. (2 * d) * Mantissa <= s * Mantissa
  BY <1>1, <1>11, <1>15, TimesKeepsOrder
<1>17. (2 * d) * Mantissa = 2 * (d * Mantissa) /\ d * Mantissa \in Int
       /\ s * Mantissa = Mantissa * s /\ Mantissa * s \in Int
  BY <1>1, <1>11
<1>18. d * Mantissa <= num
  BY <1>6, <1>16, <1>17
<1> QED BY <1>10, <1>18 DEF d

\* Two such errors leave a number of whole minor units below a quarter of 2^53
\* nearer to itself than half a minor unit.
LEMMA TwiceRounded ==
    ASSUME NEW k \in Nat \ {0}, 4 * k < Mantissa, NEW y \in Int, NEW z \in Int,
           Distance(k * Fraction, y) * Mantissa <= k * Fraction
    PROVE  /\ Mantissa <= y /\ y <= Mantissa * Fraction
           /\ Distance(y, z) * Mantissa <= y => 2 * Distance(k * Fraction, z) < Fraction
<1>1. Mantissa \in Nat \ {0} /\ Fraction \in Nat \ {0} /\ 2 * Mantissa <= Fraction
  <2>1. Mantissa \in Nat /\ Fraction \in Nat \ {0} /\ Cents \in Nat \ {0}
        /\ (2 * Mantissa) * Cents <= Fraction /\ Mantissa # 0
    BY MoneyAssumption, PrecisionAssumption
  <2>2. 1 * (2 * Mantissa) <= Cents * (2 * Mantissa)
    BY <2>1, TimesKeepsOrder
  <2>3. Cents * (2 * Mantissa) = (2 * Mantissa) * Cents /\ (2 * Mantissa) * Cents \in Int
    BY <2>1
  <2> QED BY <2>1, <2>2, <2>3
<1>2. PICK N \in Nat : N = k * Fraction
  BY <1>1
<1>3. PICK W \in Nat : W = Mantissa * Fraction
  BY <1>1
<1>4. Fraction <= N /\ 4 * N <= W - Fraction
  <2>1. 1 * Fraction <= k * Fraction
    BY <1>1, TimesKeepsOrder
  <2>2. (4 * k) * Fraction <= (Mantissa - 1) * Fraction
    BY <1>1, TimesKeepsOrder
  <2>3. (4 * k) * Fraction = 4 * N /\ (Mantissa - 1) * Fraction = W - Fraction
    BY <1>1, <1>2, <1>3
  <2> QED BY <1>1, <1>2, <2>1, <2>2, <2>3
<1> DEFINE d == Distance(N, y)
           e == Distance(y, z)
           f == Distance(N, z)
<1>5. d \in Nat /\ e \in Nat /\ f \in Nat /\ f <= d + e /\ y <= N + d /\ N - d <= y
  BY DEF Distance
<1>6. d * Mantissa <= N
  BY <1>2
<1> HIDE DEF d, e, f
<1>7. 4 * d < Fraction
  <2>1. Fraction <= 4 * d => Fraction * Mantissa <= (4 * d) * Mantissa
    BY <1>1, <1>5, TimesKeepsOrder
  <2>2. (4 * d) * Mantissa = 4 * (d * Mantissa) /\ d * Mantissa \in Int /\ Fraction * Mantissa = W
    BY <1>1, <1>3, <1>5
  <2> QED BY <1>1, <1>4, <1>5, <1>6, <2>1, <2>2
<1>8. Mantissa <= y /\ y <= W
  BY <1>1, <1>4, <1>5, <1>7
<1>9. ASSUME e * Mantissa <= y PROVE 2 * f < Fraction
  <2>1. f * Mantissa <= (d + e) * Mantissa
    BY <1>1, <1>5, TimesKeepsOrder
  <2>2. (d + e) * Mantissa = d * Mantissa + e * Mantissa
        /\ d * Mantissa \in Int /\ e * Mantissa \in Int /\ f * Mantissa \in Int
    BY <1>1, <1>5
  <2>3. f * Mantissa <= N + (N + d)
    BY <1>5, <1>6, <1>9, <2>1, <2>2
  <2>4. 2 * (f * Mantissa) < W
    BY <1>1, <1>4, <1>5, <1>7, <2>2, <2>3
  <2>5. Fraction <= 2 * f => Fraction * Mantissa <= (2 * f) * Mantissa
    BY <1>1, <1>5, TimesKeepsOrder
  <2>6. (2 * f) * Mantissa = 2 * (f * Mantissa) /\ Fraction * Mantissa = W
    BY <1>1, <1>3, <1>5
  <2> QED BY <1>1, <1>5, <2>2, <2>4, <2>5, <2>6
<1> QED BY <1>2, <1>3, <1>8, <1>9 DEF d, e, f

\* Nothing comes of nothing.
LEMMA ZeroIsNearest ==
    ASSUME NEW den \in Nat \ {0}, NEW x \in Nearest(0, den)
    PROVE  x = 0
<1>1. x \in Int /\ Distance(0, x * den) <= Distance(0, 0 * den)
  BY NearestIsNearest, DoublesAre
<1>2. 0 * den = 0 /\ x * den \in Int
  BY <1>1
<1>3. x * den = 0
  BY <1>1, <1>2 DEF Distance
<1> QED BY <1>1, <1>3

\* The first of the two roundings, of the price to a float64.
LEMMA PriceRounded ==
    ASSUME NEW parts \in Nat, NEW u \in Nat \ {0}, NEW k \in Nat \ {0}, 4 * k < Mantissa,
           parts * u = k * (2 * Cents), NEW x \in Nearest(parts * Fraction, 2 * Cents)
    PROVE  x \in Int /\ Distance(k * Fraction, x * u) * Mantissa <= k * Fraction
<1> DEFINE c == 2 * Cents
<1>1. Mantissa \in Nat \ {0} /\ Fraction \in Nat \ {0} /\ c \in Nat \ {0} /\ Mantissa * c <= Fraction
  BY MoneyAssumption, PrecisionAssumption
<1>2. x \in Nearest(parts * Fraction, c) /\ parts * u = k * c
  OBVIOUS
<1> HIDE DEF c
<1>3. parts # 0
  <2>1. parts = 0 => parts * u = 0
    OBVIOUS
  <2>2. k * c # 0
    BY <1>1
  <2> QED BY <1>2, <2>1, <2>2
<1>4. PICK num \in Nat : num = parts * Fraction
  BY <1>1
<1>5. Mantissa * c <= num
  <2>1. 1 * Fraction <= parts * Fraction
    BY <1>1, <1>3, TimesKeepsOrder
  <2> QED BY <1>1, <1>4, <2>1
<1>6. num <= (Mantissa * Fraction) * c
  <2>1. 1 * parts <= u * parts
    BY TimesKeepsOrder
  <2>2. u * parts = k * c /\ k * c \in Int
    BY <1>1, <1>2
  <2>3. k * c <= Mantissa * c
    BY <1>1, TimesKeepsOrder
  <2>4. parts <= Mantissa * c /\ Mantissa * c \in Int
    BY <1>1, <2>1, <2>2, <2>3
  <2>5. parts * Fraction <= (Mantissa * c) * Fraction
    BY <1>1, <2>4, TimesKeepsOrder
  <2>6. (Mantissa * c) * Fraction = (Mantissa * Fraction) * c
    BY <1>1
  <2> QED BY <1>4, <2>5, <2>6
<1>7. x \in Int /\ Distance(num, x * c) * Mantissa <= num
  BY <1>1, <1>2, <1>4, <1>5, <1>6, NearestError
<1>8. PICK N \in Nat : N = k * Fraction
  BY <1>1
<1>9. PICK d \in Nat : d = Distance(num, x * c)
  BY <1>1, <1>7, DistanceType
<1>10. PICK e \in Nat : e = Distance(N, x * u)
  BY <1>7, DistanceType
<1>11. d * u = e * c
  <2>1. Distance(num * u, (x * c) * u) = d * u
    BY <1>1, <1>7, <1>9, DistanceTimes
  <2>2. Distance(N * c, (x * u) * c) = e * c
    BY <1>1, <1>7, <1>10, DistanceTimes
  <2>3. num * u = (parts * u) * Fraction
    BY <1>1, <1>4
  <2>4. N * c = (k * c) * Fraction
    BY <1>1, <1>8
  <2>5. num * u = N * c
    BY <1>2, <2>3, <2>4
  <2>6. (x * c) * u = (x * u) * c
    BY <1>1, <1>7
  <2> QED BY <2>1, <2>2, <2>5, <2>6
<1>12. (e * Mantissa) * c <= N * c
  <2>1. (d * Mantissa) * u <= num * u
    BY <1>1, <1>7, <1>9, TimesKeepsOrder
  <2>2. (d * Mantissa) * u = (d * u) * Mantissa
    BY <1>1
  <2>3. (e * Mantissa) * c = (e * c) * Mantissa
    BY <1>1
  <2>4. num * u = (parts * u) * Fraction /\ N * c = (k * c) * Fraction
    BY <1>1, <1>4, <1>8
  <2> QED BY <1>2, <1>11, <2>1, <2>2, <2>3, <2>4
<1>13. e * Mantissa <= N
  <2>1. e * Mantissa \in Int /\ (e * Mantissa) * c \in Int /\ N * c \in Int
    BY <1>1
  <2>2. N < e * Mantissa => N * c < (e * Mantissa) * c
    BY <1>1, <2>1, TimesKeepsOrder
  <2> QED BY <1>12, <2>1, <2>2
<1> QED BY <1>7, <1>8, <1>10, <1>13

LEMMA PriceFits ==
    ASSUME NEW parts \in Parts, NEW c \in Currencies, NEW m \in Prices[parts][c], m # Refusal
    PROVE  /\ m.amount \in Int64
           /\ (parts * MinorUnitsPerUnit(c)) % (2 * Cents) = 0
              => LET whole == (parts * MinorUnitsPerUnit(c) + Cents) \div (2 * Cents)
                 IN  4 * whole < Mantissa => m.amount = whole
<1> DEFINE u == MinorUnitsPerUnit(c)
<1>1. u \in Nat \ {0} /\ Cents \in Nat \ {0} /\ 2 * Cents \in Nat \ {0} /\ parts \in Nat
      /\ Fraction \in Nat \ {0} /\ 2 * Fraction \in Nat \ {0} /\ Mantissa \in Nat
  BY MinorUnits, MoneyAssumption, DealDeskAssumption
<1>2. PICK x \in Nearest(parts * Fraction, 2 * Cents) : m \in FromMajor(x, c)
  BY DEF Prices
<1>3. PICK z \in Nearest(x * u, 1) :
         \E a \in ToInt64((2 * z + Fraction) \div (2 * Fraction)) : m = NewMoney(a, c)
  BY <1>2 DEF FromMajor
<1>4. PICK a \in ToInt64((2 * z + Fraction) \div (2 * Fraction)) : m = NewMoney(a, c)
  BY <1>3
<1>5. m.amount = a
  BY <1>4 DEF NewMoney
<1>6. a \in Int64
  <2>1. MinAmount \in Int64 /\ MaxAmount \in Int64
    BY Widths DEF Int64, MinAmount
  <2> QED BY <1>4, <2>1 DEF ToInt64
<1> HIDE DEF u
<1>7. ASSUME (parts * u) % (2 * Cents) = 0, 4 * ((parts * u + Cents) \div (2 * Cents)) < Mantissa
      PROVE  a = (parts * u + Cents) \div (2 * Cents)
  <2>1. PICK k \in Nat : parts * u = k * (2 * Cents)
    <3>1. PICK t \in Nat : t = parts * u
      BY <1>1
    <3>2. PICK b \in Nat \ {0} : b = 2 * Cents
      BY <1>1
    <3>3. t % b = 0 /\ t = b * (t \div b) + (t % b) /\ t \div b \in Nat
      BY <1>7, <3>1, <3>2
    <3>4. t = (t \div b) * b
      BY <3>3
    <3> QED BY <3>1, <3>2, <3>3, <3>4
  <2>2. (parts * u + Cents) \div (2 * Cents) = k
    <3>1. PICK b \in Nat \ {0} : b = 2 * Cents
      BY <1>1
    <3>2. PICK t \in Int : t = parts * u + Cents
      BY <1>1
    <3>3. k * b <= t /\ t < k * b + b
      BY <1>1, <2>1, <3>1, <3>2
    <3>4. t \div b = k
      BY <3>3, QuotientIs
    <3> QED BY <3>1, <3>2, <3>4
  <2>3. 4 * k < Mantissa
    BY <1>7, <2>2
  <2>4. x \in Int /\ z \in Int
    BY DoublesAre DEF Nearest
  <2>5. 2 * Distance(k * Fraction, z) < Fraction
    <3>1. CASE k = 0
      <4>1. parts * u = 0
        BY <1>1, <2>1, <3>1
      <4>2. parts = 0
        BY <1>1, <4>1
      <4>3. parts * Fraction = 0
        BY <1>1, <4>2
      <4>4. x = 0
        BY <1>1, <1>2, <4>3, ZeroIsNearest
      <4>5. x * u = 0
        BY <1>1, <4>4
      <4>6. z = 0
        BY <4>5, ZeroIsNearest
      <4>7. k * Fraction = 0
        BY <1>1, <3>1
      <4> QED BY <1>1, <4>6, <4>7 DEF Distance
    <3>2. CASE k # 0
      <4>1. k \in Nat \ {0}
        BY <3>2
      <4>2. Distance(k * Fraction, x * u) * Mantissa <= k * Fraction
        BY <1>1, <1>2, <2>1, <2>3, <4>1, PriceRounded
      <4>3. PICK y \in Int : y = x * u
        BY <1>1, <2>4
      <4>4. /\ Mantissa <= y /\ y <= Mantissa * Fraction
            /\ Distance(y, z) * Mantissa <= y => 2 * Distance(k * Fraction, z) < Fraction
        BY <2>3, <2>4, <4>1, <4>2, <4>3, TwiceRounded
      <4>5. y \in Nat /\ Mantissa * 1 <= y /\ y <= (Mantissa * Fraction) * 1
        BY <1>1, <4>3, <4>4
      <4>6. Distance(y, z * 1) * Mantissa <= y
        BY <4>3, <4>5, NearestError
      <4>7. z * 1 = z
        BY <2>4
      <4> QED BY <4>4, <4>6, <4>7
    <3> QED BY <3>1, <3>2
  <2>6. (2 * z + Fraction) \div (2 * Fraction) = k
    <3>1. PICK N \in Int : N = k * Fraction
      BY <1>1
    <3>2. k * (2 * Fraction) = 2 * N
      BY <1>1, <3>1
    <3>3. 2 * N <= 2 * z + Fraction /\ 2 * z + Fraction < 2 * N + 2 * Fraction
      BY <1>1, <2>4, <2>5, <3>1 DEF Distance
    <3>4. PICK b \in Nat \ {0} : b = 2 * Fraction
      BY <1>1
    <3>5. PICK t \in Int : t = 2 * z + Fraction
      BY <1>1, <2>4
    <3>6. k * b <= t /\ t < k * b + b
      BY <3>2, <3>3, <3>4, <3>5
    <3>7. t \div b = k
      BY <3>6, QuotientIs
    <3> QED BY <3>4, <3>5, <3>7
  <2>7. k \in Int64
    <3>1. k \in -Mantissa .. Mantissa
      BY <1>1, <2>3
    <3> QED BY <3>1, Widths
  <2> QED BY <1>4, <2>2, <2>6, <2>7 DEF ToInt64
<1> QED BY <1>5, <1>6, <1>7 DEF u

LEMMA AnswerFresh ==
    ASSUME UNCHANGED <<rules, money, rest>>, NEW store
    PROVE  handleEvaluateOpportunityRules(store)' = handleEvaluateOpportunityRules(store)
<1>1. Active(store)' = Active(store)
  BY DEF Active
<1>2. Opportunity' = Opportunity
  BY DEF Opportunity
<1> QED BY <1>1, <1>2 DEF handleEvaluateOpportunityRules, Summary

LEMMA TurnsAdd ==
    ASSUME NEW w \in Int, NEW k \in Int, NEW a \in Int
    PROVE  /\ \E q \in Int : Wrap((w + k * (2 * MaxAmount + 2)) + a)
                               = (w + a) + q * (2 * MaxAmount + 2)
           /\ \E q \in Int : Wrap((w + k * (2 * MaxAmount + 2)) * a)
                               = w * a + q * (2 * MaxAmount + 2)
<1>1. PICK turn \in Int : turn = 2 * MaxAmount + 2
  BY Widths
<1>2. PICK amount \in Int : amount = w + k * turn
  BY <1>1
<1>3. PICK i \in Int : Wrap(amount + a) = (amount + a) + i * turn
  BY <1>1, WrapsAround
<1>4. Wrap(amount + a) = (w + a) + (k + i) * turn
  BY <1>1, <1>2, <1>3
<1>5. PICK j \in Int : Wrap(amount * a) = (amount * a) + j * turn
  BY <1>1, WrapsAround
<1>6. amount * a = w * a + (k * a) * turn
  BY <1>1, <1>2
<1>7. Wrap(amount * a) = w * a + (k * a + j) * turn
  <2>1. k * a \in Int /\ w * a \in Int
    OBVIOUS
  <2> QED BY <2>1, <1>1, <1>5, <1>6
<1>8. k + i \in Int /\ k * a + j \in Int
  OBVIOUS
<1> QED BY <1>1, <1>2, <1>4, <1>7, <1>8

LEMMA NoTurns ==
    ASSUME NEW n \in Int
    PROVE  n = n + 0 * (2 * MaxAmount + 2)
<1>1. PICK turn \in Int : turn = 2 * MaxAmount + 2
  BY Widths
<1> QED BY <1>1

LEMMA DeskInit == Init => DeskInv
<1> SUFFICES ASSUME Init PROVE DeskInv
  OBVIOUS
<1>1. money.amount = 0 /\ worth = 0
  BY DEF Init, NoMoney
<1>2. 0 = 0 + 0 * (2 * MaxAmount + 2)
  BY NoTurns
<1>3. OffByTurns
  BY <1>1, <1>2 DEF OffByTurns
<1> QED BY <1>1, <1>3, Widths, DealDeskAssumption DEF Init, DeskInv, AnswerCurrent

LEMMA DeskStep == DeskInv /\ [Next]_vars => DeskInv'
<1> SUFFICES ASSUME DeskInv, [Next]_vars PROVE DeskInv'
  OBVIOUS
<1> USE DEF DeskInv
<1>1. ASSUME NEW parts \in Parts, NEW c \in Currencies, Price(parts, c) PROVE DeskInv'
  <2>1. PICK m \in Prices[parts][c] : m # Refusal /\ money' = m
    BY <1>1 DEF Price
  <2>2. parts \in Nat
    BY DealDeskAssumption
  <2>3. worth' = (parts * MinorUnitsPerUnit(c) + Cents) \div (2 * Cents)
    BY <1>1 DEF Price
  <2>4. parts * MinorUnitsPerUnit(c) \in Int
    BY <2>2, MinorUnits
  <2>5. worth' \in Int
    BY <2>3, <2>4, MoneyAssumption
  <2>6. OffByTurns'
    <3> DEFINE whole == /\ (parts * MinorUnitsPerUnit(c)) % (2 * Cents) = 0
                        /\ 4 * worth' < Mantissa
    <3>1. CASE ~whole
      BY <3>1, <1>1 DEF Price, OffByTurns
    <3>2. CASE whole
      <4>1. money'.amount = worth'
        BY <3>2, <2>1, <2>3, PriceFits
      <4>2. worth' = worth' + 0 * (2 * MaxAmount + 2)
        BY <2>5, NoTurns
      <4> QED BY <4>1, <4>2 DEF OffByTurns
    <3> QED BY <3>1, <3>2
  <2> QED BY <1>1, <2>1, <2>5, <2>6, PriceFits DEF Price, AnswerCurrent
<1>2. ASSUME NEW a \in Amounts, NEW c \in Currencies, Decode(a, c) PROVE DeskInv'
  <2>1. money'.amount = a /\ worth' = a /\ a \in Int
    BY <1>2, DealDeskAssumption, Widths DEF Decode
  <2>2. a = a + 0 * (2 * MaxAmount + 2)
    BY <2>1, NoTurns
  <2>3. OffByTurns'
    BY <2>1, <2>2 DEF OffByTurns
  <2> QED BY <1>2, <2>1, <2>3, DealDeskAssumption DEF Decode, AnswerCurrent
<1>3. ASSUME NEW a \in Lines, NEW c \in Currencies, AddLine(a, c) PROVE DeskInv'
  <2>1. a \in Int /\ money.amount \in Int
    BY DealDeskAssumption, Widths
  <2>2. NewMoney(a, c).amount = a
    BY <1>3 DEF AddLine, NewMoney
  <2>3. money'.amount = Wrap(money.amount + a) /\ worth' = worth + a
    BY <1>3, <2>2 DEF AddLine, Add
  <2>4. OffByTurns'
    <3>1. CASE rounded
      BY <3>1, <1>3 DEF AddLine, OffByTurns
    <3>2. CASE ~rounded
      <4>1. PICK k \in Int : money.amount = worth + k * (2 * MaxAmount + 2)
        BY <3>2 DEF OffByTurns
      <4>2. \E q \in Int : Wrap(money.amount + a) = (worth + a) + q * (2 * MaxAmount + 2)
        <5> HIDE DEF DeskInv
        <5>1. worth \in Int
          BY DEF DeskInv
        <5>2. Wrap(money.amount + a) = Wrap((worth + k * (2 * MaxAmount + 2)) + a)
          BY <4>1
        <5>3. \E q \in Int : Wrap((worth + k * (2 * MaxAmount + 2)) + a)
                               = (worth + a) + q * (2 * MaxAmount + 2)
          BY <5>1, <2>1, TurnsAdd
        <5> QED BY <5>2, <5>3
      <4> QED BY <4>2, <2>3 DEF OffByTurns
    <3> QED BY <3>1, <3>2
  <2>5. money'.amount \in Int64
    <3>1. money.amount + a \in Int
      BY <2>1
    <3> QED BY <3>1, <2>3, WrapsAround
  <2> QED BY <1>3, <2>1, <2>3, <2>4, <2>5 DEF AddLine, AnswerCurrent
<1>4. ASSUME NEW k \in Multipliers, Scale(k) PROVE DeskInv'
  <2>1. k \in Int /\ money.amount \in Int
    BY DealDeskAssumption, Widths
  <2>2. money'.amount = Wrap(money.amount * k) /\ worth' = worth * k
    BY <1>4 DEF Scale, Multiply
  <2>3. OffByTurns'
    <3>1. CASE rounded
      BY <3>1, <1>4 DEF Scale, OffByTurns
    <3>2. CASE ~rounded
      <4>1. PICK q \in Int : money.amount = worth + q * (2 * MaxAmount + 2)
        BY <3>2 DEF OffByTurns
      <4>2. \E p \in Int : Wrap(money.amount * k) = worth * k + p * (2 * MaxAmount + 2)
        <5> HIDE DEF DeskInv
        <5>1. worth \in Int
          BY DEF DeskInv
        <5>2. Wrap(money.amount * k) = Wrap((worth + q * (2 * MaxAmount + 2)) * k)
          BY <4>1
        <5>3. \E p \in Int : Wrap((worth + q * (2 * MaxAmount + 2)) * k)
                               = worth * k + p * (2 * MaxAmount + 2)
          BY <5>1, <2>1, TurnsAdd
        <5> QED BY <5>2, <5>3
      <4> QED BY <4>2, <2>2 DEF OffByTurns
    <3> QED BY <3>1, <3>2
  <2>4. money'.amount \in Int64 /\ worth' \in Int
    <3>1. money.amount * k \in Int /\ worth * k \in Int
      BY <2>1
    <3> QED BY <3>1, <2>2, WrapsAround
  <2> QED BY <1>4, <2>3, <2>4 DEF Scale, AnswerCurrent
<1>5. ASSUME Ask PROVE DeskInv'
  <2>1. UNCHANGED <<rules, money, rest>> /\ worth' = worth /\ rounded' = rounded
    BY <1>5 DEF Ask
  <2>2. AnswerCurrent'
    BY <1>5, <2>1, AnswerFresh DEF Ask, AnswerCurrent
  <2> QED BY <2>1, <2>2 DEF OffByTurns
<1>6. ASSUME UNCHANGED vars PROVE DeskInv'
  <2>1. UNCHANGED <<rules, money, rest>> /\ worth' = worth /\ rounded' = rounded /\ answer' = answer
    BY <1>6 DEF vars
  <2>2. AnswerCurrent'
    BY <2>1, AnswerFresh DEF AnswerCurrent
  <2> QED BY <2>1, <2>2 DEF OffByTurns
<1> QED BY <1>1, <1>2, <1>3, <1>4, <1>5, <1>6 DEF Next

\* The invariant the other theorems rest on: an amount is off by whole turns of
\* int64, and an answer is the one to the rules and the snapshot there are.
THEOREM DeskConsistent == Spec => []DeskInv
BY DeskInit, DeskStep, PTL DEF Spec

LEMMA ExactWhenItFits == DeskInv => AmountsExactWhenTheyFit
<1> SUFFICES ASSUME DeskInv, worth \in Int64, ~rounded PROVE money.amount = worth
  BY DEF AmountsExactWhenTheyFit
<1>1. PICK k \in Int : money.amount = worth + k * (2 * MaxAmount + 2)
  BY DEF DeskInv, OffByTurns
<1>2. PICK turn : turn = 2 * MaxAmount + 2
  OBVIOUS
<1>3. turn \in Nat \ {0} /\ money.amount \in Int /\ worth \in Int
  BY <1>2, Widths DEF DeskInv
<1>4. money.amount - worth < turn /\ money.amount - worth > -turn
  BY <1>2, MoneyAssumption DEF DeskInv, Int64, MinAmount
<1>5. turn * k = money.amount - worth
  BY <1>1, <1>2, <1>3
<1>6. k = 0
  BY <1>3, <1>4, <1>5
<1> QED BY <1>3, <1>5, <1>6

\* money.go:27.  For every width of int64, every precision of float64 and every
\* number of minor units: FromMajor converts a price in whole minor units
\* exactly, below a quarter of the mantissa, and an amount that fits is exact
\* after any sequence of operations, one that wrapped around included.
THEOREM AmountsExact == Spec => []AmountsExactWhenTheyFit
BY DeskConsistent, ExactWhenItFits, PTL

\* Along is the end of the walk it is defined by.
LEMMA AlongWalks ==
    ASSUME NEW entity, NEW path \in Seq(STRING)
    PROVE  \E at :
              /\ at[0] = entity
              /\ \A i \in 1 .. Len(path) : at[i] = fieldByExternalName(at[i - 1], path[i])
              /\ Along(entity, path) = at[Len(path)]
<1> DEFINE Walk(g, n) ==
              g = [i \in 0 .. n |-> IF i = 0 THEN entity
                                    ELSE fieldByExternalName(g[i - 1], path[i])]
           Stuck == {n \in Nat : ~ \E g : Walk(g, n)}
<1>1. Stuck = {}
  <2>1. SUFFICES ASSUME Stuck # {} PROVE FALSE
    OBVIOUS
  <2>2. PICK n \in Stuck : \A m \in Stuck : n <= m
    BY <2>1, LeastNat
  <2>3. n \in Nat /\ ~ \E g : Walk(g, n)
    BY <2>2
  <2>4. CASE n = 0
    <3>1. Walk([i \in 0 .. 0 |-> entity], 0)
      OBVIOUS
    <3> QED BY <3>1, <2>3, <2>4
  <2>5. CASE n # 0
    <3>1. n - 1 \in Nat /\ n - 1 \notin Stuck
      BY <2>2, <2>3, <2>5
    <3>2. PICK g : Walk(g, n - 1)
      BY <3>1
    <3> DEFINE h == [i \in 0 .. n |-> IF i = n THEN fieldByExternalName(g[n - 1], path[n]) ELSE g[i]]
    <3>3. ASSUME NEW i \in 0 .. n
          PROVE  h[i] = IF i = 0 THEN entity ELSE fieldByExternalName(h[i - 1], path[i])
      <4>1. CASE i = n
        BY <4>1, <2>3, <2>5
      <4>2. CASE i # n
        <5>1. i \in 0 .. n - 1 /\ (i # 0 => i - 1 \in 0 .. n /\ i - 1 # n)
          BY <4>2, <2>3
        <5>2. g[i] = IF i = 0 THEN entity ELSE fieldByExternalName(g[i - 1], path[i])
          BY <5>1, <3>2
        <5> QED BY <4>2, <5>1, <5>2
      <4> QED BY <4>1, <4>2
    <3>4. Walk(h, n)
      BY <3>3
    <3> QED BY <3>4, <2>3
  <2> QED BY <2>4, <2>5
<1>2. Len(path) \in Nat
  OBVIOUS
<1>3. \E g : Walk(g, Len(path))
  BY <1>1, <1>2
<1> DEFINE at == CHOOSE g : Walk(g, Len(path))
<1>4. Walk(at, Len(path))
  BY <1>3
<1>5. Along(entity, path) = at[Len(path)]
  BY DEF Along
<1> HIDE DEF at
<1>6. ASSUME NEW i \in 0 .. Len(path)
      PROVE  at[i] = IF i = 0 THEN entity ELSE fieldByExternalName(at[i - 1], path[i])
  BY <1>4
<1> QED BY <1>2, <1>5, <1>6

\* So is Inside.
LEMMA InsideWalks ==
    ASSUME NEW path \in Seq(STRING), Len(path) >= 1
    PROVE  \E at :
              /\ at[1] = MapOf(rest.custom_fields)
              /\ \A i \in 2 .. Len(path) : at[i] = Below(at[i - 1], path[i])
              /\ Inside(path) = at[Len(path)]
<1> DEFINE Walk(g, n) ==
              g = [i \in 1 .. n |-> IF i = 1 THEN MapOf(rest.custom_fields)
                                    ELSE Below(g[i - 1], path[i])]
           Stuck == {n \in Nat \ {0} : ~ \E g : Walk(g, n)}
<1>1. Stuck = {}
  <2>1. SUFFICES ASSUME Stuck # {} PROVE FALSE
    OBVIOUS
  <2>2. PICK n \in Stuck : \A m \in Stuck : n <= m
    BY <2>1, LeastNat
  <2>3. n \in Nat \ {0} /\ ~ \E g : Walk(g, n)
    BY <2>2
  <2>4. CASE n = 1
    <3>1. Walk([i \in 1 .. 1 |-> MapOf(rest.custom_fields)], 1)
      OBVIOUS
    <3> QED BY <3>1, <2>3, <2>4
  <2>5. CASE n # 1
    <3>1. n - 1 \in Nat \ {0} /\ n - 1 \notin Stuck
      <4>1. n \in Nat /\ n - 1 \in Nat \ {0} /\ ~ (n <= n - 1)
        BY <2>3, <2>5
      <4>2. n - 1 \in Stuck => n <= n - 1
        BY <2>2
      <4> HIDE DEF Stuck
      <4> QED BY <4>1, <4>2
    <3>2. PICK g : Walk(g, n - 1)
      BY <3>1
    <3> DEFINE h == [i \in 1 .. n |-> IF i = n THEN Below(g[n - 1], path[n]) ELSE g[i]]
    <3>3. ASSUME NEW i \in 1 .. n
          PROVE  h[i] = IF i = 1 THEN MapOf(rest.custom_fields) ELSE Below(h[i - 1], path[i])
      <4>1. CASE i = n
        BY <4>1, <2>3, <2>5
      <4>2. CASE i # n
        <5>1. i \in 1 .. n - 1 /\ (i # 1 => i - 1 \in 1 .. n /\ i - 1 # n)
          BY <4>2, <2>3
        <5>2. g[i] = IF i = 1 THEN MapOf(rest.custom_fields) ELSE Below(g[i - 1], path[i])
          BY <5>1, <3>2
        <5> QED BY <4>2, <5>1, <5>2
      <4> QED BY <4>1, <4>2
    <3>4. Walk(h, n)
      BY <3>3
    <3> QED BY <3>4, <2>3
  <2> QED BY <2>4, <2>5
<1>2. Len(path) \in Nat \ {0}
  OBVIOUS
<1>3. \E g : Walk(g, Len(path))
  BY <1>1, <1>2
<1> DEFINE at == CHOOSE g : Walk(g, Len(path))
<1>4. Walk(at, Len(path))
  BY <1>3
<1>5. Inside(path) = at[Len(path)]
  BY DEF Inside
<1> HIDE DEF at
<1>6. ASSUME NEW i \in 1 .. Len(path)
      PROVE  at[i] = IF i = 1 THEN MapOf(rest.custom_fields) ELSE Below(at[i - 1], path[i])
  BY <1>4
<1> QED BY <1>2, <1>5, <1>6

LEMMA ScalarParts ==
    ASSUME NEW type, NEW n, NEW s
    PROVE  Scalar(type, n, s).type = type /\ Scalar(type, n, s).n = n /\ Scalar(type, n, s).s = s
BY DEF Scalar

LEMMA InvalidIs == Invalid.type = "invalid"
BY DEF Invalid, Scalar

LEMMA NoWayOn ==
    ASSUME NEW v, v.type # "map", v.type # "struct", v.type # "Money", v.type # "*Money"
    PROVE  DOMAIN FieldsOf(v) = {}
<1>1. FieldsOf(v) = << >>
  BY DEF FieldsOf
<1> QED BY <1>1

LEMMA MoneyParts ==
    ASSUME NEW v, v.type = "Money" \/ v.type = "*Money", NEW name
    PROVE  fieldByExternalName(v, name) =
              IF name = "amount" THEN Scalar("int64", v.n, "")
              ELSE IF name = "currency" THEN Scalar("Currency", 0, v.s) ELSE Invalid
<1> DEFINE n == Scalar("int64", v.n, "")
           c == Scalar("Currency", 0, v.s)
<1>1. FieldsOf(v) = [amount |-> n, currency |-> c]
  <2>1. ~ (v.type \in {"map", "struct"}) /\ v.type \in {"Money", "*Money"}
    OBVIOUS
  <2> QED BY <2>1 DEF FieldsOf
<1> HIDE DEF n, c
<1>2. PICK fields : fields = [amount |-> n, currency |-> c]
  OBVIOUS
<1>3. DOMAIN fields = {"amount", "currency"} /\ fields["amount"] = n /\ fields["currency"] = c
  BY <1>2
<1>4. fieldByExternalName(v, name) = IF name \in DOMAIN fields THEN fields[name] ELSE Invalid
  BY <1>1, <1>2 DEF fieldByExternalName
<1> QED BY <1>3, <1>4 DEF n, c

LEMMA TupleLengths ==
    ASSUME NEW a, NEW b
    PROVE  Len(<<a>>) = 1 /\ Len(<<a, b>>) = 2
OBVIOUS

-----------------------------------------------------------------------------
(* What a path leads to in Go, and what it reads as in JSON.               *)

Walks(at, path) == \A i \in 1 .. Len(path) : at[i] = fieldByExternalName(at[i - 1], path[i])

\* From a value without fields there is no way on.
LEMMA DeadEnd ==
    ASSUME NEW path \in Seq(STRING), NEW at, Walks(at, path),
           NEW k \in 0 .. Len(path) - 1, DOMAIN FieldsOf(at[k]) = {}
    PROVE  at[Len(path)] = Invalid
<1> DEFINE Alive == {i \in Nat : i \in k + 1 .. Len(path) /\ at[i] # Invalid}
<1>1. Alive = {}
  <2>1. SUFFICES ASSUME Alive # {} PROVE FALSE
    OBVIOUS
  <2>2. PICK n \in Alive : \A m \in Alive : n <= m
    BY <2>1, LeastNat
  <2>3. n \in k + 1 .. Len(path) /\ at[n] # Invalid /\ Len(path) \in Nat
    BY <2>2
  <2>4. at[n] = fieldByExternalName(at[n - 1], path[n])
    BY <2>3 DEF Walks
  <2>5. DOMAIN FieldsOf(at[n - 1]) = {}
    <3>1. CASE n = k + 1
      <4>1. n - 1 = k
        BY <3>1
      <4> QED BY <4>1
    <3>2. CASE n # k + 1
      <4>1. n \in Nat /\ n - 1 \in k + 1 .. Len(path) /\ n - 1 \in Nat /\ ~ (n <= n - 1)
        BY <2>3, <3>2
      <4>2. n - 1 \in Alive => n <= n - 1
        BY <2>2
      <4>3. n - 1 \notin Alive
        <5> HIDE DEF Alive
        <5> QED BY <4>1, <4>2
      <4>4. at[n - 1] = Invalid
        BY <4>1, <4>3
      <4>5. at[n - 1].type = "invalid"
        BY <4>4, InvalidIs
      <4> QED BY <4>5, NoWayOn
    <3> QED BY <3>1, <3>2
  <2>6. at[n] = Invalid
    BY <2>4, <2>5 DEF fieldByExternalName
  <2> QED BY <2>3, <2>6
<1>2. Len(path) \in Nat /\ Len(path) \in k + 1 .. Len(path)
  OBVIOUS
<1> QED BY <1>1, <1>2

LEMMA OneName ==
    ASSUME NEW path \in Seq(STRING), Len(path) = 1
    PROVE  path = <<path[1]>>
OBVIOUS

LEMMA TwoNames ==
    ASSUME NEW path \in Seq(STRING), Len(path) = 2
    PROVE  path = <<path[1], path[2]>>
OBVIOUS

\* What getFieldValue makes of the end of a walk.
Found(v) == IF v.type \in {"invalid", "nil"} THEN Invalid ELSE v

\* A Go value stands for what the document says at a path.
Stands(v, r, path) ==
    \/ /\ r.kind = "absent"
       /\ v = Invalid \/ (v.type \in NilPointers /\ path \in {<<"expected_revenue">>, <<"close_date">>})
    \/ r.kind = "number" /\ v.type \in {"int64", "Money", "*Money", "json.Number"} /\ v.n = r.n /\ r.n \in Int
    \/ r.kind = "text" /\ v.s = r.s /\ (v.type = "string" \/ (v.type = "Currency" /\ IsCurrency(path)))
    \/ r.kind = "other" /\ v.type \in {"*Time", "bool"}
    \/ r.kind = "composite" /\ v.type \in {"list", "map"}

LEMMA AbsentStands ==
    ASSUME NEW path
    PROVE  Stands(Found(Invalid), Absent, path)
BY InvalidIs DEF Found, Stands, Absent

LEMMA LongPath ==
    ASSUME NEW path, NEW name, Len(path) # 1, Len(path) # 2
    PROVE  path # <<name>> /\ path # <<name, "amount">> /\ path # <<name, "currency">>
BY TupleLengths, Zenon

\* w is what the first name leads to, u the second and v the last.
LEMMA MoneyStands ==
    ASSUME NEW path, NEW name, name = "amount" \/ name = "expected_revenue",
           Len(path) = 1 => path = <<name>>, Len(path) = 2 => path = <<name, path[2]>>,
           NEW w, w.type = "Money" \/ w.type = "*Money", w.n \in Int,
           NEW v, Len(path) = 1 => v = w,
           Len(path) = 2 => v = fieldByExternalName(w, path[2]),
           NEW u, Len(path) # 1 /\ Len(path) # 2 => u = fieldByExternalName(w, path[2]),
           Len(path) # 1 /\ Len(path) # 2 /\ DOMAIN FieldsOf(u) = {} => v = Invalid
    PROVE  Stands(Found(v), OfMoney(path, name, w.n, w.s), path)
<1> DEFINE n == w.n
           c == w.s
<1>1. CASE Len(path) = 1
  <2>1. path = <<name>>
    BY <1>1
  <2>2. OfMoney(path, name, n, c) = Number(n)
    BY <2>1 DEF OfMoney
  <2>3. Found(v) = w
    BY <1>1 DEF Found
  <2>4. Number(n).kind = "number" /\ Number(n).n = n
    BY DEF Number
  <2> QED BY <2>2, <2>3, <2>4 DEF Stands
<1>2. CASE Len(path) = 2
  <2>1. v = fieldByExternalName(w, path[2]) /\ path = <<name, path[2]>>
    BY <1>2
  <2>2. path # <<name>>
    BY <1>2, TupleLengths
  <2>3. CASE path[2] = "amount"
    <3>1. OfMoney(path, name, n, c) = Number(n)
      BY <2>1, <2>2, <2>3 DEF OfMoney
    <3>2. v = Scalar("int64", n, "")
      BY <2>1, <2>3, MoneyParts
    <3>3. v.type = "int64" /\ v.n = n
      BY <3>2 DEF Scalar
    <3>4. Number(n).kind = "number" /\ Number(n).n = n
      BY DEF Number
    <3>5. Found(v) = v
      BY <3>3 DEF Found
    <3> QED BY <3>1, <3>3, <3>4, <3>5 DEF Stands
  <2>4. CASE path[2] = "currency"
    <3>1. path = <<name, "currency">> /\ path # <<name, "amount">>
      BY <2>1, <2>4
    <3>2. OfMoney(path, name, n, c) = Text(c)
      BY <3>1, <2>2 DEF OfMoney
    <3>3. v = Scalar("Currency", 0, c)
      BY <2>1, <2>4, MoneyParts
    <3>4. v.type = "Currency" /\ v.s = c
      BY <3>3 DEF Scalar
    <3>5. Text(c).kind = "text" /\ Text(c).s = c
      BY DEF Text
    <3>6. Found(v) = v
      BY <3>4 DEF Found
    <3>7. IsCurrency(path)
      BY <3>1 DEF IsCurrency
    <3> QED BY <3>2, <3>4, <3>5, <3>6, <3>7 DEF Stands
  <2>5. CASE path[2] # "amount" /\ path[2] # "currency"
    <3>1. path # <<name, "amount">> /\ path # <<name, "currency">>
      BY <2>1, <2>5
    <3>2. OfMoney(path, name, n, c) = Absent
      BY <2>2, <3>1 DEF OfMoney
    <3>3. v = Invalid
      BY <2>1, <2>5, MoneyParts
    <3> QED BY <3>2, <3>3, AbsentStands
  <2> QED BY <2>3, <2>4, <2>5
<1>3. CASE Len(path) # 1 /\ Len(path) # 2
  <2>1. path # <<name>> /\ path # <<name, "amount">> /\ path # <<name, "currency">>
    BY <1>3, LongPath, Zenon
  <2>2. OfMoney(path, name, n, c) = Absent
    BY <2>1 DEF OfMoney
  <2>3. u = fieldByExternalName(w, path[2])
    BY <1>3
  <2>4. u.type = "int64" \/ u.type = "Currency" \/ u.type = "invalid"
    <3>1. \/ u = Scalar("int64", w.n, "")
          \/ u = Scalar("Currency", 0, w.s)
          \/ u = Invalid
      BY <2>3, MoneyParts
    <3>2. CASE u = Invalid
      BY <3>2, InvalidIs
    <3>3. CASE u = Scalar("int64", w.n, "")
      <4>1. Scalar("int64", w.n, "").type = "int64"
        BY DEF Scalar
      <4> QED BY <3>3, <4>1, Zenon
    <3>4. CASE u = Scalar("Currency", 0, w.s)
      <4>1. Scalar("Currency", 0, w.s).type = "Currency"
        BY ScalarParts
      <4> QED BY <3>4, <4>1, Zenon
    <3> QED BY <3>1, <3>2, <3>3, <3>4
  <2>5. DOMAIN FieldsOf(u) = {}
    BY <2>4, NoWayOn
  <2>6. v = Invalid
    BY <2>5, <1>3
  <2> QED BY <2>2, <2>6, AbsentStands
<1> QED BY <1>1, <1>2, <1>3, Zenon

LEMMA OpportunityParts ==
    ASSUME NEW name
    PROVE  fieldByExternalName(Opportunity, name) =
              IF name = "amount" THEN Scalar("Money", money.amount, money.currency)
              ELSE IF name = "currency" THEN Scalar("Currency", 0, rest.currency)
              ELSE IF name = "expected_revenue"
              THEN IF rest.expected_revenue = None THEN Scalar("nil *Money", 0, "")
                   ELSE rest.expected_revenue
              ELSE IF name = "close_date"
              THEN IF rest.close_date = None THEN Scalar("nil *Time", 0, "") ELSE rest.close_date
              ELSE IF name = "custom_fields" THEN MapOf(rest.custom_fields) ELSE Invalid
<1> DEFINE a == Scalar("Money", money.amount, money.currency)
           c == Scalar("Currency", 0, rest.currency)
           e == IF rest.expected_revenue = None THEN Scalar("nil *Money", 0, "") ELSE rest.expected_revenue
           d == IF rest.close_date = None THEN Scalar("nil *Time", 0, "") ELSE rest.close_date
           m == MapOf(rest.custom_fields)
<1>1. Opportunity = [type |-> "struct",
                     fields |-> [amount |-> a, currency |-> c, expected_revenue |-> e,
                                 close_date |-> d, custom_fields |-> m]]
  BY DEF Opportunity
<1> HIDE DEF a, c, e, d, m
<1>2. PICK fields : fields = [amount |-> a, currency |-> c, expected_revenue |-> e,
                              close_date |-> d, custom_fields |-> m]
  OBVIOUS
<1>3. /\ DOMAIN fields = {"amount", "currency", "expected_revenue", "close_date", "custom_fields"}
      /\ fields["amount"] = a /\ fields["currency"] = c /\ fields["expected_revenue"] = e
      /\ fields["close_date"] = d /\ fields["custom_fields"] = m
  BY <1>2
<1>4. Opportunity = [type |-> "struct", fields |-> fields]
  BY <1>1, <1>2
<1>5. Opportunity.type = "struct" /\ Opportunity.fields = fields
  BY <1>4
<1>6. FieldsOf(Opportunity) = fields
  <2>1. Opportunity.type \in {"map", "struct"}
    BY <1>5
  <2> QED BY <2>1, <1>5 DEF FieldsOf
<1>7. fieldByExternalName(Opportunity, name) = IF name \in DOMAIN fields THEN fields[name] ELSE Invalid
  BY <1>6 DEF fieldByExternalName
<1>8. CASE name \in DOMAIN fields
  BY <1>3, <1>7, <1>8 DEF a, c, e, d, m
<1>9. CASE name \notin DOMAIN fields
  BY <1>3, <1>7, <1>9 DEF a, c, e, d, m
<1> QED BY <1>8, <1>9

\* What the walk in Go and the walk in the document are at, inside custom_fields.
Twins(g, j) ==
    \/ j.type = "nil" /\ (g.type = "nil" \/ g.type = "invalid")
    \/ g = j /\ (j \in JSONScalars \/ j.type = "list" \/ (j.type = "map" /\ IsObject(j.fields)))

LEMMA JSONScalarTypes ==
    ASSUME NEW v \in JSONScalars
    PROVE  /\ v.type = "json.Number" \/ v.type = "string" \/ v.type = "bool" \/ v.type = "nil"
           /\ v.n \in Int
BY DEF JSONScalars

LEMMA JSONTwins ==
    ASSUME NEW v \in JSONValues
    PROVE  Twins(v, v)
BY DealDeskAssumption DEF Twins

LEMMA TwinsGoOn ==
    ASSUME NEW g, NEW j, Twins(g, j), NEW name
    PROVE  Twins(fieldByExternalName(g, name), Below(j, name))
<1>0. Twins(Invalid, None)
  BY InvalidIs DEF Twins, None, Scalar
<1>1. CASE j.type = "map" /\ g = j /\ IsObject(j.fields)
  <2>1. FieldsOf(g) = j.fields
    BY <1>1 DEF FieldsOf
  <2>2. CASE name \in DOMAIN j.fields
    <3>1. fieldByExternalName(g, name) = j.fields[name] /\ Below(j, name) = j.fields[name]
      BY <1>1, <2>1, <2>2 DEF fieldByExternalName, Below
    <3>2. j.fields[name] \in JSONValues
      BY <1>1, <2>2 DEF IsObject
    <3> QED BY <3>1, <3>2, JSONTwins
  <2>3. CASE name \notin DOMAIN j.fields
    <3>1. fieldByExternalName(g, name) = Invalid /\ Below(j, name) = None
      BY <1>1, <2>1, <2>3 DEF fieldByExternalName, Below
    <3> QED BY <3>1, <1>0
  <2> QED BY <2>2, <2>3
<1>2. CASE ~ (j.type = "map" /\ g = j /\ IsObject(j.fields))
  <2>1. j.type # "map" /\ g.type # "map" /\ g.type # "struct" /\ g.type # "Money" /\ g.type # "*Money"
    BY <1>2, JSONScalarTypes DEF Twins
  <2>2. DOMAIN FieldsOf(g) = {}
    BY <2>1, NoWayOn
  <2>3. fieldByExternalName(g, name) = Invalid /\ Below(j, name) = None
    BY <2>1, <2>2 DEF fieldByExternalName, Below
  <2> QED BY <2>3, <1>0
<1> QED BY <1>1, <1>2

LEMMA TwinsStand ==
    ASSUME NEW g, NEW j, Twins(g, j), NEW path
    PROVE  Stands(Found(g), Plain(j), path)
<1>1. CASE j.type = "nil" /\ (g.type = "nil" \/ g.type = "invalid")
  <2>1. Plain(j) = Absent /\ Found(g) = Invalid
    BY <1>1 DEF Plain, Found
  <2> QED BY <2>1, AbsentStands DEF Found, Invalid, Scalar
<1>2. CASE g = j /\ j \in JSONScalars /\ j.type # "nil"
  <2>1. Found(g) = j /\ j.n \in Int /\ (j.type = "json.Number" \/ j.type = "string" \/ j.type = "bool")
    BY <1>2, JSONScalarTypes DEF Found
  <2>2. CASE j.type = "json.Number"
    <3>1. Plain(j) = Number(j.n)
      BY <2>2 DEF Plain
    <3>2. Number(j.n).kind = "number" /\ Number(j.n).n = j.n
      BY DEF Number
    <3> QED BY <2>1, <2>2, <3>1, <3>2 DEF Stands
  <2>3. CASE j.type = "string"
    <3>1. Plain(j) = Text(j.s)
      BY <2>3 DEF Plain
    <3>2. Text(j.s).kind = "text" /\ Text(j.s).s = j.s
      BY DEF Text
    <3> QED BY <2>1, <2>3, <3>1, <3>2 DEF Stands
  <2>4. CASE j.type = "bool"
    <3>1. Plain(j) = Other
      BY <2>4 DEF Plain
    <3>2. Other.kind = "other"
      BY DEF Other
    <3> QED BY <2>1, <2>4, <3>1, <3>2 DEF Stands
  <2> QED BY <2>1, <2>2, <2>3, <2>4
<1>3. CASE g = j /\ (j.type = "list" \/ j.type = "map")
  <2>1. Found(g) = j /\ Plain(j) = Composite
    BY <1>3 DEF Found, Plain
  <2>2. Composite.kind = "composite"
    BY DEF Composite
  <2> QED BY <1>3, <2>1, <2>2 DEF Stands
<1>4. CASE g = j /\ j.type = "nil"
  BY <1>1, <1>4
<1> QED BY <1>1, <1>2, <1>3, <1>4 DEF Twins

LEMMA CustomStands ==
    ASSUME NEW path \in Seq(STRING), Len(path) >= 1, path[1] = "custom_fields",
           NEW at, Walks(at, path), at[0] = Opportunity, rest \in Rest
    PROVE  Stands(Found(at[Len(path)]), Plain(Inside(path)), path)
<1>1. PICK js : /\ js[1] = MapOf(rest.custom_fields)
                /\ \A i \in 2 .. Len(path) : js[i] = Below(js[i - 1], path[i])
                /\ Inside(path) = js[Len(path)]
  BY InsideWalks
<1> DEFINE Apart == {i \in Nat : i \in 1 .. Len(path) /\ ~ Twins(at[i], js[i])}
<1>2. Apart = {}
  <2>1. SUFFICES ASSUME Apart # {} PROVE FALSE
    OBVIOUS
  <2>2. PICK n \in Apart : \A m \in Apart : n <= m
    BY <2>1, LeastNat
  <2>3. n \in 1 .. Len(path) /\ ~ Twins(at[n], js[n]) /\ Len(path) \in Nat
    BY <2>2
  <2>4. at[n] = fieldByExternalName(at[n - 1], path[n])
    BY <2>3 DEF Walks
  <2>5. CASE n = 1
    <3>1. at[n] = fieldByExternalName(Opportunity, "custom_fields")
      BY <2>4, <2>5
    <3>2. at[n] = MapOf(rest.custom_fields)
      BY <3>1, OpportunityParts
    <3> DEFINE m == MapOf(rest.custom_fields)
    <3>3. m.type = "map" /\ m.fields = rest.custom_fields
      BY DEF MapOf
    <3>4. IsObject(rest.custom_fields)
      BY DealDeskAssumption
    <3>5. Twins(m, m)
      BY <3>3, <3>4 DEF Twins
    <3> QED BY <3>2, <3>5, <2>3, <2>5, <1>1
  <2>6. CASE n # 1
    <3>1. n \in 2 .. Len(path) /\ n - 1 \in 1 .. Len(path) /\ n - 1 \in Nat /\ n \in Nat /\ ~ (n <= n - 1)
      BY <2>3, <2>6
    <3>2. n - 1 \notin Apart
      <4>1. n - 1 \in Apart => n <= n - 1
        BY <2>2
      <4> HIDE DEF Apart
      <4> QED BY <4>1, <3>1
    <3>3. Twins(at[n - 1], js[n - 1])
      BY <3>1, <3>2
    <3>4. js[n] = Below(js[n - 1], path[n])
      BY <3>1, <1>1
    <3> QED BY <3>3, <3>4, <2>3, <2>4, TwinsGoOn
  <2> QED BY <2>5, <2>6
<1>3. Len(path) \in Nat /\ Len(path) \in 1 .. Len(path)
  OBVIOUS
<1>4. Twins(at[Len(path)], Inside(path))
  BY <1>1, <1>2, <1>3
<1> QED BY <1>4, TwinsStand

\* What getFieldValue finds in the decoded opportunity stands for what the
\* document says at the path.
LEMMA FieldStands ==
    ASSUME DeskInv, NEW path \in Seq(STRING), path # << >>
    PROVE  Stands(getFieldValue(Opportunity, path), Reads(path), path)
<1>1. PICK at : /\ at[0] = Opportunity
                /\ \A i \in 1 .. Len(path) : at[i] = fieldByExternalName(at[i - 1], path[i])
                /\ Along(Opportunity, path) = at[Len(path)]
  BY AlongWalks
<1>2. Walks(at, path)
  BY <1>1 DEF Walks
<1> DEFINE v == at[Len(path)]
           w == at[1]
           u == at[2]
<1>3. getFieldValue(Opportunity, path) = Found(v)
  BY <1>1 DEF getFieldValue, Found
<1>4. /\ Len(path) \in Nat /\ Len(path) >= 1
      /\ Len(path) # 1 => 1 \in 0 .. Len(path) - 1 /\ 2 \in 1 .. Len(path)
      /\ Len(path) # 1 /\ Len(path) # 2 => 2 \in 0 .. Len(path) - 1
  <2>1. PICK n \in Nat : n = Len(path)
    OBVIOUS
  <2>2. n # 0
    BY <2>1
  <2>3. n >= 1 /\ (n # 1 => 1 \in 0 .. n - 1 /\ 2 \in 1 .. n) /\ (n # 1 /\ n # 2 => 2 \in 0 .. n - 1)
    BY <2>2
  <2> QED BY <2>1, <2>3, Zenon
<1>5. w = fieldByExternalName(Opportunity, path[1])
  BY <1>1, <1>4
<1>6. Len(path) = 1 => v = w /\ path = <<path[1]>>
  BY OneName
<1>7. Len(path) = 2 => v = fieldByExternalName(w, path[2]) /\ path = <<path[1], path[2]>>
  BY <1>1, TwoNames
<1>8. Len(path) # 1 /\ Len(path) # 2 =>
        u = fieldByExternalName(w, path[2]) /\ (DOMAIN FieldsOf(u) = {} => v = Invalid)
  <2>1. ASSUME Len(path) # 1 /\ Len(path) # 2
        PROVE  u = fieldByExternalName(w, path[2]) /\ 2 \in 0 .. Len(path) - 1
    <3>1. at[2] = fieldByExternalName(at[2 - 1], path[2])
      BY <2>1, <1>1, <1>4, Zenon
    <3> QED BY <2>1, <1>4, <3>1
  <2>2. 2 \in 0 .. Len(path) - 1 /\ DOMAIN FieldsOf(u) = {} => v = Invalid
    BY <1>2, DeadEnd
  <2> QED BY <2>1, <2>2
<1>9. Len(path) # 1 /\ DOMAIN FieldsOf(w) = {} => v = Invalid
  <2>1. Len(path) # 1 => 1 \in 0 .. Len(path) - 1
    BY <1>4, Zenon
  <2>2. 1 \in 0 .. Len(path) - 1 /\ DOMAIN FieldsOf(w) = {} => v = Invalid
    BY <1>2, DeadEnd
  <2> QED BY <2>1, <2>2
<1>10. path[1] = "custom_fields" => Stands(Found(v), Plain(Inside(path)), path)
  BY <1>1, <1>2, <1>4, CustomStands DEF DeskInv
<1> HIDE DEF v, w, u
<1>11. Stands(Found(v), Reads(path), path)
  <2>1. CASE path[1] = "amount"
    <3>1. Reads(path) = OfMoney(path, "amount", money.amount, money.currency)
      BY <2>1 DEF Reads
    <3>2. w = Scalar("Money", money.amount, money.currency)
      BY <1>5, <2>1, OpportunityParts
    <3>3. w.type = "Money" /\ w.n = money.amount /\ w.s = money.currency
      BY <3>2 DEF Scalar
    <3>4. w.n \in Int
      BY <3>3, Widths DEF DeskInv
    <3>5. (Len(path) = 1 => path = <<"amount">>) /\ (Len(path) = 2 => path = <<"amount", path[2]>>)
      BY <1>6, <1>7, <2>1, Zenon
    <3>6. Stands(Found(v), OfMoney(path, "amount", w.n, w.s), path)
      BY <1>6, <1>7, <1>8, <3>3, <3>4, <3>5, MoneyStands
    <3> QED BY <3>1, <3>3, <3>6
  <2>2. CASE path[1] = "currency"
    <3>1. w = Scalar("Currency", 0, rest.currency)
      BY <1>5, <2>2, OpportunityParts
    <3>2. w.type = "Currency" /\ w.s = rest.currency
      BY <3>1 DEF Scalar
    <3>3. CASE Len(path) = 1
      <4>1. Reads(path) = Text(rest.currency)
        BY <2>2, <3>3 DEF Reads
      <4>2. Text(rest.currency).kind = "text" /\ Text(rest.currency).s = rest.currency
        BY DEF Text
      <4>3. Found(v) = w
        BY <1>6, <3>2, <3>3 DEF Found
      <4>4. IsCurrency(path)
        BY <1>6, <2>2, <3>3 DEF IsCurrency
      <4> QED BY <3>2, <4>1, <4>2, <4>3, <4>4 DEF Stands
    <3>4. CASE Len(path) # 1
      <4>1. Reads(path) = Absent
        BY <2>2, <3>4 DEF Reads
      <4>2. v = Invalid
        BY <1>9, <3>2, <3>4, NoWayOn
      <4> QED BY <4>1, <4>2, AbsentStands
    <3> QED BY <3>3, <3>4
  <2>3. CASE path[1] = "expected_revenue" /\ rest.expected_revenue = None
    <3>1. Reads(path) = Absent
      BY <2>3 DEF Reads
    <3>2. w = Scalar("nil *Money", 0, "")
      BY <1>5, <2>3, OpportunityParts
    <3>3. w.type = "nil *Money"
      BY <3>2 DEF Scalar
    <3>4. CASE Len(path) = 1
      <4>1. Found(v) = w
        BY <1>6, <3>3, <3>4 DEF Found
      <4>2. path \in {<<"expected_revenue">>, <<"close_date">>}
        BY <1>6, <2>3, <3>4
      <4>3. Absent.kind = "absent"
        BY DEF Absent
      <4> QED BY <3>1, <3>3, <4>1, <4>2, <4>3 DEF Stands, NilPointers
    <3>5. CASE Len(path) # 1
      <4>1. v = Invalid
        BY <1>9, <3>3, <3>5, NoWayOn
      <4> QED BY <3>1, <4>1, AbsentStands
    <3> QED BY <3>4, <3>5
  <2>4. CASE path[1] = "expected_revenue" /\ rest.expected_revenue # None
    <3> DEFINE er == rest.expected_revenue
    <3>1. Reads(path) = OfMoney(path, "expected_revenue", er.n, er.s)
      BY <2>4 DEF Reads
    <3>2. w = er
      BY <1>5, <2>4, OpportunityParts
    <3>3. er \in [type : {"*Money"}, n : Int64, s : STRING]
      BY <2>4, DealDeskAssumption DEF DeskInv
    <3>4. w.type = "*Money" /\ w.n \in Int
      BY <3>2, <3>3, Widths
    <3>5. (Len(path) = 1 => path = <<"expected_revenue">>) /\ (Len(path) = 2 => path = <<"expected_revenue", path[2]>>)
      BY <1>6, <1>7, <2>4, Zenon
    <3>6. Stands(Found(v), OfMoney(path, "expected_revenue", w.n, w.s), path)
      BY <1>6, <1>7, <1>8, <3>4, <3>5, MoneyStands
    <3> QED BY <3>1, <3>2, <3>6
  <2>5. CASE path[1] = "close_date"
    <3>1. Absent.kind = "absent" /\ Other.kind = "other"
      BY DEF Absent, Other
    <3>2. CASE rest.close_date = None
      <4>1. Reads(path) = Absent
        BY <2>5, <3>2 DEF Reads
      <4>2. w = Scalar("nil *Time", 0, "")
        BY <1>5, <2>5, <3>2, OpportunityParts
      <4>3. w.type = "nil *Time"
        BY <4>2 DEF Scalar
      <4>4. CASE Len(path) = 1
        <5>1. Found(v) = w
          BY <1>6, <4>3, <4>4 DEF Found
        <5>2. path \in {<<"expected_revenue">>, <<"close_date">>}
          BY <1>6, <2>5, <4>4
        <5> QED BY <3>1, <4>1, <4>3, <5>1, <5>2 DEF Stands, NilPointers
      <4>5. CASE Len(path) # 1
        <5>1. v = Invalid
          BY <1>9, <4>3, <4>5, NoWayOn
        <5> QED BY <4>1, <5>1, AbsentStands
      <4> QED BY <4>4, <4>5
    <3>3. CASE rest.close_date # None
      <4>1. w = rest.close_date
        BY <1>5, <2>5, <3>3, OpportunityParts
      <4>2. w.type = "*Time"
        BY <3>3, <4>1, DealDeskAssumption DEF DeskInv
      <4>3. CASE Len(path) = 1
        <5>1. Reads(path) = Other
          BY <2>5, <3>3, <4>3 DEF Reads
        <5>2. Found(v) = w
          BY <1>6, <4>2, <4>3 DEF Found
        <5> QED BY <3>1, <4>2, <5>1, <5>2 DEF Stands
      <4>4. CASE Len(path) # 1
        <5>1. Reads(path) = Absent
          BY <2>5, <4>4 DEF Reads
        <5>2. v = Invalid
          BY <1>9, <4>2, <4>4, NoWayOn
        <5> QED BY <5>1, <5>2, AbsentStands
      <4> QED BY <4>3, <4>4
    <3> QED BY <3>2, <3>3
  <2>6. CASE path[1] = "custom_fields"
    <3>1. Reads(path) = Plain(Inside(path))
      BY <2>6 DEF Reads
    <3> QED BY <1>10, <2>6, <3>1
  <2>7. CASE path[1] # "amount" /\ path[1] # "currency" /\ path[1] # "expected_revenue"
               /\ path[1] # "close_date" /\ path[1] # "custom_fields"
    <3>1. Reads(path) = Absent
      BY <2>7 DEF Reads
    <3>2. w = Invalid
      BY <1>5, <2>7, OpportunityParts
    <3>3. v = Invalid
      <4>1. DOMAIN FieldsOf(w) = {}
        BY <3>2, InvalidIs, NoWayOn
      <4> QED BY <1>6, <1>9, <3>2, <4>1
    <3> QED BY <3>1, <3>3, AbsentStands
  <2> QED BY <2>1, <2>2, <2>3, <2>4, <2>5, <2>6, <2>7
<1> QED BY <1>3, <1>11

-----------------------------------------------------------------------------
(* Comparing a value of the snapshot with a value of a rule.               *)

LEMMA IsNumber ==
    ASSUME NEW v, v.type = "int64" \/ v.type = "Money" \/ v.type = "*Money"
                  \/ v.type = "json.Number" \/ v.type = "float64"
    PROVE  toFloat64(v) = {Float(v.n)}
BY DEF toFloat64

LEMMA IsNoNumber ==
    ASSUME NEW v, v.type # "int", v.type # "int64", v.type # "float64", v.type # "json.Number",
           v.type # "Money", v.type # "*Money"
    PROVE  toFloat64(v) = {}
BY DEF toFloat64

LEMMA TextOf ==
    ASSUME NEW v
    PROVE  /\ v.type = "string" \/ v.type = "Currency" \/ v.type = "json.Number"
              => toString(v) = {<<v.s>>}
           /\ v.type = "Money" \/ v.type = "*Money" => toString(v) = {<<v.s, v.n>>}
           /\ v.type = "*Time" => toString(v) = {<<v.s, "time">>}
           /\ v.type = "bool" \/ v.type = "nil" \/ v.type = "list" \/ v.type = "map"
              \/ v.type = "float64" \/ v.type = "int64" => toString(v) = {}
BY DEF toString

LEMMA TuplesDiffer ==
    ASSUME NEW a, NEW b, NEW c
    PROVE  {<<a>>} # {<<b, c>>}
<1>1. Len(<<a>>) = 1
  BY TupleLengths
<1>2. Len(<<b, c>>) = 2
  BY TupleLengths
<1>3. 1 # 2
  OBVIOUS
<1> QED BY <1>1, <1>2, <1>3, Zenon

\* A scalar of a rule as a store hands it out: a number is the same float64 over
\* both, whatever else is what it was.
LEMMA NumberRead ==
    ASSUME NEW w \in JSONScalars, w.type = "json.Number", NEW store
    PROVE  /\ toFloat64(ScalarAsRead(w, store)) = {Float(w.n)}
           /\ \/ ScalarAsRead(w, store).type = "json.Number" /\ ScalarAsRead(w, store).s = w.s
              \/ ScalarAsRead(w, store).type = "float64"
<1> DEFINE x == ScalarAsRead(w, store)
<1>1. CASE store = "postgres"
  <2>1. x = Scalar("float64", Float(w.n), "")
    BY <1>1 DEF ScalarAsRead
  <2> HIDE DEF x
  <2>2. x.type = "float64" /\ x.n = Float(w.n)
    BY <2>1 DEF Scalar
  <2>3. Float(Float(w.n)) = Float(w.n)
    BY JSONScalarTypes, FloatKeepsOrder
  <2>4. toFloat64(x) = {Float(w.n)}
    BY <2>2, <2>3, IsNumber
  <2> QED BY <2>2, <2>4 DEF x
<1>2. CASE store # "postgres"
  <2>1. x = w
    BY <1>2 DEF ScalarAsRead
  <2> HIDE DEF x
  <2>2. toFloat64(x) = {Float(w.n)} /\ x.type = "json.Number" /\ x.s = w.s
    BY <2>1, IsNumber
  <2> QED BY <2>2 DEF x
<1> QED BY <1>1, <1>2

LEMMA OtherRead ==
    ASSUME NEW w, w.type # "json.Number", NEW store
    PROVE  ScalarAsRead(w, store) = w
BY DEF ScalarAsRead

\* Others are equal if they are the same value or have the same text.
LEMMA EqualOthers ==
    ASSUME NEW v, NEW x, toFloat64(v) = {} \/ toFloat64(x) = {},
           v.type # "nil *Money", v.type # "nil *Time"
    PROVE  valuesEqual(v, x) = Verdict(v = x \/ (toString(v) # {} /\ toString(v) = toString(x)))
BY DEF valuesEqual, Verdict, NilPointers

LEMMA EqualNil ==
    ASSUME NEW v, NEW x, v # x, v.type = "nil *Money" \/ v.type = "nil *Time"
    PROVE  valuesEqual(v, x) = "panic"
<1>1. toFloat64(v) = {}
  BY IsNoNumber
<1> QED BY <1>1 DEF valuesEqual, NilPointers

LEMMA OneTuple ==
    ASSUME NEW a, NEW b
    PROVE  {<<a>>} = {<<b>>} <=> a = b
<1>1. {<<a>>} = {<<b>>} => <<a>> = <<b>>
  OBVIOUS
<1>2. <<a>> = <<b>> => a = b
  OBVIOUS
<1> QED BY <1>1, <1>2

\* Two numbers are equal as float64s, the same Go value or not.
Counts(v, a) == toFloat64(v) = {a}

LEMMA EqualCounts ==
    ASSUME NEW v, NEW x, NEW a, NEW b, Counts(v, a), Counts(x, b)
    PROVE  valuesEqual(v, x) = Verdict(a = b)
<1>1. toFloat64(v) = {a} /\ toFloat64(x) = {b}
  BY DEF Counts
<1>2. CASE v = x
  <2>1. a = b
    BY <1>1, <1>2
  <2> QED BY <1>2, <2>1 DEF valuesEqual, Verdict
<1>3. CASE v # x
  <2>1. toFloat64(v) # {} /\ toFloat64(x) # {} /\ (toFloat64(v) = toFloat64(x) <=> a = b)
    BY <1>1
  <2> QED BY <1>3, <2>1 DEF valuesEqual, Verdict
<1> QED BY <1>2, <1>3

LEMMA PlainScalar ==
    ASSUME NEW w \in JSONScalars
    PROVE  \/ w.type = "json.Number" /\ Plain(w) = Number(w.n) /\ Plain(w).kind = "number" /\ Plain(w).n = w.n
           \/ w.type = "string" /\ Plain(w) = Text(w.s) /\ Plain(w).kind = "text" /\ Plain(w).s = w.s
           \/ w.type = "bool" /\ Plain(w).kind = "other"
           \/ w.type = "nil" /\ Plain(w).kind = "absent"
<1>1. w.type = "json.Number" \/ w.type = "string" \/ w.type = "bool" \/ w.type = "nil"
  BY JSONScalarTypes
<1>2. CASE w.type = "json.Number"
  BY <1>2 DEF Plain, Number
<1>3. CASE w.type = "string"
  BY <1>3 DEF Plain, Text
<1>4. CASE w.type = "bool"
  BY <1>4 DEF Plain, Other
<1>5. CASE w.type = "nil"
  BY <1>5 DEF Plain, Absent
<1> QED BY <1>1, <1>2, <1>3, <1>4, <1>5

\* What Stands says of a value, by the kind that it stands for.
LEMMA NumberStands ==
    ASSUME NEW v, NEW r, NEW path, Stands(v, r, path), r.kind = "number"
    PROVE  /\ v.type = "int64" \/ v.type = "Money" \/ v.type = "*Money" \/ v.type = "json.Number"
           /\ v.n = r.n /\ r.n \in Int /\ toFloat64(v) = {Float(r.n)}
<1>1. /\ v.type = "int64" \/ v.type = "Money" \/ v.type = "*Money" \/ v.type = "json.Number"
      /\ v.n = r.n /\ r.n \in Int
  BY DEF Stands
<1> QED BY <1>1, IsNumber

LEMMA TextStands ==
    ASSUME NEW v, NEW r, NEW path, Stands(v, r, path), r.kind = "text"
    PROVE  /\ v.type = "string" \/ (v.type = "Currency" /\ IsCurrency(path))
           /\ v.s = r.s /\ toFloat64(v) = {} /\ toString(v) = {<<r.s>>}
<1>1. v.s = r.s /\ (v.type = "string" \/ (v.type = "Currency" /\ IsCurrency(path)))
  BY DEF Stands
<1>2. toFloat64(v) = {}
  BY <1>1, IsNoNumber
<1> QED BY <1>1, <1>2, TextOf

LEMMA OthersStand ==
    ASSUME NEW v, NEW r, NEW path, Stands(v, r, path), r.kind = "other" \/ r.kind = "composite"
    PROVE  /\ \/ r.kind = "other" /\ (v.type = "*Time" \/ v.type = "bool")
              \/ r.kind = "composite" /\ (v.type = "list" \/ v.type = "map")
           /\ toFloat64(v) = {} /\ (toString(v) = {} \/ toString(v) = {<<v.s, "time">>})
<1>1. \/ r.kind = "other" /\ (v.type = "*Time" \/ v.type = "bool")
      \/ r.kind = "composite" /\ (v.type = "list" \/ v.type = "map")
  BY DEF Stands
<1>2. toFloat64(v) = {}
  BY <1>1, IsNoNumber
<1>3. toString(v) = {} \/ toString(v) = {<<v.s, "time">>}
  BY <1>1, TextOf
<1> QED BY <1>1, <1>2, <1>3

LEMMA KindsStand ==
    ASSUME NEW v, NEW r, NEW path, Stands(v, r, path)
    PROVE  \/ r.kind = "absent" /\ (v = Invalid \/ v.type = "nil *Money" \/ v.type = "nil *Time")
           \/ r.kind = "number" \/ r.kind = "text" \/ r.kind = "other" \/ r.kind = "composite"
BY DEF Stands, NilPointers

LEMMA YesOrNo ==
    ASSUME NEW b
    PROVE  /\ Verdict(b) = "yes" \/ Verdict(b) = "no"
           /\ Verdict(b) # "panic"
           /\ Verdict(b) = "yes" <=> b
BY DEF Verdict

LEMMA EqualOrNot ==
    ASSUME NEW v, NEW r, NEW path, Stands(v, r, path), r.kind # "absent", NEW x
    PROVE  valuesEqual(v, x) = "yes" \/ valuesEqual(v, x) = "no"
<1>1. v.type # "nil *Money" /\ v.type # "nil *Time"
  BY DEF Stands
<1> QED BY <1>1 DEF valuesEqual, Verdict, NilPointers

\* A comparison with a scalar of a rule comes out the same over both stores,
\* unless it sets a text against a number.
LEMMA EqualAlike ==
    ASSUME NEW v, NEW r, NEW path, Stands(v, r, path), v # Invalid,
           NEW w \in JSONScalars, r.kind # "text" \/ w.type # "json.Number"
    PROVE  valuesEqual(v, ScalarAsRead(w, "memory")) = valuesEqual(v, ScalarAsRead(w, "postgres"))
<1> DEFINE m == ScalarAsRead(w, "memory")
           p == ScalarAsRead(w, "postgres")
<1>1. CASE w.type # "json.Number"
  BY <1>1, OtherRead
<1>2. CASE w.type = "json.Number"
  <2>1. /\ toFloat64(m) = {Float(w.n)} /\ toFloat64(p) = {Float(w.n)}
        /\ m.type = "json.Number" \/ m.type = "float64"
        /\ p.type = "json.Number" \/ p.type = "float64"
    BY <1>2, NumberRead
  <2>2. /\ toString(m) = {} \/ toString(m) = {<<m.s>>}
        /\ toString(p) = {} \/ toString(p) = {<<p.s>>}
    BY <2>1, TextOf
  <2> HIDE DEF m, p
  <2>3. CASE r.kind = "number"
    <3>1. toFloat64(v) = {Float(r.n)}
      BY <2>3, NumberStands
    <3> DEFINE a == Float(r.n)
               b == Float(w.n)
    <3>5. Counts(v, a) /\ Counts(m, b) /\ Counts(p, b)
      BY <2>1, <3>1 DEF Counts
    <3> HIDE DEF a, b
    <3>2. valuesEqual(v, m) = Verdict(a = b)
      BY <3>5, EqualCounts
    <3>3. valuesEqual(v, p) = Verdict(a = b)
      BY <3>5, EqualCounts
    <3>4. valuesEqual(v, m) = valuesEqual(v, p)
      BY <3>2, <3>3
    <3> QED BY <3>4 DEF m, p
  <2>4. CASE r.kind = "other" \/ r.kind = "composite"
    <3>1. /\ v.type = "*Time" \/ v.type = "bool" \/ v.type = "list" \/ v.type = "map"
          /\ toFloat64(v) = {} /\ (toString(v) = {} \/ toString(v) = {<<v.s, "time">>})
      BY <2>4, OthersStand
    <3>2. v # m /\ v # p
      BY <2>1, <3>1
    <3>3. toString(v) # {} => toString(v) # toString(m) /\ toString(v) # toString(p)
      BY <2>2, <3>1, TuplesDiffer, Zenon
    <3>4. valuesEqual(v, m) = Verdict(v = m \/ (toString(v) # {} /\ toString(v) = toString(m)))
      BY <3>1, EqualOthers
    <3>5. valuesEqual(v, p) = Verdict(v = p \/ (toString(v) # {} /\ toString(v) = toString(p)))
      BY <3>1, EqualOthers
    <3> QED BY <3>2, <3>3, <3>4, <3>5 DEF m, p, Verdict
  <2>5. CASE r.kind = "absent"
    <3>1. v.type = "nil *Money" \/ v.type = "nil *Time"
      BY <2>5, KindsStand
    <3>2. v # m /\ v # p
      BY <2>1, <3>1
    <3> QED BY <3>1, <3>2, EqualNil DEF m, p
  <2> QED BY <1>2, <2>3, <2>4, <2>5, KindsStand
<1> QED BY <1>1, <1>2

\* A number is equal to a number, and a text to a text, as the document says.
LEMMA EqualPlainly ==
    ASSUME NEW v, NEW r, NEW path, Stands(v, r, path), NEW w \in JSONScalars, NEW store,
           \/ r = Number(r.n) /\ r.n \in -Mantissa .. Mantissa
                /\ w.type = "json.Number" /\ w.n \in -Mantissa .. Mantissa
           \/ r = Text(r.s) /\ w.type = "string"
    PROVE  valuesEqual(v, ScalarAsRead(w, store)) = "yes" <=> r = Plain(w)
<1> DEFINE x == ScalarAsRead(w, store)
<1>1. CASE r = Number(r.n) /\ r.n \in -Mantissa .. Mantissa
             /\ w.type = "json.Number" /\ w.n \in -Mantissa .. Mantissa
  <2>1. r.kind = "number"
    BY <1>1 DEF Number
  <2>2. toFloat64(v) = {r.n} /\ toFloat64(x) = {w.n}
    BY <1>1, <2>1, NumberStands, NumberRead, FloatKeepsOrder
  <2> HIDE DEF x
  <2>3. Counts(v, r.n) /\ Counts(x, w.n)
    BY <2>2 DEF Counts
  <2>7. valuesEqual(v, x) = Verdict(r.n = w.n)
    BY <2>3, EqualCounts, Zenon
  <2>4. Plain(w) = Number(w.n)
    BY <1>1 DEF Plain
  <2>5. r = Number(w.n) <=> r.n = w.n
    BY <1>1 DEF Number
  <2>6. valuesEqual(v, x) = "yes" <=> r = Plain(w)
    BY <2>7, <2>4, <2>5, YesOrNo
  <2> QED BY <2>6 DEF x
<1>2. CASE r = Text(r.s) /\ w.type = "string"
  <2>1. r.kind = "text"
    BY <1>2 DEF Text
  <2>2. x = w
    BY <1>2, OtherRead
  <2> HIDE DEF x
  <2>3. toFloat64(v) = {} /\ toString(v) = {<<r.s>>} /\ v.s = r.s
        /\ (v.type = "string" \/ v.type = "Currency")
    BY <2>1, TextStands
  <2>4. toString(w) = {<<w.s>>}
    BY <1>2, TextOf
  <2>5. valuesEqual(v, w) = Verdict(v = w \/ (toString(v) # {} /\ toString(v) = toString(w)))
    BY <2>3, EqualOthers
  <2>6. v = w \/ (toString(v) # {} /\ toString(v) = toString(w)) <=> r.s = w.s
    <3>1. v = w => r.s = w.s
      BY <2>3
    <3>2. toString(v) # {}
      BY <2>3
    <3>3. {<<r.s>>} = {<<w.s>>} <=> r.s = w.s
      BY OneTuple
    <3> QED BY <2>3, <2>4, <3>1, <3>2, <3>3, Zenon
  <2>7. Plain(w) = Text(w.s)
    BY <1>2 DEF Plain
  <2>8. r = Text(w.s) <=> r.s = w.s
    BY <1>2 DEF Text
  <2>9. valuesEqual(v, w) = "yes" <=> r = Plain(w)
    BY <2>5, <2>6, <2>7, <2>8, YesOrNo
  <2> QED BY <2>2, <2>9 DEF x
<1> QED BY <1>1, <1>2

-----------------------------------------------------------------------------
(* One condition, asked over one store.                                    *)

ValueOf(c)        == getFieldValue(Opportunity, c.field)
Against(c, store) == AsRead(c.value, store)
Answers(c, store) == evaluateCondition(ConditionAsRead(c, store), Opportunity)

LEMMA ConditionParts ==
    ASSUME NEW c \in Conditions
    PROVE  /\ c.field \in Seq(STRING) /\ c.field # <<>>
           /\ \/ c.value \in JSONScalars
              \/ c.value.type = "list" /\ c.value.items \in Seq(JSONScalars)
BY DEF Conditions

LEMMA ConditionReads ==
    ASSUME NEW c \in Conditions, NEW store
    PROVE  /\ ConditionAsRead(c, store).field = c.field
           /\ ConditionAsRead(c, store).operator = c.operator
           /\ ConditionAsRead(c, store).value = Against(c, store)
BY DEF Conditions, ConditionAsRead, Against

LEMMA Outcomes ==
    ASSUME NEW c \in Conditions, NEW store
    PROVE  /\ ValueOf(c) = Invalid => Answers(c, store) = "no"
           /\ ValueOf(c) # Invalid =>
                /\ c.operator = "eq" =>
                      Answers(c, store) = valuesEqual(ValueOf(c), Against(c, store))
                /\ c.operator = "neq" =>
                      /\ valuesEqual(ValueOf(c), Against(c, store)) = "yes" => Answers(c, store) = "no"
                      /\ valuesEqual(ValueOf(c), Against(c, store)) = "no"  => Answers(c, store) = "yes"
                      /\ valuesEqual(ValueOf(c), Against(c, store)) # "yes"
                           /\ valuesEqual(ValueOf(c), Against(c, store)) # "no"
                            => Answers(c, store) = "panic"
                /\ c.operator = "gt" \/ c.operator = "gte" \/ c.operator = "lt" \/ c.operator = "lte" =>
                      Answers(c, store) = compareNumbers(ValueOf(c), Against(c, store), c.operator)
                /\ c.operator = "contains" =>
                      Answers(c, store) = contains(ValueOf(c), Against(c, store))
                /\ c.operator = "in" =>
                      Answers(c, store) = inList(ValueOf(c), Against(c, store))
                /\ c.operator \notin {"eq", "neq", "gt", "gte", "lt", "lte", "contains", "in"} =>
                      Answers(c, store) = "no"
<1> DEFINE d == ConditionAsRead(c, store)
<1>1. d.field = c.field /\ d.operator = c.operator /\ d.value = Against(c, store)
  BY ConditionReads
<1>2. ValueOf(c) = getFieldValue(Opportunity, d.field)
  BY <1>1 DEF ValueOf
<1>3. Answers(c, store) = evaluateCondition(d, Opportunity)
  BY DEF Answers
<1> HIDE DEF d
<1> QED BY <1>1, <1>2, <1>3 DEF evaluateCondition

LEMMA ScalarRead ==
    ASSUME NEW w \in JSONScalars, NEW store
    PROVE  AsRead(w, store) = ScalarAsRead(w, store)
BY JSONScalarTypes DEF AsRead

LEMMA ListRead ==
    ASSUME NEW w, w.type = "list", NEW store
    PROVE  /\ AsRead(w, store).type = "list"
           /\ AsRead(w, store).items = [i \in DOMAIN w.items |-> ScalarAsRead(w.items[i], store)]
BY DEF AsRead, ListOf

LEMMA ListHasNo ==
    ASSUME NEW x, x.type = "list"
    PROVE  toFloat64(x) = {} /\ toString(x) = {}
BY IsNoNumber, TextOf

\* A list of no numbers is the same over both stores.
LEMMA SameList ==
    ASSUME NEW w, w.type = "list",
           \A i \in DOMAIN w.items : w.items[i].type # "json.Number"
    PROVE  AsRead(w, "memory") = AsRead(w, "postgres")
<1>1. \A i \in DOMAIN w.items : ScalarAsRead(w.items[i], "memory") = ScalarAsRead(w.items[i], "postgres")
  BY OtherRead
<1>2. [i \in DOMAIN w.items |-> ScalarAsRead(w.items[i], "memory")]
        = [i \in DOMAIN w.items |-> ScalarAsRead(w.items[i], "postgres")]
  BY <1>1
<1> QED BY <1>2 DEF AsRead

\* As a number, a rule's value is the same over both.
LEMMA FloatsAlike ==
    ASSUME NEW c \in Conditions
    PROVE  toFloat64(Against(c, "memory")) = toFloat64(Against(c, "postgres"))
<1>1. CASE c.value \in JSONScalars /\ c.value.type = "json.Number"
  BY <1>1, ScalarRead, NumberRead DEF Against
<1>2. CASE c.value \in JSONScalars /\ c.value.type # "json.Number"
  BY <1>2, ScalarRead, OtherRead DEF Against
<1>3. CASE c.value.type = "list"
  BY <1>3, ListRead, ListHasNo DEF Against
<1> QED BY <1>1, <1>2, <1>3, ConditionParts

\* A value set against a list.
LEMMA EqualList ==
    ASSUME NEW v, NEW x, x.type = "list"
    PROVE  /\ v.type = "nil *Money" \/ v.type = "nil *Time" => valuesEqual(v, x) = "panic"
           /\ v.type # "nil *Money" /\ v.type # "nil *Time" /\ v # x => valuesEqual(v, x) = "no"
<1>1. toFloat64(x) = {} /\ toString(x) = {}
  BY ListHasNo
<1>2. CASE v.type = "nil *Money" \/ v.type = "nil *Time"
  <2>1. v # x
    BY <1>2
  <2> QED BY <1>2, <2>1, EqualNil
<1>3. CASE v.type # "nil *Money" /\ v.type # "nil *Time"
  <2>1. valuesEqual(v, x) = Verdict(v = x \/ (toString(v) # {} /\ toString(v) = toString(x)))
    BY <1>1, <1>3, EqualOthers
  <2>2. v # x => ~(v = x \/ (toString(v) # {} /\ toString(v) = toString(x)))
    BY <1>1
  <2> QED BY <1>3, <2>1, <2>2 DEF Verdict
<1> QED BY <1>2, <1>3

LEMMA ConditionStands ==
    ASSUME DeskInv, NEW c \in Conditions
    PROVE  Stands(ValueOf(c), Reads(c.field), c.field)
BY ConditionParts, FieldStands DEF ValueOf

\* The types that a rule's value has over a store.
LEMMA ScalarTypes ==
    ASSUME NEW w \in JSONScalars, NEW store
    PROVE  LET x == ScalarAsRead(w, store) IN
           \/ x.type = "json.Number" \/ x.type = "float64" \/ x.type = "string"
           \/ x.type = "bool" \/ x.type = "nil"
<1>1. CASE w.type = "json.Number"
  BY <1>1, NumberRead
<1>2. CASE w.type # "json.Number"
  BY <1>2, OtherRead, JSONScalarTypes
<1> QED BY <1>1, <1>2

LEMMA AgainstTypes ==
    ASSUME NEW c \in Conditions, NEW store
    PROVE  LET x == Against(c, store) IN
           \/ x.type = "json.Number" \/ x.type = "float64" \/ x.type = "string"
           \/ x.type = "bool" \/ x.type = "nil"
           \/ x.type = "list" /\ c.value.type = "list"
<1>1. CASE c.value \in JSONScalars
  <2>1. Against(c, store) = ScalarAsRead(c.value, store)
    BY <1>1, ScalarRead DEF Against
  <2> QED BY <1>1, <2>1, ScalarTypes
<1>2. CASE c.value.type = "list"
  BY <1>2, ListRead DEF Against
<1> QED BY <1>1, <1>2, ConditionParts

LEMMA AgainstItems ==
    ASSUME NEW c \in Conditions, NEW store, c.value.type = "list"
    PROVE  /\ Against(c, store).type = "list"
           /\ c.value.items \in Seq(JSONScalars)
           /\ DOMAIN Against(c, store).items = DOMAIN c.value.items
           /\ DOMAIN c.value.items \subseteq Nat
           /\ \A i \in DOMAIN c.value.items :
                 /\ c.value.items[i] \in JSONScalars
                 /\ Against(c, store).items[i] = ScalarAsRead(c.value.items[i], store)
<1>1. c.value.items \in Seq(JSONScalars)
  BY ConditionParts, JSONScalarTypes
<1>2. /\ Against(c, store).type = "list"
      /\ Against(c, store).items = [i \in DOMAIN c.value.items |-> ScalarAsRead(c.value.items[i], store)]
  BY ListRead DEF Against
<1> QED BY <1>1, <1>2

LEMMA SettledBy ==
    ASSUME NEW v, NEW list, list.type = "list", DOMAIN list.items \subseteq Nat
    PROVE  /\ (\A i \in DOMAIN list.items : valuesEqual(v, list.items[i]) = "no") => inList(v, list) = "no"
           /\ (\E i \in DOMAIN list.items : valuesEqual(v, list.items[i]) # "no") =>
                 \E i \in DOMAIN list.items : /\ inList(v, list) = valuesEqual(v, list.items[i])
                                              /\ inList(v, list) # "no"
<1> DEFINE settling == {i \in DOMAIN list.items : valuesEqual(v, list.items[i]) # "no"}
<1>1. settling \subseteq Nat
  OBVIOUS
<1>2. settling # {} => Min(settling) \in settling
  BY <1>1, MinIs
<1>3. inList(v, list) = IF settling = {} THEN "no" ELSE valuesEqual(v, list.items[Min(settling)])
  BY DEF inList
<1> QED BY <1>2, <1>3

LEMMA NoListNoMember ==
    ASSUME NEW v, NEW x, x.type # "list"
    PROVE  inList(v, x) = "no"
BY DEF inList

\* A field that is missing never makes a condition hold.
LEMMA AbsentNever ==
    ASSUME DeskInv, NEW c \in Conditions, Reads(c.field).kind = "absent", NEW store
    PROVE  Answers(c, store) # "yes"
<1> DEFINE v == ValueOf(c)
           x == Against(c, store)
<1>1. v = Invalid \/ v.type = "nil *Money" \/ v.type = "nil *Time"
  BY ConditionStands, KindsStand
<1>2. CASE v = Invalid
  BY <1>2, Outcomes
<1>3. CASE v # Invalid
  <2>1. v.type = "nil *Money" \/ v.type = "nil *Time"
    BY <1>1, <1>3
  <2>2. ASSUME NEW w, w.type # "nil *Money", w.type # "nil *Time" PROVE valuesEqual(v, w) = "panic"
    <3>1. v # w
      BY <2>1, <2>2
    <3> QED BY <2>1, <3>1, EqualNil
  <2>3. toFloat64(v) = {}
    BY <2>1, IsNoNumber
  <2>4. c.operator = "gt" \/ c.operator = "gte" \/ c.operator = "lt" \/ c.operator = "lte"
          => compareNumbers(v, x, c.operator) = "no"
    BY <2>3 DEF compareNumbers, Verdict
  <2>5. contains(v, x) = "no"
    BY <2>1 DEF contains, Verdict
  <2>6. x.type # "nil *Money" /\ x.type # "nil *Time"
    BY AgainstTypes
  <2>7. valuesEqual(v, x) = "panic"
    BY <2>2, <2>6
  <2>8. inList(v, x) # "yes"
    <3>1. CASE x.type # "list"
      BY <3>1, NoListNoMember
    <3>2. CASE x.type = "list"
      <4>1. c.value.type = "list"
        BY <3>2, AgainstTypes
      <4>2. ASSUME NEW i \in DOMAIN x.items PROVE valuesEqual(v, x.items[i]) = "panic"
        <5>1. i \in DOMAIN c.value.items
          BY <4>1, AgainstItems
        <5>2. c.value.items[i] \in JSONScalars /\ x.items[i] = ScalarAsRead(c.value.items[i], store)
          BY <4>1, <5>1, AgainstItems
        <5>3. x.items[i].type # "nil *Money" /\ x.items[i].type # "nil *Time"
          BY <5>2, ScalarTypes
        <5> QED BY <2>2, <5>3
      <4>3. DOMAIN x.items \subseteq Nat
        BY <4>1, AgainstItems
      <4> HIDE DEF v, x
      <4> QED BY <3>2, <4>2, <4>3, SettledBy
    <3> QED BY <3>1, <3>2
  <2> HIDE DEF v, x
  <2> QED BY <1>3, <2>4, <2>5, <2>7, <2>8, Outcomes DEF v, x
<1> QED BY <1>2, <1>3

LEMMA ComparedOrNot ==
    ASSUME NEW v, NEW x, NEW op
    PROVE  /\ compareNumbers(v, x, op) = "yes" \/ compareNumbers(v, x, op) = "no"
           /\ contains(v, x) = "yes" \/ contains(v, x) = "no"
BY DEF compareNumbers, contains, Verdict

LEMMA ListedOrNot ==
    ASSUME NEW v, NEW r, NEW path, Stands(v, r, path), r.kind # "absent",
           NEW x, x.type # "list" \/ DOMAIN x.items \subseteq Nat
    PROVE  inList(v, x) = "yes" \/ inList(v, x) = "no"
<1>1. CASE x.type # "list"
  BY <1>1, NoListNoMember
<1>2. CASE x.type = "list"
  <2>1. \A y : valuesEqual(v, y) = "yes" \/ valuesEqual(v, y) = "no"
    BY EqualOrNot
  <2> QED BY <1>2, <2>1, SettledBy
<1> QED BY <1>1, <1>2

LEMMA AgainstList ==
    ASSUME NEW c \in Conditions, NEW store
    PROVE  Against(c, store).type # "list" \/ DOMAIN Against(c, store).items \subseteq Nat
BY AgainstTypes, AgainstItems

\* The evaluation is lost only on a nil pointer.
LEMMA PanicsOnly ==
    ASSUME DeskInv, NEW c \in Conditions, NEW store, Answers(c, store) = "panic"
    PROVE  /\ c.field \in {<<"expected_revenue">>, <<"close_date">>}
           /\ Reads(c.field).kind = "absent"
           /\ c.operator \in {"eq", "neq", "in"}
<1> DEFINE v == ValueOf(c)
           x == Against(c, store)
           r == Reads(c.field)
<1>1. Stands(v, r, c.field)
  BY ConditionStands
<1>2. v # Invalid
  BY Outcomes
<1>3. /\ compareNumbers(v, x, c.operator) # "panic"
      /\ contains(v, x) # "panic"
  BY ComparedOrNot
<1>4. c.operator = "eq" \/ c.operator = "neq" \/ c.operator = "in"
  <2> HIDE DEF v, x
  <2> QED BY <1>2, <1>3, Outcomes DEF v, x
<1>5. ASSUME r.kind # "absent" PROVE FALSE
  <2>1. valuesEqual(v, x) = "yes" \/ valuesEqual(v, x) = "no"
    BY <1>1, <1>5, EqualOrNot
  <2>2. inList(v, x) = "yes" \/ inList(v, x) = "no"
    BY <1>1, <1>5, ListedOrNot, AgainstList
  <2> HIDE DEF v, x
  <2> QED BY <1>2, <1>4, <2>1, <2>2, Outcomes DEF v, x
<1>6. c.field \in {<<"expected_revenue">>, <<"close_date">>}
  BY <1>1, <1>2, <1>5 DEF Stands
<1> QED BY <1>4, <1>5, <1>6

\* What a value, or a path, reads as.
LEMMA PlainShape ==
    ASSUME NEW w
    PROVE  \/ Plain(w) = Absent \/ Plain(w) = Composite \/ Plain(w) = Other
           \/ Plain(w) = Number(w.n) \/ Plain(w) = Text(w.s)
BY DEF Plain

Shaped(r) ==
    \/ r = Absent /\ r.kind = "absent"
    \/ r = Composite /\ r.kind = "composite"
    \/ r = Other /\ r.kind = "other"
    \/ r = Number(r.n) /\ r.kind = "number"
    \/ r = Text(r.s) /\ r.kind = "text"

LEMMA Shapes ==
    ASSUME NEW n, NEW s
    PROVE  /\ Shaped(Absent) /\ Shaped(Composite) /\ Shaped(Other)
           /\ Shaped(Number(n)) /\ Shaped(Text(s))
<1>1. Shaped(Absent) /\ Shaped(Composite) /\ Shaped(Other)
  BY DEF Shaped, Absent, Composite, Other
<1>2. Number(n).n = n /\ Number(n).kind = "number"
  BY DEF Number
<1>3. Text(s).s = s /\ Text(s).kind = "text"
  BY DEF Text
<1> QED BY <1>1, <1>2, <1>3 DEF Shaped

LEMMA MoneyShape ==
    ASSUME NEW path, NEW name, NEW n, NEW s
    PROVE  Shaped(OfMoney(path, name, n, s))
<1>1. \/ OfMoney(path, name, n, s) = Number(n) \/ OfMoney(path, name, n, s) = Text(s)
      \/ OfMoney(path, name, n, s) = Absent
  BY DEF OfMoney
<1> QED BY <1>1, Shapes

LEMMA ReadsShape ==
    ASSUME NEW path
    PROVE  Shaped(Reads(path))
<1>1. Shaped(Plain(Inside(path)))
  BY PlainShape, Shapes
<1>2. \/ \E name, n, s : Reads(path) = OfMoney(path, name, n, s)
      \/ Reads(path) = Text(rest.currency)
      \/ Reads(path) = Other
      \/ Reads(path) = Plain(Inside(path))
      \/ Reads(path) = Absent
  <2>1. CASE path[1] = "amount"
    <3>1. Reads(path) = OfMoney(path, "amount", money.amount, money.currency)
      BY <2>1 DEF Reads
    <3> QED BY <3>1
  <2>2. CASE path[1] = "expected_revenue"
    <3>1. Reads(path) = OfMoney(path, "expected_revenue", rest.expected_revenue.n, rest.expected_revenue.s)
            \/ Reads(path) = Absent
      BY <2>2 DEF Reads
    <3> QED BY <3>1
  <2>3. CASE path[1] # "amount" /\ path[1] # "expected_revenue"
    BY <2>3 DEF Reads
  <2> QED BY <2>1, <2>2, <2>3
<1> QED BY <1>1, <1>2, Shapes, MoneyShape

\* A condition that is not mixed has one answer over both stores.
LEMMA EqualsAlike ==
    ASSUME DeskInv, NEW c \in Conditions, ValueOf(c) # Invalid, ~Mixed(c),
           c.operator = "eq" \/ c.operator = "neq"
    PROVE  valuesEqual(ValueOf(c), Against(c, "memory")) = valuesEqual(ValueOf(c), Against(c, "postgres"))
<1> DEFINE v == ValueOf(c)
           r == Reads(c.field)
           m == Against(c, "memory")
           p == Against(c, "postgres")
<1>1. Stands(v, r, c.field)
  BY ConditionStands
<1>2. CASE c.value \in JSONScalars
  <2>1. c.value.type # "list"
    BY <1>2, JSONScalarTypes
  <2>2. r.kind # "text" \/ c.value.type # "json.Number"
    BY <1>2, <2>1, PlainScalar DEF Mixed
  <2>3. m = ScalarAsRead(c.value, "memory") /\ p = ScalarAsRead(c.value, "postgres")
    BY <1>2, ScalarRead DEF Against
  <2> QED BY <1>1, <1>2, <2>2, <2>3, EqualAlike
<1>3. CASE c.value.type = "list"
  <2>1. m.type = "list" /\ p.type = "list"
    BY <1>3, AgainstItems
  <2>2. CASE r.kind = "absent"
    <3>1. v.type = "nil *Money" \/ v.type = "nil *Time"
      BY <1>1, <2>2, KindsStand
    <3>2. valuesEqual(v, m) = "panic" /\ valuesEqual(v, p) = "panic"
      BY <2>1, <3>1, EqualList
    <3> QED BY <3>2
  <2>3. CASE r.kind = "composite"
    <3>1. \A i \in DOMAIN c.value.items : c.value.items[i].type # "json.Number"
      <4>1. r = Composite
        BY <2>3, ReadsShape DEF Shaped
      <4>2. \A i \in DOMAIN c.value.items : Plain(c.value.items[i]).kind # "number"
        BY <1>3, <4>1 DEF Mixed
      <4>3. \A i \in DOMAIN c.value.items : c.value.items[i] \in JSONScalars
        BY <1>3, AgainstItems
      <4>4. ASSUME NEW i \in DOMAIN c.value.items PROVE c.value.items[i].type # "json.Number"
        <5> DEFINE w == c.value.items[i]
        <5>1. w \in JSONScalars /\ Plain(w).kind # "number"
          BY <4>2, <4>3
        <5> HIDE DEF w
        <5>2. w.type # "json.Number"
          BY <5>1, PlainScalar
        <5> QED BY <5>2 DEF w
      <4> QED BY <4>4
    <3>2. m = p
      BY <1>3, <3>1, SameList DEF Against
    <3> QED BY <3>2
  <2>4. CASE r.kind # "absent" /\ r.kind # "composite"
    <3>1. v.type # "list" /\ v.type # "nil *Money" /\ v.type # "nil *Time"
      BY <1>1, <2>4 DEF Stands
    <3>2. v # m /\ v # p
      BY <2>1, <3>1
    <3> HIDE DEF v, m, p
    <3>3. valuesEqual(v, m) = "no" /\ valuesEqual(v, p) = "no"
      BY <2>1, <3>1, <3>2, EqualList
    <3> QED BY <3>3 DEF v, m, p
  <2> QED BY <2>2, <2>3, <2>4
<1> QED BY <1>2, <1>3, ConditionParts

LEMMA ComparesAlike ==
    ASSUME NEW v, NEW x, NEW y, NEW op, toFloat64(x) = toFloat64(y)
    PROVE  compareNumbers(v, x, op) = compareNumbers(v, y, op)
BY DEF compareNumbers

\* Neither text in text nor member of a list.
LEMMA ContainsNothing ==
    ASSUME NEW v, NEW x, v.type # "string" \/ x.type # "string", v.type # "list"
    PROVE  contains(v, x) = "no"
BY DEF contains, Verdict

LEMMA ContainsAlike ==
    ASSUME DeskInv, NEW c \in Conditions, ~Mixed(c), c.operator = "contains"
    PROVE  contains(ValueOf(c), Against(c, "memory")) = contains(ValueOf(c), Against(c, "postgres"))
<1> DEFINE v == ValueOf(c)
           r == Reads(c.field)
           m == Against(c, "memory")
           p == Against(c, "postgres")
<1>1. Stands(v, r, c.field) /\ Shaped(r)
  BY ConditionStands, ReadsShape
<1>2. CASE v.type # "string" /\ v.type # "list"
  BY <1>2, ContainsNothing
<1>3. CASE v.type = "string"
  <2>1. r.kind = "text"
    BY <1>1, <1>3, InvalidIs DEF Stands, NilPointers
  <2>2. CASE c.value \in JSONScalars
    <3>1. c.value.type # "list" /\ c.value.type # "json.Number"
      BY <2>1, <2>2, PlainScalar DEF Mixed
    <3>2. m = c.value /\ p = c.value
      BY <2>2, <3>1, ScalarRead, OtherRead DEF Against
    <3> QED BY <3>2
  <2>3. CASE c.value.type = "list"
    <3>1. m.type # "string" /\ p.type # "string"
      BY <2>3, AgainstItems
    <3> QED BY <1>3, <3>1, ContainsNothing
  <2> QED BY <2>2, <2>3, ConditionParts
<1>4. CASE v.type = "list"
  <2>1. r = Composite
    BY <1>1, <1>4, InvalidIs DEF Stands, NilPointers, Shaped
  <2>2. CASE c.value \in JSONScalars
    <3>1. c.value.type # "list" /\ c.value.type # "json.Number"
      BY <2>1, <2>2, PlainScalar DEF Mixed
    <3>2. m = c.value /\ p = c.value
      BY <2>2, <3>1, ScalarRead, OtherRead DEF Against
    <3> QED BY <3>2
  <2>3. CASE c.value.type = "list"
    <3>1. ASSUME NEW i \in DOMAIN c.value.items PROVE c.value.items[i].type # "json.Number"
      <4> DEFINE w == c.value.items[i]
      <4>1. w \in JSONScalars
        BY <2>3, AgainstItems
      <4>2. Plain(w).kind # "number"
        BY <2>1, <2>3 DEF Mixed
      <4> HIDE DEF w
      <4>3. w.type # "json.Number"
        BY <4>1, <4>2, PlainScalar
      <4> QED BY <4>3 DEF w
    <3>2. m = p
      BY <2>3, <3>1, SameList DEF Against
    <3> QED BY <3>2
  <2> QED BY <2>2, <2>3, ConditionParts
<1> QED BY <1>2, <1>3, <1>4

LEMMA ListsAlike ==
    ASSUME DeskInv, NEW c \in Conditions, ValueOf(c) # Invalid, ~Mixed(c)
    PROVE  inList(ValueOf(c), Against(c, "memory")) = inList(ValueOf(c), Against(c, "postgres"))
<1> DEFINE v == ValueOf(c)
           r == Reads(c.field)
           m == Against(c, "memory")
           p == Against(c, "postgres")
<1>1. Stands(v, r, c.field)
  BY ConditionStands
<1>2. CASE c.value.type = "list"
  <2>1. /\ m.type = "list" /\ p.type = "list" /\ DOMAIN m.items = DOMAIN p.items
        /\ DOMAIN m.items \subseteq Nat
    BY <1>2, AgainstItems
  <2>2. ASSUME NEW i \in DOMAIN m.items PROVE valuesEqual(v, m.items[i]) = valuesEqual(v, p.items[i])
    <3> DEFINE w == c.value.items[i]
    <3>1. i \in DOMAIN c.value.items
      BY <1>2, AgainstItems
    <3>2. /\ w \in JSONScalars /\ m.items[i] = ScalarAsRead(w, "memory")
          /\ p.items[i] = ScalarAsRead(w, "postgres")
      BY <1>2, <3>1, AgainstItems
    <3>3. r.kind = "text" => Plain(w).kind # "number"
      BY <1>2, <3>1 DEF Mixed
    <3>4. v # Invalid
      OBVIOUS
    <3> HIDE DEF w, v, m, p, r
    <3>5. r.kind # "text" \/ w.type # "json.Number"
      BY <3>2, <3>3, PlainScalar
    <3> QED BY <1>1, <3>2, <3>4, <3>5, EqualAlike
  <2> HIDE DEF v, m, p
  <2>3. {i \in DOMAIN m.items : valuesEqual(v, m.items[i]) # "no"}
          = {i \in DOMAIN p.items : valuesEqual(v, p.items[i]) # "no"}
    BY <2>1, <2>2
  <2> DEFINE settling == {i \in DOMAIN m.items : valuesEqual(v, m.items[i]) # "no"}
  <2>4. inList(v, m) = IF settling = {} THEN "no" ELSE valuesEqual(v, m.items[Min(settling)])
    BY <2>1 DEF inList
  <2>5. inList(v, p) = IF settling = {} THEN "no" ELSE valuesEqual(v, p.items[Min(settling)])
    BY <2>1, <2>3 DEF inList
  <2>6. settling # {} => Min(settling) \in DOMAIN m.items
    BY <2>1, MinIs
  <2> HIDE DEF settling
  <2>7. inList(v, m) = inList(v, p)
    BY <2>2, <2>4, <2>5, <2>6
  <2> QED BY <2>7 DEF v, m, p
<1>3. CASE c.value.type # "list"
  <2>1. m.type # "list" /\ p.type # "list"
    BY <1>3, AgainstTypes
  <2> QED BY <2>1, NoListNoMember
<1> QED BY <1>2, <1>3

LEMMA AnswersAlike ==
    ASSUME DeskInv, NEW c \in Conditions, ~Mixed(c)
    PROVE  Answers(c, "memory") = Answers(c, "postgres")
<1> DEFINE v == ValueOf(c)
           m == Against(c, "memory")
           p == Against(c, "postgres")
           op == c.operator
<1>1. CASE v = Invalid
  BY <1>1, Outcomes
<1>2. CASE v # Invalid
  <2>1. op = "eq" \/ op = "neq" => valuesEqual(v, m) = valuesEqual(v, p)
    BY <1>2, EqualsAlike
  <2>2. compareNumbers(v, m, op) = compareNumbers(v, p, op)
    BY FloatsAlike, ComparesAlike
  <2>3. op = "contains" => contains(v, m) = contains(v, p)
    BY ContainsAlike
  <2>4. inList(v, m) = inList(v, p)
    BY <1>2, ListsAlike
  <2> HIDE DEF v, m, p
  <2>5. CASE op = "eq" \/ op = "neq"
    BY <1>2, <2>1, <2>5, Outcomes DEF v, m, p
  <2>6. CASE op = "gt" \/ op = "gte" \/ op = "lt" \/ op = "lte"
    BY <1>2, <2>2, <2>6, Outcomes DEF v, m, p
  <2>7. CASE op = "contains"
    BY <1>2, <2>3, <2>7, Outcomes DEF v, m, p
  <2>8. CASE op = "in"
    BY <1>2, <2>4, <2>8, Outcomes DEF v, m, p
  <2>9. CASE op \notin {"eq", "neq", "gt", "gte", "lt", "lte", "contains", "in"}
    BY <1>2, <2>9, Outcomes DEF v
  <2> QED BY <2>5, <2>6, <2>7, <2>8, <2>9
<1> QED BY <1>1, <1>2

LEMMA ComparesCounts ==
    ASSUME NEW v, NEW x, NEW a \in Int, NEW b \in Int, Counts(v, a), Counts(x, b)
    PROVE  /\ compareNumbers(v, x, "gt")  = "yes" <=> a > b
           /\ compareNumbers(v, x, "gte") = "yes" <=> a >= b
           /\ compareNumbers(v, x, "lt")  = "yes" <=> a < b
           /\ compareNumbers(v, x, "lte") = "yes" <=> a <= b
BY DEF Counts, compareNumbers, Verdict

\* A rule's value that reads as a number or as a text is a scalar.
LEMMA PlainlyScalar ==
    ASSUME NEW c \in Conditions
    PROVE  /\ Plain(c.value).kind = "number" =>
                /\ c.value \in JSONScalars /\ c.value.type = "json.Number"
                /\ Plain(c.value) = Number(c.value.n) /\ Plain(c.value).n = c.value.n
           /\ Plain(c.value).kind = "text" =>
                /\ c.value \in JSONScalars /\ c.value.type = "string"
                /\ Plain(c.value) = Text(c.value.s) /\ Plain(c.value).s = c.value.s
<1>1. CASE c.value \in JSONScalars
  BY <1>1, PlainScalar
<1>2. CASE c.value.type = "list"
  <2>1. Plain(c.value).kind = "composite"
    BY <1>2 DEF Plain, Composite
  <2> QED BY <2>1
<1> QED BY <1>1, <1>2, ConditionParts

\* A number against a number is compared as two float64s.
LEMMA NumbersCompare ==
    ASSUME DeskInv, NEW c \in Conditions, Reads(c.field).kind = "number",
           Plain(c.value).kind = "number", NEW store
    PROVE  /\ ValueOf(c) # Invalid
           /\ Reads(c.field).n \in Int /\ Plain(c.value).n \in Int
           /\ c.operator = "gt"  =>
                (Answers(c, store) = "yes" <=> Float(Reads(c.field).n) > Float(Plain(c.value).n))
           /\ c.operator = "gte" =>
                (Answers(c, store) = "yes" <=> Float(Reads(c.field).n) >= Float(Plain(c.value).n))
           /\ c.operator = "lt"  =>
                (Answers(c, store) = "yes" <=> Float(Reads(c.field).n) < Float(Plain(c.value).n))
           /\ c.operator = "lte" =>
                (Answers(c, store) = "yes" <=> Float(Reads(c.field).n) <= Float(Plain(c.value).n))
<1> DEFINE v == ValueOf(c)
           x == Against(c, store)
           r == Reads(c.field)
           a == Float(r.n)
           b == Float(Plain(c.value).n)
<1>1. Stands(v, r, c.field)
  BY ConditionStands
<1>2. r.n \in Int /\ toFloat64(v) = {a} /\ v.type # "invalid"
  BY <1>1, NumberStands
<1>3. /\ c.value \in JSONScalars /\ c.value.type = "json.Number"
      /\ Plain(c.value).n = c.value.n
  BY PlainlyScalar
<1>4. toFloat64(x) = {b} /\ Plain(c.value).n \in Int
  BY <1>3, ScalarRead, NumberRead, JSONScalarTypes DEF Against
<1>5. Counts(v, a) /\ Counts(x, b)
  BY <1>2, <1>4 DEF Counts
<1>6. a \in Int /\ b \in Int
  BY <1>2, <1>4, FloatKeepsOrder
<1>7. v # Invalid
  BY <1>2, InvalidIs
<1> HIDE DEF a, b
<1>8. /\ compareNumbers(v, x, "gt")  = "yes" <=> a > b
      /\ compareNumbers(v, x, "gte") = "yes" <=> a >= b
      /\ compareNumbers(v, x, "lt")  = "yes" <=> a < b
      /\ compareNumbers(v, x, "lte") = "yes" <=> a <= b
  BY <1>5, <1>6, ComparesCounts
<1>9. /\ c.operator = "gt"  => Answers(c, store) = compareNumbers(v, x, "gt")
      /\ c.operator = "gte" => Answers(c, store) = compareNumbers(v, x, "gte")
      /\ c.operator = "lt"  => Answers(c, store) = compareNumbers(v, x, "lt")
      /\ c.operator = "lte" => Answers(c, store) = compareNumbers(v, x, "lte")
  BY <1>7, Outcomes
<1> HIDE DEF v, x
<1> QED BY <1>2, <1>4, <1>7, <1>8, <1>9 DEF a, b, v

\* A rule's value of one kind with what the field reads as, both of them exact.
Alike(r, w) ==
    \/ r = Number(r.n) /\ r.n \in -Mantissa .. Mantissa
         /\ w.type = "json.Number" /\ w.n \in -Mantissa .. Mantissa
    \/ r = Text(r.s) /\ w.type = "string"

LEMMA AlikePlainly ==
    ASSUME NEW r, Shaped(r), r.kind = "number" \/ r.kind = "text", Exact(r),
           r.kind = "number" => r.n \in Int,
           NEW w \in JSONScalars, Plain(w).kind = r.kind, Exact(Plain(w))
    PROVE  Alike(r, w)
<1>1. CASE r.kind = "number"
  <2>1. r = Number(r.n) /\ r.n \in -Mantissa .. Mantissa
    BY <1>1 DEF Shaped, Exact, Absent, Composite, Other, Text
  <2>2. w.type = "json.Number" /\ Plain(w).kind = "number" /\ Plain(w).n = w.n
    BY <1>1, PlainScalar
  <2>3. w.n \in -Mantissa .. Mantissa
    BY <2>2 DEF Exact
  <2> QED BY <2>1, <2>2, <2>3 DEF Alike
<1>2. CASE r.kind = "text"
  <2>1. r = Text(r.s)
    BY <1>2 DEF Shaped, Absent, Composite, Other, Number
  <2>2. w.type = "string"
    BY <1>2, PlainScalar
  <2> QED BY <2>1, <2>2 DEF Alike
<1> QED BY <1>1, <1>2

LEMMA AlikeEqual ==
    ASSUME NEW v, NEW r, NEW path, Stands(v, r, path), NEW w \in JSONScalars, NEW store, Alike(r, w)
    PROVE  valuesEqual(v, ScalarAsRead(w, store)) = "yes" <=> r = Plain(w)
BY EqualPlainly DEF Alike

LEMMA HoldsBy ==
    ASSUME NEW c
    PROVE  /\ Reads(c.field) = Absent => ~Holds(c)
           /\ Reads(c.field) # Absent =>
                /\ c.operator = "eq"  => (Holds(c) <=> Reads(c.field) = Plain(c.value))
                /\ c.operator = "neq" => (Holds(c) <=> Reads(c.field) # Plain(c.value))
                /\ c.operator = "gt"  => (Holds(c) <=> Reads(c.field).n > Plain(c.value).n)
                /\ c.operator = "gte" => (Holds(c) <=> Reads(c.field).n >= Plain(c.value).n)
                /\ c.operator = "lt"  => (Holds(c) <=> Reads(c.field).n < Plain(c.value).n)
                /\ c.operator = "lte" => (Holds(c) <=> Reads(c.field).n <= Plain(c.value).n)
                /\ c.operator = "contains" =>
                      (Holds(c) <=> \/ Reads(c.field) = Plain(c.value)
                                    \/ <<Reads(c.field).s, Plain(c.value).s>> \in Substrings)
                /\ c.operator = "in" =>
                      (Holds(c) <=> /\ c.value.type = "list"
                                    /\ \E i \in DOMAIN c.value.items :
                                          Reads(c.field) = Plain(c.value.items[i]))
                /\ c.operator \notin {"eq", "neq", "gt", "gte", "lt", "lte", "contains", "in"} => ~Holds(c)
<1> DEFINE v == Reads(c.field)
           w == Plain(c.value)
<1> HIDE DEF v, w
<1>1. CASE c.operator = "eq"
  BY <1>1 DEF Holds, v, w
<1>2. CASE c.operator = "neq"
  BY <1>2 DEF Holds, v, w
<1>3. CASE c.operator = "gt" \/ c.operator = "gte" \/ c.operator = "lt" \/ c.operator = "lte"
  BY <1>3 DEF Holds, v, w
<1>4. CASE c.operator = "contains"
  BY <1>4 DEF Holds, v, w
<1>5. CASE c.operator = "in"
  BY <1>5 DEF Holds, v, w
<1>6. CASE c.operator \notin {"eq", "neq", "gt", "gte", "lt", "lte", "contains", "in"}
  BY <1>6 DEF Holds, v, w
<1> QED BY <1>1, <1>2, <1>3, <1>4, <1>5, <1>6

\* A plain condition holds when the document says so.
LEMMA ReadsPlainly ==
    ASSUME DeskInv, NEW c \in Conditions, Plainly(c), NEW store
    PROVE  Answers(c, store) = "yes" <=> Holds(c)
<1> DEFINE v  == ValueOf(c)
           x  == Against(c, store)
           r  == Reads(c.field)
           w  == Plain(c.value)
           op == c.operator
<1>1. Stands(v, r, c.field) /\ Shaped(r)
  BY ConditionStands, ReadsShape
<1>2. CASE r = Absent
  <2>1. r.kind = "absent"
    BY <1>2 DEF Absent
  <2>2. Answers(c, store) # "yes"
    BY <2>1, AbsentNever
  <2>3. ~Holds(c)
    BY <1>2, HoldsBy
  <2> QED BY <2>2, <2>3
<1>3. CASE r # Absent
  <2>1. /\ r.kind = "number" \/ r.kind = "text"
        /\ op \in {"gt", "gte", "lt", "lte"} => r.kind = "number"
        /\ op = "contains" => r.kind = "text" /\ ~IsCurrency(c.field)
    BY <1>3 DEF Plainly
  <2>2. Exact(r)
    BY <1>3 DEF Plainly
  <2>3. r.kind = "number" => r.n \in Int
    BY <1>1, NumberStands
  <2>4. v # Invalid
    BY <1>1, <2>1, InvalidIs, NumberStands, TextStands
  <2>5. ASSUME op # "in"
        PROVE  /\ c.value \in JSONScalars /\ w.kind = r.kind /\ Exact(w)
               /\ x = ScalarAsRead(c.value, store) /\ Alike(r, c.value)
    <3>1. w.kind = r.kind /\ Exact(w)
      BY <1>3, <2>5 DEF Plainly
    <3>2. c.value \in JSONScalars
      BY <2>1, <3>1, PlainlyScalar
    <3>3. x = ScalarAsRead(c.value, store)
      BY <3>2, ScalarRead DEF Against
    <3>4. Alike(r, c.value)
      <4> HIDE DEF r
      <4> QED BY <1>1, <2>1, <2>2, <2>3, <3>1, <3>2, AlikePlainly
    <3> QED BY <3>1, <3>2, <3>3, <3>4
  <2>6. op # "in" => (valuesEqual(v, x) = "yes" <=> r = w)
    <3> SUFFICES ASSUME op # "in" PROVE valuesEqual(v, x) = "yes" <=> r = w
      OBVIOUS
    <3>1. c.value \in JSONScalars /\ x = ScalarAsRead(c.value, store) /\ Alike(r, c.value)
      BY <2>5
    <3> HIDE DEF v, r, x
    <3>2. valuesEqual(v, ScalarAsRead(c.value, store)) = "yes" <=> r = w
      BY <1>1, <3>1, AlikeEqual
    <3> QED BY <3>1, <3>2
  <2>7. r.kind # "absent"
    BY <2>1
  <2>8. CASE op = "eq"
    <3>1. Answers(c, store) = valuesEqual(v, x)
      BY <2>4, <2>8, Outcomes
    <3>2. Holds(c) <=> r = w
      BY <1>3, <2>8, HoldsBy
    <3> QED BY <2>6, <2>8, <3>1, <3>2
  <2>9. CASE op = "neq"
    <3>1. valuesEqual(v, x) = "yes" \/ valuesEqual(v, x) = "no"
      BY <1>1, <2>7, EqualOrNot
    <3>2. Answers(c, store) = "yes" <=> valuesEqual(v, x) = "no"
      <4> HIDE DEF v, x
      <4> QED BY <2>4, <2>9, <3>1, Outcomes DEF v, x
    <3>3. Holds(c) <=> r # w
      BY <1>3, <2>9, HoldsBy
    <3> HIDE DEF v, x, r, w
    <3> QED BY <2>6, <2>9, <3>1, <3>2, <3>3
  <2>10. CASE op = "gt" \/ op = "gte" \/ op = "lt" \/ op = "lte"
    <3>1. r.kind = "number" /\ w.kind = "number"
      BY <2>1, <2>5, <2>10
    <3>2. r.n \in Int /\ w.n \in Int
      BY <3>1, NumbersCompare
    <3>3. Float(r.n) = r.n /\ Float(w.n) = w.n
      BY <2>2, <2>5, <2>10, <3>1, FloatKeepsOrder DEF Exact
    <3>4. /\ op = "gt"  => (Answers(c, store) = "yes" <=> r.n > w.n)
          /\ op = "gte" => (Answers(c, store) = "yes" <=> r.n >= w.n)
          /\ op = "lt"  => (Answers(c, store) = "yes" <=> r.n < w.n)
          /\ op = "lte" => (Answers(c, store) = "yes" <=> r.n <= w.n)
      BY <3>1, <3>3, NumbersCompare
    <3>5. /\ op = "gt"  => (Holds(c) <=> r.n > w.n)
          /\ op = "gte" => (Holds(c) <=> r.n >= w.n)
          /\ op = "lt"  => (Holds(c) <=> r.n < w.n)
          /\ op = "lte" => (Holds(c) <=> r.n <= w.n)
      BY <1>3, HoldsBy
    <3> HIDE DEF r, w
    <3> QED BY <2>10, <3>4, <3>5
  <2>11. CASE op = "contains"
    <3>1. r.kind = "text" /\ ~IsCurrency(c.field) /\ w.kind = "text"
      BY <2>1, <2>5, <2>11
    <3>2. v.type = "string" /\ v.s = r.s
      BY <1>1, <3>1, TextStands
    <3>3. c.value \in JSONScalars /\ c.value.type = "string" /\ w = Text(c.value.s) /\ w.s = c.value.s
      BY <3>1, PlainlyScalar
    <3>4. x = c.value
      BY <3>3, ScalarRead, OtherRead DEF Against
    <3>5. r = Text(r.s)
      BY <1>1, <3>1 DEF Shaped, Absent, Composite, Other, Number
    <3>6. r = w <=> w.s = r.s
      BY <3>3, <3>5 DEF Text
    <3>7. contains(v, x) = "yes" <=> x.s = v.s \/ <<v.s, x.s>> \in Substrings
      BY <3>2, <3>3, <3>4 DEF contains, Verdict
    <3>8. Answers(c, store) = contains(v, x)
      BY <2>4, <2>11, Outcomes
    <3>9. Holds(c) <=> (r = w \/ <<r.s, w.s>> \in Substrings)
      BY <1>3, <2>11, HoldsBy
    <3> HIDE DEF v, x, r, w
    <3> QED BY <3>2, <3>3, <3>4, <3>6, <3>7, <3>8, <3>9
  <2>12. CASE op = "in"
    <3>1. Answers(c, store) = inList(v, x)
      BY <2>4, <2>12, Outcomes
    <3>2. Holds(c) <=> c.value.type = "list" /\ \E i \in DOMAIN c.value.items : r = Plain(c.value.items[i])
      BY <1>3, <2>12, HoldsBy
    <3>3. CASE c.value.type # "list"
      <4>1. x.type # "list"
        BY <3>3, AgainstTypes
      <4> QED BY <3>1, <3>2, <3>3, <4>1, NoListNoMember
    <3>4. CASE c.value.type = "list"
      <4>1. /\ x.type = "list" /\ DOMAIN x.items = DOMAIN c.value.items
            /\ DOMAIN x.items \subseteq Nat
        BY <3>4, AgainstItems
      <4>2. ASSUME NEW i \in DOMAIN c.value.items
            PROVE  valuesEqual(v, x.items[i]) = "yes" <=> r = Plain(c.value.items[i])
        <5> DEFINE y == c.value.items[i]
        <5>1. y \in JSONScalars /\ x.items[i] = ScalarAsRead(y, store)
          BY <3>4, AgainstItems
        <5>2. Plain(y).kind = r.kind /\ Exact(Plain(y))
          BY <1>3, <2>12, <3>4 DEF Plainly
        <5> HIDE DEF y, v, r, x
        <5>3. Alike(r, y)
          BY <1>1, <2>1, <2>2, <2>3, <5>1, <5>2, AlikePlainly DEF r
        <5>4. valuesEqual(v, ScalarAsRead(y, store)) = "yes" <=> r = Plain(y)
          BY <1>1, <5>1, <5>3, AlikeEqual
        <5> QED BY <5>1, <5>4 DEF y
      <4>3. \A i \in DOMAIN x.items : valuesEqual(v, x.items[i]) = "yes" \/ valuesEqual(v, x.items[i]) = "no"
        BY <1>1, <2>7, EqualOrNot
      <4> HIDE DEF v, x, r
      <4>4. inList(v, x) = "yes" <=> \E i \in DOMAIN x.items : valuesEqual(v, x.items[i]) = "yes"
        BY <4>1, <4>3, SettledBy
      <4>5. inList(v, x) = "yes" <=> \E i \in DOMAIN c.value.items : r = Plain(c.value.items[i])
        BY <4>1, <4>2, <4>4
      <4> QED BY <3>1, <3>2, <3>4, <4>5
    <3> QED BY <3>3, <3>4
  <2>13. CASE op \notin {"eq", "neq", "gt", "gte", "lt", "lte", "contains", "in"}
    <3>1. Answers(c, store) = "no"
      BY <2>4, <2>13, Outcomes
    <3>2. ~Holds(c)
      BY <1>3, <2>13, HoldsBy
    <3> QED BY <3>1, <3>2
  <2> QED BY <2>8, <2>9, <2>10, <2>11, <2>12, <2>13
<1> QED BY <1>2, <1>3

-----------------------------------------------------------------------------
(* The rules an answer is about.                                           *)

MatchOf(i, store) == matches(RuleAsRead(rules[i], store), Opportunity)

LEMMA RuleReads ==
    ASSUME NEW r \in Rules, NEW store
    PROVE  LET q == RuleAsRead(r, store) IN
           /\ q.isActive = r.isActive /\ q.entityType = r.entityType /\ q.actions = r.actions
           /\ q.conditions = [j \in DOMAIN r.conditions |-> ConditionAsRead(r.conditions[j], store)]
           /\ DOMAIN r.conditions \subseteq Nat
           /\ \A j \in DOMAIN r.conditions : r.conditions[j] \in Conditions
BY DEF Rules, RuleAsRead

LEMMA AskingRules ==
    ASSUME DeskInv, NEW i \in Asking
    PROVE  rules[i] \in Rules
BY DEF DeskInv, Asking

\* A rule matches when all of its conditions hold.
LEMMA MatchesWhenAllHold ==
    ASSUME DeskInv, NEW i \in Asking, NEW store
    PROVE  /\ MatchOf(i, store) = "yes" <=>
                 \A c \in ConditionsOf(rules[i]) : Answers(c, store) = "yes"
           /\ MatchOf(i, store) = "panic" =>
                 \E c \in ConditionsOf(rules[i]) : Answers(c, store) = "panic"
<1> DEFINE r == rules[i]
           q == RuleAsRead(r, store)
           failing == {j \in DOMAIN q.conditions : evaluateCondition(q.conditions[j], Opportunity) # "yes"}
<1>1. /\ q.conditions = [j \in DOMAIN r.conditions |-> ConditionAsRead(r.conditions[j], store)]
      /\ DOMAIN r.conditions \subseteq Nat
  BY AskingRules, RuleReads
<1>2. ASSUME NEW j \in DOMAIN r.conditions
      PROVE  evaluateCondition(q.conditions[j], Opportunity) = Answers(r.conditions[j], store)
  <2>1. q.conditions[j] = ConditionAsRead(r.conditions[j], store)
    BY <1>1
  <2> HIDE DEF q
  <2> QED BY <2>1 DEF Answers
<1>3. DOMAIN q.conditions = DOMAIN r.conditions
  BY <1>1
<1>4. MatchOf(i, store) = IF failing = {} THEN "yes"
                          ELSE evaluateCondition(q.conditions[Min(failing)], Opportunity)
  BY DEF MatchOf, matches
<1>5. failing # {} => Min(failing) \in failing
  BY <1>1, <1>3, MinIs
<1>6. failing # {} => \E j \in DOMAIN r.conditions :
                         /\ MatchOf(i, store) = Answers(r.conditions[j], store)
                         /\ Answers(r.conditions[j], store) # "yes"
  <2> HIDE DEF r, q
  <2> QED BY <1>2, <1>3, <1>4, <1>5
<1>7. failing = {} => MatchOf(i, store) = "yes"
                      /\ \A j \in DOMAIN r.conditions : Answers(r.conditions[j], store) = "yes"
  <2> HIDE DEF r, q
  <2> QED BY <1>2, <1>3, <1>4
<1>8. \A c : c \in ConditionsOf(r) <=> \E j \in DOMAIN r.conditions : c = r.conditions[j]
  BY DEF ConditionsOf
<1> HIDE DEF r, q, failing
<1>9. /\ MatchOf(i, store) = "yes" <=> \A c \in ConditionsOf(r) : Answers(c, store) = "yes"
      /\ MatchOf(i, store) = "panic" => \E c \in ConditionsOf(r) : Answers(c, store) = "panic"
  BY <1>6, <1>7, <1>8
<1> QED BY <1>9 DEF r

LEMMA ItsConditions ==
    ASSUME DeskInv, NEW i \in Asking, NEW c \in ConditionsOf(rules[i])
    PROVE  c \in Conditions
BY AskingRules, RuleReads DEF ConditionsOf

\* Rules whose conditions have the same answers match alike.
LEMMA MatchesAlike ==
    ASSUME DeskInv, NEW i \in Asking,
           \A c \in ConditionsOf(rules[i]) : Answers(c, "memory") = Answers(c, "postgres")
    PROVE  MatchOf(i, "memory") = MatchOf(i, "postgres")
<1> DEFINE r == rules[i]
           q(store) == RuleAsRead(r, store)
           failing == {j \in DOMAIN r.conditions : Answers(r.conditions[j], "memory") # "yes"}
<1>1. ASSUME NEW store
      PROVE  /\ q(store).conditions = [j \in DOMAIN r.conditions |-> ConditionAsRead(r.conditions[j], store)]
             /\ DOMAIN r.conditions \subseteq Nat
  BY AskingRules, RuleReads
<1>2. ASSUME NEW store \in StoreKinds, NEW j \in DOMAIN r.conditions
      PROVE  evaluateCondition(q(store).conditions[j], Opportunity) = Answers(r.conditions[j], "memory")
  <2>1. q(store).conditions[j] = ConditionAsRead(r.conditions[j], store)
    BY <1>1
  <2>2. evaluateCondition(q(store).conditions[j], Opportunity) = Answers(r.conditions[j], store)
    BY <2>1 DEF Answers
  <2>3. r.conditions[j] \in ConditionsOf(r)
    BY DEF ConditionsOf
  <2> QED BY <2>2, <2>3 DEF StoreKinds
<1>3. ASSUME NEW store \in StoreKinds
      PROVE  MatchOf(i, store) = IF failing = {} THEN "yes" ELSE Answers(r.conditions[Min(failing)], "memory")
  <2>1. DOMAIN q(store).conditions = DOMAIN r.conditions
    BY <1>1
  <2> DEFINE failed == {j \in DOMAIN q(store).conditions :
                           evaluateCondition(q(store).conditions[j], Opportunity) # "yes"}
  <2>2. failed = failing
    BY <1>2, <2>1
  <2>3. failing # {} => Min(failing) \in DOMAIN r.conditions
    BY <1>1, MinIs
  <2>4. MatchOf(i, store) = IF failed = {} THEN "yes"
                            ELSE evaluateCondition(q(store).conditions[Min(failed)], Opportunity)
    BY DEF MatchOf, matches
  <2> HIDE DEF failed, failing
  <2>5. MatchOf(i, store) = IF failing = {} THEN "yes"
                            ELSE evaluateCondition(q(store).conditions[Min(failing)], Opportunity)
    BY <2>2, <2>4
  <2> QED BY <1>2, <2>3, <2>5
<1> HIDE DEF failing
<1> QED BY <1>3 DEF StoreKinds

-----------------------------------------------------------------------------
(* The answer.                                                             *)

LEMMA ActiveIs ==
    ASSUME DeskInv, NEW store
    PROVE  Active(store) = [i \in Asking |-> RuleAsRead(rules[i], store)]
BY DEF Active, Asking

\* Every rule asked about is considered; one result is left of each.
Lost(store) == \E i \in Asking : MatchOf(i, store) = "panic"

LEMMA Evaluated ==
    ASSUME DeskInv, NEW store
    PROVE  LET e == Evaluate(Active(store), "opportunity", Opportunity) IN
           /\ e.panicked = Lost(store)
           /\ Lost(store) => e.results = <<>>
           /\ ~Lost(store) =>
                e.results = [i \in Asking |-> applyActions(RuleAsRead(rules[i], store), MatchOf(i, store) = "yes")]
<1> DEFINE a == Active(store)
           some == {i \in DOMAIN a : Considered(a[i], "opportunity")}
           verdict == [i \in some |-> matches(a[i], Opportunity)]
           panics == \E i \in some : verdict[i] = "panic"
<1>1. a = [i \in Asking |-> RuleAsRead(rules[i], store)]
  BY ActiveIs
<1>2. ASSUME NEW i \in Asking PROVE Considered(a[i], "opportunity") /\ matches(a[i], Opportunity) = MatchOf(i, store)
  <2>1. a[i] = RuleAsRead(rules[i], store)
    BY <1>1
  <2>2. a[i].isActive = rules[i].isActive /\ a[i].entityType = rules[i].entityType
    <3>1. LET q == RuleAsRead(rules[i], store)
          IN  q.isActive = rules[i].isActive /\ q.entityType = rules[i].entityType
      BY AskingRules, RuleReads
    <3> HIDE DEF a
    <3> QED BY <2>1, <3>1
  <2>3. rules[i].isActive /\ rules[i].entityType = "opportunity"
    BY DEF Asking
  <2>4. matches(a[i], Opportunity) = MatchOf(i, store)
    BY <2>1 DEF MatchOf
  <2>5. Considered(a[i], "opportunity")
    <3> HIDE DEF a
    <3> QED BY <2>2, <2>3 DEF Considered
  <2> QED BY <2>4, <2>5
<1>3. DOMAIN a = Asking
  BY <1>1
<1> HIDE DEF a
<1>4. some = Asking
  BY <1>2, <1>3
<1>5. ASSUME NEW i \in Asking PROVE verdict[i] = MatchOf(i, store)
  BY <1>2, <1>4
<1>6. panics = Lost(store)
  <2> HIDE DEF some, verdict
  <2> QED BY <1>4, <1>5 DEF Lost
<1>7. ASSUME NEW i \in Asking PROVE applyActions(a[i], verdict[i] = "yes") =
                applyActions(RuleAsRead(rules[i], store), MatchOf(i, store) = "yes")
  <2>1. a[i] = RuleAsRead(rules[i], store)
    BY <1>1
  <2>2. verdict[i] = MatchOf(i, store)
    BY <1>5
  <2> HIDE DEF verdict
  <2> QED BY <2>1, <2>2
<1>8. Evaluate(a, "opportunity", Opportunity) =
        [panicked |-> panics,
         results  |-> IF panics THEN <<>> ELSE [i \in some |-> applyActions(a[i], verdict[i] = "yes")]]
  BY DEF Evaluate
<1> DEFINE rs == [i \in some |-> applyActions(a[i], verdict[i] = "yes")]
           qs == [i \in Asking |-> applyActions(RuleAsRead(rules[i], store), MatchOf(i, store) = "yes")]
<1>9. rs = qs
  <2> HIDE DEF some, verdict
  <2> QED BY <1>4, <1>7
<1> HIDE DEF panics, rs
<1> DEFINE e == Evaluate(a, "opportunity", Opportunity)
<1>10. e.panicked = panics /\ e.results = IF panics THEN <<>> ELSE rs
  BY <1>8 DEF rs
<1> HIDE DEF e
<1>11. /\ e.panicked = Lost(store)
       /\ Lost(store) => e.results = <<>>
       /\ ~Lost(store) => e.results = qs
  BY <1>6, <1>9, <1>10 
<1> QED BY <1>11 DEF e, a

LEMMA Applied ==
    ASSUME NEW r \in Rules, NEW store, NEW b \in BOOLEAN
    PROVE  /\ applyActions(RuleAsRead(r, store), b).matched = b
           /\ applyActions(RuleAsRead(r, store), b).errors = Count(IF b THEN r.actions ELSE <<>>, {"block"})
<1>1. RuleAsRead(r, store).actions = r.actions
  BY RuleReads
<1> QED BY <1>1 DEF applyActions

LEMMA Summed ==
    ASSUME NEW store, NEW e, NEW b
    PROVE  /\ Summary(store, e, b).panicked = e.panicked
           /\ Summary(store, e, b).results = e.results
           /\ Summary(store, e, b).has_blocking = b
BY DEF Summary

\* What the answer says of the rules.
LEMMA AnswerSays ==
    ASSUME DeskInv, Asked, NEW store \in StoreKinds
    PROVE  /\ answer[store] = handleEvaluateOpportunityRules(store)
           /\ answer[store].panicked = Lost(store)
           /\ ~Lost(store) =>
                /\ \A i \in Asking : answer[store].results[i].matched = (MatchOf(i, store) = "yes")
                /\ answer[store].has_blocking <=>
                      \E i \in Asking :
                         Count(IF MatchOf(i, store) = "yes" THEN rules[i].actions ELSE <<>>, {"block"}) > 0
<1> DEFINE e == Evaluate(Active(store), "opportunity", Opportunity)
           h == handleEvaluateOpportunityRules(store)
           blocking == \E i \in DOMAIN e.results : e.results[i].errors > 0
           qs == [i \in Asking |-> applyActions(RuleAsRead(rules[i], store), MatchOf(i, store) = "yes")]
<1>1. answer[store] = h
  <2>1. answer = [s \in StoreKinds |-> handleEvaluateOpportunityRules(s)]
    BY DEF DeskInv, AnswerCurrent, Asked
  <2> QED BY <2>1
<1>2. h = Summary(store, e, blocking)
  BY DEF handleEvaluateOpportunityRules
<1>3. e.panicked = Lost(store) /\ (~Lost(store) => e.results = qs)
  BY Evaluated
<1> HIDE DEF e, h, blocking
<1>4. h.panicked = e.panicked /\ h.results = e.results /\ h.has_blocking = blocking
  BY <1>2, Summed
<1>5. ASSUME NEW i \in Asking
      PROVE  /\ qs[i].matched = (MatchOf(i, store) = "yes")
             /\ qs[i].errors = Count(IF MatchOf(i, store) = "yes" THEN rules[i].actions ELSE <<>>, {"block"})
  <2> DEFINE b == MatchOf(i, store) = "yes"
             q == applyActions(RuleAsRead(rules[i], store), b)
  <2>1. rules[i] \in Rules /\ b \in BOOLEAN
    BY AskingRules
  <2>2. qs[i] = q
    OBVIOUS
  <2>3. q.matched = b /\ q.errors = Count(IF b THEN rules[i].actions ELSE <<>>, {"block"})
    <3> HIDE DEF b
    <3> QED BY <2>1, Applied
  <2> HIDE DEF q
  <2> QED BY <2>2, <2>3
<1>6. DOMAIN qs = Asking
  OBVIOUS
<1>7. ASSUME ~Lost(store)
      PROVE  /\ \A i \in Asking : h.results[i].matched = (MatchOf(i, store) = "yes")
             /\ h.has_blocking <=>
                   \E i \in Asking :
                      Count(IF MatchOf(i, store) = "yes" THEN rules[i].actions ELSE <<>>, {"block"}) > 0
  <2>1. e.results = qs
    BY <1>3, <1>7
  <2> HIDE DEF qs
  <2>2. h.results = qs /\ (h.has_blocking <=> \E i \in DOMAIN qs : qs[i].errors > 0)
    BY <1>4, <2>1 DEF blocking
  <2> QED BY <1>5, <1>6, <2>2
<1>8. answer[store].panicked = Lost(store)
  BY <1>1, <1>3, <1>4
<1> QED BY <1>1, <1>7, <1>8 DEF h

-----------------------------------------------------------------------------

\* A rule whose conditions are plain is answered as the document reads, over either
\* store.
LEMMA ReadsTheDocument == DeskInv => RulesReadTheDocument
<1> SUFFICES ASSUME DeskInv, Asked, NEW store \in StoreKinds, NEW i \in Asking,
                    ~answer[store].panicked, \A c \in ConditionsOf(rules[i]) : Plainly(c)
             PROVE  answer[store].results[i].matched <=> \A c \in ConditionsOf(rules[i]) : Holds(c)
  BY DEF RulesReadTheDocument
<1>1. ~Lost(store)
  BY AnswerSays
<1>2. answer[store].results[i].matched <=> MatchOf(i, store) = "yes"
  BY <1>1, AnswerSays
<1>3. MatchOf(i, store) = "yes" <=> \A c \in ConditionsOf(rules[i]) : Answers(c, store) = "yes"
  BY MatchesWhenAllHold
<1>4. ASSUME NEW c \in ConditionsOf(rules[i]) PROVE Answers(c, store) = "yes" <=> Holds(c)
  <2>1. c \in Conditions /\ Plainly(c)
    BY ItsConditions
  <2> QED BY <2>1, ReadsPlainly
<1> QED BY <1>2, <1>3, <1>4

\* Nothing matches by a field that is missing, and only a comparison of a missing
\* pointer loses the evaluation.
LEMMA NeverPassesAGate == DeskInv => MissingFieldNeverPassesAGate
<1> SUFFICES ASSUME DeskInv, Asked, NEW store \in StoreKinds
             PROVE  IF answer[store].panicked
                    THEN \E i \in Asking : \E c \in ConditionsOf(rules[i]) :
                            /\ c.field \in {<<"expected_revenue">>, <<"close_date">>}
                            /\ Reads(c.field) = Absent
                            /\ c.operator \in {"eq", "neq", "in"}
                    ELSE \A i \in Asking :
                            (\E c \in ConditionsOf(rules[i]) : Reads(c.field) = Absent) =>
                                ~answer[store].results[i].matched
  BY DEF MissingFieldNeverPassesAGate
<1>1. answer[store].panicked = Lost(store)
  BY AnswerSays
<1>2. ASSUME Lost(store)
      PROVE  \E i \in Asking : \E c \in ConditionsOf(rules[i]) :
                /\ c.field \in {<<"expected_revenue">>, <<"close_date">>}
                /\ Reads(c.field) = Absent
                /\ c.operator \in {"eq", "neq", "in"}
  <2>1. PICK i \in Asking : MatchOf(i, store) = "panic"
    BY <1>2 DEF Lost
  <2>2. PICK c \in ConditionsOf(rules[i]) : Answers(c, store) = "panic"
    BY <2>1, MatchesWhenAllHold
  <2>3. c \in Conditions
    BY ItsConditions
  <2>4. /\ c.field \in {<<"expected_revenue">>, <<"close_date">>}
        /\ Reads(c.field).kind = "absent" /\ c.operator \in {"eq", "neq", "in"}
    BY <2>2, <2>3, PanicsOnly
  <2>5. Reads(c.field) = Absent
    BY <2>4, ReadsShape DEF Shaped
  <2> QED BY <2>4, <2>5
<1>3. ASSUME ~Lost(store), NEW i \in Asking, NEW c \in ConditionsOf(rules[i]), Reads(c.field) = Absent
      PROVE  ~answer[store].results[i].matched
  <2>1. c \in Conditions /\ Reads(c.field).kind = "absent"
    BY <1>3, ItsConditions DEF Absent
  <2>2. Answers(c, store) # "yes"
    BY <2>1, AbsentNever
  <2>3. MatchOf(i, store) # "yes"
    BY <2>2, MatchesWhenAllHold
  <2> QED BY <1>3, <2>3, AnswerSays
<1> QED BY <1>1, <1>2, <1>3

\* Two numbers are never compared the wrong way round.
LEMMA NeverReversed == DeskInv => OrderNeverReversed
<1> SUFFICES ASSUME DeskInv, Asked, NEW store \in StoreKinds, NEW i \in Asking,
                    ~answer[store].panicked, Len(rules[i].conditions) = 1,
                    Reads(rules[i].conditions[1].field).kind = "number",
                    Plain(rules[i].conditions[1].value).kind = "number"
             PROVE  LET c == rules[i].conditions[1]
                        v == Reads(c.field)
                        w == Plain(c.value)
                        matched == answer[store].results[i].matched
                    IN  /\ c.operator = "gt"  /\ matched  => v.n > w.n
                        /\ c.operator = "gte" /\ ~matched => v.n < w.n
                        /\ c.operator = "lt"  /\ matched  => v.n < w.n
                        /\ c.operator = "lte" /\ ~matched => v.n > w.n
  BY DEF OrderNeverReversed
<1> DEFINE c == rules[i].conditions[1]
           a == Reads(c.field).n
           b == Plain(c.value).n
           matched == answer[store].results[i].matched
<1>1. rules[i].conditions \in Seq(Conditions)
  BY AskingRules DEF Rules
<1>2. c \in Conditions /\ DOMAIN rules[i].conditions = {1}
  BY <1>1
<1>3. \A d : d \in ConditionsOf(rules[i]) <=> d = c
  BY <1>2 DEF ConditionsOf
<1>4. matched <=> Answers(c, store) = "yes"
  <2>1. ~Lost(store)
    BY AnswerSays
  <2>2. matched <=> MatchOf(i, store) = "yes"
    BY <2>1, AnswerSays
  <2>3. MatchOf(i, store) = "yes" <=> \A d \in ConditionsOf(rules[i]) : Answers(d, store) = "yes"
    BY MatchesWhenAllHold
  <2> QED BY <1>3, <2>2, <2>3
<1>5. /\ a \in Int /\ b \in Int
      /\ c.operator = "gt"  => (Answers(c, store) = "yes" <=> Float(a) > Float(b))
      /\ c.operator = "gte" => (Answers(c, store) = "yes" <=> Float(a) >= Float(b))
      /\ c.operator = "lt"  => (Answers(c, store) = "yes" <=> Float(a) < Float(b))
      /\ c.operator = "lte" => (Answers(c, store) = "yes" <=> Float(a) <= Float(b))
  BY <1>2, NumbersCompare
<1> HIDE DEF a, b, c, matched
<1>6. Float(a) \in Int /\ Float(b) \in Int
  BY <1>5, FloatKeepsOrder
<1>7. (a <= b => Float(a) <= Float(b)) /\ (b <= a => Float(b) <= Float(a))
  BY <1>5, FloatKeepsOrder
<1>8. /\ c.operator = "gt"  /\ matched  => a > b
      /\ c.operator = "gte" /\ ~matched => a < b
      /\ c.operator = "lt"  /\ matched  => a < b
      /\ c.operator = "lte" /\ ~matched => a > b
  BY <1>4, <1>5, <1>6, <1>7
<1> QED BY <1>8 DEF a, b, c, matched

\* No rule sets apart what the two stores answer, unless it is mixed.
LEMMA AnswerAlike == DeskInv => StoresAnswerAlike
<1> SUFFICES ASSUME DeskInv, Asked, \A i \in Asking : \A c \in ConditionsOf(rules[i]) : ~Mixed(c)
             PROVE  answer["memory"] = answer["postgres"]
  BY DEF StoresAnswerAlike
<1> DEFINE e(store) == Evaluate(Active(store), "opportunity", Opportunity)
           qs(store) == [i \in Asking |-> applyActions(RuleAsRead(rules[i], store), MatchOf(i, store) = "yes")]
<1>1. ASSUME NEW i \in Asking PROVE MatchOf(i, "memory") = MatchOf(i, "postgres")
  <2>1. ASSUME NEW c \in ConditionsOf(rules[i]) PROVE Answers(c, "memory") = Answers(c, "postgres")
    BY ItsConditions, AnswersAlike
  <2> QED BY <2>1, MatchesAlike
<1>2. Lost("memory") = Lost("postgres")
  BY <1>1 DEF Lost
<1>3. ASSUME NEW i \in Asking, NEW b
      PROVE  applyActions(RuleAsRead(rules[i], "memory"), b) = applyActions(RuleAsRead(rules[i], "postgres"), b)
  <2>1. /\ RuleAsRead(rules[i], "memory").actions = rules[i].actions
        /\ RuleAsRead(rules[i], "postgres").actions = rules[i].actions
    BY AskingRules, RuleReads
  <2> QED BY <2>1 DEF applyActions
<1>4. qs("memory") = qs("postgres")
  BY <1>1, <1>3
<1>5. e("memory").panicked = e("postgres").panicked
  BY <1>2, Evaluated
<1>6. e("memory").results = e("postgres").results
  <2> HIDE DEF qs
  <2>1. ASSUME NEW store PROVE e(store).results = IF Lost(store) THEN <<>> ELSE qs(store)
    BY Evaluated DEF qs
  <2> QED BY <1>2, <1>4, <2>1
<1>7. DOMAIN Active("memory") = DOMAIN Active("postgres")
  BY ActiveIs
<1>8. handleEvaluateOpportunityRules("memory") = handleEvaluateOpportunityRules("postgres")
  <2> DEFINE m == e("memory")
             p == e("postgres")
  <2>1. m.panicked = p.panicked /\ m.results = p.results
    BY <1>5, <1>6
  <2>2. /\ handleEvaluateOpportunityRules("memory") =
             Summary("memory", m, \E i \in DOMAIN m.results : m.results[i].errors > 0)
        /\ handleEvaluateOpportunityRules("postgres") =
             Summary("postgres", p, \E i \in DOMAIN p.results : p.results[i].errors > 0)
    BY DEF handleEvaluateOpportunityRules
  <2> HIDE DEF m, p, e
  <2> QED BY <1>7, <2>1, <2>2 DEF Summary
<1> QED BY <1>8, AnswerSays DEF StoreKinds

LEMMA CountsBlocks ==
    ASSUME NEW acts
    PROVE  /\ acts = <<>> => ~(Count(acts, {"block"}) > 0)
           /\ acts = <<"block">> => Count(acts, {"block"}) > 0
           /\ (\A k \in DOMAIN acts : acts[k] # "block") => ~(Count(acts, {"block"}) > 0)
<1> DEFINE B == {k \in DOMAIN acts : acts[k] \in {"block"}}
<1>1. Count(acts, {"block"}) = Cardinality(B)
  BY DEF Count
<1>2. acts = <<>> => B = {}
  OBVIOUS
<1>3. acts = <<"block">> => B = {1}
  OBVIOUS
<1>4. (\A k \in DOMAIN acts : acts[k] # "block") => B = {}
  OBVIOUS
<1>5. Cardinality({}) = 0
  BY FS_EmptySet
<1>6. Cardinality({1}) = 1
  BY FS_Singleton
<1> HIDE DEF B
<1>7. acts = <<>> => Count(acts, {"block"}) = 0
  BY <1>1, <1>2, <1>5
<1>8. acts = <<"block">> => Count(acts, {"block"}) = 1
  BY <1>1, <1>3, <1>6
<1>9. (\A k \in DOMAIN acts : acts[k] # "block") => Count(acts, {"block"}) = 0
  BY <1>1, <1>4, <1>5
<1> DEFINE n == Count(acts, {"block"})
<1> HIDE DEF n
<1>10. n = 0 => ~(n > 0)
  OBVIOUS
<1>11. n = 1 => n > 0
  OBVIOUS
<1> QED BY <1>7, <1>8, <1>9, <1>10, <1>11, Zenon DEF n

\* The two conditions of a gate.
LEMMA AboveTheLimit ==
    ASSUME DeskInv, money.amount = worth, NEW c \in Conditions, NEW store,
           c.field = <<"amount">>, c.operator = "gt",
           c.value.type = "json.Number", c.value.n \in 0 .. Mantissa - 1
    PROVE  Answers(c, store) = "yes" <=> worth > c.value.n
<1> DEFINE n == c.value.n
<1>1. Reads(c.field) = Number(worth)
  <2>1. c.field[1] = "amount"
    OBVIOUS
  <2>2. OfMoney(c.field, "amount", money.amount, money.currency) = Number(money.amount)
    BY DEF OfMoney
  <2> QED BY <2>1, <2>2 DEF Reads
<1>2. Reads(c.field).kind = "number" /\ Reads(c.field).n = worth
  BY <1>1 DEF Number
<1>3. Plain(c.value).kind = "number" /\ Plain(c.value).n = n
  BY DEF Plain, Number
<1>4. worth \in Int /\ n \in Int /\ (Answers(c, store) = "yes" <=> Float(worth) > Float(n))
  BY <1>2, <1>3, NumbersCompare
<1>5. n \in 0 .. Mantissa - 1 /\ Mantissa \in Nat
  BY MoneyAssumption
<1> HIDE DEF n
<1>6. Float(n) = n /\ Float(n + 1) = n + 1 /\ Float(worth) \in Int
  BY <1>4, <1>5, FloatKeepsOrder
<1>7. worth <= n => Float(worth) <= n
  BY <1>4, <1>6, FloatKeepsOrder
<1>8. n + 1 <= worth => n + 1 <= Float(worth)
  <2>1. n + 1 \in Int
    BY <1>4
  <2>2. n + 1 <= worth => Float(n + 1) <= Float(worth)
    BY <1>4, <2>1, FloatKeepsOrder
  <2> QED BY <1>6, <2>2
<1>9. Float(worth) > n <=> worth > n
  BY <1>4, <1>5, <1>6, <1>7, <1>8
<1> QED BY <1>4, <1>6, <1>9 DEF n

LEMMA InTheCurrency ==
    ASSUME DeskInv, NEW c \in Conditions, NEW store,
           c.field = <<"currency">>, c.operator = "eq", c.value.type = "string"
    PROVE  Answers(c, store) = "yes" <=> rest.currency = c.value.s
<1> DEFINE r == Reads(c.field)
           w == Plain(c.value)
<1>1. r = Text(rest.currency)
  <2>1. c.field[1] = "currency" /\ Len(c.field) = 1
    OBVIOUS
  <2> QED BY <2>1 DEF Reads
<1>2. w = Text(c.value.s)
  BY DEF Plain
<1>3. r = w <=> rest.currency = c.value.s
  BY <1>1, <1>2 DEF Text
<1>4. r.kind = "text" /\ w.kind = "text" /\ r # Absent
  BY <1>1, <1>2 DEF Text, Absent
<1>5. Exact(r) /\ Exact(w)
  BY <1>4 DEF Exact
<1>6. Plainly(c)
  BY <1>4, <1>5 DEF Plainly
<1>7. Holds(c) <=> r = w
  BY <1>4, HoldsBy
<1> QED BY <1>3, <1>6, <1>7, ReadsPlainly

LEMMA GatesStop == DeskInv => LargeDealsAreStopped
<1> SUFFICES ASSUME DeskInv, Asked, worth \in Int64, ~rounded,
                    \A i \in Asking :
                       IsGate(rules[i]) \/ \A j \in DOMAIN rules[i].actions : rules[i].actions[j] # "block",
                    NEW store \in StoreKinds, ~answer[store].panicked
             PROVE  answer[store].has_blocking <=>
                       \E i \in Asking :
                          /\ IsGate(rules[i])
                          /\ worth > rules[i].conditions[1].value.n
                          /\ rest.currency = rules[i].conditions[2].value.s
  BY DEF LargeDealsAreStopped
<1>1. money.amount = worth
  BY ExactWhenItFits DEF AmountsExactWhenTheyFit
<1>2. ~Lost(store)
  BY AnswerSays
<1> DEFINE acts(i) == IF MatchOf(i, store) = "yes" THEN rules[i].actions ELSE <<>>
           stops(i) == /\ IsGate(rules[i])
                       /\ worth > rules[i].conditions[1].value.n
                       /\ rest.currency = rules[i].conditions[2].value.s
<1>3. answer[store].has_blocking <=> \E i \in Asking : Count(acts(i), {"block"}) > 0
  BY <1>2, AnswerSays
<1>4. ASSUME NEW i \in Asking PROVE Count(acts(i), {"block"}) > 0 <=> stops(i)
  <2>1. CASE IsGate(rules[i])
    <3> DEFINE cs == rules[i].conditions
               first == cs[1]
               second == cs[2]
    <3>1. cs \in Seq(Conditions) /\ Len(cs) = 2
      BY <2>1, AskingRules DEF Rules, IsGate
    <3>2. first \in Conditions /\ second \in Conditions /\ DOMAIN cs = {1, 2}
      BY <3>1
    <3>3. \A d : d \in ConditionsOf(rules[i]) <=> (d = first \/ d = second)
      BY <3>2 DEF ConditionsOf
    <3>4. Answers(first, store) = "yes" <=> worth > first.value.n
      BY <1>1, <2>1, <3>2, AboveTheLimit DEF IsGate
    <3>5. Answers(second, store) = "yes" <=> rest.currency = second.value.s
      BY <2>1, <3>2, InTheCurrency DEF IsGate
    <3>6. MatchOf(i, store) = "yes" <=> \A d \in ConditionsOf(rules[i]) : Answers(d, store) = "yes"
      BY MatchesWhenAllHold
    <3>7. MatchOf(i, store) = "yes" <=> stops(i)
      BY <2>1, <3>3, <3>4, <3>5, <3>6
    <3>8. rules[i].actions = <<"block">>
      BY <2>1 DEF IsGate
    <3>9. acts(i) = IF MatchOf(i, store) = "yes" THEN <<"block">> ELSE <<>>
      BY <3>8
    <3> HIDE DEF acts, stops
    <3> QED BY <3>7, <3>9, CountsBlocks
  <2>2. CASE ~IsGate(rules[i])
    <3>1. \A j \in DOMAIN acts(i) : acts(i)[j] # "block"
      BY <2>2
    <3>2. ~stops(i)
      BY <2>2
    <3> HIDE DEF acts, stops
    <3> QED BY <3>1, <3>2, CountsBlocks
  <2> QED BY <2>1, <2>2
<1> HIDE DEF acts
<1> QED BY <1>3, <1>4

-----------------------------------------------------------------------------
(* The theorems.                                                           *)

\* engine.go:33, backend-foundation.md:69.  For every list of rules and every
\* snapshot: a rule whose conditions are plain is answered as the JSON document
\* reads, over either store.
THEOREM RulesAnsweredAsRead == Spec => []RulesReadTheDocument
BY DeskConsistent, ReadsTheDocument, PTL

\* engine.go:69.  A missing field never makes a rule match, and only a
\* comparison of a missing expected_revenue or close_date loses the evaluation.
THEOREM MissingNeverPasses == Spec => []MissingFieldNeverPassesAGate
BY DeskConsistent, NeverPassesAGate, PTL

\* engine.go:249.  However wide int64 is and however narrow float64: of two
\* numbers compared as float64s, none is taken for the greater that is not.
THEOREM NumbersKeepTheirOrder == Spec => []OrderNeverReversed
BY DeskConsistent, NeverReversed, PTL

\* backend-foundation.md:56.  Over either store the answer is the same, whatever
\* the rules, unless a condition of theirs is mixed.
THEOREM StoresAgree == Spec => []StoresAnswerAlike
BY DeskConsistent, AnswerAlike, PTL

\* README.md:187.  A deal is stopped exactly when it is worth more than the limit
\* of a gate for the snapshot's own currency, as long as the amount fits.
THEOREM GatesHold == Spec => []LargeDealsAreStopped
BY DeskConsistent, GatesStop, PTL
=============================================================================
