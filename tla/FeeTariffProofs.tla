---------------------------- MODULE FeeTariffProofs ----------------------------
(***************************************************************************)
(* What registration and ranking promise of fee schedules whatever their   *)
(* numbers.  A schedule's total is within half a hundredth per component   *)
(* of a linear function of the price, as long as no band begins; so the    *)
(* probes at both ends of a stretch without edges decide about the prices  *)
(* between, and sums of rates or of amounts decide about all trades.       *)
(***************************************************************************)
EXTENDS FeeTariff, WellFoundedInduction, FiniteSetTheorems, TLAPS

-----------------------------------------------------------------------------
(* Natural numbers *)

(* Every non-empty set of naturals has a least element.                    *)
LEMMA LeastNumber ==
  ASSUME NEW T \in SUBSET Nat, T # {}
  PROVE  \E m \in T : \A n \in T : m <= n
<1>1. PICK m \in T : \A n \in T : <<n, m>> \notin OpToRel(<, Nat)
  BY NatLessThanWellFounded, WFMin, Zenon
<1>2. \A n \in T : ~(n < m)
  BY <1>1, Zenon DEF OpToRel
<1>3. QED BY <1>2

(* A set that holds 0 and every successor up to n holds every number up    *)
(* to n: induction over a set, which first-order provers can use.          *)
LEMMA UpTo ==
  ASSUME NEW n \in Nat, NEW T, 0 \in T, \A k \in 1..n : k - 1 \in T => k \in T
  PROVE  \A k \in 0..n : k \in T
<1> SUFFICES ASSUME \E k \in 0..n : k \notin T PROVE FALSE
  OBVIOUS
<1> DEFINE Out == {k \in 0..n : k \notin T}
<1>1. PICK m \in Out : \A k \in Out : m <= k
  <2>1. Out \in SUBSET Nat /\ Out # {}
    OBVIOUS
  <2>2. QED BY <2>1, LeastNumber
<1>2. m \in 1..n /\ m - 1 \notin Out
  BY <1>1
<1>3. m - 1 \in T
  BY <1>2
<1>4. QED BY <1>1, <1>2, <1>3

LEMMA Distributes ==
  ASSUME NEW a \in Int, NEW x \in Int, NEW y \in Int
  PROVE  a * (x + y) = a * x + a * y
OBVIOUS

LEMMA Scales ==
  ASSUME NEW a \in Nat, NEW x \in Int, NEW y \in Int, x <= y
  PROVE  a * x <= a * y
OBVIOUS

-----------------------------------------------------------------------------
(* Sums *)

Steps(f, I, h, n) ==
  /\ h[0] = 0
  /\ \A k \in 1..n : h[k] = h[k - 1] + (IF k \in I THEN f[k] ELSE 0)

(* The sums of the first terms exist and are integers.                     *)
LEMMA SumSteps ==
  ASSUME NEW f \in Seq(Int), NEW I
  PROVE  \E h \in [0..Len(f) -> Int] : Steps(f, I, h, Len(f)) /\ Sum(f, I) = h[Len(f)]
<1> DEFINE n == Len(f)
           term(k) == IF k \in I THEN f[k] ELSE 0
           ok(k) == \E h \in [0..k -> Int] : Steps(f, I, h, k)
           T == {k \in 0..n : ok(k)}
           body(h) == [k \in 0..n |-> IF k = 0 THEN 0 ELSE h[k - 1] + term(k)]
           upTo == CHOOSE h : h = body(h)
<1>0. n \in Nat /\ \A k \in 1..n : term(k) \in Int
  OBVIOUS
<1>1. 0 \in T
  <2> DEFINE g == [j \in 0..0 |-> 0]
  <2>1. g \in [0..0 -> Int] /\ Steps(f, I, g, 0)
    BY DEF Steps
  <2>2. QED BY <1>0, <2>1
<1>2. ASSUME NEW k \in 1..n, k - 1 \in T PROVE k \in T
  <2>1. PICK h \in [0..(k - 1) -> Int] : Steps(f, I, h, k - 1)
    BY <1>2
  <2> DEFINE g == [j \in 0..k |-> IF j = k THEN h[k - 1] + term(k) ELSE h[j]]
  <2>2. g \in [0..k -> Int]
    BY <1>0, <2>1
  <2>3. Steps(f, I, g, k)
    <3>1. \A j \in 0..(k - 1) : g[j] = h[j]
      BY <1>0
    <3>2. g[k] = g[k - 1] + term(k)
      BY <1>0, <3>1
    <3>3. QED BY <1>0, <2>1, <3>1, <3>2 DEF Steps
  <2> HIDE DEF g
  <2>4. QED BY <1>0, <2>2, <2>3
<1>3. ok(n)
  <2> HIDE DEF ok, n
  <2>1. \A k \in 0..n : k \in T
    BY <1>0, <1>1, <1>2, UpTo
  <2>2. QED BY <1>0, <2>1
<1>4. PICK h \in [0..n -> Int] : Steps(f, I, h, n)
  BY <1>3
<1>5. h = body(h)
  BY <1>0, <1>4 DEF Steps
<1>6. upTo = body(upTo)
  BY <1>5, Zenon
<1>7. Steps(f, I, upTo, n)
  <2> HIDE DEF upTo
  <2>1. upTo[0] = 0
    BY <1>0, <1>6
  <2>2. ASSUME NEW k \in 1..n PROVE upTo[k] = upTo[k - 1] + term(k)
    BY <1>0, <1>6
  <2>3. QED BY <2>1, <2>2 DEF Steps
<1>8. upTo \in [0..n -> Int]
  <2> HIDE DEF upTo
  <2> DEFINE U == {k \in 0..n : upTo[k] \in Int}
  <2>1. 0 \in U
    BY <1>0, <1>7 DEF Steps
  <2>2. \A k \in 1..n : k - 1 \in U => k \in U
    BY <1>0, <1>7 DEF Steps
  <2>3. \A k \in 0..n : k \in U
    <3> HIDE DEF U, n
    <3>1. QED BY <1>0, <2>1, <2>2, UpTo
  <2>4. QED BY <1>6, <2>3
<1>9. Sum(f, I) = upTo[n]
  BY Zenon DEF Sum
<1> HIDE DEF upTo
<1>10. QED BY <1>7, <1>8, <1>9

LEMMA SumType ==
  ASSUME NEW f \in Seq(Int), NEW I
  PROVE  Sum(f, I) \in Int
BY SumSteps

(* a times x is b times y and c times z, give or take e.                   *)
Near(x, y, z, a, b, c, e) == -e <= a * x - b * y - c * z /\ a * x - b * y - c * z <= e

LEMMA NearStep ==
  ASSUME NEW a \in Int, NEW b \in Int, NEW c \in Int, NEW x \in Int, NEW y \in Int, NEW z \in Int,
         NEW u \in Int, NEW v \in Int, NEW w \in Int, NEW e \in Nat, NEW k \in Nat \ {0},
         -(e * (k - 1)) <= a * x - b * y - c * z, a * x - b * y - c * z <= e * (k - 1),
         -e <= a * u - b * v - c * w, a * u - b * v - c * w <= e
  PROVE  /\ -(e * k) <= a * (x + u) - b * (y + v) - c * (z + w)
         /\ a * (x + u) - b * (y + v) - c * (z + w) <= e * k
<1>1. /\ a * (x + u) = a * x + a * u
      /\ b * (y + v) = b * y + b * v
      /\ c * (z + w) = c * z + c * w
      /\ e * k = e * (k - 1) + e
  OBVIOUS
<1> DEFINE ax == a * x  by == b * y  cz == c * z  au == a * u  bv == b * v  cw == c * w
           ek == e * (k - 1)
<1>2. /\ ax \in Int /\ by \in Int /\ cz \in Int /\ au \in Int /\ bv \in Int /\ cw \in Int
      /\ ek \in Int
  OBVIOUS
<1>3. /\ -ek <= ax - by - cz /\ ax - by - cz <= ek
      /\ -e <= au - bv - cw /\ au - bv - cw <= e
  OBVIOUS
<1> HIDE DEF ax, by, cz, au, bv, cw, ek
<1>4. -(ek + e) <= (ax + au) - (by + bv) - (cz + cw) /\ (ax + au) - (by + bv) - (cz + cw) <= ek + e
  BY <1>2, <1>3
<1>5. QED BY <1>1, <1>4 DEF ax, by, cz, au, bv, cw, ek

(* A sum is as near to a combination of two others as its terms are, once  *)
(* per term.                                                               *)
TermsNear(f, g, h, a, b, c, e) == \A k \in 1..Len(f) : Near(f[k], g[k], h[k], a, b, c, e)
SumsNear(f, g, h, I, a, b, c, e) == Near(Sum(f, I), Sum(g, I), Sum(h, I), a, b, c, e * Len(f))

LEMMA SumNear ==
  ASSUME NEW f \in Seq(Int), NEW g \in Seq(Int), NEW h \in Seq(Int),
         Len(g) = Len(f), Len(h) = Len(f), NEW I,
         NEW a \in Int, NEW b \in Int, NEW c \in Int, NEW e \in Nat,
         TermsNear(f, g, h, a, b, c, e)
  PROVE  SumsNear(f, g, h, I, a, b, c, e)
<1> DEFINE n == Len(f)
<1>0. n \in Nat
  OBVIOUS
<1>1. PICK F \in [0..n -> Int] : Steps(f, I, F, n) /\ Sum(f, I) = F[n]
  BY SumSteps
<1>2. PICK G \in [0..n -> Int] : Steps(g, I, G, n) /\ Sum(g, I) = G[n]
  BY SumSteps
<1>3. PICK H \in [0..n -> Int] : Steps(h, I, H, n) /\ Sum(h, I) = H[n]
  BY SumSteps
<1> DEFINE D(k) == a * F[k] - b * G[k] - c * H[k]
           T == {k \in 0..n : -(e * k) <= D(k) /\ D(k) <= e * k}
<1>4. 0 \in T
  <2>1. F[0] = 0 /\ G[0] = 0 /\ H[0] = 0
    BY <1>1, <1>2, <1>3 DEF Steps
  <2>2. D(0) = 0
    BY <2>1
  <2>3. e * 0 = 0 /\ 0 \in 0..n
    BY <1>0
  <2> HIDE DEF D
  <2>4. QED BY <2>2, <2>3
<1>5. ASSUME NEW k \in 1..n, k - 1 \in T PROVE k \in T
  <2> DEFINE t(x) == IF k \in I THEN x[k] ELSE 0
  <2>1. F[k] = F[k - 1] + t(f) /\ G[k] = G[k - 1] + t(g) /\ H[k] = H[k - 1] + t(h)
    BY <1>1, <1>2, <1>3 DEF Steps
  <2>2. t(f) \in Int /\ t(g) \in Int /\ t(h) \in Int
    OBVIOUS
  <2>3. F[k - 1] \in Int /\ G[k - 1] \in Int /\ H[k - 1] \in Int
    <3>1. k - 1 \in 0..n
      BY <1>0
    <3> HIDE DEF n
    <3>2. QED BY <1>1, <1>2, <1>3, <3>1
  <2>4. -e <= a * t(f) - b * t(g) - c * t(h) /\ a * t(f) - b * t(g) - c * t(h) <= e
    <3>1. CASE k \in I
      BY <3>1 DEF Near, TermsNear
    <3>2. CASE k \notin I
      BY <3>2
    <3>3. QED BY <3>1, <3>2
  <2>5. -(e * (k - 1)) <= D(k - 1) /\ D(k - 1) <= e * (k - 1)
    BY <1>5
  <2>6. PICK x, y, z, u, v, w :
          /\ x = F[k - 1] /\ y = G[k - 1] /\ z = H[k - 1]
          /\ u = t(f) /\ v = t(g) /\ w = t(h)
    BY Zenon
  <2>7. -(e * k) <= a * (x + u) - b * (y + v) - c * (z + w)
        /\ a * (x + u) - b * (y + v) - c * (z + w) <= e * k
    <3> HIDE DEF t
    <3>1. /\ x \in Int /\ y \in Int /\ z \in Int /\ u \in Int /\ v \in Int /\ w \in Int
          /\ k \in Nat \ {0}
      BY <1>0, <2>2, <2>3, <2>6
    <3>2. /\ -(e * (k - 1)) <= a * x - b * y - c * z /\ a * x - b * y - c * z <= e * (k - 1)
          /\ -e <= a * u - b * v - c * w /\ a * u - b * v - c * w <= e
      BY <2>4, <2>5, <2>6
    <3>3. QED BY <3>1, <3>2, NearStep
  <2>8. F[k] = x + u /\ G[k] = y + v /\ H[k] = z + w
    BY <2>1, <2>6
  <2>9. QED BY <2>7, <2>8
<1>6. \A k \in 0..n : k \in T
  <2> HIDE DEF T, n
  <2>1. QED BY <1>0, <1>4, <1>5, UpTo
<1>7. -(e * n) <= D(n) /\ D(n) <= e * n
  <2> HIDE DEF D
  <2>1. QED BY <1>0, <1>6
<1>8. QED BY <1>1, <1>2, <1>3, <1>7 DEF Near, SumsNear

-----------------------------------------------------------------------------
(* What one component charges *)

(* The rate and the amount per unit a component charges at a price.        *)
Banded(c, x) == c.type = "BANDS" /\ \E i \in DOMAIN c.bands : InBand(c.bands[i], x)
RateAt(c, x) ==
  IF c.type = "RATE" THEN c.bp ELSE IF Banded(c, x) THEN c.bands[FirstBand(c, x)].bp ELSE 0
AmountAt(c, x) ==
  IF c.type = "FLAT" THEN c.flat ELSE IF Banded(c, x) THEN c.bands[FirstBand(c, x)].flat ELSE 0

(* Half up, a rate is off by half a hundredth at most.                     *)
RateOff(n, bp) ==
  /\ -10000 < 20000 * Rate(n, bp) - 2 * (n * bp)
  /\ 20000 * Rate(n, bp) - 2 * (n * bp) <= 10000

LEMMA RateNear ==
  ASSUME NEW n \in Nat, NEW bp \in Nat
  PROVE  Rate(n, bp) \in Nat /\ RateOff(n, bp)
<1> DEFINE a == n \div 10000
           r == n % 10000
           ab == a * bp
           rb == r * bp
           half == (2 * rb + 10000) \div 20000
<1>1. a \in Nat /\ r \in Nat /\ n = 10000 * a + r
  OBVIOUS
<1>2. ab \in Nat /\ rb \in Nat
  BY <1>1
<1>3. n * bp = 10000 * ab + rb
  <2> HIDE DEF a, r
  <2>1. QED BY <1>1
<1>4. 2 * r * bp = 2 * rb
  <2> HIDE DEF r
  <2>1. QED BY <1>1
<1>5. Rate(n, bp) = ab + half
  BY <1>4 DEF Rate
<1> HIDE DEF a, r, ab, rb
<1>6. half \in Nat /\ 20000 * half <= 2 * rb + 10000 /\ 2 * rb + 10000 < 20000 * half + 20000
  BY <1>2
<1> HIDE DEF half
<1>7. QED BY <1>2, <1>3, <1>5, <1>6 DEF RateOff

LEMMA RateRises ==
  ASSUME NEW n \in Nat, NEW m \in Nat, n <= m, NEW bp \in Nat
  PROVE  Rate(n, bp) <= Rate(m, bp)
<1>1. Rate(n, bp) \in Nat /\ Rate(m, bp) \in Nat /\ RateOff(n, bp) /\ RateOff(m, bp)
  BY RateNear, Zenon
<1>2. n * bp \in Nat /\ m * bp \in Nat /\ n * bp <= m * bp
  OBVIOUS
<1>3. QED BY <1>1, <1>2 DEF RateOff

(* On the largest probe, a whole number of steps, a rate is exact.         *)
LEMMA ProbeNotional == MaxProbe * ProbeQty = 10000 * 10000
BY SMT DEF MaxProbe, ProbeQty

LEMMA ProbeType == MaxProbe \in Nat /\ ProbeQty \in Nat
BY SMT DEF MaxProbe, ProbeQty

LEMMA RateOfProbe ==
  ASSUME NEW bp \in Nat
  PROVE  Rate(MaxProbe * ProbeQty, bp) = 10000 * bp
<1>1. (10000 * 10000) \div 10000 = 10000 /\ (10000 * 10000) % 10000 = 0
  BY SMT
<1>2. Rate(10000 * 10000, bp) = 10000 * bp + (2 * 0 * bp + 10000) \div 20000
  BY <1>1, SMT DEF Rate
<1>3. QED BY <1>2, ProbeNotional, SMT

(* The band a component uses is one of its bands that hold the price.      *)
LEMMA FirstBandHolds ==
  ASSUME NEW c \in Component, NEW x \in Nat, Banded(c, x)
  PROVE  FirstBand(c, x) \in DOMAIN c.bands /\ InBand(c.bands[FirstBand(c, x)], x)
<1> DEFINE T == {i \in DOMAIN c.bands : InBand(c.bands[i], x)}
<1>1. T \in SUBSET Nat /\ T # {} /\ c.bands \in Seq(Band)
  BY DEF Banded, Component
<1>2. PICK m \in T : \A i \in T : m <= i
  BY <1>1, LeastNumber
<1>3. \A j \in 1..(m - 1) : ~InBand(c.bands[j], x)
  BY <1>1, <1>2
<1>4. QED BY <1>2, <1>3 DEF FirstBand

LEMMA AtPrice ==
  ASSUME NEW c \in Component, NEW x \in Nat
  PROVE  RateAt(c, x) \in Nat /\ AmountAt(c, x) \in Nat
<1>1. c.bp \in Nat /\ c.flat \in Nat /\ c.bands \in Seq(Band)
  BY DEF Component
<1>2. CASE Banded(c, x)
  <2>1. c.bands[FirstBand(c, x)] \in Band
    BY <1>1, <1>2, FirstBandHolds
  <2>2. QED BY <1>1, <2>1 DEF RateAt, AmountAt, Band
<1>3. QED BY <1>1, <1>2 DEF RateAt, AmountAt

LEMMA ChargeIs ==
  ASSUME NEW c \in Component, NEW x \in Nat, NEW q \in Nat
  PROVE  \/ /\ c.type = "RATE" /\ Charge(c, x, q) = Rate(x * q, RateAt(c, x))
            /\ AmountAt(c, x) = 0
         \/ /\ c.type = "FLAT" /\ Charge(c, x, q) = AmountAt(c, x) * q
            /\ RateAt(c, x) = 0
         \/ /\ Banded(c, x)
            /\ Charge(c, x, q) = Rate(x * q, RateAt(c, x)) + AmountAt(c, x) * q
         \/ /\ c.type = "BANDS" /\ ~Banded(c, x) /\ Charge(c, x, q) = 0
            /\ RateAt(c, x) = 0 /\ AmountAt(c, x) = 0
<1>1. c.type \in {"RATE", "FLAT", "BANDS"}
  BY DEF Component
<1>2. CASE c.type = "RATE"
  BY <1>2 DEF Charge, RateAt, AmountAt, Banded
<1>3. CASE c.type = "FLAT"
  BY <1>3 DEF Charge, RateAt, AmountAt, Banded
<1>4. CASE c.type = "BANDS"
  <2>1. Charge(c, x, q) =
          IF \A i \in DOMAIN c.bands : ~InBand(c.bands[i], x) THEN 0
          ELSE Rate(x * q, c.bands[FirstBand(c, x)].bp) + c.bands[FirstBand(c, x)].flat * q
    BY <1>4 DEF Charge
  <2>2. CASE Banded(c, x)
    BY <1>4, <2>1, <2>2 DEF Banded, RateAt, AmountAt
  <2>3. CASE ~Banded(c, x)
    BY <1>4, <2>1, <2>3 DEF Banded, RateAt, AmountAt
  <2>4. QED BY <2>2, <2>3
<1>5. QED BY <1>1, <1>2, <1>3, <1>4

(* A charge is off by half a hundredth from what is linear in the price.   *)
ChargeOff(c, x, q) ==
  Near(Charge(c, x, q), RateAt(c, x), AmountAt(c, x), 20000, 2 * (x * q), 20000 * q, 10000)

LEMMA ChargeNear ==
  ASSUME NEW c \in Component, NEW x \in Nat, NEW q \in Nat
  PROVE  Charge(c, x, q) \in Nat /\ ChargeOff(c, x, q)
<1> DEFINE r == RateAt(c, x)  f == AmountAt(c, x)  xq == x * q
<1>1. r \in Nat /\ f \in Nat /\ xq \in Nat
  BY AtPrice
<1>2. (2 * xq) * r = 2 * (xq * r) /\ (20000 * q) * f = 20000 * (f * q) /\ f * q \in Nat /\ xq * r \in Nat
  <2> HIDE DEF r, f, xq
  <2>1. QED BY <1>1
<1>3. /\ Rate(xq, r) \in Nat
      /\ -10000 <= 20000 * Rate(xq, r) - 2 * (xq * r)
      /\ 20000 * Rate(xq, r) - 2 * (xq * r) <= 10000
  <2>1. Rate(xq, r) \in Nat /\ RateOff(xq, r) /\ xq \in Nat /\ r \in Nat
    BY <1>1, RateNear, Zenon
  <2> HIDE DEF r, xq
  <2>2. QED BY <2>1 DEF RateOff
<1>4. \/ Charge(c, x, q) = Rate(xq, r) /\ f = 0
      \/ Charge(c, x, q) = f * q /\ r = 0
      \/ Charge(c, x, q) = Rate(xq, r) + f * q
      \/ Charge(c, x, q) = 0 /\ r = 0 /\ f = 0
  BY ChargeIs
<1> HIDE DEF r, f, xq
<1>5. f = 0 => f * q = 0
  OBVIOUS
<1>6. r = 0 => xq * r = 0
  BY <1>1
<1>7. /\ Charge(c, x, q) \in Nat
      /\ -10000 <= 20000 * Charge(c, x, q) - 2 * (xq * r) - 20000 * (f * q)
      /\ 20000 * Charge(c, x, q) - 2 * (xq * r) - 20000 * (f * q) <= 10000
  <2> DEFINE fq == f * q  xr == xq * r  rate == Rate(xq, r)
  <2>1. /\ fq \in Nat /\ xr \in Nat /\ rate \in Nat
        /\ -10000 <= 20000 * rate - 2 * xr /\ 20000 * rate - 2 * xr <= 10000
        /\ \/ Charge(c, x, q) = rate /\ fq = 0
           \/ Charge(c, x, q) = fq /\ xr = 0
           \/ Charge(c, x, q) = rate + fq
           \/ Charge(c, x, q) = 0 /\ xr = 0 /\ fq = 0
    BY <1>2, <1>3, <1>4, <1>5, <1>6
  <2> HIDE DEF fq, xr, rate
  <2>2. /\ Charge(c, x, q) \in Nat
        /\ -10000 <= 20000 * Charge(c, x, q) - 2 * xr - 20000 * fq
        /\ 20000 * Charge(c, x, q) - 2 * xr - 20000 * fq <= 10000
    BY <2>1
  <2>3. QED BY <2>2 DEF fq, xr
<1>8. QED BY <1>2, <1>7 DEF r, f, xq, Near, ChargeOff

-----------------------------------------------------------------------------
(* What a schedule charges *)

RatesAt(s, x)   == [i \in DOMAIN Sheet[s] |-> RateAt(Sheet[s][i], x)]
AmountsAt(s, x) == [i \in DOMAIN Sheet[s] |-> AmountAt(Sheet[s][i], x)]

LEMMA SheetType ==
  ASSUME NEW s \in Schedules
  PROVE  /\ Sheet[s] \in Seq(Component) /\ Len(Sheet[s]) \in Nat
         /\ DOMAIN Sheet[s] = 1..Len(Sheet[s])
         /\ \A i \in 1..Len(Sheet[s]) : Sheet[s][i] \in Component
<1>1. Sheet[s] \in Seq(Component)
  BY TariffAssumption
<1>2. QED BY <1>1

(* A sequence over the components of a schedule.                           *)
LEMMA OverSheet ==
  ASSUME NEW s \in Schedules, NEW f, f = [i \in DOMAIN Sheet[s] |-> f[i]],
         \A i \in 1..Len(Sheet[s]) : f[i] \in Int
  PROVE  f \in Seq(Int) /\ Len(f) = Len(Sheet[s])
<1>1. f \in [1..Len(Sheet[s]) -> Int] /\ Len(Sheet[s]) \in Nat
  BY SheetType
<1>2. QED BY <1>1

LEMMA AmountsAreSequences ==
  ASSUME NEW s \in Schedules, NEW x \in Nat, NEW q \in Nat
  PROVE  /\ Amounts(s, x, q) \in Seq(Int) /\ Len(Amounts(s, x, q)) = Len(Sheet[s])
         /\ \A i \in 1..Len(Sheet[s]) : Amounts(s, x, q)[i] = ComponentAmount(Sheet[s][i], x, q)
<1> DEFINE n == Len(Sheet[s])
<1>1. DOMAIN Sheet[s] = 1..n /\ \A i \in 1..n : Sheet[s][i] \in Component
  BY SheetType
<1>2. \A i \in 1..n : ComponentAmount(Sheet[s][i], x, q) \in Int
  <2>1. ASSUME NEW c \in Component PROVE ComponentAmount(c, x, q) \in Int
    BY ChargeNear DEF ComponentAmount, Component
  <2>2. QED BY <1>1, <2>1
<1>3. Amounts(s, x, q) \in Seq(Int) /\ Len(Amounts(s, x, q)) = n
  BY <1>1, <1>2, OverSheet DEF Amounts
<1>4. QED BY <1>1, <1>3 DEF Amounts

LEMMA TermsAreSequences ==
  ASSUME NEW s \in Schedules, NEW x \in Nat
  PROVE  /\ RatesAt(s, x) \in Seq(Int)    /\ Len(RatesAt(s, x)) = Len(Sheet[s])
         /\ AmountsAt(s, x) \in Seq(Int)  /\ Len(AmountsAt(s, x)) = Len(Sheet[s])
         /\ Weights(s) \in Seq(Int)       /\ Len(Weights(s)) = Len(Sheet[s])
         /\ \A i \in 1..Len(Sheet[s]) :
              /\ RatesAt(s, x)[i] = RateAt(Sheet[s][i], x)
              /\ AmountsAt(s, x)[i] = AmountAt(Sheet[s][i], x)
              /\ Weights(s)[i] = Weight(Sheet[s][i])
<1> DEFINE n == Len(Sheet[s])
<1>1. DOMAIN Sheet[s] = 1..n /\ \A i \in 1..n : Sheet[s][i] \in Component
  BY SheetType
<1>3. \A i \in 1..n : RateAt(Sheet[s][i], x) \in Int /\ AmountAt(Sheet[s][i], x) \in Int
  BY <1>1, AtPrice
<1>4. \A i \in 1..n : Weight(Sheet[s][i]) \in Int
  <2>1. ASSUME NEW c \in Component PROVE Weight(c) \in Int
    <3>1. /\ c.bp \in Nat /\ c.flat \in Nat /\ c.bands \in Seq(Band)
          /\ c.type \in {"RATE", "FLAT", "BANDS"}
      BY DEF Component
    <3>2. c.bands # <<>> => c.bands[1] \in Band
      BY <3>1
    <3>3. c.bands # <<>> => c.bands[1].bp \in Nat /\ c.bands[1].flat \in Nat
      BY <3>2 DEF Band
    <3>4. CASE c.type = "RATE"
      BY <3>1, <3>4 DEF Weight
    <3>5. CASE c.type = "FLAT"
      BY <3>1, <3>5 DEF Weight
    <3>6. CASE c.type = "BANDS"
      <4>1. Weight(c) = IF c.bands = <<>> THEN 0 ELSE 100 * c.bands[1].bp + c.bands[1].flat
        BY <3>6 DEF Weight
      <4>2. QED BY <3>3, <4>1
    <3>7. QED BY <3>1, <3>4, <3>5, <3>6
  <2>2. QED BY <1>1, <2>1
<1>6. RatesAt(s, x) \in Seq(Int) /\ Len(RatesAt(s, x)) = n
  BY <1>1, <1>3, OverSheet DEF RatesAt
<1>7. AmountsAt(s, x) \in Seq(Int) /\ Len(AmountsAt(s, x)) = n
  BY <1>1, <1>3, OverSheet DEF AmountsAt
<1>8. Weights(s) \in Seq(Int) /\ Len(Weights(s)) = n
  BY <1>1, <1>4, OverSheet DEF Weights
<1>9. QED BY <1>1, <1>6, <1>7, <1>8 DEF RatesAt, AmountsAt, Weights

LEMMA PaidType ==
  ASSUME NEW s \in Schedules, NEW x \in Nat, NEW q \in Nat, NEW I
  PROVE  Paid(s, I, x, q) \in Int
BY AmountsAreSequences, SumType DEF Paid

(* Without minimum fees a component pays what it charges.                  *)
LEMMA PaysCharge ==
  ASSUME NEW s \in Schedules, NoMinimum(s), NEW i \in 1..Len(Sheet[s]), NEW x \in Nat, NEW q \in Nat
  PROVE  ComponentAmount(Sheet[s][i], x, q) = Charge(Sheet[s][i], x, q)
<1>1. Sheet[s][i] \in Component /\ Sheet[s][i].min = 0
  BY SheetType DEF NoMinimum
<1>2. Charge(Sheet[s][i], x, q) \in Nat
  BY <1>1, ChargeNear
<1>3. QED BY <1>1, <1>2 DEF ComponentAmount

(* What a schedule without minimum fees costs is off by half a hundredth   *)
(* per component from a function of its rates and amounts at the price.    *)
PaidOff(s, I, x, q) ==
  Near(Paid(s, I, x, q), Sum(RatesAt(s, x), I), Sum(AmountsAt(s, x), I),
       20000, 2 * (x * q), 20000 * q, 10000 * Len(Sheet[s]))

LEMMA PaidNear ==
  ASSUME NEW s \in Schedules, NoMinimum(s), NEW x \in Nat, NEW q \in Nat, NEW I
  PROVE  PaidOff(s, I, x, q)
<1> DEFINE f == Amounts(s, x, q)  g == RatesAt(s, x)  h == AmountsAt(s, x)
           a == 20000  b == 2 * (x * q)  c == 20000 * q  e == 10000
<1>1. /\ f \in Seq(Int) /\ g \in Seq(Int) /\ h \in Seq(Int)
      /\ Len(f) = Len(Sheet[s]) /\ Len(g) = Len(f) /\ Len(h) = Len(f)
  BY AmountsAreSequences, TermsAreSequences
<1>2. a \in Int /\ b \in Int /\ c \in Int /\ e \in Nat
  OBVIOUS
<1>3. ASSUME NEW k \in 1..Len(f)
      PROVE  Near(f[k], g[k], h[k], a, b, c, e)
  <2> DEFINE p == Sheet[s][k]
  <2>1. k \in 1..Len(Sheet[s]) /\ p \in Component
    BY <1>1, SheetType
  <2>2. f[k] = ComponentAmount(p, x, q) /\ g[k] = RateAt(p, x) /\ h[k] = AmountAt(p, x)
    BY <2>1, AmountsAreSequences, TermsAreSequences, Zenon
  <2>3. ComponentAmount(p, x, q) = Charge(p, x, q)
    BY <2>1, PaysCharge
  <2>4. ChargeOff(p, x, q)
    BY <2>1, ChargeNear, Zenon
  <2>5. ChargeOff(p, x, q) <=> Near(Charge(p, x, q), RateAt(p, x), AmountAt(p, x), a, b, c, e)
    BY DEF ChargeOff
  <2> HIDE DEF p, f, g, h, a, b, c, e
  <2>6. QED BY <2>2, <2>3, <2>4, <2>5
<1>4. PaidOff(s, I, x, q) <=>
        Near(Sum(f, I), Sum(g, I), Sum(h, I), a, b, c, e * Len(Sheet[s]))
  BY DEF PaidOff, Paid
<1> HIDE DEF f, g, h, a, b, c, e
<1>5. Near(Sum(f, I), Sum(g, I), Sum(h, I), a, b, c, e * Len(f))
  <2>1. TermsNear(f, g, h, a, b, c, e)
    BY <1>3 DEF TermsNear
  <2>2. SumsNear(f, g, h, I, a, b, c, e)
    BY <1>1, <1>2, <2>1, SumNear
  <2>3. QED BY <2>2 DEF SumsNear
<1>6. QED BY <1>1, <1>4, <1>5

-----------------------------------------------------------------------------
(* Ranks and margins *)

LEMMA SumScaled ==
  ASSUME NEW f \in Seq(Int), NEW g \in Seq(Int), Len(g) = Len(f), NEW I, NEW b \in Int,
         \A k \in 1..Len(f) : f[k] = b * g[k]
  PROVE  Sum(f, I) = b * Sum(g, I)
<1>1. \A k \in 1..Len(f) : f[k] \in Int /\ g[k] \in Int
  OBVIOUS
<1> DEFINE one == 1  none == 0
<1>2. one \in Int /\ none \in Nat /\ \A k \in 1..Len(f) : Near(f[k], g[k], g[k], one, b, none, none)
  BY <1>1 DEF Near
<1>3. Near(Sum(f, I), Sum(g, I), Sum(g, I), one, b, none, none * Len(f))
  <2> HIDE DEF one, none
  <2>1. TermsNear(f, g, g, one, b, none, none)
    BY <1>2 DEF TermsNear
  <2>2. SumsNear(f, g, g, I, one, b, none, none)
    BY <1>2, <2>1, SumNear
  <2>3. QED BY <2>2 DEF SumsNear
<1>4. Sum(f, I) \in Int /\ Sum(g, I) \in Int /\ b * Sum(g, I) \in Int
  BY SumType
<1>5. none * Len(f) = 0
  OBVIOUS
<1>6. QED BY <1>3, <1>4, <1>5 DEF Near

LEMMA PlainWeighs ==
  ASSUME NEW c \in Component, NEW x \in Nat
  PROVE  /\ c.type = "RATE" => Weight(c) = 100 * RateAt(c, x) /\ RateAt(c, x) = c.bp
                               /\ AmountAt(c, x) = 0
         /\ c.type = "FLAT" => Weight(c) = AmountAt(c, x) /\ RateAt(c, x) = 0
<1>1. CASE c.type = "RATE"
  BY <1>1 DEF Weight, RateAt, AmountAt, Banded
<1>2. CASE c.type = "FLAT"
  BY <1>2 DEF Weight, RateAt, AmountAt, Banded
<1>3. QED BY <1>1, <1>2

(* Schedules that charge by rate weigh a hundred times their rates, and    *)
(* schedules that charge by amount their amounts, at every price.          *)
LEMMA PlainSums ==
  ASSUME NEW s \in Schedules, NEW x \in Nat, NEW I
  PROVE  LET W == Sum(Weights(s), I)  R == Sum(RatesAt(s, x), I)  F == Sum(AmountsAt(s, x), I)
         IN  /\ W \in Int /\ R \in Int /\ F \in Int
             /\ Plain(s, "RATE") => W = 100 * R /\ F = 0
             /\ Plain(s, "FLAT") => W = F /\ R = 0
<1> DEFINE w == Weights(s)  r == RatesAt(s, x)  f == AmountsAt(s, x)
<1>1. /\ w \in Seq(Int) /\ r \in Seq(Int) /\ f \in Seq(Int)
      /\ Len(w) = Len(Sheet[s]) /\ Len(r) = Len(Sheet[s]) /\ Len(f) = Len(Sheet[s])
      /\ \A k \in 1..Len(Sheet[s]) : /\ r[k] = RateAt(Sheet[s][k], x)
                                     /\ f[k] = AmountAt(Sheet[s][k], x)
                                     /\ w[k] = Weight(Sheet[s][k])
  BY TermsAreSequences
<1>2. \A k \in 1..Len(Sheet[s]) : Sheet[s][k] \in Component
  BY SheetType
<1>3. Sum(w, I) \in Int /\ Sum(r, I) \in Int /\ Sum(f, I) \in Int
  BY <1>1, SumType
<1>4. ASSUME Plain(s, "RATE") PROVE Sum(w, I) = 100 * Sum(r, I) /\ Sum(f, I) = 0
  <2>1. ASSUME NEW k \in 1..Len(Sheet[s]) PROVE w[k] = 100 * r[k] /\ f[k] = 0 * r[k]
    <3>1. Sheet[s][k].type = "RATE"
      BY <1>4, SheetType DEF Plain
    <3>2. Weight(Sheet[s][k]) = 100 * RateAt(Sheet[s][k], x) /\ AmountAt(Sheet[s][k], x) = 0
      BY <1>2, <3>1, PlainWeighs
    <3>3. RateAt(Sheet[s][k], x) \in Nat
      BY <1>2, AtPrice
    <3>4. QED BY <1>1, <3>2, <3>3
  <2> DEFINE b == 100  c == 0
  <2>2. b \in Int /\ c \in Int /\ \A k \in 1..Len(Sheet[s]) : w[k] = b * r[k] /\ f[k] = c * r[k]
    BY <2>1
  <2> HIDE DEF w, r, f, b, c
  <2>3. Sum(w, I) = b * Sum(r, I) /\ Sum(f, I) = c * Sum(r, I)
    BY <1>1, <2>2, SumScaled
  <2>4. QED BY <1>3, <2>3 DEF b, c
<1>5. ASSUME Plain(s, "FLAT") PROVE Sum(w, I) = Sum(f, I) /\ Sum(r, I) = 0
  <2>1. ASSUME NEW k \in 1..Len(Sheet[s]) PROVE w[k] = 1 * f[k] /\ r[k] = 0 * f[k]
    <3>1. Sheet[s][k].type = "FLAT"
      BY <1>5, SheetType DEF Plain
    <3>2. Weight(Sheet[s][k]) = AmountAt(Sheet[s][k], x) /\ RateAt(Sheet[s][k], x) = 0
      BY <1>2, <3>1, PlainWeighs
    <3>3. AmountAt(Sheet[s][k], x) \in Nat
      BY <1>2, AtPrice
    <3>4. QED BY <1>1, <3>2, <3>3
  <2> DEFINE b == 1  c == 0
  <2>2. b \in Int /\ c \in Int /\ \A k \in 1..Len(Sheet[s]) : w[k] = b * f[k] /\ r[k] = c * f[k]
    BY <2>1
  <2> HIDE DEF w, r, f, b, c
  <2>3. Sum(w, I) = b * Sum(f, I) /\ Sum(r, I) = c * Sum(f, I)
    BY <1>1, <2>2, SumScaled
  <2>4. QED BY <1>3, <2>3 DEF b, c
<1>6. QED BY <1>3, <1>4, <1>5

(* Two sums of payments compare as what they are near to.                  *)
Lighter(s, I, b, J, x, q) ==
  (2 * (x * q)) * Sum(RatesAt(s, x), I) + (20000 * q) * Sum(AmountsAt(s, x), I)
    <= (2 * (x * q)) * Sum(RatesAt(b, x), J) + (20000 * q) * Sum(AmountsAt(b, x), J)

LEMMA Compare ==
  ASSUME NEW s \in Schedules, NEW b \in Schedules, NoMinimum(s), NoMinimum(b),
         NEW x \in Nat, NEW q \in Nat, NEW I, NEW J,
         Lighter(s, I, b, J, x, q)
  PROVE  /\ 2 * Paid(s, I, x, q) <= 2 * Paid(b, J, x, q) + Len(Sheet[s]) + Len(Sheet[b])
         /\ Paid(s, I, x, q) <= Paid(b, J, x, q) + (Len(Sheet[s]) + Len(Sheet[b]))
<1> DEFINE P == Paid(s, I, x, q)  Q == Paid(b, J, x, q)  m == 2 * (x * q)  n == 20000 * q
           X == m * Sum(RatesAt(s, x), I)  U == n * Sum(AmountsAt(s, x), I)
           Y == m * Sum(RatesAt(b, x), J)  V == n * Sum(AmountsAt(b, x), J)
           k == Len(Sheet[s])  l == Len(Sheet[b])
<1>1. P \in Int /\ Q \in Int /\ k \in Nat /\ l \in Nat
  BY PaidType, SheetType
<1>2. m \in Int /\ n \in Int
  OBVIOUS
<1>3. X \in Int /\ U \in Int /\ Y \in Int /\ V \in Int
  <2>1. /\ Sum(RatesAt(s, x), I) \in Int /\ Sum(AmountsAt(s, x), I) \in Int
        /\ Sum(RatesAt(b, x), J) \in Int /\ Sum(AmountsAt(b, x), J) \in Int
    BY PlainSums
  <2> HIDE DEF m, n
  <2>2. QED BY <1>2, <2>1
<1>4. X + U <= Y + V
  BY DEF Lighter
<1>5. /\ 20000 * P - X - U <= 10000 * k
      /\ -(10000 * l) <= 20000 * Q - Y - V
  <2>1. PaidOff(s, I, x, q) /\ PaidOff(b, J, x, q)
    BY PaidNear
  <2>2. QED BY <2>1 DEF PaidOff, Near
<1> HIDE DEF P, Q, X, U, Y, V, k, l
<1>6. 2 * P <= 2 * Q + k + l /\ P <= Q + (k + l)
  BY <1>1, <1>3, <1>4, <1>5
<1>7. QED BY <1>6 DEF P, Q, k, l

(* Whatever is approved, the rank key orders rates, and amounts, as fees.  *)
LEMMA RanksFollow ==
  ASSUME NEW s \in Schedules, NEW n \in Schedules, NEW type \in {"RATE", "FLAT"},
         Plain(s, type), Plain(n, type), RankKey(s) <= RankKey(n), NEW p \in Nat, NEW q \in Nat
  PROVE  CustomerTotal(s, p, q) <= CustomerTotal(n, p, q) + Rounding(s, n)
<1> DEFINE I == By(s, "CUSTOMER")  J == By(n, "CUSTOMER")
           R == Sum(RatesAt(s, p), I)  F == Sum(AmountsAt(s, p), I)
           T == Sum(RatesAt(n, p), J)  G == Sum(AmountsAt(n, p), J)
           m == 2 * (p * q)  k == 20000 * q
<1>1. /\ R \in Int /\ F \in Int /\ T \in Int /\ G \in Int
      /\ \/ R <= T /\ F = 0 /\ G = 0
         \/ F <= G /\ R = 0 /\ T = 0
  <2>1. Sum(Weights(s), I) <= Sum(Weights(n), J)
    BY DEF RankKey
  <2>2. CASE type = "RATE"
    BY <2>1, <2>2, PlainSums
  <2>3. CASE type = "FLAT"
    BY <2>1, <2>3, PlainSums
  <2>4. QED BY <2>2, <2>3
<1>2. m \in Nat /\ k \in Nat
  OBVIOUS
<1> HIDE DEF R, F, T, G, m, k
<1>3. m * R <= m * T /\ k * F <= k * G /\ m * R \in Int /\ m * T \in Int /\ k * F \in Int /\ k * G \in Int
  BY <1>1, <1>2, Scales
<1>4. m * R + k * F <= m * T + k * G
  BY <1>3
<1>5. Paid(s, I, p, q) <= Paid(n, J, p, q) + (Len(Sheet[s]) + Len(Sheet[n]))
  <2>1. Lighter(s, I, n, J, p, q) /\ NoMinimum(s) /\ NoMinimum(n)
    BY <1>4 DEF R, F, T, G, m, k, Plain, Lighter
  <2> HIDE DEF I, J
  <2>2. QED BY <2>1, Compare
<1>6. QED BY <1>5 DEF CustomerTotal, Rounding

(* A schedule of rates that earns what it bears on the probe trade does so *)
(* on every trade: the probe's notional is a whole number of steps.        *)
LEMMA MarginsFollow ==
  ASSUME NEW s \in Schedules, Plain(s, "RATE"), ~ReverseMargin(s), NEW p \in Nat, NEW q \in Nat
  PROVE  CompanyBorne(s, p, q) <= OwnIncome(s, p, q) + Len(Sheet[s])
<1> DEFINE I == By(s, "COMPANY")  J == {i \in By(s, "CUSTOMER") : Sheet[s][i].kind = "OWN"}
           R == Sum(RatesAt(s, p), I)  T == Sum(RatesAt(s, p), J)
           F == Sum(AmountsAt(s, p), I)  G == Sum(AmountsAt(s, p), J)
           m == 2 * (p * q)  k == 20000 * q
           f == Amounts(s, MaxProbe, ProbeQty)  g == RatesAt(s, p)  a == 10000
<1>1. R \in Int /\ T \in Int /\ F = 0 /\ G = 0
  BY PlainSums
<1>2. \A i \in 1..Len(Sheet[s]) : f[i] = a * g[i]
  <2>1. ASSUME NEW i \in 1..Len(Sheet[s]) PROVE f[i] = a * g[i]
    <3> DEFINE c == Sheet[s][i]
    <3>1. c \in Component /\ c.type = "RATE" /\ NoMinimum(s)
      BY SheetType DEF Plain
    <3>2. f[i] = Charge(c, MaxProbe, ProbeQty) /\ g[i] = RateAt(c, p)
      <4>1. f[i] = ComponentAmount(c, MaxProbe, ProbeQty) /\ g[i] = RateAt(c, p)
        BY ProbeType, AmountsAreSequences, TermsAreSequences
      <4>2. ComponentAmount(c, MaxProbe, ProbeQty) = Charge(c, MaxProbe, ProbeQty)
        BY <3>1, ProbeType, PaysCharge
      <4>3. QED BY <4>1, <4>2
    <3>3. RateAt(c, p) = c.bp /\ RateAt(c, MaxProbe) = c.bp /\ c.bp \in Nat
      BY <3>1, PlainWeighs, ProbeType DEF Component
    <3>4. Charge(c, MaxProbe, ProbeQty) = Rate(MaxProbe * ProbeQty, c.bp)
      BY <3>1, <3>3, ProbeType, ChargeIs DEF Banded
    <3>5. Rate(MaxProbe * ProbeQty, c.bp) = 10000 * c.bp
      <4> HIDE DEF c
      <4>1. QED BY <3>3, RateOfProbe
    <3> HIDE DEF c, f, g
    <3>6. QED BY <3>2, <3>3, <3>4, <3>5
  <2>2. QED BY <2>1
<1>3. f \in Seq(Int) /\ g \in Seq(Int) /\ Len(f) = Len(Sheet[s]) /\ Len(g) = Len(f) /\ a \in Int
  BY AmountsAreSequences, TermsAreSequences, ProbeType
<1>4. Sum(f, I) <= Sum(f, J)
  <2>1. Sum(f, I) \in Int /\ Sum(f, J) \in Int /\ ~(Sum(f, I) > Sum(f, J))
    BY <1>3, SumType DEF ReverseMargin, CompanyBorne, OwnIncome, Paid
  <2>2. QED BY <2>1
<1>5. R <= T
  <2>1. Sum(f, I) = a * Sum(g, I) /\ Sum(f, J) = a * Sum(g, J)
    <3> HIDE DEF f, g, a, I, J
    <3>1. QED BY <1>2, <1>3, SumScaled
  <2>2. QED BY <1>1, <1>4, <2>1
<1>6. m \in Nat /\ k \in Nat
  OBVIOUS
<1> HIDE DEF R, T, F, G, m, k
<1>7. m * R <= m * T /\ m * R \in Int /\ m * T \in Int /\ k * F = 0 /\ k * G = 0
  BY <1>1, <1>5, <1>6, Scales
<1>8. m * R + k * F <= m * T + k * G
  BY <1>7
<1>9. 2 * Paid(s, I, p, q) <= 2 * Paid(s, J, p, q) + Len(Sheet[s]) + Len(Sheet[s])
  <2>1. Lighter(s, I, s, J, p, q) /\ NoMinimum(s)
    BY <1>8 DEF R, F, T, G, m, k, Plain, Lighter
  <2> HIDE DEF I, J
  <2>2. QED BY <2>1, Compare
<1>10. Paid(s, I, p, q) \in Int /\ Paid(s, J, p, q) \in Int /\ Len(Sheet[s]) \in Nat
  BY PaidType, SheetType
<1>11. QED BY <1>9, <1>10 DEF CompanyBorne, OwnIncome

-----------------------------------------------------------------------------
(* Stretches of prices without edges *)

LEMMA SumRises ==
  ASSUME NEW f \in Seq(Int), NEW g \in Seq(Int), Len(g) = Len(f), NEW I,
         \A k \in 1..Len(f) : f[k] <= g[k]
  PROVE  Sum(f, I) <= Sum(g, I)
<1> DEFINE n == Len(f)
<1>0. n \in Nat
  OBVIOUS
<1>1. PICK F \in [0..n -> Int] : Steps(f, I, F, n) /\ Sum(f, I) = F[n]
  BY SumSteps
<1>2. PICK G \in [0..n -> Int] : Steps(g, I, G, n) /\ Sum(g, I) = G[n]
  BY SumSteps
<1> DEFINE T == {k \in 0..n : F[k] <= G[k]}
<1>3. 0 \in T
  BY <1>0, <1>1, <1>2 DEF Steps
<1>4. ASSUME NEW k \in 1..n, k - 1 \in T PROVE k \in T
  <2> DEFINE u == IF k \in I THEN f[k] ELSE 0  v == IF k \in I THEN g[k] ELSE 0
  <2>1. F[k] = F[k - 1] + u /\ G[k] = G[k - 1] + v
    BY <1>1, <1>2 DEF Steps
  <2>2. u \in Int /\ v \in Int /\ u <= v
    OBVIOUS
  <2>3. k - 1 \in 0..n /\ F[k - 1] <= G[k - 1]
    BY <1>0, <1>4
  <2>4. F[k - 1] \in Int /\ G[k - 1] \in Int
    BY <1>1, <1>2, <2>3
  <2> HIDE DEF u, v
  <2>5. F[k] <= G[k]
    BY <2>1, <2>2, <2>3, <2>4
  <2>6. QED BY <1>0, <2>5
<1>5. \A k \in 0..n : k \in T
  <2> HIDE DEF T, n
  <2>1. QED BY <1>0, <1>3, <1>4, UpTo
<1>6. n \in T
  BY <1>0, <1>5
<1>7. QED BY <1>1, <1>2, <1>6

(* The same bands of a schedule hold both prices.                          *)
Agree(s, x, y) ==
  \A i \in DOMAIN Sheet[s] : \A k \in DOMAIN Sheet[s][i].bands :
    InBand(Sheet[s][i].bands[k], x) <=> InBand(Sheet[s][i].bands[k], y)

LEMMA SameComponentAt ==
  ASSUME NEW c \in Component, NEW x \in Nat, NEW y \in Nat,
         \A k \in DOMAIN c.bands : InBand(c.bands[k], x) <=> InBand(c.bands[k], y)
  PROVE  /\ Banded(c, x) <=> Banded(c, y)
         /\ RateAt(c, x) = RateAt(c, y) /\ AmountAt(c, x) = AmountAt(c, y)
<1> DEFINE P(i, z) == InBand(c.bands[i], z) /\ \A j \in 1..(i - 1) : ~InBand(c.bands[j], z)
<1>1. c.bands \in Seq(Band)
  BY DEF Component
<1>2. \A i \in DOMAIN c.bands : P(i, x) <=> P(i, y)
  <2>1. ASSUME NEW i \in DOMAIN c.bands PROVE P(i, x) <=> P(i, y)
    <3>1. \A j \in 1..(i - 1) : j \in DOMAIN c.bands
      BY <1>1
    <3>2. QED BY <3>1
  <2>2. QED BY <2>1
<1>3. FirstBand(c, x) = FirstBand(c, y)
  <2>1. FirstBand(c, x) = (CHOOSE i \in DOMAIN c.bands : P(i, x))
    BY DEF FirstBand
  <2>2. FirstBand(c, y) = (CHOOSE i \in DOMAIN c.bands : P(i, y))
    BY DEF FirstBand
  <2> HIDE DEF P
  <2>3. (CHOOSE i \in DOMAIN c.bands : P(i, x)) = (CHOOSE i \in DOMAIN c.bands : P(i, y))
    BY <1>2, Zenon
  <2>4. QED BY <2>1, <2>2, <2>3
<1>4. Banded(c, x) <=> Banded(c, y)
  BY DEF Banded
<1>5. QED BY <1>3, <1>4, Zenon DEF RateAt, AmountAt

LEMMA SameAt ==
  ASSUME NEW s \in Schedules, NEW x \in Nat, NEW y \in Nat, Agree(s, x, y)
  PROVE  RatesAt(s, x) = RatesAt(s, y) /\ AmountsAt(s, x) = AmountsAt(s, y)
<1>1. \A i \in DOMAIN Sheet[s] : /\ RateAt(Sheet[s][i], x) = RateAt(Sheet[s][i], y)
                                 /\ AmountAt(Sheet[s][i], x) = AmountAt(Sheet[s][i], y)
  BY SheetType, SameComponentAt DEF Agree
<1>2. QED BY <1>1 DEF RatesAt, AmountsAt

(* Inside a band a schedule does not get cheaper as the price rises.       *)
LEMMA PaidRises ==
  ASSUME NEW s \in Schedules, NEW x \in Nat, NEW y \in Nat, x <= y, Agree(s, x, y),
         NEW q \in Nat, NEW I
  PROVE  Paid(s, I, x, q) <= Paid(s, I, y, q)
<1>1. ASSUME NEW i \in 1..Len(Sheet[s])
      PROVE  Amounts(s, x, q)[i] <= Amounts(s, y, q)[i]
  <2> DEFINE c == Sheet[s][i]
  <2>1. /\ c \in Component
        /\ Banded(c, x) <=> Banded(c, y)
        /\ RateAt(c, x) = RateAt(c, y) /\ AmountAt(c, x) = AmountAt(c, y)
    BY SheetType, SameComponentAt DEF Agree
  <2> HIDE DEF c
  <2>2. x * q \in Nat /\ y * q \in Nat /\ x * q <= y * q
    OBVIOUS
  <2>3. RateAt(c, x) \in Nat /\ AmountAt(c, x) \in Nat
    BY <2>1, AtPrice
  <2>4. PICK u, v, r, f :
          u = x * q /\ v = y * q /\ r = RateAt(c, x) /\ f = AmountAt(c, x)
    BY Zenon
  <2>5. Rate(u, r) <= Rate(v, r) /\ Rate(u, r) \in Nat /\ Rate(v, r) \in Nat
    BY <2>2, <2>3, <2>4, RateRises, RateNear
  <2>6. Charge(c, x, q) \in Nat /\ Charge(c, y, q) \in Nat
    BY <2>1, ChargeNear
  <2>7. f * q \in Nat
    BY <2>3, <2>4
  <2>8. \/ /\ c.type = "RATE" /\ Charge(c, x, q) = Rate(u, r)
        \/ /\ c.type = "FLAT" /\ Charge(c, x, q) = f * q
        \/ /\ Banded(c, x) /\ Charge(c, x, q) = Rate(u, r) + f * q
        \/ /\ c.type = "BANDS" /\ ~Banded(c, x) /\ Charge(c, x, q) = 0
    BY <2>1, <2>4, ChargeIs
  <2>9. \/ /\ c.type = "RATE" /\ Charge(c, y, q) = Rate(v, r)
        \/ /\ c.type = "FLAT" /\ Charge(c, y, q) = f * q
        \/ /\ Banded(c, x) /\ Charge(c, y, q) = Rate(v, r) + f * q
        \/ /\ c.type = "BANDS" /\ ~Banded(c, x) /\ Charge(c, y, q) = 0
    BY <2>1, <2>4, ChargeIs
  <2>10. Charge(c, x, q) <= Charge(c, y, q)
    <3> DEFINE fq == f * q
    <3>1. fq \in Nat
      BY <2>7
    <3> HIDE DEF fq
    <3>2. Banded(c, x) => c.type = "BANDS"
      BY DEF Banded
    <3>3. QED BY <2>5, <2>8, <2>9, <3>1, <3>2 DEF fq
  <2>11. c.min \in Nat
    BY <2>1 DEF Component
  <2>12. ComponentAmount(c, x, q) <= ComponentAmount(c, y, q)
    BY <2>6, <2>10, <2>11 DEF ComponentAmount
  <2>13. QED BY <2>12, AmountsAreSequences DEF c
<1>2. QED BY <1>1, AmountsAreSequences, SumRises DEF Paid

-----------------------------------------------------------------------------
(* Edges *)

LEMMA BandIn ==
  ASSUME NEW s \in Schedules, NEW d
  PROVE  d \in BandsOf(s) <=>
           \E i \in DOMAIN Sheet[s] : \E k \in DOMAIN Sheet[s][i].bands : d = Sheet[s][i].bands[k]
BY DEF BandsOf

LEMMA BandType ==
  ASSUME NEW s \in Schedules, NEW d \in BandsOf(s)
  PROVE  d \in Band
<1>1. PICK i \in DOMAIN Sheet[s] : \E k \in DOMAIN Sheet[s][i].bands : d = Sheet[s][i].bands[k]
  BY BandIn
<1>2. Sheet[s][i].bands \in Seq(Band)
  BY <1>1, SheetType DEF Component
<1>3. QED BY <1>1, <1>2

(* Bands without gaps: one begins at 0, one ends where another begins, and *)
(* one that ends is at least two hundredths wide.                          *)
LEMMA BandsMeet ==
  ASSUME NEW s \in Schedules, Contiguous(s), NEW d \in BandsOf(s)
  PROVE  /\ d.from \in Nat /\ d.to \in Nat
         /\ \E e \in BandsOf(s) : e.from = 0
         /\ d.to # NoEdge => d.from + 1 < d.to /\ \E e \in BandsOf(s) : e.from = d.to
         /\ d.from # 0 => \E e \in BandsOf(s) : e.to = d.from
<1>1. PICK i \in DOMAIN Sheet[s] : \E k \in DOMAIN Sheet[s][i].bands : d = Sheet[s][i].bands[k]
  BY BandIn
<1> DEFINE D == Sheet[s][i].bands
<1>2. PICK k \in DOMAIN D : d = D[k]
  BY <1>1
<1>3. D \in Seq(Band)
  BY <1>1, SheetType DEF Component
<1>4. Len(D) \in Nat \ {0} /\ DOMAIN D = 1..Len(D) /\ D # <<>>
  BY <1>2, <1>3
<1>5. /\ D[1].from = 0 /\ D[Len(D)].to = NoEdge
      /\ \A j \in 1..(Len(D) - 1) : D[j].to = D[j + 1].from /\ D[j].from + 1 < D[j].to
  BY <1>1, <1>4 DEF Contiguous
<1>6. \A j \in 1..Len(D) : D[j] \in BandsOf(s) /\ D[j] \in Band
  BY <1>1, <1>3, <1>4, BandIn
<1> HIDE DEF D
<1>7. d.from \in Nat /\ d.to \in Nat
  BY <1>2, <1>4, <1>6 DEF Band
<1>8. \E e \in BandsOf(s) : e.from = 0
  BY <1>4, <1>5, <1>6
<1>9. ASSUME d.to # NoEdge
      PROVE  d.from + 1 < d.to /\ \E e \in BandsOf(s) : e.from = d.to
  <2>1. k \in 1..(Len(D) - 1) /\ k + 1 \in 1..Len(D)
    BY <1>2, <1>4, <1>5, <1>9
  <2>2. QED BY <1>2, <1>5, <1>6, <2>1
<1>10. ASSUME d.from # 0
       PROVE  \E e \in BandsOf(s) : e.to = d.from
  <2>1. k - 1 \in 1..(Len(D) - 1) /\ k - 1 \in 1..Len(D) /\ (k - 1) + 1 = k
    <3>1. k # 1
      BY <1>2, <1>5, <1>10
    <3>2. k \in 1..Len(D)
      BY <1>2, <1>4
    <3>3. QED BY <1>4, <3>1, <3>2
  <2>2. D[k - 1].to = D[k].from
    BY <1>5, <2>1
  <2>3. QED BY <1>2, <1>6, <2>1, <2>2
<1>11. QED BY <1>7, <1>8, <1>9, <1>10

(* Where no band begins between two prices the same bands hold both.       *)
LEMMA AgreeBetween ==
  ASSUME NEW s \in Schedules, Contiguous(s), NEW x \in Nat, NEW y \in Nat, x <= y,
         \A d \in BandsOf(s) : ~(x < d.from /\ d.from <= y)
  PROVE  Agree(s, x, y) /\ Agree(s, y, x)
<1>1. ASSUME NEW d \in BandsOf(s) PROVE InBand(d, x) <=> InBand(d, y)
  <2>1. /\ d.from \in Nat /\ d.to \in Nat
        /\ d.to # NoEdge => \E e \in BandsOf(s) : e.from = d.to
    BY BandsMeet
  <2>2. d.to # NoEdge => ~(x < d.to /\ d.to <= y)
    BY <2>1
  <2>3. ~(x < d.from /\ d.from <= y)
    OBVIOUS
  <2>4. QED BY <2>1, <2>2, <2>3 DEF InBand
<1>2. QED BY <1>1, BandIn DEF Agree

-----------------------------------------------------------------------------
(* Probes *)

LEMMA Probes ==
  ASSUME NEW s \in Schedules, NEW b \in Schedules
  PROVE  LET B == BandsOf(s) \cup BandsOf(b)  P == ProbePrices(s, b)
         IN  /\ 100 \in P /\ MaxProbe \in P
             /\ \A d \in B : d.from \in Nat /\ d.to \in Nat
             /\ \A d \in B : d.from + 1 \in P
             /\ \A d \in B : d.to # NoEdge => Higher(d.from + 1, d.to - 1) \in P
             /\ P \subseteq Nat \ {0}
<1> DEFINE B == BandsOf(s) \cup BandsOf(b)
           E == {d \in B : d.to # NoEdge}
           P == {100, 100 * 100, MaxProbe} \cup {d.from + 1 : d \in B}
                  \cup {Higher(d.from + 1, d.to - 1) : d \in E}
<1>1. P = ProbePrices(s, b)
  BY Zenon DEF ProbePrices
<1>2. \A d \in B : d.from \in Nat /\ d.to \in Nat
  <2>1. ASSUME NEW t \in Schedules, NEW d \in BandsOf(t) PROVE d \in Band
    BY BandType
  <2>2. QED BY <2>1 DEF Band
<1>3. \A d \in E : Higher(d.from + 1, d.to - 1) \in Nat \ {0}
  BY <1>2 DEF Higher
<1>4. {100, 100 * 100, MaxProbe} \subseteq Nat \ {0}
  BY SMT DEF MaxProbe
<1>5. {d.from + 1 : d \in B} \subseteq Nat \ {0}
  BY <1>2
<1>6. {Higher(d.from + 1, d.to - 1) : d \in E} \subseteq Nat \ {0}
  BY <1>3
<1>7. P \subseteq Nat \ {0}
  BY <1>4, <1>5, <1>6
<1>8. 100 \in P /\ MaxProbe \in P
  OBVIOUS
<1>9. \A d \in B : d.from + 1 \in P
  OBVIOUS
<1>10. \A d \in B : d.to # NoEdge => Higher(d.from + 1, d.to - 1) \in P
  OBVIOUS
<1> HIDE DEF P, B
<1>11. QED BY <1>1, <1>2, <1>7, <1>8, <1>9, <1>10 DEF B

(* Each price has a probe below it with no edge between.                   *)
LEMMA ProbeBelow ==
  ASSUME NEW s \in Schedules, NEW b \in Schedules, Contiguous(s), Contiguous(b),
         NEW p \in Nat, 100 <= p, \A d \in BandsOf(s) \cup BandsOf(b) : d.from # p
  PROVE  \E l \in ProbePrices(s, b) :
           l <= p /\ \A d \in BandsOf(s) \cup BandsOf(b) : ~(l < d.from /\ d.from <= p)
<1> DEFINE B == BandsOf(s) \cup BandsOf(b)
           L == {n \in Nat : \E d \in B : d.from <= p /\ n = p - d.from}
<1>1. /\ 100 \in ProbePrices(s, b)
      /\ \A d \in B : d.from \in Nat /\ d.from + 1 \in ProbePrices(s, b)
  BY Probes
<1>2. CASE B = {}
  BY <1>1, <1>2
<1>3. CASE B # {}
  <2>1. PICK z \in B : z.from = 0
    BY <1>3, BandsMeet
  <2>2. p \in L
    BY <2>1
  <2>3. PICK m \in L : \A n \in L : m <= n
    <3>1. L \in SUBSET Nat /\ L # {}
      BY <2>2
    <3> HIDE DEF L
    <3>2. QED BY <3>1, LeastNumber
  <2>4. PICK e \in B : e.from <= p /\ m = p - e.from
    BY <2>3
  <2>5. \A d \in B : d.from <= p => d.from <= e.from
    <3>1. ASSUME NEW d \in B, d.from <= p PROVE d.from <= e.from
      <4>1. d.from \in Nat /\ e.from \in Nat
        BY <1>1
      <4>2. p - d.from \in L
        BY <3>1, <4>1
      <4>3. m <= p - d.from
        BY <2>3, <4>2
      <4>4. QED BY <2>4, <4>1, <4>3
    <3>2. QED BY <3>1
  <2>6. e.from \in Nat /\ e.from + 1 <= p /\ e.from + 1 \in ProbePrices(s, b)
    BY <1>1, <2>4
  <2>7. \A d \in B : ~(e.from + 1 < d.from /\ d.from <= p)
    BY <1>1, <2>5, <2>6
  <2>8. QED BY <2>6, <2>7
<1>4. QED BY <1>2, <1>3

(* The price before an edge is probed.                                     *)
LEMMA ProbeBefore ==
  ASSUME NEW s \in Schedules, NEW b \in Schedules, Contiguous(s), Contiguous(b),
         NEW d \in BandsOf(s) \cup BandsOf(b), d.from # 0
  PROVE  d.from - 1 \in ProbePrices(s, b)
<1>1. PICK e \in BandsOf(s) \cup BandsOf(b) : e.to = d.from
  BY BandsMeet
<1>2. /\ e.from \in Nat /\ e.to \in Nat /\ e.to # NoEdge
      /\ e.from + 1 < e.to
  BY <1>1, BandsMeet DEF NoEdge
<1>3. Higher(e.from + 1, e.to - 1) \in ProbePrices(s, b)
  BY <1>2, Probes
<1>4. Higher(e.from + 1, e.to - 1) = e.to - 1
  BY <1>2 DEF Higher
<1>5. QED BY <1>1, <1>3, <1>4

(* And a probe above it, up to the largest.                                *)
LEMMA ProbeAbove ==
  ASSUME NEW s \in Schedules, NEW b \in Schedules, Contiguous(s), Contiguous(b),
         NEW p \in Nat, p <= MaxProbe
  PROVE  \E h \in ProbePrices(s, b) :
           p <= h /\ \A d \in BandsOf(s) \cup BandsOf(b) : ~(p < d.from /\ d.from <= h)
<1> DEFINE B == BandsOf(s) \cup BandsOf(b)
           U == {n \in Nat : p < n /\ \E d \in B : n = d.from}
<1>1. MaxProbe \in ProbePrices(s, b) /\ \A d \in B : d.from \in Nat
  BY Probes
<1>2. CASE U = {}
  BY <1>1, <1>2
<1>3. CASE U # {}
  <2>1. PICK m \in U : \A n \in U : m <= n
    <3>1. U \in SUBSET Nat
      OBVIOUS
    <3> HIDE DEF U
    <3>2. QED BY <1>3, <3>1, LeastNumber
  <2>2. PICK d \in B : m = d.from
    BY <2>1
  <2>3. m \in Nat /\ p < m /\ m - 1 \in ProbePrices(s, b)
    <3>1. m \in Nat /\ p < m
      BY <2>1
    <3>2. d.from # 0
      BY <2>2, <3>1
    <3>3. QED BY <2>2, <3>1, <3>2, ProbeBefore
  <2>4. \A e \in B : ~(p < e.from /\ e.from <= m - 1)
    BY <1>1, <2>1, <2>3
  <2>5. QED BY <2>3, <2>4
<1>4. QED BY <1>2, <1>3

-----------------------------------------------------------------------------
(* Between the probes *)

(* A linear function between two places is no higher than at both.         *)
LEMMA BetweenEnds ==
  ASSUME NEW A \in Int, NEW K \in Int, NEW M \in Int, NEW l \in Nat, NEW p \in Nat, NEW h \in Nat,
         l <= p, p <= h, l * A + K <= M, h * A + K <= M
  PROVE  p * A + K <= M
<1>1. CASE A >= 0
  <2>1. p * A <= h * A
    BY <1>1
  <2>2. p * A \in Int /\ h * A \in Int
    OBVIOUS
  <2>3. QED BY <2>1, <2>2
<1>2. CASE A < 0
  <2>1. p * A <= l * A
    <3>1. p = l + (p - l) /\ p - l \in Nat
      OBVIOUS
    <3>2. (p - l) * A <= 0
      BY <1>2, <3>1
    <3>3. (l + (p - l)) * A = l * A + (p - l) * A
      OBVIOUS
    <3>4. l * A \in Int /\ (p - l) * A \in Int
      OBVIOUS
    <3>5. QED BY <3>1, <3>2, <3>3, <3>4
  <2>2. p * A \in Int /\ l * A \in Int
    OBVIOUS
  <2>3. QED BY <2>1, <2>2
<1>3. QED BY <1>1, <1>2

(* And a share of a bounded value is bounded by the whole bound.           *)
LEMMA ShareBelow ==
  ASSUME NEW q \in 1..10, NEW Z \in Int, NEW M \in Nat, Z <= M
  PROVE  q * Z <= 10 * M
<1>1. q * Z <= q * M
  OBVIOUS
<1>2. q * M <= 10 * M
  OBVIOUS
<1>3. QED BY <1>1, <1>2

LEMMA RoundingType ==
  ASSUME NEW s \in Schedules, NEW b \in Schedules
  PROVE  Rounding(s, b) \in Nat
<1>1. Len(Sheet[s]) \in Nat /\ Len(Sheet[b]) \in Nat
  BY SheetType
<1>2. \A k, l \in Nat : k + l \in Nat
  OBVIOUS
<1>3. QED BY <1>1, <1>2, Zenon DEF Rounding

(* Excess of s over b at price x, from the rates and amounts at price y.   *)
Excess(s, b, I, J, x, y) ==
  x * (Sum(RatesAt(s, y), I) - Sum(RatesAt(b, y), J))
    + 10000 * (Sum(AmountsAt(s, y), I) - Sum(AmountsAt(b, y), J))

LEMMA ExpandExcess ==
  ASSUME NEW x \in Int, NEW q \in Int, NEW R \in Int, NEW T \in Int, NEW F \in Int, NEW G \in Int
  PROVE  ((2 * (x * q)) * R + (20000 * q) * F) - ((2 * (x * q)) * T + (20000 * q) * G)
           = 2 * (q * (x * (R - T) + 10000 * (F - G)))
OBVIOUS

LEMMA ExcessNear ==
  ASSUME NEW s \in Schedules, NEW b \in Schedules, NoMinimum(s), NoMinimum(b),
         NEW x \in Nat, NEW q \in Nat, NEW I, NEW J
  PROVE  LET D == 20000 * Paid(s, I, x, q) - 20000 * Paid(b, J, x, q)
                    - 2 * (q * Excess(s, b, I, J, x, x))
         IN  -(10000 * Rounding(s, b)) <= D /\ D <= 10000 * Rounding(s, b)
<1> DEFINE R == Sum(RatesAt(s, x), I)  F == Sum(AmountsAt(s, x), I)
           T == Sum(RatesAt(b, x), J)  G == Sum(AmountsAt(b, x), J)
           X == (2 * (x * q)) * R  U == (20000 * q) * F
           Y == (2 * (x * q)) * T  V == (20000 * q) * G
           Z == q * (x * (R - T) + 10000 * (F - G))
           P == Paid(s, I, x, q)  Q == Paid(b, J, x, q)
           k == Len(Sheet[s])  l == Len(Sheet[b])
<1>1. R \in Int /\ F \in Int /\ T \in Int /\ G \in Int
  BY PlainSums
<1>2. P \in Int /\ Q \in Int /\ k \in Nat /\ l \in Nat
  BY PaidType, SheetType
<1>3. /\ -(10000 * k) <= 20000 * P - X - U /\ 20000 * P - X - U <= 10000 * k
      /\ -(10000 * l) <= 20000 * Q - Y - V /\ 20000 * Q - Y - V <= 10000 * l
  <2>1. PaidOff(s, I, x, q) /\ PaidOff(b, J, x, q)
    BY PaidNear
  <2>2. QED BY <2>1 DEF PaidOff, Near
<1>4. (X + U) - (Y + V) = 2 * Z
  <2> HIDE DEF R, F, T, G
  <2>1. QED BY <1>1, ExpandExcess
<1>5. X \in Int /\ U \in Int /\ Y \in Int /\ V \in Int /\ Z \in Int
  <2> HIDE DEF R, F, T, G
  <2>1. QED BY <1>1
<1>6. q * Excess(s, b, I, J, x, x) = Z /\ Rounding(s, b) = k + l
  BY DEF Excess, Rounding
<1> HIDE DEF X, U, Y, V, Z, P, Q, k, l
<1>7. /\ -(10000 * (k + l)) <= 20000 * P - 20000 * Q - 2 * Z
      /\ 20000 * P - 20000 * Q - 2 * Z <= 10000 * (k + l)
  BY <1>2, <1>3, <1>4, <1>5
<1>8. QED BY <1>6, <1>7 DEF P, Q

(* A probe that passes bounds the excess.                                  *)
LEMMA ProbeSays ==
  ASSUME NEW s \in Schedules, NEW b \in Schedules, NoMinimum(s), NoMinimum(b),
         NEW x \in Nat, NEW I, NEW J, Paid(s, I, x, ProbeQty) <= Paid(b, J, x, ProbeQty)
  PROVE  Excess(s, b, I, J, x, x) <= 500 * Rounding(s, b)
<1> DEFINE P == Paid(s, I, x, 10)  Q == Paid(b, J, x, 10)  Z == Excess(s, b, I, J, x, x)
           r == Rounding(s, b)
<1>1. P \in Int /\ Q \in Int /\ r \in Nat
  BY PaidType, RoundingType
<1>2. Z \in Int
  BY PlainSums DEF Excess
<1>3. P <= Q
  BY DEF ProbeQty
<1>4. -(10000 * r) <= 20000 * P - 20000 * Q - 2 * (10 * Z)
  BY ExcessNear
<1> HIDE DEF P, Q, Z, r
<1>5. Z <= 500 * r
  BY <1>1, <1>2, <1>3, <1>4
<1>6. QED BY <1>5 DEF Z, r

(* A bounded excess bounds what any smaller trade costs more.              *)
LEMMA ExcessBounds ==
  ASSUME NEW s \in Schedules, NEW b \in Schedules, NoMinimum(s), NoMinimum(b),
         NEW x \in Nat, NEW q \in 1..ProbeQty, NEW I, NEW J,
         Excess(s, b, I, J, x, x) <= 500 * Rounding(s, b)
  PROVE  Paid(s, I, x, q) <= Paid(b, J, x, q) + Rounding(s, b)
<1> DEFINE P == Paid(s, I, x, q)  Q == Paid(b, J, x, q)  Z == Excess(s, b, I, J, x, x)
           r == Rounding(s, b)
<1>0. q \in 1..10 /\ q \in Nat
  BY DEF ProbeQty
<1>1. P \in Int /\ Q \in Int /\ r \in Nat
  BY <1>0, PaidType, RoundingType
<1>2. Z \in Int
  BY PlainSums DEF Excess
<1>3. Z <= 500 * r
  OBVIOUS
<1>4. 20000 * P - 20000 * Q - 2 * (q * Z) <= 10000 * r
  BY <1>0, ExcessNear
<1> HIDE DEF P, Q, Z, r
<1>5. q * Z <= 10 * (500 * r)
  BY <1>0, <1>1, <1>2, <1>3, ShareBelow
<1>6. q * Z \in Int
  BY <1>0, <1>2
<1>7. P <= Q + r
  BY <1>1, <1>4, <1>5, <1>6
<1>8. QED BY <1>7 DEF P, Q, r

(* Probes at both ends of a stretch without edges decide about it.         *)
LEMMA BetweenProbes ==
  ASSUME NEW s \in Schedules, NEW b \in Schedules, NoMinimum(s), NoMinimum(b), Dominates(s, b),
         NEW l \in ProbePrices(s, b), NEW h \in ProbePrices(s, b), NEW p \in Nat, l <= p, p <= h,
         Agree(s, l, p), Agree(s, h, p), Agree(b, l, p), Agree(b, h, p), NEW q \in 1..ProbeQty
  PROVE  CustomerTotal(s, p, q) <= CustomerTotal(b, p, q) + Rounding(s, b)
<1> DEFINE I == By(s, "CUSTOMER")  J == By(b, "CUSTOMER")
           A == Sum(RatesAt(s, p), I) - Sum(RatesAt(b, p), J)
           K == 10000 * (Sum(AmountsAt(s, p), I) - Sum(AmountsAt(b, p), J))
           M == 500 * Rounding(s, b)
<1>1. l \in Nat /\ h \in Nat
  BY Probes
<1>2. ASSUME NEW x \in ProbePrices(s, b), x \in Nat, Agree(s, x, p), Agree(b, x, p)
      PROVE  x * A + K <= M
  <2>1. Gap(s, b, x) <= 0
    BY DEF Dominates
  <2>2. Paid(s, I, x, ProbeQty) \in Int /\ Paid(b, J, x, ProbeQty) \in Int
    BY <1>2, ProbeType, PaidType
  <2>3. Paid(s, I, x, ProbeQty) <= Paid(b, J, x, ProbeQty)
    BY <2>1, <2>2 DEF Gap, CustomerTotal
  <2>4. Excess(s, b, I, J, x, x) <= M
    BY <1>2, <2>3, ProbeSays
  <2>5. /\ RatesAt(s, x) = RatesAt(s, p) /\ AmountsAt(s, x) = AmountsAt(s, p)
        /\ RatesAt(b, x) = RatesAt(b, p) /\ AmountsAt(b, x) = AmountsAt(b, p)
    BY <1>2, SameAt
  <2>6. QED BY <2>4, <2>5 DEF Excess
<1>3. A \in Int /\ K \in Int /\ M \in Int
  <2>1. Rounding(s, b) \in Nat
    BY RoundingType
  <2>2. QED BY <2>1, PlainSums
<1>4. l * A + K <= M /\ h * A + K <= M
  BY <1>1, <1>2
<1>5. Excess(s, b, I, J, p, p) = p * A + K
  BY DEF Excess
<1> HIDE DEF I, J, A, K, M
<1>6. p * A + K <= M
  BY <1>1, <1>3, <1>4, BetweenEnds
<1>7. QED BY <1>5, <1>6, ExcessBounds DEF M, CustomerTotal, I, J

-----------------------------------------------------------------------------
(* What registration decides *)

(* A schedule that passes the probes is nowhere dearer than its base.      *)
LEMMA DearerNowhere ==
  ASSUME NEW s \in Schedules, NEW b \in Schedules, Dominates(s, b),
         NoMinimum(s), NoMinimum(b), Contiguous(s), Contiguous(b),
         NEW p \in Nat, 100 <= p, p <= MaxProbe, NEW q \in 1..ProbeQty
  PROVE  CustomerTotal(s, p, q) <= CustomerTotal(b, Inside(s, b, p), q) + Rounding(s, b)
<1> DEFINE B == BandsOf(s) \cup BandsOf(b)  P == ProbePrices(s, b)
<1>1. CASE p \in P
  <2>1. Agree(s, p, p) /\ Agree(b, p, p)
    BY DEF Agree
  <2>2. CustomerTotal(s, p, q) <= CustomerTotal(b, p, q) + Rounding(s, b)
    BY <1>1, <2>1, BetweenProbes
  <2>3. Inside(s, b, p) = p
    BY <1>1 DEF Inside
  <2>4. QED BY <2>2, <2>3
<1>2. CASE p \notin P /\ \E d \in B : d.from = p
  <2>1. p + 1 \in P
    BY <1>2, Probes
  <2>2. \A d \in B : d.from \in Nat
    BY Probes
  <2>3. \A d \in B : d.from # p + 1
    <3>1. ASSUME NEW d \in B, d.from = p + 1 PROVE FALSE
      <4>1. d.from # 0 /\ d.from - 1 = p
        BY <3>1
      <4>2. p \in P
        BY <4>1, ProbeBefore
      <4>3. QED BY <1>2, <4>2
    <3>2. QED BY <3>1
  <2>4. Agree(s, p, p + 1)
    <3>1. \A d \in BandsOf(s) : ~(p < d.from /\ d.from <= p + 1)
      BY <2>2, <2>3
    <3>2. p + 1 \in Nat /\ p <= p + 1
      OBVIOUS
    <3> HIDE DEF P
    <3>3. QED BY <3>1, <3>2, AgreeBetween
  <2>5. CustomerTotal(s, p, q) <= CustomerTotal(s, p + 1, q)
    <3>1. p + 1 \in Nat /\ p <= p + 1 /\ q \in Nat
      BY DEF ProbeQty
    <3>2. QED BY <2>4, <3>1, PaidRises DEF CustomerTotal
  <2>6. CustomerTotal(s, p + 1, q) <= CustomerTotal(b, p + 1, q) + Rounding(s, b)
    <3>1. Agree(s, p + 1, p + 1) /\ Agree(b, p + 1, p + 1) /\ p + 1 \in Nat /\ p + 1 <= p + 1
      BY DEF Agree
    <3> DEFINE x == p + 1
    <3> HIDE DEF x
    <3>2. CustomerTotal(s, x, q) <= CustomerTotal(b, x, q) + Rounding(s, b)
      BY <2>1, <3>1, BetweenProbes DEF x
    <3>3. QED BY <3>2 DEF x
  <2>7. Inside(s, b, p) = p + 1
    BY <1>2 DEF Inside
  <2>8. /\ CustomerTotal(s, p, q) \in Int /\ CustomerTotal(s, p + 1, q) \in Int
        /\ CustomerTotal(b, p + 1, q) \in Int /\ Rounding(s, b) \in Int
    <3>1. p + 1 \in Nat /\ q \in Nat
      BY DEF ProbeQty
    <3>2. QED BY <3>1, PaidType, RoundingType DEF CustomerTotal
  <2>9. QED BY <2>5, <2>6, <2>7, <2>8
<1>3. CASE p \notin P /\ \A d \in B : d.from # p
  <2>1. PICK l \in P : l <= p /\ \A d \in B : ~(l < d.from /\ d.from <= p)
    BY <1>3, ProbeBelow
  <2>2. PICK h \in P : p <= h /\ \A d \in B : ~(p < d.from /\ d.from <= h)
    BY ProbeAbove
  <2>3. l \in Nat /\ h \in Nat
    BY Probes
  <2>4. Agree(s, l, p) /\ Agree(b, l, p) /\ Agree(s, h, p) /\ Agree(b, h, p)
    BY <2>1, <2>2, <2>3, AgreeBetween
  <2>5. CustomerTotal(s, p, q) <= CustomerTotal(b, p, q) + Rounding(s, b)
    BY <2>1, <2>2, <2>4, BetweenProbes
  <2>6. Inside(s, b, p) = p
    BY <1>3 DEF Inside
  <2>7. QED BY <2>5, <2>6
<1>4. QED BY <1>1, <1>2, <1>3

LEMMA FiniteImage ==
  ASSUME NEW S, IsFiniteSet(S), NEW f
  PROVE  IsFiniteSet({f[x] : x \in S})
<1> DEFINE T == {f[x] : x \in S}
           g == [x \in S |-> f[x]]
<1>1. g \in Surjection(S, T)
  BY DEF Surjection
<1> HIDE DEF g, T
<1>2. IsFiniteSet(T)
  BY <1>1, FS_Surjection
<1>3. QED BY <1>2 DEF T

(* A finite non-empty set has an element of greatest measure.              *)
LEMMA GreatestOf ==
  ASSUME NEW S, S # {}, IsFiniteSet(S), NEW f, \A x \in S : f[x] \in Int
  PROVE  \E x \in S : \A y \in S : f[y] <= f[x]
<1>1. PICK n \in Nat : ExistsSurjection(1..n, S)
  BY FS_NatSurjection
<1>2. PICK g \in [1..n -> S] : \A x \in S : \E i \in 1..n : g[i] = x
  BY <1>1 DEF ExistsSurjection, Surjection
<1>3. n # 0
  BY <1>2
<1> DEFINE T == {k \in 0..n : k = 0 \/ \E i \in 1..k : \A j \in 1..k : f[g[j]] <= f[g[i]]}
<1>4. 0 \in T
  OBVIOUS
<1>5. ASSUME NEW k \in 1..n, k - 1 \in T PROVE k \in T
  <2>0. \A i \in 1..k : f[g[i]] \in Int /\ (i \in 1..(k - 1) \/ i = k)
    BY <1>2
  <2>1. CASE k = 1
    BY <2>0, <2>1
  <2>2. CASE k # 1
    <3>1. PICK i \in 1..(k - 1) : \A j \in 1..(k - 1) : f[g[j]] <= f[g[i]]
      BY <1>5, <2>2
    <3>2. CASE f[g[k]] <= f[g[i]]
      <4>1. \A j \in 1..k : f[g[j]] <= f[g[i]]
        BY <2>0, <3>1, <3>2
      <4>2. QED BY <4>1
    <3>3. CASE f[g[i]] <= f[g[k]]
      <4>1. \A j \in 1..k : f[g[j]] <= f[g[k]]
        BY <2>0, <3>1, <3>3
      <4>2. QED BY <4>1
    <3>4. QED BY <2>0, <3>2, <3>3
  <2>3. QED BY <2>1, <2>2
<1>6. n \in T
  <2> HIDE DEF T
  <2>1. \A k \in 0..n : k \in T
    BY <1>4, <1>5, UpTo
  <2>2. QED BY <2>1
<1>7. PICK i \in 1..n : \A j \in 1..n : f[g[j]] <= f[g[i]]
  BY <1>3, <1>6
<1>8. \A y \in S : f[y] <= f[g[i]]
  BY <1>2, <1>7
<1>9. QED BY <1>2, <1>8

LEMMA ProbesFinite ==
  ASSUME NEW s \in Schedules, NEW b \in Schedules
  PROVE  IsFiniteSet(ProbePrices(s, b))
<1>1. ASSUME NEW t \in Schedules PROVE IsFiniteSet(BandsOf(t))
  <2> DEFINE bands(c) == {c.bands[i] : i \in DOMAIN c.bands}
             C == {Sheet[t][j] : j \in DOMAIN Sheet[t]}
             f == [c \in C |-> bands(c)]
  <2>1. IsFiniteSet(C) /\ C \subseteq Component
    <3>1. IsFiniteSet(DOMAIN Sheet[t])
      BY SheetType, FS_Interval
    <3>2. QED BY <3>1, FiniteImage, SheetType
  <2>2. ASSUME NEW c \in C PROVE IsFiniteSet(bands(c))
    <3>1. c.bands \in Seq(Band)
      BY <2>1 DEF Component
    <3>2. DOMAIN c.bands = 1..Len(c.bands) /\ Len(c.bands) \in Nat
      BY <3>1
    <3>3. IsFiniteSet(DOMAIN c.bands)
      BY <3>2, FS_Interval
    <3>4. QED BY <3>3, FiniteImage
  <2>3. IsFiniteSet({f[c] : c \in C}) /\ \A T \in {f[c] : c \in C} : IsFiniteSet(T)
    <3>1. \A c \in C : f[c] = bands(c)
      OBVIOUS
    <3> HIDE DEF C, bands, f
    <3>2. QED BY <2>1, <2>2, <3>1, FiniteImage
  <2>4. IsFiniteSet(UNION {f[c] : c \in C})
    BY <2>3, FS_UNION
  <2>5. BandsOf(t) = UNION {f[c] : c \in C}
    <3>1. BandsOf(t) = UNION {bands(c) : c \in C}
      BY Zenon DEF BandsOf
    <3>2. \A c \in C : f[c] = bands(c)
      OBVIOUS
    <3> HIDE DEF C, bands, f
    <3>3. {bands(c) : c \in C} = {f[c] : c \in C}
      BY <3>2
    <3>4. QED BY <3>1, <3>3
  <2>6. QED BY <2>4, <2>5
<1> DEFINE B == BandsOf(s) \cup BandsOf(b)
           E == {d \in B : d.to # NoEdge}
           f == [d \in B |-> d.from + 1]
           g == [d \in E |-> Higher(d.from + 1, d.to - 1)]
           Q == {100, 100 * 100, MaxProbe}
<1>2. IsFiniteSet(B)
  BY <1>1, FS_Union
<1>3. IsFiniteSet(E)
  BY <1>2, FS_Subset
<1>4. IsFiniteSet({f[d] : d \in B}) /\ IsFiniteSet({g[d] : d \in E})
  <2> HIDE DEF B, E, f, g
  <2>1. QED BY <1>2, <1>3, FiniteImage
<1>5. IsFiniteSet(Q)
  <2>1. PICK x, y, z : x = 100 /\ y = 100 * 100 /\ z = MaxProbe
    OBVIOUS
  <2>2. Q = ({x} \cup {y}) \cup {z}
    BY <2>1
  <2>3. IsFiniteSet({x}) /\ IsFiniteSet({y}) /\ IsFiniteSet({z})
    BY FS_Singleton
  <2> HIDE DEF Q
  <2>4. IsFiniteSet({x} \cup {y})
    BY <2>3, FS_Union
  <2>5. QED BY <2>2, <2>3, <2>4, FS_Union
<1>6. ProbePrices(s, b) = Q \cup {f[d] : d \in B} \cup {g[d] : d \in E}
  BY DEF ProbePrices
<1> HIDE DEF Q, B, E, f, g
<1>7. QED BY <1>4, <1>5, <1>6, FS_Union

(* A refused schedule has a price at which it is dearer.                   *)
LEMMA FailureNamed ==
  ASSUME NEW s \in Schedules, NEW b \in Schedules, ~Dominates(s, b)
  PROVE  ExplainFailure(s, b) # NoFailure
<1> DEFINE P == ProbePrices(s, b)
           f == [p \in P |-> Gap(s, b, p)]
           F == {p \in P : Gap(s, b, p) > 0 /\ \A r \in P : Gap(s, b, r) <= Gap(s, b, p)}
<1>1. P \subseteq Nat \ {0} /\ IsFiniteSet(P)
  BY Probes, ProbesFinite
<1>2. \A p \in P : Gap(s, b, p) \in Int
  <2>1. ASSUME NEW p \in Nat PROVE Gap(s, b, p) \in Int
    <3>1. CustomerTotal(s, p, ProbeQty) \in Int /\ CustomerTotal(b, p, ProbeQty) \in Int
      BY PaidType, ProbeType DEF CustomerTotal
    <3>2. QED BY <3>1 DEF Gap
  <2>2. QED BY <1>1, <2>1
<1>3. PICK x \in P : ~(Gap(s, b, x) <= 0)
  BY DEF Dominates
<1>4. PICK y \in P : \A r \in P : Gap(s, b, r) <= Gap(s, b, y)
  <2>1. PICK y \in P : \A r \in P : f[r] <= f[y]
    <3>1. P # {} /\ \A p \in P : f[p] \in Int
      BY <1>2, <1>3
    <3> HIDE DEF P, f
    <3>2. QED BY <1>1, <3>1, GreatestOf
  <2>2. QED BY <2>1
<1>5. Gap(s, b, y) > 0
  <2>1. Gap(s, b, x) <= Gap(s, b, y) /\ Gap(s, b, x) \in Int /\ Gap(s, b, y) \in Int
    BY <1>2, <1>3, <1>4
  <2>2. QED BY <1>3, <2>1
<1>6. y \in F /\ F \subseteq Nat \ {0}
  BY <1>1, <1>4, <1>5
<1>7. \E p \in F : \A r \in F : p <= r
  <2> HIDE DEF F
  <2>1. F \in SUBSET Nat /\ F # {}
    BY <1>6
  <2>2. QED BY <2>1, LeastNumber
<1>8. ExplainFailure(s, b) = CHOOSE p \in F : \A r \in F : p <= r
  BY <1>6 DEF ExplainFailure
<1> HIDE DEF F
<1>9. ExplainFailure(s, b) \in F
  BY <1>7, <1>8
<1>10. QED BY <1>6, <1>9 DEF NoFailure

-----------------------------------------------------------------------------
(* Theorems *)

(* What is approved passed the probes against what it was compared to, and *)
(* the last report is what validation says of its schedule.                *)
TariffInv ==
  /\ TariffTypeOK
  /\ report.of # NoSchedule => report.reverse = ReverseMargin(report.of)
  /\ \A o \in approved : o.against # NoSchedule => Dominates(o.of, o.against)

LEMMA Validated ==
  ASSUME NEW s \in Schedules, base \in Schedules \cup {NoSchedule}, NEW r, r = Validation(s)
  PROVE  /\ r.of = s /\ r.reverse \in BOOLEAN /\ r.reverse = ReverseMargin(s)
         /\ r.ok = (r.failure = NoFailure)
         /\ base # NoSchedule => r.ok = Dominates(s, base)
<1>1. ReverseMargin(s) \in BOOLEAN
  BY DEF ReverseMargin
<1>2. CASE base = NoSchedule
  BY <1>1, <1>2 DEF Validation
<1>3. CASE base # NoSchedule
  <2>1. base \in Schedules
    BY <1>3
  <2>2. Dominates(s, base) \in BOOLEAN
    BY DEF Dominates
  <2>3. /\ r.of = s /\ r.ok = Dominates(s, base) /\ r.reverse = ReverseMargin(s)
        /\ r.failure = IF Dominates(s, base) THEN NoFailure ELSE ExplainFailure(s, base)
    BY <1>3 DEF Validation
  <2>4. ~Dominates(s, base) => ExplainFailure(s, base) # NoFailure
    BY <2>1, FailureNamed
  <2>5. QED BY <1>1, <2>2, <2>3, <2>4
<1>4. QED BY <1>2, <1>3

LEMMA TariffStep == TariffInv /\ [TariffNext]_tariffVars => TariffInv'
<1> SUFFICES ASSUME TariffInv, [TariffNext]_tariffVars PROVE TariffInv'
  OBVIOUS
<1>0. /\ base \in Schedules \cup {NoSchedule}
      /\ approved \subseteq [of : Schedules, against : Schedules \cup {NoSchedule}]
  BY DEF TariffInv, TariffTypeOK
<1>1. ASSUME NEW s \in Schedules, Validate(s) PROVE TariffInv'
  <2>1. report' = Validation(s) /\ base' = base /\ approved' = approved
    BY <1>1 DEF Validate
  <2>2. /\ report'.of = s /\ report'.reverse \in BOOLEAN /\ report'.reverse = ReverseMargin(s)
        /\ report'.ok = (report'.failure = NoFailure)
    BY <1>0, <2>1, Validated
  <2>3. QED BY <2>1, <2>2 DEF TariffInv, TariffTypeOK
<1>2. ASSUME NEW s \in Schedules, ApproveCandidate(s) PROVE TariffInv'
  <2> DEFINE o == [of |-> s, against |-> base]
  <2>1. /\ report' = Validation(s) /\ base' = base
        /\ approved' = IF report'.ok THEN approved \cup {o} ELSE approved
    BY <1>2 DEF ApproveCandidate
  <2>2. /\ report'.of = s /\ report'.reverse \in BOOLEAN /\ report'.reverse = ReverseMargin(s)
        /\ report'.ok = (report'.failure = NoFailure)
        /\ base # NoSchedule => report'.ok = Dominates(s, base)
    BY <1>0, <2>1, Validated
  <2>3. /\ o \in [of : Schedules, against : Schedules \cup {NoSchedule}]
        /\ o.of = s /\ o.against = base
    BY <1>0
  <2> HIDE DEF o
  <2>4. approved' \subseteq [of : Schedules, against : Schedules \cup {NoSchedule}]
    BY <1>0, <2>1, <2>3
  <2>5. \A n \in approved' : n.against # NoSchedule => Dominates(n.of, n.against)
    BY <2>1, <2>2, <2>3 DEF TariffInv
  <2>6. QED BY <2>1, <2>2, <2>4, <2>5 DEF TariffInv, TariffTypeOK
<1>3. ASSUME NEW o \in approved, ExpireCandidate(o) PROVE TariffInv'
  BY <1>3 DEF TariffInv, TariffTypeOK, ExpireCandidate
<1>4. ASSUME NEW s \in Schedules \cup {NoSchedule}, ReplaceBase(s) PROVE TariffInv'
  BY <1>4 DEF TariffInv, TariffTypeOK, ReplaceBase
<1>5. ASSUME UNCHANGED tariffVars PROVE TariffInv'
  BY <1>5 DEF TariffInv, TariffTypeOK, tariffVars
<1>6. QED BY <1>1, <1>2, <1>3, <1>4, <1>5 DEF TariffNext

LEMMA TariffStart == TariffInit => TariffInv
<1> SUFFICES ASSUME TariffInit PROVE TariffInv
  OBVIOUS
<1>1. /\ report.of = NoSchedule /\ report.ok = TRUE
      /\ report.failure = NoFailure /\ report.reverse = FALSE
  BY DEF TariffInit, NoReport
<1>2. base = NoSchedule /\ approved = {}
  BY DEF TariffInit
<1>3. TariffTypeOK
  BY <1>1, <1>2 DEF TariffTypeOK
<1>4. QED BY <1>1, <1>2, <1>3 DEF TariffInv

(* Reports and approvals keep their types, and a report refuses a schedule *)
(* exactly when it names a price at which the schedule is dearer.          *)
THEOREM TariffTypeCorrect == TariffSpec => []TariffTypeOK
<1>1. TariffInv => TariffTypeOK
  BY DEF TariffInv
<1>2. QED BY <1>1, TariffStart, TariffStep, PTL DEF TariffSpec

(* The probes are enough: between them, too, an approved schedule never    *)
(* charges more than the base it was compared to, however its bands lie.   *)
THEOREM ApprovedNeverDearer == TariffSpec => []NeverDearer
<1>1. TariffInv => NeverDearer
  <2> SUFFICES ASSUME TariffInv, NEW o \in approved, o.against # NoSchedule,
                      \A x \in {o.of, o.against} : NoMinimum(x) /\ Contiguous(x),
                      NEW p \in Prices, NEW q \in Quantities, 100 <= p, p <= MaxProbe
               PROVE  CustomerTotal(o.of, p, q)
                        <= CustomerTotal(o.against, Inside(o.of, o.against, p), q)
                             + Rounding(o.of, o.against)
    BY Zenon DEF NeverDearer
  <2>1. o.of \in Schedules /\ o.against \in Schedules
    BY DEF TariffInv, TariffTypeOK
  <2>2. Dominates(o.of, o.against)
    BY DEF TariffInv
  <2>3. p \in Nat /\ q \in 1..ProbeQty
    BY TariffAssumption
  <2>4. NoMinimum(o.of) /\ NoMinimum(o.against) /\ Contiguous(o.of) /\ Contiguous(o.against)
    OBVIOUS
  <2>5. QED BY <2>1, <2>2, <2>3, <2>4, DearerNowhere
<1>2. QED BY <1>1, TariffStart, TariffStep, PTL DEF TariffSpec

(* The rank key puts schedules of rates, and schedules of amounts, in the  *)
(* order of their fees at every trade.                                     *)
THEOREM RanksFollowFees == TariffSpec => []RankFollowsFee
<1>1. TariffInv => RankFollowsFee
  <2> SUFFICES ASSUME TariffInv, NEW o \in approved, NEW n \in approved, NEW type \in {"RATE", "FLAT"},
                      Plain(o.of, type), Plain(n.of, type), RankKey(o.of) <= RankKey(n.of),
                      NEW p \in Prices, NEW q \in Quantities
               PROVE  CustomerTotal(o.of, p, q) <= CustomerTotal(n.of, p, q) + Rounding(o.of, n.of)
    BY Zenon DEF RankFollowsFee
  <2>1. o.of \in Schedules /\ n.of \in Schedules
    BY DEF TariffInv, TariffTypeOK
  <2>2. p \in Nat /\ q \in Nat
    BY TariffAssumption DEF ProbeQty
  <2>3. QED BY <2>1, <2>2, RanksFollow
<1>2. QED BY <1>1, TariffStart, TariffStep, PTL DEF TariffSpec

(* The margin verdict of the probe trade holds for every trade.            *)
THEOREM MarginsHold == TariffSpec => []MarginVerdictHolds
<1>1. TariffInv => MarginVerdictHolds
  <2> SUFFICES ASSUME TariffInv, report.of # NoSchedule, ~report.reverse, Plain(report.of, "RATE"),
                      NEW p \in Prices, NEW q \in Quantities
               PROVE  CompanyBorne(report.of, p, q) <= OwnIncome(report.of, p, q) + Len(Sheet[report.of])
    BY Zenon DEF MarginVerdictHolds
  <2>1. report.of \in Schedules /\ ~ReverseMargin(report.of)
    BY DEF TariffInv, TariffTypeOK
  <2>2. p \in Nat /\ q \in Nat
    BY TariffAssumption DEF ProbeQty
  <2>3. QED BY <2>1, <2>2, MarginsFollow
<1>2. QED BY <1>1, TariffStart, TariffStep, PTL DEF TariffSpec

=============================================================================
