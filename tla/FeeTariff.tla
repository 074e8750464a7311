------------------------------ MODULE FeeTariff ------------------------------
(***************************************************************************)
(* What a fee schedule charges (FeeCalculator), how schedules are compared *)
(* without a trade (RankKey) and at registration (DominanceValidator), and *)
(* the desk that approves a candidate against the BASE schedule of its     *)
(* class (RuleService.validate and approve).  Money is in hundredths of the*)
(* unit, rates in whole basis points; a null minimum is 0 and a null upper *)
(* edge of a band is NoEdge.                                               *)
(***************************************************************************)
EXTENDS Integers, Sequences, FiniteSets

CONSTANTS
  Schedules,    \* ids of schedules
  Sheet,        \* Sheet[s]: the components of schedule s
  NoSchedule,   \* null schedule id
  MaxApproved,  \* bound on approved candidates
  Prices,       \* prices at which the properties look
  Quantities    \* and quantities, none above the probe's

NoEdge == 0
ProbeQty == 10
MaxProbe == 100000 * 100

Band == [from : Nat, to : Nat, bp : Nat, flat : Nat]
Component ==
  [kind : {"OWN", "AGENCY", "TAX"}, payer : {"CUSTOMER", "COMPANY", "EXEMPT"},
   type : {"RATE", "FLAT", "BANDS"}, bp : Nat, flat : Nat, bands : Seq(Band), min : Nat]

ASSUME TariffAssumption ==
  /\ Sheet \in [Schedules -> Seq(Component)]
  /\ NoSchedule \notin Schedules
  /\ Prices \subseteq Nat \ {0}
  /\ Quantities \subseteq 1..ProbeQty
  /\ MaxApproved \in Nat

-----------------------------------------------------------------------------
(* Charges *)

(* bp of a notional in hundredths, rounded HALF_UP.                        *)
Rate(notional, bp) ==
  (notional \div 10000) * bp + (2 * (notional % 10000) * bp + 10000) \div 20000

InBand(b, p) == b.from <= p /\ (b.to = NoEdge \/ p < b.to)
FirstBand(c, p) ==
  CHOOSE i \in DOMAIN c.bands :
    InBand(c.bands[i], p) /\ \A j \in 1..(i - 1) : ~InBand(c.bands[j], p)

Charge(c, p, q) ==
  CASE c.type = "RATE" -> Rate(p * q, c.bp)
    [] c.type = "FLAT" -> c.flat * q
    [] OTHER -> IF \A i \in DOMAIN c.bands : ~InBand(c.bands[i], p) THEN 0
                ELSE LET b == c.bands[FirstBand(c, p)]
                     IN  Rate(p * q, b.bp) + b.flat * q

ComponentAmount(c, p, q) == IF Charge(c, p, q) < c.min THEN c.min ELSE Charge(c, p, q)

(* The terms of f at the places in I, added one after the other.           *)
Sum(f, I) ==
  LET upTo[k \in 0..Len(f)] ==
        IF k = 0 THEN 0 ELSE upTo[k - 1] + (IF k \in I THEN f[k] ELSE 0)
  IN  upTo[Len(f)]

Amounts(s, p, q) == [i \in DOMAIN Sheet[s] |-> ComponentAmount(Sheet[s][i], p, q)]
Paid(s, I, p, q) == Sum(Amounts(s, p, q), I)
By(s, payer) == {i \in DOMAIN Sheet[s] : Sheet[s][i].payer = payer}

CustomerTotal(s, p, q) == Paid(s, By(s, "CUSTOMER"), p, q)
CompanyBorne(s, p, q)  == Paid(s, By(s, "COMPANY"), p, q)

-----------------------------------------------------------------------------
(* Comparison without a trade *)

Weight(c) ==
  CASE c.type = "RATE" -> 100 * c.bp
    [] c.type = "FLAT" -> c.flat
    [] OTHER -> IF c.bands = <<>> THEN 0 ELSE 100 * c.bands[1].bp + c.bands[1].flat

Weights(s) == [i \in DOMAIN Sheet[s] |-> Weight(Sheet[s][i])]

(* Mutant of RankKey: what the company bears is counted too.               *)
RankOfAll(s) == Sum(Weights(s), DOMAIN Sheet[s])

(* RankKey.of: basis points and amounts of the customer's components, added.*)
RankKey(s) == Sum(Weights(s), By(s, "CUSTOMER"))

-----------------------------------------------------------------------------
(* Comparison at registration *)

BandsOf(s) == UNION {{c.bands[i] : i \in DOMAIN c.bands} : c \in {Sheet[s][j] : j \in DOMAIN Sheet[s]}}
Higher(x, y) == IF x < y THEN y ELSE x

(* Mutant of ProbePrices: upper edges of bands are not probed.             *)
ProbeStarts(a, b) ==
  {100, 100 * 100, MaxProbe} \cup {d.from + 1 : d \in BandsOf(a) \cup BandsOf(b)}

(* One, a hundred, a hundred thousand, and one hundredth inside each edge. *)
ProbePrices(a, b) ==
  {100, 100 * 100, MaxProbe}
    \cup {d.from + 1 : d \in BandsOf(a) \cup BandsOf(b)}
    \cup {Higher(d.from + 1, d.to - 1) : d \in {e \in BandsOf(a) \cup BandsOf(b) : e.to # NoEdge}}

Gap(s, b, p) == CustomerTotal(s, p, ProbeQty) - CustomerTotal(b, p, ProbeQty)

(* Mutant of Dominates: a schedule that charges the same is refused.        *)
DominatesStrictly(s, b) == \A p \in ProbePrices(s, b) : Gap(s, b, p) < 0

Dominates(s, b) == \A p \in ProbePrices(s, b) : Gap(s, b, p) <= 0

NoFailure == 0
(* The lowest probe price of the widest excess over the base.              *)
ExplainFailure(s, b) ==
  LET P == ProbePrices(s, b)
      F == {p \in P : Gap(s, b, p) > 0 /\ \A r \in P : Gap(s, b, r) <= Gap(s, b, p)}
  IN  IF F = {} THEN NoFailure ELSE CHOOSE p \in F : \A r \in F : p <= r

(* Mutant of ReverseMargin: taxes count as the company's own income.       *)
ReverseOfAll(s) ==
  CompanyBorne(s, MaxProbe, ProbeQty) > CustomerTotal(s, MaxProbe, ProbeQty)

OwnIncome(s, p, q) == Paid(s, {i \in By(s, "CUSTOMER") : Sheet[s][i].kind = "OWN"}, p, q)

(* The company bears more than it earns on RuleService's probe trade.      *)
ReverseMargin(s) ==
  CompanyBorne(s, MaxProbe, ProbeQty) > OwnIncome(s, MaxProbe, ProbeQty)

-----------------------------------------------------------------------------
(* The desk *)

VARIABLES
  base,      \* schedule of the active BASE rule of smallest id, if there is one
  approved,  \* approved candidates, each with the base it was compared to
  report     \* the last validation report

tariffVars == <<base, approved, report>>

NoReport == [of |-> NoSchedule, ok |-> TRUE, failure |-> NoFailure, reverse |-> FALSE]

Validation(s) ==
  IF base = NoSchedule
  THEN [of |-> s, ok |-> TRUE, failure |-> NoFailure, reverse |-> ReverseMargin(s)]
  ELSE [of |-> s, ok |-> Dominates(s, base),
        failure |-> IF Dominates(s, base) THEN NoFailure ELSE ExplainFailure(s, base),
        reverse |-> ReverseMargin(s)]

Validate(s) == report' = Validation(s) /\ UNCHANGED <<base, approved>>

(* A reverse margin is reported and stops nothing.                         *)
ApproveCandidate(s) ==
  /\ report' = Validation(s)
  /\ approved' = IF report'.ok THEN approved \cup {[of |-> s, against |-> base]} ELSE approved
  /\ UNCHANGED base

ExpireCandidate(o) == approved' = approved \ {o} /\ UNCHANGED <<base, report>>

(* BASE rules are approved and expired without a comparison, and what was  *)
(* approved against the old one stays.                                     *)
ReplaceBase(s) == base' = s /\ UNCHANGED <<approved, report>>

TariffInit == base = NoSchedule /\ approved = {} /\ report = NoReport

TariffNext ==
  \/ \E s \in Schedules : Validate(s) \/ (ApproveCandidate(s) /\ Cardinality(approved') <= MaxApproved)
  \/ \E o \in approved : ExpireCandidate(o)
  \/ \E s \in Schedules \cup {NoSchedule} : ReplaceBase(s)

TariffSpec == TariffInit /\ [][TariffNext]_tariffVars

-----------------------------------------------------------------------------
NoMinimum(s) == \A i \in DOMAIN Sheet[s] : Sheet[s][i].min = 0
Contiguous(s) ==
  \A i \in DOMAIN Sheet[s] : LET d == Sheet[s][i].bands IN
    d # <<>> => /\ d[1].from = 0 /\ d[Len(d)].to = NoEdge
                /\ \A k \in 1..(Len(d) - 1) : d[k].to = d[k + 1].from /\ d[k].from + 1 < d[k].to
Plain(s, type) == NoMinimum(s) /\ \A i \in DOMAIN Sheet[s] : Sheet[s][i].type = type

(* Every rounded component may be half a hundredth off, at the probe and at *)
(* the trade.                                                               *)
Rounding(s, b) == Len(Sheet[s]) + Len(Sheet[b])

(* A report refuses a schedule exactly when it names a price at which the  *)
(* schedule is dearer than the base.                                       *)
TariffTypeOK ==
  /\ base \in Schedules \cup {NoSchedule}
  /\ approved \subseteq [of : Schedules, against : Schedules \cup {NoSchedule}]
  /\ report.of \in Schedules \cup {NoSchedule} /\ report.reverse \in BOOLEAN
  /\ report.ok = (report.failure = NoFailure)

(* Bands are probed one hundredth inside their edges: where one begins and *)
(* no other probe falls, the price to look at is one hundredth further.    *)
Inside(s, b, p) ==
  IF p \notin ProbePrices(s, b) /\ \E d \in BandsOf(s) \cup BandsOf(b) : d.from = p THEN p + 1 ELSE p

(* An approved schedule never charges more than the base it was compared   *)
(* to, at any price between the probes and not only at them, as long as no *)
(* component has a minimum fee and bands leave no gap.                     *)
NeverDearer ==
  \A o \in approved : LET s == o.of b == o.against IN
    (b # NoSchedule /\ \A x \in {s, b} : NoMinimum(x) /\ Contiguous(x)) =>
      \A p \in Prices, q \in Quantities :
        100 <= p /\ p <= MaxProbe =>
          CustomerTotal(s, p, q) <= CustomerTotal(b, Inside(s, b, p), q) + Rounding(s, b)

(* Approved schedules that all charge by rate, or all by amount, stand in  *)
(* the ranking as their fees do at every price: the policy ranked first is *)
(* the cheapest whatever the trade.                                        *)
RankFollowsFee ==
  \A o, n \in approved, type \in {"RATE", "FLAT"} :
    Plain(o.of, type) /\ Plain(n.of, type) /\ RankKey(o.of) <= RankKey(n.of) =>
      \A p \in Prices, q \in Quantities :
        CustomerTotal(o.of, p, q) <= CustomerTotal(n.of, p, q) + Rounding(o.of, n.of)

(* A schedule of rates that the report does not flag never costs the       *)
(* company more than it earns, whatever the trade.                         *)
MarginVerdictHolds ==
  report.of # NoSchedule /\ ~report.reverse /\ Plain(report.of, "RATE") =>
    \A p \in Prices, q \in Quantities :
      CompanyBorne(report.of, p, q) <= OwnIncome(report.of, p, q) + Len(Sheet[report.of])

=============================================================================
