------------------------------ MODULE FeePolicy ------------------------------
(***************************************************************************)
(* The pure domain of the server: fee rules, their scope over lookup cells,*)
(* the unified ranking, the eligibility gate of an account and the winner  *)
(* of a cell (kr.fees.domain, CellUniverse and CandidateMap).  Nothing here*)
(* has state: rule statuses `st` and enrollments `en` are parameters.      *)
(*                                                                         *)
(* A scope axis of a rule is the set of cell values it accepts.  The null  *)
(* set of the code ("no restriction") is the set of every value and "*";   *)
(* a restricted axis never contains "*".  Sessions and channels are the    *)
(* two axes a trade and a board row may differ on; asset class, lookup key *)
(* and product of a cell are one value, its base.                          *)
(***************************************************************************)
EXTENDS Integers, Sequences

CONSTANTS
  Accounts,   \* account ids
  Rules,      \* ids of fee rules
  Rule,       \* Rule[r]: what a rule row and its schedule say of r
  Bases,      \* base cells: (asset class, lookup key, product)
  Classes,    \* asset classes
  ClassOf,    \* asset class of a base cell
  Opened,     \* Opened[a]: asset classes account a has opened
  Sessions,   \* concrete session codes
  Channels,   \* concrete channel codes
  NoRule      \* null rule id

Star   == "*"
NoDate == 0            \* a null date column
Dates  == Nat \ {NoDate}

RuleType   == {"NEGOTIATED", "EVENT", "BASE"}
RuleStatus == {"DRAFT", "PENDING", "ACTIVE", "REJECTED", "EXPIRED"}
EnrollmentStatus == {"REQUESTED", "ACTIVE", "REJECTED"}

(* One rule: scope, price rank (RankKey of its schedule), id order, period,*)
(* benefit period of a relative event, and the accounts that meet its      *)
(* condition and apply mode.  `application` marks an APPLICATION event,    *)
(* `beats` the BASE rules its schedule dominates.                          *)
RuleRecord ==
  [type : RuleType, class : Classes, bases : SUBSET Bases,
   sessions : SUBSET (Sessions \cup {Star}), channels : SUBSET (Channels \cup {Star}),
   rank : Nat, specificity : 0..6, ord : Nat, start : Dates, end : Dates,
   relative : BOOLEAN, months : Nat, targets : SUBSET Accounts,
   application : BOOLEAN, beats : SUBSET Rules]

ASSUME PolicyAssumption ==
  /\ Rule \in [Rules -> RuleRecord]
  /\ \A r, s \in Rules : r # s => Rule[r].ord # Rule[s].ord
  /\ \A r \in Rules : \A b \in Rule[r].bases : ClassOf[b] = Rule[r].class
  /\ ClassOf \in [Bases -> Classes]
  /\ Opened \in [Accounts -> SUBSET Classes]
  /\ NoRule \notin Rules
  /\ Star \notin Sessions \cup Channels

(* A rule that is not restricted on an axis accepts every value of it.     *)
ASSUME ScopeAssumption ==
  \A r \in Rules :
    /\ Star \in Rule[r].sessions => Sessions \subseteq Rule[r].sessions
    /\ Star \in Rule[r].channels => Channels \subseteq Rule[r].channels

Cells == [base : Bases, session : Sessions \cup {Star}, channel : Channels \cup {Star}]

-----------------------------------------------------------------------------
(* Scope and cell universe *)

Active(st) == {r \in Rules : st[r] = "ACTIVE"}

Matches(r, c) ==
  /\ c.base \in Rule[r].bases
  /\ c.session \in Rule[r].sessions
  /\ c.channel \in Rule[r].channels

(* The values active rules of a cell family single out on an axis.         *)
NamedSessions(b, act) ==
  UNION {Rule[r].sessions : r \in {q \in act : b \in Rule[q].bases /\ Star \notin Rule[q].sessions}}
NamedChannels(b, act) ==
  UNION {Rule[r].channels : r \in {q \in act : b \in Rule[q].bases /\ Star \notin Rule[q].channels}}

(* Mutant of Universe: no cell names both a session and a channel.         *)
UniverseUncrossed(act) ==
  {c \in Cells : /\ c.session \in NamedSessions(c.base, act) \cup {Star}
                 /\ c.channel \in NamedChannels(c.base, act) \cup {Star}
                 /\ Star \in {c.session, c.channel}}

Universe(act) ==
  {c \in Cells : /\ c.session \in NamedSessions(c.base, act) \cup {Star}
                 /\ c.channel \in NamedChannels(c.base, act) \cup {Star}}

-----------------------------------------------------------------------------
(* Ranking *)

TieOrder(r) == CASE Rule[r].type = "NEGOTIATED" -> 0
                 [] Rule[r].type = "EVENT"      -> 1
                 [] OTHER                       -> 2

(* PolicyRanking.comparator: price, layer, narrower scope, rule id.        *)
Before(r, s) ==
  \/ Rule[r].rank < Rule[s].rank
  \/ /\ Rule[r].rank = Rule[s].rank
     /\ \/ TieOrder(r) < TieOrder(s)
        \/ /\ TieOrder(r) = TieOrder(s)
           /\ \/ Rule[r].specificity > Rule[s].specificity
              \/ /\ Rule[r].specificity = Rule[s].specificity
                 /\ Rule[r].ord < Rule[s].ord

InRanking(st, r, d) ==
  /\ st[r] = "ACTIVE"
  /\ \/ Rule[r].type = "EVENT" /\ Rule[r].relative
     \/ Rule[r].start <= d /\ d <= Rule[r].end

Top(S) == IF S = {} THEN NoRule ELSE CHOOSE r \in S : \A s \in S \ {r} : Before(r, s)

-----------------------------------------------------------------------------
(* Enrollments of one account for one rule.  The enrollment query has no   *)
(* ORDER BY, so the row findFirst meets is the first in an order `ord` the *)
(* database picks per query.                                               *)

Mine(en, a, r) == {i \in DOMAIN en : en[i].acct = a /\ en[i].rule = r}
ActiveOf(en, a, r) == {i \in Mine(en, a, r) : en[i].status = "ACTIVE"}
First(S, ord) == CHOOSE i \in S : \A j \in S : ord[i] <= ord[j]

HasActiveEnrollment(en, a, r, d) ==
  \E i \in ActiveOf(en, a, r) :
    /\ en[i].from # NoDate /\ en[i].to # NoDate
    /\ en[i].from <= d /\ d <= en[i].to

IsTarget(en, a, r) ==
  /\ a \in Rule[r].targets
  /\ Rule[r].application => Mine(en, a, r) # {}

IsBenefitActive(en, ord, a, r, d) ==
  IF Rule[r].relative
  THEN LET dated == {i \in Mine(en, a, r) : en[i].at # NoDate}
           at    == en[First(dated, ord)].at
       IN  dated # {} /\ at <= d /\ d <= at + Rule[r].months
  ELSE Rule[r].start <= d /\ d <= Rule[r].end

Passes(en, ord, a, r, d) ==
  CASE Rule[r].type = "BASE"       -> TRUE
    [] Rule[r].type = "NEGOTIATED" -> HasActiveEnrollment(en, a, r, d)
    [] Rule[r].type = "EVENT"      -> IsTarget(en, a, r) /\ IsBenefitActive(en, ord, a, r, d)

(* WinnerResolver.winnerFor: the first policy in ranking order whose scope *)
(* matches the cell and whose gate the account passes.                     *)
Winner(st, en, ord, a, c, d) ==
  Top({r \in Rules : InRanking(st, r, d) /\ Matches(r, c) /\ Passes(en, ord, a, r, d)})

(* WinnerResolver.toWinner: the dates the winner brings to the board.      *)
Window(en, ord, a, r) ==
  LET period == [from |-> Rule[r].start, to |-> Rule[r].end]
      grants == ActiveOf(en, a, r)
      joined == Mine(en, a, r)
      grant  == en[First(grants, ord)]
      join   == en[First(joined, ord)]
  IN  CASE Rule[r].type = "NEGOTIATED" /\ grants # {} -> [from |-> grant.from, to |-> grant.to]
        [] Rule[r].type = "EVENT" /\ Rule[r].relative /\ joined # {} /\ join.at # NoDate
             -> [from |-> join.at, to |-> join.at + Rule[r].months]
        [] OTHER -> period

=============================================================================
