---------------------------- MODULE StoreTables ----------------------------
(***************************************************************************)
(* The tables of the browser prototype's store (useStore.ts) and the fee   *)
(* resolution that reads them (resolve.ts, policyRank.ts, binding.ts,      *)
(* qualify.ts).  The prototype's date never moves: TODAY is a constant.    *)
(*                                                                         *)
(* A scope is the set of bases, sessions and channels it accepts; a base   *)
(* stands for asset class, exchange and product.  Accounts that meet a     *)
(* rule's apply mode (`targets`) and accounts inside the benefit period of *)
(* a relative event (`benefit`) are constants, since applications never    *)
(* change here; the metric a condition compares is a variable.             *)
(***************************************************************************)
EXTENDS Integers, Sequences

CONSTANTS
  Accounts, Bases, Sessions, Channels, Classes, ClassOf,
  Rules, Rule,   \* fee rules and their contents
  Schedules,     \* ids of fee schedules
  Threshold,     \* Threshold[c]: metric an account of class c needs for a negotiated fee
  NoRule,        \* null rule id
  NoAnswer,      \* null resolution
  NoIndex,       \* null index
  TODAY

RuleStatus  == {"ABSENT", "PENDING", "ACTIVE", "REJECTED", "EXPIRED"}
GrantStatus == {"REQUESTED", "ACTIVE", "REJECTED"}
Keys  == [base : Bases, session : Sessions, channel : Channels]
Scope == [class : Classes, bases : SUBSET Bases, sessions : SUBSET Sessions,
          channels : SUBSET Channels]
FeeRule ==
  [source : {"base", "event", "nego"}, scope : Scope, specificity : Nat, ord : Nat,
   start : Nat, end : Nat, relative : BOOLEAN, targets : SUBSET Accounts,
   benefit : SUBSET Accounts, needs : Nat, sched : Schedules]

ASSUME TablesAssumption ==
  /\ Rule \in [Rules -> FeeRule]
  /\ \A r, s \in Rules : r # s => Rule[r].ord # Rule[s].ord
  /\ ClassOf \in [Bases -> Classes]
  /\ Threshold \in [Classes -> Nat]
  /\ TODAY \in Nat \ {0}
  /\ NoRule \notin Rules

VARIABLES
  status,  \* status of each rule
  until,   \* end date of each rule
  price,   \* rank value of each schedule (rankKey)
  nego,    \* negotiated grants, in the order they were requested
  level    \* metric of each account

tables == <<status, until, price, nego, level>>

Grant ==
  [acct : Accounts, scope : Scope, sched : Schedules, from : Nat, to : Nat,
   status : GrantStatus, exception : BOOLEAN, req : Nat]

Entry == [sched : Schedules, rule : Rules \cup {NoRule}, source : {"nego", "event", "base"}]

-----------------------------------------------------------------------------
(* Policy ranking *)

Covers(s, k) ==
  k.base \in s.bases /\ k.session \in s.sessions /\ k.channel \in s.channels

InRanking(r) ==
  /\ status[r] = "ACTIVE"
  /\ Rule[r].source \in {"base", "event"}
  /\ \/ Rule[r].source = "event" /\ Rule[r].relative
     \/ Rule[r].start <= TODAY /\ TODAY <= until[r]

(* buildPolicyPriority: a snapshot of the ranked rules.                    *)
BuildIndex ==
  [r \in {q \in Rules : InRanking(q)} |-> [rank |-> price[Rule[r].sched], until |-> until[r]]]

Ahead(idx, r, s) ==
  \/ idx[r].rank < idx[s].rank
  \/ /\ idx[r].rank = idx[s].rank
     /\ \/ Rule[r].specificity > Rule[s].specificity
        \/ Rule[r].specificity = Rule[s].specificity /\ Rule[r].ord < Rule[s].ord

IsTarget(r, a) == level[a] >= Rule[r].needs /\ a \in Rule[r].targets

IsBenefitActive(idx, r, a) ==
  IF Rule[r].relative THEN a \in Rule[r].benefit
  ELSE Rule[r].start <= TODAY /\ TODAY <= idx[r].until

(* The ranked rules of a key the account may use.                          *)
Eligible(idx, a, k) ==
  {r \in DOMAIN idx : /\ Covers(Rule[r].scope, k)
                      /\ Rule[r].source = "event" => IsTarget(r, a) /\ IsBenefitActive(idx, r, a)}

Leading(idx, S) == {r \in S : \A s \in S \ {r} : Ahead(idx, r, s)}

WinnerFor(idx, a, k) ==
  LET W == Leading(idx, Eligible(idx, a, k))
  IN  IF W = {} THEN NoRule ELSE CHOOSE r \in W : TRUE

-----------------------------------------------------------------------------
(* Resolution: a running grant first, the cheapest of several; otherwise   *)
(* the ranking.                                                            *)

GrantsFor(a, k) ==
  {i \in DOMAIN nego : /\ nego[i].acct = a /\ nego[i].status = "ACTIVE"
                       /\ nego[i].from <= TODAY /\ TODAY <= nego[i].to
                       /\ Covers(nego[i].scope, k)}

Cheapest(S) ==
  {i \in S : \A j \in S :
     \/ price[nego[i].sched] < price[nego[j].sched]
     \/ price[nego[i].sched] = price[nego[j].sched] /\ i <= j}

BestGrants(a, k) == Cheapest(GrantsFor(a, k))

Resolution(idx, a, k) ==
  LET G == BestGrants(a, k)
      w == WinnerFor(idx, a, k)
  IN  CASE G # {} -> [sched |-> nego[CHOOSE i \in G : TRUE].sched, rule |-> NoRule,
                      source |-> "nego"]
        [] G = {} /\ w # NoRule -> [sched |-> Rule[w].sched, rule |-> w, source |-> Rule[w].source]
        [] OTHER -> NoAnswer

(* What the tables say now.                                                *)
Current(a, k) == Resolution(BuildIndex, a, k)

Qualifies(class, a) == level[a] >= Threshold[class]

=============================================================================
