------------------------------ MODULE FeeLedger ------------------------------
(***************************************************************************)
(* The read paths over the tables FeeBinding maintains: the fee of a trade *)
(* (LedgerLookupService over BindingRepository.lookup) and the theoretical *)
(* best policy of a cell (PriorityService.top over the candidate index).   *)
(***************************************************************************)
EXTENDS FeeBinding

Concrete == [base : Bases, session : Sessions, channel : Channels]

(* Rows the lookup query selects for a trade on key k.                     *)
LookupRows(a, k, d) ==
  {w \in Rows(a) : /\ w.cell.base = k.base
                   /\ w.cell.session \in {k.session, Star}
                   /\ w.cell.channel \in {k.channel, Star}
                   /\ w.from <= d /\ d <= w.to}

(* ORDER BY channel match, then session match.                             *)
Sooner(v, w, k) ==
  \/ v.cell.channel = k.channel /\ w.cell.channel # k.channel
  \/ /\ (v.cell.channel = k.channel) = (w.cell.channel = k.channel)
     /\ v.cell.session = k.session /\ w.cell.session # k.session

BaseWinner(k, d) ==
  Top({r \in Rules : Rule[r].type = "BASE" /\ InRanking(status, r, d) /\ Matches(r, k)})

(* The rules the ledger may answer with (rows that tie come in any order). *)
Lookup(a, k, d) ==
  LET R == LookupRows(a, k, d)
  IN  IF R = {} THEN {BaseWinner(k, d)}
      ELSE {w.rule : w \in {v \in R : \A u \in R : ~Sooner(u, v, k)}}

TopByComputation(k, d) == Top({r \in Rules : InRanking(status, r, d) /\ Matches(r, k)})

IndexedFor(k) ==
  {p[2] : p \in {q \in index : /\ q[1].base = k.base
                               /\ q[1].session \in {k.session, Star}
                               /\ q[1].channel \in {k.channel, Star}}}

(* Mutant of TopByIndex: indexed rules are trusted to be active still.     *)
TopOfIndexed(k, d) ==
  IF IndexedFor(k) = {} THEN TopByComputation(k, d) ELSE Top(IndexedFor(k))

TopByIndex(k, d) ==
  LET usable == {r \in IndexedFor(k) : InRanking(status, r, d) /\ Matches(r, k)}
  IN  IF usable = {} THEN TopByComputation(k, d) ELSE Top(usable)

-----------------------------------------------------------------------------
(* No active BASE rule is confined to some sessions or channels.           *)
BaseUnscoped ==
  \A r \in Active(status) : Rule[r].type = "BASE" =>
    Star \in Rule[r].sessions /\ Star \in Rule[r].channels

(* The trade's answer on a fresh board is the winner of the trade's own    *)
(* key.                                                                    *)
Served(a) ==
  \E ord \in Orders :
    /\ Rows(a) = Expected(status, enroll, ord, a, today)
    /\ \A k \in Concrete : ClassOf[k.base] \in Opened[a] =>
         Lookup(a, k, today) = {Winner(status, enroll, ord, a, k, today)}

(* The stored cells and the wildcard fall-through of the lookup give every *)
(* trade the cheapest policy the account qualifies for, crossings of a     *)
(* session rule with a channel rule included.                              *)
LedgerServesWinner ==
  BaseUnscoped => \A a \in Accounts : Fresh(a) /\ SingleGrant(a) => Served(a)

(* The same for an account with any set of grants.                         *)
LedgerServesWinnerAnyGrants ==
  BaseUnscoped => \A a \in Accounts : Fresh(a) => Served(a)

(* The indexed answer is the computed one, also between a rejection and    *)
(* the next index rebuild, before the first build and across restarts.     *)
TopAgrees == \A k \in Cells : TopByIndex(k, today) = TopByComputation(k, today)

=============================================================================
