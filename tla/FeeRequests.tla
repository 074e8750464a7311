----------------------------- MODULE FeeRequests ------------------------------
(***************************************************************************)
(* The requests of FeeBinding running at the same time, one SQL statement  *)
(* at a time, on the tables of FeeBinding.  A request in a transaction     *)
(* (RuleService, NegoService) keeps its writes in `work` until it commits  *)
(* and its row locks in `held` until it ends; every statement reads what   *)
(* is committed when it starts (READ COMMITTED, PostgreSQL's default, which*)
(* nothing in the repository changes) and its own request's writes.  An    *)
(* event application runs in no transaction: the binder's onEnrollment     *)
(* calls its own @Transactional method, which only a call from another     *)
(* bean would start, so each of its statements commits by itself.          *)
(*                                                                         *)
(* The business date does not move while the requests run.                 *)
(***************************************************************************)
EXTENDS FeeLedger, FiniteSets

CONSTANTS
  Requests,  \* ids of the requests
  Request,   \* Request[q]: what q asks for
  Filings,   \* enrollment rows already in the table
  Retired,   \* sets of seeded rules that may have ended before the requests
  MaxBegun   \* bound on requests that begin

Kinds == {"approve", "expire", "reject", "decide", "deny", "enroll"}

ASSUME RequestAssumption ==
  /\ Request \in [Requests -> [kind : Kinds, rule : Rules, acct : Accounts, filing : RequestId]]
  /\ Filings \in Seq(Enrollment) /\ Len(Filings) <= MaxEnrollments
  /\ Retired \subseteq SUBSET Rules
  /\ IsFiniteSet(Rules) /\ LastDay # 0
  /\ MaxBegun \in Nat

VARIABLES
  pc,    \* the statement a request executes next
  work,  \* what it has read and written and not committed
  held   \* the row locks it holds

txVars == <<vars, pc, work, held>>

Statements ==
  {"check", "mark", "scan", "stamp", "clear", "clearing", "fill", "append", "decide",
   "rules", "grants", "rows", "delete", "insert", "commit"}
Ended == {"done", "failed"}

NothingYet ==
  [marked |-> FALSE, active |-> {}, list |-> <<>>, ranked |-> {}, old |-> {}, fill |-> {},
   decided |-> {}, todo |-> {}, en |-> <<>>,
   board |-> [a \in Accounts |-> [have |-> {}, want |-> {}]], at |-> NoRule]

Open == {q \in Requests : pc[q] \in Statements}
InTx(q) == Request[q].kind # "enroll"

-----------------------------------------------------------------------------
(* Row locks *)

RuleLock(r)    == <<"rule", r>>
IndexLocks(P)  == {<<"index", p[1]>> : p \in P}
RowLocks(S)    == {<<"row", [acct |-> v.acct, cell |-> v.cell, from |-> v.from]>> : v \in S}
GrantLocks(I)  == {<<"grant", i>> : i \in I}

Gone(b)  == Replaced(b.have, b.want) \cup Dropped(b.have, b.want)
New(b)   == Written(b.have, b.want)

(* The rows the next statement of q writes.                                *)
Needs(q) ==
  LET w == work[q]
  IN  CASE pc[q] = "mark"     -> {RuleLock(Request[q].rule)}
        [] pc[q] = "stamp"    -> {RuleLock(Head(w.list))}
        [] pc[q] = "clearing" -> IndexLocks(w.old)
        [] pc[q] = "fill"     -> IndexLocks(w.fill)
        [] pc[q] = "decide"   -> GrantLocks(Undecided(Request[q].filing))
        [] pc[q] = "delete"   -> RowLocks(Gone(w.board[w.at]))
        [] pc[q] = "insert"   -> RowLocks(New(w.board[w.at]))
        [] OTHER              -> {}

WaitsFor(p, q) == p # q /\ Needs(p) \cap held[q] # {}

(* Requests each of which waits for another of them.                       *)
Stuck(S) == S # {} /\ \A p \in S : \E q \in S : WaitsFor(p, q)

(* Mutant of Locks: an update does not wait.                               *)
LocksAtOnce(q) == held' = IF InTx(q) THEN [held EXCEPT ![q] = @ \cup Needs(q)] ELSE held

(* The next statement finds its rows unlocked; a transaction keeps them.   *)
Locks(q) ==
  /\ \A p \in Requests : ~WaitsFor(q, p)
  /\ held' = IF InTx(q) THEN [held EXCEPT ![q] = @ \cup Needs(q)] ELSE held

-----------------------------------------------------------------------------
(* What a statement of q reads *)

Goal(q) == CASE Request[q].kind = "approve" -> "ACTIVE"
             [] Request[q].kind = "expire"  -> "EXPIRED"
             [] OTHER                       -> "REJECTED"

SeesStatus(q) ==
  IF work[q].marked THEN [status EXCEPT ![Request[q].rule] = Goal(q)] ELSE status

SeesEnroll(q) ==
  [i \in DOMAIN enroll |->
     IF i \notin work[q].decided THEN enroll[i]
     ELSE IF Request[q].kind = "deny" THEN [enroll[i] EXCEPT !.status = "REJECTED"]
     ELSE [enroll[i] EXCEPT !.status = "ACTIVE", !.from = today, !.to = today + NegoTerm]]

(* The statuses a list of active rules stands for.                         *)
Only(S) == [r \in Rules |-> IF r \in S THEN "ACTIVE" ELSE Absent]

(* Mutant of Listed: the query has no ORDER BY.                            *)
ListedAnyhow(S) ==
  {l \in [1..Cardinality(S) -> S] : \A i, j \in 1..Cardinality(S) : l[i] = l[j] => i = j}

(* RuleRepository.findActive: ORDER BY rule_id.                            *)
Listed(S) ==
  LET Smaller(r) == {s \in S : Rule[s].ord < Rule[r].ord}
  IN  {[i \in 1..Cardinality(S) |-> CHOOSE r \in S : Cardinality(Smaller(r)) = i - 1]}

Refreshed(q) ==
  CASE Request[q].kind = "decide" -> AccountsOfRequest(Request[q].filing)
    [] Request[q].kind = "enroll" -> {Request[q].acct}
    [] OTHER                      -> AccountsForRule(Request[q].rule)

-----------------------------------------------------------------------------
(* Moves of one request *)

At(q, s) == pc[q] = s
Goes(q, s, w) == pc' = [pc EXCEPT ![q] = s] /\ work' = [work EXCEPT ![q] = w]
UnchangedTables == UNCHANGED vars

(* Mutant of Fails: the transaction of a failed request stays open.        *)
FailsOpen(q) == Goes(q, "failed", NothingYet) /\ UnchangedTables /\ UNCHANGED held

(* An exception rolls the transaction back; what an application already    *)
(* wrote stays.                                                            *)
Fails(q) ==
  /\ Goes(q, "failed", NothingYet)
  /\ held' = [held EXCEPT ![q] = {}]
  /\ UnchangedTables

Begin(q) ==
  /\ At(q, "ready")
  /\ Cardinality({p \in Requests : ~At(p, "ready")}) < MaxBegun
  /\ Goes(q, CASE Request[q].kind = "approve" -> "check"
               [] Request[q].kind \in {"decide", "deny"} -> "decide"
               [] Request[q].kind = "enroll"  -> "append"
               [] OTHER                       -> "mark", NothingYet)
  /\ UnchangedTables /\ UNCHANGED held

Approvable(q) == status[Request[q].rule] = "PENDING" /\ DominanceOk(Request[q].rule)

Check(q) ==
  /\ At(q, "check")
  /\ \/ /\ Approvable(q)
        /\ Goes(q, "mark", work[q])
        /\ UnchangedTables /\ UNCHANGED held
     \/ ~Approvable(q) /\ Fails(q)

(* Mutant of Mark: the ranks are left alone.                               *)
MarkUnranked(q) ==
  /\ At(q, "mark") /\ Locks(q)
  /\ Goes(q, IF Request[q].kind = "reject" THEN "commit" ELSE "rules",
          [work[q] EXCEPT !.marked = TRUE])
  /\ UnchangedTables

(* UPDATE fee_rule SET rule_status: whatever the status has become.        *)
Mark(q) ==
  /\ At(q, "mark") /\ Locks(q)
  /\ Goes(q, IF Request[q].kind = "reject" THEN "commit" ELSE "scan",
          [work[q] EXCEPT !.marked = TRUE])
  /\ UnchangedTables

(* Mutant of Scan: the statement does not see its own request's UPDATE.    *)
ScanCommitted(q) ==
  /\ At(q, "scan")
  /\ \E l \in Listed(Active(status)) :
       Goes(q, IF l = <<>> THEN "clear" ELSE "stamp",
            [work[q] EXCEPT !.list = l, !.ranked = Active(status)])
  /\ UnchangedTables /\ UNCHANGED held

(* RankIndexService: the active rules that are stamped and indexed.        *)
Scan(q) ==
  /\ At(q, "scan")
  /\ LET act == Active(SeesStatus(q))
     IN  \E l \in Listed(act) :
           Goes(q, IF l = <<>> THEN "clear" ELSE "stamp",
                [work[q] EXCEPT !.list = l, !.ranked = act])
  /\ UnchangedTables /\ UNCHANGED held

Stamp(q) ==
  /\ At(q, "stamp") /\ Locks(q)
  /\ LET rest == Tail(work[q].list)
     IN  Goes(q, IF rest = <<>> THEN "clear" ELSE "stamp", [work[q] EXCEPT !.list = rest])
  /\ UnchangedTables

(* DELETE FROM the index: the rows there when the statement starts ...     *)
Clear(q) ==
  /\ At(q, "clear")
  /\ Goes(q, "clearing", [work[q] EXCEPT !.old = index])
  /\ UnchangedTables /\ UNCHANGED held

(* ... which it may have to wait for.                                      *)
Clearing(q) ==
  /\ At(q, "clearing") /\ Locks(q)
  /\ Goes(q, "fill", [work[q] EXCEPT !.fill = IndexRows(Only(work[q].ranked))])
  /\ UnchangedTables

(* The index is keyed by cell and position, and every cell has a position 1. *)
Taken(q) == IndexLocks(index \ work[q].old) \cap IndexLocks(work[q].fill) # {}

Fill(q) ==
  /\ At(q, "fill")
  /\ \/ ~Taken(q) /\ Locks(q) /\ Goes(q, "rules", work[q]) /\ UnchangedTables
     \/ Taken(q) /\ (\A p \in Requests : ~WaitsFor(q, p)) /\ Fails(q)

(* Mutant of Decide: every row of the request is written.                  *)
DecideAll(q) ==
  /\ At(q, "decide") /\ Locks(q)
  /\ Goes(q, IF Request[q].kind = "deny" THEN "commit" ELSE "rules",
          [work[q] EXCEPT !.decided = OfRequest(Request[q].filing)])
  /\ UnchangedTables

(* UPDATE fee_enrollment WHERE status = 'REQUESTED': PostgreSQL looks at   *)
(* the condition again when it had to wait for a row.                      *)
Decide(q) ==
  /\ At(q, "decide") /\ Locks(q)
  /\ Goes(q, IF Request[q].kind = "deny" THEN "commit" ELSE "rules",
          [work[q] EXCEPT !.decided = Undecided(Request[q].filing)])
  /\ UnchangedTables

Apply(q) ==
  /\ At(q, "append")
  /\ Len(enroll) < MaxEnrollments
  /\ enroll' = Append(enroll, [acct |-> Request[q].acct, rule |-> Request[q].rule,
                               status |-> "ACTIVE", from |-> NoDate, to |-> NoDate,
                               at |-> today, req |-> NoReq])
  /\ Goes(q, "rules", work[q])
  /\ UNCHANGED <<today, status, held>> /\ UnchangedIndex /\ UnchangedBoard

-----------------------------------------------------------------------------
(* The refresh of the accounts: IncrementalBinder and BindingWriter *)

ReadRules(q) ==
  /\ At(q, "rules")
  /\ Goes(q, IF Refreshed(q) = {} THEN "commit" ELSE "grants",
          [work[q] EXCEPT !.active = Active(SeesStatus(q)), !.todo = Refreshed(q)])
  /\ UnchangedTables /\ UNCHANGED held

ReadGrants(q) ==
  /\ At(q, "grants")
  /\ \E a \in work[q].todo :
       Goes(q, "rows", [work[q] EXCEPT !.en = SeesEnroll(q), !.at = a, !.todo = @ \ {a}])
  /\ UnchangedTables /\ UNCHANGED held

ReadRows(q) ==
  /\ At(q, "rows")
  /\ LET w == work[q]
     IN  \E ord \in Orders :
           Goes(q, "delete",
                [w EXCEPT !.board[w.at] =
                   [have |-> Rows(w.at),
                    want |-> Expected(Only(w.active), w.en, ord, w.at, today)]])
  /\ UnchangedTables /\ UNCHANGED held

Without(S, gone) == {w \in S : \A v \in gone : ~SameKey(v, w)}

(* Deletes go by key; the history is written with them.                    *)
Delete(q) ==
  /\ At(q, "delete") /\ Locks(q)
  /\ Goes(q, "insert", work[q])
  /\ IF InTx(q) THEN UnchangedTables
     ELSE LET a == work[q].at
              b == work[q].board[a]
          IN  /\ binding' = Without(binding, Gone(b))
              /\ latest' = [latest EXCEPT ![a] = LogBoard(@, b.have, b.want)]
              /\ UNCHANGED <<today, status, enroll>> /\ UnchangedIndex

(* A row to insert has the key of a row committed since the account's rows *)
(* were read.                                                              *)
Collides(q) ==
  LET b == work[q].board[work[q].at]
  IN  \E v \in New(b) : \E w \in Without(binding, Gone(b)) : SameKey(v, w)

Insert(q) ==
  /\ At(q, "insert")
  /\ \/ /\ ~Collides(q) /\ Locks(q)
        /\ Goes(q, IF work[q].todo = {} THEN "commit" ELSE "grants", work[q])
        /\ binding' = IF InTx(q) THEN binding ELSE binding \cup New(work[q].board[work[q].at])
        /\ UNCHANGED <<today, status, enroll, latest>> /\ UnchangedIndex
     \/ Collides(q) /\ (\A p \in Requests : ~WaitsFor(q, p)) /\ Fails(q)

Commit(q) ==
  /\ At(q, "commit")
  /\ Goes(q, "done", NothingYet)
  /\ held' = [held EXCEPT ![q] = {}]
  /\ IF ~InTx(q) THEN UnchangedTables
     ELSE LET w == work[q]
          IN  /\ status' = SeesStatus(q)
              /\ enroll' = SeesEnroll(q)
              /\ stamped' = stamped \cup w.ranked
              /\ index' = (index \ w.old) \cup w.fill
              /\ binding' = Without(binding, UNION {Gone(w.board[a]) : a \in Accounts})
                              \cup UNION {New(w.board[a]) : a \in Accounts}
              /\ latest' = [a \in Accounts |->
                              LogBoard(latest[a], w.board[a].have, w.board[a].want)]
              /\ UNCHANGED today

(* PostgreSQL aborts one of the requests that wait for each other.         *)
Victim(q) ==
  /\ \E S \in SUBSET Open :
       /\ q \in S /\ Stuck(S)
       /\ \A T \in SUBSET S : Stuck(T) => T = S
  /\ Fails(q)

(* The server goes down and comes up: open transactions are gone, and the  *)
(* start-up check rebuilds an index that is empty or lacks a rank.         *)
Crash ==
  /\ Open # {}
  /\ pc' = [q \in Requests |-> IF q \in Open THEN "failed" ELSE pc[q]]
  /\ work' = [q \in Requests |-> NothingYet]
  /\ held' = [q \in Requests |-> {}]
  /\ UNCHANGED <<today, status, enroll>> /\ UnchangedBoard
  /\ IF Active(status) \subseteq stamped /\ index # {} THEN UnchangedIndex ELSE RebuildAll

-----------------------------------------------------------------------------
(* The tables after a full rebuild on the last day.                        *)
TxInit ==
  /\ today = LastDay
  /\ \E gone \in Retired :
       status = [r \in Rules |-> IF r \in gone THEN "EXPIRED" ELSE Seeded[r]]
  /\ stamped = Active(status)
  /\ index = IndexRows(status)
  /\ enroll = Filings
  /\ \E ord \in Orders :
       binding = UNION {Expected(status, Filings, ord, a, today) : a \in Accounts}
  /\ latest = [a \in Accounts |->
                 LogBoard([c \in Cells |-> NoRule], {}, Rows(a))]
  /\ pc = [q \in Requests |-> "ready"]
  /\ work = [q \in Requests |-> NothingYet]
  /\ held = [q \in Requests |-> {}]

RankStep(q)    == Check(q) \/ Mark(q) \/ Scan(q) \/ Stamp(q) \/ Clear(q) \/ Clearing(q) \/ Fill(q)
RefreshStep(q) == ReadRules(q) \/ ReadGrants(q) \/ ReadRows(q) \/ Delete(q) \/ Insert(q)
Proceed(q) ==
  RankStep(q) \/ Decide(q) \/ Apply(q) \/ RefreshStep(q) \/ Commit(q) \/ Victim(q)

TxNext == Crash \/ \E q \in Requests : Begin(q) \/ Proceed(q)

(* While a statement can run, the database runs one, and its deadlock      *)
(* detector breaks a circle.                                               *)
TxSpec == TxInit /\ [][TxNext]_txVars /\ WF_txVars(\E q \in Requests : Proceed(q))

-----------------------------------------------------------------------------
TxTypeOK ==
  /\ TypeOK
  /\ pc \in [Requests -> Statements \cup Ended \cup {"ready"}]
  /\ \A p, q \in Requests : p # q => held[p] \cap held[q] = {}

Quiet == Open = {}
Took(kinds) == \E q \in Requests : Request[q].kind \in kinds /\ pc[q] # "ready"

(* A rule stays active that no request is about.                           *)
Anchored ==
  \E r \in Active(status) : \A q \in Requests : Request[q].rule = r => pc[q] = "ready"

(* Approvals and expiries that overlap, abort each other or die half-way   *)
(* keep every committed board right, between their steps too, as long as   *)
(* some rule stays active: the rows stamping and reindexing lock before    *)
(* the refresh make the later one read what the earlier one committed.     *)
OverlapLeavesFresh ==
  Anchored /\ ~Took({"reject", "decide", "deny", "enroll"}) =>
    \A a \in Accounts : Fresh(a)

(* Begun approvals are of different rules.                                 *)
ApprovedOnce ==
  \A p, q \in Requests :
    /\ Request[p].kind = "approve" /\ Request[p].rule = Request[q].rule
    /\ Request[q].kind = "approve" /\ pc[p] # "ready" /\ pc[q] # "ready"
    => p = q

(* As long as some rule stays active, approvals of different rules,        *)
(* rejections, denials and applications never wait for each other in a     *)
(* circle: ranks are stamped in the order of the rule ids, a rule being    *)
(* approved is in no other request's list, and only one request at a time  *)
(* is past its stamps.  Without such a rule nothing serialises the board   *)
(* rows, which approvals of two rules lock account by account in no order. *)
ApprovalsNeverDeadlock ==
  Anchored /\ ApprovedOnce /\ ~Took({"expire", "decide"}) =>
    \A S \in SUBSET Open : ~Stuck(S)

(* Every request that began ends, and the tables come to rest: no lock     *)
(* outlives its request, and a circle of waiting requests is broken.       *)
RequestsEnd == []<>Quiet

(* When nothing runs, a trade is answered with the cheapest policy its     *)
(* account qualifies for, whatever overlapped.                             *)
QuietServesCheapest ==
  Quiet => \A a \in Accounts, k \in Concrete : \E ord \in Orders :
    Lookup(a, k, today) = {Winner(status, enroll, ord, a, k, today)}

=============================================================================
