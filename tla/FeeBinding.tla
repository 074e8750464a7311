----------------------------- MODULE FeeBinding -----------------------------
(***************************************************************************)
(* The server as a state machine: rule workflow (RuleService), negotiated  *)
(* grants (NegoService), event enrollment (EnrollController), the binding  *)
(* board and its three refresh paths (BindingWriter, IncrementalBinder,    *)
(* DeltaBatch, BindingRebuilder) and the candidate index                   *)
(* (RankIndexService).  One action is one request or batch run, executed   *)
(* alone: what concurrent transactions add is not in this module.          *)
(*                                                                         *)
(* Every request carries the business date `today` as its baseDate.        *)
(***************************************************************************)
EXTENDS FeePolicy

CONSTANTS
  Seeded,         \* Seeded[r]: status of r in the seed, Absent if not created yet
  Batches,        \* account lists a negotiation request may name
  Hash,           \* hashCode of an account list (not injective in general)
  Applied,        \* rules an application may name
  NegoTerm,       \* length of a new negotiated grant (one year in the code)
  Extensions,     \* lengths an extension may ask for: nothing rejects a negative one
  LastDay,        \* bound on the business date
  MaxEnrollments, \* bound on enrollment rows
  Horizon         \* bound on an extended grant's end: it stays in 1..Horizon

Absent == "ABSENT"
NoReq  == [rule |-> NoRule, hash |-> 0]

ASSUME BindingAssumption ==
  /\ Seeded \in [Rules -> RuleStatus \cup {Absent}]
  /\ Batches \subseteq Seq(Accounts)
  /\ Hash \in [Batches -> Int]
  /\ Applied \subseteq Rules
  /\ Extensions \subseteq Int
  /\ {NegoTerm, LastDay, MaxEnrollments, Horizon} \subseteq Nat

VARIABLES
  today,    \* business date
  status,   \* fee_rule.rule_status
  stamped,  \* rules with a non-null rank_value
  index,    \* fee_rule_candidate_index: (cell, rule) pairs
  enroll,   \* fee_enrollment, by enrollment_id
  binding,  \* fee_binding: rows of the board
  latest    \* newest fee_binding_history entry of an account's cell: the rule it names

vars == <<today, status, stamped, index, enroll, binding, latest>>

RequestId  == [rule : Rules \cup {NoRule}, hash : Int]
Enrollment ==
  [acct : Accounts, rule : Rules, status : EnrollmentStatus,
   from : Nat, to : Nat, at : Nat, req : RequestId]
BindingRow == [acct : Accounts, cell : Cells, from : Dates, to : Nat, rule : Rules]

(* Row orders the database may answer an unordered enrollment query in.    *)
Orders ==
  {ord \in [1..MaxEnrollments -> 1..MaxEnrollments] :
     \A i, j \in 1..MaxEnrollments : ord[i] = ord[j] => i = j}

-----------------------------------------------------------------------------
(* Board of one account *)

Rows(a) == {w \in binding : w.acct = a}

ToRow(a, c, r, win) == [acct |-> a, cell |-> c, from |-> win.from, to |-> win.to, rule |-> r]

(* Mutant of WantedIn: a winner without dates is stored too.               *)
WantedUndated(st, en, ord, a, c, d) ==
  LET r == Winner(st, en, ord, a, c, d)
  IN  IF r = NoRule \/ Rule[r].type = "BASE" THEN {}
      ELSE {ToRow(a, c, r, Window(en, ord, a, r))}

(* The row a rebuild wants in a cell: BASE winners and winners without     *)
(* dates are not stored.                                                   *)
WantedIn(st, en, ord, a, c, d) ==
  LET r   == Winner(st, en, ord, a, c, d)
      win == Window(en, ord, a, r)
  IN  IF r = NoRule \/ Rule[r].type = "BASE" \/ win.from = NoDate THEN {}
      ELSE {ToRow(a, c, r, win)}

(* The board a rebuild wants: cells of opened classes only.                *)
Expected(st, en, ord, a, d) ==
  UNION {WantedIn(st, en, ord, a, c, d) :
           c \in {x \in Universe(Active(st)) : ClassOf[x.base] \in Opened[a]}}

SameKey(v, w)  == v.acct = w.acct /\ v.cell = w.cell /\ v.from = w.from
Differs(v, w)  == v.rule # w.rule \/ v.to # w.to
Written(have, want) ==
  {v \in want : \A w \in have : SameKey(v, w) => Differs(v, w)}
Replaced(have, want) ==
  {w \in have : \E v \in want : SameKey(v, w) /\ Differs(v, w)}
Dropped(have, want) ==
  {w \in have : \A v \in want : ~SameKey(v, w)}

(* Mutant of WriteBoard: rows that are no longer wanted stay.              *)
WriteBoardUpsert(have, want) == (have \ Replaced(have, want)) \cup Written(have, want)

(* Mutant of WriteBoard: a row whose key is there already is not rewritten. *)
WriteBoardByKey(have, want) ==
  (have \ Dropped(have, want)) \cup {v \in want : \A w \in have : ~SameKey(v, w)}

(* BindingWriter.rebuildAccount: rows gone or changed are deleted, rows    *)
(* new or changed are inserted.                                            *)
WriteBoard(have, want) ==
  (have \ (Replaced(have, want) \cup Dropped(have, want))) \cup Written(have, want)

(* Mutant of LogBoard: only writes are logged.                             *)
LogWrites(log, have, want) ==
  LET written == Written(have, want)
  IN  [c \in Cells |-> IF \E v \in written : v.cell = c
                       THEN (CHOOSE v \in written : v.cell = c).rule ELSE log[c]]

(* History entries of one rebuild: those of written rows first, then one   *)
(* "back to base" entry for each dropped row.                              *)
LogBoard(log, have, want) ==
  LET dropped == Dropped(have, want)
      written == Written(have, want)
  IN  [c \in Cells |->
         IF \E w \in dropped : w.cell = c THEN NoRule
         ELSE IF \E v \in written : v.cell = c
              THEN (CHOOSE v \in written : v.cell = c).rule
              ELSE log[c]]

(* IncrementalBinder.rebuildAccounts on the tables as this request leaves  *)
(* them: the board and the history of every account of A.                  *)
Rebuild(A) ==
  \E ord \in Orders :
    LET want == [a \in A |-> Expected(status', enroll', ord, a, today)]
    IN  /\ binding' = {w \in binding : w.acct \notin A}
                        \cup UNION {WriteBoard(Rows(a), want[a]) : a \in A}
        /\ latest' = [a \in Accounts |->
                        IF a \in A THEN LogBoard(latest[a], Rows(a), want[a]) ELSE latest[a]]

OpenedGroup(k) == {a \in Accounts : k \in Opened[a]}
AccountsForRule(r) == OpenedGroup(Rule[r].class)

-----------------------------------------------------------------------------
(* Candidate index *)

IndexRows(st) ==
  {p \in Universe(Active(st)) \X Active(st) : Matches(p[2], p[1])}

(* Mutant of RebuildAll: ranks are stamped before the status is written.   *)
RebuildAllEarly ==
  /\ stamped' = stamped \cup Active(status)
  /\ index' = IndexRows(status')

RebuildAll ==
  /\ stamped' = stamped \cup Active(status')
  /\ index' = IndexRows(status')

UnchangedIndex == UNCHANGED <<stamped, index>>
UnchangedBoard == UNCHANGED <<binding, latest>>

-----------------------------------------------------------------------------
(* Rule workflow *)

(* The schedule a candidate must not exceed: the active BASE rule of the   *)
(* class with the smallest id, whatever its period.                        *)
BaseLine(k) ==
  LET S == {b \in Active(status) : Rule[b].type = "BASE" /\ Rule[b].class = k}
  IN  {b \in S : \A q \in S : Rule[b].ord <= Rule[q].ord}

DominanceOk(r) == Rule[r].type = "BASE" \/ BaseLine(Rule[r].class) \subseteq Rule[r].beats

CreateDraft(r) ==
  /\ status[r] = Absent
  /\ status' = [status EXCEPT ![r] = "DRAFT"]
  /\ UNCHANGED <<today, enroll>> /\ UnchangedIndex /\ UnchangedBoard

Submit(r) ==
  /\ status[r] = "DRAFT"
  /\ status' = [status EXCEPT ![r] = "PENDING"]
  /\ UNCHANGED <<today, enroll>> /\ UnchangedIndex /\ UnchangedBoard

Approve(r) ==
  /\ status[r] = "PENDING"
  /\ DominanceOk(r)
  /\ status' = [status EXCEPT ![r] = "ACTIVE"]
  /\ UNCHANGED <<today, enroll>>
  /\ RebuildAll
  /\ Rebuild(AccountsForRule(r))

(* Neither the status is checked nor the board refreshed.                  *)
Reject(r) ==
  /\ status[r] # Absent
  /\ status' = [status EXCEPT ![r] = "REJECTED"]
  /\ UNCHANGED <<today, enroll>> /\ UnchangedIndex /\ UnchangedBoard

Expire(r) ==
  /\ status[r] # Absent
  /\ status' = [status EXCEPT ![r] = "EXPIRED"]
  /\ UNCHANGED <<today, enroll>>
  /\ RebuildAll
  /\ Rebuild(AccountsForRule(r))

-----------------------------------------------------------------------------
(* Negotiated grants and event enrollment *)

NewRequest(a, r, as) ==
  [acct |-> a, rule |-> r, status |-> "REQUESTED", from |-> NoDate, to |-> NoDate,
   at |-> NoDate, req |-> [rule |-> r, hash |-> Hash[as]]]

(* The request id is built from the rule and a hash of the account list:   *)
(* filing a list again reuses the id, and so does a list of the same hash. *)
(* The rule need not be active.                                            *)
CreateRequests(as, r) ==
  /\ Rule[r].type = "NEGOTIATED" /\ status[r] # Absent
  /\ Len(enroll) + Len(as) <= MaxEnrollments
  /\ enroll' = enroll \o [n \in 1..Len(as) |-> NewRequest(as[n], r, as)]
  /\ UNCHANGED <<today, status>> /\ UnchangedIndex /\ UnchangedBoard

(* Mutant of Undecided: the status filter of the update is missing.        *)
OfRequest(q) == {i \in DOMAIN enroll : enroll[i].req = q}

Undecided(q) == {i \in DOMAIN enroll : enroll[i].req = q /\ enroll[i].status = "REQUESTED"}
(* Mutant of AccountsOfRequest: only the first row of the request counts.  *)
FirstAccountOfRequest(q) ==
  {enroll[i].acct : i \in {j \in DOMAIN enroll :
                             enroll[j].req = q /\ \A k \in 1..(j - 1) : enroll[k].req # q}}

AccountsOfRequest(q) == {enroll[i].acct : i \in {j \in DOMAIN enroll : enroll[j].req = q}}
Filed == {enroll[i].req : i \in DOMAIN enroll} \ {NoReq}

ApproveNego(q) ==
  /\ enroll' = [i \in DOMAIN enroll |->
                  IF i \in Undecided(q)
                  THEN [enroll[i] EXCEPT !.status = "ACTIVE", !.from = today, !.to = today + NegoTerm]
                  ELSE enroll[i]]
  /\ UNCHANGED <<today, status>> /\ UnchangedIndex
  /\ Rebuild(AccountsOfRequest(q))

RejectNego(q) ==
  /\ enroll' = [i \in DOMAIN enroll |->
                  IF i \in Undecided(q) THEN [enroll[i] EXCEPT !.status = "REJECTED"] ELSE enroll[i]]
  /\ UNCHANGED <<today, status>> /\ UnchangedIndex /\ UnchangedBoard

(* Mutant of Extend: the board keeps the old dates.                        *)
ExtendSilently(ids, n) ==
  LET dated == {i \in ids : enroll[i].to # NoDate}
  IN  /\ \A i \in dated : enroll[i].to + n \in 1..Horizon
      /\ enroll' = [i \in DOMAIN enroll |->
                      IF i \in dated THEN [enroll[i] EXCEPT !.to = @ + n] ELSE enroll[i]]
      /\ UNCHANGED <<today, status>> /\ UnchangedIndex /\ UnchangedBoard

(* Any enrollment with an end date can be extended, whatever its status,   *)
(* by any number of months the caller names.                               *)
Extend(ids, n) ==
  LET dated == {i \in ids : enroll[i].to # NoDate}
  IN  /\ \A i \in dated : enroll[i].to + n \in 1..Horizon
      /\ enroll' = [i \in DOMAIN enroll |->
                      IF i \in dated THEN [enroll[i] EXCEPT !.to = @ + n] ELSE enroll[i]]
      /\ UNCHANGED <<today, status>> /\ UnchangedIndex
      /\ Rebuild({enroll[i].acct : i \in dated})

(* An event application is granted at once; the rule is not looked at.     *)
Enroll(a, r) ==
  /\ status[r] # Absent
  /\ Len(enroll) < MaxEnrollments
  /\ enroll' = Append(enroll, [acct |-> a, rule |-> r, status |-> "ACTIVE", from |-> NoDate,
                               to |-> NoDate, at |-> today, req |-> NoReq])
  /\ UNCHANGED <<today, status>> /\ UnchangedIndex
  /\ Rebuild({a})

-----------------------------------------------------------------------------
(* Batches, restart, calendar *)

(* Mutant of DeltaAccounts: rows that end today instead of yesterday.      *)
DeltaEndsToday ==
  {w.acct : w \in {v \in binding : v.to = today}}
    \cup UNION {AccountsForRule(r) : r \in {q \in Active(status) : Rule[q].start = today}}

(* Accounts the day's delta touches: a row ended yesterday, or an active   *)
(* rule of an opened class starts today.                                   *)
DeltaAccounts ==
  {w.acct : w \in {v \in binding : v.to = today - 1}}
    \cup UNION {AccountsForRule(r) : r \in {q \in Active(status) : Rule[q].start = today}}

Delta ==
  /\ UNCHANGED <<today, status, enroll>> /\ UnchangedIndex
  /\ Rebuild(DeltaAccounts)

(* Mutant of FullRebuild: the accounts of the delta batch.                 *)
RebuildDue ==
  /\ UNCHANGED <<today, status, enroll>> /\ UnchangedIndex
  /\ Rebuild(DeltaAccounts)

FullRebuild ==
  /\ UNCHANGED <<today, status, enroll>> /\ UnchangedIndex
  /\ Rebuild(Accounts)

RebuildIndex ==
  /\ UNCHANGED <<today, status, enroll>> /\ UnchangedBoard
  /\ RebuildAll

(* RankIndexBootstrap at application start. *)
Restart ==
  /\ ~(Active(status) \subseteq stamped) \/ index = {}
  /\ RebuildIndex

NextDay ==
  /\ today < LastDay
  /\ today' = today + 1
  /\ UNCHANGED <<status, enroll>> /\ UnchangedIndex /\ UnchangedBoard

-----------------------------------------------------------------------------
Init ==
  /\ today = 1
  /\ status = Seeded
  /\ stamped = {}
  /\ index = {}
  /\ enroll = <<>>
  /\ binding = {}
  /\ latest = [a \in Accounts |-> [c \in Cells |-> NoRule]]

RuleStep == \E r \in Rules : CreateDraft(r) \/ Submit(r) \/ Approve(r) \/ Reject(r) \/ Expire(r)
NegoStep ==
  \/ \E as \in Batches, r \in Rules : CreateRequests(as, r)
  \/ \E q \in Filed : ApproveNego(q) \/ RejectNego(q)
  \/ \E ids \in SUBSET DOMAIN enroll, n \in Extensions : Extend(ids, n)
EnrollStep == \E a \in Accounts, r \in Applied : Enroll(a, r)
BatchStep  == FullRebuild \/ Delta \/ RebuildIndex \/ Restart \/ NextDay

Next == RuleStep \/ NegoStep \/ EnrollStep \/ BatchStep

Spec == Init /\ [][Next]_vars

-----------------------------------------------------------------------------
(* What the board promises *)

TypeOK ==
  /\ today \in Nat \ {0}
  /\ status \in [Rules -> RuleStatus \cup {Absent}]
  /\ stamped \subseteq Rules
  /\ index \subseteq Cells \X Rules
  /\ enroll \in Seq(Enrollment) /\ Len(enroll) <= MaxEnrollments
  /\ binding \subseteq BindingRow
  /\ latest \in [Accounts -> [Cells -> Rules \cup {NoRule}]]

(* A trade never finds two rows of one cell: valid_from is part of the     *)
(* table's key, so only the delete half of the writer keeps a winner with  *)
(* new dates from standing beside the old one.                             *)
OneRowPerCell ==
  \A v, w \in binding : v.acct = w.acct /\ v.cell = w.cell => v = w

(* Every negotiated row carries exactly the dates of an active grant of    *)
(* that account for that rule: an approval, an extension or an expiry that *)
(* moves a grant moves its rows in the same request.                       *)
NegoRowBacked ==
  \A w \in binding : Rule[w.rule].type = "NEGOTIATED" =>
    \E i \in ActiveOf(enroll, w.acct, w.rule) :
      enroll[i].from = w.from /\ enroll[i].to = w.to

(* A cell with no row has a history whose newest entry says so: no board   *)
(* deletion goes unlogged or is logged before a write of the same rebuild. *)
HistoryKnowsReturn ==
  \A a \in Accounts, c \in Cells :
    (\A w \in Rows(a) : w.cell # c) => latest[a][c] = NoRule

(* The board of an account is one that date d may derive.                  *)
FreshOn(a, d) == \E ord \in Orders : Rows(a) = Expected(status, enroll, ord, a, d)
Fresh(a)      == FreshOn(a, today)

(* An incremental refresh reaches every account whose winner its request   *)
(* changes: no request of the day makes a fresh account stale.  Rejecting  *)
(* a rule that is already active is the one exception the code leaves.     *)
IncrementalKeepsFresh ==
  [][ /\ today' = today
      /\ \A r \in Rules : status[r] = "ACTIVE" => status'[r] # "REJECTED"
      => \A a \in Accounts : Fresh(a) => Fresh(a)' ]_vars

(* The day's delta batch is enough: an account it leaves alone and whose   *)
(* board was right for yesterday has a board that is right for today.      *)
DeltaMissesNone ==
  \A a \in Accounts \ DeltaAccounts : FreshOn(a, today - 1) => Fresh(a)

(* An account holds at most one active enrollment per negotiated rule.     *)
SingleGrant(a) ==
  \A r \in Rules : Rule[r].type = "NEGOTIATED" =>
    \A i, j \in ActiveOf(enroll, a, r) : i = j

(* No rule ended yesterday whose end no row shows: BASE winners have no     *)
(* row, and the row of a negotiated winner ends with its grant.            *)
NoSilentEnd(a) ==
  \A r \in Active(status) : Rule[r].class \in Opened[a] /\ Rule[r].type # "EVENT" =>
    Rule[r].end # today - 1

(* Nothing the account holds begins today: such a request rebuilt its      *)
(* board when it was made.                                                 *)
NothingSinceDawn(a) ==
  \A i \in DOMAIN enroll : enroll[i].acct = a => today \notin {enroll[i].from, enroll[i].at}

(* The same with the exceptions named: what ends or begins overnight is    *)
(* found by the rows that end and the rules that start, whatever rules,    *)
(* grants and benefit periods end independently of each other.             *)
DeltaFindsAll ==
  \A a \in Accounts \ DeltaAccounts :
    NoSilentEnd(a) /\ SingleGrant(a) /\ NothingSinceDawn(a) /\ FreshOn(a, today - 1) => Fresh(a)

(* The step is an extension that names enrollment i.                       *)
Extends(i) ==
  \E ids \in SUBSET DOMAIN enroll, n \in Extensions : i \in ids /\ Extend(ids, n)

(* A grant is decided once: duplicate requests share an id, and a second   *)
(* decision must neither re-date nor revoke what the first one granted;    *)
(* its start never moves, and its end only when an extension names it, in  *)
(* whichever direction the months of that extension point.                 *)
GrantDecidedOnce ==
  [][ \A i \in DOMAIN enroll : enroll[i].status # "REQUESTED" =>
        /\ enroll'[i].status = enroll[i].status
        /\ enroll'[i].from = enroll[i].from
        /\ enroll'[i].to = enroll[i].to \/ Extends(i) ]_vars

(* Once an index exists, every active rule has a stored rank: the ranking  *)
(* of the binder never falls back to recomputing one.                      *)
RankStamped == index # {} => Active(status) \subseteq stamped

(* What is assigned in each cell, whatever rows say so.                    *)
BoardOf ==
  [a \in Accounts |-> [c \in Cells |->
     {[rule |-> w.rule, dates |-> [from |-> w.from, to |-> w.to]] :
        w \in {v \in Rows(a) : v.cell = c}}]]

View == INSTANCE BoardView WITH day <- today, grants <- enroll, board <- BoardOf

(* Board, requests and batches implement the view: no request, batch or    *)
(* restart leaves behind a board that is neither right nor untouched, or   *)
(* leaves untouched one it made wrong.                                     *)
ImplementsView == View!Spec

(* A full rebuild, started by hand, leaves every board right: whatever     *)
(* rows rejections, missed date changes and moved ends left behind are     *)
(* deleted, re-dated or replaced in that one run.                          *)
RebuildRepairs == [][FullRebuild => \A a \in Accounts : Fresh(a)']_vars

=============================================================================
