-------------------------- MODULE FeeRequestsProofs --------------------------
(***************************************************************************)
(* Two promises of FeeBinding that survive any number of requests running  *)
(* side by side, aborts and crashes included: a grant is decided once, and *)
(* no active rule lacks its rank.  The first rests on row locks (what a    *)
(* request decided and has not committed is undecided for everybody else   *)
(* and locked by nobody else), the second on the order of an approval (it  *)
(* ranks what it sees after it marked its rule).                           *)
(***************************************************************************)
EXTENDS FeeRequests, FeeBindingProofs

(* The private state of a request is a record of these fields.             *)
IsWork(w) ==
  w = [marked |-> w.marked, active |-> w.active, list |-> w.list, ranked |-> w.ranked,
       old |-> w.old, fill |-> w.fill, decided |-> w.decided, todo |-> w.todo, en |-> w.en,
       board |-> w.board, at |-> w.at]

Ranking == {"stamp", "clear", "clearing", "fill", "rules", "grants", "rows", "delete", "insert",
            "commit"}

(* Where a request can be, by its kind: only decisions decide, only        *)
(* applications append, and an approval past its scan ranks its own rule.  *)
Placed(q, s, w) ==
  /\ s = "decide" => Request[q].kind \in {"decide", "deny"}
  /\ s = "append" => Request[q].kind = "enroll"
  /\ s = "scan" => w.marked
  /\ s \in Ranking /\ Request[q].kind = "approve" => Request[q].rule \in w.ranked

Shape ==
  /\ pc = [q \in Requests |-> pc[q]]
  /\ work = [q \in Requests |-> work[q]]
  /\ held = [q \in Requests |-> held[q]]
  /\ today \in Nat
  /\ status \in [Rules -> RuleStatus \cup {Absent}]
  /\ enroll \in Seq(Enrollment)
  /\ \A q \in Requests : IsWork(work[q]) /\ Placed(q, pc[q], work[q])

(* What a request decided is undecided in the table and locked by it.      *)
DecidesAlone ==
  \A q \in Requests :
    /\ \A i \in work[q].decided :
         i \in DOMAIN enroll /\ enroll[i].status = "REQUESTED" /\ <<"grant", i>> \in held[q]
    /\ \A p \in Requests \ {q} : held[p] \cap held[q] = {}

TxInv == Shape /\ DecidesAlone /\ Active(status) \subseteq stamped

-----------------------------------------------------------------------------
(* Moves *)

(* A move of one request leaves the place and work of the others alone.    *)
LEMMA OneMoves ==
  ASSUME Shape, NEW q \in Requests, NEW s, NEW w, Goes(q, s, w)
  PROVE  /\ pc' = [p \in Requests |-> pc'[p]] /\ work' = [p \in Requests |-> work'[p]]
         /\ pc'[q] = s /\ work'[q] = w
         /\ \A p \in Requests \ {q} : pc'[p] = pc[p] /\ work'[p] = work[p]
BY DEF Shape, Goes

(* A lock is taken only if nobody else holds it.                           *)
LEMMA LocksAlone ==
  ASSUME TxInv, NEW q \in Requests, Locks(q)
  PROVE  /\ held' = [p \in Requests |-> held'[p]]
         /\ held[q] \subseteq held'[q]
         /\ InTx(q) => Needs(q) \subseteq held'[q]
         /\ \A p \in Requests \ {q} : held'[p] = held[p] /\ held'[q] \cap held[p] = {}
         /\ \A p, r \in Requests : p # r => held'[p] \cap held'[r] = {}
<1> DEFINE N == Needs(q)
<1>1. \A p \in Requests \ {q} : N \cap held[p] = {}
  BY DEF Locks, WaitsFor
<1>2. held' = IF InTx(q) THEN [held EXCEPT ![q] = @ \cup N] ELSE held
  BY DEF Locks
<1> HIDE DEF N
<1>3. held = [p \in Requests |-> held[p]]
  BY DEF TxInv, Shape
<1>4. \A p, r \in Requests : p # r => held[p] \cap held[r] = {}
  BY DEF TxInv, DecidesAlone
<1>5. /\ held' = [p \in Requests |-> held'[p]]
      /\ \A p \in Requests \ {q} : held'[p] = held[p]
      /\ held'[q] \subseteq held[q] \cup N /\ held[q] \subseteq held'[q]
      /\ InTx(q) => N \subseteq held'[q]
  BY <1>2, <1>3
<1>6. \A p \in Requests \ {q} : held'[q] \cap held[p] = {}
  BY <1>1, <1>4, <1>5
<1>7. \A p, r \in Requests : p # r => held'[p] \cap held'[r] = {}
  BY <1>4, <1>5, <1>6
<1>8. QED BY <1>5, <1>6, <1>7 DEF N

(* A move that decides nothing and writes nothing keeps everything.        *)
LEMMA MoveKeeps ==
  ASSUME TxInv, NEW q \in Requests, NEW s, NEW w, Goes(q, s, w), IsWork(w), Placed(q, s, w),
         today' = today, status' = status, enroll' = enroll, stamped' = stamped,
         \/ (held' = held \/ Locks(q)) /\ w.decided \subseteq work[q].decided
         \/ held' = [held EXCEPT ![q] = {}] /\ w.decided = {}
  PROVE  TxInv'
<1>1. /\ pc' = [p \in Requests |-> pc'[p]] /\ work' = [p \in Requests |-> work'[p]]
      /\ pc'[q] = s /\ work'[q] = w
      /\ \A p \in Requests \ {q} : pc'[p] = pc[p] /\ work'[p] = work[p]
  BY OneMoves DEF TxInv
<1>2. /\ held' = [p \in Requests |-> held'[p]]
      /\ \A p \in Requests \ {q} : held'[p] = held[p]
      /\ w.decided # {} => w.decided \subseteq work[q].decided /\ held[q] \subseteq held'[q]
      /\ \A p, r \in Requests : p # r => held'[p] \cap held'[r] = {}
  <2>1. /\ held = [p \in Requests |-> held[p]]
        /\ \A p, r \in Requests : p # r => held[p] \cap held[r] = {}
    BY DEF TxInv, Shape, DecidesAlone
  <2>2. CASE held' = held /\ w.decided \subseteq work[q].decided
    BY <2>1, <2>2
  <2>3. CASE Locks(q) /\ w.decided \subseteq work[q].decided
    BY <2>3, LocksAlone
  <2>4. CASE held' = [held EXCEPT ![q] = {}] /\ w.decided = {}
    BY <2>1, <2>4
  <2>5. QED BY <2>2, <2>3, <2>4
<1>3. Shape'
  <2>1. \A p \in Requests : IsWork(work'[p]) /\ Placed(p, pc'[p], work'[p])
    BY <1>1 DEF TxInv, Shape
  <2>2. QED BY <1>1, <1>2, <2>1 DEF TxInv, Shape, Placed, IsWork
<1>4. DecidesAlone'
  <2>1. ASSUME NEW p \in Requests, NEW i \in work'[p].decided
        PROVE  i \in DOMAIN enroll /\ enroll[i].status = "REQUESTED" /\ <<"grant", i>> \in held'[p]
    BY <1>1, <1>2, <2>1 DEF TxInv, DecidesAlone
  <2>2. QED BY <1>2, <2>1 DEF DecidesAlone
<1>5. QED BY <1>3, <1>4 DEF TxInv

(* A request asks for something about a rule.                              *)
LEMMA RequestType ==
  ASSUME NEW q \in Requests
  PROVE  Request[q].kind \in Kinds /\ Request[q].rule \in Rules
BY RequestAssumption

(* The private record of a request, field by field.                        *)
WorkIs(v, m, act, l, r, o, f, d, t, e, b, x) ==
  v = [marked |-> m, active |-> act, list |-> l, ranked |-> r, old |-> o, fill |-> f,
       decided |-> d, todo |-> t, en |-> e, board |-> b, at |-> x]

(* A private record with these three fields.                               *)
Like(v, m, r, d) == IsWork(v) /\ v.marked = m /\ v.ranked = r /\ v.decided = d

LEMMA WorkLike ==
  ASSUME NEW v, NEW m, NEW act, NEW l, NEW r, NEW o, NEW f, NEW d, NEW t, NEW e, NEW b, NEW x,
         WorkIs(v, m, act, l, r, o, f, d, t, e, b, x)
  PROVE  /\ Like(v, m, r, d)
         /\ v.active = act /\ v.list = l /\ v.old = o /\ v.fill = f
         /\ v.todo = t /\ v.en = e /\ v.board = b /\ v.at = x
BY DEF WorkIs, Like, IsWork

(* Writing into the private record changes the fields that are written.    *)
LEMMA Puts ==
  ASSUME NEW w, IsWork(w), NEW x, NEW y, NEW z
  PROVE
    /\ WorkIs([w EXCEPT !.marked = x],
              x, w.active, w.list, w.ranked, w.old, w.fill, w.decided, w.todo, w.en, w.board, w.at)
    /\ WorkIs([w EXCEPT !.list = x, !.ranked = y],
              w.marked, w.active, x, y, w.old, w.fill, w.decided, w.todo, w.en, w.board, w.at)
    /\ WorkIs([w EXCEPT !.list = x],
              w.marked, w.active, x, w.ranked, w.old, w.fill, w.decided, w.todo, w.en, w.board, w.at)
    /\ WorkIs([w EXCEPT !.old = x],
              w.marked, w.active, w.list, w.ranked, x, w.fill, w.decided, w.todo, w.en, w.board, w.at)
    /\ WorkIs([w EXCEPT !.fill = x],
              w.marked, w.active, w.list, w.ranked, w.old, x, w.decided, w.todo, w.en, w.board, w.at)
    /\ WorkIs([w EXCEPT !.decided = x],
              w.marked, w.active, w.list, w.ranked, w.old, w.fill, x, w.todo, w.en, w.board, w.at)
    /\ WorkIs([w EXCEPT !.active = x, !.todo = y],
              w.marked, x, w.list, w.ranked, w.old, w.fill, w.decided, y, w.en, w.board, w.at)
    /\ WorkIs([w EXCEPT !.en = x, !.at = y, !.todo = z],
              w.marked, w.active, w.list, w.ranked, w.old, w.fill, w.decided, z, x, w.board, y)
    /\ WorkIs([w EXCEPT !.board = x],
              w.marked, w.active, w.list, w.ranked, w.old, w.fill, w.decided, w.todo, w.en, x, w.at)
<1> DEFINE u == [marked |-> w.marked, active |-> w.active, list |-> w.list, ranked |-> w.ranked,
                 old |-> w.old, fill |-> w.fill, decided |-> w.decided, todo |-> w.todo,
                 en |-> w.en, board |-> w.board, at |-> w.at]
<1>1. w = u
  BY DEF IsWork
<1>2. WorkIs([u EXCEPT !.marked = x],
            x, w.active, w.list, w.ranked, w.old, w.fill, w.decided, w.todo, w.en, w.board, w.at)
  BY DEF WorkIs
<1>3. WorkIs([u EXCEPT !.list = x, !.ranked = y],
            w.marked, w.active, x, y, w.old, w.fill, w.decided, w.todo, w.en, w.board, w.at)
  <2> DEFINE u1 == [marked |-> w.marked, active |-> w.active, list |-> x, ranked |-> w.ranked,
                    old |-> w.old, fill |-> w.fill, decided |-> w.decided, todo |-> w.todo,
                    en |-> w.en, board |-> w.board, at |-> w.at]
  <2>1. [u EXCEPT !.list = x] = u1
    OBVIOUS
  <2> DEFINE u2 == [marked |-> w.marked, active |-> w.active, list |-> x, ranked |-> y,
                    old |-> w.old, fill |-> w.fill, decided |-> w.decided, todo |-> w.todo,
                    en |-> w.en, board |-> w.board, at |-> w.at]
  <2>2. [u1 EXCEPT !.ranked = y] = u2
    OBVIOUS
  <2>3. WorkIs(u2, w.marked, w.active, x, y, w.old, w.fill, w.decided, w.todo, w.en, w.board, w.at)
    BY DEF WorkIs
  <2> HIDE DEF u, u1, u2
  <2>4. QED BY <2>1, <2>2, <2>3
<1>4. WorkIs([u EXCEPT !.list = x],
            w.marked, w.active, x, w.ranked, w.old, w.fill, w.decided, w.todo, w.en, w.board, w.at)
  BY DEF WorkIs
<1>5. WorkIs([u EXCEPT !.old = x],
            w.marked, w.active, w.list, w.ranked, x, w.fill, w.decided, w.todo, w.en, w.board, w.at)
  BY DEF WorkIs
<1>6. WorkIs([u EXCEPT !.fill = x],
            w.marked, w.active, w.list, w.ranked, w.old, x, w.decided, w.todo, w.en, w.board, w.at)
  BY DEF WorkIs
<1>7. WorkIs([u EXCEPT !.decided = x],
            w.marked, w.active, w.list, w.ranked, w.old, w.fill, x, w.todo, w.en, w.board, w.at)
  BY DEF WorkIs
<1>8. WorkIs([u EXCEPT !.active = x, !.todo = y],
            w.marked, x, w.list, w.ranked, w.old, w.fill, w.decided, y, w.en, w.board, w.at)
  <2> DEFINE u1 == [marked |-> w.marked, active |-> x, list |-> w.list, ranked |-> w.ranked,
                    old |-> w.old, fill |-> w.fill, decided |-> w.decided, todo |-> w.todo,
                    en |-> w.en, board |-> w.board, at |-> w.at]
  <2>1. [u EXCEPT !.active = x] = u1
    OBVIOUS
  <2> DEFINE u2 == [marked |-> w.marked, active |-> x, list |-> w.list, ranked |-> w.ranked,
                    old |-> w.old, fill |-> w.fill, decided |-> w.decided, todo |-> y,
                    en |-> w.en, board |-> w.board, at |-> w.at]
  <2>2. [u1 EXCEPT !.todo = y] = u2
    OBVIOUS
  <2>3. WorkIs(u2, w.marked, x, w.list, w.ranked, w.old, w.fill, w.decided, y, w.en, w.board, w.at)
    BY DEF WorkIs
  <2> HIDE DEF u, u1, u2
  <2>4. QED BY <2>1, <2>2, <2>3
<1>9. WorkIs([u EXCEPT !.en = x, !.at = y, !.todo = z],
            w.marked, w.active, w.list, w.ranked, w.old, w.fill, w.decided, z, x, w.board, y)
  <2> DEFINE u1 == [marked |-> w.marked, active |-> w.active, list |-> w.list, ranked |-> w.ranked,
                    old |-> w.old, fill |-> w.fill, decided |-> w.decided, todo |-> w.todo,
                    en |-> x, board |-> w.board, at |-> w.at]
  <2>1. [u EXCEPT !.en = x] = u1
    OBVIOUS
  <2> DEFINE u2 == [marked |-> w.marked, active |-> w.active, list |-> w.list, ranked |-> w.ranked,
                    old |-> w.old, fill |-> w.fill, decided |-> w.decided, todo |-> w.todo,
                    en |-> x, board |-> w.board, at |-> y]
  <2>2. [u1 EXCEPT !.at = y] = u2
    OBVIOUS
  <2> DEFINE u3 == [marked |-> w.marked, active |-> w.active, list |-> w.list, ranked |-> w.ranked,
                    old |-> w.old, fill |-> w.fill, decided |-> w.decided, todo |-> z,
                    en |-> x, board |-> w.board, at |-> y]
  <2>3. [u2 EXCEPT !.todo = z] = u3
    OBVIOUS
  <2>4. WorkIs(u3, w.marked, w.active, w.list, w.ranked, w.old, w.fill, w.decided, z, x, w.board, y)
    BY DEF WorkIs
  <2> HIDE DEF u, u1, u2, u3
  <2>5. QED BY <2>1, <2>2, <2>3, <2>4
<1>10. WorkIs([u EXCEPT !.board = x],
            w.marked, w.active, w.list, w.ranked, w.old, w.fill, w.decided, w.todo, w.en, x, w.at)
  BY DEF WorkIs
<1>11. QED BY <1>1, <1>2, <1>3, <1>4, <1>5, <1>6, <1>7, <1>8, <1>9, <1>10

(* What these edits leave of the fields the invariant speaks of.           *)
LEMMA Edits ==
  ASSUME NEW w, IsWork(w), NEW x, NEW y, NEW z
  PROVE  /\ Like([w EXCEPT !.marked = x], x, w.ranked, w.decided)
         /\ Like([w EXCEPT !.list = x, !.ranked = y], w.marked, y, w.decided)
         /\ Like([w EXCEPT !.list = x], w.marked, w.ranked, w.decided)
         /\ Like([w EXCEPT !.old = x], w.marked, w.ranked, w.decided)
         /\ Like([w EXCEPT !.fill = x], w.marked, w.ranked, w.decided)
         /\ Like([w EXCEPT !.decided = x], w.marked, w.ranked, x)
         /\ Like([w EXCEPT !.active = x, !.todo = y], w.marked, w.ranked, w.decided)
         /\ Like([w EXCEPT !.en = x, !.at = y, !.todo = z], w.marked, w.ranked, w.decided)
         /\ Like([w EXCEPT !.board = x], w.marked, w.ranked, w.decided)
<1>1. Like([w EXCEPT !.marked = x], x, w.ranked, w.decided)
  BY Puts, WorkLike, Zenon
<1>2. Like([w EXCEPT !.list = x, !.ranked = y], w.marked, y, w.decided)
  BY Puts, WorkLike, Zenon
<1>3. Like([w EXCEPT !.list = x], w.marked, w.ranked, w.decided)
  BY Puts, WorkLike, Zenon
<1>4. Like([w EXCEPT !.old = x], w.marked, w.ranked, w.decided)
  BY Puts, WorkLike, Zenon
<1>5. Like([w EXCEPT !.fill = x], w.marked, w.ranked, w.decided)
  BY Puts, WorkLike, Zenon
<1>6. Like([w EXCEPT !.decided = x], w.marked, w.ranked, x)
  BY Puts, WorkLike, Zenon
<1>7. Like([w EXCEPT !.active = x, !.todo = y], w.marked, w.ranked, w.decided)
  BY Puts, WorkLike, Zenon
<1>8. Like([w EXCEPT !.en = x, !.at = y, !.todo = z], w.marked, w.ranked, w.decided)
  <2>1. WorkIs([w EXCEPT !.en = x, !.at = y, !.todo = z],
               w.marked, w.active, w.list, w.ranked, w.old, w.fill, w.decided, z, x, w.board, y)
    BY Puts, Zenon
  <2>2. QED BY <2>1, WorkLike, Zenon
<1>9. Like([w EXCEPT !.board = x], w.marked, w.ranked, w.decided)
  BY Puts, WorkLike, Zenon
<1>10. QED BY <1>1, <1>2, <1>3, <1>4, <1>5, <1>6, <1>7, <1>8, <1>9, Zenon

(* A request that gives up leaves nothing behind but what it committed.    *)
LEMMA FailsKeeps ==
  ASSUME TxInv, NEW q \in Requests, Fails(q)
  PROVE  TxInv'
<1>1. IsWork(NothingYet) /\ NothingYet.decided = {} /\ Placed(q, "failed", NothingYet)
  BY DEF IsWork, NothingYet, Placed, Ranking
<1>2. today' = today /\ status' = status /\ enroll' = enroll /\ stamped' = stamped
  BY DEF Fails, UnchangedTables, vars
<1>3. QED BY <1>1, <1>2, MoveKeeps DEF Fails

-----------------------------------------------------------------------------
(* Statements that write nothing yet *)

(* A request begins with nothing done.                                     *)
LEMMA BeginKeeps ==
  ASSUME TxInv, NEW q \in Requests, Begin(q)
  PROVE  TxInv'
<1> DEFINE s == CASE Request[q].kind = "approve" -> "check"
                  [] Request[q].kind \in {"decide", "deny"} -> "decide"
                  [] Request[q].kind = "enroll"  -> "append"
                  [] OTHER                       -> "mark"
<1>1. IsWork(NothingYet) /\ NothingYet.decided = {}
  BY DEF IsWork, NothingYet
<1>2. Placed(q, s, NothingYet)
  <2>1. /\ Request[q].kind = "approve" => s = "check"
        /\ Request[q].kind \in {"decide", "deny"} => s = "decide"
        /\ Request[q].kind = "enroll" => s = "append"
        /\ Request[q].kind \in {"expire", "reject"} => s = "mark"
    BY Zenon
  <2> HIDE DEF s
  <2>2. QED BY <2>1, RequestType DEF Placed, Ranking, Kinds
<1>3. Goes(q, s, NothingYet) /\ held' = held
  BY Zenon DEF Begin
<1>4. today' = today /\ status' = status /\ enroll' = enroll /\ stamped' = stamped
  BY DEF Begin, UnchangedTables, vars
<1> HIDE DEF s
<1>5. QED BY <1>1, <1>2, <1>3, <1>4, MoveKeeps

(* The facts about a request that the next lemmas start from.              *)
LEMMA Here ==
  ASSUME TxInv, NEW q \in Requests
  PROVE  IsWork(work[q]) /\ Placed(q, pc[q], work[q]) /\ status \in [Rules -> RuleStatus \cup {Absent}]
BY DEF TxInv, Shape

(* A move that leaves the tables alone and neither decides nor ranks.      *)
LEMMA QuietMove ==
  ASSUME TxInv, NEW q \in Requests, NEW s, NEW w, Goes(q, s, w), UnchangedTables,
         Like(w, w.marked, w.ranked, work[q].decided), Placed(q, s, w),
         held' = held \/ Locks(q)
  PROVE  TxInv'
<1>1. today' = today /\ status' = status /\ enroll' = enroll /\ stamped' = stamped
  BY DEF UnchangedTables, vars
<1>2. QED BY <1>1, MoveKeeps DEF Like

(* The steps that stamp the ranks and rebuild the index.                   *)
LEMMA RankStepKeeps ==
  ASSUME TxInv, NEW q \in Requests, RankStep(q)
  PROVE  TxInv'
<1> DEFINE w == work[q]
<1>0. IsWork(w) /\ Placed(q, pc[q], w) /\ Like(w, w.marked, w.ranked, w.decided)
  BY Here DEF Like
<1>1. CASE Check(q)
  <2>1. CASE Fails(q)
    BY <2>1, FailsKeeps
  <2>2. CASE Goes(q, "mark", w) /\ UnchangedTables /\ held' = held
    <3>1. Placed(q, "mark", w)
      BY DEF Placed, Ranking
    <3>2. QED BY <1>0, <2>2, <3>1, QuietMove
  <2>3. QED BY <1>1, <2>1, <2>2 DEF Check
<1>2. CASE Mark(q)
  <2> DEFINE s == IF Request[q].kind = "reject" THEN "commit" ELSE "scan"
             x == [w EXCEPT !.marked = TRUE]
  <2>1. Like(x, TRUE, w.ranked, w.decided)
    BY <1>0, Edits
  <2>2. Placed(q, s, x)
    BY <2>1 DEF Like, Placed, Ranking
  <2>3. Goes(q, s, x) /\ UnchangedTables /\ Locks(q)
    BY <1>2 DEF Mark
  <2>4. Like(x, x.marked, x.ranked, w.decided)
    BY <2>1 DEF Like
  <2> HIDE DEF s, x
  <2>5. QED BY <2>2, <2>3, <2>4, QuietMove
<1>3. CASE Scan(q)
  <2> DEFINE act == Active(SeesStatus(q))
  <2>1. PICK l \in Listed(act) :
          Goes(q, IF l = <<>> THEN "clear" ELSE "stamp", [w EXCEPT !.list = l, !.ranked = act])
    BY <1>3 DEF Scan
  <2> DEFINE s == IF l = <<>> THEN "clear" ELSE "stamp"
             x == [w EXCEPT !.list = l, !.ranked = act]
  <2>2. Like(x, w.marked, act, w.decided)
    BY <1>0, Edits
  <2>3. Request[q].kind = "approve" => Request[q].rule \in act
    <3>1. w.marked
      BY <1>0, <1>3 DEF Placed, Scan, At
    <3>2. status \in [Rules -> RuleStatus \cup {Absent}] /\ Request[q].rule \in Rules
      BY Here, RequestType
    <3>3. QED BY <3>1, <3>2 DEF SeesStatus, Goal, Active
  <2> HIDE DEF act
  <2>4. Placed(q, s, x)
    BY <2>2, <2>3 DEF Like, Placed, Ranking
  <2>5. Like(x, x.marked, x.ranked, w.decided)
    BY <2>2 DEF Like
  <2>6. Goes(q, s, x) /\ UnchangedTables /\ held' = held
    BY <1>3, <2>1 DEF Scan
  <2> HIDE DEF s, x
  <2>7. QED BY <2>4, <2>5, <2>6, QuietMove
<1>4. CASE Stamp(q)
  <2> DEFINE rest == Tail(w.list)
             s == IF rest = <<>> THEN "clear" ELSE "stamp"
             x == [w EXCEPT !.list = rest]
  <2>1. Like(x, w.marked, w.ranked, w.decided)
    BY <1>0, Edits
  <2>2. Placed(q, s, x)
    BY <1>0, <1>4, <2>1 DEF Like, Placed, Ranking, Stamp, At
  <2>3. Goes(q, s, x) /\ UnchangedTables /\ Locks(q)
    BY <1>4 DEF Stamp
  <2>4. Like(x, x.marked, x.ranked, w.decided)
    BY <2>1 DEF Like
  <2> HIDE DEF s, x
  <2>5. QED BY <2>2, <2>3, <2>4, QuietMove
<1>5. CASE Clear(q)
  <2> DEFINE x == [w EXCEPT !.old = index]
  <2>1. Like(x, w.marked, w.ranked, w.decided)
    BY <1>0, Edits
  <2>2. Placed(q, "clearing", x)
    BY <1>0, <1>5, <2>1 DEF Like, Placed, Ranking, Clear, At
  <2>3. Goes(q, "clearing", x) /\ UnchangedTables /\ held' = held
    BY <1>5 DEF Clear
  <2>4. Like(x, x.marked, x.ranked, w.decided)
    BY <2>1 DEF Like
  <2> HIDE DEF x
  <2>5. QED BY <2>2, <2>3, <2>4, QuietMove
<1>6. CASE Clearing(q)
  <2> DEFINE x == [w EXCEPT !.fill = IndexRows(Only(w.ranked))]
  <2>1. Like(x, w.marked, w.ranked, w.decided)
    BY <1>0, Edits
  <2>2. Placed(q, "fill", x)
    BY <1>0, <1>6, <2>1 DEF Like, Placed, Ranking, Clearing, At
  <2>3. Goes(q, "fill", x) /\ UnchangedTables /\ Locks(q)
    BY <1>6 DEF Clearing
  <2>4. Like(x, x.marked, x.ranked, w.decided)
    BY <2>1 DEF Like
  <2> HIDE DEF x
  <2>5. QED BY <2>2, <2>3, <2>4, QuietMove
<1>7. CASE Fill(q)
  <2>1. CASE Fails(q)
    BY <2>1, FailsKeeps
  <2>2. CASE Goes(q, "rules", w) /\ UnchangedTables /\ Locks(q)
    <3>1. Placed(q, "rules", w)
      BY <1>0, <1>7 DEF Placed, Ranking, Fill, At
    <3>2. QED BY <1>0, <2>2, <3>1, QuietMove
  <2>3. QED BY <1>7, <2>1, <2>2 DEF Fill
<1>8. QED BY <1>1, <1>2, <1>3, <1>4, <1>5, <1>6, <1>7 DEF RankStep

-----------------------------------------------------------------------------
(* The refresh of the accounts *)

LEMMA RefreshStepKeeps ==
  ASSUME TxInv, NEW q \in Requests, RefreshStep(q)
  PROVE  TxInv'
<1> DEFINE w == work[q]
<1>0. IsWork(w) /\ Placed(q, pc[q], w) /\ Like(w, w.marked, w.ranked, w.decided)
  BY Here DEF Like
<1>1. CASE ReadRules(q)
  <2> DEFINE s == IF Refreshed(q) = {} THEN "commit" ELSE "grants"
             act == Active(SeesStatus(q))
             todo == Refreshed(q)
             x == [w EXCEPT !.active = act, !.todo = todo]
  <2>1. Goes(q, s, x) /\ UnchangedTables /\ held' = held
    BY <1>1 DEF ReadRules
  <2> HIDE DEF act, todo
  <2>2. Like(x, w.marked, w.ranked, w.decided)
    BY <1>0, Edits
  <2>3. Placed(q, s, x)
    BY <1>0, <1>1, <2>2 DEF Like, Placed, Ranking, ReadRules, At
  <2>4. Like(x, x.marked, x.ranked, w.decided)
    BY <2>2 DEF Like
  <2> HIDE DEF s, x
  <2>5. QED BY <2>1, <2>3, <2>4, QuietMove
<1>2. CASE ReadGrants(q)
  <2> DEFINE en == SeesEnroll(q)
  <2>1. PICK a \in w.todo : Goes(q, "rows", [w EXCEPT !.en = en, !.at = a, !.todo = @ \ {a}])
    BY <1>2 DEF ReadGrants
  <2> DEFINE rest == w.todo \ {a}
             x == [w EXCEPT !.en = en, !.at = a, !.todo = rest]
  <2> HIDE DEF en
  <2>2. Goes(q, "rows", x) /\ UnchangedTables /\ held' = held
    <3>1. [w EXCEPT !.en = en, !.at = a, !.todo = @ \ {a}] = x
      BY <1>0 DEF IsWork
    <3>2. QED BY <1>2, <2>1, <3>1 DEF ReadGrants
  <2> HIDE DEF rest
  <2>3. Like(x, w.marked, w.ranked, w.decided)
    BY <1>0, Edits
  <2>4. Placed(q, "rows", x)
    BY <1>0, <1>2, <2>3 DEF Like, Placed, Ranking, ReadGrants, At
  <2>5. Like(x, x.marked, x.ranked, w.decided)
    BY <2>3 DEF Like
  <2> HIDE DEF x
  <2>6. QED BY <2>2, <2>4, <2>5, QuietMove
<1>3. CASE ReadRows(q)
  <2>1. PICK ord \in Orders :
          Goes(q, "delete", [w EXCEPT !.board[w.at] =
            [have |-> Rows(w.at), want |-> Expected(Only(w.active), w.en, ord, w.at, today)]])
    BY <1>3 DEF ReadRows
  <2> DEFINE row == [have |-> Rows(w.at),
                     want |-> Expected(Only(w.active), w.en, ord, w.at, today)]
             board == [w.board EXCEPT ![w.at] = row]
             x == [w EXCEPT !.board = board]
  <2>2. Goes(q, "delete", x) /\ UnchangedTables /\ held' = held
    BY <1>3, <2>1 DEF ReadRows
  <2> HIDE DEF board
  <2>3. Like(x, w.marked, w.ranked, w.decided)
    BY <1>0, Edits
  <2>4. Placed(q, "delete", x)
    BY <1>0, <1>3, <2>3 DEF Like, Placed, Ranking, ReadRows, At
  <2>5. Like(x, x.marked, x.ranked, w.decided)
    BY <2>3 DEF Like
  <2> HIDE DEF x
  <2>6. QED BY <2>2, <2>4, <2>5, QuietMove
<1>4. CASE Delete(q)
  <2>1. Placed(q, "insert", w)
    BY <1>0, <1>4 DEF Placed, Ranking, Delete, At
  <2>2. Goes(q, "insert", w) /\ Locks(q)
    BY <1>4 DEF Delete
  <2>3. today' = today /\ status' = status /\ enroll' = enroll /\ stamped' = stamped
    BY <1>4 DEF Delete, UnchangedTables, UnchangedIndex, vars
  <2>4. QED BY <1>0, <2>1, <2>2, <2>3, MoveKeeps
<1>5. CASE Insert(q)
  <2>1. CASE Fails(q)
    BY <2>1, FailsKeeps
  <2>2. CASE ~Fails(q)
    <3> DEFINE s == IF w.todo = {} THEN "commit" ELSE "grants"
    <3>1. Placed(q, s, w)
      BY <1>0, <1>5 DEF Placed, Ranking, Insert, At
    <3>2. Goes(q, s, w) /\ Locks(q)
      BY <1>5, <2>2 DEF Insert
    <3>3. today' = today /\ status' = status /\ enroll' = enroll /\ stamped' = stamped
      BY <1>5, <2>2 DEF Insert, UnchangedIndex
    <3> HIDE DEF s
    <3>4. QED BY <1>0, <3>1, <3>2, <3>3, MoveKeeps
  <2>3. QED BY <2>1, <2>2
<1>6. QED BY <1>1, <1>2, <1>3, <1>4, <1>5 DEF RefreshStep

-----------------------------------------------------------------------------
(* Decisions, applications and commits *)

(* A decision locks what it decides.                                       *)
LEMMA DecideKeeps ==
  ASSUME TxInv, NEW q \in Requests, Decide(q)
  PROVE  TxInv'
<1> DEFINE w == work[q]
           I == Undecided(Request[q].filing)
           s == IF Request[q].kind = "deny" THEN "commit" ELSE "rules"
           x == [w EXCEPT !.decided = I]
<1>0. IsWork(w) /\ Placed(q, pc[q], w) /\ pc[q] = "decide"
  BY Here DEF Decide, At
<1>1. Goes(q, s, x) /\ Locks(q)
  BY DEF Decide
<1>2. Like(x, w.marked, w.ranked, I)
  BY <1>0, Edits
<1>3. Request[q].kind \in {"decide", "deny"}
  BY <1>0 DEF Placed
<1>4. Placed(q, s, x)
  BY <1>2, <1>3 DEF Like, Placed, Ranking
<1>5. GrantLocks(I) \subseteq held'[q]
  <2>1. Needs(q) = GrantLocks(I)
    BY <1>0 DEF Needs
  <2>2. InTx(q)
    BY <1>3 DEF InTx
  <2>3. QED BY <1>1, <2>1, <2>2, LocksAlone
<1>6. \A i \in I : i \in DOMAIN enroll /\ enroll[i].status = "REQUESTED" /\ <<"grant", i>> \in held'[q]
  BY <1>5 DEF Undecided, GrantLocks
<1>7. today' = today /\ status' = status /\ enroll' = enroll /\ stamped' = stamped
  BY DEF Decide, UnchangedTables, vars
<1> HIDE DEF s, x, I
<1>8. /\ pc' = [p \in Requests |-> pc'[p]] /\ work' = [p \in Requests |-> work'[p]]
      /\ pc'[q] = s /\ work'[q] = x
      /\ \A p \in Requests \ {q} : pc'[p] = pc[p] /\ work'[p] = work[p]
  BY <1>1, OneMoves DEF TxInv
<1>9. /\ held' = [p \in Requests |-> held'[p]]
      /\ \A p \in Requests \ {q} : held'[p] = held[p]
      /\ \A p, r \in Requests : p # r => held'[p] \cap held'[r] = {}
  BY <1>1, LocksAlone
<1>10. Shape'
  <2>1. \A p \in Requests : IsWork(work'[p]) /\ Placed(p, pc'[p], work'[p])
    BY <1>2, <1>4, <1>8 DEF TxInv, Shape, Like
  <2>2. QED BY <1>7, <1>8, <1>9, <2>1 DEF TxInv, Shape, Placed, IsWork
<1>11. DecidesAlone'
  <2>1. ASSUME NEW p \in Requests, NEW i \in work'[p].decided
        PROVE  i \in DOMAIN enroll /\ enroll[i].status = "REQUESTED" /\ <<"grant", i>> \in held'[p]
    <3>1. CASE p = q
      BY <1>2, <1>6, <1>8, <2>1, <3>1 DEF Like
    <3>2. CASE p # q
      BY <1>8, <1>9, <2>1, <3>2 DEF TxInv, DecidesAlone
    <3>3. QED BY <3>1, <3>2
  <2>2. QED BY <1>7, <1>9, <2>1 DEF DecidesAlone
<1>12. QED BY <1>7, <1>10, <1>11 DEF TxInv

(* An application adds a row behind those that are there.                  *)
LEMMA ApplyKeeps ==
  ASSUME TxInv, NEW q \in Requests, Apply(q)
  PROVE  /\ TxInv'
         /\ Len(enroll') = Len(enroll) + 1 /\ \A i \in 1..Len(enroll) : enroll'[i] = enroll[i]
<1> DEFINE e == [acct |-> Request[q].acct, rule |-> Request[q].rule, status |-> "ACTIVE",
                 from |-> NoDate, to |-> NoDate, at |-> today, req |-> NoReq]
<1>0. /\ IsWork(work[q]) /\ Placed(q, pc[q], work[q]) /\ pc[q] = "append"
      /\ today \in Nat /\ enroll \in Seq(Enrollment)
  BY Here DEF Apply, At, TxInv, Shape
<1>1. e \in Enrollment
  BY <1>0, RequestAssumption DEF Enrollment, EnrollmentStatus, NoDate, NoReq, RequestId
<1>2. enroll' = Append(enroll, e)
  BY DEF Apply
<1> HIDE DEF e
<1>3. /\ enroll' \in Seq(Enrollment) /\ Len(enroll') = Len(enroll) + 1
      /\ \A i \in 1..Len(enroll) : enroll'[i] = enroll[i]
  BY <1>0, <1>1, <1>2
<1>4. /\ Goes(q, "rules", work[q]) /\ held' = held
      /\ today' = today /\ status' = status /\ stamped' = stamped
  BY DEF Apply, UnchangedIndex
<1>5. Placed(q, "rules", work[q])
  BY <1>0 DEF Placed
<1>6. /\ pc' = [p \in Requests |-> pc'[p]] /\ work' = [p \in Requests |-> work'[p]]
      /\ pc'[q] = "rules" /\ work'[q] = work[q]
      /\ \A p \in Requests \ {q} : pc'[p] = pc[p] /\ work'[p] = work[p]
  BY <1>4, OneMoves DEF TxInv
<1>7. Shape'
  <2>1. \A p \in Requests : IsWork(work'[p]) /\ Placed(p, pc'[p], work'[p])
    BY <1>0, <1>5, <1>6 DEF TxInv, Shape
  <2>2. QED BY <1>3, <1>4, <1>6, <2>1 DEF TxInv, Shape, Placed, IsWork
<1>8. DecidesAlone'
  <2>1. ASSUME NEW p \in Requests, NEW i \in work'[p].decided
        PROVE  i \in DOMAIN enroll' /\ enroll'[i].status = "REQUESTED" /\ <<"grant", i>> \in held'[p]
    <3>1. i \in DOMAIN enroll /\ enroll[i].status = "REQUESTED" /\ <<"grant", i>> \in held[p]
      BY <1>6, <2>1 DEF TxInv, DecidesAlone
    <3>2. DOMAIN enroll = 1..Len(enroll) /\ DOMAIN enroll' = 1..Len(enroll') /\ Len(enroll) \in Nat
      BY <1>0, <1>3
    <3>3. QED BY <1>3, <1>4, <3>1, <3>2
  <2>2. QED BY <1>4, <2>1 DEF DecidesAlone, TxInv
<1>9. QED BY <1>3, <1>4, <1>7, <1>8 DEF TxInv

(* The enrollments a commit writes: the rows it decided, the rest as is.   *)
LEMMA SeenGrants ==
  ASSUME TxInv, NEW q \in Requests
  PROVE  LET en == SeesEnroll(q)
         IN  /\ en \in Seq(Enrollment) /\ DOMAIN en = DOMAIN enroll
             /\ \A i \in DOMAIN enroll : i \notin work[q].decided => en[i] = enroll[i]
<1> DEFINE en == SeesEnroll(q)
<1>1. enroll \in Seq(Enrollment) /\ today \in Nat /\ today + NegoTerm \in Nat
  BY BindingAssumption DEF TxInv, Shape
<1>2. /\ en = [i \in DOMAIN enroll |-> en[i]] /\ DOMAIN en = DOMAIN enroll
      /\ \A i \in DOMAIN enroll :
           /\ i \notin work[q].decided => en[i] = enroll[i]
           /\ \/ en[i] = enroll[i]
              \/ en[i] = [enroll[i] EXCEPT !.status = "REJECTED"]
              \/ en[i] = [enroll[i] EXCEPT !.status = "ACTIVE", !.from = today, !.to = today + NegoTerm]
  BY Zenon DEF SeesEnroll
<1> HIDE DEF en
<1>3. \A i \in DOMAIN enroll : en[i] \in Enrollment
  <2>1. \A i \in DOMAIN enroll : enroll[i] \in Enrollment
    BY <1>1, EnrollFields
  <2>2. \A e \in Enrollment : [e EXCEPT !.status = "REJECTED"] \in Enrollment
    BY DEF Enrollment, EnrollmentStatus
  <2>3. \A e \in Enrollment, m, n \in Nat :
          [e EXCEPT !.status = "ACTIVE", !.from = m, !.to = n] \in Enrollment
    BY DEF Enrollment, EnrollmentStatus
  <2>4. ASSUME NEW i \in DOMAIN enroll PROVE en[i] \in Enrollment
    <3> DEFINE e == enroll[i]
    <3>1. e \in Enrollment
      BY <2>1
    <3>2. [e EXCEPT !.status = "REJECTED"] \in Enrollment
      BY <2>2, <3>1
    <3>3. [e EXCEPT !.status = "ACTIVE", !.from = today, !.to = today + NegoTerm] \in Enrollment
      BY <1>1, <2>3, <3>1, Zenon
    <3>4. \/ en[i] = e
          \/ en[i] = [e EXCEPT !.status = "REJECTED"]
          \/ en[i] = [e EXCEPT !.status = "ACTIVE", !.from = today, !.to = today + NegoTerm]
      BY <1>2, Zenon
    <3> HIDE DEF e
    <3>5. QED BY <3>1, <3>2, <3>3, <3>4, Zenon
  <2>5. QED BY <2>4
<1>4. en \in Seq(Enrollment)
  BY <1>1, <1>2, <1>3, Rewritten
<1>5. QED BY <1>2, <1>4 DEF en

(* The statuses a commit writes: no new active rule is left out of the     *)
(* rules the request ranked.                                               *)
LEMMA SeenStatus ==
  ASSUME TxInv, NEW q \in Requests, pc[q] = "commit"
  PROVE  /\ SeesStatus(q) \in [Rules -> RuleStatus \cup {Absent}]
         /\ Active(SeesStatus(q)) \subseteq Active(status) \cup work[q].ranked
<1> DEFINE r == Request[q].rule
           g == Goal(q)
<1>1. /\ status \in [Rules -> RuleStatus \cup {Absent}]
      /\ Request[q].kind = "approve" => r \in work[q].ranked
  BY Here DEF Placed, Ranking
<1>2. g \in RuleStatus /\ (g = "ACTIVE" => Request[q].kind = "approve")
  <2>1. \/ Request[q].kind = "approve" /\ g = "ACTIVE"
        \/ g = "EXPIRED"
        \/ g = "REJECTED"
    BY Zenon DEF Goal
  <2>2. QED BY <2>1 DEF RuleStatus
<1> HIDE DEF r, g
<1>3. SeesStatus(q) = IF work[q].marked THEN [status EXCEPT ![r] = g] ELSE status
  BY DEF SeesStatus, r, g
<1>4. QED BY <1>1, <1>2, <1>3 DEF Active

(* A commit decides only rows that were undecided, and only its own.       *)
LEMMA CommitKeeps ==
  ASSUME TxInv, NEW q \in Requests, Commit(q)
  PROVE  /\ TxInv'
         /\ DOMAIN enroll' = DOMAIN enroll
         /\ \A i \in DOMAIN enroll : enroll[i].status # "REQUESTED" => enroll'[i] = enroll[i]
<1> DEFINE w == work[q]
<1>1. /\ pc[q] = "commit" /\ Goes(q, "done", NothingYet) /\ held' = [held EXCEPT ![q] = {}]
      /\ today' = today
  BY DEF Commit, At, UnchangedTables, vars
<1>2. \/ status' = status /\ enroll' = enroll /\ stamped' = stamped
      \/ status' = SeesStatus(q) /\ enroll' = SeesEnroll(q) /\ stamped' = stamped \cup w.ranked
  BY DEF Commit, UnchangedTables, vars
<1>3. enroll \in Seq(Enrollment) /\ status \in [Rules -> RuleStatus \cup {Absent}]
  BY DEF TxInv, Shape
<1>4. /\ enroll' \in Seq(Enrollment) /\ DOMAIN enroll' = DOMAIN enroll
      /\ \A i \in DOMAIN enroll : i \notin w.decided => enroll'[i] = enroll[i]
  BY <1>2, <1>3, SeenGrants
<1>5. status' \in [Rules -> RuleStatus \cup {Absent}] /\ Active(status') \subseteq stamped'
  BY <1>1, <1>2, <1>3, SeenStatus DEF TxInv, Active
<1>6. /\ pc' = [p \in Requests |-> pc'[p]] /\ work' = [p \in Requests |-> work'[p]]
      /\ pc'[q] = "done" /\ work'[q] = NothingYet
      /\ \A p \in Requests \ {q} : pc'[p] = pc[p] /\ work'[p] = work[p]
  BY <1>1, OneMoves DEF TxInv
<1>7. /\ held' = [p \in Requests |-> held'[p]]
      /\ \A p \in Requests \ {q} : held'[p] = held[p]
      /\ \A p, r \in Requests : p # r => held'[p] \cap held'[r] = {}
  <2>1. /\ held = [p \in Requests |-> held[p]]
        /\ \A p, r \in Requests : p # r => held[p] \cap held[r] = {}
    BY DEF TxInv, Shape, DecidesAlone
  <2>2. QED BY <1>1, <2>1
<1>8. IsWork(NothingYet) /\ NothingYet.decided = {} /\ Placed(q, "done", NothingYet)
  BY DEF IsWork, NothingYet, Placed, Ranking
<1>9. Shape'
  <2>1. \A p \in Requests : IsWork(work'[p]) /\ Placed(p, pc'[p], work'[p])
    BY <1>6, <1>8 DEF TxInv, Shape
  <2>2. today' \in Nat
    BY <1>1 DEF TxInv, Shape
  <2>3. QED BY <1>4, <1>5, <1>6, <1>7, <2>1, <2>2 DEF Shape, Placed, IsWork
<1>10. DecidesAlone'
  <2>1. ASSUME NEW p \in Requests, NEW i \in work'[p].decided
        PROVE  i \in DOMAIN enroll' /\ enroll'[i].status = "REQUESTED" /\ <<"grant", i>> \in held'[p]
    <3>1. p # q
      BY <1>6, <1>8, <2>1
    <3>2. i \in DOMAIN enroll /\ enroll[i].status = "REQUESTED" /\ <<"grant", i>> \in held[p]
      BY <1>6, <2>1, <3>1 DEF TxInv, DecidesAlone
    <3>3. i \notin w.decided
      BY <3>1, <3>2 DEF TxInv, DecidesAlone
    <3>4. QED BY <1>4, <1>7, <3>1, <3>2, <3>3
  <2>2. QED BY <1>7, <2>1 DEF DecidesAlone
<1>11. \A i \in DOMAIN enroll : enroll[i].status # "REQUESTED" => enroll'[i] = enroll[i]
  BY <1>4 DEF TxInv, DecidesAlone
<1>12. QED BY <1>4, <1>5, <1>9, <1>10, <1>11 DEF TxInv

-----------------------------------------------------------------------------
(* Crashes and the start *)

LEMMA CrashKeeps ==
  ASSUME TxInv, Crash
  PROVE  TxInv'
<1>1. today' = today /\ status' = status /\ enroll' = enroll
  BY DEF Crash
<1>2. Active(status') \subseteq stamped'
  BY <1>1 DEF TxInv, Crash, UnchangedIndex, RebuildAll
<1>3. /\ pc' = [q \in Requests |-> pc'[q]] /\ work' = [q \in Requests |-> work'[q]]
      /\ held' = [q \in Requests |-> held'[q]]
      /\ \A q \in Requests : /\ pc'[q] = "failed" \/ (pc'[q] = pc[q] /\ q \notin Open)
                            /\ work'[q] = NothingYet /\ held'[q] = {}
  BY DEF Crash
<1>4. IsWork(NothingYet) /\ NothingYet.decided = {}
  BY DEF IsWork, NothingYet
<1>5. ASSUME NEW q \in Requests PROVE Placed(q, pc'[q], NothingYet)
  <2>1. pc'[q] \notin Statements
    BY <1>3 DEF Open, Statements
  <2>2. QED BY <2>1 DEF Placed, Ranking, Statements
<1>6. Shape'
  <2>1. \A q \in Requests : IsWork(work'[q]) /\ Placed(q, pc'[q], work'[q])
    BY <1>3, <1>4, <1>5
  <2>2. QED BY <1>1, <1>3, <2>1 DEF TxInv, Shape, Placed, IsWork
<1>7. DecidesAlone'
  BY <1>3, <1>4 DEF DecidesAlone
<1>8. QED BY <1>2, <1>6, <1>7 DEF TxInv

LEMMA TxInitOk == TxInit => TxInv
<1> SUFFICES ASSUME TxInit PROVE TxInv
  OBVIOUS
<1>1. status \in [Rules -> RuleStatus \cup {Absent}]
  BY BindingAssumption DEF TxInit, RuleStatus
<1>2. today \in Nat /\ enroll \in Seq(Enrollment)
  BY BindingAssumption, RequestAssumption DEF TxInit
<1>3. /\ pc = [q \in Requests |-> pc[q]] /\ work = [q \in Requests |-> work[q]]
      /\ held = [q \in Requests |-> held[q]]
      /\ \A q \in Requests : pc[q] = "ready" /\ work[q] = NothingYet /\ held[q] = {}
  BY DEF TxInit
<1>4. IsWork(NothingYet) /\ NothingYet.decided = {}
  BY DEF IsWork, NothingYet
<1>5. \A q \in Requests : IsWork(work[q]) /\ Placed(q, pc[q], work[q])
  BY <1>3, <1>4 DEF Placed, Ranking
<1>6. Shape
  BY <1>1, <1>2, <1>3, <1>5 DEF Shape
<1>7. DecidesAlone
  BY <1>3, <1>4 DEF DecidesAlone
<1>8. Active(status) \subseteq stamped
  BY DEF TxInit
<1>9. QED BY <1>6, <1>7, <1>8 DEF TxInv

-----------------------------------------------------------------------------
(* Every step keeps the invariant and every decided grant.                 *)
LEMMA TxStep ==
  ASSUME TxInv, [TxNext]_txVars
  PROVE  TxInv' /\ \A i \in DOMAIN enroll : KeptGrant(enroll[i], enroll'[i])
<1>1. \A i \in DOMAIN enroll : enroll[i] \in Enrollment /\ enroll[i].to \in Nat
  BY EnrollFields DEF TxInv, Shape, Enrollment
<1>2. ASSUME \A i \in DOMAIN enroll : enroll[i].status # "REQUESTED" => enroll'[i] = enroll[i]
      PROVE  \A i \in DOMAIN enroll : KeptGrant(enroll[i], enroll'[i])
  BY <1>1, <1>2 DEF KeptGrant, KeptDecision
<1>3. CASE UNCHANGED txVars
  <2>1. /\ today' = today /\ status' = status /\ enroll' = enroll /\ stamped' = stamped
        /\ pc' = pc /\ work' = work /\ held' = held
    BY <1>3 DEF txVars, vars
  <2>2. TxInv'
    BY <2>1 DEF TxInv, Shape, DecidesAlone, Placed, IsWork, Active
  <2>3. QED BY <1>2, <2>1, <2>2
<1>4. CASE Crash
  BY <1>2, <1>4, CrashKeeps DEF Crash
<1>5. ASSUME NEW q \in Requests, Begin(q) \/ Proceed(q)
      PROVE  TxInv' /\ \A i \in DOMAIN enroll : KeptGrant(enroll[i], enroll'[i])
  <2>1. CASE Begin(q)
    BY <1>2, <2>1, BeginKeeps DEF Begin, UnchangedTables, vars
  <2>2. CASE RankStep(q)
    <3>1. enroll' = enroll
      BY <2>2 DEF RankStep, Check, Mark, Scan, Stamp, Clear, Clearing, Fill, Fails, UnchangedTables, vars
    <3>2. QED BY <1>2, <2>2, <3>1, RankStepKeeps
  <2>3. CASE Decide(q)
    BY <1>2, <2>3, DecideKeeps DEF Decide, UnchangedTables, vars
  <2>4. CASE Apply(q)
    <3>1. \A i \in DOMAIN enroll : enroll'[i] = enroll[i]
      <4>1. \A i \in 1..Len(enroll) : enroll'[i] = enroll[i]
        BY <2>4, ApplyKeeps
      <4>2. DOMAIN enroll = 1..Len(enroll)
        BY DEF TxInv, Shape
      <4>3. QED BY <4>1, <4>2
    <3>2. QED BY <1>2, <2>4, <3>1, ApplyKeeps
  <2>5. CASE RefreshStep(q)
    <3>1. enroll' = enroll
      BY <2>5 DEF RefreshStep, ReadRules, ReadGrants, ReadRows, Delete, Insert, Fails,
                  UnchangedTables, vars
    <3>2. QED BY <1>2, <2>5, <3>1, RefreshStepKeeps
  <2>6. CASE Commit(q)
    BY <1>2, <2>6, CommitKeeps
  <2>7. CASE Victim(q)
    BY <1>2, <2>7, FailsKeeps DEF Victim, Fails, UnchangedTables, vars
  <2>8. QED BY <1>5, <2>1, <2>2, <2>3, <2>4, <2>5, <2>6, <2>7 DEF Proceed
<1>6. QED BY <1>3, <1>4, <1>5 DEF TxNext

(* Requests that overlap, duplicate each other, abort or die never         *)
(* re-decide a grant: NegoService updates only what is still REQUESTED, and*)
(* a row a decision has not committed is locked.                           *)
THEOREM OverlappingDecisionsDecideOnce == TxSpec => GrantDecidedOnce
<1>1. TxInv /\ [TxNext]_txVars =>
        [ \A i \in DOMAIN enroll : enroll[i].status # "REQUESTED" =>
            /\ enroll'[i].status = enroll[i].status
            /\ enroll'[i].from = enroll[i].from
            /\ enroll'[i].to = enroll[i].to \/ Extends(i) ]_vars
  BY TxStep DEF KeptGrant, KeptDecision
<1>2. TxInv /\ [TxNext]_txVars => TxInv'
  BY TxStep
<1>3. QED BY <1>1, <1>2, TxInitOk, PTL DEF TxSpec, GrantDecidedOnce

(* No overlap, abort or crash leaves an active rule without its rank: an   *)
(* approval commits the ranks of what it saw with its own rule.            *)
THEOREM OverlappingApprovalsStampRanks == TxSpec => []RankStamped
<1>1. TxInv => RankStamped
  BY DEF TxInv, RankStamped
<1>2. TxInv /\ [TxNext]_txVars => TxInv'
  BY TxStep
<1>3. QED BY <1>1, <1>2, TxInitOk, PTL DEF TxSpec
=============================================================================
