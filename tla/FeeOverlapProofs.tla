--------------------------- MODULE FeeOverlapProofs ---------------------------
(***************************************************************************)
(* What FeeRequests promises of requests that overlap, beyond what they    *)
(* decide: their tables and private work keep their types, approvals of    *)
(* different rules never wait for each other in a circle, and approvals    *)
(* and expiries leave every board right.  The last two rest on one fact:   *)
(* as long as some rule stays active that nobody is about, every approval  *)
(* and expiry must lock its row to stamp its rank, so at most one of them  *)
(* is past its stamps.                                                     *)
(***************************************************************************)
EXTENDS FeeRequestsProofs, FiniteSetTheorems

-----------------------------------------------------------------------------
(* What a statement does to its request: where it goes on, and the private *)
(* record, field by field.                                                 *)

Has(v, m, act, l, r, o, f, d, t, e, b, x) ==
  /\ v.marked = m /\ v.active = act /\ v.list = l /\ v.ranked = r /\ v.old = o /\ v.fill = f
  /\ v.decided = d /\ v.todo = t /\ v.en = e /\ v.board = b /\ v.at = x

LEMMA WorkHas ==
  ASSUME NEW v, NEW m, NEW act, NEW l, NEW r, NEW o, NEW f, NEW d, NEW t, NEW e, NEW b, NEW x,
         WorkIs(v, m, act, l, r, o, f, d, t, e, b, x)
  PROVE  Has(v, m, act, l, r, o, f, d, t, e, b, x)
BY DEF WorkIs, Has

LEMMA NothingHas ==
  Has(NothingYet, FALSE, {}, <<>>, {}, {}, {}, {}, {}, <<>>,
      [a \in Accounts |-> [have |-> {}, want |-> {}]], NoRule)
BY DEF NothingYet, Has

LEMMA GoesThere ==
  ASSUME TxInv, NEW q \in Requests, NEW s, NEW v, Goes(q, s, v)
  PROVE  pc'[q] = s /\ work'[q] = v
BY OneMoves DEF TxInv

LEMMA BeginMoves ==
  ASSUME TxInv, NEW q \in Requests, Begin(q)
  PROVE  /\ pc[q] = "ready" /\ work'[q] = NothingYet /\ held' = held
         /\ \/ Request[q].kind = "approve" /\ pc'[q] = "check"
            \/ Request[q].kind \in {"decide", "deny"} /\ pc'[q] = "decide"
            \/ Request[q].kind = "enroll" /\ pc'[q] = "append"
            \/ Request[q].kind \in {"expire", "reject"} /\ pc'[q] = "mark"
<1> DEFINE s == CASE Request[q].kind = "approve" -> "check"
                  [] Request[q].kind \in {"decide", "deny"} -> "decide"
                  [] Request[q].kind = "enroll"  -> "append"
                  [] OTHER                       -> "mark"
<1>1. /\ Request[q].kind = "approve" => s = "check"
      /\ Request[q].kind \in {"decide", "deny"} => s = "decide"
      /\ Request[q].kind = "enroll" => s = "append"
      /\ Request[q].kind \in {"expire", "reject"} => s = "mark"
  BY Zenon
<1>2. Goes(q, s, NothingYet) /\ held' = held /\ pc[q] = "ready"
  BY Zenon DEF Begin, At
<1> HIDE DEF s
<1>3. pc'[q] = s /\ work'[q] = NothingYet
  BY <1>2, GoesThere
<1>4. QED BY <1>1, <1>2, <1>3, RequestType DEF Kinds

LEMMA FailsMoves ==
  ASSUME TxInv, NEW q \in Requests, Fails(q)
  PROVE  pc'[q] = "failed" /\ work'[q] = NothingYet /\ held'[q] = {}
         /\ \A p \in Requests \ {q} : held'[p] = held[p]
<1>1. held = [p \in Requests |-> held[p]]
  BY DEF TxInv, Shape
<1>2. QED BY <1>1, GoesThere DEF Fails

LEMMA CheckMoves ==
  ASSUME TxInv, NEW q \in Requests, Check(q), ~Fails(q)
  PROVE  /\ pc[q] = "check" /\ pc'[q] = "mark" /\ work'[q] = work[q] /\ held' = held
         /\ Approvable(q)
BY GoesThere DEF Check, At

LEMMA MarkMoves ==
  ASSUME TxInv, NEW q \in Requests, Mark(q)
  PROVE  LET w == work[q]
         IN  /\ pc[q] = "mark" /\ Locks(q)
             /\ pc'[q] = IF Request[q].kind = "reject" THEN "commit" ELSE "scan"
             /\ Has(work'[q], TRUE, w.active, w.list, w.ranked, w.old, w.fill, w.decided,
                    w.todo, w.en, w.board, w.at)
<1> DEFINE w == work[q]
           v == [w EXCEPT !.marked = TRUE]
           s == IF Request[q].kind = "reject" THEN "commit" ELSE "scan"
<1>1. Has(v, TRUE, w.active, w.list, w.ranked, w.old, w.fill, w.decided, w.todo, w.en, w.board, w.at)
  BY Here, Puts, WorkHas, Zenon
<1>2. pc[q] = "mark" /\ Locks(q) /\ Goes(q, s, v)
  BY DEF Mark, At
<1> HIDE DEF v, s, w
<1>3. QED BY <1>1, <1>2, GoesThere DEF s, w

LEMMA ScanMoves ==
  ASSUME TxInv, NEW q \in Requests, Scan(q)
  PROVE  LET w == work[q]
             v == work'[q]
             act == Active(SeesStatus(q))
         IN  /\ pc[q] = "scan" /\ held' = held
             /\ v.list \in Listed(act)
             /\ pc'[q] = IF v.list = <<>> THEN "clear" ELSE "stamp"
             /\ Has(v, w.marked, w.active, v.list, act, w.old, w.fill, w.decided,
                    w.todo, w.en, w.board, w.at)
<1> DEFINE w == work[q]
           act == Active(SeesStatus(q))
<1>1. PICK l \in Listed(act) :
        Goes(q, IF l = <<>> THEN "clear" ELSE "stamp", [w EXCEPT !.list = l, !.ranked = act])
  BY DEF Scan
<1> DEFINE s == IF l = <<>> THEN "clear" ELSE "stamp"
           v == [w EXCEPT !.list = l, !.ranked = act]
<1>2. pc[q] = "scan" /\ held' = held
  BY DEF Scan, At
<1> HIDE DEF act
<1>3. WorkIs(v, w.marked, w.active, l, act, w.old, w.fill, w.decided, w.todo, w.en, w.board, w.at)
  BY Here, Puts, Zenon
<1>4. Has(v, w.marked, w.active, l, act, w.old, w.fill, w.decided, w.todo, w.en, w.board, w.at)
  BY <1>3, WorkHas, Zenon
<1>5. Goes(q, s, v)
  BY <1>1, Zenon
<1> HIDE DEF v, s, w
<1>6. pc'[q] = s /\ work'[q] = v
  BY <1>5, GoesThere
<1>7. v.list = l
  BY <1>4 DEF Has
<1>8. QED BY <1>1, <1>2, <1>4, <1>6, <1>7 DEF s, act, w

LEMMA StampMoves ==
  ASSUME TxInv, NEW q \in Requests, Stamp(q)
  PROVE  LET w == work[q]
         IN  /\ pc[q] = "stamp" /\ Locks(q)
             /\ pc'[q] = IF work'[q].list = <<>> THEN "clear" ELSE "stamp"
             /\ Has(work'[q], w.marked, w.active, Tail(w.list), w.ranked, w.old, w.fill,
                    w.decided, w.todo, w.en, w.board, w.at)
<1> DEFINE w == work[q]
           rest == Tail(w.list)
           s == IF rest = <<>> THEN "clear" ELSE "stamp"
           v == [w EXCEPT !.list = rest]
<1>1. Goes(q, s, v) /\ pc[q] = "stamp" /\ Locks(q)
  BY DEF Stamp, At
<1> HIDE DEF rest
<1>2. Has(v, w.marked, w.active, rest, w.ranked, w.old, w.fill, w.decided, w.todo, w.en, w.board, w.at)
  BY Here, Puts, WorkHas, Zenon
<1> HIDE DEF v, s, w
<1>3. v.list = rest /\ pc'[q] = s /\ work'[q] = v
  BY <1>1, <1>2, GoesThere DEF Has
<1>4. QED BY <1>1, <1>2, <1>3 DEF s, rest, w

LEMMA ClearMoves ==
  ASSUME TxInv, NEW q \in Requests, Clear(q)
  PROVE  LET w == work[q]
         IN  /\ pc[q] = "clear" /\ held' = held /\ pc'[q] = "clearing"
             /\ Has(work'[q], w.marked, w.active, w.list, w.ranked, index, w.fill,
                    w.decided, w.todo, w.en, w.board, w.at)
<1> DEFINE w == work[q]
           v == [w EXCEPT !.old = index]
<1>1. Goes(q, "clearing", v) /\ pc[q] = "clear" /\ held' = held
  BY DEF Clear, At
<1>2. Has(v, w.marked, w.active, w.list, w.ranked, index, w.fill, w.decided, w.todo, w.en, w.board, w.at)
  BY Here, Puts, WorkHas, Zenon
<1> HIDE DEF v, w
<1>3. QED BY <1>1, <1>2, GoesThere DEF w

LEMMA ClearingMoves ==
  ASSUME TxInv, NEW q \in Requests, Clearing(q)
  PROVE  LET w == work[q]
         IN  /\ pc[q] = "clearing" /\ Locks(q) /\ pc'[q] = "fill"
             /\ Has(work'[q], w.marked, w.active, w.list, w.ranked, w.old,
                    IndexRows(Only(w.ranked)), w.decided, w.todo, w.en, w.board, w.at)
<1> DEFINE w == work[q]
           f == IndexRows(Only(w.ranked))
           v == [w EXCEPT !.fill = f]
<1>1. Goes(q, "fill", v) /\ pc[q] = "clearing" /\ Locks(q)
  BY DEF Clearing, At
<1> HIDE DEF f
<1>2. Has(v, w.marked, w.active, w.list, w.ranked, w.old, f, w.decided, w.todo, w.en, w.board, w.at)
  BY Here, Puts, WorkHas, Zenon
<1> HIDE DEF v, w
<1>3. QED BY <1>1, <1>2, GoesThere DEF f, w

LEMMA FillMoves ==
  ASSUME TxInv, NEW q \in Requests, Fill(q), ~Fails(q)
  PROVE  pc[q] = "fill" /\ pc'[q] = "rules" /\ work'[q] = work[q] /\ Locks(q)
BY GoesThere DEF Fill, At

LEMMA DecideMoves ==
  ASSUME TxInv, NEW q \in Requests, Decide(q)
  PROVE  LET w == work[q]
         IN  /\ pc[q] = "decide" /\ Locks(q)
             /\ pc'[q] = IF Request[q].kind = "deny" THEN "commit" ELSE "rules"
             /\ Has(work'[q], w.marked, w.active, w.list, w.ranked, w.old, w.fill,
                    Undecided(Request[q].filing), w.todo, w.en, w.board, w.at)
<1> DEFINE w == work[q]
           I == Undecided(Request[q].filing)
           s == IF Request[q].kind = "deny" THEN "commit" ELSE "rules"
           v == [w EXCEPT !.decided = I]
<1>1. Goes(q, s, v) /\ pc[q] = "decide" /\ Locks(q)
  BY DEF Decide, At
<1> HIDE DEF I
<1>2. Has(v, w.marked, w.active, w.list, w.ranked, w.old, w.fill, I, w.todo, w.en, w.board, w.at)
  BY Here, Puts, WorkHas, Zenon
<1> HIDE DEF v, s, w
<1>3. QED BY <1>1, <1>2, GoesThere DEF s, I, w

LEMMA ReadRulesMoves ==
  ASSUME TxInv, NEW q \in Requests, ReadRules(q)
  PROVE  LET w == work[q]
         IN  /\ pc[q] = "rules" /\ held' = held
             /\ pc'[q] = IF Refreshed(q) = {} THEN "commit" ELSE "grants"
             /\ Has(work'[q], w.marked, Active(SeesStatus(q)), w.list, w.ranked, w.old, w.fill,
                    w.decided, Refreshed(q), w.en, w.board, w.at)
<1> DEFINE w == work[q]
           act == Active(SeesStatus(q))
           todo == Refreshed(q)
           s == IF todo = {} THEN "commit" ELSE "grants"
           v == [w EXCEPT !.active = act, !.todo = todo]
<1>1. Goes(q, s, v) /\ pc[q] = "rules" /\ held' = held
  BY DEF ReadRules, At
<1> HIDE DEF act, todo
<1>2. WorkIs(v, w.marked, act, w.list, w.ranked, w.old, w.fill, w.decided, todo, w.en, w.board, w.at)
  BY Here, Puts, Zenon
<1>3. Has(v, w.marked, act, w.list, w.ranked, w.old, w.fill, w.decided, todo, w.en, w.board, w.at)
  BY <1>2, WorkHas, Zenon
<1> HIDE DEF v, s, w
<1>4. QED BY <1>1, <1>3, GoesThere DEF s, act, todo, w

LEMMA ReadGrantsMoves ==
  ASSUME TxInv, NEW q \in Requests, ReadGrants(q)
  PROVE  LET w == work[q]
             v == work'[q]
         IN  /\ pc[q] = "grants" /\ held' = held /\ pc'[q] = "rows"
             /\ v.at \in w.todo
             /\ Has(v, w.marked, w.active, w.list, w.ranked, w.old, w.fill, w.decided,
                    w.todo \ {v.at}, SeesEnroll(q), w.board, v.at)
<1> DEFINE w == work[q]
           en == SeesEnroll(q)
<1>1. PICK a \in w.todo : Goes(q, "rows", [w EXCEPT !.en = en, !.at = a, !.todo = @ \ {a}])
  BY DEF ReadGrants
<1> DEFINE rest == w.todo \ {a}
           v == [w EXCEPT !.en = en, !.at = a, !.todo = rest]
<1> HIDE DEF en
<1>2. [w EXCEPT !.en = en, !.at = a, !.todo = @ \ {a}] = v
  BY Here DEF IsWork
<1>3. Goes(q, "rows", v) /\ pc[q] = "grants" /\ held' = held
  BY <1>1, <1>2 DEF ReadGrants, At
<1> HIDE DEF rest
<1>4. WorkIs(v, w.marked, w.active, w.list, w.ranked, w.old, w.fill, w.decided, rest, en, w.board, a)
  BY Here, Puts, Zenon
<1>5. Has(v, w.marked, w.active, w.list, w.ranked, w.old, w.fill, w.decided, rest, en, w.board, a)
  BY <1>4, WorkHas, Zenon
<1> HIDE DEF v, w
<1>6. v.at = a
  BY <1>5 DEF Has
<1>7. QED BY <1>1, <1>3, <1>5, <1>6, GoesThere DEF rest, en, w

LEMMA ReadRowsMoves ==
  ASSUME TxInv, NEW q \in Requests, ReadRows(q)
  PROVE  LET w == work[q]
         IN  /\ pc[q] = "rows" /\ held' = held /\ pc'[q] = "delete"
             /\ \E ord \in Orders :
                  Has(work'[q], w.marked, w.active, w.list, w.ranked, w.old, w.fill, w.decided,
                      w.todo, w.en,
                      [w.board EXCEPT ![w.at] =
                         [have |-> Rows(w.at),
                          want |-> Expected(Only(w.active), w.en, ord, w.at, today)]], w.at)
<1> DEFINE w == work[q]
           row(ord) == [have |-> Rows(w.at),
                        want |-> Expected(Only(w.active), w.en, ord, w.at, today)]
<1>1. PICK ord \in Orders : Goes(q, "delete", [w EXCEPT !.board[w.at] = row(ord)])
  BY DEF ReadRows
<1> DEFINE board == [w.board EXCEPT ![w.at] = row(ord)]
           v == [w EXCEPT !.board = board]
<1>2. Goes(q, "delete", v) /\ pc[q] = "rows" /\ held' = held
  BY <1>1 DEF ReadRows, At
<1> HIDE DEF board
<1>3. Has(v, w.marked, w.active, w.list, w.ranked, w.old, w.fill, w.decided, w.todo, w.en, board, w.at)
  BY Here, Puts, WorkHas, Zenon
<1> HIDE DEF v
<1>4. pc'[q] = "delete" /\ work'[q] = v
  BY <1>2, GoesThere
<1>5. Has(work'[q], w.marked, w.active, w.list, w.ranked, w.old, w.fill, w.decided, w.todo, w.en,
          [w.board EXCEPT ![w.at] = row(ord)], w.at)
  BY <1>3, <1>4 DEF board
<1> HIDE DEF w, row
<1>6. QED BY <1>2, <1>4, <1>5, Zenon DEF w, row

LEMMA RefreshMoves ==
  ASSUME TxInv, NEW q \in Requests
  PROVE  /\ Delete(q) => pc[q] = "delete" /\ pc'[q] = "insert" /\ work'[q] = work[q] /\ Locks(q)
         /\ Insert(q) /\ ~Fails(q) =>
              /\ pc[q] = "insert" /\ pc'[q] = IF work[q].todo = {} THEN "commit" ELSE "grants"
              /\ work'[q] = work[q] /\ Locks(q)
         /\ Apply(q) => pc[q] = "append" /\ pc'[q] = "rules" /\ work'[q] = work[q] /\ held' = held
         /\ Commit(q) => /\ pc[q] = "commit" /\ pc'[q] = "done" /\ work'[q] = NothingYet
                         /\ held' = [held EXCEPT ![q] = {}]
<1>1. ASSUME Delete(q)
      PROVE  pc[q] = "delete" /\ pc'[q] = "insert" /\ work'[q] = work[q] /\ Locks(q)
  BY <1>1, GoesThere DEF Delete, At
<1>2. ASSUME Insert(q), ~Fails(q)
      PROVE  /\ pc[q] = "insert" /\ pc'[q] = IF work[q].todo = {} THEN "commit" ELSE "grants"
             /\ work'[q] = work[q] /\ Locks(q)
  BY <1>2, GoesThere DEF Insert, At
<1>3. ASSUME Apply(q)
      PROVE  pc[q] = "append" /\ pc'[q] = "rules" /\ work'[q] = work[q] /\ held' = held
  BY <1>3, GoesThere DEF Apply, At
<1>4. ASSUME Commit(q)
      PROVE  /\ pc[q] = "commit" /\ pc'[q] = "done" /\ work'[q] = NothingYet
             /\ held' = [held EXCEPT ![q] = {}]
  BY <1>4, GoesThere DEF Commit, At
<1>5. QED BY <1>1, <1>2, <1>3, <1>4

-----------------------------------------------------------------------------
(* The list of active rules *)

(* In the order of the rule ids.                                           *)
InOrder(l) == \A i, j \in DOMAIN l : i < j => Rule[l[i]].ord < Rule[l[j]].ord

(* Counting the smaller ids numbers the rules of a set, without gaps.      *)
LEMMA Numbered ==
  ASSUME NEW S \in SUBSET Rules
  PROVE  LET N(r) == Cardinality({s \in S : Rule[s].ord < Rule[r].ord})
         IN  /\ Cardinality(S) \in Nat
             /\ \A r \in S : N(r) \in 0..(Cardinality(S) - 1)
             /\ \A r, s \in S : Rule[r].ord < Rule[s].ord <=> N(r) < N(s)
             /\ \A i \in 1..Cardinality(S) : \E r \in S : N(r) = i - 1
<1> DEFINE Below(r) == {s \in S : Rule[s].ord < Rule[r].ord}
           N(r) == Cardinality(Below(r))
           n == Cardinality(S)
<1>1. IsFiniteSet(S) /\ n \in Nat
  BY RequestAssumption, FS_Subset, FS_CardinalityType
<1>2. \A r \in S : Rule[r].ord \in Nat
  BY PolicyAssumption DEF RuleRecord
<1>3. ASSUME NEW T \in SUBSET S, NEW U \in SUBSET T, T # U
      PROVE  Cardinality(U) \in Nat /\ Cardinality(T) \in Nat /\ Cardinality(U) < Cardinality(T)
  <2>1. IsFiniteSet(T) /\ IsFiniteSet(U)
    BY <1>1, FS_Subset
  <2>2. QED BY <1>3, <2>1, FS_Subset, FS_CardinalityType
<1>4. ASSUME NEW r \in S PROVE N(r) \in Nat /\ N(r) < n
  <2>1. r \notin Below(r)
    BY <1>2
  <2>2. QED BY <1>3, <2>1
<1>5. ASSUME NEW r \in S, NEW s \in S, Rule[r].ord < Rule[s].ord PROVE N(r) < N(s)
  <2>1. Below(r) \subseteq Below(s) /\ r \in Below(s) /\ r \notin Below(r)
    BY <1>2, <1>5
  <2>2. QED BY <1>3, <2>1
<1>6. ASSUME NEW r \in S, NEW s \in S, Rule[s].ord = Rule[r].ord PROVE N(r) = N(s)
  BY <1>6
<1> HIDE DEF N, n, Below
<1>7. ASSUME NEW r \in S, NEW s \in S, N(r) < N(s) PROVE Rule[r].ord < Rule[s].ord
  <2>1. ~(Rule[s].ord < Rule[r].ord) /\ Rule[s].ord # Rule[r].ord
    <3>1. N(r) \in Nat /\ N(s) \in Nat
      BY <1>4
    <3>2. Rule[s].ord < Rule[r].ord => N(s) < N(r)
      BY <1>5
    <3>3. Rule[s].ord = Rule[r].ord => N(r) = N(s)
      BY <1>6
    <3>4. QED BY <1>7, <3>1, <3>2, <3>3
  <2>2. QED BY <1>2, <2>1
<1>8. \A i \in 1..n : \E r \in S : N(r) = i - 1
  <2> DEFINE T == 0..(n - 1)
             f == [r \in S |-> N(r)]
  <2>1. f \in [S -> T]
    BY <1>1, <1>4
  <2>2. \A r, s \in S : f[r] = f[s] => r = s
    <3>1. ASSUME NEW r \in S, NEW s \in S, r # s PROVE N(r) # N(s)
      <4>1. Rule[r].ord < Rule[s].ord \/ Rule[s].ord < Rule[r].ord
        BY <1>2, <3>1, PolicyAssumption
      <4>2. N(r) < N(s) \/ N(s) < N(r)
        BY <1>5, <4>1
      <4>3. N(r) \in Nat /\ N(s) \in Nat
        BY <1>4
      <4>4. QED BY <4>2, <4>3
    <3>2. QED BY <3>1
  <2>3. f \in Injection(S, T)
    BY <2>1, <2>2 DEF Injection, IsInjective
  <2>4. IsFiniteSet(T) /\ Cardinality(T) = n
    BY <1>1, FS_Interval
  <2> HIDE DEF f
  <2>5. f \in Surjection(S, T)
    BY <1>1, <2>3, <2>4, FS_Injection DEF n
  <2>6. \A i \in T : \E r \in S : f[r] = i
    BY <2>5 DEF Surjection
  <2>7. \A i \in T : \E r \in S : N(r) = i
    BY <2>6 DEF f
  <2>8. \A i \in 1..n : i - 1 \in T
    BY <1>1
  <2>9. QED BY <2>7, <2>8
<1>9. /\ n \in Nat /\ \A r \in S : N(r) \in 0..(n - 1)
      /\ \A r, s \in S : Rule[r].ord < Rule[s].ord <=> N(r) < N(s)
  <2>1. \A r \in S : N(r) \in 0..(n - 1)
    BY <1>1, <1>4
  <2>2. QED BY <1>1, <1>5, <1>7, <2>1
<1>10. QED BY <1>8, <1>9, Zenon DEF N, n, Below

(* findActive answers every rule once, in the order of the rule ids.       *)
LEMMA ListedInOrder ==
  ASSUME NEW S \in SUBSET Rules, NEW l \in Listed(S)
  PROVE  l \in Seq(Rules) /\ InOrder(l) /\ Range(l) = S
<1> DEFINE N(r) == Cardinality({s \in S : Rule[s].ord < Rule[r].ord})
           n == Cardinality(S)
<1>1. /\ n \in Nat /\ \A r \in S : N(r) \in 0..(n - 1)
      /\ \A r, s \in S : Rule[r].ord < Rule[s].ord <=> N(r) < N(s)
      /\ \A i \in 1..n : \E r \in S : N(r) = i - 1
  BY Numbered
<1>2. l = [i \in 1..n |-> CHOOSE r \in S : N(r) = i - 1]
  BY DEF Listed
<1>3. \A r, s \in S : N(r) = N(s) => r = s
  <2> HIDE DEF N, n
  <2>1. ASSUME NEW r \in S, NEW s \in S, r # s PROVE N(r) # N(s)
    <3>1. Rule[r].ord < Rule[s].ord \/ Rule[s].ord < Rule[r].ord
      BY <2>1, PolicyAssumption DEF RuleRecord
    <3>2. N(r) < N(s) \/ N(s) < N(r)
      BY <1>1, <3>1
    <3>3. N(r) \in Int /\ N(s) \in Int
      BY <1>1
    <3>4. QED BY <3>2, <3>3
  <2>2. QED BY <2>1
<1> HIDE DEF N, n
<1>4. \A i \in 1..n : l[i] \in S /\ N(l[i]) = i - 1
  BY <1>1, <1>2
<1>5. l \in Seq(Rules) /\ DOMAIN l = 1..n
  BY <1>1, <1>2, <1>4, ListOf
<1>6. InOrder(l)
  BY <1>1, <1>4, <1>5 DEF InOrder
<1>7. ASSUME NEW r \in S PROVE \E i \in DOMAIN l : l[i] = r
  <2>1. N(r) + 1 \in 1..n /\ N(r) \in Nat
    BY <1>1
  <2>2. N(l[N(r) + 1]) = N(r) /\ l[N(r) + 1] \in S
    BY <1>4, <2>1
  <2>3. QED BY <1>3, <1>5, <2>1, <2>2
<1>8. QED BY <1>4, <1>5, <1>6, <1>7 DEF Range

(* The rest of a list keeps the order, and lacks only what came first.     *)
LEMMA RestInOrder ==
  ASSUME NEW l \in Seq(Rules), l # <<>>, InOrder(l)
  PROVE  /\ Tail(l) \in Seq(Rules) /\ InOrder(Tail(l))
         /\ Head(l) \in Rules /\ Range(l) = Range(Tail(l)) \cup {Head(l)}
         /\ \A i \in DOMAIN Tail(l) : Rule[Head(l)].ord < Rule[Tail(l)[i]].ord
<1> DEFINE t == Tail(l)
<1>1. /\ t \in Seq(Rules) /\ Len(l) \in Nat \ {0} /\ Len(t) = Len(l) - 1
      /\ DOMAIN l = 1..Len(l) /\ DOMAIN t = 1..Len(t)
      /\ \A i \in 1..Len(t) : t[i] = l[i + 1]
      /\ Head(l) = l[1]
  <2>1. t \in Seq(Rules) /\ Len(t) = Len(l) - 1 /\ \A i \in 1..Len(t) : t[i] = l[i + 1]
    BY HeadTailProperties, Zenon
  <2>2. Len(l) \in Nat /\ DOMAIN l = 1..Len(l) /\ Len(l) # 0
    BY LenProperties, EmptySeq
  <2>3. DOMAIN t = 1..Len(t)
    BY <2>1, LenProperties
  <2>4. Head(l) = l[1]
    OBVIOUS
  <2>5. QED BY <2>1, <2>2, <2>3, <2>4
<1> HIDE DEF t
<1>2. InOrder(t)
  BY <1>1 DEF InOrder
<1>3. Range(l) = Range(t) \cup {Head(l)}
  <2>1. ASSUME NEW i \in DOMAIN l PROVE l[i] = l[1] \/ \E j \in DOMAIN t : t[j] = l[i]
    <3>1. CASE i = 1
      BY <3>1
    <3>2. CASE i # 1
      <4>1. i - 1 \in 1..Len(t) /\ t[i - 1] = l[i]
        BY <1>1, <3>2
      <4>2. QED BY <1>1, <4>1
    <3>3. QED BY <3>1, <3>2
  <2>2. ASSUME NEW j \in DOMAIN t PROVE \E i \in DOMAIN l : l[i] = t[j]
    <3>1. j + 1 \in 1..Len(l) /\ t[j] = l[j + 1]
      BY <1>1
    <3>2. QED BY <1>1, <3>1
  <2>3. 1 \in DOMAIN l
    BY <1>1
  <2>4. QED BY <1>1, <2>1, <2>2, <2>3 DEF Range
<1>4. \A i \in DOMAIN t : Rule[Head(l)].ord < Rule[t[i]].ord
  BY <1>1 DEF InOrder
<1>5. Head(l) \in Rules
  BY <1>1
<1>6. QED BY <1>1, <1>2, <1>3, <1>4, <1>5 DEF t

-----------------------------------------------------------------------------
(* A step of one request leaves the place, the work and the locks of every *)
(* other request alone.                                                    *)
LEMMA OthersStay ==
  ASSUME TxInv, NEW q \in Requests, Begin(q) \/ Proceed(q), NEW p \in Requests \ {q}
  PROVE  pc'[p] = pc[p] /\ work'[p] = work[p] /\ held'[p] = held[p]
<1>1. \E s, w : Goes(q, s, w)
  <2>1. Begin(q) => \E s, w : Goes(q, s, w)
    BY Zenon DEF Begin
  <2>2. Fails(q) => \E s, w : Goes(q, s, w)
    BY Zenon DEF Fails
  <2>3. RankStep(q) => \E s, w : Goes(q, s, w)
    BY <2>2, Zenon DEF RankStep, Check, Mark, Scan, Stamp, Clear, Clearing, Fill
  <2>4. RefreshStep(q) => \E s, w : Goes(q, s, w)
    BY <2>2, Zenon DEF RefreshStep, ReadRules, ReadGrants, ReadRows, Delete, Insert
  <2>5. Decide(q) \/ Apply(q) \/ Commit(q) \/ Victim(q) => \E s, w : Goes(q, s, w)
    BY <2>2, Zenon DEF Decide, Apply, Commit, Victim
  <2>6. QED BY <2>1, <2>3, <2>4, <2>5 DEF Proceed
<1>2. held' = held \/ Locks(q) \/ held' = [held EXCEPT ![q] = {}]
  BY DEF Begin, Proceed, RankStep, RefreshStep, Check, Mark, Scan, Stamp, Clear, Clearing, Fill,
         Decide, Apply, ReadRules, ReadGrants, ReadRows, Delete, Insert, Commit, Victim, Fails
<1>3. held = [r \in Requests |-> held[r]]
  BY DEF TxInv, Shape
<1>4. held'[p] = held[p]
  BY <1>2, <1>3, LocksAlone
<1>5. pc'[p] = pc[p] /\ work'[p] = work[p]
  BY <1>1, OneMoves DEF TxInv
<1>6. QED BY <1>4, <1>5

(* After a crash every request has ended or has not begun, with nothing in *)
(* hand and nothing locked.                                                *)
LEMMA CrashMoves ==
  ASSUME TxInv, Crash, NEW q \in Requests
  PROVE  /\ work'[q] = NothingYet /\ held'[q] = {}
         /\ \/ pc[q] \in Statements /\ pc'[q] = "failed"
            \/ pc[q] \notin Statements /\ pc'[q] = pc[q]
BY DEF Crash, Open

-----------------------------------------------------------------------------
(* Types *)

AccountRows(a) == {v \in BindingRow : v.acct = a}

(* What a request works with, by the statement it executes next.           *)
Typed(s, w) ==
  /\ s \in Statements \cup Ended \cup {"ready"}
  /\ w.ranked \subseteq Rules /\ w.fill \subseteq Cells \X Rules /\ w.todo \subseteq Accounts
  /\ s = "rows" => Table(w.en)
  /\ s \in {"rows", "delete", "insert"} => w.at \in Accounts
  /\ w.board = [a \in Accounts |-> w.board[a]]
  /\ \A a \in Accounts : w.board[a].have \subseteq AccountRows(a) /\ w.board[a].want \subseteq AccountRows(a)

TypeInv == TypeOK /\ \A q \in Requests : Typed(pc[q], work[q])

LEMMA NothingTyped ==
  ASSUME NEW s \in Statements \cup Ended \cup {"ready"}, s \notin {"rows", "delete", "insert"}
  PROVE  Typed(s, NothingYet)
BY NothingHas DEF Has, Typed

(* Every statement of a request leaves its work within the types.          *)
LEMMA RankTyped ==
  ASSUME TxInv, TypeInv, NEW q \in Requests, RankStep(q)
  PROVE  Typed(pc'[q], work'[q])
<1> DEFINE w == work[q]
           v == work'[q]
<1>0. Typed(pc[q], w)
  BY DEF TypeInv
<1>1. CASE Fails(q)
  BY <1>1, FailsMoves, NothingTyped DEF Ended
<1>2. CASE Check(q) /\ ~Fails(q)
  BY <1>0, <1>2, CheckMoves DEF Typed, Statements
<1>3. CASE Mark(q)
  <2>1. pc[q] = "mark" /\ pc'[q] \in {"commit", "scan"}
    BY <1>3, MarkMoves
  <2>2. Has(v, TRUE, w.active, w.list, w.ranked, w.old, w.fill, w.decided, w.todo, w.en, w.board, w.at)
    BY <1>3, MarkMoves
  <2>3. QED BY <1>0, <2>1, <2>2 DEF Has, Typed, Statements
<1>4. CASE Scan(q)
  <2> DEFINE act == Active(SeesStatus(q))
  <2>1. pc[q] = "scan" /\ pc'[q] \in {"clear", "stamp"}
    BY <1>4, ScanMoves
  <2>2. Has(v, w.marked, w.active, v.list, act, w.old, w.fill, w.decided, w.todo, w.en, w.board, w.at)
    BY <1>4, ScanMoves
  <2>3. act \subseteq Rules
    BY DEF Active
  <2> HIDE DEF act
  <2>4. QED BY <1>0, <2>1, <2>2, <2>3 DEF Has, Typed, Statements
<1>5. CASE Stamp(q)
  <2>1. pc[q] = "stamp" /\ pc'[q] \in {"clear", "stamp"}
    BY <1>5, StampMoves
  <2>2. Has(v, w.marked, w.active, Tail(w.list), w.ranked, w.old, w.fill, w.decided, w.todo,
            w.en, w.board, w.at)
    BY <1>5, StampMoves
  <2>3. QED BY <1>0, <2>1, <2>2 DEF Has, Typed, Statements
<1>6. CASE Clear(q)
  <2>1. pc[q] = "clear" /\ pc'[q] = "clearing"
    BY <1>6, ClearMoves
  <2>2. Has(v, w.marked, w.active, w.list, w.ranked, index, w.fill, w.decided, w.todo, w.en,
            w.board, w.at)
    BY <1>6, ClearMoves
  <2>3. QED BY <1>0, <2>1, <2>2 DEF Has, Typed, Statements
<1>7. CASE Clearing(q)
  <2> DEFINE f == IndexRows(Only(w.ranked))
  <2>1. pc[q] = "clearing" /\ pc'[q] = "fill"
    BY <1>7, ClearingMoves
  <2>2. Has(v, w.marked, w.active, w.list, w.ranked, w.old, f, w.decided, w.todo, w.en, w.board, w.at)
    BY <1>7, ClearingMoves
  <2>3. f \subseteq Cells \X Rules
    BY IndexType
  <2> HIDE DEF f
  <2>4. QED BY <1>0, <2>1, <2>2, <2>3 DEF Has, Typed, Statements
<1>8. CASE Fill(q) /\ ~Fails(q)
  BY <1>0, <1>8, FillMoves DEF Typed, Statements
<1>9. QED BY <1>1, <1>2, <1>3, <1>4, <1>5, <1>6, <1>7, <1>8 DEF RankStep

LEMMA RefreshTyped ==
  ASSUME TxInv, TypeInv, NEW q \in Requests, RefreshStep(q)
  PROVE  Typed(pc'[q], work'[q])
<1> DEFINE w == work[q]
           v == work'[q]
<1>0. Typed(pc[q], w)
  BY DEF TypeInv
<1>1. CASE Fails(q)
  BY <1>1, FailsMoves, NothingTyped DEF Ended
<1>2. CASE ReadRules(q)
  <2> DEFINE act == Active(SeesStatus(q))
             todo == Refreshed(q)
  <2>1. pc[q] = "rules" /\ pc'[q] \in {"commit", "grants"}
    BY <1>2, ReadRulesMoves
  <2>2. Has(v, w.marked, act, w.list, w.ranked, w.old, w.fill, w.decided, todo, w.en, w.board, w.at)
    BY <1>2, ReadRulesMoves
  <2>3. todo \subseteq Accounts
    <3>1. \A i \in DOMAIN enroll : enroll[i].acct \in Accounts
      BY EnrollFields DEF TypeInv, TypeOK, Enrollment
    <3>2. AccountsOfRequest(Request[q].filing) \subseteq Accounts
      BY <3>1 DEF AccountsOfRequest
    <3>3. {Request[q].acct} \subseteq Accounts
      BY RequestAssumption
    <3>4. AccountsForRule(Request[q].rule) \subseteq Accounts
      BY DEF AccountsForRule, OpenedGroup
    <3>5. \/ todo = AccountsOfRequest(Request[q].filing)
          \/ todo = {Request[q].acct}
          \/ todo = AccountsForRule(Request[q].rule)
      BY Zenon DEF Refreshed
    <3>6. QED BY <3>2, <3>3, <3>4, <3>5
  <2> HIDE DEF act, todo
  <2>4. QED BY <1>0, <2>1, <2>2, <2>3 DEF Has, Typed, Statements
<1>3. CASE ReadGrants(q)
  <2> DEFINE en == SeesEnroll(q)
  <2>1. pc[q] = "grants" /\ pc'[q] = "rows" /\ v.at \in w.todo
    BY <1>3, ReadGrantsMoves
  <2>2. Has(v, w.marked, w.active, w.list, w.ranked, w.old, w.fill, w.decided, w.todo \ {v.at},
            en, w.board, v.at)
    BY <1>3, ReadGrantsMoves
  <2>3. Table(en)
    <3>1. en \in Seq(Enrollment) /\ DOMAIN en = DOMAIN enroll
      BY SeenGrants
    <3>2. enroll \in Seq(Enrollment) /\ Len(enroll) <= MaxEnrollments
      BY DEF TypeInv, TypeOK
    <3> HIDE DEF en
    <3>3. Len(en) = Len(enroll)
      BY <3>1, <3>2, Rewritten, EnrollFields
    <3>4. QED BY <3>1, <3>2, <3>3 DEF Table
  <2> HIDE DEF en
  <2>4. QED BY <1>0, <2>1, <2>2, <2>3 DEF Has, Typed, Statements
<1>4. CASE ReadRows(q)
  <2>1. pc[q] = "rows" /\ pc'[q] = "delete"
    BY <1>4, ReadRowsMoves
  <2>2. PICK ord \in Orders :
          Has(v, w.marked, w.active, w.list, w.ranked, w.old, w.fill, w.decided, w.todo, w.en,
              [w.board EXCEPT ![w.at] =
                 [have |-> Rows(w.at),
                  want |-> Expected(Only(w.active), w.en, ord, w.at, today)]], w.at)
    BY <1>4, ReadRowsMoves
  <2> DEFINE have == Rows(w.at)
             want == Expected(Only(w.active), w.en, ord, w.at, today)
             board == [w.board EXCEPT ![w.at] = [have |-> have, want |-> want]]
  <2>3. have \subseteq AccountRows(w.at)
    BY DEF TypeInv, TypeOK, Rows, AccountRows
  <2>4. want \subseteq AccountRows(w.at)
    BY <1>0, <2>1, ExpectedType DEF Typed, Table, AccountRows
  <2>5. Has(v, w.marked, w.active, w.list, w.ranked, w.old, w.fill, w.decided, w.todo, w.en, board, w.at)
    BY <2>2
  <2> HIDE DEF have, want
  <2>6. /\ board = [a \in Accounts |-> board[a]]
        /\ \A a \in Accounts : board[a].have \subseteq AccountRows(a) /\ board[a].want \subseteq AccountRows(a)
    BY <1>0, <2>3, <2>4 DEF Typed
  <2> HIDE DEF board
  <2>7. QED BY <1>0, <2>1, <2>5, <2>6 DEF Has, Typed, Statements
<1>5. CASE Delete(q)
  BY <1>0, <1>5, RefreshMoves DEF Typed, Statements
<1>6. CASE Insert(q) /\ ~Fails(q)
  BY <1>0, <1>6, RefreshMoves DEF Typed, Statements
<1>7. QED BY <1>1, <1>2, <1>3, <1>4, <1>5, <1>6 DEF RefreshStep

LEMMA WorkTyped ==
  ASSUME TxInv, TypeInv, NEW q \in Requests, Begin(q) \/ Proceed(q)
  PROVE  Typed(pc'[q], work'[q])
<1> DEFINE w == work[q]
           v == work'[q]
<1>0. Typed(pc[q], w)
  BY DEF TypeInv
<1>1. CASE Begin(q)
  <2>1. work'[q] = NothingYet /\ pc'[q] \in {"check", "decide", "append", "mark"}
    BY <1>1, BeginMoves
  <2>2. QED BY <2>1, NothingTyped DEF Statements
<1>2. CASE Decide(q)
  <2>1. pc[q] = "decide" /\ pc'[q] \in {"commit", "rules"}
    BY <1>2, DecideMoves
  <2>2. Has(v, w.marked, w.active, w.list, w.ranked, w.old, w.fill, Undecided(Request[q].filing),
            w.todo, w.en, w.board, w.at)
    BY <1>2, DecideMoves
  <2>3. QED BY <1>0, <2>1, <2>2 DEF Has, Typed, Statements
<1>3. CASE Apply(q)
  BY <1>0, <1>3, RefreshMoves DEF Typed, Statements
<1>4. CASE Commit(q)
  BY <1>4, RefreshMoves, NothingTyped DEF Ended
<1>5. CASE Victim(q)
  BY <1>5, FailsMoves, NothingTyped DEF Victim, Ended
<1>6. QED BY <1>1, <1>2, <1>3, <1>4, <1>5, RankTyped, RefreshTyped DEF Proceed

(* What a request writes into the tables is within their types.            *)
LEMMA TablesTyped ==
  ASSUME TxInv, TypeInv, TxInv', NEW q \in Requests, Begin(q) \/ Proceed(q)
  PROVE  TypeOK'
<1> DEFINE w == work[q]
<1>0. TypeOK /\ Typed(pc[q], w)
  BY DEF TypeInv
<1>1. CASE UnchangedTables
  BY <1>0, <1>1 DEF UnchangedTables, vars, TypeOK
<1>2. CASE Apply(q)
  <2>1. Len(enroll') = Len(enroll) + 1 /\ Len(enroll) < MaxEnrollments
    BY <1>2, ApplyKeeps DEF Apply
  <2>2. Len(enroll') <= MaxEnrollments
    BY <1>0, <2>1, BindingAssumption DEF TypeOK
  <2>3. /\ today' = today /\ status' = status /\ latest' = latest /\ stamped' = stamped
        /\ index' = index /\ binding' = binding
    BY <1>2 DEF Apply, UnchangedIndex, UnchangedBoard
  <2>4. enroll' \in Seq(Enrollment)
    BY DEF TxInv, Shape
  <2>5. QED BY <1>0, <2>2, <2>3, <2>4 DEF TypeOK
<1>3. CASE Delete(q) /\ ~UnchangedTables
  <2> DEFINE a == w.at
             b == w.board[a]
  <2>1. /\ binding' = Without(binding, Gone(b))
        /\ latest' = [latest EXCEPT ![a] = LogBoard(latest[a], b.have, b.want)]
        /\ today' = today /\ status' = status /\ enroll' = enroll
        /\ stamped' = stamped /\ index' = index
    BY <1>3 DEF Delete, UnchangedIndex
  <2>2. a \in Accounts
    BY <1>0, <1>3, RefreshMoves DEF Typed
  <2>3. b.want \subseteq BindingRow
    BY <1>0, <2>2 DEF Typed, AccountRows
  <2>4. LogBoard(latest[a], b.have, b.want) \in [Cells -> Rules \cup {NoRule}]
    BY <1>0, <2>2, <2>3, LogType DEF TypeOK
  <2>5. latest' \in [Accounts -> [Cells -> Rules \cup {NoRule}]]
    BY <1>0, <2>1, <2>4 DEF TypeOK
  <2>6. binding' \subseteq BindingRow
    BY <1>0, <2>1 DEF TypeOK, Without
  <2>7. QED BY <1>0, <2>1, <2>5, <2>6 DEF TypeOK
<1>4. CASE Insert(q) /\ ~UnchangedTables
  <2> DEFINE b == w.board[w.at]
  <2>1. /\ binding' = binding \/ binding' = binding \cup New(b)
        /\ latest' = latest /\ today' = today /\ status' = status /\ enroll' = enroll
        /\ stamped' = stamped /\ index' = index
    BY <1>4 DEF Insert, Fails, UnchangedIndex
  <2>2. ~Fails(q)
    BY <1>4 DEF Fails
  <2>3. b.want \subseteq BindingRow
    BY <1>0, <1>4, <2>2, RefreshMoves DEF Typed, AccountRows
  <2>4. New(b) \subseteq BindingRow
    BY <2>3 DEF New, Written
  <2>5. QED BY <1>0, <2>1, <2>4 DEF TypeOK
<1>5. CASE Commit(q) /\ ~UnchangedTables
  <2> DEFINE b == w.board
  <2>1. /\ stamped' = stamped \cup w.ranked /\ index' = (index \ w.old) \cup w.fill
        /\ binding' = Without(binding, UNION {Gone(b[a]) : a \in Accounts})
                        \cup UNION {New(b[a]) : a \in Accounts}
        /\ latest' = [a \in Accounts |-> LogBoard(latest[a], b[a].have, b[a].want)]
        /\ today' = today /\ enroll' = SeesEnroll(q)
    BY <1>5 DEF Commit
  <2>2. ASSUME NEW a \in Accounts
        PROVE  /\ New(b[a]) \subseteq BindingRow
               /\ LogBoard(latest[a], b[a].have, b[a].want) \in [Cells -> Rules \cup {NoRule}]
    <3>1. b[a].want \subseteq BindingRow
      BY <1>0 DEF Typed, AccountRows
    <3>2. New(b[a]) \subseteq BindingRow
      BY <3>1 DEF New, Written
    <3>3. latest[a] \in [Cells -> Rules \cup {NoRule}]
      BY <1>0 DEF TypeOK
    <3>4. QED BY <3>1, <3>2, <3>3, LogType
  <2>3. binding' \subseteq BindingRow
    BY <1>0, <2>1, <2>2 DEF TypeOK, Without
  <2>4. latest' \in [Accounts -> [Cells -> Rules \cup {NoRule}]]
    BY <2>1, <2>2
  <2>5. enroll' \in Seq(Enrollment) /\ Len(enroll') <= MaxEnrollments
    <3>1. enroll' \in Seq(Enrollment) /\ DOMAIN enroll' = DOMAIN enroll
      BY <2>1, SeenGrants
    <3>2. Len(enroll') = Len(enroll)
      BY <1>0, <3>1, Rewritten, EnrollFields DEF TypeOK
    <3>3. QED BY <1>0, <3>1, <3>2 DEF TypeOK
  <2>6. status' \in [Rules -> RuleStatus \cup {Absent}]
    BY DEF TxInv, Shape
  <2>7. stamped' \subseteq Rules /\ index' \subseteq Cells \X Rules
    BY <1>0, <2>1 DEF TypeOK, Typed
  <2>8. QED BY <1>0, <2>1, <2>3, <2>4, <2>5, <2>6, <2>7 DEF TypeOK
<1>6. Begin(q) \/ RankStep(q) \/ Decide(q) \/ Victim(q) => UnchangedTables
  BY DEF Begin, RankStep, Check, Mark, Scan, Stamp, Clear, Clearing, Fill, Decide, Victim, Fails
<1>7. ReadRules(q) \/ ReadGrants(q) \/ ReadRows(q) => UnchangedTables
  BY DEF ReadRules, ReadGrants, ReadRows
<1>8. QED BY <1>1, <1>2, <1>3, <1>4, <1>5, <1>6, <1>7 DEF Proceed, RefreshStep

(* A restart may rebuild the index, from the committed rules.              *)
LEMMA CrashTyped ==
  ASSUME TxInv, TypeInv, Crash
  PROVE  TypeInv'
<1>1. TypeOK'
  <2>1. /\ today' = today /\ status' = status /\ enroll' = enroll
        /\ binding' = binding /\ latest' = latest
    BY DEF Crash, UnchangedBoard
  <2>2. \/ stamped' = stamped /\ index' = index
        \/ stamped' = stamped \cup Active(status) /\ index' = IndexRows(status)
    BY <2>1 DEF Crash, UnchangedIndex, RebuildAll
  <2>3. stamped' \subseteq Rules /\ index' \subseteq Cells \X Rules
    BY <2>2, IndexType DEF TypeInv, TypeOK
  <2>4. QED BY <2>1, <2>3 DEF TypeInv, TypeOK
<1>2. ASSUME NEW q \in Requests PROVE Typed(pc'[q], work'[q])
  <2>1. Typed(pc[q], work[q])
    BY DEF TypeInv
  <2>2. pc'[q] \in Ended \cup {"ready"} /\ work'[q] = NothingYet
    BY <2>1, CrashMoves DEF Typed, Ended
  <2>3. QED BY <2>2, NothingTyped DEF Ended
<1>3. QED BY <1>1, <1>2 DEF TypeInv

LEMMA TypeInvStep ==
  ASSUME TxInv, TypeInv, TxInv', [TxNext]_txVars
  PROVE  TypeInv'
<1>1. CASE UNCHANGED txVars
  BY <1>1 DEF txVars, vars, TypeInv, TypeOK
<1>2. CASE Crash
  BY <1>2, CrashTyped
<1>3. ASSUME NEW q \in Requests, Begin(q) \/ Proceed(q)
      PROVE  TypeInv'
  <2>1. \A p \in Requests : Typed(pc'[p], work'[p])
    BY <1>3, WorkTyped, OthersStay DEF TypeInv
  <2>2. QED BY <1>3, <2>1, TablesTyped DEF TypeInv
<1>4. QED BY <1>1, <1>2, <1>3 DEF TxNext

LEMMA TypeInvInit == TxInit => TypeInv
<1> SUFFICES ASSUME TxInit PROVE TypeInv
  OBVIOUS
<1>1. /\ today \in Nat \ {0} /\ enroll \in Seq(Enrollment) /\ Len(enroll) <= MaxEnrollments
      /\ stamped \subseteq Rules /\ index \subseteq Cells \X Rules
  BY BindingAssumption, RequestAssumption, IndexType DEF TxInit
<1>2. status \in [Rules -> RuleStatus \cup {Absent}]
  BY TxInitOk DEF TxInv, Shape
<1>3. binding \subseteq BindingRow
  <2>1. PICK ord \in Orders :
          binding = UNION {Expected(status, Filings, ord, a, today) : a \in Accounts}
    BY DEF TxInit
  <2>2. \A a \in Accounts : Expected(status, Filings, ord, a, today) \subseteq BindingRow
    BY ExpectedType, RequestAssumption
  <2>3. QED BY <2>1, <2>2
<1>4. latest \in [Accounts -> [Cells -> Rules \cup {NoRule}]]
  <2>1. latest = [a \in Accounts |-> LogBoard([c \in Cells |-> NoRule], {}, Rows(a))]
    BY DEF TxInit
  <2>2. ASSUME NEW a \in Accounts
        PROVE  LogBoard([c \in Cells |-> NoRule], {}, Rows(a)) \in [Cells -> Rules \cup {NoRule}]
    <3>1. Rows(a) \subseteq BindingRow /\ [c \in Cells |-> NoRule] \in [Cells -> Rules \cup {NoRule}]
      BY <1>3 DEF Rows
    <3>2. QED BY <3>1, LogType
  <2>3. QED BY <2>1, <2>2
<1>5. \A q \in Requests : Typed(pc[q], work[q])
  BY NothingTyped DEF TxInit
<1>6. QED BY <1>1, <1>2, <1>3, <1>4, <1>5 DEF TypeInv, TypeOK

(* Whatever overlaps, aborts or dies, the tables stay within their types,  *)
(* every request is at a statement of the program or has ended, and no row *)
(* is locked by two requests.                                              *)
THEOREM OverlapTypeCorrect == TxSpec => []TxTypeOK
<1>1. TxInv /\ TypeInv => TxTypeOK
  BY DEF TxInv, Shape, DecidesAlone, TypeInv, Typed, TxTypeOK
<1>2. TxInv /\ TypeInv /\ [TxNext]_txVars => TxInv' /\ TypeInv'
  BY TxStep, TypeInvStep
<1>3. QED BY <1>1, <1>2, TxInitOk, TypeInvInit, PTL DEF TxSpec

-----------------------------------------------------------------------------
(* Lanes: where a request can be by its kind, and what it locks there      *)

Own(q)   == Request[q].rule
Of(q, K) == Request[q].kind \in K

(* Stamping locks the rules in the order of their ids: what a request      *)
(* locked, its own rule aside, comes before everything it still lists.     *)
Ahead(q, l, h) ==
  \A k \in h : \E r \in Rules :
    k = RuleLock(r) /\ (r = Own(q) \/ \A i \in DOMAIN l : Rule[r].ord < Rule[l[i]].ord)

Lane(q, s, w, h) ==
  /\ s = "check" => Of(q, {"approve"})
  /\ s = "mark" => Of(q, {"approve", "expire", "reject"})
  /\ s \in {"scan", "stamp", "clear", "clearing", "fill"} => Of(q, {"approve", "expire"})
  /\ Of(q, {"reject"}) /\ s \in Statements => s \in {"mark", "commit"}
  /\ Of(q, {"deny"}) /\ s \in Statements => s \in {"decide", "commit"}
  /\ ~Of(q, {"decide", "deny"}) => w.decided = {}
  /\ ~InTx(q) => h = {}
  /\ s \notin Ranking \cup {"scan"} => h = {}
  /\ s = "scan" => h = {RuleLock(Own(q))}
  /\ s = "stamp" => Ahead(q, w.list, h)
  /\ w.list \in Seq(Rules) /\ InOrder(w.list)
  /\ s = "stamp" <=> w.list # <<>>

Busy == Ranking \cup {"mark", "scan"}

(* What a step of q does to its list: it is filled by the scan, used up by *)
(* the stamps, and empty before and after.                                 *)
Lists(q) ==
  LET l == work[q].list
  IN  \/ /\ work'[q].list = <<>>
         /\ pc'[q] \in Ranking /\ Of(q, {"approve", "expire"}) =>
              pc[q] \in Ranking /\ l = <<>> /\ held[q] \subseteq held'[q]
      \/ pc[q] = "scan" /\ work'[q].list \in Listed(Active(SeesStatus(q)))
      \/ /\ pc[q] = "stamp" /\ work'[q].list = Tail(l)
         /\ held[q] \subseteq held'[q] /\ RuleLock(Head(l)) \in held'[q]

(* An approval gets past its check only for a pending rule.                *)
Checked(q) ==
  Of(q, {"approve"}) /\ pc'[q] \in Busy => pc[q] \in Busy \/ status[Own(q)] = "PENDING"

InLane(q) == Lane(q, pc[q], work[q], held[q])

LEMMA EmptyInOrder == <<>> \in Seq(Rules) /\ InOrder(<<>>)
<1>1. <<>> \in Seq(Rules) /\ DOMAIN <<>> = {}
  BY EmptySeq
<1>2. QED BY <1>1 DEF InOrder

(* A statement locks the rows it writes, in a transaction.                 *)
LEMMA LocksAdd ==
  ASSUME TxInv, NEW q \in Requests, Locks(q)
  PROVE  /\ InTx(q) => held'[q] = held[q] \cup Needs(q)
         /\ ~InTx(q) => held'[q] = held[q]
<1> DEFINE N == Needs(q)
<1>1. held' = IF InTx(q) THEN [held EXCEPT ![q] = @ \cup N] ELSE held
  BY DEF Locks
<1>2. held = [p \in Requests |-> held[p]]
  BY DEF TxInv, Shape
<1> HIDE DEF N
<1>3. InTx(q) => held'[q] = held[q] \cup N
  BY <1>1, <1>2
<1>4. QED BY <1>1, <1>3 DEF N

(* A request that failed or is done is out of every lane.                  *)
LEMMA EndedLane ==
  ASSUME TxInv, NEW q \in Requests, pc'[q] \in Ended, work'[q] = NothingYet, held'[q] = {}
  PROVE  Lane(q, pc'[q], work'[q], held'[q]) /\ Lists(q) /\ Checked(q)
BY NothingHas, EmptyInOrder DEF Has, Ended, Lane, Lists, Checked, Busy, Ranking, Statements

LEMMA RankLane ==
  ASSUME TxInv, TypeInv, NEW q \in Requests, InLane(q), RankStep(q)
  PROVE  Lane(q, pc'[q], work'[q], held'[q]) /\ Lists(q) /\ Checked(q)
<1> DEFINE w == work[q]
           v == work'[q]
<1>0. Lane(q, pc[q], w, held[q])
  BY DEF InLane
<1>1. CASE Fails(q)
  BY <1>1, FailsMoves, EndedLane DEF Ended
<1>2. CASE Check(q) /\ ~Fails(q)
  <2>1. /\ pc[q] = "check" /\ pc'[q] = "mark" /\ v = w /\ held' = held
        /\ status[Own(q)] = "PENDING"
    BY <1>2, CheckMoves DEF Approvable, Own
  <2>2. Lane(q, pc'[q], v, held'[q])
    BY <1>0, <2>1 DEF Lane, Of, Ranking, Statements
  <2>3. Lists(q)
    BY <1>0, <2>1 DEF Lane, Lists, Ranking
  <2>4. QED BY <2>1, <2>2, <2>3 DEF Checked
<1>3. CASE Mark(q)
  <2>1. /\ pc[q] = "mark" /\ Locks(q)
        /\ pc'[q] = IF Request[q].kind = "reject" THEN "commit" ELSE "scan"
    BY <1>3, MarkMoves
  <2>2. Has(v, TRUE, w.active, w.list, w.ranked, w.old, w.fill, w.decided, w.todo, w.en, w.board, w.at)
    BY <1>3, MarkMoves
  <2>3. Of(q, {"approve", "expire", "reject"}) /\ held[q] = {} /\ w.list = <<>>
    BY <1>0, <2>1 DEF Lane, Ranking
  <2>4. InTx(q) /\ Needs(q) = {RuleLock(Own(q))}
    BY <2>1, <2>3 DEF InTx, Of, Needs, Own
  <2>5. held'[q] = {RuleLock(Own(q))}
    BY <2>1, <2>3, <2>4, LocksAdd
  <2>6. Lane(q, pc'[q], v, held'[q])
    BY <1>0, <2>1, <2>2, <2>3, <2>4, <2>5 DEF Has, Lane, Of, Ranking, Statements
  <2>7. Lists(q)
    BY <2>1, <2>2, <2>3 DEF Has, Lists, Ranking, Of
  <2>8. QED BY <2>1, <2>6, <2>7 DEF Checked, Busy
<1>4. CASE Scan(q)
  <2> DEFINE act == Active(SeesStatus(q))
  <2>1. /\ pc[q] = "scan" /\ held' = held /\ v.list \in Listed(act)
        /\ pc'[q] = IF v.list = <<>> THEN "clear" ELSE "stamp"
        /\ Has(v, w.marked, w.active, v.list, act, w.old, w.fill, w.decided, w.todo, w.en, w.board, w.at)
    BY <1>4, ScanMoves
  <2>2. act \subseteq Rules
    BY DEF Active
  <2>3. v.list \in Seq(Rules) /\ InOrder(v.list)
    BY <2>1, <2>2, ListedInOrder
  <2>4. Lists(q) /\ Checked(q)
    BY <2>1 DEF Lists, Checked, Busy
  <2> HIDE DEF act
  <2>5. Of(q, {"approve", "expire"}) /\ held'[q] = {RuleLock(Own(q))} /\ Own(q) \in Rules
    BY <1>0, <2>1, RequestType DEF Lane, Own
  <2>6. Ahead(q, v.list, held'[q])
    BY <2>5 DEF Ahead
  <2>7. Lane(q, pc'[q], v, held'[q])
    BY <1>0, <2>1, <2>3, <2>5, <2>6 DEF Has, Lane, Of, InTx, Ranking, Statements
  <2>8. QED BY <2>4, <2>7
<1>5. CASE Stamp(q)
  <2>1. /\ pc[q] = "stamp" /\ Locks(q)
        /\ pc'[q] = IF v.list = <<>> THEN "clear" ELSE "stamp"
        /\ Has(v, w.marked, w.active, Tail(w.list), w.ranked, w.old, w.fill, w.decided, w.todo,
               w.en, w.board, w.at)
    BY <1>5, StampMoves
  <2>2. /\ Of(q, {"approve", "expire"}) /\ w.list \in Seq(Rules) /\ w.list # <<>> /\ InOrder(w.list)
        /\ Ahead(q, w.list, held[q])
    BY <1>0, <2>1 DEF Lane
  <2>3. /\ Tail(w.list) \in Seq(Rules) /\ InOrder(Tail(w.list))
        /\ Head(w.list) \in Rules /\ Range(w.list) = Range(Tail(w.list)) \cup {Head(w.list)}
        /\ \A i \in DOMAIN Tail(w.list) : Rule[Head(w.list)].ord < Rule[Tail(w.list)[i]].ord
    BY <2>2, RestInOrder
  <2>4. v.list = Tail(w.list) /\ v.decided = w.decided
    BY <2>1 DEF Has
  <2>5. InTx(q) /\ Needs(q) = {RuleLock(Head(w.list))}
    BY <2>1, <2>2 DEF InTx, Of, Needs
  <2>6. held'[q] = held[q] \cup {RuleLock(Head(w.list))}
    BY <2>1, <2>5, LocksAdd
  <2> DEFINE head == Head(w.list)
             rest == Tail(w.list)
  <2>7. ASSUME NEW k \in held'[q]
        PROVE  \E r \in Rules :
                 k = RuleLock(r) /\ (r = Own(q) \/ \A i \in DOMAIN rest : Rule[r].ord < Rule[rest[i]].ord)
    <3>1. CASE k = RuleLock(head)
      BY <2>3, <3>1
    <3>2. CASE k \in held[q]
      <4>1. PICK r \in Rules :
              k = RuleLock(r) /\ (r = Own(q) \/ \A i \in DOMAIN w.list : Rule[r].ord < Rule[w.list[i]].ord)
        BY <2>2, <3>2 DEF Ahead
      <4>2. \A i \in DOMAIN rest : \E j \in DOMAIN w.list : rest[i] = w.list[j]
        BY <2>3 DEF Range
      <4>3. QED BY <4>1, <4>2
    <3>3. QED BY <2>6, <2>7, <3>1, <3>2
  <2>8. Ahead(q, v.list, held'[q])
    BY <2>4, <2>7 DEF Ahead
  <2>9. Lane(q, pc'[q], v, held'[q])
    BY <1>0, <2>1, <2>2, <2>3, <2>4, <2>5, <2>8 DEF Lane, Of, Ranking, Statements
  <2>10. Lists(q) /\ Checked(q)
    BY <2>1, <2>4, <2>6 DEF Lists, Checked, Busy, Ranking
  <2>11. QED BY <2>9, <2>10
<1>6. CASE Clear(q)
  <2>1. /\ pc[q] = "clear" /\ pc'[q] = "clearing" /\ held' = held
        /\ Has(v, w.marked, w.active, w.list, w.ranked, index, w.fill, w.decided, w.todo, w.en,
               w.board, w.at)
    BY <1>6, ClearMoves
  <2>2. QED BY <1>0, <2>1 DEF Has, Lane, Lists, Checked, Of, Busy, Ranking, Statements
<1>7. CASE Clearing(q)
  <2>1. /\ pc[q] = "clearing" /\ pc'[q] = "fill" /\ Locks(q)
        /\ Has(v, w.marked, w.active, w.list, w.ranked, w.old, IndexRows(Only(w.ranked)), w.decided,
               w.todo, w.en, w.board, w.at)
    BY <1>7, ClearingMoves
  <2>2. held[q] \subseteq held'[q]
    BY <2>1, LocksAlone
  <2>3. v.list = w.list /\ v.decided = w.decided
    BY <2>1 DEF Has
  <2>4. QED BY <1>0, <2>1, <2>2, <2>3 DEF Lane, Lists, Checked, Of, InTx, Busy, Ranking, Statements
<1>8. CASE Fill(q) /\ ~Fails(q)
  <2>1. pc[q] = "fill" /\ pc'[q] = "rules" /\ v = w /\ Locks(q)
    BY <1>8, FillMoves
  <2>2. held[q] \subseteq held'[q]
    BY <2>1, LocksAlone
  <2>3. QED BY <1>0, <2>1, <2>2 DEF Lane, Lists, Checked, Of, InTx, Busy, Ranking, Statements
<1>9. QED BY <1>1, <1>2, <1>3, <1>4, <1>5, <1>6, <1>7, <1>8 DEF RankStep

(* From the decision or the refresh on, a request stays in its lane and    *)
(* lists nothing.                                                          *)
LEMMA RefreshLane ==
  ASSUME TxInv, TypeInv, NEW q \in Requests, InLane(q), RefreshStep(q)
  PROVE  Lane(q, pc'[q], work'[q], held'[q]) /\ Lists(q) /\ Checked(q)
<1> DEFINE w == work[q]
           v == work'[q]
<1>0. Lane(q, pc[q], w, held[q])
  BY DEF InLane
<1>1. CASE Fails(q)
  BY <1>1, FailsMoves, EndedLane DEF Ended
<1>2. ASSUME pc[q] \in {"rules", "grants", "rows", "delete", "insert"},
             pc'[q] \in {"grants", "rows", "delete", "insert", "commit"},
             held' = held \/ Locks(q), v.list = w.list, v.decided = w.decided
      PROVE  Lane(q, pc'[q], v, held'[q]) /\ Lists(q) /\ Checked(q)
  <2>1. held[q] \subseteq held'[q] /\ (~InTx(q) => held'[q] = {})
    BY <1>0, <1>2, LocksAlone, LocksAdd DEF Lane
  <2>2. QED BY <1>0, <1>2, <2>1 DEF Lane, Lists, Checked, Of, InTx, Busy, Ranking, Statements
<1>3. CASE ReadRules(q)
  BY <1>2, <1>3, ReadRulesMoves DEF Has
<1>4. CASE ReadGrants(q)
  BY <1>2, <1>4, ReadGrantsMoves DEF Has
<1>5. CASE ReadRows(q)
  <2>1. pc[q] = "rows" /\ pc'[q] = "delete" /\ held' = held /\ v.list = w.list /\ v.decided = w.decided
    BY <1>5, ReadRowsMoves, Zenon DEF Has
  <2>2. QED BY <1>2, <2>1
<1>6. CASE Delete(q)
  BY <1>2, <1>6, RefreshMoves
<1>7. CASE Insert(q) /\ ~Fails(q)
  <2>1. /\ pc[q] = "insert" /\ pc'[q] \in {"commit", "grants"} /\ v = w /\ Locks(q)
    BY <1>7, RefreshMoves
  <2>2. QED BY <1>2, <2>1
<1>8. QED BY <1>1, <1>3, <1>4, <1>5, <1>6, <1>7 DEF RefreshStep

LEMMA LaneStep ==
  ASSUME TxInv, TypeInv, NEW q \in Requests, InLane(q), Begin(q) \/ Proceed(q)
  PROVE  Lane(q, pc'[q], work'[q], held'[q]) /\ Lists(q) /\ Checked(q)
<1> DEFINE w == work[q]
           v == work'[q]
<1>0. Lane(q, pc[q], w, held[q]) /\ Placed(q, pc[q], w)
  BY Here DEF InLane
<1>1. CASE Begin(q)
  <2>1. /\ pc[q] = "ready" /\ v = NothingYet /\ held' = held
        /\ \/ Request[q].kind = "approve" /\ pc'[q] = "check"
           \/ Request[q].kind \in {"decide", "deny"} /\ pc'[q] = "decide"
           \/ Request[q].kind = "enroll" /\ pc'[q] = "append"
           \/ Request[q].kind \in {"expire", "reject"} /\ pc'[q] = "mark"
    BY <1>1, BeginMoves
  <2>2. v.list = <<>> /\ v.decided = {} /\ held'[q] = {}
    BY <1>0, <2>1, NothingHas DEF Has, Lane, Ranking
  <2>3. Lane(q, pc'[q], v, held'[q])
    BY <2>1, <2>2, EmptyInOrder DEF Lane, Of, Ranking, Statements
  <2>4. Lists(q) /\ Checked(q)
    BY <2>1, <2>2 DEF Lists, Checked, Of, Busy, Ranking
  <2>5. QED BY <2>3, <2>4
<1>2. CASE Decide(q)
  <2>1. /\ pc[q] = "decide" /\ Locks(q)
        /\ pc'[q] = IF Request[q].kind = "deny" THEN "commit" ELSE "rules"
        /\ Has(v, w.marked, w.active, w.list, w.ranked, w.old, w.fill,
               Undecided(Request[q].filing), w.todo, w.en, w.board, w.at)
    BY <1>2, DecideMoves
  <2>2. v.list = w.list /\ w.list = <<>> /\ Of(q, {"decide", "deny"})
    BY <1>0, <2>1 DEF Has, Lane, Placed, Of
  <2>3. Lane(q, pc'[q], v, held'[q])
    BY <1>0, <2>1, <2>2 DEF Lane, Of, InTx, Ranking, Statements
  <2>4. Lists(q) /\ Checked(q)
    BY <2>2 DEF Lists, Checked, Of
  <2>5. QED BY <2>3, <2>4
<1>3. CASE Apply(q)
  <2>1. pc[q] = "append" /\ pc'[q] = "rules" /\ v = w /\ held' = held
    BY <1>3, RefreshMoves
  <2>2. Of(q, {"enroll"})
    BY <1>0, <2>1 DEF Placed, Of
  <2>3. QED BY <1>0, <2>1, <2>2 DEF Lane, Lists, Checked, Of, InTx, Ranking, Statements
<1>4. CASE Commit(q)
  <2>1. pc'[q] = "done" /\ v = NothingYet /\ held' = [held EXCEPT ![q] = {}]
    BY <1>4, RefreshMoves
  <2>2. held'[q] = {}
    BY <2>1 DEF TxInv, Shape
  <2>3. QED BY <2>1, <2>2, EndedLane DEF Ended
<1>5. CASE Victim(q)
  BY <1>5, FailsMoves, EndedLane DEF Victim, Ended
<1>6. QED BY <1>1, <1>2, <1>3, <1>4, <1>5, RankLane, RefreshLane DEF Proceed

-----------------------------------------------------------------------------
(* What a step does to the rules, and what it cannot undo                  *)

(* Only a commit writes a status, that of its own rule.                    *)
LEMMA StatusMoves ==
  ASSUME TxInv, NEW q \in Requests, Begin(q) \/ Proceed(q)
  PROVE  \/ status' = status
         \/ /\ Commit(q) /\ InTx(q) /\ status' = SeesStatus(q)
            /\ \A r \in Rules \ {Own(q)} : status'[r] = status[r]
            /\ status'[Own(q)] # "PENDING" \/ status'[Own(q)] = status[Own(q)]
            /\ status'[Own(q)] = "ACTIVE" => Of(q, {"approve"}) \/ status[Own(q)] = "ACTIVE"
<1>1. Begin(q) \/ RankStep(q) \/ RefreshStep(q) \/ Decide(q) \/ Apply(q) \/ Victim(q) => status' = status
  BY DEF Begin, RankStep, RefreshStep, Check, Mark, Scan, Stamp, Clear, Clearing, Fill, Decide,
         Victim, Fails, ReadRules, ReadGrants, ReadRows, Delete, Insert, Apply, UnchangedTables, vars
<1>2. CASE Commit(q) /\ ~InTx(q)
  BY <1>2 DEF Commit, UnchangedTables, vars
<1>3. CASE Commit(q) /\ InTx(q)
  <2> DEFINE g == Goal(q)
  <2>1. status' = SeesStatus(q)
    BY <1>3 DEF Commit
  <2>2. \/ Request[q].kind = "approve" /\ g = "ACTIVE"
        \/ g = "EXPIRED"
        \/ g = "REJECTED"
    BY Zenon DEF Goal
  <2>3. status' = IF work[q].marked THEN [status EXCEPT ![Own(q)] = g] ELSE status
    BY <2>1 DEF SeesStatus, Own
  <2>4. status \in [Rules -> RuleStatus \cup {Absent}] /\ Own(q) \in Rules
    BY Here, RequestType DEF Own
  <2> HIDE DEF g
  <2>5. /\ \A r \in Rules \ {Own(q)} : status'[r] = status[r]
        /\ status'[Own(q)] = g \/ status'[Own(q)] = status[Own(q)]
    BY <2>3, <2>4
  <2>6. QED BY <1>3, <2>1, <2>2, <2>5 DEF Of
<1>4. QED BY <1>1, <1>2, <1>3 DEF Proceed

(* A rule is active and nobody has begun a request about it.               *)
Anchor(r) == r \in Active(status) /\ \A q \in Requests : Own(q) = r => pc[q] = "ready"

(* What has begun stays begun, so what holds as long as nobody begins such *)
(* a request held before; and nobody but its own requests ends a rule.     *)
LEMMA Backwards ==
  ASSUME TxInv, TypeInv, [TxNext]_txVars
  PROVE  /\ \A q \in Requests : pc'[q] = "ready" => pc[q] = "ready"
         /\ \A K \in SUBSET Kinds : Took(K) => Took(K)'
         /\ ApprovedOnce' => ApprovedOnce
         /\ \A r : Anchor(r)' => Anchor(r)
<1>1. ASSUME NEW q \in Requests, pc'[q] = "ready" PROVE pc[q] = "ready"
  <2>1. CASE UNCHANGED txVars
    BY <1>1, <2>1 DEF txVars
  <2>2. CASE Crash
    BY <1>1, <2>2, CrashMoves
  <2>3. ASSUME NEW p \in Requests, Begin(p) \/ Proceed(p) PROVE pc[q] = "ready"
    <3>1. CASE p # q
      BY <1>1, <2>3, <3>1, OthersStay
    <3>2. CASE p = q
      <4>1. pc'[p] # "ready"
        <5>1. Fails(p) \/ Begin(p) \/ Decide(p) \/ Victim(p) => pc'[p] # "ready"
          BY FailsMoves, BeginMoves, DecideMoves DEF Victim
        <5>2. ~Fails(p) /\ RankStep(p) => pc'[p] # "ready"
          BY CheckMoves, MarkMoves, ScanMoves, StampMoves, ClearMoves, ClearingMoves, FillMoves
             DEF RankStep
        <5>3. ~Fails(p) /\ RefreshStep(p) => pc'[p] # "ready"
          BY ReadRulesMoves, ReadGrantsMoves, ReadRowsMoves, RefreshMoves DEF RefreshStep
        <5>4. Apply(p) \/ Commit(p) => pc'[p] # "ready"
          BY RefreshMoves
        <5>5. QED BY <2>3, <5>1, <5>2, <5>3, <5>4 DEF Proceed
      <4>2. QED BY <1>1, <3>2, <4>1
    <3>3. QED BY <3>1, <3>2
  <2>4. QED BY <2>1, <2>2, <2>3 DEF TxNext
<1>2. \A K \in SUBSET Kinds : Took(K) => Took(K)'
  BY <1>1 DEF Took
<1>3. ApprovedOnce' => ApprovedOnce
  BY <1>1 DEF ApprovedOnce
<1>4. ASSUME NEW r, Anchor(r)' PROVE Anchor(r)
  <2>1. \A q \in Requests : Own(q) = r => pc[q] = "ready"
    BY <1>1, <1>4 DEF Anchor, Own
  <2>2. status'[r] = status[r]
    <3>1. CASE UNCHANGED txVars \/ Crash
      BY <3>1 DEF txVars, vars, Crash
    <3>2. ASSUME NEW q \in Requests, Begin(q) \/ Proceed(q) PROVE status'[r] = status[r]
      <4>1. r \in Rules
        BY <1>4 DEF Anchor, Active
      <4>2. Commit(q) => pc[q] # "ready"
        BY DEF Commit, At
      <4>3. Commit(q) => Own(q) # r
        BY <2>1, <4>2
      <4>4. QED BY <3>2, <4>1, <4>3, StatusMoves
    <3>3. QED BY <3>1, <3>2 DEF TxNext
  <2>3. QED BY <1>4, <2>1, <2>2 DEF Anchor, Active
<1>5. QED BY <1>1, <1>2, <1>3, <1>4

-----------------------------------------------------------------------------
(* What serialises the requests                                            *)

(* Every approval and expiry past its scan still lists the rule nobody is  *)
(* about, or has locked it: one of them at a time is past its stamps.      *)
Serial ==
  \A r : Anchor(r) =>
    \A q \in Requests : pc[q] \in Ranking /\ Of(q, {"approve", "expire"}) =>
      r \in Range(work[q].list) \/ RuleLock(r) \in held[q]

(* The other rules of a list were active when it was read, and no rule     *)
(* becomes pending again.                                                  *)
ListSettled ==
  \A q \in Requests : \A r \in Range(work[q].list) \ {Own(q)} : status[r] # "PENDING"

(* A rule is not active while it is being approved, ...                    *)
NotYet ==
  ApprovedOnce =>
    \A q \in Requests : Of(q, {"approve"}) /\ pc[q] \in Busy => status[Own(q)] # "ACTIVE"

(* ... so no other approval lists it.                                      *)
NotListed ==
  ApprovedOnce =>
    \A p, q \in Requests :
      p # q /\ Of(p, {"approve"}) /\ Of(q, {"approve"}) /\ pc[q] \in Busy =>
        Own(q) \notin Range(work[p].list)

LaneInv == (\A q \in Requests : InLane(q)) /\ Serial /\ ListSettled /\ NotYet /\ NotListed

LEMMA EmptyRange == Range(<<>>) = {}
<1>1. DOMAIN <<>> = {}
  BY EmptySeq
<1>2. QED BY <1>1 DEF Range

(* What the next list of q holds: nothing, less than before, or the rules  *)
(* q sees active.                                                          *)
LEMMA ListHolds ==
  ASSUME TxInv, TypeInv, NEW q \in Requests, InLane(q), Lists(q)
  PROVE  LET l == work[q].list
             m == work'[q].list
         IN  \/ /\ Range(m) = {}
                /\ pc'[q] \in Ranking /\ Of(q, {"approve", "expire"}) =>
                     pc[q] \in Ranking /\ Range(l) = {} /\ held[q] \subseteq held'[q]
             \/ pc[q] = "scan" /\ Range(m) = Active(SeesStatus(q))
             \/ /\ pc[q] = "stamp" /\ Range(l) = Range(m) \cup {Head(l)}
                /\ held[q] \subseteq held'[q] /\ RuleLock(Head(l)) \in held'[q]
<1> DEFINE l == work[q].list
           m == work'[q].list
<1>1. CASE pc[q] = "scan" /\ m \in Listed(Active(SeesStatus(q)))
  <2>1. Active(SeesStatus(q)) \subseteq Rules
    BY DEF Active
  <2>2. QED BY <1>1, <2>1, ListedInOrder
<1>2. CASE /\ pc[q] = "stamp" /\ m = Tail(l)
           /\ held[q] \subseteq held'[q] /\ RuleLock(Head(l)) \in held'[q]
  <2>1. l \in Seq(Rules) /\ l # <<>> /\ InOrder(l)
    BY <1>2 DEF InLane, Lane
  <2>2. QED BY <1>2, <2>1, RestInOrder
<1>3. QED BY <1>1, <1>2, EmptyRange DEF Lists

(* What q sees of a rule that is not its own is what is committed.         *)
LEMMA SeesOthers ==
  ASSUME TxInv, NEW q \in Requests, NEW r \in Rules, r # Own(q)
  PROVE  r \in Active(SeesStatus(q)) <=> r \in Active(status)
<1> DEFINE g == Goal(q)
<1>1. SeesStatus(q) = IF work[q].marked THEN [status EXCEPT ![Own(q)] = g] ELSE status
  BY DEF SeesStatus, Own
<1>2. status \in [Rules -> RuleStatus \cup {Absent}]
  BY Here
<1> HIDE DEF g
<1>3. QED BY <1>1, <1>2 DEF Active

LEMMA SerialStep ==
  ASSUME TxInv, TypeInv, LaneInv, NEW q \in Requests, Begin(q) \/ Proceed(q)
  PROVE  Serial'
<1> SUFFICES ASSUME NEW r, Anchor(r)', NEW p \in Requests, pc'[p] \in Ranking, Of(p, {"approve", "expire"})
             PROVE  r \in Range(work'[p].list) \/ RuleLock(r) \in held'[p]
  BY DEF Serial, Of
<1>1. Anchor(r) /\ r \in Rules
  BY Backwards DEF TxNext, Anchor, Active
<1>2. pc[p] \in Ranking => r \in Range(work[p].list) \/ RuleLock(r) \in held[p]
  BY <1>1 DEF LaneInv, Serial
<1>3. CASE p # q
  BY <1>2, <1>3, OthersStay
<1>4. CASE p = q
  <2>1. InLane(q) /\ Lists(q)
    BY LaneStep DEF LaneInv
  <2>2. CASE pc[q] = "scan"
    <3>1. Own(q) # r
      BY <1>1, <2>2 DEF Anchor
    <3>2. r \in Active(SeesStatus(q))
      BY <1>1, <3>1, SeesOthers DEF Anchor
    <3>3. QED BY <1>4, <2>1, <2>2, <3>2, ListHolds DEF Ranking
  <2>3. CASE pc[q] # "scan"
    BY <1>2, <1>4, <2>1, <2>3, ListHolds DEF Ranking
  <2>4. QED BY <2>2, <2>3
<1>5. QED BY <1>3, <1>4

LEMMA SettledStep ==
  ASSUME TxInv, TypeInv, LaneInv, NEW q \in Requests, Begin(q) \/ Proceed(q)
  PROVE  ListSettled'
<1> SUFFICES ASSUME NEW p \in Requests, NEW r \in Range(work'[p].list), r # Own(p)
             PROVE  status'[r] # "PENDING"
  BY DEF ListSettled, Own
<1>1. r \in Rules /\ status[r] # "PENDING"
  <2>1. InLane(p) /\ work[p].list \in Seq(Rules)
    BY DEF LaneInv, InLane, Lane
  <2>2. r \in Range(work[p].list) => r \in Rules /\ status[r] # "PENDING"
    BY <2>1 DEF LaneInv, ListSettled, Range
  <2>3. CASE p # q
    BY <2>2, <2>3, OthersStay
  <2>4. CASE p = q
    <3>1. Lists(q)
      BY LaneStep DEF LaneInv
    <3>2. CASE pc[q] = "scan" /\ r \in Active(SeesStatus(q))
      <4>1. r \in Rules
        BY <3>2 DEF Active
      <4>2. QED BY <2>4, <3>2, <4>1, SeesOthers DEF Active
    <3>3. QED BY <2>1, <2>2, <2>4, <3>1, <3>2, ListHolds
  <2>5. QED BY <2>3, <2>4
<1>2. QED BY <1>1, StatusMoves

LEMMA NotYetStep ==
  ASSUME TxInv, TypeInv, LaneInv, NEW q \in Requests, Begin(q) \/ Proceed(q)
  PROVE  NotYet'
<1> SUFFICES ASSUME ApprovedOnce', NEW p \in Requests, Of(p, {"approve"}), pc'[p] \in Busy
             PROVE  status'[Own(p)] # "ACTIVE"
  BY DEF NotYet, Of, Own
<1>0. ApprovedOnce /\ Own(p) \in Rules
  BY Backwards, RequestType DEF TxNext, Own
<1>1. pc[p] \in Busy => status[Own(p)] # "ACTIVE"
  BY <1>0 DEF LaneInv, NotYet
<1>2. CASE p # q
  <2>1. pc[p] = pc'[p] /\ status[Own(p)] # "ACTIVE"
    BY <1>1, <1>2, OthersStay
  <2>2. Commit(q) => pc[q] = "commit"
    BY DEF Commit, At
  <2>3. Commit(q) /\ Own(q) = Own(p) => ~Of(q, {"approve"})
    BY <1>0, <1>2, <2>1, <2>2 DEF ApprovedOnce, Own, Of, Busy, Ranking
  <2>4. QED BY <1>0, <2>1, <2>3, StatusMoves
<1>3. CASE p = q
  <2>1. Checked(q)
    BY LaneStep DEF LaneInv
  <2>2. status[Own(p)] # "ACTIVE"
    BY <1>1, <1>3, <2>1 DEF Checked
  <2>3. ~Commit(q)
    BY <1>3, RefreshMoves DEF Busy, Ranking
  <2>4. QED BY <2>2, <2>3, StatusMoves
<1>4. QED BY <1>2, <1>3

LEMMA NotListedStep ==
  ASSUME TxInv, TypeInv, LaneInv, NEW x \in Requests, Begin(x) \/ Proceed(x)
  PROVE  NotListed'
<1> SUFFICES ASSUME ApprovedOnce', NEW p \in Requests, NEW q \in Requests, p # q,
                    Of(p, {"approve"}), Of(q, {"approve"}), pc'[q] \in Busy,
                    Own(q) \in Range(work'[p].list)
             PROVE  FALSE
  BY DEF NotListed, Of, Own
<1>0. ApprovedOnce /\ Own(q) \in Rules
  BY Backwards, RequestType DEF TxNext, Own
<1>1. pc'[p] = "stamp"
  <2>1. Lane(p, pc'[p], work'[p], held'[p])
    <3>1. CASE p = x
      BY <3>1, LaneStep DEF LaneInv
    <3>2. CASE p # x
      BY <3>2, OthersStay DEF LaneInv, InLane
    <3>3. QED BY <3>1, <3>2
  <2>2. work'[p].list # <<>>
    BY EmptyRange
  <2>3. QED BY <2>1, <2>2 DEF Lane
<1>2. Own(p) # Own(q)
  BY <1>1 DEF ApprovedOnce, Own, Of, Busy, Ranking
<1>3. pc[q] \in Busy => Own(q) \notin Range(work[p].list)
  BY <1>0 DEF LaneInv, NotListed
<1>4. CASE p # x
  <2>1. Own(q) \in Range(work[p].list)
    BY <1>4, OthersStay
  <2>2. status[Own(q)] # "PENDING"
    BY <1>2, <2>1 DEF LaneInv, ListSettled
  <2>3. pc[q] \in Busy
    <3>1. CASE q = x
      BY <2>2, <3>1, LaneStep DEF LaneInv, Checked
    <3>2. CASE q # x
      BY <3>2, OthersStay
    <3>3. QED BY <3>1, <3>2
  <2>4. QED BY <1>3, <2>1, <2>3
<1>5. CASE p = x
  <2>1. pc[q] \in Busy
    BY <1>5, OthersStay
  <2>2. status[Own(q)] # "ACTIVE"
    BY <1>0, <2>1 DEF LaneInv, NotYet
  <2>3. Own(q) \notin Active(SeesStatus(p))
    BY <1>0, <1>2, <2>2, SeesOthers DEF Active
  <2>4. InLane(p) /\ Lists(p)
    BY <1>5, LaneStep DEF LaneInv
  <2>5. QED BY <1>3, <2>1, <2>3, <2>4, ListHolds
<1>6. QED BY <1>4, <1>5

LEMMA LaneInvStep ==
  ASSUME TxInv, TypeInv, LaneInv, [TxNext]_txVars
  PROVE  LaneInv'
<1>1. CASE UNCHANGED txVars
  <2>1. pc' = pc /\ work' = work /\ held' = held /\ status' = status
    BY <1>1 DEF txVars, vars
  <2>2. Serial' /\ ListSettled' /\ NotYet' /\ NotListed'
    BY <2>1 DEF LaneInv, Serial, Anchor, Active, ListSettled, NotYet, NotListed, ApprovedOnce,
                Own, Of, RuleLock
  <2>3. QED BY <2>1, <2>2 DEF LaneInv, InLane
<1>2. CASE Crash
  <2>1. \A q \in Requests : /\ pc'[q] \notin Statements /\ work'[q] = NothingYet /\ held'[q] = {}
                            /\ Range(work'[q].list) = {}
    BY <1>2, CrashMoves, NothingHas, EmptyRange DEF Has, Statements
  <2>2. \A q \in Requests : Lane(q, pc'[q], NothingYet, {})
    BY <2>1, NothingHas, EmptyInOrder DEF Has, Lane, Ranking, Statements
  <2>3. \A q \in Requests : pc'[q] \notin Busy
    BY <2>1 DEF Busy, Ranking, Statements
  <2>4. QED BY <2>1, <2>2, <2>3 DEF LaneInv, InLane, Serial, ListSettled, NotYet, NotListed, Busy
<1>3. ASSUME NEW q \in Requests, Begin(q) \/ Proceed(q) PROVE LaneInv'
  <2>1. ASSUME NEW p \in Requests PROVE InLane(p)'
    <3>1. CASE p = q
      BY <1>3, <3>1, LaneStep DEF LaneInv, InLane
    <3>2. CASE p # q
      BY <1>3, <3>2, OthersStay DEF LaneInv, InLane
    <3>3. QED BY <3>1, <3>2
  <2>2. QED BY <1>3, <2>1, SerialStep, SettledStep, NotYetStep, NotListedStep DEF LaneInv
<1>4. QED BY <1>1, <1>2, <1>3 DEF TxNext

LEMMA LaneInvInit == TxInit => LaneInv
<1> SUFFICES ASSUME TxInit PROVE LaneInv
  OBVIOUS
<1>1. \A q \in Requests : pc[q] = "ready" /\ work[q] = NothingYet /\ held[q] = {}
  BY DEF TxInit
<1>2. \A q \in Requests : Range(work[q].list) = {} /\ Lane(q, "ready", NothingYet, {})
  BY <1>1, NothingHas, EmptyRange, EmptyInOrder DEF Has, Lane, Ranking, Statements
<1>3. QED BY <1>1, <1>2 DEF LaneInv, InLane, Serial, ListSettled, NotYet, NotListed, Busy, Ranking

-----------------------------------------------------------------------------
(* No circle of approvals                                                  *)

(* A request that waits is about to write.                                 *)
LEMMA Waiting ==
  ASSUME NEW q, Needs(q) # {}
  PROVE  pc[q] \in {"mark", "stamp", "clearing", "fill", "decide", "delete", "insert"}
<1> SUFFICES ASSUME pc[q] \notin {"mark", "stamp", "clearing", "fill", "decide", "delete", "insert"}
             PROVE  Needs(q) = {}
  OBVIOUS
<1>1. /\ pc[q] # "mark" /\ pc[q] # "stamp" /\ pc[q] # "clearing" /\ pc[q] # "fill"
      /\ pc[q] # "decide" /\ pc[q] # "delete" /\ pc[q] # "insert"
  OBVIOUS
<1>2. QED BY <1>1, Zenon DEF Needs

(* What is locked past the stamps is not a rule.                           *)
LEMMA LateNeeds ==
  ASSUME NEW q, pc[q] \in {"clearing", "fill", "delete", "insert"}
  PROVE  \A r : RuleLock(r) \notin Needs(q)
<1>1. CASE pc[q] = "clearing"
  BY <1>1 DEF Needs, IndexLocks, RuleLock
<1>2. CASE pc[q] = "fill"
  BY <1>2 DEF Needs, IndexLocks, RuleLock
<1>3. CASE pc[q] = "delete"
  BY <1>3 DEF Needs, RowLocks, RuleLock
<1>4. CASE pc[q] = "insert"
  BY <1>4 DEF Needs, RowLocks, RuleLock
<1>5. QED BY <1>1, <1>2, <1>3, <1>4

(* A circle would consist of approvals that stamp: only they hold locks    *)
(* while they wait, for one past its stamps there is no second one to wait *)
(* for.  Each waits for one that is further in the list of rules, and the  *)
(* rule nobody is about bounds how far that is.                            *)
LEMMA NeverStuck ==
  ASSUME TxInv, TypeInv, LaneInv, Anchored, ApprovedOnce, ~Took({"expire", "decide"}),
         NEW S \in SUBSET Open, Stuck(S)
  PROVE  FALSE
<1>1. PICK r0 \in Rules : Anchor(r0)
  BY DEF Anchored, Anchor, Active, Own
<1>2. ASSUME NEW q \in S
      PROVE  /\ q \in Requests /\ InLane(q) /\ pc[q] \in Statements
             /\ Of(q, {"approve", "reject", "deny", "enroll"})
  <2>1. q \in Requests /\ pc[q] \in Statements
    BY DEF Open
  <2>2. Request[q].kind \in Kinds /\ pc[q] # "ready"
    BY <2>1, RequestType DEF Statements
  <2>3. Request[q].kind \notin {"expire", "decide"}
    BY <2>1, <2>2 DEF Took
  <2>4. QED BY <2>1, <2>2, <2>3 DEF LaneInv, Of, Kinds
<1>3. \A p \in S : \E q \in S : WaitsFor(p, q)
  BY DEF Stuck
<1>4. \A q \in S : pc[q] \in {"mark", "stamp", "clearing", "fill", "decide", "delete", "insert"}
  BY <1>3, Waiting DEF WaitsFor
<1>5. ASSUME NEW q \in S, held[q] # {}
      PROVE  Of(q, {"approve"}) /\ pc[q] \in {"stamp", "clearing", "fill", "delete", "insert"}
  BY <1>2, <1>4, <1>5 DEF InLane, Lane, Of, InTx, Ranking
<1>6. ASSUME NEW q \in S, held[q] # {}, pc[q] # "stamp"
      PROVE  RuleLock(r0) \in held[q]
  <2>1. pc[q] \in Ranking /\ Of(q, {"approve", "expire"})
    BY <1>5, <1>6 DEF Ranking, Of
  <2>2. work[q].list = <<>>
    BY <1>2, <1>6 DEF InLane, Lane
  <2>3. QED BY <1>1, <1>2, <2>1, <2>2, EmptyRange DEF LaneInv, Serial
<1>7. ASSUME NEW p \in S, NEW q \in S, p # q PROVE held[p] \cap held[q] = {}
  BY <1>2, <1>7 DEF TxInv, DecidesAlone
<1>8. ASSUME NEW q \in S, held[q] # {}, pc[q] # "stamp"
      PROVE  FALSE
  <2>1. PICK q2 \in S : WaitsFor(q, q2)
    BY <1>3
  <2>2. q # q2 /\ held[q2] # {} /\ Needs(q) \cap held[q2] # {}
    BY <2>1 DEF WaitsFor
  <2>3. pc[q] \in {"clearing", "fill", "delete", "insert"}
    BY <1>5, <1>8
  <2>4. pc[q2] # "stamp"
    <3>1. ASSUME pc[q2] = "stamp" PROVE Ahead(q2, work[q2].list, held[q2])
      BY <1>2, <3>1 DEF InLane, Lane
    <3>2. QED BY <2>2, <2>3, <3>1, LateNeeds DEF Ahead
  <2>5. RuleLock(r0) \in held[q] /\ RuleLock(r0) \in held[q2]
    BY <1>6, <1>8, <2>2, <2>4
  <2>6. QED BY <1>7, <2>2, <2>5
<1> DEFINE W == {q \in S : held[q] # {}}
           head(q) == Head(work[q].list)
           ord(q) == Rule[head(q)].ord
<1>9. \A r \in Rules : Rule[r].ord \in Nat
  BY PolicyAssumption DEF RuleRecord
<1>10. ASSUME NEW q \in W
       PROVE  /\ q \in Requests /\ q \in S /\ Of(q, {"approve"}) /\ pc[q] = "stamp"
              /\ Ahead(q, work[q].list, held[q])
              /\ work[q].list \in Seq(Rules) /\ work[q].list # <<>> /\ InOrder(work[q].list)
              /\ head(q) \in Rules /\ ord(q) \in Nat
  <2>1. q \in S /\ q \in Requests /\ Of(q, {"approve"}) /\ pc[q] = "stamp"
    BY <1>2, <1>5, <1>8, <1>10
  <2>2. /\ Ahead(q, work[q].list, held[q])
        /\ work[q].list \in Seq(Rules) /\ work[q].list # <<>> /\ InOrder(work[q].list)
    BY <1>2, <2>1 DEF InLane, Lane
  <2>3. head(q) \in Rules
    BY <2>2, RestInOrder
  <2>4. QED BY <1>9, <2>1, <2>2, <2>3
<1>11. ASSUME NEW q \in W
       PROVE  /\ \A r \in Range(work[q].list) : ord(q) <= Rule[r].ord
              /\ head(q) \in Range(work[q].list)
  <2> DEFINE l == work[q].list
             t == Tail(l)
  <2>1. Range(l) = Range(t) \cup {Head(l)} /\ \A i \in DOMAIN t : Rule[Head(l)].ord < Rule[t[i]].ord
    BY <1>10, RestInOrder
  <2>2. t \in Seq(Rules)
    BY <1>10, RestInOrder
  <2>3. ord(q) \in Nat /\ \A i \in DOMAIN t : Rule[t[i]].ord \in Nat
    BY <1>9, <1>10, <2>2
  <2> HIDE DEF t, l
  <2>4. ASSUME NEW r \in Range(t) PROVE Rule[Head(l)].ord < Rule[r].ord /\ Rule[r].ord \in Nat
    BY <2>1, <2>3 DEF Range
  <2>5. QED BY <2>1, <2>3, <2>4 DEF l
<1>12. ASSUME NEW p \in W
       PROVE  \E q \in W : p # q /\ ord(p) < ord(q)
  <2>1. PICK q \in S : WaitsFor(p, q)
    BY <1>3, <1>10
  <2>2. q \in W /\ p # q /\ RuleLock(head(p)) \in held[q]
    BY <1>10, <2>1 DEF WaitsFor, Needs
  <2>3. PICK r \in Rules :
          /\ RuleLock(head(p)) = RuleLock(r)
          /\ r = Own(q) \/ \A i \in DOMAIN work[q].list : Rule[r].ord < Rule[work[q].list[i]].ord
    BY <1>10, <2>2 DEF Ahead
  <2>4. r = head(p)
    BY <2>3 DEF RuleLock
  <2>5. head(p) # Own(q)
    <3>1. Own(q) \notin Range(work[p].list)
      BY <1>10, <2>2 DEF LaneInv, NotListed, Busy, Ranking
    <3>2. QED BY <1>11, <3>1
  <2>6. ord(p) < ord(q)
    BY <1>11, <2>2, <2>3, <2>4, <2>5 DEF Range
  <2>7. QED BY <2>2, <2>6
<1>13. ASSUME NEW q \in W PROVE ord(q) <= Rule[r0].ord
  <2>1. \A p \in W : r0 \in Range(work[p].list) \/ RuleLock(r0) \in held[p]
    BY <1>1, <1>10 DEF LaneInv, Serial, Ranking, Of
  <2>2. CASE r0 \in Range(work[q].list)
    BY <1>11, <2>2
  <2>3. CASE RuleLock(r0) \in held[q]
    <3>1. PICK p \in W : p # q /\ ord(q) < ord(p)
      BY <1>12
    <3>2. RuleLock(r0) \notin held[p]
      BY <1>7, <1>10, <2>3, <3>1
    <3>3. ord(p) <= Rule[r0].ord
      BY <1>11, <2>1, <3>2
    <3>4. QED BY <1>9, <1>10, <3>1, <3>3
  <2>4. QED BY <2>1, <2>2, <2>3
<1>14. W # {}
  <2>1. PICK p \in S : TRUE
    BY DEF Stuck
  <2>2. PICK q \in S : WaitsFor(p, q)
    BY <1>3
  <2>3. QED BY <2>2 DEF WaitsFor
<1> DEFINE f == [q \in W |-> Rule[r0].ord - ord(q)]
<1> HIDE DEF W, ord, head
<1>15. \A q \in W : f[q] \in Nat
  BY <1>9, <1>10, <1>13
<1>16. PICK q \in W : \A p \in W : f[q] <= f[p]
  <2> HIDE DEF f
  <2>1. QED BY <1>14, <1>15, LeastOf
<1>17. PICK p \in W : ord(q) < ord(p)
  BY <1>12
<1>18. QED BY <1>9, <1>10, <1>16, <1>17

(* As long as some rule stays active that nobody is about, approvals of    *)
(* different rules, rejections, denials and applications never wait for    *)
(* each other in a circle: PostgreSQL never has to abort one of them.      *)
THEOREM ApprovalsDoNotDeadlock == TxSpec => []ApprovalsNeverDeadlock
<1>1. TxInv /\ TypeInv /\ LaneInv => ApprovalsNeverDeadlock
  BY NeverStuck DEF ApprovalsNeverDeadlock
<1>2. TxInv /\ TypeInv /\ LaneInv /\ [TxNext]_txVars => TxInv' /\ TypeInv' /\ LaneInv'
  BY TxStep, TypeInvStep, LaneInvStep
<1>3. QED BY <1>1, <1>2, TxInitOk, TypeInvInit, LaneInvInit, PTL DEF TxSpec

-----------------------------------------------------------------------------
(* Boards                                                                  *)

(* Between reading the rules and its commit a request works on boards.     *)
Boarding == {"grants", "rows", "delete", "insert", "commit"}

Blank(b) == b.have = {} /\ b.want = {}

(* The board a request writes: from the committed rows to what the rules   *)
(* it sees call for.                                                       *)
Derives(q, a) ==
  /\ work[q].board[a].have = Rows(a)
  /\ \E ord \in Orders : work[q].board[a].want = Expected(SeesStatus(q), enroll, ord, a, today)

(* What a request has in hand while it works on boards is what it would    *)
(* still read: nothing it has read is stale.                               *)
InHand(q) ==
  LET w == work[q]
  IN  /\ w.active = Active(SeesStatus(q)) /\ w.todo \subseteq Refreshed(q)
      /\ pc[q] = "rows" => w.en = enroll
      /\ pc[q] = "commit" => w.todo = {}
      /\ pc[q] \in {"rows", "delete", "insert"} => w.at \in Refreshed(q) /\ w.at \notin w.todo
      /\ \A a \in Refreshed(q) : a \in w.todo \/ Derives(q, a) \/ (pc[q] = "rows" /\ a = w.at)
      /\ \A a \in Accounts \ Refreshed(q) : Blank(w.board[a])

Derived(q) ==
  IF pc[q] \in Boarding THEN InHand(q) ELSE \A a \in Accounts : Blank(work[q].board[a])

(* Some rule stays active, and only approvals and expiries have begun.     *)
Calm == Anchored /\ ~Took({"reject", "decide", "deny", "enroll"})

BoardInv ==
  Calm => (\A a \in Accounts : Fresh(a)) /\ \A q \in Requests : Derived(q)

LEMMA NothingBlank ==
  \A a \in Accounts : Blank(NothingYet.board[a])
BY DEF NothingYet, Blank

(* The rows called for depend on the active rules, not on how the other    *)
(* rules stand.                                                            *)
LEMMA ActiveExpected ==
  ASSUME NEW st, NEW S, S = Active(st), NEW en, Table(en), NEW ord \in Orders,
         NEW a \in Accounts, NEW d
  PROVE  Expected(Only(S), en, ord, a, d) = Expected(st, en, ord, a, d)
<1>1. SameStanding(en, en, a)
  BY DEF SameStanding
<1>2. SameRules(st, Only(S), a)
  BY DEF SameRules, Active, Only, Absent
<1>3. QED BY <1>1, <1>2, SameExpected

LEMMA CalmBefore ==
  ASSUME TxInv, TypeInv, [TxNext]_txVars, Calm'
  PROVE  Calm
<1>1. \E r : Anchor(r)'
  BY DEF Calm, Anchored, Anchor, Own
<1>2. Anchored
  BY <1>1, Backwards DEF Anchored, Anchor, Own
<1>3. {"reject", "decide", "deny", "enroll"} \in SUBSET Kinds
  BY DEF Kinds
<1>4. Took({"reject", "decide", "deny", "enroll"}) => Took({"reject", "decide", "deny", "enroll"})'
  BY <1>3, Backwards
<1>5. QED BY <1>2, <1>4 DEF Calm

LEMMA CalmKinds ==
  ASSUME Calm, NEW q \in Requests, pc[q] # "ready"
  PROVE  Of(q, {"approve", "expire"}) /\ InTx(q) /\ Refreshed(q) = AccountsForRule(Own(q))
<1>1. Of(q, {"approve", "expire"})
  BY RequestType DEF Calm, Took, Of, Kinds
<1>2. Refreshed(q) = AccountsForRule(Own(q))
  <2>1. Request[q].kind # "decide" /\ Request[q].kind # "enroll"
    BY <1>1 DEF Of
  <2>2. QED BY <2>1, Zenon DEF Refreshed, Own
<1>3. QED BY <1>1, <1>2 DEF Of, InTx

(* Two requests never work on boards at once.                              *)
LEMMA OneBoards ==
  ASSUME TxInv, LaneInv, Calm, NEW p \in Requests, NEW q \in Requests,
         pc[p] \in Boarding, pc[q] \in Boarding
  PROVE  p = q
<1>1. PICK r \in Rules : Anchor(r)
  BY DEF Calm, Anchored, Anchor, Active, Own
<1>2. ASSUME NEW x \in Requests, pc[x] \in Boarding PROVE RuleLock(r) \in held[x]
  <2>1. Of(x, {"approve", "expire"}) /\ pc[x] \in Ranking /\ pc[x] # "stamp"
    BY <1>2, CalmKinds DEF Boarding, Ranking
  <2>2. work[x].list = <<>>
    BY <2>1 DEF LaneInv, InLane, Lane
  <2>3. QED BY <1>1, <2>1, <2>2, EmptyRange DEF LaneInv, Serial
<1>3. RuleLock(r) \in held[p] /\ RuleLock(r) \in held[q]
  BY <1>2
<1>4. QED BY <1>3 DEF TxInv, DecidesAlone

(* A transaction that has not decided anything sees the enrollments.       *)
LEMMA SeesTable ==
  ASSUME TxInv, LaneInv, NEW q \in Requests, Of(q, {"approve", "expire"})
  PROVE  SeesEnroll(q) = enroll
<1>1. work[q].decided = {}
  BY DEF LaneInv, InLane, Lane, Of
<1>2. enroll \in Seq(Enrollment)
  BY DEF TxInv, Shape
<1>3. SeesEnroll(q) = [i \in DOMAIN enroll |-> enroll[i]]
  BY <1>1 DEF SeesEnroll
<1>4. QED BY <1>2, <1>3

(* Until it commits, a transaction leaves what boards are derived from.    *)
LEMMA TablesStay ==
  ASSUME TxInv, NEW q \in Requests, InTx(q), Begin(q) \/ Proceed(q), ~Commit(q)
  PROVE  today' = today /\ status' = status /\ enroll' = enroll /\ binding' = binding
<1>1. Begin(q) \/ RankStep(q) \/ Decide(q) \/ Victim(q) => UnchangedTables
  BY DEF Begin, RankStep, Check, Mark, Scan, Stamp, Clear, Clearing, Fill, Decide, Victim, Fails
<1>2. RefreshStep(q) => today' = today /\ status' = status /\ enroll' = enroll /\ binding' = binding
  BY DEF RefreshStep, ReadRules, ReadGrants, ReadRows, Delete, Insert, Fails, UnchangedTables, vars
<1>3. ~Apply(q)
  BY Here DEF Apply, At, Placed, InTx
<1>4. QED BY <1>1, <1>2, <1>3 DEF Proceed, UnchangedTables, vars

(* What a request sees does not change with the steps in which nothing     *)
(* commits and it marks nothing.                                           *)
LEMMA SeesSame ==
  ASSUME NEW q, status' = status, work'[q].marked = work[q].marked
  PROVE  SeesStatus(q)' = SeesStatus(q)
BY DEF SeesStatus, Goal

LEMMA DerivesSame ==
  ASSUME NEW q, NEW a, today' = today, status' = status, enroll' = enroll, binding' = binding,
         work'[q].marked = work[q].marked, work'[q].board[a] = work[q].board[a], Derives(q, a)
  PROVE  Derives(q, a)'
BY SeesSame DEF Derives, Rows

LEMMA RefreshedSame ==
  ASSUME TxInv, TypeInv, LaneInv, Calm, NEW q \in Requests, pc[q] # "ready"
  PROVE  Refreshed(q)' = Refreshed(q)
<1>1. Request[q].kind # "decide" /\ Request[q].kind # "enroll"
  BY CalmKinds DEF Of
<1>2. Refreshed(q) = AccountsForRule(Own(q))
  BY CalmKinds
<1>3. Refreshed(q)' = AccountsForRule(Own(q))
  BY <1>1, Zenon DEF Refreshed, Own
<1>4. QED BY <1>2, <1>3

(* Up to its refresh a request has no board in hand.                       *)
LEMMA RankDerived ==
  ASSUME TxInv, TypeInv, LaneInv, Calm, NEW q \in Requests, Derived(q), RankStep(q), pc[q] # "ready"
  PROVE  Derived(q)'
<1> DEFINE w == work[q]
           v == work'[q]
<1>1. CASE Fails(q)
  BY <1>1, FailsMoves, NothingBlank DEF Derived, Boarding
<1>2. CASE ~Fails(q)
  <2>1. pc[q] \notin Boarding
    BY <1>2, CheckMoves, MarkMoves, ScanMoves, StampMoves, ClearMoves, ClearingMoves, FillMoves
       DEF RankStep, Boarding
  <2>2. v.board = w.board
    <3>1. CASE Check(q) \/ Fill(q)
      BY <1>2, <3>1, CheckMoves, FillMoves
    <3>2. CASE Mark(q)
      BY <3>2, MarkMoves DEF Has
    <3>3. CASE Scan(q)
      BY <3>3, ScanMoves DEF Has
    <3>4. CASE Stamp(q)
      BY <3>4, StampMoves DEF Has
    <3>5. CASE Clear(q)
      BY <3>5, ClearMoves DEF Has
    <3>6. CASE Clearing(q)
      BY <3>6, ClearingMoves DEF Has
    <3>7. QED BY <3>1, <3>2, <3>3, <3>4, <3>5, <3>6 DEF RankStep
  <2>3. pc'[q] \notin Boarding
    <3>1. Request[q].kind # "reject"
      BY CalmKinds DEF Of
    <3>2. QED BY <1>2, <3>1, CheckMoves, MarkMoves, ScanMoves, StampMoves, ClearMoves, ClearingMoves,
                 FillMoves DEF RankStep, Boarding
  <2>4. QED BY <2>1, <2>2, <2>3 DEF Derived
<1>3. QED BY <1>1, <1>2

LEMMA RefreshDerived ==
  ASSUME TxInv, TypeInv, LaneInv, Calm, NEW q \in Requests, Derived(q), RefreshStep(q), pc[q] # "ready"
  PROVE  Derived(q)'
<1> DEFINE w == work[q]
           v == work'[q]
<1>0. /\ today' = today /\ status' = status /\ enroll' = enroll /\ binding' = binding
      /\ Refreshed(q)' = Refreshed(q) /\ Refreshed(q) \subseteq Accounts
      /\ Typed(pc[q], w) /\ SeesEnroll(q) = enroll /\ Table(enroll)
  <2>1. InTx(q) /\ Of(q, {"approve", "expire"}) /\ Refreshed(q) \subseteq Accounts
    BY CalmKinds DEF AccountsForRule, OpenedGroup
  <2>2. today' = today /\ status' = status /\ enroll' = enroll /\ binding' = binding
    BY <2>1 DEF RefreshStep, ReadRules, ReadGrants, ReadRows, Delete, Insert, Fails, UnchangedTables,
                vars
  <2>3. QED BY <2>1, <2>2, SeesTable, RefreshedSame DEF TypeInv, TypeOK, Table
<1>1. CASE Fails(q)
  BY <1>1, FailsMoves, NothingBlank DEF Derived, Boarding
<1>2. CASE ReadRules(q)
  <2>1. /\ pc[q] = "rules" /\ pc'[q] = IF Refreshed(q) = {} THEN "commit" ELSE "grants"
        /\ v.marked = w.marked /\ v.active = Active(SeesStatus(q)) /\ v.todo = Refreshed(q)
        /\ v.board = w.board
    BY <1>2, ReadRulesMoves DEF Has
  <2>2. \A a \in Accounts : Blank(w.board[a])
    BY <2>1 DEF Derived, Boarding
  <2>3. v.active = Active(SeesStatus(q)')
    BY <1>0, <2>1, SeesSame
  <2>4. InHand(q)'
    BY <1>0, <2>1, <2>2, <2>3 DEF InHand
  <2>5. QED BY <2>1, <2>4 DEF Derived, Boarding
<1>3. CASE ReadGrants(q)
  <2>1. /\ pc[q] = "grants" /\ pc'[q] = "rows" /\ v.at \in w.todo
        /\ v.marked = w.marked /\ v.active = w.active /\ v.todo = w.todo \ {v.at}
        /\ v.en = SeesEnroll(q) /\ v.board = w.board
    BY <1>3, ReadGrantsMoves DEF Has
  <2>2. InHand(q)
    BY <2>1 DEF Derived, Boarding
  <2>3. v.active = Active(SeesStatus(q)')
    BY <1>0, <2>1, <2>2, SeesSame DEF InHand
  <2>4. \A a \in Refreshed(q) : a \in v.todo \/ Derives(q, a)' \/ a = v.at
    BY <1>0, <2>1, <2>2, DerivesSame DEF InHand
  <2>5. v.at \in Refreshed(q)
    BY <2>1, <2>2 DEF InHand
  <2>6. InHand(q)'
    BY <1>0, <2>1, <2>2, <2>3, <2>4, <2>5 DEF InHand
  <2>7. QED BY <2>1, <2>6 DEF Derived, Boarding
<1>4. CASE ReadRows(q)
  <2> DEFINE want(ord) == Expected(Only(w.active), w.en, ord, w.at, today)
  <2>1. PICK ord \in Orders :
          Has(v, w.marked, w.active, w.list, w.ranked, w.old, w.fill, w.decided, w.todo, w.en,
              [w.board EXCEPT ![w.at] = [have |-> Rows(w.at), want |-> want(ord)]], w.at)
    BY <1>4, ReadRowsMoves
  <2>2. /\ pc[q] = "rows" /\ pc'[q] = "delete"
        /\ v.marked = w.marked /\ v.active = w.active /\ v.todo = w.todo /\ v.en = w.en /\ v.at = w.at
        /\ v.board = [w.board EXCEPT ![w.at] = [have |-> Rows(w.at), want |-> want(ord)]]
    BY <1>4, <2>1, ReadRowsMoves DEF Has
  <2>3. InHand(q)
    BY <2>2 DEF Derived, Boarding
  <2>4. /\ w.active = Active(SeesStatus(q)) /\ w.en = enroll /\ w.at \in Accounts
        /\ w.at \in Refreshed(q) /\ w.at \notin w.todo /\ w.todo \subseteq Refreshed(q)
    BY <1>0, <2>2, <2>3 DEF InHand
  <2>5. want(ord) = Expected(SeesStatus(q), enroll, ord, w.at, today)
    BY <1>0, <2>4, ActiveExpected
  <2> HIDE DEF want
  <2>6. /\ v.board[w.at].have = Rows(w.at) /\ v.board[w.at].want = want(ord)
        /\ \A a \in Accounts \ {w.at} : v.board[a] = w.board[a]
    BY <1>0, <2>2, <2>4 DEF Typed
  <2>7. ASSUME NEW a, a = w.at PROVE Derives(q, a)'
    <3>1. Rows(a)' = Rows(a) /\ SeesStatus(q)' = SeesStatus(q)
      BY <1>0, <2>2, SeesSame DEF Rows
    <3>2. v.board[a].have = Rows(a)' /\ v.board[a].want = want(ord)
      BY <2>6, <2>7, <3>1
    <3>3. want(ord) = Expected(SeesStatus(q), enroll, ord, a, today)
      BY <2>5, <2>7
    <3>4. want(ord) = Expected(SeesStatus(q)', enroll', ord, a, today')
      BY <1>0, <3>1, <3>3
    <3>5. QED BY <3>2, <3>4 DEF Derives
  <2>8. v.active = Active(SeesStatus(q)')
    BY <1>0, <2>2, <2>4, SeesSame
  <2>9. \A a \in Refreshed(q) : a \in v.todo \/ Derives(q, a)'
    <3>1. ASSUME NEW a \in Refreshed(q), a # w.at PROVE a \in v.todo \/ Derives(q, a)'
      <4>1. a \in w.todo \/ Derives(q, a)
        BY <2>3, <3>1 DEF InHand
      <4>2. v.board[a] = w.board[a]
        BY <1>0, <2>6, <3>1
      <4>3. QED BY <1>0, <2>2, <4>1, <4>2, DerivesSame
    <3>2. QED BY <2>7, <3>1
  <2>10. \A a \in Accounts \ Refreshed(q) : Blank(v.board[a])
    BY <2>3, <2>4, <2>6 DEF InHand
  <2>11. InHand(q)'
    BY <1>0, <2>2, <2>4, <2>8, <2>9, <2>10 DEF InHand
  <2>12. QED BY <2>2, <2>11 DEF Derived, Boarding
<1>5. ASSUME pc[q] \in {"delete", "insert"}, v = w,
             \/ pc'[q] = "insert" /\ pc[q] = "delete"
             \/ pc'[q] = "grants"
             \/ pc'[q] = "commit" /\ w.todo = {}
      PROVE  Derived(q)'
  <2>1. InHand(q)
    BY <1>5 DEF Derived, Boarding
  <2>2. w.active = Active(SeesStatus(q)')
    BY <1>0, <1>5, <2>1, SeesSame DEF InHand
  <2>3. \A a \in Refreshed(q) : a \in w.todo \/ Derives(q, a)'
    BY <1>0, <1>5, <2>1, DerivesSame DEF InHand
  <2>4. InHand(q)'
    BY <1>0, <1>5, <2>1, <2>2, <2>3 DEF InHand
  <2>5. QED BY <1>5, <2>4 DEF Derived, Boarding
<1>6. CASE Delete(q)
  BY <1>5, <1>6, RefreshMoves
<1>7. CASE Insert(q) /\ ~Fails(q)
  <2>1. /\ pc[q] = "insert" /\ pc'[q] = IF w.todo = {} THEN "commit" ELSE "grants"
        /\ v = w
    BY <1>7, RefreshMoves
  <2>2. QED BY <1>5, <2>1
<1>8. QED BY <1>1, <1>2, <1>3, <1>4, <1>6, <1>7 DEF RefreshStep

(* A commit replaces the rows of every account by what the transaction     *)
(* wants there: deletes go by key, but an account's rows are of as many    *)
(* cells as they are rows.                                                 *)
LEMMA CommitRows ==
  ASSUME TxInv, TypeInv, NEW q \in Requests, Commit(q), InTx(q), NEW a \in Accounts,
         \A v, w \in Rows(a) : v.cell = w.cell => v = w
  PROVE  LET b == work[q].board[a]
         IN  /\ Blank(b) => Rows(a)' = Rows(a)
             /\ b.have = Rows(a) => Rows(a)' = WriteBoard(Rows(a), b.want)
<1> DEFINE board == work[q].board
           b == board[a]
           gone == UNION {Gone(board[x]) : x \in Accounts}
           new == UNION {New(board[x]) : x \in Accounts}
<1>1. binding' = Without(binding, gone) \cup new
  BY DEF Commit
<1>2. ASSUME NEW x \in Accounts
      PROVE  Gone(board[x]) \subseteq AccountRows(x) /\ New(board[x]) \subseteq AccountRows(x)
  <2>1. board[x].have \subseteq AccountRows(x) /\ board[x].want \subseteq AccountRows(x)
    BY DEF TypeInv, Typed
  <2>2. QED BY <2>1 DEF Gone, New, Replaced, Dropped, Written
<1>3. \A v \in new : v.acct = a <=> v \in New(b)
  <2>1. \A v \in new : v.acct = a => v \in New(b)
    BY <1>2 DEF AccountRows
  <2>2. \A v \in New(b) : v.acct = a
    BY <1>2 DEF AccountRows
  <2>3. QED BY <2>1, <2>2
<1>4. \A w \in Rows(a) : w \in Without(binding, gone) <=> \A v \in Gone(b) : ~SameKey(v, w)
  <2>1. ASSUME NEW w \in Rows(a), \A v \in Gone(b) : ~SameKey(v, w), NEW v \in gone
        PROVE  ~SameKey(v, w)
    <3>1. PICK x \in Accounts : v \in Gone(board[x])
      OBVIOUS
    <3>2. v.acct = x /\ w.acct = a
      BY <1>2, <3>1 DEF AccountRows, Rows
    <3>3. QED BY <2>1, <3>1, <3>2 DEF SameKey
  <2>2. Gone(b) \subseteq gone
    OBVIOUS
  <2>3. QED BY <2>1, <2>2 DEF Without, Rows
<1>5. Rows(a)' = {w \in Rows(a) : \A v \in Gone(b) : ~SameKey(v, w)} \cup New(b)
  <2>1. Rows(a)' = {w \in binding' : w.acct = a}
    BY DEF Rows
  <2>2. New(b) \subseteq new
    OBVIOUS
  <2> HIDE DEF gone, new, b
  <2>3. \A w : w \in Without(binding, gone) => w \in binding
    BY DEF Without
  <2>4. ASSUME NEW w
        PROVE  w \in Rows(a)' <=>
                 \/ w \in Rows(a) /\ \A v \in Gone(b) : ~SameKey(v, w)
                 \/ w \in New(b)
    <3>1. w \in Rows(a)' <=> (w \in Without(binding, gone) \/ w \in new) /\ w.acct = a
      BY <1>1, <2>1
    <3>2. w \in new /\ w.acct = a <=> w \in New(b)
      BY <1>3, <2>2
    <3>3. w \in Without(binding, gone) /\ w.acct = a <=>
            w \in Rows(a) /\ \A v \in Gone(b) : ~SameKey(v, w)
      BY <1>4, <2>3 DEF Rows
    <3>4. QED BY <3>1, <3>2, <3>3
  <2>5. QED BY <2>4
<1>6. ASSUME Blank(b) PROVE Gone(b) = {} /\ New(b) \subseteq {}
  BY <1>6 DEF Blank, Gone, New, Replaced, Dropped, Written
<1>7. ASSUME b.have = Rows(a)
      PROVE  {w \in Rows(a) : \A v \in Gone(b) : ~SameKey(v, w)} = Rows(a) \ Gone(b)
  <2>1. Gone(b) \subseteq Rows(a)
    BY <1>7 DEF Gone, Replaced, Dropped
  <2>2. \A v \in Gone(b), w \in Rows(a) : SameKey(v, w) <=> v = w
    BY <2>1 DEF SameKey
  <2>3. QED BY <2>2
<1>8. ASSUME b.have = Rows(a) PROVE Rows(a)' = WriteBoard(Rows(a), b.want)
  BY <1>5, <1>7, <1>8 DEF WriteBoard, Gone, New
<1>9. Blank(b) => Rows(a)' = Rows(a)
  BY <1>5, <1>6
<1>10. QED BY <1>8, <1>9

(* A commit leaves every board right: those of the opened class are        *)
(* derived from what nobody changed meanwhile, the others do not depend on *)
(* the rule.                                                               *)
LEMMA CommitFresh ==
  ASSUME TxInv, TypeInv, LaneInv, Calm, NEW q \in Requests, Commit(q), Derived(q),
         \A a \in Accounts : Fresh(a), NEW a \in Accounts
  PROVE  Fresh(a)'
<1> DEFINE b == work[q].board[a]
<1>1. /\ pc[q] = "commit" /\ Of(q, {"approve", "expire"}) /\ InTx(q)
      /\ Refreshed(q) = AccountsForRule(Own(q)) /\ SeesEnroll(q) = enroll /\ InHand(q)
  <2>1. pc[q] = "commit"
    BY DEF Commit, At
  <2>2. QED BY <2>1, CalmKinds, SeesTable DEF Derived, Boarding
<1>2. today' = today /\ status' = SeesStatus(q) /\ enroll' = enroll
  BY <1>1 DEF Commit
<1>3. Table(enroll)
  BY DEF TypeInv, TypeOK, Table
<1>4. PICK old \in Orders : Rows(a) = Expected(status, enroll, old, a, today)
  BY DEF Fresh, FreshOn
<1>5. /\ \A v, w \in Rows(a) : v.cell = w.cell => v = w
      /\ Rows(a) \subseteq AccountRows(a)
  BY <1>3, <1>4, ExpectedType DEF Table, AccountRows
<1>6. CASE a \in Refreshed(q)
  <2>1. Derives(q, a)
    BY <1>1, <1>6 DEF InHand
  <2>2. PICK ord \in Orders : b.want = Expected(SeesStatus(q), enroll, ord, a, today)
    BY <2>1 DEF Derives
  <2>3. b.want \subseteq AccountRows(a) /\ \A v, w \in b.want : v.cell = w.cell => v = w
    BY <1>3, <2>2, ExpectedType DEF Table, AccountRows
  <2>4. WriteBoard(Rows(a), b.want) = b.want
    BY <1>5, <2>3, WriteIsWant DEF AccountRows
  <2>5. Rows(a)' = b.want
    BY <1>1, <1>5, <2>1, <2>4, CommitRows DEF Derives
  <2>6. Rows(a)' = Expected(status', enroll', ord, a, today')
    BY <1>2, <2>2, <2>5
  <2>7. QED BY <2>6 DEF Fresh, FreshOn
<1>7. CASE a \notin Refreshed(q)
  <2>1. Blank(b)
    BY <1>1, <1>7 DEF InHand
  <2>2. Rows(a)' = Rows(a)
    BY <1>1, <1>5, <2>1, CommitRows
  <2>3. Rule[Own(q)].class \notin Opened[a]
    BY <1>1, <1>7 DEF AccountsForRule, OpenedGroup
  <2>4. SameRules(status, status', a)
    <3>1. \A r \in Rules \ {Own(q)} : status'[r] = status[r]
      BY StatusMoves DEF Proceed
    <3>2. QED BY <2>3, <3>1 DEF SameRules
  <2>5. SameStanding(enroll, enroll', a)
    BY <1>2 DEF SameStanding
  <2>6. Expected(status', enroll', old, a, today) = Expected(status, enroll, old, a, today)
    BY <1>3, <2>4, <2>5, SameExpected
  <2>7. Rows(a)' = Expected(status', enroll', old, a, today')
    BY <1>2, <1>4, <2>2, <2>6
  <2>8. QED BY <2>7 DEF Fresh, FreshOn
<1>8. QED BY <1>6, <1>7

LEMMA BoardInvStep ==
  ASSUME TxInv, TypeInv, LaneInv, BoardInv, [TxNext]_txVars
  PROVE  BoardInv'
<1> SUFFICES ASSUME Calm' PROVE (\A a \in Accounts : Fresh(a)') /\ \A q \in Requests : Derived(q)'
  BY DEF BoardInv
<1>0. Calm /\ (\A a \in Accounts : Fresh(a)) /\ \A q \in Requests : Derived(q)
  BY CalmBefore DEF BoardInv
<1>1. ASSUME today' = today, status' = status, enroll' = enroll, binding' = binding
      PROVE  \A a \in Accounts : Fresh(a)'
  BY <1>0, <1>1 DEF Fresh, FreshOn, Rows
<1>2. ASSUME today' = today, status' = status, enroll' = enroll, binding' = binding,
             NEW p \in Requests, pc'[p] = pc[p], work'[p] = work[p]
      PROVE  Derived(p)'
  <2>1. CASE pc[p] \notin Boarding
    BY <1>0, <1>2, <2>1 DEF Derived
  <2>2. CASE pc[p] \in Boarding
    <3>1. InHand(p) /\ pc[p] # "ready"
      BY <1>0, <2>2 DEF Derived, Boarding
    <3>2. Refreshed(p)' = Refreshed(p) /\ SeesStatus(p)' = SeesStatus(p)
      BY <1>0, <1>2, <3>1, RefreshedSame, SeesSame
    <3>3. \A a \in Refreshed(p) : a \in work[p].todo \/ Derives(p, a)' \/ (pc[p] = "rows" /\ a = work[p].at)
      BY <1>2, <3>1, DerivesSame DEF InHand
    <3>4. InHand(p)'
      BY <1>2, <3>1, <3>2, <3>3 DEF InHand
    <3>5. QED BY <1>2, <2>2, <3>4 DEF Derived
  <2>3. QED BY <2>1, <2>2
<1>3. CASE UNCHANGED txVars
  <2>1. /\ today' = today /\ status' = status /\ enroll' = enroll /\ binding' = binding
        /\ pc' = pc /\ work' = work
    BY <1>3 DEF txVars, vars
  <2>2. QED BY <1>1, <1>2, <2>1
<1>4. CASE Crash
  <2>1. today' = today /\ status' = status /\ enroll' = enroll /\ binding' = binding
    BY <1>4 DEF Crash, UnchangedBoard
  <2>2. ASSUME NEW p \in Requests PROVE Derived(p)'
    <3>1. pc'[p] \notin Boarding /\ work'[p] = NothingYet
      BY <1>4, CrashMoves DEF Boarding, Statements
    <3>2. QED BY <3>1, NothingBlank DEF Derived
  <2>3. QED BY <1>1, <2>1, <2>2
<1>5. ASSUME NEW q \in Requests, Begin(q) \/ Proceed(q), ~Commit(q)
      PROVE  (\A a \in Accounts : Fresh(a)') /\ \A p \in Requests : Derived(p)'
  <2>1. Proceed(q) => pc[q] # "ready"
    <3>1. RankStep(q) \/ RefreshStep(q) \/ Decide(q) \/ Apply(q) => pc[q] # "ready"
      BY DEF RankStep, RefreshStep, Check, Mark, Scan, Stamp, Clear, Clearing, Fill, Decide, Apply,
             ReadRules, ReadGrants, ReadRows, Delete, Insert, At
    <3>2. Victim(q) => pc[q] # "ready"
      BY DEF Victim, Open, Statements
    <3>3. QED BY <1>5, <3>1, <3>2 DEF Proceed
  <2>2. pc'[q] # "ready"
    BY <1>5, <2>1, Backwards, BeginMoves DEF TxNext
  <2>3. Of(q, {"approve", "expire"}) /\ InTx(q)
    BY <2>2, RequestType DEF Calm, Took, Of, Kinds, InTx
  <2>4. today' = today /\ status' = status /\ enroll' = enroll /\ binding' = binding
    BY <1>5, <2>3, TablesStay
  <2>5. Derived(q)'
    <3>1. CASE Begin(q)
      <4>1. pc'[q] \notin Boarding /\ work'[q] = NothingYet
        BY <3>1, BeginMoves DEF Boarding
      <4>2. QED BY <4>1, NothingBlank DEF Derived
    <3>2. CASE Victim(q)
      <4>1. pc'[q] = "failed" /\ work'[q] = NothingYet
        BY <3>2, FailsMoves DEF Victim
      <4>2. QED BY <4>1, NothingBlank DEF Derived, Boarding
    <3>3. CASE Proceed(q) /\ ~Victim(q)
      <4>1. ~Decide(q) /\ ~Apply(q)
        BY <2>3, Here DEF Decide, Apply, At, Placed, Of
      <4>2. RankStep(q) \/ RefreshStep(q)
        BY <1>5, <3>3, <4>1 DEF Proceed
      <4>3. QED BY <1>0, <2>1, <3>3, <4>2, RankDerived, RefreshDerived
    <3>4. QED BY <1>5, <3>1, <3>2, <3>3
  <2>6. ASSUME NEW p \in Requests PROVE Derived(p)'
    <3>1. CASE p # q
      BY <1>2, <1>5, <2>4, <3>1, OthersStay
    <3>2. QED BY <2>5, <3>1
  <2>7. QED BY <1>1, <2>4, <2>6
<1>6. ASSUME NEW q \in Requests, Commit(q)
      PROVE  (\A a \in Accounts : Fresh(a)') /\ \A p \in Requests : Derived(p)'
  <2>1. \A a \in Accounts : Fresh(a)'
    BY <1>0, <1>6, CommitFresh
  <2>2. ASSUME NEW p \in Requests PROVE Derived(p)'
    <3>1. CASE p = q
      <4>1. pc'[p] = "done" /\ work'[p] = NothingYet
        BY <1>6, <3>1, RefreshMoves
      <4>2. QED BY <4>1, NothingBlank DEF Derived, Boarding
    <3>2. CASE p # q
      <4>1. pc[p] \notin Boarding
        BY <1>0, <1>6, <3>2, OneBoards DEF Commit, At, Boarding
      <4>2. pc'[p] = pc[p] /\ work'[p] = work[p]
        BY <1>6, <3>2, OthersStay DEF Proceed
      <4>3. QED BY <1>0, <4>1, <4>2 DEF Derived
    <3>3. QED BY <3>1, <3>2
  <2>3. QED BY <2>1, <2>2
<1>7. QED BY <1>3, <1>4, <1>5, <1>6 DEF TxNext

LEMMA BoardInvInit == TxInit => BoardInv
<1> SUFFICES ASSUME TxInit PROVE BoardInv
  OBVIOUS
<1>1. ASSUME NEW a \in Accounts PROVE Fresh(a)
  <2>1. PICK ord \in Orders :
          binding = UNION {Expected(status, enroll, ord, x, today) : x \in Accounts}
    BY DEF TxInit
  <2>2. enroll \in Seq(Enrollment) /\ Len(enroll) <= MaxEnrollments
    BY RequestAssumption DEF TxInit
  <2>3. \A x \in Accounts : \A v \in Expected(status, enroll, ord, x, today) : v.acct = x
    BY <2>2, ExpectedType
  <2>4. Rows(a) = Expected(status, enroll, ord, a, today)
    BY <2>1, <2>3 DEF Rows
  <2>5. QED BY <2>4 DEF Fresh, FreshOn
<1>2. \A q \in Requests : Derived(q)
  BY NothingBlank DEF TxInit, Derived, Boarding
<1>3. QED BY <1>1, <1>2 DEF BoardInv

(* Approvals and expiries that overlap, abort each other or die half-way   *)
(* leave every board what the policies call for, as long as some rule      *)
(* stays active that nobody is about: its row lock makes the later refresh *)
(* read what the earlier one committed.                                    *)
THEOREM OverlapKeepsBoards == TxSpec => []OverlapLeavesFresh
<1>1. BoardInv => OverlapLeavesFresh
  BY DEF BoardInv, Calm, OverlapLeavesFresh
<1>2. TxInv /\ TypeInv /\ LaneInv /\ BoardInv /\ [TxNext]_txVars =>
        TxInv' /\ TypeInv' /\ LaneInv' /\ BoardInv'
  BY TxStep, TypeInvStep, LaneInvStep, BoardInvStep
<1>3. QED BY <1>1, <1>2, TxInitOk, TypeInvInit, LaneInvInit, BoardInvInit, PTL DEF TxSpec
=============================================================================
