-------------------------- MODULE FeeBindingProofs --------------------------
(***************************************************************************)
(* What FeeBinding, the read paths of FeeLedger and the view BoardView     *)
(* promise, for every rule book, account set and bound.                    *)
(*                                                                         *)
(*  1. Ranking and enrollment choice: a non-empty set of rules has exactly *)
(*     one first policy, and "the first enrollment row" of a non-empty set *)
(*     is one of its rows.                                                 *)
(*  2. The board.  The argument turns on one fact (RebuildWrites): a       *)
(*     rebuild replaces the rows of its accounts by exactly the rows the   *)
(*     policies call for.                                                  *)
(*  3. The read paths agree with what they stand for: the index with the   *)
(*     computation (TopAgrees), and the rows a trade finds with the winner *)
(*     of its own key (LedgerServesWinner).  Both rest on the cell that    *)
(*     stands for a key: its session and channel where an active rule      *)
(*     names them, and the wildcard where none does.                       *)
(*  4. FeeBinding implements BoardView: an account's rows are the wanted   *)
(*     ones exactly when what it is assigned in each cell is right         *)
(*     (RightIsFresh), and a step refreshes some accounts and leaves the   *)
(*     standing of all others (StepShape).                                 *)
(***************************************************************************)
EXTENDS FeeLedger, TLAPS, WellFoundedInduction, SequenceTheorems

-----------------------------------------------------------------------------
(* 1. Ranking and enrollment choice *)

(* Every non-empty set of naturals has a least element.                    *)
LEMMA LeastNat ==
  ASSUME NEW T \in SUBSET Nat, T # {}
  PROVE  \E m \in T : \A n \in T : m <= n
<1>1. PICK m \in T : \A n \in T : <<n, m>> \notin OpToRel(<, Nat)
  BY NatLessThanWellFounded, WFMin, Zenon
<1>2. \A n \in T : ~(n < m)
  BY <1>1, Zenon DEF OpToRel
<1>3. QED BY <1>2

(* A set with a natural measure has an element of least measure.           *)
LEMMA LeastOf ==
  ASSUME NEW S, S # {}, NEW f, \A x \in S : f[x] \in Nat
  PROVE  \E x \in S : \A y \in S : f[x] <= f[y]
<1> DEFINE T == {f[x] : x \in S}
<1>1. T \in SUBSET Nat /\ T # {}
  OBVIOUS
<1>2. PICK m \in T : \A n \in T : m <= n
  BY <1>1, LeastNat
<1>3. QED BY <1>2

(* The first row of a non-empty set of rows is one of them, so an          *)
(* enrollment the resolver reads is always an enrollment that exists.      *)
LEMMA FirstInSet ==
  ASSUME NEW S, S # {}, NEW ord, \A i \in S : ord[i] \in Nat
  PROVE  First(S, ord) \in S
<1>1. \E i \in S : \A j \in S : ord[i] <= ord[j]
  BY LeastOf
<1>2. QED BY <1>1 DEF First

(* The four keys of the comparator are naturals.                           *)
LEMMA KeysAreNat ==
  ASSUME NEW r \in Rules
  PROVE  /\ Rule[r].rank \in Nat
         /\ TieOrder(r) \in 0..2
         /\ Rule[r].specificity \in 0..6
         /\ Rule[r].ord \in Nat
BY PolicyAssumption DEF RuleRecord, TieOrder

(* Of two different rules exactly one comes first: equal prices, layers    *)
(* and scopes are told apart by the rule id.                               *)
LEMMA BeforeTotal ==
  ASSUME NEW r \in Rules, NEW s \in Rules, r # s
  PROVE  (Before(r, s) \/ Before(s, r)) /\ ~(Before(r, s) /\ Before(s, r))
<1>1. Rule[r].ord # Rule[s].ord
  BY PolicyAssumption
<1>2. QED
  BY <1>1, KeysAreNat DEF Before

(* Ranking is transitive.                                                  *)
LEMMA BeforeTransitive ==
  ASSUME NEW q \in Rules, NEW r \in Rules, NEW s \in Rules,
         Before(q, r), Before(r, s)
  PROVE  Before(q, s)
BY KeysAreNat DEF Before

(* PolicyRanking.comparator is a strict total order with a first element   *)
(* in every set: any non-empty set of rules has a first policy, and only   *)
(* one (FR-RANK-02, for every rule book).                                  *)
THEOREM UniqueFirst ==
  ASSUME NEW S \in SUBSET Rules, S # {}
  PROVE  /\ Top(S) \in S
         /\ \A s \in S \ {Top(S)} : Before(Top(S), s)
         /\ \A r \in S : (\A s \in S \ {r} : Before(r, s)) => r = Top(S)
<1> DEFINE Cheapest(T) == {r \in T : \A s \in T : Rule[r].rank <= Rule[s].rank}
           Layer(T)    == {r \in T : \A s \in T : TieOrder(r) <= TieOrder(s)}
           Narrow(T)   == {r \in T : \A s \in T : Rule[r].specificity >= Rule[s].specificity}
           A == Cheapest(S)
           B == Layer(A)
           C == Narrow(B)
<1>1. A # {}
  <2> DEFINE f == [r \in S |-> Rule[r].rank]
  <2>1. \A r \in S : f[r] \in Nat
    BY KeysAreNat
  <2>2. PICK r \in S : \A s \in S : f[r] <= f[s]
    BY <2>1, LeastOf
  <2>3. QED BY <2>2
<1>2. B # {}
  <2> DEFINE f == [r \in A |-> TieOrder(r)]
  <2>1. \A r \in A : f[r] \in Nat
    BY KeysAreNat
  <2> HIDE DEF A
  <2>2. PICK r \in A : \A s \in A : f[r] <= f[s]
    BY <1>1, <2>1, LeastOf
  <2>3. QED BY <2>2
<1>3. C # {}
  <2> DEFINE f == [r \in B |-> 6 - Rule[r].specificity]
  <2>1. \A r \in B : f[r] \in Nat /\ Rule[r].specificity \in 0..6
    BY KeysAreNat
  <2> HIDE DEF B
  <2>2. PICK r \in B : \A s \in B : f[r] <= f[s]
    BY <1>2, <2>1, LeastOf
  <2>3. QED BY <2>1, <2>2
<1>4. PICK r \in C : \A s \in C : Rule[r].ord <= Rule[s].ord
  <2> DEFINE f == [q \in C |-> Rule[q].ord]
  <2>1. \A q \in C : f[q] \in Nat
    BY KeysAreNat
  <2> HIDE DEF C
  <2>2. PICK q \in C : \A s \in C : f[q] <= f[s]
    BY <1>3, <2>1, LeastOf
  <2>3. QED BY <2>2
<1>5. r \in S /\ \A s \in S \ {r} : Before(r, s)
  <2>1. r \in S
    BY <1>4
  <2>2. SUFFICES ASSUME NEW s \in S \ {r} PROVE Before(r, s)
    BY <2>1
  <2>3. /\ Rule[r].rank <= Rule[s].rank
        /\ s \in A => TieOrder(r) <= TieOrder(s)
        /\ s \in B => Rule[r].specificity >= Rule[s].specificity
        /\ s \in C => Rule[r].ord <= Rule[s].ord
    BY <1>4
  <2>4. CASE Rule[r].rank < Rule[s].rank
    BY <2>4 DEF Before
  <2>5. CASE Rule[r].rank = Rule[s].rank
    <3>1. s \in A
      BY <1>4, <2>5
    <3>2. CASE TieOrder(r) # TieOrder(s)
      BY <3>1, <3>2, <2>1, <2>3, <2>5, KeysAreNat DEF Before
    <3>3. CASE TieOrder(r) = TieOrder(s)
      <4>1. s \in B
        BY <1>4, <3>1, <3>3
      <4>2. s \in C \/ Rule[r].specificity > Rule[s].specificity
        BY <1>4, <4>1, <2>1, <2>3, KeysAreNat
      <4>3. Rule[r].ord # Rule[s].ord
        BY <2>1, PolicyAssumption
      <4> HIDE DEF A, B, C
      <4>4. QED BY <4>1, <4>2, <4>3, <2>1, <2>3, <2>5, <3>3, KeysAreNat DEF Before
    <3>4. QED BY <3>2, <3>3
  <2>6. QED BY <2>1, <2>3, <2>4, <2>5, KeysAreNat
<1>6. Top(S) \in S /\ \A s \in S \ {Top(S)} : Before(Top(S), s)
  BY <1>5 DEF Top
<1>7. ASSUME NEW q \in S, \A s \in S \ {q} : Before(q, s)
      PROVE  q = Top(S)
  BY <1>6, <1>7, BeforeTotal
<1>8. QED BY <1>6, <1>7

(* The winner of a cell is a rule that is in the ranking, matches the cell *)
(* and passes the account's gate, and every other such rule costs at least *)
(* as much (FR-RANK-01); there is a winner exactly when such a rule exists.*)
THEOREM WinnerIsCheapest ==
  ASSUME NEW st, NEW en, NEW ord, NEW a, NEW c, NEW d
  PROVE  LET fit == {r \in Rules : InRanking(st, r, d) /\ Matches(r, c) /\ Passes(en, ord, a, r, d)}
             w   == Winner(st, en, ord, a, c, d)
         IN  /\ w = NoRule <=> fit = {}
             /\ fit # {} => w \in fit /\ \A r \in fit : Rule[w].rank <= Rule[r].rank
<1> DEFINE fit == {r \in Rules : InRanking(st, r, d) /\ Matches(r, c) /\ Passes(en, ord, a, r, d)}
<1>1. Winner(st, en, ord, a, c, d) = Top(fit)
  BY DEF Winner
<1>2. fit \in SUBSET Rules
  OBVIOUS
<1> HIDE DEF fit
<1>3. CASE fit = {}
  BY <1>1, <1>3 DEF Top, fit
<1>4. CASE fit # {}
  <2>1. Top(fit) \in fit /\ \A s \in fit \ {Top(fit)} : Before(Top(fit), s)
    BY <1>2, <1>4, UniqueFirst
  <2>2. Top(fit) # NoRule
    BY <1>2, <2>1, PolicyAssumption
  <2>3. \A r \in fit : Rule[Top(fit)].rank <= Rule[r].rank
    BY <1>2, <2>1, KeysAreNat DEF Before
  <2>4. QED BY <1>1, <1>4, <2>1, <2>2, <2>3 DEF fit
<1>5. QED BY <1>3, <1>4

-----------------------------------------------------------------------------
(* 2. The board *)

(* Rows a rebuild wants *)

(* The value types of the two date tables: grants carry natural dates.     *)
LEMMA EnrollFields ==
  ASSUME NEW en \in Seq(Enrollment), NEW i \in DOMAIN en
  PROVE  en[i] \in Enrollment
OBVIOUS

(* An enrollment order ranks every row of a table within the bound.        *)
LEMMA OrderIsNat ==
  ASSUME NEW en \in Seq(Enrollment), Len(en) <= MaxEnrollments,
         NEW ord \in Orders, NEW i \in DOMAIN en
  PROVE  ord[i] \in Nat
<1>1. MaxEnrollments \in Nat
  BY BindingAssumption
<1>2. i \in 1..MaxEnrollments
  BY <1>1
<1>3. ord \in [1..MaxEnrollments -> 1..MaxEnrollments]
  BY DEF Orders
<1>4. QED BY <1>1, <1>2, <1>3

(* The dates a winner brings to the board are natural numbers.             *)
LEMMA WindowType ==
  ASSUME NEW en \in Seq(Enrollment), Len(en) <= MaxEnrollments,
         NEW ord \in Orders, NEW a, NEW r \in Rules
  PROVE  Window(en, ord, a, r).from \in Nat /\ Window(en, ord, a, r).to \in Nat
<1>1. Rule[r].start \in Nat /\ Rule[r].end \in Nat /\ Rule[r].months \in Nat
  BY PolicyAssumption DEF RuleRecord, Dates
<1>2. ASSUME ActiveOf(en, a, r) # {}
      PROVE  First(ActiveOf(en, a, r), ord) \in DOMAIN en
  BY <1>2, FirstInSet, OrderIsNat DEF ActiveOf, Mine
<1>3. ASSUME Mine(en, a, r) # {}
      PROVE  First(Mine(en, a, r), ord) \in DOMAIN en
  BY <1>3, FirstInSet, OrderIsNat DEF Mine
<1>4. \A i \in DOMAIN en : en[i].from \in Nat /\ en[i].to \in Nat /\ en[i].at \in Nat
  BY EnrollFields DEF Enrollment
<1>5. CASE Rule[r].type = "NEGOTIATED" /\ ActiveOf(en, a, r) # {}
  BY <1>2, <1>4, <1>5 DEF Window
<1>6. CASE /\ ~(Rule[r].type = "NEGOTIATED" /\ ActiveOf(en, a, r) # {})
           /\ Rule[r].type = "EVENT" /\ Rule[r].relative /\ Mine(en, a, r) # {}
           /\ en[First(Mine(en, a, r), ord)].at # NoDate
  BY <1>1, <1>3, <1>4, <1>6 DEF Window
<1>7. CASE /\ ~(Rule[r].type = "NEGOTIATED" /\ ActiveOf(en, a, r) # {})
           /\ ~(/\ Rule[r].type = "EVENT" /\ Rule[r].relative /\ Mine(en, a, r) # {}
                /\ en[First(Mine(en, a, r), ord)].at # NoDate)
  BY <1>1, <1>7 DEF Window
<1>8. QED BY <1>5, <1>6, <1>7

(* A negotiated winner brings the dates of an active grant of the account. *)
LEMMA WindowBacked ==
  ASSUME NEW en \in Seq(Enrollment), Len(en) <= MaxEnrollments,
         NEW ord \in Orders, NEW a, NEW r \in Rules, NEW d,
         Rule[r].type = "NEGOTIATED", Passes(en, ord, a, r, d)
  PROVE  \E i \in ActiveOf(en, a, r) :
           /\ en[i].from = Window(en, ord, a, r).from
           /\ en[i].to = Window(en, ord, a, r).to
<1>1. ActiveOf(en, a, r) # {}
  BY DEF Passes, HasActiveEnrollment
<1>2. First(ActiveOf(en, a, r), ord) \in ActiveOf(en, a, r)
  BY <1>1, FirstInSet, OrderIsNat DEF ActiveOf, Mine
<1>3. Window(en, ord, a, r) = [from |-> en[First(ActiveOf(en, a, r), ord)].from,
                               to   |-> en[First(ActiveOf(en, a, r), ord)].to]
  BY <1>1 DEF Window
<1>4. QED BY <1>2, <1>3

(* What a row a rebuild wants says: its cell is one of the universe, its   *)
(* rule is the winner of the cell and passes the account's gate, and its   *)
(* dates are the winner's.                                                 *)
LEMMA ExpectedRow ==
  ASSUME NEW st, NEW en, NEW ord, NEW a, NEW d,
         NEW v \in Expected(st, en, ord, a, d)
  PROVE  /\ v.cell \in Cells
         /\ v.rule = Winner(st, en, ord, a, v.cell, d)
         /\ v.rule \in Rules
         /\ Passes(en, ord, a, v.rule, d)
         /\ Window(en, ord, a, v.rule).from # NoDate
         /\ v = ToRow(a, v.cell, v.rule, Window(en, ord, a, v.rule))
<1>1. PICK c \in Universe(Active(st)) :
        /\ v = ToRow(a, c, Winner(st, en, ord, a, c, d),
                     Window(en, ord, a, Winner(st, en, ord, a, c, d)))
        /\ Winner(st, en, ord, a, c, d) # NoRule
        /\ Window(en, ord, a, Winner(st, en, ord, a, c, d)).from # NoDate
  BY DEF Expected, WantedIn
<1>2. c \in Cells
  BY DEF Universe
<1>3. v.cell = c /\ v.rule = Winner(st, en, ord, a, c, d)
  BY <1>1 DEF ToRow
<1>4. /\ Winner(st, en, ord, a, c, d) \in Rules
      /\ Passes(en, ord, a, Winner(st, en, ord, a, c, d), d)
  BY <1>1, WinnerIsCheapest
<1>5. QED BY <1>1, <1>2, <1>3, <1>4

(* The wanted rows are board rows of the account, at most one per cell.    *)
LEMMA ExpectedType ==
  ASSUME NEW st, NEW en \in Seq(Enrollment), Len(en) <= MaxEnrollments,
         NEW ord \in Orders, NEW a \in Accounts, NEW d
  PROVE  /\ Expected(st, en, ord, a, d) \subseteq {w \in BindingRow : w.acct = a}
         /\ \A v, w \in Expected(st, en, ord, a, d) : v.cell = w.cell => v = w
<1>1. ASSUME NEW v \in Expected(st, en, ord, a, d)
      PROVE  v \in BindingRow /\ v.acct = a
  <2>1. v.cell \in Cells /\ v.rule \in Rules
    BY <1>1, ExpectedRow
  <2>2. Window(en, ord, a, v.rule).from \in Dates /\ Window(en, ord, a, v.rule).to \in Nat
    BY <1>1, <2>1, ExpectedRow, WindowType DEF Dates
  <2>3. v = ToRow(a, v.cell, v.rule, Window(en, ord, a, v.rule))
    BY <1>1, ExpectedRow
  <2>4. QED BY <2>1, <2>2, <2>3 DEF ToRow, BindingRow
<1>2. ASSUME NEW v \in Expected(st, en, ord, a, d), NEW w \in Expected(st, en, ord, a, d),
             v.cell = w.cell
      PROVE  v = w
  BY <1>2, ExpectedRow
<1>3. QED BY <1>1, <1>2

-----------------------------------------------------------------------------
(* Writing a board *)

(* The insert-delete pass of the writer leaves exactly the wanted rows.    *)
LEMMA WriteIsWant ==
  ASSUME NEW a, NEW have, NEW want,
         have \subseteq {w \in BindingRow : w.acct = a},
         want \subseteq {w \in BindingRow : w.acct = a},
         \A v, w \in want : v.cell = w.cell => v = w
  PROVE  WriteBoard(have, want) = want
<1>1. \A v, w \in BindingRow : SameKey(v, w) /\ ~Differs(v, w) => v = w
  BY DEF SameKey, Differs, BindingRow
<1>2. ASSUME NEW v \in want, v \notin Written(have, want)
      PROVE  v \in have \ (Replaced(have, want) \cup Dropped(have, want))
  <2>1. PICK w \in have : SameKey(v, w) /\ ~Differs(v, w)
    BY <1>2 DEF Written
  <2>2. v = w
    BY <1>1, <2>1
  <2>3. \A u \in want : SameKey(u, w) => u = v
    BY <2>2 DEF SameKey
  <2>4. QED BY <2>1, <2>2, <2>3 DEF Replaced, Dropped
<1>3. ASSUME NEW w \in have, w \notin Replaced(have, want), w \notin Dropped(have, want)
      PROVE  w \in want
  <2>1. PICK v \in want : SameKey(v, w)
    BY <1>3 DEF Dropped
  <2>2. v = w
    BY <1>1, <1>3, <2>1 DEF Replaced
  <2>3. QED BY <2>2
<1>4. Written(have, want) \subseteq want
  BY DEF Written
<1>5. QED BY <1>2, <1>3, <1>4 DEF WriteBoard

(* After a rebuild of the accounts of A, on tables within their types, the *)
(* board of each of them is what the policies call for, and the boards of  *)
(* all others are as they were.                                            *)
LEMMA RebuildWrites ==
  ASSUME TypeOK, enroll' \in Seq(Enrollment), Len(enroll') <= MaxEnrollments,
         NEW A \in SUBSET Accounts, Rebuild(A)
  PROVE  \E ord \in Orders :
           /\ binding' \subseteq BindingRow
           /\ \A a \in A : Rows(a)' = Expected(status', enroll', ord, a, today)
           /\ \A a \in Accounts \ A : Rows(a)' = Rows(a)
           /\ latest' = [a \in Accounts |->
                IF a \in A THEN LogBoard(latest[a], Rows(a), Expected(status', enroll', ord, a, today))
                ELSE latest[a]]
<1>1. PICK ord \in Orders :
        LET want == [a \in A |-> Expected(status', enroll', ord, a, today)]
        IN  /\ binding' = {w \in binding : w.acct \notin A}
                            \cup UNION {WriteBoard(Rows(a), want[a]) : a \in A}
            /\ latest' = [a \in Accounts |->
                            IF a \in A THEN LogBoard(latest[a], Rows(a), want[a]) ELSE latest[a]]
  BY DEF Rebuild
<1> DEFINE want == [a \in A |-> Expected(status', enroll', ord, a, today)]
<1>2. \A a \in A : /\ want[a] \subseteq {w \in BindingRow : w.acct = a}
                   /\ \A v, w \in want[a] : v.cell = w.cell => v = w
  BY ExpectedType
<1>3. \A a \in A : Rows(a) \subseteq {w \in BindingRow : w.acct = a}
  BY DEF Rows, TypeOK
<1>4. binding' = {w \in binding : w.acct \notin A}
                   \cup UNION {WriteBoard(Rows(a), want[a]) : a \in A}
  BY <1>1
<1> HIDE DEF want
<1>5. \A a \in A : WriteBoard(Rows(a), want[a]) = want[a]
  <2> SUFFICES ASSUME NEW a \in A
               PROVE  WriteBoard(Rows(a), want[a]) = want[a]
    OBVIOUS
  <2>1. /\ a \in Accounts
        /\ want[a] \subseteq {w \in BindingRow : w.acct = a}
        /\ \A v, w \in want[a] : v.cell = w.cell => v = w
        /\ Rows(a) \subseteq {w \in BindingRow : w.acct = a}
    BY <1>2, <1>3
  <2>2. QED BY <2>1, WriteIsWant
<1>6. binding' = {w \in binding : w.acct \notin A} \cup UNION {want[a] : a \in A}
  BY <1>4, <1>5
<1>7. binding' \subseteq BindingRow
  BY <1>2, <1>6 DEF TypeOK
<1>8. \A a \in A : {w \in binding' : w.acct = a} = want[a]
  BY <1>2, <1>6
<1>9. \A a \in Accounts \ A : {w \in binding' : w.acct = a} = {w \in binding : w.acct = a}
  BY <1>2, <1>6
<1>10. QED
  BY <1>1, <1>7, <1>8, <1>9 DEF Rows, want

(* The history of an account stays a history of rules.                     *)
LEMMA LogType ==
  ASSUME NEW log \in [Cells -> Rules \cup {NoRule}], NEW have, NEW want,
         want \subseteq BindingRow
  PROVE  LogBoard(log, have, want) \in [Cells -> Rules \cup {NoRule}]
<1>1. \A v \in Written(have, want) : v.rule \in Rules
  BY DEF Written, BindingRow
<1>2. ASSUME NEW c \in Cells, \E v \in Written(have, want) : v.cell = c
      PROVE  (CHOOSE v \in Written(have, want) : v.cell = c).rule \in Rules
  BY <1>1, <1>2
<1>3. QED BY <1>2 DEF LogBoard

-----------------------------------------------------------------------------
(* Tables a request may leave *)

(* A function on 1..n is a sequence of length n.                           *)
LEMMA ListOf ==
  ASSUME NEW S, NEW n \in Nat, NEW f \in [1..n -> S]
  PROVE  f \in Seq(S) /\ Len(f) = n
<1>1. f \in Seq(S)
  BY SeqDef
<1>2. Len(f) \in Nat /\ DOMAIN f = 1..Len(f) /\ DOMAIN f = 1..n
  BY <1>1, LenProperties
<1>3. CASE Len(f) < n
  <2>1. n \in 1..n /\ n \notin 1..Len(f)
    BY <1>2, <1>3
  <2>2. QED BY <1>2, <2>1
<1>4. CASE Len(f) > n
  <2>1. Len(f) \in 1..Len(f) /\ Len(f) \notin 1..n
    BY <1>2, <1>4
  <2>2. QED BY <1>2, <2>1
<1>5. QED BY <1>1, <1>2, <1>3, <1>4

(* Appending rows keeps the old rows in place.                             *)
LEMMA AppendedRows ==
  ASSUME NEW S, NEW en \in Seq(S), NEW new \in Seq(S)
  PROVE  LET en2 == en \o new
         IN
         /\ en2 \in Seq(S) /\ Len(en2) = Len(en) + Len(new) /\ Len(en) <= Len(en2)
         /\ \A i \in DOMAIN en : en2[i] = en[i]
         /\ \A i \in DOMAIN en2 \ DOMAIN en : \E n \in DOMAIN new : en2[i] = new[n]
<1> DEFINE en2 == en \o new
<1>1. /\ en2 \in Seq(S)
      /\ Len(en2) = Len(en) + Len(new)
      /\ \A i \in 1..(Len(en) + Len(new)) :
           en2[i] = IF i <= Len(en) THEN en[i] ELSE new[i - Len(en)]
  BY ConcatProperties, Zenon
<1> HIDE DEF en2
<1>2. /\ Len(en) \in Nat /\ Len(new) \in Nat
      /\ DOMAIN en = 1..Len(en) /\ DOMAIN en2 = 1..Len(en2) /\ DOMAIN new = 1..Len(new)
  BY <1>1, LenProperties
<1> DEFINE k == Len(en)
           m == Len(new)
<1>3. /\ k \in Nat /\ m \in Nat
      /\ DOMAIN en = 1..k /\ DOMAIN en2 = 1..(k + m) /\ DOMAIN new = 1..m
      /\ \A i \in 1..(k + m) : en2[i] = IF i <= k THEN en[i] ELSE new[i - k]
  BY <1>1, <1>2
<1> HIDE DEF k, m, en2
<1>4. \A i \in DOMAIN en : i \in 1..(k + m) /\ i <= k
  BY <1>3
<1>5. \A i \in DOMAIN en2 \ DOMAIN en : i \in 1..(k + m) /\ ~(i <= k) /\ i - k \in DOMAIN new
  BY <1>3
<1>6. k <= k + m
  BY <1>3
<1>7. QED BY <1>1, <1>3, <1>4, <1>5, <1>6 DEF k, m, en2

(* Rewriting some rows of the enrollment table keeps it a table.           *)
LEMMA Rewritten ==
  ASSUME NEW en \in Seq(Enrollment), NEW f,
         f = [i \in DOMAIN en |-> f[i]], \A i \in DOMAIN en : f[i] \in Enrollment
  PROVE  f \in Seq(Enrollment) /\ Len(f) = Len(en) /\ DOMAIN f = DOMAIN en
<1>1. DOMAIN en = 1..Len(en) /\ Len(en) \in Nat
  OBVIOUS
<1>2. f \in [1..Len(en) -> Enrollment]
  BY <1>1
<1>3. QED BY <1>1, <1>2

(* What the policies read of an account's enrollments: the dates of its    *)
(* active grants, and for an event whether and when it joined.             *)
SameStanding(en, en2, a) ==
  \A r \in Rules :
    /\ Rule[r].type = "NEGOTIATED" =>
         /\ ActiveOf(en2, a, r) = ActiveOf(en, a, r)
         /\ \A i \in ActiveOf(en, a, r) : en2[i].from = en[i].from /\ en2[i].to = en[i].to
    /\ Rule[r].type = "EVENT" =>
         /\ Mine(en2, a, r) = Mine(en, a, r)
         /\ \A i \in Mine(en, a, r) : en2[i].at = en[i].at

(* Rows of other accounts being rewritten leaves an account's standing.    *)
LEMMA OthersRewritten ==
  ASSUME NEW en, NEW en2, NEW a, DOMAIN en2 = DOMAIN en,
         \A i \in DOMAIN en : en2[i].acct = en[i].acct /\ en2[i].rule = en[i].rule,
         \A i \in DOMAIN en : en[i].acct = a => en2[i] = en[i]
  PROVE  SameStanding(en, en2, a)
<1>1. \A r : Mine(en2, a, r) = Mine(en, a, r)
  BY DEF Mine
<1>2. \A r : ActiveOf(en2, a, r) = ActiveOf(en, a, r)
  BY <1>1 DEF ActiveOf, Mine
<1>3. \A r : \A i \in Mine(en, a, r) : en2[i] = en[i]
  BY DEF Mine
<1>4. QED BY <1>1, <1>2, <1>3 DEF SameStanding, ActiveOf

(* Rows appended for a rule leave the standing of an account they do not   *)
(* concern, or concern only by requests for a negotiated rule.             *)
LEMMA OthersAppended ==
  ASSUME NEW en \in Seq(Enrollment), NEW en2 \in Seq(Enrollment), NEW a,
         Len(en) <= Len(en2), \A i \in DOMAIN en : en2[i] = en[i],
         \A i \in DOMAIN en2 \ DOMAIN en :
           \/ en2[i].acct # a
           \/ en2[i].status # "ACTIVE" /\ Rule[en2[i].rule].type = "NEGOTIATED"
  PROVE  SameStanding(en, en2, a)
<1>1. DOMAIN en \subseteq DOMAIN en2
  OBVIOUS
<1>2. ASSUME NEW r \in Rules, Rule[r].type = "EVENT"
      PROVE  Mine(en2, a, r) = Mine(en, a, r)
  BY <1>1, <1>2 DEF Mine
<1>3. ASSUME NEW r \in Rules
      PROVE  ActiveOf(en2, a, r) = ActiveOf(en, a, r)
  BY <1>1 DEF Mine, ActiveOf
<1>4. \A r : \A i \in Mine(en, a, r) : en2[i] = en[i]
  BY DEF Mine
<1>5. QED BY <1>2, <1>3, <1>4 DEF SameStanding, ActiveOf

-----------------------------------------------------------------------------
(* The enrollment table after each request that writes it *)

Table(en) == en \in Seq(Enrollment) /\ Len(en) <= MaxEnrollments

(* Filing a request appends undecided rows (NegoService.createRequests).   *)
LEMMA CreateRequestsTable ==
  ASSUME TypeOK, NEW as \in Batches, NEW r \in Rules, CreateRequests(as, r)
  PROVE  Table(enroll') /\ \A a \in Accounts : SameStanding(enroll, enroll', a)
<1> DEFINE new == [n \in 1..Len(as) |-> NewRequest(as[n], r, as)]
<1>1. as \in Seq(Accounts)
  BY BindingAssumption
<1>2. \A n \in 1..Len(as) : new[n] \in Enrollment
  <2>1. Hash[as] \in Int /\ \A n \in 1..Len(as) : as[n] \in Accounts
    BY <1>1, ElementOfSeq, BindingAssumption
  <2>2. QED BY <2>1 DEF NewRequest, Enrollment, RequestId, EnrollmentStatus, NoDate
<1>3. new \in Seq(Enrollment) /\ Len(new) = Len(as)
  <2>1. Len(as) \in Nat /\ DOMAIN as = 1..Len(as)
    BY <1>1, LenProperties
  <2>2. new \in [1..Len(as) -> Enrollment]
    BY <1>2
  <2> HIDE DEF new
  <2>3. QED BY <2>1, <2>2, ListOf
<1>4. enroll \in Seq(Enrollment) /\ enroll' = enroll \o new
  BY DEF TypeOK, CreateRequests
<1>5. \A n \in 1..Len(as) : new[n].status # "ACTIVE" /\ new[n].rule = r
  BY DEF NewRequest
<1>6. Rule[r].type = "NEGOTIATED" /\ Len(enroll) + Len(as) <= MaxEnrollments
  BY DEF CreateRequests
<1> HIDE DEF new
<1>7. /\ enroll' \in Seq(Enrollment) /\ Len(enroll') = Len(enroll) + Len(as)
      /\ Len(enroll) <= Len(enroll')
      /\ \A i \in DOMAIN enroll : enroll'[i] = enroll[i]
      /\ \A i \in DOMAIN enroll' \ DOMAIN enroll : \E n \in DOMAIN new : enroll'[i] = new[n]
  <2>1. /\ enroll' \in Seq(Enrollment) /\ Len(enroll') = Len(enroll) + Len(new)
        /\ Len(enroll) <= Len(enroll')
        /\ \A i \in DOMAIN enroll : enroll'[i] = enroll[i]
        /\ \A i \in DOMAIN enroll' \ DOMAIN enroll : \E n \in DOMAIN new : enroll'[i] = new[n]
    <3>1. new \in Seq(Enrollment)
      BY <1>3
    <3>2. LET en2 == enroll \o new
          IN  /\ en2 \in Seq(Enrollment) /\ Len(en2) = Len(enroll) + Len(new)
              /\ Len(enroll) <= Len(en2)
              /\ \A i \in DOMAIN enroll : en2[i] = enroll[i]
              /\ \A i \in DOMAIN en2 \ DOMAIN enroll : \E n \in DOMAIN new : en2[i] = new[n]
      BY <1>4, <3>1, AppendedRows
    <3>3. QED BY <1>4, <3>2
  <2>2. QED BY <1>3, <2>1, Zenon
<1>8. DOMAIN new = 1..Len(as)
  BY <1>3, LenProperties
<1>9. \A i \in DOMAIN enroll' \ DOMAIN enroll :
        enroll'[i].status # "ACTIVE" /\ Rule[enroll'[i].rule].type = "NEGOTIATED"
  <2> SUFFICES ASSUME NEW i \in DOMAIN enroll' \ DOMAIN enroll
               PROVE  enroll'[i].status # "ACTIVE" /\ Rule[enroll'[i].rule].type = "NEGOTIATED"
    OBVIOUS
  <2>1. PICK n \in DOMAIN new : enroll'[i] = new[n]
    BY <1>7
  <2>2. new[n].status # "ACTIVE" /\ new[n].rule = r
    BY <1>5, <1>8, <2>1
  <2>3. QED BY <1>6, <2>1, <2>2
<1>10. \A a \in Accounts : SameStanding(enroll, enroll', a)
  BY <1>4, <1>7, <1>9, OthersAppended
<1>11. QED BY <1>6, <1>7, <1>10 DEF Table

(* Approving a request dates its undecided rows (NegoService.approve).     *)
LEMMA ApproveNegoTable ==
  ASSUME TypeOK, NEW q, ApproveNego(q)
  PROVE  /\ Table(enroll')
         /\ AccountsOfRequest(q) \subseteq Accounts
         /\ \A a \in Accounts \ AccountsOfRequest(q) : SameStanding(enroll, enroll', a)
<1> DEFINE f == [i \in DOMAIN enroll |->
                   IF i \in Undecided(q)
                   THEN [enroll[i] EXCEPT !.status = "ACTIVE", !.from = today, !.to = today + NegoTerm]
                   ELSE enroll[i]]
<1>1. /\ enroll \in Seq(Enrollment) /\ Len(enroll) <= MaxEnrollments
      /\ today \in Nat /\ today + NegoTerm \in Nat
  BY BindingAssumption DEF TypeOK
<1>2. enroll' = f
  BY DEF ApproveNego
<1>3. \A i \in DOMAIN enroll : f[i] \in Enrollment
  <2>1. \A i \in DOMAIN enroll : enroll[i] \in Enrollment
    BY <1>1, EnrollFields
  <2>2. \A e \in Enrollment, m, n \in Nat :
          [e EXCEPT !.status = "ACTIVE", !.from = m, !.to = n] \in Enrollment
    BY DEF Enrollment, EnrollmentStatus
  <2>3. QED BY <1>1, <2>1, <2>2
<1>4. \A i \in DOMAIN enroll : f[i].acct = enroll[i].acct /\ f[i].rule = enroll[i].rule
  BY <1>1, EnrollFields DEF Enrollment
<1>5. \A i \in DOMAIN enroll : enroll[i].acct \notin AccountsOfRequest(q) => f[i] = enroll[i]
  BY DEF Undecided, AccountsOfRequest
<1>6. DOMAIN f = DOMAIN enroll /\ f = [i \in DOMAIN enroll |-> f[i]]
  OBVIOUS
<1> HIDE DEF f
<1>7. Table(f)
  BY <1>1, <1>3, <1>6, Rewritten DEF Table
<1>8. \A a \in Accounts \ AccountsOfRequest(q) : SameStanding(enroll, f, a)
  BY <1>4, <1>5, <1>6, OthersRewritten
<1>9. AccountsOfRequest(q) \subseteq Accounts
  BY <1>1, EnrollFields DEF AccountsOfRequest, Enrollment
<1>10. QED BY <1>2, <1>7, <1>8, <1>9

(* Rejecting a request closes its undecided rows (NegoService.reject).     *)
LEMMA RejectNegoTable ==
  ASSUME TypeOK, NEW q, RejectNego(q)
  PROVE  Table(enroll') /\ \A a \in Accounts : SameStanding(enroll, enroll', a)
<1> DEFINE f == [i \in DOMAIN enroll |->
                   IF i \in Undecided(q) THEN [enroll[i] EXCEPT !.status = "REJECTED"] ELSE enroll[i]]
<1>1. enroll \in Seq(Enrollment) /\ Len(enroll) <= MaxEnrollments
  BY DEF TypeOK
<1>2. enroll' = f
  BY DEF RejectNego
<1>3. \A i \in DOMAIN enroll : f[i] \in Enrollment
  <2>1. \A i \in DOMAIN enroll : enroll[i] \in Enrollment
    BY <1>1, EnrollFields
  <2>2. \A e \in Enrollment : [e EXCEPT !.status = "REJECTED"] \in Enrollment
    BY DEF Enrollment, EnrollmentStatus
  <2>3. QED BY <2>1, <2>2
<1>4. \A i \in DOMAIN enroll : /\ f[i].acct = enroll[i].acct /\ f[i].rule = enroll[i].rule
                               /\ f[i].from = enroll[i].from /\ f[i].to = enroll[i].to
                               /\ f[i].at = enroll[i].at
                               /\ f[i].status = "ACTIVE" <=> enroll[i].status = "ACTIVE"
  BY <1>1, EnrollFields DEF Enrollment, Undecided
<1>5. DOMAIN f = DOMAIN enroll /\ f = [i \in DOMAIN enroll |-> f[i]]
  OBVIOUS
<1> HIDE DEF f
<1>6. Table(f)
  BY <1>1, <1>3, <1>5, Rewritten DEF Table
<1>7. ASSUME NEW a PROVE SameStanding(enroll, f, a)
  <2>1. \A r : Mine(f, a, r) = Mine(enroll, a, r)
    BY <1>4, <1>5 DEF Mine
  <2>2. \A r : ActiveOf(f, a, r) = ActiveOf(enroll, a, r)
    BY <1>4, <2>1 DEF ActiveOf, Mine
  <2>3. QED BY <1>4, <2>1, <2>2 DEF SameStanding, ActiveOf, Mine
<1>8. QED BY <1>2, <1>6, <1>7

(* An extension moves the end of dated rows only (NegoService.extend).     *)
LEMMA ExtendTable ==
  ASSUME TypeOK, NEW ids \in SUBSET DOMAIN enroll, NEW n \in Extensions, Extend(ids, n)
  PROVE  LET A == {enroll[i].acct : i \in {j \in ids : enroll[j].to # NoDate}}
         IN  /\ Table(enroll')
             /\ A \subseteq Accounts
             /\ \A a \in Accounts \ A : SameStanding(enroll, enroll', a)
<1> DEFINE dated == {i \in ids : enroll[i].to # NoDate}
           A == {enroll[i].acct : i \in dated}
           f == [i \in DOMAIN enroll |->
                   IF i \in dated THEN [enroll[i] EXCEPT !.to = @ + n] ELSE enroll[i]]
<1>1. /\ enroll \in Seq(Enrollment) /\ Len(enroll) <= MaxEnrollments
      /\ n \in Int /\ Horizon \in Nat
  BY BindingAssumption DEF TypeOK
<1>2. enroll' = f /\ \A i \in dated : enroll[i].to + n \in 1..Horizon
  BY DEF Extend
<1>3. \A i \in DOMAIN enroll : f[i] \in Enrollment
  <2>1. \A i \in DOMAIN enroll : enroll[i] \in Enrollment
    BY <1>1, EnrollFields
  <2>2. \A i \in dated : enroll[i].to + n \in Nat
    BY <1>1, <1>2
  <2>3. \A e \in Enrollment, m \in Nat : [e EXCEPT !.to = m] \in Enrollment
    BY DEF Enrollment
  <2>4. QED BY <2>1, <2>2, <2>3
<1>4. \A i \in DOMAIN enroll : f[i].acct = enroll[i].acct /\ f[i].rule = enroll[i].rule
  BY <1>1, EnrollFields DEF Enrollment
<1>5. \A i \in DOMAIN enroll : enroll[i].acct \notin A => f[i] = enroll[i]
  OBVIOUS
<1>6. DOMAIN f = DOMAIN enroll /\ f = [i \in DOMAIN enroll |-> f[i]]
  OBVIOUS
<1>7. A \subseteq Accounts
  BY <1>1, EnrollFields DEF Enrollment
<1> HIDE DEF f
<1>8. Table(f)
  BY <1>1, <1>3, <1>6, Rewritten DEF Table
<1>9. \A a \in Accounts \ A : SameStanding(enroll, f, a)
  BY <1>4, <1>5, <1>6, OthersRewritten
<1>10. QED BY <1>2, <1>7, <1>8, <1>9

(* An application appends one granted row (EnrollController.enroll).       *)
LEMMA EnrollTable ==
  ASSUME TypeOK, NEW b \in Accounts, NEW r \in Rules, Enroll(b, r)
  PROVE  /\ Table(enroll')
         /\ \A a \in Accounts \ {b} : SameStanding(enroll, enroll', a)
<1> DEFINE row == [acct |-> b, rule |-> r, status |-> "ACTIVE", from |-> NoDate,
                   to |-> NoDate, at |-> today, req |-> NoReq]
<1>1. enroll \in Seq(Enrollment) /\ Len(enroll) < MaxEnrollments /\ enroll' = Append(enroll, row)
  BY DEF TypeOK, Enroll
<1>2. row \in Enrollment /\ row.acct = b
  <2>1. NoReq \in RequestId
    BY DEF NoReq, RequestId
  <2>2. QED BY <2>1 DEF TypeOK, Enrollment, EnrollmentStatus, NoDate
<1> HIDE DEF row
<1>3. /\ enroll' \in Seq(Enrollment) /\ Len(enroll') = Len(enroll) + 1
      /\ \A i \in 1..Len(enroll) : enroll'[i] = enroll[i]
      /\ enroll'[Len(enroll) + 1] = row
  BY <1>1, <1>2, AppendProperties
<1>4. /\ Len(enroll) \in Nat /\ MaxEnrollments \in Nat
      /\ DOMAIN enroll = 1..Len(enroll) /\ DOMAIN enroll' = 1..Len(enroll')
  BY <1>1, <1>3, LenProperties, BindingAssumption
<1>5. Len(enroll') <= MaxEnrollments /\ Len(enroll) <= Len(enroll')
  BY <1>1, <1>3, <1>4
<1>6. \A i \in DOMAIN enroll' \ DOMAIN enroll : enroll'[i] = row
  BY <1>3, <1>4
<1>7. \A i \in DOMAIN enroll : enroll'[i] = enroll[i]
  BY <1>3, <1>4
<1>8. \A a \in Accounts \ {b} : SameStanding(enroll, enroll', a)
  BY <1>1, <1>2, <1>3, <1>5, <1>6, <1>7, OthersAppended
<1>9. QED BY <1>3, <1>5, <1>8 DEF Table

-----------------------------------------------------------------------------
(* The shape of a step *)

(* No rule of a class the account has opened became or ceased to be active.*)
SameRules(st, st2, a) ==
  \A r \in Rules : Rule[r].class \in Opened[a] => (st[r] = "ACTIVE" <=> st2[r] = "ACTIVE")

NoActiveRejected == \A r \in Rules : status[r] = "ACTIVE" => status'[r] # "REJECTED"

(* One request: the boards of A are refreshed on tables of the right type, *)
(* and nobody else's policies moved, a rejected active rule aside.         *)
Refresh(A) ==
  /\ Table(enroll')
  /\ Rebuild(A) \/ (A = {} /\ UnchangedBoard)
  /\ \A a \in Accounts \ A : SameStanding(enroll, enroll', a)
  /\ NoActiveRejected => \A a \in Accounts \ A : SameRules(status, status', a)

(* A request that leaves the enrollment table leaves every standing.       *)
LEMMA SameTable ==
  ASSUME TypeOK, enroll' = enroll
  PROVE  Table(enroll') /\ \A a \in Accounts : SameStanding(enroll, enroll', a)
BY DEF TypeOK, Table, SameStanding

(* A rule's refresh scope consists of accounts.                            *)
LEMMA AccountsForRuleType ==
  \A r \in Rules : AccountsForRule(r) \subseteq Accounts
BY DEF AccountsForRule, OpenedGroup

(* Every request and batch run is a refresh of some set of accounts: those *)
(* of the rule's class, those of the request, the grants extended, the one *)
(* that applied, those the day touches, all, or none.                      *)
LEMMA StepShape ==
  ASSUME TypeOK, Next
  PROVE  \E A \in SUBSET Accounts : Refresh(A)
<1>1. ASSUME NEW r \in Rules, CreateDraft(r) \/ Submit(r) PROVE Refresh({})
  <2>1. \A s \in Rules : status[s] = "ACTIVE" <=> status'[s] = "ACTIVE"
    BY <1>1 DEF CreateDraft, Submit, TypeOK, Absent
  <2>2. enroll' = enroll /\ UnchangedBoard
    BY <1>1 DEF CreateDraft, Submit
  <2>3. QED BY <2>1, <2>2, SameTable DEF Refresh, SameRules
<1>2. ASSUME NEW r \in Rules, Reject(r) PROVE Refresh({})
  <2>1. NoActiveRejected => \A s \in Rules : status[s] = "ACTIVE" <=> status'[s] = "ACTIVE"
    BY <1>2 DEF Reject, TypeOK, NoActiveRejected
  <2>2. enroll' = enroll /\ UnchangedBoard
    BY <1>2 DEF Reject
  <2>3. QED BY <2>1, <2>2, SameTable DEF Refresh, SameRules
<1>3. ASSUME NEW r \in Rules, Approve(r) \/ Expire(r) PROVE Refresh(AccountsForRule(r))
  <2>1. \A s \in Rules \ {r} : status'[s] = status[s]
    BY <1>3 DEF Approve, Expire, TypeOK
  <2>2. enroll' = enroll /\ Rebuild(AccountsForRule(r))
    BY <1>3 DEF Approve, Expire
  <2>3. \A a \in Accounts \ AccountsForRule(r) : SameRules(status, status', a)
    BY <2>1 DEF SameRules, AccountsForRule, OpenedGroup
  <2>4. QED BY <2>2, <2>3, SameTable DEF Refresh
<1>4. ASSUME NEW as \in Batches, NEW r \in Rules, CreateRequests(as, r) PROVE Refresh({})
  <2>1. status' = status /\ UnchangedBoard
    BY <1>4 DEF CreateRequests
  <2>2. QED BY <1>4, <2>1, CreateRequestsTable DEF Refresh, SameRules
<1>5. ASSUME NEW q, ApproveNego(q) PROVE Refresh(AccountsOfRequest(q))
  <2>1. status' = status /\ Rebuild(AccountsOfRequest(q))
    BY <1>5 DEF ApproveNego
  <2>2. QED BY <1>5, <2>1, ApproveNegoTable DEF Refresh, SameRules
<1>6. ASSUME NEW q, RejectNego(q) PROVE Refresh({})
  <2>1. status' = status /\ UnchangedBoard
    BY <1>6 DEF RejectNego
  <2>2. QED BY <1>6, <2>1, RejectNegoTable DEF Refresh, SameRules
<1>7. ASSUME NEW ids \in SUBSET DOMAIN enroll, NEW n \in Extensions, Extend(ids, n)
      PROVE  \E A \in SUBSET Accounts : Refresh(A)
  <2> DEFINE A == {enroll[i].acct : i \in {j \in ids : enroll[j].to # NoDate}}
  <2>1. status' = status /\ Rebuild(A)
    BY <1>7 DEF Extend
  <2>2. A \subseteq Accounts /\ Table(enroll') /\ \A a \in Accounts \ A : SameStanding(enroll, enroll', a)
    BY <1>7, ExtendTable
  <2> HIDE DEF A
  <2>3. QED BY <2>1, <2>2 DEF Refresh, SameRules
<1>8. ASSUME NEW a \in Accounts, NEW r \in Rules, Enroll(a, r) PROVE Refresh({a})
  <2>1. status' = status /\ Rebuild({a})
    BY <1>8 DEF Enroll
  <2>2. QED BY <1>8, <2>1, EnrollTable DEF Refresh, SameRules
<1>9. ASSUME FullRebuild PROVE Refresh(Accounts)
  BY <1>9, SameTable DEF FullRebuild, Refresh, SameRules
<1>10. ASSUME Delta PROVE Refresh(DeltaAccounts) /\ DeltaAccounts \subseteq Accounts
  <2>1. DeltaAccounts \subseteq Accounts
    BY AccountsForRuleType DEF DeltaAccounts, TypeOK, BindingRow, Active
  <2>2. QED BY <1>10, <2>1, SameTable DEF Delta, Refresh, SameRules
<1>11. ASSUME RebuildIndex \/ Restart \/ NextDay PROVE Refresh({})
  BY <1>11, SameTable DEF RebuildIndex, Restart, NextDay, Refresh, SameRules
<1>12. CASE RuleStep
  BY <1>1, <1>2, <1>3, <1>12, AccountsForRuleType DEF RuleStep
<1>13. CASE NegoStep
  <2>1. \A q : ApproveNego(q) => AccountsOfRequest(q) \subseteq Accounts
    BY ApproveNegoTable
  <2>2. QED BY <1>4, <1>5, <1>6, <1>7, <1>13, <2>1 DEF NegoStep
<1>14. CASE EnrollStep
  BY <1>8, <1>14, BindingAssumption DEF EnrollStep
<1>15. CASE BatchStep
  BY <1>9, <1>10, <1>11, <1>15 DEF BatchStep
<1>16. QED BY <1>12, <1>13, <1>14, <1>15 DEF Next

-----------------------------------------------------------------------------
(* Type correctness *)

(* The seed is well typed.                                                 *)
LEMMA InitType == Init => TypeOK
<1> SUFFICES ASSUME Init PROVE TypeOK
  OBVIOUS
<1>1. enroll \in Seq(Enrollment) /\ Len(enroll) <= MaxEnrollments
  BY EmptySeq, BindingAssumption DEF Init
<1>2. QED BY <1>1, BindingAssumption DEF Init, TypeOK

(* The candidate index pairs cells with rules.                             *)
LEMMA IndexType ==
  ASSUME NEW st
  PROVE  IndexRows(st) \subseteq Cells \X Rules /\ Active(st) \subseteq Rules
BY DEF IndexRows, Universe, Active

(* The tables no rebuild writes keep their types.                          *)
LEMMA RequestTables ==
  ASSUME TypeOK, Next
  PROVE  /\ today' \in Nat \ {0}
         /\ status' \in [Rules -> RuleStatus \cup {Absent}]
         /\ stamped' \subseteq Rules
         /\ index' \subseteq Cells \X Rules
<1> USE DEF TypeOK, UnchangedIndex
<1>1. ASSUME NEW r \in Rules,
             CreateDraft(r) \/ Submit(r) \/ Approve(r) \/ Reject(r) \/ Expire(r)
      PROVE  today' = today /\ status' \in [Rules -> RuleStatus \cup {Absent}]
  BY <1>1 DEF CreateDraft, Submit, Approve, Reject, Expire, RuleStatus
<1>2. ASSUME NEW r \in Rules, CreateDraft(r) \/ Submit(r) \/ Reject(r)
      PROVE  stamped' \subseteq Rules /\ index' \subseteq Cells \X Rules
  BY <1>2 DEF CreateDraft, Submit, Reject
<1>3. ASSUME RebuildAll
      PROVE  stamped' \subseteq Rules /\ index' \subseteq Cells \X Rules
  BY <1>3, IndexType DEF RebuildAll
<1>4. CASE RuleStep
  BY <1>1, <1>2, <1>3, <1>4 DEF RuleStep, Approve, Expire
<1>5. CASE NegoStep
  BY <1>5 DEF NegoStep, CreateRequests, ApproveNego, RejectNego, Extend
<1>6. CASE EnrollStep
  BY <1>6 DEF EnrollStep, Enroll
<1>7. CASE BatchStep
  <2>1. CASE FullRebuild \/ Delta
    BY <2>1 DEF FullRebuild, Delta
  <2>2. CASE RebuildIndex \/ Restart
    BY <1>3, <2>2 DEF RebuildIndex, Restart
  <2>3. CASE NextDay
    BY <2>3 DEF NextDay
  <2>4. QED BY <1>7, <2>1, <2>2, <2>3 DEF BatchStep
<1>8. QED BY <1>4, <1>5, <1>6, <1>7 DEF Next

(* Every step keeps the tables well typed.                                 *)
LEMMA NextType == TypeOK /\ [Next]_vars => TypeOK'
<1> SUFFICES ASSUME TypeOK, [Next]_vars PROVE TypeOK'
  OBVIOUS
<1>1. CASE Next
  <2>1. PICK A \in SUBSET Accounts : Refresh(A)
    BY <1>1, StepShape
  <2>2. enroll' \in Seq(Enrollment) /\ Len(enroll') <= MaxEnrollments
    BY <2>1 DEF Refresh, Table
  <2>3. /\ binding' \subseteq BindingRow
        /\ latest' \in [Accounts -> [Cells -> Rules \cup {NoRule}]]
    <3>1. CASE UnchangedBoard
      BY <3>1 DEF UnchangedBoard, TypeOK
    <3>2. CASE Rebuild(A)
      <4>1. PICK ord \in Orders :
              /\ binding' \subseteq BindingRow
              /\ latest' = [a \in Accounts |->
                   IF a \in A THEN LogBoard(latest[a], Rows(a), Expected(status', enroll', ord, a, today))
                   ELSE latest[a]]
        BY <2>2, <3>2, RebuildWrites
      <4>2. \A a \in Accounts : Expected(status', enroll', ord, a, today) \subseteq BindingRow
        BY <2>2, ExpectedType
      <4>3. \A a \in Accounts : latest[a] \in [Cells -> Rules \cup {NoRule}]
        BY DEF TypeOK
      <4>4. \A a \in Accounts :
              LogBoard(latest[a], Rows(a), Expected(status', enroll', ord, a, today))
                \in [Cells -> Rules \cup {NoRule}]
        BY <4>2, <4>3, LogType
      <4>5. QED BY <4>1, <4>3, <4>4
    <3>3. QED BY <2>1, <3>1, <3>2 DEF Refresh
  <2>4. QED BY <1>1, <2>2, <2>3, RequestTables DEF TypeOK
<1>2. CASE UNCHANGED vars
  BY <1>2 DEF vars, TypeOK
<1>3. QED BY <1>1, <1>2

(* Every table keeps its type through every request and batch run.         *)
THEOREM TypeCorrect == Spec => []TypeOK
BY InitType, NextType, PTL DEF Spec

-----------------------------------------------------------------------------
(* One row per cell *)

(* Every step keeps one row per cell.                                      *)
LEMMA NextSingleRow == TypeOK /\ OneRowPerCell /\ [Next]_vars => OneRowPerCell'
<1> SUFFICES ASSUME TypeOK, OneRowPerCell, [Next]_vars,
                    NEW v \in binding', NEW w \in binding', v.acct = w.acct, v.cell = w.cell
             PROVE  v = w
  BY DEF OneRowPerCell
<1>1. CASE Next
  <2>1. PICK A \in SUBSET Accounts : Refresh(A)
    BY <1>1, StepShape
  <2>2. CASE UnchangedBoard
    BY <2>2 DEF UnchangedBoard, OneRowPerCell
  <2>3. CASE Rebuild(A)
    <3>1. enroll' \in Seq(Enrollment) /\ Len(enroll') <= MaxEnrollments
      BY <2>1 DEF Refresh, Table
    <3>2. PICK ord \in Orders :
            /\ binding' \subseteq BindingRow
            /\ \A a \in A : Rows(a)' = Expected(status', enroll', ord, a, today)
            /\ \A a \in Accounts \ A : Rows(a)' = Rows(a)
      BY <2>3, <3>1, RebuildWrites
    <3>3. v.acct \in Accounts /\ v \in Rows(v.acct)' /\ w \in Rows(v.acct)'
      BY <3>2 DEF BindingRow, Rows
    <3>4. CASE v.acct \in A
      BY <3>1, <3>2, <3>3, <3>4, ExpectedType
    <3>5. CASE v.acct \notin A
      BY <3>2, <3>3, <3>5 DEF Rows, OneRowPerCell
    <3>6. QED BY <3>4, <3>5
  <2>4. QED BY <2>1, <2>2, <2>3 DEF Refresh
<1>2. CASE UNCHANGED vars
  BY <1>2 DEF vars, OneRowPerCell
<1>3. QED BY <1>1, <1>2

(* A trade never meets two rows of one cell.                               *)
THEOREM SingleRow == Spec => []OneRowPerCell
<1>1. Init => OneRowPerCell
  BY DEF Init, OneRowPerCell
<1>2. QED BY <1>1, InitType, NextType, NextSingleRow, PTL DEF Spec

-----------------------------------------------------------------------------
(* Negotiated rows *)

(* Every step keeps negotiated rows backed by a grant.                     *)
LEMMA NextBacked == TypeOK /\ NegoRowBacked /\ [Next]_vars => NegoRowBacked'
<1> SUFFICES ASSUME TypeOK, NegoRowBacked, [Next]_vars,
                    NEW w \in binding', Rule[w.rule].type = "NEGOTIATED"
             PROVE  \E i \in ActiveOf(enroll', w.acct, w.rule) :
                      enroll'[i].from = w.from /\ enroll'[i].to = w.to
  BY DEF NegoRowBacked
<1> DEFINE Backed(en) == \E i \in ActiveOf(en, w.acct, w.rule) : en[i].from = w.from /\ en[i].to = w.to
<1>1. CASE Next
  <2>1. PICK A \in SUBSET Accounts : Refresh(A)
    BY <1>1, StepShape
  <2>2. ASSUME w \in binding, w.acct \in Accounts, w.rule \in Rules, w.acct \notin A
        PROVE  Backed(enroll')
    <3>1. Backed(enroll)
      BY <2>2 DEF NegoRowBacked
    <3>2. /\ ActiveOf(enroll', w.acct, w.rule) = ActiveOf(enroll, w.acct, w.rule)
          /\ \A i \in ActiveOf(enroll, w.acct, w.rule) :
               enroll'[i].from = enroll[i].from /\ enroll'[i].to = enroll[i].to
      BY <2>1, <2>2 DEF Refresh, SameStanding
    <3>3. QED BY <3>1, <3>2
  <2>3. CASE UnchangedBoard /\ A = {}
    BY <2>2, <2>3 DEF UnchangedBoard, TypeOK, BindingRow
  <2>4. CASE Rebuild(A)
    <3>1. enroll' \in Seq(Enrollment) /\ Len(enroll') <= MaxEnrollments
      BY <2>1 DEF Refresh, Table
    <3>2. PICK ord \in Orders :
            /\ binding' \subseteq BindingRow
            /\ \A a \in A : Rows(a)' = Expected(status', enroll', ord, a, today)
            /\ \A a \in Accounts \ A : Rows(a)' = Rows(a)
      BY <2>4, <3>1, RebuildWrites
    <3>3. w.acct \in Accounts /\ w.rule \in Rules /\ w \in Rows(w.acct)'
      BY <3>2 DEF BindingRow, Rows
    <3>4. CASE w.acct \in A
      <4>1. w \in Expected(status', enroll', ord, w.acct, today)
        BY <3>2, <3>3, <3>4
      <4>2. /\ Passes(enroll', ord, w.acct, w.rule, today)
            /\ w = ToRow(w.acct, w.cell, w.rule, Window(enroll', ord, w.acct, w.rule))
        BY <4>1, ExpectedRow
      <4>3. /\ w.from = Window(enroll', ord, w.acct, w.rule).from
            /\ w.to = Window(enroll', ord, w.acct, w.rule).to
        BY <4>2 DEF ToRow
      <4>4. QED BY <3>1, <3>3, <4>2, <4>3, WindowBacked
    <3>5. CASE w.acct \notin A
      <4>1. w \in binding
        BY <3>2, <3>3, <3>5 DEF Rows
      <4>2. QED BY <2>2, <3>3, <3>5, <4>1
    <3>6. QED BY <3>4, <3>5
  <2>5. QED BY <2>1, <2>3, <2>4 DEF Refresh
<1>2. CASE UNCHANGED vars
  BY <1>2 DEF vars, NegoRowBacked
<1>3. QED BY <1>1, <1>2

(* Every negotiated row carries the dates of an active grant: requests of  *)
(* the negotiation desk and the board never part.                          *)
THEOREM NegotiatedRowsBacked == Spec => []NegoRowBacked
<1>1. Init => NegoRowBacked
  BY DEF Init, NegoRowBacked
<1>2. QED BY <1>1, InitType, NextType, NextBacked, PTL DEF Spec

-----------------------------------------------------------------------------
(* History of returned cells *)

(* A rebuild that leaves a cell without a row logs the return, or found no *)
(* row there.                                                              *)
LEMMA LogReturn ==
  ASSUME NEW log, NEW have, NEW want, NEW c \in Cells,
         \A w \in want : w.cell # c,
         (\A w \in have : w.cell # c) => log[c] = NoRule
  PROVE  LogBoard(log, have, want)[c] = NoRule
<1>1. ~\E v \in Written(have, want) : v.cell = c
  BY DEF Written
<1>2. ASSUME NEW w \in have, w.cell = c
      PROVE  w \in Dropped(have, want)
  BY <1>2 DEF Dropped, SameKey
<1>3. QED BY <1>1, <1>2 DEF LogBoard

(* Every step keeps the history of row-less cells at base.                 *)
LEMMA NextHistory == TypeOK /\ HistoryKnowsReturn /\ [Next]_vars => HistoryKnowsReturn'
<1> SUFFICES ASSUME TypeOK, HistoryKnowsReturn, [Next]_vars,
                    NEW a \in Accounts, NEW c \in Cells, \A w \in Rows(a)' : w.cell # c
             PROVE  latest'[a][c] = NoRule
  BY DEF HistoryKnowsReturn
<1>1. CASE Next
  <2>1. PICK A \in SUBSET Accounts : Refresh(A)
    BY <1>1, StepShape
  <2>2. CASE UnchangedBoard
    BY <2>2 DEF UnchangedBoard, HistoryKnowsReturn, Rows
  <2>3. CASE Rebuild(A)
    <3>1. enroll' \in Seq(Enrollment) /\ Len(enroll') <= MaxEnrollments
      BY <2>1 DEF Refresh, Table
    <3>2. PICK ord \in Orders :
            /\ \A b \in A : Rows(b)' = Expected(status', enroll', ord, b, today)
            /\ \A b \in Accounts \ A : Rows(b)' = Rows(b)
            /\ latest' = [b \in Accounts |->
                 IF b \in A THEN LogBoard(latest[b], Rows(b), Expected(status', enroll', ord, b, today))
                 ELSE latest[b]]
      BY <2>3, <3>1, RebuildWrites
    <3>3. (\A w \in Rows(a) : w.cell # c) => latest[a][c] = NoRule
      BY DEF HistoryKnowsReturn
    <3>4. CASE a \in A
      BY <3>2, <3>3, <3>4, LogReturn
    <3>5. CASE a \notin A
      BY <3>2, <3>3, <3>5
    <3>6. QED BY <3>4, <3>5
  <2>4. QED BY <2>1, <2>2, <2>3 DEF Refresh
<1>2. CASE UNCHANGED vars
  BY <1>2 DEF vars, HistoryKnowsReturn, Rows
<1>3. QED BY <1>1, <1>2

(* A cell that fell back to its base fee says so in the history.           *)
THEOREM HistoryReturns == Spec => []HistoryKnowsReturn
<1>1. Init => HistoryKnowsReturn
  BY DEF Init, HistoryKnowsReturn
<1>2. QED BY <1>1, InitType, NextType, NextHistory, PTL DEF Spec

-----------------------------------------------------------------------------
(* Incremental refresh reaches everybody it must *)

(* An account's gate and the dates a winner brings depend on no more than  *)
(* its standing.                                                           *)
LEMMA SamePasses ==
  ASSUME NEW en, NEW en2, Table(en), NEW ord \in Orders, NEW a, NEW d, NEW r \in Rules,
         SameStanding(en, en2, a)
  PROVE  Passes(en2, ord, a, r, d) = Passes(en, ord, a, r, d)
<1>1. Rule[r].type \in {"NEGOTIATED", "EVENT", "BASE"}
  BY PolicyAssumption DEF RuleRecord, RuleType
<1>2. CASE Rule[r].type = "NEGOTIATED"
  <2>1. HasActiveEnrollment(en2, a, r, d) = HasActiveEnrollment(en, a, r, d)
    BY <1>2 DEF SameStanding, HasActiveEnrollment
  <2>2. QED BY <1>2, <2>1 DEF Passes
<1>3. CASE Rule[r].type = "EVENT"
  <2> DEFINE dated(e) == {i \in Mine(e, a, r) : e[i].at # NoDate}
  <2>1. Mine(en2, a, r) = Mine(en, a, r) /\ \A i \in Mine(en, a, r) : en2[i].at = en[i].at
    BY <1>3 DEF SameStanding
  <2>2. IsTarget(en2, a, r) = IsTarget(en, a, r)
    BY <2>1 DEF IsTarget
  <2>3. dated(en2) = dated(en)
    BY <2>1
  <2>4. dated(en) # {} => First(dated(en), ord) \in dated(en)
    BY FirstInSet, OrderIsNat DEF Mine, Table
  <2>5. dated(en) # {} => en2[First(dated(en2), ord)].at = en[First(dated(en), ord)].at
    BY <2>1, <2>3, <2>4
  <2>6. IsBenefitActive(en2, ord, a, r, d) = IsBenefitActive(en, ord, a, r, d)
    BY <2>3, <2>5 DEF IsBenefitActive
  <2>7. QED BY <1>3, <2>2, <2>6 DEF Passes
<1>4. CASE Rule[r].type = "BASE"
  BY <1>4 DEF Passes
<1>5. QED BY <1>1, <1>2, <1>3, <1>4

(* Enrollments that agree on a passing account give its winner one window. *)
LEMMA SameWindow ==
  ASSUME NEW en, NEW en2, Table(en), NEW ord \in Orders, NEW a, NEW r \in Rules,
         SameStanding(en, en2, a)
  PROVE  Window(en2, ord, a, r) = Window(en, ord, a, r)
<1>1. CASE Rule[r].type = "NEGOTIATED"
  <2>1. /\ ActiveOf(en2, a, r) = ActiveOf(en, a, r)
        /\ \A i \in ActiveOf(en, a, r) : en2[i].from = en[i].from /\ en2[i].to = en[i].to
    BY <1>1 DEF SameStanding
  <2>2. ActiveOf(en, a, r) # {} => First(ActiveOf(en, a, r), ord) \in ActiveOf(en, a, r)
    BY FirstInSet, OrderIsNat DEF ActiveOf, Mine, Table
  <2>3. QED BY <1>1, <2>1, <2>2 DEF Window
<1>2. CASE Rule[r].type = "EVENT"
  <2>1. Mine(en2, a, r) = Mine(en, a, r) /\ \A i \in Mine(en, a, r) : en2[i].at = en[i].at
    BY <1>2 DEF SameStanding
  <2>2. Mine(en, a, r) # {} => First(Mine(en, a, r), ord) \in Mine(en, a, r)
    BY FirstInSet, OrderIsNat DEF Mine, Table
  <2>3. QED BY <1>2, <2>1, <2>2 DEF Window
<1>3. CASE Rule[r].type \notin {"NEGOTIATED", "EVENT"}
  BY <1>3 DEF Window
<1>4. QED BY <1>1, <1>2, <1>3

(* The rows the policies call for depend only on the account's standing    *)
(* and on which rules of its opened classes are active.                    *)
LEMMA SameExpected ==
  ASSUME NEW st, NEW st2, NEW en, NEW en2, Table(en), NEW ord \in Orders,
         NEW a \in Accounts, NEW d,
         SameStanding(en, en2, a), SameRules(st, st2, a)
  PROVE  Expected(st2, en2, ord, a, d) = Expected(st, en, ord, a, d)
<1> DEFINE mine(s) == {c \in Universe(Active(s)) : ClassOf[c.base] \in Opened[a]}
           near(s, b) == {q \in Active(s) : b \in Rule[q].bases}
           win(s, e, c) == Winner(s, e, ord, a, c, d)
<1>1. \A r \in Rules : \A b \in Rule[r].bases : ClassOf[b] = Rule[r].class
  BY PolicyAssumption
<1>2. ASSUME NEW b, ClassOf[b] \in Opened[a]
      PROVE  near(st2, b) = near(st, b)
  BY <1>1, <1>2 DEF SameRules, Active
<1>3. ASSUME NEW b, ClassOf[b] \in Opened[a]
      PROVE  /\ NamedSessions(b, Active(st2)) = NamedSessions(b, Active(st))
             /\ NamedChannels(b, Active(st2)) = NamedChannels(b, Active(st))
  <2>1. \A s : /\ {q \in Active(s) : b \in Rule[q].bases /\ Star \notin Rule[q].sessions}
                    = {q \in near(s, b) : Star \notin Rule[q].sessions}
               /\ {q \in Active(s) : b \in Rule[q].bases /\ Star \notin Rule[q].channels}
                    = {q \in near(s, b) : Star \notin Rule[q].channels}
    OBVIOUS
  <2>2. near(st2, b) = near(st, b)
    BY <1>2, <1>3
  <2> HIDE DEF near
  <2>3. QED BY <2>1, <2>2 DEF NamedSessions, NamedChannels
<1>4. mine(st2) = mine(st)
  BY <1>3 DEF Universe
<1>5. ASSUME NEW c \in mine(st)
      PROVE  win(st2, en2, c) = win(st, en, c)
  <2>1. \A r \in Rules : Matches(r, c) => Rule[r].class \in Opened[a]
    BY <1>1 DEF Matches
  <2>2. \A r \in Rules : Matches(r, c) => (InRanking(st2, r, d) <=> InRanking(st, r, d))
    BY <2>1 DEF SameRules, InRanking
  <2>3. \A r \in Rules : Passes(en2, ord, a, r, d) = Passes(en, ord, a, r, d)
    BY SamePasses
  <2>4. {r \in Rules : InRanking(st2, r, d) /\ Matches(r, c) /\ Passes(en2, ord, a, r, d)}
          = {r \in Rules : InRanking(st, r, d) /\ Matches(r, c) /\ Passes(en, ord, a, r, d)}
    BY <2>2, <2>3
  <2>5. QED BY <2>4 DEF Winner
<1>6. \A c \in mine(st) : win(st, en, c) # NoRule =>
        Window(en2, ord, a, win(st, en, c)) = Window(en, ord, a, win(st, en, c))
  <2>1. \A c : win(st, en, c) # NoRule => win(st, en, c) \in Rules
    BY WinnerIsCheapest
  <2>2. QED BY <2>1, SameWindow
<1> DEFINE cellRow(s, e, c) == WantedIn(s, e, ord, a, c, d)
<1> HIDE DEF mine
<1>7. ASSUME NEW c \in mine(st)
      PROVE  cellRow(st2, en2, c) = cellRow(st, en, c)
  <2>1. win(st2, en2, c) = win(st, en, c)
    BY <1>5
  <2>2. CASE win(st, en, c) = NoRule
    BY <2>1, <2>2 DEF WantedIn
  <2>3. CASE win(st, en, c) # NoRule
    <3>1. Window(en2, ord, a, win(st, en, c)) = Window(en, ord, a, win(st, en, c))
      BY <1>6, <2>3
    <3>2. QED BY <2>1, <3>1 DEF WantedIn
  <2>4. QED BY <2>2, <2>3
<1>8. /\ Expected(st2, en2, ord, a, d) = UNION {cellRow(st2, en2, c) : c \in mine(st2)}
      /\ Expected(st, en, ord, a, d) = UNION {cellRow(st, en, c) : c \in mine(st)}
  BY Zenon DEF Expected, mine
<1> HIDE DEF cellRow
<1>9. QED BY <1>4, <1>7, <1>8

(* One step of the day leaves a fresh account fresh.                       *)
LEMMA NextKeepsFresh ==
  ASSUME TypeOK, [Next]_vars, today' = today, NoActiveRejected,
         NEW a \in Accounts, Fresh(a)
  PROVE  Fresh(a)'
<1>1. CASE Next
  <2>1. PICK A \in SUBSET Accounts : Refresh(A)
    BY <1>1, StepShape
  <2>2. enroll' \in Seq(Enrollment) /\ Len(enroll') <= MaxEnrollments /\ Table(enroll)
    BY <2>1 DEF Refresh, Table, TypeOK
  <2>3. CASE a \notin A
    <3>1. PICK ord \in Orders : Rows(a) = Expected(status, enroll, ord, a, today)
      BY DEF Fresh, FreshOn
    <3>2. Expected(status', enroll', ord, a, today) = Expected(status, enroll, ord, a, today)
      BY <2>1, <2>2, <2>3, SameExpected DEF Refresh
    <3>3. Rows(a)' = Rows(a)
      <4>1. CASE UnchangedBoard
        BY <4>1 DEF UnchangedBoard, Rows
      <4>2. CASE Rebuild(A)
        BY <2>2, <2>3, <4>2, RebuildWrites
      <4>3. QED BY <2>1, <4>1, <4>2 DEF Refresh
    <3>4. QED BY <3>1, <3>2, <3>3 DEF Fresh, FreshOn
  <2>4. CASE a \in A
    <3>1. Rebuild(A)
      BY <2>1, <2>4 DEF Refresh
    <3>2. PICK ord \in Orders : Rows(a)' = Expected(status', enroll', ord, a, today)
      BY <2>2, <2>4, <3>1, RebuildWrites
    <3>3. QED BY <3>2 DEF Fresh, FreshOn
  <2>5. QED BY <2>3, <2>4
<1>2. CASE UNCHANGED vars
  BY <1>2 DEF vars, Fresh, FreshOn, Rows
<1>3. QED BY <1>1, <1>2

(* An approval, an expiry, a grant, an extension or an enrollment rebuilds *)
(* every account whose board it makes wrong: accountsForRule (the opened   *)
(* class), accountIdsOfRequest and the extended accounts are enough.       *)
THEOREM IncrementalIsComplete == Spec => IncrementalKeepsFresh
<1>1. TypeOK /\ [Next]_vars =>
        [ /\ today' = today
          /\ \A r \in Rules : status[r] = "ACTIVE" => status'[r] # "REJECTED"
          => \A a \in Accounts : Fresh(a) => Fresh(a)' ]_vars
  BY NextKeepsFresh DEF NoActiveRejected
<1>2. QED BY <1>1, TypeCorrect, PTL DEF Spec, IncrementalKeepsFresh

-----------------------------------------------------------------------------
(* The full rebuild *)

(* The rebuild of all accounts writes to each the rows it is owed.         *)
LEMMA RebuiltIsFresh ==
  ASSUME TypeOK, FullRebuild
  PROVE  \A a \in Accounts : Fresh(a)'
<1>1. enroll' = enroll /\ today' = today /\ status' = status /\ Rebuild(Accounts)
  BY DEF FullRebuild
<1>2. PICK ord \in Orders :
        \A a \in Accounts : Rows(a)' = Expected(status', enroll', ord, a, today)
  BY <1>1, RebuildWrites DEF TypeOK
<1>3. QED BY <1>1, <1>2 DEF Fresh, FreshOn

(* Whatever rejections, days and moved ends left behind, one full rebuild  *)
(* repairs every board.                                                    *)
THEOREM FullRebuildRepairs == Spec => RebuildRepairs
<1>1. TypeOK /\ [Next]_vars => [FullRebuild => \A a \in Accounts : Fresh(a)']_vars
  BY RebuiltIsFresh
<1>2. QED BY <1>1, TypeCorrect, PTL DEF Spec, RebuildRepairs

-----------------------------------------------------------------------------
(* Decided grants *)

(* A decided enrollment keeps its decision and its start.                  *)
KeptDecision(e, f) ==
  e.status # "REQUESTED" => f.status = e.status /\ f.from = e.from

(* And its end as well: what every step but an extension of it leaves.     *)
KeptGrant(e, f) == KeptDecision(e, f) /\ (e.status # "REQUESTED" => f.to = e.to)

(* No step re-decides an enrollment, and one that moves its end extends it. *)
LEMMA NextGrant ==
  ASSUME TypeOK, [Next]_vars, NEW i \in DOMAIN enroll
  PROVE  \/ KeptGrant(enroll[i], enroll'[i])
         \/ KeptDecision(enroll[i], enroll'[i]) /\ Extends(i)
<1>1. enroll \in Seq(Enrollment) /\ enroll[i] \in Enrollment /\ enroll[i].to \in Nat
  BY EnrollFields DEF TypeOK, Enrollment
<1>2. ASSUME enroll'[i] = enroll[i] PROVE KeptGrant(enroll[i], enroll'[i])
  BY <1>1, <1>2 DEF KeptGrant, KeptDecision
<1>3. CASE enroll' = enroll
  BY <1>2, <1>3
<1>4. ASSUME NEW as \in Batches, NEW r \in Rules, CreateRequests(as, r)
      PROVE  KeptGrant(enroll[i], enroll'[i])
  <2> DEFINE new == [n \in 1..Len(as) |-> NewRequest(as[n], r, as)]
  <2>1. new \in Seq({new[n] : n \in 1..Len(as)})
    <3>1. Len(as) \in Nat
      BY BindingAssumption, LenProperties
    <3>2. QED BY <3>1, ListOf
  <2> HIDE DEF new
  <2>2. PICK S : enroll \in Seq(S) /\ new \in Seq(S)
    <3> DEFINE S == Enrollment \cup {new[n] : n \in 1..Len(as)}
    <3>1. enroll \in Seq(S) /\ new \in Seq(S)
      BY <1>1, <2>1, SeqMonotonic
    <3>2. QED BY <3>1
  <2>3. (enroll \o new)[i] = enroll[i]
    BY <2>2, AppendedRows
  <2>4. QED BY <1>2, <1>4, <2>3 DEF CreateRequests, new
<1>5. ASSUME NEW q, ApproveNego(q) \/ RejectNego(q)
      PROVE  KeptGrant(enroll[i], enroll'[i])
  <2>1. i \notin Undecided(q) => enroll'[i] = enroll[i]
    BY <1>5 DEF ApproveNego, RejectNego
  <2>2. i \in Undecided(q) => enroll[i].status = "REQUESTED"
    BY DEF Undecided
  <2>3. QED BY <1>2, <2>1, <2>2 DEF KeptGrant, KeptDecision
<1>6. ASSUME NEW ids \in SUBSET DOMAIN enroll, NEW n \in Extensions, Extend(ids, n)
      PROVE  \/ KeptGrant(enroll[i], enroll'[i])
             \/ KeptDecision(enroll[i], enroll'[i]) /\ Extends(i)
  <2>1. \/ enroll'[i] = enroll[i]
        \/ i \in ids /\ enroll'[i] = [enroll[i] EXCEPT !.to = enroll[i].to + n]
    BY <1>6 DEF Extend
  <2>2. \A e \in Enrollment : \A m :
          [e EXCEPT !.to = m].status = e.status /\ [e EXCEPT !.to = m].from = e.from
    BY DEF Enrollment
  <2>3. CASE i \in ids /\ enroll'[i] = [enroll[i] EXCEPT !.to = enroll[i].to + n]
    <3>1. KeptDecision(enroll[i], enroll'[i])
      BY <1>1, <2>2, <2>3 DEF KeptDecision
    <3>2. Extends(i)
      BY <1>6, <2>3 DEF Extends
    <3>3. QED BY <3>1, <3>2
  <2>4. QED BY <1>2, <2>1, <2>3
<1>7. ASSUME NEW a \in Accounts, NEW r \in Rules, Enroll(a, r)
      PROVE  KeptGrant(enroll[i], enroll'[i])
  <2>1. i \in 1..Len(enroll)
    BY <1>1
  <2>2. enroll'[i] = enroll[i]
    BY <1>1, <1>7, <2>1 DEF Enroll
  <2>3. QED BY <1>2, <2>2
<1>8. CASE RuleStep
  BY <1>3, <1>8 DEF RuleStep, CreateDraft, Submit, Approve, Reject, Expire
<1>9. CASE NegoStep
  BY <1>4, <1>5, <1>6, <1>9 DEF NegoStep
<1>10. CASE EnrollStep
  BY <1>7, <1>10, BindingAssumption DEF EnrollStep
<1>11. CASE BatchStep
  BY <1>3, <1>11 DEF BatchStep, FullRebuild, Delta, RebuildIndex, Restart, NextDay
<1>12. CASE UNCHANGED vars
  BY <1>3, <1>12 DEF vars
<1>13. QED BY <1>8, <1>9, <1>10, <1>11, <1>12 DEF Next

(* Duplicate requests and second decisions never re-date or revoke a       *)
(* grant, and nothing moves its end but an extension that names it,        *)
(* whatever months, positive or negative, an extension may ask for.        *)
THEOREM GrantsAreDecidedOnce == Spec => GrantDecidedOnce
<1>1. TypeOK /\ [Next]_vars =>
        [ \A i \in DOMAIN enroll : enroll[i].status # "REQUESTED" =>
            /\ enroll'[i].status = enroll[i].status
            /\ enroll'[i].from = enroll[i].from
            /\ enroll'[i].to = enroll[i].to \/ Extends(i) ]_vars
  BY NextGrant DEF KeptGrant, KeptDecision
<1>2. QED BY <1>1, TypeCorrect, PTL DEF Spec, GrantDecidedOnce

-----------------------------------------------------------------------------
(* Stored ranks *)

(* Every step keeps active rules stamped once an index exists.             *)
LEMMA NextStamped == TypeOK /\ RankStamped /\ [Next]_vars => RankStamped'
<1> SUFFICES ASSUME TypeOK, RankStamped, [Next]_vars PROVE RankStamped'
  OBVIOUS
<1>1. ASSUME RebuildAll PROVE RankStamped'
  BY <1>1 DEF RebuildAll, RankStamped
<1>2. ASSUME UnchangedIndex, Active(status') \subseteq Active(status) PROVE RankStamped'
  BY <1>2 DEF UnchangedIndex, RankStamped
<1>3. ASSUME NEW r \in Rules, CreateDraft(r) \/ Submit(r) \/ Reject(r)
      PROVE  RankStamped'
  <2>1. Active(status') \subseteq Active(status)
    BY <1>3 DEF CreateDraft, Submit, Reject, Active, TypeOK
  <2>2. QED BY <1>2, <1>3, <2>1 DEF CreateDraft, Submit, Reject
<1>4. CASE RuleStep
  BY <1>1, <1>3, <1>4 DEF RuleStep, Approve, Expire
<1>5. CASE NegoStep \/ EnrollStep
  BY <1>2, <1>5 DEF NegoStep, EnrollStep, CreateRequests, ApproveNego, RejectNego, Extend, Enroll
<1>6. CASE BatchStep
  BY <1>1, <1>2, <1>6 DEF BatchStep, FullRebuild, Delta, RebuildIndex, Restart, NextDay
<1>7. CASE UNCHANGED vars
  BY <1>2, <1>7 DEF vars, UnchangedIndex
<1>8. QED BY <1>4, <1>5, <1>6, <1>7 DEF Next

(* From the first index build on, no active rule lacks its stored rank.    *)
THEOREM RanksStamped == Spec => []RankStamped
<1>1. Init => RankStamped
  BY DEF Init, RankStamped
<1>2. QED BY <1>1, InitType, NextType, NextStamped, PTL DEF Spec

-----------------------------------------------------------------------------
(* Dates of a winner *)

(* Applications carry their date: only negotiated requests come undated.   *)
EventsDated ==
  \A i \in DOMAIN enroll :
    Rule[enroll[i].rule].type # "NEGOTIATED" => enroll[i].at # NoDate

(* Requests are filed for negotiated rules and applications are dated.     *)
LEMMA NextDated == TypeOK /\ EventsDated /\ [Next]_vars => EventsDated'
<1> SUFFICES ASSUME TypeOK, EventsDated, [Next]_vars PROVE EventsDated'
  OBVIOUS
<1>1. enroll \in Seq(Enrollment) /\ today # NoDate
  BY DEF TypeOK, NoDate
<1>2. CASE enroll' = enroll
  BY <1>2 DEF EventsDated
<1>3. ASSUME NEW as \in Batches, NEW r \in Rules, CreateRequests(as, r)
      PROVE  EventsDated'
  <2> DEFINE new == [n \in 1..Len(as) |-> NewRequest(as[n], r, as)]
  <2>1. new \in Seq({new[n] : n \in 1..Len(as)})
    <3>1. Len(as) \in Nat
      BY BindingAssumption, LenProperties
    <3>2. QED BY <3>1, ListOf
  <2>2. \A n \in DOMAIN new : new[n].rule = r
    BY DEF NewRequest
  <2>3. enroll' = enroll \o new /\ Rule[r].type = "NEGOTIATED"
    BY <1>3 DEF CreateRequests
  <2> HIDE DEF new
  <2>4. PICK S : enroll \in Seq(S) /\ new \in Seq(S)
    <3> DEFINE S == Enrollment \cup {new[n] : n \in 1..Len(as)}
    <3>1. enroll \in Seq(S) /\ new \in Seq(S)
      BY <1>1, <2>1, SeqMonotonic
    <3>2. QED BY <3>1
  <2>5. /\ \A i \in DOMAIN enroll : enroll'[i] = enroll[i]
        /\ \A i \in DOMAIN enroll' \ DOMAIN enroll : \E n \in DOMAIN new : enroll'[i] = new[n]
    BY <2>3, <2>4, AppendedRows
  <2> SUFFICES ASSUME NEW i \in DOMAIN enroll', Rule[enroll'[i].rule].type # "NEGOTIATED"
               PROVE  enroll'[i].at # NoDate
    BY Zenon DEF EventsDated
  <2>6. i \in DOMAIN enroll
    BY <2>2, <2>3, <2>5
  <2>7. QED BY <2>5, <2>6 DEF EventsDated
<1>4. ASSUME DOMAIN enroll' = DOMAIN enroll,
             \A i \in DOMAIN enroll : enroll'[i].rule = enroll[i].rule /\ enroll'[i].at = enroll[i].at
      PROVE  EventsDated'
  BY <1>4 DEF EventsDated
<1>5. \A i \in DOMAIN enroll : enroll[i] \in Enrollment
  BY <1>1, EnrollFields
<1>6. ASSUME NEW q, ApproveNego(q) \/ RejectNego(q)
      PROVE  EventsDated'
  <2>1. \A e \in Enrollment : \A f, m, n :
          /\ [e EXCEPT !.status = f].rule = e.rule /\ [e EXCEPT !.status = f].at = e.at
          /\ [e EXCEPT !.status = f, !.from = m, !.to = n].rule = e.rule
          /\ [e EXCEPT !.status = f, !.from = m, !.to = n].at = e.at
    BY DEF Enrollment
  <2>2. CASE ApproveNego(q)
    <3> DEFINE f == [i \in DOMAIN enroll |->
                       IF i \in Undecided(q)
                       THEN [enroll[i] EXCEPT !.status = "ACTIVE", !.from = today, !.to = today + NegoTerm]
                       ELSE enroll[i]]
    <3>1. enroll' = f
      BY <2>2 DEF ApproveNego
    <3>2. \A i \in DOMAIN enroll : f[i].rule = enroll[i].rule /\ f[i].at = enroll[i].at
      BY <1>5, <2>1
    <3>3. DOMAIN f = DOMAIN enroll
      OBVIOUS
    <3> HIDE DEF f
    <3>4. QED BY <1>4, <3>1, <3>2, <3>3
  <2>3. CASE RejectNego(q)
    BY <1>4, <1>5, <2>1, <2>3 DEF RejectNego
  <2>4. QED BY <1>6, <2>2, <2>3
<1>7. ASSUME NEW ids, NEW n, Extend(ids, n)
      PROVE  EventsDated'
  <2>1. \A e \in Enrollment : \A m : [e EXCEPT !.to = m].rule = e.rule /\ [e EXCEPT !.to = m].at = e.at
    BY DEF Enrollment
  <2>2. QED BY <1>4, <1>5, <1>7, <2>1 DEF Extend
<1>8. ASSUME NEW a \in Accounts, NEW r \in Rules, Enroll(a, r)
      PROVE  EventsDated'
  <2> DEFINE row == [acct |-> a, rule |-> r, status |-> "ACTIVE", from |-> NoDate,
                     to |-> NoDate, at |-> today, req |-> NoReq]
  <2>1. enroll' = Append(enroll, row) /\ row.at = today
    BY <1>8 DEF Enroll
  <2> HIDE DEF row
  <2>2. /\ DOMAIN enroll' = DOMAIN enroll \cup {Len(enroll) + 1}
        /\ enroll'[Len(enroll) + 1] = row
        /\ \A i \in DOMAIN enroll : enroll'[i] = enroll[i]
    BY <1>1, <2>1
  <2>3. QED BY <1>1, <2>1, <2>2 DEF EventsDated
<1>9. CASE RuleStep
  BY <1>2, <1>9 DEF RuleStep, CreateDraft, Submit, Approve, Reject, Expire
<1>10. CASE NegoStep
  BY <1>3, <1>6, <1>7, <1>10 DEF NegoStep
<1>11. CASE EnrollStep
  BY <1>8, <1>11, BindingAssumption DEF EnrollStep
<1>12. CASE BatchStep
  BY <1>2, <1>12 DEF BatchStep, FullRebuild, Delta, RebuildIndex, Restart, NextDay
<1>13. CASE UNCHANGED vars
  BY <1>2, <1>13 DEF vars
<1>14. QED BY <1>9, <1>10, <1>11, <1>12, <1>13 DEF Next

(* A policy that passes the gate and is no base fee brings dates that      *)
(* cover the day, if the gate had only one grant to look at.                 *)
LEMMA WinnerDated ==
  ASSUME TypeOK, EventsDated, NEW ord \in Orders, NEW a, SingleGrant(a), NEW d,
         NEW r \in Rules, Rule[r].type # "BASE", Passes(enroll, ord, a, r, d)
  PROVE  LET win == Window(enroll, ord, a, r)
         IN  win.from # NoDate /\ win.from <= d /\ d <= win.to
<1>1. enroll \in Seq(Enrollment) /\ Len(enroll) <= MaxEnrollments
  BY DEF TypeOK
<1>2. Rule[r].type \in {"NEGOTIATED", "EVENT", "BASE"} /\ Rule[r].start # NoDate
      /\ Rule[r].relative \in BOOLEAN
  BY PolicyAssumption DEF RuleRecord, RuleType, Dates
<1>3. CASE Rule[r].type = "NEGOTIATED"
  <2>1. PICK i \in ActiveOf(enroll, a, r) :
          /\ enroll[i].from # NoDate
          /\ enroll[i].from <= d /\ d <= enroll[i].to
    BY <1>3 DEF Passes, HasActiveEnrollment
  <2>2. First(ActiveOf(enroll, a, r), ord) \in ActiveOf(enroll, a, r)
    BY <1>1, <2>1, FirstInSet, OrderIsNat DEF ActiveOf, Mine
  <2>3. First(ActiveOf(enroll, a, r), ord) = i
    BY <1>3, <2>2 DEF SingleGrant
  <2>4. Window(enroll, ord, a, r) = [from |-> enroll[i].from, to |-> enroll[i].to]
    BY <1>3, <2>1, <2>3 DEF Window
  <2>5. QED BY <2>1, <2>4
<1>4. CASE Rule[r].type = "EVENT" /\ ~Rule[r].relative
  <2>1. Rule[r].start <= d /\ d <= Rule[r].end
    BY <1>4 DEF Passes, IsBenefitActive
  <2>2. Window(enroll, ord, a, r) = [from |-> Rule[r].start, to |-> Rule[r].end]
    BY <1>4 DEF Window
  <2>3. QED BY <1>2, <2>1, <2>2
<1>5. CASE Rule[r].type = "EVENT" /\ Rule[r].relative
  <2> DEFINE mine == Mine(enroll, a, r)
             at   == enroll[First(mine, ord)].at
  <2>1. \A i \in mine : enroll[i].at # NoDate
    BY <1>5 DEF EventsDated, Mine
  <2>2. {i \in mine : enroll[i].at # NoDate} = mine
    BY <2>1
  <2>3. mine # {} /\ at <= d /\ d <= at + Rule[r].months
    BY <1>5, <2>2 DEF Passes, IsBenefitActive
  <2>4. First(mine, ord) \in mine
    BY <1>1, <2>3, FirstInSet, OrderIsNat DEF Mine
  <2>5. Window(enroll, ord, a, r) = [from |-> at, to |-> at + Rule[r].months]
    BY <1>5, <2>1, <2>3, <2>4 DEF Window
  <2>6. QED BY <2>1, <2>3, <2>4, <2>5
<1>6. QED BY <1>2, <1>3, <1>4, <1>5

-----------------------------------------------------------------------------
(* The daily delta *)

(* Overnight no policy begins to fit an account the delta leaves alone,    *)
(* and one that stops fitting was stored with yesterday as its end.        *)
LEMMA DayTurns ==
  ASSUME TypeOK, EventsDated, NEW a \in Accounts, a \notin DeltaAccounts,
         NoSilentEnd(a), SingleGrant(a), NothingSinceDawn(a), NEW ord \in Orders,
         NEW r \in Active(status), Rule[r].class \in Opened[a]
  PROVE  LET fits(d) == InRanking(status, r, d) /\ Passes(enroll, ord, a, r, d)
         IN  /\ fits(today) => fits(today - 1)
             /\ fits(today - 1) /\ ~fits(today) =>
                  Rule[r].type # "BASE" /\ Window(enroll, ord, a, r).to = today - 1
<1> DEFINE fits(d) == InRanking(status, r, d) /\ Passes(enroll, ord, a, r, d)
           win == Window(enroll, ord, a, r)
<1>1. enroll \in Seq(Enrollment) /\ Len(enroll) <= MaxEnrollments /\ today \in Nat
  BY DEF TypeOK
<1>2. /\ r \in Rules /\ status[r] = "ACTIVE"
      /\ Rule[r].type \in {"NEGOTIATED", "EVENT", "BASE"} /\ Rule[r].relative \in BOOLEAN
      /\ Rule[r].start \in Nat /\ Rule[r].end \in Nat /\ Rule[r].months \in Nat
  BY PolicyAssumption DEF RuleRecord, RuleType, Dates, Active
<1>3. Rule[r].start # today
  BY <1>2 DEF DeltaAccounts, AccountsForRule, OpenedGroup
<1>4. Rule[r].type # "EVENT" => Rule[r].end # today - 1
  BY DEF NoSilentEnd
<1>5. \A i \in DOMAIN enroll :
        /\ enroll[i].from \in Nat /\ enroll[i].to \in Nat /\ enroll[i].at \in Nat
        /\ enroll[i].acct = a => enroll[i].from # today /\ enroll[i].at # today
  BY <1>1, EnrollFields DEF Enrollment, NothingSinceDawn
<1>6. CASE Rule[r].type = "BASE"
  BY <1>1, <1>2, <1>3, <1>4, <1>6 DEF InRanking, Passes
<1>7. CASE Rule[r].type = "NEGOTIATED"
  <2>1. \A d : fits(d) <=> /\ Rule[r].start <= d /\ d <= Rule[r].end
                           /\ HasActiveEnrollment(enroll, a, r, d)
    BY <1>2, <1>7 DEF InRanking, Passes
  <2>2. ASSUME HasActiveEnrollment(enroll, a, r, today)
        PROVE  HasActiveEnrollment(enroll, a, r, today - 1)
    <3>1. PICK i \in ActiveOf(enroll, a, r) :
            /\ enroll[i].from # NoDate /\ enroll[i].to # NoDate
            /\ enroll[i].from <= today /\ today <= enroll[i].to
      BY <2>2 DEF HasActiveEnrollment
    <3>2. i \in DOMAIN enroll /\ enroll[i].acct = a
      BY DEF ActiveOf, Mine
    <3>3. enroll[i].from <= today - 1 /\ today - 1 <= enroll[i].to
      BY <1>1, <1>5, <3>1, <3>2
    <3>4. QED BY <3>1, <3>3 DEF HasActiveEnrollment
  <2>3. ASSUME HasActiveEnrollment(enroll, a, r, today - 1), ~HasActiveEnrollment(enroll, a, r, today)
        PROVE  win.to = today - 1
    <3>1. PICK i \in ActiveOf(enroll, a, r) :
            /\ enroll[i].from # NoDate /\ enroll[i].to # NoDate
            /\ enroll[i].from <= today - 1 /\ today - 1 <= enroll[i].to
      BY <2>3 DEF HasActiveEnrollment
    <3>2. i \in DOMAIN enroll
      BY DEF ActiveOf, Mine
    <3>3. ~(enroll[i].from <= today /\ today <= enroll[i].to)
      BY <2>3, <3>1 DEF HasActiveEnrollment
    <3>4. enroll[i].to = today - 1
      BY <1>1, <1>5, <3>1, <3>2, <3>3
    <3>5. First(ActiveOf(enroll, a, r), ord) \in ActiveOf(enroll, a, r)
      BY <1>1, FirstInSet, OrderIsNat DEF ActiveOf, Mine
    <3>6. First(ActiveOf(enroll, a, r), ord) = i
      BY <1>2, <1>7, <3>5 DEF SingleGrant
    <3>7. QED BY <1>7, <3>4, <3>6 DEF Window
  <2>4. /\ fits(today) => Rule[r].start <= today - 1 /\ today - 1 <= Rule[r].end
        /\ fits(today - 1) => Rule[r].start <= today /\ today <= Rule[r].end
    BY <1>1, <1>2, <1>3, <1>4, <1>7, <2>1
  <2> HIDE DEF fits, win
  <2>5. QED BY <1>7, <2>1, <2>2, <2>3, <2>4 DEF fits, win
<1>8. CASE Rule[r].type = "EVENT" /\ ~Rule[r].relative
  <2>1. \A d : fits(d) <=> Rule[r].start <= d /\ d <= Rule[r].end /\ IsTarget(enroll, a, r)
    BY <1>2, <1>8 DEF InRanking, Passes, IsBenefitActive
  <2>2. win.to = Rule[r].end
    BY <1>8 DEF Window
  <2> HIDE DEF fits, win
  <2>3. QED BY <1>1, <1>2, <1>3, <1>8, <2>1, <2>2 DEF fits, win
<1>9. CASE Rule[r].type = "EVENT" /\ Rule[r].relative
  <2> DEFINE mine == Mine(enroll, a, r)
             at   == enroll[First(mine, ord)].at
  <2>1. {i \in mine : enroll[i].at # NoDate} = mine
    BY <1>9 DEF EventsDated, Mine
  <2>2. \A d : fits(d) <=> /\ IsTarget(enroll, a, r)
                           /\ mine # {} /\ at <= d /\ d <= at + Rule[r].months
    BY <1>2, <1>9, <2>1 DEF InRanking, Passes, IsBenefitActive
  <2>3. ASSUME mine # {}
        PROVE  at \in Nat /\ at # today /\ win.to = at + Rule[r].months
    <3>1. First(mine, ord) \in mine
      BY <1>1, <2>3, FirstInSet, OrderIsNat DEF Mine
    <3>2. at \in Nat /\ at # today /\ at # NoDate
      BY <1>5, <2>1, <3>1 DEF Mine
    <3>3. QED BY <1>9, <2>3, <3>2 DEF Window
  <2> HIDE DEF fits, win, mine, at
  <2>4. QED BY <1>1, <1>2, <1>9, <2>2, <2>3 DEF fits, win
<1>10. QED BY <1>2, <1>6, <1>7, <1>8, <1>9

(* So each cell has the winner of yesterday: had that one stopped fitting, *)
(* its row would have ended yesterday.                                     *)
LEMMA DayKeepsRows ==
  ASSUME TypeOK, EventsDated, NEW a \in Accounts, a \notin DeltaAccounts,
         NoSilentEnd(a), SingleGrant(a), NothingSinceDawn(a), NEW ord \in Orders,
         Rows(a) = Expected(status, enroll, ord, a, today - 1)
  PROVE  Rows(a) = Expected(status, enroll, ord, a, today)
<1> DEFINE mine == {x \in Universe(Active(status)) : ClassOf[x.base] \in Opened[a]}
           fits(r, d) == InRanking(status, r, d) /\ Passes(enroll, ord, a, r, d)
           fit(c, d) == {r \in Rules : InRanking(status, r, d) /\ Matches(r, c)
                                        /\ Passes(enroll, ord, a, r, d)}
           win(c, d) == Winner(status, enroll, ord, a, c, d)
           cellRow(c, d) == WantedIn(status, enroll, ord, a, c, d)
<1>1. \A d : Expected(status, enroll, ord, a, d) = UNION {cellRow(c, d) : c \in mine}
  BY Zenon DEF Expected
<1>2. ASSUME NEW c \in mine PROVE cellRow(c, today) = cellRow(c, today - 1)
  <2> DEFINE w == win(c, today - 1)
  <2>1. \A r \in Rules : Matches(r, c) => Rule[r].class \in Opened[a]
    BY <1>2, PolicyAssumption DEF Matches
  <2>2. ASSUME NEW r \in Rules, Matches(r, c), status[r] = "ACTIVE"
        PROVE  /\ fits(r, today) => fits(r, today - 1)
               /\ fits(r, today - 1) /\ ~fits(r, today) =>
                    Rule[r].type # "BASE" /\ Window(enroll, ord, a, r).to = today - 1
    BY <2>1, <2>2, DayTurns DEF Active
  <2>3. fit(c, today) \subseteq fit(c, today - 1)
    BY <2>2 DEF InRanking
  <2>4. \A d : win(c, d) = NoRule <=> fit(c, d) = {}
    BY WinnerIsCheapest
  <2>5. ASSUME w # NoRule PROVE w \in fit(c, today)
    <3>1. w \in fit(c, today - 1)
      BY <2>4, <2>5, WinnerIsCheapest
    <3> HIDE DEF w
    <3>2. SUFFICES ASSUME ~fits(w, today) PROVE FALSE
      BY <3>1
    <3>3. Rule[w].type # "BASE" /\ Window(enroll, ord, a, w).to = today - 1
      BY <2>2, <3>1, <3>2 DEF InRanking
    <3>4. Window(enroll, ord, a, w).from # NoDate
      BY <3>1, <3>3, WinnerDated
    <3>5. ToRow(a, c, w, Window(enroll, ord, a, w)) \in cellRow(c, today - 1)
      BY <2>5, <3>3, <3>4 DEF WantedIn, w
    <3>6. ToRow(a, c, w, Window(enroll, ord, a, w)) \in Rows(a)
      BY <1>1, <1>2, <3>5
    <3>7. QED BY <3>3, <3>6 DEF Rows, ToRow, DeltaAccounts
  <2>6. win(c, today) = w
    <3>1. CASE w = NoRule
      BY <2>3, <2>4, <3>1
    <3>2. CASE w # NoRule
      <4> DEFINE S == fit(c, today)  T == fit(c, today - 1)
      <4>1. w = Top(T) /\ win(c, today) = Top(S)
        BY DEF Winner
      <4>2. S \in SUBSET Rules /\ T \in SUBSET Rules /\ S \subseteq T /\ w \in S
        BY <2>3, <2>5, <3>2
      <4> HIDE DEF S, T, w
      <4>3. \A s \in S \ {w} : Before(w, s)
        BY <4>1, <4>2, UniqueFirst
      <4>4. QED BY <4>1, <4>2, <4>3, UniqueFirst
    <3>3. QED BY <3>1, <3>2
  <2>7. QED BY <2>6 DEF WantedIn
<1>3. /\ Expected(status, enroll, ord, a, today) = UNION {cellRow(c, today) : c \in mine}
      /\ Expected(status, enroll, ord, a, today - 1) = UNION {cellRow(c, today - 1) : c \in mine}
  BY <1>1
<1> HIDE DEF cellRow, mine
<1>4. QED BY <1>2, <1>3

(* Rows that ended yesterday and rules that start today are enough to find *)
(* every account whose board the new day makes wrong (DeltaBatch), when no *)
(* stored row hides an end and the account asked for nothing today.        *)
THEOREM DeltaIsEnough == Spec => []DeltaFindsAll
<1>1. TypeOK /\ EventsDated => DeltaFindsAll
  BY DayKeepsRows DEF DeltaFindsAll, Fresh, FreshOn
<1>2. Init => EventsDated
  BY DEF Init, EventsDated
<1>3. QED BY <1>1, <1>2, InitType, NextType, NextDated, PTL DEF Spec

-----------------------------------------------------------------------------
(* 3. The read paths *)

(* The index *)

(* The index is empty or was built from rules among which all active ones  *)
(* still are: only an index rebuild adds an active rule.                   *)
IndexCovers ==
  \/ index = {}
  \/ \E S \in SUBSET Rules :
       /\ Active(status) \subseteq S
       /\ index = {p \in Universe(S) \X S : Matches(p[2], p[1])}

(* Every step keeps the index at least as wide as the active rules.        *)
LEMMA NextCovers == TypeOK /\ IndexCovers /\ [Next]_vars => IndexCovers'
<1> SUFFICES ASSUME TypeOK, IndexCovers, [Next]_vars PROVE IndexCovers'
  OBVIOUS
<1>1. ASSUME RebuildAll PROVE IndexCovers'
  <2>1. Active(status') \in SUBSET Rules
    BY DEF Active
  <2>2. QED BY <1>1, <2>1 DEF RebuildAll, IndexCovers, IndexRows
<1>2. ASSUME UnchangedIndex, Active(status') \subseteq Active(status) PROVE IndexCovers'
  BY <1>2 DEF UnchangedIndex, IndexCovers
<1>3. ASSUME NEW r \in Rules, CreateDraft(r) \/ Submit(r) \/ Reject(r)
      PROVE  IndexCovers'
  <2>1. Active(status') \subseteq Active(status)
    BY <1>3 DEF CreateDraft, Submit, Reject, Active, TypeOK
  <2>2. QED BY <1>2, <1>3, <2>1 DEF CreateDraft, Submit, Reject
<1>4. CASE RuleStep
  BY <1>1, <1>3, <1>4 DEF RuleStep, Approve, Expire
<1>5. CASE NegoStep \/ EnrollStep
  BY <1>2, <1>5 DEF NegoStep, EnrollStep, CreateRequests, ApproveNego, RejectNego, Extend, Enroll
<1>6. CASE BatchStep
  BY <1>1, <1>2, <1>6 DEF BatchStep, FullRebuild, Delta, RebuildIndex, Restart, NextDay
<1>7. CASE UNCHANGED vars
  BY <1>2, <1>7 DEF vars, UnchangedIndex
<1>8. QED BY <1>4, <1>5, <1>6, <1>7 DEF Next

(* A rule of the indexed set that matches a key is indexed in a cell the   *)
(* key reads: the wildcard cell on each axis the rule leaves open, the     *)
(* key's own value, which the rule then names, on each axis it restricts.  *)
LEMMA RuleIsIndexed ==
  ASSUME NEW S \in SUBSET Rules, NEW r \in S, NEW k \in Cells, Matches(r, k)
  PROVE  \E c \in Universe(S) :
           /\ Matches(r, c) /\ c.base = k.base
           /\ c.session \in {k.session, Star} /\ c.channel \in {k.channel, Star}
<1> DEFINE c == [base    |-> k.base,
                 session |-> IF Star \in Rule[r].sessions THEN Star ELSE k.session,
                 channel |-> IF Star \in Rule[r].channels THEN Star ELSE k.channel]
<1>1. /\ k.base \in Rule[r].bases /\ k.session \in Rule[r].sessions
      /\ k.channel \in Rule[r].channels
  BY DEF Matches
<1>2. c \in Cells
  BY DEF Cells
<1>3. c.session \in NamedSessions(c.base, S) \cup {Star}
  BY <1>1 DEF NamedSessions
<1>4. c.channel \in NamedChannels(c.base, S) \cup {Star}
  BY <1>1 DEF NamedChannels
<1>5. Matches(r, c)
  BY <1>1 DEF Matches
<1>6. QED BY <1>2, <1>3, <1>4, <1>5 DEF Universe

(* Of an index that covers the active rules a reader finds every policy of *)
(* the key, or none.                                                       *)
LEMMA IndexAgrees == TypeOK /\ IndexCovers => TopAgrees
<1> SUFFICES ASSUME IndexCovers, NEW k \in Cells
             PROVE  TopByIndex(k, today) = TopByComputation(k, today)
  BY DEF TopAgrees
<1> DEFINE usable == {r \in IndexedFor(k) : InRanking(status, r, today) /\ Matches(r, k)}
           all    == {r \in Rules : InRanking(status, r, today) /\ Matches(r, k)}
<1>1. CASE index = {}
  <2>1. IndexedFor(k) = {}
    BY <1>1 DEF IndexedFor
  <2>2. QED BY <2>1 DEF TopByIndex
<1>2. CASE \E S \in SUBSET Rules :
             /\ Active(status) \subseteq S
             /\ index = {p \in Universe(S) \X S : Matches(p[2], p[1])}
  <2>1. PICK S \in SUBSET Rules :
          /\ Active(status) \subseteq S
          /\ index = {p \in Universe(S) \X S : Matches(p[2], p[1])}
    BY <1>2
  <2>2. ASSUME NEW r \in all PROVE r \in IndexedFor(k)
    <3>1. r \in S /\ Matches(r, k)
      BY <2>1, <2>2 DEF Active, InRanking
    <3>2. PICK c \in Universe(S) :
            /\ Matches(r, c) /\ c.base = k.base
            /\ c.session \in {k.session, Star} /\ c.channel \in {k.channel, Star}
      BY <3>1, RuleIsIndexed
    <3>3. <<c, r>> \in index
      BY <2>1, <3>1, <3>2
    <3>4. QED BY <3>2, <3>3 DEF IndexedFor
  <2>3. IndexedFor(k) \subseteq Rules
    BY <2>1 DEF IndexedFor
  <2>4. usable = all
    BY <2>2, <2>3
  <2>5. QED BY <2>4 DEF TopByIndex, TopByComputation
<1>3. QED BY <1>1, <1>2 DEF IndexCovers

(* The stored ranking answers as the rules would, in every state: whatever *)
(* the index still lists, a reader's own check makes up for.               *)
THEOREM IndexedTopIsTop == Spec => []TopAgrees
<1>1. Init => IndexCovers
  BY DEF Init, IndexCovers
<1>2. QED BY <1>1, InitType, NextType, NextCovers, IndexAgrees, PTL DEF Spec

-----------------------------------------------------------------------------
(* The cell that stands for a key *)

Stands(k, act) ==
  [base    |-> k.base,
   session |-> IF k.session \in NamedSessions(k.base, act) THEN k.session ELSE Star,
   channel |-> IF k.channel \in NamedChannels(k.base, act) THEN k.channel ELSE Star]

(* The rules of a set that match a key are those that match its cell.      *)
LEMMA StandsFor ==
  ASSUME NEW act \in SUBSET Rules, NEW k \in Concrete
  PROVE  /\ Stands(k, act) \in Universe(act)
         /\ \A r \in act : Matches(r, k) <=> Matches(r, Stands(k, act))
<1> DEFINE c == Stands(k, act)
<1>1. k.base \in Bases /\ k.session \in Sessions /\ k.channel \in Channels
  BY DEF Concrete
<1>2. c \in Universe(act)
  BY <1>1 DEF Universe, Cells, Stands
<1>3. ASSUME NEW r \in act, k.base \in Rule[r].bases
      PROVE  k.session \in Rule[r].sessions <=> c.session \in Rule[r].sessions
  <2>1. c.session = IF k.session \in NamedSessions(k.base, act) THEN k.session ELSE Star
    BY DEF Stands
  <2>2. CASE Star \in Rule[r].sessions
    BY <1>1, <2>1, <2>2, ScopeAssumption
  <2>3. CASE Star \notin Rule[r].sessions
    <3>1. k.session \in Rule[r].sessions => k.session \in NamedSessions(k.base, act)
      BY <1>3, <2>3 DEF NamedSessions
    <3>2. QED BY <2>1, <2>3, <3>1
  <2>4. QED BY <2>2, <2>3
<1>4. ASSUME NEW r \in act, k.base \in Rule[r].bases
      PROVE  k.channel \in Rule[r].channels <=> c.channel \in Rule[r].channels
  <2>1. c.channel = IF k.channel \in NamedChannels(k.base, act) THEN k.channel ELSE Star
    BY DEF Stands
  <2>2. CASE Star \in Rule[r].channels
    BY <1>1, <2>1, <2>2, ScopeAssumption
  <2>3. CASE Star \notin Rule[r].channels
    <3>1. k.channel \in Rule[r].channels => k.channel \in NamedChannels(k.base, act)
      BY <1>4, <2>3 DEF NamedChannels
    <3>2. QED BY <2>1, <2>3, <3>1
  <2>4. QED BY <2>2, <2>3
<1>5. c.base = k.base
  BY DEF Stands
<1>6. ASSUME NEW r \in act PROVE Matches(r, k) <=> Matches(r, c)
  BY <1>3, <1>5, <1>4 DEF Matches
<1>7. QED BY <1>2, <1>6

(* The winner of a key is the winner of its cell.                          *)
LEMMA StandsWins ==
  ASSUME NEW ord, NEW a, NEW k \in Concrete
  PROVE  Winner(status, enroll, ord, a, Stands(k, Active(status)), today)
           = Winner(status, enroll, ord, a, k, today)
<1> DEFINE c == Stands(k, Active(status))
<1>1. Active(status) \in SUBSET Rules
  BY DEF Active
<1>2. \A r \in Rules : InRanking(status, r, today) => (Matches(r, k) <=> Matches(r, c))
  BY <1>1, StandsFor DEF Active, InRanking
<1>3. {r \in Rules : InRanking(status, r, today) /\ Matches(r, c) /\ Passes(enroll, ord, a, r, today)}
        = {r \in Rules : InRanking(status, r, today) /\ Matches(r, k) /\ Passes(enroll, ord, a, r, today)}
  BY <1>2
<1>4. QED BY <1>3 DEF Winner

(* The rows a trade finds lie in cells at most as special as its cell.     *)
LEMMA RowsOfKey ==
  ASSUME NEW ord, NEW a, NEW k \in Concrete, NEW w \in LookupRows(a, k, today),
         Rows(a) = Expected(status, enroll, ord, a, today)
  PROVE  LET c == Stands(k, Active(status))
         IN  /\ w.cell \in Cells /\ w.cell.base = k.base
             /\ w.cell.session \in {c.session, Star}
             /\ w.cell.channel \in {c.channel, Star}
<1>1. /\ w \in Expected(status, enroll, ord, a, today)
      /\ w.cell.base = k.base
      /\ w.cell.session \in {k.session, Star} /\ w.cell.channel \in {k.channel, Star}
  BY DEF LookupRows
<1>2. PICK d \in Universe(Active(status)) : w.cell = d
  BY <1>1 DEF Expected, WantedIn, ToRow
<1>3. /\ w.cell.session \in NamedSessions(k.base, Active(status)) \cup {Star}
      /\ w.cell.channel \in NamedChannels(k.base, Active(status)) \cup {Star}
  BY <1>1, <1>2 DEF Universe
<1>4. QED BY <1>1, <1>2, <1>3 DEF Stands, Universe

-----------------------------------------------------------------------------
(* What a trade is answered *)

(* A winner with a row of its own is what the trade finds: no row is more  *)
(* special than the row of the cell, and every other is less so.           *)
LEMMA StoredAnswer ==
  ASSUME TypeOK, EventsDated, NEW ord \in Orders, NEW a \in Accounts, SingleGrant(a),
         Rows(a) = Expected(status, enroll, ord, a, today),
         NEW k \in Concrete, ClassOf[k.base] \in Opened[a],
         Winner(status, enroll, ord, a, k, today) # NoRule,
         Rule[Winner(status, enroll, ord, a, k, today)].type # "BASE"
  PROVE  Lookup(a, k, today) = {Winner(status, enroll, ord, a, k, today)}
<1> DEFINE c   == Stands(k, Active(status))
           w   == Winner(status, enroll, ord, a, k, today)
           row == ToRow(a, c, w, Window(enroll, ord, a, w))
           R   == LookupRows(a, k, today)
<1>1. w \in Rules /\ Passes(enroll, ord, a, w, today)
  BY WinnerIsCheapest
<1>2. /\ Window(enroll, ord, a, w).from # NoDate
      /\ Window(enroll, ord, a, w).from <= today /\ today <= Window(enroll, ord, a, w).to
  BY <1>1, WinnerDated
<1>3. /\ c \in Universe(Active(status)) /\ c \in Cells
      /\ c.base = k.base
      /\ c.session \in {k.session, Star} /\ c.channel \in {k.channel, Star}
  BY StandsFor DEF Active, Stands, Universe
<1>4. k.session # Star /\ k.channel # Star
  BY PolicyAssumption DEF Concrete
<1>5. row \in Rows(a)
  <2>1. Winner(status, enroll, ord, a, c, today) = w
    BY StandsWins
  <2> HIDE DEF c, w
  <2>2. row \in WantedIn(status, enroll, ord, a, c, today)
    BY <1>2, <2>1 DEF WantedIn, w
  <2>3. QED BY <1>3, <2>2 DEF Expected
<1>6. row \in R
  BY <1>2, <1>3, <1>5 DEF LookupRows, ToRow
<1>7. row.cell = c /\ row.rule = w
  BY DEF ToRow
<1> HIDE DEF c, w, row, R
<1>8. \A u \in R : /\ u.cell \in Cells /\ u.cell.base = k.base
                   /\ u.cell.session \in {c.session, Star}
                   /\ u.cell.channel \in {c.channel, Star}
  BY RowsOfKey DEF R, c
<1>9. \A u \in R : ~Sooner(u, row, k)
  BY <1>3, <1>4, <1>7, <1>8 DEF Sooner
<1>10. ASSUME NEW u \in R, ~Sooner(row, u, k)
       PROVE  u = row
  <2>1. u.cell.channel = c.channel
    BY <1>3, <1>4, <1>7, <1>8, <1>10 DEF Sooner
  <2>2. u.cell.session = c.session
    BY <1>3, <1>4, <1>7, <1>8, <1>10, <2>1 DEF Sooner
  <2>3. u.cell = c
    BY <1>3, <1>8, <2>1, <2>2 DEF Cells
  <2>4. u \in Rows(a)
    BY DEF R, LookupRows
  <2>5. QED BY <1>5, <1>7, <2>3, <2>4, ExpectedType DEF TypeOK
<1>11. {v \in R : \A u \in R : ~Sooner(u, v, k)} = {row}
  BY <1>6, <1>9, <1>10
<1>12. QED BY <1>6, <1>7, <1>11 DEF Lookup, R, w

(* A key whose winner is a base fee, or nobody, meets no row: a row of a   *)
(* wider cell would be cheaper than the winner in the winner's own scope.  *)
LEMMA NoRowsForBase ==
  ASSUME BaseUnscoped, NEW ord, NEW a,
         Rows(a) = Expected(status, enroll, ord, a, today), NEW k \in Concrete,
         Winner(status, enroll, ord, a, k, today) = NoRule
           \/ Rule[Winner(status, enroll, ord, a, k, today)].type = "BASE"
  PROVE  LookupRows(a, k, today) = {}
<1> DEFINE c == Stands(k, Active(status))
           w == Winner(status, enroll, ord, a, k, today)
           F(x) == {r \in Rules : /\ InRanking(status, r, today) /\ Matches(r, x)
                                  /\ Passes(enroll, ord, a, r, today)}
<1> SUFFICES ASSUME NEW u \in LookupRows(a, k, today) PROVE FALSE
  OBVIOUS
<1>1. /\ u.cell \in Cells /\ u.cell.base = k.base
      /\ u.cell.session \in {c.session, Star} /\ u.cell.channel \in {c.channel, Star}
  BY RowsOfKey
<1>2. u \in Expected(status, enroll, ord, a, today)
  BY DEF LookupRows
<1>3. u.rule = Top(F(u.cell)) /\ u.rule \in Rules /\ Rule[u.rule].type # "BASE"
  <2>1. u.rule = Winner(status, enroll, ord, a, u.cell, today) /\ u.rule \in Rules
    BY <1>2, ExpectedRow
  <2>2. Rule[u.rule].type # "BASE"
    BY <1>2 DEF Expected, WantedIn, ToRow
  <2>3. QED BY <2>1, <2>2 DEF Winner
<1>4. w = Top(F(c)) /\ c.base = k.base
  BY StandsWins DEF Winner, Stands
<1>5. F(u.cell) \subseteq F(c)
  <2> SUFFICES ASSUME NEW r \in F(u.cell) PROVE Matches(r, c)
    OBVIOUS
  <2>1. /\ k.base \in Rule[r].bases
        /\ u.cell.session \in Rule[r].sessions /\ u.cell.channel \in Rule[r].channels
    BY <1>1 DEF Matches
  <2>2. c.session \in Sessions \cup {Star} /\ c.channel \in Channels \cup {Star}
    BY DEF Concrete, Stands
  <2> HIDE DEF c
  <2>3. c.session \in Rule[r].sessions
    BY <1>1, <2>1, <2>2, ScopeAssumption
  <2>4. c.channel \in Rule[r].channels
    BY <1>1, <2>1, <2>2, ScopeAssumption
  <2>5. QED BY <1>4, <2>1, <2>3, <2>4 DEF Matches
<1>6. F(u.cell) \in SUBSET Rules /\ F(c) \in SUBSET Rules
  OBVIOUS
<1>7. F(u.cell) # {}
  BY <1>3, PolicyAssumption DEF Top
<1> HIDE DEF c, w
<1>8. w \in F(c) /\ \A r \in F(c) \ {w} : Before(w, r)
  BY <1>4, <1>5, <1>6, <1>7, UniqueFirst
<1>9. Rule[w].type = "BASE" /\ w \in Rules
  BY <1>8, PolicyAssumption DEF w
<1>10. w \in F(u.cell)
  <2>1. w \in Active(status) /\ Matches(w, c)
    BY <1>8 DEF InRanking, Active
  <2>2. Star \in Rule[w].sessions /\ Star \in Rule[w].channels
    BY <1>9, <2>1 DEF BaseUnscoped
  <2>3. Matches(w, u.cell)
    BY <1>1, <1>4, <2>1, <2>2 DEF Matches
  <2>4. QED BY <1>8, <2>3
<1>11. u.rule \in F(u.cell) /\ \A r \in F(u.cell) \ {u.rule} : Before(u.rule, r)
  BY <1>3, <1>6, <1>7, UniqueFirst
<1>12. u.rule # w
  BY <1>3, <1>9
<1>13. Before(w, u.rule) /\ Before(u.rule, w)
  BY <1>5, <1>8, <1>10, <1>11, <1>12
<1>14. QED BY <1>3, <1>9, <1>12, <1>13, BeforeTotal

(* The base fee of a key is the winner of the key when no policy is.       *)
LEMMA BaseAnswer ==
  ASSUME NEW ord, NEW a, NEW k,
         Winner(status, enroll, ord, a, k, today) = NoRule
           \/ Rule[Winner(status, enroll, ord, a, k, today)].type = "BASE"
  PROVE  BaseWinner(k, today) = Winner(status, enroll, ord, a, k, today)
<1> DEFINE F == {r \in Rules : /\ InRanking(status, r, today) /\ Matches(r, k)
                               /\ Passes(enroll, ord, a, r, today)}
           B == {r \in Rules : /\ Rule[r].type = "BASE" /\ InRanking(status, r, today)
                               /\ Matches(r, k)}
           w == Winner(status, enroll, ord, a, k, today)
<1>1. w = Top(F) /\ BaseWinner(k, today) = Top(B)
  BY DEF Winner, BaseWinner
<1>2. B \subseteq F
  BY DEF Passes
<1>3. F \in SUBSET Rules /\ B \in SUBSET Rules
  OBVIOUS
<1>4. ASSUME w \in F, Rule[w].type = "BASE" PROVE w \in B
  BY <1>4
<1> HIDE DEF F, B, w
<1>5. CASE F = {}
  BY <1>1, <1>2, <1>5 DEF Top, w
<1>6. CASE F # {}
  <2>1. w \in F /\ \A r \in F \ {w} : Before(w, r)
    BY <1>1, <1>3, <1>6, UniqueFirst
  <2>2. w \in B
    BY <1>3, <1>4, <2>1, PolicyAssumption DEF w
  <2>3. \A r \in B \ {w} : Before(w, r)
    BY <1>2, <2>1
  <2>4. w = Top(B)
    BY <1>3, <2>2, <2>3, UniqueFirst
  <2>5. QED BY <1>1, <2>4 DEF w
<1>7. QED BY <1>5, <1>6

(* In every state a fresh account is served its winners.                   *)
LEMMA ServedByFresh == TypeOK /\ EventsDated => LedgerServesWinner
<1> SUFFICES ASSUME TypeOK, EventsDated, BaseUnscoped,
                    NEW a \in Accounts, Fresh(a), SingleGrant(a)
             PROVE  Served(a)
  BY DEF LedgerServesWinner
<1>1. PICK ord \in Orders : Rows(a) = Expected(status, enroll, ord, a, today)
  BY DEF Fresh, FreshOn
<1>2. ASSUME NEW k \in Concrete, ClassOf[k.base] \in Opened[a]
      PROVE  Lookup(a, k, today) = {Winner(status, enroll, ord, a, k, today)}
  <2> DEFINE w == Winner(status, enroll, ord, a, k, today)
  <2>1. CASE w # NoRule /\ Rule[w].type # "BASE"
    BY <1>1, <1>2, <2>1, StoredAnswer
  <2>2. CASE w = NoRule \/ Rule[w].type = "BASE"
    <3>1. LookupRows(a, k, today) = {}
      BY <1>1, <2>2, NoRowsForBase
    <3>2. BaseWinner(k, today) = w
      BY <2>2, BaseAnswer
    <3>3. QED BY <3>1, <3>2 DEF Lookup
  <2>3. QED BY <2>1, <2>2
<1>3. QED BY <1>1, <1>2 DEF Served

(* A trade of an account whose board is fresh is answered with the         *)
(* cheapest policy the account qualifies for on the trade's own key, if the *)
(* account has one active grant per negotiated rule and no base fee is     *)
(* confined to a session or channel.                                       *)
THEOREM TradesGetTheirWinner == Spec => []LedgerServesWinner
<1>1. Init => EventsDated
  BY DEF Init, EventsDated
<1>2. QED BY <1>1, InitType, NextType, NextDated, ServedByFresh, PTL DEF Spec

-----------------------------------------------------------------------------
(* 4. FeeBinding implements BoardView *)

(* The view speaks of rules, cells and enrollments as the policy domain    *)
(* does.                                                                   *)

LEMMA SameRanking ==
  /\ View!NoDate = NoDate /\ View!Cells = Cells /\ View!Orders = Orders
  /\ \A r, s : View!Before(r, s) = Before(r, s)
  /\ \A st, r, d : View!InRanking(st, r, d) = InRanking(st, r, d)
  /\ \A r, c : View!Matches(r, c) = Matches(r, c)
BY DEF View!NoDate, NoDate, View!Cells, Cells, View!Orders, Orders, View!Star, Star,
       View!Before, Before, View!TieOrder, TieOrder, View!InRanking, InRanking,
       View!Matches, Matches

LEMMA SameUniverse ==
  ASSUME NEW st
  PROVE  View!Universe(View!Active(st)) = Universe(Active(st))
BY DEF View!Universe, Universe, View!Active, Active, View!Cells, Cells, View!Star, Star,
       View!NamedSessions, NamedSessions, View!NamedChannels, NamedChannels

LEMMA SameGate ==
  ASSUME NEW en, NEW ord, NEW a, NEW r, NEW d
  PROVE  /\ View!Passes(en, ord, a, r, d) = Passes(en, ord, a, r, d)
         /\ View!Window(en, ord, a, r) = Window(en, ord, a, r)
<1>1. /\ View!Mine(en, a, r) = Mine(en, a, r)
      /\ View!ActiveOf(en, a, r) = ActiveOf(en, a, r)
      /\ \A S : View!First(S, ord) = First(S, ord)
      /\ View!NoDate = NoDate
  BY DEF View!Mine, Mine, View!ActiveOf, ActiveOf, View!First, First, View!NoDate, NoDate
<1>2. View!HasActiveEnrollment(en, a, r, d) = HasActiveEnrollment(en, a, r, d)
  BY <1>1 DEF View!HasActiveEnrollment, HasActiveEnrollment
<1>3. View!IsTarget(en, a, r) = IsTarget(en, a, r)
  BY <1>1 DEF View!IsTarget, IsTarget
<1>4. View!IsBenefitActive(en, ord, a, r, d) = IsBenefitActive(en, ord, a, r, d)
  BY <1>1 DEF View!IsBenefitActive, IsBenefitActive
<1>5. View!Passes(en, ord, a, r, d) = Passes(en, ord, a, r, d)
  BY <1>2, <1>3, <1>4 DEF View!Passes, Passes
<1>6. View!Window(en, ord, a, r) = Window(en, ord, a, r)
  BY <1>1 DEF View!Window, Window
<1>7. QED BY <1>5, <1>6

-----------------------------------------------------------------------------
(* Rows and assignments *)

(* What a set of rows assigns in a cell.                                   *)
InCell(S, c) ==
  {[rule |-> w.rule, dates |-> [from |-> w.from, to |-> w.to]] : w \in {v \in S : v.cell = c}}

(* The dates of a winner are a pair.                                       *)
LEMMA WindowShape ==
  ASSUME NEW en, NEW ord, NEW a, NEW r
  PROVE  Window(en, ord, a, r) =
           [from |-> Window(en, ord, a, r).from, to |-> Window(en, ord, a, r).to]
<1> DEFINE granted == Rule[r].type = "NEGOTIATED" /\ ActiveOf(en, a, r) # {}
           joined  == /\ Rule[r].type = "EVENT" /\ Rule[r].relative /\ Mine(en, a, r) # {}
                      /\ en[First(Mine(en, a, r), ord)].at # NoDate
<1>1. CASE granted
  BY <1>1 DEF Window
<1>2. CASE ~granted /\ joined
  BY <1>2 DEF Window
<1>3. CASE ~granted /\ ~joined
  BY <1>3 DEF Window
<1>4. QED BY <1>1, <1>2, <1>3

(* The view assigns in a cell what the rows a rebuild wants assign there.  *)
LEMMA AssignedIsWanted ==
  ASSUME NEW ord \in Orders, NEW a \in Accounts, NEW c \in Cells
  PROVE  View!Assigned(ord, a, c) = InCell(Expected(status, enroll, ord, a, today), c)
<1> DEFINE fit == {r \in Rules : /\ InRanking(status, r, today) /\ Matches(r, c)
                                  /\ Passes(enroll, ord, a, r, today)}
           w      == Winner(status, enroll, ord, a, c, today)
           win(r) == Window(enroll, ord, a, r)
           shown  == c \in Universe(Active(status)) /\ ClassOf[c.base] \in Opened[a]
           kept   == w # NoRule /\ Rule[w].type # "BASE" /\ win(w).from # NoDate
<1>1. View!Offers(ord, a, c) = fit
  BY SameRanking, SameGate DEF View!Offers
<1>2. View!Best(fit) = IF w = NoRule THEN {} ELSE {w}
  <2>1. w = Top(fit) /\ fit \in SUBSET Rules
    BY DEF Winner
  <2>2. \A S : View!Best(S) = {r \in S : \A s \in S \ {r} : Before(r, s)}
    BY SameRanking DEF View!Best
  <2>3. w = NoRule <=> fit = {}
    BY WinnerIsCheapest
  <2> HIDE DEF fit, w
  <2>4. CASE fit = {}
    BY <2>2, <2>3, <2>4
  <2>5. CASE fit # {}
    BY <2>1, <2>2, <2>3, <2>5, UniqueFirst
  <2>6. QED BY <2>4, <2>5
<1>3. View!Assigned(ord, a, c) =
        IF shown /\ kept THEN {[rule |-> w, dates |-> win(w)]} ELSE {}
  <2>1. /\ \A r : View!Window(enroll, ord, a, r) = win(r)
        /\ View!NoDate = NoDate
        /\ View!Universe(View!Active(status)) = Universe(Active(status))
    BY SameRanking, SameGate, SameUniverse
  <2> HIDE DEF fit, w, win
  <2>2. View!Assigned(ord, a, c) =
          {[rule |-> r, dates |-> win(r)] :
             r \in {x \in View!Best(fit) : Rule[x].type # "BASE" /\ win(x).from # NoDate /\ shown}}
    BY <1>1, <2>1 DEF View!Assigned
  <2>3. QED BY <1>2, <2>2
<1>4. {v \in Expected(status, enroll, ord, a, today) : v.cell = c} =
        IF shown /\ kept THEN {ToRow(a, c, w, win(w))} ELSE {}
  <2>1. \A x : WantedIn(status, enroll, ord, a, x, today) =
          IF /\ Winner(status, enroll, ord, a, x, today) # NoRule
             /\ Rule[Winner(status, enroll, ord, a, x, today)].type # "BASE"
             /\ win(Winner(status, enroll, ord, a, x, today)).from # NoDate
          THEN {ToRow(a, x, Winner(status, enroll, ord, a, x, today),
                      win(Winner(status, enroll, ord, a, x, today)))}
          ELSE {}
    BY DEF WantedIn
  <2>2. \A x : \A v \in WantedIn(status, enroll, ord, a, x, today) : v.cell = x
    BY <2>1 DEF ToRow
  <2>3. {v \in Expected(status, enroll, ord, a, today) : v.cell = c} =
          IF shown THEN WantedIn(status, enroll, ord, a, c, today) ELSE {}
    BY <2>2 DEF Expected
  <2>4. QED BY <2>1, <2>3
<1>5. win(w) = [from |-> win(w).from, to |-> win(w).to]
  BY WindowShape
<1> HIDE DEF fit, w, win, shown, kept
<1>6. InCell({ToRow(a, c, w, win(w))}, c) = {[rule |-> w, dates |-> win(w)]}
  <2> DEFINE v == ToRow(a, c, w, win(w))
  <2>1. v.cell = c /\ v.rule = w /\ v.from = win(w).from /\ v.to = win(w).to
    BY DEF ToRow
  <2> HIDE DEF v
  <2>2. [rule |-> v.rule, dates |-> [from |-> v.from, to |-> v.to]] = [rule |-> w, dates |-> win(w)]
    BY <1>5, <2>1
  <2>3. {u \in {v} : u.cell = c} = {v}
    BY <2>1
  <2>4. InCell({v}, c) = {[rule |-> u.rule, dates |-> [from |-> u.from, to |-> u.to]] : u \in {v}}
    BY <2>3 DEF InCell
  <2>5. InCell({v}, c) = {[rule |-> w, dates |-> win(w)]}
    BY <2>2, <2>4
  <2>6. QED BY <2>5 DEF v
<1>7. InCell(Expected(status, enroll, ord, a, today), c) =
        IF shown /\ kept THEN {[rule |-> w, dates |-> win(w)]} ELSE {}
  BY <1>4, <1>6 DEF InCell, ToRow
<1>8. QED BY <1>3, <1>7

(* View and tables agree on who is right.                                  *)
Agreed == \A a \in Accounts : View!Right(a) <=> Fresh(a)

(* An account is right in the view exactly when its rows are what the      *)
(* policies call for.                                                      *)
LEMMA RightIsFresh ==
  TypeOK => Agreed
<1> SUFFICES ASSUME TypeOK, NEW a \in Accounts
             PROVE  View!Right(a) <=> Fresh(a)
  BY DEF Agreed
<1> DEFINE want(ord) == Expected(status, enroll, ord, a, today)
<1>1. \A c \in Cells : BoardOf[a][c] = InCell(Rows(a), c)
  BY DEF BoardOf, InCell
<1>2. Rows(a) \subseteq BindingRow /\ \A w \in Rows(a) : w.acct = a
  BY DEF TypeOK, Rows
<1>3. \A ord \in Orders : want(ord) \subseteq BindingRow /\ \A w \in want(ord) : w.acct = a
  BY ExpectedType DEF TypeOK
<1>4. ASSUME NEW S \in SUBSET BindingRow, NEW T \in SUBSET BindingRow,
             \A w \in S \cup T : w.acct = a,
             \A c \in Cells : InCell(S, c) = InCell(T, c)
      PROVE  S \subseteq T
  <2> SUFFICES ASSUME NEW w \in S PROVE w \in T
    OBVIOUS
  <2>1. w.cell \in Cells
    BY DEF BindingRow
  <2>2. [rule |-> w.rule, dates |-> [from |-> w.from, to |-> w.to]] \in InCell(T, w.cell)
    BY <1>4, <2>1 DEF InCell
  <2>3. PICK v \in T : /\ v.cell = w.cell
                       /\ [rule |-> w.rule, dates |-> [from |-> w.from, to |-> w.to]]
                            = [rule |-> v.rule, dates |-> [from |-> v.from, to |-> v.to]]
    BY <2>2 DEF InCell
  <2>4. v.rule = w.rule /\ v.from = w.from /\ v.to = w.to
    BY <2>3
  <2>5. v = w
    BY <1>4, <2>3, <2>4 DEF BindingRow
  <2>6. QED BY <2>5
<1>5. \A ord \in Orders :
        Rows(a) = want(ord) <=> \A c \in Cells : BoardOf[a][c] = InCell(want(ord), c)
  <2> SUFFICES ASSUME NEW ord \in Orders
               PROVE  Rows(a) = want(ord)
                        <=> \A c \in Cells : BoardOf[a][c] = InCell(want(ord), c)
    OBVIOUS
  <2> HIDE DEF want
  <2>1. ASSUME \A c \in Cells : InCell(Rows(a), c) = InCell(want(ord), c)
        PROVE  Rows(a) = want(ord)
    <3>1. Rows(a) \in SUBSET BindingRow /\ want(ord) \in SUBSET BindingRow
      BY <1>2, <1>3
    <3>2. \A w \in Rows(a) \cup want(ord) : w.acct = a
      BY <1>2, <1>3
    <3>3. Rows(a) \subseteq want(ord)
      BY <1>4, <2>1, <3>1, <3>2
    <3>4. want(ord) \subseteq Rows(a)
      BY <1>4, <2>1, <3>1, <3>2
    <3>5. QED BY <3>3, <3>4
  <2>2. QED BY <1>1, <2>1
<1>6. \A ord \in Orders : \A c \in Cells : View!Assigned(ord, a, c) = InCell(want(ord), c)
  BY AssignedIsWanted
<1> HIDE DEF want
<1>7. Fresh(a) <=> \E ord \in Orders : Rows(a) = want(ord)
  BY DEF Fresh, FreshOn, want
<1>8. View!Right(a) <=> \E ord \in Orders : \A c \in Cells : BoardOf[a][c] = View!Assigned(ord, a, c)
  BY SameRanking DEF View!Right
<1>9. QED BY <1>5, <1>6, <1>7, <1>8

-----------------------------------------------------------------------------
(* The simulation *)

(* Only a new day moves the date, and only a rejection rejects.            *)
LEMMA QuietStep ==
  ASSUME TypeOK, Next
  PROVE  \/ today' = today /\ NoActiveRejected
         \/ NextDay
         \/ \E r \in Rules : status[r] = "ACTIVE" /\ Reject(r)
<1>1. ASSUME NEW r \in Rules, CreateDraft(r) \/ Submit(r) \/ Approve(r) \/ Expire(r)
      PROVE  today' = today /\ NoActiveRejected
  BY <1>1 DEF CreateDraft, Submit, Approve, Expire, TypeOK, NoActiveRejected
<1>2. ASSUME NEW r \in Rules, Reject(r)
      PROVE  (today' = today /\ NoActiveRejected) \/ status[r] = "ACTIVE"
  BY <1>2 DEF Reject, TypeOK, NoActiveRejected
<1>3. NegoStep \/ EnrollStep => today' = today /\ status' = status
  BY DEF NegoStep, EnrollStep, CreateRequests, ApproveNego, RejectNego, Extend, Enroll
<1>4. FullRebuild \/ Delta \/ RebuildIndex \/ Restart => today' = today /\ status' = status
  BY DEF FullRebuild, Delta, RebuildIndex, Restart
<1>5. status' = status => NoActiveRejected
  BY DEF NoActiveRejected
<1>6. QED BY <1>1, <1>2, <1>3, <1>4, <1>5 DEF Next, RuleStep, BatchStep

(* A step makes the board of an account right or leaves it as it was.      *)
LEMMA RightOrLeft ==
  ASSUME TypeOK, Next, today' = today, NEW a \in Accounts
  PROVE  Fresh(a)' \/ Rows(a)' = Rows(a)
<1>1. PICK A \in SUBSET Accounts : Refresh(A)
  BY StepShape
<1>2. enroll' \in Seq(Enrollment) /\ Len(enroll') <= MaxEnrollments
  BY <1>1 DEF Refresh, Table
<1>3. CASE UnchangedBoard
  BY <1>3 DEF UnchangedBoard, Rows
<1>4. CASE Rebuild(A)
  <2>1. CASE a \in A
    BY <1>2, <1>4, <2>1, RebuildWrites DEF Fresh, FreshOn
  <2>2. CASE a \notin A
    BY <1>2, <1>4, <2>2, RebuildWrites
  <2>3. QED BY <2>1, <2>2
<1>5. QED BY <1>1, <1>3, <1>4 DEF Refresh

(* Every step of the server is a request, a dawn or a withdrawal of the    *)
(* view, or nothing to it.                                                 *)
LEMMA StepImplements ==
  ASSUME TypeOK, [Next]_vars, Agreed, Agreed'
  PROVE  [View!Next]_View!viewVars
<1>1. \A a \in Accounts : Rows(a)' = Rows(a) => BoardOf'[a] = BoardOf[a]
  BY DEF BoardOf
<1>2. binding' = binding => BoardOf' = BoardOf
  BY DEF BoardOf, Rows
<1>3. CASE UNCHANGED vars
  BY <1>2, <1>3 DEF vars, View!viewVars
<1>4. CASE NextDay
  <2>1. View!Dawn
    BY <1>2, <1>4 DEF NextDay, UnchangedBoard, View!Dawn
  <2>2. QED BY <2>1 DEF View!Next
<1>5. ASSUME NEW r \in Rules, status[r] = "ACTIVE", Reject(r)
      PROVE  View!Next
  <2>1. View!Withdraw(r)
    BY <1>2, <1>5 DEF Reject, UnchangedBoard, View!Withdraw
  <2>2. QED BY <2>1 DEF View!Next
<1>6. CASE Next /\ today' = today /\ NoActiveRejected
  <2>1. ASSUME NEW a \in Accounts
        PROVE  View!Right(a)' \/ (~View!Right(a) /\ BoardOf'[a] = BoardOf[a])
    <3>1. Fresh(a) => Fresh(a)'
      BY <1>6, NextKeepsFresh
    <3>2. Fresh(a)' \/ Rows(a)' = Rows(a)
      BY <1>6, RightOrLeft
    <3>3. QED BY <1>1, <3>1, <3>2 DEF Agreed
  <2>2. View!Handle
    BY <1>6, <2>1 DEF View!Handle
  <2>3. QED BY <2>2 DEF View!Next
<1>7. CASE Next
  BY <1>4, <1>5, <1>6, <1>7, QuietStep
<1>8. QED BY <1>3, <1>7

(* The board the server stores implements the view of rules, enrollments   *)
(* and date: whatever order of requests, batches, restarts and days, only  *)
(* the rejection of an active rule and the passing of a day leave an       *)
(* account with a board that was right and is not.                         *)
THEOREM BoardImplementsView == Spec => ImplementsView
<1>1. Init => View!Init
  BY DEF Init, View!Init, BoardOf, Rows, View!Cells, Cells, View!Star, Star
<1>2. TypeOK => Agreed
  BY RightIsFresh
<1>3. TypeOK' => Agreed'
  BY <1>2, PTL
<1>4. TypeOK /\ TypeOK' /\ [Next]_vars => [View!Next]_View!viewVars
  BY <1>2, <1>3, StepImplements
<1>5. QED BY <1>1, <1>4, TypeCorrect, PTL DEF Spec, ImplementsView, View!Spec
=============================================================================
