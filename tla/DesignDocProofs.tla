-------------------------- MODULE DesignDocProofs ---------------------------
(***************************************************************************)
(* What the operations on a document do, for every body of sections.       *)
(*                                                                         *)
(* A heading has a key (Key): unnumbered headings by their place, numbered *)
(* ones by chapter, section and paragraph. Everything said about order is  *)
(* said of keys: a body rises (Rising) when each heading has a greater key *)
(* than the one before, and the outline of a rising body (its headings     *)
(* without their references) tells all there is to tell about its order.   *)
(***************************************************************************)
EXTENDS DesignDoc, TLAPS, SequenceTheorems, WellFoundedInduction

-----------------------------------------------------------------------------
(* Natural numbers and recursion over them *)

(* Every non-empty set of naturals has a least element.                    *)
LEMMA LeastNumber ==
  ASSUME NEW T \in SUBSET Nat, T # {}
  PROVE  \E m \in T : \A n \in T : m <= n
<1>1. PICK m \in T : \A n \in T : <<n, m>> \notin OpToRel(<, Nat)
  BY NatLessThanWellFounded, WFMin, Zenon
<1>2. \A n \in T : ~(n < m)
  BY <1>1, Zenon DEF OpToRel
<1> QED
  BY <1>2

(* A set that holds 0 and every successor up to n holds every number up    *)
(* to n: induction over a set, which first-order provers can use.          *)
LEMMA UpTo ==
  ASSUME NEW n \in Nat, NEW T, 0 \in T, \A k \in 1..n : k - 1 \in T => k \in T
  PROVE  \A k \in 0..n : k \in T
<1> SUFFICES ASSUME \E k \in 0..n : k \notin T PROVE FALSE
  OBVIOUS
<1> DEFINE Missing == {k \in 0..n : k \notin T}
<1>1. PICK m \in Missing : \A k \in Missing : m <= k
  <2>1. Missing \in SUBSET Nat /\ Missing # {}
    OBVIOUS
  <2> QED
    BY <2>1, LeastNumber
<1>2. m \in 1..n /\ m - 1 \notin Missing
  BY <1>1
<1>3. m - 1 \in T
  BY <1>2
<1> QED
  BY <1>1, <1>2, <1>3

(* h takes v through n steps, each from the value the one before left.     *)
Walk(h, n, V, v, step) ==
  h \in [0..n -> V] /\ h[0] = v /\ \A k \in 1..n : h[k] = step[k][h[k - 1]]

Stays(step, n, V) == \A k \in 1..n : \A x \in V : step[k][x] \in V

(* A step that stays in V can be walked n times from v: there is a         *)
(* function of 0..n that does so.                                          *)
LEMMA Recursion ==
  ASSUME NEW n \in Nat, NEW V, NEW v \in V, NEW step, Stays(step, n, V)
  PROVE  \E h : Walk(h, n, V, v, step)
<1> USE DEF Walk, Stays
<1> DEFINE ok(m) == \E h \in [0..m -> V] : h[0] = v /\ \A k \in 1..m : h[k] = step[k][h[k - 1]]
           T == {m \in 0..n : ok(m)}
<1>1. 0 \in T
  <2> DEFINE g == [j \in 0..0 |-> v]
  <2>1. g \in [0..0 -> V] /\ g[0] = v /\ \A k \in 1..0 : g[k] = step[k][g[k - 1]]
    OBVIOUS
  <2> HIDE DEF g
  <2> QED
    BY <2>1
<1>2. ASSUME NEW m \in 1..n, m - 1 \in T PROVE m \in T
  <2>1. PICK h \in [0..(m - 1) -> V] :
          h[0] = v /\ \A k \in 1..(m - 1) : h[k] = step[k][h[k - 1]]
    BY <1>2
  <2> DEFINE g == [j \in 0..m |-> IF j = m THEN step[m][h[m - 1]] ELSE h[j]]
  <2>2. g \in [0..m -> V]
    BY <2>1
  <2>3. \A j \in 0..(m - 1) : g[j] = h[j]
    OBVIOUS
  <2>4. g[m] = step[m][g[m - 1]]
    BY <2>3
  <2>5. g[0] = v /\ \A k \in 1..m : g[k] = step[k][g[k - 1]]
    BY <2>1, <2>3, <2>4
  <2> HIDE DEF g
  <2>6. ok(m)
    BY <2>2, <2>5
  <2> HIDE DEF ok
  <2> QED
    BY <2>6
<1>3. \A m \in 0..n : m \in T
  <2> HIDE DEF T
  <2> QED
    BY <1>1, <1>2, UpTo
<1>4. ok(n)
  <2> HIDE DEF ok
  <2> QED
    BY <1>3
<1> QED
  BY <1>4

(* Pick keeps what stands at the chosen positions, in their order: at k    *)
(* stands what stood at f[k], and f passes every chosen position once.     *)
Passes(f, n, s, I) ==
  /\ f \in [1..n -> I \cap (1..Len(s))]
  /\ \A k, l \in 1..n : k < l => f[k] < f[l]
  /\ \A i \in I \cap (1..Len(s)) : \E k \in 1..n : f[k] = i

(* Pick keeps the elements of s at the places of I, in the order of their  *)
(* places.                                                                 *)
LEMMA PickIs ==
  ASSUME NEW S, NEW s \in Seq(S), NEW I
  PROVE  /\ Pick(s, I) \in Seq(S)
         /\ \E f : /\ Passes(f, Len(Pick(s, I)), s, I)
                   /\ \A k \in 1..Len(Pick(s, I)) : Pick(s, I)[k] = s[f[k]]
<1> DEFINE n == Len(s)
           step == [k \in 1..n |-> [p \in Seq(S) |-> IF k \in I THEN Append(p, s[k]) ELSE p]]
           body(h) == [k \in 0..n |-> IF k = 0 THEN <<>>
                         ELSE IF k \in I THEN Append(h[k - 1], s[k]) ELSE h[k - 1]]
           upTo == CHOOSE h : h = body(h)
<1>1. n \in Nat /\ \A k \in 1..n : s[k] \in S
  BY LenProperties
<1>2. PICK h \in [0..n -> Seq(S)] : h[0] = <<>> /\ \A k \in 1..n : h[k] = step[k][h[k - 1]]
  <2>1. \A k \in 1..n : \A x \in Seq(S) : step[k][x] \in Seq(S)
    BY <1>1, AppendProperties
  <2> DEFINE nil == <<>>
  <2>2. nil \in Seq(S)
    BY EmptySeq
  <2>3. n \in Nat
    BY <1>1
  <2> HIDE DEF n, step, nil
  <2> DEFINE V == Seq(S)
  <2>4. nil \in V /\ Stays(step, n, V)
    BY <2>1, <2>2 DEF Stays
  <2> HIDE DEF V
  <2>5. \E h : Walk(h, n, V, nil, step)
    BY <2>3, <2>4, Recursion, Zenon
  <2> QED
    BY <2>5 DEF nil, V, Walk
<1>3. ASSUME NEW k \in 1..n PROVE h[k] = IF k \in I THEN Append(h[k - 1], s[k]) ELSE h[k - 1]
  <2>1. h[k - 1] \in Seq(S)
    <3>1. n \in Nat /\ h \in [0..n -> Seq(S)]
      BY <1>1, <1>2
    <3> HIDE DEF n, step
    <3>2. k - 1 \in 0..n
      BY <3>1
    <3> QED
      BY <3>1, <3>2
  <2>2. h[k] = step[k][h[k - 1]]
    BY <1>2, Zenon
  <2> DEFINE p == h[k - 1]
  <2>3. step[k] = [q \in Seq(S) |-> IF k \in I THEN Append(q, s[k]) ELSE q]
    OBVIOUS
  <2> HIDE DEF n, step, p
  <2>4. step[k][p] = IF k \in I THEN Append(p, s[k]) ELSE p
    BY <2>1, <2>3 DEF p
  <2> QED
    BY <2>2, <2>4 DEF p
<1>4. h = body(h)
  <2> HIDE DEF n
  <2>1. ASSUME NEW k \in 0..n PROVE h[k] = body(h)[k]
    <3>1. CASE k = 0
      BY <1>2, <3>1
    <3>2. CASE k # 0
      <4>1. k \in 1..n
        BY <1>1, <3>2
      <4> QED
        BY <1>3, <3>2, <4>1
    <3> QED
      BY <3>1, <3>2
  <2>2. body(h) = [k \in 0..n |-> body(h)[k]]
    OBVIOUS
  <2>3. h = [k \in 0..n |-> h[k]]
    BY <1>2
  <2> HIDE DEF body
  <2> QED
    BY <2>1, <2>2, <2>3
<1>5. upTo = body(upTo)
  BY <1>4, Zenon
<1>6. Pick(s, I) = upTo[n]
  BY Zenon DEF Pick
<1> HIDE DEF upTo
<1>7. upTo[0] = <<>> /\ \A k \in 1..n : upTo[k] = IF k \in I THEN Append(upTo[k - 1], s[k])
         ELSE upTo[k - 1]
  <2>1. \A k \in 0..n : upTo[k] = body(upTo)[k]
    BY <1>5, Zenon
  <2> HIDE DEF n
  <2>2. upTo[0] = <<>>
    BY <1>1, <2>1
  <2>3. ASSUME NEW k \in 1..n
        PROVE  upTo[k] = IF k \in I THEN Append(upTo[k - 1], s[k]) ELSE upTo[k - 1]
    BY <1>1, <2>1
  <2> QED
    BY <2>2, <2>3
<1> DEFINE good(k, f) ==
      /\ upTo[k] \in Seq(S)
      /\ f \in [1..Len(upTo[k]) -> I \cap (1..k)]
      /\ \A a, b \in 1..Len(upTo[k]) : a < b => f[a] < f[b]
      /\ \A i \in I \cap (1..k) : \E a \in 1..Len(upTo[k]) : f[a] = i
      /\ \A a \in 1..Len(upTo[k]) : upTo[k][a] = s[f[a]]
    T == {k \in 0..n : \E f : good(k, f)}
<1>8. 0 \in T
  <2> DEFINE g == [j \in 1..0 |-> 0]
  <2>1. upTo[0] \in Seq(S) /\ Len(upTo[0]) = 0
    BY <1>7, EmptySeq
  <2>2. good(0, g)
    BY <2>1
  <2> HIDE DEF good
  <2> QED
    BY <1>1, <2>2
<1>9. ASSUME NEW k \in 1..n, k - 1 \in T PROVE k \in T
  <2>1. PICK f : good(k - 1, f)
    BY <1>9
  <2> DEFINE m == Len(upTo[k - 1])
  <2>2. m \in Nat
    BY <2>1, LenProperties
  <2>3. CASE k \in I
    <3> DEFINE g == [a \in 1..(m + 1) |-> IF a = m + 1 THEN k ELSE f[a]]
    <3>1. /\ upTo[k] \in Seq(S) /\ Len(upTo[k]) = m + 1 /\ upTo[k][m + 1] = s[k]
          /\ \A a \in 1..m : upTo[k][a] = upTo[k - 1][a]
      <4>1. upTo[k] = Append(upTo[k - 1], s[k]) /\ upTo[k - 1] \in Seq(S) /\ s[k] \in S
        BY <1>1, <1>7, <2>1, <2>3
      <4> QED
        BY <4>1, AppendProperties
    <3>2. g \in [1..(m + 1) -> I \cap (1..k)]
      BY <1>1, <2>1, <2>2, <2>3
    <3>3. ASSUME NEW a \in 1..(m + 1), NEW b \in 1..(m + 1), a < b PROVE g[a] < g[b]
      <4>1. f \in [1..m -> I \cap (1..(k - 1))] /\ \A c, d \in 1..m : c < d => f[c] < f[d]
        BY <2>1
      <4> HIDE DEF m
      <4>2. a \in 1..m /\ a # m + 1
        BY <2>2, <3>3
      <4>3. g[a] = f[a] /\ f[a] \in 1..(k - 1)
        BY <4>1, <4>2
      <4>4. CASE b = m + 1
        BY <1>1, <4>3, <4>4
      <4>5. CASE b # m + 1
        BY <2>2, <3>3, <4>1, <4>2, <4>3, <4>5
      <4> QED
        BY <4>4, <4>5
    <3>4. \A i \in I \cap (1..k) : \E a \in 1..(m + 1) : g[a] = i
      <4> TAKE i \in I \cap (1..k)
      <4>1. CASE i = k
        <5> HIDE DEF m
        <5>1. m + 1 \in 1..(m + 1) /\ g[m + 1] = k
          BY <2>2
        <5> QED
          BY <4>1, <5>1
      <4>2. CASE i # k
        <5>1. PICK a \in 1..m : f[a] = i
          BY <1>1, <2>1, <4>2
        <5> HIDE DEF m
        <5>2. a \in 1..(m + 1) /\ a # m + 1
          BY <2>2
        <5>3. g[a] = i
          BY <5>1, <5>2
        <5> QED
          BY <5>2, <5>3
      <4> QED
        BY <4>1, <4>2
    <3>5. \A a \in 1..(m + 1) : upTo[k][a] = s[g[a]]
      BY <2>1, <2>2, <3>1
    <3> HIDE DEF g, m
    <3>6. good(k, g)
      BY <3>1, <3>2, <3>3, <3>4, <3>5
    <3> HIDE DEF good
    <3> QED
      BY <1>1, <3>6
  <2>4. CASE k \notin I
    <3>1. upTo[k] = upTo[k - 1]
      BY <1>7, <2>4
    <3>2. I \cap (1..k) = I \cap (1..(k - 1))
      BY <1>1, <2>4
    <3>3. good(k, f)
      BY <2>1, <3>1, <3>2
    <3> HIDE DEF good
    <3> QED
      BY <1>1, <3>3
  <2> QED
    BY <2>3, <2>4
<1>10. \A k \in 0..n : k \in T
  <2> HIDE DEF T, n
  <2> QED
    BY <1>1, <1>8, <1>9, UpTo
<1>11. PICK f : good(n, f)
  <2> HIDE DEF good
  <2> QED
    BY <1>1, <1>10
<1>12. Passes(f, Len(upTo[n]), s, I)
  BY <1>11 DEF Passes
<1>13. /\ Pick(s, I) \in Seq(S)
       /\ Passes(f, Len(Pick(s, I)), s, I)
       /\ \A k \in 1..Len(Pick(s, I)) : Pick(s, I)[k] = s[f[k]]
  BY <1>6, <1>11, <1>12
<1> QED
  BY <1>13

-----------------------------------------------------------------------------
(* Sequences and the sets of what they hold *)

(* What is in a sequence is what stands at its places.                     *)
LEMMA Members ==
  ASSUME NEW S, NEW s \in Seq(S)
  PROVE  /\ Len(s) \in Nat /\ DOMAIN s = 1..Len(s)
         /\ ToSet(s) \in SUBSET S
         /\ \A x : x \in ToSet(s) <=> \E i \in 1..Len(s) : s[i] = x
BY LenProperties DEF ToSet

(* A function on 1..n is a sequence of length n.                           *)
LEMMA SeqFrom ==
  ASSUME NEW S, NEW n \in Nat, NEW s \in [1..n -> S]
  PROVE  s \in Seq(S) /\ Len(s) = n
OBVIOUS

(* A concatenation has the members of both parts.                          *)
LEMMA MembersOfConcat ==
  ASSUME NEW S, NEW s \in Seq(S), NEW t \in Seq(S)
  PROVE  s \o t \in Seq(S) /\ ToSet(s \o t) = ToSet(s) \cup ToSet(t)
<1>1. /\ s \o t \in Seq(S) /\ Len(s \o t) = Len(s) + Len(t) /\ Len(s) \in Nat /\ Len(t) \in Nat
      /\ \A i \in 1..Len(s) + Len(t) : (s \o t)[i] = IF i <= Len(s) THEN s[i] ELSE t[i - Len(s)]
  BY ConcatProperties, LenProperties
<1>2. ASSUME NEW x \in ToSet(s \o t) PROVE x \in ToSet(s) \cup ToSet(t)
  <2>1. PICK i \in 1..Len(s) + Len(t) : (s \o t)[i] = x
    BY <1>1, <1>2, Members
  <2>2. CASE i <= Len(s)
    BY <1>1, <2>1, <2>2, Members
  <2>3. CASE ~(i <= Len(s))
    <3>1. i - Len(s) \in 1..Len(t) /\ t[i - Len(s)] = x
      BY <1>1, <2>1, <2>3
    <3> QED
      BY <3>1, Members
  <2> QED
    BY <2>2, <2>3
<1>3. ASSUME NEW x \in ToSet(s) PROVE x \in ToSet(s \o t)
  <2>1. PICK i \in 1..Len(s) : s[i] = x
    BY <1>3, Members
  <2>2. i \in 1..Len(s \o t) /\ (s \o t)[i] = x
    BY <1>1, <2>1
  <2> QED
    BY <1>1, <2>2, Members
<1>4. ASSUME NEW x \in ToSet(t) PROVE x \in ToSet(s \o t)
  <2>1. PICK i \in 1..Len(t) : t[i] = x
    BY <1>4, Members
  <2>2. Len(s) + i \in 1..Len(s \o t) /\ (s \o t)[Len(s) + i] = x
    BY <1>1, <2>1
  <2> QED
    BY <1>1, <2>2, Members
<1> QED
  BY <1>1, <1>2, <1>3, <1>4

(* A selection has the members of s that stand at the selected places.     *)
LEMMA MembersOfPick ==
  ASSUME NEW S, NEW s \in Seq(S), NEW I
  PROVE  Pick(s, I) \in Seq(S) /\ ToSet(Pick(s, I)) = {s[i] : i \in I \cap DOMAIN s}
<1> DEFINE p == Pick(s, I)
<1>1. p \in Seq(S) /\ Len(p) \in Nat /\ DOMAIN s = 1..Len(s)
  BY PickIs, LenProperties
<1>2. PICK f : /\ Passes(f, Len(p), s, I)
               /\ \A k \in 1..Len(p) : p[k] = s[f[k]]
  BY PickIs
<1> HIDE DEF p
<1>3. ASSUME NEW x \in ToSet(p) PROVE x \in {s[i] : i \in I \cap DOMAIN s}
  <2>1. PICK k \in 1..Len(p) : p[k] = x
    BY <1>1, <1>3, Members
  <2> QED
    BY <1>1, <1>2, <2>1 DEF Passes
<1>4. ASSUME NEW i \in I \cap DOMAIN s PROVE s[i] \in ToSet(p)
  <2>1. PICK k \in 1..Len(p) : f[k] = i
    BY <1>1, <1>2 DEF Passes
  <2>2. p[k] = s[i]
    BY <1>2, <2>1
  <2> QED
    BY <1>1, <2>2, Members
<1> QED
  BY <1>1, <1>3, <1>4 DEF p

(* A prefix, the new elements and the rest.                                *)
LEMMA BeforeIs ==
  ASSUME NEW S, NEW s \in Seq(S), NEW i \in 1..(Len(s) + 1), NEW new \in Seq(S)
  PROVE  /\ SubSeq(s, 1, i - 1) \in Seq(S) /\ SubSeq(s, i, Len(s)) \in Seq(S)
         /\ Len(SubSeq(s, 1, i - 1)) = i - 1 /\ Len(SubSeq(s, i, Len(s))) = Len(s) + 1 - i
         /\ \A k \in 1..(i - 1) : SubSeq(s, 1, i - 1)[k] = s[k]
         /\ \A k \in 1..(Len(s) + 1 - i) : SubSeq(s, i, Len(s))[k] = s[i + k - 1]
         /\ Before(s, i, new) \in Seq(S)
         /\ ToSet(Before(s, i, new)) = ToSet(s) \cup ToSet(new)
<1> DEFINE a == SubSeq(s, 1, i - 1)
           b == SubSeq(s, i, Len(s))
<1>1. Len(s) \in Nat /\ \A k \in 1..Len(s) : s[k] \in S
  BY LenProperties
<1>2. a \in Seq(S) /\ Len(a) = i - 1 /\ \A k \in 1..(i - 1) : a[k] = s[k]
  BY <1>1, SubSeqProperties
<1>3. b \in Seq(S) /\ Len(b) = Len(s) + 1 - i /\ \A k \in 1..(Len(s) + 1 - i) : b[k] = s[i + k - 1]
  BY <1>1, SubSeqProperties
<1>4. Before(s, i, new) = (a \o new) \o b
  BY DEF Before
<1> HIDE DEF a, b
<1>5. (a \o new) \o b \in Seq(S) /\ ToSet((a \o new) \o b) = (ToSet(a) \cup ToSet(new))
         \cup ToSet(b)
  <2> DEFINE c == a \o new
  <2>1. c \in Seq(S) /\ ToSet(c) = ToSet(a) \cup ToSet(new)
    BY <1>2, MembersOfConcat
  <2> HIDE DEF c
  <2>2. c \o b \in Seq(S) /\ ToSet(c \o b) = ToSet(c) \cup ToSet(b)
    BY <1>3, <2>1, MembersOfConcat
  <2> QED
    BY <2>1, <2>2 DEF c
<1>6. ToSet(a) \cup ToSet(b) = ToSet(s)
  <2>1. ASSUME NEW x \in ToSet(a) PROVE x \in ToSet(s)
    <3>1. PICK k \in 1..Len(a) : a[k] = x
      BY <1>2, <2>1, Members
    <3>2. k \in 1..Len(s) /\ s[k] = x
      BY <1>1, <1>2, <3>1
    <3> QED
      BY <3>2, Members
  <2>2. ASSUME NEW x \in ToSet(b) PROVE x \in ToSet(s)
    <3>1. PICK k \in 1..Len(b) : b[k] = x
      BY <1>3, <2>2, Members
    <3>2. i + k - 1 \in 1..Len(s) /\ s[i + k - 1] = x
      BY <1>1, <1>3, <3>1
    <3> QED
      BY <3>2, Members
  <2>3. ASSUME NEW x \in ToSet(s) PROVE x \in ToSet(a) \cup ToSet(b)
    <3>1. PICK k \in 1..Len(s) : s[k] = x
      BY <2>3, Members
    <3>2. CASE k < i
      <4>1. k \in 1..Len(a) /\ a[k] = x
        BY <1>1, <1>2, <3>1, <3>2
      <4> QED
        BY <1>2, <4>1, Members
    <3>3. CASE ~(k < i)
      <4>1. k - i + 1 \in 1..Len(b) /\ b[k - i + 1] = x
        BY <1>1, <1>3, <3>1, <3>3
      <4> QED
        BY <1>3, <4>1, Members
    <3> QED
      BY <3>2, <3>3
  <2> QED
    BY <2>1, <2>2, <2>3
<1>7. ToSet(Before(s, i, new)) = ToSet(s) \cup ToSet(new)
  BY <1>4, <1>5, <1>6
<1>8. Before(s, i, new) \in Seq(S)
  BY <1>4, <1>5
<1> QED
  BY <1>2, <1>3, <1>7, <1>8 DEF a, b

(* Removing a place shifts down what stands behind it and keeps what       *)
(* stands before it.                                                       *)
LEMMA RemoveAtIs ==
  ASSUME NEW S, NEW s \in Seq(S), NEW i \in 1..Len(s)
  PROVE  /\ RemoveAt(s, i) \in Seq(S) /\ Len(RemoveAt(s, i)) = Len(s) - 1
         /\ \A k \in 1..(Len(s) - 1) : RemoveAt(s, i)[k] = IF k < i THEN s[k] ELSE s[k + 1]
<1> DEFINE a == SubSeq(s, 1, i - 1)
           b == SubSeq(s, i + 1, Len(s))
<1>1. Len(s) \in Nat /\ \A k \in 1..Len(s) : s[k] \in S
  BY LenProperties
<1>2. a \in Seq(S) /\ Len(a) = i - 1 /\ \A k \in 1..(i - 1) : a[k] = s[k]
  BY <1>1, SubSeqProperties
<1>3. b \in Seq(S) /\ Len(b) = Len(s) - i /\ \A k \in 1..(Len(s) - i) : b[k] = s[i + k]
  <2>1. \A k \in (i + 1)..Len(s) : s[k] \in S
    BY <1>1
  <2>2. /\ b \in Seq(S) /\ Len(b) = IF i + 1 <= Len(s) THEN Len(s) - (i + 1) + 1 ELSE 0
        /\ \A k \in 1..(Len(s) - (i + 1) + 1) : b[k] = s[(i + 1) + k - 1]
    BY <1>1, <2>1, SubSeqProperties
  <2> HIDE DEF b
  <2> QED
    BY <1>1, <2>2
<1>4. RemoveAt(s, i) = a \o b
  BY DEF RemoveAt
<1> HIDE DEF a, b
<1>5. /\ a \o b \in Seq(S) /\ Len(a \o b) = Len(a) + Len(b)
      /\ \A k \in 1..Len(a) + Len(b) : (a \o b)[k] = IF k <= Len(a) THEN a[k] ELSE b[k - Len(a)]
  BY <1>2, <1>3, ConcatProperties
<1>6. ASSUME NEW k \in 1..(Len(s) - 1) PROVE (a \o b)[k] = IF k < i THEN s[k] ELSE s[k + 1]
  <2>1. CASE k < i
    BY <1>1, <1>2, <1>3, <1>5, <2>1
  <2>2. CASE ~(k < i)
    <3> DEFINE l == k - (i - 1)
    <3>1. l \in 1..(Len(s) - i) /\ i + l = k + 1 /\ l = k - Len(a)
      BY <1>1, <1>2, <2>2
    <3>2. (a \o b)[k] = b[k - Len(a)]
      BY <1>1, <1>2, <1>3, <1>5, <2>2
    <3> HIDE DEF l
    <3>3. b[l] = s[k + 1]
      BY <1>3, <3>1
    <3> QED
      BY <2>2, <3>1, <3>2, <3>3
  <2> QED
    BY <2>1, <2>2
<1> QED
  BY <1>1, <1>2, <1>3, <1>4, <1>5, <1>6

-----------------------------------------------------------------------------
(* Searching *)

(* Min chooses the least element.                                          *)
LEMMA LeastChosen ==
  ASSUME NEW I \in SUBSET Nat, I # {}
  PROVE  Min(I) \in I /\ \A j \in I : Min(I) <= j
<1>1. \E m \in I : \A j \in I : m <= j
  BY LeastNumber
<1> QED
  BY <1>1 DEF Min

(* heading(): the place of a section of that number and subject, or 0 when *)
(* there is none.                                                          *)
LEMMA HeadingIs ==
  ASSUME NEW S, NEW body \in Seq(S), NEW num, NEW topic
  PROVE  LET h == Heading(body, num, topic)
         IN  /\ h = 0 <=> \A i \in 1..Len(body) : ~(body[i].num = num /\ body[i].topic = topic)
             /\ h # 0 => h \in 1..Len(body) /\ body[h].num = num /\ body[h].topic = topic
<1> DEFINE I == {i \in 1..Len(body) : body[i].num = num /\ body[i].topic = topic}
<1>1. Heading(body, num, topic) = IF I # {} THEN Min(I) ELSE 0
  BY DEF Heading, SelectInSeq
<1>2. Len(body) \in Nat
  BY LenProperties
<1>3. I # {} => Min(I) \in I
  <2>1. I \in SUBSET Nat
    BY <1>2
  <2> HIDE DEF I
  <2> QED
    BY <2>1, LeastChosen
<1> QED
  BY <1>1, <1>2, <1>3

(* FirstWith: the first section that carries a mark, or 0 when none does.  *)
LEMMA FirstWithIs ==
  ASSUME NEW S, NEW body \in Seq(S), NEW mark
  PROVE  LET h == FirstWith(body, mark)
         IN  /\ h = 0 <=> \A i \in 1..Len(body) : mark \notin body[i].marks
             /\ h # 0 => /\ h \in 1..Len(body) /\ mark \in body[h].marks
                         /\ \A i \in 1..Len(body) : mark \in body[i].marks => h <= i
<1> DEFINE I == {i \in 1..Len(body) : mark \in body[i].marks}
<1>1. FirstWith(body, mark) = IF I # {} THEN Min(I) ELSE 0
  BY DEF FirstWith, SelectInSeq
<1>2. Len(body) \in Nat
  BY LenProperties
<1>3. I # {} => Min(I) \in I /\ \A j \in I : Min(I) <= j
  <2>1. I \in SUBSET Nat
    BY <1>2
  <2> HIDE DEF I
  <2> QED
    BY <2>1, LeastChosen
<1> QED
  BY <1>1, <1>2, <1>3

(* ChapterAt: the place of the first-level heading of a number, or 0 when  *)
(* there is none.                                                          *)
LEMMA ChapterAtIs ==
  ASSUME NEW S, NEW body \in Seq(S), NEW n
  PROVE  LET h == ChapterAt(body, n)
         IN  /\ h = 0 <=> \A i \in 1..Len(body) : ~(body[i].level = 1 /\ body[i].num = <<n>>)
             /\ h # 0 => h \in 1..Len(body) /\ body[h].level = 1 /\ body[h].num = <<n>>
<1> DEFINE I == {i \in 1..Len(body) : body[i].level = 1 /\ body[i].num = <<n>>}
<1>1. ChapterAt(body, n) = IF I # {} THEN Min(I) ELSE 0
  BY DEF ChapterAt, SelectInSeq
<1>2. Len(body) \in Nat
  BY LenProperties
<1>3. I # {} => Min(I) \in I
  <2>1. I \in SUBSET Nat
    BY <1>2
  <2> HIDE DEF I
  <2> QED
    BY <2>1, LeastChosen
<1>4. \A i : i \in I <=> i \in 1..Len(body) /\ body[i].level = 1 /\ body[i].num = <<n>>
  OBVIOUS
<1> DEFINE num == <<n>>
<1>5. \A i : i \in I <=> i \in 1..Len(body) /\ body[i].level = 1 /\ body[i].num = num
  BY <1>4
<1> HIDE DEF I, num
<1>6. LET h == ChapterAt(body, n)
      IN  /\ h = 0 <=> \A i \in 1..Len(body) : ~(body[i].level = 1 /\ body[i].num = num)
          /\ h # 0 => h \in 1..Len(body) /\ body[h].level = 1 /\ body[h].num = num
  BY <1>1, <1>2, <1>3, <1>5
<1> QED
  BY <1>6 DEF num

-----------------------------------------------------------------------------
(* Sections and the order of their numbers *)

Topic ==
  {"account", "activation", "appendix", "applying", "approval", "architecture", "axes",
   "background", "batch", "bearer", "boundary", "bundles", "cache", "cached", "calculation",
   "candidates", "class", "components", "composition", "contents", "contest", "data", "descent",
   "detail", "dormant", "enrolling", "example", "extension", "fewEvents", "full", "gate",
   "general", "glance", "hits", "incremental", "joining", "journey", "keys", "kinds", "layers",
   "lifecycle", "logic", "lookup", "massive", "matching", "metrics", "misses", "modules",
   "negotiated", "nocross", "outputs", "overview", "period", "physical", "policy", "premise",
   "principle", "priority", "probes", "problem", "process", "proposal", "qualified", "ranking",
   "recommendation", "register", "request", "roles", "scale", "schedule", "settings",
   "situation", "solution", "start", "steps", "storage", "summary", "survey", "tables",
   "targets", "terms", "ties", "whyboard", "workflow"}

Mark ==
  {"arrives", "axisTable", "cellRule", "draft", "eightAxes", "end", "etf", "figure", "indexPara",
   "intro", "keyGrowth", "keysHead", "noRow", "note", "numbered", "option", "perStock",
   "physIntro", "side", "storedTable", "trans", "why"}

Cite == [num : Seq(Nat), to : Topic]

Sec == [level : Nat, num : Seq(Nat), topic : Topic, marks : SUBSET Mark, refs : SUBSET Cite]

(* A section without its references.                                       *)
SketchType == [level : Nat, num : Seq(Nat), topic : Topic, marks : SUBSET Mark]

Sketch(x) == [level |-> x.level, num |-> x.num, topic |-> x.topic, marks |-> x.marks]

Outline(body) == {Sketch(body[i]) : i \in DOMAIN body}

(* A whole number that rises as the numbers do, at most three levels deep. *)
Second(num) == IF Len(num) >= 2 THEN num[2] ELSE 0
Third(num)  == IF Len(num) >= 3 THEN num[3] ELSE 0
Height(num) == 10000 * (num[1] + 1) + 100 * Second(num) + Third(num)

(* What is not numbered stands before or behind the chapters.              *)
Place(topic) ==
  CASE topic \in {"summary", "proposal", "recommendation"} -> 1
    [] topic = "background" -> 2 [] topic = "situation" -> 3 [] topic = "problem" -> 4
    [] topic = "solution" -> 5 [] topic = "terms" -> 6 [] topic = "contents" -> 7
    [] OTHER -> 300000

Key(x) == IF x.num = <<>> THEN Place(x.topic) ELSE Height(x.num)

Rising(s) == \A i, j \in 1..Len(s) : i < j => Key(s[i]) < Key(s[j])

Plain(num) ==
  \/ \E c \in 0..20 : num = <<c>>
  \/ \E c \in 0..20, k \in 1..90 : num = <<c, k>>
  \/ \E c \in 0..20, k, l \in 1..90 : num = <<c, k, l>>

(* The key of a heading is an integer.                                     *)
LEMMA KeyIsInt ==
  ASSUME NEW x \in Sec
  PROVE  Key(x) \in Int
<1>1. Place(x.topic) \in Int
  BY DEF Place
<1>2. x.num # <<>> => Height(x.num) \in Int
  <2> SUFFICES ASSUME x.num # <<>> PROVE Height(x.num) \in Int
    OBVIOUS
  <2> DEFINE n == x.num
  <2>1. n \in Seq(Nat) /\ n # <<>>
    BY DEF Sec
  <2> HIDE DEF n
  <2>2. n[1] \in Nat
    BY <2>1
  <2>3. Second(n) \in Nat /\ Third(n) \in Nat
    BY <2>1 DEF Second, Third
  <2>4. Height(n) \in Int
    BY <2>2, <2>3 DEF Height
  <2> QED
    BY <2>4 DEF n
<1> QED
  BY <1>1, <1>2 DEF Key

(* Chapter, section and subsection of a number, 0 where it has none.       *)
Parts(num, c, k, l) ==
  /\ num \in Seq(Nat) /\ num[1] = c /\ Height(num) = 10000 * (c + 1) + 100 * k + l
  /\ \/ Len(num) = 1 /\ k = 0 /\ l = 0
     \/ Len(num) = 2 /\ k > 0 /\ l = 0 /\ num[2] = k
     \/ Len(num) = 3 /\ k > 0 /\ l > 0 /\ num[2] = k /\ num[3] = l

(* A number of one, two or three parts has a chapter, a section and a      *)
(* paragraph, 0 where it has none.                                         *)
LEMMA PlainParts ==
  ASSUME NEW num, Plain(num)
  PROVE  \E c \in 0..20, k, l \in 0..90 : Parts(num, c, k, l)
<1>1. ASSUME NEW c \in 0..20, num = <<c>> PROVE Parts(num, c, 0, 0)
  <2>1. num \in Seq(Nat) /\ Height(num) = 10000 * (c + 1) /\ Len(num) = 1 /\ num[1] = c
    BY <1>1 DEF Height, Second, Third
  <2> QED
    BY <2>1 DEF Parts
<1>2. ASSUME NEW c \in 0..20, NEW k \in 1..90, num = <<c, k>> PROVE Parts(num, c, k, 0)
  <2>1. num \in Seq(Nat) /\ Height(num) = 10000 * (c + 1) + 100 * k /\ Len(num) = 2
           /\ num[1] = c /\ num[2] = k
    BY <1>2 DEF Height, Second, Third
  <2> QED
    BY <2>1 DEF Parts
<1>3. ASSUME NEW c \in 0..20, NEW k \in 1..90, NEW l \in 1..90, num = <<c, k, l>>
      PROVE  Parts(num, c, k, l)
  <2>1. /\ num \in Seq(Nat) /\ Height(num) = 10000 * (c + 1) + 100 * k + l /\ Len(num) = 3
        /\ num[1] = c /\ num[2] = k /\ num[3] = l
    BY <1>3 DEF Height, Second, Third
  <2> QED
    BY <2>1 DEF Parts
<1> QED
  <2>1. 0 \in 0..90 /\ \A k \in 1..90 : k \in 0..90
    OBVIOUS
  <2>2. CASE \E c \in 0..20 : num = <<c>>
    BY <1>1, <2>1, <2>2, Zenon
  <2>3. CASE \E c \in 0..20, k \in 1..90 : num = <<c, k>>
    BY <1>2, <2>1, <2>3, Zenon
  <2>4. CASE \E c \in 0..20, k, l \in 1..90 : num = <<c, k, l>>
    BY <1>3, <2>1, <2>4, Zenon
  <2> QED
    BY <2>2, <2>3, <2>4, Zenon DEF Plain

(* Where heights differ, a number either starts another or parts from it   *)
(* at the first place where they differ.                                   *)
LEMMA HeightIsOrder ==
  ASSUME NEW a, NEW b, Plain(a), Plain(b), Height(a) < Height(b)
  PROVE  Lower(a, b)
<1>1. PICK c \in 0..20, k \in 0..90, l \in 0..90 : Parts(a, c, k, l)
  BY PlainParts, Zenon
<1>2. PICK x \in 0..20, y \in 0..90, z \in 0..90 : Parts(b, x, y, z)
  BY PlainParts, Zenon
<1>3. c < x \/ (c = x /\ k < y) \/ (c = x /\ k = y /\ l < z)
  <2> DEFINE m == Height(a)
             n == Height(b)
  <2>1. m = 10000 * (c + 1) + 100 * k + l
    BY <1>1 DEF Parts
  <2>2. n = 10000 * (x + 1) + 100 * y + z
    BY <1>2 DEF Parts
  <2>3. m < n
    OBVIOUS
  <2> HIDE DEF m, n
  <2> DEFINE s == 100 * k + l
             t == 100 * y + z
  <2>4. s \in 0..9999 /\ t \in 0..9999
    OBVIOUS
  <2>5. m = 10000 * (c + 1) + s /\ n = 10000 * (x + 1) + t
    BY <2>1, <2>2
  <2>6. s < t => k < y \/ (k = y /\ l < z)
    OBVIOUS
  <2> HIDE DEF s, t
  <2>7. c < x \/ (c = x /\ s < t)
    BY <2>3, <2>4, <2>5
  <2> QED
    BY <2>6, <2>7
<1>4. DOMAIN b = 1..Len(b)
  BY <1>2, LenProperties DEF Parts
<1> DEFINE h == Len(a)
           e == Len(b)
<1>5. /\ h \in 1..3 /\ a[1] = c /\ (h = 1 => k = 0 /\ l = 0) /\ (h = 2 => l = 0)
      /\ (h >= 2 => a[2] = k) /\ (h = 3 => a[3] = l)
  BY <1>1 DEF Parts
<1>6. /\ e \in 1..3 /\ b[1] = x /\ (e = 1 => y = 0 /\ z = 0) /\ (e = 2 => z = 0)
      /\ (e >= 2 => b[2] = y) /\ (e = 3 => b[3] = z /\ y > 0)
  BY <1>2 DEF Parts
<1> HIDE DEF h, e
<1>7. CASE c < x
  <2>1. 1 \in 1..e /\ 1 <= h /\ a[1] < b[1]
    BY <1>5, <1>6, <1>7
  <2> QED
    BY <1>4, <2>1 DEF Lower, h, e
<1>8. CASE c = x /\ k < y
  <2>1. e >= 2
    BY <1>6, <1>8
  <2>2. 2 \in 1..e /\ a[1] = b[1] /\ 1 <= h /\ b[2] = y
    BY <1>5, <1>6, <1>8, <2>1
  <2>3. 2 = h + 1 \/ (2 <= h /\ a[2] < b[2])
    BY <1>5, <1>8, <2>2
  <2>4. \A j \in 1..(2 - 1) : j <= h /\ a[j] = b[j]
    BY <2>2
  <2> QED
    BY <1>4, <2>2, <2>3, <2>4 DEF Lower, h, e
<1>9. CASE c = x /\ k = y /\ l < z
  <2>1. e = 3
    BY <1>6, <1>9
  <2>2. 3 \in 1..e /\ b[2] = y /\ b[3] = z
    BY <1>6, <2>1
  <2>3. y > 0
    BY <1>6, <2>1
  <2>4. 2 <= h
    BY <1>5, <1>9, <2>3
  <2>5. a[1] = b[1] /\ a[2] = b[2]
    BY <1>5, <1>6, <1>9, <2>2, <2>4
  <2>6. 3 = h + 1 \/ (3 <= h /\ a[3] < b[3])
    BY <1>5, <1>9, <2>2, <2>4
  <2>7. \A j \in 1..(3 - 1) : j <= h /\ a[j] = b[j]
    BY <1>5, <2>4, <2>5
  <2>8. 3 \in DOMAIN b
    BY <1>4, <2>2 DEF e
  <2> QED
    BY <2>6, <2>7, <2>8 DEF Lower, h
<1> QED
  BY <1>3, <1>7, <1>8, <1>9

(* Two rising bodies, one after the other, rise when every key of the      *)
(* first is below every key of the second.                                 *)
LEMMA RisingConcat ==
  ASSUME NEW s \in Seq(Sec), NEW t \in Seq(Sec), Rising(s), Rising(t),
         \A x \in ToSet(s), y \in ToSet(t) : Key(x) < Key(y)
  PROVE  Rising(s \o t)
<1>1. /\ s \o t \in Seq(Sec) /\ Len(s \o t) = Len(s) + Len(t) /\ Len(s) \in Nat /\ Len(t) \in Nat
      /\ \A i \in 1..Len(s) + Len(t) : (s \o t)[i] = IF i <= Len(s) THEN s[i] ELSE t[i - Len(s)]
  BY ConcatProperties, LenProperties
<1> SUFFICES ASSUME NEW i \in 1..Len(s) + Len(t), NEW j \in 1..Len(s) + Len(t), i < j
             PROVE  Key((s \o t)[i]) < Key((s \o t)[j])
  BY <1>1 DEF Rising
<1>2. CASE j <= Len(s)
  <2>1. i \in 1..Len(s) /\ j \in 1..Len(s)
    BY <1>1, <1>2
  <2> QED
    BY <1>1, <2>1 DEF Rising
<1>3. CASE i <= Len(s) /\ ~(j <= Len(s))
  <2>1. i \in 1..Len(s) /\ j - Len(s) \in 1..Len(t)
    BY <1>1, <1>3
  <2>2. s[i] \in ToSet(s) /\ t[j - Len(s)] \in ToSet(t)
    BY <2>1, Members
  <2> QED
    BY <1>1, <1>3, <2>2
<1>4. CASE ~(i <= Len(s))
  <2>1. i - Len(s) \in 1..Len(t) /\ j - Len(s) \in 1..Len(t) /\ i - Len(s) < j - Len(s)
    BY <1>1, <1>4
  <2>2. Key(t[i - Len(s)]) < Key(t[j - Len(s)])
    BY <2>1 DEF Rising
  <2>3. (s \o t)[i] = t[i - Len(s)] /\ (s \o t)[j] = t[j - Len(s)]
    BY <1>1, <1>4
  <2> QED
    BY <2>2, <2>3
<1> QED
  BY <1>1, <1>2, <1>3, <1>4

(* A selection of sections rises when the selected sections do.            *)
LEMMA RisingPick ==
  ASSUME NEW S, NEW s \in Seq(S), NEW I,
         \A i, j \in I \cap DOMAIN s : i < j => Key(s[i]) < Key(s[j])
  PROVE  Rising(Pick(s, I))
<1> DEFINE p == Pick(s, I)
<1>1. Len(p) \in Nat /\ DOMAIN s = 1..Len(s)
  BY PickIs, LenProperties
<1>2. PICK f : /\ Passes(f, Len(p), s, I)
               /\ \A k \in 1..Len(p) : p[k] = s[f[k]]
  BY PickIs
<1> HIDE DEF p
<1>3. ASSUME NEW k \in 1..Len(p), NEW l \in 1..Len(p), k < l
      PROVE  Key(p[k]) < Key(p[l])
  <2>1. f[k] \in I \cap DOMAIN s /\ f[l] \in I \cap DOMAIN s /\ f[k] < f[l]
    BY <1>1, <1>2, <1>3 DEF Passes
  <2> QED
    BY <1>2, <2>1
<1> QED
  BY <1>3 DEF Rising, p

(* What stands before the anchor is lower, what stands behind it higher.   *)
LEMMA RisingBefore ==
  ASSUME NEW s \in Seq(Sec), NEW i \in 1..(Len(s) + 1), NEW new \in Seq(Sec),
         Rising(s), Rising(new),
         \A k \in 1..(i - 1) : \A y \in ToSet(new) : Key(s[k]) < Key(y),
         \A k \in i..Len(s) : \A y \in ToSet(new) : Key(y) < Key(s[k])
  PROVE  Rising(Before(s, i, new))
<1> DEFINE a == SubSeq(s, 1, i - 1)
           b == SubSeq(s, i, Len(s))
           c == a \o new
<1>1. /\ a \in Seq(Sec) /\ b \in Seq(Sec) /\ Len(a) = i - 1 /\ Len(b) = Len(s) + 1 - i
      /\ \A k \in 1..(i - 1) : a[k] = s[k]
      /\ \A k \in 1..(Len(s) + 1 - i) : b[k] = s[i + k - 1]
      /\ Len(s) \in Nat
  BY BeforeIs, LenProperties
<1> HIDE DEF a, b
<1>2. Rising(a)
  <2> SUFFICES ASSUME NEW k \in 1..Len(a), NEW l \in 1..Len(a), k < l
               PROVE  Key(a[k]) < Key(a[l])
    BY DEF Rising
  <2>1. k \in 1..Len(s) /\ l \in 1..Len(s)
    BY <1>1
  <2>2. Key(s[k]) < Key(s[l])
    BY <2>1 DEF Rising
  <2> QED
    BY <1>1, <2>2
<1>3. Rising(b)
  <2> SUFFICES ASSUME NEW k \in 1..Len(b), NEW l \in 1..Len(b), k < l
               PROVE  Key(b[k]) < Key(b[l])
    BY DEF Rising
  <2>1. i + k - 1 \in 1..Len(s) /\ i + l - 1 \in 1..Len(s) /\ i + k - 1 < i + l - 1
    BY <1>1
  <2>2. Key(s[i + k - 1]) < Key(s[i + l - 1])
    BY <2>1 DEF Rising
  <2> QED
    BY <1>1, <2>2
<1>4. \A x \in ToSet(a), y \in ToSet(new) : Key(x) < Key(y)
  <2> TAKE x \in ToSet(a), y \in ToSet(new)
  <2>1. PICK k \in 1..Len(a) : a[k] = x
    BY <1>1, Members
  <2> QED
    BY <1>1, <2>1
<1>5. \A y \in ToSet(new), x \in ToSet(b) : Key(y) < Key(x)
  <2> TAKE y \in ToSet(new), x \in ToSet(b)
  <2>1. PICK k \in 1..Len(b) : b[k] = x
    BY <1>1, Members
  <2>2. i + k - 1 \in i..Len(s) /\ s[i + k - 1] = x
    BY <1>1, <2>1
  <2> QED
    BY <2>2
<1>6. \A x \in ToSet(a), y \in ToSet(b) : Key(x) < Key(y)
  <2> TAKE x \in ToSet(a), y \in ToSet(b)
  <2>1. PICK k \in 1..Len(a) : a[k] = x
    BY <1>1, Members
  <2>2. PICK l \in 1..Len(b) : b[l] = y
    BY <1>1, Members
  <2>3. k \in 1..Len(s) /\ s[k] = x /\ i + l - 1 \in 1..Len(s) /\ s[i + l - 1] = y /\ k < i + l - 1
    BY SMTT(30), <1>1, <2>1, <2>2
  <2> QED
    BY <2>3 DEF Rising
<1>7. c \in Seq(Sec) /\ Rising(c) /\ ToSet(c) = ToSet(a) \cup ToSet(new)
  BY <1>1, <1>2, <1>4, RisingConcat, MembersOfConcat
<1> HIDE DEF c
<1>8. Rising(c \o b)
  BY <1>1, <1>3, <1>5, <1>6, <1>7, RisingConcat
<1>9. Before(s, i, new) = c \o b
  BY DEF Before, a, b, c
<1> QED
  BY <1>8, <1>9

-----------------------------------------------------------------------------
(* What the changes of a body do to its outline *)

(* The outline of a body has one sketch for each section, and tells its    *)
(* subjects and its marks.                                                 *)
LEMMA OutlineIs ==
  ASSUME NEW body \in Seq(Sec)
  PROVE  /\ Outline(body) \in SUBSET SketchType
         /\ \A i \in DOMAIN body : body[i] \in Sec /\ Sketch(body[i]) \in Outline(body)
         /\ Outline(body) = {Sketch(x) : x \in ToSet(body)}
         /\ Topics(body) = {o.topic : o \in Outline(body)}
         /\ Marks(body) = UNION {o.marks : o \in Outline(body)}
<1>1. \A i \in DOMAIN body : body[i] \in Sec
  BY LenProperties
<1>2. \A i \in DOMAIN body : Sketch(body[i]) \in SketchType
         /\ Sketch(body[i]).topic = body[i].topic /\ Sketch(body[i]).marks = body[i].marks
  BY <1>1 DEF Sketch, SketchType, Sec
<1>3. Outline(body) = {Sketch(x) : x \in ToSet(body)}
  BY DEF Outline, ToSet
<1>4. Topics(body) = {o.topic : o \in Outline(body)}
  BY <1>2 DEF Topics, Outline
<1>5. Marks(body) = UNION {o.marks : o \in Outline(body)}
  BY <1>2 DEF Marks, Outline
<1> QED
  BY <1>1, <1>2, <1>3, <1>4, <1>5 DEF Outline

(* Sections that keep number and topic keep their order.                   *)
LEMMA Kept ==
  ASSUME NEW body \in Seq(Sec), NEW new, new = [i \in DOMAIN body |-> new[i]],
         \A i \in DOMAIN body : new[i] \in Sec /\ Key(new[i]) = Key(body[i])
  PROVE  /\ new \in Seq(Sec) /\ Len(new) = Len(body) /\ DOMAIN new = DOMAIN body
         /\ Rising(body) => Rising(new)
<1>1. Len(body) \in Nat /\ DOMAIN body = 1..Len(body)
  BY LenProperties
<1>2. new \in [1..Len(body) -> Sec]
  BY <1>1
<1>3. new \in Seq(Sec) /\ Len(new) = Len(body)
  BY <1>1, <1>2
<1>4. Rising(body) => Rising(new)
  BY <1>1, <1>3 DEF Rising
<1> QED
  BY <1>1, <1>2, <1>3, <1>4

(* Marking the sections of a subject keeps every key and changes only      *)
(* those marks of the outline.                                             *)
LEMMA MarkingIs ==
  ASSUME NEW body \in Seq(Sec), NEW topic, NEW marks \in SUBSET Mark
  PROVE  /\ Marking(body, topic, marks) \in Seq(Sec)
         /\ Rising(body) => Rising(Marking(body, topic, marks))
         /\ Outline(Marking(body, topic, marks)) =
              {IF o.topic = topic THEN [o EXCEPT !.marks = @ \cup marks]
                 ELSE o : o \in Outline(body)}
<1> DEFINE new == Marking(body, topic, marks)
           more(o) == IF o.topic = topic THEN [o EXCEPT !.marks = @ \cup marks] ELSE o
<1>1. \A i \in DOMAIN body : body[i] \in Sec
  BY LenProperties
<1>2. new = [i \in DOMAIN body |-> more(body[i])]
  BY DEF Marking
<1>3. ASSUME NEW x \in Sec PROVE more(x) \in Sec /\ Key(more(x)) = Key(x)
         /\ Sketch(more(x)) = more(Sketch(x))
  BY DEF Sec, Key, Sketch
<1> HIDE DEF more, new
<1>4. \A i \in DOMAIN body : new[i] = more(body[i])
  BY <1>2
<1>5. new = [i \in DOMAIN body |-> new[i]]
  BY <1>2
<1>6. new \in Seq(Sec) /\ DOMAIN new = DOMAIN body /\ (Rising(body) => Rising(new))
  BY <1>1, <1>3, <1>4, <1>5, Kept
<1>7. Outline(new) = {more(o) : o \in Outline(body)}
  BY <1>1, <1>3, <1>4, <1>6 DEF Outline
<1> QED
  BY <1>6, <1>7 DEF more, new

(* Unmarking keeps every key and takes the marks out of the outline.       *)
LEMMA UnmarkingIs ==
  ASSUME NEW body \in Seq(Sec), NEW marks
  PROVE  /\ Unmarking(body, marks) \in Seq(Sec)
         /\ Rising(body) => Rising(Unmarking(body, marks))
         /\ Outline(Unmarking(body, marks)) = {[o EXCEPT !.marks = @ \ marks] : o \in Outline(body)}
<1> DEFINE new == Unmarking(body, marks)
           less(o) == [o EXCEPT !.marks = @ \ marks]
<1>1. \A i \in DOMAIN body : body[i] \in Sec
  BY LenProperties
<1>2. new = [i \in DOMAIN body |-> less(body[i])]
  BY DEF Unmarking
<1>3. ASSUME NEW x \in Sec PROVE less(x) \in Sec /\ Key(less(x)) = Key(x)
         /\ Sketch(less(x)) = less(Sketch(x))
  <2>1. x.marks \ marks \in SUBSET Mark
    BY DEF Sec
  <2>2. less(x) \in Sec
    BY <2>1 DEF Sec
  <2>3. Key(less(x)) = Key(x)
    BY DEF Sec, Key
  <2>4. Sketch(less(x)) = less(Sketch(x))
    <3> DEFINE m == x.marks \ marks
    <3>1. less(x) = [x EXCEPT !.marks = m]
      OBVIOUS
    <3>2. less(Sketch(x)) = [Sketch(x) EXCEPT !.marks = m]
      BY DEF Sketch
    <3> HIDE DEF m, less
    <3>3. Sketch([x EXCEPT !.marks = m]) = [Sketch(x) EXCEPT !.marks = m]
      BY SMTT(30) DEF Sec, Sketch
    <3> QED
      BY <3>1, <3>2, <3>3
  <2> QED
    BY <2>2, <2>3, <2>4
<1> HIDE DEF less, new
<1>4. \A i \in DOMAIN body : new[i] = less(body[i])
  BY <1>2
<1>5. new = [i \in DOMAIN body |-> new[i]]
  BY <1>2
<1>6. new \in Seq(Sec) /\ DOMAIN new = DOMAIN body /\ (Rising(body) => Rising(new))
  BY <1>1, <1>3, <1>4, <1>5, Kept
<1>7. Outline(new) = {less(o) : o \in Outline(body)}
  BY <1>1, <1>3, <1>4, <1>6 DEF Outline
<1> QED
  BY <1>6, <1>7 DEF less, new

(* Putting references into the sections of a subject changes neither a key *)
(* nor the outline.                                                        *)
LEMMA CitingIs ==
  ASSUME NEW body \in Seq(Sec), NEW topic, NEW refs \in SUBSET Cite
  PROVE  /\ Citing(body, topic, refs) \in Seq(Sec)
         /\ Rising(body) => Rising(Citing(body, topic, refs))
         /\ Outline(Citing(body, topic, refs)) = Outline(body)
<1> DEFINE new == Citing(body, topic, refs)
           more(x) == IF x.topic = topic THEN [x EXCEPT !.refs = @ \cup refs] ELSE x
<1>1. \A i \in DOMAIN body : body[i] \in Sec
  BY LenProperties
<1>2. new = [i \in DOMAIN body |-> more(body[i])]
  BY DEF Citing
<1>3. ASSUME NEW x \in Sec PROVE more(x) \in Sec /\ Key(more(x)) = Key(x)
         /\ Sketch(more(x)) = Sketch(x)
  BY DEF Sec, Key, Sketch
<1> HIDE DEF more, new
<1>4. \A i \in DOMAIN body : new[i] = more(body[i])
  BY <1>2
<1>5. new = [i \in DOMAIN body |-> new[i]]
  BY <1>2
<1>6. new \in Seq(Sec) /\ DOMAIN new = DOMAIN body /\ (Rising(body) => Rising(new))
  BY <1>1, <1>3, <1>4, <1>5, Kept
<1>7. Outline(new) = Outline(body)
  BY <1>1, <1>3, <1>4, <1>6 DEF Outline
<1> QED
  BY <1>6, <1>7 DEF new

(* Putting references where a mark stands changes neither a key nor the    *)
(* outline.                                                                *)
LEMMA CitingAtIs ==
  ASSUME NEW body \in Seq(Sec), NEW mark, NEW refs \in SUBSET Cite
  PROVE  /\ CitingAt(body, mark, refs) \in Seq(Sec)
         /\ Rising(body) => Rising(CitingAt(body, mark, refs))
         /\ Outline(CitingAt(body, mark, refs)) = Outline(body)
<1> DEFINE i == FirstWith(body, mark)
           new == [body EXCEPT ![i].refs = @ \cup refs]
           more(x) == [x EXCEPT !.refs = @ \cup refs]
<1>1. \A k \in DOMAIN body : body[k] \in Sec
  BY LenProperties
<1>2. CitingAt(body, mark, refs) = IF i = 0 THEN body ELSE new
  BY DEF CitingAt, FirstWith
<1>3. i # 0 => i \in DOMAIN body
  BY FirstWithIs, LenProperties
<1>4. ASSUME NEW x \in Sec PROVE more(x) \in Sec /\ Key(more(x)) = Key(x)
         /\ Sketch(more(x)) = Sketch(x)
  <2>1. x.refs \cup refs \in SUBSET Cite
    BY DEF Sec
  <2>2. more(x) \in Sec
    BY <2>1 DEF Sec
  <2> QED
    BY <2>2 DEF Sec, Key, Sketch
<1>5. CASE i # 0
  <2> HIDE DEF i
  <2>1. new = [k \in DOMAIN body |-> IF k = i THEN more(body[k]) ELSE body[k]]
    BY <1>3, <1>5
  <2> HIDE DEF new, more
  <2>2. \A k \in DOMAIN body : new[k] = IF k = i THEN more(body[k]) ELSE body[k]
    BY <2>1
  <2>3. new = [k \in DOMAIN body |-> new[k]]
    BY <2>1
  <2>4. \A k \in DOMAIN body : new[k] \in Sec /\ Key(new[k]) = Key(body[k])
           /\ Sketch(new[k]) = Sketch(body[k])
    BY <1>1, <1>4, <2>2
  <2>5. new \in Seq(Sec) /\ DOMAIN new = DOMAIN body /\ (Rising(body) => Rising(new))
    BY <2>3, <2>4, Kept
  <2>6. Outline(new) = Outline(body)
    BY <2>4, <2>5 DEF Outline
  <2> QED
    BY <1>2, <1>5, <2>5, <2>6
<1> QED
  BY <1>2, <1>5

(* Giving unnumbered headings of one subject another that stands at the    *)
(* same place keeps every key.                                             *)
LEMMA TitlingIs ==
  ASSUME NEW body \in Seq(Sec), NEW old, NEW new \in Topic, Place(old) = Place(new),
         \A o \in Outline(body) : o.topic = old => o.num = <<>>
  PROVE  /\ Titling(body, old, new) \in Seq(Sec)
         /\ Rising(body) => Rising(Titling(body, old, new))
         /\ Outline(Titling(body, old, new)) =
              {IF o.topic = old THEN [o EXCEPT !.topic = new] ELSE o : o \in Outline(body)}
<1> DEFINE next == Titling(body, old, new)
           more(o) == IF o.topic = old THEN [o EXCEPT !.topic = new] ELSE o
<1>1. \A i \in DOMAIN body : body[i] \in Sec /\ Sketch(body[i]) \in Outline(body)
  BY OutlineIs
<1>2. next = [i \in DOMAIN body |-> more(body[i])]
  BY DEF Titling
<1>3. ASSUME NEW x \in Sec, x.topic = old => x.num = <<>>
      PROVE  more(x) \in Sec /\ Key(more(x)) = Key(x) /\ Sketch(more(x)) = more(Sketch(x))
  <2>1. more(x) \in Sec /\ Sketch(more(x)) = more(Sketch(x))
    BY DEF Sec, Sketch
  <2>2. Key(more(x)) = Key(x)
    BY <1>3 DEF Sec, Key
  <2> QED
    BY <2>1, <2>2
<1>4. \A i \in DOMAIN body : body[i].topic = old => body[i].num = <<>>
  <2> TAKE i \in DOMAIN body
  <2>1. Sketch(body[i]).topic = body[i].topic /\ Sketch(body[i]).num = body[i].num
    BY DEF Sketch
  <2> QED
    BY <1>1, <2>1
<1> HIDE DEF more, next
<1>5. \A i \in DOMAIN body : next[i] = more(body[i])
  BY <1>2
<1>6. next = [i \in DOMAIN body |-> next[i]]
  BY <1>2
<1>7. next \in Seq(Sec) /\ DOMAIN next = DOMAIN body /\ (Rising(body) => Rising(next))
  BY <1>1, <1>3, <1>4, <1>5, <1>6, Kept
<1>8. Outline(next) = {more(o) : o \in Outline(body)}
  <2>1. \A i \in DOMAIN body : Sketch(next[i]) = more(Sketch(body[i]))
    BY <1>1, <1>3, <1>4, <1>5, Zenon
  <2>2. DOMAIN next = DOMAIN body
    BY <1>7
  <2> QED
    BY <2>1, <2>2 DEF Outline
<1> QED
  BY <1>7, <1>8 DEF more, next

(* A new section has the level, number and subject it is given, and        *)
(* neither marks nor references.                                           *)
LEMMA SectionIs ==
  ASSUME NEW level \in Nat, NEW num \in Seq(Nat), NEW topic \in Topic
  PROVE  LET x == Section(level, num, topic)
         IN  /\ x \in Sec /\ x.level = level /\ x.num = num /\ x.topic = topic /\ x.marks = {}
                /\ x.refs = {}
             /\ Sketch(x) = [level |-> level, num |-> num, topic |-> topic, marks |-> {}]
BY DEF Section, Sec, Sketch

(* A new section before the section with its anchor, or behind the end.    *)
LEMMA InsertedIs ==
  ASSUME NEW body \in Seq(Sec), NEW i \in 1..(Len(body) + 1), NEW new \in Seq(Sec),
         Rising(body), Rising(new),
         \A k \in 1..(i - 1) : \A y \in ToSet(new) : Key(body[k]) < Key(y),
         \A k \in i..Len(body) : \A y \in ToSet(new) : Key(y) < Key(body[k])
  PROVE  /\ Before(body, i, new) \in Seq(Sec) /\ Rising(Before(body, i, new))
         /\ Outline(Before(body, i, new)) = Outline(body) \cup Outline(new)
<1>1. Before(body, i, new) \in Seq(Sec) /\ ToSet(Before(body, i, new)) = ToSet(body) \cup ToSet(new)
  BY BeforeIs
<1>2. Rising(Before(body, i, new))
  BY RisingBefore
<1>3. Outline(Before(body, i, new)) = {Sketch(x) : x \in ToSet(body) \cup ToSet(new)}
  BY <1>1, OutlineIs
<1> QED
  BY <1>1, <1>2, <1>3, OutlineIs

(* The outline of two bodies, one after the other, is the union of their   *)
(* outlines.                                                               *)
LEMMA OutlineOfConcat ==
  ASSUME NEW s \in Seq(Sec), NEW t \in Seq(Sec)
  PROVE  Outline(s \o t) = Outline(s) \cup Outline(t)
<1>1. s \o t \in Seq(Sec) /\ ToSet(s \o t) = ToSet(s) \cup ToSet(t)
  BY MembersOfConcat
<1>2. Outline(s \o t) = {Sketch(x) : x \in ToSet(s \o t)}
  BY <1>1, OutlineIs
<1> QED
  BY <1>1, <1>2, OutlineIs

-----------------------------------------------------------------------------
(* Chapters and their concatenation *)

(* Sections in order, between two heights.                                 *)
Between(s, lo, hi) == Rising(s) /\ \A x \in ToSet(s) : lo <= Key(x) /\ Key(x) < hi

(* Two bodies whose keys lie in neighbouring ranges make one body in the   *)
(* joint range.                                                            *)
LEMMA BetweenConcat ==
  ASSUME NEW s \in Seq(Sec), NEW t \in Seq(Sec), NEW lo \in Int, NEW mid \in Int, NEW hi \in Int,
         lo <= mid, mid <= hi, Between(s, lo, mid), Between(t, mid, hi)
  PROVE  /\ s \o t \in Seq(Sec) /\ Between(s \o t, lo, hi)
         /\ ToSet(s \o t) = ToSet(s) \cup ToSet(t)
         /\ Outline(s \o t) = Outline(s) \cup Outline(t)
<1>1. \A x \in ToSet(s) : Key(x) \in Int /\ lo <= Key(x) /\ Key(x) < mid
  BY Members, KeyIsInt DEF Between
<1>2. \A y \in ToSet(t) : Key(y) \in Int /\ mid <= Key(y) /\ Key(y) < hi
  BY Members, KeyIsInt DEF Between
<1>3. \A x \in ToSet(s), y \in ToSet(t) : Key(x) < Key(y)
  BY <1>1, <1>2
<1>4. s \o t \in Seq(Sec) /\ ToSet(s \o t) = ToSet(s) \cup ToSet(t)
  BY MembersOfConcat
<1>5. Rising(s \o t)
  BY <1>3, RisingConcat DEF Between
<1>6. \A x \in ToSet(s \o t) : lo <= Key(x) /\ Key(x) < hi
  BY <1>1, <1>2, <1>4
<1> QED
  BY <1>4, <1>5, <1>6, OutlineOfConcat DEF Between

(* The first k of n sequences, one behind the other.                       *)
LEMMA FlattenSteps ==
  ASSUME NEW S, NEW ss \in Seq(Seq(S)), Len(ss) > 0
  PROVE  \E h : /\ h[1] = ss[1] /\ FlattenSeq(ss) = h[Len(ss)]
                /\ \A k \in 1..Len(ss) : h[k] \in Seq(S)
                /\ \A k \in 2..Len(ss) : h[k] = h[k - 1] \o ss[k]
<1> DEFINE n == Len(ss)
           step == [k \in 1..n |-> [p \in Seq(S) |-> IF k = 1 THEN ss[k] ELSE p \o ss[k]]]
           body(h) == [i \in 1..n |-> IF i = 1 THEN ss[i] ELSE h[i - 1] \o ss[i]]
           flatten == CHOOSE h : h = body(h)
<1>1. n \in Nat /\ n > 0 /\ \A k \in 1..n : ss[k] \in Seq(S)
  BY LenProperties
<1>2. PICK h : h \in [0..n -> Seq(S)] /\ \A k \in 1..n : h[k] = step[k][h[k - 1]]
  <2> DEFINE V == Seq(S)
             nil == <<>>
  <2>1. \A k \in 1..n : \A x \in Seq(S) : step[k][x] \in Seq(S)
    BY <1>1, ConcatProperties
  <2>2. nil \in Seq(S)
    BY EmptySeq
  <2>3. n \in Nat
    BY <1>1
  <2> HIDE DEF n, step, nil
  <2>4. nil \in V /\ Stays(step, n, V)
    BY <2>1, <2>2 DEF Stays
  <2> HIDE DEF V
  <2>5. \E h : Walk(h, n, V, nil, step)
    BY <2>3, <2>4, Recursion
  <2> QED
    BY <2>5 DEF V, Walk
<1>3. ASSUME NEW k \in 1..n PROVE h[k] = IF k = 1 THEN ss[k] ELSE h[k - 1] \o ss[k]
  <2>2. h[k] = step[k][h[k - 1]]
    BY <1>2
  <2>3. k - 1 \in 0..n
    BY <1>1
  <2> HIDE DEF n
  <2>1. h[k - 1] \in Seq(S)
    BY <1>2, <2>3
  <2> QED
    BY <2>1, <2>2
<1> DEFINE g == [k \in 1..n |-> h[k]]
<1>4. g = body(g)
  <2> HIDE DEF n
  <2>1. ASSUME NEW k \in 1..n PROVE g[k] = IF k = 1 THEN ss[k] ELSE g[k - 1] \o ss[k]
    <3>1. CASE k = 1
      BY <1>3, <3>1
    <3>2. CASE k # 1
      <4>1. k - 1 \in 1..n
        BY <1>1, <3>2
      <4> QED
        BY <1>3, <3>2, <4>1
    <3> QED
      BY <3>1, <3>2
  <2>2. g = [k \in 1..n |-> g[k]]
    OBVIOUS
  <2> HIDE DEF g
  <2> QED
    BY <2>1, <2>2
<1>5. flatten = body(flatten)
  BY <1>4, Zenon
<1>6. FlattenSeq(ss) = flatten[n]
  BY <1>1 DEF FlattenSeq
<1> HIDE DEF flatten
<1>7. \A k \in 1..n : flatten[k] = IF k = 1 THEN ss[k] ELSE flatten[k - 1] \o ss[k]
  <2>1. \A k \in 1..n : flatten[k] = body(flatten)[k]
    BY <1>5, Zenon
  <2> HIDE DEF n
  <2> QED
    BY <2>1
<1> DEFINE T == {k \in 0..n : k = 0 \/ flatten[k] \in Seq(S)}
<1>8. \A k \in 0..n : k \in T
  <2>1. 0 \in T
    BY <1>1
  <2>2. ASSUME NEW k \in 1..n, k - 1 \in T PROVE k \in T
    <3>1. flatten[k] \in Seq(S)
      <4>1. CASE k = 1
        BY <1>1, <1>7, <4>1
      <4>2. CASE k # 1
        <5>1. k - 1 # 0
          BY <1>1, <4>2
        <5>2. flatten[k - 1] \in Seq(S)
          BY <2>2, <5>1
        <5> QED
          <6> DEFINE s == flatten[k - 1]
                     t == ss[k]
          <6>1. s \in Seq(S) /\ t \in Seq(S) /\ flatten[k] = s \o t
            BY <1>1, <1>7, <4>2, <5>2
          <6> HIDE DEF s, t
          <6> QED
            BY <6>1, ConcatProperties
      <4> QED
        BY <4>1, <4>2
    <3> QED
      BY <1>1, <3>1
  <2> HIDE DEF T, n
  <2> QED
    BY <1>1, <2>1, <2>2, UpTo
<1>9. \A k \in 1..n : flatten[k] \in Seq(S)
  BY <1>1, <1>8
<1>10. flatten[1] = ss[1] /\ \A k \in 2..n : flatten[k] = flatten[k - 1] \o ss[k]
  <2> HIDE DEF n
  <2>1. 1 \in 1..n /\ \A k \in 2..n : k \in 1..n /\ k # 1
    BY <1>1
  <2> QED
    BY <1>7, <2>1
<1> QED
  BY <1>6, <1>9, <1>10

(* One chapter's worth of heights each: in order one behind the other.     *)
OnFloor(s, c) == Between(s, 10000 * c, 10000 * (c + 1))
Stacked(ss, lo) == \A k \in 1..Len(ss) : OnFloor(ss[k], lo + k)

(* Bodies stacked on top of each other, one chapter range each, make one   *)
(* body over all the ranges.                                               *)
Tower(ss, lo) ==
  /\ FlattenSeq(ss) \in Seq(Sec)
  /\ Between(FlattenSeq(ss), 10000 * (lo + 1), 10000 * (lo + Len(ss) + 1))
  /\ ToSet(FlattenSeq(ss)) = UNION {ToSet(ss[k]) : k \in 1..Len(ss)}

(* A tower of stacked bodies is one body.                                  *)
LEMMA FlattenBetween ==
  ASSUME NEW ss \in Seq(Seq(Sec)), Len(ss) > 0, NEW lo \in Int, Stacked(ss, lo)
  PROVE  Tower(ss, lo)
<1> DEFINE n == Len(ss)
<1>1. n \in Nat /\ n > 0 /\ \A k \in 1..n : ss[k] \in Seq(Sec)
  BY LenProperties
<1>2. PICK h : /\ h[1] = ss[1] /\ FlattenSeq(ss) = h[n]
               /\ \A k \in 1..n : h[k] \in Seq(Sec)
               /\ \A k \in 2..n : h[k] = h[k - 1] \o ss[k]
  BY FlattenSteps, Zenon
<1> DEFINE good(k) == /\ Between(h[k], 10000 * (lo + 1), 10000 * (lo + k + 1))
                      /\ ToSet(h[k]) = UNION {ToSet(ss[j]) : j \in 1..k}
           T == {k \in 0..n : k = 0 \/ good(k)}
<1> HIDE DEF n
<1>0. \A k \in 1..n : Between(ss[k], 10000 * (lo + k), 10000 * (lo + k + 1))
  BY DEF n, Stacked, OnFloor
<1>3. ASSUME NEW k \in 1..n, k - 1 \in T PROVE good(k)
  <2>1. CASE k = 1
    <3>1. Between(ss[1], 10000 * (lo + 1), 10000 * (lo + 1 + 1)) /\ ToSet(h[1]) = ToSet(ss[1])
      BY <1>0, <1>1, <1>2
    <3>2. UNION {ToSet(ss[j]) : j \in 1..1} = ToSet(ss[1])
      OBVIOUS
    <3> QED
      BY <1>2, <2>1, <3>1, <3>2
  <2>2. CASE k > 1
    <3>1. good(k - 1) /\ k \in 2..n /\ k - 1 \in 1..n
      <4>1. k - 1 > 0 /\ k \in 2..n /\ k - 1 \in 1..n
        BY <1>1, <2>2
      <4> HIDE DEF good
      <4>2. k - 1 = 0 \/ good(k - 1)
        BY <1>3
      <4> QED
        BY <4>1, <4>2
    <3>0. k \in 2..n /\ k - 1 \in 1..n
      BY <1>1, <2>2
    <3>2. h[k] = h[k - 1] \o ss[k] /\ h[k - 1] \in Seq(Sec) /\ ss[k] \in Seq(Sec)
      BY <1>1, <1>2, <3>0
    <3> DEFINE a == 10000 * (lo + 1)
               m == 10000 * (lo + k)
               b == 10000 * (lo + k + 1)
    <3>3. a \in Int /\ m \in Int /\ b \in Int /\ a <= m /\ m <= b
      BY <1>1
    <3>4. Between(h[k - 1], a, m)
      <4>1. lo + (k - 1) + 1 = lo + k
        BY <1>1
      <4> QED
        BY <3>1, <4>1
    <3>5. Between(ss[k], m, b)
      BY <1>0
    <3>6. ToSet(h[k - 1]) \cup ToSet(ss[k]) = UNION {ToSet(ss[j]) : j \in 1..k}
      <4>1. ToSet(h[k - 1]) = UNION {ToSet(ss[j]) : j \in 1..(k - 1)}
        BY <3>1
      <4>2. 1..k = (1..(k - 1)) \cup {k}
        BY <1>1
      <4> HIDE DEF good
      <4> QED
        BY <4>1, <4>2
    <3> DEFINE s == h[k - 1]
               t == ss[k]
    <3>8. s \in Seq(Sec) /\ t \in Seq(Sec) /\ Between(s, a, m) /\ Between(t, m, b)
      BY <3>2, <3>4, <3>5
    <3> HIDE DEF a, m, b, s, t
    <3>9. Between(s \o t, a, b) /\ ToSet(s \o t) = ToSet(s) \cup ToSet(t)
      BY <3>3, <3>8, BetweenConcat
    <3>7. /\ Between(h[k - 1] \o ss[k], a, b)
          /\ ToSet(h[k - 1] \o ss[k]) = ToSet(h[k - 1]) \cup ToSet(ss[k])
      BY <3>9 DEF s, t
    <3>10. Between(h[k], a, b) /\ ToSet(h[k]) = UNION {ToSet(ss[j]) : j \in 1..k}
      BY <3>2, <3>6, <3>7
    <3> QED
      BY <3>10 DEF a, b
  <2> HIDE DEF good
  <2> QED
    BY <1>1, <2>1, <2>2
<1>4. \A k \in 0..n : k \in T
  <2>1. 0 \in T
    BY <1>1
  <2>2. ASSUME NEW k \in 1..n, k - 1 \in T PROVE k \in T
    <3> HIDE DEF good, T
    <3>1. good(k)
      BY <1>3, <2>2
    <3> QED
      BY <1>1, <3>1 DEF T
  <2>3. n \in Nat
    BY <1>1
  <2> HIDE DEF T
  <2> QED
    BY <2>1, <2>2, <2>3, UpTo, Zenon
<1>5. good(n)
  <2> HIDE DEF good
  <2> QED
    BY <1>1, <1>4
<1>6. n \in 1..n /\ h[n] \in Seq(Sec)
  BY <1>1, <1>2
<1> QED
  BY <1>2, <1>5, <1>6 DEF n, Tower

(* The heading of a chapter and its sections.                              *)
ChapterHead(n, topic) == [level |-> 1, num |-> <<n>>, topic |-> topic, marks |-> {}]
SectionHead(n, k, topic) == [level |-> 2, num |-> <<n, k>>, topic |-> topic, marks |-> {}]

(* A chapter as it is written: its heads in order, between the keys of its *)
(* number and the next, and no references yet.                             *)
Laid(s, n, topic, subs) ==
  /\ s \in Seq(Sec) /\ Between(s, 10000 * (n + 1), 10000 * (n + 2))
  /\ Outline(s) = {ChapterHead(n, topic)} \cup {SectionHead(n, k, subs[k]) : k \in 1..Len(subs)}
  /\ \A x \in ToSet(s) : x.refs = {}

(* chapter(): a heading of level 1 and, under it, one heading of level 2   *)
(* for each subject given, numbered from 1.                                *)
LEMMA ChapterIs ==
  ASSUME NEW n \in 0..20, NEW topic \in Topic, NEW subs \in Seq(Topic), Len(subs) <= 90
  PROVE  Laid(Chapter(n, topic, subs), n, topic, subs)
<1> DEFINE m == Len(subs)
           head == Section(1, <<n>>, topic)
           one == <<head>>
           rest == [k \in 1..m |-> Section(2, <<n, k>>, subs[k])]
           lo == 10000 * (n + 1)
           hi == 10000 * (n + 2)
<1>1. m \in Nat /\ \A k \in 1..m : subs[k] \in Topic /\ k \in 1..90
  BY LenProperties
<1>2. /\ head \in Sec /\ Sketch(head) = ChapterHead(n, topic) /\ head.refs = {} /\ Key(head) = lo
  <2> DEFINE num == <<n>>
  <2>1. num \in Seq(Nat) /\ num # <<>> /\ Height(num) = lo
    BY DEF Height, Second, Third
  <2>2. ChapterHead(n, topic) = [level |-> 1, num |-> num, topic |-> topic, marks |-> {}]
    BY DEF ChapterHead
  <2>3. head = Section(1, num, topic)
    OBVIOUS
  <2> HIDE DEF num, head, lo
  <2> QED
    BY <2>1, <2>2, <2>3, SectionIs DEF Key
<1>3. ASSUME NEW k \in 1..m
      PROVE  /\ rest[k] \in Sec /\ Sketch(rest[k]) = SectionHead(n, k, subs[k]) /\ rest[k].refs = {}
             /\ Key(rest[k]) = lo + 100 * k
  <2> DEFINE num == <<n, k>>
  <2>1. num \in Seq(Nat) /\ num # <<>> /\ Height(num) = lo + 100 * k
    BY <1>1 DEF Height, Second, Third
  <2>2. rest[k] = Section(2, num, subs[k]) /\ subs[k] \in Topic
    BY <1>1
  <2>3. SectionHead(n, k, subs[k]) = [level |-> 2, num |-> num, topic |-> subs[k], marks |-> {}]
    BY DEF SectionHead
  <2> DEFINE t == subs[k]
             x == Section(2, num, t)
  <2>4. t \in Topic /\ rest[k] = x
           /\ SectionHead(n, k, t) = [level |-> 2, num |-> num, topic |-> t, marks |-> {}]
    BY <2>2, <2>3
  <2> HIDE DEF rest, lo, m, num, t
  <2>5. x \in Sec /\ Sketch(x) = [level |-> 2, num |-> num, topic |-> t, marks |-> {}]
           /\ x.refs = {} /\ x.num = num
    BY <2>1, <2>4, SectionIs
  <2>6. Key(x) = lo + 100 * k
    BY <2>1, <2>5 DEF Key
  <2> HIDE DEF x
  <2> QED
    BY <2>4, <2>5, <2>6 DEF t
<1>4. one \in Seq(Sec) /\ Len(one) = 1 /\ one[1] = head
  BY <1>2
<1>5. rest \in Seq(Sec) /\ Len(rest) = m
  <2> HIDE DEF m
  <2>1. rest = [k \in 1..m |-> rest[k]]
    OBVIOUS
  <2>2. rest \in [1..m -> Sec]
    BY <1>3
  <2> HIDE DEF rest
  <2> QED
    BY <1>1, <2>2
<1>6. Chapter(n, topic, subs) = one \o rest
  BY Zenon DEF Chapter
<1> HIDE DEF one, rest, head
<1>7. ToSet(one) = {head}
  <2>1. 1..1 = {1} /\ DOMAIN one = 1..1
    BY <1>4
  <2> QED
    BY <1>4, <2>1, Zenon DEF ToSet
<1>8. \A x : x \in ToSet(rest) <=> \E k \in 1..m : rest[k] = x
  BY <1>5, Members
<1>9. Rising(one)
  BY <1>4 DEF Rising
<1>10. Rising(rest)
  <2> SUFFICES ASSUME NEW i \in 1..m, NEW j \in 1..m, i < j PROVE Key(rest[i]) < Key(rest[j])
    BY <1>5 DEF Rising
  <2>1. Key(rest[i]) = lo + 100 * i /\ Key(rest[j]) = lo + 100 * j
    BY <1>3
  <2> QED
    BY <1>1, <2>1
<1>11. Between(one, lo, lo + 1)
  BY <1>2, <1>7, <1>9 DEF Between
<1>12. Between(rest, lo + 1, hi)
  <2>1. \A k \in 1..m : lo + 1 <= lo + 100 * k /\ lo + 100 * k < hi
    BY <1>1
  <2>2. \A k \in 1..m : lo + 1 <= Key(rest[k]) /\ Key(rest[k]) < hi
    BY <1>3, <2>1
  <2> HIDE DEF lo, hi, m
  <2> QED
    BY <1>8, <1>10, <2>2 DEF Between
<1>13. /\ one \o rest \in Seq(Sec) /\ Between(one \o rest, lo, hi)
       /\ ToSet(one \o rest) = ToSet(one) \cup ToSet(rest)
       /\ Outline(one \o rest) = Outline(one) \cup Outline(rest)
  <2>1. lo \in Int /\ lo + 1 \in Int /\ hi \in Int /\ lo <= lo + 1 /\ lo + 1 <= hi
    OBVIOUS
  <2> HIDE DEF lo, hi
  <2> QED
    BY <1>4, <1>5, <1>11, <1>12, <2>1, BetweenConcat
<1>14. Outline(one) = {ChapterHead(n, topic)}
  BY <1>2, <1>4, <1>7, OutlineIs
<1>15. Outline(rest) = {SectionHead(n, k, subs[k]) : k \in 1..m}
  <2>1. Outline(rest) = {Sketch(rest[k]) : k \in 1..m}
    BY <1>5, LenProperties DEF Outline
  <2> QED
    BY <1>3, <2>1
<1>16. \A x \in ToSet(one \o rest) : x.refs = {}
  BY <1>2, <1>3, <1>7, <1>8, <1>13
<1>17. /\ one \o rest \in Seq(Sec) /\ Between(one \o rest, lo, hi)
       /\ Outline(one \o rest) =
            {ChapterHead(n, topic)} \cup {SectionHead(n, k, subs[k]) : k \in 1..Len(subs)}
       /\ \A x \in ToSet(one \o rest) : x.refs = {}
  BY <1>13, <1>14, <1>15, <1>16
<1> QED
  BY <1>6, <1>17 DEF Laid

-----------------------------------------------------------------------------
(* Positions and keys *)

(* In a rising body places and keys have the same order.                   *)
LEMMA RisingOrder ==
  ASSUME NEW body \in Seq(Sec), Rising(body), NEW i \in 1..Len(body), NEW j \in 1..Len(body)
  PROVE  /\ i <= j <=> Key(body[i]) <= Key(body[j])
         /\ i < j <=> Key(body[i]) < Key(body[j])
         /\ i = j <=> Key(body[i]) = Key(body[j])
<1>1. Key(body[i]) \in Int /\ Key(body[j]) \in Int /\ Len(body) \in Nat
  BY KeyIsInt, LenProperties
<1>2. (i < j => Key(body[i]) < Key(body[j])) /\ (j < i => Key(body[j]) < Key(body[i]))
  BY DEF Rising
<1> QED
  BY <1>1, <1>2

(* The block of a heading ends at the next heading of level 1, at hi, or   *)
(* with the body.                                                          *)
LEMMA BlockIs ==
  ASSUME NEW body \in Seq(Sec), Rising(body), NEW i \in 1..Len(body), NEW hi \in Int,
         Key(body[i]) < hi,
         \A k \in 1..Len(body) :
           body[k].level = 1 /\ Key(body[i]) < Key(body[k]) => hi <= Key(body[k]),
         \/ \E k \in 1..Len(body) : body[k].level = 1 /\ Key(body[k]) = hi
         \/ \A k \in 1..Len(body) : Key(body[k]) < hi
  PROVE  Block(body, i) =
           {j \in 1..Len(body) : Key(body[i]) <= Key(body[j]) /\ Key(body[j]) < hi}
<1> DEFINE n == Len(body)
           key(k) == Key(body[k])
<1>1. n \in Nat /\ DOMAIN body = 1..n /\ \A k \in 1..n : key(k) \in Int
  BY KeyIsInt, LenProperties
<1>2. \A a, b \in 1..n : (a <= b <=> key(a) <= key(b)) /\ (a < b <=> key(a) < key(b))
  BY RisingOrder
<1>3. ASSUME NEW j \in Block(body, i) PROVE j \in 1..n /\ key(i) <= key(j) /\ key(j) < hi
  <2>1. j \in 1..n /\ i <= j /\ \A k \in (i + 1)..j : body[k].level # 1
    BY <1>1, <1>3 DEF Block
  <2>2. key(i) <= key(j)
    BY <1>2, <2>1
  <2>3. ASSUME hi <= key(j) PROVE FALSE
    <3>1. PICK k \in 1..n : body[k].level = 1 /\ key(k) = hi
      BY <1>1, <2>1, <2>3
    <3>2. i < k /\ k <= j
      BY <1>1, <1>2, <2>1, <2>3, <3>1
    <3>3. k \in (i + 1)..j
      BY <1>1, <2>1, <3>2
    <3> QED
      BY <2>1, <3>1, <3>3
  <2> QED
    BY <1>1, <2>1, <2>2, <2>3
<1>4. ASSUME NEW j \in 1..n, key(i) <= key(j), key(j) < hi PROVE j \in Block(body, i)
  <2>1. i <= j
    BY <1>2, <1>4
  <2>2. ASSUME NEW k \in (i + 1)..j PROVE body[k].level # 1
    <3>1. k \in 1..n /\ i < k /\ k <= j
      BY <1>1, <2>2
    <3>2. key(i) < key(k) /\ key(k) <= key(j)
      BY <1>2, <3>1
    <3> QED
      BY <1>1, <1>4, <3>1, <3>2
  <2> QED
    BY <1>1, <2>1, <2>2 DEF Block
<1> QED
  BY <1>3, <1>4

(* Each topic stands once.                                                 *)
OneEach(outline) == \A o, p \in outline : o.topic = p.topic => o = p

(* In a rising body whose outline tells headings apart by number and       *)
(* subject, no two sections are alike.                                     *)
LEMMA DistinctIs ==
  ASSUME NEW body \in Seq(Sec), Rising(body), OneEach(Outline(body))
  PROVE  Distinct(body)
<1> SUFFICES ASSUME NEW i \in 1..Len(body), NEW j \in 1..Len(body), body[i].topic = body[j].topic
             PROVE  i = j
  BY LenProperties DEF Distinct
<1>1. Sketch(body[i]) = Sketch(body[j])
  <2>1. Sketch(body[i]) \in Outline(body) /\ Sketch(body[j]) \in Outline(body)
    BY OutlineIs, LenProperties
  <2>2. Sketch(body[i]).topic = Sketch(body[j]).topic
    BY DEF Sketch
  <2> QED
    BY <2>1, <2>2 DEF OneEach
<1>2. body[i].num = body[j].num
  BY <1>1 DEF Sketch
<1>3. Key(body[i]) = Key(body[j])
  BY <1>2 DEF Key
<1> QED
  BY <1>3, RisingOrder

(* A rising walk through all of 1..n takes each number in its turn.        *)
Walks(f, m, n) ==
  /\ f \in [1..m -> 1..n] /\ \A i, j \in 1..m : i < j => f[i] < f[j]
  /\ \A k \in 1..n : \E i \in 1..m : f[i] = k

(* A strictly increasing walk from 1..m onto 1..n is the identity.         *)
LEMMA Counting ==
  ASSUME NEW m \in Nat, NEW n \in Nat, NEW f, Walks(f, m, n)
  PROVE  m = n /\ \A k \in 1..n : f[k] = k
<1>a. f \in [1..m -> 1..n]
  BY DEF Walks
<1>b. \A i, j \in 1..m : i < j => f[i] < f[j]
  BY DEF Walks
<1>c. \A k \in 1..n : \E i \in 1..m : f[i] = k
  BY DEF Walks
<1> USE <1>a, <1>b, <1>c
<1> DEFINE T == {k \in 0..n : k = 0 \/ (k <= m /\ f[k] = k)}
<1>1. 0 \in T
  OBVIOUS
<1>2. ASSUME NEW k \in 1..n, k - 1 \in T PROVE k \in T
  <2>1. PICK i \in 1..m : f[i] = k
    OBVIOUS
  <2>2. k - 1 = 0 \/ (k - 1 <= m /\ f[k - 1] = k - 1)
    BY <1>2
  <2>3. i >= k
    <3>1. CASE k - 1 = 0
      BY <3>1
    <3>2. CASE k - 1 > 0
      <4>1. k - 1 \in 1..m /\ f[k - 1] = k - 1
        BY <2>2, <3>2
      <4>2. ~(i < k - 1) /\ i # k - 1
        BY <2>1, <4>1
      <4> QED
        BY <4>2
    <3> QED
      BY <3>1, <3>2
  <2>4. k \in 1..m
    BY <2>3
  <2>5. f[k] >= k
    <3>1. CASE k - 1 = 0
      BY <2>4, <3>1
    <3>2. CASE k - 1 > 0
      <4>1. k - 1 \in 1..m /\ f[k - 1] = k - 1
        BY <2>2, <3>2
      <4>2. f[k - 1] < f[k]
        BY <2>4, <4>1
      <4> QED
        BY <2>4, <4>1, <4>2
    <3> QED
      BY <3>1, <3>2
  <2>6. i = k
    <3>1. ~(k < i)
      <4>1. k < i => f[k] < f[i]
        BY <2>4
      <4> QED
        BY <2>1, <2>4, <2>5, <4>1
    <3> QED
      BY <2>3, <3>1
  <2> QED
    BY <2>1, <2>4, <2>6
<1>3. \A k \in 0..n : k \in T
  <2> HIDE DEF T
  <2> QED
    BY <1>1, <1>2, UpTo
<1>4. \A k \in 1..n : k <= m /\ f[k] = k
  BY <1>3
<1>5. n <= m
  BY <1>4
<1>6. ASSUME n < m PROVE FALSE
  <2>1. m \in 1..m /\ f[m] \in 1..n
    BY <1>6
  <2>2. f[f[m]] = f[m] /\ f[m] \in 1..m /\ f[m] < m
    BY <1>4, <1>6, <2>1
  <2>3. f[f[m]] < f[m]
    BY <2>1, <2>2
  <2> QED
    BY <2>1, <2>2, <2>3
<1> QED
  BY <1>4, <1>5, <1>6

=============================================================================
