------------------------ MODULE DesignScriptsProofs -------------------------
(***************************************************************************)
(* What each script does to a document it can read, whichever sections an  *)
(* editor has deleted from it.                                             *)
(*                                                                         *)
(* Two things are followed from version to version. Wording is everything  *)
(* beside the body: cover, contents page, prose, words, worked boards.     *)
(* Layout(n, body) says where the headings of the n-th layout stand (n is  *)
(* 3 for v1.3 and 12 for the second proposal): they rise, each is a        *)
(* heading the layout knows, and every chapter and loose heading is there, *)
(* while second-level sections may be missing. For every script there is a *)
(* lemma LayoutOf.. that takes the layout of its source to the next one,   *)
(* and LayoutCut does the same for a deletion by hand.                     *)
(***************************************************************************)
EXTENDS DesignChain, DesignDocProofs

-----------------------------------------------------------------------------
(* Words *)

(* A prefix, part by part.                                                 *)
LEMMA PrefixIs ==
  ASSUME NEW S, NEW s \in Seq(S), NEW t \in Seq(S)
  PROVE  IsPrefix(s, t) <=> Len(s) <= Len(t) /\ \A i \in 1..Len(s) : s[i] = t[i]
<1> DEFINE a == SubSeq(s, 1, Len(s))
           b == SubSeq(t, 1, Len(s))
<1>1. Len(s) \in Nat /\ Len(t) \in Nat /\ (\A i \in 1..Len(s) : s[i] \in S)
         /\ \A i \in 1..Len(t) : t[i] \in S
  BY LenProperties
<1>2. IsPrefix(s, t) <=> Len(s) <= Len(t) /\ a = b
  BY DEF IsPrefix
<1>3. CASE Len(s) <= Len(t)
  <2>1. a \in Seq(S) /\ Len(a) = Len(s) /\ \A i \in 1..Len(s) : a[i] = s[i]
    BY <1>1, SubSeqProperties
  <2>2. b \in Seq(S) /\ Len(b) = Len(s) /\ \A i \in 1..Len(s) : b[i] = t[i]
    <3>1. \A i \in 1..Len(s) : t[i] \in S
      BY <1>1, <1>3
    <3> QED
      BY <1>1, <1>3, <3>1, SubSeqProperties
  <2> HIDE DEF a, b
  <2>3. a = b <=> \A i \in 1..Len(s) : a[i] = b[i]
    BY <2>1, <2>2, SeqEqual
  <2> QED
    BY <1>2, <1>3, <2>1, <2>2, <2>3
<1> QED
  BY <1>2, <1>3

(* Nothing before the pair at m and nothing behind it changes the word.    *)
LEMMA RewordingIs ==
  ASSUME NEW word, NEW pairs, Len(pairs) \in Nat, NEW m \in 1..Len(pairs), NEW r,
         ReplacedIn(word, pairs[m]) = r,
         \A k \in 1..(m - 1) : ReplacedIn(word, pairs[k]) = word,
         \A k \in (m + 1)..Len(pairs) : ReplacedIn(r, pairs[k]) = r
  PROVE  Rewording(word, pairs) = r
<1> DEFINE n == Len(pairs)
           body(h) == [k \in 0..n |-> IF k = 0 THEN word ELSE ReplacedIn(h[k - 1], pairs[k])]
           upTo == CHOOSE h : h = body(h)
           g == [k \in 0..n |-> IF k < m THEN word ELSE r]
           left(k) == IF k < m THEN word ELSE r
<1>1. g = body(g)
  <2>1. ASSUME NEW k \in 0..n PROVE g[k] = body(g)[k]
    <3>1. CASE k = 0
      BY <3>1
    <3>2. CASE k # 0
      <4>1. k - 1 \in 0..n /\ body(g)[k] = ReplacedIn(g[k - 1], pairs[k])
        BY <3>2
      <4>2. CASE k < m
        <5>1. g[k - 1] = word /\ k \in 1..(m - 1) /\ g[k] = word
          BY <3>2, <4>1, <4>2
        <5> HIDE DEF g, body
        <5> QED
          BY <4>1, <5>1
      <4>3. CASE k = m
        <5>1. g[k - 1] = word /\ g[k] = r
          BY <3>2, <4>1, <4>3
        <5> HIDE DEF g, body
        <5> QED
          BY <4>1, <4>3, <5>1
      <4>4. CASE k > m
        <5>1. g[k - 1] = r /\ g[k] = r /\ k \in (m + 1)..Len(pairs)
          BY <3>2, <4>1, <4>4
        <5> HIDE DEF g, body
        <5> QED
          BY <4>1, <5>1
      <4> QED
        BY <4>2, <4>3, <4>4
    <3> QED
      BY <3>1, <3>2
  <2>2. body(g) = [k \in 0..n |-> body(g)[k]] /\ g = [k \in 0..n |-> g[k]]
    OBVIOUS
  <2> HIDE DEF body, g
  <2> QED
    BY <2>1, <2>2
<1>2. upTo = body(upTo)
  BY <1>1, Zenon
<1>3. Rewording(word, pairs) = upTo[n]
  BY Zenon DEF Rewording
<1> HIDE DEF upTo
<1> DEFINE T == {k \in 0..n : upTo[k] = left(k)}
<1>4. \A k \in 0..n : upTo[k] = body(upTo)[k]
  BY <1>2, Zenon
<1>5. upTo[0] = word /\ \A k \in 1..n : upTo[k] = ReplacedIn(upTo[k - 1], pairs[k])
  BY <1>4
<1>6. 0 \in T
  BY <1>5
<1>7. ASSUME NEW k \in 1..n, k - 1 \in T PROVE k \in T
  <2>1. upTo[k - 1] = left(k - 1)
    BY <1>7
  <2>2. CASE k < m
    <3>1. upTo[k - 1] = word /\ k \in 1..(m - 1)
      BY <2>1, <2>2
    <3> QED
      BY <1>5, <2>2, <3>1
  <2>3. CASE k = m
    <3>1. upTo[k - 1] = word
      BY <2>1, <2>3
    <3> QED
      BY <1>5, <2>3, <3>1
  <2>4. CASE k > m
    <3>1. upTo[k - 1] = r /\ k \in (m + 1)..Len(pairs)
      BY <2>1, <2>4
    <3> QED
      BY <1>5, <2>4, <3>1
  <2> QED
    BY <2>2, <2>3, <2>4
<1>8. \A k \in 0..n : k \in T
  <2>1. n \in Nat
    OBVIOUS
  <2> HIDE DEF T, n
  <2> QED
    BY <1>6, <1>7, <2>1, UpTo
<1> QED
  BY <1>3, <1>8

(* A word that a pair misses is longer or other at some place.              *)
Misses(p, w) == ~(Len(p) <= Len(w) /\ \A i \in 1..Len(p) : p[i] = w[i])

(* r is w with q in the place of its prefix p.                             *)
Swapped(w, p, q, r) ==
  /\ Len(p) <= Len(w) /\ \A i \in 1..Len(p) : p[i] = w[i]
  /\ Len(r) = Len(q) + (Len(w) - Len(p))
  /\ \A i \in 1..Len(q) : r[i] = q[i]
  /\ \A i \in 1..(Len(w) - Len(p)) : r[Len(q) + i] = w[Len(p) + i]

(* str.replace on a word: nothing changes where the pattern is not found,  *)
(* and where it is found once, it is swapped.                              *)
LEMMA ReplacedIs ==
  ASSUME NEW S, NEW w \in Seq(S), NEW p \in Seq(S), NEW q \in Seq(S), NEW pair, pair = <<p, q>>
  PROVE  /\ Misses(p, w) => ReplacedIn(w, pair) = w
         /\ \A r \in Seq(S) : Swapped(w, p, q, r) => ReplacedIn(w, pair) = r
<1>1. pair[1] = p /\ pair[2] = q
  OBVIOUS
<1>2. ReplacedIn(w, pair) = IF IsPrefix(p, w) THEN q \o SubSeq(w, Len(p) + 1, Len(w)) ELSE w
  BY <1>1 DEF ReplacedIn
<1>3. Len(p) \in Nat /\ Len(q) \in Nat /\ Len(w) \in Nat /\ \A i \in 1..Len(w) : w[i] \in S
  BY LenProperties
<1>4. IsPrefix(p, w) <=> Len(p) <= Len(w) /\ \A i \in 1..Len(p) : p[i] = w[i]
  BY PrefixIs
<1>5. ASSUME IsPrefix(p, w), NEW r \in Seq(S), Len(r) = Len(q) + (Len(w) - Len(p)),
             \A i \in 1..Len(q) : r[i] = q[i],
             \A i \in 1..(Len(w) - Len(p)) : r[Len(q) + i] = w[Len(p) + i]
      PROVE  q \o SubSeq(w, Len(p) + 1, Len(w)) = r
  <2> DEFINE b == SubSeq(w, Len(p) + 1, Len(w))
             m == Len(w) - Len(p)
  <2>1. Len(p) <= Len(w)
    BY <1>4, <1>5
  <2>2. b \in Seq(S) /\ Len(b) = m /\ \A i \in 1..m : b[i] = w[Len(p) + i]
    <3>1. \A i \in (Len(p) + 1)..Len(w) : w[i] \in S
      BY <1>3
    <3>2. /\ b \in Seq(S)
          /\ Len(b) = IF Len(p) + 1 <= Len(w) THEN Len(w) - (Len(p) + 1) + 1 ELSE 0
          /\ \A i \in 1..(Len(w) - (Len(p) + 1) + 1) : b[i] = w[(Len(p) + 1) + i - 1]
      BY <1>3, <3>1, SubSeqProperties
    <3> HIDE DEF b
    <3> QED
      BY <1>3, <2>1, <3>2
  <2> HIDE DEF b
  <2>3. /\ q \o b \in Seq(S) /\ Len(q \o b) = Len(q) + m
        /\ \A i \in 1..Len(q) + m : (q \o b)[i] = IF i <= Len(q) THEN q[i] ELSE b[i - Len(q)]
    BY <1>3, <2>1, <2>2, ConcatProperties
  <2>4. ASSUME NEW i \in 1..Len(q) + m PROVE (q \o b)[i] = r[i]
    <3>1. CASE i <= Len(q)
      BY <1>3, <1>5, <2>3, <3>1
    <3>2. CASE ~(i <= Len(q))
      <4> DEFINE j == i - Len(q)
      <4>1. j \in 1..m /\ i = Len(q) + j
        BY <1>3, <2>1, <3>2
      <4>2. (q \o b)[i] = b[j]
        BY <2>3, <3>2
      <4> HIDE DEF j
      <4> QED
        BY <1>5, <2>2, <4>1, <4>2
    <3> QED
      BY <3>1, <3>2
  <2>5. Len(r) = Len(q \o b)
    BY <1>5, <2>3
  <2>6. \A i \in 1..Len(r) : r[i] = (q \o b)[i]
    BY <1>5, <2>4
  <2> QED
    BY <1>5, <2>3, <2>5, <2>6, SeqEqual DEF b
<1>6. Misses(p, w) => ReplacedIn(w, pair) = w
  BY <1>2, <1>4 DEF Misses
<1>7. ASSUME NEW r \in Seq(S), Swapped(w, p, q, r) PROVE ReplacedIn(w, pair) = r
  <2>1. IsPrefix(p, w)
    BY <1>4, <1>7 DEF Swapped
  <2>2. q \o SubSeq(w, Len(p) + 1, Len(w)) = r
    BY <1>5, <1>7, <2>1 DEF Swapped
  <2> QED
    BY <1>2, <2>1, <2>2
<1> QED
  BY <1>6, <1>7

Part ==
  {"grant", "relation", "ro", "wa", "ga", "neun", "reul", "man", "id", "doem", "lookup", "class",
   "enrol", "record", "euro", "gwa", "i", "eun", "eul", "product", "quoted"}

(* A pair of words, the first of the old noun.                             *)
OldNoun(pair) ==
  /\ pair = <<pair[1], pair[2]>> /\ pair[1] \in Seq(Part) /\ pair[2] \in Seq(Part)
  /\ Len(pair[1]) > 0 /\ pair[1][1] = "grant"

(* A pair whose old word starts with the old noun is one of the old noun.  *)
LEMMA PairIs ==
  ASSUME NEW p \in Seq(Part), NEW q \in Seq(Part), Len(p) > 0, p[1] = "grant",
         NEW pair, pair = <<p, q>>
  PROVE  OldNoun(pair)
BY DEF OldNoun

(* Each of the twelve replacements of v1.7 looks for a form of the old     *)
(* noun, grant.                                                            *)
LEMMA V17PairsAre == Len(V17Pairs) = 12 /\ \A k \in 1..12 : OldNoun(V17Pairs[k])
<1>1. OldNoun(V17Pairs[1])
  <2> DEFINE p == <<"grant", "relation", "ro">>
             q == <<"enrol", "record", "euro">>
  <2>1. V17Pairs[1] = <<p, q>>
    BY DEF V17Pairs
  <2>2. p \in Seq(Part) /\ q \in Seq(Part) /\ Len(p) > 0 /\ p[1] = "grant"
    BY DEF Part
  <2> HIDE DEF p, q, V17Pairs
  <2> QED
    BY <2>1, <2>2, PairIs
<1>2. OldNoun(V17Pairs[2])
  <2> DEFINE p == <<"grant", "relation", "wa">>
             q == <<"enrol", "record", "gwa">>
  <2>1. V17Pairs[2] = <<p, q>>
    BY DEF V17Pairs
  <2>2. p \in Seq(Part) /\ q \in Seq(Part) /\ Len(p) > 0 /\ p[1] = "grant"
    BY DEF Part
  <2> HIDE DEF p, q, V17Pairs
  <2> QED
    BY <2>1, <2>2, PairIs
<1>3. OldNoun(V17Pairs[3])
  <2> DEFINE p == <<"grant", "relation", "ga">>
             q == <<"enrol", "record", "i">>
  <2>1. V17Pairs[3] = <<p, q>>
    BY DEF V17Pairs
  <2>2. p \in Seq(Part) /\ q \in Seq(Part) /\ Len(p) > 0 /\ p[1] = "grant"
    BY DEF Part
  <2> HIDE DEF p, q, V17Pairs
  <2> QED
    BY <2>1, <2>2, PairIs
<1>4. OldNoun(V17Pairs[4])
  <2> DEFINE p == <<"grant", "relation", "neun">>
             q == <<"enrol", "record", "eun">>
  <2>1. V17Pairs[4] = <<p, q>>
    BY DEF V17Pairs
  <2>2. p \in Seq(Part) /\ q \in Seq(Part) /\ Len(p) > 0 /\ p[1] = "grant"
    BY DEF Part
  <2> HIDE DEF p, q, V17Pairs
  <2> QED
    BY <2>1, <2>2, PairIs
<1>5. OldNoun(V17Pairs[5])
  <2> DEFINE p == <<"grant", "relation", "reul">>
             q == <<"enrol", "record", "eul">>
  <2>1. V17Pairs[5] = <<p, q>>
    BY DEF V17Pairs
  <2>2. p \in Seq(Part) /\ q \in Seq(Part) /\ Len(p) > 0 /\ p[1] = "grant"
    BY DEF Part
  <2> HIDE DEF p, q, V17Pairs
  <2> QED
    BY <2>1, <2>2, PairIs
<1>6. OldNoun(V17Pairs[6])
  <2> DEFINE p == <<"grant", "relation">>
             q == <<"enrol", "record">>
  <2>1. V17Pairs[6] = <<p, q>>
    BY DEF V17Pairs
  <2>2. p \in Seq(Part) /\ q \in Seq(Part) /\ Len(p) > 0 /\ p[1] = "grant"
    BY DEF Part
  <2> HIDE DEF p, q, V17Pairs
  <2> QED
    BY <2>1, <2>2, PairIs
<1>7. OldNoun(V17Pairs[7])
  <2> DEFINE p == <<"grant", "id">>
             q == <<"enrol", "id">>
  <2>1. V17Pairs[7] = <<p, q>>
    BY DEF V17Pairs
  <2>2. p \in Seq(Part) /\ q \in Seq(Part) /\ Len(p) > 0 /\ p[1] = "grant"
    BY DEF Part
  <2> HIDE DEF p, q, V17Pairs
  <2> QED
    BY <2>1, <2>2, PairIs
<1>8. OldNoun(V17Pairs[8])
  <2> DEFINE p == <<"grant", "ro">>
             q == <<"enrol", "euro">>
  <2>1. V17Pairs[8] = <<p, q>>
    BY DEF V17Pairs
  <2>2. p \in Seq(Part) /\ q \in Seq(Part) /\ Len(p) > 0 /\ p[1] = "grant"
    BY DEF Part
  <2> HIDE DEF p, q, V17Pairs
  <2> QED
    BY <2>1, <2>2, PairIs
<1>9. OldNoun(V17Pairs[9])
  <2> DEFINE p == <<"grant", "ga">>
             q == <<"enrol", "i">>
  <2>1. V17Pairs[9] = <<p, q>>
    BY DEF V17Pairs
  <2>2. p \in Seq(Part) /\ q \in Seq(Part) /\ Len(p) > 0 /\ p[1] = "grant"
    BY DEF Part
  <2> HIDE DEF p, q, V17Pairs
  <2> QED
    BY <2>1, <2>2, PairIs
<1>10. OldNoun(V17Pairs[10])
  <2> DEFINE p == <<"grant", "neun">>
             q == <<"enrol", "eun">>
  <2>1. V17Pairs[10] = <<p, q>>
    BY DEF V17Pairs
  <2>2. p \in Seq(Part) /\ q \in Seq(Part) /\ Len(p) > 0 /\ p[1] = "grant"
    BY DEF Part
  <2> HIDE DEF p, q, V17Pairs
  <2> QED
    BY <2>1, <2>2, PairIs
<1>11. OldNoun(V17Pairs[11])
  <2> DEFINE p == <<"grant", "reul">>
             q == <<"enrol", "eul">>
  <2>1. V17Pairs[11] = <<p, q>>
    BY DEF V17Pairs
  <2>2. p \in Seq(Part) /\ q \in Seq(Part) /\ Len(p) > 0 /\ p[1] = "grant"
    BY DEF Part
  <2> HIDE DEF p, q, V17Pairs
  <2> QED
    BY <2>1, <2>2, PairIs
<1>12. OldNoun(V17Pairs[12])
  <2> DEFINE p == <<"grant">>
             q == <<"enrol">>
  <2>1. V17Pairs[12] = <<p, q>>
    BY DEF V17Pairs
  <2>2. p \in Seq(Part) /\ q \in Seq(Part) /\ Len(p) > 0 /\ p[1] = "grant"
    BY DEF Part
  <2> HIDE DEF p, q, V17Pairs
  <2> QED
    BY <2>1, <2>2, PairIs
<1>13. Len(V17Pairs) = 12
  BY DEF V17Pairs
<1> HIDE DEF V17Pairs
<1>14. \A k \in 1..12 : OldNoun(V17Pairs[k])
  <2> SUFFICES ASSUME NEW k \in 1..12 PROVE OldNoun(V17Pairs[k])
    OBVIOUS
  <2>1. \/ k = 1 \/ k = 2 \/ k = 3 \/ k = 4 \/ k = 5 \/ k = 6 \/ k = 7 \/ k = 8 \/ k = 9
           \/ k = 10 \/ k = 11 \/ k = 12
    OBVIOUS
  <2> QED
    BY <2>1, <1>1, <1>2, <1>3, <1>4, <1>5, <1>6, <1>7, <1>8, <1>9, <1>10, <1>11, <1>12
<1> QED
  BY <1>13, <1>14

(* The old words of the first eleven replacements of v1.7, part by part.   *)
LEMMA V17Old ==
  /\ Len(V17Pairs[1][1]) = 3 /\ V17Pairs[1][1][1] = "grant" /\ V17Pairs[1][1][2] = "relation"
     /\ V17Pairs[1][1][3] = "ro"
  /\ Len(V17Pairs[2][1]) = 3 /\ V17Pairs[2][1][1] = "grant" /\ V17Pairs[2][1][2] = "relation"
     /\ V17Pairs[2][1][3] = "wa"
  /\ Len(V17Pairs[3][1]) = 3 /\ V17Pairs[3][1][1] = "grant" /\ V17Pairs[3][1][2] = "relation"
     /\ V17Pairs[3][1][3] = "ga"
  /\ Len(V17Pairs[4][1]) = 3 /\ V17Pairs[4][1][1] = "grant" /\ V17Pairs[4][1][2] = "relation"
     /\ V17Pairs[4][1][3] = "neun"
  /\ Len(V17Pairs[5][1]) = 3 /\ V17Pairs[5][1][1] = "grant" /\ V17Pairs[5][1][2] = "relation"
     /\ V17Pairs[5][1][3] = "reul"
  /\ Len(V17Pairs[6][1]) = 2 /\ V17Pairs[6][1][1] = "grant" /\ V17Pairs[6][1][2] = "relation"
  /\ Len(V17Pairs[7][1]) = 2 /\ V17Pairs[7][1][1] = "grant" /\ V17Pairs[7][1][2] = "id"
  /\ Len(V17Pairs[8][1]) = 2 /\ V17Pairs[8][1][1] = "grant" /\ V17Pairs[8][1][2] = "ro"
  /\ Len(V17Pairs[9][1]) = 2 /\ V17Pairs[9][1][1] = "grant" /\ V17Pairs[9][1][2] = "ga"
  /\ Len(V17Pairs[10][1]) = 2 /\ V17Pairs[10][1][1] = "grant" /\ V17Pairs[10][1][2] = "neun"
  /\ Len(V17Pairs[11][1]) = 2 /\ V17Pairs[11][1][1] = "grant" /\ V17Pairs[11][1][2] = "reul"
  /\ Len(V17Pairs[12][1]) = 1 /\ V17Pairs[12][1][1] = "grant"
BY DEF V17Pairs

(* The first pair that fits decides, as what it writes no pair fits.       *)
LEMMA V17Rewording ==
  ASSUME NEW w \in Seq(Part), NEW r \in Seq(Part), NEW m \in 1..12, Len(r) > 0, r[1] # "grant",
         \A k \in 1..(m - 1) : Misses(V17Pairs[k][1], w),
         Swapped(w, V17Pairs[m][1], V17Pairs[m][2], r) \/ (w = r /\ Misses(V17Pairs[m][1], w))
  PROVE  Rewording(w, V17Pairs) = r
<1> DEFINE n == Len(V17Pairs)
           pair(k) == V17Pairs[k]
<1>1. n = 12 /\ n \in Nat /\ m \in 1..n
  BY V17PairsAre
<1>2. ASSUME NEW k \in 1..12
      PROVE  /\ Misses(V17Pairs[k][1], w) => ReplacedIn(w, V17Pairs[k]) = w
             /\ Swapped(w, V17Pairs[k][1], V17Pairs[k][2], r) => ReplacedIn(w, V17Pairs[k]) = r
             /\ Misses(V17Pairs[k][1], r) => ReplacedIn(r, V17Pairs[k]) = r
  <2> DEFINE p == V17Pairs[k][1]
             q == V17Pairs[k][2]
             both == V17Pairs[k]
  <2>1. p \in Seq(Part) /\ q \in Seq(Part) /\ both = <<p, q>>
    BY V17PairsAre DEF OldNoun
  <2> HIDE DEF p, q, both
  <2>2. /\ Misses(p, w) => ReplacedIn(w, both) = w
        /\ Swapped(w, p, q, r) => ReplacedIn(w, both) = r
        /\ Misses(p, r) => ReplacedIn(r, both) = r
    BY <2>1, ReplacedIs
  <2> QED
    BY <2>2 DEF p, q, both
<1>3. \A k \in 1..12 : Misses(V17Pairs[k][1], r)
  <2> SUFFICES ASSUME NEW k \in 1..12 PROVE Misses(V17Pairs[k][1], r)
    OBVIOUS
  <2> DEFINE p == V17Pairs[k][1]
  <2>1. Len(p) \in Nat /\ Len(p) > 0 /\ p[1] = "grant"
    BY V17PairsAre, LenProperties DEF OldNoun
  <2> HIDE DEF p
  <2>2. Misses(p, r)
    BY <2>1 DEF Misses
  <2> QED
    BY <2>2 DEF p
<1>4. \A k \in 1..(m - 1) : ReplacedIn(w, V17Pairs[k]) = w
  <2> TAKE k \in 1..(m - 1)
  <2>1. k \in 1..12 /\ Misses(V17Pairs[k][1], w)
    OBVIOUS
  <2> QED
    BY <1>2, <2>1
<1>5. \A k \in (m + 1)..n : ReplacedIn(r, V17Pairs[k]) = r
  BY <1>1, <1>2, <1>3
<1>6. ReplacedIn(w, V17Pairs[m]) = r
  BY <1>2
<1> DEFINE pairs == V17Pairs
<1>7. /\ Len(pairs) \in Nat /\ m \in 1..Len(pairs) /\ ReplacedIn(w, pairs[m]) = r
      /\ \A k \in 1..(m - 1) : ReplacedIn(w, pairs[k]) = w
      /\ \A k \in (m + 1)..Len(pairs) : ReplacedIn(r, pairs[k]) = r
  BY <1>1, <1>4, <1>5, <1>6
<1> HIDE DEF pairs
<1>8. Rewording(w, pairs) = r
  BY <1>7, RewordingIs
<1> QED
  BY <1>8 DEF pairs

(* v1.7 on "by the grant relation".                                        *)
LEMMA Word1 == Rewording(<<"grant", "relation", "ro">>, V17Pairs) = <<"enrol", "record", "euro">>
<1> DEFINE w == <<"grant", "relation", "ro">>
           r == <<"enrol", "record", "euro">>
<1>1. w \in Seq(Part) /\ r \in Seq(Part) /\ Len(r) > 0 /\ r[1] # "grant"
  BY DEF Part
<1>3. Swapped(w, V17Pairs[1][1], V17Pairs[1][2], r)
  BY DEF V17Pairs, Swapped
<1> HIDE DEF w, r
<1>4. Rewording(w, V17Pairs) = r
  BY <1>1, <1>3, V17Rewording
<1> QED
  BY <1>4 DEF w, r

(* v1.7 on the grant relation as a subject.                                *)
LEMMA Word2 == Rewording(<<"grant", "relation", "ga">>, V17Pairs) = <<"enrol", "record", "i">>
<1> DEFINE w == <<"grant", "relation", "ga">>
           r == <<"enrol", "record", "i">>
<1>1. w \in Seq(Part) /\ r \in Seq(Part) /\ Len(r) > 0 /\ r[1] # "grant"
  BY DEF Part
<1>2. \A k \in 1..(3 - 1) : Misses(V17Pairs[k][1], w)
  BY V17Old DEF Misses
<1>3. Swapped(w, V17Pairs[3][1], V17Pairs[3][2], r)
  BY DEF V17Pairs, Swapped
<1> HIDE DEF w, r
<1>4. Rewording(w, V17Pairs) = r
  BY <1>1, <1>2, <1>3, V17Rewording
<1> QED
  BY <1>4 DEF w, r

(* v1.7 on the grant relation as a topic.                                  *)
LEMMA Word3 == Rewording(<<"grant", "relation", "neun">>, V17Pairs) = <<"enrol", "record", "eun">>
<1> DEFINE w == <<"grant", "relation", "neun">>
           r == <<"enrol", "record", "eun">>
<1>1. w \in Seq(Part) /\ r \in Seq(Part) /\ Len(r) > 0 /\ r[1] # "grant"
  BY DEF Part
<1>2. \A k \in 1..(4 - 1) : Misses(V17Pairs[k][1], w)
  BY V17Old DEF Misses
<1>3. Swapped(w, V17Pairs[4][1], V17Pairs[4][2], r)
  BY DEF V17Pairs, Swapped
<1> HIDE DEF w, r
<1>4. Rewording(w, V17Pairs) = r
  BY <1>1, <1>2, <1>3, V17Rewording
<1> QED
  BY <1>4 DEF w, r

(* v1.7 on "only the grant relation": the particle stays.                  *)
LEMMA Word4 == Rewording(<<"grant", "relation", "man">>, V17Pairs) = <<"enrol", "record", "man">>
<1> DEFINE w == <<"grant", "relation", "man">>
           r == <<"enrol", "record", "man">>
<1>1. w \in Seq(Part) /\ r \in Seq(Part) /\ Len(r) > 0 /\ r[1] # "grant"
  BY DEF Part
<1>2. \A k \in 1..(6 - 1) : Misses(V17Pairs[k][1], w)
  BY V17Old DEF Misses
<1>3. Swapped(w, V17Pairs[6][1], V17Pairs[6][2], r)
  BY DEF V17Pairs, Swapped
<1> HIDE DEF w, r
<1>4. Rewording(w, V17Pairs) = r
  BY <1>1, <1>2, <1>3, V17Rewording
<1> QED
  BY <1>4 DEF w, r

(* v1.7 on the bare grant relation.                                        *)
LEMMA Word5 == Rewording(<<"grant", "relation">>, V17Pairs) = <<"enrol", "record">>
<1> DEFINE w == <<"grant", "relation">>
           r == <<"enrol", "record">>
<1>1. w \in Seq(Part) /\ r \in Seq(Part) /\ Len(r) > 0 /\ r[1] # "grant"
  BY DEF Part
<1>2. \A k \in 1..(6 - 1) : Misses(V17Pairs[k][1], w)
  BY V17Old DEF Misses
<1>3. Swapped(w, V17Pairs[6][1], V17Pairs[6][2], r)
  BY DEF V17Pairs, Swapped
<1> HIDE DEF w, r
<1>4. Rewording(w, V17Pairs) = r
  BY <1>1, <1>2, <1>3, V17Rewording
<1> QED
  BY <1>4 DEF w, r

(* v1.7 on the grant's column name.                                        *)
LEMMA Word6 == Rewording(<<"grant", "id">>, V17Pairs) = <<"enrol", "id">>
<1> DEFINE w == <<"grant", "id">>
           r == <<"enrol", "id">>
<1>1. w \in Seq(Part) /\ r \in Seq(Part) /\ Len(r) > 0 /\ r[1] # "grant"
  BY DEF Part
<1>2. \A k \in 1..(7 - 1) : Misses(V17Pairs[k][1], w)
  BY V17Old DEF Misses
<1>3. Swapped(w, V17Pairs[7][1], V17Pairs[7][2], r)
  BY DEF V17Pairs, Swapped
<1> HIDE DEF w, r
<1>4. Rewording(w, V17Pairs) = r
  BY <1>1, <1>2, <1>3, V17Rewording
<1> QED
  BY <1>4 DEF w, r

(* v1.7 on the grant as an object.                                         *)
LEMMA Word7 == Rewording(<<"grant", "reul">>, V17Pairs) = <<"enrol", "eul">>
<1> DEFINE w == <<"grant", "reul">>
           r == <<"enrol", "eul">>
<1>1. w \in Seq(Part) /\ r \in Seq(Part) /\ Len(r) > 0 /\ r[1] # "grant"
  BY DEF Part
<1>2. \A k \in 1..(11 - 1) : Misses(V17Pairs[k][1], w)
  BY V17Old DEF Misses
<1>3. Swapped(w, V17Pairs[11][1], V17Pairs[11][2], r)
  BY DEF V17Pairs, Swapped
<1> HIDE DEF w, r
<1>4. Rewording(w, V17Pairs) = r
  BY <1>1, <1>2, <1>3, V17Rewording
<1> QED
  BY <1>4 DEF w, r

(* v1.7 on the verb form of the grant.                                     *)
LEMMA Word8 == Rewording(<<"grant", "doem">>, V17Pairs) = <<"enrol", "doem">>
<1> DEFINE w == <<"grant", "doem">>
           r == <<"enrol", "doem">>
<1>1. w \in Seq(Part) /\ r \in Seq(Part) /\ Len(r) > 0 /\ r[1] # "grant"
  BY DEF Part
<1>2. \A k \in 1..(12 - 1) : Misses(V17Pairs[k][1], w)
  BY V17Old, SMTT(20) DEF Misses
<1>3. Swapped(w, V17Pairs[12][1], V17Pairs[12][2], r)
  BY DEF V17Pairs, Swapped
<1> HIDE DEF w, r
<1>4. Rewording(w, V17Pairs) = r
  BY <1>1, <1>2, <1>3, V17Rewording
<1> QED
  BY <1>4 DEF w, r

(* v1.7 on the bare noun grant.                                            *)
LEMMA Word9 == Rewording(<<"grant">>, V17Pairs) = <<"enrol">>
<1> DEFINE w == <<"grant">>
           r == <<"enrol">>
<1>1. w \in Seq(Part) /\ r \in Seq(Part) /\ Len(r) > 0 /\ r[1] # "grant"
  BY DEF Part
<1>2. \A k \in 1..(12 - 1) : Misses(V17Pairs[k][1], w)
  BY V17Old DEF Misses
<1>3. Swapped(w, V17Pairs[12][1], V17Pairs[12][2], r)
  BY DEF V17Pairs, Swapped
<1> HIDE DEF w, r
<1>4. Rewording(w, V17Pairs) = r
  BY <1>1, <1>2, <1>3, V17Rewording
<1> QED
  BY <1>4 DEF w, r

(* v1.7 leaves the lookup class alone.                                     *)
LEMMA Word10 == Rewording(<<"lookup", "class">>, V17Pairs) = <<"lookup", "class">>
<1> DEFINE w == <<"lookup", "class">>
           r == <<"lookup", "class">>
<1>1. w \in Seq(Part) /\ r \in Seq(Part) /\ Len(r) > 0 /\ r[1] # "grant"
  BY DEF Part
<1>2. \A k \in 1..(12 - 1) : Misses(V17Pairs[k][1], w)
  BY V17Old DEF Misses
<1>3. Misses(V17Pairs[12][1], w) /\ w = r
  BY V17Old DEF Misses
<1> HIDE DEF w, r
<1>4. Rewording(w, V17Pairs) = r
  BY <1>1, <1>2, <1>3, V17Rewording
<1> QED
  BY <1>4 DEF w, r

(* v1.7 on the grant relation with another noun.                           *)
LEMMA Word11 == Rewording(<<"grant", "relation", "wa">>, V17Pairs) = <<"enrol", "record", "gwa">>
<1> DEFINE w == <<"grant", "relation", "wa">>
           r == <<"enrol", "record", "gwa">>
<1>1. w \in Seq(Part) /\ r \in Seq(Part) /\ Len(r) > 0 /\ r[1] # "grant"
  BY DEF Part
<1>2. \A k \in 1..(2 - 1) : Misses(V17Pairs[k][1], w)
  BY V17Old DEF Misses
<1>3. Swapped(w, V17Pairs[2][1], V17Pairs[2][2], r)
  BY DEF V17Pairs, Swapped
<1> HIDE DEF w, r
<1>4. Rewording(w, V17Pairs) = r
  BY <1>1, <1>2, <1>3, V17Rewording
<1> QED
  BY <1>4 DEF w, r

(* What v1.7 makes of the words of v1.3.                                   *)
Renamed17 ==
  {<<"enrol", "record", "euro">>, <<"enrol", "record", "gwa">>, <<"enrol", "record", "i">>,
   <<"enrol", "record", "eun">>, <<"enrol", "record", "man">>, <<"enrol", "record">>,
   <<"enrol", "id">>, <<"enrol", "eul">>, <<"enrol", "doem">>, <<"enrol">>,
   <<"lookup", "class">>}

(* The vocabulary from v1.7 and from v2.0 on.                              *)
Words17 == Renamed17 \cup {FormerName}

V20Pairs == <<<<<<"lookup", "class">>, <<"product", "class">>>>>>

(* A word as the later scripts leave it.                                   *)
Good(w) ==
  /\ w \in Seq(Part) /\ Fits(w) /\ (w[1] = "grant" => w = FormerName)
  /\ w[1] = "lookup" => w = <<"lookup", "class">>

(* Every word v1.7 and v2.0 leave behind has the particle that its noun    *)
(* calls for, and the old noun only as the former name.                    *)
LEMMA GoodWords ==
  /\ Good(<<"enrol", "record", "euro">>)
  /\ Good(<<"enrol", "record", "gwa">>)
  /\ Good(<<"enrol", "record", "i">>)
  /\ Good(<<"enrol", "record", "eun">>)
  /\ Good(<<"enrol", "record", "man">>)
  /\ Good(<<"enrol", "record">>)
  /\ Good(<<"enrol", "id">>)
  /\ Good(<<"enrol", "eul">>)
  /\ Good(<<"enrol", "doem">>)
  /\ Good(<<"enrol">>)
  /\ Good(<<"lookup", "class">>)
  /\ Good(<<"product", "class">>)
  /\ Good(FormerName)
<1>1. Good(<<"enrol", "record", "euro">>)
  BY DEF Good, Fits, Part
<1>2. Good(<<"enrol", "record", "i">>)
  BY DEF Good, Fits, Part
<1>3. Good(<<"enrol", "record", "eun">>)
  BY DEF Good, Fits, Part
<1>4. Good(<<"enrol", "record", "man">>)
  BY DEF Good, Fits, Part
<1>5. Good(<<"enrol", "record">>)
  BY DEF Good, Fits, Part
<1>6. Good(<<"enrol", "id">>)
  BY DEF Good, Fits, Part
<1>7. Good(<<"enrol", "eul">>)
  BY DEF Good, Fits, Part
<1>8. Good(<<"enrol", "doem">>)
  BY DEF Good, Fits, Part
<1>9. Good(<<"enrol">>)
  BY DEF Good, Fits, Part
<1>10. Good(<<"lookup", "class">>)
  BY DEF Good, Fits, Part
<1>11. Good(<<"product", "class">>)
  BY DEF Good, Fits, Part
<1>12. Good(<<"enrol", "record", "gwa">>)
  BY DEF Good, Fits, Part
<1>13. Good(FormerName)
  BY DEF Good, Fits, Part, FormerName
<1> QED
  BY <1>1, <1>2, <1>3, <1>4, <1>5, <1>6, <1>7, <1>8, <1>9, <1>10, <1>11, <1>12, <1>13

(* v1.7 turns the words of v1.3 into Words17.                              *)
LEMMA WordsOf17 == V17Words(V13Words) = Words17
<1> HIDE DEF V17Pairs
<1>1. Reworded(V13Words, V17Pairs) =
        {Rewording(<<"grant", "relation", "ro">>, V17Pairs),
         Rewording(<<"grant", "relation", "wa">>, V17Pairs),
         Rewording(<<"grant", "relation", "ga">>, V17Pairs),
         Rewording(<<"grant", "relation", "neun">>, V17Pairs),
         Rewording(<<"grant", "relation", "man">>, V17Pairs),
         Rewording(<<"grant", "relation">>, V17Pairs), Rewording(<<"grant", "id">>, V17Pairs),
         Rewording(<<"grant", "reul">>, V17Pairs), Rewording(<<"grant", "doem">>, V17Pairs),
         Rewording(<<"grant">>, V17Pairs), Rewording(<<"lookup", "class">>, V17Pairs)}
  BY Zenon DEF Reworded, V13Words
<1>2. Reworded(V13Words, V17Pairs) = Renamed17
  BY <1>1, Word1, Word2, Word3, Word4, Word5, Word6, Word7, Word8, Word9, Word10, Word11, Zenon
     DEF Renamed17
<1>3. <<"enrol", "record">> \in Renamed17
  BY Zenon DEF Renamed17
<1> QED
  BY <1>2, <1>3, Zenon DEF V17Words, V17Glossary, Words17

(* v2.0 renames the lookup class to the product class and touches no other *)
(* word of v1.7.                                                           *)
LEMMA V20Rewording ==
  /\ Rewording(<<"lookup", "class">>, V20Pairs) = <<"product", "class">>
  /\ \A w \in Words17 \ {<<"lookup", "class">>} : Rewording(w, V20Pairs) = w
<1> DEFINE p == <<"lookup", "class">>
           q == <<"product", "class">>
<1>1. p \in Seq(Part) /\ q \in Seq(Part) /\ Len(p) = 2 /\ p[1] = "lookup"
  BY DEF Part
<1>2. Len(V20Pairs) = 1 /\ V20Pairs[1] = <<p, q>>
  BY DEF V20Pairs
<1>3. \A w \in Words17 \ {p} : w \in Seq(Part) /\ w[1] # "lookup"
  BY GoodWords DEF Words17, Renamed17, Good
<1>4. Swapped(p, p, q, q)
  BY DEF Swapped
<1> HIDE DEF p, q, V20Pairs, Words17
<1> DEFINE pairs == V20Pairs
           pair == V20Pairs[1]
<1>5. ASSUME NEW w, NEW r, ReplacedIn(w, pair) = r PROVE Rewording(w, V20Pairs) = r
  <2>1. /\ Len(pairs) \in Nat /\ 1 \in 1..Len(pairs) /\ ReplacedIn(w, pairs[1]) = r
        /\ \A k \in 1..(1 - 1) : ReplacedIn(w, pairs[k]) = w
        /\ \A k \in (1 + 1)..Len(pairs) : ReplacedIn(r, pairs[k]) = r
    BY <1>2, <1>5
  <2> HIDE DEF pairs
  <2>2. Rewording(w, pairs) = r
    BY <2>1, RewordingIs
  <2> QED
    BY <2>2 DEF pairs
<1>6. ReplacedIn(p, pair) = q
  <2>1. pair = <<p, q>>
    BY <1>2
  <2> HIDE DEF pair
  <2> QED
    BY <1>1, <1>4, <2>1, ReplacedIs
<1>7. ASSUME NEW w \in Words17 \ {p} PROVE ReplacedIn(w, pair) = w
  <2>1. pair = <<p, q>> /\ w \in Seq(Part) /\ Misses(p, w)
    BY <1>1, <1>2, <1>3 DEF Misses
  <2> HIDE DEF pair
  <2> QED
    BY <1>1, <2>1, ReplacedIs
<1>8. Rewording(p, V20Pairs) = q /\ \A w \in Words17 \ {p} : Rewording(w, V20Pairs) = w
  BY <1>5, <1>6, <1>7
<1> QED
  BY <1>8 DEF p, q

Words20 == (Words17 \ {<<"lookup", "class">>}) \cup {<<"product", "class">>}

(* v2.0 turns the words of v1.7 into Words20.                              *)
LEMMA WordsOf20 == Reworded(Words17, V20Pairs) = Words20
<1> DEFINE p == <<"lookup", "class">>
           q == <<"product", "class">>
<1>1. p \in Words17
  BY DEF Words17, Renamed17
<1>2. Rewording(p, V20Pairs) = q /\ \A w \in Words17 \ {p} : Rewording(w, V20Pairs) = w
  BY V20Rewording
<1>3. Words20 = (Words17 \ {p}) \cup {q}
  BY DEF Words20
<1> HIDE DEF p, q
<1> QED
  BY <1>1, <1>2, <1>3 DEF Reworded

(* No word of either vocabulary is broken.                                 *)
LEMMA WordsFit ==
  /\ \A w \in Words17 \cup Words20 : Fits(w)
  /\ {w \in Words17 : w[1] = "grant"} = {FormerName}
  /\ {w \in Words20 : w[1] = "grant"} = {FormerName}
  /\ \A w \in Words20 : w[1] # "lookup"
<1> DEFINE p == <<"lookup", "class">>
           q == <<"product", "class">>
<1>1. \A w \in Words17 : Good(w)
  BY GoodWords DEF Words17, Renamed17
<1>2. Good(q) /\ q[1] = "product" /\ p \in Words17 /\ p[1] = "lookup"
  BY GoodWords DEF Words17, Renamed17
<1>3. Words20 = (Words17 \ {p}) \cup {q} /\ \A w : Good(w) => Fits(w)
         /\ (w[1] = "lookup" => w = p) /\ (w[1] = "grant" => w = FormerName)
  BY DEF Words20, Good
<1>4. FormerName \in Words17 /\ FormerName[1] = "grant"
  BY DEF Words17, FormerName
<1> HIDE DEF p, q
<1> QED
  BY <1>1, <1>2, <1>3, <1>4
-----------------------------------------------------------------------------
(* Dashes *)

PolishedProse ==
  [listedBreak |-> "period", listedAside |-> "bracket", closing |-> "period",
   break |-> "period", label |-> "colon", further |-> "period", emptyCell |-> "hyphen"]

Dashes == {"listedBreak", "listedAside", "closing", "break", "label", "further", "emptyCell"}

(* A prose by what each of its dashes is.                                  *)
Prose(p, listedBreak, listedAside, closing, break, label, further, emptyCell) ==
  /\ p = [k \in Dashes |-> p[k]]
  /\ p["listedBreak"] = listedBreak /\ p["listedAside"] = listedAside /\ p["closing"] = closing
  /\ p["break"] = break /\ p["label"] = label /\ p["further"] = further
  /\ p["emptyCell"] = emptyCell

(* v1.4 turns the prose of v1.3 into the polished prose: no sentence keeps *)
(* its polite ending.                                                      *)
LEMMA ProseIs == V14Prose(V13Prose) = PolishedProse
<1> DEFINE e == ExplicitPass(V13Prose)
           s == SentencePass(e)
           l == LabelPass(s)
           b == BlankPass(l)
           t == TersePass(b)
<1> USE DEF Prose, Dashes
<1>1. Prose(e, "period", "bracket", "period", "polite dash", "dash", "dash", "bare")
  BY DEF ExplicitPass, V13Prose
<1> HIDE DEF e
<1>2. Prose(s, "period", "bracket", "period", "period", "dash", "dash", "bare")
  BY <1>1, Zenon DEF SentencePass
<1> HIDE DEF s
<1>3. Prose(l, "period", "bracket", "period", "period", "colon", "period", "bare")
  BY <1>2, Zenon DEF LabelPass
<1> HIDE DEF l
<1>4. Prose(b, "period", "bracket", "period", "period", "colon", "period", "hyphen")
  BY <1>3 DEF BlankPass
<1> HIDE DEF b
<1>5. Prose(t, "period", "bracket", "period", "period", "colon", "period", "hyphen")
  BY <1>4, Zenon DEF TersePass
<1> HIDE DEF t
<1>6. Prose(PolishedProse, "period", "bracket", "period", "period", "colon", "period", "hyphen")
  BY DEF PolishedProse
<1>7. \A k \in Dashes : t[k] = PolishedProse[k]
  BY <1>5, <1>6
<1>8. t = PolishedProse
  <2> HIDE DEF Dashes
  <2> QED
    BY <1>5, <1>6, <1>7
<1> QED
  BY <1>8 DEF V14Prose, e, s, l, b, t
-----------------------------------------------------------------------------
(* Boards *)

Cleared(boards) == boards # <<>> /\ \A k \in DOMAIN boards : "B" \notin ToSet(boards[k])

(* v2.0 leaves worked boards, and none of them shows a base row.           *)
LEMMA BoardsOf20 == Cleared(V20Boards(V13Boards))
<1> DEFINE Row == {"N", "B", "E"}
           b1 == <<"N", "N", "B", "E", "B">>
           b2 == <<"B">>
           p == Preferential(b1)
           q == Append(p, "E")
           I == {i \in DOMAIN b1 : b1[i] # "B"}
<1>1. b1 \in Seq(Row) /\ Len(b1) = 5 /\ b1[1] = "N" /\ b2 \in Seq(Row) /\ Len(b2) = 1
  OBVIOUS
<1>2. V13Boards = <<b1, b2>>
  BY DEF V13Boards
<1>3. p \in Seq(Row) /\ ToSet(p) = {b1[i] : i \in I \cap DOMAIN b1}
  <2>1. p = Pick(b1, I)
    BY DEF Preferential
  <2> HIDE DEF p, b1, I, Row
  <2> QED
    BY <1>1, <2>1, MembersOfPick
<1>4. "N" \in ToSet(p) /\ "B" \notin ToSet(p)
  <2>1. 1 \in I \cap DOMAIN b1 /\ b1[1] = "N" /\ \A i \in I : b1[i] # "B"
    BY <1>1
  <2> HIDE DEF p, b1, I
  <2> QED
    BY <1>3, <2>1
<1>5. Len(p) \in Nat /\ Len(p) > 0
  <2> HIDE DEF p, Row
  <2> QED
    BY <1>3, <1>4, Members
<1>6. "E" \in Row
  OBVIOUS
<1>7. q \in Seq(Row) /\ Len(q) > 1 /\ Len(q) \in Nat /\ "B" \notin ToSet(q)
  <2> HIDE DEF p, Row
  <2>1. q \in Seq(Row) /\ Len(q) = Len(p) + 1 /\ q[Len(p) + 1] = "E"
           /\ \A i \in 1..Len(p) : q[i] = p[i]
    BY <1>3, <1>6, AppendProperties
  <2> HIDE DEF q
  <2>2. ASSUME "B" \in ToSet(q) PROVE FALSE
    <3>1. PICK i \in 1..Len(q) : q[i] = "B"
      BY <2>1, <2>2, Members
    <3>2. i # Len(p) + 1
      BY <2>1, <3>1
    <3>3. i \in 1..Len(p)
      BY <1>5, <2>1, <3>2
    <3>4. p[i] \in ToSet(p)
      BY <1>3, <3>3, Members
    <3> QED
      BY <1>4, <2>1, <3>1, <3>3, <3>4
  <2> QED
    BY <1>5, <2>1, <2>2
<1> DEFINE bs == V13Boards
           k == SelectInSeq(bs, LAMBDA b : Len(b) >= 5)
           left == [bs EXCEPT ![k] = Append(Preferential(@), "E")]
           j == SelectInSeq(left, LAMBDA b : Len(b) = 1)
<1> HIDE DEF b1, b2, p, q, Row
<1>8. bs = <<b1, b2>> /\ bs \in Seq(Seq(Row)) /\ Len(bs) = 2 /\ bs[1] = b1 /\ bs[2] = b2
  BY <1>1, <1>2
<1>9. k = 1
  <2> DEFINE K == {i \in 1..Len(bs) : Len(bs[i]) >= 5}
  <2>1. k = IF K # {} THEN Min(K) ELSE 0
    BY DEF SelectInSeq
  <2> HIDE DEF k, bs
  <2>2. 1 \in K /\ 2 \notin K /\ K \in SUBSET Nat
    BY <1>1, <1>8
  <2>3. K = {1}
    BY <1>8, <2>2
  <2> HIDE DEF K
  <2>4. Min(K) \in K
    BY <2>2, LeastChosen
  <2> QED
    BY <2>1, <2>3, <2>4
<1> HIDE DEF k, bs
<1>10. left \in Seq(Seq(Row)) /\ Len(left) = 2 /\ left[1] = q /\ left[2] = b2
  <2>1. left = [i \in 1..2 |-> IF i = 1 THEN Append(Preferential(bs[1]), "E") ELSE bs[i]]
    <3>1. DOMAIN bs = 1..2
      BY <1>8, LenProperties
    <3> QED
      BY <1>9, <3>1
  <2>2. Append(Preferential(bs[1]), "E") = q
    BY <1>8 DEF q, p
  <2> HIDE DEF left, bs
  <2>3. left = [i \in 1..2 |-> left[i]] /\ left[1] = q /\ left[2] = b2
    BY <1>8, <2>1, <2>2
  <2>4. q \in Seq(Row) /\ b2 \in Seq(Row)
    BY <1>1, <1>7
  <2> DEFINE S == Seq(Row)
  <2> HIDE DEF S
  <2>5. left \in [1..2 -> S]
    BY <2>3, <2>4 DEF S
  <2>6. left \in Seq(S) /\ Len(left) = 2
    BY <2>5, SeqFrom
  <2> QED
    BY <2>3, <2>6 DEF S
<1> HIDE DEF left
<1>11. j = 2
  <2> DEFINE K == {i \in 1..Len(left) : Len(left[i]) = 1}
  <2>1. j = IF K # {} THEN Min(K) ELSE 0
    BY DEF SelectInSeq
  <2> HIDE DEF j
  <2>4. Len(left[2]) = 1 /\ Len(left[1]) > 1 /\ Len(left[1]) \in Nat /\ Len(left) = 2
    BY <1>1, <1>7, <1>10, Zenon
  <2>6. \A i : i \in K <=> i \in 1..2 /\ Len(left[i]) = 1
    BY <2>4, Zenon
  <2> HIDE DEF K
  <2>2. 2 \in K /\ 1 \notin K /\ K \in SUBSET Nat
    BY <2>4, <2>6
  <2>3. K = {2}
    BY <2>2, <2>6
  <2> HIDE DEF K
  <2>5. Min(K) \in K
    BY <2>2, LeastChosen
  <2> QED
    BY <2>1, <2>3, <2>5
<1>12. V20Boards(V13Boards) = RemoveAt(left, j)
  BY DEF V20Boards, left, j, k, bs
<1> HIDE DEF j
<1> DEFINE new == RemoveAt(left, 2)
<1>13. new \in Seq(Seq(Row)) /\ Len(new) = 1 /\ new[1] = q
  <2> DEFINE S == Seq(Row)
  <2> HIDE DEF S
  <2>1. left \in Seq(S) /\ 2 \in 1..Len(left) /\ Len(left) = 2
    BY <1>10 DEF S
  <2>2. new \in Seq(S) /\ Len(new) = Len(left) - 1
        /\ \A i \in 1..(Len(left) - 1) : new[i] = IF i < 2 THEN left[i] ELSE left[i + 1]
    BY <2>1, RemoveAtIs
  <2> HIDE DEF new
  <2> QED
    BY <1>10, <2>1, <2>2 DEF S
<1> HIDE DEF new
<1>14. DOMAIN new = {1} /\ new # <<>>
  <2>1. DOMAIN new = 1..1
    BY <1>13, LenProperties
  <2>2. new # <<>>
    <3> DEFINE nil == <<>>
    <3>1. Len(nil) = 0
      OBVIOUS
    <3> HIDE DEF nil
    <3>2. Len(new) # Len(nil)
      <4>1. Len(new) = 1
        BY <1>13
      <4> QED
        BY <3>1, <4>1
    <3>3. new # nil
      BY <3>2, Zenon
    <3> QED
      BY <3>3 DEF nil
  <2>3. 1..1 = {1}
    OBVIOUS
  <2> QED
    BY <2>1, <2>2, <2>3, Zenon
<1>15. Cleared(new)
  BY <1>7, <1>13, <1>14 DEF Cleared
<1> QED
  BY <1>11, <1>12, <1>15 DEF new

-----------------------------------------------------------------------------
(* Lists of contents *)

Chapters13 ==
  <<"overview", "architecture", "data", "keys", "calculation", "priority", "lookup",
    "enrolling", "period", "negotiated", "batch", "register">>
Chapters19 ==
  <<"overview", "architecture", "journey", "priority", "keys", "data",
    "calculation", "lookup", "enrolling", "period", "negotiated", "batch", "register">>
Chapters20 ==
  <<"overview", "architecture", "journey", "priority", "keys", "massive",
    "data", "calculation", "lookup", "enrolling", "period", "negotiated", "batch", "register">>

EntryType == [num : Seq(Nat), topic : Topic]

(* The chapter lists of v1.3, v1.9 and v2.0 have 12, 13 and 14 chapters.   *)
LEMMA ChapterLists ==
  /\ Chapters13 \in Seq(Topic) /\ Len(Chapters13) = 12
  /\ Chapters19 \in Seq(Topic) /\ Len(Chapters19) = 13
  /\ Chapters20 \in Seq(Topic) /\ Len(Chapters20) = 14
<1>1. Chapters13 \in Seq(Topic) /\ Len(Chapters13) = 12
  BY DEF Chapters13, Topic
<1>2. Chapters19 \in Seq(Topic) /\ Len(Chapters19) = 13
  BY DEF Chapters19, Topic
<1>3. Chapters20 \in Seq(Topic) /\ Len(Chapters20) = 14
  BY DEF Chapters20, Topic
<1> QED
  BY <1>1, <1>2, <1>3

(* The contents page has one line for each chapter, numbered from 0.       *)
LEMMA ContentsIs ==
  ASSUME NEW topics \in Seq(Topic)
  PROVE  /\ Contents(topics) \in Seq(EntryType) /\ Len(Contents(topics)) = Len(topics)
         /\ \A k \in 1..Len(topics) :
              Contents(topics)[k] = [num |-> <<k - 1>>, topic |-> topics[k]]
<1>1. Len(topics) \in Nat /\ DOMAIN topics = 1..Len(topics)
         /\ \A k \in 1..Len(topics) : topics[k] \in Topic
  BY LenProperties
<1> DEFINE new == Contents(topics)
<1>2. new = [k \in 1..Len(topics) |-> [num |-> <<k - 1>>, topic |-> topics[k]]]
  BY <1>1 DEF Contents
<1>3. ASSUME NEW k \in 1..Len(topics) PROVE [num |-> <<k - 1>>, topic |-> topics[k]] \in EntryType
  <2> DEFINE num == <<k - 1>>
  <2>1. num \in Seq(Nat)
    BY <1>1
  <2> HIDE DEF num
  <2>2. [num |-> num, topic |-> topics[k]] \in EntryType
    BY <1>1, <2>1 DEF EntryType
  <2> QED
    BY <2>2 DEF num
<1>4. \A k \in 1..Len(topics) : new[k] = [num |-> <<k - 1>>, topic |-> topics[k]]
  BY <1>2
<1>5. new = [k \in 1..Len(topics) |-> new[k]]
  BY <1>2
<1> HIDE DEF new
<1>6. new \in [1..Len(topics) -> EntryType]
  BY <1>3, <1>4, <1>5
<1>7. new \in Seq(EntryType) /\ Len(new) = Len(topics)
  BY <1>1, <1>6, SeqFrom
<1> QED
  BY <1>4, <1>7 DEF new

(* v1.5 appends one line to the contents page: the appendix, without a     *)
(* number.                                                                 *)
LEMMA WithAppendixIs ==
  ASSUME NEW toc \in Seq(EntryType)
  PROVE  /\ WithAppendix(toc) \in Seq(EntryType) /\ Len(WithAppendix(toc)) = Len(toc) + 1
         /\ \A k \in 1..Len(toc) : WithAppendix(toc)[k] = toc[k]
         /\ WithAppendix(toc)[Len(toc) + 1] = [num |-> <<>>, topic |-> "appendix"]
<1> DEFINE last == [num |-> <<>>, topic |-> "appendix"]
<1>1. last \in EntryType
  BY EmptySeq DEF EntryType, Topic
<1>2. WithAppendix(toc) = Append(toc, last)
  BY DEF WithAppendix
<1> HIDE DEF last
<1>3. /\ Append(toc, last) \in Seq(EntryType) /\ Len(Append(toc, last)) = Len(toc) + 1
      /\ \A k \in 1..Len(toc) : Append(toc, last)[k] = toc[k]
      /\ Append(toc, last)[Len(toc) + 1] = last
  BY <1>1, AppendProperties
<1> QED
  BY <1>2, <1>3 DEF last

(* The list of v1.5: the appendix behind chapter 11.                       *)
LEMMA TocOf15 == V15Toc(V13Toc) = WithAppendix(V13Toc)
<1> DEFINE toc == V13Toc
           last == [num |-> <<>>, topic |-> "appendix"]
           one == <<last>>
           i == SelectInSeq(toc, LAMBDA e : e.num = <<11>>)
           K == {k \in 1..Len(toc) : toc[k].num = <<11>>}
           a == SubSeq(toc, 1, 12)
           b == SubSeq(toc, 13, 12)
<1>1. /\ toc \in Seq(EntryType) /\ Len(toc) = 12
      /\ \A k \in 1..12 : toc[k] = [num |-> <<k - 1>>, topic |-> Chapters13[k]]
  <2>1. toc = Contents(Chapters13)
    BY DEF V13Toc, Chapters13
  <2> HIDE DEF toc
  <2> QED
    BY <2>1, ContentsIs, ChapterLists
<1>2. i = IF K # {} THEN Min(K) ELSE 0
  BY DEF SelectInSeq
<1>3. V15Toc(toc) = Before(toc, i + 1, one)
  BY DEF V15Toc
<1> HIDE DEF i, toc
<1>4. K = {12}
  <2>1. \A k \in 1..12 : toc[k].num = <<11>> <=> k = 12
    <3> TAKE k \in 1..12
    <3>1. toc[k].num = <<k - 1>>
      BY <1>1
    <3> DEFINE n1 == <<k - 1>>
               n2 == <<11>>
    <3>2. n1[1] = k - 1 /\ n2[1] = 11 /\ (k = 12 => n1 = n2)
      OBVIOUS
    <3> HIDE DEF n1, n2
    <3>3. n1 = n2 <=> k = 12
      BY <3>2
    <3> QED
      BY <3>1, <3>3 DEF n1, n2
  <2> QED
    BY <1>1, <2>1
<1> HIDE DEF K
<1>5. i = 12
  <2>1. K # {} /\ K \in SUBSET Nat
    BY <1>4
  <2>2. Min(K) \in K
    BY <2>1, LeastChosen
  <2> QED
    BY <1>2, <1>4, <2>1, <2>2
<1>6. Before(toc, i + 1, one) = (a \o one) \o b
  BY <1>1, <1>5 DEF Before
<1>7. a = toc
  <2>1. \A k \in 1..12 : toc[k] \in EntryType
    BY <1>1, LenProperties
  <2>2. a \in Seq(EntryType) /\ Len(a) = 12 /\ \A k \in 1..12 : a[k] = toc[k]
    BY <2>1, SubSeqProperties
  <2> HIDE DEF a
  <2> QED
    BY <1>1, <2>2, SeqEqual
<1>8. b = <<>>
  <2>1. \A k \in 13..12 : toc[k] \in EntryType
    OBVIOUS
  <2>2. b \in Seq(EntryType) /\ Len(b) = 0
    BY <2>1, SubSeqProperties
  <2> HIDE DEF b
  <2> QED
    BY <2>2, EmptySeq
<1>9. one \in Seq(EntryType)
  <2>1. last \in EntryType
    BY EmptySeq DEF EntryType, Topic
  <2> HIDE DEF last
  <2> QED
    BY <2>1
<1> DEFINE c == a \o one
<1>10. c = Append(toc, last)
  <2>1. last \in EntryType /\ one[1] = last /\ Len(one) = 1
    BY EmptySeq DEF EntryType, Topic
  <2> HIDE DEF last
  <2>5. toc \o one = Append(toc, last)
    BY <1>1, <2>1, AppendIsConcat DEF one
  <2> QED
    BY <1>7, <2>5
<1>11. c \o b = c
  <2>1. c \in Seq(EntryType)
    BY <1>1, <1>7, <1>9, ConcatProperties
  <2> HIDE DEF b, c
  <2> QED
    BY <1>8, <2>1, ConcatEmptySeq
<1> QED
  BY <1>3, <1>6, <1>10, <1>11 DEF toc, WithAppendix

(* A list of at least as many entries is overwritten entirely.             *)
LEMMA NewTocIs ==
  ASSUME NEW old \in Seq(EntryType), NEW new \in Seq(EntryType), Len(old) <= Len(new)
  PROVE  NewToc(old, new) = new
<1>1. Len(old) \in Nat /\ Len(new) \in Nat /\ DOMAIN new = 1..Len(new)
  BY LenProperties
<1>2. NewToc(old, new) = [k \in 1..Len(new) |-> new[k]]
  <2>1. (IF Len(old) > Len(new) THEN Len(old) ELSE Len(new)) = Len(new)
    BY <1>1
  <2> QED
    BY <1>1, <2>1 DEF NewToc
<1>3. new = [k \in 1..Len(new) |-> new[k]]
  BY <1>1
<1> QED
  BY <1>2, <1>3

TocTypes(toc, n) == toc \in Seq(EntryType) /\ Len(toc) = n

(* The contents pages and their lengths.                                   *)
LEMMA TocLengths ==
  /\ TocTypes(V13Toc, 12) /\ TocTypes(WithAppendix(V13Toc), 13)
  /\ TocTypes(V19Toc, 14) /\ TocTypes(V20Toc, 15)
<1>1. V13Toc = Contents(Chapters13)
  BY DEF V13Toc, Chapters13
<1>2. V19Toc = WithAppendix(Contents(Chapters19))
  BY DEF V19Toc, Chapters19
<1>3. V20Toc = WithAppendix(Contents(Chapters20))
  BY DEF V20Toc, Chapters20
<1>4. TocTypes(V13Toc, 12) /\ TocTypes(Contents(Chapters19), 13)
         /\ TocTypes(Contents(Chapters20), 14)
  BY <1>1, ContentsIs, ChapterLists DEF TocTypes
<1>5. ASSUME NEW toc, NEW n \in Nat, TocTypes(toc, n) PROVE TocTypes(WithAppendix(toc), n + 1)
  BY <1>5, WithAppendixIs DEF TocTypes
<1>6. TocTypes(WithAppendix(V13Toc), 12 + 1) /\ TocTypes(V19Toc, 13 + 1) /\ TocTypes(V20Toc, 14 + 1)
  BY <1>2, <1>3, <1>4, <1>5
<1>7. 12 + 1 = 13 /\ 13 + 1 = 14 /\ 14 + 1 = 15
  OBVIOUS
<1> QED
  BY <1>4, <1>6, <1>7

(* v1.9 and v2.0 replace the contents page they expect by their own.       *)
LEMMA TocsOf19And20 ==
  /\ NewToc(WithAppendix(V13Toc), V19Toc) = V19Toc
  /\ NewToc(V19Toc, V20Toc) = V20Toc
<1> HIDE DEF V19Toc, V20Toc
<1>1. ASSUME NEW old, NEW new, NEW m \in Nat, NEW n \in Nat, TocTypes(old, m), TocTypes(new, n),
         m <= n
      PROVE  NewToc(old, new) = new
  BY <1>1, NewTocIs DEF TocTypes
<1>2. NewToc(WithAppendix(V13Toc), V19Toc) = V19Toc
  <2>1. 13 \in Nat /\ 14 \in Nat /\ 13 <= 14
    OBVIOUS
  <2> QED
    BY <1>1, <2>1, TocLengths
<1>3. NewToc(V19Toc, V20Toc) = V20Toc
  <2>1. 15 \in Nat /\ 14 \in Nat /\ 14 <= 15
    OBVIOUS
  <2> QED
    BY <1>1, <2>1, TocLengths
<1> QED
  BY <1>2, <1>3

-----------------------------------------------------------------------------
(* The files field by field *)

Fields(d) ==
  DOMAIN d = {"cover", "split", "word", "body", "toc", "polite", "prose", "words", "boards"}

(* What v1.4 writes beside the body: the cover by runs, the polished       *)
(* prose, and nothing else.                                                *)
LEMMA V14Is ==
  ASSUME NEW d, Fields(d)
  PROVE  /\ Fields(V14(d))
         /\ V14(d).split = d.split /\ V14(d).word = d.word /\ V14(d).toc = d.toc /\ V14(d).words =
            d.words /\ V14(d).boards = d.boards
         /\ V14(d).cover = CoverByRun(d, "1.3", "1.4")
         /\ V14(d).prose = V14Prose(d.prose)
         /\ V14(d).polite = FALSE
         /\ V14(d).body = d.body
BY DEF Fields, V14

(* What v1.5 writes beside the body: the cover by runs and the contents    *)
(* page with the appendix.                                                 *)
LEMMA V15Is ==
  ASSUME NEW d, Fields(d)
  PROVE  /\ Fields(V15(d))
         /\ V15(d).split = d.split /\ V15(d).word = d.word /\ V15(d).polite = d.polite /\
            V15(d).prose = d.prose /\ V15(d).words = d.words /\ V15(d).boards = d.boards
         /\ V15(d).cover = CoverByRun(d, "1.4", "1.5")
         /\ V15(d).toc = V15Toc(d.toc)
BY DEF Fields, V15

(* What v1.6 writes beside the body: the cover by runs.                    *)
LEMMA V16Is ==
  ASSUME NEW d, Fields(d)
  PROVE  /\ Fields(V16(d))
         /\ V16(d).split = d.split /\ V16(d).word = d.word /\ V16(d).toc = d.toc /\ V16(d).polite =
            d.polite /\ V16(d).prose = d.prose /\ V16(d).words = d.words /\ V16(d).boards = d.boards
         /\ V16(d).cover = CoverByRun(d, "1.5", "1.6")
BY DEF Fields, V16

(* What v1.7 writes beside the body: the cover by its paragraph and the    *)
(* replaced words.                                                         *)
LEMMA V17Is ==
  ASSUME NEW d, Fields(d)
  PROVE  /\ Fields(V17(d))
         /\ V17(d).split = d.split /\ V17(d).word = d.word /\ V17(d).toc = d.toc /\ V17(d).polite =
            d.polite /\ V17(d).prose = d.prose /\ V17(d).boards = d.boards
         /\ V17(d).cover = CoverByParagraph(d, "1.6", "1.7")
         /\ V17(d).words = V17Words(d.words)
BY DEF Fields, V17

(* What v1.8 writes beside the body: the cover by its paragraph.           *)
LEMMA V18Is ==
  ASSUME NEW d, Fields(d)
  PROVE  /\ Fields(V18(d))
         /\ V18(d).split = d.split /\ V18(d).word = d.word /\ V18(d).toc = d.toc /\ V18(d).polite =
            d.polite /\ V18(d).prose = d.prose /\ V18(d).words = d.words /\ V18(d).boards = d.boards
         /\ V18(d).cover = CoverByParagraph(d, "1.7", "1.8")
BY DEF Fields, V18

(* What v1.9 writes beside the body: the cover by its paragraph and the    *)
(* contents page.                                                          *)
LEMMA V19Is ==
  ASSUME NEW d, Fields(d)
  PROVE  /\ Fields(V19(d))
         /\ V19(d).split = d.split /\ V19(d).word = d.word /\ V19(d).polite = d.polite /\
            V19(d).prose = d.prose /\ V19(d).words = d.words /\ V19(d).boards = d.boards
         /\ V19(d).cover = CoverByParagraph(d, "1.8", "1.9")
         /\ V19(d).toc = NewToc(d.toc, V19Toc)
BY DEF Fields, V19

(* What v2.0 writes beside the body: cover, contents page, words and       *)
(* worked boards.                                                          *)
LEMMA V20Is ==
  ASSUME NEW d, Fields(d)
  PROVE  /\ Fields(V20(d))
         /\ V20(d).split = d.split /\ V20(d).word = d.word /\ V20(d).polite = d.polite /\
            V20(d).prose = d.prose
         /\ V20(d).cover = CoverByParagraph(d, "1.9", "2.0")
         /\ V20(d).toc = NewToc(d.toc, V20Toc)
         /\ V20(d).words = Reworded(d.words, V20Pairs)
         /\ V20(d).boards = V20Boards(d.boards)
BY DEF Fields, V20, V20Pairs

(* What the first proposal writes beside the body: the cover.              *)
LEMMA P1Is ==
  ASSUME NEW d, Fields(d)
  PROVE  /\ Fields(P1(d))
         /\ P1(d).split = d.split /\ P1(d).word = d.word /\ P1(d).toc = d.toc /\ P1(d).polite =
            d.polite /\ P1(d).prose = d.prose /\ P1(d).words = d.words /\ P1(d).boards = d.boards
         /\ P1(d).cover = "p1"
BY DEF Fields, P1

(* What the second proposal writes beside the body: the cover.             *)
LEMMA P2Is ==
  ASSUME NEW d, Fields(d)
  PROVE  /\ Fields(P2(d))
         /\ P2(d).split = d.split /\ P2(d).word = d.word /\ P2(d).toc = d.toc /\ P2(d).polite =
            d.polite /\ P2(d).prose = d.prose /\ P2(d).words = d.words /\ P2(d).boards = d.boards
         /\ P2(d).cover = "p2"
BY DEF Fields, P2

(* A file saved in Word, with whatever body.                               *)
Saves(v, d, n) ==
  /\ Fields(n) /\ n.word = TRUE /\ n.split \in BOOLEAN
  /\ n.split => d.split \/ v \in Splits
  /\ n.cover = d.cover /\ n.toc = d.toc /\ n.polite = d.polite /\ n.prose = d.prose
  /\ n.words = d.words /\ n.boards = d.boards

(* A pass through Word writes a document of the same body, and so does any *)
(* change of the body.                                                     *)
LEMMA InWordIs ==
  ASSUME NEW v, NEW d, Fields(d)
  PROVE  /\ Saves(v, d, InWord(v, d)) /\ InWord(v, d).body = d.body
         /\ \A body : LET n == [InWord(v, d) EXCEPT !.body = body]
                     IN  Saves(v, d, n) /\ n.body = body
<1> DEFINE w == InWord(v, d)
<1>1. (d.split \/ v \in Splits) \in BOOLEAN
  OBVIOUS
<1> DEFINE split == d.split \/ v \in Splits
<1>2. split \in BOOLEAN /\ (split => d.split \/ v \in Splits)
  BY <1>1
<1>3. w = [d EXCEPT !.word = TRUE, !.split = split]
  BY DEF InWord
<1> HIDE DEF split, w
<1>4. /\ Fields(w) /\ w.word = TRUE /\ w.split = split /\ w.cover = d.cover /\ w.toc = d.toc
      /\ w.polite = d.polite /\ w.prose = d.prose /\ w.words = d.words /\ w.boards = d.boards
      /\ w.body = d.body
  BY <1>3 DEF Fields
<1>5. Saves(v, d, w)
  BY <1>2, <1>4 DEF Saves
<1>6. ASSUME NEW body PROVE Saves(v, d, [w EXCEPT !.body = body])
         /\ [w EXCEPT !.body = body].body = body
  <2> DEFINE n == [w EXCEPT !.body = body]
  <2>1. /\ Fields(n) /\ n.word = w.word /\ n.split = w.split /\ n.cover = w.cover /\ n.toc = w.toc
        /\ n.polite = w.polite /\ n.prose = w.prose /\ n.words = w.words /\ n.boards = w.boards
        /\ n.body = body
    BY <1>4 DEF Fields
  <2> HIDE DEF n
  <2>2. Saves(v, d, n) /\ n.body = body
    BY <1>5, <2>1 DEF Saves
  <2> QED
    BY <2>2 DEF n
<1> QED
  BY <1>4, <1>5, <1>6 DEF w

(* What a from-scratch script writes: its own cover, in one run, polite,   *)
(* not passed through Word.                                                *)
LEMMA NewIs ==
  /\ Fields(V07) /\ Fields(V09) /\ Fields(V13)
  /\ V07.cover = "0.7" /\ V09.cover = "0.9" /\ V13.cover = "1.3"
  /\ V07.split = FALSE /\ V09.split = FALSE /\ V13.split = FALSE
  /\ V07.word = FALSE /\ V09.word = FALSE /\ V13.word = FALSE
  /\ V07.polite = TRUE /\ V09.polite = TRUE /\ V13.polite = TRUE
  /\ V13.toc = V13Toc /\ V13.prose = V13Prose /\ V13.words = V13Words
  /\ V13.boards = V13Boards
BY DEF Fields, V07, V09, V13, Edition

(* What a file says, but for its body: each version has one wording, one   *)
(* vocabulary, one set of boards and one list of contents.                 *)
Wording(v, d) ==
  /\ Fields(d) /\ d.word \in BOOLEAN /\ d.split \in BOOLEAN /\ d.cover \in Versions
  /\ d.polite = (v \in Written)
  /\ v = "1.3" => d.prose = V13Prose
  /\ v \in Derived => d.prose = PolishedProse
  /\ v \in {"1.3", "1.4", "1.5", "1.6"} => d.words = V13Words
  /\ v \in {"1.7", "1.8", "1.9"} => d.words = Words17
  /\ v \in {"2.0", "p1", "p2"} => d.words = Words20 /\ Cleared(d.boards)
  /\ v \in {"1.3", "1.4", "1.5", "1.6", "1.7", "1.8", "1.9"} => d.boards = V13Boards
  /\ v \in {"1.3", "1.4"} => d.toc = V13Toc
  /\ v \in {"1.5", "1.6", "1.7", "1.8"} => d.toc = WithAppendix(V13Toc)
  /\ v = "1.9" => d.toc = V19Toc
  /\ v \in {"2.0", "p1", "p2"} => d.toc = V20Toc

(* A document written from scratch has the wording its version promises.   *)
LEMMA WordingOfNew ==
  Wording("0.7", V07) /\ Wording("0.9", V09) /\ Wording("1.3", V13)
<1> USE DEF Written, Derived, Versions
<1>1. Wording("0.7", V07)
  BY NewIs DEF Wording
<1>2. Wording("0.9", V09)
  BY NewIs DEF Wording
<1>3. Wording("1.3", V13)
  BY NewIs DEF Wording
<1> QED
  BY <1>1, <1>2, <1>3

(* A pass through Word, and any edit of the body, keeps the wording.       *)
LEMMA WordingOfWord ==
  ASSUME NEW v, NEW d, Wording(v, d)
  PROVE  /\ Wording(v, InWord(v, d))
         /\ \A body : Wording(v, [InWord(v, d) EXCEPT !.body = body])
<1>1. Fields(d)
  BY DEF Wording
<1>2. ASSUME NEW n, Saves(v, d, n) PROVE Wording(v, n)
  BY <1>2 DEF Wording, Saves
<1> QED
  BY <1>1, <1>2, InWordIs

(* What is left for v1.4 to show of the wording it writes.                 *)
LEMMA Wording14 ==
  ASSUME NEW e, Fields(e), e.word \in BOOLEAN, e.split \in BOOLEAN, e.prose = PolishedProse,
         e.words = V13Words, e.boards = V13Boards, e.toc = V13Toc, e.cover \in Versions,
         e.polite = FALSE
  PROVE  Wording("1.4", e)
<1>1. ("1.4" \in Written) = FALSE
  BY DEF Written
<1> QED
  BY <1>1 DEF Wording

(* Every script turns the wording of the version it reads into the wording *)
(* of the one it writes.                                                   *)
LEMMA WordingOfOut ==
  ASSUME NEW v \in Derived, NEW d, Wording(Source[v], d)
  PROVE  Wording(v, Out(v, d))
<1> USE DEF Versions, Written, Derived
<1>0. Fields(d)
  BY DEF Wording
<1>1. CASE v = "1.4"
  <2>1. Out(v, d) = V14(d) /\ Source[v] = "1.3"
    BY <1>1 DEF Out, Source
  <2>2. V14(d).cover \in Versions
    BY <1>0, <2>1, V14Is DEF Wording, CoverByRun, CoverByParagraph
  <2>4. /\ d.word \in BOOLEAN /\ d.split \in BOOLEAN /\ d.prose = V13Prose
        /\ d.words = V13Words /\ d.boards = V13Boards /\ d.toc = V13Toc
    BY <2>1, Zenon DEF Wording
  <2> DEFINE e == V14(d)
  <2>5. /\ Fields(e) /\ e.word \in BOOLEAN /\ e.split \in BOOLEAN /\ e.prose = PolishedProse
        /\ e.words = V13Words /\ e.boards = V13Boards /\ e.toc = V13Toc
        /\ e.cover \in Versions /\ e.polite = FALSE
    BY <1>0, <2>2, <2>4, V14Is, ProseIs
  <2> HIDE DEF e
  <2>6. Wording("1.4", e)
    BY <2>5, Wording14
  <2>3. Wording("1.4", V14(d))
    BY <2>6 DEF e
  <2> QED
    BY <1>1, <2>1, <2>3
<1>2. CASE v = "1.5"
  <2>1. Out(v, d) = V15(d) /\ Source[v] = "1.4"
    BY <1>2 DEF Out, Source
  <2>2. V15(d).cover \in Versions
    BY <1>0, <2>1, V15Is DEF Wording, CoverByRun, CoverByParagraph
  <2>4. (v \in Written) = (Source[v] \in Written) \/ ((v \in Written) = FALSE /\ v = "1.4")
    BY <1>2, <2>1
  <2>3. Wording("1.5", V15(d))
    BY <1>2, <2>4, <1>0, <2>1, <2>2, V15Is, TocOf15 DEF Wording
  <2> QED
    BY <1>2, <2>1, <2>3
<1>3. CASE v = "1.6"
  <2>1. Out(v, d) = V16(d) /\ Source[v] = "1.5"
    BY <1>3 DEF Out, Source
  <2>2. V16(d).cover \in Versions
    BY <1>0, <2>1, V16Is DEF Wording, CoverByRun, CoverByParagraph
  <2>4. (v \in Written) = (Source[v] \in Written) \/ ((v \in Written) = FALSE /\ v = "1.4")
    BY <1>3, <2>1
  <2>3. Wording("1.6", V16(d))
    BY <1>3, <2>4, <1>0, <2>1, <2>2, V16Is DEF Wording
  <2> QED
    BY <1>3, <2>1, <2>3
<1>4. CASE v = "1.7"
  <2>1. Out(v, d) = V17(d) /\ Source[v] = "1.6"
    BY <1>4 DEF Out, Source
  <2>2. V17(d).cover \in Versions
    BY <1>0, <2>1, V17Is DEF Wording, CoverByRun, CoverByParagraph
  <2>4. (v \in Written) = (Source[v] \in Written) \/ ((v \in Written) = FALSE /\ v = "1.4")
    BY <1>4, <2>1
  <2>3. Wording("1.7", V17(d))
    BY <1>4, <2>4, <1>0, <2>1, <2>2, V17Is, WordsOf17 DEF Wording
  <2> QED
    BY <1>4, <2>1, <2>3
<1>5. CASE v = "1.8"
  <2>1. Out(v, d) = V18(d) /\ Source[v] = "1.7"
    BY <1>5 DEF Out, Source
  <2>2. V18(d).cover \in Versions
    BY <1>0, <2>1, V18Is DEF Wording, CoverByRun, CoverByParagraph
  <2>4. (v \in Written) = (Source[v] \in Written) \/ ((v \in Written) = FALSE /\ v = "1.4")
    BY <1>5, <2>1
  <2>3. Wording("1.8", V18(d))
    BY <1>5, <2>4, <1>0, <2>1, <2>2, V18Is DEF Wording
  <2> QED
    BY <1>5, <2>1, <2>3
<1>6. CASE v = "1.9"
  <2>1. Out(v, d) = V19(d) /\ Source[v] = "1.8"
    BY <1>6 DEF Out, Source
  <2>2. V19(d).cover \in Versions
    BY <1>0, <2>1, V19Is DEF Wording, CoverByRun, CoverByParagraph
  <2>4. (v \in Written) = (Source[v] \in Written) \/ ((v \in Written) = FALSE /\ v = "1.4")
    BY <1>6, <2>1
  <2>3. Wording("1.9", V19(d))
    BY <1>6, <2>4, <1>0, <2>1, <2>2, V19Is, TocsOf19And20 DEF Wording
  <2> QED
    BY <1>6, <2>1, <2>3
<1>7. CASE v = "2.0"
  <2>1. Out(v, d) = V20(d) /\ Source[v] = "1.9"
    BY <1>7 DEF Out, Source
  <2>2. V20(d).cover \in Versions
    BY <1>0, <2>1, V20Is DEF Wording, CoverByRun, CoverByParagraph
  <2>4. (v \in Written) = (Source[v] \in Written) \/ ((v \in Written) = FALSE /\ v = "1.4")
    BY <1>7, <2>1
  <2>3. Wording("2.0", V20(d))
    BY <1>7, <2>4, <1>0, <2>1, <2>2, V20Is, TocsOf19And20, WordsOf20, BoardsOf20 DEF Wording
  <2> QED
    BY <1>7, <2>1, <2>3
<1>8. CASE v = "p1"
  <2>1. Out(v, d) = P1(d) /\ Source[v] = "2.0"
    BY <1>8 DEF Out, Source
  <2>2. P1(d).cover \in Versions
    BY <1>0, <2>1, P1Is DEF Wording, CoverByRun, CoverByParagraph
  <2>4. (v \in Written) = (Source[v] \in Written) \/ ((v \in Written) = FALSE /\ v = "1.4")
    BY <1>8, <2>1
  <2>3. Wording("p1", P1(d))
    BY <1>8, <2>4, <1>0, <2>1, <2>2, P1Is DEF Wording
  <2> QED
    BY <1>8, <2>1, <2>3
<1>9. CASE v = "p2"
  <2>1. Out(v, d) = P2(d) /\ Source[v] = "p1"
    BY <1>9 DEF Out, Source
  <2>2. P2(d).cover \in Versions
    BY <1>0, <2>1, P2Is DEF Wording, CoverByRun, CoverByParagraph
  <2>4. (v \in Written) = (Source[v] \in Written) \/ ((v \in Written) = FALSE /\ v = "1.4")
    BY <1>9, <2>1
  <2>3. Wording("p2", P2(d))
    BY <1>9, <2>4, <1>0, <2>1, <2>2, P2Is DEF Wording
  <2> QED
    BY <1>9, <2>1, <2>3
<1> QED
  BY <1>1, <1>2, <1>3, <1>4, <1>5, <1>6, <1>7, <1>8, <1>9

-----------------------------------------------------------------------------
(* The layout of a version *)

(* How far the document has come.                                          *)
Age(v) ==
  CASE v = "1.3" -> 3 [] v = "1.4" -> 4 [] v = "1.5" -> 5 [] v = "1.6" -> 6 [] v = "1.7" -> 7
    [] v = "1.8" -> 8 [] v = "1.9" -> 9 [] v = "2.0" -> 10 [] v = "p1" -> 11 [] v = "p2" -> 12

LooseTopics(n) ==
  {"terms", "contents"} \cup (IF n <= 4 THEN {} ELSE {"appendix"})
    \cup (IF n <= 10 THEN {"summary"} ELSE IF n = 11 THEN {"proposal"}
          ELSE {"recommendation", "background", "situation", "problem", "solution"})

LooseLevel(topic) == IF topic \in {"terms", "situation", "problem", "solution"} THEN 2 ELSE 1

ChapterTopics(n) == IF n <= 8 THEN Chapters13 ELSE IF n = 9 THEN Chapters19 ELSE Chapters20

SubTopics(n) ==
  {"premise", "start", "survey", "principle", "whyboard", "boundary", "schedule", "policy",
   "account", "outputs", "logic", "composition", "class", "axes", "components", "bearer",
   "ranking", "gate", "contest", "steps", "example", "lifecycle", "request", "approval",
   "extension", "metrics", "full", "incremental"}
    \cup (IF n >= 5 THEN {"scale"} ELSE {}) \cup (IF n >= 6 THEN {"storage"} ELSE {})
    \cup (IF n >= 7 THEN {"candidates"} ELSE {}) \cup (IF n >= 8 THEN {"physical"} ELSE {})

(* Sections a chapter may have before the scripts that count on it; the    *)
(* register, the last one, has none.                                       *)
Room(n, c) ==
  IF c + 1 = Len(ChapterTopics(n)) THEN 0
  ELSE IF c = 10 /\ n <= 8 THEN (IF n <= 4 THEN 2 ELSE IF n <= 6 THEN 3 ELSE IF n = 7 THEN 4 ELSE 5)
  ELSE IF c = 1 /\ n <= 8 THEN (IF n <= 5 THEN 3 ELSE 4)
  ELSE 9

(* The paragraphs whose place decides something.                           *)
Noted(n, x) ==
  /\ "perStock" \in x.marks => x.topic \in {"logic", "register"}
  /\ "axisTable" \in x.marks => x.topic = "logic" /\ "perStock" \in x.marks
  /\ n <= 4 /\ "end" \in x.marks => x.topic = "register"
  /\ n <= 9 => "eightAxes" \notin x.marks
  /\ n >= 10 => ("eightAxes" \in x.marks <=> "axisTable" \in x.marks)

LooseAt(n, x) == Len(x.num) = 0 /\ x.topic \in LooseTopics(n) /\ x.level = LooseLevel(x.topic)

ChapterOf(n, x) ==
  /\ Len(x.num) = 1 /\ x.level = 1 /\ x.num[1] \in Nat /\ x.num[1] < Len(ChapterTopics(n))
  /\ x.topic = ChapterTopics(n)[x.num[1] + 1]

SubOf(n, x) ==
  /\ Len(x.num) = 2 /\ x.level = 2 /\ x.num[1] \in Nat /\ x.num[1] < Len(ChapterTopics(n))
  /\ x.topic \in SubTopics(n)
  /\ x.num[2] \in Nat /\ 1 <= x.num[2] /\ x.num[2] <= Room(n, x.num[1])

Shape(n, x) ==
  /\ x.num \in Seq(Nat) /\ Noted(n, x)
  /\ LooseAt(n, x) \/ ChapterOf(n, x) \/ SubOf(n, x)

Complete(n, outline) ==
  /\ \A topic \in LooseTopics(n) : \E x \in outline : Len(x.num) = 0 /\ x.topic = topic
  /\ \A c \in 0..(Len(ChapterTopics(n)) - 1) : \E x \in outline : Len(x.num) = 1 /\ x.num[1] = c

(* What an outline of that age shows.                                      *)
Drawn(n, outline) ==
  /\ OneEach(outline)
  /\ \A x \in outline : Shape(n, x)
  /\ Complete(n, outline)

Layout(n, body) == body \in Seq(Sec) /\ Rising(body) /\ Drawn(n, Outline(body))

(* The length of the list of chapters.                                     *)
LEMMA Tops ==
  ASSUME NEW n \in 3..12
  PROVE  /\ Len(ChapterTopics(n)) = IF n <= 8 THEN 12 ELSE IF n = 9 THEN 13 ELSE 14
         /\ Len(ChapterTopics(n)) \in 12..14
<1>1. CASE n <= 8
  BY <1>1, ChapterLists DEF ChapterTopics
<1>2. CASE n = 9
  BY <1>2, ChapterLists DEF ChapterTopics
<1>3. CASE n > 9
  <2>1. ChapterTopics(n) = Chapters20
    BY <1>3 DEF ChapterTopics
  <2> QED
    BY <1>3, <2>1, ChapterLists
<1> QED
  BY <1>1, <1>2, <1>3

(* No chapter has room for more than nine sections.                        *)
LEMMA Rooms ==
  ASSUME NEW n \in 3..12, NEW c \in Nat
  PROVE  Room(n, c) \in 0..9
BY DEF Room

(* A number of up to two parts is the tuple of its parts.                  *)
LEMMA Tuples ==
  ASSUME NEW num \in Seq(Nat)
  PROVE  /\ Len(num) = 0 <=> num = <<>>
         /\ Len(num) = 1 => num = <<num[1]>>
         /\ Len(num) = 2 => num = <<num[1], num[2]>>
<1>1. Len(num) = 0 <=> num = <<>>
  BY EmptySeq
<1>2. ASSUME Len(num) = 1 PROVE num = <<num[1]>>
  <2> DEFINE a == num[1]
             t == <<a>>
  <2>0. a \in Nat
    <3>1. 1 \in 1..Len(num)
      BY <1>2
    <3> QED
      BY <3>1, ElementOfSeq
  <2> HIDE DEF a
  <2>1. t \in Seq(Nat) /\ Len(t) = 1 /\ t[1] = a
    BY <2>0
  <2> HIDE DEF t
  <2>2. \A i \in 1..1 : num[i] = t[i]
    BY <2>1 DEF a
  <2>3. num = t
    BY <1>2, <2>1, <2>2, SeqEqual
  <2> QED
    BY <2>3 DEF t, a
<1>3. ASSUME Len(num) = 2 PROVE num = <<num[1], num[2]>>
  <2> DEFINE a == num[1]
             b == num[2]
             t == <<a, b>>
  <2>0. a \in Nat /\ b \in Nat
    <3>1. 1 \in 1..Len(num) /\ 2 \in 1..Len(num)
      BY <1>3
    <3> QED
      BY <3>1, ElementOfSeq
  <2> HIDE DEF a, b
  <2>1. t \in Seq(Nat) /\ Len(t) = 2 /\ t[1] = a /\ t[2] = b
    BY <2>0
  <2> HIDE DEF t
  <2>2. \A i \in 1..2 : num[i] = t[i]
    BY <2>1 DEF a, b
  <2>3. num = t
    BY <1>3, <2>1, <2>2, SeqEqual
  <2> QED
    BY <2>3 DEF t, a, b
<1> QED
  BY <1>1, <1>2, <1>3

(* The key of a heading that fits the layout: the place of a loose         *)
(* heading, the chapter's thousands and the section's hundreds of a        *)
(* numbered one.                                                           *)
LEMMA KeyOf ==
  ASSUME NEW n \in 3..12, NEW x, Shape(n, x)
  PROVE  /\ Key(x) \in Int
         /\ LooseAt(n, x) => Key(x) = Place(x.topic) /\ (x.topic = "appendix" \/ Key(x) < 8)
         /\ ChapterOf(n, x) => x.num[1] \in 0..13 /\ Key(x) = 10000 * (x.num[1] + 1)
         /\ SubOf(n, x) => /\ x.num[1] \in 0..13 /\ x.num[2] \in 1..9
                           /\ x.num[2] <= Room(n, x.num[1])
                           /\ Key(x) = 10000 * (x.num[1] + 1) + 100 * x.num[2]
<1>1. x.num \in Seq(Nat) /\ (Len(x.num) = 0 <=> x.num = <<>>)
  BY Tuples DEF Shape
<1>2. CASE LooseAt(n, x)
  <2>1. Key(x) = Place(x.topic)
    BY <1>1, <1>2 DEF Key, LooseAt
  <2>2. x.topic = "appendix" \/ Place(x.topic) < 8
    BY <1>2 DEF LooseAt, LooseTopics, Place
  <2>3. Place(x.topic) \in Int
    BY DEF Place
  <2> QED
    BY <1>2, <2>1, <2>2, <2>3 DEF LooseAt, ChapterOf, SubOf
<1>3. CASE ChapterOf(n, x)
  <2>1. Key(x) = 10000 * (x.num[1] + 1)
    BY <1>1, <1>3 DEF ChapterOf, Key, Height, Second, Third
  <2>2. x.num[1] \in 0..13
    <3> DEFINE c == x.num[1]
               top == Len(ChapterTopics(n))
    <3>1. c \in Nat /\ c < top /\ top \in 12..14
      BY <1>3, Tops DEF ChapterOf
    <3> HIDE DEF c, top
    <3>2. c \in 0..13
      BY <3>1
    <3> QED
      BY <3>2 DEF c
  <2> QED
    BY <1>3, <2>1, <2>2 DEF LooseAt, ChapterOf, SubOf
<1>4. CASE SubOf(n, x)
  <2>1. Key(x) = 10000 * (x.num[1] + 1) + 100 * x.num[2]
    <3> DEFINE m == x.num
    <3>1. m \in Seq(Nat) /\ Len(m) = 2 /\ m # <<>> /\ m[1] \in Nat /\ m[2] \in Nat
      BY <1>1, <1>4 DEF SubOf
    <3> HIDE DEF m
    <3>2. Second(m) = m[2] /\ Third(m) = 0
      BY <3>1 DEF Second, Third
    <3>3. Height(m) = 10000 * (m[1] + 1) + 100 * m[2]
      BY <3>1, <3>2 DEF Height
    <3> QED
      BY <3>1, <3>3 DEF Key, m
  <2>2. x.num[1] \in 0..13 /\ x.num[2] \in 1..9 /\ x.num[2] <= Room(n, x.num[1])
    <3> DEFINE c == x.num[1]
               k == x.num[2]
               top == Len(ChapterTopics(n))
               room == Room(n, c)
    <3>1. /\ c \in Nat /\ c < top /\ top \in 12..14
          /\ k \in Nat /\ 1 <= k /\ k <= room /\ room \in 0..9
      BY <1>4, Tops, Rooms DEF SubOf
    <3> HIDE DEF c, k, top, room
    <3>2. c \in 0..13 /\ k \in 1..9 /\ k <= room
      BY <3>1
    <3> QED
      BY <3>2 DEF c, k, room
  <2> QED
    BY <1>4, <2>1, <2>2 DEF LooseAt, ChapterOf, SubOf
<1> QED
  BY <1>2, <1>3, <1>4 DEF Shape

(* What a second-level number says: its chapter, its place in it, its key. *)
KeySub(n, x) ==
  /\ x.num[1] \in 0..13 /\ x.num[2] \in 1..9 /\ x.num[2] <= Room(n, x.num[1])
  /\ Key(x) = 10000 * (x.num[1] + 1) + 100 * x.num[2]

(* A second-level number of a known chapter says its key.                  *)
LEMMA KeyOfSub ==
  ASSUME NEW n \in 3..12, NEW x, Shape(n, x), SubOf(n, x)
  PROVE  KeySub(n, x)
BY KeyOf DEF KeySub

(* The appendix is a loose heading with the last key of all.               *)
LEMMA KeyOfAppendix ==
  ASSUME NEW n \in 3..12, NEW x, Shape(n, x), x.topic = "appendix"
  PROVE  Key(x) = 300000 /\ LooseAt(n, x)
<1>1. ~ChapterOf(n, x)
  <2>1. \A k \in 1..14 : Chapters20[k] # "appendix"
    BY DEF Chapters20
  <2>2. \A k \in 1..13 : Chapters19[k] # "appendix"
    BY DEF Chapters19
  <2>3. \A k \in 1..12 : Chapters13[k] # "appendix"
    BY DEF Chapters13
  <2>4. ASSUME ChapterOf(n, x) PROVE FALSE
    <3> DEFINE c == x.num[1]
    <3>1. c \in Nat /\ c + 1 \in 1..Len(ChapterTopics(n)) /\ ChapterTopics(n)[c + 1] = "appendix"
      BY <2>4, Tops, SMTT(20) DEF ChapterOf
    <3> HIDE DEF c
    <3> QED
      BY <2>1, <2>2, <2>3, <3>1, ChapterLists DEF ChapterTopics
  <2> QED
    BY <2>4
<1>2. ~SubOf(n, x)
  BY DEF SubOf, SubTopics
<1>3. LooseAt(n, x) /\ Place(x.topic) = 300000
  BY <1>1, <1>2 DEF Shape, Place
<1> QED
  BY <1>3, KeyOf

-----------------------------------------------------------------------------
(* The layout of a version: which headings it knows and where they stand *)

ChapterNames(n) ==
  {"overview", "architecture", "data", "keys", "calculation", "priority", "lookup", "enrolling",
   "period", "negotiated", "batch", "register"}
    \cup (IF n >= 9 THEN {"journey"} ELSE {}) \cup (IF n >= 10 THEN {"massive"} ELSE {})

Known(n) == LooseTopics(n) \cup ChapterNames(n) \cup SubTopics(n)

(* The last chapter is the register, and no other.                         *)
LEMMA ChapterNamed ==
  ASSUME NEW n \in 3..12, NEW k \in 1..Len(ChapterTopics(n))
  PROVE  /\ ChapterTopics(n)[k] \in ChapterNames(n)
         /\ ChapterTopics(n)[k] = "register" <=> k = Len(ChapterTopics(n))
<1>1. \A j \in 1..12 : /\ Chapters13[j] \in ChapterNames(8)
                       /\ Chapters13[j] = "register" <=> j = 12
  BY DEF Chapters13, ChapterNames
<1>2. \A j \in 1..13 : /\ Chapters19[j] \in ChapterNames(9)
                       /\ Chapters19[j] = "register" <=> j = 13
  BY DEF Chapters19, ChapterNames
<1>3. \A j \in 1..14 : /\ Chapters20[j] \in ChapterNames(10)
                       /\ Chapters20[j] = "register" <=> j = 14
  BY DEF Chapters20, ChapterNames
<1>4. CASE n <= 8
  <2>1. ChapterTopics(n) = Chapters13 /\ ChapterNames(n) = ChapterNames(8)
    BY <1>4 DEF ChapterTopics, ChapterNames
  <2> QED
    BY <1>1, <2>1, ChapterLists
<1>5. CASE n = 9
  <2>1. ChapterTopics(n) = Chapters19
    BY <1>5 DEF ChapterTopics
  <2> QED
    BY <1>2, <1>5, <2>1, ChapterLists
<1>6. CASE n > 9
  <2>1. ChapterTopics(n) = Chapters20 /\ ChapterNames(n) = ChapterNames(10)
    BY <1>6 DEF ChapterTopics, ChapterNames
  <2> QED
    BY <1>3, <2>1, ChapterLists
<1> QED
  BY <1>4, <1>5, <1>6

(* The topic of a heading tells its kind.                                  *)
LEMMA KindOf ==
  ASSUME NEW n \in 3..12, NEW x, Shape(n, x)
  PROVE  /\ x.topic \in Known(n)
         /\ x.topic \in LooseTopics(n) <=> LooseAt(n, x)
         /\ x.topic \in SubTopics(n) <=> SubOf(n, x)
         /\ x.topic = "register" => ChapterOf(n, x) /\ x.num[1] + 1 = Len(ChapterTopics(n))
<1>1. /\ LooseTopics(n) \cap ChapterNames(n) = {} /\ LooseTopics(n) \cap SubTopics(n) = {}
      /\ ChapterNames(n) \cap SubTopics(n) = {} /\ "register" \in ChapterNames(n)
  BY DEF LooseTopics, ChapterNames, SubTopics
<1>2. ASSUME ChapterOf(n, x)
      PROVE  /\ x.topic \in ChapterNames(n)
             /\ x.topic = "register" => x.num[1] + 1 = Len(ChapterTopics(n))
  <2> DEFINE c == x.num[1]
             top == Len(ChapterTopics(n))
  <2>1. c \in Nat /\ c < top /\ x.topic = ChapterTopics(n)[c + 1] /\ top \in Nat
    BY <1>2, Tops DEF ChapterOf
  <2> HIDE DEF c
  <2>2. c + 1 \in 1..Len(ChapterTopics(n))
    BY <2>1
  <2>3. x.topic \in ChapterNames(n) /\ (x.topic = "register" <=> c + 1 = Len(ChapterTopics(n)))
    BY <2>1, <2>2, ChapterNamed
  <2> QED
    BY <2>3 DEF c
<1>3. LooseAt(n, x) => x.topic \in LooseTopics(n)
  BY DEF LooseAt
<1>4. SubOf(n, x) => x.topic \in SubTopics(n)
  BY DEF SubOf
<1>5. LooseAt(n, x) \/ ChapterOf(n, x) \/ SubOf(n, x)
  BY DEF Shape
<1> HIDE DEF LooseAt, SubOf, ChapterOf, LooseTopics, SubTopics, ChapterNames
<1> QED
  BY <1>1, <1>2, <1>3, <1>4, <1>5 DEF Known

(* A heading and its sketch are of one kind.                               *)
LEMMA SketchIs ==
  ASSUME NEW n, NEW x \in Sec
  PROVE  /\ Sketch(x) \in SketchType
         /\ Sketch(x).level = x.level /\ Sketch(x).num = x.num /\ Sketch(x).topic = x.topic
         /\ Sketch(x).marks = x.marks /\ Key(Sketch(x)) = Key(x)
         /\ Shape(n, Sketch(x)) <=> Shape(n, x)
<1> DEFINE o == Sketch(x)
<1>1. o.level = x.level /\ o.num = x.num /\ o.topic = x.topic /\ o.marks = x.marks
  BY DEF Sketch
<1>2. o \in SketchType
  BY DEF Sketch, SketchType, Sec
<1> HIDE DEF o
<1>3. Key(o) = Key(x)
  BY <1>1 DEF Key
<1>4. Shape(n, o) <=> Shape(n, x)
  BY <1>1 DEF Shape, Noted, LooseAt, ChapterOf, SubOf
<1> QED
  BY <1>1, <1>2, <1>3, <1>4 DEF o

(* Every heading of a body has the shape of its sketch.                    *)
LEMMA LayoutAt ==
  ASSUME NEW n, NEW body, Layout(n, body), NEW i \in 1..Len(body)
  PROVE  /\ body[i] \in Sec /\ Shape(n, body[i]) /\ Sketch(body[i]) \in Outline(body)
<1>1. body \in Seq(Sec) /\ DOMAIN body = 1..Len(body)
  BY LenProperties DEF Layout
<1>2. body[i] \in Sec /\ Sketch(body[i]) \in Outline(body)
  BY <1>1, OutlineIs
<1>3. Shape(n, Sketch(body[i]))
  BY <1>2 DEF Layout, Drawn
<1> QED
  BY <1>2, <1>3, SketchIs

-----------------------------------------------------------------------------
(* Adding a section *)

(* What was of a shape stays so while sections are added.                  *)
LEMMA ShapeGrows ==
  ASSUME NEW n \in 3..7, NEW x, Shape(n, x)
  PROVE  Shape(n + 1, x)
<1>1. ChapterTopics(n + 1) = ChapterTopics(n)
  BY DEF ChapterTopics
<1>2. LooseTopics(n) \subseteq LooseTopics(n + 1)
  BY DEF LooseTopics
<1>3. SubTopics(n) \subseteq SubTopics(n + 1)
  BY DEF SubTopics
<1>4. LooseAt(n, x) => LooseAt(n + 1, x)
  BY <1>2 DEF LooseAt
<1>5. ChapterOf(n, x) => ChapterOf(n + 1, x)
  BY <1>1 DEF ChapterOf
<1>6. ASSUME SubOf(n, x) PROVE SubOf(n + 1, x)
  <2> DEFINE c == x.num[1]
             k == x.num[2]
  <2>1. c \in Nat /\ k \in Nat /\ k <= Room(n, c)
    BY <1>6 DEF SubOf
  <2> HIDE DEF c, k
  <2>2. Room(n, c) <= Room(n + 1, c) /\ Room(n, c) \in Nat /\ Room(n + 1, c) \in Nat
    BY <1>1, <2>1 DEF Room
  <2>3. k <= Room(n + 1, c)
    BY <2>1, <2>2
  <2> QED
    BY <1>1, <1>3, <1>6, <2>3 DEF SubOf, c, k
<1>7. Noted(n + 1, x)
  BY DEF Shape, Noted
<1> QED
  BY <1>4, <1>5, <1>6, <1>7 DEF Shape

(* A number that no section has yet.                                       *)
LEMMA Slot ==
  ASSUME NEW n \in 4..7, NEW c \in {1, 10}, NEW x, Shape(n, x), Key(x) < 10000 * (c + 2)
  PROVE  Key(x) < 10000 * (c + 1) + 100 * (Room(n, c) + 1)
<1>1. Room(n, c) \in 0..9
  BY Rooms
<1>2. CASE LooseAt(n, x)
  <2>1. x.topic = "appendix" \/ Key(x) < 8
    BY <1>2, KeyOf
  <2>2. x.topic = "appendix" => Key(x) = 300000
    BY KeyOfAppendix
  <2>3. Key(x) \in Int
    BY KeyOf
  <2> QED
    BY <1>1, <2>1, <2>2, <2>3
<1>3. CASE ChapterOf(n, x)
  <2> DEFINE a == x.num[1]
  <2>1. a \in 0..13 /\ Key(x) = 10000 * (a + 1)
    BY <1>3, KeyOf
  <2> HIDE DEF a
  <2> QED
    BY <1>1, <2>1
<1>4. CASE SubOf(n, x)
  <2> DEFINE a == x.num[1]
             b == x.num[2]
  <2>1. a \in 0..13 /\ b \in 1..9 /\ b <= Room(n, a) /\ Key(x) = 10000 * (a + 1) + 100 * b
    BY <1>4, KeyOf
  <2> HIDE DEF a, b
  <2> QED
    BY <1>1, <2>1
<1> QED
  BY <1>2, <1>3, <1>4 DEF Shape

(* What has the next free number of a chapter.                             *)
NextIn(n, c, new) == \A y \in ToSet(new) : Key(y) = 10000 * (c + 1) + 100 * (Room(n, c) + 1)

(* The heading of a chapter.                                               *)
Leads(x, c) == Key(x) = 10000 * (c + 1)

(* A one-part number leads to its chapter.                                 *)
LEMMA LeadsIs ==
  ASSUME NEW c \in Nat, NEW x, x.num = <<c>>
  PROVE  Leads(x, c)
<1> DEFINE num == <<c>>
<1>1. Len(num) = 1 /\ num[1] = c /\ num # <<>>
  OBVIOUS
<1>2. x.num = num
  OBVIOUS
<1> HIDE DEF num
<1>3. Height(num) = 10000 * (c + 1)
  BY <1>1 DEF Height, Second, Third
<1> QED
  BY <1>1, <1>2, <1>3 DEF Key, Leads

(* One more section at the end of a chapter, before the next chapter.      *)
LEMMA SectionAdded ==
  ASSUME NEW n \in 4..7, NEW body, Layout(n, body), NEW c \in {1, 10}, NEW i \in 1..Len(body),
         Leads(body[i], c + 1), NEW new \in Seq(Sec), Rising(new), NextIn(n, c, new)
  PROVE  /\ Before(body, i, new) \in Seq(Sec) /\ Rising(Before(body, i, new))
         /\ Outline(Before(body, i, new)) = Outline(body) \cup Outline(new)
<1>1. body \in Seq(Sec) /\ Rising(body)
  BY DEF Layout
<1>2. Key(body[i]) = 10000 * (c + 2)
  BY DEF Leads
<1> DEFINE key == 10000 * (c + 1) + 100 * (Room(n, c) + 1)
<1>3. key \in Int /\ key < 10000 * (c + 2)
  <2> DEFINE room == Room(n, c)
  <2>1. c \in Nat /\ n \in 3..12
    OBVIOUS
  <2>2. room \in 0..9
    BY <2>1, Rooms
  <2> HIDE DEF room
  <2>3. 10000 * (c + 1) + 100 * (room + 1) \in Int
           /\ 10000 * (c + 1) + 100 * (room + 1) < 10000 * (c + 2)
    BY <2>1, <2>2
  <2> QED
    BY <2>3 DEF room
<1>4. ASSUME NEW k \in 1..Len(body)
      PROVE  /\ k < i => Key(body[k]) < key
             /\ i <= k => key < Key(body[k])
  <2>1. Shape(n, body[k])
    BY LayoutAt
  <2>2. Key(body[k]) \in Int
    BY <2>1, KeyOf, SMTT(20)
  <2>3. /\ k < i <=> Key(body[k]) < Key(body[i])
        /\ i <= k <=> Key(body[i]) <= Key(body[k])
    BY <1>1, RisingOrder
  <2>4. Key(body[k]) < 10000 * (c + 2) => Key(body[k]) < key
    BY <2>1, Slot
  <2> HIDE DEF key
  <2> QED
    BY <1>2, <1>3, <2>2, <2>3, <2>4 DEF Leads
<1>5. \A k \in 1..(i - 1) : \A y \in ToSet(new) : Key(body[k]) < Key(y)
  BY <1>4 DEF NextIn
<1>6. \A k \in i..Len(body) : \A y \in ToSet(new) : Key(y) < Key(body[k])
  BY <1>4 DEF NextIn
<1>7. i \in 1..(Len(body) + 1)
  BY <1>1, LenProperties
<1> QED
  BY <1>1, <1>5, <1>6, <1>7, InsertedIs

(* One more heading, of a topic the outline has not.                       *)
LEMMA DrawnGrows ==
  ASSUME NEW n \in 5..7, NEW outline, Drawn(n, outline), NEW o, Shape(n + 1, o),
         o.topic \notin Known(n)
  PROVE  Drawn(n + 1, outline \cup {o})
<1> DEFINE more == outline \cup {o}
<1>1. \A x \in outline : Shape(n, x)
  BY DEF Drawn
<1>2. \A x \in outline : Shape(n + 1, x) /\ x.topic \in Known(n)
  BY <1>1, ShapeGrows, KindOf
<1>3. \A x \in more : Shape(n + 1, x)
  BY <1>2
<1>4. OneEach(more)
  BY <1>2 DEF OneEach, Drawn
<1>5. Complete(n + 1, more)
  <2>1. LooseTopics(n + 1) = LooseTopics(n) /\ ChapterTopics(n + 1) = ChapterTopics(n)
    BY DEF LooseTopics, ChapterTopics
  <2>2. Complete(n, outline)
    BY DEF Drawn
  <2>3. outline \subseteq more
    OBVIOUS
  <2> HIDE DEF more
  <2> QED
    BY <2>1, <2>2, <2>3 DEF Complete
<1> QED
  BY <1>3, <1>4, <1>5 DEF Drawn

-----------------------------------------------------------------------------
(* New sections *)

(* A number and a subject make a reference.                                *)
LEMMA RefIs ==
  ASSUME NEW num \in Seq(Nat), NEW to \in Topic
  PROVE  Ref(num, to) \in Cite
BY DEF Ref, Cite

(* A sequence of one section.                                              *)
Single(new, o) == new \in Seq(Sec) /\ Rising(new) /\ Outline(new) = {o}

(* One section is a rising body with that one heading for an outline.      *)
LEMMA SingleIs ==
  ASSUME NEW level \in Nat, NEW num \in Seq(Nat), NEW topic \in Topic
  PROVE  Single(<<Section(level, num, topic)>>,
                [level |-> level, num |-> num, topic |-> topic, marks |-> {}])
<1> DEFINE x == Section(level, num, topic)
           s == <<x>>
<1>1. x \in Sec /\ Sketch(x) = [level |-> level, num |-> num, topic |-> topic, marks |-> {}]
  BY SectionIs
<1> HIDE DEF x
<1>2. s \in Seq(Sec) /\ Len(s) = 1 /\ DOMAIN s = 1..1 /\ s[1] = x
  BY <1>1
<1> HIDE DEF s
<1>3. Rising(s)
  BY <1>2 DEF Rising
<1>4. Outline(s) = {Sketch(x)}
  BY <1>2 DEF Outline
<1> QED
  BY <1>1, <1>2, <1>3, <1>4 DEF Single, s, x

(* It stays one with marks and references.                                 *)
LEMMA SingleMarked ==
  ASSUME NEW new, NEW o, Single(new, o), NEW marks \in SUBSET Mark, NEW refs \in SUBSET Cite
  PROVE  /\ Single(Citing(new, o.topic, refs), o)
         /\ Single(Marking(new, o.topic, marks), [o EXCEPT !.marks = @ \cup marks])
<1>1. Single(Citing(new, o.topic, refs), o)
  BY CitingIs DEF Single
<1>2. Outline(Marking(new, o.topic, marks)) = {[o EXCEPT !.marks = @ \cup marks]}
  BY MarkingIs DEF Single
<1> QED
  BY <1>1, <1>2, MarkingIs DEF Single

NewScale == Citing(<<Section(2, <<10, 3>>, "scale")>>, "scale",
                   {Ref(<<10, 1>>, "full"), Ref(<<10, 2>>, "incremental")})

NewHead(c, k, topic, marks) == [level |-> 2, num |-> <<c, k>>, topic |-> topic, marks |-> marks]

(* The sections the scripts of v1.5 to v1.8 add.                           *)
LEMMA NewSections ==
  /\ Single(NewScale, NewHead(10, 3, "scale", {}))
  /\ Single(<<Section(2, <<1, 4>>, "storage")>>, NewHead(1, 4, "storage", {}))
  /\ Single(V17Candidates, NewHead(10, 4, "candidates", {"indexPara"}))
  /\ Single(V18Physical, NewHead(10, 5, "physical",
              {"physIntro", "figure", "keysHead", "keyGrowth", "storedTable"}))
<1>1. ASSUME NEW c \in Nat, NEW k \in Nat, NEW topic \in Topic, NEW marks \in SUBSET Mark,
             NEW refs \in SUBSET Cite
      PROVE  LET s == <<Section(2, <<c, k>>, topic)>>
             IN  /\ Single(s, NewHead(c, k, topic, {}))
                 /\ Single(Citing(s, topic, refs), NewHead(c, k, topic, {}))
                 /\ Single(Marking(Citing(s, topic, refs), topic, marks),
                    NewHead(c, k, topic, marks))
  <2> DEFINE num == <<c, k>>
             s == <<Section(2, num, topic)>>
             o == NewHead(c, k, topic, {})
             t == Citing(s, topic, refs)
  <2>1. num \in Seq(Nat) /\ o = [level |-> 2, num |-> num, topic |-> topic, marks |-> {}]
    BY DEF NewHead
  <2> HIDE DEF num
  <2>2. Single(s, o) /\ o.topic = topic
    BY <2>1, SingleIs
  <2>3. [o EXCEPT !.marks = @ \cup marks] = NewHead(c, k, topic, marks)
    BY <2>1 DEF NewHead, num
  <2> HIDE DEF o, s
  <2>4. Single(t, o)
    BY <2>2, SingleMarked
  <2> HIDE DEF t
  <2>5. Single(Marking(t, topic, marks), [o EXCEPT !.marks = @ \cup marks])
    BY <2>2, <2>4, SingleMarked
  <2> QED
    BY <2>2, <2>3, <2>4, <2>5 DEF t, s, num, o
<1>2. /\ {"scale", "storage", "candidates", "physical"} \subseteq Topic
      /\ {"indexPara"} \subseteq Mark
      /\ {"physIntro", "figure", "keysHead", "keyGrowth", "storedTable"} \subseteq Mark
      /\ {"full", "incremental", "ranking", "scale"} \subseteq Topic
  BY DEF Topic, Mark
<1>3. /\ Ref(<<10, 1>>, "full") \in Cite /\ Ref(<<10, 2>>, "incremental") \in Cite
      /\ Ref(<<5, 1>>, "ranking") \in Cite /\ Ref(<<10, 3>>, "scale") \in Cite
  <2>1. ASSUME NEW a \in Nat, NEW b \in Nat, NEW t \in Topic PROVE Ref(<<a, b>>, t) \in Cite
    <3>1. <<a, b>> \in Seq(Nat)
      OBVIOUS
    <3> QED
      BY <3>1, RefIs
  <2>2. 10 \in Nat /\ 1 \in Nat /\ 2 \in Nat /\ 3 \in Nat /\ 5 \in Nat
    OBVIOUS
  <2> QED
    BY <1>2, <2>1, <2>2
<1>4. Single(NewScale, NewHead(10, 3, "scale", {}))
  <2> DEFINE refs == {Ref(<<10, 1>>, "full"), Ref(<<10, 2>>, "incremental")}
  <2>1. refs \in SUBSET Cite /\ 10 \in Nat /\ 3 \in Nat /\ "scale" \in Topic /\ {} \in SUBSET Mark
    BY <1>2, <1>3
  <2> HIDE DEF refs
  <2>2. Single(Citing(<<Section(2, <<10, 3>>, "scale")>>, "scale", refs),
           NewHead(10, 3, "scale", {}))
    BY <1>1, <2>1
  <2> QED
    BY <2>2 DEF refs, NewScale
<1>5. Single(<<Section(2, <<1, 4>>, "storage")>>, NewHead(1, 4, "storage", {}))
  <2>1. {} \in SUBSET Cite /\ 1 \in Nat /\ 4 \in Nat /\ "storage" \in Topic /\ {} \in SUBSET Mark
    BY <1>2
  <2> QED
    BY <1>1, <2>1
<1>6. Single(V17Candidates, NewHead(10, 4, "candidates", {"indexPara"}))
  <2> DEFINE refs == {Ref(<<5, 1>>, "ranking"), Ref(<<10, 3>>, "scale")}
  <2>1. /\ refs \in SUBSET Cite /\ 10 \in Nat /\ 4 \in Nat /\ "candidates" \in Topic
        /\ {"indexPara"} \in SUBSET Mark
    BY <1>2, <1>3
  <2> HIDE DEF refs
  <2>2. Single(Marking(Citing(<<Section(2, <<10, 4>>, "candidates")>>, "candidates", refs),
                       "candidates", {"indexPara"}), NewHead(10, 4, "candidates", {"indexPara"}))
    BY <1>1, <2>1
  <2> QED
    BY <2>2 DEF refs, V17Candidates
<1>7. Single(V18Physical, NewHead(10, 5, "physical",
               {"physIntro", "figure", "keysHead", "keyGrowth", "storedTable"}))
  <2> DEFINE refs == {Ref(<<10, 3>>, "scale")}
             marks == {"physIntro", "figure", "keysHead", "keyGrowth", "storedTable"}
  <2>1. refs \in SUBSET Cite /\ 10 \in Nat /\ 5 \in Nat /\ "physical" \in Topic
           /\ marks \in SUBSET Mark
    BY <1>2, <1>3
  <2> HIDE DEF refs, marks
  <2>2. Single(Marking(Citing(<<Section(2, <<10, 5>>, "physical")>>, "physical", refs),
                       "physical", marks), NewHead(10, 5, "physical", marks))
    BY <1>1, <2>1
  <2> QED
    BY <2>2 DEF refs, marks, V18Physical
<1> QED
  BY <1>4, <1>5, <1>6, <1>7

-----------------------------------------------------------------------------
(* v1.4, v1.6, v1.7 and v1.8: one section each, at most *)

(* Behind the register stands nothing but the appendix.                    *)
LEMMA KeyBelow ==
  ASSUME NEW n \in 3..12, NEW x, Shape(n, x)
  PROVE  /\ x.topic # "appendix" => Key(x) <= 10000 * Len(ChapterTopics(n)) /\ Key(x) < 150000
         /\ x.topic = "register" => Key(x) = 10000 * Len(ChapterTopics(n))
<1> DEFINE top == Len(ChapterTopics(n))
<1>1. top \in 12..14
  BY Tops
<1>2. CASE LooseAt(n, x)
  <2>1. x.topic = "appendix" \/ Key(x) < 8
    BY <1>2, KeyOf
  <2>2. Key(x) \in Int /\ x.topic # "register"
    BY <1>2, KeyOf DEF LooseAt, LooseTopics
  <2> HIDE DEF top
  <2>3. x.topic # "appendix" => Key(x) <= 10000 * top /\ Key(x) < 150000
    BY <1>1, <2>1, <2>2
  <2> QED
    BY <2>2, <2>3 DEF top
<1>3. CASE ChapterOf(n, x)
  <2> DEFINE a == x.num[1]
  <2>4. a < top
    BY <1>3 DEF ChapterOf
  <2>5. a \in 0..13 /\ Key(x) = 10000 * (a + 1)
    BY <1>3, KeyOf
  <2>1. a \in 0..13 /\ Key(x) = 10000 * (a + 1) /\ a < top
    BY <2>4, <2>5
  <2>2. x.topic = "register" => a + 1 = top
    BY KindOf
  <2> HIDE DEF a, top
  <2>3. Key(x) <= 10000 * top /\ Key(x) < 150000 /\ (a + 1 = top => Key(x) = 10000 * top)
    BY <1>1, <2>1
  <2> QED
    BY <2>2, <2>3 DEF top
<1>4. CASE SubOf(n, x)
  <2> DEFINE a == x.num[1]
             b == x.num[2]
  <2>1. a \in 0..13 /\ b \in 1..9 /\ b <= Room(n, a) /\ Key(x) = 10000 * (a + 1) + 100 * b
    BY <1>4, KeyOf
  <2>2. a < top
    BY <1>4 DEF SubOf
  <2>3. a + 1 = top => Room(n, a) = 0
    BY DEF Room
  <2>4. x.topic # "register"
    BY <1>4 DEF SubOf, SubTopics
  <2> HIDE DEF a, b, top
  <2>5. a + 1 # top
    BY <2>1, <2>3
  <2>6. Key(x) <= 10000 * top /\ Key(x) < 150000
    BY <1>1, <2>1, <2>2, <2>5
  <2> QED
    BY <2>4, <2>6 DEF top
<1> QED
  BY <1>2, <1>3, <1>4 DEF Shape

(* The topics of a body are the topics its age knows.                      *)
LEMMA TopicsKnown ==
  ASSUME NEW n \in 3..12, NEW body, Layout(n, body)
  PROVE  Topics(body) \subseteq Known(n) /\ LooseTopics(n) \subseteq Topics(body)
<1>1. Topics(body) = {o.topic : o \in Outline(body)}
  BY OutlineIs DEF Layout
<1>2. \A o \in Outline(body) : Shape(n, o)
  BY DEF Layout, Drawn
<1>3. \A o \in Outline(body) : o.topic \in Known(n)
  BY <1>2, KindOf
<1>4. \A topic \in LooseTopics(n) : \E x \in Outline(body) : x.topic = topic
  BY DEF Layout, Drawn, Complete
<1> QED
  BY <1>1, <1>3, <1>4

(* One script's section before the next chapter's heading.                 *)
LEMMA GrowsBy ==
  ASSUME NEW n \in 5..7, NEW body, Layout(n, body), NEW c \in {1, 10}, NEW i \in 1..Len(body),
         Leads(body[i], c + 1), NEW k, k = Room(n, c) + 1, NEW topic, NEW marks,
         topic \in SubTopics(n + 1), topic \notin Known(n), k <= Room(n + 1, c),
         marks \cap {"perStock", "axisTable", "end", "eightAxes"} = {},
         NEW new, Single(new, NewHead(c, k, topic, marks))
  PROVE  /\ Layout(n + 1, Before(body, i, new))
         /\ Topics(Before(body, i, new)) = Topics(body) \cup {topic}
<1> DEFINE o == NewHead(c, k, topic, marks)
           more == Before(body, i, new)
<1>1. k \in 1..9 /\ k = Room(n, c) + 1
  <2> DEFINE room == Room(n, c)
             more9 == Room(n + 1, c)
  <2>1. n \in 3..12 /\ n + 1 \in 3..12 /\ c \in Nat
    OBVIOUS
  <2>2. room \in 0..9 /\ more9 \in 0..9
    BY <2>1, Rooms
  <2>3. k = room + 1 /\ k <= more9
    OBVIOUS
  <2> HIDE DEF room, more9
  <2>4. k \in 1..9
    BY <2>2, <2>3
  <2> QED
    BY <2>4
<1>2. o.level = 2 /\ o.topic = topic /\ o.marks = marks /\ o.num = <<c, k>>
  BY DEF NewHead
<1>3. Len(o.num) = 2 /\ o.num \in Seq(Nat) /\ o.num[1] = c /\ o.num[2] = k /\ o.num # <<>>
  <2> DEFINE num == <<c, k>>
  <2>1. Len(num) = 2 /\ num \in Seq(Nat) /\ num[1] = c /\ num[2] = k /\ num # <<>>
    BY <1>1
  <2> QED
    BY <1>2, <2>1
<1> HIDE DEF o
<1>4. Shape(n + 1, o)
  <2>1. Noted(n + 1, o)
    BY <1>2 DEF Noted
  <2>2. c < Len(ChapterTopics(n + 1))
    <3> DEFINE top == Len(ChapterTopics(n + 1))
    <3>1. n + 1 \in 3..12
      OBVIOUS
    <3>2. top \in 12..14
      BY <3>1, Tops
    <3> HIDE DEF top
    <3>3. c < top
      BY <3>2
    <3> QED
      BY <3>3 DEF top
  <2>3. SubOf(n + 1, o)
    BY <1>1, <1>2, <1>3, <2>2 DEF SubOf
  <2> QED
    BY <1>3, <2>1, <2>3 DEF Shape
<1>5. Key(o) = 10000 * (c + 1) + 100 * k
  BY <1>1, <1>3 DEF Key, Height, Second, Third
<1>6. new \in Seq(Sec) /\ Rising(new) /\ Outline(new) = {o}
  BY DEF Single, o
<1>7. NextIn(n, c, new)
  <2>1. ASSUME NEW y \in ToSet(new) PROVE Key(y) = Key(o)
    <3>1. y \in Sec /\ Sketch(y) = o
      BY <1>6, OutlineIs, Members
    <3> QED
      BY <3>1, SketchIs
  <2>2. Key(o) = 10000 * (c + 1) + 100 * (Room(n, c) + 1)
    BY <1>1, <1>5
  <2> QED
    BY <2>1, <2>2 DEF NextIn
<1>8. /\ more \in Seq(Sec) /\ Rising(more) /\ Outline(more) = Outline(body) \cup {o}
  <2>1. n \in 4..7
    OBVIOUS
  <2> QED
    BY <1>6, <1>7, <2>1, SectionAdded
<1> HIDE DEF more
<1>9. Drawn(n + 1, Outline(more))
  BY <1>2, <1>4, <1>8, DrawnGrows DEF Layout
<1>10. Layout(n + 1, more)
  BY <1>8, <1>9 DEF Layout
<1>11. Topics(more) = Topics(body) \cup {topic}
  <2>1. /\ Topics(more) = {p.topic : p \in Outline(more)}
        /\ Topics(body) = {p.topic : p \in Outline(body)}
    BY <1>8, OutlineIs DEF Layout
  <2> QED
    BY <1>2, <1>8, <2>1
<1> QED
  BY <1>10, <1>11 DEF more

(* References are not seen in an outline.                                  *)
LEMMA LayoutCited ==
  ASSUME NEW n, NEW body, Layout(n, body), NEW mark, NEW refs \in SUBSET Cite
  PROVE  /\ Layout(n, CitingAt(body, mark, refs))
         /\ Topics(CitingAt(body, mark, refs)) = Topics(body)
<1>1. body \in Seq(Sec)
  BY DEF Layout
<1>2. /\ CitingAt(body, mark, refs) \in Seq(Sec)
         /\ Outline(CitingAt(body, mark, refs)) = Outline(body)
      /\ Rising(CitingAt(body, mark, refs))
  BY <1>1, CitingAtIs DEF Layout
<1> QED
  BY <1>1, <1>2, OutlineIs DEF Layout

(* v1.4 takes the layout of v1.3 to its own and leaves the body alone.     *)
LEMMA LayoutOf14 ==
  ASSUME NEW d, Fields(d), Layout(3, d.body)
  PROVE  Layout(4, V14(d).body) /\ V14(d).body = d.body
<1>1. V14(d).body = d.body
  BY DEF V14, Fields
<1> DEFINE outline == Outline(d.body)
<1>2. \A x \in outline : Shape(3, x)
  BY DEF Layout, Drawn
<1>3. ASSUME NEW x \in outline PROVE Shape(4, x)
  <2>1. 3 \in 3..7 /\ 4 = 3 + 1
    OBVIOUS
  <2> QED
    BY <1>2, <2>1, ShapeGrows
<1>4. LooseTopics(4) = LooseTopics(3) /\ ChapterTopics(4) = ChapterTopics(3)
  BY DEF LooseTopics, ChapterTopics
<1>5. Complete(4, outline)
  BY <1>4 DEF Layout, Drawn, Complete
<1> QED
  BY <1>1, <1>3, <1>5 DEF Layout, Drawn

(* v1.6 adds the storage section at its anchor and takes the layout of     *)
(* v1.5 to its own.                                                        *)
LEMMA LayoutOf16 ==
  ASSUME NEW d, Fields(d), Layout(5, d.body), Anchored16(d)
  PROVE  Layout(6, V16(d).body) /\ Topics(V16(d).body) = Topics(d.body) \cup {"storage"}
<1> DEFINE i == Heading(d.body, <<2>>, "data")
           new == <<Section(2, <<1, 4>>, "storage")>>
           body == Before(d.body, i, new)
           refs == {Ref(<<1, 4>>, "storage")}
<1>1. V16(d).body = CitingAt(body, "noRow", refs)
  BY DEF V16, Fields
<1>2. i \in 1..Len(d.body) /\ Leads(d.body[i], 1 + 1)
  <2>1. i \in 1..Len(d.body) /\ d.body[i].num = <<2>>
    BY HeadingIs DEF Anchored16, Holds, Layout
  <2>2. 2 \in Nat /\ 1 + 1 = 2
    OBVIOUS
  <2> QED
    BY <2>1, <2>2, LeadsIs
<1>3. Single(new, NewHead(1, 4, "storage", {}))
  BY NewSections
<1>4. Room(5, 1) = 3 /\ Room(6, 1) = 4
  BY Tops DEF Room
<1>5. "storage" \in SubTopics(6) /\ "storage" \notin Known(5)
  BY DEF SubTopics, Known, LooseTopics, ChapterNames
<1>6. refs \in SUBSET Cite
  <2>1. <<1, 4>> \in Seq(Nat) /\ "storage" \in Topic
    BY DEF Topic
  <2> QED
    BY <2>1, RefIs
<1> HIDE DEF i, new
<1>7. Layout(6, body) /\ Topics(body) = Topics(d.body) \cup {"storage"}
  <2>1. 5 \in 5..7 /\ 1 \in {1, 10} /\ 4 = Room(5, 1) + 1 /\ 6 = 5 + 1 /\ 4 <= Room(6, 1)
    BY <1>4
  <2> QED
    BY <1>2, <1>3, <1>5, <2>1, GrowsBy
<1> HIDE DEF body, refs
<1> QED
  BY <1>1, <1>6, <1>7, LayoutCited

(* v1.7 adds the candidates section at its anchor and takes the layout of  *)
(* v1.6 to its own.                                                        *)
LEMMA LayoutOf17 ==
  ASSUME NEW d, Fields(d), Layout(6, d.body), Anchored17(d)
  PROVE  Layout(7, V17(d).body) /\ Topics(V17(d).body) = Topics(d.body) \cup {"candidates"}
<1> DEFINE i == Heading(d.body, <<11>>, "register")
           body == Before(d.body, i, V17Candidates)
<1>1. V17(d).body = body
  BY DEF V17, Fields
<1>2. i \in 1..Len(d.body) /\ Leads(d.body[i], 10 + 1)
  <2>1. i \in 1..Len(d.body) /\ d.body[i].num = <<11>>
    BY HeadingIs DEF Anchored17, Holds, Layout
  <2>2. 11 \in Nat /\ 10 + 1 = 11
    OBVIOUS
  <2> QED
    BY <2>1, <2>2, LeadsIs
<1>3. Single(V17Candidates, NewHead(10, 4, "candidates", {"indexPara"}))
  BY NewSections
<1>4. Room(6, 10) = 3 /\ Room(7, 10) = 4
  BY Tops DEF Room
<1>5. "candidates" \in SubTopics(7) /\ "candidates" \notin Known(6)
  BY DEF SubTopics, Known, LooseTopics, ChapterNames
<1> HIDE DEF i
<1>7. Layout(7, body) /\ Topics(body) = Topics(d.body) \cup {"candidates"}
  <2>1. 6 \in 5..7 /\ 10 \in {1, 10} /\ 4 = Room(6, 10) + 1 /\ 7 = 6 + 1 /\ 4 <= Room(7, 10)
    BY <1>4
  <2>2. {"indexPara"} \cap {"perStock", "axisTable", "end", "eightAxes"} = {}
    OBVIOUS
  <2> QED
    BY <1>2, <1>3, <1>5, <2>1, <2>2, GrowsBy
<1> QED
  BY <1>1, <1>7

(* v1.8 adds the physical section at its anchor and takes the layout of    *)
(* v1.7 to its own.                                                        *)
LEMMA LayoutOf18 ==
  ASSUME NEW d, Fields(d), Layout(7, d.body), Anchored18(d)
  PROVE  Layout(8, V18(d).body) /\ Topics(V18(d).body) = Topics(d.body) \cup {"physical"}
<1> DEFINE refs == {Ref(<<10, 5>>, "physical")}
           old == CitingAt(d.body, "indexPara", refs)
           i == Heading(old, <<11>>, "register")
           body == Before(old, i, V18Physical)
           marks == {"physIntro", "figure", "keysHead", "keyGrowth", "storedTable"}
<1>1. V18(d).body = body
  BY DEF V18, Fields
<1>6. refs \in SUBSET Cite
  <2>1. <<10, 5>> \in Seq(Nat) /\ "physical" \in Topic
    BY DEF Topic
  <2> QED
    BY <2>1, RefIs
<1> HIDE DEF refs
<1>7. Layout(7, old) /\ Topics(old) = Topics(d.body)
  BY <1>6, LayoutCited
<1>8. old \in Seq(Sec) /\ Outline(old) = Outline(d.body)
  BY <1>6, CitingAtIs DEF Layout
<1> HIDE DEF old
<1>2. i \in 1..Len(old) /\ Leads(old[i], 10 + 1)
  <2>1. d.body \in Seq(Sec)
    BY DEF Layout
  <2>2. \E j \in 1..Len(d.body) : d.body[j].num = <<11>> /\ d.body[j].topic = "register"
    BY <2>1, HeadingIs DEF Anchored18, Holds
  <2>3. \E o \in Outline(old) : o.num = <<11>> /\ o.topic = "register"
    <3>1. PICK j \in 1..Len(d.body) : d.body[j].num = <<11>> /\ d.body[j].topic = "register"
      BY <2>2
    <3>2. d.body[j] \in Sec /\ Sketch(d.body[j]) \in Outline(old)
      BY <1>8, LayoutAt
    <3> QED
      BY <3>1, <3>2, SketchIs
  <2>4. \E j \in 1..Len(old) : old[j].num = <<11>> /\ old[j].topic = "register"
    <3>1. PICK j \in DOMAIN old : Sketch(old[j]).num = <<11>> /\ Sketch(old[j]).topic = "register"
      BY <2>3 DEF Outline
    <3>2. j \in 1..Len(old) /\ old[j] \in Sec
      BY <1>8, LenProperties, ElementOfSeq
    <3> QED
      BY <3>1, <3>2, SketchIs
  <2>5. i \in 1..Len(old) /\ old[i].num = <<11>>
    BY <1>8, <2>4, HeadingIs
  <2>6. 11 \in Nat /\ 10 + 1 = 11
    OBVIOUS
  <2> QED
    BY <2>5, <2>6, LeadsIs
<1>3. Single(V18Physical, NewHead(10, 5, "physical", marks))
  BY NewSections
<1>4. Room(7, 10) = 4 /\ Room(8, 10) = 5
  BY Tops DEF Room
<1>5. "physical" \in SubTopics(8) /\ "physical" \notin Known(7)
  BY DEF SubTopics, Known, LooseTopics, ChapterNames
<1>9. marks \cap {"perStock", "axisTable", "end", "eightAxes"} = {}
  OBVIOUS
<1> HIDE DEF i, marks
<1>10. Layout(8, body) /\ Topics(body) = Topics(old) \cup {"physical"}
  <2>1. 7 \in 5..7 /\ 10 \in {1, 10} /\ 5 = Room(7, 10) + 1 /\ 8 = 7 + 1 /\ 5 <= Room(8, 10)
    BY <1>4
  <2> QED
    BY <1>2, <1>3, <1>5, <1>7, <1>9, <2>1, GrowsBy
<1> HIDE DEF body
<1> QED
  BY <1>1, <1>7, <1>10

-----------------------------------------------------------------------------
(* v1.5: a section and the appendix *)

(* The appendix is one loose heading that carries the mark of the end.     *)
LEMMA AppendixIs ==
  Single(Appendix, [level |-> 1, num |-> <<>>, topic |-> "appendix", marks |-> {"end"}])
<1> DEFINE num == <<>>
           o == [level |-> 1, num |-> num, topic |-> "appendix", marks |-> {}]
           s == <<Section(1, num, "appendix")>>
<1>1. num \in Seq(Nat) /\ "appendix" \in Topic /\ {"end"} \in SUBSET Mark /\ {} \in SUBSET Cite
  BY EmptySeq DEF Topic, Mark
<1>2. Appendix = Marking(s, "appendix", {"end"})
  BY DEF Appendix, Unnumbered
<1> HIDE DEF num
<1>3. Single(s, o) /\ o.topic = "appendix"
  BY <1>1, SingleIs
<1>4. [o EXCEPT !.marks = @ \cup {"end"}] =
        [level |-> 1, num |-> num, topic |-> "appendix", marks |-> {"end"}]
  OBVIOUS
<1> HIDE DEF o, s
<1>5. Single(Marking(s, "appendix", {"end"}), [o EXCEPT !.marks = @ \cup {"end"}])
  BY <1>1, <1>3, SingleMarked
<1> QED
  BY <1>2, <1>4, <1>5 DEF num

(* The end mark is at the register, behind everything.                     *)
LEMMA EndIsLast ==
  ASSUME NEW body \in Seq(Sec), Rising(body),
         \A x \in Outline(body) : Shape(5, x) /\ x.topic # "appendix",
         \A x \in Outline(body) : "end" \in x.marks => x.topic = "register",
         FirstWith(body, "end") # 0
  PROVE  FirstWith(body, "end") = Len(body)
<1> DEFINE i == FirstWith(body, "end")
           top == Len(ChapterTopics(5))
<1>1. i \in 1..Len(body) /\ "end" \in body[i].marks
  BY FirstWithIs
<1>0. top = 12
  <2>1. 5 \in 3..12
    OBVIOUS
  <2> QED
    BY <2>1, Tops
<1> HIDE DEF i, top
<1>2. ASSUME NEW k \in 1..Len(body)
      PROVE  Key(body[k]) <= 120000 /\ Key(body[k]) \in Int
  <2>1. body[k] \in Sec /\ Sketch(body[k]) \in Outline(body)
    BY LenProperties, OutlineIs
  <2>2. Shape(5, body[k]) /\ body[k].topic # "appendix"
    BY <2>1, SketchIs
  <2>3. 5 \in 3..12
    OBVIOUS
  <2>5. Key(body[k]) <= 10000 * top
    BY <2>2, <2>3, KeyBelow DEF top
  <2>6. Key(body[k]) \in Int
    BY <2>2, <2>3, KeyOf
  <2> QED
    BY <1>0, <2>5, <2>6
<1>3. Key(body[i]) = 120000
  <2>1. body[i] \in Sec /\ Sketch(body[i]) \in Outline(body)
    BY <1>1, LenProperties, OutlineIs
  <2>2. Shape(5, body[i]) /\ body[i].topic = "register"
    BY <1>1, <2>1, SketchIs
  <2>3. 5 \in 3..12
    OBVIOUS
  <2>5. Key(body[i]) = 10000 * top
    BY <2>2, <2>3, KeyBelow DEF top
  <2> QED
    BY <1>0, <2>5
<1>4. i = Len(body)
  <2>1. ASSUME i # Len(body) PROVE FALSE
    <3>1. i + 1 \in 1..Len(body) /\ i < i + 1
      BY <1>1, <2>1
    <3>2. Key(body[i]) < Key(body[i + 1])
      BY <1>1, <3>1 DEF Rising
    <3> QED
      BY <1>2, <1>3, <3>1, <3>2
  <2> QED
    BY <2>1
<1> QED
  BY <1>4 DEF i

(* Behind everything.                                                      *)
LEMMA Appended ==
  ASSUME NEW body \in Seq(Sec), Rising(body), NEW new \in Seq(Sec), Rising(new),
         \A x \in Outline(body), y \in Outline(new) : Key(x) < Key(y),
         NEW i, i = Len(body) + 1
  PROVE  /\ Before(body, i, new) \in Seq(Sec) /\ Rising(Before(body, i, new))
         /\ Outline(Before(body, i, new)) = Outline(body) \cup Outline(new)
<1>1. Len(body) \in Nat /\ DOMAIN body = 1..Len(body)
  BY LenProperties
<1>2. ASSUME NEW k \in 1..Len(body), NEW y \in ToSet(new) PROVE Key(body[k]) < Key(y)
  <2>1. body[k] \in Sec /\ Sketch(body[k]) \in Outline(body)
    BY <1>1, OutlineIs
  <2>2. y \in Sec /\ Sketch(y) \in Outline(new)
    BY OutlineIs, Members
  <2>3. Key(Sketch(body[k])) = Key(body[k]) /\ Key(Sketch(y)) = Key(y)
    BY <2>1, <2>2, SketchIs
  <2> QED
    BY <2>1, <2>2, <2>3
<1>3. i \in 1..(Len(body) + 1) /\ 1..(i - 1) = 1..Len(body) /\ i..Len(body) = {}
  BY <1>1
<1> QED
  BY <1>2, <1>3, InsertedIs

(* v1.5 adds the scale section and the appendix and takes the layout of    *)
(* v1.4 to its own.                                                        *)
LEMMA LayoutOf15 ==
  ASSUME NEW d, Fields(d), Layout(4, d.body), Anchored15(d)
  PROVE  /\ Layout(5, V15(d).body)
         /\ Topics(V15(d).body) = Topics(d.body) \cup {"scale", "appendix"}
<1> DEFINE h == Heading(d.body, <<11>>, "register")
           body == Before(d.body, h, NewScale)
           i == FirstWith(body, "end")
           plain == Unmarking(body, {"end"})
           new == Before(plain, i + 1, Appendix)
           O == Outline(d.body)
           s == NewHead(10, 3, "scale", {})
           a == [level |-> 1, num |-> <<>>, topic |-> "appendix", marks |-> {"end"}]
           Bare(o) == [o EXCEPT !.marks = @ \ {"end"}]
           P == {Bare(o) : o \in O \cup {s}}
<1>1. V15(d).body = new
  BY DEF V15, Fields, NewScale
<1>2. h \in 1..Len(d.body) /\ Leads(d.body[h], 10 + 1)
  <2>1. h \in 1..Len(d.body) /\ d.body[h].num = <<11>>
    BY HeadingIs DEF Anchored15, Holds, Layout
  <2>2. 11 \in Nat /\ 10 + 1 = 11
    OBVIOUS
  <2> QED
    BY <2>1, <2>2, LeadsIs
<1>3. Single(NewScale, s) /\ Single(Appendix, a)
  BY NewSections, AppendixIs
<1>4. d.body \in Seq(Sec) /\ (\A o \in O : Shape(4, o)) /\ O \in SUBSET SketchType
  BY OutlineIs DEF Layout, Drawn
<1>5. s.level = 2 /\ s.topic = "scale" /\ s.marks = {} /\ s.num = <<10, 3>> /\ s \in SketchType
  <2>1. s.level = 2 /\ s.topic = "scale" /\ s.marks = {} /\ s.num = <<10, 3>>
    BY DEF NewHead
  <2>2. NewScale \in Seq(Sec) /\ s \in Outline(NewScale)
    BY <1>3 DEF Single
  <2>3. s \in SketchType
    BY <2>2, OutlineIs
  <2> QED
    BY <2>1, <2>3
<1>6. Len(s.num) = 2 /\ s.num \in Seq(Nat) /\ s.num[1] = 10 /\ s.num[2] = 3 /\ s.num # <<>>
  <2> DEFINE num == <<10, 3>>
  <2>1. Len(num) = 2 /\ num \in Seq(Nat) /\ num[1] = 10 /\ num[2] = 3 /\ num # <<>>
    OBVIOUS
  <2>2. s.num = num
    BY <1>5
  <2> HIDE DEF num, s
  <2> QED
    BY <2>1, <2>2
<1>7. a.level = 1 /\ a.topic = "appendix" /\ a.marks = {"end"} /\ a.num = <<>>
  OBVIOUS
<1> HIDE DEF h, s, a
<1>8. Key(s) = 110300 /\ Key(a) = 300000
  <2>1. Key(s) = 110300
    BY <1>6 DEF Key, Height, Second, Third
  <2>2. Key(a) = 300000
    BY <1>7 DEF Key, Place
  <2> QED
    BY <2>1, <2>2
<1>9. NextIn(4, 10, NewScale)
  <2>1. Room(4, 10) = 2
    BY Tops DEF Room
  <2>2. ASSUME NEW y \in ToSet(NewScale) PROVE Key(y) = Key(s)
    <3>1. y \in Sec /\ Sketch(y) = s
      BY <1>3, OutlineIs, Members DEF Single
    <3> QED
      BY <3>1, SketchIs
  <2>3. Key(s) = 10000 * (10 + 1) + 100 * (Room(4, 10) + 1)
    BY <1>8, <2>1
  <2> QED
    BY <2>2, <2>3 DEF NextIn
<1>10. body \in Seq(Sec) /\ Rising(body) /\ Outline(body) = O \cup {s}
  <2>1. 4 \in 4..7 /\ 10 \in {1, 10} /\ NewScale \in Seq(Sec) /\ Rising(NewScale)
           /\ Outline(NewScale) = {s}
    BY <1>3 DEF Single
  <2>2. /\ Before(d.body, h, NewScale) \in Seq(Sec) /\ Rising(Before(d.body, h, NewScale))
        /\ Outline(Before(d.body, h, NewScale)) = Outline(d.body) \cup Outline(NewScale)
    BY <1>2, <1>9, <2>1, SectionAdded
  <2> QED
    BY <2>1, <2>2
<1>11. Shape(5, s)
  <2>1. Noted(5, s)
    BY <1>5 DEF Noted
  <2>2. Len(ChapterTopics(5)) = 12
    BY Tops
  <2>3. Room(5, 10) = 3
    BY <2>2 DEF Room
  <2>4. s.topic \in SubTopics(5)
    BY <1>5 DEF SubTopics
  <2>5. /\ s.num[1] < Len(ChapterTopics(5)) /\ s.num[1] \in Nat
        /\ s.num[2] \in Nat /\ 1 <= s.num[2] /\ s.num[2] <= Room(5, s.num[1])
    <3> DEFINE top == Len(ChapterTopics(5))
               room == Room(5, 10)
               x == s.num[1]
               y == s.num[2]
    <3>1. top = 12 /\ room = 3 /\ x = 10 /\ y = 3
      BY <1>6, <2>2, <2>3
    <3>2. Room(5, x) = room
      BY <3>1
    <3> HIDE DEF top, room, x, y
    <3>3. x < top /\ x \in Nat /\ y \in Nat /\ 1 <= y /\ y <= room
      BY <3>1
    <3> QED
      BY <3>2, <3>3 DEF top, x, y
  <2>6. SubOf(5, s)
    BY <1>5, <1>6, <2>4, <2>5 DEF SubOf
  <2> QED
    BY <1>6, <2>1, <2>6 DEF Shape
<1>12. \A o \in O \cup {s} : Shape(5, o) /\ o.topic # "appendix"
          /\ ("end" \in o.marks => o.topic = "register")
  <2>1. ASSUME NEW o \in O
        PROVE  Shape(5, o) /\ o.topic # "appendix" /\ ("end" \in o.marks => o.topic = "register")
    <3>1. Shape(4, o) /\ 4 \in 3..7 /\ 4 \in 3..12 /\ 4 + 1 = 5
      BY <1>4
    <3>2. Shape(5, o)
      BY <3>1, ShapeGrows
    <3>3. o.topic \in Known(4)
      BY <3>1, KindOf
    <3>4. "appendix" \notin Known(4)
      BY DEF Known, LooseTopics, ChapterNames, SubTopics
    <3>5. "end" \in o.marks => o.topic = "register"
      BY <3>1 DEF Shape, Noted
    <3> QED
      BY <3>2, <3>3, <3>4, <3>5
  <2> QED
    BY <1>5, <1>11, <2>1
<1> HIDE DEF body
<1>13. i # 0
  <2>1. FirstWith(d.body, "end") # 0
    BY DEF Anchored15
  <2>2. PICK j \in 1..Len(d.body) : "end" \in d.body[j].marks
    BY <1>4, <2>1, FirstWithIs
  <2>3. Sketch(d.body[j]) \in Outline(body) /\ Sketch(d.body[j]).marks = d.body[j].marks
    <3>1. d.body[j] \in Sec /\ Sketch(d.body[j]) \in O
      BY LayoutAt
    <3> QED
      BY <1>10, <3>1, SketchIs
  <2>4. PICK k \in DOMAIN body : Sketch(body[k]) = Sketch(d.body[j])
    BY <2>3 DEF Outline
  <2>5. k \in 1..Len(body) /\ "end" \in body[k].marks
    <3>1. k \in 1..Len(body) /\ body[k] \in Sec
      BY <1>10, LenProperties, ElementOfSeq
    <3> QED
      BY <2>2, <2>3, <2>4, <3>1, SketchIs
  <2> QED
    BY <1>10, <2>5, FirstWithIs
<1>14. i = Len(body)
  BY <1>10, <1>12, <1>13, EndIsLast
<1> HIDE DEF i, O
<1>15. /\ plain \in Seq(Sec) /\ Rising(plain) /\ Outline(plain) = P /\ Len(plain) = Len(body)
  <2>1. plain \in Seq(Sec) /\ Rising(plain) /\ Outline(plain) = P
    BY <1>10, UnmarkingIs DEF Bare
  <2>2. DOMAIN plain = DOMAIN body
    BY DEF Unmarking
  <2>3. Len(plain) \in Nat /\ DOMAIN plain = 1..Len(plain) /\ Len(body) \in Nat
           /\ DOMAIN body = 1..Len(body)
    BY <1>10, <2>1, LenProperties
  <2>4. Len(plain) = Len(body)
    BY <2>2, <2>3
  <2> QED
    BY <2>1, <2>4
<1>20. ASSUME NEW o \in O \cup {s}
       PROVE  /\ Bare(o).level = o.level /\ Bare(o).num = o.num /\ Bare(o).topic = o.topic
              /\ Bare(o).marks = o.marks \ {"end"}
  <2>1. o \in SketchType
    BY <1>4, <1>5
  <2> QED
    BY <2>1 DEF SketchType
<1> HIDE DEF Bare
<1>16. ASSUME NEW p \in P
       PROVE  /\ Shape(5, p) /\ p.topic # "appendix" /\ Key(p) < 300000
              /\ \E o \in O \cup {s} : p = Bare(o)
  <2>1. PICK o \in O \cup {s} : p = Bare(o)
    OBVIOUS
  <2>3. p.level = o.level /\ p.num = o.num /\ p.topic = o.topic /\ p.marks = o.marks \ {"end"}
    BY <1>20, <2>1
  <2>4. Shape(5, o) /\ o.topic # "appendix"
    BY <1>12
  <2>5. Shape(5, p)
    <3>1. Noted(5, p)
      BY <2>3, <2>4 DEF Shape, Noted
    <3> QED
      BY <2>3, <2>4, <3>1 DEF Shape, LooseAt, ChapterOf, SubOf
  <2>6. Key(p) < 150000 /\ Key(p) \in Int
    <3>1. 5 \in 3..12 /\ p.topic # "appendix"
      BY <2>3, <2>4
    <3> QED
      BY <2>5, <3>1, KeyBelow, KeyOf
  <2>7. Key(p) < 300000
    BY <2>6
  <2> QED
    BY <2>1, <2>3, <2>4, <2>5, <2>7
<1> HIDE DEF plain
<1>17. new \in Seq(Sec) /\ Rising(new) /\ Outline(new) = P \cup {a}
  <2> DEFINE j == i + 1
  <2>1. j = Len(plain) + 1
    BY <1>14, <1>15
  <2>2. Appendix \in Seq(Sec) /\ Rising(Appendix) /\ Outline(Appendix) = {a}
    BY <1>3 DEF Single
  <2>3. \A x \in Outline(plain), y \in Outline(Appendix) : Key(x) < Key(y)
    BY <1>8, <1>15, <1>16, <2>2
  <2> HIDE DEF j, P
  <2>4. /\ Before(plain, j, Appendix) \in Seq(Sec) /\ Rising(Before(plain, j, Appendix))
        /\ Outline(Before(plain, j, Appendix)) = Outline(plain) \cup Outline(Appendix)
    BY <1>15, <2>1, <2>2, <2>3, Appended
  <2> QED
    BY <1>15, <2>2, <2>4 DEF j
<1> HIDE DEF new
<1>18. Drawn(5, P \cup {a})
  <2>1. Shape(5, a)
    <3>1. Noted(5, a)
      BY <1>7 DEF Noted
    <3>2. LooseAt(5, a) /\ a.num \in Seq(Nat)
      BY <1>7, EmptySeq DEF LooseAt, LooseTopics, LooseLevel
    <3> QED
      BY <3>1, <3>2 DEF Shape
  <2>2. OneEach(P)
    <3> SUFFICES ASSUME NEW p \in P, NEW q \in P, p.topic = q.topic PROVE p = q
      BY DEF OneEach
    <3>1. PICK o \in O \cup {s} : p = Bare(o)
      BY <1>16
    <3>2. PICK r \in O \cup {s} : q = Bare(r)
      BY <1>16
    <3>4. o.topic = r.topic
      BY <1>20, <3>1, <3>2
    <3>5. \A x \in O : x.topic # "scale"
      <4>1. \A x \in O : x.topic \in Known(4)
        BY <1>4, KindOf
      <4>2. "scale" \notin Known(4)
        BY DEF Known, LooseTopics, ChapterNames, SubTopics
      <4> QED
        BY <4>1, <4>2
    <3>6. OneEach(O)
      BY DEF Layout, Drawn, O
    <3>7. o = r
      BY <1>5, <3>4, <3>5, <3>6 DEF OneEach
    <3> QED
      BY <3>1, <3>2, <3>7
  <2>3. OneEach(P \cup {a})
    BY <1>7, <1>16, <2>2 DEF OneEach
  <2>4. \A o \in O : \E p \in P : p.num = o.num /\ p.topic = o.topic
    <3> SUFFICES ASSUME NEW o \in O PROVE \E p \in P : p.num = o.num /\ p.topic = o.topic
      OBVIOUS
    <3>1. Bare(o) \in P
      OBVIOUS
    <3>2. Bare(o).num = o.num /\ Bare(o).topic = o.topic
      BY <1>20
    <3> QED
      BY <3>1, <3>2
  <2>5. Complete(4, O)
    BY DEF Layout, Drawn, O
  <2>6. LooseTopics(5) = LooseTopics(4) \cup {"appendix"} /\ ChapterTopics(5) = ChapterTopics(4)
    BY DEF LooseTopics, ChapterTopics
  <2>7. Len(a.num) = 0
    BY <1>7
  <2> HIDE DEF P
  <2>8. Complete(5, P \cup {a})
    <3>1. ASSUME NEW topic \in LooseTopics(5)
          PROVE  \E x \in P \cup {a} : Len(x.num) = 0 /\ x.topic = topic
      <4>1. CASE topic = "appendix"
        BY <1>7, <2>7, <4>1
      <4>2. CASE topic # "appendix"
        <5>1. PICK o \in O : Len(o.num) = 0 /\ o.topic = topic
          BY <2>5, <2>6, <4>2 DEF Complete
        <5> QED
          BY <2>4, <5>1
      <4> QED
        BY <4>1, <4>2
    <3>2. ASSUME NEW c \in 0..(Len(ChapterTopics(5)) - 1)
          PROVE  \E x \in P \cup {a} : Len(x.num) = 1 /\ x.num[1] = c
      <4>1. PICK o \in O : Len(o.num) = 1 /\ o.num[1] = c
        BY <2>5, <2>6 DEF Complete
      <4> QED
        BY <2>4, <4>1
    <3> QED
      BY <3>1, <3>2 DEF Complete
  <2> QED
    BY <1>16, <2>1, <2>3, <2>8 DEF Drawn
<1>19. Topics(new) = Topics(d.body) \cup {"scale", "appendix"}
  <2>1. Topics(new) = {p.topic : p \in P \cup {a}} /\ Topics(d.body) = {o.topic : o \in O}
    BY <1>4, <1>17, OutlineIs DEF O
  <2>2. {p.topic : p \in P} = {o.topic : o \in O} \cup {"scale"}
    <3>1. {p.topic : p \in P} = {o.topic : o \in O \cup {s}}
      BY <1>20
    <3> HIDE DEF P
    <3> QED
      BY <1>5, <3>1
  <2> HIDE DEF P
  <2> QED
    BY <1>7, <2>1, <2>2
<1> QED
  BY <1>1, <1>17, <1>18, <1>19 DEF Layout

-----------------------------------------------------------------------------
(* Edits that move nothing *)

NotedMarks == {"perStock", "axisTable", "end", "eightAxes"}

(* y is x, but for references and paragraphs that decide no place.         *)
Same(x, y) ==
  /\ y \in Sec /\ y.num = x.num /\ y.topic = x.topic /\ y.level = x.level
  /\ \A m \in NotedMarks : m \in y.marks <=> m \in x.marks

(* A section of the same level, number, subject and noted marks fits where *)
(* the old one did.                                                        *)
LEMMA SameShape ==
  ASSUME NEW n, NEW x, NEW y, Same(x, y), Shape(n, x)
  PROVE  Shape(n, y)
<1>1. y.num = x.num /\ y.topic = x.topic /\ y.level = x.level
  BY DEF Same
<1>2. Noted(n, y)
  BY DEF Same, NotedMarks, Shape, Noted
<1> QED
  BY <1>1, <1>2 DEF Shape, LooseAt, ChapterOf, SubOf

(* A body that keeps every section's level, number, subject and noted      *)
(* marks keeps the layout.                                                 *)
LEMMA LayoutSame ==
  ASSUME NEW n, NEW body, Layout(n, body), NEW new, new = [i \in DOMAIN body |-> new[i]],
         \A i \in DOMAIN body : Same(body[i], new[i])
  PROVE  Layout(n, new) /\ Topics(new) = Topics(body) /\ DOMAIN new = DOMAIN body
<1>1. /\ body \in Seq(Sec) /\ Rising(body) /\ OneEach(Outline(body))
      /\ (\A x \in Outline(body) : Shape(n, x)) /\ Complete(n, Outline(body))
      /\ DOMAIN body = 1..Len(body)
  BY LenProperties DEF Layout, Drawn
<1>2. \A i \in DOMAIN body : new[i] \in Sec /\ Key(new[i]) = Key(body[i])
  BY DEF Same, Key
<1>3. new \in Seq(Sec) /\ Len(new) = Len(body) /\ DOMAIN new = DOMAIN body /\ Rising(new)
  BY <1>1, <1>2, Kept
<1>4. Distinct(body)
  BY <1>1, DistinctIs
<1>5. ASSUME NEW p \in Outline(new)
      PROVE  \E i \in DOMAIN body : p = Sketch(new[i]) /\ p.topic = body[i].topic /\ Shape(n, p)
  <2>1. PICK i \in DOMAIN body : p = Sketch(new[i])
    BY <1>3 DEF Outline
  <2>2. Shape(n, body[i])
    BY <1>1, LayoutAt
  <2>3. Shape(n, new[i]) /\ new[i].topic = body[i].topic
    BY <2>2, SameShape DEF Same
  <2>4. p.topic = body[i].topic /\ Shape(n, p)
    BY <1>2, <2>1, <2>3, SketchIs
  <2> QED
    BY <2>1, <2>4
<1>6. OneEach(Outline(new))
  <2> SUFFICES ASSUME NEW p \in Outline(new), NEW q \in Outline(new), p.topic = q.topic PROVE p = q
    BY DEF OneEach
  <2>1. PICK i \in DOMAIN body : p = Sketch(new[i]) /\ p.topic = body[i].topic
    BY <1>5
  <2>2. PICK j \in DOMAIN body : q = Sketch(new[j]) /\ q.topic = body[j].topic
    BY <1>5
  <2>3. i = j
    BY <1>4, <2>1, <2>2 DEF Distinct
  <2> QED
    BY <2>1, <2>2, <2>3
<1>7. \A o \in Outline(body) : \E p \in Outline(new) : p.num = o.num /\ p.topic = o.topic
  <2> SUFFICES ASSUME NEW i \in DOMAIN body
               PROVE  \E p \in Outline(new) : p.num = Sketch(body[i]).num
                  /\ p.topic = Sketch(body[i]).topic
    BY DEF Outline
  <2>1. body[i] \in Sec /\ new[i] \in Sec /\ Sketch(new[i]) \in Outline(new)
    BY <1>1, <1>2, <1>3, OutlineIs
  <2>2. new[i].num = body[i].num /\ new[i].topic = body[i].topic
    BY DEF Same
  <2>3. Sketch(new[i]).num = Sketch(body[i]).num /\ Sketch(new[i]).topic = Sketch(body[i]).topic
    BY <2>1, <2>2, SketchIs
  <2> QED
    BY <2>1, <2>3
<1>8. Complete(n, Outline(new))
  <2>1. ASSUME NEW topic \in LooseTopics(n)
        PROVE  \E x \in Outline(new) : Len(x.num) = 0 /\ x.topic = topic
    <3>1. PICK o \in Outline(body) : Len(o.num) = 0 /\ o.topic = topic
      BY <1>1 DEF Complete
    <3> QED
      BY <1>7, <3>1
  <2>2. ASSUME NEW c \in 0..(Len(ChapterTopics(n)) - 1)
        PROVE  \E x \in Outline(new) : Len(x.num) = 1 /\ x.num[1] = c
    <3>1. PICK o \in Outline(body) : Len(o.num) = 1 /\ o.num[1] = c
      BY <1>1 DEF Complete
    <3> QED
      BY <1>7, <3>1
  <2> QED
    BY <2>1, <2>2 DEF Complete
<1>9. Topics(new) = Topics(body)
  BY <1>3 DEF Topics, Same
<1> QED
  BY <1>3, <1>5, <1>6, <1>8, <1>9 DEF Layout, Drawn

(* Changing marks or references alone.                                     *)
LEMMA SameCited ==
  ASSUME NEW x \in Sec, NEW refs \in SUBSET Cite
  PROVE  Same(x, [x EXCEPT !.refs = refs])
<1> DEFINE y == [x EXCEPT !.refs = refs]
<1>1. y \in Sec /\ y.num = x.num /\ y.topic = x.topic /\ y.level = x.level /\ y.marks = x.marks
  BY DEF Sec
<1> HIDE DEF y
<1> QED
  BY <1>1 DEF Same, y

(* Taking away marks the layout does not note changes nothing the layout   *)
(* speaks of.                                                              *)
LEMMA SameUnmarked ==
  ASSUME NEW x \in Sec, NEW gone, gone \cap NotedMarks = {}
  PROVE  Same(x, [x EXCEPT !.marks = @ \ gone])
<1> DEFINE y == [x EXCEPT !.marks = @ \ gone]
<1>1. y \in Sec /\ y.num = x.num /\ y.topic = x.topic /\ y.level = x.level
         /\ y.marks = x.marks \ gone
  BY DEF Sec
<1> HIDE DEF y
<1> QED
  BY <1>1 DEF Same, y

(* Taking away marks the layout does not note keeps the layout.            *)
LEMMA LayoutUnmarked ==
  ASSUME NEW n, NEW body, Layout(n, body), NEW gone, gone \cap NotedMarks = {}
  PROVE  Layout(n, Unmarking(body, gone)) /\ Topics(Unmarking(body, gone)) = Topics(body)
<1> DEFINE new == Unmarking(body, gone)
<1>1. new = [i \in DOMAIN body |-> new[i]]
         /\ \A i \in DOMAIN body : new[i] = [body[i] EXCEPT !.marks = @ \ gone]
  BY DEF Unmarking
<1>2. \A i \in DOMAIN body : body[i] \in Sec
  BY OutlineIs DEF Layout
<1> HIDE DEF new
<1>3. ASSUME NEW i \in DOMAIN body PROVE Same(body[i], new[i])
  <2>1. body[i] \in Sec /\ new[i] = [body[i] EXCEPT !.marks = @ \ gone]
    BY <1>1, <1>2
  <2>2. Same(body[i], [body[i] EXCEPT !.marks = @ \ gone])
    BY <2>1, SameUnmarked
  <2> QED
    BY <2>1, <2>2
<1>4. Layout(n, new) /\ Topics(new) = Topics(body)
  BY <1>1, <1>3, LayoutSame
<1> QED
  BY <1>4 DEF new

-----------------------------------------------------------------------------
(* Renaming a heading *)

(* The title of the summary changes, its place does not.                   *)
Renamed(n, old, new) ==
  \/ n = 10 /\ old = "summary" /\ new = "proposal"
  \/ n = 11 /\ old = "proposal" /\ new = "recommendation"

(* A renamed heading fits the next layout, and every other heading does    *)
(* too.                                                                    *)
LEMMA ShapeRetitled ==
  ASSUME NEW n \in {10, 11}, NEW x, Shape(n, x), NEW y, NEW old, NEW new, Renamed(n, old, new),
         y.num = x.num, y.level = x.level, y.marks = x.marks,
         y.topic = IF x.topic = old THEN new ELSE x.topic
  PROVE  Shape(n + 1, y)
<1>1. n \in 3..12 /\ ChapterTopics(n + 1) = ChapterTopics(n) /\ SubTopics(n + 1) = SubTopics(n)
  BY DEF ChapterTopics, SubTopics
<1>2. \A c : Room(n + 1, c) = Room(n, c)
  BY <1>1 DEF Room
<1>3. old \in LooseTopics(n) /\ new \in LooseTopics(n + 1) /\ LooseLevel(old) = 1
         /\ LooseLevel(new) = 1
  BY DEF Renamed, LooseTopics, LooseLevel
<1>4. LooseTopics(n) \ {old} \subseteq LooseTopics(n + 1)
  BY DEF Renamed, LooseTopics
<1>5. old \notin {"logic", "register"} /\ new \notin {"logic", "register"}
  BY DEF Renamed
<1>6. x.topic = old => LooseAt(n, x)
  BY <1>1, <1>3, KindOf
<1>7. Noted(n + 1, y)
  <2>1. Noted(n, x)
    BY DEF Shape
  <2> QED
    BY <1>5, <2>1 DEF Noted
<1>8. CASE LooseAt(n, x)
  <2>1. LooseAt(n + 1, y)
    BY <1>3, <1>4, <1>8 DEF LooseAt
  <2> QED
    BY <1>7, <2>1 DEF Shape
<1>9. CASE ~LooseAt(n, x)
  <2>1. y.topic = x.topic
    BY <1>6, <1>9
  <2>2. ChapterOf(n, x) => ChapterOf(n + 1, y)
    BY <1>1, <2>1 DEF ChapterOf
  <2>3. SubOf(n, x) => SubOf(n + 1, y)
    BY <1>1, <1>2, <2>1 DEF SubOf
  <2> QED
    BY <1>7, <1>9, <2>2, <2>3 DEF Shape
<1> QED
  BY <1>8, <1>9

(* All a layout of the next age needs but what is still to come.           *)
Retold(n, m, body, t, old, new) ==
  /\ t \in Seq(Sec) /\ Rising(t) /\ OneEach(Outline(t))
  /\ \A p \in Outline(t) : Shape(m, p)
  /\ \A topic \in (LooseTopics(n) \ {old}) \cup {new} :
       \E p \in Outline(t) : Len(p.num) = 0 /\ p.topic = topic
  /\ \A c \in 0..(Len(ChapterTopics(n)) - 1) :
       \E p \in Outline(t) : Len(p.num) = 1 /\ p.num[1] = c
  /\ Topics(t) = (Topics(body) \ {old}) \cup {new}

(* Renaming one loose heading takes a layout to the next.                  *)
LEMMA Retitled ==
  ASSUME NEW n \in {10, 11}, NEW m, m = n + 1, NEW body, Layout(n, body),
         NEW old, NEW new, Renamed(n, old, new)
  PROVE  Retold(n, m, body, Titling(body, old, new), old, new)
<1> DEFINE t == Titling(body, old, new)
           O == Outline(body)
           More(o) == IF o.topic = old THEN [o EXCEPT !.topic = new] ELSE o
           P == {More(o) : o \in O}
<1>0. n \in 3..12
  OBVIOUS
<1>1. /\ body \in Seq(Sec) /\ Rising(body) /\ OneEach(O) /\ (\A x \in O : Shape(n, x))
      /\ Complete(n, O) /\ O \in SUBSET SketchType
  BY OutlineIs DEF Layout, Drawn
<1>2. Place(old) = Place(new) /\ new \in Topic /\ old \in LooseTopics(n) /\ new \notin Known(n)
         /\ old # new
  BY DEF Renamed, Place, Topic, LooseTopics, Known, ChapterNames, SubTopics
<1>3. \A o \in O : o.topic = old => o.num = <<>>
  <2>1. ASSUME NEW o \in O, o.topic = old PROVE o.num = <<>>
    <3>1. Shape(n, o) /\ LooseAt(n, o)
      BY <1>0, <1>1, <1>2, <2>1, KindOf
    <3> QED
      BY <3>1, Tuples DEF Shape, LooseAt
  <2> QED
    BY <2>1
<1> HIDE DEF O
<1>4. t \in Seq(Sec) /\ Rising(t) /\ Outline(t) = P
  BY <1>1, <1>2, <1>3, TitlingIs DEF O
<1>5. ASSUME NEW o \in O
      PROVE  /\ More(o).num = o.num /\ More(o).level = o.level /\ More(o).marks = o.marks
             /\ More(o).topic = IF o.topic = old THEN new ELSE o.topic
  <2>1. o \in SketchType
    BY <1>1
  <2> QED
    BY <2>1 DEF SketchType
<1> HIDE DEF More
<1>6. ASSUME NEW p \in P PROVE Shape(m, p)
  <2>1. PICK o \in O : p = More(o)
    OBVIOUS
  <2>2. Shape(n, o)
    BY <1>1
  <2> HIDE DEF P
  <2> QED
    BY <1>5, <2>1, <2>2, ShapeRetitled
<1>7. \A o \in O : o.topic # new
  BY <1>0, <1>1, <1>2, KindOf
<1>8. OneEach(P)
  <2> SUFFICES ASSUME NEW p \in P, NEW q \in P, p.topic = q.topic PROVE p = q
    BY DEF OneEach
  <2>1. PICK o \in O : p = More(o)
    OBVIOUS
  <2>2. PICK r \in O : q = More(r)
    OBVIOUS
  <2>3. o.topic = r.topic
    BY <1>5, <1>7, <2>1, <2>2
  <2>4. o = r
    BY <1>1, <2>3 DEF OneEach
  <2> QED
    BY <2>1, <2>2, <2>4
<1>9. \A o \in O : \E p \in P : p.num = o.num /\ p.topic = IF o.topic = old THEN new ELSE o.topic
  <2> SUFFICES ASSUME NEW o \in O
               PROVE  \E p \in P : p.num = o.num /\ p.topic = IF o.topic = old THEN new ELSE o.topic
    OBVIOUS
  <2>1. More(o) \in P
    OBVIOUS
  <2> HIDE DEF P
  <2> QED
    BY <1>5, <2>1
<1>10. {p.topic : p \in P} = {IF o.topic = old THEN new ELSE o.topic : o \in O}
  BY <1>5
<1> HIDE DEF P
<1>11. ASSUME NEW topic \in (LooseTopics(n) \ {old}) \cup {new}
       PROVE  \E p \in P : Len(p.num) = 0 /\ p.topic = topic
  <2> DEFINE was == IF topic = new THEN old ELSE topic
  <2>1. was \in LooseTopics(n)
    BY <1>2
  <2>2. topic = IF was = old THEN new ELSE was
    BY <1>2, <1>11
  <2> HIDE DEF was
  <2>3. PICK o \in O : Len(o.num) = 0 /\ o.topic = was
    BY <1>1, <2>1 DEF Complete
  <2> QED
    BY <1>9, <2>2, <2>3
<1>12. ASSUME NEW c \in 0..(Len(ChapterTopics(n)) - 1)
       PROVE  \E p \in P : Len(p.num) = 1 /\ p.num[1] = c
  <2>1. PICK o \in O : Len(o.num) = 1 /\ o.num[1] = c
    BY <1>1 DEF Complete
  <2> QED
    BY <1>9, <2>1
<1>13. Topics(t) = (Topics(body) \ {old}) \cup {new}
  <2>1. Topics(t) = {p.topic : p \in P} /\ Topics(body) = {o.topic : o \in O}
    BY <1>1, <1>4, OutlineIs DEF O
  <2>2. \E o \in O : o.topic = old
    BY <1>1, <1>2 DEF Complete
  <2>3. {IF o.topic = old THEN new ELSE o.topic : o \in O} = ({o.topic : o \in O} \ {old})
           \cup {new}
    BY <1>2, <2>2
  <2> QED
    BY <1>10, <2>1, <2>3
<1> QED
  BY <1>4, <1>6, <1>8, <1>11, <1>12, <1>13 DEF t, Retold

-----------------------------------------------------------------------------
(* The proposals *)

(* A section is the same as itself.                                        *)
LEMMA SameSelf ==
  ASSUME NEW x \in Sec
  PROVE  Same(x, x)
BY DEF Same

(* Sameness of sections is transitive.                                     *)
LEMMA SameTwice ==
  ASSUME NEW x, NEW y, NEW z, Same(x, y), Same(y, z)
  PROVE  Same(x, z)
BY DEF Same

(* Putting references into the sections of a subject keeps the layout.     *)
LEMMA LayoutOfCiting ==
  ASSUME NEW n, NEW body, Layout(n, body), NEW topic, NEW refs \in SUBSET Cite
  PROVE  Layout(n, Citing(body, topic, refs)) /\ Topics(Citing(body, topic, refs)) = Topics(body)
<1>1. body \in Seq(Sec)
  BY DEF Layout
<1>2. /\ Citing(body, topic, refs) \in Seq(Sec)
         /\ Outline(Citing(body, topic, refs)) = Outline(body)
      /\ Rising(Citing(body, topic, refs))
  BY <1>1, CitingIs DEF Layout
<1> QED
  BY <1>1, <1>2, OutlineIs DEF Layout

(* References to sections, one for each number and topic.                  *)
LEMMA CiteIs ==
  /\ \A c \in Nat, t \in Topic : Ref(<<c>>, t) \in Cite
  /\ \A c, k \in Nat, t \in Topic : Ref(<<c, k>>, t) \in Cite
<1>1. ASSUME NEW c \in Nat, NEW t \in Topic PROVE Ref(<<c>>, t) \in Cite
  <2>1. <<c>> \in Seq(Nat)
    OBVIOUS
  <2> QED
    BY <2>1, RefIs
<1>2. ASSUME NEW c \in Nat, NEW k \in Nat, NEW t \in Topic PROVE Ref(<<c, k>>, t) \in Cite
  <2>1. <<c, k>> \in Seq(Nat)
    OBVIOUS
  <2> QED
    BY <2>1, RefIs
<1> QED
  BY <1>1, <1>2

(* The first proposal's references keep the layout.                        *)
LEMMA ReferringP1 ==
  ASSUME NEW body, Layout(10, body)
  PROVE  Layout(10, Referring(body, P1Reference))
     /\ Topics(Referring(body, P1Reference)) = Topics(body)
<1> DEFINE new == Referring(body, P1Reference)
           refs(i) == {Ref(P1Reference(x.num), x.to) : x \in body[i].refs}
<1>1. new = [i \in DOMAIN body |-> new[i]]
         /\ \A i \in DOMAIN body : new[i] = [body[i] EXCEPT !.refs = refs(i)]
  BY DEF Referring
<1>2. \A i \in DOMAIN body : body[i] \in Sec
  BY OutlineIs DEF Layout
<1>3. ASSUME NEW i \in DOMAIN body PROVE refs(i) \in SUBSET Cite
  <2>1. ASSUME NEW x \in body[i].refs PROVE Ref(P1Reference(x.num), x.to) \in Cite
    <3>1. x \in Cite
      BY <1>2 DEF Sec
    <3>2. x.num \in Seq(Nat) /\ x.to \in Topic
      BY <3>1 DEF Cite
    <3>3. <<1, 2>> \in Seq(Nat)
      OBVIOUS
    <3>4. P1Reference(x.num) \in Seq(Nat)
      BY <3>2, <3>3 DEF P1Reference
    <3> QED
      BY <3>2, <3>4, RefIs
  <2> QED
    BY <2>1
<1> HIDE DEF new, refs
<1>4. ASSUME NEW i \in DOMAIN body PROVE Same(body[i], new[i])
  <2>1. body[i] \in Sec /\ new[i] = [body[i] EXCEPT !.refs = refs(i)] /\ refs(i) \in SUBSET Cite
    BY <1>1, <1>2, <1>3
  <2>2. Same(body[i], [body[i] EXCEPT !.refs = refs(i)])
    BY <2>1, SameCited
  <2> QED
    BY <2>1, <2>2
<1>5. Layout(10, new) /\ Topics(new) = Topics(body)
  BY <1>1, <1>4, LayoutSame
<1> QED
  BY <1>5 DEF new

(* The first proposal renames the summary and takes the layout of v2.0 to  *)
(* its own.                                                                *)
LEMMA LayoutOfP1 ==
  ASSUME NEW d, Fields(d), Layout(10, d.body)
  PROVE  /\ Layout(11, P1(d).body)
         /\ Topics(P1(d).body) = (Topics(d.body) \ {"summary"}) \cup {"proposal"}
<1> DEFINE plain == Unmarking(Referring(d.body, P1Reference), {"why"})
           refs == {Ref(<<1, 2>>, "storage"), Ref(<<6, 4>>, "outputs")}
           t == Titling(plain, "summary", "proposal")
<1>1. P1(d).body = Citing(t, "proposal", refs)
  BY DEF P1, Fields
<1>2. refs \in SUBSET Cite
  <2>1. "storage" \in Topic /\ "outputs" \in Topic /\ 1 \in Nat /\ 2 \in Nat /\ 6 \in Nat
           /\ 4 \in Nat
    BY DEF Topic
  <2> QED
    BY <2>1, CiteIs
<1>3. Layout(10, plain) /\ Topics(plain) = Topics(d.body)
  <2>1. {"why"} \cap NotedMarks = {}
    BY DEF NotedMarks
  <2> QED
    BY <2>1, ReferringP1, LayoutUnmarked
<1> HIDE DEF plain, refs
<1>4. Renamed(10, "summary", "proposal") /\ 10 \in {10, 11} /\ 10 + 1 = 11
  BY DEF Renamed
<1>5. Retold(10, 11, plain, t, "summary", "proposal")
  BY <1>3, <1>4, Retitled
<1> HIDE DEF t
<1>6. LooseTopics(11) = (LooseTopics(10) \ {"summary"}) \cup {"proposal"}
         /\ ChapterTopics(11) = ChapterTopics(10)
  BY DEF LooseTopics, ChapterTopics
<1>7. Layout(11, t)
  BY <1>5, <1>6 DEF Layout, Drawn, Complete, Retold
<1> QED
  BY <1>1, <1>2, <1>3, <1>5, <1>7, LayoutOfCiting DEF Retold

Front5 == {"recommendation", "background", "situation", "problem", "solution"}

(* The four headings of the chapter of the proposal.                       *)
LooseHead(level, topic) == [level |-> level, num |-> <<>>, topic |-> topic, marks |-> {}]

BackgroundHeads == {LooseHead(1, "background"), LooseHead(2, "situation"),
                    LooseHead(2, "problem"), LooseHead(2, "solution")}

(* A new loose heading has its level and subject, no number and no mark.   *)
LEMMA LooseHeadIs ==
  ASSUME NEW level, NEW topic
  PROVE  /\ LooseHead(level, topic).level = level /\ LooseHead(level, topic).num = <<>>
         /\ LooseHead(level, topic).topic = topic /\ LooseHead(level, topic).marks = {}
         /\ Key(LooseHead(level, topic)) = Place(topic)
<1> DEFINE o == LooseHead(level, topic)
<1>1. o.level = level /\ o.num = <<>> /\ o.topic = topic /\ o.marks = {}
  BY DEF LooseHead
<1> HIDE DEF o
<1>2. Key(o) = Place(topic)
  BY <1>1 DEF Key
<1> QED
  BY <1>1, <1>2 DEF o

(* The background of the second proposal is a rising body of its own       *)
(* unnumbered headings.                                                    *)
LEMMA BackgroundIs ==
  Background \in Seq(Sec) /\ Rising(Background) /\ Outline(Background) = BackgroundHeads
<1> DEFINE a == Unnumbered(1, "background")
           b == Unnumbered(2, "situation")
           c == Unnumbered(2, "problem")
           e == Unnumbered(2, "solution")
           s == <<a, b, c, e>>
           refs == {Ref(<<0, 1>>, "premise"), Ref(<<1>>, "architecture"), Ref(<<2>>, "journey"),
                    Ref(<<5>>, "massive"), Ref(<<6, 5>>, "logic")}
<1>1. Background = Citing(s, "solution", refs)
  BY DEF Background
<1>2. refs \in SUBSET Cite
  <2>1. {"premise", "architecture", "journey", "massive", "logic"} \subseteq Topic
    BY DEF Topic
  <2>2. 0 \in Nat /\ 1 \in Nat /\ 2 \in Nat /\ 5 \in Nat /\ 6 \in Nat
    OBVIOUS
  <2> QED
    BY <2>1, <2>2, CiteIs
<1>3. ASSUME NEW level \in {1, 2}, NEW topic \in {"background", "situation", "problem", "solution"}
      PROVE  /\ Unnumbered(level, topic) \in Sec
             /\ Sketch(Unnumbered(level, topic)) = LooseHead(level, topic)
             /\ Key(Unnumbered(level, topic)) = Place(topic)
  <2> DEFINE num == <<>>
             x == Section(level, num, topic)
  <2>1. level \in Nat /\ num \in Seq(Nat) /\ topic \in Topic
    BY EmptySeq DEF Topic
  <2>2. Unnumbered(level, topic) = x /\ LooseHead(level, topic) =
          [level |-> level, num |-> num, topic |-> topic, marks |-> {}]
    BY DEF Unnumbered, LooseHead
  <2> HIDE DEF num
  <2>5. x \in Sec /\ Sketch(x) = [level |-> level, num |-> num, topic |-> topic, marks |-> {}]
    BY <2>1, SectionIs
  <2> HIDE DEF x
  <2>3. Unnumbered(level, topic) \in Sec
           /\ Sketch(Unnumbered(level, topic)) = LooseHead(level, topic)
    BY <2>2, <2>5
  <2>4. Key(Unnumbered(level, topic)) = Key(LooseHead(level, topic))
    BY <2>3, SketchIs
  <2> QED
    BY <2>3, <2>4, LooseHeadIs
<1>8. /\ Place("background") = 2 /\ Place("situation") = 3 /\ Place("problem") = 4
      /\ Place("solution") = 5
  BY DEF Place
<1>4. /\ Key(a) = 2 /\ Key(b) = 3 /\ Key(c) = 4 /\ Key(e) = 5
      /\ a \in Sec /\ b \in Sec /\ c \in Sec /\ e \in Sec
      /\ {Sketch(a), Sketch(b), Sketch(c), Sketch(e)} = BackgroundHeads
  <2>1. Key(a) = 2 /\ a \in Sec /\ Sketch(a) = LooseHead(1, "background")
    BY <1>3, <1>8
  <2>2. Key(b) = 3 /\ b \in Sec /\ Sketch(b) = LooseHead(2, "situation")
    BY <1>3, <1>8
  <2>3. Key(c) = 4 /\ c \in Sec /\ Sketch(c) = LooseHead(2, "problem")
    BY <1>3, <1>8
  <2>4. Key(e) = 5 /\ e \in Sec /\ Sketch(e) = LooseHead(2, "solution")
    BY <1>3, <1>8
  <2> QED
    BY <2>1, <2>2, <2>3, <2>4 DEF BackgroundHeads
<1> HIDE DEF a, b, c, e
<1>5. s \in Seq(Sec) /\ Len(s) = 4 /\ DOMAIN s = 1..4 /\ s[1] = a /\ s[2] = b /\ s[3] = c
         /\ s[4] = e
  BY <1>4
<1> HIDE DEF s
<1>6. Rising(s)
  BY <1>4, <1>5 DEF Rising
<1>7. Outline(s) = {Sketch(a), Sketch(b), Sketch(c), Sketch(e)}
  <2>1. DOMAIN s = {1, 2, 3, 4}
    BY <1>5
  <2> QED
    BY <1>5, <2>1 DEF Outline
<1> HIDE DEF refs
<1> QED
  BY <1>1, <1>2, <1>4, <1>5, <1>6, <1>7, CitingIs

(* The second proposal turns the overview into the recommendation and puts *)
(* the background before the glossary, and takes the layout of the first   *)
(* to its own.                                                             *)
LEMMA LayoutOfP2 ==
  ASSUME NEW d, Fields(d), Layout(11, d.body), AnchoredP2(d)
  PROVE  /\ Layout(12, P2(d).body)
         /\ Topics(P2(d).body) = (Topics(d.body) \ {"proposal"}) \cup Front5
<1> DEFINE i == Heading(d.body, <<>>, "proposal")
           bare == [d.body EXCEPT ![i].refs = {}, ![i].marks = @ \ {"intro", "trans"}]
           refs == {Ref(<<0, 3>>, "survey"), Ref(<<1, 2>>, "storage"), Ref(<<5, 3>>, "scale"),
                    Ref(<<5, 1>>, "physical"), Ref(<<8>>, "lookup"), Ref(<<6, 4>>, "outputs")}
           t == Titling(bare, "proposal", "recommendation")
           body == Citing(t, "recommendation", refs)
           h == Heading(body, <<>>, "terms")
           new == Before(body, h, Background)
<1>1. P2(d).body = new
  BY DEF P2, Fields
<1>2. refs \in SUBSET Cite
  <2>1. {"survey", "storage", "scale", "physical", "lookup", "outputs"} \subseteq Topic
    BY DEF Topic
  <2>2. 0 \in Nat /\ 1 \in Nat /\ 2 \in Nat /\ 3 \in Nat /\ 4 \in Nat /\ 5 \in Nat /\ 6 \in Nat
           /\ 8 \in Nat
    OBVIOUS
  <2> QED
    BY <2>1, <2>2, CiteIs
<1> HIDE DEF refs
<1>3. Layout(11, bare) /\ Topics(bare) = Topics(d.body)
  <2>1. d.body \in Seq(Sec) /\ DOMAIN d.body = 1..Len(d.body)
           /\ \A j \in DOMAIN d.body : d.body[j] \in Sec
    BY LenProperties, OutlineIs DEF Layout
  <2>2. i \in DOMAIN d.body
    BY <2>1, HeadingIs DEF AnchoredP2, Holds
  <2> HIDE DEF i
  <2>3. /\ bare = [j \in DOMAIN d.body |-> bare[j]]
        /\ \A j \in DOMAIN d.body : j # i => bare[j] = d.body[j]
        /\ bare[i] = [[d.body[i] EXCEPT !.refs = {}] EXCEPT !.marks = @ \ {"intro", "trans"}]
    BY <2>1, <2>2
  <2> HIDE DEF bare
  <2>4. Same(d.body[i], bare[i])
    <3> DEFINE x == [d.body[i] EXCEPT !.refs = {}]
    <3>1. Same(d.body[i], x)
      BY <2>1, <2>2, SameCited
    <3>2. x \in Sec /\ {"intro", "trans"} \cap NotedMarks = {}
      BY <3>1 DEF Same, NotedMarks
    <3> HIDE DEF x
    <3>3. Same(x, [x EXCEPT !.marks = @ \ {"intro", "trans"}])
      BY <3>2, SameUnmarked
    <3> QED
      BY <2>3, <3>1, <3>3, SameTwice DEF x
  <2>5. ASSUME NEW j \in DOMAIN d.body PROVE Same(d.body[j], bare[j])
    BY <2>1, <2>3, <2>4, SameSelf
  <2> QED
    BY <2>3, <2>5, LayoutSame
<1> HIDE DEF bare, i
<1>4. Renamed(11, "proposal", "recommendation") /\ 11 \in {10, 11} /\ 12 = 11 + 1
  BY DEF Renamed
<1>5. Retold(11, 12, bare, t, "proposal", "recommendation")
  BY <1>3, <1>4, Retitled
<1> HIDE DEF t
<1>6. body \in Seq(Sec) /\ Rising(body) /\ Outline(body) = Outline(t) /\ Topics(body) = Topics(t)
  BY <1>2, <1>5, CitingIs, OutlineIs DEF Retold
<1> HIDE DEF body
<1> DEFINE P == Outline(body)
<1>7. /\ OneEach(P) /\ (\A p \in P : Shape(12, p)) /\ P \in SUBSET SketchType
      /\ \A p \in P : p.topic \notin {"background", "situation", "problem", "solution"}
  <2>1. OneEach(P) /\ (\A p \in P : Shape(12, p)) /\ P \in SUBSET SketchType
    BY <1>5, <1>6, OutlineIs DEF Retold
  <2>2. Topics(body) \subseteq Known(11) \cup {"recommendation"}
    <3>1. 11 \in 3..12
      OBVIOUS
    <3>2. Topics(bare) \subseteq Known(11)
      BY <1>3, <3>1, TopicsKnown
    <3> QED
      BY <1>5, <1>6, <3>2 DEF Retold
  <2>3. \A x \in {"background", "situation", "problem", "solution"} : x \notin Known(11)
           /\ x # "recommendation"
    BY DEF Known, LooseTopics, ChapterNames, SubTopics
  <2>4. Topics(body) = {p.topic : p \in P}
    BY <1>6, OutlineIs
  <2> QED
    BY <2>1, <2>2, <2>3, <2>4
<1>8. h \in 1..Len(body) /\ Key(body[h]) = 6
  <2>1. "terms" \in (LooseTopics(11) \ {"proposal"}) \cup {"recommendation"}
    BY DEF LooseTopics
  <2>2. PICK p \in P : Len(p.num) = 0 /\ p.topic = "terms"
    BY <1>5, <1>6, <2>1 DEF Retold
  <2>3. PICK j \in DOMAIN body : p = Sketch(body[j])
    BY <2>2 DEF Outline
  <2>4. j \in 1..Len(body) /\ body[j] \in Sec
    BY <1>6, LenProperties, ElementOfSeq
  <2>5. body[j].topic = "terms" /\ body[j].num = <<>>
    <3>1. body[j].num = p.num /\ body[j].topic = p.topic /\ p.num \in Seq(Nat)
      BY <2>3, <2>4, SketchIs DEF SketchType
    <3> QED
      BY <2>2, <3>1, Tuples
  <2>6. h \in 1..Len(body) /\ body[h].num = <<>> /\ body[h].topic = "terms"
    BY <1>6, <2>4, <2>5, HeadingIs
  <2>7. Place("terms") = 6
    BY DEF Place
  <2> QED
    BY <2>6, <2>7 DEF Key
<1> HIDE DEF h
<1>9. \A y \in ToSet(Background) : 1 < Key(y) /\ Key(y) < 6
  <2>1. \A o \in BackgroundHeads : Key(o) \in 2..5
    <3>1. /\ Place("background") = 2 /\ Place("situation") = 3 /\ Place("problem") = 4
          /\ Place("solution") = 5
      BY DEF Place
    <3> QED
      BY <3>1, LooseHeadIs DEF BackgroundHeads
  <2>2. ASSUME NEW y \in ToSet(Background) PROVE Key(y) \in 2..5
    <3>1. y \in Sec /\ Sketch(y) \in BackgroundHeads
      BY BackgroundIs, OutlineIs, Members
    <3> QED
      BY <2>1, <3>1, SketchIs
  <2> QED
    BY <2>2
<1>10. ASSUME NEW k \in 1..Len(body) PROVE Key(body[k]) <= 1 \/ 6 <= Key(body[k])
  <2>1. body[k] \in Sec /\ Sketch(body[k]) \in P
    BY <1>6, LenProperties, OutlineIs
  <2>2. Shape(12, body[k]) /\ body[k].topic \notin {"background", "situation", "problem",
           "solution"}
    BY <1>7, <2>1, SketchIs
  <2>3. 12 \in 3..12
    OBVIOUS
  <2>4. CASE LooseAt(12, body[k])
    <3>1. Key(body[k]) = Place(body[k].topic)
      BY <2>2, <2>3, <2>4, KeyOf
    <3>2. body[k].topic \in {"terms", "contents", "appendix", "recommendation"}
      BY <2>2, <2>4 DEF LooseAt, LooseTopics
    <3> DEFINE place == Place(body[k].topic)
    <3>3. place \in {6, 7, 300000, 1}
      BY <3>2 DEF Place
    <3> HIDE DEF place
    <3>4. place <= 1 \/ 6 <= place
      BY <3>3
    <3> QED
      BY <3>1, <3>4 DEF place
  <2>5. CASE ChapterOf(12, body[k])
    <3> DEFINE c == body[k].num[1]
    <3>1. c \in 0..13 /\ Key(body[k]) = 10000 * (c + 1)
      BY <2>2, <2>3, <2>5, KeyOf
    <3> HIDE DEF c
    <3> QED
      BY <3>1
  <2>6. CASE SubOf(12, body[k])
    <3> DEFINE c == body[k].num[1]
               l == body[k].num[2]
    <3>1. c \in 0..13 /\ l \in 1..9 /\ Key(body[k]) = 10000 * (c + 1) + 100 * l
      BY <2>2, <2>3, <2>6, KeyOf
    <3> HIDE DEF c, l
    <3> QED
      BY <3>1
  <2> QED
    BY <2>2, <2>4, <2>5, <2>6 DEF Shape
<1>11. new \in Seq(Sec) /\ Rising(new) /\ Outline(new) = P \cup BackgroundHeads
  <2>0. Len(body) \in Nat /\ \A k \in 1..Len(body) : Key(body[k]) \in Int
    BY <1>6, LenProperties, ElementOfSeq, KeyIsInt
  <2>1. h \in 1..(Len(body) + 1)
    BY <1>8, <2>0
  <2>2. ASSUME NEW k \in 1..(h - 1), NEW y \in ToSet(Background) PROVE Key(body[k]) < Key(y)
    <3>1. k \in 1..Len(body) /\ k < h
      BY <1>8, <2>0
    <3>2. Key(body[k]) < 6
      BY <1>6, <1>8, <3>1 DEF Rising
    <3>3. Key(body[k]) <= 1
      BY <1>10, <2>0, <3>1, <3>2
    <3>4. Key(y) \in Int
      BY BackgroundIs, Members, KeyIsInt
    <3> QED
      BY <1>9, <2>0, <3>1, <3>3, <3>4
  <2>3. ASSUME NEW k \in h..Len(body), NEW y \in ToSet(Background) PROVE Key(y) < Key(body[k])
    <3>1. k \in 1..Len(body) /\ h <= k
      BY <1>8, <2>0
    <3>2. 6 <= Key(body[k])
      BY <1>6, <1>8, <3>1, RisingOrder
    <3>4. Key(y) \in Int
      BY BackgroundIs, Members, KeyIsInt
    <3> QED
      BY <1>9, <2>0, <3>1, <3>2, <3>4
  <2> QED
    BY <1>6, <2>1, <2>2, <2>3, BackgroundIs, InsertedIs
<1> HIDE DEF new
<1>12. \A o \in BackgroundHeads : /\ Shape(12, o) /\ o.topic
                                     \in {"background", "situation", "problem", "solution"}
                                  /\ Len(o.num) = 0
  <2> SUFFICES ASSUME NEW o \in BackgroundHeads
               PROVE  /\ Shape(12, o) /\ o.topic
                         \in {"background", "situation", "problem", "solution"}
                      /\ Len(o.num) = 0
    OBVIOUS
  <2>1. /\ o.num = <<>> /\ o.marks = {}
           /\ o.topic \in {"background", "situation", "problem", "solution"}
        /\ o.level = LooseLevel(o.topic)
    BY LooseHeadIs DEF BackgroundHeads, LooseLevel
  <2>2. o.num \in Seq(Nat) /\ Len(o.num) = 0
    BY <2>1, EmptySeq
  <2>3. o.topic \in LooseTopics(12)
    BY <2>1 DEF LooseTopics
  <2>4. Noted(12, o)
    BY <2>1 DEF Noted
  <2> QED
    BY <2>1, <2>2, <2>3, <2>4 DEF Shape, LooseAt
<1>13. {o.topic : o \in BackgroundHeads} = {"background", "situation", "problem", "solution"}
  BY LooseHeadIs DEF BackgroundHeads
<1>14. OneEach(P \cup BackgroundHeads)
  <2>1. \A o, p \in BackgroundHeads : o.topic = p.topic => o = p
    BY LooseHeadIs DEF BackgroundHeads
  <2> HIDE DEF P
  <2> QED
    BY <1>7, <1>12, <2>1 DEF OneEach
<1>15. Complete(12, P \cup BackgroundHeads)
  <2>1. /\ LooseTopics(12) = (LooseTopics(11) \ {"proposal"}) \cup {"recommendation"}
                               \cup {"background", "situation", "problem", "solution"}
        /\ ChapterTopics(12) = ChapterTopics(11)
    BY DEF LooseTopics, ChapterTopics
  <2>2. ASSUME NEW topic \in LooseTopics(12)
        PROVE  \E x \in P \cup BackgroundHeads : Len(x.num) = 0 /\ x.topic = topic
    <3>1. CASE topic \in {"background", "situation", "problem", "solution"}
      <4>1. PICK o \in BackgroundHeads : o.topic = topic
        BY <1>13, <3>1
      <4> QED
        BY <1>12, <4>1
    <3>2. CASE topic \notin {"background", "situation", "problem", "solution"}
      BY <1>5, <1>6, <2>1, <3>2 DEF Retold
    <3> QED
      BY <3>1, <3>2
  <2>3. ASSUME NEW c \in 0..(Len(ChapterTopics(12)) - 1)
        PROVE  \E x \in P \cup BackgroundHeads : Len(x.num) = 1 /\ x.num[1] = c
    BY <1>5, <1>6, <2>1 DEF Retold
  <2> QED
    BY <2>2, <2>3 DEF Complete
<1>16. Layout(12, new)
  BY <1>7, <1>11, <1>12, <1>14, <1>15 DEF Layout, Drawn
<1>17. Topics(new) = (Topics(d.body) \ {"proposal"}) \cup Front5
  <2>1. Topics(new) = {p.topic : p \in P \cup BackgroundHeads} /\ Topics(body) = {p.topic : p \in P}
    BY <1>6, <1>11, OutlineIs
  <2>2. Topics(new) = Topics(body) \cup {"background", "situation", "problem", "solution"}
    BY <1>13, <2>1
  <2>3. Topics(body) = (Topics(d.body) \ {"proposal"}) \cup {"recommendation"}
    BY <1>3, <1>5, <1>6 DEF Retold
  <2> QED
    BY <2>2, <2>3 DEF Front5
<1> QED
  BY <1>1, <1>16, <1>17

-----------------------------------------------------------------------------
(* Deleting a section *)

(* The number of a section behind the one that went.                       *)
Behind(num, gone) == Len(num) = 2 /\ num[1] = gone[1] /\ num[2] > gone[2]

(* Closing the gap of a deleted section counts down the numbers behind it  *)
(* in its chapter, and only those.                                         *)
LEMMA ClosedIs ==
  ASSUME NEW num \in Seq(Nat), NEW gone \in Seq(Nat), Len(gone) >= 2
  PROVE  /\ Closed(num, gone) \in Seq(Nat) /\ Len(Closed(num, gone)) = Len(num)
         /\ Behind(num, gone) => /\ Closed(num, gone)[1] = num[1]
                                    /\ Closed(num, gone)[2] = num[2] - 1
                                 /\ num[2] \in Nat /\ gone[2] \in Nat
         /\ ~Behind(num, gone) => Closed(num, gone) = num
<1>1. ASSUME Behind(num, gone)
      PROVE  /\ Closed(num, gone) = <<num[1], num[2] - 1>> /\ Len(num) = 2
             /\ num[1] \in Nat /\ num[2] \in Nat /\ gone[2] \in Nat /\ num[2] - 1 \in Nat
  <2>1. Closed(num, gone) = <<num[1], num[2] - 1>>
    BY <1>1 DEF Behind, Closed
  <2>2. Len(num) = 2 /\ 1 \in 1..Len(num) /\ 2 \in 1..Len(num) /\ 2 \in 1..Len(gone)
    <3>1. Len(num) = 2
      BY <1>1 DEF Behind
    <3>2. Len(gone) \in Nat
      BY LenProperties
    <3> QED
      BY <3>1, <3>2
  <2>3. num[1] \in Nat /\ num[2] \in Nat /\ gone[2] \in Nat
    BY <2>2, ElementOfSeq
  <2>4. num[2] > gone[2]
    BY <1>1 DEF Behind
  <2>5. num[2] - 1 \in Nat
    BY <2>3, <2>4
  <2> QED
    BY <2>1, <2>2, <2>3, <2>5
<1>2. CASE Behind(num, gone)
  <2> DEFINE a == num[1]
             b == num[2] - 1
             t == <<a, b>>
  <2>1. a \in Nat /\ b \in Nat /\ Closed(num, gone) = t
    BY <1>1, <1>2
  <2> HIDE DEF a, b
  <2>2. t \in Seq(Nat) /\ Len(t) = 2 /\ t[1] = a /\ t[2] = b
    BY <2>1
  <2> HIDE DEF t
  <2> QED
    BY <1>1, <1>2, <2>1, <2>2 DEF a, b
<1>3. CASE ~Behind(num, gone)
  <2>1. Closed(num, gone) = num
    BY <1>3 DEF Behind, Closed
  <2> QED
    BY <1>3, <2>1
<1> QED
  BY <1>2, <1>3

(* The body without the section at i.                                      *)
Cut(body, i) == Numbering(RemoveAt(body, i), LAMBDA n : Closed(n, body[i].num))

Past(i, k) == IF k < i THEN k ELSE k + 1

Moved(x, y, gone) ==
  /\ y \in Sec /\ y.level = x.level /\ y.topic = x.topic /\ y.marks = x.marks
  /\ y.num = Closed(x.num, gone)

(* A deletion keeps every other section: those before it at their place,   *)
(* those behind it one place down.                                         *)
LEMMA CutIs ==
  ASSUME NEW body \in Seq(Sec), NEW i \in 1..Len(body), Len(body[i].num) >= 2
  PROVE  /\ Cut(body, i) \in Seq(Sec) /\ Len(Cut(body, i)) = Len(body) - 1
         /\ \A k \in 1..Len(Cut(body, i)) :
              Past(i, k) \in 1..Len(body) /\ Moved(body[Past(i, k)], Cut(body, i)[k], body[i].num)
<1> DEFINE gone == body[i].num
           left == RemoveAt(body, i)
           new == Cut(body, i)
           m == Len(body) - 1
<1>1. body[i] \in Sec /\ gone \in Seq(Nat) /\ Len(body) \in Nat /\ m \in Nat
  <2>1. body[i] \in Sec /\ Len(body) \in Nat
    BY ElementOfSeq, LenProperties
  <2>2. gone \in Seq(Nat)
    BY <2>1 DEF Sec
  <2>3. m \in Nat
    BY <2>1
  <2> QED
    BY <2>1, <2>2, <2>3
<1>2. /\ left \in Seq(Sec) /\ Len(left) = m /\ DOMAIN left = 1..m
      /\ \A k \in 1..m : left[k] = body[Past(i, k)] /\ Past(i, k) \in 1..Len(body)
  <2>1. left \in Seq(Sec) /\ Len(left) = m /\ \A k \in 1..m : left[k] = IF k < i THEN body[k]
           ELSE body[k + 1]
    BY RemoveAtIs
  <2>2. \A k \in 1..m : left[k] = body[Past(i, k)]
    BY <2>1 DEF Past
  <2>3. \A k \in 1..m : Past(i, k) \in 1..Len(body)
    BY <1>1 DEF Past
  <2>4. DOMAIN left = 1..m
    BY <2>1, LenProperties
  <2> QED
    BY <2>1, <2>2, <2>3, <2>4
<1>3. new = [k \in DOMAIN left |-> [left[k] EXCEPT !.num = Closed(@, gone)]]
  BY DEF Cut, Numbering
<1> HIDE DEF left, new, gone, m
<1>4. ASSUME NEW k \in 1..m
      PROVE  new[k] \in Sec /\ Moved(left[k], new[k], gone)
  <2> DEFINE x == left[k]
             num == Closed(x.num, gone)
  <2>1. x \in Sec /\ x.num \in Seq(Nat)
    <3>1. x \in Sec
      BY <1>2, ElementOfSeq
    <3> QED
      BY <3>1 DEF Sec
  <2>2. num \in Seq(Nat)
    BY <1>1, <2>1, ClosedIs DEF gone
  <2>3. new[k] = [x EXCEPT !.num = num]
    BY <1>2, <1>3
  <2> HIDE DEF x, num
  <2>4. /\ new[k] \in Sec /\ new[k].level = x.level /\ new[k].topic = x.topic
           /\ new[k].marks = x.marks
        /\ new[k].num = num
    BY <2>1, <2>2, <2>3 DEF Sec
  <2> QED
    BY <2>4 DEF Moved, x, num
<1>5. new = [k \in 1..m |-> new[k]]
  BY <1>2, <1>3
<1>6. new \in [1..m -> Sec]
  BY <1>4, <1>5
<1>7. new \in Seq(Sec) /\ Len(new) = m
  BY <1>1, <1>6, SeqFrom
<1> QED
  BY <1>2, <1>4, <1>7 DEF new, m, gone

(* No heading twice, and numbers as deep as their headings.                *)
Ranked(body) ==
  /\ body \in Seq(Sec) /\ Distinct(body)
  /\ \A i \in DOMAIN body : body[i].num = <<>> \/ Len(body[i].num) = body[i].level

(* Headings closed up after a deletion keep a number as deep as they are.  *)
LEMMA ClosedLong ==
  ASSUME NEW num \in Seq(Nat), NEW gone \in Seq(Nat), Len(gone) >= 2
  PROVE  Closed(num, gone) \in Seq(Nat) /\ Len(Closed(num, gone)) = Len(num)
BY ClosedIs

(* In a body whose headings have as many number parts as their level, a    *)
(* deletion keeps that so.                                                 *)
LEMMA RankedCut ==
  ASSUME NEW body, Ranked(body), NEW i \in DOMAIN body, body[i].level = 2, body[i].num # <<>>
  PROVE  Ranked(Cut(body, i))
<1> DEFINE new == Cut(body, i)
           gone == body[i].num
<1>1. /\ body \in Seq(Sec) /\ DOMAIN body = 1..Len(body) /\ Len(body) \in Nat /\ i \in 1..Len(body)
      /\ Len(gone) >= 2 /\ gone \in Seq(Nat)
  <2>1. body \in Seq(Sec) /\ DOMAIN body = 1..Len(body) /\ Len(body) \in Nat /\ Len(gone) = 2
    BY LenProperties DEF Ranked
  <2>2. body[i] \in Sec
    BY <2>1, ElementOfSeq
  <2>3. Len(gone) >= 2
    BY <2>1
  <2> DEFINE x == body[i]
  <2>5. x \in Sec
    BY <2>2
  <2>6. \A y \in Sec : y.num \in Seq(Nat)
    BY DEF Sec
  <2>4. gone \in Seq(Nat)
    BY <2>5, <2>6, Zenon
  <2> QED
    BY <2>1, <2>3, <2>4
<1>2. /\ new \in Seq(Sec) /\ Len(new) = Len(body) - 1
      /\ \A k \in 1..Len(new) : Past(i, k) \in 1..Len(body) /\ Moved(body[Past(i, k)], new[k], gone)
  BY <1>1, CutIs, Zenon DEF new, gone
<1> HIDE DEF new, gone
<1>3. DOMAIN new = 1..Len(new) /\ Len(new) \in Nat
  BY <1>2, LenProperties
<1>4. \A k, l \in 1..Len(new) : Past(i, k) = Past(i, l) => k = l
  BY <1>1, <1>3 DEF Past
<1>5. ASSUME NEW k \in 1..Len(new), NEW l \in 1..Len(new), new[k].topic = new[l].topic
      PROVE  k = l
  <2>1. body[Past(i, k)].topic = body[Past(i, l)].topic
    BY <1>2, <1>5 DEF Moved
  <2>2. Past(i, k) = Past(i, l)
    BY <1>1, <1>2, <2>1 DEF Ranked, Distinct
  <2> QED
    BY <1>4, <2>2
<1>6. ASSUME NEW k \in 1..Len(new)
      PROVE  new[k].num = <<>> \/ Len(new[k].num) = new[k].level
  <2> DEFINE x == body[Past(i, k)]
  <2>1. /\ x \in Sec /\ x.num \in Seq(Nat) /\ (x.num = <<>> \/ Len(x.num) = x.level)
        /\ new[k].level = x.level /\ new[k].num = Closed(x.num, gone)
    <3>1. x \in Sec /\ (x.num = <<>> \/ Len(x.num) = x.level)
      BY <1>1, <1>2, ElementOfSeq DEF Ranked
    <3> QED
      BY <1>2, <3>1 DEF Sec, Moved
  <2> HIDE DEF x
  <2> DEFINE num == x.num
             next == new[k].num
  <2>6. num \in Seq(Nat) /\ next = Closed(num, gone)
    BY <2>1
  <2>2. Len(next) = Len(num) /\ next \in Seq(Nat) /\ num \in Seq(Nat)
    <3> HIDE DEF num, next
    <3> QED
      BY <1>1, <2>6, ClosedLong, Zenon
  <2>3. num = <<>> \/ Len(num) = new[k].level
    BY <2>1
  <2> HIDE DEF num, next
  <2>4. num = <<>> => next = <<>>
    BY <2>2
  <2>5. next = <<>> \/ Len(next) = new[k].level
    BY <2>2, <2>3, <2>4
  <2> QED
    BY <2>5 DEF next
<1> QED
  BY <1>2, <1>3, <1>5, <1>6 DEF Ranked, Distinct, new

-----------------------------------------------------------------------------
(* A deletion keeps the layout *)

(* In a body of a layout, a heading has as many number parts as its level. *)
LEMMA LayoutRanked ==
  ASSUME NEW n \in 3..12, NEW body, Layout(n, body)
  PROVE  Ranked(body)
<1>1. body \in Seq(Sec) /\ Distinct(body) /\ DOMAIN body = 1..Len(body)
  BY DistinctIs, LenProperties DEF Layout, Drawn
<1>2. ASSUME NEW i \in DOMAIN body PROVE body[i].num = <<>> \/ Len(body[i].num) = body[i].level
  <2>1. Shape(n, body[i])
    BY <1>1, LayoutAt
  <2>2. body[i].num \in Seq(Nat)
    BY <2>1 DEF Shape
  <2> QED
    BY <2>1, <2>2, Tuples DEF Shape, LooseAt, ChapterOf, SubOf
<1> QED
  BY <1>1, <1>2 DEF Ranked

(* In a body without two alike sections, the outline tells headings apart  *)
(* by number and subject.                                                  *)
LEMMA OneEachIs ==
  ASSUME NEW body \in Seq(Sec), Distinct(body)
  PROVE  OneEach(Outline(body))
<1> SUFFICES ASSUME NEW o \in Outline(body), NEW p \in Outline(body), o.topic = p.topic PROVE o = p
  BY DEF OneEach
<1>1. PICK i \in DOMAIN body : o = Sketch(body[i])
  BY DEF Outline
<1>2. PICK j \in DOMAIN body : p = Sketch(body[j])
  BY DEF Outline
<1>3. body[i] \in Sec /\ body[j] \in Sec
  BY OutlineIs
<1>4. body[i].topic = body[j].topic
  BY <1>1, <1>2, <1>3, SketchIs
<1>5. i = j
  BY <1>4 DEF Distinct
<1> QED
  BY <1>1, <1>2, <1>5

Spanned(x, a, b, k) == 10000 * (a + 1) + 100 * b < Key(x) /\ Key(x) < 10000 * (a + 1) + 100 * k

(* Between two sections of a chapter stand sections of that chapter.       *)
LEMMA Within ==
  ASSUME NEW n \in 3..12, NEW x, Shape(n, x), NEW a \in 0..13, NEW b \in 1..9, NEW k \in 1..9,
         Spanned(x, a, b, k)
  PROVE  Len(x.num) = 2 /\ x.num[1] = a /\ x.num[2] > b
<1> USE DEF Spanned
<1>0. Key(x) \in Int
  BY KeyOf
<1>1. CASE LooseAt(n, x)
  <2>1. Key(x) < 8 \/ x.topic = "appendix"
    BY <1>1, KeyOf
  <2>2. x.topic = "appendix" => Key(x) = 300000
    BY KeyOfAppendix
  <2> QED
    BY <1>0, <2>1, <2>2
<1>2. CASE ChapterOf(n, x)
  <2> DEFINE c == x.num[1]
  <2>1. c \in 0..13 /\ Key(x) = 10000 * (c + 1)
    BY <1>2, KeyOf
  <2> HIDE DEF c
  <2> QED
    BY <1>0, <2>1
<1>3. CASE SubOf(n, x)
  <2> DEFINE c == x.num[1]
             l == x.num[2]
  <2>0. Len(x.num) = 2
    BY <1>3 DEF SubOf
  <2>1. c \in 0..13 /\ l \in 1..9 /\ Key(x) = 10000 * (c + 1) + 100 * l /\ Len(x.num) = 2
    BY <1>3, <2>0, KeyOf
  <2> HIDE DEF c, l
  <2>2. c = a /\ l > b
    BY <1>0, <2>1
  <2> QED
    BY <2>1, <2>2 DEF c, l
<1> QED
  BY <1>1, <1>2, <1>3 DEF Shape

(* So what is keyed between a deleted section and another is behind it.    *)
LEMMA SpannedBehind ==
  ASSUME NEW n \in 3..12, NEW x, Shape(n, x), NEW gone, NEW m \in 1..9,
         gone[1] \in 0..13, gone[2] \in 1..9, Spanned(x, gone[1], gone[2], m)
  PROVE  Behind(x.num, gone)
<1> DEFINE a == gone[1]
           b == gone[2]
<1>1. a \in 0..13 /\ b \in 1..9 /\ Spanned(x, a, b, m)
  OBVIOUS
<1> HIDE DEF a, b
<1>2. Len(x.num) = 2 /\ x.num[1] = a /\ x.num[2] > b
  BY <1>1, Within, Zenon
<1> QED
  BY <1>2 DEF Behind, a, b

(* A section behind a deleted one stands more than a place behind whatever *)
(* is not behind it.                                                       *)
LEMMA FarBehind ==
  ASSUME NEW n \in 3..12, NEW x, NEW z, NEW lost, Shape(n, x), Shape(n, z), SubOf(n, z),
         Shape(n, lost), SubOf(n, lost), Behind(z.num, lost.num), ~Behind(x.num, lost.num),
         Key(x) < Key(z), Key(x) # Key(lost)
  PROVE  Key(x) < Key(z) - 100
<1> DEFINE a == lost.num[1]
           b == lost.num[2]
           m == z.num[2]
<1>1. KeySub(n, z) /\ KeySub(n, lost) /\ Key(x) \in Int
  BY KeyOfSub, KeyOf
<1>2. z.num[1] = a /\ m > b
  BY DEF Behind
<1>3. /\ a \in 0..13 /\ b \in 1..9 /\ m \in 1..9
      /\ Key(lost) = 10000 * (a + 1) + 100 * b /\ Key(z) = 10000 * (a + 1) + 100 * m
  BY <1>1, <1>2 DEF KeySub
<1>4. ~Spanned(x, a, b, m)
  <2> DEFINE num == lost.num
  <2>1. num[1] \in 0..13 /\ num[2] \in 1..9 /\ a = num[1] /\ b = num[2] /\ m \in 1..9
    BY <1>3
  <2> HIDE DEF a, b, m, num
  <2>2. Spanned(x, num[1], num[2], m) => Behind(x.num, num)
    BY <2>1, SpannedBehind, Zenon
  <2> QED
    BY <2>1, <2>2, Zenon DEF num
<1> DEFINE kx == Key(x)
           kz == Key(z)
           p  == 10000 * (a + 1) + 100 * b
<1>5. kx \in Int /\ kx < kz /\ kx # p /\ ~(p < kx /\ kx < kz)
  BY <1>1, <1>3, <1>4 DEF Spanned
<1>6. p \in Int /\ kz \in Int /\ p <= kz - 100
  <2>1. kz = 10000 * (a + 1) + 100 * m
    BY <1>3
  <2> HIDE DEF a, b, m, kz
  <2> QED
    BY <1>2, <1>3, <2>1
<1> HIDE DEF kx, kz, p
<1>7. kx < kz - 100
  BY <1>5, <1>6
<1> QED
  BY <1>7 DEF kx, kz

(* What a deletion does to a heading that stays.                           *)
LEMMA MovedIs ==
  ASSUME NEW n \in 3..12, NEW x \in Sec, Shape(n, x), NEW y, NEW gone \in Seq(Nat), Len(gone) >= 2,
         gone[2] >= 1, Moved(x, y, gone)
  PROVE  /\ Shape(n, y) /\ y \in Sec
         /\ Behind(x.num, gone) => /\ Key(y) = Key(x) - 100 /\ SubOf(n, x)
         /\ ~Behind(x.num, gone) => Key(y) = Key(x) /\ y.num = x.num
         /\ Len(y.num) = Len(x.num)
<1>1. /\ y \in Sec /\ y.level = x.level /\ y.topic = x.topic /\ y.marks = x.marks
      /\ y.num = Closed(x.num, gone) /\ x.num \in Seq(Nat)
  BY DEF Moved, Shape
<1>2. y.num \in Seq(Nat) /\ Len(y.num) = Len(x.num)
  BY <1>1, ClosedLong, Zenon
<1>3. Noted(n, y)
  BY <1>1 DEF Shape, Noted
<1>4. CASE ~Behind(x.num, gone)
  <2>1. y.num = x.num
    BY <1>1, <1>4, ClosedIs
  <2>2. Shape(n, y)
    BY <1>1, <1>3, <2>1 DEF Shape, LooseAt, ChapterOf, SubOf
  <2>3. Key(y) = Key(x)
    BY <1>1, <2>1 DEF Key
  <2> QED
    BY <1>1, <1>2, <1>4, <2>1, <2>2, <2>3
<1>5. CASE Behind(x.num, gone)
  <2> DEFINE a == x.num[1]
             b == x.num[2]
             k == y.num[2]
             lost == gone[2]
  <2>0. /\ Closed(x.num, gone)[1] = x.num[1] /\ Closed(x.num, gone)[2] = x.num[2] - 1
        /\ x.num[2] \in Nat /\ gone[2] \in Nat
    BY <1>1, <1>5, ClosedIs
  <2>1. y.num[1] = a /\ k = b - 1 /\ b \in Nat /\ lost \in Nat
    BY <1>1, <2>0
  <2>2. b > lost /\ Len(x.num) = 2 /\ lost >= 1
    BY <1>5 DEF Behind
  <2>3. SubOf(n, x)
    BY <2>2 DEF Shape, LooseAt, ChapterOf
  <2>4. /\ a \in 0..13 /\ b \in 1..9 /\ b <= Room(n, a) /\ Room(n, a) \in 0..9
        /\ Key(x) = 10000 * (a + 1) + 100 * b
    <3>0. KeySub(n, x)
      BY <2>3, KeyOfSub
    <3>1. a \in 0..13 /\ b \in 1..9 /\ b <= Room(n, a) /\ Key(x) = 10000 * (a + 1) + 100 * b
      BY <3>0 DEF KeySub
    <3>4. a \in 0..13
      BY <3>1
    <3>2. a \in Nat
      <4> HIDE DEF a
      <4> QED
        BY <3>4
    <3>3. Room(n, a) \in 0..9
      BY <3>2, Rooms
    <3> QED
      BY <3>1, <3>3
  <2> DEFINE room == Room(n, a)
  <2>12. k = b - 1 /\ b \in 1..9 /\ lost \in Nat /\ b > lost /\ lost >= 1 /\ b <= room /\ room \in 0..9
    BY <2>1, <2>2, <2>4
  <2> HIDE DEF b, k, lost, room
  <2>5. k \in Nat /\ 1 <= k /\ k <= room
    BY <2>12
  <2>10. y.num[1] = a /\ y.num[2] = k /\ Len(y.num) = 2 /\ Room(n, a) = room
    BY <1>2, <2>1, <2>2 DEF k, room
  <2>11. /\ y.level = 2 /\ a \in Nat /\ a < Len(ChapterTopics(n)) /\ y.topic \in SubTopics(n)
    BY <1>1, <1>2, <2>3 DEF SubOf
  <2>6. SubOf(n, y)
    <3> DEFINE num == y.num
    <3>1. num[1] = a /\ num[2] = k /\ Len(num) = 2
      BY <2>10
    <3> HIDE DEF a, num
    <3>2. /\ Len(num) = 2 /\ num[1] \in Nat /\ num[1] < Len(ChapterTopics(n))
          /\ num[2] \in Nat /\ 1 <= num[2] /\ num[2] <= Room(n, num[1])
      BY <2>5, <2>10, <2>11, <3>1
    <3> QED
      BY <2>11, <3>2 DEF SubOf, num
  <2>7. Shape(n, y)
    BY <1>2, <1>3, <2>6 DEF Shape
  <2>13. KeySub(n, y)
    BY <2>6, <2>7, KeyOfSub
  <2>8. Key(y) = 10000 * (y.num[1] + 1) + 100 * k
    BY <2>13 DEF k, KeySub
  <2> HIDE DEF a
  <2>9. Key(y) = Key(x) - 100
    BY <2>1, <2>4, <2>8
  <2> QED
    BY <1>1, <1>2, <1>5, <2>3, <2>7, <2>9
<1> QED
  BY <1>4, <1>5

(* A body keeps its layout when a numbered second-level section is deleted *)
(* and the gap closed.                                                     *)
LEMMA LayoutCut ==
  ASSUME NEW n \in 3..12, NEW body, Layout(n, body), NEW i \in DOMAIN body,
         body[i].level = 2, body[i].num # <<>>
  PROVE  Layout(n, Cut(body, i))
<1> DEFINE new == Cut(body, i)
           gone == body[i].num
           a == gone[1]
           b == gone[2]
<1>1. /\ body \in Seq(Sec) /\ DOMAIN body = 1..Len(body) /\ Rising(body) /\ Len(body) \in Nat
      /\ i \in 1..Len(body) /\ Ranked(body)
  BY LayoutRanked, LenProperties DEF Layout
<1>2. Shape(n, body[i]) /\ body[i] \in Sec
  BY <1>1, LayoutAt
<1>3. gone \in Seq(Nat) /\ SubOf(n, body[i]) /\ Len(gone) = 2
  <2>1. gone \in Seq(Nat) /\ gone # <<>>
    BY <1>2 DEF Shape
  <2>2. ~LooseAt(n, body[i])
    BY <2>1, Tuples DEF LooseAt
  <2>3. ~ChapterOf(n, body[i])
    BY DEF ChapterOf
  <2> QED
    BY <1>2, <2>1, <2>2, <2>3 DEF Shape, SubOf
<1> DEFINE lost == body[i]
<1>4. a \in 0..13 /\ b \in 1..9 /\ Key(body[i]) = 10000 * (a + 1) + 100 * b
  <2>1. Shape(n, lost) /\ SubOf(n, lost)
    BY <1>2, <1>3
  <2> HIDE DEF lost
  <2>2. KeySub(n, lost)
    BY <2>1, KeyOfSub
  <2> QED
    BY <2>2 DEF lost, KeySub
<1>5. Len(gone) >= 2 /\ gone[2] >= 1
  <2>1. Len(gone) = 2 /\ b \in 1..9
    BY <1>3, <1>4
  <2> HIDE DEF gone
  <2> QED
    BY <2>1
<1>6. /\ new \in Seq(Sec) /\ Len(new) = Len(body) - 1
      /\ \A k \in 1..Len(new) : Past(i, k) \in 1..Len(body) /\ Moved(body[Past(i, k)], new[k], gone)
  BY <1>1, <1>5, CutIs, Zenon
<1>7. Distinct(new)
  BY <1>1, RankedCut DEF Ranked
<1> HIDE DEF new, gone
<1>8. Len(new) \in Nat /\ DOMAIN new = 1..Len(new)
  BY <1>6, LenProperties
<1>9. ASSUME NEW k \in 1..Len(new)
      PROVE  LET x == body[Past(i, k)]
             IN  /\ Shape(n, x) /\ x \in Sec /\ Past(i, k) # i
                 /\ Shape(n, new[k]) /\ new[k] \in Sec
                 /\ Behind(x.num, gone) => Key(new[k]) = Key(x) - 100 /\ SubOf(n, x)
                 /\ ~Behind(x.num, gone) => Key(new[k]) = Key(x) /\ new[k].num = x.num
                 /\ Key(x) \in Int /\ Key(new[k]) \in Int
  <2> DEFINE x == body[Past(i, k)]
  <2>1. Shape(n, x) /\ x \in Sec
    BY <1>6, LayoutAt
  <2>2. Past(i, k) # i
    BY <1>1, <1>8 DEF Past
  <2>3. Moved(x, new[k], gone)
    BY <1>6
  <2> HIDE DEF x
  <2>4. /\ Shape(n, new[k]) /\ new[k] \in Sec
        /\ Behind(x.num, gone) => Key(new[k]) = Key(x) - 100 /\ SubOf(n, x)
        /\ ~Behind(x.num, gone) => Key(new[k]) = Key(x) /\ new[k].num = x.num
    BY <1>3, <1>5, <2>1, <2>3, MovedIs
  <2>5. Key(x) \in Int /\ Key(new[k]) \in Int
    BY <2>1, <2>4, KeyOf
  <2> QED
    BY <2>1, <2>2, <2>4, <2>5 DEF x
<1>10. Rising(new)
  <2> SUFFICES ASSUME NEW k \in 1..Len(new), NEW l \in 1..Len(new), k < l
               PROVE  Key(new[k]) < Key(new[l])
    BY DEF Rising
  <2> DEFINE x == body[Past(i, k)]
             z == body[Past(i, l)]
  <2>1. Past(i, k) \in 1..Len(body) /\ Past(i, l) \in 1..Len(body) /\ Past(i, k) < Past(i, l)
    BY <1>1, <1>6, <1>8 DEF Past
  <2>2. Key(x) < Key(z)
    BY <1>1, <2>1 DEF Rising
  <2>3. /\ Behind(x.num, gone) => Key(new[k]) = Key(x) - 100
        /\ ~Behind(x.num, gone) => Key(new[k]) = Key(x)
        /\ Key(x) \in Int /\ Key(new[k]) \in Int /\ Past(i, k) # i
    BY <1>9
  <2>4. /\ Behind(z.num, gone) => Key(new[l]) = Key(z) - 100 /\ SubOf(n, z) /\ Shape(n, z)
        /\ ~Behind(z.num, gone) => Key(new[l]) = Key(z)
        /\ Key(z) \in Int /\ Key(new[l]) \in Int
    BY <1>9
  <2>5. Key(x) # Key(body[i])
    BY <1>1, <2>1, <2>3, RisingOrder
  <2>6. Shape(n, x)
    BY <1>9
  <2> HIDE DEF x, z
  <2> DEFINE kx == Key(x)
             kz == Key(z)
             kk == Key(new[k])
             kl == Key(new[l])
  <2>7. CASE ~Behind(z.num, gone)
    <3>1. kk <= kx /\ kl = kz /\ kx < kz /\ {kx, kz, kk, kl} \subseteq Int
      <4>1. CASE Behind(x.num, gone)
        <5>1. kk = kx - 100 /\ kl = kz /\ kx < kz /\ {kx, kz, kk, kl} \subseteq Int
          BY <2>2, <2>3, <2>4, <2>7, <4>1
        <5> HIDE DEF kk, kx, kl, kz
        <5> QED
          BY <5>1
      <4>2. CASE ~Behind(x.num, gone)
        <5>1. kk = kx /\ kl = kz /\ kx < kz /\ {kx, kz, kk, kl} \subseteq Int
          BY <2>2, <2>3, <2>4, <2>7, <4>2
        <5> HIDE DEF kk, kx, kl, kz
        <5> QED
          BY <5>1
      <4> QED
        BY <4>1, <4>2
    <3>2. kk < kl
      <4> HIDE DEF kk, kx, kl, kz
      <4> QED
        BY <3>1
    <3> QED
      BY <3>2
  <2>8. CASE Behind(z.num, gone) /\ Behind(x.num, gone)
    <3>1. kk = kx - 100 /\ kl = kz - 100 /\ kx < kz /\ {kx, kz, kk, kl} \subseteq Int
      BY <2>2, <2>3, <2>4, <2>8
    <3>2. kk < kl
      <4> HIDE DEF kk, kx, kl, kz
      <4> QED
        BY <3>1
    <3> QED
      BY <3>2
  <2>9. CASE Behind(z.num, gone) /\ ~Behind(x.num, gone)
    <3>1. Shape(n, z) /\ SubOf(n, z) /\ Shape(n, lost) /\ SubOf(n, lost) /\ gone = lost.num
      BY <1>2, <1>3, <2>4, <2>9 DEF gone
    <3>2. Key(x) # Key(lost)
      BY <2>5
    <3> HIDE DEF lost
    <3>4. Key(x) < Key(z) - 100
      BY <2>2, <2>6, <2>9, <3>1, <3>2, FarBehind
    <3> QED
      BY <2>3, <2>4, <2>9, <3>4
  <2> QED
    BY <2>7, <2>8, <2>9
<1>11. \A p \in Outline(new) : Shape(n, p)
  <2> SUFFICES ASSUME NEW k \in 1..Len(new) PROVE Shape(n, Sketch(new[k]))
    BY <1>8 DEF Outline
  <2>1. Shape(n, new[k]) /\ new[k] \in Sec
    BY <1>9
  <2> QED
    BY <2>1, SketchIs
<1>12. ASSUME NEW o \in Outline(body), Len(o.num) \in {0, 1}
       PROVE  \E p \in Outline(new) : p.num = o.num /\ p.topic = o.topic
  <2>1. PICK j \in DOMAIN body : o = Sketch(body[j])
    BY DEF Outline
  <2>2. j \in 1..Len(body) /\ body[j] \in Sec
    BY <1>1, ElementOfSeq
  <2>3. o.num = body[j].num /\ o.topic = body[j].topic
    BY <2>1, <2>2, SketchIs
  <2>4. j # i
    <3>1. ASSUME j = i PROVE FALSE
      <4>1. o.num = gone
        BY <2>3, <3>1 DEF gone
      <4>2. Len(gone) \in {0, 1}
        BY <1>12, <4>1
      <4> QED
        BY <1>3, <4>2
    <3> QED
      BY <3>1
  <2> DEFINE k == IF j < i THEN j ELSE j - 1
  <2>5. k \in 1..Len(new) /\ Past(i, k) = j
    BY <1>1, <1>6, <1>8, <2>2, <2>4 DEF Past
  <2> HIDE DEF k
  <2>6. ~Behind(body[j].num, gone)
    BY <1>12, <2>3 DEF Behind
  <2>7. new[k].num = body[j].num /\ new[k] \in Sec
    BY <1>9, <2>5, <2>6
  <2>8. new[k].topic = body[j].topic
    BY <1>6, <2>5 DEF Moved
  <2>9. Sketch(new[k]) \in Outline(new) /\ Sketch(new[k]).num = o.num
           /\ Sketch(new[k]).topic = o.topic
    BY <1>6, <1>8, <2>3, <2>5, <2>7, <2>8, SketchIs, OutlineIs
  <2> QED
    BY <2>9
<1>13. Complete(n, Outline(new))
  <2>0. Complete(n, Outline(body))
    BY DEF Layout, Drawn
  <2>1. ASSUME NEW topic \in LooseTopics(n)
        PROVE  \E x \in Outline(new) : Len(x.num) = 0 /\ x.topic = topic
    <3>1. PICK o \in Outline(body) : Len(o.num) = 0 /\ o.topic = topic
      BY <2>0 DEF Complete
    <3> QED
      BY <1>12, <3>1
  <2>2. ASSUME NEW c \in 0..(Len(ChapterTopics(n)) - 1)
        PROVE  \E x \in Outline(new) : Len(x.num) = 1 /\ x.num[1] = c
    <3>1. PICK o \in Outline(body) : Len(o.num) = 1 /\ o.num[1] = c
      BY <2>0 DEF Complete
    <3> QED
      BY <1>12, <3>1
  <2> QED
    BY <2>1, <2>2 DEF Complete
<1>14. Layout(n, new)
  BY <1>6, <1>7, <1>10, <1>11, <1>13, OneEachIs DEF Layout, Drawn
<1> QED
  BY <1>14 DEF new

-----------------------------------------------------------------------------
(* Chapters that move: v1.9 and v2.0 *)

(* How v1.9 and v2.0 number the chapters of the version they read.         *)
Moves(n) == IF n = 8 THEN V19Chapters ELSE V20Chapters

(* v1.9 and v2.0 move each chapter to where its subject stands in the new  *)
(* list of chapters; the last stays last.                                  *)
LEMMA ChaptersMoved ==
  ASSUME NEW n \in 8..9, NEW c, c \in 0..(Len(ChapterTopics(n)) - 1)
  PROVE  /\ c \in DOMAIN Moves(n) /\ Moves(n)[c] \in 0..(Len(ChapterTopics(n + 1)) - 1)
         /\ ChapterTopics(n + 1)[Moves(n)[c] + 1] = ChapterTopics(n)[c + 1]
         /\ c + 1 = Len(ChapterTopics(n)) <=> Moves(n)[c] + 1 = Len(ChapterTopics(n + 1))
<1> DEFINE list  == ChapterTopics(n)
           list2 == ChapterTopics(n + 1)
           top   == Len(list)
           top2  == Len(list2)
<1>0. c \in 0..(top - 1)
  OBVIOUS
<1>1. CASE n = 8
  <2>1. /\ list = Chapters13 /\ list2 = Chapters19 /\ top = 12 /\ top2 = 13
           /\ Moves(n) = V19Chapters
    BY <1>1, ChapterLists DEF ChapterTopics, Moves
  <2> HIDE DEF list, list2, top, top2
  <2>2. c \in 0..11
    BY <1>0, <2>1
  <2>3. /\ c \in DOMAIN V19Chapters /\ V19Chapters[c] \in 0..12
        /\ Chapters19[V19Chapters[c] + 1] = Chapters13[c + 1]
        /\ c = 11 <=> V19Chapters[c] = 12
    <3>1. CASE c = 0
      BY <3>1 DEF V19Chapters, Chapters13, Chapters19
    <3>2. CASE c = 1
      BY <3>2 DEF V19Chapters, Chapters13, Chapters19
    <3>3. CASE c = 2
      BY <3>3 DEF V19Chapters, Chapters13, Chapters19
    <3>4. CASE c = 3
      BY <3>4 DEF V19Chapters, Chapters13, Chapters19
    <3>5. CASE c = 4
      BY <3>5 DEF V19Chapters, Chapters13, Chapters19
    <3>6. CASE c = 5
      BY <3>6 DEF V19Chapters, Chapters13, Chapters19
    <3>7. CASE c \in 6..11
      BY <3>7 DEF V19Chapters, Chapters13, Chapters19
    <3> QED
      BY <2>2, <3>1, <3>2, <3>3, <3>4, <3>5, <3>6, <3>7
  <2> DEFINE b == V19Chapters[c]
  <2>4. b \in 0..(top2 - 1) /\ (c + 1 = top <=> b + 1 = top2)
    <3> HIDE DEF b
    <3>1. b \in 0..12 /\ (c = 11 <=> b = 12)
      BY <2>3 DEF b
    <3> QED
      BY <2>1, <2>2, <3>1
  <2> QED
    BY <2>1, <2>3, <2>4 DEF list, list2, top, top2
<1>2. CASE n = 9
  <2>1. /\ list = Chapters19 /\ list2 = Chapters20 /\ top = 13 /\ top2 = 14
           /\ Moves(n) = V20Chapters
    BY <1>2, ChapterLists DEF ChapterTopics, Moves
  <2> HIDE DEF list, list2, top, top2
  <2>2. c \in 0..12
    BY <1>0, <2>1
  <2>3. /\ c \in DOMAIN V20Chapters /\ V20Chapters[c] \in 0..13
        /\ Chapters20[V20Chapters[c] + 1] = Chapters19[c + 1]
        /\ c = 12 <=> V20Chapters[c] = 13
    <3>1. CASE c \in 0..4
      BY <3>1 DEF V20Chapters, Chapters19, Chapters20
    <3>2. CASE c \in 5..12
      BY <3>2 DEF V20Chapters, Chapters19, Chapters20
    <3> QED
      BY <2>2, <3>1, <3>2
  <2> DEFINE b == V20Chapters[c]
  <2>4. b \in 0..(top2 - 1) /\ (c + 1 = top <=> b + 1 = top2)
    <3> HIDE DEF b
    <3>1. b \in 0..13 /\ (c = 12 <=> b = 13)
      BY <2>3 DEF b
    <3> QED
      BY <2>1, <2>2, <3>1
  <2> QED
    BY <2>1, <2>3, <2>4 DEF list, list2, top, top2
<1> QED
  BY <1>1, <1>2

(* Every place of the new list but the newcomer's is that of an old        *)
(* chapter.                                                                *)
LEMMA ChaptersMet ==
  ASSUME NEW n \in 8..9, NEW c, c \in 0..(Len(ChapterTopics(n + 1)) - 1),
         ~(n = 8 /\ c = 2), ~(n = 9 /\ c = 5)
  PROVE  \E b \in 0..(Len(ChapterTopics(n)) - 1) : Moves(n)[b] = c
<1> DEFINE top   == Len(ChapterTopics(n))
           top2  == Len(ChapterTopics(n + 1))
<1>0. c \in 0..(top2 - 1)
  OBVIOUS
<1>1. CASE n = 8
  <2>1. /\ top = 12 /\ top2 = 13 /\ Moves(n) = V19Chapters
    BY <1>1, ChapterLists DEF ChapterTopics, Moves
  <2> HIDE DEF top, top2
  <2>2. c \in 0..12 /\ c # 2
    BY <1>0, <1>1, <2>1
  <2> DEFINE b == IF c = 5 THEN 2 ELSE IF c = 4 THEN 3 ELSE IF c = 6 THEN 4 ELSE IF c = 3 THEN 5
                  ELSE IF c >= 7 THEN c - 1 ELSE c
  <2>3. b \in 0..11 /\ V19Chapters[b] = c
    BY <2>2 DEF V19Chapters
  <2> HIDE DEF b
  <2>4. b \in 0..(top - 1)
    BY <2>1, <2>3
  <2>5. Moves(n)[b] = c
    BY <2>1, <2>3
  <2> QED
    BY <2>4, <2>5 DEF top
<1>2. CASE n = 9
  <2>1. /\ top = 13 /\ top2 = 14 /\ Moves(n) = V20Chapters
    BY <1>2, ChapterLists DEF ChapterTopics, Moves
  <2> HIDE DEF top, top2
  <2>2. c \in 0..13 /\ c # 5
    BY <1>0, <1>2, <2>1
  <2> DEFINE b == IF c <= 4 THEN c ELSE c - 1
  <2>3. b \in 0..12 /\ V20Chapters[b] = c
    BY <2>2 DEF V20Chapters
  <2> HIDE DEF b
  <2>4. b \in 0..(top - 1)
    BY <2>1, <2>3
  <2>5. Moves(n)[b] = c
    BY <2>1, <2>3
  <2> QED
    BY <2>4, <2>5 DEF top
<1> QED
  BY <1>1, <1>2

(* Moving a number to another chapter changes its first part and no other. *)
LEMMA InChapterIs ==
  ASSUME NEW map, DOMAIN map \in SUBSET Nat, \A c \in DOMAIN map : map[c] \in Nat,
     NEW num \in Seq(Nat)
  PROVE  /\ InChapter(map, num) \in Seq(Nat) /\ Len(InChapter(map, num)) = Len(num)
         /\ num = <<>> => InChapter(map, num) = <<>>
         /\ num # <<>> /\ num[1] \in DOMAIN map => InChapter(map, num)[1] = map[num[1]]
         /\ num # <<>> /\ num[1] \notin DOMAIN map => InChapter(map, num) = num
         /\ Len(num) >= 2 => InChapter(map, num)[2] = num[2]
<1>1. Len(num) \in Nat /\ DOMAIN num = 1..Len(num) /\ (num # <<>> => 1 \in 1..Len(num))
  BY LenProperties, EmptySeq
<1>2. CASE num # <<>> /\ num[1] \in DOMAIN map
  <2> DEFINE c == map[num[1]]
             new == [num EXCEPT ![1] = c]
  <2>1. InChapter(map, num) = new /\ c \in Nat
    BY <1>2 DEF InChapter
  <2> HIDE DEF c
  <2>2. new \in Seq(Nat) /\ Len(new) = Len(num)
    BY <1>1, <1>2, <2>1, ExceptSeq
  <2>3. new[1] = c
    BY <1>1, <1>2
  <2>4. Len(num) >= 2 => new[2] = num[2]
    BY <1>1
  <2> HIDE DEF new
  <2> QED
    BY <1>2, <2>1, <2>2, <2>3, <2>4 DEF c
<1>3. CASE ~(num # <<>> /\ num[1] \in DOMAIN map)
  BY <1>3 DEF InChapter
<1> QED
  BY <1>2, <1>3

(* A heading of the version read, renumbered with its chapter.             *)
Carried(n, x, y) ==
  /\ y \in Sec /\ y.topic = x.topic /\ y.level = x.level
  /\ y.num = InChapter(Moves(n), x.num) /\ Noted(n + 1, y)

Shifted(n, x, y) ==
  /\ Shape(n + 1, y) /\ Len(y.num) = Len(x.num)
  /\ x.num = <<>> => y.num = <<>> /\ Key(y) = Key(x)
  /\ x.num # <<>> => /\ x.num[1] \in 0..(Len(ChapterTopics(n)) - 1)
                     /\ y.num[1] = Moves(n)[x.num[1]]
                     /\ Key(y) = Key(x) + 10000 * (y.num[1] - x.num[1])

(* A heading carried along with its chapter fits the layout moved to the   *)
(* new chapter.                                                            *)
LEMMA CarriedIs ==
  ASSUME NEW n \in 8..9, NEW x, Shape(n, x), NEW y, Carried(n, x, y)
  PROVE  Shifted(n, x, y)
<1> DEFINE top == Len(ChapterTopics(n))
           map == Moves(n)
           c == x.num[1]
<1>0. n \in 3..12 /\ n + 1 \in 3..12 /\ top \in 12..14 /\ n + 1 \in 9..10
  <2>1. n \in 3..12 /\ n + 1 \in 3..12 /\ n + 1 \in 9..10
    OBVIOUS
  <2> QED
    BY <2>1, Tops
<1>1. DOMAIN map \in SUBSET Nat /\ (\A k \in DOMAIN map : map[k] \in Nat)
  BY DEF Moves, V19Chapters, V20Chapters
<1>2. x.num \in Seq(Nat)
  BY DEF Shape
<1>3. /\ y.num \in Seq(Nat) /\ Len(y.num) = Len(x.num)
      /\ x.num = <<>> => y.num = <<>>
      /\ x.num # <<>> /\ c \in DOMAIN map => y.num[1] = map[c]
      /\ Len(x.num) >= 2 => y.num[2] = x.num[2]
  <2> DEFINE num == x.num
  <2>1. y.num = InChapter(map, num) /\ num \in Seq(Nat)
    BY <1>2 DEF Carried
  <2> HIDE DEF map, num
  <2>2. /\ y.num \in Seq(Nat) /\ Len(y.num) = Len(num)
        /\ num = <<>> => y.num = <<>>
        /\ num # <<>> /\ num[1] \in DOMAIN map => y.num[1] = map[num[1]]
        /\ Len(num) >= 2 => y.num[2] = num[2]
    <3> DEFINE new == InChapter(map, num)
    <3>1. /\ new \in Seq(Nat) /\ Len(new) = Len(num)
          /\ num = <<>> => new = <<>>
          /\ num # <<>> /\ num[1] \in DOMAIN map => new[1] = map[num[1]]
          /\ Len(num) >= 2 => new[2] = num[2]
      BY <1>1, <2>1, InChapterIs
    <3> HIDE DEF new
    <3> QED
      BY <2>1, <3>1 DEF new
  <2> QED
    BY <2>2 DEF num
<1>4. y.topic = x.topic /\ y.level = x.level /\ Noted(n + 1, y)
  BY DEF Carried
<1>5. CASE LooseAt(n, x)
  <2>1. x.num = <<>> /\ y.num = <<>>
    BY <1>2, <1>3, <1>5, Tuples DEF LooseAt
  <2>2. x.topic \in LooseTopics(n + 1)
    BY <1>5 DEF LooseAt, LooseTopics
  <2>3. LooseAt(n + 1, y)
    BY <1>3, <1>4, <1>5, <2>2 DEF LooseAt
  <2>4. Key(y) = Key(x)
    BY <1>4, <2>1 DEF Key
  <2> QED
    BY <1>3, <1>4, <2>1, <2>3, <2>4 DEF Shape, Shifted
<1>6. ASSUME Len(x.num) \in {1, 2}, c \in Nat, c < top
      PROVE  /\ x.num # <<>> /\ c \in 0..(top - 1) /\ y.num[1] = map[c] /\ map[c] \in Nat
             /\ map[c] < Len(ChapterTopics(n + 1))
             /\ ChapterTopics(n + 1)[map[c] + 1] = ChapterTopics(n)[c + 1]
             /\ c + 1 = top <=> map[c] + 1 = Len(ChapterTopics(n + 1))
  <2>1. x.num # <<>>
    BY <1>6, EmptySeq
  <2>2. c \in 0..(top - 1)
    BY <1>0, <1>6
  <2>3. Len(ChapterTopics(n + 1)) \in 12..14
    BY <1>0, Tops
  <2>4. /\ c \in DOMAIN map /\ map[c] \in 0..(Len(ChapterTopics(n + 1)) - 1)
        /\ ChapterTopics(n + 1)[map[c] + 1] = ChapterTopics(n)[c + 1]
        /\ c + 1 = top <=> map[c] + 1 = Len(ChapterTopics(n + 1))
    BY <2>2, ChaptersMoved
  <2>5. map[c] \in Nat /\ map[c] < Len(ChapterTopics(n + 1))
    <3> DEFINE k == map[c]
               l == Len(ChapterTopics(n + 1))
    <3>1. k \in 0..(l - 1) /\ l \in 12..14
      BY <2>3, <2>4
    <3> HIDE DEF k, l
    <3>2. k \in Nat /\ k < l
      BY <3>1
    <3> QED
      BY <3>2 DEF k, l
  <2> QED
    BY <1>3, <2>1, <2>2, <2>4, <2>5
<1>7. CASE ChapterOf(n, x)
  <2>1. Len(x.num) = 1 /\ c \in Nat /\ c < top
    BY <1>7 DEF ChapterOf
  <2>2. /\ x.num # <<>> /\ c \in 0..(top - 1) /\ y.num[1] = map[c] /\ map[c] \in Nat
        /\ map[c] < Len(ChapterTopics(n + 1))
        /\ ChapterTopics(n + 1)[map[c] + 1] = ChapterTopics(n)[c + 1]
    BY <1>6, <2>1
  <2>3. ChapterOf(n + 1, y)
    BY <1>3, <1>4, <1>7, <2>1, <2>2 DEF ChapterOf
  <2>4. Shape(n + 1, y)
    BY <1>3, <1>4, <2>3 DEF Shape
  <2>5. Key(x) = 10000 * (c + 1) /\ Key(y) = 10000 * (y.num[1] + 1)
    BY <1>0, <1>7, <2>3, <2>4, KeyOf
  <2> DEFINE a == y.num[1]
             kx == Key(x)
             ky == Key(y)
  <2>6. ky = kx + 10000 * (a - c)
    <3>1. a \in Nat /\ c \in Nat /\ kx = 10000 * (c + 1) /\ ky = 10000 * (a + 1)
      BY <2>1, <2>2, <2>5
    <3> HIDE DEF a, c, kx, ky
    <3> QED
      BY <3>1
  <2> QED
    BY <1>3, <2>2, <2>4, <2>6 DEF Shifted
<1>8. CASE SubOf(n, x)
  <2>1. Len(x.num) = 2 /\ c \in Nat /\ c < top
    BY <1>8 DEF SubOf
  <2>2. /\ x.num # <<>> /\ c \in 0..(top - 1) /\ y.num[1] = map[c] /\ map[c] \in Nat
        /\ map[c] < Len(ChapterTopics(n + 1))
        /\ c + 1 = top <=> map[c] + 1 = Len(ChapterTopics(n + 1))
    BY <1>6, <2>1
  <2>3. x.num[2] \in 1..9 /\ x.num[2] <= Room(n, c) /\ Key(x) = 10000 * (c + 1) + 100 * x.num[2]
    BY <1>0, <1>8, KeyOf
  <2>4. c + 1 # top
    <3>1. c + 1 = top => Room(n, c) = 0
      BY DEF Room
    <3> DEFINE b == x.num[2]
               room == Room(n, c)
    <3>2. b \in 1..9 /\ b <= room /\ (c + 1 = top => room = 0)
      BY <2>3, <3>1
    <3> HIDE DEF b, room, c, top
    <3> QED
      BY <3>2
  <2>5. Room(n + 1, map[c]) = 9
    BY <1>0, <2>2, <2>4 DEF Room
  <2>6. x.topic \in SubTopics(n + 1)
    BY <1>8 DEF SubOf, SubTopics
  <2>7. SubOf(n + 1, y)
    <3>1. Len(y.num) = 2 /\ y.level = 2 /\ y.topic \in SubTopics(n + 1)
      BY <1>3, <1>4, <1>8, <2>1, <2>6 DEF SubOf
    <3>2. y.num[1] \in Nat /\ y.num[1] < Len(ChapterTopics(n + 1))
      BY <2>2
    <3>3. y.num[2] = x.num[2]
      BY <1>3, <2>1
    <3>4. Room(n + 1, y.num[1]) = 9
      BY <2>2, <2>5
    <3> DEFINE b == x.num[2]
               room == Room(n + 1, y.num[1])
    <3>5. b \in 1..9 /\ y.num[2] = b /\ room = 9
      BY <2>3, <3>3, <3>4
    <3> HIDE DEF b, room
    <3>6. y.num[2] \in Nat /\ 1 <= y.num[2] /\ y.num[2] <= room
      BY <3>5
    <3> QED
      BY <3>1, <3>2, <3>6 DEF SubOf, room
  <2>8. Shape(n + 1, y)
    BY <1>3, <1>4, <2>7 DEF Shape
  <2>9. Key(y) = 10000 * (y.num[1] + 1) + 100 * y.num[2] /\ y.num[2] = x.num[2]
    BY <1>0, <1>3, <2>1, <2>7, <2>8, KeyOf, SMTT(20)
  <2> DEFINE a == y.num[1]
             b == x.num[2]
             kx == Key(x)
             ky == Key(y)
  <2>10. ky = kx + 10000 * (a - c)
    <3>1. a \in Nat /\ c \in Nat /\ b \in 1..9 /\ kx = 10000 * (c + 1) + 100 * b
          /\ ky = 10000 * (a + 1) + 100 * b
      BY <2>1, <2>2, <2>3, <2>9
    <3> HIDE DEF a, b, c, kx, ky
    <3> QED
      BY <3>1
  <2> QED
    BY <1>3, <2>2, <2>8, <2>10 DEF Shifted
<1> QED
  BY <1>5, <1>7, <1>8 DEF Shape

(* Putting references where a mark stands changes nothing the layout       *)
(* speaks of.                                                              *)
LEMMA CitedAt ==
  ASSUME NEW body \in Seq(Sec), NEW mark, NEW refs \in SUBSET Cite
  PROVE  LET new == CitingAt(body, mark, refs)
         IN  /\ new = [k \in DOMAIN body |-> new[k]]
             /\ \A k \in DOMAIN body : Same(body[k], new[k]) /\ new[k].marks = body[k].marks
<1> DEFINE i == FirstWith(body, mark)
           new == CitingAt(body, mark, refs)
           more(x) == [x EXCEPT !.refs = @ \cup refs]
<1>1. \A k \in DOMAIN body : body[k] \in Sec
  BY LenProperties
<1>2. new = IF i = 0 THEN body ELSE [body EXCEPT ![i].refs = @ \cup refs]
  BY DEF CitingAt, FirstWith
<1>3. i # 0 => i \in DOMAIN body
  BY FirstWithIs, LenProperties
<1>4. ASSUME NEW x \in Sec PROVE Same(x, more(x)) /\ more(x).marks = x.marks
  <2>1. x.refs \cup refs \in SUBSET Cite
    BY DEF Sec
  <2> DEFINE all == x.refs \cup refs
  <2>2. more(x) = [x EXCEPT !.refs = all]
    OBVIOUS
  <2>3. Same(x, [x EXCEPT !.refs = all])
    <3> HIDE DEF all
    <3> QED
      BY <2>1, SameCited DEF all
  <2>4. more(x).marks = x.marks
    BY DEF Sec
  <2> QED
    BY <2>2, <2>3, <2>4
<1>5. \A x \in Sec : Same(x, x)
  BY SameSelf
<1>6. CASE i # 0
  <2> HIDE DEF i
  <2>1. new = [k \in DOMAIN body |-> IF k = i THEN more(body[k]) ELSE body[k]]
    BY <1>2, <1>3, <1>6
  <2> HIDE DEF new, more
  <2>2. \A k \in DOMAIN body : new[k] = IF k = i THEN more(body[k]) ELSE body[k]
    BY <2>1
  <2>3. new = [k \in DOMAIN body |-> new[k]]
    BY <2>1
  <2>4. \A k \in DOMAIN body : Same(body[k], new[k]) /\ new[k].marks = body[k].marks
    BY <1>1, <1>4, <1>5, <2>2
  <2> QED
    BY <2>3, <2>4 DEF new
<1>7. CASE i = 0
  <2>1. new = body
    BY <1>2, <1>7
  <2>2. body = [k \in DOMAIN body |-> body[k]]
    OBVIOUS
  <2> HIDE DEF new
  <2> QED
    BY <1>1, <1>5, <2>1, <2>2 DEF new
<1> QED
  BY <1>6, <1>7

(* The reference maps of v1.9 and v2.0 turn numbers into numbers.          *)
LEMMA ReferencesStay ==
  ASSUME NEW num \in Seq(Nat)
  PROVE  V19Reference(num) \in Seq(Nat) /\ V20Reference(num) \in Seq(Nat)
<1>1. V19Reference(num) \in Seq(Nat)
  <2>1. CASE num \in DOMAIN V19Tokens
    <3>1. V19Reference(num) = IF num = <<5, 1>> THEN <<3, 1>> ELSE <<11, num[2]>>
      BY <2>1 DEF V19Reference, V19Tokens
    <3>2. <<3, 1>> \in Seq(Nat)
      OBVIOUS
    <3>3. num[2] \in Nat
      <4>1. num \in {<<5, 1>>, <<10, 1>>, <<10, 2>>, <<10, 3>>, <<10, 5>>}
        BY <2>1 DEF V19Tokens
      <4> QED
        BY <4>1
    <3> DEFINE k == num[2]
    <3>4. <<11, k>> \in Seq(Nat)
      <4>1. k \in Nat
        BY <3>3
      <4> HIDE DEF k
      <4> QED
        BY <4>1
    <3> QED
      BY <3>1, <3>2, <3>4
  <2>2. CASE num \notin DOMAIN V19Tokens
    BY <2>2 DEF V19Reference
  <2> QED
    BY <2>1, <2>2
<1>2. V20Reference(num) \in Seq(Nat)
  <2>1. CASE num \in DOMAIN V20Special
    <3>1. num \in {<<11, 5>>, <<11, 4>>, <<11, 3>>}
      BY <2>1 DEF V20Special
    <3>2. V20Special[num] \in {<<5, 1>>, <<5, 2>>, <<5, 3>>}
      BY <3>1 DEF V20Special
    <3>3. <<5, 1>> \in Seq(Nat) /\ <<5, 2>> \in Seq(Nat) /\ <<5, 3>> \in Seq(Nat)
      OBVIOUS
    <3>4. V20Special[num] \in Seq(Nat)
      BY <3>2, <3>3
    <3> QED
      BY <2>1, <3>4 DEF V20Reference
  <2>2. CASE num \notin DOMAIN V20Special
    <3>1. DOMAIN V20Chapters \in SUBSET Nat /\ \A c \in DOMAIN V20Chapters : V20Chapters[c] \in Nat
      BY DEF V20Chapters
    <3>2. InChapter(V20Chapters, num) \in Seq(Nat)
      BY <3>1, InChapterIs
    <3> QED
      BY <2>2, <3>2 DEF V20Reference
  <2> QED
    BY <2>1, <2>2
<1> QED
  BY <1>1, <1>2

(* The references of a section are references still after v1.9 and v2.0    *)
(* renumber them.                                                          *)
LEMMA RefsStay ==
  ASSUME NEW x \in Sec
  PROVE  /\ {Ref(V19Reference(r.num), r.to) : r \in x.refs} \in SUBSET Cite
         /\ {Ref(V20Reference(r.num), r.to) : r \in x.refs} \in SUBSET Cite
<1>1. ASSUME NEW r \in x.refs
      PROVE  Ref(V19Reference(r.num), r.to) \in Cite /\ Ref(V20Reference(r.num), r.to) \in Cite
  <2>1. r \in Cite
    BY DEF Sec
  <2>2. r.num \in Seq(Nat) /\ r.to \in Topic
    BY <2>1 DEF Cite
  <2>3. V19Reference(r.num) \in Seq(Nat) /\ V20Reference(r.num) \in Seq(Nat)
    BY <2>2, ReferencesStay
  <2> QED
    BY <2>2, <2>3, RefIs
<1> QED
  BY <1>1

Revised(x, y, num, refs) ==
  \/ y = [[x EXCEPT !.num = num] EXCEPT !.refs = refs]
  \/ y = [[x EXCEPT !.refs = refs] EXCEPT !.num = num]

(* A number and the references under it are changed in either order.       *)
LEMMA Replaced ==
  ASSUME NEW x \in Sec, NEW num \in Seq(Nat), NEW refs \in SUBSET Cite, NEW y,
     Revised(x, y, num, refs)
  PROVE  y \in Sec /\ y.num = num /\ y.topic = x.topic /\ y.level = x.level /\ y.marks = x.marks
<1>1. LET z == [[x EXCEPT !.num = num] EXCEPT !.refs = refs]
      IN  z \in Sec /\ z.num = num /\ z.topic = x.topic /\ z.level = x.level /\ z.marks = x.marks
  BY DEF Sec
<1>2. LET z == [[x EXCEPT !.refs = refs] EXCEPT !.num = num]
      IN  z \in Sec /\ z.num = num /\ z.topic = x.topic /\ z.level = x.level /\ z.marks = x.marks
  BY DEF Sec
<1> QED
  BY <1>1, <1>2 DEF Revised

Renumbered(n, body, new) ==
  /\ new = [i \in DOMAIN body |-> new[i]]
  /\ \A i \in DOMAIN body : Carried(n, body[i], new[i])

(* A moved number is a number.                                             *)
LEMMA MovesIs ==
  ASSUME NEW n \in 8..9, NEW num \in Seq(Nat)
  PROVE  InChapter(Moves(n), num) \in Seq(Nat)
<1>1. DOMAIN Moves(n) \in SUBSET Nat /\ \A c \in DOMAIN Moves(n) : Moves(n)[c] \in Nat
  BY DEF Moves, V19Chapters, V20Chapters
<1> QED
  BY <1>1, InChapterIs

New19(body) == Referring(Numbering(V19Edited(body), V19Heading), V19Reference)

(* v1.9 renumbers every heading with its chapter and changes nothing else  *)
(* the layout speaks of.                                                   *)
LEMMA New19Is ==
  ASSUME NEW body, Layout(8, body)
  PROVE  Renumbered(8, body, New19(body))
<1> DEFINE gone   == {"figure", "side"}
           plain  == Unmarking(body, gone)
           edited == V19Edited(body)
           refs(i) == {Ref(V19Reference(r.num), r.to) : r \in edited[i].refs}
           num(i)  == InChapter(Moves(8), edited[i].num)
           new    == New19(body)
<1>1. body \in Seq(Sec) /\ (\A i \in DOMAIN body : body[i] \in Sec) /\ DOMAIN body = 1..Len(body)
  BY OutlineIs, LenProperties DEF Layout
<1>2. gone \cap NotedMarks = {}
  BY DEF NotedMarks
<1>3. plain = [i \in DOMAIN body |-> [body[i] EXCEPT !.marks = @ \ gone]] /\ plain \in Seq(Sec)
  BY <1>1, UnmarkingIs DEF Unmarking
<1>4. ASSUME NEW i \in DOMAIN body PROVE Same(body[i], plain[i]) /\ DOMAIN plain = DOMAIN body
  <2>1. plain[i] = [body[i] EXCEPT !.marks = @ \ gone] /\ body[i] \in Sec
           /\ DOMAIN plain = DOMAIN body
    BY <1>1, <1>3
  <2> HIDE DEF gone, plain
  <2> QED
    BY <1>2, <2>1, SameUnmarked
<1>5. {Ref(<<2>>, "journey")} \in SUBSET Cite
  <2>1. "journey" \in Topic
    BY DEF Topic
  <2> QED
    BY <2>1, CiteIs
<1>6. DOMAIN plain = DOMAIN body
  BY <1>3
<1>7. /\ edited = [i \in DOMAIN body |-> edited[i]]
      /\ \A i \in DOMAIN body : Same(plain[i], edited[i])
  <2> DEFINE more == {Ref(<<2>>, "journey")}
             e == CitingAt(plain, "physIntro", more)
  <2>1. edited = e
    BY DEF V19Edited
  <2> HIDE DEF plain, more, edited
  <2>2. e = [i \in DOMAIN plain |-> e[i]] /\ \A i \in DOMAIN plain : Same(plain[i], e[i])
    <3>1. plain \in Seq(Sec) /\ more \in SUBSET Cite
      BY <1>3, <1>5 DEF more
    <3> HIDE DEF e
    <3> QED
      BY <3>1, CitedAt DEF e
  <2> HIDE DEF e
  <2> QED
    BY <1>6, <2>1, <2>2
<1>8. \A i \in DOMAIN body : Same(body[i], edited[i])
  BY <1>4, <1>7, SameTwice
<1>9. /\ new = [i \in DOMAIN body |-> new[i]]
      /\ \A i \in DOMAIN body : new[i] = [[edited[i] EXCEPT !.num = num(i)] EXCEPT !.refs = refs(i)]
  <2> HIDE DEF edited
  <2>1. Numbering(edited, V19Heading)
           = [i \in DOMAIN body |-> [edited[i] EXCEPT !.num = V19Heading(edited[i].num)]]
    BY <1>7 DEF Numbering
  <2>2. \A i \in DOMAIN body : edited[i] \in Sec
    BY <1>8 DEF Same
  <2>3. ASSUME NEW i \in DOMAIN body
        PROVE  Numbering(edited, V19Heading)[i].refs = edited[i].refs
    <3>1. edited[i] \in Sec /\ Numbering(edited, V19Heading)[i]
             = [edited[i] EXCEPT !.num = V19Heading(edited[i].num)]
      BY <2>1, <2>2
    <3> QED
      BY <3>1 DEF Sec
  <2> DEFINE mid == Numbering(edited, V19Heading)
  <2>4. mid = [i \in DOMAIN body |-> mid[i]]
           /\ \A i \in DOMAIN body : mid[i] = [edited[i] EXCEPT !.num = num(i)]
    BY <2>1 DEF V19Heading, Moves
  <2>5. \A i \in DOMAIN body : mid[i].refs = edited[i].refs
    BY <2>3
  <2>6. new = Referring(mid, V19Reference)
    BY DEF New19, edited
  <2> HIDE DEF mid, num, new
  <2>7. new = [i \in DOMAIN body |-> [mid[i] EXCEPT !.refs
           = {Ref(V19Reference(x.num), x.to) : x \in mid[i].refs}]]
    BY <2>4, <2>6 DEF Referring
  <2>8. ASSUME NEW i \in DOMAIN body
           PROVE new[i] = [[edited[i] EXCEPT !.num = num(i)] EXCEPT !.refs = refs(i)]
    <3>1. new[i] = [mid[i] EXCEPT !.refs = {Ref(V19Reference(x.num), x.to) : x \in mid[i].refs}]
      BY <2>7
    <3>2. {Ref(V19Reference(x.num), x.to) : x \in mid[i].refs} = refs(i)
      BY <2>5
    <3>3. mid[i] = [edited[i] EXCEPT !.num = num(i)]
      BY <2>4
    <3> HIDE DEF refs
    <3> QED
      BY <3>1, <3>2, <3>3
  <2>9. new = [i \in DOMAIN body |-> new[i]]
    BY <2>7
  <2> HIDE DEF refs
  <2> QED
    BY <2>8, <2>9, Zenon
<1>10. ASSUME NEW i \in DOMAIN body PROVE Carried(8, body[i], new[i])
  <2> DEFINE x == body[i]
             e == edited[i]
             y == new[i]
             k == num(i)
             r == refs(i)
  <2>1. Same(x, e) /\ e \in Sec /\ e.num \in Seq(Nat)
    <3>1. Same(x, e) /\ e \in Sec
      BY <1>8 DEF Same
    <3> QED
      BY <3>1 DEF Sec
  <2>2. k \in Seq(Nat)
    <3>1. 8 \in 8..9
      OBVIOUS
    <3> HIDE DEF edited
    <3> QED
      BY <2>1, <3>1, MovesIs
  <2>3. r \in SUBSET Cite
    <3> HIDE DEF edited
    <3> QED
      BY <2>1, RefsStay
  <2>4. Revised(e, y, k, r)
    BY <1>9, Zenon DEF Revised
  <2>5. k = InChapter(Moves(8), x.num)
    BY <2>1 DEF Same
  <2> HIDE DEF e, y, k, r
  <2>6. y \in Sec /\ y.num = k /\ y.topic = e.topic /\ y.level = e.level /\ y.marks = e.marks
    <3>1. e \in Sec
      BY <2>1
    <3> QED
      BY <2>2, <2>3, <2>4, <3>1, Replaced
  <2>7. Shape(8, x)
    BY <1>1, LayoutAt
  <2> HIDE DEF x
  <2>8. Noted(9, y)
    <3>1. Noted(8, x)
      BY <2>7 DEF Shape
    <3>2. y.topic = x.topic /\ \A m \in NotedMarks : m \in y.marks <=> m \in x.marks
      BY <2>1, <2>6 DEF Same
    <3>3. \A m \in {"perStock", "axisTable", "end", "eightAxes"} : m \in y.marks <=> m \in x.marks
      BY <3>2 DEF NotedMarks
    <3> QED
      BY <3>1, <3>2, <3>3 DEF Noted
  <2> QED
    BY <2>1, <2>5, <2>6, <2>8 DEF Carried, Same, x, y
<1> QED
  BY <1>9, <1>10, Zenon DEF Renumbered

-----------------------------------------------------------------------------
(* Where a block of chapters begins and ends *)

(* Where the sections of a chapter stand.                                  *)
LEMMA KeySpan ==
  ASSUME NEW n \in 3..12, NEW x, Shape(n, x)
  PROVE  /\ Key(x) \in Int
         /\ x.num = <<>> => (x.topic # "appendix" /\ Key(x) < 8)
            \/ (x.topic = "appendix" /\ Key(x) = 300000)
         /\ x.num = <<>> => Key(x) > 0
         /\ x.num # <<>> => /\ x.num[1] \in 0..13 /\ x.num[1] < Len(ChapterTopics(n))
                            /\ 10000 * (x.num[1] + 1) <= Key(x)
                               /\ Key(x) <= 10000 * (x.num[1] + 1) + 900
                            /\ x.level = 1 => Key(x) = 10000 * (x.num[1] + 1)
<1>1. x.num \in Seq(Nat) /\ Key(x) \in Int
  BY KeyOf DEF Shape
<1>2. CASE LooseAt(n, x)
  <2>1. x.num = <<>>
    BY <1>1, <1>2, Tuples DEF LooseAt
  <2>2. Key(x) = Place(x.topic)
    BY <1>2, KeyOf
  <2>3. x.topic \in LooseTopics(n)
    BY <1>2 DEF LooseAt
  <2>4. x.topic \in {"terms", "contents", "appendix", "summary", "proposal", "recommendation",
                     "background", "situation", "problem", "solution"}
    BY <2>3 DEF LooseTopics
  <2>5. Key(x) > 0 /\ (x.topic # "appendix" => Key(x) < 8)
           /\ (x.topic = "appendix" => Key(x) = 300000)
    BY <2>2, <2>4 DEF Place
  <2> QED
    BY <1>1, <2>1, <2>5
<1>3. CASE ChapterOf(n, x)
  <2>1. x.num # <<>> /\ x.num[1] < Len(ChapterTopics(n))
    BY <1>1, <1>3, EmptySeq DEF ChapterOf
  <2>2. x.num[1] \in 0..13 /\ Key(x) = 10000 * (x.num[1] + 1)
    BY <1>3, KeyOf
  <2> DEFINE c == x.num[1]
             k == Key(x)
  <2>3. c \in 0..13 /\ 10000 * (c + 1) <= k /\ k <= 10000 * (c + 1) + 900 /\ k = 10000 * (c + 1)
    <3>1. c \in 0..13 /\ k = 10000 * (c + 1)
      BY <2>2
    <3> HIDE DEF c, k
    <3> QED
      BY <3>1
  <2> QED
    BY <1>1, <2>1, <2>3
<1>4. CASE SubOf(n, x)
  <2>1. x.num # <<>> /\ x.num[1] < Len(ChapterTopics(n)) /\ x.level # 1
    BY <1>1, <1>4, EmptySeq DEF SubOf
  <2>2. x.num[1] \in 0..13 /\ x.num[2] \in 1..9 /\ Key(x) = 10000 * (x.num[1] + 1) + 100 * x.num[2]
    BY <1>4, KeyOf
  <2> DEFINE c == x.num[1]
             b == x.num[2]
             k == Key(x)
  <2>3. c \in 0..13 /\ 10000 * (c + 1) <= k /\ k <= 10000 * (c + 1) + 900
    <3>1. c \in 0..13 /\ b \in 1..9 /\ k = 10000 * (c + 1) + 100 * b
      BY <2>2
    <3> HIDE DEF c, b, k
    <3> QED
      BY <3>1
  <2> QED
    BY <1>1, <2>1, <2>3
<1> QED
  BY <1>2, <1>3, <1>4 DEF Shape

(* What of it the block of a chapter rests on.                             *)
Spanning(n, x) ==
  /\ Key(x) \in Int
  /\ x.num = <<>> => Key(x) < 8 \/ Key(x) = 300000
  /\ x.num # <<>> => /\ x.num[1] \in 0..13
                      /\ 10000 * (x.num[1] + 1) <= Key(x)
                      /\ Key(x) <= 10000 * (x.num[1] + 1) + 900

(* The key of a heading lies in the range of its chapter.                  *)
LEMMA SpanOf ==
  ASSUME NEW n \in 3..12, NEW x, Shape(n, x)
  PROVE  Spanning(n, x)
BY KeySpan DEF Spanning

PartOf(body, c) == {i \in 1..Len(body) : body[i].num # <<>> /\ body[i].num[1] = c}

(* A chapter's block is what its number stands over.                       *)
LEMMA BlockOfChapter ==
  ASSUME NEW n \in 8..9, NEW body, Layout(n, body), NEW c \in 0..(Len(ChapterTopics(n)) - 1),
         NEW h \in 1..Len(body), body[h].num = <<c>>
  PROVE  Block(body, h) = PartOf(body, c) /\ h \in PartOf(body, c) /\ Key(body[h]) = 10000 * (c + 1)
<1> DEFINE top == Len(ChapterTopics(n))
           hi  == IF c + 1 < top THEN 10000 * (c + 2) ELSE 300000
           spans(x) == /\ Key(x) \in Int
                       /\ x.num = <<>> => (x.topic # "appendix" /\ Key(x) < 8)
                          \/ (x.topic = "appendix" /\ Key(x) = 300000)
                       /\ x.num = <<>> => Key(x) > 0
                       /\ x.num # <<>> => /\ x.num[1] \in 0..13 /\ x.num[1] < top
                                          /\ 10000 * (x.num[1] + 1) <= Key(x)
                                             /\ Key(x) <= 10000 * (x.num[1] + 1) + 900
                                          /\ x.level = 1 => Key(x) = 10000 * (x.num[1] + 1)
<1>1. body \in Seq(Sec) /\ Rising(body) /\ DOMAIN body = 1..Len(body) /\ n \in 3..12
  BY LenProperties DEF Layout
<1>2. \A i \in 1..Len(body) : body[i] \in Sec /\ Shape(n, body[i])
  BY <1>1, LayoutAt
<1>3. \A i \in 1..Len(body) : spans(body[i])
  BY <1>1, <1>2, KeySpan
<1>4. top \in 12..14
  BY <1>1, Tops
<1>5. c \in 0..(top - 1)
  OBVIOUS
<1>6. body[h].num # <<>> /\ body[h].num[1] = c /\ h \in PartOf(body, c)
  <2> DEFINE num == <<c>>
  <2>1. num # <<>> /\ num[1] = c
    OBVIOUS
  <2>2. body[h].num = num
    OBVIOUS
  <2> HIDE DEF num
  <2> QED
    BY <2>1, <2>2 DEF PartOf
<1> HIDE DEF spans
<1>7. body[h].level = 1 /\ Key(body[h]) = 10000 * (c + 1)
  <2>1. Len(body[h].num) = 1
    OBVIOUS
  <2>2. ~SubOf(n, body[h]) /\ ~LooseAt(n, body[h])
    BY <2>1 DEF SubOf, LooseAt
  <2>3. body[h].level = 1
    BY <1>2, <2>2 DEF Shape, ChapterOf
  <2> QED
    <3> DEFINE b   == body[h].num[1]
               key == Key(body[h])
    <3>0. b = c
      BY <1>6
    <3>3. spans(body[h]) /\ body[h].num # <<>>
      BY <1>3, <1>6
    <3>4. key = 10000 * (b + 1) /\ b \in 0..13
      BY <2>3, <3>3 DEF spans
    <3>1. b = c /\ key = 10000 * (b + 1)
      BY <3>0, <3>4
    <3> HIDE DEF b, key
    <3>2. key = 10000 * (c + 1)
      BY <3>1
    <3> QED
      BY <2>3, <3>2 DEF key
<1> HIDE DEF top
<1>8. hi \in Int /\ Key(body[h]) < hi
  BY <1>4, <1>5, <1>7
<1>9. ASSUME NEW k \in 1..Len(body), body[k].level = 1, Key(body[h]) < Key(body[k])
      PROVE  hi <= Key(body[k])
  <2> DEFINE x == body[k]
             key == Key(x)
             b == x.num[1]
  <2>1. spans(x)
    BY <1>3
  <2>2. CASE x.num = <<>>
    <3>1. key \in Int /\ (key < 8 \/ key = 300000) /\ 10000 * (c + 1) < key
      BY <1>7, <1>9, <2>1, <2>2 DEF spans
    <3> HIDE DEF key
    <3> QED
      BY <1>4, <1>5, <3>1 DEF key
  <2>3. CASE x.num # <<>>
    <3>1. b \in 0..13 /\ b < top /\ key = 10000 * (b + 1) /\ 10000 * (c + 1) < key
      BY <1>7, <1>9, <2>1, <2>3 DEF spans
    <3> HIDE DEF b, key
    <3>2. c + 1 < top /\ 10000 * (c + 2) <= key
      BY <1>4, <1>5, <3>1
    <3> QED
      BY <3>2 DEF key
  <2> QED
    BY <2>2, <2>3
<1>10. \E k \in 1..Len(body) : body[k].level = 1 /\ Key(body[k]) = hi
  <2>0. Complete(n, Outline(body))
    BY DEF Layout, Drawn
  <2>1. CASE c + 1 < top
    <3>1. c + 1 \in 0..(top - 1)
      BY <1>4, <1>5, <2>1
    <3>2. PICK o \in Outline(body) : Len(o.num) = 1 /\ o.num[1] = c + 1
      BY <2>0, <3>1 DEF Complete, top
    <3>3. PICK k \in 1..Len(body) : o = Sketch(body[k])
      BY <1>1 DEF Outline
    <3>4. Len(body[k].num) = 1 /\ body[k].num[1] = c + 1
      <4>1. o.num = body[k].num
        BY <1>2, <3>3, SketchIs
      <4> QED
        BY <3>2, <4>1
    <3>5. body[k].num # <<>>
      BY <1>2, <3>4, EmptySeq DEF Shape
    <3>6. ~SubOf(n, body[k]) /\ ~LooseAt(n, body[k])
      BY <3>4 DEF SubOf, LooseAt
    <3>7. body[k].level = 1
      BY <1>2, <3>6 DEF Shape, ChapterOf
    <3>8. Key(body[k]) = 10000 * (c + 1 + 1)
      <4> DEFINE b   == body[k].num[1]
                 key == Key(body[k])
      <4>0. b = c + 1
        BY <3>4
      <4>3. spans(body[k])
        BY <1>3
      <4>4. key = 10000 * (b + 1) /\ b \in 0..13
        BY <3>5, <3>7, <4>3 DEF spans
      <4>1. b = c + 1 /\ key = 10000 * (b + 1)
        BY <4>0, <4>4
      <4> HIDE DEF b, key
      <4>2. key = 10000 * (c + 1 + 1)
        BY <4>1
      <4> QED
        BY <4>2 DEF key
    <3>9. 10000 * (c + 1 + 1) = hi
      BY <1>4, <1>5, <2>1
    <3> QED
      BY <3>7, <3>8, <3>9
  <2>2. CASE ~(c + 1 < top)
    <3>1. "appendix" \in LooseTopics(n)
      BY DEF LooseTopics
    <3>2. PICK o \in Outline(body) : Len(o.num) = 0 /\ o.topic = "appendix"
      BY <2>0, <3>1 DEF Complete
    <3>3. PICK k \in 1..Len(body) : o = Sketch(body[k])
      BY <1>1 DEF Outline
    <3>4. body[k].topic = "appendix"
      BY <1>2, <3>2, <3>3, SketchIs
    <3>5. Key(body[k]) = 300000 /\ LooseAt(n, body[k])
      BY <1>1, <1>2, <3>4, KeyOfAppendix
    <3>6. body[k].level = 1
      BY <3>4, <3>5 DEF LooseAt, LooseLevel
    <3> QED
      BY <2>2, <3>5, <3>6
  <2> QED
    BY <2>1, <2>2
<1> HIDE DEF hi
<1>11. Block(body, h) = {j \in 1..Len(body) : Key(body[h]) <= Key(body[j]) /\ Key(body[j]) < hi}
  <2>1. \A k \in 1..Len(body) : body[k].level = 1 /\ Key(body[h]) < Key(body[k])
           => hi <= Key(body[k])
    BY <1>9
  <2>2. \/ \E k \in 1..Len(body) : body[k].level = 1 /\ Key(body[k]) = hi
        \/ \A k \in 1..Len(body) : Key(body[k]) < hi
    BY <1>10
  <2> QED
    BY <1>1, <1>8, <2>1, <2>2, BlockIs
<1>12. ASSUME NEW j \in 1..Len(body)
       PROVE  Key(body[h]) <= Key(body[j]) /\ Key(body[j]) < hi <=> body[j].num # <<>>
          /\ body[j].num[1] = c
  <2> DEFINE x == body[j]
             key == Key(x)
             b == x.num[1]
  <2>1. spans(x)
    BY <1>3
  <2>2. CASE x.num = <<>>
    <3>1. key \in Int /\ (key < 8 \/ key = 300000)
      BY <2>1, <2>2 DEF spans
    <3> HIDE DEF key
    <3>2. ~(10000 * (c + 1) <= key /\ key < hi)
      BY <1>4, <1>5, <3>1 DEF hi
    <3> QED
      BY <1>7, <2>2, <3>2 DEF key
  <2>3. CASE x.num # <<>>
    <3>1. b \in 0..13 /\ b < top /\ 10000 * (b + 1) <= key /\ key <= 10000 * (b + 1) + 900
             /\ key \in Int
      BY <2>1, <2>3 DEF spans
    <3> HIDE DEF b, key
    <3>2. 10000 * (c + 1) <= key /\ key < hi <=> b = c
      BY <1>4, <1>5, <3>1, SMTT(20) DEF hi
    <3> QED
      BY <1>7, <2>3, <3>2 DEF b, key
  <2> QED
    BY <2>2, <2>3
<1>13. Block(body, h) = PartOf(body, c)
  BY <1>11, <1>12 DEF PartOf
<1> QED
  BY <1>6, <1>7, <1>13

(* What stands before a chapter's end.                                     *)
LEMMA StayIs ==
  ASSUME NEW n \in 8..9, NEW body, Layout(n, body), NEW c \in 0..(Len(ChapterTopics(n)) - 1),
         NEW h \in 1..Len(body), body[h].num = <<c>>
  PROVE  {i \in DOMAIN body : \E j \in PartOf(body, c) : i <= j}
           = {i \in 1..Len(body) : Key(body[i]) < 10000 * (c + 2)}
<1>1. body \in Seq(Sec) /\ Rising(body) /\ DOMAIN body = 1..Len(body) /\ n \in 3..12 /\ c \in Nat
  <2>1. body \in Seq(Sec) /\ Rising(body) /\ DOMAIN body = 1..Len(body) /\ n \in 3..12
    BY LenProperties DEF Layout
  <2> DEFINE top == Len(ChapterTopics(n))
  <2>2. c \in 0..(top - 1) /\ top \in 12..14
    BY <2>1, Tops
  <2> HIDE DEF top
  <2> QED
    BY <2>1, <2>2
<1>2. h \in PartOf(body, c) /\ Key(body[h]) = 10000 * (c + 1)
  BY BlockOfChapter
<1>3. ASSUME NEW i \in 1..Len(body), NEW j \in PartOf(body, c), i <= j
      PROVE  Key(body[i]) < 10000 * (c + 2)
  <2>1. j \in 1..Len(body) /\ body[j].num # <<>> /\ body[j].num[1] = c
    BY DEF PartOf
  <2>2. Key(body[i]) <= Key(body[j])
    BY <1>1, <1>3, <2>1, RisingOrder
  <2>3. Shape(n, body[i]) /\ Shape(n, body[j])
    BY <2>1, LayoutAt
  <2>4. Key(body[i]) \in Int /\ Key(body[j]) \in Int /\ Key(body[j]) <= 10000 * (c + 1) + 900
    <3> DEFINE x == body[i]
               y == body[j]
    <3>1. Shape(n, x) /\ Shape(n, y) /\ y.num # <<>> /\ y.num[1] = c
      BY <2>1, <2>3
    <3> HIDE DEF x, y
    <3>4. Spanning(n, x) /\ Spanning(n, y)
      BY <1>1, <3>1, SpanOf
    <3>2. Key(x) \in Int
      BY <3>4 DEF Spanning
    <3>3. Key(y) \in Int /\ Key(y) <= 10000 * (c + 1) + 900
      BY <3>1, <3>4 DEF Spanning
    <3> QED
      BY <3>2, <3>3 DEF x, y
  <2> DEFINE ki == Key(body[i])
             kj == Key(body[j])
  <2>5. ki <= kj /\ ki \in Int /\ kj \in Int /\ kj <= 10000 * (c + 1) + 900
    BY <2>2, <2>4
  <2>6. ki < 10000 * (c + 2)
    <3> HIDE DEF ki, kj
    <3> QED
      BY <1>1, <2>5
  <2> QED
    BY <2>6
<1>4. ASSUME NEW i \in 1..Len(body), Key(body[i]) < 10000 * (c + 2)
      PROVE  \E j \in PartOf(body, c) : i <= j
  <2>1. Shape(n, body[i])
    BY LayoutAt
  <2>2. Spanning(n, body[i])
    BY <1>1, <2>1, SpanOf
  <2>3. c <= 13
    <3> DEFINE top == Len(ChapterTopics(n))
    <3>1. c \in 0..(top - 1) /\ top \in 12..14
      BY <1>1, Tops
    <3> HIDE DEF top
    <3> QED
      BY <3>1
  <2>4. CASE i \in PartOf(body, c)
    <3>1. i <= i
      OBVIOUS
    <3> QED
      BY <2>4, <3>1
  <2>5. CASE i \notin PartOf(body, c)
    <3> DEFINE b == body[i].num[1]
               key == Key(body[i])
    <3>1. key < 10000 * (c + 1)
      <4>1. CASE body[i].num = <<>>
        <5>1. key \in Int /\ (key < 8 \/ key = 300000) /\ key < 10000 * (c + 2)
          BY <1>4, <2>2, <4>1 DEF Spanning
        <5> HIDE DEF key
        <5> QED
          BY <1>1, <2>3, <5>1
      <4>2. CASE body[i].num # <<>>
        <5>1. b # c
          BY <2>5, <4>2 DEF PartOf
        <5>2. b \in 0..13 /\ 10000 * (b + 1) <= key /\ key <= 10000 * (b + 1) + 900 /\ key \in Int
              /\ key < 10000 * (c + 2)
          BY <1>4, <2>2, <4>2 DEF Spanning
        <5> HIDE DEF b, key
        <5> QED
          BY <1>1, <5>1, <5>2
      <4> QED
        BY <4>1, <4>2
    <3>2. Key(body[i]) <= Key(body[h])
      <4>1. key < 10000 * (c + 1) /\ key \in Int /\ c \in Nat
        BY <1>1, <2>2, <3>1 DEF Spanning
      <4>2. key <= 10000 * (c + 1)
        <5> HIDE DEF key
        <5> QED
          BY <4>1
      <4> QED
        BY <1>2, <4>2
    <3>3. i <= h
      BY <1>1, <3>2, RisingOrder
    <3> QED
      BY <1>2, <3>3
  <2> QED
    BY <2>4, <2>5
<1> QED
  BY <1>1, <1>3, <1>4

(* The block of the appendix is its heading alone.                         *)
LEMMA BlockOfAppendix ==
  ASSUME NEW n \in 8..9, NEW body, Layout(n, body), NEW h \in 1..Len(body),
     body[h].topic = "appendix"
  PROVE  Block(body, h) = {i \in 1..Len(body) : body[i].topic = "appendix"}
<1>1. body \in Seq(Sec) /\ Rising(body) /\ DOMAIN body = 1..Len(body) /\ n \in 3..12
  BY LenProperties DEF Layout
<1>2. \A i \in 1..Len(body) : Shape(n, body[i])
  BY LayoutAt
<1>3. \A i \in 1..Len(body) : Key(body[i]) \in Int
  BY <1>1, <1>2, KeySpan
<1>4. ASSUME NEW i \in 1..Len(body)
      PROVE  /\ body[i].topic = "appendix" => Key(body[i]) = 300000
             /\ body[i].topic # "appendix" => Key(body[i]) < 150000
  BY <1>1, <1>2, KeyOfAppendix, KeyBelow
<1>5. Key(body[h]) = 300000
  BY <1>4
<1>6. \A k \in 1..Len(body) : Key(body[k]) < 300001 /\ ~(Key(body[h]) < Key(body[k]))
  <2> SUFFICES ASSUME NEW k \in 1..Len(body) PROVE Key(body[k]) < 300001 /\ ~(300000 < Key(body[k]))
    BY <1>5
  <2> DEFINE key == Key(body[k])
  <2>1. key \in Int /\ (key = 300000 \/ key < 150000)
    BY <1>3, <1>4
  <2> HIDE DEF key
  <2>2. key < 300001 /\ ~(300000 < key)
    BY <2>1
  <2> QED
    BY <2>2 DEF key
<1>7. 300001 \in Int /\ Key(body[h]) < 300001
  BY <1>5
<1>8. Block(body, h) = {j \in 1..Len(body) : Key(body[h]) <= Key(body[j]) /\ Key(body[j]) < 300001}
  <2> DEFINE hi == 300001
  <2>1. /\ hi \in Int /\ Key(body[h]) < hi
        /\ \A k \in 1..Len(body) : Key(body[k]) < hi /\ ~(Key(body[h]) < Key(body[k]))
    BY <1>6, <1>7
  <2> HIDE DEF hi
  <2>2. Block(body, h) = {j \in 1..Len(body) : Key(body[h]) <= Key(body[j]) /\ Key(body[j]) < hi}
    BY <1>1, <2>1, BlockIs, Zenon
  <2> QED
    BY <2>2 DEF hi
<1>9. ASSUME NEW j \in 1..Len(body)
      PROVE  300000 <= Key(body[j]) /\ Key(body[j]) < 300001 <=> body[j].topic = "appendix"
  <2> DEFINE key == Key(body[j])
             t == body[j].topic
  <2>1. key \in Int /\ (t = "appendix" => key = 300000) /\ (t # "appendix" => key < 150000)
    BY <1>3, <1>4
  <2> HIDE DEF key, t
  <2>2. 300000 <= key /\ key < 300001 <=> t = "appendix"
    BY <2>1
  <2> QED
    BY <2>2 DEF key, t
<1> QED
  BY <1>5, <1>8, <1>9

-----------------------------------------------------------------------------
(* Assembling the pieces *)

(* The chapter that v1.9 or v2.0 adds.                                     *)
Newcomer(n) == IF n = 8 THEN ChapterHead(2, "journey") ELSE ChapterHead(5, "massive")

(* What becomes of a heading of the version read.                          *)
Placed(n, x, y) ==
  /\ y \in Sec /\ Shape(n + 1, y) /\ y.topic = x.topic
  /\ Len(x.num) = 0 => Len(y.num) = 0
  /\ Len(x.num) = 1 => Len(y.num) = 1 /\ y.num[1] = Moves(n)[x.num[1]]

(* The chapter v1.9 and v2.0 write is of a subject the old layout does not *)
(* know, at a number of its own.                                           *)
LEMMA NewcomerIs ==
  ASSUME NEW n \in 8..9
  PROVE  LET o == Newcomer(n)
         IN  /\ o.topic \notin Known(n) /\ o.topic = IF n = 8 THEN "journey" ELSE "massive"
             /\ o.num = <<IF n = 8 THEN 2 ELSE 5>> /\ Len(o.num) = 1
             /\ o.num[1] = IF n = 8 THEN 2 ELSE 5
             /\ Shape(n + 1, o)
<1>1. ASSUME NEW c \in {2, 5}, NEW topic, NEW m \in 9..10, topic = ChapterTopics(m)[c + 1]
      PROVE  Shape(m, ChapterHead(c, topic)) /\ Len(ChapterHead(c, topic).num) = 1
         /\ ChapterHead(c, topic).num[1] = c
  <2> DEFINE o == ChapterHead(c, topic)
             num == <<c>>
  <2>1. o.num = num /\ o.level = 1 /\ o.topic = topic /\ o.marks = {}
    BY DEF ChapterHead
  <2>2. num \in Seq(Nat) /\ Len(num) = 1 /\ num[1] = c
    OBVIOUS
  <2> HIDE DEF o, num
  <2>3. Len(ChapterTopics(m)) \in 12..14
    BY Tops
  <2> DEFINE top == Len(ChapterTopics(m))
  <2>4. c < top
    <3>1. top \in 12..14
      BY <2>3
    <3> HIDE DEF top
    <3> QED
      BY <3>1
  <2>5. Noted(m, o)
    BY <2>1 DEF Noted
  <2>6. ChapterOf(m, o)
    BY <1>1, <2>1, <2>2, <2>4 DEF ChapterOf
  <2> QED
    BY <2>1, <2>2, <2>5, <2>6 DEF Shape, o
<1>2. CASE n = 8
  <2>1. ChapterTopics(n + 1) = Chapters19
    BY <1>2 DEF ChapterTopics
  <2>2. Chapters19[2 + 1] = "journey"
    BY DEF Chapters19
  <2>3. n + 1 \in 9..10
    OBVIOUS
  <2>4. Newcomer(n) = ChapterHead(2, "journey")
    BY <1>2 DEF Newcomer
  <2>5. Newcomer(n).topic = "journey" /\ Newcomer(n).num = <<2>>
    BY <2>4 DEF ChapterHead
  <2>6. "journey" \notin Known(n)
    BY <1>2 DEF Known, LooseTopics, ChapterNames, SubTopics
  <2>7. Shape(n + 1, Newcomer(n)) /\ Len(Newcomer(n).num) = 1 /\ Newcomer(n).num[1] = 2
    BY <1>1, <2>1, <2>2, <2>3, <2>4
  <2> QED
    BY <1>2, <2>5, <2>6, <2>7
<1>3. CASE n = 9
  <2>1. ChapterTopics(n + 1) = Chapters20
    BY <1>3 DEF ChapterTopics
  <2>2. Chapters20[5 + 1] = "massive"
    BY DEF Chapters20
  <2>3. n + 1 \in 9..10
    OBVIOUS
  <2>4. Newcomer(n) = ChapterHead(5, "massive")
    BY <1>3 DEF Newcomer
  <2>5. Newcomer(n).topic = "massive" /\ Newcomer(n).num = <<5>>
    BY <2>4 DEF ChapterHead
  <2>6. "massive" \notin Known(n)
    BY <1>3 DEF Known, LooseTopics, ChapterNames, SubTopics
  <2>7. Shape(n + 1, Newcomer(n)) /\ Len(Newcomer(n).num) = 1 /\ Newcomer(n).num[1] = 5
    BY <1>1, <2>1, <2>2, <2>3, <2>4
  <2> QED
    BY <1>3, <2>5, <2>6, <2>7
<1> QED
  BY <1>2, <1>3

(* What the pieces have to be for a document to be put together of them.   *)
Assembles(n, old, put, body, new) ==
  /\ \A i \in 1..Len(old) : Placed(n, old[i], put[i])
  /\ body \in Seq(Sec) /\ Rising(body) /\ new \in Seq(Sec) /\ Outline(new) = {Newcomer(n)}
  /\ ToSet(body) = {put[i] : i \in 1..Len(old)} \cup ToSet(new)

(* A document put together from the headings read and the new chapter.     *)
LEMMA Assembled ==
  ASSUME NEW n \in 8..9, NEW old, Layout(n, old), NEW put, NEW body, NEW new,
         Assembles(n, old, put, body, new)
  PROVE  Layout(n + 1, body) /\ Topics(body) = Topics(old) \cup {Newcomer(n).topic}
<1>0. /\ \A i \in 1..Len(old) : Placed(n, old[i], put[i])
      /\ body \in Seq(Sec) /\ Rising(body) /\ new \in Seq(Sec) /\ Outline(new) = {Newcomer(n)}
      /\ ToSet(body) = {put[i] : i \in 1..Len(old)} \cup ToSet(new)
  BY DEF Assembles
<1> USE <1>0
<1> DEFINE head == Newcomer(n)
           outline == Outline(body)
<1>1. old \in Seq(Sec) /\ Rising(old) /\ DOMAIN old = 1..Len(old) /\ n \in 3..12 /\ n + 1 \in 3..12
  BY LenProperties DEF Layout
<1>2. \A i \in 1..Len(old) : old[i] \in Sec /\ Shape(n, old[i]) /\ old[i].topic \in Known(n)
  BY <1>1, LayoutAt, KindOf
<1>3. /\ head.topic \notin Known(n) /\ Len(head.num) = 1
      /\ head.num[1] = (IF n = 8 THEN 2 ELSE 5) /\ Shape(n + 1, head)
  BY NewcomerIs
<1> HIDE DEF head
<1>4. outline = {Sketch(put[i]) : i \in 1..Len(old)} \cup {head}
  <2>1. outline = {Sketch(x) : x \in ToSet(body)}
    BY OutlineIs
  <2>2. {head} = {Sketch(x) : x \in ToSet(new)}
    <3>1. Outline(new) = {Sketch(x) : x \in ToSet(new)}
      BY OutlineIs
    <3> QED
      BY <3>1 DEF head
  <2> QED
    BY <2>1, <2>2
<1>5. ASSUME NEW i \in 1..Len(old)
      PROVE  /\ Sketch(put[i]).topic = old[i].topic /\ Sketch(put[i]).num = put[i].num
             /\ Shape(n + 1, Sketch(put[i]))
  <2>1. put[i] \in Sec /\ Shape(n + 1, put[i]) /\ put[i].topic = old[i].topic
    BY DEF Placed
  <2> DEFINE x == put[i]
  <2>2. x \in Sec /\ Shape(n + 1, x)
    BY <2>1
  <2> HIDE DEF x
  <2>3. Sketch(x).topic = x.topic /\ Sketch(x).num = x.num /\ Shape(n + 1, Sketch(x))
    BY <2>2, SketchIs
  <2> QED
    BY <2>1, <2>3 DEF x
<1> HIDE DEF outline
<1>6. OneEach(outline)
  <2>1. Distinct(old)
    BY <1>1, DistinctIs DEF Layout, Drawn
  <2> SUFFICES ASSUME NEW o \in outline, NEW p \in outline, o.topic = p.topic PROVE o = p
    BY DEF OneEach
  <2>2. CASE o = head /\ p = head
    BY <2>2
  <2>3. CASE o = head /\ p # head
    <3>1. PICK j \in 1..Len(old) : p = Sketch(put[j])
      BY <1>4, <2>3
    <3> QED
      BY <1>2, <1>3, <1>5, <2>3, <3>1
  <2>4. CASE o # head /\ p = head
    <3>1. PICK j \in 1..Len(old) : o = Sketch(put[j])
      BY <1>4, <2>4
    <3> QED
      BY <1>2, <1>3, <1>5, <2>4, <3>1
  <2>5. CASE o # head /\ p # head
    <3>1. PICK i \in 1..Len(old) : o = Sketch(put[i])
      BY <1>4, <2>5
    <3>2. PICK j \in 1..Len(old) : p = Sketch(put[j])
      BY <1>4, <2>5
    <3>3. old[i].topic = old[j].topic
      BY <1>5, <3>1, <3>2
    <3>4. i = j
      BY <1>1, <2>1, <3>3 DEF Distinct
    <3> QED
      BY <3>1, <3>2, <3>4
  <2> QED
    BY <2>2, <2>3, <2>4, <2>5
<1>7. \A o \in outline : Shape(n + 1, o)
  BY <1>3, <1>4, <1>5
<1>8. Complete(n + 1, outline)
  <2>0. Complete(n, Outline(old))
    BY DEF Layout, Drawn
  <2>1. LooseTopics(n + 1) = LooseTopics(n)
    BY DEF LooseTopics
  <2>2. ASSUME NEW o \in Outline(old), Len(o.num) \in {0, 1}
        PROVE  \E p \in outline : /\ p.topic = o.topic /\ Len(p.num) = Len(o.num)
                                  /\ Len(o.num) = 1 => p.num[1] = Moves(n)[o.num[1]]
    <3>1. PICK i \in 1..Len(old) : o = Sketch(old[i])
      BY <1>1 DEF Outline
    <3>2. o.num = old[i].num /\ o.topic = old[i].topic
      <4> DEFINE x == old[i]
      <4>1. x \in Sec /\ o = Sketch(x)
        BY <1>2, <3>1
      <4> HIDE DEF x
      <4>2. o.num = x.num /\ o.topic = x.topic
        BY <4>1, SketchIs
      <4> QED
        BY <4>2 DEF x
    <3>3. Placed(n, old[i], put[i])
      OBVIOUS
    <3> DEFINE p == Sketch(put[i])
    <3>4. p \in outline /\ p.topic = o.topic /\ p.num = put[i].num
      BY <1>4, <1>5, <3>2
    <3>5. Len(p.num) = Len(o.num) /\ (Len(o.num) = 1 => p.num[1] = Moves(n)[o.num[1]])
      BY <2>2, <3>2, <3>3, <3>4 DEF Placed
    <3> HIDE DEF p
    <3> QED
      BY <3>4, <3>5
  <2>3. ASSUME NEW topic \in LooseTopics(n + 1)
        PROVE  \E p \in outline : Len(p.num) = 0 /\ p.topic = topic
    <3>1. PICK o \in Outline(old) : Len(o.num) = 0 /\ o.topic = topic
      BY <2>0, <2>1 DEF Complete
    <3> QED
      BY <2>2, <3>1
  <2>4. ASSUME NEW c \in 0..(Len(ChapterTopics(n + 1)) - 1)
        PROVE  \E p \in outline : Len(p.num) = 1 /\ p.num[1] = c
    <3>1. CASE (n = 8 /\ c = 2) \/ (n = 9 /\ c = 5)
      <4>1. head.num[1] = c
        BY <1>3, <3>1
      <4> QED
        BY <1>3, <1>4, <4>1
    <3>2. CASE ~(n = 8 /\ c = 2) /\ ~(n = 9 /\ c = 5)
      <4>1. PICK b \in 0..(Len(ChapterTopics(n)) - 1) : Moves(n)[b] = c
        <5>1. c \in 0..(Len(ChapterTopics(n + 1)) - 1)
          OBVIOUS
        <5>2. ~(n = 8 /\ c = 2) /\ ~(n = 9 /\ c = 5)
          BY <3>2
        <5> QED
          BY ONLY <5>1, <5>2, ChaptersMet, n \in 8..9
      <4>2. PICK o \in Outline(old) : Len(o.num) = 1 /\ o.num[1] = b
        BY <2>0 DEF Complete
      <4>3. PICK p \in outline : Len(p.num) = Len(o.num)
               /\ (Len(o.num) = 1 => p.num[1] = Moves(n)[o.num[1]])
        BY <2>2, <4>2
      <4> QED
        BY <4>1, <4>2, <4>3
    <3> QED
      BY <3>1, <3>2
  <2> QED
    BY <2>3, <2>4 DEF Complete
<1>9. Topics(body) = Topics(old) \cup {head.topic}
  <2>1. Topics(body) = {o.topic : o \in outline}
    BY OutlineIs DEF outline
  <2>2. Topics(old) = {old[i].topic : i \in 1..Len(old)}
    BY <1>1 DEF Topics
  <2>3. ASSUME NEW t \in Topics(body) PROVE t \in Topics(old) \cup {head.topic}
    <3>1. PICK o \in outline : t = o.topic
      BY <2>1
    <3>2. CASE o = head
      BY <3>1, <3>2
    <3>3. CASE o # head
      <4>1. PICK i \in 1..Len(old) : o = Sketch(put[i])
        BY <1>4, <3>3
      <4> QED
        BY <1>5, <2>2, <3>1, <4>1
    <3> QED
      BY <3>2, <3>3
  <2>4. ASSUME NEW t \in Topics(old) PROVE t \in Topics(body)
    <3>1. PICK i \in 1..Len(old) : t = old[i].topic
      BY <2>2
    <3>2. Sketch(put[i]) \in outline /\ Sketch(put[i]).topic = t
      BY <1>4, <1>5, <3>1
    <3> QED
      BY <2>1, <3>2
  <2>5. head.topic \in Topics(body)
    BY <1>4, <2>1
  <2> QED
    BY <2>3, <2>4, <2>5
<1> QED
  BY <1>6, <1>7, <1>8, <1>9 DEF Layout, Drawn, outline, head

(* A piece of the document taken in document order.                        *)
LEMMA PieceIs ==
  ASSUME NEW new \in Seq(Sec), NEW I, NEW lo, NEW hi,
         \A i, j \in I \cap DOMAIN new : i < j => Key(new[i]) < Key(new[j]),
         \A i \in I \cap DOMAIN new : lo <= Key(new[i]) /\ Key(new[i]) < hi
  PROVE  /\ Pick(new, I) \in Seq(Sec) /\ Between(Pick(new, I), lo, hi)
         /\ ToSet(Pick(new, I)) = {new[i] : i \in I \cap DOMAIN new}
<1>1. Pick(new, I) \in Seq(Sec) /\ ToSet(Pick(new, I)) = {new[i] : i \in I \cap DOMAIN new}
  BY MembersOfPick
<1>2. Rising(Pick(new, I))
  BY RisingPick
<1> QED
  BY <1>1, <1>2 DEF Between

-----------------------------------------------------------------------------
(* v1.9: pieces and order *)

(* A renumbered body has a section for each old one, at the same place,    *)
(* moved with its chapter.                                                 *)
LEMMA RenumberedIs ==
  ASSUME NEW n \in 8..9, NEW old, Layout(n, old), NEW new, Renumbered(n, old, new)
  PROVE  /\ new \in Seq(Sec) /\ Len(new) = Len(old) /\ DOMAIN new = 1..Len(old)
         /\ \A i \in 1..Len(old) : Placed(n, old[i], new[i]) /\ Shifted(n, old[i], new[i])
<1>1. old \in Seq(Sec) /\ DOMAIN old = 1..Len(old) /\ Len(old) \in Nat
  BY LenProperties DEF Layout
<1>2. \A i \in 1..Len(old) : Carried(n, old[i], new[i])
  BY <1>1 DEF Renumbered
<1>3. new = [i \in 1..Len(old) |-> new[i]]
  BY <1>1 DEF Renumbered
<1>4. \A i \in 1..Len(old) : new[i] \in Sec
  BY <1>2 DEF Carried
<1>5. new \in [1..Len(old) -> Sec]
  BY <1>3, <1>4
<1>6. new \in Seq(Sec) /\ Len(new) = Len(old) /\ DOMAIN new = 1..Len(old)
  BY <1>1, <1>5, SeqFrom
<1>7. ASSUME NEW i \in 1..Len(old) PROVE Placed(n, old[i], new[i]) /\ Shifted(n, old[i], new[i])
  <2> DEFINE x == old[i]
             y == new[i]
  <2>1. Carried(n, x, y) /\ Shape(n, x)
    BY <1>2, LayoutAt
  <2> HIDE DEF x, y
  <2>2. Shifted(n, x, y)
    BY <2>1, CarriedIs
  <2>3. x.num \in Seq(Nat)
    BY <2>1 DEF Shape
  <2>4. Len(x.num) = 1 => x.num # <<>>
    BY <2>3, Tuples
  <2>5. Placed(n, x, y)
    BY <2>1, <2>2, <2>4 DEF Placed, Shifted, Carried
  <2> QED
    BY <2>2, <2>5 DEF x, y
<1> QED
  BY <1>6, <1>7

(* Where the blocks of v1.9 stand in the new document.                     *)
LEMMA Order19 ==
  /\ DOMAIN V19Order = 1..10
  /\ \A k \in 1..10 : V19Order[k] \in 2..11 /\ V19Chapters[V19Order[k]] = k + 2
  /\ \A c \in 2..11 : \E k \in 1..10 : V19Order[k] = c
  /\ V19Chapters[0] = 0 /\ V19Chapters[1] = 1
<1>1. DOMAIN V19Order = 1..10
  BY DEF V19Order
<1>2. /\ V19Order[1] = 5 /\ V19Order[2] = 3 /\ V19Order[3] = 2 /\ V19Order[4] = 4 /\ V19Order[5] = 6
      /\ V19Order[6] = 7 /\ V19Order[7] = 8 /\ V19Order[8] = 9 /\ V19Order[9] = 10
         /\ V19Order[10] = 11
  BY DEF V19Order
<1>3. /\ V19Chapters[0] = 0 /\ V19Chapters[1] = 1 /\ V19Chapters[2] = 5 /\ V19Chapters[3] = 4
      /\ V19Chapters[4] = 6 /\ V19Chapters[5] = 3 /\ V19Chapters[6] = 7 /\ V19Chapters[7] = 8
      /\ V19Chapters[8] = 9 /\ V19Chapters[9] = 10 /\ V19Chapters[10] = 11 /\ V19Chapters[11] = 12
  BY DEF V19Chapters
<1>4. \A k \in 1..10 : k \in {1, 2, 3, 4, 5, 6, 7, 8, 9, 10}
  OBVIOUS
<1>5. \A k \in 1..10 : V19Order[k] \in 2..11 /\ V19Chapters[V19Order[k]] = k + 2
  BY <1>2, <1>3, <1>4
<1>6. ASSUME NEW c \in 2..11 PROVE \E k \in 1..10 : V19Order[k] = c
  <2>1. c \in {2, 3, 4, 5, 6, 7, 8, 9, 10, 11}
    OBVIOUS
  <2> QED
    BY <1>2, <2>1
<1> QED
  BY <1>1, <1>3, <1>5, <1>6

(* Where the pieces of v1.9 begin and end.                                 *)
AtStart    == 0
AtJourney  == 30000
AtBlocks   == 40000
AtAppendix == 140000
AtEnd      == 300001

(* The customer's journey is one chapter heading, behind chapter 1 and     *)
(* before the moved chapters.                                              *)
LEMMA JourneyIs ==
  Journey \in Seq(Sec) /\ Outline(Journey) = {Newcomer(8)} /\ Between(Journey, AtJourney, AtBlocks)
<1>1. /\ "journey" \in Topic /\ "register" \in Topic /\ "priority" \in Topic /\ "keys" \in Topic
      /\ "physical" \in Topic /\ "batch" \in Topic /\ "lookup" \in Topic
  BY DEF Topic
<1> DEFINE refs == {Ref(<<12>>, "register"), Ref(<<3>>, "priority"), Ref(<<4>>, "keys"),
                    Ref(<<11, 5>>, "physical"), Ref(<<11>>, "batch"), Ref(<<7>>, "lookup")}
           num == <<2>>
           head == [level |-> 1, num |-> num, topic |-> "journey", marks |-> {}]
           plain == <<Section(1, num, "journey")>>
<1>2. refs \in SUBSET Cite
  BY <1>1, CiteIs
<1>3. num \in Seq(Nat) /\ num # <<>> /\ num[1] = 2 /\ Len(num) = 1
  OBVIOUS
<1>4. head = Newcomer(8)
  BY DEF Newcomer, ChapterHead
<1>5. Journey = Citing(plain, "journey", refs)
  BY DEF Journey
<1> HIDE DEF num, refs
<1>6. Single(plain, head)
  BY <1>1, <1>3, SingleIs
<1>7. head.topic = "journey" /\ head.num = num
  OBVIOUS
<1> HIDE DEF head, plain
<1>8. Single(Journey, head)
  <2>1. {} \in SUBSET Mark
    OBVIOUS
  <2>2. Single(Citing(plain, head.topic, refs), head)
    BY <1>2, <1>6, <2>1, SingleMarked
  <2> QED
    BY <1>5, <1>7, <2>2
<1>9. Key(head) = 30000
  <2>1. Height(num) = 10000 * (2 + 1) + 100 * 0 + 0
    BY <1>3 DEF Height, Second, Third
  <2> QED
    BY <1>3, <1>7, <2>1 DEF Key
<1>10. ASSUME NEW x \in ToSet(Journey) PROVE Key(x) = 30000
  <2>1. Journey \in Seq(Sec) /\ Outline(Journey) = {head}
    BY <1>8 DEF Single
  <2>2. x \in Sec
    BY <2>1, Members
  <2>3. Sketch(x) = head
    BY <2>1, OutlineIs
  <2>4. Key(Sketch(x)) = Key(x)
    BY <2>2, SketchIs
  <2> QED
    BY <1>9, <2>3, <2>4
<1>11. \A x \in ToSet(Journey) : AtJourney <= Key(x) /\ Key(x) < AtBlocks
  BY <1>10 DEF AtJourney, AtBlocks
<1> QED
  BY <1>4, <1>8, <1>11 DEF Single, Between

(* How far a heading of v1.8 moves.                                        *)
Falls19(k, x, y) ==
  /\ Key(y) = Key(x) + 10000 * (k + 2 - V19Order[k]) /\ V19Order[k] \in 2..11
  /\ 10000 * (3 + k) <= Key(y) /\ Key(y) < 10000 * (3 + k + 1)

Goes19(x, y) ==
  /\ Key(x) \in Int /\ Key(y) \in Int
  /\ Key(x) < 30000 => Key(y) = Key(x) /\ 0 <= Key(y)
  /\ x.topic = "appendix" => Key(y) = 300000
  /\ \A k \in 1..10 : x.num # <<>> /\ x.num[1] = V19Order[k] => Falls19(k, x, y)
  /\ \/ Key(x) < 30000
     \/ x.topic = "appendix"
     \/ \E k \in 1..10 : x.num # <<>> /\ x.num[1] = V19Order[k]

(* Where v1.9 sends a key: chapters 0 and 1 and the appendix stay, and the *)
(* k-th chapter of its order goes to chapter k + 2.                        *)
LEMMA Keys19 ==
  ASSUME NEW x, Shape(8, x), NEW y, Shifted(8, x, y)
  PROVE  Goes19(x, y)
<1> DEFINE c  == x.num[1]
           a  == y.num[1]
           kx == Key(x)
           ky == Key(y)
<1>1. 8 \in 3..12 /\ 9 \in 3..12 /\ Moves(8) = V19Chapters
  BY DEF Moves
<1>2. /\ kx \in Int
      /\ x.num = <<>> => (x.topic # "appendix" /\ kx < 8) \/ (x.topic = "appendix" /\ kx = 300000)
      /\ x.num = <<>> => kx > 0
      /\ x.num # <<>> => /\ c \in 0..13 /\ c < Len(ChapterTopics(8))
                         /\ 10000 * (c + 1) <= kx /\ kx <= 10000 * (c + 1) + 900
  BY <1>1, KeySpan
<1>3. Len(ChapterTopics(8)) = 12
  BY ChapterLists DEF ChapterTopics
<1>4. Shape(9, y) /\ ky \in Int
  <2>1. Shape(8 + 1, y) /\ 8 + 1 = 9
    BY DEF Shifted
  <2> QED
    BY <1>1, <2>1, KeyOf
<1>5. x.topic = "appendix" => kx = 300000 /\ x.num = <<>>
  <2> SUFFICES ASSUME x.topic = "appendix" PROVE kx = 300000 /\ x.num = <<>>
    OBVIOUS
  <2>1. Key(x) = 300000 /\ LooseAt(8, x)
    BY <1>1, KeyOfAppendix
  <2> QED
    BY <2>1, Tuples DEF LooseAt, Shape
<1>6. /\ x.num = <<>> => ky = kx
      /\ x.num # <<>> => a = V19Chapters[c] /\ ky = kx + 10000 * (a - c)
  BY <1>1 DEF Shifted
<1>7. x.num # <<>> => c \in 0..11
  <2> SUFFICES ASSUME x.num # <<>> PROVE c \in 0..11
    OBVIOUS
  <2> DEFINE top == Len(ChapterTopics(8))
  <2>0. c \in 0..13 /\ c < top /\ top = 12
    BY <1>2, <1>3
  <2> HIDE DEF top
  <2>1. c \in 0..13 /\ c < 12
    BY <2>0
  <2> HIDE DEF c
  <2> QED
    BY <2>1
<1>8. kx < 30000 => ky = kx /\ 0 <= ky
  <2>1. CASE x.num = <<>>
    <3>1. ky = kx /\ kx > 0 /\ kx \in Int
      BY <1>2, <1>6, <2>1
    <3> HIDE DEF kx, ky
    <3> QED
      BY <3>1
  <2>2. CASE x.num # <<>>
    <3>1. c \in 0..11 /\ 10000 * (c + 1) <= kx /\ kx \in Int /\ a = V19Chapters[c]
             /\ ky = kx + 10000 * (a - c)
      BY <1>2, <1>6, <1>7, <2>2
    <3> HIDE DEF kx, ky, a, c
    <3>2. c < 2 => c = 0 \/ c = 1
      BY <3>1
    <3>3. c < 2 => a = c
      BY <3>1, <3>2, Order19
    <3>4. kx < 30000 => c < 2
      BY <3>1
    <3> QED
      BY <3>1, <3>3, <3>4
  <2> QED
    BY <2>1, <2>2
<1>9. x.topic = "appendix" => ky = 300000
  BY <1>5, <1>6
<1>10. ASSUME NEW k \in 1..10, x.num # <<>>, c = V19Order[k]
       PROVE  /\ ky = kx + 10000 * (k + 2 - V19Order[k]) /\ V19Order[k] \in 2..11
              /\ 10000 * (3 + k) <= ky /\ ky < 10000 * (3 + k + 1)
  <2> DEFINE o == V19Order[k]
  <2>1. o \in 2..11 /\ a = k + 2 /\ c = o
    BY <1>6, <1>10, Order19
  <2>2. 10000 * (c + 1) <= kx /\ kx <= 10000 * (c + 1) + 900 /\ kx \in Int
           /\ ky = kx + 10000 * (a - c)
    BY <1>2, <1>6, <1>10
  <2> HIDE DEF o, c, a, kx, ky
  <2>3. ky = kx + 10000 * (k + 2 - o) /\ 10000 * (3 + k) <= ky /\ ky < 10000 * (3 + k + 1)
    BY <2>1, <2>2
  <2> QED
    BY <2>1, <2>3 DEF o
<1>11. \/ kx < 30000
       \/ x.topic = "appendix"
       \/ \E k \in 1..10 : x.num # <<>> /\ c = V19Order[k]
  <2>1. CASE x.num = <<>>
    <3>1. x.topic = "appendix" \/ (kx < 8 /\ kx \in Int)
      BY <1>2, <2>1
    <3> HIDE DEF kx
    <3> QED
      BY <3>1
  <2>2. CASE x.num # <<>>
    <3>1. c \in 0..11 /\ kx <= 10000 * (c + 1) + 900 /\ kx \in Int
      BY <1>2, <1>7, <2>2
    <3> HIDE DEF c, kx
    <3>2. c \in 2..11 \/ kx < 30000
      BY <3>1
    <3> QED
      BY <2>2, <3>2, Order19
  <2> QED
    BY <2>1, <2>2
<1> QED
  BY <1>2, <1>4, <1>8, <1>9, <1>10, <1>11 DEF Goes19, Falls19

StayOf(old, h) == {i \in DOMAIN old : \E j \in Block(old, h) : i <= j}

(* The blocks v1.9 cuts out are the chapters, what it leaves is the front  *)
(* and chapters 0 and 1, and the appendix is a block of its own.           *)
LEMMA Blocks19 ==
  ASSUME NEW old, Layout(8, old), \A n \in DOMAIN V19Chapters : ChapterAt(old, n) # 0,
         Holds(old, <<>>, "appendix")
  PROVE  /\ \A c \in 0..11 : Block(old, ChapterAt(old, c)) = PartOf(old, c)
         /\ StayOf(old, ChapterAt(old, 1)) = {i \in 1..Len(old) : Key(old[i]) < 30000}
         /\ Block(old, Heading(old, <<>>, "appendix"))
            = {i \in 1..Len(old) : old[i].topic = "appendix"}
<1>1. old \in Seq(Sec) /\ Rising(old) /\ DOMAIN old = 1..Len(old)
  BY LenProperties DEF Layout
<1>2. Len(ChapterTopics(8)) = 12 /\ 8 \in 8..9
  BY ChapterLists DEF ChapterTopics
<1> DEFINE top == Len(ChapterTopics(8))
<1>3. ASSUME NEW c \in 0..11
      PROVE  /\ ChapterAt(old, c) \in 1..Len(old) /\ old[ChapterAt(old, c)].num = <<c>>
             /\ c \in 0..(top - 1)
  <2> DEFINE h == ChapterAt(old, c)
  <2>1. h # 0
    BY DEF V19Chapters
  <2>2. h \in 1..Len(old) /\ old[h].num = <<c>>
    BY <1>1, <2>1, ChapterAtIs
  <2>3. top = 12
    BY <1>2
  <2> HIDE DEF top
  <2>4. c \in 0..(top - 1)
    BY <2>3
  <2> QED
    BY <2>2, <2>4
<1>4. ASSUME NEW c \in 0..11 PROVE Block(old, ChapterAt(old, c)) = PartOf(old, c)
  <2> DEFINE h == ChapterAt(old, c)
  <2>1. h \in 1..Len(old) /\ old[h].num = <<c>> /\ c \in 0..(Len(ChapterTopics(8)) - 1)
    BY <1>3
  <2> HIDE DEF h
  <2>2. Block(old, h) = PartOf(old, c)
    BY <1>2, <2>1, BlockOfChapter
  <2> QED
    BY <2>2 DEF h
<1>5. StayOf(old, ChapterAt(old, 1)) = {i \in 1..Len(old) : Key(old[i]) < 30000}
  <2> DEFINE h == ChapterAt(old, 1)
  <2>0. 1 \in 0..11
    OBVIOUS
  <2>1. h \in 1..Len(old) /\ old[h].num = <<1>> /\ 1 \in 0..(Len(ChapterTopics(8)) - 1)
           /\ Block(old, h) = PartOf(old, 1)
    BY <1>3, <1>4, <2>0
  <2> HIDE DEF h
  <2>2. StayOf(old, h) = {i \in DOMAIN old : \E j \in PartOf(old, 1) : i <= j}
    BY <2>1 DEF StayOf
  <2>3. {i \in DOMAIN old : \E j \in PartOf(old, 1) : i <= j}
           = {i \in 1..Len(old) : Key(old[i]) < 10000 * (1 + 2)}
    BY <1>2, <2>1, StayIs
  <2>4. 10000 * (1 + 2) = 30000
    OBVIOUS
  <2> QED
    BY <2>2, <2>3, <2>4 DEF h
<1>6. Block(old, Heading(old, <<>>, "appendix")) = {i \in 1..Len(old) : old[i].topic = "appendix"}
  <2> DEFINE h == Heading(old, <<>>, "appendix")
  <2>1. h # 0
    BY DEF Holds
  <2>2. h \in 1..Len(old) /\ old[h].topic = "appendix"
    BY <1>1, <2>1, HeadingIs
  <2> HIDE DEF h
  <2>3. Block(old, h) = {i \in 1..Len(old) : old[i].topic = "appendix"}
    BY <1>2, <2>2, BlockOfAppendix
  <2> QED
    BY <2>3 DEF h
<1> QED
  BY <1>4, <1>5, <1>6

Flattened(ss, lo, hi) ==
  /\ FlattenSeq(ss) \in Seq(Sec) /\ Between(FlattenSeq(ss), lo, hi)
  /\ ToSet(FlattenSeq(ss)) = UNION {ToSet(ss[k]) : k \in 1..Len(ss)}

(* Three chapters, ten above them and the next height.                     *)
LEMMA FourteenFloors == 3 + 10 + 1 = 14
OBVIOUS

(* The ten chapters behind the journey, stacked, make one body.            *)
Storeys(ss) ==
  ss \in Seq(Seq(Sec)) /\ Len(ss) = 10 /\ Stacked(ss, 3)

(* Ten storeys from the fourth chapter on fill the span of the blocks.     *)
LEMMA FlattenStacked ==
  ASSUME NEW ss, Storeys(ss)
  PROVE  Flattened(ss, AtBlocks, AtAppendix)
<1> DEFINE u   == 3
           top == Len(ss)
<1>1. ss \in Seq(Seq(Sec)) /\ top = 10
  BY DEF Storeys
<1>2. Stacked(ss, u)
  BY DEF Storeys
<1>3. AtBlocks = 10000 * (u + 1) /\ AtAppendix = 10000 * (u + top + 1) /\ u \in Int /\ top > 0
  <2>1. AtBlocks = 40000 /\ AtAppendix = 140000
    BY DEF AtBlocks, AtAppendix
  <2>2. 10000 * 4 = 40000 /\ 10000 * 14 = 140000
    OBVIOUS
  <2>3. u = 3 /\ top = 10
    BY <1>1
  <2> HIDE DEF u, top
  <2>4. u \in Int /\ u + 1 = 4 /\ top > 0
    BY <2>3
  <2>5. u + top + 1 = 14
    BY <2>3, FourteenFloors, Zenon
  <2> QED
    BY <2>1, <2>2, <2>4, <2>5
<1> HIDE DEF u
<1>4. Tower(ss, u)
  BY <1>1, <1>2, <1>3, FlattenBetween, Zenon
<1>5. /\ FlattenSeq(ss) \in Seq(Sec)
      /\ Between(FlattenSeq(ss), 10000 * (u + 1), 10000 * (u + top + 1))
      /\ ToSet(FlattenSeq(ss)) = UNION {ToSet(ss[k]) : k \in 1..Len(ss)}
  BY <1>4 DEF Tower
<1> HIDE DEF top
<1>6. Between(FlattenSeq(ss), AtBlocks, AtAppendix)
  BY <1>3, <1>5
<1> QED
  BY <1>5, <1>6 DEF Flattened

(* The blocks behind the journey, put in their new order.                  *)
LEMMA Stack19 ==
  ASSUME NEW old, Layout(8, old), NEW new \in Seq(Sec), DOMAIN new = 1..Len(old),
         \A i \in 1..Len(old) : Goes19(old[i], new[i]),
         NEW ss, ss = [k \in 1..10 |-> Pick(new, PartOf(old, V19Order[k]))]
  PROVE  /\ FlattenSeq(ss) \in Seq(Sec) /\ Between(FlattenSeq(ss), AtBlocks, AtAppendix)
         /\ ToSet(FlattenSeq(ss)) = UNION {{new[i] : i \in PartOf(old, V19Order[k])} : k \in 1..10}
<1>1. \A i, j \in 1..Len(old) : i < j => Key(old[i]) < Key(old[j])
  BY DEF Layout, Rising
<1> DEFINE lo(k) == 10000 * (3 + k)
           hi(k) == 10000 * (3 + k + 1)
           U(k) == {new[i] : i \in PartOf(old, V19Order[k])}
<1>2. ASSUME NEW k \in 1..10
      PROVE  ss[k] \in Seq(Sec) /\ Between(ss[k], lo(k), hi(k)) /\ ToSet(ss[k]) = U(k)
  <2> DEFINE I == PartOf(old, V19Order[k])
             o == V19Order[k]
  <2>1. ss[k] = Pick(new, I)
    OBVIOUS
  <2>2. \A i \in I : i \in 1..Len(old) /\ old[i].num # <<>> /\ old[i].num[1] = o
    BY DEF PartOf
  <2>3. \A i \in I : /\ Key(new[i]) = Key(old[i]) + 10000 * (k + 2 - o) /\ o \in 2..11
                     /\ Key(old[i]) \in Int
                     /\ lo(k) <= Key(new[i]) /\ Key(new[i]) < hi(k)
    <3> SUFFICES ASSUME NEW i \in I
                 PROVE  /\ Key(new[i]) = Key(old[i]) + 10000 * (k + 2 - o) /\ o \in 2..11
                        /\ Key(old[i]) \in Int
                        /\ lo(k) <= Key(new[i]) /\ Key(new[i]) < hi(k)
      OBVIOUS
    <3> DEFINE x == old[i]
               y == new[i]
    <3>1. Goes19(x, y) /\ x.num # <<>> /\ x.num[1] = V19Order[k]
      BY <2>2
    <3> HIDE DEF x, y
    <3>2. /\ Key(y) = Key(x) + 10000 * (k + 2 - V19Order[k]) /\ V19Order[k] \in 2..11
          /\ Key(x) \in Int
          /\ 10000 * (3 + k) <= Key(y) /\ Key(y) < 10000 * (3 + k + 1)
      <4>1. Falls19(k, x, y)
        BY <3>1 DEF Goes19
      <4>2. Key(x) \in Int
        BY <3>1 DEF Goes19
      <4> QED
        BY <4>1, <4>2 DEF Falls19
    <3> QED
      BY <3>2 DEF x, y
  <2>4. \A i, j \in I \cap DOMAIN new : i < j => Key(new[i]) < Key(new[j])
    <3> SUFFICES ASSUME NEW i \in I, NEW j \in I, i < j PROVE Key(new[i]) < Key(new[j])
      OBVIOUS
    <3> DEFINE ai == Key(old[i])
               aj == Key(old[j])
               bi == Key(new[i])
               bj == Key(new[j])
    <3>1. ai < aj
      BY <1>1, <2>2
    <3>2. /\ ai \in Int /\ aj \in Int /\ bi = ai + 10000 * (k + 2 - o)
             /\ bj = aj + 10000 * (k + 2 - o)
          /\ o \in 2..11
      BY <2>3
    <3> HIDE DEF ai, aj, bi, bj, o
    <3>3. bi < bj
      BY <3>1, <3>2
    <3> QED
      BY <3>3 DEF bi, bj
  <2>5. \A i \in I \cap DOMAIN new : lo(k) <= Key(new[i]) /\ Key(new[i]) < hi(k)
    BY <2>3
  <2>6. I \cap DOMAIN new = I
    BY <2>2
  <2> HIDE DEF I, lo, hi
  <2>7. /\ Pick(new, I) \in Seq(Sec) /\ Between(Pick(new, I), lo(k), hi(k))
        /\ ToSet(Pick(new, I)) = {new[i] : i \in I \cap DOMAIN new}
    BY <2>4, <2>5, PieceIs
  <2> QED
    BY <2>1, <2>6, <2>7 DEF I
<1>3. ss \in Seq(Seq(Sec)) /\ Len(ss) = 10
  <2>1. ss \in [1..10 -> Seq(Sec)]
    BY <1>2
  <2> DEFINE T == Seq(Sec)
  <2>2. ss \in [1..10 -> T] /\ 10 \in Nat
    BY <2>1
  <2> HIDE DEF T
  <2>3. ss \in Seq(T) /\ Len(ss) = 10
    BY <2>2, SeqFrom
  <2> QED
    BY <2>3 DEF T
<1>5. 1..Len(ss) = 1..10
  BY <1>3
<1>7. Flattened(ss, AtBlocks, AtAppendix)
  <2>1. ASSUME NEW k \in 1..10 PROVE OnFloor(ss[k], 3 + k)
    <3> HIDE DEF lo, hi
    <3>1. Between(ss[k], lo(k), hi(k))
      BY <1>2, Zenon
    <3> QED
      BY <3>1 DEF lo, hi, OnFloor
  <2>2. \A k \in 1..Len(ss) : OnFloor(ss[k], 3 + k)
    BY <1>5, <2>1, Zenon
  <2>3. Stacked(ss, 3)
    BY <2>2 DEF Stacked
  <2>4. Storeys(ss)
    BY <1>3, <2>3 DEF Storeys
  <2> QED
    BY <2>4, FlattenStacked
<1> HIDE DEF U, lo, hi
<1>9. \A k \in 1..10 : ToSet(ss[k]) = U(k)
  BY <1>2, Zenon
<1>10. UNION {ToSet(ss[k]) : k \in 1..10} = UNION {U(k) : k \in 1..10}
  BY <1>9
<1>11. /\ FlattenSeq(ss) \in Seq(Sec) /\ Between(FlattenSeq(ss), AtBlocks, AtAppendix)
       /\ ToSet(FlattenSeq(ss)) = UNION {U(k) : k \in 1..10}
  BY <1>5, <1>7, <1>10 DEF Flattened
<1> QED
  BY <1>11 DEF U

(* What v1.9 leaves in front: everything below chapter 2.                  *)
LEMMA Front19 ==
  ASSUME NEW old, Layout(8, old), NEW new \in Seq(Sec), DOMAIN new = 1..Len(old),
         \A i \in 1..Len(old) : Goes19(old[i], new[i]),
         NEW I, I = {i \in 1..Len(old) : Key(old[i]) < 30000}
  PROVE  /\ Pick(new, I) \in Seq(Sec) /\ Between(Pick(new, I), AtStart, AtJourney)
         /\ ToSet(Pick(new, I)) = {new[i] : i \in I}
<1>1. \A i, j \in 1..Len(old) : i < j => Key(old[i]) < Key(old[j])
  BY DEF Layout, Rising
<1>2. \A i \in I : i \in 1..Len(old) /\ Key(new[i]) = Key(old[i]) /\ 0 <= Key(new[i])
         /\ Key(new[i]) < 30000
  BY DEF Goes19
<1>3. \A i, j \in I \cap DOMAIN new : i < j => Key(new[i]) < Key(new[j])
  BY <1>1, <1>2
<1>4. \A i \in I \cap DOMAIN new : AtStart <= Key(new[i]) /\ Key(new[i]) < AtJourney
  BY <1>2 DEF AtStart, AtJourney
<1>5. I \cap DOMAIN new = I
  OBVIOUS
<1>6. \A i \in I : i \in DOMAIN new
  BY <1>5
<1> QED
  BY ONLY <1>3, <1>4, <1>5, PieceIs, new \in Seq(Sec), Zenon

(* What v1.9 puts last: the appendix.                                      *)
LEMMA Back19 ==
  ASSUME NEW old, Layout(8, old), NEW new \in Seq(Sec), DOMAIN new = 1..Len(old),
         \A i \in 1..Len(old) : Goes19(old[i], new[i]),
         NEW I, I = {i \in 1..Len(old) : old[i].topic = "appendix"}
  PROVE  /\ Pick(new, I) \in Seq(Sec) /\ Between(Pick(new, I), AtAppendix, AtEnd)
         /\ ToSet(Pick(new, I)) = {new[i] : i \in I}
<1>1. Distinct(old) /\ DOMAIN old = 1..Len(old)
  BY DistinctIs, LenProperties DEF Layout, Drawn
<1>2. \A i \in I : Key(new[i]) = 300000
  BY DEF Goes19
<1>3. \A i, j \in I \cap DOMAIN new : i < j => Key(new[i]) < Key(new[j])
  <2> SUFFICES ASSUME NEW i \in I, NEW j \in I, i < j PROVE FALSE
    OBVIOUS
  <2>1. i \in 1..Len(old) /\ j \in 1..Len(old) /\ old[i].topic = old[j].topic
    OBVIOUS
  <2>2. i = j
    BY <1>1, <2>1 DEF Distinct
  <2> QED
    BY <2>1, <2>2
<1>4. \A i \in I \cap DOMAIN new : AtAppendix <= Key(new[i]) /\ Key(new[i]) < AtEnd
  BY <1>2 DEF AtAppendix, AtEnd
<1>5. I \cap DOMAIN new = I
  OBVIOUS
<1> QED
  BY ONLY <1>3, <1>4, <1>5, PieceIs, new \in Seq(Sec)

Joined(body, secs) == body \in Seq(Sec) /\ Rising(body) /\ ToSet(body) = secs

(* The pieces of v1.9, in the order it inserts them, make one rising body. *)
LEMMA Joined19 ==
  ASSUME NEW a \in Seq(Sec), NEW b \in Seq(Sec), NEW c \in Seq(Sec), NEW d \in Seq(Sec),
         NEW e \in Seq(Sec), Between(a, AtStart, AtJourney), Between(b, AtJourney, AtBlocks),
         Between(c, AtBlocks, AtAppendix), Between(d, AtAppendix, AtEnd), ToSet(e) = {}
  PROVE  Joined(a \o b \o c \o d \o e, ToSet(a) \cup ToSet(b) \cup ToSet(c) \cup ToSet(d))
<1>0. /\ AtStart \in Int /\ AtJourney \in Int /\ AtBlocks \in Int /\ AtAppendix \in Int
         /\ AtEnd \in Int
      /\ AtStart <= AtJourney /\ AtJourney <= AtBlocks /\ AtBlocks <= AtAppendix
         /\ AtAppendix <= AtEnd
      /\ AtStart <= AtBlocks /\ AtStart <= AtAppendix
  BY DEF AtStart, AtJourney, AtBlocks, AtAppendix, AtEnd
<1> DEFINE ab == a \o b
           abc == ab \o c
           abcd == abc \o d
<1>1. ab \in Seq(Sec) /\ Between(ab, AtStart, AtBlocks) /\ ToSet(ab) = ToSet(a) \cup ToSet(b)
  BY <1>0, BetweenConcat
<1> HIDE DEF ab
<1>2. abc \in Seq(Sec) /\ Between(abc, AtStart, AtAppendix) /\ ToSet(abc) = ToSet(ab) \cup ToSet(c)
  BY <1>0, <1>1, BetweenConcat
<1> HIDE DEF abc
<1>3. abcd \in Seq(Sec) /\ Between(abcd, AtStart, AtEnd) /\ ToSet(abcd) = ToSet(abc) \cup ToSet(d)
  BY <1>0, <1>2, BetweenConcat
<1> HIDE DEF abcd
<1>4. Rising(e)
  <2>1. \A i \in 1..Len(e) : e[i] \in ToSet(e)
    BY Members
  <2> QED
    BY <2>1 DEF Rising
<1>5. Rising(abcd)
  BY <1>3 DEF Between
<1>6. \A x \in ToSet(abcd), y \in ToSet(e) : Key(x) < Key(y)
  OBVIOUS
<1>7. abcd \o e \in Seq(Sec) /\ Rising(abcd \o e) /\ ToSet(abcd \o e) = ToSet(abcd) \cup ToSet(e)
  BY <1>3, <1>4, <1>5, <1>6, RisingConcat, MembersOfConcat
<1>8. a \o b \o c \o d \o e = abcd \o e
  BY DEF abcd, abc, ab
<1> QED
  BY <1>1, <1>2, <1>3, <1>7, <1>8 DEF Joined

(* v1.9's body has the layout of v1.9: the journey is chapter 2 and every  *)
(* other chapter is at its new place.                                      *)
LEMMA Moved19 ==
  ASSUME NEW old, Layout(8, old), \A n \in DOMAIN V19Chapters : ChapterAt(old, n) # 0,
         Holds(old, <<>>, "appendix"), NEW new, Renumbered(8, old, new)
  PROVE  Layout(9, V19Moved(old, new)) /\ Topics(V19Moved(old, new)) = Topics(old) \cup {"journey"}
<1>1. /\ new \in Seq(Sec) /\ DOMAIN new = 1..Len(old) /\ DOMAIN old = 1..Len(old)
      /\ \A i \in 1..Len(old) : Placed(8, old[i], new[i]) /\ Shifted(8, old[i], new[i])
  BY RenumberedIs, LenProperties DEF Layout
<1>2. ASSUME NEW i \in 1..Len(old) PROVE Goes19(old[i], new[i]) /\ Shape(8, old[i])
  <2> DEFINE x == old[i]
             y == new[i]
  <2>1. Shifted(8, x, y) /\ Shape(8, x)
    BY <1>1, LayoutAt
  <2> HIDE DEF x, y
  <2>2. Goes19(x, y)
    BY <2>1, Keys19
  <2> QED
    BY <2>1, <2>2 DEF x, y
<1> DEFINE block(k) == Block(old, ChapterAt(old, V19Order[k]))
           front == {i \in 1..Len(old) : Key(old[i]) < 30000}
           back  == {i \in 1..Len(old) : old[i].topic = "appendix"}
           under(k) == PartOf(old, V19Order[k])
           ss == [k \in 1..10 |-> Pick(new, under(k))]
           left == DOMAIN old \ (front \cup ((UNION {under(k) : k \in 1..10}) \cup back))
<1>3. \A k \in 1..10 : block(k) = under(k)
  <2> SUFFICES ASSUME NEW k \in 1..10 PROVE block(k) = under(k)
    OBVIOUS
  <2> DEFINE c == V19Order[k]
  <2>1. c \in 0..11
    BY Order19
  <2> HIDE DEF c
  <2>2. Block(old, ChapterAt(old, c)) = PartOf(old, c)
    BY <2>1, Blocks19
  <2> QED
    BY <2>2 DEF c
<1>4. StayOf(old, ChapterAt(old, 1)) = front
  BY Blocks19
<1>5. Block(old, Heading(old, <<>>, "appendix")) = back
  BY Blocks19
<1>6. DOMAIN V19Order = 1..10
  BY Order19
<1>7. V19Moved(old, new) = Pick(new, front) \o Journey \o FlattenSeq(ss) \o Pick(new, back)
         \o Pick(new, left)
  <2> DEFINE stay == StayOf(old, ChapterAt(old, 1))
             appendix == Block(old, Heading(old, <<>>, "appendix"))
  <2>1. V19Moved(old, new) = Pick(new, stay) \o Journey
          \o FlattenSeq([k \in DOMAIN V19Order |-> Pick(new, block(k))])
          \o Pick(new, appendix)
          \o Pick(new, DOMAIN old \ (stay
             \cup ((UNION {block(k) : k \in DOMAIN V19Order}) \cup appendix)))
    BY Zenon DEF V19Moved, StayOf
  <2>2. [k \in 1..10 |-> Pick(new, block(k))] = ss
    BY <1>3
  <2>3. {block(k) : k \in 1..10} = {under(k) : k \in 1..10}
    BY <1>3
  <2>4. stay = front /\ appendix = back
    BY <1>4, <1>5
  <2> HIDE DEF stay, appendix, front, back, block, under
  <2> QED
    BY <1>6, <2>1, <2>2, <2>3, <2>4
<1>8. left = {}
  <2> SUFFICES ASSUME NEW i \in left PROVE FALSE
    OBVIOUS
  <2>1. /\ i \in 1..Len(old) /\ i \notin front /\ i \notin back
        /\ \A k \in 1..10 : i \notin under(k)
    BY <1>1
  <2>2. Goes19(old[i], new[i])
    BY <1>2, <2>1
  <2>3. ~(Key(old[i]) < 30000) /\ old[i].topic # "appendix"
    BY <2>1
  <2>4. PICK k \in 1..10 : old[i].num # <<>> /\ old[i].num[1] = V19Order[k]
    BY <2>2, <2>3 DEF Goes19
  <2>5. i \in under(k)
    BY <2>1, <2>4 DEF PartOf
  <2> QED
    BY <2>1, <2>5
<1>9. Pick(new, left) \in Seq(Sec) /\ ToSet(Pick(new, left)) = {}
  <2> HIDE DEF left
  <2> QED
    BY <1>1, <1>8, MembersOfPick
<1>10. /\ Pick(new, front) \in Seq(Sec) /\ Between(Pick(new, front), AtStart, AtJourney)
       /\ ToSet(Pick(new, front)) = {new[i] : i \in front}
  BY <1>1, <1>2, Front19
<1>11. /\ Pick(new, back) \in Seq(Sec) /\ Between(Pick(new, back), AtAppendix, AtEnd)
       /\ ToSet(Pick(new, back)) = {new[i] : i \in back}
  BY <1>1, <1>2, Back19
<1>12. /\ FlattenSeq(ss) \in Seq(Sec) /\ Between(FlattenSeq(ss), AtBlocks, AtAppendix)
       /\ ToSet(FlattenSeq(ss)) = UNION {{new[i] : i \in under(k)} : k \in 1..10}
  BY <1>1, <1>2, Stack19
<1>13. Journey \in Seq(Sec) /\ Outline(Journey) = {Newcomer(8)}
          /\ Between(Journey, AtJourney, AtBlocks)
  BY JourneyIs
<1> DEFINE body == V19Moved(old, new)
           a == Pick(new, front)
           b == Journey
           c == FlattenSeq(ss)
           d == Pick(new, back)
           e == Pick(new, left)
<1>14. /\ a \in Seq(Sec) /\ b \in Seq(Sec) /\ c \in Seq(Sec) /\ d \in Seq(Sec) /\ e \in Seq(Sec)
       /\ Between(a, AtStart, AtJourney) /\ Between(b, AtJourney, AtBlocks)
       /\ Between(c, AtBlocks, AtAppendix) /\ Between(d, AtAppendix, AtEnd) /\ ToSet(e) = {}
       /\ body = a \o b \o c \o d \o e
  BY <1>7, <1>9, <1>10, <1>11, <1>12, <1>13, SMTT(20)
<1>15. \A i \in 1..Len(old) : i \in front \/ i \in back \/ \E k \in 1..10 : i \in under(k)
  BY <1>1, <1>8
<1>16. \A k \in 1..10 : under(k) \subseteq 1..Len(old)
  BY DEF PartOf
<1>17. front \subseteq 1..Len(old) /\ back \subseteq 1..Len(old)
  OBVIOUS
<1> HIDE DEF ss
<1>18. /\ ToSet(a) = {new[i] : i \in front} /\ ToSet(d) = {new[i] : i \in back}
       /\ ToSet(c) = UNION {{new[i] : i \in under(k)} : k \in 1..10}
  BY <1>10, <1>11, <1>12
<1> HIDE DEF front, back, under, left, body, a, b, c, d, e
<1>19. /\ body \in Seq(Sec) /\ Rising(body)
       /\ ToSet(body) = ToSet(a) \cup ToSet(b) \cup ToSet(c) \cup ToSet(d)
  <2>1. body = a \o b \o c \o d \o e
    BY <1>14
  <2>2. Joined(a \o b \o c \o d \o e, ToSet(a) \cup ToSet(b) \cup ToSet(c) \cup ToSet(d))
    BY <1>14, Joined19
  <2> QED
    BY <2>1, <2>2 DEF Joined
<1>20. ToSet(a) \cup ToSet(c) \cup ToSet(d) = {new[i] : i \in 1..Len(old)}
  <2> DEFINE N == 1..Len(old)
             mid == UNION {{new[i] : i \in under(k)} : k \in 1..10}
  <2>1. N = 1..Len(old)
    OBVIOUS
  <2> HIDE DEF N
  <2>2. {new[i] : i \in front} \cup mid \cup {new[i] : i \in back} \subseteq {new[i] : i \in N}
    BY <1>16, <1>17, <2>1
  <2>3. ASSUME NEW i \in N PROVE new[i] \in {new[j] : j \in front} \cup mid
           \cup {new[j] : j \in back}
    <3>1. CASE i \in front
      BY <3>1
    <3>2. CASE i \in back
      BY <3>2
    <3>3. CASE \E k \in 1..10 : i \in under(k)
      <4>1. PICK k \in 1..10 : i \in under(k)
        BY <3>3
      <4> QED
        BY <4>1
    <3> QED
      BY <1>15, <2>1, <3>1, <3>2, <3>3
  <2>4. {new[i] : i \in N} \subseteq {new[j] : j \in front} \cup mid \cup {new[j] : j \in back}
    BY <2>3
  <2> HIDE DEF mid
  <2>5. {new[j] : j \in front} \cup mid \cup {new[j] : j \in back} = {new[i] : i \in N}
    BY <2>2, <2>4
  <2> QED
    BY <1>18, <2>1, <2>5 DEF mid
<1>21. ToSet(body) = {new[i] : i \in 1..Len(old)} \cup ToSet(b)
  BY <1>19, <1>20
<1>22. b \in Seq(Sec) /\ Outline(b) = {Newcomer(8)} /\ 8 \in 8..9
  BY <1>13 DEF b
<1>23. \A i \in 1..Len(old) : Placed(8, old[i], new[i])
  BY <1>1
<1>24. Layout(8 + 1, body) /\ Topics(body) = Topics(old) \cup {Newcomer(8).topic}
  <2> HIDE DEF body, b
  <2>1. Assembles(8, old, new, body, b)
    BY <1>1, <1>19, <1>21, <1>22, <1>23 DEF Assembles
  <2>2. 8 \in 8..9
    OBVIOUS
  <2> QED
    BY <2>1, <2>2, Assembled
<1>25. Newcomer(8).topic = "journey"
  BY <1>22, NewcomerIs
<1> QED
  BY <1>24, <1>25 DEF body

(* v1.9 adds the journey and takes the layout of v1.8 to its own.          *)
LEMMA LayoutOf19 ==
  ASSUME NEW d, Fields(d), Layout(8, d.body), Anchored19(d)
  PROVE  Layout(9, V19(d).body) /\ Topics(V19(d).body) = Topics(d.body) \cup {"journey"}
<1>1. V19(d).body = V19Moved(d.body, New19(d.body))
  BY DEF V19, New19, Fields
<1>2. Renumbered(8, d.body, New19(d.body))
  BY New19Is
<1>3. /\ \A n \in DOMAIN V19Chapters : ChapterAt(d.body, n) # 0
      /\ Holds(d.body, <<>>, "appendix")
  BY DEF Anchored19
<1> QED
  BY <1>1, <1>2, <1>3, Moved19

-----------------------------------------------------------------------------
(* v2.0: edits before the move *)

Retabled(body) == [body EXCEPT ![FirstWith(body, "perStock")].marks = @ \cup {"eightAxes"}]

Noted20(x, y) ==
  y \in Sec /\ y.num = x.num /\ y.topic = x.topic /\ y.level = x.level /\ Noted(10, y)

(* The table of axes is in the first section that speaks of single stocks, *)
(* and in no other.                                                        *)
LEMMA FirstStock ==
  ASSUME NEW body, Layout(9, body), {"perStock", "axisTable"} \subseteq Marks(body)
  PROVE  /\ FirstWith(body, "perStock") \in 1..Len(body)
         /\ \A k \in 1..Len(body) : "axisTable" \in body[k].marks
            <=> k = FirstWith(body, "perStock")
<1> DEFINE h == FirstWith(body, "perStock")
<1>1. body \in Seq(Sec) /\ Rising(body) /\ Distinct(body) /\ DOMAIN body = 1..Len(body)
  BY DistinctIs, LenProperties DEF Layout, Drawn
<1>2. PICK j \in 1..Len(body) : "axisTable" \in body[j].marks
  BY <1>1 DEF Marks
<1>3. \A k \in 1..Len(body) : body[k] \in Sec /\ Shape(9, body[k]) /\ Noted(9, body[k])
  BY LayoutAt DEF Shape
<1>4. \A k \in 1..Len(body) : "axisTable" \in body[k].marks =>
         body[k].topic = "logic" /\ "perStock" \in body[k].marks
  BY <1>3 DEF Noted
<1>5. /\ h \in 1..Len(body) /\ "perStock" \in body[h].marks
      /\ \A k \in 1..Len(body) : "perStock" \in body[k].marks => h <= k
  <2>1. h # 0
    BY <1>1, <1>2, <1>4, FirstWithIs
  <2> QED
    BY <1>1, <2>1, FirstWithIs
<1>6. body[h].topic # "register"
  <2> SUFFICES ASSUME body[h].topic = "register" PROVE FALSE
    OBVIOUS
  <2> DEFINE x == body[h]
             y == body[j]
             top == Len(ChapterTopics(9))
  <2>1. h <= j /\ Shape(9, x) /\ Shape(9, y) /\ x.topic = "register" /\ y.topic = "logic"
    BY <1>2, <1>3, <1>4, <1>5
  <2>2. Key(x) <= Key(y)
    <3> HIDE DEF h
    <3> QED
      BY <1>1, <1>2, <1>5, <2>1, RisingOrder
  <2> HIDE DEF x, y
  <2>3. Key(x) = 10000 * top
    BY <2>1, KeyBelow
  <2>4. "logic" \in SubTopics(9) /\ 9 \in 3..12
    BY DEF SubTopics
  <2>5. SubOf(9, y)
    BY <2>1, <2>4, KindOf
  <2>6. /\ y.num[1] \in 0..13 /\ y.num[2] \in 1..9 /\ y.num[2] <= Room(9, y.num[1])
        /\ Key(y) = 10000 * (y.num[1] + 1) + 100 * y.num[2] /\ y.num[1] < top
    <3>1. KeySub(9, y) /\ y.num[1] < top
      BY <2>1, <2>4, <2>5, KeyOfSub DEF SubOf
    <3> HIDE DEF top
    <3> QED
      BY <3>1 DEF KeySub
  <2>7. y.num[1] + 1 # top
    <3> SUFFICES ASSUME y.num[1] + 1 = top PROVE FALSE
      OBVIOUS
    <3>1. Room(9, y.num[1]) = 0
      BY DEF Room
    <3> QED
      BY <2>6, <3>1, SMTT(20)
  <2>8. top \in Int
    BY <2>4, Tops
  <2> DEFINE a == y.num[1]
             b == y.num[2]
  <2>9. a \in 0..13 /\ b \in 1..9 /\ Key(y) = 10000 * (a + 1) + 100 * b /\ a < top /\ a + 1 # top
    BY <2>6, <2>7
  <2> HIDE DEF a, b, top
  <2> QED
    BY <2>2, <2>3, <2>8, <2>9
<1>7. body[h].topic = "logic"
  BY <1>3, <1>5, <1>6 DEF Noted
<1>8. \A k \in 1..Len(body) : "axisTable" \in body[k].marks => k = h
  <2> HIDE DEF h
  <2> QED
    BY <1>1, <1>4, <1>5, <1>7 DEF Distinct
<1>9. "axisTable" \in body[h].marks
  BY <1>2, <1>8
<1> QED
  BY <1>5, <1>8, <1>9

(* Marking the table of axes as one of eight keeps what v2.0 relies on.    *)
LEMMA MarkedMore ==
  ASSUME NEW x \in Sec, Noted(9, x)
  PROVE  /\ "axisTable" \notin x.marks => Noted20(x, x)
         /\ "axisTable" \in x.marks => Noted20(x, [x EXCEPT !.marks = @ \cup {"eightAxes"}])
<1>1. "axisTable" \notin x.marks => Noted20(x, x)
  BY DEF Noted20, Noted
<1>2. ASSUME "axisTable" \in x.marks
      PROVE  Noted20(x, [x EXCEPT !.marks = @ \cup {"eightAxes"}])
  <2> DEFINE y == [x EXCEPT !.marks = @ \cup {"eightAxes"}]
  <2>1. "eightAxes" \in Mark
    BY DEF Mark
  <2>2. /\ y \in Sec /\ y.num = x.num /\ y.topic = x.topic /\ y.level = x.level
        /\ y.marks = x.marks \cup {"eightAxes"}
    BY <2>1 DEF Sec
  <2> HIDE DEF y
  <2>3. Noted(10, y)
    BY <1>2, <2>2 DEF Noted
  <2>4. Noted20(x, y)
    BY <2>2, <2>3 DEF Noted20
  <2> QED
    BY <2>4 DEF y
<1> QED
  BY <1>1, <1>2

(* v2.0's new table keeps every section and marks the one with the table   *)
(* of axes.                                                                *)
LEMMA RetabledIs ==
  ASSUME NEW body, Layout(9, body), {"perStock", "axisTable"} \subseteq Marks(body)
  PROVE  /\ Retabled(body) \in Seq(Sec) /\ DOMAIN Retabled(body) = DOMAIN body
         /\ \A k \in DOMAIN body : Noted20(body[k], Retabled(body)[k])
<1> DEFINE h == FirstWith(body, "perStock")
           new == Retabled(body)
           more(x) == [x EXCEPT !.marks = @ \cup {"eightAxes"}]
<1>1. DOMAIN body = 1..Len(body) /\ Len(body) \in Nat
  BY LenProperties DEF Layout
<1>2. h \in 1..Len(body) /\ \A k \in 1..Len(body) : "axisTable" \in body[k].marks <=> k = h
  BY FirstStock
<1>3. new = [k \in DOMAIN body |-> IF k = h THEN more(body[k]) ELSE body[k]]
  <2> HIDE DEF h
  <2> QED
    BY <1>1, <1>2 DEF Retabled, h
<1>4. \A k \in DOMAIN body : body[k] \in Sec /\ Noted(9, body[k])
  BY <1>1, LayoutAt DEF Shape
<1> HIDE DEF h
<1>5. ASSUME NEW k \in DOMAIN body PROVE Noted20(body[k], new[k])
  <2> DEFINE x == body[k]
  <2>1. x \in Sec /\ Noted(9, x) /\ ("axisTable" \in x.marks <=> k = h)
    BY <1>1, <1>2, <1>4
  <2>2. new[k] = IF k = h THEN more(x) ELSE x
    BY <1>3
  <2> HIDE DEF x, new
  <2>3. Noted20(x, new[k])
    BY <2>1, <2>2, MarkedMore
  <2> QED
    BY <2>3 DEF x
<1>6. new = [k \in 1..Len(body) |-> new[k]]
  BY <1>1, <1>3
<1> HIDE DEF new
<1>7. \A k \in 1..Len(body) : new[k] \in Sec
  BY <1>1, <1>5 DEF Noted20
<1>8. new \in [1..Len(body) -> Sec]
  BY <1>6, <1>7
<1>9. new \in Seq(Sec) /\ DOMAIN new = DOMAIN body
  BY <1>1, <1>6, <1>8, SeqFrom
<1> QED
  BY <1>5, <1>9 DEF new

New20(body) == Numbering(Referring(V20Edited(body), V20Reference), V20Heading)

(* v2.0's edits before the move keep every section's level, number and     *)
(* subject.                                                                *)
LEMMA Edited20 ==
  ASSUME NEW body, Layout(9, body), {"perStock", "axisTable"} \subseteq Marks(body)
  PROVE  /\ V20Edited(body) = [k \in DOMAIN body |-> V20Edited(body)[k]]
         /\ \A k \in DOMAIN body : Noted20(body[k], V20Edited(body)[k])
<1> DEFINE bold == Retabled(body)
           more == {Ref(<<1, 4>>, "storage")}
           new  == CitingAt(bold, "note", more)
<1>1. V20Edited(body) = new
  BY DEF V20Edited, Retabled
<1>2. /\ bold \in Seq(Sec) /\ DOMAIN bold = DOMAIN body
      /\ \A k \in DOMAIN body : Noted20(body[k], bold[k])
  BY RetabledIs
<1>3. more \in SUBSET Cite
  <2>1. "storage" \in Topic
    BY DEF Topic
  <2> QED
    BY <2>1, CiteIs
<1> HIDE DEF bold, more
<1>4. new = [k \in DOMAIN bold |-> new[k]] /\ \A k \in DOMAIN bold : Same(bold[k], new[k])
  BY <1>2, <1>3, CitedAt
<1> HIDE DEF new
<1>5. ASSUME NEW k \in DOMAIN body PROVE Noted20(body[k], new[k])
  <2> DEFINE x == body[k]
             y == bold[k]
             z == new[k]
  <2>1. Noted20(x, y) /\ Same(y, z)
    BY <1>2, <1>4
  <2> HIDE DEF x, y, z
  <2>2. \A m \in {"perStock", "axisTable", "end", "eightAxes"} : m \in z.marks <=> m \in y.marks
    BY <2>1 DEF Same, NotedMarks
  <2>3. Noted(10, z)
    BY <2>1, <2>2 DEF Noted20, Same, Noted
  <2>4. Noted20(x, z)
    BY <2>1, <2>3 DEF Noted20, Same
  <2> QED
    BY <2>4 DEF x, z
<1> QED
  BY <1>1, <1>2, <1>4, <1>5

(* v2.0 renumbers every heading with its chapter and changes nothing else  *)
(* the layout speaks of.                                                   *)
LEMMA New20Is ==
  ASSUME NEW body, Layout(9, body), {"perStock", "axisTable"} \subseteq Marks(body)
  PROVE  Renumbered(9, body, New20(body))
<1> DEFINE edited == V20Edited(body)
           refs(i) == {Ref(V20Reference(r.num), r.to) : r \in edited[i].refs}
           num(i)  == InChapter(Moves(9), edited[i].num)
           mid     == Referring(edited, V20Reference)
           new     == New20(body)
<1>1. /\ edited = [i \in DOMAIN body |-> edited[i]]
      /\ \A i \in DOMAIN body : Noted20(body[i], edited[i])
  BY Edited20
<1>2. \A i \in DOMAIN body : edited[i] \in Sec
  BY <1>1 DEF Noted20
<1>3. /\ new = [i \in DOMAIN body |-> new[i]]
      /\ \A i \in DOMAIN body : new[i] = [[edited[i] EXCEPT !.refs = refs(i)] EXCEPT !.num = num(i)]
  <2> HIDE DEF edited
  <2>1. mid = [i \in DOMAIN body |-> [edited[i] EXCEPT !.refs = refs(i)]]
    BY <1>1 DEF Referring
  <2>2. ASSUME NEW i \in DOMAIN body PROVE mid[i].num = edited[i].num
    <3>1. edited[i] \in Sec /\ mid[i] = [edited[i] EXCEPT !.refs = refs(i)]
      BY <1>2, <2>1
    <3> HIDE DEF mid, refs
    <3> QED
      BY <3>1 DEF Sec
  <2>3. new = Numbering(mid, V20Heading)
    BY DEF New20, edited
  <2>4. DOMAIN mid = DOMAIN body
    BY <2>1
  <2> HIDE DEF mid, new, refs
  <2>5. new = [i \in DOMAIN body |-> [mid[i] EXCEPT !.num = InChapter(Moves(9), mid[i].num)]]
    BY <2>3, <2>4 DEF Numbering, V20Heading, Moves
  <2>6. ASSUME NEW i \in DOMAIN body
        PROVE  new[i] = [[edited[i] EXCEPT !.refs = refs(i)] EXCEPT !.num = num(i)]
    <3>1. new[i] = [mid[i] EXCEPT !.num = InChapter(Moves(9), mid[i].num)]
      BY <2>5
    <3>2. InChapter(Moves(9), mid[i].num) = num(i)
      BY <2>2
    <3>3. mid[i] = [edited[i] EXCEPT !.refs = refs(i)]
      BY <2>1
    <3> HIDE DEF num
    <3> QED
      BY <3>1, <3>2, <3>3
  <2>7. new = [i \in DOMAIN body |-> new[i]]
    BY <2>5
  <2> HIDE DEF num
  <2> QED
    BY <2>6, <2>7, Zenon
<1>4. ASSUME NEW i \in DOMAIN body PROVE Carried(9, body[i], new[i])
  <2> DEFINE x == body[i]
             e == edited[i]
             y == new[i]
             k == num(i)
             r == refs(i)
  <2>1. Noted20(x, e) /\ e \in Sec /\ e.num \in Seq(Nat)
    <3>1. Noted20(x, e) /\ e \in Sec
      BY <1>1, <1>2
    <3> QED
      BY <3>1 DEF Sec
  <2>2. k \in Seq(Nat)
    <3>1. 9 \in 8..9
      OBVIOUS
    <3> HIDE DEF edited
    <3> QED
      BY <2>1, <3>1, MovesIs
  <2>3. r \in SUBSET Cite
    <3> HIDE DEF edited
    <3> QED
      BY <2>1, RefsStay
  <2>4. Revised(e, y, k, r)
    BY <1>3, Zenon DEF Revised
  <2>5. k = InChapter(Moves(9), x.num)
    BY <2>1 DEF Noted20
  <2> HIDE DEF e, y, k, r
  <2>6. y \in Sec /\ y.num = k /\ y.topic = e.topic /\ y.level = e.level /\ y.marks = e.marks
    <3>1. e \in Sec
      BY <2>1
    <3> QED
      BY <2>2, <2>3, <2>4, <3>1, Replaced
  <2> HIDE DEF x
  <2>7. Noted(10, y)
    BY <2>1, <2>6 DEF Noted20, Noted
  <2> QED
    BY <2>1, <2>5, <2>6, <2>7 DEF Carried, Noted20, x, y
<1> QED
  BY <1>3, <1>4, Zenon DEF Renumbered

-----------------------------------------------------------------------------
(* v2.0: pieces and order *)

Goes20(x, y) ==
  /\ Key(x) \in Int /\ Key(y) \in Int
  /\ Key(x) < 60000 => Key(y) = Key(x) /\ 0 <= Key(y)
  /\ Key(x) < 60000 \/ (Key(x) = 300000 /\ Key(y) = 300000)
       \/ (60000 <= Key(x) /\ Key(x) < 150000 /\ Key(y) = Key(x) + 10000)

(* Where v2.0 sends a key: chapters below 5 stay, the others move up by    *)
(* one.                                                                    *)
LEMMA Keys20 ==
  ASSUME NEW x, Shape(9, x), NEW y, Shifted(9, x, y)
  PROVE  Goes20(x, y)
<1> DEFINE c  == x.num[1]
           a  == y.num[1]
           kx == Key(x)
           ky == Key(y)
           top == Len(ChapterTopics(9))
<1>1. 9 \in 3..12 /\ 10 \in 3..12 /\ Moves(9) = V20Chapters
  BY DEF Moves
<1>2. /\ kx \in Int
      /\ x.num = <<>> => (x.topic # "appendix" /\ kx < 8) \/ (x.topic = "appendix" /\ kx = 300000)
      /\ x.num = <<>> => kx > 0
      /\ x.num # <<>> => /\ c \in 0..13 /\ c < top
                         /\ 10000 * (c + 1) <= kx /\ kx <= 10000 * (c + 1) + 900
  BY <1>1, KeySpan
<1>3. top = 13
  BY ChapterLists DEF ChapterTopics
<1> HIDE DEF top
<1>4. Shape(10, y) /\ ky \in Int
  <2>1. Shape(9 + 1, y) /\ 9 + 1 = 10
    BY DEF Shifted
  <2> QED
    BY <1>1, <2>1, KeyOf
<1>5. /\ x.num = <<>> => ky = kx
      /\ x.num # <<>> => a = V20Chapters[c] /\ ky = kx + 10000 * (a - c)
  BY <1>1 DEF Shifted
<1>6. CASE x.num = <<>>
  <2>1. ky = kx /\ kx > 0 /\ kx \in Int /\ (kx < 8 \/ kx = 300000)
    BY <1>2, <1>5, <1>6
  <2> HIDE DEF kx, ky
  <2>2. /\ kx \in Int /\ ky \in Int /\ (kx < 60000 => ky = kx /\ 0 <= ky)
        /\ kx < 60000 \/ (kx = 300000 /\ ky = 300000)
    BY <2>1
  <2> QED
    BY <2>2 DEF Goes20, kx, ky
<1>7. CASE x.num # <<>>
  <2>1. c \in 0..12 /\ 10000 * (c + 1) <= kx /\ kx <= 10000 * (c + 1) + 900 /\ kx \in Int
    <3>1. c \in 0..13 /\ c < top /\ 10000 * (c + 1) <= kx /\ kx <= 10000 * (c + 1) + 900
             /\ kx \in Int
      BY <1>2, <1>7
    <3> HIDE DEF c, kx
    <3> QED
      BY <3>1, <1>3
  <2>2. a = V20Chapters[c] /\ ky = kx + 10000 * (a - c)
    BY <1>5, <1>7
  <2> HIDE DEF c, a, kx, ky
  <2>3. a = IF c <= 4 THEN c ELSE c + 1
    BY <2>1, <2>2 DEF V20Chapters
  <2>4. /\ kx \in Int /\ ky \in Int /\ (kx < 60000 => ky = kx /\ 0 <= ky)
        /\ kx < 60000 \/ (60000 <= kx /\ kx < 150000 /\ ky = kx + 10000)
    BY <2>1, <2>2, <2>3
  <2> QED
    BY <2>4 DEF Goes20, kx, ky
<1> QED
  BY <1>6, <1>7

AtMassive == 60000
AtLifted  == 60001
AtRest    == 70000

(* The chapter on mass changes is one chapter heading, behind chapter 4    *)
(* and before the lifted sections.                                         *)
LEMMA MassiveIs ==
  Massive \in Seq(Sec) /\ Outline(Massive) = {Newcomer(9)} /\ Between(Massive, AtMassive, AtLifted)
<1>1. "massive" \in Topic /\ "batch" \in Topic
  BY DEF Topic
<1> DEFINE refs == {Ref(<<12>>, "batch")}
           num == <<5>>
           head == [level |-> 1, num |-> num, topic |-> "massive", marks |-> {}]
           plain == <<Section(1, num, "massive")>>
<1>2. refs \in SUBSET Cite
  BY <1>1, CiteIs
<1>3. num \in Seq(Nat) /\ num # <<>> /\ num[1] = 5 /\ Len(num) = 1
  OBVIOUS
<1>4. head = Newcomer(9)
  BY DEF Newcomer, ChapterHead
<1>5. Massive = Citing(plain, "massive", refs)
  BY DEF Massive
<1> HIDE DEF num, refs
<1>6. Single(plain, head)
  BY <1>1, <1>3, SingleIs
<1>7. head.topic = "massive" /\ head.num = num
  OBVIOUS
<1> HIDE DEF head, plain
<1>8. Single(Massive, head)
  <2>1. {} \in SUBSET Mark
    OBVIOUS
  <2>2. Single(Citing(plain, head.topic, refs), head)
    BY <1>2, <1>6, <2>1, SingleMarked
  <2> QED
    BY <1>5, <1>7, <2>2
<1>9. Key(head) = 60000
  <2>1. Height(num) = 10000 * (5 + 1) + 100 * 0 + 0
    BY <1>3 DEF Height, Second, Third
  <2> QED
    BY <1>3, <1>7, <2>1 DEF Key
<1>10. ASSUME NEW x \in ToSet(Massive) PROVE Key(x) = 60000
  <2>1. Massive \in Seq(Sec) /\ Outline(Massive) = {head}
    BY <1>8 DEF Single
  <2>2. x \in Sec
    BY <2>1, Members
  <2>3. Sketch(x) = head
    BY <2>1, OutlineIs
  <2>4. Key(Sketch(x)) = Key(x)
    BY <2>2, SketchIs
  <2> QED
    BY <1>9, <2>3, <2>4
<1>11. \A x \in ToSet(Massive) : AtMassive <= Key(x) /\ Key(x) < AtLifted
  BY <1>10 DEF AtMassive, AtLifted
<1> QED
  BY <1>4, <1>8, <1>11 DEF Single, Between

(* What v2.0 leaves in front: everything below chapter 5.                  *)
LEMMA Front20 ==
  ASSUME NEW old, Layout(9, old), NEW new \in Seq(Sec), DOMAIN new = 1..Len(old),
         \A i \in 1..Len(old) : Goes20(old[i], new[i]),
         NEW I, \A i \in I : i \in 1..Len(old) /\ Key(old[i]) < 60000
  PROVE  /\ Pick(new, I) \in Seq(Sec) /\ Between(Pick(new, I), AtStart, AtMassive)
         /\ ToSet(Pick(new, I)) = {new[i] : i \in I}
<1>1. \A i, j \in 1..Len(old) : i < j => Key(old[i]) < Key(old[j])
  BY DEF Layout, Rising
<1>2. \A i \in I : i \in 1..Len(old) /\ Key(new[i]) = Key(old[i]) /\ 0 <= Key(new[i])
         /\ Key(new[i]) < 60000
  BY DEF Goes20
<1>3. \A i, j \in I \cap DOMAIN new : i < j => Key(new[i]) < Key(new[j])
  BY <1>1, <1>2
<1>4. \A i \in I \cap DOMAIN new : AtStart <= Key(new[i]) /\ Key(new[i]) < AtMassive
  BY <1>2 DEF AtStart, AtMassive
<1>5. I \cap DOMAIN new = I
  <2>1. \A i \in I : i \in DOMAIN new
    BY <1>2
  <2> QED
    BY ONLY <2>1
<1> QED
  BY ONLY <1>3, <1>4, <1>5, PieceIs, new \in Seq(Sec)

(* What v2.0 moves up: everything from chapter 5 on.                       *)
LEMMA Rest20 ==
  ASSUME NEW old, Layout(9, old), NEW new \in Seq(Sec), DOMAIN new = 1..Len(old),
         \A i \in 1..Len(old) : Goes20(old[i], new[i]),
         NEW I, \A i \in I : i \in 1..Len(old) /\ ~(Key(old[i]) < 60000)
  PROVE  /\ Pick(new, I) \in Seq(Sec) /\ Between(Pick(new, I), AtRest, AtEnd)
         /\ ToSet(Pick(new, I)) = {new[i] : i \in I}
<1>1. \A i, j \in 1..Len(old) : i < j => Key(old[i]) < Key(old[j])
  BY DEF Layout, Rising
<1>2. \A i \in I : /\ i \in 1..Len(old) /\ Key(old[i]) \in Int /\ Key(new[i]) \in Int
                   /\ (Key(old[i]) = 300000 /\ Key(new[i]) = 300000)
                        \/ (60000 <= Key(old[i]) /\ Key(old[i]) < 150000
                           /\ Key(new[i]) = Key(old[i]) + 10000)
  BY DEF Goes20
<1>3. \A i, j \in I \cap DOMAIN new : i < j => Key(new[i]) < Key(new[j])
  <2> SUFFICES ASSUME NEW i \in I, NEW j \in I, i < j PROVE Key(new[i]) < Key(new[j])
    OBVIOUS
  <2> DEFINE ai == Key(old[i])
             aj == Key(old[j])
             bi == Key(new[i])
             bj == Key(new[j])
  <2>1. ai < aj
    BY <1>1, <1>2
  <2>2. /\ ai \in Int /\ aj \in Int /\ bi \in Int /\ bj \in Int
        /\ (ai = 300000 /\ bi = 300000) \/ (ai < 150000 /\ bi = ai + 10000)
        /\ (aj = 300000 /\ bj = 300000) \/ (aj < 150000 /\ bj = aj + 10000)
    BY <1>2
  <2> HIDE DEF ai, aj, bi, bj
  <2>3. bi < bj
    BY <2>1, <2>2
  <2> QED
    BY <2>3 DEF bi, bj
<1>4. \A i \in I \cap DOMAIN new : AtRest <= Key(new[i]) /\ Key(new[i]) < AtEnd
  BY <1>2 DEF AtRest, AtEnd
<1>5. I \cap DOMAIN new = I
  <2>1. \A i \in I : i \in DOMAIN new
    BY <1>2
  <2> QED
    BY ONLY <2>1
<1> QED
  BY ONLY <1>3, <1>4, <1>5, PieceIs, new \in Seq(Sec)

Under5(y, k) == [y EXCEPT !.num = <<5, k>>]

(* What is known of a section that v2.0 lifts, and of its new place.       *)
Liftable(x, y) == Len(x.num) = 2 /\ Placed(9, x, y) /\ Len(y.num) = Len(x.num)

Lifts(x, y, k) ==
  /\ Placed(9, x, Under5(y, k)) /\ Key(Under5(y, k)) = 60000 + 100 * k /\ Under5(y, k) \in Sec

(* A section lifted to chapter 5 is placed by its new number.              *)
LEMMA LiftedIs ==
  ASSUME NEW x, NEW y, Liftable(x, y), NEW k \in 1..3
  PROVE  Lifts(x, y, k)
<1> DEFINE num == <<5, k>>
           z == [y EXCEPT !.num = num]
<1>0. Len(x.num) = 2 /\ Placed(9, x, y) /\ Len(y.num) = Len(x.num)
  BY DEF Liftable
<1>1. y \in Sec /\ Shape(10, y) /\ y.topic = x.topic /\ Len(y.num) = 2
  <2>1. y \in Sec /\ Shape(9 + 1, y) /\ 9 + 1 = 10 /\ y.topic = x.topic
    BY <1>0 DEF Placed
  <2> QED
    BY <1>0, <2>1
<1>2. num \in Seq(Nat) /\ Len(num) = 2 /\ num[1] = 5 /\ num[2] = k /\ num # <<>>
  OBVIOUS
<1> HIDE DEF num
<1>3. z \in Sec /\ z.num = num /\ z.topic = y.topic /\ z.level = y.level /\ z.marks = y.marks
  BY <1>1, <1>2 DEF Sec
<1>4. z = Under5(y, k)
  BY DEF Under5, num
<1> HIDE DEF z
<1>5. SubOf(10, y)
  BY <1>1 DEF Shape, LooseAt, ChapterOf
<1>6. Len(ChapterTopics(10)) = 14
  BY ChapterLists DEF ChapterTopics
<1>7. Room(10, 5) = 9
  <2> DEFINE top == Len(ChapterTopics(10))
  <2>1. top = 14
    BY <1>6
  <2>2. Room(10, 5) = IF 5 + 1 = top THEN 0 ELSE 9
    BY DEF Room
  <2> HIDE DEF top
  <2> QED
    BY <2>1, <2>2
<1>8. SubOf(10, z)
  <2>1. Len(z.num) = 2 /\ z.level = 2 /\ z.topic \in SubTopics(10) /\ z.num[1] = 5 /\ z.num[2] = k
    BY <1>2, <1>3, <1>5 DEF SubOf
  <2>2. 5 \in Nat /\ k \in Nat /\ 1 <= k /\ k <= 9
    OBVIOUS
  <2> DEFINE top == Len(ChapterTopics(10))
             room == Room(10, 5)
  <2>3. 5 < top /\ k <= room
    <3>1. top = 14 /\ room = 9
      BY <1>6, <1>7
    <3> HIDE DEF top, room
    <3> QED
      BY <2>2, <3>1
  <2> QED
    BY <2>1, <2>2, <2>3 DEF SubOf
<1>9. Shape(10, z)
  BY <1>1, <1>2, <1>3, <1>8 DEF Shape, Noted
<1>10. Key(z) = 60000 + 100 * k
  <2>1. Height(num) = 10000 * (5 + 1) + 100 * k + 0
    BY <1>2 DEF Height, Second, Third
  <2> QED
    BY <1>2, <1>3, <2>1 DEF Key
<1>11. Placed(9, x, z)
  <2>1. 9 + 1 = 10
    OBVIOUS
  <2> QED
    BY <1>0, <1>1, <1>3, <1>9, <2>1 DEF Placed
<1> QED
  BY <1>3, <1>4, <1>10, <1>11 DEF Lifts

(* The lifted sections in their new order.                                 *)
Three(c) ==
  c = [k \in 1..3 |-> c[k]] /\ \A k \in 1..3 : c[k] \in Sec /\ Key(c[k]) = 60000 + 100 * k

(* The three lifted sections stand in the order of their new numbers.      *)
LEMMA Lifted20 ==
  ASSUME NEW c, Three(c)
  PROVE  /\ c \in Seq(Sec) /\ Between(c, AtLifted, AtRest)
         /\ ToSet(c) = {c[k] : k \in 1..3}
<1>1. c \in [1..3 -> Sec]
  <2>1. c = [k \in 1..3 |-> c[k]] /\ \A k \in 1..3 : c[k] \in Sec
    BY DEF Three
  <2> QED
    BY ONLY <2>1
<1>2. c \in Seq(Sec) /\ Len(c) = 3
  BY <1>1, SeqFrom
<1>3. \A x : x \in ToSet(c) <=> \E k \in 1..3 : c[k] = x
  <2>1. c \in Seq(Sec) /\ 1..Len(c) = 1..3
    BY <1>2
  <2>2. \A x : x \in ToSet(c) <=> \E k \in 1..Len(c) : c[k] = x
    BY ONLY <2>1, Members
  <2> QED
    BY ONLY <1>2, <2>2
<1>4. \A k \in 1..3 : Key(c[k]) = 60000 + 100 * k
  BY DEF Three
<1>5. Rising(c)
  BY <1>2, <1>4 DEF Rising
<1>6. \A x \in ToSet(c) : AtLifted <= Key(x) /\ Key(x) < AtRest
  BY <1>3, <1>4 DEF AtLifted, AtRest
<1>7. ToSet(c) = {c[k] : k \in 1..3}
  BY <1>3
<1> QED
  BY <1>2, <1>5, <1>6, <1>7 DEF Between

(* The pieces of v2.0, in the order it inserts them, make one rising body. *)
LEMMA Joined20 ==
  ASSUME NEW a \in Seq(Sec), NEW b \in Seq(Sec), NEW c \in Seq(Sec), NEW d \in Seq(Sec),
         Between(a, AtStart, AtMassive), Between(b, AtMassive, AtLifted),
         Between(c, AtLifted, AtRest), Between(d, AtRest, AtEnd)
  PROVE  Joined(a \o b \o c \o d, ToSet(a) \cup ToSet(b) \cup ToSet(c) \cup ToSet(d))
<1>0. /\ AtStart \in Int /\ AtMassive \in Int /\ AtLifted \in Int /\ AtRest \in Int /\ AtEnd \in Int
      /\ AtStart <= AtMassive /\ AtMassive <= AtLifted /\ AtLifted <= AtRest /\ AtRest <= AtEnd
      /\ AtStart <= AtLifted /\ AtStart <= AtRest
  BY DEF AtStart, AtMassive, AtLifted, AtRest, AtEnd
<1> DEFINE ab == a \o b
           abc == ab \o c
           abcd == abc \o d
<1>1. ab \in Seq(Sec) /\ Between(ab, AtStart, AtLifted) /\ ToSet(ab) = ToSet(a) \cup ToSet(b)
  BY <1>0, BetweenConcat
<1> HIDE DEF ab
<1>2. abc \in Seq(Sec) /\ Between(abc, AtStart, AtRest) /\ ToSet(abc) = ToSet(ab) \cup ToSet(c)
  BY <1>0, <1>1, BetweenConcat
<1> HIDE DEF abc
<1>3. abcd \in Seq(Sec) /\ Between(abcd, AtStart, AtEnd) /\ ToSet(abcd) = ToSet(abc) \cup ToSet(d)
  BY <1>0, <1>2, BetweenConcat
<1> HIDE DEF abcd
<1>4. a \o b \o c \o d = abcd
  BY DEF abcd, abc, ab
<1> QED
  BY <1>1, <1>2, <1>3, <1>4 DEF Joined, Between

(* v2.0's body has the layout of v2.0: the new chapter and the three       *)
(* lifted sections are chapter 5, and every other section is at its new    *)
(* place.                                                                  *)
LEMMA Moved20 ==
  ASSUME NEW old, Layout(9, old),
         \A k \in DOMAIN V20Lifted : Holds(old, V20Lifted[k], V20LiftedTopic[k]),
         Holds(old, << 4 >>, "keys"), NEW new, Renumbered(9, old, new)
  PROVE  Layout(10, V20Moved(old, new)) /\ Topics(V20Moved(old, new)) = Topics(old) \cup {"massive"}
<1>1. /\ new \in Seq(Sec) /\ DOMAIN new = 1..Len(old) /\ DOMAIN old = 1..Len(old)
         /\ old \in Seq(Sec)
      /\ \A i \in 1..Len(old) : Placed(9, old[i], new[i]) /\ Shifted(9, old[i], new[i])
  BY RenumberedIs, LenProperties DEF Layout
<1>2. ASSUME NEW i \in 1..Len(old) PROVE Goes20(old[i], new[i]) /\ Key(old[i]) \in Int
  <2> DEFINE x == old[i]
             y == new[i]
  <2>1. Shifted(9, x, y) /\ Shape(9, x)
    BY <1>1, LayoutAt
  <2> HIDE DEF x, y
  <2>2. Goes20(x, y) /\ Key(x) \in Int
    BY <2>1, Keys20 DEF Goes20
  <2> QED
    BY <2>2 DEF x, y
<1> DEFINE from == [k \in 1..3 |-> Heading(old, V20Lifted[k], V20LiftedTopic[k])]
           lifted == {from[k] : k \in 1..3}
           stay == {i \in 1..Len(old) : Key(old[i]) < 60000}
           num3 == [k \in 1..3 |-> <<11, 6 - k>>]
           front == stay \ lifted
           rest == DOMAIN old \ (stay \cup lifted)
           c == [k \in 1..3 |-> Under5(new[from[k]], k)]
<1>3. DOMAIN V20Lifted = 1..3 /\ \A k \in 1..3 : V20Lifted[k] = num3[k]
  BY DEF V20Lifted
<1>4. \A k \in 1..3 : Len(num3[k]) = 2 /\ num3[k][1] = 11 /\ num3[k][2] = 6 - k
  OBVIOUS
<1> HIDE DEF num3
<1>5. ASSUME NEW k \in 1..3
      PROVE  /\ from[k] \in 1..Len(old) /\ from[k] \in DOMAIN new
             /\ Len(old[from[k]].num) = 2 /\ old[from[k]].num[2] = 6 - k
  <2> DEFINE h == Heading(old, V20Lifted[k], V20LiftedTopic[k])
  <2>1. h # 0
    BY <1>3 DEF Holds
  <2>2. h \in 1..Len(old) /\ old[h].num = V20Lifted[k]
    BY <1>1, <2>1, HeadingIs
  <2>3. from[k] = h
    OBVIOUS
  <2> HIDE DEF from, h
  <2> QED
    BY <1>1, <1>3, <1>4, <2>2, <2>3
<1>6. /\ {i \in DOMAIN old : \E j \in Block(old, Heading(old, <<4>>, "keys")) : i <= j} = stay
  <2> DEFINE h == Heading(old, <<4>>, "keys")
  <2>1. h # 0
    BY DEF Holds
  <2>2. h \in 1..Len(old) /\ old[h].num = <<4>>
    BY <1>1, <2>1, HeadingIs
  <2> HIDE DEF h
  <2>3. 9 \in 8..9 /\ 4 \in 0..(Len(ChapterTopics(9)) - 1)
    <3> DEFINE top == Len(ChapterTopics(9))
    <3>1. top = 13
      BY ChapterLists DEF ChapterTopics
    <3> HIDE DEF top
    <3>2. 9 \in 8..9 /\ 4 \in 0..(top - 1)
      BY <3>1
    <3> QED
      BY <3>2 DEF top
  <2>4. Block(old, h) = PartOf(old, 4)
    BY <2>2, <2>3, BlockOfChapter
  <2>5. {i \in DOMAIN old : \E j \in PartOf(old, 4) : i <= j}
           = {i \in 1..Len(old) : Key(old[i]) < 10000 * (4 + 2)}
    BY <2>2, <2>3, StayIs
  <2>6. 10000 * (4 + 2) = 60000
    OBVIOUS
  <2> QED
    BY <2>4, <2>5, <2>6 DEF h
<1>7. V20Moved(old, new) = Pick(new, front) \o Massive \o c \o Pick(new, rest)
  <2> DEFINE where == Heading(old, <<4>>, "keys")
             up(k) == Heading(old, V20Lifted[k], V20LiftedTopic[k])
             before == {i \in DOMAIN old : \E j \in Block(old, where) : i <= j}
             gone == {up(k) : k \in DOMAIN V20Lifted}
  <2>1. V20Moved(old, new) = Pick(new, before \ gone) \o Massive
          \o [k \in DOMAIN V20Lifted |-> [new[up(k)] EXCEPT !.num = <<5, k>>]]
          \o Pick(new, DOMAIN old \ (before \cup gone))
    BY DEF V20Moved
  <2>2. before = stay
    BY <1>6
  <2>3. gone = lifted
    BY <1>3
  <2>4. [k \in DOMAIN V20Lifted |-> [new[up(k)] EXCEPT !.num = <<5, k>>]] = c
    BY <1>3 DEF Under5
  <2> HIDE DEF before, gone, stay, lifted, c
  <2> QED
    BY <2>1, <2>2, <2>3, <2>4
<1> HIDE DEF from
<1>8. ASSUME NEW k \in 1..3
      PROVE  /\ Placed(9, old[from[k]], Under5(new[from[k]], k))
             /\ Key(Under5(new[from[k]], k)) = 60000 + 100 * k
             /\ Under5(new[from[k]], k) \in Sec
  <2> DEFINE x == old[from[k]]
             y == new[from[k]]
  <2>1. Len(x.num) = 2 /\ Placed(9, x, y) /\ Len(y.num) = Len(x.num)
    <3> DEFINE i == from[k]
    <3>1. i \in 1..Len(old) /\ Len(x.num) = 2
      BY <1>5
    <3> HIDE DEF i
    <3>2. Placed(9, old[i], new[i]) /\ Shifted(9, old[i], new[i])
      BY <1>1, <3>1
    <3>3. Len(new[i].num) = Len(old[i].num)
      BY <3>2 DEF Shifted
    <3> QED
      BY <3>1, <3>2, <3>3 DEF i
  <2> HIDE DEF x, y
  <2>2. Liftable(x, y)
    BY <2>1 DEF Liftable
  <2>3. Lifts(x, y, k)
    BY <2>2, LiftedIs
  <2> QED
    BY <2>3 DEF x, y, Lifts
<1>9. /\ c \in Seq(Sec) /\ Between(c, AtLifted, AtRest)
      /\ ToSet(c) = {Under5(new[from[k]], k) : k \in 1..3}
  <2>1. \A k \in 1..3 : c[k] = Under5(new[from[k]], k)
    OBVIOUS
  <2>2. c = [k \in 1..3 |-> c[k]]
    OBVIOUS
  <2> HIDE DEF c
  <2>3. Three(c)
    BY <1>8, <2>1, <2>2 DEF Three
  <2>4. /\ c \in Seq(Sec) /\ Between(c, AtLifted, AtRest)
        /\ ToSet(c) = {c[k] : k \in 1..3}
    BY <2>3, Lifted20
  <2> QED
    BY <2>1, <2>4
<1>10. /\ Pick(new, front) \in Seq(Sec) /\ Between(Pick(new, front), AtStart, AtMassive)
       /\ ToSet(Pick(new, front)) = {new[i] : i \in front}
  <2>1. \A i \in front : i \in 1..Len(old) /\ Key(old[i]) < 60000
    OBVIOUS
  <2>2. \A i \in 1..Len(old) : Goes20(old[i], new[i])
    BY <1>2
  <2>3. Layout(9, old) /\ new \in Seq(Sec) /\ DOMAIN new = 1..Len(old)
    BY <1>1
  <2> HIDE DEF front
  <2> QED
    BY ONLY <2>1, <2>2, <2>3, Front20
<1>11. /\ Pick(new, rest) \in Seq(Sec) /\ Between(Pick(new, rest), AtRest, AtEnd)
       /\ ToSet(Pick(new, rest)) = {new[i] : i \in rest}
  <2>1. \A i \in rest : i \in 1..Len(old) /\ ~(Key(old[i]) < 60000)
    BY <1>1
  <2>2. \A i \in 1..Len(old) : Goes20(old[i], new[i])
    BY <1>2
  <2>3. Layout(9, old) /\ new \in Seq(Sec) /\ DOMAIN new = 1..Len(old)
    BY <1>1
  <2> HIDE DEF rest
  <2> QED
    BY ONLY <2>1, <2>2, <2>3, Rest20
<1>12. Massive \in Seq(Sec) /\ Outline(Massive) = {Newcomer(9)}
          /\ Between(Massive, AtMassive, AtLifted)
  BY MassiveIs
<1> DEFINE body == V20Moved(old, new)
           a == Pick(new, front)
           b == Massive
           d == Pick(new, rest)
           put == [i \in 1..Len(old) |-> IF i \in lifted THEN Under5(new[i], 6 - old[i].num[2])
              ELSE new[i]]
<1>13. /\ a \in Seq(Sec) /\ b \in Seq(Sec) /\ c \in Seq(Sec) /\ d \in Seq(Sec)
       /\ Between(a, AtStart, AtMassive) /\ Between(b, AtMassive, AtLifted)
       /\ Between(c, AtLifted, AtRest) /\ Between(d, AtRest, AtEnd)
       /\ body = a \o b \o c \o d
  BY <1>7, <1>9, <1>10, <1>11, <1>12
<1>14. /\ ToSet(a) = {new[i] : i \in front} /\ ToSet(d) = {new[i] : i \in rest}
       /\ ToSet(c) = {Under5(new[from[k]], k) : k \in 1..3}
  <2> HIDE DEF front, rest, lifted, stay, c, put
  <2> QED
    BY <1>9, <1>10, <1>11
<1>15. ASSUME NEW k \in 1..3 PROVE put[from[k]] = Under5(new[from[k]], k)
  <2>1. from[k] \in lifted /\ from[k] \in 1..Len(old) /\ old[from[k]].num[2] = 6 - k
    BY <1>5
  <2>2. 6 - old[from[k]].num[2] = k
    BY <2>1
  <2> HIDE DEF lifted
  <2> QED
    BY <2>1, <2>2
<1>16. \A i \in 1..Len(old) : i \notin lifted => put[i] = new[i]
  OBVIOUS
<1>17. lifted = {from[k] : k \in 1..3}
  OBVIOUS
<1>18. /\ \A i \in 1..Len(old) : i \in front \/ i \in rest \/ i \in lifted
       /\ \A i \in front : i \in 1..Len(old) /\ i \notin lifted
       /\ \A i \in rest : i \in 1..Len(old) /\ i \notin lifted
       /\ \A i \in lifted : i \in 1..Len(old)
  BY <1>1, <1>5
<1> HIDE DEF stay, lifted, front, rest, body, a, b, c, d, put
<1>19. Joined(body, ToSet(a) \cup ToSet(b) \cup ToSet(c) \cup ToSet(d))
  BY <1>13, Joined20
<1>20. ToSet(a) \cup ToSet(c) \cup ToSet(d) = {put[i] : i \in 1..Len(old)}
  <2> DEFINE N == 1..Len(old)
             all == {put[i] : i \in N}
  <2>1. \A i \in N : i \in front \/ i \in rest \/ i \in lifted
    BY <1>18
  <2>2. ASSUME NEW i \in front PROVE i \in N /\ new[i] = put[i]
    BY <1>16, <1>18
  <2>3. ASSUME NEW i \in rest PROVE i \in N /\ new[i] = put[i]
    BY <1>16, <1>18
  <2>4. ASSUME NEW k \in 1..3 PROVE from[k] \in N /\ Under5(new[from[k]], k) = put[from[k]]
    BY <1>5, <1>15
  <2> HIDE DEF N
  <2>5. ToSet(a) \subseteq all /\ ToSet(d) \subseteq all
    BY <1>14, <2>2, <2>3
  <2>6. ToSet(c) \subseteq all
    BY <1>14, <2>4
  <2>7. ASSUME NEW i \in N PROVE put[i] \in ToSet(a) \cup ToSet(c) \cup ToSet(d)
    <3>1. CASE i \in front
      BY <1>14, <2>2, <3>1
    <3>2. CASE i \in rest
      BY <1>14, <2>3, <3>2
    <3>3. CASE i \in lifted
      <4>1. PICK k \in 1..3 : i = from[k]
        BY <1>17, <3>3
      <4> QED
        BY <1>14, <2>4, <4>1
    <3> QED
      BY <2>1, <3>1, <3>2, <3>3
  <2>8. all \subseteq ToSet(a) \cup ToSet(c) \cup ToSet(d)
    BY <2>7
  <2> HIDE DEF all
  <2>9. ToSet(a) \cup ToSet(c) \cup ToSet(d) = all
    BY <2>5, <2>6, <2>8
  <2> QED
    BY <2>9 DEF all, N
<1>21. body \in Seq(Sec) /\ Rising(body) /\ ToSet(body) = {put[i] : i \in 1..Len(old)} \cup ToSet(b)
  BY <1>19, <1>20 DEF Joined
<1>22. b \in Seq(Sec) /\ Outline(b) = {Newcomer(9)} /\ 9 \in 8..9
  BY <1>12 DEF b
<1>23. ASSUME NEW i \in 1..Len(old) PROVE Placed(9, old[i], put[i])
  <2>1. CASE i \in lifted
    <3>1. PICK k \in 1..3 : i = from[k]
      BY <1>17, <2>1
    <3> QED
      BY <1>8, <1>15, <3>1
  <2>2. CASE i \notin lifted
    BY <1>1, <1>16, <2>2
  <2> QED
    BY <2>1, <2>2
<1>24. Layout(9 + 1, body) /\ Topics(body) = Topics(old) \cup {Newcomer(9).topic}
  <2> HIDE DEF body, b, put
  <2>1. Assembles(9, old, put, body, b)
    BY <1>21, <1>22, <1>23 DEF Assembles
  <2>2. 9 \in 8..9
    OBVIOUS
  <2> QED
    BY <2>1, <2>2, Assembled
<1>25. Newcomer(9).topic = "massive"
  BY <1>22, NewcomerIs
<1> QED
  BY <1>24, <1>25 DEF body

(* v2.0 adds the chapter on mass changes and takes the layout of v1.9 to   *)
(* its own.                                                                *)
LEMMA LayoutOf20 ==
  ASSUME NEW d, Fields(d), Layout(9, d.body), Anchored20(d)
  PROVE  Layout(10, V20(d).body) /\ Topics(V20(d).body) = Topics(d.body) \cup {"massive"}
<1>1. V20(d).body = V20Moved(d.body, New20(d.body))
  BY DEF V20, New20, Fields
<1>2. {"perStock", "axisTable"} \subseteq Marks(d.body)
  BY DEF Anchored20
<1>3. Renumbered(9, d.body, New20(d.body))
  BY <1>2, New20Is
<1>4. /\ \A k \in DOMAIN V20Lifted : Holds(d.body, V20Lifted[k], V20LiftedTopic[k])
      /\ Holds(d.body, <<4>>, "keys")
  BY DEF Anchored20
<1> QED
  BY <1>1, <1>3, <1>4, Moved20

=============================================================================
