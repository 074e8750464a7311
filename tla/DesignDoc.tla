------------------------------ MODULE DesignDoc ------------------------------
(***************************************************************************)
(* A design document as the scripts of docs/scripts handle it.             *)
(*                                                                         *)
(* The body is the sequence of headings in document order; a heading       *)
(* carries, as `marks`, the paragraphs under it that some script searches  *)
(* for by their first words, and as `refs` the section numbers its         *)
(* paragraphs cite.  `to` records which section the author of a reference  *)
(* meant: no script reads it.                                              *)
(*                                                                         *)
(* The rest is what the scripts change document-wide: the version on the   *)
(* cover (and whether Word has split its run in two), whether Word has     *)
(* saved the file (it renames the bullet style to `a0`), the list of       *)
(* contents, the dashes and endings of the prose, the vocabulary and the   *)
(* example boards.                                                         *)
(***************************************************************************)
EXTENDS Naturals, SequencesExt

Section(level, num, topic) ==
  [level |-> level, num |-> num, topic |-> topic, marks |-> {}, refs |-> {}]

Unnumbered(level, topic) == Section(level, <<>>, topic)

Chapter(n, topic, subs) ==
  <<Section(1, <<n>>, topic)>> \o [k \in 1..Len(subs) |-> Section(2, <<n, k>>, subs[k])]

Ref(num, to) == [num |-> num, to |-> to]

Marking(body, topic, marks) ==
  [i \in DOMAIN body |-> IF body[i].topic = topic
                         THEN [body[i] EXCEPT !.marks = @ \cup marks] ELSE body[i]]

Citing(body, topic, refs) ==
  [i \in DOMAIN body |-> IF body[i].topic = topic
                         THEN [body[i] EXCEPT !.refs = @ \cup refs] ELSE body[i]]

(* References added to the first paragraph found by its words.             *)
CitingAt(body, mark, refs) ==
  LET i == SelectInSeq(body, LAMBDA s : mark \in s.marks)
  IN  IF i = 0 THEN body ELSE [body EXCEPT ![i].refs = @ \cup refs]

Unmarking(body, marks) == [i \in DOMAIN body |-> [body[i] EXCEPT !.marks = @ \ marks]]

Titling(body, old, new) ==
  [i \in DOMAIN body |-> IF body[i].topic = old THEN [body[i] EXCEPT !.topic = new] ELSE body[i]]

(* Headings and references renumbered by one operator each.                *)
Numbering(body, H(_)) == [i \in DOMAIN body |-> [body[i] EXCEPT !.num = H(@)]]
Referring(body, R(_)) ==
  [i \in DOMAIN body |-> [body[i] EXCEPT !.refs = {Ref(R(x.num), x.to) : x \in @}]]

-----------------------------------------------------------------------------
(* Searching *)

Topics(body)  == {body[i].topic : i \in DOMAIN body}
Marks(body)   == UNION {body[i].marks : i \in DOMAIN body}
RefsOf(body)  == UNION {body[i].refs : i \in DOMAIN body}
Cited(body)   == {r.num : r \in RefsOf(body)}

(* Position of a heading found by its number and the words after it.       *)
Heading(body, num, topic) == SelectInSeq(body, LAMBDA s : s.num = num /\ s.topic = topic)
Holds(body, num, topic)   == Heading(body, num, topic) # 0

(* Position of the first paragraph with these words, as `find` returns it. *)
FirstWith(body, mark) == SelectInSeq(body, LAMBDA s : mark \in s.marks)

(* The block of a heading of level 1: up to the next one.                  *)
Block(body, i) ==
  {j \in DOMAIN body : i <= j /\ \A k \in (i + 1)..j : body[k].level # 1}

ChapterAt(body, n) == SelectInSeq(body, LAMBDA s : s.level = 1 /\ s.num = <<n>>)

(* What stands at the positions in I, in document order.                   *)
Pick(body, I) ==
  LET upTo[k \in 0..Len(body)] ==
        IF k = 0 THEN <<>>
        ELSE IF k \in I THEN Append(upTo[k - 1], body[k]) ELSE upTo[k - 1]
  IN  upTo[Len(body)]

(* Mutant of Before: the anchor is overwritten.                            *)
Over(body, i, new) == SubSeq(body, 1, i - 1) \o new \o SubSeq(body, i + 1, Len(body))

(* Insertion before the anchor at i.                                       *)
Before(body, i, new) == SubSeq(body, 1, i - 1) \o new \o SubSeq(body, i, Len(body))

-----------------------------------------------------------------------------
(* What a reader may expect of a body *)

Resolves(body, r) == \E i \in DOMAIN body : body[i].num = r.num /\ body[i].topic = r.to

(* Sections some reference means and its number misses.                    *)
Broken(body) == {r.to : r \in {x \in RefsOf(body) : ~Resolves(body, x)}}

Numbered(body) == {i \in DOMAIN body : body[i].num # <<>>}

(* a comes before b: where they part, a ends or is lower.                  *)
Lower(a, b) ==
  \E k \in DOMAIN b :
    /\ \A j \in 1..(k - 1) : j <= Len(a) /\ a[j] = b[j]
    /\ k = Len(a) + 1 \/ (k <= Len(a) /\ a[k] < b[k])

(* The number a heading counts on from: its chapter or section, or the     *)
(* chapter before it.                                                      *)
Above(num) == IF Len(num) = 1 THEN <<num[1] - 1>> ELSE Front(num)

(* Numbers rise, chapters count from 0 without gaps, and every section has *)
(* its chapter.                                                            *)
InOrder(body) ==
  /\ \A i, j \in Numbered(body) : i < j => Lower(body[i].num, body[j].num)
  /\ \A i \in Numbered(body) :
       /\ body[i].level = Len(body[i].num)
       /\ body[i].num = <<0>> \/ \E j \in Numbered(body) : body[j].num = Above(body[i].num)

Entry(s) == [num |-> s.num, topic |-> s.topic]

(* A list of contents as a script spells it out: chapters from 0.          *)
Contents(topics) == [k \in DOMAIN topics |-> [num |-> <<k - 1>>, topic |-> topics[k]]]

(* The list of contents a body calls for: chapters and the appendix.       *)
Listed(s) == s.level = 1 /\ (s.num # <<>> \/ s.topic = "appendix")

ContentsOf(body) ==
  LET listed == Pick(body, {i \in DOMAIN body : Listed(body[i])})
  IN  [k \in DOMAIN listed |-> Entry(listed[k])]

Distinct(body) == \A i, j \in DOMAIN body : body[i].topic = body[j].topic => i = j

=============================================================================
