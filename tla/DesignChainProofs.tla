------------------------- MODULE DesignChainProofs --------------------------
(***************************************************************************)
(* What holds of every file in every state of DesignChain, for every       *)
(* choice of the documents that are edited and of the covers Word splits,  *)
(* and for every bound.                                                    *)
(*                                                                         *)
(* The invariant is Chained: every file is sound, which from v1.3 on means *)
(* that it has the layout and the wording of its version. It is inductive  *)
(* because a script turns the layout it reads into the one it writes, and  *)
(* a deletion or a save in Word keeps the layout there is. The first half  *)
(* of the module shows that the documents written from scratch are sound:  *)
(* they are assembled chapter by chapter, and a Piece (or a Draft, which   *)
(* also bounds what is cited) is a run of chapters with the range its keys *)
(* lie in.                                                                 *)
(***************************************************************************)
EXTENDS DesignScriptsProofs

-----------------------------------------------------------------------------
(* Pieces of a document, with the keys that must be in them *)

(* A stretch of a document: what stands in it, between which keys, and     *)
(* keys that are met.                                                      *)
Piece(H, s, lo, hi, keys) ==
  /\ s \in Seq(Sec) /\ Between(s, lo, hi) /\ Outline(s) \subseteq H
  /\ \A k \in keys : \E o \in Outline(s) : Key(o) = k

(* Two pieces in neighbouring ranges make one piece in the joint range,    *)
(* with the keys of both.                                                  *)
LEMMA PieceConcat ==
  ASSUME NEW H, NEW s, NEW t, NEW lo \in Int, NEW mid \in Int, NEW hi \in Int, lo <= mid, mid <= hi,
         NEW A, NEW B, Piece(H, s, lo, mid, A), Piece(H, t, mid, hi, B)
  PROVE  Piece(H, s \o t, lo, hi, A \cup B)
<1>1. s \in Seq(Sec) /\ t \in Seq(Sec) /\ Between(s, lo, mid) /\ Between(t, mid, hi)
  BY DEF Piece
<1>2. /\ s \o t \in Seq(Sec) /\ Between(s \o t, lo, hi)
      /\ Outline(s \o t) = Outline(s) \cup Outline(t)
  BY <1>1, BetweenConcat
<1>3. Outline(s) \subseteq H /\ Outline(t) \subseteq H
  BY DEF Piece
<1>4. \A k \in A \cup B : \E o \in Outline(s) \cup Outline(t) : Key(o) = k
  BY DEF Piece
<1> QED
  BY <1>2, <1>3, <1>4 DEF Piece

(* Marks and references that the heads of H may carry.                     *)
LEMMA PieceMarked ==
  ASSUME NEW H, NEW s, NEW lo, NEW hi, NEW A, Piece(H, s, lo, hi, A), NEW topic,
     NEW marks \in SUBSET Mark,
         \A o \in H : o.topic = topic => [o EXCEPT !.marks = @ \cup marks] \in H
  PROVE  Piece(H, Marking(s, topic, marks), lo, hi, A)
<1> DEFINE new == Marking(s, topic, marks)
           more(o) == IF o.topic = topic THEN [o EXCEPT !.marks = @ \cup marks] ELSE o
<1>1. s \in Seq(Sec) /\ Rising(s) /\ Outline(s) \subseteq H
         /\ (\A x \in ToSet(s) : lo <= Key(x) /\ Key(x) < hi)
  BY DEF Piece, Between
<1>2. new \in Seq(Sec) /\ Rising(new) /\ Outline(new) = {more(o) : o \in Outline(s)}
  BY <1>1, MarkingIs
<1>3. Outline(s) \in SUBSET SketchType
  BY <1>1, OutlineIs
<1>4. ASSUME NEW o \in Outline(s) PROVE more(o) \in H /\ Key(more(o)) = Key(o)
  <2>1. o \in H /\ o \in SketchType
    BY <1>1, <1>3
  <2>2. more(o) \in H
    BY <2>1
  <2>3. Key(more(o)) = Key(o)
    BY <2>1 DEF SketchType, Key
  <2> QED
    BY <2>2, <2>3
<1>5. \A x \in ToSet(s) : Key(x) \in Int /\ Key(Sketch(x)) = Key(x) /\ Sketch(x) \in Outline(s)
  <2> TAKE x \in ToSet(s)
  <2>1. x \in Sec
    BY <1>1, Members
  <2> QED
    BY <1>1, <2>1, KeyIsInt, SketchIs, OutlineIs
<1>6. \A x \in ToSet(new) : x \in Sec /\ Key(Sketch(x)) = Key(x) /\ Sketch(x) \in Outline(new)
  <2> TAKE x \in ToSet(new)
  <2> HIDE DEF new
  <2>1. x \in Sec
    BY <1>2, Members
  <2> QED
    BY <1>2, <2>1, SketchIs, OutlineIs
<1> HIDE DEF new, more
<1>7. \A o \in Outline(s) : lo <= Key(o) /\ Key(o) < hi
  <2> TAKE o \in Outline(s)
  <2>1. Outline(s) = {Sketch(x) : x \in ToSet(s)}
    BY <1>1, OutlineIs
  <2>2. PICK x \in ToSet(s) : o = Sketch(x)
    BY <2>1
  <2> QED
    BY <1>1, <1>5, <2>2
<1>8. \A x \in ToSet(new) : lo <= Key(x) /\ Key(x) < hi
  <2> TAKE x \in ToSet(new)
  <2>1. Sketch(x) \in Outline(new) /\ Key(Sketch(x)) = Key(x)
    BY <1>6
  <2>2. PICK o \in Outline(s) : Sketch(x) = more(o)
    BY <1>2, <2>1
  <2>3. Key(x) = Key(o)
    BY <1>4, <2>1, <2>2
  <2> QED
    BY <1>7, <2>3
<1>9. Outline(new) \subseteq H
  BY <1>2, <1>4
<1>10. \A k \in A : \E o \in Outline(new) : Key(o) = k
  <2> TAKE k \in A
  <2>1. PICK o \in Outline(s) : Key(o) = k
    BY DEF Piece
  <2>2. more(o) \in Outline(new) /\ Key(more(o)) = k
    BY <1>2, <1>4, <2>1
  <2> QED
    BY <2>2
<1>11. Piece(H, new, lo, hi, A)
  BY <1>2, <1>8, <1>9, <1>10 DEF Piece, Between
<1> QED
  BY <1>11 DEF new

(* Putting references into a piece leaves it the piece it was.             *)
LEMMA PieceCited ==
  ASSUME NEW H, NEW s, NEW lo, NEW hi, NEW A, Piece(H, s, lo, hi, A), NEW topic,
     NEW refs \in SUBSET Cite
  PROVE  Piece(H, Citing(s, topic, refs), lo, hi, A)
<1> DEFINE new == Citing(s, topic, refs)
<1>1. s \in Seq(Sec) /\ Rising(s) /\ Outline(s) \subseteq H
         /\ (\A x \in ToSet(s) : lo <= Key(x) /\ Key(x) < hi)
  BY DEF Piece, Between
<1>2. new \in Seq(Sec) /\ Rising(new) /\ Outline(new) = Outline(s)
  BY <1>1, CitingIs
<1> HIDE DEF new
<1>3. \A x \in ToSet(new) : lo <= Key(x) /\ Key(x) < hi
  <2> TAKE x \in ToSet(new)
  <2>1. x \in Sec
    BY <1>2, Members
  <2>2. Sketch(x) \in Outline(s) /\ Key(Sketch(x)) = Key(x)
    BY <1>2, <2>1, SketchIs, OutlineIs
  <2>3. Outline(s) = {Sketch(y) : y \in ToSet(s)}
    BY <1>1, OutlineIs
  <2>4. PICK y \in ToSet(s) : Sketch(x) = Sketch(y)
    BY <2>2, <2>3
  <2>5. y \in Sec
    BY <1>1, Members
  <2>6. Key(Sketch(y)) = Key(y)
    BY <2>5, SketchIs
  <2> QED
    BY <1>1, <2>2, <2>4, <2>6
<1>4. Piece(H, new, lo, hi, A)
  BY <1>2, <1>3 DEF Piece, Between
<1> QED
  BY <1>4 DEF new

Steps(lo, m) == {lo + 100 * k : k \in 0..m}

ChapterIn(H, n, topic, subs, lo, hi) ==
  /\ n \in 0..20 /\ topic \in Topic /\ subs \in Seq(Topic) /\ Len(subs) <= 90
  /\ ChapterHead(n, topic) \in H /\ \A k \in 1..Len(subs) : SectionHead(n, k, subs[k]) \in H
  /\ lo = 10000 * (n + 1) /\ hi = 10000 * (n + 2)

(* A chapter whose headings are allowed is a piece with its own key and    *)
(* those of its sections.                                                  *)
LEMMA PieceChapter ==
  ASSUME NEW H, NEW n, NEW topic, NEW subs, NEW lo, NEW hi, ChapterIn(H, n, topic, subs, lo, hi)
  PROVE  Piece(H, Chapter(n, topic, subs), lo, hi, Steps(lo, Len(subs)))
<1>0. /\ n \in 0..20 /\ topic \in Topic /\ subs \in Seq(Topic) /\ Len(subs) <= 90
      /\ ChapterHead(n, topic) \in H /\ \A k \in 1..Len(subs) : SectionHead(n, k, subs[k]) \in H
      /\ lo = 10000 * (n + 1) /\ hi = 10000 * (n + 2)
  BY DEF ChapterIn
<1>0a. n \in Int /\ lo \in Int /\ n \in 0..20 /\ lo = 10000 * (n + 1)
  BY <1>0
<1> DEFINE s == Chapter(n, topic, subs)
<1>1. /\ s \in Seq(Sec) /\ Between(s, lo, hi)
      /\ Outline(s) = {ChapterHead(n, topic)} \cup {SectionHead(n, k, subs[k]) : k \in 1..Len(subs)}
  <2>1. n \in 0..20 /\ topic \in Topic /\ subs \in Seq(Topic) /\ Len(subs) <= 90
    BY <1>0
  <2>2. Laid(Chapter(n, topic, subs), n, topic, subs)
    BY ONLY <2>1, ChapterIs
  <2> QED
    BY <1>0, <2>2 DEF Laid
<1>2. Len(subs) \in Nat
  BY <1>0, LenProperties
<1> HIDE DEF s
<1>3. Key(ChapterHead(n, topic)) = lo
  <2> DEFINE num == <<n>>
             h == ChapterHead(n, topic)
  <2>1. num[1] = n /\ Len(num) = 1 /\ num # <<>>
    BY <1>0
  <2>2. h.num = num
    BY DEF ChapterHead
  <2> HIDE DEF num, h
  <2>3. Height(num) = 10000 * (n + 1) + 100 * 0 + 0
    BY <2>1 DEF Height, Second, Third
  <2> QED
    BY <1>0a, <2>1, <2>2, <2>3 DEF Key, h
<1>4. ASSUME NEW k \in 1..Len(subs) PROVE Key(SectionHead(n, k, subs[k])) = lo + 100 * k
  <2> DEFINE num == <<n, k>>
             h == SectionHead(n, k, subs[k])
  <2>1. num[1] = n /\ num[2] = k /\ Len(num) = 2 /\ num # <<>>
    BY <1>0
  <2>2. h.num = num
    BY DEF SectionHead
  <2> HIDE DEF num, h
  <2>3. Height(num) = 10000 * (n + 1) + 100 * k + 0
    BY <2>1 DEF Height, Second, Third
  <2>4. k \in Nat
    BY <1>2
  <2> QED
    BY <1>0a, <2>1, <2>2, <2>3, <2>4 DEF Key, h
<1>5. \A k \in 0..Len(subs) : \E o \in Outline(s) : Key(o) = lo + 100 * k
  <2> TAKE k \in 0..Len(subs)
  <2>1. CASE k = 0
    <3>1. lo + 100 * k = lo
      BY <1>0a, <2>1
    <3> QED
      BY <1>1, <1>3, <3>1
  <2>2. CASE k # 0
    <3>1. k \in 1..Len(subs)
      BY <1>2, <2>2
    <3> QED
      BY <1>1, <1>4, <3>1
  <2> QED
    BY <2>1, <2>2
<1>6. Outline(s) \subseteq H
  BY <1>0, <1>1
<1> QED
  BY <1>1, <1>5, <1>6 DEF Piece, Steps, s

-----------------------------------------------------------------------------
(* v1.3, chapter by chapter *)

(* Where v1.3 has each of its headings.                                    *)
Key13(topic) ==
  CASE topic = "summary" -> 1 [] topic = "terms" -> 6 [] topic = "contents" -> 7
    [] topic = "overview" -> 10000 [] topic = "premise" -> 10100 [] topic = "start" -> 10200
    [] topic = "survey" -> 10300
    [] topic = "architecture" -> 20000 [] topic = "principle" -> 20100 [] topic
       = "whyboard" -> 20200
    [] topic = "boundary" -> 20300
    [] topic = "data" -> 30000 [] topic = "schedule" -> 30100 [] topic = "policy" -> 30200
    [] topic = "account" -> 30300 [] topic = "outputs" -> 30400 [] topic = "logic" -> 30500
    [] topic = "keys" -> 40000 [] topic = "composition" -> 40100 [] topic = "class" -> 40200
    [] topic = "axes" -> 40300
    [] topic = "calculation" -> 50000 [] topic = "components" -> 50100 [] topic = "bearer" -> 50200
    [] topic = "priority" -> 60000 [] topic = "ranking" -> 60100 [] topic = "gate" -> 60200
    [] topic = "contest" -> 60300
    [] topic = "lookup" -> 70000 [] topic = "steps" -> 70100 [] topic = "example" -> 70200
    [] topic = "enrolling" -> 80000 [] topic = "period" -> 90000
    [] topic = "negotiated" -> 100000 [] topic = "lifecycle" -> 100100 [] topic
       = "request" -> 100200
    [] topic = "approval" -> 100300 [] topic = "extension" -> 100400 [] topic = "metrics" -> 100500
    [] topic = "batch" -> 110000 [] topic = "full" -> 110100 [] topic = "incremental" -> 110200
    [] OTHER -> 120000

Heads13 == {o \in SketchType : Shape(3, o) /\ Key(o) = Key13(o.topic)}

Fits13(topic, marks) ==
  /\ marks \in SUBSET Mark /\ "eightAxes" \notin marks
  /\ "perStock" \in marks => topic \in {"logic", "register"}
  /\ "axisTable" \in marks => topic = "logic" /\ "perStock" \in marks
  /\ "end" \in marks => topic = "register"

(* Marks that fit a subject of v1.3 leave a piece of v1.3 what it was.     *)
LEMMA Marked13 ==
  ASSUME NEW topic, NEW marks, Fits13(topic, marks), NEW s, NEW lo, NEW hi, NEW A,
         Piece(Heads13, s, lo, hi, A)
  PROVE  Piece(Heads13, Marking(s, topic, marks), lo, hi, A)
<1>1. ASSUME NEW o \in Heads13, o.topic = topic PROVE [o EXCEPT !.marks = @ \cup marks] \in Heads13
  <2> DEFINE more == o.marks \cup marks
             p == [o EXCEPT !.marks = more]
  <2>1. o \in SketchType /\ Shape(3, o) /\ Key(o) = Key13(o.topic)
    BY DEF Heads13
  <2>2. more \in SUBSET Mark
    BY <2>1 DEF SketchType, Fits13
  <2>3. /\ p \in SketchType /\ p.num = o.num /\ p.level = o.level /\ p.topic = o.topic
        /\ p.marks = o.marks \cup marks
    BY <2>1, <2>2 DEF SketchType
  <2>4. Key(p) = Key(o)
    BY <2>1, <2>3 DEF Key
  <2>5. p = [o EXCEPT !.marks = @ \cup marks]
    OBVIOUS
  <2> HIDE DEF p, more
  <2>6. Noted(3, p)
    BY <1>1, <2>1, <2>3 DEF Noted, Shape, Fits13
  <2>7. Shape(3, p)
    BY <2>1, <2>3, <2>6 DEF Shape, LooseAt, ChapterOf, SubOf
  <2> QED
    BY <2>1, <2>3, <2>4, <2>5, <2>7 DEF Heads13
<1>2. marks \in SUBSET Mark
  BY DEF Fits13
<1>3. \A o \in Heads13 : o.topic = topic => [o EXCEPT !.marks = @ \cup marks] \in Heads13
  BY <1>1
<1> HIDE DEF Heads13
<1> QED
  BY <1>2, <1>3, PieceMarked

(* A chapter of v1.3 as it is written.                                     *)
Plan13(n, topic, subs, lo, hi) ==
  /\ n \in 0..11 /\ topic \in Topic /\ topic = Chapters13[n + 1]
  /\ lo = 10000 * (n + 1) /\ hi = 10000 * (n + 2) /\ Key13(topic) = lo
  /\ subs \in Seq(Topic) /\ Len(subs) <= Room(3, n)
  /\ \A k \in 1..Len(subs) : subs[k] \in SubTopics(3) /\ Key13(subs[k]) = lo + 100 * k

(* A chapter v1.3 plans for is a piece of v1.3.                            *)
LEMMA Planned13 ==
  ASSUME NEW n, NEW topic, NEW subs, NEW lo, NEW hi, Plan13(n, topic, subs, lo, hi)
  PROVE  Piece(Heads13, Chapter(n, topic, subs), lo, hi, Steps(lo, Len(subs)))
<1>a. n \in 0..11 /\ topic \in Topic /\ topic = Chapters13[n + 1]
  BY DEF Plan13
<1>b. lo = 10000 * (n + 1) /\ hi = 10000 * (n + 2) /\ Key13(topic) = lo
  BY DEF Plan13
<1>c. subs \in Seq(Topic) /\ Len(subs) <= Room(3, n)
  BY DEF Plan13
<1>d. \A k \in 1..Len(subs) : subs[k] \in SubTopics(3) /\ Key13(subs[k]) = lo + 100 * k
  BY DEF Plan13
<1> USE <1>a, <1>b, <1>c, <1>d
<1>1. Len(subs) \in Nat /\ \A k \in 1..Len(subs) : subs[k] \in Topic
  BY LenProperties
<1>2. Len(ChapterTopics(3)) = 12 /\ ChapterTopics(3) = Chapters13
  BY ChapterLists DEF ChapterTopics
<1>3. Room(3, n) \in 0..9
  BY Rooms
<1>4. ChapterHead(n, topic) \in Heads13
  <2> DEFINE num == <<n>>
             h == [level |-> 1, num |-> num, topic |-> topic, marks |-> {}]
  <2>1. num \in Seq(Nat) /\ num[1] = n /\ Len(num) = 1 /\ num # <<>>
    OBVIOUS
  <2> HIDE DEF num
  <2>2. h \in SketchType /\ h.level = 1 /\ h.num = num /\ h.topic = topic /\ h.marks = {}
    BY <2>1 DEF SketchType
  <2>3. h = ChapterHead(n, topic)
    BY DEF ChapterHead, num
  <2> HIDE DEF h
  <2>4. n \in Nat /\ n < 12
    OBVIOUS
  <2> DEFINE top == Len(ChapterTopics(3))
  <2>5. n < top /\ topic = ChapterTopics(3)[n + 1]
    <3>1. top = 12
      BY <1>2
    <3> HIDE DEF top
    <3> QED
      BY <1>2, <2>4, <3>1
  <2>6. ChapterOf(3, h)
    BY <2>1, <2>2, <2>4, <2>5 DEF ChapterOf
  <2>7. Noted(3, h)
    BY <2>2 DEF Noted
  <2>8. Shape(3, h)
    BY <2>1, <2>2, <2>6, <2>7 DEF Shape
  <2>9. Key(h) = 10000 * (n + 1)
    <3>1. 3 \in 3..12
      OBVIOUS
    <3>2. Key(h) = 10000 * (h.num[1] + 1)
      BY <2>6, <2>8, <3>1, KeyOf
    <3> QED
      BY <2>1, <2>2, <3>2
  <2>10. Key(h) = Key13(h.topic)
    BY <2>2, <2>9
  <2> QED
    BY <2>2, <2>3, <2>8, <2>10 DEF Heads13
<1>5. ASSUME NEW k \in 1..Len(subs) PROVE SectionHead(n, k, subs[k]) \in Heads13
  <2> DEFINE num == <<n, k>>
             t == subs[k]
             h == [level |-> 2, num |-> num, topic |-> t, marks |-> {}]
             room == Room(3, n)
             top == Len(ChapterTopics(3))
             m == Len(subs)
  <2>0. m \in Nat /\ k \in 1..m /\ m <= room /\ room \in 0..9
    BY <1>1, <1>3
  <2> HIDE DEF m, room
  <2>1. k \in Nat /\ 1 <= k /\ k <= room
    BY <2>0
  <2>2. num \in Seq(Nat) /\ num[1] = n /\ num[2] = k /\ Len(num) = 2 /\ num # <<>>
    BY <2>1
  <2>3. t \in Topic /\ t \in SubTopics(3) /\ Key13(t) = lo + 100 * k
    BY <1>1
  <2> HIDE DEF num, t
  <2>4. h \in SketchType /\ h.level = 2 /\ h.num = num /\ h.topic = t /\ h.marks = {}
    BY <2>2, <2>3 DEF SketchType
  <2>5. h = SectionHead(n, k, subs[k])
    BY DEF SectionHead, num, t
  <2> HIDE DEF h
  <2>6. n \in Nat /\ n < top
    <3>1. top = 12
      BY <1>2
    <3> HIDE DEF top
    <3> QED
      BY <3>1
  <2>7. SubOf(3, h)
    BY <2>1, <2>2, <2>3, <2>4, <2>6 DEF SubOf, room
  <2>8. Noted(3, h)
    BY <2>4 DEF Noted
  <2>9. Shape(3, h)
    BY <2>2, <2>4, <2>7, <2>8 DEF Shape
  <2>10. Key(h) = lo + 100 * k
    <3>1. 3 \in 3..12
      OBVIOUS
    <3>2. Key(h) = 10000 * (h.num[1] + 1) + 100 * h.num[2]
      BY <2>7, <2>9, <3>1, KeyOf
    <3> QED
      BY <2>2, <2>4, <3>2
  <2>11. Key(h) = Key13(h.topic)
    BY <2>3, <2>4, <2>10
  <2> QED
    BY <2>4, <2>5, <2>9, <2>11 DEF Heads13
<1>6. Len(subs) <= 90 /\ n \in 0..20
  <2> DEFINE room == Room(3, n)
             m == Len(subs)
  <2>1. m <= room /\ room \in 0..9 /\ m \in Nat
    BY <1>1, <1>3
  <2> HIDE DEF room, m
  <2>2. m <= 90
    BY <2>1
  <2> QED
    BY <2>2 DEF m
<1>7. \A k \in 1..Len(subs) : SectionHead(n, k, subs[k]) \in Heads13
  BY <1>5
<1> HIDE DEF Heads13
<1>8. topic \in Topic /\ subs \in Seq(Topic) /\ lo = 10000 * (n + 1) /\ hi = 10000 * (n + 2)
  OBVIOUS
<1>9. ChapterIn(Heads13, n, topic, subs, lo, hi)
  BY <1>4, <1>6, <1>7, <1>8 DEF ChapterIn
<1> QED
  BY <1>9, PieceChapter

(* The twelve chapters of v1.3, one by one.                                *)
LEMMA Chapters13Are ==
  /\ Piece(Heads13, Chapter(0, "overview", <<"premise", "start", "survey">>),
           10000, 20000, Steps(10000, 3))
  /\ Piece(Heads13, Chapter(1, "architecture", <<"principle", "whyboard", "boundary">>),
           20000, 30000, Steps(20000, 3))
  /\ Piece(Heads13, Chapter(2, "data", <<"schedule", "policy", "account", "outputs", "logic">>),
           30000, 40000, Steps(30000, 5))
  /\ Piece(Heads13, Chapter(3, "keys", <<"composition", "class", "axes">>),
           40000, 50000, Steps(40000, 3))
  /\ Piece(Heads13, Chapter(4, "calculation", <<"components", "bearer">>),
           50000, 60000, Steps(50000, 2))
  /\ Piece(Heads13, Chapter(5, "priority", <<"ranking", "gate", "contest">>),
           60000, 70000, Steps(60000, 3))
  /\ Piece(Heads13, Chapter(6, "lookup", <<"steps", "example">>),
           70000, 80000, Steps(70000, 2))
  /\ Piece(Heads13, Chapter(7, "enrolling", <<>>),
           80000, 90000, Steps(80000, 0))
  /\ Piece(Heads13, Chapter(8, "period", <<>>),
           90000, 100000, Steps(90000, 0))
  /\ Piece(Heads13, Chapter(9, "negotiated",
     <<"lifecycle", "request", "approval", "extension", "metrics">>),
           100000, 110000, Steps(100000, 5))
  /\ Piece(Heads13, Chapter(10, "batch", <<"full", "incremental">>),
           110000, 120000, Steps(110000, 2))
  /\ Piece(Heads13, Chapter(11, "register", <<>>),
           120000, 130000, Steps(120000, 0))
<1>1. Len(ChapterTopics(3)) = 12
  BY ChapterLists DEF ChapterTopics
<1>2. Piece(Heads13, Chapter(0, "overview", <<"premise", "start", "survey">>), 10000, 20000,
         Steps(10000, 3))
  <2> DEFINE subs == <<"premise", "start", "survey">>
  <2>1. subs \in Seq(Topic) /\ Len(subs) = 3
    BY DEF Topic
  <2>2. \A k \in 1..3 : subs[k] \in SubTopics(3) /\ Key13(subs[k]) = 10000 + 100 * k
    <3>1. subs[1] = "premise" /\ subs[2] = "start" /\ subs[3] = "survey"
      OBVIOUS
    <3>2. /\ "premise" \in SubTopics(3) /\ Key13("premise") = 10100
          /\ "start" \in SubTopics(3) /\ Key13("start") = 10200
          /\ "survey" \in SubTopics(3) /\ Key13("survey") = 10300
      BY DEF SubTopics, Key13
    <3> HIDE DEF subs
    <3> QED
      BY <3>1, <3>2
  <2> HIDE DEF subs
  <2>3. "overview" \in Topic /\ Key13("overview") = 10000
    BY DEF Topic, Key13
  <2>4. "overview" = Chapters13[0 + 1]
    BY DEF Chapters13
  <2>5. Room(3, 0) = 9
    BY <1>1 DEF Room
  <2>6. Plan13(0, "overview", subs, 10000, 20000)
    BY <2>1, <2>2, <2>3, <2>4, <2>5 DEF Plan13
  <2>7. Piece(Heads13, Chapter(0, "overview", subs), 10000, 20000, Steps(10000, Len(subs)))
    BY <2>6, Planned13
  <2> QED
    BY <2>1, <2>7 DEF subs
<1>3. Piece(Heads13, Chapter(1, "architecture", <<"principle", "whyboard", "boundary">>), 20000,
         30000, Steps(20000, 3))
  <2> DEFINE subs == <<"principle", "whyboard", "boundary">>
  <2>1. subs \in Seq(Topic) /\ Len(subs) = 3
    BY DEF Topic
  <2>2. \A k \in 1..3 : subs[k] \in SubTopics(3) /\ Key13(subs[k]) = 20000 + 100 * k
    <3>1. subs[1] = "principle" /\ subs[2] = "whyboard" /\ subs[3] = "boundary"
      OBVIOUS
    <3>2. /\ "principle" \in SubTopics(3) /\ Key13("principle") = 20100
          /\ "whyboard" \in SubTopics(3) /\ Key13("whyboard") = 20200
          /\ "boundary" \in SubTopics(3) /\ Key13("boundary") = 20300
      BY DEF SubTopics, Key13
    <3> HIDE DEF subs
    <3> QED
      BY <3>1, <3>2
  <2> HIDE DEF subs
  <2>3. "architecture" \in Topic /\ Key13("architecture") = 20000
    BY DEF Topic, Key13
  <2>4. "architecture" = Chapters13[1 + 1]
    BY DEF Chapters13
  <2>5. Room(3, 1) = 3
    BY <1>1 DEF Room
  <2>6. Plan13(1, "architecture", subs, 20000, 30000)
    BY <2>1, <2>2, <2>3, <2>4, <2>5 DEF Plan13
  <2>7. Piece(Heads13, Chapter(1, "architecture", subs), 20000, 30000, Steps(20000, Len(subs)))
    BY <2>6, Planned13
  <2> QED
    BY <2>1, <2>7 DEF subs
<1>4. Piece(Heads13, Chapter(2, "data", <<"schedule", "policy", "account", "outputs", "logic">>),
         30000, 40000, Steps(30000, 5))
  <2> DEFINE subs == <<"schedule", "policy", "account", "outputs", "logic">>
  <2>1. subs \in Seq(Topic) /\ Len(subs) = 5
    BY DEF Topic
  <2>2. \A k \in 1..5 : subs[k] \in SubTopics(3) /\ Key13(subs[k]) = 30000 + 100 * k
    <3>1. subs[1] = "schedule" /\ subs[2] = "policy" /\ subs[3] = "account"
             /\ subs[4] = "outputs" /\ subs[5] = "logic"
      OBVIOUS
    <3>2. /\ "schedule" \in SubTopics(3) /\ Key13("schedule") = 30100
          /\ "policy" \in SubTopics(3) /\ Key13("policy") = 30200
          /\ "account" \in SubTopics(3) /\ Key13("account") = 30300
          /\ "outputs" \in SubTopics(3) /\ Key13("outputs") = 30400
          /\ "logic" \in SubTopics(3) /\ Key13("logic") = 30500
      BY DEF SubTopics, Key13
    <3> HIDE DEF subs
    <3> QED
      BY <3>1, <3>2
  <2> HIDE DEF subs
  <2>3. "data" \in Topic /\ Key13("data") = 30000
    BY DEF Topic, Key13
  <2>4. "data" = Chapters13[2 + 1]
    BY DEF Chapters13
  <2>5. Room(3, 2) = 9
    BY <1>1 DEF Room
  <2>6. Plan13(2, "data", subs, 30000, 40000)
    BY <2>1, <2>2, <2>3, <2>4, <2>5 DEF Plan13
  <2>7. Piece(Heads13, Chapter(2, "data", subs), 30000, 40000, Steps(30000, Len(subs)))
    BY <2>6, Planned13
  <2> QED
    BY <2>1, <2>7 DEF subs
<1>5. Piece(Heads13, Chapter(3, "keys", <<"composition", "class", "axes">>), 40000, 50000,
         Steps(40000, 3))
  <2> DEFINE subs == <<"composition", "class", "axes">>
  <2>1. subs \in Seq(Topic) /\ Len(subs) = 3
    BY DEF Topic
  <2>2. \A k \in 1..3 : subs[k] \in SubTopics(3) /\ Key13(subs[k]) = 40000 + 100 * k
    <3>1. subs[1] = "composition" /\ subs[2] = "class" /\ subs[3] = "axes"
      OBVIOUS
    <3>2. /\ "composition" \in SubTopics(3) /\ Key13("composition") = 40100
          /\ "class" \in SubTopics(3) /\ Key13("class") = 40200
          /\ "axes" \in SubTopics(3) /\ Key13("axes") = 40300
      BY DEF SubTopics, Key13
    <3> HIDE DEF subs
    <3> QED
      BY <3>1, <3>2
  <2> HIDE DEF subs
  <2>3. "keys" \in Topic /\ Key13("keys") = 40000
    BY DEF Topic, Key13
  <2>4. "keys" = Chapters13[3 + 1]
    BY DEF Chapters13
  <2>5. Room(3, 3) = 9
    BY <1>1 DEF Room
  <2>6. Plan13(3, "keys", subs, 40000, 50000)
    BY <2>1, <2>2, <2>3, <2>4, <2>5 DEF Plan13
  <2>7. Piece(Heads13, Chapter(3, "keys", subs), 40000, 50000, Steps(40000, Len(subs)))
    BY <2>6, Planned13
  <2> QED
    BY <2>1, <2>7 DEF subs
<1>6. Piece(Heads13, Chapter(4, "calculation", <<"components", "bearer">>), 50000, 60000,
         Steps(50000, 2))
  <2> DEFINE subs == <<"components", "bearer">>
  <2>1. subs \in Seq(Topic) /\ Len(subs) = 2
    BY DEF Topic
  <2>2. \A k \in 1..2 : subs[k] \in SubTopics(3) /\ Key13(subs[k]) = 50000 + 100 * k
    <3>1. subs[1] = "components" /\ subs[2] = "bearer"
      OBVIOUS
    <3>2. /\ "components" \in SubTopics(3) /\ Key13("components") = 50100
          /\ "bearer" \in SubTopics(3) /\ Key13("bearer") = 50200
      BY DEF SubTopics, Key13
    <3> HIDE DEF subs
    <3> QED
      BY <3>1, <3>2
  <2> HIDE DEF subs
  <2>3. "calculation" \in Topic /\ Key13("calculation") = 50000
    BY DEF Topic, Key13
  <2>4. "calculation" = Chapters13[4 + 1]
    BY DEF Chapters13
  <2>5. Room(3, 4) = 9
    BY <1>1 DEF Room
  <2>6. Plan13(4, "calculation", subs, 50000, 60000)
    BY <2>1, <2>2, <2>3, <2>4, <2>5 DEF Plan13
  <2>7. Piece(Heads13, Chapter(4, "calculation", subs), 50000, 60000, Steps(50000, Len(subs)))
    BY <2>6, Planned13
  <2> QED
    BY <2>1, <2>7 DEF subs
<1>7. Piece(Heads13, Chapter(5, "priority", <<"ranking", "gate", "contest">>), 60000, 70000,
         Steps(60000, 3))
  <2> DEFINE subs == <<"ranking", "gate", "contest">>
  <2>1. subs \in Seq(Topic) /\ Len(subs) = 3
    BY DEF Topic
  <2>2. \A k \in 1..3 : subs[k] \in SubTopics(3) /\ Key13(subs[k]) = 60000 + 100 * k
    <3>1. subs[1] = "ranking" /\ subs[2] = "gate" /\ subs[3] = "contest"
      OBVIOUS
    <3>2. /\ "ranking" \in SubTopics(3) /\ Key13("ranking") = 60100
          /\ "gate" \in SubTopics(3) /\ Key13("gate") = 60200
          /\ "contest" \in SubTopics(3) /\ Key13("contest") = 60300
      BY DEF SubTopics, Key13
    <3> HIDE DEF subs
    <3> QED
      BY <3>1, <3>2
  <2> HIDE DEF subs
  <2>3. "priority" \in Topic /\ Key13("priority") = 60000
    BY DEF Topic, Key13
  <2>4. "priority" = Chapters13[5 + 1]
    BY DEF Chapters13
  <2>5. Room(3, 5) = 9
    BY <1>1 DEF Room
  <2>6. Plan13(5, "priority", subs, 60000, 70000)
    BY <2>1, <2>2, <2>3, <2>4, <2>5 DEF Plan13
  <2>7. Piece(Heads13, Chapter(5, "priority", subs), 60000, 70000, Steps(60000, Len(subs)))
    BY <2>6, Planned13
  <2> QED
    BY <2>1, <2>7 DEF subs
<1>8. Piece(Heads13, Chapter(6, "lookup", <<"steps", "example">>), 70000, 80000, Steps(70000, 2))
  <2> DEFINE subs == <<"steps", "example">>
  <2>1. subs \in Seq(Topic) /\ Len(subs) = 2
    BY DEF Topic
  <2>2. \A k \in 1..2 : subs[k] \in SubTopics(3) /\ Key13(subs[k]) = 70000 + 100 * k
    <3>1. subs[1] = "steps" /\ subs[2] = "example"
      OBVIOUS
    <3>2. /\ "steps" \in SubTopics(3) /\ Key13("steps") = 70100
          /\ "example" \in SubTopics(3) /\ Key13("example") = 70200
      BY DEF SubTopics, Key13
    <3> HIDE DEF subs
    <3> QED
      BY <3>1, <3>2
  <2> HIDE DEF subs
  <2>3. "lookup" \in Topic /\ Key13("lookup") = 70000
    BY DEF Topic, Key13
  <2>4. "lookup" = Chapters13[6 + 1]
    BY DEF Chapters13
  <2>5. Room(3, 6) = 9
    BY <1>1 DEF Room
  <2>6. Plan13(6, "lookup", subs, 70000, 80000)
    BY <2>1, <2>2, <2>3, <2>4, <2>5 DEF Plan13
  <2>7. Piece(Heads13, Chapter(6, "lookup", subs), 70000, 80000, Steps(70000, Len(subs)))
    BY <2>6, Planned13
  <2> QED
    BY <2>1, <2>7 DEF subs
<1>9. Piece(Heads13, Chapter(7, "enrolling", <<>>), 80000, 90000, Steps(80000, 0))
  <2> DEFINE subs == <<>>
  <2>1. subs \in Seq(Topic) /\ Len(subs) = 0
    OBVIOUS
  <2>2. \A k \in 1..0 : subs[k] \in SubTopics(3) /\ Key13(subs[k]) = 80000 + 100 * k
    OBVIOUS
  <2> HIDE DEF subs
  <2>3. "enrolling" \in Topic /\ Key13("enrolling") = 80000
    BY DEF Topic, Key13
  <2>4. "enrolling" = Chapters13[7 + 1]
    BY DEF Chapters13
  <2>5. Room(3, 7) = 9
    BY <1>1 DEF Room
  <2>6. Plan13(7, "enrolling", subs, 80000, 90000)
    BY <2>1, <2>2, <2>3, <2>4, <2>5 DEF Plan13
  <2>7. Piece(Heads13, Chapter(7, "enrolling", subs), 80000, 90000, Steps(80000, Len(subs)))
    BY <2>6, Planned13
  <2> QED
    BY <2>1, <2>7 DEF subs
<1>10. Piece(Heads13, Chapter(8, "period", <<>>), 90000, 100000, Steps(90000, 0))
  <2> DEFINE subs == <<>>
  <2>1. subs \in Seq(Topic) /\ Len(subs) = 0
    OBVIOUS
  <2>2. \A k \in 1..0 : subs[k] \in SubTopics(3) /\ Key13(subs[k]) = 90000 + 100 * k
    OBVIOUS
  <2> HIDE DEF subs
  <2>3. "period" \in Topic /\ Key13("period") = 90000
    BY DEF Topic, Key13
  <2>4. "period" = Chapters13[8 + 1]
    BY DEF Chapters13
  <2>5. Room(3, 8) = 9
    BY <1>1 DEF Room
  <2>6. Plan13(8, "period", subs, 90000, 100000)
    BY <2>1, <2>2, <2>3, <2>4, <2>5 DEF Plan13
  <2>7. Piece(Heads13, Chapter(8, "period", subs), 90000, 100000, Steps(90000, Len(subs)))
    BY <2>6, Planned13
  <2> QED
    BY <2>1, <2>7 DEF subs
<1>11. Piece(Heads13, Chapter(9, "negotiated",
          <<"lifecycle", "request", "approval", "extension", "metrics">>), 100000, 110000,
             Steps(100000, 5))
  <2> DEFINE subs == <<"lifecycle", "request", "approval", "extension", "metrics">>
  <2>1. subs \in Seq(Topic) /\ Len(subs) = 5
    BY DEF Topic
  <2>2. \A k \in 1..5 : subs[k] \in SubTopics(3) /\ Key13(subs[k]) = 100000 + 100 * k
    <3>1. subs[1] = "lifecycle" /\ subs[2] = "request" /\ subs[3] = "approval"
             /\ subs[4] = "extension" /\ subs[5] = "metrics"
      OBVIOUS
    <3>2. /\ "lifecycle" \in SubTopics(3) /\ Key13("lifecycle") = 100100
          /\ "request" \in SubTopics(3) /\ Key13("request") = 100200
          /\ "approval" \in SubTopics(3) /\ Key13("approval") = 100300
          /\ "extension" \in SubTopics(3) /\ Key13("extension") = 100400
          /\ "metrics" \in SubTopics(3) /\ Key13("metrics") = 100500
      BY DEF SubTopics, Key13
    <3> HIDE DEF subs
    <3> QED
      BY <3>1, <3>2
  <2> HIDE DEF subs
  <2>3. "negotiated" \in Topic /\ Key13("negotiated") = 100000
    BY DEF Topic, Key13
  <2>4. "negotiated" = Chapters13[9 + 1]
    BY DEF Chapters13
  <2>5. Room(3, 9) = 9
    BY <1>1 DEF Room
  <2>6. Plan13(9, "negotiated", subs, 100000, 110000)
    BY <2>1, <2>2, <2>3, <2>4, <2>5 DEF Plan13
  <2>7. Piece(Heads13, Chapter(9, "negotiated", subs), 100000, 110000, Steps(100000, Len(subs)))
    BY <2>6, Planned13
  <2> QED
    BY <2>1, <2>7 DEF subs
<1>12. Piece(Heads13, Chapter(10, "batch", <<"full", "incremental">>), 110000, 120000,
          Steps(110000, 2))
  <2> DEFINE subs == <<"full", "incremental">>
  <2>1. subs \in Seq(Topic) /\ Len(subs) = 2
    BY DEF Topic
  <2>2. \A k \in 1..2 : subs[k] \in SubTopics(3) /\ Key13(subs[k]) = 110000 + 100 * k
    <3>1. subs[1] = "full" /\ subs[2] = "incremental"
      OBVIOUS
    <3>2. /\ "full" \in SubTopics(3) /\ Key13("full") = 110100
          /\ "incremental" \in SubTopics(3) /\ Key13("incremental") = 110200
      BY DEF SubTopics, Key13
    <3> HIDE DEF subs
    <3> QED
      BY <3>1, <3>2
  <2> HIDE DEF subs
  <2>3. "batch" \in Topic /\ Key13("batch") = 110000
    BY DEF Topic, Key13
  <2>4. "batch" = Chapters13[10 + 1]
    BY DEF Chapters13
  <2>5. Room(3, 10) = 2
    BY <1>1 DEF Room
  <2>6. Plan13(10, "batch", subs, 110000, 120000)
    BY <2>1, <2>2, <2>3, <2>4, <2>5 DEF Plan13
  <2>7. Piece(Heads13, Chapter(10, "batch", subs), 110000, 120000, Steps(110000, Len(subs)))
    BY <2>6, Planned13
  <2> QED
    BY <2>1, <2>7 DEF subs
<1>13. Piece(Heads13, Chapter(11, "register", <<>>), 120000, 130000, Steps(120000, 0))
  <2> DEFINE subs == <<>>
  <2>1. subs \in Seq(Topic) /\ Len(subs) = 0
    OBVIOUS
  <2>2. \A k \in 1..0 : subs[k] \in SubTopics(3) /\ Key13(subs[k]) = 120000 + 100 * k
    OBVIOUS
  <2> HIDE DEF subs
  <2>3. "register" \in Topic /\ Key13("register") = 120000
    BY DEF Topic, Key13
  <2>4. "register" = Chapters13[11 + 1]
    BY DEF Chapters13
  <2>5. Room(3, 11) = 0
    BY <1>1 DEF Room
  <2>6. Plan13(11, "register", subs, 120000, 130000)
    BY <2>1, <2>2, <2>3, <2>4, <2>5 DEF Plan13
  <2>7. Piece(Heads13, Chapter(11, "register", subs), 120000, 130000, Steps(120000, Len(subs)))
    BY <2>6, Planned13
  <2> QED
    BY <2>1, <2>7 DEF subs
<1> QED
  BY <1>2, <1>3, <1>4, <1>5, <1>6, <1>7, <1>8, <1>9, <1>10, <1>11, <1>12, <1>13

(* The unnumbered headings v1.3 starts with, one by one.                   *)
LEMMA LooseHead13 ==
  ASSUME NEW topic \in {"summary", "terms", "contents"}, NEW level, level = LooseLevel(topic)
  PROVE  LET s == <<Unnumbered(level, topic)>>
         IN  Piece(Heads13, s, Key13(topic), Key13(topic) + 1, {Key13(topic)})
<1> DEFINE num == <<>>
           x == Section(level, num, topic)
           s == <<x>>
           o == [level |-> level, num |-> num, topic |-> topic, marks |-> {}]
           key == Key13(topic)
<1>1. level \in Nat /\ topic \in Topic /\ key \in Int /\ Place(topic) = key
         /\ topic \in LooseTopics(3)
  BY DEF LooseLevel, Topic, Key13, Place, LooseTopics
<1>2. num \in Seq(Nat) /\ Len(num) = 0
  OBVIOUS
<1>3. x \in Sec /\ Sketch(x) = o
  BY <1>1, <1>2, SectionIs
<1>4. o \in SketchType /\ o.num = num /\ o.level = level /\ o.topic = topic /\ o.marks = {}
  BY <1>1, <1>2 DEF SketchType
<1>5. Key(o) = key
  BY <1>1, <1>4 DEF Key
<1> HIDE DEF o, key
<1>6. Shape(3, o)
  <2>1. LooseAt(3, o)
    BY <1>1, <1>2, <1>4 DEF LooseAt
  <2>2. Noted(3, o)
    BY <1>4 DEF Noted
  <2> QED
    BY <1>2, <1>4, <2>1, <2>2 DEF Shape
<1>7. o \in Heads13
  BY <1>4, <1>5, <1>6 DEF Heads13, key
<1> HIDE DEF x
<1>8. s \in Seq(Sec) /\ Len(s) = 1 /\ DOMAIN s = 1..1 /\ s[1] = x
  BY <1>3
<1>9. Unnumbered(level, topic) = x
  BY DEF Unnumbered, x
<1> HIDE DEF s
<1>10. Rising(s)
  BY <1>8 DEF Rising
<1>11. Outline(s) = {o}
  BY <1>3, <1>8 DEF Outline
<1>12. \A y \in ToSet(s) : y = x
  BY <1>8, Members
<1>13. Key(x) = key
  BY <1>3, <1>5, SketchIs
<1>14. Between(s, key, key + 1)
  BY <1>1, <1>10, <1>12, <1>13 DEF Between
<1>15. Piece(Heads13, s, key, key + 1, {key})
  BY <1>5, <1>7, <1>8, <1>11, <1>14 DEF Piece
<1> QED
  BY <1>9, <1>15 DEF s, key

(* A piece is a piece of every wider range and with fewer keys asked of    *)
(* it.                                                                     *)
LEMMA PieceWider ==
  ASSUME NEW H, NEW s, NEW lo \in Int, NEW hi \in Int, NEW a \in Int, NEW b \in Int, NEW A, NEW B,
         Piece(H, s, a, b, A), lo <= a, b <= hi, B \subseteq A
  PROVE  Piece(H, s, lo, hi, B)
<1>1. s \in Seq(Sec) /\ Between(s, a, b)
  BY DEF Piece
<1>2. \A x \in ToSet(s) : Key(x) \in Int
  BY <1>1, Members, KeyIsInt
<1>3. Between(s, lo, hi)
  BY <1>1, <1>2 DEF Between
<1> QED
  BY <1>3 DEF Piece

(* What v1.3 writes before its first chapter: summary, glossary, contents. *)
LEMMA Front13 == Piece(Heads13, V13Front, 0, 10000, {1, 6, 7})
<1> DEFINE a == Unnumbered(1, "summary")
           b == Unnumbered(2, "terms")
           c == Unnumbered(1, "contents")
<1>1. Piece(Heads13, <<a>>, 1, 2, {1})
  <2>1. LooseLevel("summary") = 1 /\ Key13("summary") = 1
    BY DEF LooseLevel, Key13
  <2> QED
    BY <2>1, LooseHead13
<1>2. Piece(Heads13, <<b>>, 6, 7, {6})
  <2>1. LooseLevel("terms") = 2 /\ Key13("terms") = 6
    BY DEF LooseLevel, Key13
  <2> QED
    BY <2>1, LooseHead13
<1>3. Piece(Heads13, <<c>>, 7, 8, {7})
  <2>1. LooseLevel("contents") = 1 /\ Key13("contents") = 7
    BY DEF LooseLevel, Key13
  <2> QED
    BY <2>1, LooseHead13
<1>4. <<a, b, c>> = (<<a>> \o <<b>>) \o <<c>>
  OBVIOUS
<1> HIDE DEF a, b, c
<1> DEFINE s == (<<a>> \o <<b>>) \o <<c>>
<1>5. Piece(Heads13, <<a>>, 0, 6, {1}) /\ Piece(Heads13, <<c>>, 7, 10000, {7})
  BY <1>1, <1>3, PieceWider
<1>6. Piece(Heads13, <<a>> \o <<b>>, 0, 7, {1} \cup {6})
  BY <1>2, <1>5, PieceConcat
<1>7. Piece(Heads13, s, 0, 10000, ({1} \cup {6}) \cup {7})
  BY <1>5, <1>6, PieceConcat
<1> DEFINE marks == {"intro", "why", "trans"}
<1>8. Fits13("summary", marks)
  BY DEF Fits13, Mark
<1>9. V13Front = Marking(s, "summary", marks)
  BY <1>4 DEF V13Front, a, b, c
<1> HIDE DEF s, marks
<1>10. Piece(Heads13, Marking(s, "summary", marks), 0, 10000, ({1} \cup {6}) \cup {7})
  BY <1>7, <1>8, Marked13
<1>11. ({1} \cup {6}) \cup {7} = {1, 6, 7}
  OBVIOUS
<1> QED
  BY <1>9, <1>10, <1>11

(* The keys of the headings of chapters a to b.                            *)
Chapterly(a, b) == {10000 * (c + 1) : c \in a..b}

(* Two runs of chapters, one after the other, make one run.                *)
LEMMA Joined13 ==
  ASSUME NEW H, NEW s, NEW t, NEW a \in Nat, NEW b \in Nat, NEW c \in Nat, a <= b, b < c,
         Piece(H, s, 10000 * (a + 1), 10000 * (b + 2), Chapterly(a, b)),
         Piece(H, t, 10000 * (b + 2), 10000 * (c + 2), Chapterly(b + 1, c))
  PROVE  Piece(H, s \o t, 10000 * (a + 1), 10000 * (c + 2), Chapterly(a, c))
<1> DEFINE lo == 10000 * (a + 1)
           mid == 10000 * (b + 2)
           hi == 10000 * (c + 2)
           A == Chapterly(a, b)
           B == Chapterly(b + 1, c)
<1>1. lo \in Int /\ mid \in Int /\ hi \in Int /\ lo <= mid /\ mid <= hi
  OBVIOUS
<1>2. A \cup B = Chapterly(a, c)
  <2>1. a..c = (a..b) \cup ((b + 1)..c)
    OBVIOUS
  <2> QED
    BY <2>1 DEF Chapterly
<1> HIDE DEF lo, mid, hi, A, B
<1>3. Piece(H, s, lo, mid, A) /\ Piece(H, t, mid, hi, B)
  BY DEF lo, mid, hi, A, B
<1>4. Piece(H, s \o t, lo, hi, A \cup B)
  BY <1>1, <1>3, PieceConcat
<1> QED
  BY <1>2, <1>4 DEF lo, hi

(* The headings of v1.3, chapter by chapter.                               *)
LEMMA Pieces13 ==
  /\ Piece(Heads13, Chapter(0, "overview", <<"premise", "start", "survey">>),
           10000 * (0 + 1), 10000 * (0 + 2), Chapterly(0, 0))
  /\ Piece(Heads13, Chapter(1, "architecture", <<"principle", "whyboard", "boundary">>),
           10000 * (1 + 1), 10000 * (1 + 2), Chapterly(1, 1))
  /\ Piece(Heads13, Chapter(2, "data", <<"schedule", "policy", "account", "outputs", "logic">>),
           10000 * (2 + 1), 10000 * (2 + 2), Chapterly(2, 2))
  /\ Piece(Heads13, Chapter(3, "keys", <<"composition", "class", "axes">>),
           10000 * (3 + 1), 10000 * (3 + 2), Chapterly(3, 3))
  /\ Piece(Heads13, Chapter(4, "calculation", <<"components", "bearer">>),
           10000 * (4 + 1), 10000 * (4 + 2), Chapterly(4, 4))
  /\ Piece(Heads13, Chapter(5, "priority", <<"ranking", "gate", "contest">>),
           10000 * (5 + 1), 10000 * (5 + 2), Chapterly(5, 5))
  /\ Piece(Heads13, Chapter(6, "lookup", <<"steps", "example">>),
           10000 * (6 + 1), 10000 * (6 + 2), Chapterly(6, 6))
  /\ Piece(Heads13, Chapter(7, "enrolling", <<>>),
           10000 * (7 + 1), 10000 * (7 + 2), Chapterly(7, 7))
  /\ Piece(Heads13, Chapter(8, "period", <<>>),
           10000 * (8 + 1), 10000 * (8 + 2), Chapterly(8, 8))
  /\ Piece(Heads13, Chapter(9, "negotiated",
     <<"lifecycle", "request", "approval", "extension", "metrics">>),
           10000 * (9 + 1), 10000 * (9 + 2), Chapterly(9, 9))
  /\ Piece(Heads13, Chapter(10, "batch", <<"full", "incremental">>),
           10000 * (10 + 1), 10000 * (10 + 2), Chapterly(10, 10))
  /\ Piece(Heads13, Chapter(11, "register", <<>>),
           10000 * (11 + 1), 10000 * (11 + 2), Chapterly(11, 11))
<1>1. ASSUME NEW n \in 0..11, NEW s, NEW lo, NEW hi, NEW m \in Nat, lo = 10000 * (n + 1),
             hi = 10000 * (n + 2), Piece(Heads13, s, lo, hi, Steps(lo, m))
      PROVE  Piece(Heads13, s, lo, hi, Chapterly(n, n))
  <2>1. lo \in Int /\ hi \in Int
    BY <1>1
  <2>2. lo + 100 * 0 \in Steps(lo, m)
    BY <1>1 DEF Steps
  <2>3. Chapterly(n, n) \subseteq Steps(lo, m)
    BY <1>1, <2>1, <2>2 DEF Chapterly
  <2> QED
    BY <1>1, <2>1, <2>3, PieceWider
<1>2. Piece(Heads13, Chapter(0, "overview", <<"premise", "start", "survey">>), 10000, 20000,
         Chapterly(0, 0))
  <2> DEFINE s == Chapter(0, "overview", <<"premise", "start", "survey">>)
  <2>1. Piece(Heads13, s, 10000, 20000, Steps(10000, 3))
    BY Chapters13Are
  <2> HIDE DEF s
  <2>2. Piece(Heads13, s, 10000, 20000, Chapterly(0, 0))
    BY <1>1, <2>1
  <2> QED
    BY <2>2 DEF s
<1>3. Piece(Heads13, Chapter(1, "architecture", <<"principle", "whyboard", "boundary">>), 20000,
         30000, Chapterly(1, 1))
  <2> DEFINE s == Chapter(1, "architecture", <<"principle", "whyboard", "boundary">>)
  <2>1. Piece(Heads13, s, 20000, 30000, Steps(20000, 3))
    BY Chapters13Are
  <2> HIDE DEF s
  <2>2. Piece(Heads13, s, 20000, 30000, Chapterly(1, 1))
    BY <1>1, <2>1
  <2> QED
    BY <2>2 DEF s
<1>4. Piece(Heads13, Chapter(2, "data", <<"schedule", "policy", "account", "outputs", "logic">>),
         30000, 40000, Chapterly(2, 2))
  <2> DEFINE s == Chapter(2, "data", <<"schedule", "policy", "account", "outputs", "logic">>)
  <2>1. Piece(Heads13, s, 30000, 40000, Steps(30000, 5))
    BY Chapters13Are
  <2> HIDE DEF s
  <2>2. Piece(Heads13, s, 30000, 40000, Chapterly(2, 2))
    BY <1>1, <2>1
  <2> QED
    BY <2>2 DEF s
<1>5. Piece(Heads13, Chapter(3, "keys", <<"composition", "class", "axes">>), 40000, 50000,
         Chapterly(3, 3))
  <2> DEFINE s == Chapter(3, "keys", <<"composition", "class", "axes">>)
  <2>1. Piece(Heads13, s, 40000, 50000, Steps(40000, 3))
    BY Chapters13Are
  <2> HIDE DEF s
  <2>2. Piece(Heads13, s, 40000, 50000, Chapterly(3, 3))
    BY <1>1, <2>1
  <2> QED
    BY <2>2 DEF s
<1>6. Piece(Heads13, Chapter(4, "calculation", <<"components", "bearer">>), 50000, 60000,
         Chapterly(4, 4))
  <2> DEFINE s == Chapter(4, "calculation", <<"components", "bearer">>)
  <2>1. Piece(Heads13, s, 50000, 60000, Steps(50000, 2))
    BY Chapters13Are
  <2> HIDE DEF s
  <2>2. Piece(Heads13, s, 50000, 60000, Chapterly(4, 4))
    BY <1>1, <2>1
  <2> QED
    BY <2>2 DEF s
<1>7. Piece(Heads13, Chapter(5, "priority", <<"ranking", "gate", "contest">>), 60000, 70000,
         Chapterly(5, 5))
  <2> DEFINE s == Chapter(5, "priority", <<"ranking", "gate", "contest">>)
  <2>1. Piece(Heads13, s, 60000, 70000, Steps(60000, 3))
    BY Chapters13Are
  <2> HIDE DEF s
  <2>2. Piece(Heads13, s, 60000, 70000, Chapterly(5, 5))
    BY <1>1, <2>1
  <2> QED
    BY <2>2 DEF s
<1>8. Piece(Heads13, Chapter(6, "lookup", <<"steps", "example">>), 70000, 80000, Chapterly(6, 6))
  <2> DEFINE s == Chapter(6, "lookup", <<"steps", "example">>)
  <2>1. Piece(Heads13, s, 70000, 80000, Steps(70000, 2))
    BY Chapters13Are
  <2> HIDE DEF s
  <2>2. Piece(Heads13, s, 70000, 80000, Chapterly(6, 6))
    BY <1>1, <2>1
  <2> QED
    BY <2>2 DEF s
<1>9. Piece(Heads13, Chapter(7, "enrolling", <<>>), 80000, 90000, Chapterly(7, 7))
  <2> DEFINE s == Chapter(7, "enrolling", <<>>)
  <2>1. Piece(Heads13, s, 80000, 90000, Steps(80000, 0))
    BY Chapters13Are
  <2> HIDE DEF s
  <2>2. Piece(Heads13, s, 80000, 90000, Chapterly(7, 7))
    BY <1>1, <2>1
  <2> QED
    BY <2>2 DEF s
<1>10. Piece(Heads13, Chapter(8, "period", <<>>), 90000, 100000, Chapterly(8, 8))
  <2> DEFINE s == Chapter(8, "period", <<>>)
  <2>1. Piece(Heads13, s, 90000, 100000, Steps(90000, 0))
    BY Chapters13Are
  <2> HIDE DEF s
  <2>2. Piece(Heads13, s, 90000, 100000, Chapterly(8, 8))
    BY <1>1, <2>1
  <2> QED
    BY <2>2 DEF s
<1>11. Piece(Heads13, Chapter(9, "negotiated",
          <<"lifecycle", "request", "approval", "extension", "metrics">>), 100000, 110000,
             Chapterly(9, 9))
  <2> DEFINE s == Chapter(9, "negotiated",
         <<"lifecycle", "request", "approval", "extension", "metrics">>)
  <2>1. Piece(Heads13, s, 100000, 110000, Steps(100000, 5))
    BY Chapters13Are
  <2> HIDE DEF s
  <2>2. Piece(Heads13, s, 100000, 110000, Chapterly(9, 9))
    BY <1>1, <2>1
  <2> QED
    BY <2>2 DEF s
<1>12. Piece(Heads13, Chapter(10, "batch", <<"full", "incremental">>), 110000, 120000,
          Chapterly(10, 10))
  <2> DEFINE s == Chapter(10, "batch", <<"full", "incremental">>)
  <2>1. Piece(Heads13, s, 110000, 120000, Steps(110000, 2))
    BY Chapters13Are
  <2> HIDE DEF s
  <2>2. Piece(Heads13, s, 110000, 120000, Chapterly(10, 10))
    BY <1>1, <2>1
  <2> QED
    BY <2>2 DEF s
<1>13. Piece(Heads13, Chapter(11, "register", <<>>), 120000, 130000, Chapterly(11, 11))
  <2> DEFINE s == Chapter(11, "register", <<>>)
  <2>1. Piece(Heads13, s, 120000, 130000, Steps(120000, 0))
    BY Chapters13Are
  <2> HIDE DEF s
  <2>2. Piece(Heads13, s, 120000, 130000, Chapterly(11, 11))
    BY <1>1, <2>1
  <2> QED
    BY <2>2 DEF s
<1> QED
  BY <1>2, <1>3, <1>4, <1>5, <1>6, <1>7, <1>8, <1>9, <1>10, <1>11, <1>12, <1>13

(* v1.3, chapters 0 to 2.                                                  *)
LEMMA V13Chapters0to2Is ==
  Piece(Heads13, V13Chapters0to2, 10000 * (0 + 1), 10000 * (2 + 2), Chapterly(0, 2))
<1> DEFINE c0 == Chapter(0, "overview", <<"premise", "start", "survey">>)
           c1 == Chapter(1, "architecture", <<"principle", "whyboard", "boundary">>)
           c2 == Chapter(2, "data", <<"schedule", "policy", "account", "outputs", "logic">>)
<1>1. /\ Piece(Heads13, c0, 10000 * (0 + 1), 10000 * (0 + 2), Chapterly(0, 0))
      /\ Piece(Heads13, c1, 10000 * (1 + 1), 10000 * (1 + 2), Chapterly(1, 1))
      /\ Piece(Heads13, c2, 10000 * (2 + 1), 10000 * (2 + 2), Chapterly(2, 2))
  BY Pieces13
<1> DEFINE body == (c0 \o c1) \o c2
           m1 == {"axisTable", "perStock"}
<1>2. V13Chapters0to2 = Marking(body, "logic", m1)
  BY DEF V13Chapters0to2
<1>3. Fits13("logic", m1)
  BY DEF Fits13, Mark
<1> HIDE DEF body, c0, c1, c2, m1
<1>4. Piece(Heads13, c0 \o c1, 10000 * (0 + 1), 10000 * (1 + 2), Chapterly(0, 1))
  <2>1. Piece(Heads13, c0, 10000 * (0 + 1), 10000 * (0 + 2), Chapterly(0, 0))
    BY <1>1
  <2>2. Piece(Heads13, c1, 10000 * (0 + 2), 10000 * (1 + 2), Chapterly(0 + 1, 1))
    BY <1>1
  <2> QED
    BY <2>1, <2>2, Joined13
<1>5. Piece(Heads13, (c0 \o c1) \o c2, 10000 * (0 + 1), 10000 * (2 + 2), Chapterly(0, 2))
  <2>1. Piece(Heads13, c0 \o c1, 10000 * (0 + 1), 10000 * (1 + 2), Chapterly(0, 1))
    BY <1>1, <1>4
  <2>2. Piece(Heads13, c2, 10000 * (1 + 2), 10000 * (2 + 2), Chapterly(1 + 1, 2))
    BY <1>1
  <2> QED
    BY <2>1, <2>2, Joined13
<1>6. Piece(Heads13, body, 10000 * (0 + 1), 10000 * (2 + 2), Chapterly(0, 2))
  BY <1>5 DEF body
<1>7. Piece(Heads13, Marking(body, "logic", m1), 10000 * (0 + 1), 10000 * (2 + 2), Chapterly(0, 2))
  BY <1>3, <1>6, Marked13
<1> QED
  BY <1>2, <1>7

(* v1.3, chapters 3 to 6.                                                  *)
LEMMA V13Chapters3to6Is ==
  Piece(Heads13, V13Chapters3to6, 10000 * (3 + 1), 10000 * (6 + 2), Chapterly(3, 6))
<1> DEFINE c3 == Chapter(3, "keys", <<"composition", "class", "axes">>)
           c4 == Chapter(4, "calculation", <<"components", "bearer">>)
           c5 == Chapter(5, "priority", <<"ranking", "gate", "contest">>)
           c6 == Chapter(6, "lookup", <<"steps", "example">>)
<1>1. /\ Piece(Heads13, c3, 10000 * (3 + 1), 10000 * (3 + 2), Chapterly(3, 3))
      /\ Piece(Heads13, c4, 10000 * (4 + 1), 10000 * (4 + 2), Chapterly(4, 4))
      /\ Piece(Heads13, c5, 10000 * (5 + 1), 10000 * (5 + 2), Chapterly(5, 5))
      /\ Piece(Heads13, c6, 10000 * (6 + 1), 10000 * (6 + 2), Chapterly(6, 6))
  BY Pieces13
<1> DEFINE body == ((c3 \o c4) \o c5) \o c6
           m1 == {"arrives"}
           m2 == {"side"}
           m3 == {"noRow"}
           m4 == {"note", "option", "etf"}
<1>2. V13Chapters3to6 = Marking(Marking(Marking(Marking(body, "composition", m1), "axes", m2),
         "steps", m3), "example", m4)
  BY DEF V13Chapters3to6
<1>3. Fits13("composition", m1) /\ Fits13("axes", m2) /\ Fits13("steps", m3)
         /\ Fits13("example", m4)
  BY DEF Fits13, Mark
<1> HIDE DEF body, c3, c4, c5, c6, m1, m2, m3, m4
<1>4. Piece(Heads13, c3 \o c4, 10000 * (3 + 1), 10000 * (4 + 2), Chapterly(3, 4))
  <2>1. Piece(Heads13, c3, 10000 * (3 + 1), 10000 * (3 + 2), Chapterly(3, 3))
    BY <1>1
  <2>2. Piece(Heads13, c4, 10000 * (3 + 2), 10000 * (4 + 2), Chapterly(3 + 1, 4))
    BY <1>1
  <2> QED
    BY <2>1, <2>2, Joined13
<1>5. Piece(Heads13, (c3 \o c4) \o c5, 10000 * (3 + 1), 10000 * (5 + 2), Chapterly(3, 5))
  <2>1. Piece(Heads13, c3 \o c4, 10000 * (3 + 1), 10000 * (4 + 2), Chapterly(3, 4))
    BY <1>1, <1>4
  <2>2. Piece(Heads13, c5, 10000 * (4 + 2), 10000 * (5 + 2), Chapterly(4 + 1, 5))
    BY <1>1
  <2> QED
    BY <2>1, <2>2, Joined13
<1>6. Piece(Heads13, ((c3 \o c4) \o c5) \o c6, 10000 * (3 + 1), 10000 * (6 + 2), Chapterly(3, 6))
  <2>1. Piece(Heads13, (c3 \o c4) \o c5, 10000 * (3 + 1), 10000 * (5 + 2), Chapterly(3, 5))
    BY <1>1, <1>5
  <2>2. Piece(Heads13, c6, 10000 * (5 + 2), 10000 * (6 + 2), Chapterly(5 + 1, 6))
    BY <1>1
  <2> QED
    BY <2>1, <2>2, Joined13
<1>7. Piece(Heads13, body, 10000 * (3 + 1), 10000 * (6 + 2), Chapterly(3, 6))
  BY <1>6 DEF body
<1>8. Piece(Heads13, Marking(body, "composition", m1), 10000 * (3 + 1), 10000 * (6 + 2),
         Chapterly(3, 6))
  BY <1>3, <1>7, Marked13
<1>9. Piece(Heads13, Marking(Marking(body, "composition", m1), "axes", m2), 10000 * (3 + 1),
         10000 * (6 + 2), Chapterly(3, 6))
  BY <1>3, <1>8, Marked13
<1>10. Piece(Heads13, Marking(Marking(Marking(body, "composition", m1), "axes", m2), "steps",
          m3), 10000 * (3 + 1), 10000 * (6 + 2), Chapterly(3, 6))
  BY <1>3, <1>9, Marked13
<1>11. Piece(Heads13, Marking(Marking(Marking(Marking(body, "composition", m1), "axes", m2),
          "steps", m3), "example", m4), 10000 * (3 + 1), 10000 * (6 + 2), Chapterly(3, 6))
  BY <1>3, <1>10, Marked13
<1> QED
  BY <1>2, <1>11

(* v1.3, chapters 7 to 11.                                                 *)
LEMMA V13Chapters7to11Is ==
  Piece(Heads13, V13Chapters7to11, 10000 * (7 + 1), 10000 * (11 + 2), Chapterly(7, 11))
<1> DEFINE c7 == Chapter(7, "enrolling", <<>>)
           c8 == Chapter(8, "period", <<>>)
           c9 == Chapter(9, "negotiated",
              <<"lifecycle", "request", "approval", "extension", "metrics">>)
           c10 == Chapter(10, "batch", <<"full", "incremental">>)
           c11 == Chapter(11, "register", <<>>)
<1>1. /\ Piece(Heads13, c7, 10000 * (7 + 1), 10000 * (7 + 2), Chapterly(7, 7))
      /\ Piece(Heads13, c8, 10000 * (8 + 1), 10000 * (8 + 2), Chapterly(8, 8))
      /\ Piece(Heads13, c9, 10000 * (9 + 1), 10000 * (9 + 2), Chapterly(9, 9))
      /\ Piece(Heads13, c10, 10000 * (10 + 1), 10000 * (10 + 2), Chapterly(10, 10))
      /\ Piece(Heads13, c11, 10000 * (11 + 1), 10000 * (11 + 2), Chapterly(11, 11))
  BY Pieces13
<1> DEFINE body == (((c7 \o c8) \o c9) \o c10) \o c11
           m1 == {"cellRule", "numbered"}
           m2 == {"draft", "perStock", "end"}
<1>2. V13Chapters7to11 = Marking(Marking(body, "full", m1), "register", m2)
  BY DEF V13Chapters7to11
<1>3. Fits13("full", m1) /\ Fits13("register", m2)
  BY DEF Fits13, Mark
<1> HIDE DEF body, c7, c8, c9, c10, c11, m1, m2
<1>4. Piece(Heads13, c7 \o c8, 10000 * (7 + 1), 10000 * (8 + 2), Chapterly(7, 8))
  <2>1. Piece(Heads13, c7, 10000 * (7 + 1), 10000 * (7 + 2), Chapterly(7, 7))
    BY <1>1
  <2>2. Piece(Heads13, c8, 10000 * (7 + 2), 10000 * (8 + 2), Chapterly(7 + 1, 8))
    BY <1>1
  <2> QED
    BY <2>1, <2>2, Joined13
<1>5. Piece(Heads13, (c7 \o c8) \o c9, 10000 * (7 + 1), 10000 * (9 + 2), Chapterly(7, 9))
  <2>1. Piece(Heads13, c7 \o c8, 10000 * (7 + 1), 10000 * (8 + 2), Chapterly(7, 8))
    BY <1>1, <1>4
  <2>2. Piece(Heads13, c9, 10000 * (8 + 2), 10000 * (9 + 2), Chapterly(8 + 1, 9))
    BY <1>1
  <2> QED
    BY <2>1, <2>2, Joined13
<1>6. Piece(Heads13, ((c7 \o c8) \o c9) \o c10, 10000 * (7 + 1), 10000 * (10 + 2), Chapterly(7, 10))
  <2>1. Piece(Heads13, (c7 \o c8) \o c9, 10000 * (7 + 1), 10000 * (9 + 2), Chapterly(7, 9))
    BY <1>1, <1>5
  <2>2. Piece(Heads13, c10, 10000 * (9 + 2), 10000 * (10 + 2), Chapterly(9 + 1, 10))
    BY <1>1
  <2> QED
    BY <2>1, <2>2, Joined13
<1>7. Piece(Heads13, (((c7 \o c8) \o c9) \o c10) \o c11, 10000 * (7 + 1), 10000 * (11 + 2),
         Chapterly(7, 11))
  <2>1. Piece(Heads13, ((c7 \o c8) \o c9) \o c10, 10000 * (7 + 1), 10000 * (10 + 2),
           Chapterly(7, 10))
    BY <1>1, <1>6
  <2>2. Piece(Heads13, c11, 10000 * (10 + 2), 10000 * (11 + 2), Chapterly(10 + 1, 11))
    BY <1>1
  <2> QED
    BY <2>1, <2>2, Joined13
<1>8. Piece(Heads13, body, 10000 * (7 + 1), 10000 * (11 + 2), Chapterly(7, 11))
  BY <1>7 DEF body
<1>9. Piece(Heads13, Marking(body, "full", m1), 10000 * (7 + 1), 10000 * (11 + 2), Chapterly(7, 11))
  BY <1>3, <1>8, Marked13
<1>10. Piece(Heads13, Marking(Marking(body, "full", m1), "register", m2), 10000 * (7 + 1),
          10000 * (11 + 2), Chapterly(7, 11))
  BY <1>3, <1>9, Marked13
<1> QED
  BY <1>2, <1>10

(* v1.3 is one rising piece, with every chapter from 0 to 11.              *)
LEMMA BodyOf13 == Piece(Heads13, V13.body, 0, 130000, {1, 6, 7} \cup Chapterly(0, 11))
<1> DEFINE f == V13Front
           a == V13Chapters0to2
           b == V13Chapters3to6
           c == V13Chapters7to11
<1>1. V13.body = ((f \o a) \o b) \o c
  BY DEF V13
<1>2. /\ Piece(Heads13, f, 0, 10000, {1, 6, 7})
      /\ Piece(Heads13, a, 10000 * (0 + 1), 10000 * (2 + 2), Chapterly(0, 2))
      /\ Piece(Heads13, b, 10000 * (3 + 1), 10000 * (6 + 2), Chapterly(3, 6))
      /\ Piece(Heads13, c, 10000 * (7 + 1), 10000 * (11 + 2), Chapterly(7, 11))
  BY Front13, V13Chapters0to2Is, V13Chapters3to6Is, V13Chapters7to11Is
<1> HIDE DEF f, a, b, c
<1> DEFINE A == {1, 6, 7} \cup Chapterly(0, 2)
           B == A \cup Chapterly(3, 6)
<1>3. /\ Piece(Heads13, a, 10000, 40000, Chapterly(0, 2))
         /\ Piece(Heads13, b, 40000, 80000, Chapterly(3, 6))
      /\ Piece(Heads13, c, 80000, 130000, Chapterly(7, 11))
  BY <1>2
<1>4. Piece(Heads13, f \o a, 0, 40000, A)
  BY <1>2, <1>3, PieceConcat
<1> HIDE DEF A
<1>5. Piece(Heads13, (f \o a) \o b, 0, 80000, B)
  BY <1>3, <1>4, PieceConcat
<1> HIDE DEF B
<1>6. Piece(Heads13, ((f \o a) \o b) \o c, 0, 130000, B \cup Chapterly(7, 11))
  BY <1>3, <1>5, PieceConcat
<1>7. B \cup Chapterly(7, 11) = {1, 6, 7} \cup Chapterly(0, 11)
  <2>1. 0..11 = ((0..2) \cup (3..6)) \cup (7..11)
    OBVIOUS
  <2>2. Chapterly(0, 11) = (Chapterly(0, 2) \cup Chapterly(3, 6)) \cup Chapterly(7, 11)
    BY <2>1 DEF Chapterly
  <2> QED
    BY <2>2 DEF A, B
<1> DEFINE whole == ((f \o a) \o b) \o c
           C == B \cup Chapterly(7, 11)
<1>8. Piece(Heads13, whole, 0, 130000, C) /\ V13.body = whole
  BY <1>1, <1>6
<1> HIDE DEF whole, C
<1>9. C = {1, 6, 7} \cup Chapterly(0, 11)
  BY <1>7 DEF C
<1> QED
  BY <1>8, <1>9

(* Same key, same heading.                                                 *)
LEMMA OneEachByKey ==
  ASSUME NEW body \in Seq(Sec), Rising(body),
         \A o, p \in Outline(body) : o.topic = p.topic => Key(o) = Key(p)
  PROVE  OneEach(Outline(body))
<1> SUFFICES ASSUME NEW o \in Outline(body), NEW p \in Outline(body), o.topic = p.topic PROVE o = p
  BY DEF OneEach
<1>0. DOMAIN body = 1..Len(body)
  BY LenProperties
<1>1. PICK i \in 1..Len(body) : o = Sketch(body[i])
  BY <1>0 DEF Outline
<1>2. PICK j \in 1..Len(body) : p = Sketch(body[j])
  BY <1>0 DEF Outline
<1>3. body[i] \in Sec /\ body[j] \in Sec
  BY <1>0, OutlineIs
<1>4. Key(body[i]) = Key(o) /\ Key(body[j]) = Key(p)
  BY <1>1, <1>2, <1>3, SketchIs
<1>5. Key(o) = Key(p)
  OBVIOUS
<1>6. i = j
  BY <1>4, <1>5, RisingOrder
<1> QED
  BY <1>1, <1>2, <1>6

(* v1.3 is written in the first layout.                                    *)
LEMMA LayoutOf13 == Layout(3, V13.body)
<1> DEFINE body == V13.body
           K == {1, 6, 7} \cup Chapterly(0, 11)
<1>1. Piece(Heads13, body, 0, 130000, K)
  BY BodyOf13
<1>2. \A c \in 0..11 : 10000 * (c + 1) \in K
  BY DEF Chapterly
<1>3. 1 \in K /\ 6 \in K /\ 7 \in K
  OBVIOUS
<1> HIDE DEF body, K
<1>4. /\ body \in Seq(Sec) /\ Rising(body) /\ Outline(body) \subseteq Heads13
      /\ \A k \in K : \E o \in Outline(body) : Key(o) = k
  BY <1>1 DEF Piece, Between
<1>5. \A o \in Outline(body) : Shape(3, o) /\ Key(o) = Key13(o.topic)
  BY <1>4 DEF Heads13
<1>6. OneEach(Outline(body))
  BY <1>4, <1>5, OneEachByKey
<1>7. 3 \in 3..12 /\ Len(ChapterTopics(3)) = 12
  BY Tops
<1>8. LooseTopics(3) = {"summary", "terms", "contents"}
  BY DEF LooseTopics
<1>9. ASSUME NEW topic \in LooseTopics(3)
      PROVE  \E x \in Outline(body) : Len(x.num) = 0 /\ x.topic = topic
  <2> DEFINE key == Place(topic)
  <2>1. key \in {1, 6, 7}
    BY <1>8, <1>9 DEF Place
  <2>2. \A t \in LooseTopics(3) : Place(t) = key => t = topic
    BY <1>8, <1>9 DEF Place
  <2> HIDE DEF key
  <2>3. PICK x \in Outline(body) : Key(x) = key
    BY <1>3, <1>4, <2>1
  <2>4. Shape(3, x)
    BY <1>5
  <2>5. ASSUME ChapterOf(3, x) PROVE FALSE
    <3>1. x.num[1] \in 0..13 /\ Key(x) = 10000 * (x.num[1] + 1)
      BY <1>7, <2>4, <2>5, KeyOf
    <3> QED
      BY <2>1, <2>3, <3>1
  <2>6. ASSUME SubOf(3, x) PROVE FALSE
    <3>1. x.num[1] \in 0..13 /\ x.num[2] \in 1..9
             /\ Key(x) = 10000 * (x.num[1] + 1) + 100 * x.num[2]
      BY <1>7, <2>4, <2>6, KeyOf
    <3> QED
      BY <2>1, <2>3, <3>1
  <2>7. LooseAt(3, x)
    BY <2>4, <2>5, <2>6 DEF Shape
  <2>8. Key(x) = Place(x.topic)
    BY <1>7, <2>4, <2>7, KeyOf
  <2> QED
    BY <2>2, <2>3, <2>7, <2>8 DEF LooseAt
<1>10. ASSUME NEW c \in 0..11
       PROVE  \E x \in Outline(body) : Len(x.num) = 1 /\ x.num[1] = c
  <2>1. PICK x \in Outline(body) : Key(x) = 10000 * (c + 1)
    BY <1>2, <1>4
  <2>2. Shape(3, x)
    BY <1>5
  <2>3. ASSUME LooseAt(3, x) PROVE FALSE
    <3>1. x.topic # "appendix"
      BY <1>8, <2>3 DEF LooseAt
    <3>2. Key(x) < 8
      BY <1>7, <2>2, <2>3, <3>1, KeyOf
    <3> QED
      BY <2>1, <3>2
  <2>4. ASSUME SubOf(3, x) PROVE FALSE
    <3>1. x.num[1] \in 0..13 /\ x.num[2] \in 1..9
             /\ Key(x) = 10000 * (x.num[1] + 1) + 100 * x.num[2]
      BY <1>7, <2>2, <2>4, KeyOf
    <3> QED
      BY <2>1, <3>1
  <2>5. ChapterOf(3, x)
    BY <2>2, <2>3, <2>4 DEF Shape
  <2>6. x.num[1] \in 0..13 /\ Key(x) = 10000 * (x.num[1] + 1)
    BY <1>7, <2>2, <2>5, KeyOf
  <2> QED
    BY <2>1, <2>5, <2>6 DEF ChapterOf
<1>11. \A c \in 0..(Len(ChapterTopics(3)) - 1) : \E x \in Outline(body) : Len(x.num) = 1
          /\ x.num[1] = c
  <2> DEFINE top == Len(ChapterTopics(3))
  <2>1. top = 12
    BY <1>7
  <2> HIDE DEF top
  <2>2. 0..(top - 1) = 0..11
    BY <2>1
  <2>3. \A c \in 0..(top - 1) : \E x \in Outline(body) : Len(x.num) = 1 /\ x.num[1] = c
    BY <1>10, <2>2
  <2> QED
    BY <2>3 DEF top
<1>12. Complete(3, Outline(body))
  BY <1>9, <1>11 DEF Complete
<1>13. \A o \in Outline(body) : Shape(3, o)
  BY <1>5
<1>14. Drawn(3, Outline(body))
  BY <1>6, <1>12, <1>13 DEF Drawn
<1> QED
  BY <1>4, <1>14 DEF Layout, body

-----------------------------------------------------------------------------
(* The first editions, across three levels *)

(* The first editions: numbered headings at the keys of their topics,      *)
(* chapters up to top, and the third level only at the keys in D.          *)
HeadsOf(top, D, f) ==
  {o \in SketchType :
     /\ Key(o) = f[o.topic]
     /\ \/ o.num = <<>>
        \/ /\ Plain(o.num) /\ o.level = Len(o.num) /\ o.num[1] <= top
           /\ Len(o.num) <= 2 \/ Key(o) \in D}

PlanOf(top, D, f, n, topic, subs, lo, hi) ==
  /\ top \in 0..20 /\ n \in 0..top /\ topic \in Topic
  /\ lo = 10000 * (n + 1) /\ hi = 10000 * (n + 2) /\ f[topic] = lo
  /\ subs \in Seq(Topic) /\ Len(subs) <= 90
  /\ \A k \in 1..Len(subs) : f[subs[k]] = lo + 100 * k

(* A chapter an edition plans for is a piece of that edition.              *)
LEMMA PlannedOf ==
  ASSUME NEW top, NEW D, NEW f, NEW n, NEW topic, NEW subs, NEW lo, NEW hi,
         PlanOf(top, D, f, n, topic, subs, lo, hi)
  PROVE  Piece(HeadsOf(top, D, f), Chapter(n, topic, subs), lo, hi, Steps(lo, Len(subs)))
<1>a. top \in 0..20 /\ n \in 0..top /\ topic \in Topic
  BY DEF PlanOf
<1>b. lo = 10000 * (n + 1) /\ hi = 10000 * (n + 2) /\ f[topic] = lo
  BY DEF PlanOf
<1>c. subs \in Seq(Topic) /\ Len(subs) <= 90
  BY DEF PlanOf
<1>d. \A k \in 1..Len(subs) : f[subs[k]] = lo + 100 * k
  BY DEF PlanOf
<1>e. n \in 0..20 /\ n \in Nat /\ n <= top
  BY <1>a
<1>1. Len(subs) \in Nat /\ \A k \in 1..Len(subs) : subs[k] \in Topic
  BY <1>c, LenProperties
<1>2. ChapterHead(n, topic) \in HeadsOf(top, D, f)
  <2> DEFINE num == <<n>>
             h == [level |-> 1, num |-> num, topic |-> topic, marks |-> {}]
  <2>1. num \in Seq(Nat) /\ num[1] = n /\ Len(num) = 1 /\ num # <<>>
    BY <1>e
  <2>2. Plain(num)
    BY <1>e DEF Plain
  <2> HIDE DEF num
  <2>3. h \in SketchType /\ h.level = 1 /\ h.num = num /\ h.topic = topic
    BY <1>a, <2>1 DEF SketchType
  <2>4. h = ChapterHead(n, topic)
    BY DEF ChapterHead, num
  <2> HIDE DEF h
  <2>5. Height(num) = 10000 * (n + 1)
    BY <1>e, <2>1 DEF Height, Second, Third
  <2>6. Key(h) = lo
    BY <1>b, <2>1, <2>3, <2>5 DEF Key
  <2>7. Len(num) <= 2
    BY <2>1
  <2>8. Key(h) = f[h.topic]
    BY <1>b, <2>3, <2>6
  <2>9. Plain(h.num) /\ h.level = Len(h.num) /\ Len(h.num) <= 2
    BY <2>1, <2>2, <2>3, <2>7
  <2>10. h.num[1] <= top
    BY <1>e, <2>1, <2>3
  <2> QED
    BY <2>3, <2>4, <2>8, <2>9, <2>10 DEF HeadsOf
<1>3. ASSUME NEW k \in 1..Len(subs) PROVE SectionHead(n, k, subs[k]) \in HeadsOf(top, D, f)
  <2> DEFINE num == <<n, k>>
             t == subs[k]
             m == Len(subs)
             h == [level |-> 2, num |-> num, topic |-> t, marks |-> {}]
  <2>0. t \in Topic /\ f[t] = lo + 100 * k
    BY <1>1, <1>d
  <2>k. k \in 1..90
    <3>1. m \in Nat /\ m <= 90 /\ k \in 1..m
      BY <1>1, <1>c
    <3> HIDE DEF m
    <3> QED
      BY <3>1
  <2> HIDE DEF t
  <2>1. num \in Seq(Nat) /\ num[1] = n /\ num[2] = k /\ Len(num) = 2 /\ num # <<>>
    BY <1>e, <2>k
  <2>2. Plain(num)
    BY <1>e, <2>k DEF Plain
  <2> HIDE DEF num
  <2>3. h \in SketchType /\ h.level = 2 /\ h.num = num /\ h.topic = t
    BY <2>0, <2>1 DEF SketchType
  <2>4. h = SectionHead(n, k, subs[k])
    BY DEF SectionHead, num, t
  <2> HIDE DEF h
  <2>5. Height(num) = 10000 * (n + 1) + 100 * k + 0
    BY <1>e, <2>1 DEF Height, Second, Third
  <2>6. Key(h) = lo + 100 * k
    BY <1>b, <1>e, <2>k, <2>1, <2>3, <2>5 DEF Key
  <2>7. Len(num) <= 2
    BY <2>1
  <2> QED
    BY <2>0, <1>e, <2>1, <2>2, <2>3, <2>4, <2>6, <2>7 DEF HeadsOf
<1>4. \A k \in 1..Len(subs) : SectionHead(n, k, subs[k]) \in HeadsOf(top, D, f)
  BY <1>3
<1>5. ChapterIn(HeadsOf(top, D, f), n, topic, subs, lo, hi)
  <2> HIDE DEF HeadsOf
  <2> QED
    BY <1>2, <1>4, <1>a, <1>b, <1>c, <1>e DEF ChapterIn
<1> QED
  BY <1>5, PieceChapter

(* A piece stays one when more third-level headings are allowed.           *)
LEMMA HeadsGrow ==
  ASSUME NEW top, NEW D, NEW E, D \subseteq E, NEW f, NEW s, NEW lo, NEW hi, NEW A,
         Piece(HeadsOf(top, D, f), s, lo, hi, A)
  PROVE  Piece(HeadsOf(top, E, f), s, lo, hi, A)
<1>1. HeadsOf(top, D, f) \subseteq HeadsOf(top, E, f)
  BY DEF HeadsOf
<1> HIDE DEF HeadsOf
<1> QED
  BY <1>1 DEF Piece

(* The number of the heading below a section.                              *)
Deep(t, c, k) ==
  /\ t \in Seq(Nat) /\ Len(t) = 3 /\ t[1] = c /\ t # <<>> /\ Plain(t)
  /\ Height(t) = 10000 * (c + 1) + 100 * k + 1

(* The number of a third-level heading under c.k.                          *)
LEMMA ThirdIs ==
  ASSUME NEW num, NEW c \in 0..20, NEW k \in 1..90, num = <<c, k>>
  PROVE  Deep(Append(num, 1), c, k)
<1> DEFINE t == <<c, k, 1>>
           u == Append(num, 1)
<1>0. num \in Seq(Nat) /\ Len(num) = 2 /\ num[1] = c /\ num[2] = k
  OBVIOUS
<1>u. /\ u \in Seq(Nat) /\ Len(u) = 3 /\ u[1] = c /\ u[2] = k /\ u[3] = 1
  BY <1>0, AppendProperties
<1>2. t \in Seq(Nat) /\ Len(t) = 3 /\ t[1] = c /\ t[2] = k /\ t[3] = 1 /\ t # <<>>
  OBVIOUS
<1>3. Plain(t)
  <2>1. 1 \in 1..90
    OBVIOUS
  <2> QED
    BY <2>1 DEF Plain
<1> HIDE DEF t, u
<1>1. u = t
  <2>1. \A i \in 1..3 : u[i] = t[i]
    BY <1>2, <1>u
  <2> QED
    BY <1>2, <1>u, <2>1, SeqEqual
<1>4. Height(t) = 10000 * (c + 1) + 100 * k + 1
  BY <1>2 DEF Height, Second, Third
<1>5. t \in Seq(Nat) /\ Len(t) = 3 /\ t[1] = c /\ t # <<>> /\ Plain(t)
  BY <1>2, <1>3
<1> QED
  <2>1. Deep(t, c, k)
    BY <1>4, <1>5 DEF Deep
  <2> QED
    BY <1>1, <2>1 DEF u

(* Its key tells a heading's number.                                       *)
Keyed(o, c, k, l) ==
  c \in 0..20 /\ k \in 0..90 /\ l \in 0..90 /\ Key(o) = 10000 * (c + 1) + 100 * k + l

(* In an edition, the key of a numbered heading tells its number.          *)
LEMMA NumOfKey ==
  ASSUME NEW top, NEW D, NEW f, NEW o \in HeadsOf(top, D, f), NEW c, NEW k, NEW l, Keyed(o, c, k, l)
  PROVE  /\ Parts(o.num, c, k, l) /\ o.num # <<>> /\ Plain(o.num) /\ o.level = Len(o.num)
         /\ c <= top /\ (l > 0 => Key(o) \in D)
<1>a. c \in 0..20 /\ k \in 0..90 /\ l \in 0..90 /\ Key(o) = 10000 * (c + 1) + 100 * k + l
  BY DEF Keyed
<1>1. o \in SketchType
  BY DEF HeadsOf
<1>2. o.num # <<>>
  <2>1. Place(o.topic) < 8 \/ Place(o.topic) = 300000
    BY DEF Place
  <2>2. Key(o) >= 10000 /\ Key(o) < 300000
    BY <1>a
  <2>3. o.num = <<>> => Key(o) = Place(o.topic)
    BY DEF Key
  <2> DEFINE p == Place(o.topic)
             q == Key(o)
  <2>4. p < 8 \/ p = 300000
    BY <2>1
  <2>5. q >= 10000 /\ q < 300000
    BY <2>2
  <2>6. p \in Int
    BY DEF Place
  <2> HIDE DEF p, q
  <2>7. p # q
    BY <2>4, <2>5, <2>6
  <2> QED
    BY <2>3, <2>7 DEF p, q
<1>3. /\ Plain(o.num) /\ o.level = Len(o.num) /\ o.num[1] <= top
         /\ (Len(o.num) <= 2 \/ Key(o) \in D)
      /\ Key(o) = Height(o.num)
  BY <1>2 DEF HeadsOf, Key
<1>4. PICK x \in 0..20, y \in 0..90, z \in 0..90 : Parts(o.num, x, y, z)
  <2> DEFINE num == o.num
  <2>1. Plain(num)
    BY <1>3
  <2> HIDE DEF num
  <2>2. \E x \in 0..20, y, z \in 0..90 : Parts(num, x, y, z)
    BY ONLY <2>1, PlainParts, Zenon
  <2> QED
    BY <2>2, Zenon DEF num
<1>5. 10000 * (x + 1) + 100 * y + z = 10000 * (c + 1) + 100 * k + l
  BY <1>a, <1>3, <1>4 DEF Parts
<1>6. x = c /\ y = k /\ z = l
  BY <1>a, <1>5
<1>7. Parts(o.num, c, k, l)
  BY <1>4, <1>6
<1>8. c <= top
  BY <1>3, <1>7 DEF Parts
<1>9. l > 0 => Key(o) \in D
  <2> DEFINE m == Len(o.num)
             q == Key(o)
  <2>1. l > 0 => m = 3
    BY <1>a, <1>7 DEF Parts
  <2>2. m <= 2 \/ q \in D
    BY <1>3
  <2> HIDE DEF m, q
  <2>3. l > 0 => q \in D
    BY <2>1, <2>2
  <2> QED
    BY <2>3 DEF q
<1> QED
  BY <1>2, <1>3, <1>7, <1>8, <1>9

NumberAt(body, num) == SelectInSeq(body, LAMBDA s : s.num = num)

(* numberAt: where a number stands, that place is found.                   *)
LEMMA NumberIs ==
  ASSUME NEW S, NEW body \in Seq(S), NEW num, NEW j \in 1..Len(body), body[j].num = num
  PROVE  NumberAt(body, num) \in 1..Len(body) /\ body[NumberAt(body, num)].num = num
<1> DEFINE I == {i \in 1..Len(body) : body[i].num = num}
           h == NumberAt(body, num)
<1>1. h = IF I # {} THEN Min(I) ELSE 0
  BY DEF NumberAt, SelectInSeq
<1>2. Len(body) \in Nat /\ j \in I
  BY LenProperties
<1>3. Min(I) \in I
  <2>1. I \in SUBSET Nat /\ I # {}
    BY <1>2
  <2> HIDE DEF I
  <2> QED
    BY <2>1, LeastChosen
<1> QED
  BY <1>1, <1>2, <1>3

(* A stretch of a first edition with one heading more.                     *)
Room3(top, D, f, topic, c, k, key, lo, hi, A) ==
  /\ c \in 0..20 /\ k \in 1..90 /\ c <= top /\ topic \in Topic
     /\ key = 10000 * (c + 1) + 100 * k + 1
  /\ key \notin D /\ f[topic] = key /\ lo \in Int /\ hi \in Int /\ lo <= key /\ key < hi
  /\ key - 1 \in A

(* A third-level heading put behind its section makes one piece with one   *)
(* more key.                                                               *)
LEMMA UnderIs ==
  ASSUME NEW top, NEW D, NEW f, NEW body, NEW lo, NEW hi, NEW A, NEW topic, NEW c, NEW k, NEW key,
         Piece(HeadsOf(top, D, f), body, lo, hi, A), Room3(top, D, f, topic, c, k, key, lo, hi, A),
         NEW num, num = <<c, k>>
  PROVE  Piece(HeadsOf(top, D \cup {key}, f), Under(body, num, topic), lo, hi, A \cup {key})
<1> DEFINE E == D \cup {key}
           t == Append(num, 1)
           x == Section(3, t, topic)
           new == <<x>>
           o == [level |-> 3, num |-> t, topic |-> topic, marks |-> {}]
           i == NumberAt(body, num)
<1>a. c \in 0..20 /\ k \in 1..90 /\ c <= top /\ topic \in Topic
         /\ key = 10000 * (c + 1) + 100 * k + 1
  BY DEF Room3
<1>b. key \notin D /\ f[topic] = key /\ lo \in Int /\ hi \in Int /\ lo <= key /\ key < hi
         /\ key - 1 \in A
  BY DEF Room3
<1>c. key \in Int /\ k \in 0..90 /\ key - 1 = 10000 * (c + 1) + 100 * k + 0
  BY <1>a
<1>d. /\ body \in Seq(Sec) /\ Rising(body) /\ Outline(body) \subseteq HeadsOf(top, D, f)
      /\ (\A y \in ToSet(body) : lo <= Key(y) /\ Key(y) < hi)
      /\ (\A q \in A : \E p \in Outline(body) : Key(p) = q)
  BY DEF Piece, Between
<1>e. DOMAIN body = 1..Len(body) /\ Len(body) \in Nat
  BY <1>d, LenProperties, SMTT(20)
<1>1. Deep(t, c, k)
  BY <1>a, ThirdIs
<1>2. t \in Seq(Nat) /\ Len(t) = 3 /\ t[1] = c /\ t # <<>> /\ Plain(t) /\ Height(t) = key
  BY <1>1, <1>a DEF Deep
<1>3. Under(body, num, topic) = Before(body, i + 1, new)
  BY DEF Under, NumberAt
<1> HIDE DEF t
<1>4. x \in Sec /\ Sketch(x) = o
  BY <1>2, <1>a, SectionIs
<1>5. o \in SketchType /\ o.num = t /\ o.level = 3 /\ o.topic = topic
  BY <1>2, <1>a DEF SketchType
<1>6. Key(o) = key
  BY <1>2, <1>5 DEF Key
<1>7. o \in HeadsOf(top, E, f)
  <2>1. Key(o) = f[o.topic] /\ Plain(o.num) /\ o.level = Len(o.num)
    BY <1>2, <1>b, <1>5, <1>6
  <2>2. o.num[1] <= top /\ Key(o) \in E
    BY <1>2, <1>a, <1>5, <1>6
  <2> HIDE DEF o, E
  <2> QED
    BY <1>5, <2>1, <2>2 DEF HeadsOf
<1>8. Key(x) = key
  BY <1>4, <1>6, SketchIs
<1> HIDE DEF o, x
<1>9. new \in Seq(Sec) /\ Len(new) = 1 /\ DOMAIN new = 1..1 /\ new[1] = x
  BY <1>4
<1> HIDE DEF new
<1>10. Rising(new)
  BY <1>9 DEF Rising
<1>11. Outline(new) = {o}
  BY <1>4, <1>9 DEF Outline
<1>12. \A y \in ToSet(new) : Key(y) = key
  BY <1>8, <1>9, Members
<1>13. \E j \in 1..Len(body) : body[j].num = num
  <2>1. PICK p \in Outline(body) : Key(p) = key - 1
    BY <1>b, <1>d
  <2>2. p \in HeadsOf(top, D, f)
    BY <1>d
  <2>a. Keyed(p, c, k, 0)
    BY <1>a, <1>c, <2>1 DEF Keyed
  <2>3. Parts(p.num, c, k, 0)
    BY <2>a, <2>2, NumOfKey
  <2>4. p.num \in Seq(Nat) /\ Len(p.num) = 2 /\ p.num[1] = c /\ p.num[2] = k
    BY <1>a, <2>3 DEF Parts
  <2>5. p.num = num
    BY <2>4, Tuples
  <2>6. PICK j \in 1..Len(body) : p = Sketch(body[j])
    BY <1>e DEF Outline
  <2>7. body[j] \in Sec
    BY <1>d, <1>e, OutlineIs
  <2> QED
    BY <2>5, <2>6, <2>7, SketchIs
<1>14. i \in 1..Len(body) /\ body[i].num = num
  <2>1. PICK j \in 1..Len(body) : body[j].num = num
    BY <1>13
  <2> QED
    BY <1>d, <2>1, NumberIs
<1> HIDE DEF i
<1>15. Key(body[i]) = key - 1
  <2>1. num = <<c, k>> /\ num[1] = c /\ num[2] = k /\ Len(num) = 2 /\ num # <<>>
    OBVIOUS
  <2>2. Height(num) = 10000 * (c + 1) + 100 * k + 0
    BY <1>a, <2>1 DEF Height, Second, Third
  <2> QED
    BY <1>14, <1>c, <2>1, <2>2 DEF Key
<1>16. ASSUME NEW j \in 1..Len(body) PROVE Key(body[j]) \in Int /\ Key(body[j]) # key
  <2>1. body[j] \in Sec /\ Sketch(body[j]) \in Outline(body)
    BY <1>d, <1>e, OutlineIs
  <2> DEFINE p == Sketch(body[j])
  <2>2. Key(p) = Key(body[j]) /\ p \in HeadsOf(top, D, f)
    BY <1>d, <2>1, SketchIs
  <2> HIDE DEF p
  <2>3. Key(p) = key => Key(p) \in D
    <3>1. ASSUME Key(p) = key PROVE Keyed(p, c, k, 1)
      BY <1>a, <3>1 DEF Keyed
    <3> QED
      BY <2>2, <3>1, NumOfKey
  <2> QED
    BY <1>b, <2>1, <2>2, <2>3, KeyIsInt
<1>17. \A j \in 1..((i + 1) - 1) : \A y \in ToSet(new) : Key(body[j]) < Key(y)
  <2> SUFFICES ASSUME NEW j \in 1..((i + 1) - 1) PROVE Key(body[j]) < key
    BY <1>12
  <2>1. j \in 1..Len(body) /\ j <= i
    BY <1>e, <1>14
  <2>2. Key(body[j]) <= Key(body[i])
    BY <1>14, <1>d, <2>1, RisingOrder
  <2> QED
    BY <1>15, <1>16, <1>c, <2>1, <2>2
<1>18. \A j \in (i + 1)..Len(body) : \A y \in ToSet(new) : Key(y) < Key(body[j])
  <2> SUFFICES ASSUME NEW j \in (i + 1)..Len(body) PROVE key < Key(body[j])
    BY <1>12
  <2>1. j \in 1..Len(body) /\ i < j
    BY <1>e, <1>14
  <2>2. Key(body[i]) < Key(body[j])
    BY <1>14, <1>d, <2>1, RisingOrder
  <2> QED
    BY <1>15, <1>16, <1>c, <2>1, <2>2
<1>19. i + 1 \in 1..(Len(body) + 1)
  BY <1>14, <1>e
<1> DEFINE all == Before(body, i + 1, new)
<1>20. all \in Seq(Sec) /\ Rising(all) /\ Outline(all) = Outline(body) \cup Outline(new)
  BY <1>d, <1>9, <1>10, <1>17, <1>18, <1>19, InsertedIs
<1>21. ToSet(all) = ToSet(body) \cup ToSet(new)
  BY <1>d, <1>9, <1>19, BeforeIs
<1> HIDE DEF all
<1>22. Between(all, lo, hi)
  BY <1>b, <1>d, <1>12, <1>20, <1>21 DEF Between
<1>23. HeadsOf(top, D, f) \subseteq HeadsOf(top, E, f)
  BY DEF HeadsOf
<1> HIDE DEF E, HeadsOf
<1>24. Outline(all) \subseteq HeadsOf(top, E, f)
  BY <1>d, <1>7, <1>11, <1>20, <1>23
<1>25. \A q \in A \cup {key} : \E p \in Outline(all) : Key(p) = q
  BY <1>d, <1>6, <1>11, <1>20
<1>26. Piece(HeadsOf(top, E, f), all, lo, hi, A \cup {key})
  BY <1>20, <1>22, <1>24, <1>25 DEF Piece
<1> QED
  BY <1>3, <1>26 DEF all, E

-----------------------------------------------------------------------------
(* Numbers in their order *)

(* A rising body in which every number has the number above it has its     *)
(* chapters in order.                                                      *)
LEMMA InOrderIs ==
  ASSUME NEW body \in Seq(Sec), Rising(body),
         \A i \in Numbered(body) : Plain(body[i].num) /\ body[i].level = Len(body[i].num),
         \A i \in Numbered(body) :
           body[i].num = << 0 >> \/ \E j \in Numbered(body) : body[j].num = Above(body[i].num)
  PROVE  InOrder(body)
<1>1. DOMAIN body = 1..Len(body) /\ \A i \in Numbered(body) : i \in 1..Len(body)
         /\ body[i].num # <<>>
  BY LenProperties DEF Numbered
<1>2. ASSUME NEW i \in Numbered(body), NEW j \in Numbered(body), i < j
      PROVE  Lower(body[i].num, body[j].num)
  <2>1. Key(body[i]) < Key(body[j])
    BY <1>1, <1>2 DEF Rising
  <2>2. Height(body[i].num) < Height(body[j].num)
    BY <1>1, <2>1 DEF Key
  <2>3. Plain(body[i].num) /\ Plain(body[j].num)
    OBVIOUS
  <2> DEFINE a == body[i].num
             b == body[j].num
  <2>4. Plain(a) /\ Plain(b) /\ Height(a) < Height(b)
    BY <2>2, <2>3
  <2> HIDE DEF a, b
  <2>5. Lower(a, b)
    BY ONLY <2>4, HeightIsOrder
  <2> QED
    BY <2>5 DEF a, b
<1> QED
  BY <1>2 DEF InOrder

(* Front drops the last part of a number.                                  *)
LEMMA FrontIs ==
  ASSUME NEW num \in Seq(Nat), NEW m \in Nat, Len(num) = m + 1
  PROVE  /\ Front(num) \in Seq(Nat) /\ Len(Front(num)) = m
         /\ \A i \in 1..m : Front(num)[i] = num[i]
<1> DEFINE s == SubSeq(num, 1, m)
<1>1. \A i \in 1..m : num[i] \in Nat
  BY ElementOfSeq
<1>2. s \in Seq(Nat) /\ Len(s) = m /\ \A i \in 1..m : s[i] = num[i]
  BY <1>1, SubSeqProperties
<1>3. Front(num) = s
  BY DEF Front
<1> QED
  BY <1>2, <1>3

(* The number above: of a chapter the chapter before, of a section its     *)
(* chapter, of a paragraph its section.                                    *)
LEMMA AboveIs ==
  ASSUME NEW num \in Seq(Nat)
  PROVE  /\ Len(num) = 1 => Above(num) = <<num[1] - 1>>
         /\ Len(num) = 2 => Above(num) = <<num[1]>>
         /\ Len(num) = 3 => Above(num) = <<num[1], num[2]>>
<1>1. ASSUME Len(num) = 2 PROVE Above(num) = <<num[1]>>
  <2> DEFINE s == Front(num)
  <2>1. 1 \in Nat /\ Len(num) = 1 + 1
    BY <1>1
  <2>2. s \in Seq(Nat) /\ Len(s) = 1 /\ \A i \in 1..1 : s[i] = num[i]
    BY <2>1, FrontIs
  <2>3. Above(num) = s
    BY <1>1 DEF Above
  <2> HIDE DEF s
  <2>4. s[1] = num[1]
    BY <2>2
  <2> QED
    BY <2>2, <2>3, <2>4, Tuples
<1>2. ASSUME Len(num) = 3 PROVE Above(num) = <<num[1], num[2]>>
  <2> DEFINE s == Front(num)
  <2>1. 2 \in Nat /\ Len(num) = 2 + 1
    BY <1>2
  <2>2. s \in Seq(Nat) /\ Len(s) = 2 /\ \A i \in 1..2 : s[i] = num[i]
    BY <2>1, FrontIs
  <2>3. Above(num) = s
    BY <1>2 DEF Above
  <2> HIDE DEF s
  <2>4. s[1] = num[1] /\ s[2] = num[2]
    BY <2>2
  <2> QED
    BY <2>2, <2>3, <2>4, Tuples
<1>3. ASSUME Len(num) = 1 PROVE Above(num) = <<num[1] - 1>>
  BY <1>3 DEF Above
<1> QED
  BY <1>1, <1>2, <1>3

(* Where a heading stands in a body.                                       *)
LEMMA Stands ==
  ASSUME NEW body \in Seq(Sec), NEW o \in Outline(body), o.num # <<>>
  PROVE  \E j \in Numbered(body) : body[j].num = o.num
<1>1. PICK j \in DOMAIN body : o = Sketch(body[j])
  BY DEF Outline
<1>2. body[j] \in Sec
  BY OutlineIs
<1>3. body[j].num = o.num
  BY <1>1, <1>2, SketchIs
<1> QED
  BY <1>1, <1>3 DEF Numbered

-----------------------------------------------------------------------------
(* What a layout promises a reader *)

(* A body of a layout has the heading of every chapter.                    *)
LEMMA ChapterStands ==
  ASSUME NEW n \in 3..12, NEW body, Layout(n, body), NEW c \in Nat, c < Len(ChapterTopics(n))
  PROVE  \E j \in Numbered(body) : body[j].num = <<c>> /\ ChapterOf(n, body[j])
<1> DEFINE top == Len(ChapterTopics(n))
<1>1. top \in 12..14 /\ c < top
  BY Tops
<1> HIDE DEF top
<1>2. c \in 0..(top - 1)
  BY <1>1
<1>3. PICK o \in Outline(body) : Len(o.num) = 1 /\ o.num[1] = c
  BY <1>2 DEF Layout, Drawn, Complete, top
<1>4. body \in Seq(Sec) /\ DOMAIN body = 1..Len(body)
  BY LenProperties DEF Layout
<1>5. PICK j \in 1..Len(body) : o = Sketch(body[j])
  BY <1>4 DEF Outline
<1>6. Shape(n, body[j]) /\ body[j] \in Sec
  BY LayoutAt
<1>7. body[j].num \in Seq(Nat) /\ Len(body[j].num) = 1 /\ body[j].num[1] = c
  BY <1>3, <1>5, <1>6, SketchIs DEF Shape
<1>8. body[j].num = <<c>> /\ body[j].num # <<>>
  BY <1>7, Tuples
<1>9. ChapterOf(n, body[j])
  BY <1>6, <1>7 DEF Shape, LooseAt, SubOf
<1> QED
  BY <1>4, <1>8, <1>9 DEF Numbered

(* In a body of a layout, every chapter, section and paragraph comes after *)
(* the one above it and the numbers leave no chapter out.                  *)
LEMMA LayoutInOrder ==
  ASSUME NEW n \in 3..12, NEW body, Layout(n, body)
  PROVE  InOrder(body)
<1>1. body \in Seq(Sec) /\ Rising(body) /\ DOMAIN body = 1..Len(body)
  BY LenProperties DEF Layout
<1> DEFINE top == Len(ChapterTopics(n))
<1>00. top \in 12..14
  BY Tops
<1> HIDE DEF top
<1>0. top \in 12..14 /\ 0 < top
  BY <1>00
<1>2. ASSUME NEW i \in Numbered(body)
      PROVE  /\ Plain(body[i].num) /\ body[i].level = Len(body[i].num)
             /\ body[i].num = <<0>> \/ \E j \in Numbered(body) : body[j].num = Above(body[i].num)
  <2> DEFINE x == body[i]
             num == x.num
             c == num[1]
             k == num[2]
  <2>1. i \in 1..Len(body) /\ num # <<>>
    BY <1>1 DEF Numbered
  <2>2. Shape(n, x)
    BY <2>1, LayoutAt
  <2>3. num \in Seq(Nat) /\ Len(num) # 0
    BY <2>1, <2>2, Tuples DEF Shape
  <2> HIDE DEF x
  <2>4. CASE ChapterOf(n, x)
    <3>1. Len(num) = 1 /\ x.level = 1 /\ c \in Nat /\ c < top
      BY <2>4 DEF ChapterOf, top
    <3>2. c \in 0..13 /\ num = <<c>>
      BY <2>2, <2>3, <2>4, <3>1, KeyOf, Tuples, SMTT(20)
    <3> HIDE DEF num
    <3>3. Above(num) = <<c - 1>>
      BY <2>3, <3>1, AboveIs
    <3> HIDE DEF c
    <3>4. c \in 0..20
      BY <3>2
    <3>5. Plain(num)
      BY <3>2, <3>4 DEF Plain
    <3>6. c = 0 \/ \E j \in Numbered(body) : body[j].num = Above(num)
      <4>1. CASE c > 0
        <5> DEFINE b == c - 1
        <5>1. b \in Nat /\ b < top
          BY <1>0, <3>1, <4>1
        <5> HIDE DEF b
        <5>2. \E j \in Numbered(body) : body[j].num = <<b>>
          BY <5>1, ChapterStands DEF top
        <5> QED
          BY <3>3, <5>2 DEF b
      <4> QED
        BY <3>4, <4>1
    <3> QED
      BY <3>1, <3>2, <3>5, <3>6 DEF num, x
  <2>5. CASE SubOf(n, x)
    <3>1. Len(num) = 2 /\ x.level = 2 /\ c \in Nat /\ c < top
      BY <2>5 DEF SubOf, top
    <3>2. c \in 0..13 /\ k \in 1..9 /\ num = <<c, k>>
      <4>1. c \in 0..13 /\ k \in 1..9
        BY <2>2, <2>5, <3>1, KeyOf
      <4>2. num = <<c, k>>
        BY <2>3, <3>1, Tuples
      <4> QED
        BY <4>1, <4>2
    <3> HIDE DEF num
    <3>3. Above(num) = <<c>>
      BY <2>3, <3>1, AboveIs
    <3> HIDE DEF c, k
    <3>4. c \in 0..20 /\ k \in 1..90
      BY <3>2
    <3>5. Plain(num)
      BY <3>2, <3>4 DEF Plain
    <3>6. \E j \in Numbered(body) : body[j].num = Above(num)
      BY <3>1, <3>3, ChapterStands DEF top
    <3> QED
      BY <3>1, <3>2, <3>5, <3>6 DEF num, x
  <2>6. ~LooseAt(n, x)
    BY <2>3 DEF LooseAt
  <2> QED
    BY <2>2, <2>4, <2>5, <2>6 DEF Shape
<1>3. /\ \A i \in Numbered(body) : Plain(body[i].num) /\ body[i].level = Len(body[i].num)
      /\ \A i \in Numbered(body) :
           body[i].num = << 0 >> \/ \E j \in Numbered(body) : body[j].num = Above(body[i].num)
  BY <1>2
<1> QED
  BY <1>1, <1>3, InOrderIs

-----------------------------------------------------------------------------
(* The contents page *)

(* The list of contents a document of that age calls for.                  *)
TocOf(n) ==
  IF n <= 4 THEN Contents(ChapterTopics(n)) ELSE WithAppendix(Contents(ChapterTopics(n)))

(* The contents page of a layout: one line a chapter and, from v1.5 on,    *)
(* one for the appendix.                                                   *)
LEMMA TocOfIs ==
  ASSUME NEW n \in 3..12
  PROVE  LET top == Len(ChapterTopics(n))
         IN  /\ TocOf(n) \in Seq(EntryType) /\ Len(TocOf(n)) = IF n <= 4 THEN top ELSE top + 1
             /\ \A k \in 1..top : TocOf(n)[k] = [num |-> <<k - 1>>, topic |-> ChapterTopics(n)[k]]
             /\ n > 4 => TocOf(n)[top + 1] = [num |-> <<>>, topic |-> "appendix"]
<1> DEFINE list == ChapterTopics(n)
           toc == Contents(list)
           top == Len(list)
<1>1. list \in Seq(Topic) /\ top \in Nat
  <2>1. list \in Seq(Topic)
    BY ChapterLists DEF ChapterTopics
  <2> HIDE DEF list
  <2> QED
    BY <2>1, LenProperties
<1> HIDE DEF list
<1>2. /\ toc \in Seq(EntryType) /\ Len(toc) = top
      /\ \A k \in 1..top : toc[k] = [num |-> <<k - 1>>, topic |-> list[k]]
  BY <1>1, ContentsIs
<1> HIDE DEF toc, top
<1>3. CASE n <= 4
  <2>1. TocOf(n) = toc
    BY <1>3 DEF TocOf, toc, list
  <2> QED
    BY <1>2, <1>3, <2>1 DEF top, list
<1>4. CASE ~(n <= 4)
  <2>1. TocOf(n) = WithAppendix(toc)
    BY <1>4 DEF TocOf, toc, list
  <2>2. /\ WithAppendix(toc) \in Seq(EntryType) /\ Len(WithAppendix(toc)) = top + 1
        /\ \A k \in 1..top : WithAppendix(toc)[k] = toc[k]
        /\ WithAppendix(toc)[top + 1] = [num |-> <<>>, topic |-> "appendix"]
    BY <1>2, WithAppendixIs
  <2> QED
    BY <1>2, <1>4, <2>1, <2>2 DEF top, list
<1> QED
  BY <1>3, <1>4

(* Its place in the list of contents.                                      *)
Line(n, x) == IF x.num = <<>> THEN Len(ChapterTopics(n)) + 1 ELSE x.num[1] + 1

(* What a line of it says.                                                 *)
Told(n, x) ==
  /\ Line(n, x) \in 1..(IF n <= 4 THEN Len(ChapterTopics(n)) ELSE Len(ChapterTopics(n)) + 1)
  /\ Line(n, x) <= Len(ChapterTopics(n)) =>
       x.num = <<Line(n, x) - 1>> /\ x.topic = ChapterTopics(n)[Line(n, x)]
          /\ Key(x) = 10000 * Line(n, x)
  /\ Line(n, x) > Len(ChapterTopics(n)) => x.num = <<>> /\ x.topic = "appendix" /\ Key(x) = 300000

(* A heading the contents page lists is a chapter or the appendix.         *)
LEMMA ListedIs ==
  ASSUME NEW n \in 3..12, NEW x, Shape(n, x), Listed(x)
  PROVE  Told(n, x)
<1> DEFINE top == Len(ChapterTopics(n))
           c == x.num[1]
           num == x.num
<1>1. top \in 12..14
  BY Tops
<1>2. num \in Seq(Nat) /\ x.level = 1
  BY DEF Shape, Listed
<1>3. CASE ChapterOf(n, x)
  <2>1. Len(num) = 1 /\ c \in Nat /\ c < top /\ x.topic = ChapterTopics(n)[c + 1]
    BY <1>3 DEF ChapterOf
  <2>2. num = <<c>> /\ num # <<>>
    BY <1>2, <2>1, Tuples
  <2>3. Key(x) = 10000 * (c + 1)
    BY <1>3, KeyOf
  <2>4. Line(n, x) = c + 1
    BY <2>2 DEF Line
  <2> DEFINE line == Line(n, x)
  <2> HIDE DEF top, c, num
  <2>5. line \in 1..top /\ line <= top /\ line - 1 = c
    BY <1>1, <2>1, <2>4
  <2>6. line \in 1..(IF n <= 4 THEN top ELSE top + 1)
    BY <1>1, <2>5
  <2>7. num = <<line - 1>> /\ x.topic = ChapterTopics(n)[line] /\ Key(x) = 10000 * line
    BY <2>1, <2>2, <2>3, <2>4, <2>5
  <2>8. ~(line > top)
    BY <1>1, <2>5
  <2> QED
    BY <2>6, <2>7, <2>8 DEF Told, top, num
<1>4. CASE LooseAt(n, x)
  <2>1. Len(num) = 0 /\ x.topic \in LooseTopics(n)
    BY <1>4 DEF LooseAt
  <2>2. num = <<>>
    BY <1>2, <2>1, Tuples
  <2>3. x.topic = "appendix"
    BY <2>2 DEF Listed
  <2>4. n > 4
    BY <2>1, <2>3 DEF LooseTopics
  <2>5. Key(x) = 300000
    BY <2>3, KeyOfAppendix
  <2>6. Line(n, x) = top + 1
    BY <2>2 DEF Line
  <2> HIDE DEF top
  <2>7. Line(n, x) \in 1..(IF n <= 4 THEN top ELSE top + 1)
    BY <1>1, <2>4, <2>6
  <2>8. ~(Line(n, x) <= top)
    BY <1>1, <2>6
  <2> QED
    BY <2>2, <2>3, <2>5, <2>7, <2>8 DEF Told, top
<1>5. ~SubOf(n, x)
  BY <1>2 DEF SubOf
<1> QED
  BY <1>3, <1>4, <1>5 DEF Shape

(* The lines of the contents page come in the order of the headings they   *)
(* stand for.                                                              *)
LEMMA LinesRise ==
  ASSUME NEW n \in 3..12, NEW x, NEW y, Told(n, x), Told(n, y), Key(x) < Key(y)
  PROVE  Line(n, x) < Line(n, y)
<1> DEFINE top == Len(ChapterTopics(n))
           a == Line(n, x)
           b == Line(n, y)
           p == Key(x)
           q == Key(y)
<1>1. top \in 12..14
  BY Tops
<1>2. /\ a \in 1..(IF n <= 4 THEN top ELSE top + 1) /\ (a <= top => p = 10000 * a)
         /\ (a > top => p = 300000)
      /\ b \in 1..(IF n <= 4 THEN top ELSE top + 1) /\ (b <= top => q = 10000 * b)
         /\ (b > top => q = 300000)
  BY DEF Told
<1>3. p < q
  OBVIOUS
<1> HIDE DEF top, a, b, p, q
<1>4. a < b
  BY <1>1, <1>2, <1>3
<1> QED
  BY <1>4 DEF a, b

(* Each line has its heading.                                              *)
LEMMA LineStands ==
  ASSUME NEW n \in 3..12, NEW body, Layout(n, body),
         NEW k \in 1..(IF n <= 4 THEN Len(ChapterTopics(n)) ELSE Len(ChapterTopics(n)) + 1)
  PROVE  \E i \in DOMAIN body : Listed(body[i]) /\ Line(n, body[i]) = k
<1> DEFINE top == Len(ChapterTopics(n))
<1>1. top \in 12..14
  BY Tops
<1>0. body \in Seq(Sec) /\ DOMAIN body = 1..Len(body)
  BY LenProperties DEF Layout
<1>2. CASE k <= top
  <2> DEFINE c == k - 1
  <2>a. k \in 1..(IF n <= 4 THEN top ELSE top + 1)
    OBVIOUS
  <2> HIDE DEF top
  <2>1. c \in Nat /\ c < top /\ c + 1 = k
    BY <1>1, <1>2, <2>a
  <2> HIDE DEF c
  <2>2. PICK j \in Numbered(body) : body[j].num = <<c>> /\ ChapterOf(n, body[j])
    BY <2>1, ChapterStands DEF top
  <2> DEFINE num == <<c>>
  <2>3. body[j].num = num /\ num[1] = c /\ num # <<>>
    BY <2>2
  <2> HIDE DEF num
  <2>4. Listed(body[j])
    BY <2>2, <2>3 DEF Listed, ChapterOf
  <2>5. Line(n, body[j]) = k
    BY <2>1, <2>3 DEF Line
  <2>6. j \in DOMAIN body
    BY DEF Numbered
  <2> QED
    BY <2>4, <2>5, <2>6
<1>3. CASE ~(k <= top)
  <2>a. k \in 1..(IF n <= 4 THEN top ELSE top + 1)
    OBVIOUS
  <2> HIDE DEF top
  <2>1. k = top + 1 /\ n > 4
    BY <1>1, <1>3, <2>a
  <2>2. "appendix" \in LooseTopics(n)
    BY <2>1 DEF LooseTopics
  <2>3. PICK o \in Outline(body) : Len(o.num) = 0 /\ o.topic = "appendix"
    BY <2>2 DEF Layout, Drawn, Complete
  <2>4. PICK i \in 1..Len(body) : o = Sketch(body[i])
    BY <1>0 DEF Outline
  <2>5. body[i] \in Sec /\ Shape(n, body[i])
    BY LayoutAt
  <2>6. body[i].topic = "appendix" /\ Len(body[i].num) = 0
    BY <2>3, <2>4, <2>5, SketchIs
  <2>7. LooseAt(n, body[i]) /\ body[i].num = <<>>
    BY <2>5, <2>6, KeyOfAppendix, Tuples DEF Shape
  <2>8. body[i].level = 1
    BY <2>6, <2>7 DEF LooseAt, LooseLevel
  <2>9. Listed(body[i])
    BY <2>6, <2>8 DEF Listed
  <2>10. Line(n, body[i]) = k
    BY <2>1, <2>7 DEF Line, top
  <2> QED
    BY <1>0, <2>9, <2>10
<1> QED
  BY <1>2, <1>3

(* The contents page of a layout lists exactly the first-level headings of *)
(* its bodies, in their order.                                             *)
LEMMA ContentsOfLayout ==
  ASSUME NEW n \in 3..12, NEW body, Layout(n, body)
  PROVE  ContentsOf(body) = TocOf(n)
<1> DEFINE I == {i \in DOMAIN body : Listed(body[i])}
           listed == Pick(body, I)
           m == Len(listed)
           top == Len(ChapterTopics(n))
           lines == IF n <= 4 THEN top ELSE top + 1
           g == [k \in 1..m |-> Line(n, listed[k])]
<1>1. body \in Seq(Sec) /\ Rising(body) /\ DOMAIN body = 1..Len(body)
  BY LenProperties DEF Layout
<1>2. listed \in Seq(Sec) /\ m \in Nat /\ DOMAIN listed = 1..m
  <2>1. listed \in Seq(Sec)
    BY <1>1, PickIs
  <2> HIDE DEF listed
  <2> QED
    BY <2>1, LenProperties
<1>3. PICK f : Passes(f, m, body, I) /\ \A k \in 1..m : listed[k] = body[f[k]]
  <2> HIDE DEF I
  <2> QED
    BY <1>1, PickIs
<1>4. ContentsOf(body) = [k \in 1..m |-> Entry(listed[k])]
  BY <1>2 DEF ContentsOf
<1>5. \A i \in I : i \in 1..Len(body) /\ Listed(body[i])
  BY <1>1
<1>6. ASSUME NEW i \in 1..Len(body), Listed(body[i]) PROVE i \in I /\ Told(n, body[i])
  BY <1>1, <1>6, LayoutAt, ListedIs
<1>7. \A k \in 1..lines : \E i \in I : Line(n, body[i]) = k
  BY LineStands
<1>8. top \in 12..14
  BY Tops
<1>9. lines \in Nat
  BY <1>8
<1> HIDE DEF I, listed, m
<1>10. ASSUME NEW k \in 1..m
       PROVE  /\ f[k] \in I /\ f[k] \in 1..Len(body) /\ listed[k] = body[f[k]] /\ Told(n, listed[k])
  <2>1. f[k] \in I
    BY <1>3 DEF Passes
  <2> QED
    BY <1>3, <1>5, <1>6, <2>1
<1>11. \A k, l \in 1..m : k < l => Line(n, listed[k]) < Line(n, listed[l])
  <2> SUFFICES ASSUME NEW k \in 1..m, NEW l \in 1..m, k < l
         PROVE Line(n, listed[k]) < Line(n, listed[l])
    OBVIOUS
  <2>1. f[k] < f[l]
    BY <1>3 DEF Passes
  <2>2. Key(listed[k]) < Key(listed[l])
    BY <1>1, <1>10, <2>1 DEF Rising
  <2> QED
    BY <1>10, <2>2, LinesRise
<1>12. \A k \in 1..m : Line(n, listed[k]) \in 1..lines
  BY <1>10 DEF Told
<1>13. \A k \in 1..lines : \E j \in 1..m : Line(n, listed[j]) = k
  <2> TAKE k \in 1..lines
  <2>1. PICK i \in I : Line(n, body[i]) = k
    BY <1>7
  <2>2. i \in I \cap (1..Len(body))
    BY <1>5
  <2>3. PICK j \in 1..m : f[j] = i
    BY <1>3, <2>2 DEF Passes
  <2> QED
    BY <1>10, <2>1, <2>3
<1> HIDE DEF lines
<1>14. g \in [1..m -> 1..lines]
  BY <1>12
<1>15. \A i, j \in 1..m : i < j => g[i] < g[j]
  BY <1>11
<1>15a. \A k \in 1..lines : \E i \in 1..m : g[i] = k
  BY <1>13
<1>16. \A k \in 1..m : g[k] = Line(n, listed[k])
  OBVIOUS
<1> HIDE DEF g
<1>17. m = lines /\ \A k \in 1..lines : g[k] = k
  <2>1. m \in Nat /\ lines \in Nat
    BY <1>2, <1>9
  <2> QED
    <3>1. Walks(g, m, lines)
      BY <1>14, <1>15, <1>15a DEF Walks
    <3> QED
      BY <2>1, <3>1, Counting
<1>18. ASSUME NEW k \in 1..lines PROVE Entry(listed[k]) = TocOf(n)[k]
  <2>1. Line(n, listed[k]) = k /\ Told(n, listed[k])
    BY <1>10, <1>16, <1>17
  <2> HIDE DEF top
  <2>2. CASE k <= top
    <3>1. listed[k].num = <<k - 1>> /\ listed[k].topic = ChapterTopics(n)[k]
      BY <2>1, <2>2 DEF Told, top
    <3>2. k \in 1..top
      BY <1>8, <1>9, <2>2
    <3>3. TocOf(n)[k] = [num |-> <<k - 1>>, topic |-> ChapterTopics(n)[k]]
      BY <3>2, TocOfIs DEF top
    <3> QED
      BY <3>1, <3>3 DEF Entry
  <2>3. CASE ~(k <= top)
    <3>1. k = top + 1 /\ n > 4
      BY <1>8, <1>9, <2>3 DEF lines
    <3>2. listed[k].num = <<>> /\ listed[k].topic = "appendix"
      <4>1. k > top
        BY <1>8, <3>1
      <4> QED
        BY <2>1, <4>1 DEF Told, top
    <3>3. TocOf(n)[k] = [num |-> <<>>, topic |-> "appendix"]
      BY <3>1, TocOfIs DEF top
    <3> QED
      BY <3>2, <3>3 DEF Entry
  <2> QED
    BY <2>2, <2>3
<1>19. TocOf(n) \in Seq(EntryType) /\ Len(TocOf(n)) = lines
  BY TocOfIs DEF lines
<1>20. TocOf(n) = [k \in 1..lines |-> TocOf(n)[k]]
  BY <1>19
<1> HIDE DEF TocOf
<1>21. ContentsOf(body) = [k \in 1..lines |-> Entry(listed[k])]
  BY <1>4, <1>17
<1> QED
  BY <1>18, <1>20, <1>21

-----------------------------------------------------------------------------
(* First editions: numbers and references *)

(* A first edition as a whole: its chapters without gaps, and every        *)
(* section of the third level under one of the second.                     *)
EditionOf(top, D, f, A, body) ==
  /\ top \in 0..20 /\ Piece(HeadsOf(top, D, f), body, 0, 300000, A)
  /\ Chapterly(0, top) \subseteq A
  /\ \A d \in D : d - 1 \in A /\ \E c \in 0..20, k \in 1..90 : d = 10000 * (c + 1) + 100 * k + 1

(* A number is determined by its parts.                                    *)
LEMMA PartsAlone ==
  ASSUME NEW a, NEW b, NEW c, NEW k, NEW l, Parts(a, c, k, l), Parts(b, c, k, l)
  PROVE  a = b
<1>1. a \in Seq(Nat) /\ b \in Seq(Nat)
  BY DEF Parts
<1>2. /\ \/ Len(a) = 1 /\ k = 0
         \/ Len(a) = 2 /\ k > 0 /\ l = 0 /\ a[2] = k
         \/ Len(a) = 3 /\ k > 0 /\ l > 0 /\ a[2] = k /\ a[3] = l
      /\ \/ Len(b) = 1 /\ k = 0
         \/ Len(b) = 2 /\ k > 0 /\ l = 0 /\ b[2] = k
         \/ Len(b) = 3 /\ k > 0 /\ l > 0 /\ b[2] = k /\ b[3] = l
      /\ a[1] = c /\ b[1] = c
  BY DEF Parts
<1> DEFINE m == Len(a)
           n == Len(b)
           over == k > 0
           more == l > 0
<1>3. ~(k = 0 /\ over) /\ ~(l = 0 /\ more)
  OBVIOUS
<1> HIDE DEF m, n, over, more
<1>4. m = n /\ m \in 1..3 /\ (m >= 2 => a[2] = b[2]) /\ (m >= 3 => a[3] = b[3])
  BY <1>2, <1>3 DEF m, n, over, more
<1>5. \A i \in 1..m : a[i] = b[i]
  BY <1>2, <1>4
<1> QED
  BY <1>1, <1>4, <1>5, SeqEqual DEF m, n

(* The heading at a key that is met.                                       *)
MetAt(A, c, k, l) ==
  c \in 0..20 /\ k \in 0..90 /\ l \in 0..90 /\ 10000 * (c + 1) + 100 * k + l \in A

(* A key an edition must have is that of a heading of the edition with     *)
(* that number.                                                            *)
LEMMA Met ==
  ASSUME NEW top, NEW D, NEW f, NEW A, NEW body, EditionOf(top, D, f, A, body),
         NEW c, NEW k, NEW l, MetAt(A, c, k, l)
  PROVE  \E o \in Outline(body) : /\ o \in HeadsOf(top, D, f) /\ Parts(o.num, c, k, l)
                                     /\ o.num # <<>>
                                  /\ Key(o) = 10000 * (c + 1) + 100 * k + l
<1>1. PICK o \in Outline(body) : Key(o) = 10000 * (c + 1) + 100 * k + l
  BY DEF EditionOf, Piece, MetAt
<1>2. o \in HeadsOf(top, D, f)
  BY DEF EditionOf, Piece
<1>3. Keyed(o, c, k, l)
  BY <1>1 DEF Keyed, MetAt
<1> QED
  BY <1>1, <1>2, <1>3, NumOfKey

(* In a first edition, a heading has as many number parts as its level.    *)
LEMMA EditionRanked ==
  ASSUME NEW top, NEW D, NEW f, NEW A, NEW body, EditionOf(top, D, f, A, body)
  PROVE  Ranked(body)
<1>1. body \in Seq(Sec) /\ Rising(body) /\ Outline(body) \subseteq HeadsOf(top, D, f)
  BY DEF EditionOf, Piece, Between
<1>2. \A o, p \in Outline(body) : o.topic = p.topic => Key(o) = Key(p)
  BY <1>1 DEF HeadsOf
<1>3. Distinct(body)
  BY <1>1, <1>2, OneEachByKey, DistinctIs
<1>4. ASSUME NEW i \in DOMAIN body PROVE body[i].num = <<>> \/ Len(body[i].num) = body[i].level
  <2>1. body[i] \in Sec /\ Sketch(body[i]) \in Outline(body)
    BY <1>1, OutlineIs
  <2> DEFINE o == Sketch(body[i])
  <2>2. o \in HeadsOf(top, D, f) /\ o.num = body[i].num /\ o.level = body[i].level
    BY <1>1, <2>1, SketchIs
  <2> HIDE DEF o
  <2> QED
    BY <2>2 DEF HeadsOf
<1> QED
  BY <1>1, <1>3, <1>4 DEF Ranked

(* In a first edition, every number comes after the one above it.          *)
LEMMA EditionInOrder ==
  ASSUME NEW top, NEW D, NEW f, NEW A, NEW body, EditionOf(top, D, f, A, body)
  PROVE  InOrder(body)
<1>1. /\ body \in Seq(Sec) /\ Rising(body) /\ Outline(body) \subseteq HeadsOf(top, D, f)
      /\ top \in 0..20 /\ Chapterly(0, top) \subseteq A
      /\ \A d \in D : d - 1 \in A /\ \E c \in 0..20, k \in 1..90 : d = 10000 * (c + 1) + 100 * k + 1
  BY DEF EditionOf, Piece, Between
<1>2. ASSUME NEW c \in 0..20, NEW k \in 0..90, 10000 * (c + 1) + 100 * k \in A, NEW num,
             Parts(num, c, k, 0)
      PROVE  \E j \in Numbered(body) : body[j].num = num
  <2>1. 0 \in 0..90 /\ 10000 * (c + 1) + 100 * k + 0 \in A
    BY <1>2
  <2>a. MetAt(A, c, k, 0)
    BY <2>1 DEF MetAt
  <2>2. PICK o \in Outline(body) : Parts(o.num, c, k, 0) /\ o.num # <<>>
    BY <2>a, Met
  <2>3. o.num = num
    BY <1>2, <2>2, PartsAlone
  <2> QED
    BY <1>1, <2>2, <2>3, Stands
<1>3. ASSUME NEW c \in 0..top
      PROVE  10000 * (c + 1) + 100 * 0 \in A /\ 0 \in 0..90
  <2> DEFINE h == 10000 * (c + 1)
  <2>1. h \in A
    BY <1>1 DEF Chapterly
  <2>2. h \in Int
    BY <1>1
  <2> HIDE DEF h
  <2>3. h + 100 * 0 = h
    BY <2>2
  <2>4. h + 100 * 0 \in A
    BY <2>1, <2>3
  <2> QED
    BY <2>4 DEF h
<1>4. ASSUME NEW i \in Numbered(body)
      PROVE  /\ Plain(body[i].num) /\ body[i].level = Len(body[i].num)
             /\ body[i].num = <<0>> \/ \E j \in Numbered(body) : body[j].num = Above(body[i].num)
  <2> DEFINE o == Sketch(body[i])
             num == body[i].num
  <2>1. i \in DOMAIN body /\ num # <<>>
    BY DEF Numbered
  <2>a. body[i] \in Sec /\ o \in Outline(body)
    BY <1>1, <2>1, OutlineIs
  <2>2. o \in HeadsOf(top, D, f) /\ o.num = num /\ o.level = body[i].level
    BY <1>1, <2>a, SketchIs
  <2> HIDE DEF o
  <2>3. Plain(num) /\ body[i].level = Len(num) /\ num[1] <= top /\ (Len(num) <= 2 \/ Key(o) \in D)
        /\ Key(o) = Height(num)
    BY <2>1, <2>2 DEF HeadsOf, Key
  <2> HIDE DEF num
  <2>4. PICK c \in 0..20, k \in 0..90, l \in 0..90 : Parts(num, c, k, l)
    <3>1. Plain(num)
      BY <2>3
    <3> QED
      BY ONLY <3>1, PlainParts, Zenon
  <2>5. /\ num \in Seq(Nat) /\ num[1] = c /\ Height(num) = 10000 * (c + 1) + 100 * k + l
        /\ \/ Len(num) = 1 /\ k = 0 /\ l = 0
           \/ Len(num) = 2 /\ k > 0 /\ l = 0 /\ num[2] = k
           \/ Len(num) = 3 /\ k > 0 /\ l > 0 /\ num[2] = k /\ num[3] = l
    BY <2>4 DEF Parts
  <2>6. c \in 0..top
    BY <1>1, <2>3, <2>5
  <2>7. CASE Len(num) = 1 /\ c = 0
    <3>1. num = <<0>>
      BY <2>5, <2>7, Tuples
    <3> QED
      BY <2>3, <3>1 DEF num
  <2>8. CASE Len(num) = 1 /\ c > 0
    <3> DEFINE b == c - 1
               up == <<b>>
    <3>1. b \in 0..20 /\ b \in 0..top /\ b + 1 = c
      BY <1>1, <2>6, <2>8
    <3>2. Above(num) = up
      BY <2>5, <2>8, AboveIs
    <3> HIDE DEF b
    <3>3. up \in Seq(Nat) /\ Len(up) = 1 /\ up[1] = b
      BY <3>1
    <3> HIDE DEF up
    <3>4. Height(up) = 10000 * (b + 1) + 100 * 0 + 0
      BY <3>1, <3>3 DEF Height, Second, Third
    <3>5. Parts(up, b, 0, 0)
      BY <3>3, <3>4 DEF Parts
    <3>6. 10000 * (b + 1) + 100 * 0 \in A /\ 0 \in 0..90
      BY <1>3, <3>1, SMTT(20)
    <3>7. \E j \in Numbered(body) : body[j].num = up
      BY <1>2, <3>1, <3>5, <3>6
    <3> QED
      BY <2>3, <3>2, <3>7 DEF num
  <2>9. CASE Len(num) = 2
    <3> DEFINE up == <<c>>
    <3>1. c \in Nat
      BY <2>4
    <3>2. Above(num) = up
      BY <2>5, <2>9, AboveIs
    <3>3. up \in Seq(Nat) /\ Len(up) = 1 /\ up[1] = c
      BY <3>1
    <3> HIDE DEF up
    <3>4. Height(up) = 10000 * (c + 1) + 100 * 0 + 0
      BY <3>1, <3>3 DEF Height, Second, Third
    <3>5. Parts(up, c, 0, 0)
      BY <3>3, <3>4 DEF Parts
    <3>6. 10000 * (c + 1) + 100 * 0 \in A /\ 0 \in 0..90
      BY <1>3, <2>6, SMTT(20)
    <3>7. \E j \in Numbered(body) : body[j].num = up
      BY <1>2, <2>4, <3>5, <3>6
    <3> QED
      BY <2>3, <3>2, <3>7 DEF num
  <2>10. CASE Len(num) = 3
    <3> DEFINE up == <<c, k>>
    <3>1. c \in Nat /\ k \in Nat /\ k > 0 /\ l > 0 /\ num[2] = k
      BY <2>4, <2>5, <2>10
    <3>2. Above(num) = up
      BY <2>5, <2>10, <3>1, AboveIs
    <3>3. up \in Seq(Nat) /\ Len(up) = 2 /\ up[1] = c /\ up[2] = k
      BY <3>1
    <3> HIDE DEF up
    <3>4. Height(up) = 10000 * (c + 1) + 100 * k + 0
      BY <3>1, <3>3 DEF Height, Second, Third
    <3>5. Parts(up, c, k, 0)
      BY <3>1, <3>3, <3>4 DEF Parts
    <3> DEFINE key == Key(o)
    <3>6. key \in D /\ key = 10000 * (c + 1) + 100 * k + l
      BY <2>3, <2>5, <2>10
    <3> HIDE DEF key
    <3>7. key - 1 \in A
      BY <1>1, <3>6
    <3>8. PICK x \in 0..20, y \in 1..90 : key = 10000 * (x + 1) + 100 * y + 1
      BY <1>1, <3>6
    <3>9. l = 1
      BY SMTT(20), <2>4, <3>6, <3>8
    <3>10. 10000 * (c + 1) + 100 * k \in A
      <4> DEFINE h == 10000 * (c + 1) + 100 * k
      <4>1. h \in Int
        BY <3>1
      <4>2. key = h + l
        BY <3>6
      <4> HIDE DEF h
      <4>3. key - 1 = h
        BY <3>9, <4>1, <4>2
      <4>4. h \in A
        BY <3>7, <4>3
      <4> QED
        BY ONLY <4>4, SMTT(20) DEF h
    <3>11. \E j \in Numbered(body) : body[j].num = up
      BY <1>2, <2>4, <3>5, <3>10
    <3> QED
      BY <2>3, <3>2, <3>11 DEF num
  <2> QED
    BY <2>4, <2>5, <2>7, <2>8, <2>9, <2>10
<1>5. /\ \A i \in Numbered(body) : Plain(body[i].num) /\ body[i].level = Len(body[i].num)
      /\ \A i \in Numbered(body) :
           body[i].num = <<0>> \/ \E j \in Numbered(body) : body[j].num = Above(body[i].num)
  BY <1>4
<1> QED
  BY <1>1, <1>5, InOrderIs

(* What a stretch of a document cites at most.                             *)
Cites(s, R) == s \in Seq(Sec) /\ \A x \in ToSet(s) : x.refs \subseteq R

(* Two bodies that cite from R make a body that cites from R.              *)
LEMMA CitesConcat ==
  ASSUME NEW R, NEW s, NEW t, Cites(s, R), Cites(t, R)
  PROVE  Cites(s \o t, R)
<1>1. s \in Seq(Sec) /\ t \in Seq(Sec)
  BY DEF Cites
<1>2. s \o t \in Seq(Sec) /\ ToSet(s \o t) = ToSet(s) \cup ToSet(t)
  BY <1>1, MembersOfConcat
<1> QED
  BY <1>2 DEF Cites

(* Putting references of R into a body that cites from R makes one that    *)
(* does.                                                                   *)
LEMMA CitesCiting ==
  ASSUME NEW R, NEW s, Cites(s, R), NEW topic, NEW refs \in SUBSET Cite, refs \subseteq R
  PROVE  Cites(Citing(s, topic, refs), R)
<1> DEFINE new == Citing(s, topic, refs)
           more(x) == IF x.topic = topic THEN [x EXCEPT !.refs = @ \cup refs] ELSE x
<1>1. s \in Seq(Sec) /\ DOMAIN s = 1..Len(s)
  BY LenProperties DEF Cites
<1>2. new \in Seq(Sec)
  BY <1>1, CitingIs
<1>3. DOMAIN new = 1..Len(s) /\ \A i \in 1..Len(s) : new[i] = more(s[i])
  BY <1>1 DEF Citing
<1>4. ASSUME NEW x \in Sec, x.refs \subseteq R PROVE more(x).refs \subseteq R
  BY <1>4 DEF Sec
<1> HIDE DEF new, more
<1>5. \A y \in ToSet(new) : y.refs \subseteq R
  <2> TAKE y \in ToSet(new)
  <2>1. PICK i \in 1..Len(new) : new[i] = y
    BY <1>2, Members
  <2>2. i \in 1..Len(s)
    BY <1>2, <1>3, Members
  <2>3. s[i] \in ToSet(s) /\ s[i] \in Sec
    BY <1>1, <2>2, Members
  <2>4. s[i].refs \subseteq R
    BY <2>3 DEF Cites
  <2> QED
    BY <1>3, <1>4, <2>1, <2>2, <2>3, <2>4
<1> QED
  BY <1>2, <1>5 DEF Cites, new

(* A third-level heading put into a body brings no reference.              *)
LEMMA CitesUnder ==
  ASSUME NEW R, NEW s, Cites(s, R), NEW num, NEW c \in 0..20, NEW k \in 1..90, num = <<c, k>>,
         NEW topic \in Topic, NEW j \in 1..Len(s), s[j].num = num
  PROVE  Cites(Under(s, num, topic), R)
<1> DEFINE t == Append(num, 1)
           x == Section(3, t, topic)
           new == <<x>>
           i == NumberAt(s, num)
<1>1. Deep(t, c, k)
  BY ThirdIs
<1>2. t \in Seq(Nat)
  BY <1>1 DEF Deep
<1>3. Under(s, num, topic) = Before(s, i + 1, new)
  BY DEF Under, NumberAt
<1> HIDE DEF t
<1>4. x \in Sec /\ x.refs = {}
  BY <1>2, SectionIs
<1> HIDE DEF x
<1>5. new \in Seq(Sec) /\ Len(new) = 1 /\ new[1] = x
  BY <1>4
<1> HIDE DEF new
<1>6. \A y \in ToSet(new) : y.refs \subseteq R
  BY <1>4, <1>5, Members
<1>7. s \in Seq(Sec) /\ Len(s) \in Nat
  BY LenProperties DEF Cites
<1>8. i \in 1..Len(s)
  BY <1>7, NumberIs
<1> HIDE DEF i
<1>9. i + 1 \in 1..(Len(s) + 1)
  BY <1>7, <1>8
<1>10. Before(s, i + 1, new) \in Seq(Sec) /\ ToSet(Before(s, i + 1, new)) = ToSet(s) \cup ToSet(new)
  BY <1>5, <1>7, <1>9, BeforeIs
<1> QED
  BY <1>3, <1>6, <1>10, SMTT(20) DEF Cites

(* The section a heading is inserted under stands in its chapter.          *)
SecondLevel(A, c, k, num) ==
  c \in 0..20 /\ k \in 1..90 /\ num = <<c, k>> /\ 10000 * (c + 1) + 100 * k \in A

(* A second-level number an edition must have stands in it.                *)
LEMMA StandsAt ==
  ASSUME NEW top, NEW D, NEW f, NEW body, NEW lo, NEW hi, NEW A,
         Piece(HeadsOf(top, D, f), body, lo, hi, A), NEW c, NEW k, NEW num,
            SecondLevel(A, c, k, num)
  PROVE  \E j \in 1..Len(body) : body[j].num = num
<1>0. c \in 0..20 /\ k \in 1..90 /\ num = <<c, k>> /\ 10000 * (c + 1) + 100 * k \in A
  BY DEF SecondLevel
<1>1. /\ body \in Seq(Sec) /\ Outline(body) \subseteq HeadsOf(top, D, f)
      /\ DOMAIN body = 1..Len(body)
  BY LenProperties DEF Piece
<1>2. PICK p \in Outline(body) : Key(p) = 10000 * (c + 1) + 100 * k
  BY <1>0 DEF Piece
<1>3. Keyed(p, c, k, 0) /\ p \in HeadsOf(top, D, f)
  BY <1>0, <1>1, <1>2 DEF Keyed
<1>4. Parts(p.num, c, k, 0) /\ p.num # <<>>
  BY <1>3, NumOfKey
<1>5. p.num \in Seq(Nat) /\ Len(p.num) = 2 /\ p.num[1] = c /\ p.num[2] = k
  BY <1>0, <1>4 DEF Parts
<1>6. p.num = num
  BY <1>0, <1>5, Tuples
<1>7. PICK j \in Numbered(body) : body[j].num = p.num
  BY <1>1, <1>4, Stands
<1> QED
  BY <1>1, <1>6, <1>7 DEF Numbered

(* A new chapter has no reference.                                         *)
LEMMA CitesChapter ==
  ASSUME NEW R, NEW n \in 0..20, NEW topic \in Topic, NEW subs \in Seq(Topic), Len(subs) <= 90
  PROVE  Cites(Chapter(n, topic, subs), R)
<1>1. Laid(Chapter(n, topic, subs), n, topic, subs)
  BY ChapterIs
<1> QED
  BY <1>1 DEF Laid, Cites

(* A reference to a section that stands and carries no other name.         *)
Meant(f, A, r, c, k, l) ==
  /\ c \in 0..20 /\ k \in 0..90 /\ l \in 0..90 /\ Parts(r.num, c, k, l)
  /\ 10000 * (c + 1) + 100 * k + l \in A
  /\ \A topic \in Topic : f[topic] = 10000 * (c + 1) + 100 * k + l => topic = r.to

(* When every reference a first edition writes means a heading the edition *)
(* must have, none is broken.                                              *)
LEMMA NoneBroken ==
  ASSUME NEW top, NEW D, NEW f, NEW A, NEW body, EditionOf(top, D, f, A, body), NEW R,
         Cites(body, R), \A r \in R : \E c, k, l : Meant(f, A, r, c, k, l)
  PROVE  Broken(body) = {}
<1>1. body \in Seq(Sec) /\ DOMAIN body = 1..Len(body)
  BY LenProperties DEF Cites
<1>2. RefsOf(body) \subseteq R
  <2>1. \A i \in DOMAIN body : body[i] \in ToSet(body)
    BY <1>1, Members
  <2> QED
    BY <2>1 DEF RefsOf, Cites
<1>3. ASSUME NEW r \in R PROVE Resolves(body, r)
  <2>1. PICK c, k, l : Meant(f, A, r, c, k, l)
    OBVIOUS
  <2>2. MetAt(A, c, k, l) /\ Parts(r.num, c, k, l)
    BY <2>1 DEF Meant, MetAt
  <2>3. PICK o \in Outline(body) : /\ o \in HeadsOf(top, D, f) /\ Parts(o.num, c, k, l)
                                   /\ Key(o) = 10000 * (c + 1) + 100 * k + l
    BY <2>2, Met
  <2>4. o.num = r.num
    BY <2>2, <2>3, PartsAlone
  <2>5. o.topic \in Topic /\ Key(o) = f[o.topic]
    BY <2>3 DEF HeadsOf, SketchType
  <2>6. o.topic = r.to
    BY <2>1, <2>3, <2>5 DEF Meant
  <2>7. PICK i \in 1..Len(body) : o = Sketch(body[i])
    BY <1>1 DEF Outline
  <2>8. body[i] \in Sec
    BY <1>1, OutlineIs
  <2>9. body[i].num = r.num /\ body[i].topic = r.to
    BY <2>4, <2>6, <2>7, <2>8, SketchIs
  <2> QED
    BY <1>1, <2>9 DEF Resolves
<1> QED
  BY <1>2, <1>3 DEF Broken

-----------------------------------------------------------------------------
(* Drafts: pieces that cite what they may *)

(* A stretch of a first edition: its headings at the keys of their topics, *)
(* the keys A among them, and what it cites.                               *)
Draft(top, D, f, s, lo, hi, A, R) ==
  /\ lo \in Int /\ hi \in Int /\ lo <= hi
  /\ Piece(HeadsOf(top, D, f), s, lo, hi, A) /\ Cites(s, R)

(* Two drafts in neighbouring ranges make one.                             *)
LEMMA DraftConcat ==
  ASSUME NEW top, NEW D, NEW f, NEW R, NEW s, NEW t, NEW lo, NEW mid, NEW hi, NEW A, NEW B,
         Draft(top, D, f, s, lo, mid, A, R), Draft(top, D, f, t, mid, hi, B, R)
  PROVE  Draft(top, D, f, s \o t, lo, hi, A \cup B, R)
<1> DEFINE H == HeadsOf(top, D, f)
<1>1. /\ lo \in Int /\ mid \in Int /\ hi \in Int /\ lo <= mid /\ mid <= hi
      /\ Piece(H, s, lo, mid, A) /\ Piece(H, t, mid, hi, B) /\ Cites(s, R) /\ Cites(t, R)
  BY DEF Draft
<1> HIDE DEF H
<1>2. Piece(H, s \o t, lo, hi, A \cup B)
  BY <1>1, PieceConcat
<1>3. Cites(s \o t, R)
  BY <1>1, CitesConcat
<1>4. lo <= hi
  BY <1>1
<1> QED
  BY <1>1, <1>2, <1>3, <1>4 DEF Draft, H

(* A draft is a draft of every wider range, with fewer keys asked of it    *)
(* and more headings allowed.                                              *)
LEMMA DraftWider ==
  ASSUME NEW top, NEW D, NEW E, NEW f, NEW R, NEW s, NEW a, NEW b, NEW lo \in Int, NEW hi \in Int,
         NEW A, NEW B, Draft(top, D, f, s, a, b, A, R), lo <= a, b <= hi, B \subseteq A,
            D \subseteq E
  PROVE  Draft(top, E, f, s, lo, hi, B, R)
<1> DEFINE H == HeadsOf(top, E, f)
<1>1. /\ a \in Int /\ b \in Int /\ a <= b
      /\ Piece(HeadsOf(top, D, f), s, a, b, A) /\ Cites(s, R)
  BY DEF Draft
<1>2. Piece(H, s, a, b, A)
  BY <1>1, HeadsGrow
<1> HIDE DEF H
<1>3. Piece(H, s, lo, hi, B)
  BY <1>1, <1>2, PieceWider
<1>4. lo <= hi
  BY <1>1
<1> QED
  BY <1>1, <1>3, <1>4 DEF Draft, H

(* Putting allowed references into a draft leaves it the draft it was.     *)
LEMMA DraftCited ==
  ASSUME NEW top, NEW D, NEW f, NEW R, NEW s, NEW lo, NEW hi, NEW A,
         Draft(top, D, f, s, lo, hi, A, R), NEW topic, NEW refs \in SUBSET Cite, refs \subseteq R
  PROVE  Draft(top, D, f, Citing(s, topic, refs), lo, hi, A, R)
<1> DEFINE H == HeadsOf(top, D, f)
           new == Citing(s, topic, refs)
<1>1. lo \in Int /\ hi \in Int /\ lo <= hi /\ Piece(H, s, lo, hi, A) /\ Cites(s, R)
  BY DEF Draft
<1> HIDE DEF H
<1>2. Piece(H, new, lo, hi, A)
  BY <1>1, PieceCited
<1>3. Cites(new, R)
  BY <1>1, CitesCiting
<1> HIDE DEF new
<1>4. Draft(top, D, f, new, lo, hi, A, R)
  BY <1>1, <1>2, <1>3 DEF Draft, H
<1> QED
  BY <1>4 DEF new

(* A third-level heading put behind its section makes a draft with one     *)
(* more key.                                                               *)
LEMMA DraftUnder ==
  ASSUME NEW top, NEW D, NEW f, NEW R, NEW s, NEW lo, NEW hi, NEW A,
         Draft(top, D, f, s, lo, hi, A, R), NEW topic, NEW c, NEW k, NEW key,
         Room3(top, D, f, topic, c, k, key, lo, hi, A), NEW num, num = <<c, k>>
  PROVE  Draft(top, D \cup {key}, f, Under(s, num, topic), lo, hi, A \cup {key}, R)
<1> DEFINE new == Under(s, num, topic)
<1>1. /\ lo \in Int /\ hi \in Int /\ lo <= hi /\ Piece(HeadsOf(top, D, f), s, lo, hi, A)
      /\ Cites(s, R)
  BY DEF Draft
<1>2. Piece(HeadsOf(top, D \cup {key}, f), new, lo, hi, A \cup {key})
  BY <1>1, UnderIs
<1>3. c \in 0..20 /\ k \in 1..90 /\ topic \in Topic /\ 10000 * (c + 1) + 100 * k \in A
  <2>1. c \in 0..20 /\ k \in 1..90 /\ topic \in Topic /\ key = 10000 * (c + 1) + 100 * k + 1
           /\ key - 1 \in A
    BY DEF Room3
  <2>2. key - 1 = 10000 * (c + 1) + 100 * k
    BY <2>1
  <2> QED
    BY <2>1, <2>2
<1>4. PICK j \in 1..Len(s) : s[j].num = num
  <2>1. Piece(HeadsOf(top, D, f), s, lo, hi, A)
    BY <1>1
  <2>2. SecondLevel(A, c, k, num)
    BY <1>3 DEF SecondLevel
  <2> QED
    BY <2>1, <2>2, StandsAt
<1>5. Cites(new, R)
  <2>1. Cites(s, R) /\ c \in 0..20 /\ k \in 1..90 /\ topic \in Topic
    BY <1>1, <1>3
  <2>2. j \in 1..Len(s) /\ s[j].num = num
    BY <1>4
  <2> QED
    BY ONLY <2>2, <2>1, num = <<c, k>>, CitesUnder, Zenon
<1> HIDE DEF new
<1>6. Draft(top, D \cup {key}, f, new, lo, hi, A \cup {key}, R)
  BY <1>1, <1>2, <1>5 DEF Draft
<1> QED
  BY <1>6 DEF new

(* A chapter an edition plans for is a draft that cites nothing.           *)
LEMMA DraftChapter ==
  ASSUME NEW top, NEW D, NEW f, NEW R, NEW n, NEW topic, NEW subs, NEW lo, NEW hi,
         PlanOf(top, D, f, n, topic, subs, lo, hi)
  PROVE  Draft(top, D, f, Chapter(n, topic, subs), lo, hi, Steps(lo, Len(subs)), R)
<1> DEFINE new == Chapter(n, topic, subs)
           S == Steps(lo, Len(subs))
<1>1. /\ top \in 0..20 /\ n \in 0..top /\ topic \in Topic /\ subs \in Seq(Topic) /\ Len(subs) <= 90
      /\ lo = 10000 * (n + 1) /\ hi = 10000 * (n + 2)
  BY DEF PlanOf
<1>2. n \in 0..20 /\ lo \in Int /\ hi \in Int /\ lo <= hi
  BY <1>1
<1>3. Piece(HeadsOf(top, D, f), new, lo, hi, S)
  BY PlannedOf
<1>4. Cites(new, R)
  <2>1. n \in 0..20 /\ topic \in Topic /\ subs \in Seq(Topic) /\ Len(subs) <= 90
    BY <1>1, <1>2
  <2> QED
    BY ONLY <2>1, CitesChapter
<1> HIDE DEF new, S
<1>5. Draft(top, D, f, new, lo, hi, S, R)
  BY <1>2, <1>3, <1>4 DEF Draft
<1> QED
  BY <1>5 DEF new, S

(* The glossary before the first chapter.                                  *)
LEMMA DraftTerms ==
  ASSUME NEW top, NEW D, NEW f, NEW R, f["terms"] = 6
  PROVE  Draft(top, D, f, <<Unnumbered(2, "terms")>>, 0, 10000, {}, R)
<1> DEFINE num == <<>>
           level == 2
           topic == "terms"
           x == Section(level, num, topic)
           s == <<x>>
           o == [level |-> level, num |-> num, topic |-> topic, marks |-> {}]
<1>1. topic \in Topic /\ Place(topic) = 6 /\ level \in Nat /\ f[topic] = 6
  BY DEF Topic, Place
<1>2. num \in Seq(Nat) /\ Len(num) = 0
  OBVIOUS
<1>8. Unnumbered(2, "terms") = x
  BY DEF Unnumbered
<1>0. num = <<>>
  OBVIOUS
<1> HIDE DEF num, level, topic
<1>3. x \in Sec /\ Sketch(x) = o /\ x.refs = {}
  <2>1. level \in Nat /\ num \in Seq(Nat) /\ topic \in Topic
    BY <1>1, <1>2
  <2> QED
    BY ONLY <2>1, SectionIs
<1>4. o \in SketchType /\ o.num = num /\ o.topic = topic
  BY <1>1, <1>2 DEF SketchType
<1>5. Key(o) = 6
  BY <1>0, <1>1, <1>4 DEF Key
<1> HIDE DEF o
<1>6. o \in HeadsOf(top, D, f)
  BY <1>0, <1>1, <1>4, <1>5 DEF HeadsOf
<1> HIDE DEF x
<1>7. s \in Seq(Sec) /\ Len(s) = 1 /\ DOMAIN s = 1..1 /\ s[1] = x
  BY <1>3
<1> HIDE DEF s
<1>9. Rising(s)
  BY <1>7 DEF Rising
<1>10. Outline(s) = {o}
  BY <1>3, <1>7 DEF Outline
<1>11. \A y \in ToSet(s) : y = x
  BY <1>7, Members
<1>12. Key(x) = 6
  BY <1>3, <1>5, SketchIs
<1>13. Between(s, 0, 10000)
  BY <1>9, <1>11, <1>12 DEF Between
<1> DEFINE H == HeadsOf(top, D, f)
<1> HIDE DEF H
<1>14. Piece(H, s, 0, 10000, {})
  BY <1>6, <1>7, <1>10, <1>13 DEF Piece, H
<1>15. Cites(s, R)
  BY <1>3, <1>7, <1>11 DEF Cites
<1>16. Draft(top, D, f, s, 0, 10000, {}, R)
  BY <1>14, <1>15 DEF Draft, H
<1> QED
  BY <1>8, <1>16 DEF s
StepOf(x, lo, m, k) == k \in 0..m /\ x = lo + 100 * k

(* The k-th section of a chapter has the k-th key of the chapter.          *)
LEMMA StepIs ==
  ASSUME NEW x, NEW lo, NEW m, NEW k, StepOf(x, lo, m, k)
  PROVE  x \in Steps(lo, m)
BY DEF Steps, StepOf

-----------------------------------------------------------------------------
(* v0.9, chapter by chapter *)

(* Where v0.9 has each of its headings.                                   *)
KeyIn09(topic) ==
  CASE topic = "terms" -> 6
    [] topic = "overview" -> 10000 [] topic = "premise" -> 10100 [] topic = "start" -> 10200
    [] topic = "survey" -> 10300
    [] topic = "architecture" -> 20000 [] topic = "principle" -> 20100
    [] topic = "whyboard" -> 20200 [] topic = "modules" -> 20300 [] topic = "boundary" -> 20400
    [] topic = "data" -> 30000 [] topic = "schedule" -> 30100 [] topic = "policy" -> 30200
    [] topic = "account" -> 30300 [] topic = "outputs" -> 30400 [] topic = "logic" -> 30500
    [] topic = "keys" -> 40000 [] topic = "composition" -> 40100 [] topic = "matching" -> 40200
    [] topic = "calculation" -> 50000 [] topic = "components" -> 50100
    [] topic = "bearer" -> 50200 [] topic = "probes" -> 50300
    [] topic = "priority" -> 60000 [] topic = "layers" -> 60100 [] topic = "ranking" -> 60200
    [] topic = "nocross" -> 60300 [] topic = "ties" -> 60400 [] topic = "general" -> 60101
    [] topic = "lookup" -> 70000 [] topic = "steps" -> 70100 [] topic = "descent" -> 70200
    [] topic = "cached" -> 70300
    [] topic = "enrolling" -> 80000 [] topic = "applying" -> 80100 [] topic = "joining" -> 80200
    [] topic = "dormant" -> 80300 [] topic = "targets" -> 80400 [] topic = "qualified" -> 80500
    [] topic = "period" -> 90000
    [] topic = "negotiated" -> 100000 [] topic = "lifecycle" -> 100100
    [] topic = "request" -> 100200 [] topic = "approval" -> 100300
    [] topic = "extension" -> 100400 [] topic = "metrics" -> 100500
    [] topic = "cache" -> 110000
    [] topic = "register" -> 120000 [] topic = "workflow" -> 120100
    [] OTHER -> 290000

Key09 == [topic \in Topic |-> KeyIn09(topic)]

Refs09 ==
  {Ref(<<2, 3>>, "account"),
   Ref(<<7>>, "enrolling"),
   Ref(<<8>>, "period"),
   Ref(<<9>>, "negotiated"),
   Ref(<<9, 5>>, "metrics"),
   Ref(<<5>>, "priority"),
   Ref(<<4, 3>>, "probes"),
   Ref(<<5, 3>>, "nocross"),
   Ref(<<5, 4>>, "ties"),
   Ref(<<11>>, "register")}

Draft09(s, lo, hi, A) == Draft(11, {60101}, Key09, s, lo, hi, A, Refs09)

(* Where each subject stands in v0.9.                                      *)
LEMMA Key09Is == \A topic \in Topic : Key09[topic] = KeyIn09(topic)
BY DEF Key09

(* The twelve chapters of v0.9, one by one, before references and third-   *)
(* level headings are put in.                                              *)
LEMMA Chapters09Are ==
  /\ Draft09(Chapter(0, "overview", <<"premise", "start", "survey">>), 10000, 20000, {10000})
  /\ Draft09(
        Chapter(1, "architecture", <<"principle", "whyboard", "modules", "boundary">>), 20000,
           30000, {20000})
  /\ Draft09(
        Chapter(2, "data", <<"schedule", "policy", "account", "outputs", "logic">>), 30000,
           40000, {30000, 30300})
  /\ Draft09(Chapter(3, "keys", <<"composition", "matching">>), 40000, 50000, {40000})
  /\ Draft09(
        Chapter(4, "calculation", <<"components", "bearer", "probes">>), 50000, 60000,
           {50000, 50300})
  /\ Draft(11, {}, Key09,
        Chapter(5, "priority", <<"layers", "ranking", "nocross", "ties">>), 60000, 70000,
           {60000, 60100, 60300, 60400}, Refs09)
  /\ Draft09(Chapter(6, "lookup", <<"steps", "descent", "cached">>), 70000, 80000, {70000})
  /\ Draft09(
        Chapter(7, "enrolling", <<"applying", "joining", "dormant", "targets", "qualified">>),
           80000, 90000, {80000})
  /\ Draft09(Chapter(8, "period", <<>>), 90000, 100000, {90000})
  /\ Draft09(
        Chapter(9, "negotiated", <<"lifecycle", "request", "approval", "extension", "metrics">>),
           100000, 110000, {100000, 100500})
  /\ Draft09(Chapter(10, "cache", <<>>), 110000, 120000, {110000})
  /\ Draft09(Chapter(11, "register", <<"workflow">>), 120000, 130000, {120000})
<1>1. Draft09(Chapter(0, "overview", <<"premise", "start", "survey">>), 10000, 20000, {10000})
  <2> DEFINE subs == <<"premise", "start", "survey">>
           key == Key09
           cited == Refs09
  <2>1. subs \in Seq(Topic) /\ Len(subs) = 3
    BY DEF Topic
  <2>3. "overview" \in Topic /\ key["overview"] = 10000
    BY Key09Is DEF Topic, KeyIn09
  <2>2. \A k \in 1..3 : key[subs[k]] = 10000 + 100 * k
    <3>1. subs[1] = "premise" /\ subs[2] = "start" /\ subs[3] = "survey"
      OBVIOUS
    <3>2. /\ key["premise"] = 10100
          /\ key["start"] = 10200
          /\ key["survey"] = 10300
      BY Key09Is DEF Topic, KeyIn09
    <3> HIDE DEF subs, key
    <3> QED
      BY <3>1, <3>2
  <2> HIDE DEF subs, key, cited
  <2>4. PlanOf(11, {}, key, 0, "overview", subs, 10000, 20000)
    BY <2>1, <2>2, <2>3 DEF PlanOf
  <2> DEFINE new == Chapter(0, "overview", subs)
  <2>5. Draft(11, {}, key, new, 10000, 20000, Steps(10000, Len(subs)), cited)
    BY <2>4, DraftChapter
  <2> HIDE DEF new
  <2>6. Draft(11, {}, key, new, 10000, 20000, Steps(10000, 3), cited)
    BY <2>1, <2>5
  <2>7. {10000} \subseteq Steps(10000, 3)
    <3>1. 10000 \in Steps(10000, 3)
      <4>1. StepOf(10000, 10000, 3, 0)
        BY DEF StepOf
      <4> QED
        BY <4>1, StepIs
    <3> QED
      BY <3>1
  <2>8. Draft(11, {60101}, key, new, 10000, 20000, {10000}, cited)
    BY <2>6, <2>7, DraftWider
  <2> QED
    BY <2>8 DEF new, subs, key, cited, Draft09
<1>2. Draft09(
        Chapter(1, "architecture", <<"principle", "whyboard", "modules", "boundary">>), 20000,
           30000, {20000})
  <2> DEFINE subs == <<"principle", "whyboard", "modules", "boundary">>
           key == Key09
           cited == Refs09
  <2>1. subs \in Seq(Topic) /\ Len(subs) = 4
    BY DEF Topic
  <2>3. "architecture" \in Topic /\ key["architecture"] = 20000
    BY Key09Is DEF Topic, KeyIn09
  <2>2. \A k \in 1..4 : key[subs[k]] = 20000 + 100 * k
    <3>1. subs[1] = "principle" /\ subs[2] = "whyboard" /\ subs[3] = "modules"
             /\ subs[4] = "boundary"
      OBVIOUS
    <3>2. /\ key["principle"] = 20100
          /\ key["whyboard"] = 20200
          /\ key["modules"] = 20300
          /\ key["boundary"] = 20400
      BY Key09Is DEF Topic, KeyIn09
    <3> HIDE DEF subs, key
    <3> QED
      BY <3>1, <3>2
  <2> HIDE DEF subs, key, cited
  <2>4. PlanOf(11, {}, key, 1, "architecture", subs, 20000, 30000)
    BY <2>1, <2>2, <2>3 DEF PlanOf
  <2> DEFINE new == Chapter(1, "architecture", subs)
  <2>5. Draft(11, {}, key, new, 20000, 30000, Steps(20000, Len(subs)), cited)
    BY <2>4, DraftChapter
  <2> HIDE DEF new
  <2>6. Draft(11, {}, key, new, 20000, 30000, Steps(20000, 4), cited)
    BY <2>1, <2>5
  <2>7. {20000} \subseteq Steps(20000, 4)
    <3>1. 20000 \in Steps(20000, 4)
      <4>1. StepOf(20000, 20000, 4, 0)
        BY DEF StepOf
      <4> QED
        BY <4>1, StepIs
    <3> QED
      BY <3>1
  <2>8. Draft(11, {60101}, key, new, 20000, 30000, {20000}, cited)
    BY <2>6, <2>7, DraftWider
  <2> QED
    BY <2>8 DEF new, subs, key, cited, Draft09
<1>3. Draft09(
        Chapter(2, "data", <<"schedule", "policy", "account", "outputs", "logic">>), 30000,
           40000, {30000, 30300})
  <2> DEFINE subs == <<"schedule", "policy", "account", "outputs", "logic">>
           key == Key09
           cited == Refs09
  <2>1. subs \in Seq(Topic) /\ Len(subs) = 5
    BY DEF Topic
  <2>3. "data" \in Topic /\ key["data"] = 30000
    BY Key09Is DEF Topic, KeyIn09
  <2>2. \A k \in 1..5 : key[subs[k]] = 30000 + 100 * k
    <3>1. subs[1] = "schedule" /\ subs[2] = "policy" /\ subs[3] = "account"
             /\ subs[4] = "outputs" /\ subs[5] = "logic"
      OBVIOUS
    <3>2. /\ key["schedule"] = 30100
          /\ key["policy"] = 30200
          /\ key["account"] = 30300
          /\ key["outputs"] = 30400
          /\ key["logic"] = 30500
      BY Key09Is DEF Topic, KeyIn09
    <3> HIDE DEF subs, key
    <3> QED
      BY <3>1, <3>2
  <2> HIDE DEF subs, key, cited
  <2>4. PlanOf(11, {}, key, 2, "data", subs, 30000, 40000)
    BY <2>1, <2>2, <2>3 DEF PlanOf
  <2> DEFINE new == Chapter(2, "data", subs)
  <2>5. Draft(11, {}, key, new, 30000, 40000, Steps(30000, Len(subs)), cited)
    BY <2>4, DraftChapter
  <2> HIDE DEF new
  <2>6. Draft(11, {}, key, new, 30000, 40000, Steps(30000, 5), cited)
    BY <2>1, <2>5
  <2>7. {30000, 30300} \subseteq Steps(30000, 5)
    <3>1. 30000 \in Steps(30000, 5)
      <4>1. StepOf(30000, 30000, 5, 0)
        BY DEF StepOf
      <4> QED
        BY <4>1, StepIs
    <3>2. 30300 \in Steps(30000, 5)
      <4>1. StepOf(30300, 30000, 5, 3)
        BY DEF StepOf
      <4> QED
        BY <4>1, StepIs
    <3> QED
      BY <3>1, <3>2
  <2>8. Draft(11, {60101}, key, new, 30000, 40000, {30000, 30300}, cited)
    BY <2>6, <2>7, DraftWider
  <2> QED
    BY <2>8 DEF new, subs, key, cited, Draft09
<1>4. Draft09(Chapter(3, "keys", <<"composition", "matching">>), 40000, 50000, {40000})
  <2> DEFINE subs == <<"composition", "matching">>
           key == Key09
           cited == Refs09
  <2>1. subs \in Seq(Topic) /\ Len(subs) = 2
    BY DEF Topic
  <2>3. "keys" \in Topic /\ key["keys"] = 40000
    BY Key09Is DEF Topic, KeyIn09
  <2>2. \A k \in 1..2 : key[subs[k]] = 40000 + 100 * k
    <3>1. subs[1] = "composition" /\ subs[2] = "matching"
      OBVIOUS
    <3>2. /\ key["composition"] = 40100
          /\ key["matching"] = 40200
      BY Key09Is DEF Topic, KeyIn09
    <3> HIDE DEF subs, key
    <3> QED
      BY <3>1, <3>2
  <2> HIDE DEF subs, key, cited
  <2>4. PlanOf(11, {}, key, 3, "keys", subs, 40000, 50000)
    BY <2>1, <2>2, <2>3 DEF PlanOf
  <2> DEFINE new == Chapter(3, "keys", subs)
  <2>5. Draft(11, {}, key, new, 40000, 50000, Steps(40000, Len(subs)), cited)
    BY <2>4, DraftChapter
  <2> HIDE DEF new
  <2>6. Draft(11, {}, key, new, 40000, 50000, Steps(40000, 2), cited)
    BY <2>1, <2>5
  <2>7. {40000} \subseteq Steps(40000, 2)
    <3>1. 40000 \in Steps(40000, 2)
      <4>1. StepOf(40000, 40000, 2, 0)
        BY DEF StepOf
      <4> QED
        BY <4>1, StepIs
    <3> QED
      BY <3>1
  <2>8. Draft(11, {60101}, key, new, 40000, 50000, {40000}, cited)
    BY <2>6, <2>7, DraftWider
  <2> QED
    BY <2>8 DEF new, subs, key, cited, Draft09
<1>5. Draft09(
        Chapter(4, "calculation", <<"components", "bearer", "probes">>), 50000, 60000,
           {50000, 50300})
  <2> DEFINE subs == <<"components", "bearer", "probes">>
           key == Key09
           cited == Refs09
  <2>1. subs \in Seq(Topic) /\ Len(subs) = 3
    BY DEF Topic
  <2>3. "calculation" \in Topic /\ key["calculation"] = 50000
    BY Key09Is DEF Topic, KeyIn09
  <2>2. \A k \in 1..3 : key[subs[k]] = 50000 + 100 * k
    <3>1. subs[1] = "components" /\ subs[2] = "bearer" /\ subs[3] = "probes"
      OBVIOUS
    <3>2. /\ key["components"] = 50100
          /\ key["bearer"] = 50200
          /\ key["probes"] = 50300
      BY Key09Is DEF Topic, KeyIn09
    <3> HIDE DEF subs, key
    <3> QED
      BY <3>1, <3>2
  <2> HIDE DEF subs, key, cited
  <2>4. PlanOf(11, {}, key, 4, "calculation", subs, 50000, 60000)
    BY <2>1, <2>2, <2>3 DEF PlanOf
  <2> DEFINE new == Chapter(4, "calculation", subs)
  <2>5. Draft(11, {}, key, new, 50000, 60000, Steps(50000, Len(subs)), cited)
    BY <2>4, DraftChapter
  <2> HIDE DEF new
  <2>6. Draft(11, {}, key, new, 50000, 60000, Steps(50000, 3), cited)
    BY <2>1, <2>5
  <2>7. {50000, 50300} \subseteq Steps(50000, 3)
    <3>1. 50000 \in Steps(50000, 3)
      <4>1. StepOf(50000, 50000, 3, 0)
        BY DEF StepOf
      <4> QED
        BY <4>1, StepIs
    <3>2. 50300 \in Steps(50000, 3)
      <4>1. StepOf(50300, 50000, 3, 3)
        BY DEF StepOf
      <4> QED
        BY <4>1, StepIs
    <3> QED
      BY <3>1, <3>2
  <2>8. Draft(11, {60101}, key, new, 50000, 60000, {50000, 50300}, cited)
    BY <2>6, <2>7, DraftWider
  <2> QED
    BY <2>8 DEF new, subs, key, cited, Draft09
<1>6. Draft(11, {}, Key09,
        Chapter(5, "priority", <<"layers", "ranking", "nocross", "ties">>), 60000, 70000,
           {60000, 60100, 60300, 60400}, Refs09)
  <2> DEFINE subs == <<"layers", "ranking", "nocross", "ties">>
           key == Key09
           cited == Refs09
  <2>1. subs \in Seq(Topic) /\ Len(subs) = 4
    BY DEF Topic
  <2>3. "priority" \in Topic /\ key["priority"] = 60000
    BY Key09Is DEF Topic, KeyIn09
  <2>2. \A k \in 1..4 : key[subs[k]] = 60000 + 100 * k
    <3>1. subs[1] = "layers" /\ subs[2] = "ranking" /\ subs[3] = "nocross" /\ subs[4] = "ties"
      OBVIOUS
    <3>2. /\ key["layers"] = 60100
          /\ key["ranking"] = 60200
          /\ key["nocross"] = 60300
          /\ key["ties"] = 60400
      BY Key09Is DEF Topic, KeyIn09
    <3> HIDE DEF subs, key
    <3> QED
      BY <3>1, <3>2
  <2> HIDE DEF subs, key, cited
  <2>4. PlanOf(11, {}, key, 5, "priority", subs, 60000, 70000)
    BY <2>1, <2>2, <2>3 DEF PlanOf
  <2> DEFINE new == Chapter(5, "priority", subs)
  <2>5. Draft(11, {}, key, new, 60000, 70000, Steps(60000, Len(subs)), cited)
    BY <2>4, DraftChapter
  <2> HIDE DEF new
  <2>6. Draft(11, {}, key, new, 60000, 70000, Steps(60000, 4), cited)
    BY <2>1, <2>5
  <2>7. {60000, 60100, 60300, 60400} \subseteq Steps(60000, 4)
    <3>1. 60000 \in Steps(60000, 4)
      <4>1. StepOf(60000, 60000, 4, 0)
        BY DEF StepOf
      <4> QED
        BY <4>1, StepIs
    <3>2. 60100 \in Steps(60000, 4)
      <4>1. StepOf(60100, 60000, 4, 1)
        BY DEF StepOf
      <4> QED
        BY <4>1, StepIs
    <3>3. 60300 \in Steps(60000, 4)
      <4>1. StepOf(60300, 60000, 4, 3)
        BY DEF StepOf
      <4> QED
        BY <4>1, StepIs
    <3>4. 60400 \in Steps(60000, 4)
      <4>1. StepOf(60400, 60000, 4, 4)
        BY DEF StepOf
      <4> QED
        BY <4>1, StepIs
    <3> QED
      BY <3>1, <3>2, <3>3, <3>4
  <2>8. Draft(11, {}, key, new, 60000, 70000, {60000, 60100, 60300, 60400}, cited)
    BY <2>6, <2>7, DraftWider
  <2> QED
    BY <2>8 DEF new, subs, key, cited, Draft09
<1>7. Draft09(Chapter(6, "lookup", <<"steps", "descent", "cached">>), 70000, 80000, {70000})
  <2> DEFINE subs == <<"steps", "descent", "cached">>
           key == Key09
           cited == Refs09
  <2>1. subs \in Seq(Topic) /\ Len(subs) = 3
    BY DEF Topic
  <2>3. "lookup" \in Topic /\ key["lookup"] = 70000
    BY Key09Is DEF Topic, KeyIn09
  <2>2. \A k \in 1..3 : key[subs[k]] = 70000 + 100 * k
    <3>1. subs[1] = "steps" /\ subs[2] = "descent" /\ subs[3] = "cached"
      OBVIOUS
    <3>2. /\ key["steps"] = 70100
          /\ key["descent"] = 70200
          /\ key["cached"] = 70300
      BY Key09Is DEF Topic, KeyIn09
    <3> HIDE DEF subs, key
    <3> QED
      BY <3>1, <3>2
  <2> HIDE DEF subs, key, cited
  <2>4. PlanOf(11, {}, key, 6, "lookup", subs, 70000, 80000)
    BY <2>1, <2>2, <2>3 DEF PlanOf
  <2> DEFINE new == Chapter(6, "lookup", subs)
  <2>5. Draft(11, {}, key, new, 70000, 80000, Steps(70000, Len(subs)), cited)
    BY <2>4, DraftChapter
  <2> HIDE DEF new
  <2>6. Draft(11, {}, key, new, 70000, 80000, Steps(70000, 3), cited)
    BY <2>1, <2>5
  <2>7. {70000} \subseteq Steps(70000, 3)
    <3>1. 70000 \in Steps(70000, 3)
      <4>1. StepOf(70000, 70000, 3, 0)
        BY DEF StepOf
      <4> QED
        BY <4>1, StepIs
    <3> QED
      BY <3>1
  <2>8. Draft(11, {60101}, key, new, 70000, 80000, {70000}, cited)
    BY <2>6, <2>7, DraftWider
  <2> QED
    BY <2>8 DEF new, subs, key, cited, Draft09
<1>8. Draft09(
        Chapter(7, "enrolling", <<"applying", "joining", "dormant", "targets", "qualified">>),
           80000, 90000, {80000})
  <2> DEFINE subs == <<"applying", "joining", "dormant", "targets", "qualified">>
           key == Key09
           cited == Refs09
  <2>1. subs \in Seq(Topic) /\ Len(subs) = 5
    BY DEF Topic
  <2>3. "enrolling" \in Topic /\ key["enrolling"] = 80000
    BY Key09Is DEF Topic, KeyIn09
  <2>2. \A k \in 1..5 : key[subs[k]] = 80000 + 100 * k
    <3>1. subs[1] = "applying" /\ subs[2] = "joining" /\ subs[3] = "dormant"
             /\ subs[4] = "targets" /\ subs[5] = "qualified"
      OBVIOUS
    <3>2. /\ key["applying"] = 80100
          /\ key["joining"] = 80200
          /\ key["dormant"] = 80300
          /\ key["targets"] = 80400
          /\ key["qualified"] = 80500
      BY Key09Is DEF Topic, KeyIn09
    <3> HIDE DEF subs, key
    <3> QED
      BY <3>1, <3>2
  <2> HIDE DEF subs, key, cited
  <2>4. PlanOf(11, {}, key, 7, "enrolling", subs, 80000, 90000)
    BY <2>1, <2>2, <2>3 DEF PlanOf
  <2> DEFINE new == Chapter(7, "enrolling", subs)
  <2>5. Draft(11, {}, key, new, 80000, 90000, Steps(80000, Len(subs)), cited)
    BY <2>4, DraftChapter
  <2> HIDE DEF new
  <2>6. Draft(11, {}, key, new, 80000, 90000, Steps(80000, 5), cited)
    BY <2>1, <2>5
  <2>7. {80000} \subseteq Steps(80000, 5)
    <3>1. 80000 \in Steps(80000, 5)
      <4>1. StepOf(80000, 80000, 5, 0)
        BY DEF StepOf
      <4> QED
        BY <4>1, StepIs
    <3> QED
      BY <3>1
  <2>8. Draft(11, {60101}, key, new, 80000, 90000, {80000}, cited)
    BY <2>6, <2>7, DraftWider
  <2> QED
    BY <2>8 DEF new, subs, key, cited, Draft09
<1>9. Draft09(Chapter(8, "period", <<>>), 90000, 100000, {90000})
  <2> DEFINE subs == <<>>
           key == Key09
           cited == Refs09
  <2>1. subs \in Seq(Topic) /\ Len(subs) = 0
    OBVIOUS
  <2>3. "period" \in Topic /\ key["period"] = 90000
    BY Key09Is DEF Topic, KeyIn09
  <2>2. \A k \in 1..0 : key[subs[k]] = 90000 + 100 * k
    OBVIOUS
  <2> HIDE DEF subs, key, cited
  <2>4. PlanOf(11, {}, key, 8, "period", subs, 90000, 100000)
    BY <2>1, <2>2, <2>3 DEF PlanOf
  <2> DEFINE new == Chapter(8, "period", subs)
  <2>5. Draft(11, {}, key, new, 90000, 100000, Steps(90000, Len(subs)), cited)
    BY <2>4, DraftChapter
  <2> HIDE DEF new
  <2>6. Draft(11, {}, key, new, 90000, 100000, Steps(90000, 0), cited)
    BY <2>1, <2>5
  <2>7. {90000} \subseteq Steps(90000, 0)
    <3>1. 90000 \in Steps(90000, 0)
      <4>1. StepOf(90000, 90000, 0, 0)
        BY DEF StepOf
      <4> QED
        BY <4>1, StepIs
    <3> QED
      BY <3>1
  <2>8. Draft(11, {60101}, key, new, 90000, 100000, {90000}, cited)
    BY <2>6, <2>7, DraftWider
  <2> QED
    BY <2>8 DEF new, subs, key, cited, Draft09
<1>10. Draft09(
        Chapter(9, "negotiated", <<"lifecycle", "request", "approval", "extension", "metrics">>),
           100000, 110000, {100000, 100500})
  <2> DEFINE subs == <<"lifecycle", "request", "approval", "extension", "metrics">>
           key == Key09
           cited == Refs09
  <2>1. subs \in Seq(Topic) /\ Len(subs) = 5
    BY DEF Topic
  <2>3. "negotiated" \in Topic /\ key["negotiated"] = 100000
    BY Key09Is DEF Topic, KeyIn09
  <2>2. \A k \in 1..5 : key[subs[k]] = 100000 + 100 * k
    <3>1. subs[1] = "lifecycle" /\ subs[2] = "request" /\ subs[3] = "approval"
             /\ subs[4] = "extension" /\ subs[5] = "metrics"
      OBVIOUS
    <3>2. /\ key["lifecycle"] = 100100
          /\ key["request"] = 100200
          /\ key["approval"] = 100300
          /\ key["extension"] = 100400
          /\ key["metrics"] = 100500
      BY Key09Is DEF Topic, KeyIn09
    <3> HIDE DEF subs, key
    <3> QED
      BY <3>1, <3>2
  <2> HIDE DEF subs, key, cited
  <2>4. PlanOf(11, {}, key, 9, "negotiated", subs, 100000, 110000)
    BY <2>1, <2>2, <2>3 DEF PlanOf
  <2> DEFINE new == Chapter(9, "negotiated", subs)
  <2>5. Draft(11, {}, key, new, 100000, 110000, Steps(100000, Len(subs)), cited)
    BY <2>4, DraftChapter
  <2> HIDE DEF new
  <2>6. Draft(11, {}, key, new, 100000, 110000, Steps(100000, 5), cited)
    BY <2>1, <2>5
  <2>7. {100000, 100500} \subseteq Steps(100000, 5)
    <3>1. 100000 \in Steps(100000, 5)
      <4>1. StepOf(100000, 100000, 5, 0)
        BY DEF StepOf
      <4> QED
        BY <4>1, StepIs
    <3>2. 100500 \in Steps(100000, 5)
      <4>1. StepOf(100500, 100000, 5, 5)
        BY DEF StepOf
      <4> QED
        BY <4>1, StepIs
    <3> QED
      BY <3>1, <3>2
  <2>8. Draft(11, {60101}, key, new, 100000, 110000, {100000, 100500}, cited)
    BY <2>6, <2>7, DraftWider
  <2> QED
    BY <2>8 DEF new, subs, key, cited, Draft09
<1>11. Draft09(Chapter(10, "cache", <<>>), 110000, 120000, {110000})
  <2> DEFINE subs == <<>>
           key == Key09
           cited == Refs09
  <2>1. subs \in Seq(Topic) /\ Len(subs) = 0
    OBVIOUS
  <2>3. "cache" \in Topic /\ key["cache"] = 110000
    BY Key09Is DEF Topic, KeyIn09
  <2>2. \A k \in 1..0 : key[subs[k]] = 110000 + 100 * k
    OBVIOUS
  <2> HIDE DEF subs, key, cited
  <2>4. PlanOf(11, {}, key, 10, "cache", subs, 110000, 120000)
    BY <2>1, <2>2, <2>3 DEF PlanOf
  <2> DEFINE new == Chapter(10, "cache", subs)
  <2>5. Draft(11, {}, key, new, 110000, 120000, Steps(110000, Len(subs)), cited)
    BY <2>4, DraftChapter
  <2> HIDE DEF new
  <2>6. Draft(11, {}, key, new, 110000, 120000, Steps(110000, 0), cited)
    BY <2>1, <2>5
  <2>7. {110000} \subseteq Steps(110000, 0)
    <3>1. 110000 \in Steps(110000, 0)
      <4>1. StepOf(110000, 110000, 0, 0)
        BY DEF StepOf
      <4> QED
        BY <4>1, StepIs
    <3> QED
      BY <3>1
  <2>8. Draft(11, {60101}, key, new, 110000, 120000, {110000}, cited)
    BY <2>6, <2>7, DraftWider
  <2> QED
    BY <2>8 DEF new, subs, key, cited, Draft09
<1>12. Draft09(Chapter(11, "register", <<"workflow">>), 120000, 130000, {120000})
  <2> DEFINE subs == <<"workflow">>
           key == Key09
           cited == Refs09
  <2>1. subs \in Seq(Topic) /\ Len(subs) = 1
    BY DEF Topic
  <2>3. "register" \in Topic /\ key["register"] = 120000
    BY Key09Is DEF Topic, KeyIn09
  <2>2. \A k \in 1..1 : key[subs[k]] = 120000 + 100 * k
    <3>1. subs[1] = "workflow"
      OBVIOUS
    <3>2. /\ key["workflow"] = 120100
      BY Key09Is DEF Topic, KeyIn09
    <3> HIDE DEF subs, key
    <3> QED
      BY <3>1, <3>2
  <2> HIDE DEF subs, key, cited
  <2>4. PlanOf(11, {}, key, 11, "register", subs, 120000, 130000)
    BY <2>1, <2>2, <2>3 DEF PlanOf
  <2> DEFINE new == Chapter(11, "register", subs)
  <2>5. Draft(11, {}, key, new, 120000, 130000, Steps(120000, Len(subs)), cited)
    BY <2>4, DraftChapter
  <2> HIDE DEF new
  <2>6. Draft(11, {}, key, new, 120000, 130000, Steps(120000, 1), cited)
    BY <2>1, <2>5
  <2>7. {120000} \subseteq Steps(120000, 1)
    <3>1. 120000 \in Steps(120000, 1)
      <4>1. StepOf(120000, 120000, 1, 0)
        BY DEF StepOf
      <4> QED
        BY <4>1, StepIs
    <3> QED
      BY <3>1
  <2>8. Draft(11, {60101}, key, new, 120000, 130000, {120000}, cited)
    BY <2>6, <2>7, DraftWider
  <2> QED
    BY <2>8 DEF new, subs, key, cited, Draft09
<1> QED
  BY <1>1, <1>2, <1>3, <1>4, <1>5, <1>6, <1>7, <1>8, <1>9, <1>10, <1>11, <1>12

(* The references v0.9 writes are references.                              *)
LEMMA Refs09Are == Refs09 \subseteq Cite
<1>1. /\ "account" \in Topic /\ "enrolling" \in Topic /\ "period" \in Topic
         /\ "negotiated" \in Topic
      /\ "metrics" \in Topic /\ "priority" \in Topic /\ "probes" \in Topic /\ "nocross" \in Topic
      /\ "ties" \in Topic /\ "register" \in Topic
  BY DEF Topic
<1>2. /\ <<2, 3>> \in Seq(Nat) /\ <<7>> \in Seq(Nat) /\ <<8>> \in Seq(Nat) /\ <<9>> \in Seq(Nat)
      /\ <<9, 5>> \in Seq(Nat) /\ <<5>> \in Seq(Nat) /\ <<4, 3>> \in Seq(Nat)
         /\ <<5, 3>> \in Seq(Nat)
      /\ <<5, 4>> \in Seq(Nat) /\ <<11>> \in Seq(Nat)
  OBVIOUS
<1> QED
  BY <1>1, <1>2, RefIs DEF Refs09

(* Citing what the edition cites anyway.                                   *)
LEMMA Cited09 ==
  ASSUME NEW s, NEW lo, NEW hi, NEW A, Draft09(s, lo, hi, A), NEW topic, NEW refs,
     refs \subseteq Refs09
  PROVE  Draft09(Citing(s, topic, refs), lo, hi, A)
<1>1. refs \in SUBSET Cite
  BY Refs09Are
<1> QED
  BY <1>1, DraftCited DEF Draft09

(* Two drafts of v0.9, one after the other, make one.                      *)
LEMMA Joined09 ==
  ASSUME NEW s, NEW t, NEW lo, NEW mid, NEW hi, NEW A, NEW B, Draft09(s, lo, mid, A),
     Draft09(t, mid, hi, B)
  PROVE  Draft09(s \o t, lo, hi, A \cup B)
BY DraftConcat DEF Draft09

(* What each chapter of v0.9 cites is among the references of v0.9.        *)
LEMMA Refs09Parts ==
  /\ V09General \subseteq Refs09
  /\ {Ref(<<2, 3>>, "account"), Ref(<<7>>, "enrolling"), Ref(<<8>>, "period")} \subseteq Refs09
  /\ {Ref(<<9>>, "negotiated"), Ref(<<9, 5>>, "metrics")} \subseteq Refs09
  /\ {Ref(<<5>>, "priority")} \subseteq Refs09
  /\ {Ref(<<5, 3>>, "nocross")} \subseteq Refs09
  /\ {Ref(<<8>>, "period")} \subseteq Refs09
  /\ {Ref(<<9>>, "negotiated")} \subseteq Refs09
BY DEF Refs09, V09General

(* v0.9, chapters 0 to 3.                                                  *)
LEMMA V09Chapters0to3Is == Draft09(V09Chapters0to3, 0, 50000, {10000, 20000, 30000, 30300, 40000})
<1> DEFINE t == <<Unnumbered(2, "terms")>>
           a == Chapter(0, "overview", <<"premise", "start", "survey">>)
           b == Chapter(1, "architecture", <<"principle", "whyboard", "modules", "boundary">>)
           c == Chapter(2, "data", <<"schedule", "policy", "account", "outputs", "logic">>)
           d == Chapter(3, "keys", <<"composition", "matching">>)
           r == {Ref(<<2, 3>>, "account"), Ref(<<7>>, "enrolling"), Ref(<<8>>, "period")}
           s == {Ref(<<9>>, "negotiated"), Ref(<<9, 5>>, "metrics")}
           u == {Ref(<<5>>, "priority")}
           body == (((t \o a) \o b) \o c) \o d
<1>1. V09Chapters0to3 = Citing(Citing(Citing(body, "policy", r), "account", s), "outputs", u)
  BY DEF V09Chapters0to3
<1>2. Draft09(t, 0, 10000, {})
  <2>1. Key09["terms"] = 6
    BY Key09Is DEF Topic, KeyIn09
  <2> HIDE DEF t
  <2> QED
    BY <2>1, DraftTerms DEF Draft09, t
<1>3. /\ Draft09(a, 10000, 20000, {10000}) /\ Draft09(b, 20000, 30000, {20000})
      /\ Draft09(c, 30000, 40000, {30000, 30300}) /\ Draft09(d, 40000, 50000, {40000})
  BY Chapters09Are
<1>4. r \subseteq Refs09 /\ s \subseteq Refs09 /\ u \subseteq Refs09
  BY Refs09Parts
<1> HIDE DEF t, a, b, c, d, r, s, u
<1>5. Draft09(t \o a, 0, 20000, {} \cup {10000})
  BY <1>2, <1>3, Joined09
<1>6. Draft09((t \o a) \o b, 0, 30000, ({} \cup {10000}) \cup {20000})
  BY <1>3, <1>5, Joined09
<1>7. Draft09(((t \o a) \o b) \o c, 0, 40000, (({} \cup {10000}) \cup {20000}) \cup {30000, 30300})
  BY <1>3, <1>6, Joined09
<1> DEFINE A == ((({} \cup {10000}) \cup {20000}) \cup {30000, 30300}) \cup {40000}
<1>8. Draft09(body, 0, 50000, A)
  BY <1>3, <1>7, Joined09
<1>9. A = {10000, 20000, 30000, 30300, 40000}
  OBVIOUS
<1> HIDE DEF body, A
<1>10. Draft09(Citing(body, "policy", r), 0, 50000, A)
  BY <1>4, <1>8, Cited09
<1>11. Draft09(Citing(Citing(body, "policy", r), "account", s), 0, 50000, A)
  BY <1>4, <1>10, Cited09
<1>12. Draft09(Citing(Citing(Citing(body, "policy", r), "account", s), "outputs", u), 0, 50000, A)
  BY <1>4, <1>11, Cited09
<1> QED
  BY <1>1, <1>9, <1>12

(* v0.9, the chapter on priority, with its third-level heading.            *)
LEMMA V09PriorityIs == Draft09(V09Priority, 60000, 70000, {60000, 60100, 60101, 60300, 60400})
<1> DEFINE s == Chapter(5, "priority", <<"layers", "ranking", "nocross", "ties">>)
           A == {60000, 60100, 60300, 60400}
           num == <<5, 1>>
           g == V09General
           R == Refs09
           f == Key09
           new == Under(s, num, "general")
<1>1. V09Priority = Citing(new, "general", g)
  BY DEF V09Priority
<1>2. Draft(11, {}, f, s, 60000, 70000, A, R)
  BY Chapters09Are
<1>3. Room3(11, {}, f, "general", 5, 1, 60101, 60000, 70000, A)
  <2>1. "general" \in Topic /\ f["general"] = 60101
    BY Key09Is DEF Topic, KeyIn09
  <2> HIDE DEF f
  <2> QED
    BY <2>1 DEF Room3
<1>4. A \cup {60101} = {60000, 60100, 60101, 60300, 60400} /\ {} \cup {60101} = {60101}
  OBVIOUS
<1>5. num = <<5, 1>>
  OBVIOUS
<1>6. g \subseteq Refs09
  BY Refs09Parts
<1> HIDE DEF s, A, num, g, f, R
<1>7. Draft(11, {} \cup {60101}, f, new, 60000, 70000, A \cup {60101}, R)
  BY <1>2, <1>3, <1>5, DraftUnder
<1> HIDE DEF new
<1>8. Draft09(new, 60000, 70000, {60000, 60100, 60101, 60300, 60400})
  BY <1>4, <1>7 DEF Draft09, f, R
<1> QED
  BY <1>1, <1>6, <1>8, Cited09

(* v0.9, chapters 4 to 6.                                                  *)
LEMMA V09Chapters4to6Is ==
  Draft09(V09Chapters4to6, 50000, 80000, {50000, 50300, 60000, 60100, 60101, 60300, 60400, 70000})
<1> DEFINE a == Chapter(4, "calculation", <<"components", "bearer", "probes">>)
           r == {Ref(<<5, 3>>, "nocross")}
           b == V09Priority
           c == Chapter(6, "lookup", <<"steps", "descent", "cached">>)
           ac == Citing(a, "components", r)
<1>1. V09Chapters4to6 = (ac \o b) \o c
  BY DEF V09Chapters4to6
<1>2. /\ Draft09(a, 50000, 60000, {50000, 50300}) /\ Draft09(c, 70000, 80000, {70000})
      /\ Draft09(b, 60000, 70000, {60000, 60100, 60101, 60300, 60400})
  BY Chapters09Are, V09PriorityIs
<1>3. r \subseteq Refs09
  BY Refs09Parts
<1> HIDE DEF a, b, c, r
<1>4. Draft09(ac, 50000, 60000, {50000, 50300})
  BY <1>2, <1>3, Cited09
<1> HIDE DEF ac
<1>5. Draft09(ac \o b, 50000, 70000, {50000, 50300} \cup {60000, 60100, 60101, 60300, 60400})
  BY <1>2, <1>4, Joined09
<1> DEFINE A == ({50000, 50300} \cup {60000, 60100, 60101, 60300, 60400}) \cup {70000}
<1>6. Draft09((ac \o b) \o c, 50000, 80000, A)
  BY <1>2, <1>5, Joined09
<1>7. A = {50000, 50300, 60000, 60100, 60101, 60300, 60400, 70000}
  OBVIOUS
<1> HIDE DEF A
<1> QED
  BY <1>1, <1>6, <1>7

(* v0.9, chapters 7 to 11.                                                 *)
LEMMA V09Chapters7to11Is ==
  Draft09(V09Chapters7to11, 80000, 130000, {80000, 90000, 100000, 100500, 110000, 120000})
<1> DEFINE a == Chapter(7, "enrolling",
       <<"applying", "joining", "dormant", "targets", "qualified">>)
           b == Chapter(8, "period", <<>>)
           c == Chapter(9, "negotiated",
              <<"lifecycle", "request", "approval", "extension", "metrics">>)
           d == Chapter(10, "cache", <<>>)
           e == Chapter(11, "register", <<"workflow">>)
           r == {Ref(<<8>>, "period")}
           s == {Ref(<<9>>, "negotiated")}
           body == (((a \o b) \o c) \o d) \o e
<1>1. V09Chapters7to11 = Citing(Citing(body, "joining", r), "qualified", s)
  BY DEF V09Chapters7to11
<1>2. /\ Draft09(a, 80000, 90000, {80000}) /\ Draft09(b, 90000, 100000, {90000})
      /\ Draft09(c, 100000, 110000, {100000, 100500}) /\ Draft09(d, 110000, 120000, {110000})
      /\ Draft09(e, 120000, 130000, {120000})
  BY Chapters09Are
<1>3. r \subseteq Refs09 /\ s \subseteq Refs09
  BY Refs09Parts
<1> HIDE DEF a, b, c, d, e, r, s
<1>4. Draft09(a \o b, 80000, 100000, {80000} \cup {90000})
  BY <1>2, Joined09
<1>5. Draft09((a \o b) \o c, 80000, 110000, ({80000} \cup {90000}) \cup {100000, 100500})
  BY <1>2, <1>4, Joined09
<1>6. Draft09(((a \o b) \o c) \o d, 80000, 120000,
              (({80000} \cup {90000}) \cup {100000, 100500}) \cup {110000})
  BY <1>2, <1>5, Joined09
<1> DEFINE A == ((({80000} \cup {90000}) \cup {100000, 100500}) \cup {110000}) \cup {120000}
<1>7. Draft09(body, 80000, 130000, A)
  BY <1>2, <1>6, Joined09
<1>8. A = {80000, 90000, 100000, 100500, 110000, 120000}
  OBVIOUS
<1> HIDE DEF body, A
<1>9. Draft09(Citing(body, "joining", r), 80000, 130000, A)
  BY <1>3, <1>7, Cited09
<1>10. Draft09(Citing(Citing(body, "joining", r), "qualified", s), 80000, 130000, A)
  BY <1>3, <1>9, Cited09
<1> QED
  BY <1>1, <1>8, <1>10

-----------------------------------------------------------------------------
(* v0.7, chapter by chapter *)

(* Where v0.7 has each of its headings.                                   *)
KeyIn07(topic) ==
  CASE topic = "terms" -> 6
    [] topic = "overview" -> 10000 [] topic = "premise" -> 10100 [] topic = "start" -> 10200
    [] topic = "survey" -> 10300
    [] topic = "process" -> 20000 [] topic = "glance" -> 20100 [] topic = "layers" -> 20200
    [] topic = "kinds" -> 20300 [] topic = "settings" -> 20400 [] topic = "joining" -> 20500
    [] topic = "period" -> 20600 [] topic = "activation" -> 20700 [] topic = "negotiated" -> 20800
    [] topic = "dormant" -> 20900 [] topic = "roles" -> 21000 [] topic = "ties" -> 20201
    [] topic = "workflow" -> 20701
    [] topic = "data" -> 30000 [] topic = "bundles" -> 30100 [] topic = "whyboard" -> 30200
    [] topic = "tables" -> 30300
    [] topic = "applying" -> 40000
    [] topic = "architecture" -> 50000 [] topic = "principle" -> 50100
    [] topic = "boundary" -> 50200 [] topic = "scale" -> 50300 [] topic = "keys" -> 50400
    [] topic = "misses" -> 50500 [] topic = "fewEvents" -> 50600
    [] topic = "lookup" -> 60000 [] topic = "hits" -> 60100 [] topic = "example" -> 60200
    [] topic = "detail" -> 60300
    [] OTHER -> 290000

Key07 == [topic \in Topic |-> KeyIn07(topic)]

Refs07 ==
  {Ref(<<4, 5>>, "misses"),
   Ref(<<1, 2, 1>>, "ties")}

Draft07(s, lo, hi, A) == Draft(5, {20201, 20701}, Key07, s, lo, hi, A, Refs07)

(* Where each subject stands in v0.7.                                      *)
LEMMA Key07Is == \A topic \in Topic : Key07[topic] = KeyIn07(topic)
BY DEF Key07

(* The six chapters of v0.7, one by one, before references and third-level *)
(* headings are put in.                                                    *)
LEMMA Chapters07Are ==
  /\ Draft07(Chapter(0, "overview", <<"premise", "start", "survey">>), 10000, 20000, {10000})
  /\ Draft(5, {}, Key07,
        Chapter(1, "process",
           <<"glance", "layers", "kinds", "settings", "joining", "period", "activation",
              "negotiated", "dormant", "roles">>), 20000, 30000, {20000, 20200, 20700}, Refs07)
  /\ Draft07(Chapter(2, "data", <<"bundles", "whyboard", "tables">>), 30000, 40000, {30000})
  /\ Draft07(Chapter(3, "applying", <<>>), 40000, 50000, {40000})
  /\ Draft07(
        Chapter(4, "architecture",
           <<"principle", "boundary", "scale", "keys", "misses", "fewEvents">>), 50000, 60000,
              {50000, 50500})
  /\ Draft07(Chapter(5, "lookup", <<"hits", "example", "detail">>), 60000, 70000, {60000})
<1>1. Draft07(Chapter(0, "overview", <<"premise", "start", "survey">>), 10000, 20000, {10000})
  <2> DEFINE subs == <<"premise", "start", "survey">>
           key == Key07
           cited == Refs07
  <2>1. subs \in Seq(Topic) /\ Len(subs) = 3
    BY DEF Topic
  <2>3. "overview" \in Topic /\ key["overview"] = 10000
    BY Key07Is DEF Topic, KeyIn07
  <2>2. \A k \in 1..3 : key[subs[k]] = 10000 + 100 * k
    <3>1. subs[1] = "premise" /\ subs[2] = "start" /\ subs[3] = "survey"
      OBVIOUS
    <3>2. /\ key["premise"] = 10100
          /\ key["start"] = 10200
          /\ key["survey"] = 10300
      BY Key07Is DEF Topic, KeyIn07
    <3> HIDE DEF subs, key
    <3> QED
      BY <3>1, <3>2
  <2> HIDE DEF subs, key, cited
  <2>4. PlanOf(5, {}, key, 0, "overview", subs, 10000, 20000)
    BY <2>1, <2>2, <2>3 DEF PlanOf
  <2> DEFINE new == Chapter(0, "overview", subs)
  <2>5. Draft(5, {}, key, new, 10000, 20000, Steps(10000, Len(subs)), cited)
    BY <2>4, DraftChapter
  <2> HIDE DEF new
  <2>6. Draft(5, {}, key, new, 10000, 20000, Steps(10000, 3), cited)
    BY <2>1, <2>5
  <2>7. {10000} \subseteq Steps(10000, 3)
    <3>1. 10000 \in Steps(10000, 3)
      <4>1. StepOf(10000, 10000, 3, 0)
        BY DEF StepOf
      <4> QED
        BY <4>1, StepIs
    <3> QED
      BY <3>1
  <2>8. Draft(5, {20201, 20701}, key, new, 10000, 20000, {10000}, cited)
    BY <2>6, <2>7, DraftWider
  <2> QED
    BY <2>8 DEF new, subs, key, cited, Draft07
<1>2. Draft(5, {}, Key07,
        Chapter(1, "process",
           <<"glance", "layers", "kinds", "settings", "joining", "period", "activation",
              "negotiated", "dormant", "roles">>), 20000, 30000, {20000, 20200, 20700}, Refs07)
  <2> DEFINE subs == <<"glance", "layers", "kinds", "settings", "joining", "period",
         "activation", "negotiated", "dormant", "roles">>
           key == Key07
           cited == Refs07
  <2>1. subs \in Seq(Topic) /\ Len(subs) = 10
    BY DEF Topic
  <2>3. "process" \in Topic /\ key["process"] = 20000
    BY Key07Is DEF Topic, KeyIn07
  <2>2. \A k \in 1..10 : key[subs[k]] = 20000 + 100 * k
    <3>1. subs[1] = "glance" /\ subs[2] = "layers" /\ subs[3] = "kinds" /\ subs[4] = "settings"
             /\ subs[5] = "joining" /\ subs[6] = "period" /\ subs[7] = "activation"
                /\ subs[8] = "negotiated" /\ subs[9] = "dormant" /\ subs[10] = "roles"
      OBVIOUS
    <3>2. /\ key["glance"] = 20100
          /\ key["layers"] = 20200
          /\ key["kinds"] = 20300
          /\ key["settings"] = 20400
          /\ key["joining"] = 20500
          /\ key["period"] = 20600
          /\ key["activation"] = 20700
          /\ key["negotiated"] = 20800
          /\ key["dormant"] = 20900
          /\ key["roles"] = 21000
      BY Key07Is DEF Topic, KeyIn07
    <3> HIDE DEF subs, key
    <3> QED
      BY <3>1, <3>2
  <2> HIDE DEF subs, key, cited
  <2>4. PlanOf(5, {}, key, 1, "process", subs, 20000, 30000)
    BY <2>1, <2>2, <2>3 DEF PlanOf
  <2> DEFINE new == Chapter(1, "process", subs)
  <2>5. Draft(5, {}, key, new, 20000, 30000, Steps(20000, Len(subs)), cited)
    BY <2>4, DraftChapter
  <2> HIDE DEF new
  <2>6. Draft(5, {}, key, new, 20000, 30000, Steps(20000, 10), cited)
    BY <2>1, <2>5
  <2>7. {20000, 20200, 20700} \subseteq Steps(20000, 10)
    <3>1. 20000 \in Steps(20000, 10)
      <4>1. StepOf(20000, 20000, 10, 0)
        BY DEF StepOf
      <4> QED
        BY <4>1, StepIs
    <3>2. 20200 \in Steps(20000, 10)
      <4>1. StepOf(20200, 20000, 10, 2)
        BY DEF StepOf
      <4> QED
        BY <4>1, StepIs
    <3>3. 20700 \in Steps(20000, 10)
      <4>1. StepOf(20700, 20000, 10, 7)
        BY DEF StepOf
      <4> QED
        BY <4>1, StepIs
    <3> QED
      BY <3>1, <3>2, <3>3
  <2>8. Draft(5, {}, key, new, 20000, 30000, {20000, 20200, 20700}, cited)
    BY <2>6, <2>7, DraftWider
  <2> QED
    BY <2>8 DEF new, subs, key, cited, Draft07
<1>3. Draft07(Chapter(2, "data", <<"bundles", "whyboard", "tables">>), 30000, 40000, {30000})
  <2> DEFINE subs == <<"bundles", "whyboard", "tables">>
           key == Key07
           cited == Refs07
  <2>1. subs \in Seq(Topic) /\ Len(subs) = 3
    BY DEF Topic
  <2>3. "data" \in Topic /\ key["data"] = 30000
    BY Key07Is DEF Topic, KeyIn07
  <2>2. \A k \in 1..3 : key[subs[k]] = 30000 + 100 * k
    <3>1. subs[1] = "bundles" /\ subs[2] = "whyboard" /\ subs[3] = "tables"
      OBVIOUS
    <3>2. /\ key["bundles"] = 30100
          /\ key["whyboard"] = 30200
          /\ key["tables"] = 30300
      BY Key07Is DEF Topic, KeyIn07
    <3> HIDE DEF subs, key
    <3> QED
      BY <3>1, <3>2
  <2> HIDE DEF subs, key, cited
  <2>4. PlanOf(5, {}, key, 2, "data", subs, 30000, 40000)
    BY <2>1, <2>2, <2>3 DEF PlanOf
  <2> DEFINE new == Chapter(2, "data", subs)
  <2>5. Draft(5, {}, key, new, 30000, 40000, Steps(30000, Len(subs)), cited)
    BY <2>4, DraftChapter
  <2> HIDE DEF new
  <2>6. Draft(5, {}, key, new, 30000, 40000, Steps(30000, 3), cited)
    BY <2>1, <2>5
  <2>7. {30000} \subseteq Steps(30000, 3)
    <3>1. 30000 \in Steps(30000, 3)
      <4>1. StepOf(30000, 30000, 3, 0)
        BY DEF StepOf
      <4> QED
        BY <4>1, StepIs
    <3> QED
      BY <3>1
  <2>8. Draft(5, {20201, 20701}, key, new, 30000, 40000, {30000}, cited)
    BY <2>6, <2>7, DraftWider
  <2> QED
    BY <2>8 DEF new, subs, key, cited, Draft07
<1>4. Draft07(Chapter(3, "applying", <<>>), 40000, 50000, {40000})
  <2> DEFINE subs == <<>>
           key == Key07
           cited == Refs07
  <2>1. subs \in Seq(Topic) /\ Len(subs) = 0
    OBVIOUS
  <2>3. "applying" \in Topic /\ key["applying"] = 40000
    BY Key07Is DEF Topic, KeyIn07
  <2>2. \A k \in 1..0 : key[subs[k]] = 40000 + 100 * k
    OBVIOUS
  <2> HIDE DEF subs, key, cited
  <2>4. PlanOf(5, {}, key, 3, "applying", subs, 40000, 50000)
    BY <2>1, <2>2, <2>3 DEF PlanOf
  <2> DEFINE new == Chapter(3, "applying", subs)
  <2>5. Draft(5, {}, key, new, 40000, 50000, Steps(40000, Len(subs)), cited)
    BY <2>4, DraftChapter
  <2> HIDE DEF new
  <2>6. Draft(5, {}, key, new, 40000, 50000, Steps(40000, 0), cited)
    BY <2>1, <2>5
  <2>7. {40000} \subseteq Steps(40000, 0)
    <3>1. 40000 \in Steps(40000, 0)
      <4>1. StepOf(40000, 40000, 0, 0)
        BY DEF StepOf
      <4> QED
        BY <4>1, StepIs
    <3> QED
      BY <3>1
  <2>8. Draft(5, {20201, 20701}, key, new, 40000, 50000, {40000}, cited)
    BY <2>6, <2>7, DraftWider
  <2> QED
    BY <2>8 DEF new, subs, key, cited, Draft07
<1>5. Draft07(
        Chapter(4, "architecture",
           <<"principle", "boundary", "scale", "keys", "misses", "fewEvents">>), 50000, 60000,
              {50000, 50500})
  <2> DEFINE subs == <<"principle", "boundary", "scale", "keys", "misses", "fewEvents">>
           key == Key07
           cited == Refs07
  <2>1. subs \in Seq(Topic) /\ Len(subs) = 6
    BY DEF Topic
  <2>3. "architecture" \in Topic /\ key["architecture"] = 50000
    BY Key07Is DEF Topic, KeyIn07
  <2>2. \A k \in 1..6 : key[subs[k]] = 50000 + 100 * k
    <3>1. subs[1] = "principle" /\ subs[2] = "boundary" /\ subs[3] = "scale" /\ subs[4] = "keys"
             /\ subs[5] = "misses" /\ subs[6] = "fewEvents"
      OBVIOUS
    <3>2. /\ key["principle"] = 50100
          /\ key["boundary"] = 50200
          /\ key["scale"] = 50300
          /\ key["keys"] = 50400
          /\ key["misses"] = 50500
          /\ key["fewEvents"] = 50600
      BY Key07Is DEF Topic, KeyIn07
    <3> HIDE DEF subs, key
    <3> QED
      BY <3>1, <3>2
  <2> HIDE DEF subs, key, cited
  <2>4. PlanOf(5, {}, key, 4, "architecture", subs, 50000, 60000)
    BY <2>1, <2>2, <2>3 DEF PlanOf
  <2> DEFINE new == Chapter(4, "architecture", subs)
  <2>5. Draft(5, {}, key, new, 50000, 60000, Steps(50000, Len(subs)), cited)
    BY <2>4, DraftChapter
  <2> HIDE DEF new
  <2>6. Draft(5, {}, key, new, 50000, 60000, Steps(50000, 6), cited)
    BY <2>1, <2>5
  <2>7. {50000, 50500} \subseteq Steps(50000, 6)
    <3>1. 50000 \in Steps(50000, 6)
      <4>1. StepOf(50000, 50000, 6, 0)
        BY DEF StepOf
      <4> QED
        BY <4>1, StepIs
    <3>2. 50500 \in Steps(50000, 6)
      <4>1. StepOf(50500, 50000, 6, 5)
        BY DEF StepOf
      <4> QED
        BY <4>1, StepIs
    <3> QED
      BY <3>1, <3>2
  <2>8. Draft(5, {20201, 20701}, key, new, 50000, 60000, {50000, 50500}, cited)
    BY <2>6, <2>7, DraftWider
  <2> QED
    BY <2>8 DEF new, subs, key, cited, Draft07
<1>6. Draft07(Chapter(5, "lookup", <<"hits", "example", "detail">>), 60000, 70000, {60000})
  <2> DEFINE subs == <<"hits", "example", "detail">>
           key == Key07
           cited == Refs07
  <2>1. subs \in Seq(Topic) /\ Len(subs) = 3
    BY DEF Topic
  <2>3. "lookup" \in Topic /\ key["lookup"] = 60000
    BY Key07Is DEF Topic, KeyIn07
  <2>2. \A k \in 1..3 : key[subs[k]] = 60000 + 100 * k
    <3>1. subs[1] = "hits" /\ subs[2] = "example" /\ subs[3] = "detail"
      OBVIOUS
    <3>2. /\ key["hits"] = 60100
          /\ key["example"] = 60200
          /\ key["detail"] = 60300
      BY Key07Is DEF Topic, KeyIn07
    <3> HIDE DEF subs, key
    <3> QED
      BY <3>1, <3>2
  <2> HIDE DEF subs, key, cited
  <2>4. PlanOf(5, {}, key, 5, "lookup", subs, 60000, 70000)
    BY <2>1, <2>2, <2>3 DEF PlanOf
  <2> DEFINE new == Chapter(5, "lookup", subs)
  <2>5. Draft(5, {}, key, new, 60000, 70000, Steps(60000, Len(subs)), cited)
    BY <2>4, DraftChapter
  <2> HIDE DEF new
  <2>6. Draft(5, {}, key, new, 60000, 70000, Steps(60000, 3), cited)
    BY <2>1, <2>5
  <2>7. {60000} \subseteq Steps(60000, 3)
    <3>1. 60000 \in Steps(60000, 3)
      <4>1. StepOf(60000, 60000, 3, 0)
        BY DEF StepOf
      <4> QED
        BY <4>1, StepIs
    <3> QED
      BY <3>1
  <2>8. Draft(5, {20201, 20701}, key, new, 60000, 70000, {60000}, cited)
    BY <2>6, <2>7, DraftWider
  <2> QED
    BY <2>8 DEF new, subs, key, cited, Draft07
<1> QED
  BY <1>1, <1>2, <1>3, <1>4, <1>5, <1>6

(* The references v0.7 writes are references.                              *)
LEMMA Refs07Are == Refs07 \subseteq Cite
<1>1. "misses" \in Topic /\ "ties" \in Topic
  BY DEF Topic
<1>2. <<4, 5>> \in Seq(Nat) /\ <<1, 2, 1>> \in Seq(Nat)
  OBVIOUS
<1> QED
  BY <1>1, <1>2, RefIs DEF Refs07

(* Putting references of v0.7 into a draft of v0.7 leaves it the draft it  *)
(* was.                                                                    *)
LEMMA Cited07 ==
  ASSUME NEW s, NEW lo, NEW hi, NEW A, Draft07(s, lo, hi, A), NEW topic, NEW refs,
     refs \subseteq Refs07
  PROVE  Draft07(Citing(s, topic, refs), lo, hi, A)
<1>1. refs \in SUBSET Cite
  BY Refs07Are
<1> QED
  BY <1>1, DraftCited DEF Draft07

(* Two drafts of v0.7, one after the other, make one.                      *)
LEMMA Joined07 ==
  ASSUME NEW s, NEW t, NEW lo, NEW mid, NEW hi, NEW A, NEW B, Draft07(s, lo, mid, A),
     Draft07(t, mid, hi, B)
  PROVE  Draft07(s \o t, lo, hi, A \cup B)
BY DraftConcat DEF Draft07

(* v0.7, the chapter on the process, with its two third-level headings.    *)
LEMMA V07ProcessIs == Draft07(V07Process, 20000, 30000, {20000, 20200, 20201, 20700, 20701})
<1> DEFINE s == Chapter(1, "process",
                  <<"glance", "layers", "kinds", "settings", "joining", "period", "activation",
                    "negotiated", "dormant", "roles">>)
           A == {20000, 20200, 20700}
           m == <<1, 2>>
           n == <<1, 7>>
           R == Refs07
           f == Key07
           a == Under(s, m, "ties")
           b == Under(a, n, "workflow")
           B == {20000, 20200, 20201, 20700}
           C == {20000, 20200, 20201, 20700, 20701}
           D == {20201}
           E == {20201, 20701}
<1>1. V07Process = b
  BY DEF V07Process
<1>2. Draft(5, {}, f, s, 20000, 30000, A, R)
  BY Chapters07Are
<1>3. Room3(5, {}, f, "ties", 1, 2, 20201, 20000, 30000, A)
  <2>1. "ties" \in Topic /\ f["ties"] = 20201
    BY Key07Is DEF Topic, KeyIn07
  <2> HIDE DEF f
  <2> QED
    BY <2>1 DEF Room3
<1>4. Room3(5, D, f, "workflow", 1, 7, 20701, 20000, 30000, B)
  <2>1. "workflow" \in Topic /\ f["workflow"] = 20701
    BY Key07Is DEF Topic, KeyIn07
  <2> HIDE DEF f
  <2> QED
    BY <2>1 DEF Room3
<1>5. {} \cup {20201} = D /\ A \cup {20201} = B /\ D \cup {20701} = E /\ B \cup {20701} = C
  OBVIOUS
<1>6. m = <<1, 2>> /\ n = <<1, 7>>
  OBVIOUS
<1>7. \A x, A1 : Draft(5, E, f, x, 20000, 30000, A1, R) => Draft07(x, 20000, 30000, A1)
  BY DEF Draft07
<1> HIDE DEF s, A, m, n, f, R, B, C, D, E
<1>8. Draft(5, {} \cup {20201}, f, a, 20000, 30000, A \cup {20201}, R)
  BY <1>2, <1>3, <1>6, DraftUnder
<1>9. Draft(5, D, f, a, 20000, 30000, B, R)
  BY <1>5, <1>8
<1> HIDE DEF a
<1>10. Draft(5, D \cup {20701}, f, b, 20000, 30000, B \cup {20701}, R)
  BY <1>4, <1>6, <1>9, DraftUnder
<1> HIDE DEF b
<1>11. Draft07(b, 20000, 30000, C)
  BY <1>5, <1>7, <1>10
<1> QED
  BY <1>1, <1>11 DEF C

(* v0.7, chapters 2 to 5.                                                  *)
LEMMA V07Chapters2to5Is ==
  Draft07(V07Chapters2to5, 30000, 70000, {30000, 40000, 50000, 50500, 60000})
<1> DEFINE a == Chapter(2, "data", <<"bundles", "whyboard", "tables">>)
           b == Chapter(3, "applying", <<>>)
           c == Chapter(4, "architecture",
                  <<"principle", "boundary", "scale", "keys", "misses", "fewEvents">>)
           d == Chapter(5, "lookup", <<"hits", "example", "detail">>)
           r == {Ref(<<4, 5>>, "misses")}
           s == {Ref(<<1, 2, 1>>, "ties")}
           body == ((a \o b) \o c) \o d
<1>1. V07Chapters2to5 = Citing(Citing(body, "fewEvents", r), "lookup", s)
  BY DEF V07Chapters2to5
<1>2. /\ Draft07(a, 30000, 40000, {30000}) /\ Draft07(b, 40000, 50000, {40000})
      /\ Draft07(c, 50000, 60000, {50000, 50500}) /\ Draft07(d, 60000, 70000, {60000})
  BY Chapters07Are
<1>3. r \subseteq Refs07 /\ s \subseteq Refs07
  BY DEF Refs07
<1> HIDE DEF a, b, c, d, r, s
<1>4. Draft07(a \o b, 30000, 50000, {30000} \cup {40000})
  BY <1>2, Joined07
<1>5. Draft07((a \o b) \o c, 30000, 60000, ({30000} \cup {40000}) \cup {50000, 50500})
  BY <1>2, <1>4, Joined07
<1> DEFINE A == (({30000} \cup {40000}) \cup {50000, 50500}) \cup {60000}
<1>6. Draft07(body, 30000, 70000, A)
  BY <1>2, <1>5, Joined07
<1>7. A = {30000, 40000, 50000, 50500, 60000}
  OBVIOUS
<1> HIDE DEF body, A
<1>8. Draft07(Citing(body, "fewEvents", r), 30000, 70000, A)
  BY <1>3, <1>6, Cited07
<1>9. Draft07(Citing(Citing(body, "fewEvents", r), "lookup", s), 30000, 70000, A)
  BY <1>3, <1>8, Cited07
<1> QED
  BY <1>1, <1>7, <1>9

Met07 == {10000, 20000, 20200, 20201, 20700, 20701, 30000, 40000, 50000, 50500, 60000}

(* v0.7 is one draft, with every key its references need.                  *)
LEMMA BodyOf07 == Draft07(V07.body, 0, 300000, Met07)
<1> DEFINE t == <<Unnumbered(2, "terms")>>
           a == Chapter(0, "overview", <<"premise", "start", "survey">>)
           b == V07Process
           c == V07Chapters2to5
           body == ((t \o a) \o b) \o c
<1>1. V07.body = body
  BY DEF V07, Edition
<1>2. Draft07(t, 0, 10000, {})
  <2>1. Key07["terms"] = 6
    BY Key07Is DEF Topic, KeyIn07
  <2> HIDE DEF t
  <2> QED
    BY <2>1, DraftTerms DEF Draft07, t
<1>3. /\ Draft07(a, 10000, 20000, {10000})
      /\ Draft07(b, 20000, 30000, {20000, 20200, 20201, 20700, 20701})
      /\ Draft07(c, 30000, 70000, {30000, 40000, 50000, 50500, 60000})
  BY Chapters07Are, V07ProcessIs, V07Chapters2to5Is
<1> HIDE DEF t, a, b, c
<1>4. Draft07(t \o a, 0, 20000, {} \cup {10000})
  BY <1>2, <1>3, Joined07
<1>5. Draft07((t \o a) \o b, 0, 30000, ({} \cup {10000}) \cup {20000, 20200, 20201, 20700, 20701})
  BY <1>3, <1>4, Joined07
<1> DEFINE A == (({} \cup {10000}) \cup {20000, 20200, 20201, 20700, 20701})
                  \cup {30000, 40000, 50000, 50500, 60000}
<1>6. Draft07(body, 0, 70000, A)
  BY <1>3, <1>5, Joined07
<1>7. A = Met07
  BY DEF Met07
<1> HIDE DEF body, A
<1>8. Draft07(body, 0, 300000, Met07)
  BY <1>6, <1>7, DraftWider DEF Draft07
<1> QED
  BY <1>1, <1>8

Met09 ==
  {10000, 20000, 30000, 30300, 40000, 50000, 50300, 60000, 60100, 60101, 60300, 60400, 70000,
   80000, 90000, 100000, 100500, 110000, 120000}

(* v0.9 is one draft, with every key its references need.                  *)
LEMMA BodyOf09 == Draft09(V09.body, 0, 300000, Met09)
<1> DEFINE a == V09Chapters0to3
           b == V09Chapters4to6
           c == V09Chapters7to11
           body == (a \o b) \o c
<1>1. V09.body = body
  BY DEF V09, Edition
<1>2. /\ Draft09(a, 0, 50000, {10000, 20000, 30000, 30300, 40000})
      /\ Draft09(b, 50000, 80000, {50000, 50300, 60000, 60100, 60101, 60300, 60400, 70000})
      /\ Draft09(c, 80000, 130000, {80000, 90000, 100000, 100500, 110000, 120000})
  BY V09Chapters0to3Is, V09Chapters4to6Is, V09Chapters7to11Is
<1> HIDE DEF a, b, c
<1>3. Draft09(a \o b, 0, 80000, {10000, 20000, 30000, 30300, 40000}
                                  \cup {50000, 50300, 60000, 60100, 60101, 60300, 60400, 70000})
  BY <1>2, Joined09
<1> DEFINE A == ({10000, 20000, 30000, 30300, 40000}
                   \cup {50000, 50300, 60000, 60100, 60101, 60300, 60400, 70000})
                  \cup {80000, 90000, 100000, 100500, 110000, 120000}
<1>4. Draft09(body, 0, 130000, A)
  BY <1>2, <1>3, Joined09
<1>5. A = Met09
  BY DEF Met09
<1> HIDE DEF body, A
<1>6. Draft09(body, 0, 300000, Met09)
  BY <1>4, <1>5, DraftWider DEF Draft09
<1> QED
  BY <1>1, <1>6

-----------------------------------------------------------------------------
(* The references of the first editions *)

(* The parts of a number written out.                                      *)
LEMMA PartsOfNum ==
  /\ \A c \in 0..20 : \A num : num = <<c>> => Parts(num, c, 0, 0)
  /\ \A c \in 0..20, k \in 1..90 : \A num : num = <<c, k>> => Parts(num, c, k, 0)
  /\ \A c \in 0..20, k \in 1..90, l \in 1..90 : \A num : num = <<c, k, l>> => Parts(num, c, k, l)
<1>1. ASSUME NEW c \in 0..20, NEW num, num = <<c>> PROVE Parts(num, c, 0, 0)
  <2>1. num \in Seq(Nat) /\ Len(num) = 1 /\ num[1] = c
    BY <1>1
  <2>2. Height(num) = 10000 * (c + 1) + 100 * 0 + 0
    BY <2>1 DEF Height, Second, Third
  <2> QED
    BY <2>1, <2>2 DEF Parts
<1>2. ASSUME NEW c \in 0..20, NEW k \in 1..90, NEW num, num = <<c, k>> PROVE Parts(num, c, k, 0)
  <2>1. num \in Seq(Nat) /\ Len(num) = 2 /\ num[1] = c /\ num[2] = k
    BY <1>2
  <2>2. Height(num) = 10000 * (c + 1) + 100 * k + 0
    BY <2>1 DEF Height, Second, Third
  <2> QED
    BY <2>1, <2>2 DEF Parts
<1>3. ASSUME NEW c \in 0..20, NEW k \in 1..90, NEW l \in 1..90, NEW num, num = <<c, k, l>>
      PROVE  Parts(num, c, k, l)
  <2>1. num \in Seq(Nat) /\ Len(num) = 3 /\ num[1] = c /\ num[2] = k /\ num[3] = l
    BY <1>3
  <2>2. Height(num) = 10000 * (c + 1) + 100 * k + l
    BY <2>1 DEF Height, Second, Third
  <2> QED
    BY <2>1, <2>2 DEF Parts
<1> QED
  BY <1>1, <1>2, <1>3, Zenon

(* v0.9 is a first edition of its subjects and cites only what it lists.   *)
LEMMA EditionOf09 == EditionOf(11, {60101}, Key09, Met09, V09.body) /\ Cites(V09.body, Refs09)
<1> DEFINE body == V09.body
           f == Key09
           R == Refs09
           D == {60101}
           A == Met09
<1>1. Draft(11, D, f, body, 0, 300000, A, R)
  BY BodyOf09 DEF Draft09
<1>2. Chapterly(0, 11) \subseteq A
  BY DEF Chapterly, Met09
<1>3. ASSUME NEW d \in D PROVE d - 1 \in A /\ \E c \in 0..20,
         k \in 1..90 : d = 10000 * (c + 1) + 100 * k + 1
  <2>1. 5 \in 0..20 /\ 1 \in 1..90 /\ 60101 = 10000 * (5 + 1) + 100 * 1 + 1 /\ 60101 - 1 \in A
    BY DEF Met09
  <2> HIDE DEF A
  <2> QED
    BY <2>1
<1> HIDE DEF body, f, R, D, A
<1>4. 11 \in 0..20
  OBVIOUS
<1>5. Piece(HeadsOf(11, D, f), body, 0, 300000, A) /\ Cites(body, R)
  BY <1>1 DEF Draft
<1>6. EditionOf(11, D, f, A, body)
  BY <1>2, <1>3, <1>4, <1>5 DEF EditionOf
<1> QED
  BY <1>5, <1>6 DEF body, f, R, D, A

(* Every reference of v0.9 means a heading v0.9 has.                       *)
LEMMA Meant09 == \A r \in Refs09 : \E c, k, l : Meant(Key09, Met09, r, c, k, l)
<1> DEFINE f == Key09
           A == Met09
<1>1. Meant(f, A, Ref(<<2, 3>>, "account"), 2, 3, 0)
  <2> DEFINE num == <<2, 3>>
           r == Ref(num, "account")
  <2>1. 2 \in 0..20 /\ 3 \in 0..90 /\ 0 \in 0..90 /\ 10000 * (2 + 1) + 100 * 3 + 0 \in A
    BY DEF Met09
  <2>2. \A topic \in Topic : f[topic] = 10000 * (2 + 1) + 100 * 3 + 0 => topic = "account"
    BY Key09Is DEF KeyIn09
  <2>3. Parts(num, 2, 3, 0)
    <3>1. num = <<2, 3>> /\ 2 \in 0..20 /\ 3 \in 1..90
      OBVIOUS
    <3> HIDE DEF num
    <3> QED
      BY <3>1, PartsOfNum, Zenon
  <2>4. r.num = num /\ r.to = "account"
    BY DEF Ref
  <2>5. r = Ref(<<2, 3>>, "account")
    OBVIOUS
  <2> HIDE DEF f, A, num, r
  <2>6. Meant(f, A, r, 2, 3, 0)
    BY <2>1, <2>2, <2>3, <2>4 DEF Meant
  <2> QED
    BY <2>5, <2>6
<1>2. Meant(f, A, Ref(<<7>>, "enrolling"), 7, 0, 0)
  <2> DEFINE num == <<7>>
           r == Ref(num, "enrolling")
  <2>1. 7 \in 0..20 /\ 0 \in 0..90 /\ 0 \in 0..90 /\ 10000 * (7 + 1) + 100 * 0 + 0 \in A
    BY DEF Met09
  <2>2. \A topic \in Topic : f[topic] = 10000 * (7 + 1) + 100 * 0 + 0 => topic = "enrolling"
    BY Key09Is DEF KeyIn09
  <2>3. Parts(num, 7, 0, 0)
    <3>1. num = <<7>> /\ 7 \in 0..20
      OBVIOUS
    <3> HIDE DEF num
    <3> QED
      BY <3>1, PartsOfNum, Zenon
  <2>4. r.num = num /\ r.to = "enrolling"
    BY DEF Ref
  <2>5. r = Ref(<<7>>, "enrolling")
    OBVIOUS
  <2> HIDE DEF f, A, num, r
  <2>6. Meant(f, A, r, 7, 0, 0)
    BY <2>1, <2>2, <2>3, <2>4 DEF Meant
  <2> QED
    BY <2>5, <2>6
<1>3. Meant(f, A, Ref(<<8>>, "period"), 8, 0, 0)
  <2> DEFINE num == <<8>>
           r == Ref(num, "period")
  <2>1. 8 \in 0..20 /\ 0 \in 0..90 /\ 0 \in 0..90 /\ 10000 * (8 + 1) + 100 * 0 + 0 \in A
    BY DEF Met09
  <2>2. \A topic \in Topic : f[topic] = 10000 * (8 + 1) + 100 * 0 + 0 => topic = "period"
    BY Key09Is DEF KeyIn09
  <2>3. Parts(num, 8, 0, 0)
    <3>1. num = <<8>> /\ 8 \in 0..20
      OBVIOUS
    <3> HIDE DEF num
    <3> QED
      BY <3>1, PartsOfNum, Zenon
  <2>4. r.num = num /\ r.to = "period"
    BY DEF Ref
  <2>5. r = Ref(<<8>>, "period")
    OBVIOUS
  <2> HIDE DEF f, A, num, r
  <2>6. Meant(f, A, r, 8, 0, 0)
    BY <2>1, <2>2, <2>3, <2>4 DEF Meant
  <2> QED
    BY <2>5, <2>6
<1>4. Meant(f, A, Ref(<<9>>, "negotiated"), 9, 0, 0)
  <2> DEFINE num == <<9>>
           r == Ref(num, "negotiated")
  <2>1. 9 \in 0..20 /\ 0 \in 0..90 /\ 0 \in 0..90 /\ 10000 * (9 + 1) + 100 * 0 + 0 \in A
    BY DEF Met09
  <2>2. \A topic \in Topic : f[topic] = 10000 * (9 + 1) + 100 * 0 + 0 => topic = "negotiated"
    BY Key09Is DEF KeyIn09
  <2>3. Parts(num, 9, 0, 0)
    <3>1. num = <<9>> /\ 9 \in 0..20
      OBVIOUS
    <3> HIDE DEF num
    <3> QED
      BY <3>1, PartsOfNum, Zenon
  <2>4. r.num = num /\ r.to = "negotiated"
    BY DEF Ref
  <2>5. r = Ref(<<9>>, "negotiated")
    OBVIOUS
  <2> HIDE DEF f, A, num, r
  <2>6. Meant(f, A, r, 9, 0, 0)
    BY <2>1, <2>2, <2>3, <2>4 DEF Meant
  <2> QED
    BY <2>5, <2>6
<1>5. Meant(f, A, Ref(<<9, 5>>, "metrics"), 9, 5, 0)
  <2> DEFINE num == <<9, 5>>
           r == Ref(num, "metrics")
  <2>1. 9 \in 0..20 /\ 5 \in 0..90 /\ 0 \in 0..90 /\ 10000 * (9 + 1) + 100 * 5 + 0 \in A
    BY DEF Met09
  <2>2. \A topic \in Topic : f[topic] = 10000 * (9 + 1) + 100 * 5 + 0 => topic = "metrics"
    BY Key09Is DEF KeyIn09
  <2>3. Parts(num, 9, 5, 0)
    <3>1. num = <<9, 5>> /\ 9 \in 0..20 /\ 5 \in 1..90
      OBVIOUS
    <3> HIDE DEF num
    <3> QED
      BY <3>1, PartsOfNum, Zenon
  <2>4. r.num = num /\ r.to = "metrics"
    BY DEF Ref
  <2>5. r = Ref(<<9, 5>>, "metrics")
    OBVIOUS
  <2> HIDE DEF f, A, num, r
  <2>6. Meant(f, A, r, 9, 5, 0)
    BY <2>1, <2>2, <2>3, <2>4 DEF Meant
  <2> QED
    BY <2>5, <2>6
<1>6. Meant(f, A, Ref(<<5>>, "priority"), 5, 0, 0)
  <2> DEFINE num == <<5>>
           r == Ref(num, "priority")
  <2>1. 5 \in 0..20 /\ 0 \in 0..90 /\ 0 \in 0..90 /\ 10000 * (5 + 1) + 100 * 0 + 0 \in A
    BY DEF Met09
  <2>2. \A topic \in Topic : f[topic] = 10000 * (5 + 1) + 100 * 0 + 0 => topic = "priority"
    BY Key09Is DEF KeyIn09
  <2>3. Parts(num, 5, 0, 0)
    <3>1. num = <<5>> /\ 5 \in 0..20
      OBVIOUS
    <3> HIDE DEF num
    <3> QED
      BY <3>1, PartsOfNum, Zenon
  <2>4. r.num = num /\ r.to = "priority"
    BY DEF Ref
  <2>5. r = Ref(<<5>>, "priority")
    OBVIOUS
  <2> HIDE DEF f, A, num, r
  <2>6. Meant(f, A, r, 5, 0, 0)
    BY <2>1, <2>2, <2>3, <2>4 DEF Meant
  <2> QED
    BY <2>5, <2>6
<1>7. Meant(f, A, Ref(<<4, 3>>, "probes"), 4, 3, 0)
  <2> DEFINE num == <<4, 3>>
           r == Ref(num, "probes")
  <2>1. 4 \in 0..20 /\ 3 \in 0..90 /\ 0 \in 0..90 /\ 10000 * (4 + 1) + 100 * 3 + 0 \in A
    BY DEF Met09
  <2>2. \A topic \in Topic : f[topic] = 10000 * (4 + 1) + 100 * 3 + 0 => topic = "probes"
    BY Key09Is DEF KeyIn09
  <2>3. Parts(num, 4, 3, 0)
    <3>1. num = <<4, 3>> /\ 4 \in 0..20 /\ 3 \in 1..90
      OBVIOUS
    <3> HIDE DEF num
    <3> QED
      BY <3>1, PartsOfNum, Zenon
  <2>4. r.num = num /\ r.to = "probes"
    BY DEF Ref
  <2>5. r = Ref(<<4, 3>>, "probes")
    OBVIOUS
  <2> HIDE DEF f, A, num, r
  <2>6. Meant(f, A, r, 4, 3, 0)
    BY <2>1, <2>2, <2>3, <2>4 DEF Meant
  <2> QED
    BY <2>5, <2>6
<1>8. Meant(f, A, Ref(<<5, 3>>, "nocross"), 5, 3, 0)
  <2> DEFINE num == <<5, 3>>
           r == Ref(num, "nocross")
  <2>1. 5 \in 0..20 /\ 3 \in 0..90 /\ 0 \in 0..90 /\ 10000 * (5 + 1) + 100 * 3 + 0 \in A
    BY DEF Met09
  <2>2. \A topic \in Topic : f[topic] = 10000 * (5 + 1) + 100 * 3 + 0 => topic = "nocross"
    BY Key09Is DEF KeyIn09
  <2>3. Parts(num, 5, 3, 0)
    <3>1. num = <<5, 3>> /\ 5 \in 0..20 /\ 3 \in 1..90
      OBVIOUS
    <3> HIDE DEF num
    <3> QED
      BY <3>1, PartsOfNum, Zenon
  <2>4. r.num = num /\ r.to = "nocross"
    BY DEF Ref
  <2>5. r = Ref(<<5, 3>>, "nocross")
    OBVIOUS
  <2> HIDE DEF f, A, num, r
  <2>6. Meant(f, A, r, 5, 3, 0)
    BY <2>1, <2>2, <2>3, <2>4 DEF Meant
  <2> QED
    BY <2>5, <2>6
<1>9. Meant(f, A, Ref(<<5, 4>>, "ties"), 5, 4, 0)
  <2> DEFINE num == <<5, 4>>
           r == Ref(num, "ties")
  <2>1. 5 \in 0..20 /\ 4 \in 0..90 /\ 0 \in 0..90 /\ 10000 * (5 + 1) + 100 * 4 + 0 \in A
    BY DEF Met09
  <2>2. \A topic \in Topic : f[topic] = 10000 * (5 + 1) + 100 * 4 + 0 => topic = "ties"
    BY Key09Is DEF KeyIn09
  <2>3. Parts(num, 5, 4, 0)
    <3>1. num = <<5, 4>> /\ 5 \in 0..20 /\ 4 \in 1..90
      OBVIOUS
    <3> HIDE DEF num
    <3> QED
      BY <3>1, PartsOfNum, Zenon
  <2>4. r.num = num /\ r.to = "ties"
    BY DEF Ref
  <2>5. r = Ref(<<5, 4>>, "ties")
    OBVIOUS
  <2> HIDE DEF f, A, num, r
  <2>6. Meant(f, A, r, 5, 4, 0)
    BY <2>1, <2>2, <2>3, <2>4 DEF Meant
  <2> QED
    BY <2>5, <2>6
<1>10. Meant(f, A, Ref(<<11>>, "register"), 11, 0, 0)
  <2> DEFINE num == <<11>>
           r == Ref(num, "register")
  <2>1. 11 \in 0..20 /\ 0 \in 0..90 /\ 0 \in 0..90 /\ 10000 * (11 + 1) + 100 * 0 + 0 \in A
    BY DEF Met09
  <2>2. \A topic \in Topic : f[topic] = 10000 * (11 + 1) + 100 * 0 + 0 => topic = "register"
    BY Key09Is DEF KeyIn09
  <2>3. Parts(num, 11, 0, 0)
    <3>1. num = <<11>> /\ 11 \in 0..20
      OBVIOUS
    <3> HIDE DEF num
    <3> QED
      BY <3>1, PartsOfNum, Zenon
  <2>4. r.num = num /\ r.to = "register"
    BY DEF Ref
  <2>5. r = Ref(<<11>>, "register")
    OBVIOUS
  <2> HIDE DEF f, A, num, r
  <2>6. Meant(f, A, r, 11, 0, 0)
    BY <2>1, <2>2, <2>3, <2>4 DEF Meant
  <2> QED
    BY <2>5, <2>6
<1> HIDE DEF f, A
<1>11. \A r \in Refs09 : \E c, k, l : Meant(f, A, r, c, k, l)
  BY <1>1, <1>2, <1>3, <1>4, <1>5, <1>6, <1>7, <1>8, <1>9, <1>10 DEF Refs09
<1> QED
  BY <1>11 DEF f, A

(* As written, v0.9 has its chapters in order and no broken reference.     *)
LEMMA First09 == Ranked(V09.body) /\ InOrder(V09.body) /\ Broken(V09.body) = {}
BY EditionOf09, Meant09, EditionRanked, EditionInOrder, NoneBroken

(* v0.7 is a first edition of its subjects and cites only what it lists.   *)
LEMMA EditionOf07 == EditionOf(5, {20201, 20701}, Key07, Met07, V07.body) /\ Cites(V07.body, Refs07)
<1> DEFINE body == V07.body
           f == Key07
           R == Refs07
           D == {20201, 20701}
           A == Met07
<1>1. Draft(5, D, f, body, 0, 300000, A, R)
  BY BodyOf07 DEF Draft07
<1>2. Chapterly(0, 5) \subseteq A
  BY DEF Chapterly, Met07
<1>3. ASSUME NEW d \in D PROVE d - 1 \in A /\ \E c \in 0..20,
         k \in 1..90 : d = 10000 * (c + 1) + 100 * k + 1
  <2>1. 1 \in 0..20 /\ 2 \in 1..90 /\ 20201 = 10000 * (1 + 1) + 100 * 2 + 1 /\ 20201 - 1 \in A
    BY DEF Met07
  <2>2. 1 \in 0..20 /\ 7 \in 1..90 /\ 20701 = 10000 * (1 + 1) + 100 * 7 + 1 /\ 20701 - 1 \in A
    BY DEF Met07
  <2> HIDE DEF A
  <2> QED
    BY <2>1, <2>2
<1> HIDE DEF body, f, R, D, A
<1>4. 5 \in 0..20
  OBVIOUS
<1>5. Piece(HeadsOf(5, D, f), body, 0, 300000, A) /\ Cites(body, R)
  BY <1>1 DEF Draft
<1>6. EditionOf(5, D, f, A, body)
  BY <1>2, <1>3, <1>4, <1>5 DEF EditionOf
<1> QED
  BY <1>5, <1>6 DEF body, f, R, D, A

(* Every reference of v0.7 means a heading v0.7 has.                       *)
LEMMA Meant07 == \A r \in Refs07 : \E c, k, l : Meant(Key07, Met07, r, c, k, l)
<1> DEFINE f == Key07
           A == Met07
<1>1. Meant(f, A, Ref(<<4, 5>>, "misses"), 4, 5, 0)
  <2> DEFINE num == <<4, 5>>
           r == Ref(num, "misses")
  <2>1. 4 \in 0..20 /\ 5 \in 0..90 /\ 0 \in 0..90 /\ 10000 * (4 + 1) + 100 * 5 + 0 \in A
    BY DEF Met07
  <2>2. \A topic \in Topic : f[topic] = 10000 * (4 + 1) + 100 * 5 + 0 => topic = "misses"
    BY Key07Is DEF KeyIn07
  <2>3. Parts(num, 4, 5, 0)
    <3>1. num = <<4, 5>> /\ 4 \in 0..20 /\ 5 \in 1..90
      OBVIOUS
    <3> HIDE DEF num
    <3> QED
      BY <3>1, PartsOfNum, Zenon
  <2>4. r.num = num /\ r.to = "misses"
    BY DEF Ref
  <2>5. r = Ref(<<4, 5>>, "misses")
    OBVIOUS
  <2> HIDE DEF f, A, num, r
  <2>6. Meant(f, A, r, 4, 5, 0)
    BY <2>1, <2>2, <2>3, <2>4 DEF Meant
  <2> QED
    BY <2>5, <2>6
<1>2. Meant(f, A, Ref(<<1, 2, 1>>, "ties"), 1, 2, 1)
  <2> DEFINE num == <<1, 2, 1>>
           r == Ref(num, "ties")
  <2>1. 1 \in 0..20 /\ 2 \in 0..90 /\ 1 \in 0..90 /\ 10000 * (1 + 1) + 100 * 2 + 1 \in A
    BY DEF Met07
  <2>2. \A topic \in Topic : f[topic] = 10000 * (1 + 1) + 100 * 2 + 1 => topic = "ties"
    BY Key07Is DEF KeyIn07
  <2>3. Parts(num, 1, 2, 1)
    <3>1. num = <<1, 2, 1>> /\ 1 \in 0..20 /\ 2 \in 1..90 /\ 1 \in 1..90
      OBVIOUS
    <3> HIDE DEF num
    <3> QED
      BY <3>1, PartsOfNum, Zenon
  <2>4. r.num = num /\ r.to = "ties"
    BY DEF Ref
  <2>5. r = Ref(<<1, 2, 1>>, "ties")
    OBVIOUS
  <2> HIDE DEF f, A, num, r
  <2>6. Meant(f, A, r, 1, 2, 1)
    BY <2>1, <2>2, <2>3, <2>4 DEF Meant
  <2> QED
    BY <2>5, <2>6
<1> HIDE DEF f, A
<1>3. \A r \in Refs07 : \E c, k, l : Meant(f, A, r, c, k, l)
  BY <1>1, <1>2 DEF Refs07
<1> QED
  BY <1>3 DEF f, A

(* As written, v0.7 has its chapters in order and no broken reference.     *)
LEMMA First07 == Ranked(V07.body) /\ InOrder(V07.body) /\ Broken(V07.body) = {}
BY EditionOf07, Meant07, EditionRanked, EditionInOrder, NoneBroken

(* Marking a body brings no reference.                                     *)
LEMMA CitesMarking ==
  ASSUME NEW R, NEW s, Cites(s, R), NEW topic, NEW marks \in SUBSET Mark
  PROVE  Cites(Marking(s, topic, marks), R)
<1> DEFINE new == Marking(s, topic, marks)
           more(x) == IF x.topic = topic THEN [x EXCEPT !.marks = @ \cup marks] ELSE x
<1>1. s \in Seq(Sec) /\ DOMAIN s = 1..Len(s) /\ \A i \in 1..Len(s) : s[i] \in Sec
  BY LenProperties DEF Cites
<1>2. new \in Seq(Sec)
  BY <1>1, MarkingIs
<1>3. DOMAIN new = 1..Len(s) /\ \A i \in 1..Len(s) : new[i] = more(s[i])
  BY <1>1 DEF Marking
<1>4. ASSUME NEW x \in Sec, x.refs \subseteq R PROVE more(x).refs \subseteq R
  BY <1>4 DEF Sec
<1> HIDE DEF new, more
<1>5. \A y \in ToSet(new) : y.refs \subseteq R
  <2> TAKE y \in ToSet(new)
  <2>1. PICK i \in 1..Len(new) : new[i] = y
    BY <1>2, Members
  <2>2. i \in 1..Len(s)
    BY <1>2, <1>3, Members
  <2>3. s[i] \in ToSet(s) /\ s[i] \in Sec
    BY <1>1, <2>2, Members
  <2>4. s[i].refs \subseteq R
    BY <2>3 DEF Cites
  <2> QED
    BY <1>3, <1>4, <2>1, <2>2, <2>3, <2>4
<1> QED
  BY <1>2, <1>5 DEF Cites, new

(* A chapter cites nothing before somebody adds references to it.          *)
LEMMA Uncited ==
  /\ Cites(Chapter(0, "overview", <<"premise", "start", "survey">>), {})
  /\ Cites(Chapter(1, "architecture", <<"principle", "whyboard", "boundary">>), {})
  /\ Cites(Chapter(2, "data", <<"schedule", "policy", "account", "outputs", "logic">>), {})
  /\ Cites(Chapter(3, "keys", <<"composition", "class", "axes">>), {})
  /\ Cites(Chapter(4, "calculation", <<"components", "bearer">>), {})
  /\ Cites(Chapter(5, "priority", <<"ranking", "gate", "contest">>), {})
  /\ Cites(Chapter(6, "lookup", <<"steps", "example">>), {})
  /\ Cites(Chapter(7, "enrolling", <<>>), {})
  /\ Cites(Chapter(8, "period", <<>>), {})
  /\ Cites(Chapter(9, "negotiated",
     <<"lifecycle", "request", "approval", "extension", "metrics">>), {})
  /\ Cites(Chapter(10, "batch", <<"full", "incremental">>), {})
  /\ Cites(Chapter(11, "register", <<>>), {})
<1>1. Cites(Chapter(0, "overview", <<"premise", "start", "survey">>), {})
  <2> DEFINE subs == <<"premise", "start", "survey">>
  <2>1. subs \in Seq(Topic) /\ Len(subs) <= 90 /\ 0 \in 0..20 /\ "overview" \in Topic
    BY DEF Topic
  <2> HIDE DEF subs
  <2>2. Cites(Chapter(0, "overview", subs), {})
    BY <2>1, CitesChapter
  <2> QED
    BY <2>2 DEF subs
<1>2. Cites(Chapter(1, "architecture", <<"principle", "whyboard", "boundary">>), {})
  <2> DEFINE subs == <<"principle", "whyboard", "boundary">>
  <2>1. subs \in Seq(Topic) /\ Len(subs) <= 90 /\ 1 \in 0..20 /\ "architecture" \in Topic
    BY DEF Topic
  <2> HIDE DEF subs
  <2>2. Cites(Chapter(1, "architecture", subs), {})
    BY <2>1, CitesChapter
  <2> QED
    BY <2>2 DEF subs
<1>3. Cites(Chapter(2, "data", <<"schedule", "policy", "account", "outputs", "logic">>), {})
  <2> DEFINE subs == <<"schedule", "policy", "account", "outputs", "logic">>
  <2>1. subs \in Seq(Topic) /\ Len(subs) <= 90 /\ 2 \in 0..20 /\ "data" \in Topic
    BY DEF Topic
  <2> HIDE DEF subs
  <2>2. Cites(Chapter(2, "data", subs), {})
    BY <2>1, CitesChapter
  <2> QED
    BY <2>2 DEF subs
<1>4. Cites(Chapter(3, "keys", <<"composition", "class", "axes">>), {})
  <2> DEFINE subs == <<"composition", "class", "axes">>
  <2>1. subs \in Seq(Topic) /\ Len(subs) <= 90 /\ 3 \in 0..20 /\ "keys" \in Topic
    BY DEF Topic
  <2> HIDE DEF subs
  <2>2. Cites(Chapter(3, "keys", subs), {})
    BY <2>1, CitesChapter
  <2> QED
    BY <2>2 DEF subs
<1>5. Cites(Chapter(4, "calculation", <<"components", "bearer">>), {})
  <2> DEFINE subs == <<"components", "bearer">>
  <2>1. subs \in Seq(Topic) /\ Len(subs) <= 90 /\ 4 \in 0..20 /\ "calculation" \in Topic
    BY DEF Topic
  <2> HIDE DEF subs
  <2>2. Cites(Chapter(4, "calculation", subs), {})
    BY <2>1, CitesChapter
  <2> QED
    BY <2>2 DEF subs
<1>6. Cites(Chapter(5, "priority", <<"ranking", "gate", "contest">>), {})
  <2> DEFINE subs == <<"ranking", "gate", "contest">>
  <2>1. subs \in Seq(Topic) /\ Len(subs) <= 90 /\ 5 \in 0..20 /\ "priority" \in Topic
    BY DEF Topic
  <2> HIDE DEF subs
  <2>2. Cites(Chapter(5, "priority", subs), {})
    BY <2>1, CitesChapter
  <2> QED
    BY <2>2 DEF subs
<1>7. Cites(Chapter(6, "lookup", <<"steps", "example">>), {})
  <2> DEFINE subs == <<"steps", "example">>
  <2>1. subs \in Seq(Topic) /\ Len(subs) <= 90 /\ 6 \in 0..20 /\ "lookup" \in Topic
    BY DEF Topic
  <2> HIDE DEF subs
  <2>2. Cites(Chapter(6, "lookup", subs), {})
    BY <2>1, CitesChapter
  <2> QED
    BY <2>2 DEF subs
<1>8. Cites(Chapter(7, "enrolling", <<>>), {})
  <2> DEFINE subs == <<>>
  <2>1. subs \in Seq(Topic) /\ Len(subs) <= 90 /\ 7 \in 0..20 /\ "enrolling" \in Topic
    BY DEF Topic
  <2> HIDE DEF subs
  <2>2. Cites(Chapter(7, "enrolling", subs), {})
    BY <2>1, CitesChapter
  <2> QED
    BY <2>2 DEF subs
<1>9. Cites(Chapter(8, "period", <<>>), {})
  <2> DEFINE subs == <<>>
  <2>1. subs \in Seq(Topic) /\ Len(subs) <= 90 /\ 8 \in 0..20 /\ "period" \in Topic
    BY DEF Topic
  <2> HIDE DEF subs
  <2>2. Cites(Chapter(8, "period", subs), {})
    BY <2>1, CitesChapter
  <2> QED
    BY <2>2 DEF subs
<1>10. Cites(Chapter(9, "negotiated",
          <<"lifecycle", "request", "approval", "extension", "metrics">>), {})
  <2> DEFINE subs == <<"lifecycle", "request", "approval", "extension", "metrics">>
  <2>1. subs \in Seq(Topic) /\ Len(subs) <= 90 /\ 9 \in 0..20 /\ "negotiated" \in Topic
    BY DEF Topic
  <2> HIDE DEF subs
  <2>2. Cites(Chapter(9, "negotiated", subs), {})
    BY <2>1, CitesChapter
  <2> QED
    BY <2>2 DEF subs
<1>11. Cites(Chapter(10, "batch", <<"full", "incremental">>), {})
  <2> DEFINE subs == <<"full", "incremental">>
  <2>1. subs \in Seq(Topic) /\ Len(subs) <= 90 /\ 10 \in 0..20 /\ "batch" \in Topic
    BY DEF Topic
  <2> HIDE DEF subs
  <2>2. Cites(Chapter(10, "batch", subs), {})
    BY <2>1, CitesChapter
  <2> QED
    BY <2>2 DEF subs
<1>12. Cites(Chapter(11, "register", <<>>), {})
  <2> DEFINE subs == <<>>
  <2>1. subs \in Seq(Topic) /\ Len(subs) <= 90 /\ 11 \in 0..20 /\ "register" \in Topic
    BY DEF Topic
  <2> HIDE DEF subs
  <2>2. Cites(Chapter(11, "register", subs), {})
    BY <2>1, CitesChapter
  <2> QED
    BY <2>2 DEF subs
<1> QED
  BY <1>1, <1>2, <1>3, <1>4, <1>5, <1>6, <1>7, <1>8, <1>9, <1>10, <1>11, <1>12

(* v1.3 cites nothing.                                                     *)
LEMMA NothingCited == Cites(V13.body, {})
<1>0. /\ \A s, t : Cites(s, {}) /\ Cites(t, {}) => Cites(s \o t, {})
      /\ \A s, topic : \A marks \in SUBSET Mark : Cites(s, {})
         => Cites(Marking(s, topic, marks), {})
  BY CitesConcat, CitesMarking
<1>1. Cites(V13Front, {})
  <2> DEFINE x == Unnumbered(1, "summary")
             y == Unnumbered(2, "terms")
             z == Unnumbered(1, "contents")
             num == <<>>
             body == <<x, y, z>>
             marks == {"intro", "why", "trans"}
  <2>1. num \in Seq(Nat) /\ "summary" \in Topic /\ "terms" \in Topic /\ "contents" \in Topic
    BY DEF Topic
  <2>2. x = Section(1, num, "summary") /\ y = Section(2, num, "terms")
           /\ z = Section(1, num, "contents")
    BY DEF Unnumbered
  <2>3. V13Front = Marking(body, "summary", marks)
    BY DEF V13Front
  <2>4. marks \in SUBSET Mark
    BY DEF Mark
  <2> HIDE DEF x, y, z, num, marks
  <2>5. x \in Sec /\ y \in Sec /\ z \in Sec /\ x.refs = {} /\ y.refs = {} /\ z.refs = {}
    <3>1. \A level \in Nat, topic \in Topic : Section(level, num, topic) \in Sec
             /\ Section(level, num, topic).refs = {}
      BY <2>1, SectionIs
    <3> QED
      BY <2>1, <2>2, <3>1
  <2>6. body \in Seq(Sec) /\ Len(body) = 3 /\ body[1] = x /\ body[2] = y /\ body[3] = z
    BY <2>5
  <2> HIDE DEF body
  <2>7. \A o \in ToSet(body) : o = x \/ o = y \/ o = z
    BY <2>6, Members
  <2>8. Cites(body, {})
    BY <2>5, <2>6, <2>7 DEF Cites
  <2> QED
    BY <1>0, <2>3, <2>4, <2>8
<1>2. Cites(V13Chapters0to2, {})
  <2> DEFINE a == Chapter(0, "overview", <<"premise", "start", "survey">>)
             b == Chapter(1, "architecture", <<"principle", "whyboard", "boundary">>)
             c == Chapter(2, "data", <<"schedule", "policy", "account", "outputs", "logic">>)
             marks == {"axisTable", "perStock"}
  <2>1. V13Chapters0to2 = Marking((a \o b) \o c, "logic", marks) /\ marks \in SUBSET Mark
    BY DEF V13Chapters0to2, Mark
  <2>2. Cites(a, {}) /\ Cites(b, {}) /\ Cites(c, {})
    BY Uncited
  <2> HIDE DEF a, b, c, marks
  <2>3. Cites((a \o b) \o c, {})
    BY <1>0, <2>2
  <2> QED
    BY <1>0, <2>1, <2>3
<1>3. Cites(V13Chapters3to6, {})
  <2> DEFINE a == Chapter(3, "keys", <<"composition", "class", "axes">>)
             b == Chapter(4, "calculation", <<"components", "bearer">>)
             c == Chapter(5, "priority", <<"ranking", "gate", "contest">>)
             d == Chapter(6, "lookup", <<"steps", "example">>)
             body == ((a \o b) \o c) \o d
             m == {"arrives"}
             n == {"side"}
             k == {"noRow"}
             l == {"note", "option", "etf"}
  <2>1. /\ V13Chapters3to6 = Marking(Marking(Marking(Marking(body, "composition", m), "axes", n),
           "steps", k), "example", l)
        /\ m \in SUBSET Mark /\ n \in SUBSET Mark /\ k \in SUBSET Mark /\ l \in SUBSET Mark
    BY DEF V13Chapters3to6, Mark
  <2>2. Cites(a, {}) /\ Cites(b, {}) /\ Cites(c, {}) /\ Cites(d, {})
    BY Uncited
  <2> HIDE DEF a, b, c, d, m, n, k, l
  <2>3. Cites(body, {})
    <3>1. Cites((a \o b) \o c, {})
      BY <1>0, <2>2
    <3> QED
      BY <1>0, <2>2, <3>1
  <2> HIDE DEF body
  <2>4. Cites(Marking(Marking(body, "composition", m), "axes", n), {})
    BY <1>0, <2>1, <2>3
  <2> QED
    BY <1>0, <2>1, <2>4
<1>4. Cites(V13Chapters7to11, {})
  <2> DEFINE a == Chapter(7, "enrolling", <<>>)
             b == Chapter(8, "period", <<>>)
             c == Chapter(9, "negotiated",
                <<"lifecycle", "request", "approval", "extension", "metrics">>)
             d == Chapter(10, "batch", <<"full", "incremental">>)
             e == Chapter(11, "register", <<>>)
             body == (((a \o b) \o c) \o d) \o e
             m == {"cellRule", "numbered"}
             n == {"draft", "perStock", "end"}
  <2>1. /\ V13Chapters7to11 = Marking(Marking(body, "full", m), "register", n)
        /\ m \in SUBSET Mark /\ n \in SUBSET Mark
    BY DEF V13Chapters7to11, Mark
  <2>2. Cites(a, {}) /\ Cites(b, {}) /\ Cites(c, {}) /\ Cites(d, {}) /\ Cites(e, {})
    BY Uncited
  <2> HIDE DEF a, b, c, d, e, m, n
  <2>3. Cites(body, {})
    <3>1. Cites((a \o b) \o c, {})
      BY <1>0, <2>2
    <3>2. Cites(((a \o b) \o c) \o d, {})
      BY <1>0, <2>2, <3>1
    <3> QED
      BY <1>0, <2>2, <3>2
  <2> HIDE DEF body
  <2> QED
    BY <1>0, <2>1, <2>3
<1> DEFINE f == V13Front
           a == V13Chapters0to2
           b == V13Chapters3to6
           c == V13Chapters7to11
<1>5. V13.body = ((f \o a) \o b) \o c
  BY DEF V13
<1>6. Cites(f, {}) /\ Cites(a, {}) /\ Cites(b, {}) /\ Cites(c, {})
  BY <1>1, <1>2, <1>3, <1>4
<1> HIDE DEF f, a, b, c
<1>7. Cites((f \o a) \o b, {})
  BY <1>0, <1>6
<1> QED
  BY <1>0, <1>5, <1>6, <1>7

(* As written, v1.3 has no broken reference.                               *)
LEMMA First13 == Broken(V13.body) = {}
<1>1. V13.body \in Seq(Sec) /\ \A x \in ToSet(V13.body) : x.refs \subseteq {}
  BY NothingCited DEF Cites
<1>2. \A i \in DOMAIN V13.body : V13.body[i] \in ToSet(V13.body)
  BY <1>1, LenProperties, Members
<1>3. RefsOf(V13.body) = {}
  BY <1>1, <1>2 DEF RefsOf
<1> QED
  BY <1>3 DEF Broken

-----------------------------------------------------------------------------
(* Sound documents *)

(* What is known of every file of the chain *)

Firsts == {"0.7", "0.9"}

(* A file of a version: its wording, and the layout of its headings.       *)
Sound(v, d) ==
  /\ v \in Versions /\ Wording(v, d)
  /\ v \in Firsts => Ranked(d.body)
  /\ v \notin Firsts => Layout(Age(v), d.body)

(* The layouts are numbered 3 to 12 along the chain from v1.3 to the       *)
(* second proposal.                                                        *)
LEMMA Ages ==
  /\ \A v \in Versions \ Firsts : Age(v) \in 3..12
  /\ Age("1.3") = 3 /\ Age("1.4") = 4 /\ Age("1.5") = 5 /\ Age("1.6") = 6 /\ Age("1.7") = 7
  /\ Age("1.8") = 8 /\ Age("1.9") = 9 /\ Age("2.0") = 10 /\ Age("p1") = 11 /\ Age("p2") = 12
BY DEF Age, Versions, Written, Derived, Firsts

(* Each derived version reads the one before it in the chain.              *)
LEMMA Sources ==
  /\ Source["1.4"] = "1.3" /\ Source["1.5"] = "1.4" /\ Source["1.6"] = "1.5"
     /\ Source["1.7"] = "1.6"
  /\ Source["1.8"] = "1.7" /\ Source["1.9"] = "1.8" /\ Source["2.0"] = "1.9" /\ Source["p1"] = "2.0"
  /\ Source["p2"] = "p1"
  /\ \A v \in Derived : Source[v] \in Versions \ Firsts
BY DEF Source, Derived, Versions, Written, Firsts

(* What a from-scratch script writes is sound.                             *)
LEMMA SoundNew ==
  ASSUME NEW v \in Written
  PROVE  Sound(v, New(v))
<1>1. "0.7" \in Versions /\ "0.9" \in Versions /\ "1.3" \in Versions
  BY DEF Versions, Written
<1>2. Sound("0.7", V07)
  BY <1>1, First07, WordingOfNew DEF Sound, Firsts
<1>3. Sound("0.9", V09)
  BY <1>1, First09, WordingOfNew DEF Sound, Firsts
<1>4. Sound("1.3", V13)
  BY <1>1, LayoutOf13, WordingOfNew, Ages DEF Sound, Firsts
<1>5. New("0.7") = V07 /\ New("0.9") = V09 /\ New("1.3") = V13
  BY DEF New
<1> QED
  BY <1>2, <1>3, <1>4, <1>5 DEF Written

(* What a script carries over and adds.                                    *)
HandedOn(v, old, new) ==
  new = (old \ {"summary", "proposal"})
          \cup (Added[v] \cup (IF v \in Proposals THEN {} ELSE {"summary"}))

(* The chain of the eight editions in between keeps the summary.           *)
LEMMA HandedOnIs ==
  ASSUME NEW v \in Derived \ Proposals, NEW old, NEW new, new = old \cup Added[v],
         "summary" \in old, "proposal" \notin old
  PROVE  HandedOn(v, old, new)
BY DEF HandedOn

(* What each script adds to the subjects of the document it reads.         *)
LEMMA Addeds ==
  /\ Added["1.4"] = {} /\ Added["1.5"] = {"scale", "appendix"} /\ Added["1.6"] = {"storage"}
  /\ Added["1.7"] = {"candidates"} /\ Added["1.8"] = {"physical"} /\ Added["1.9"] = {"journey"}
  /\ Added["2.0"] = {"massive"} /\ Added["p1"] = {"proposal"} /\ Added["p2"] = Front5
BY DEF Added, Derived, Front5

(* The summary stands until the proposal takes its place.                  *)
LEMMA Summarised ==
  ASSUME NEW n \in 3..12, NEW body, Layout(n, body)
  PROVE  /\ n <= 10 => "summary" \in Topics(body) /\ "proposal" \notin Topics(body)
         /\ n = 11 => "summary" \notin Topics(body)
<1>1. Topics(body) \subseteq Known(n) /\ LooseTopics(n) \subseteq Topics(body)
  BY TopicsKnown
<1>2. n <= 10 => "summary" \in LooseTopics(n)
  BY DEF LooseTopics
<1>3. n <= 10 => "proposal" \notin LooseTopics(n)
  BY DEF LooseTopics
<1>4. n = 11 => "summary" \notin LooseTopics(n)
  BY DEF LooseTopics
<1>5. "summary" \notin SubTopics(n) /\ "proposal" \notin SubTopics(n)
  BY DEF SubTopics
<1>6. "summary" \notin ChapterNames(n) /\ "proposal" \notin ChapterNames(n)
  BY DEF ChapterNames
<1> QED
  BY <1>1, <1>2, <1>3, <1>4, <1>5, <1>6 DEF Known

(* From v1.3 on, a sound document has its fields, its layout and its       *)
(* wording.                                                                *)
LEMMA SoundIs ==
  ASSUME NEW v \in Versions \ Firsts, NEW d, Sound(v, d)
  PROVE  Fields(d) /\ Layout(Age(v), d.body) /\ Wording(v, d)
BY DEF Sound, Wording

(* Every script makes a sound file of a sound one, and carries it over.    *)
LEMMA SoundOut ==
  ASSUME NEW v \in Derived, NEW d, Sound(Source[v], d), Anchored(v, d)
  PROVE  Sound(v, Out(v, d)) /\ HandedOn(v, Topics(d.body), Topics(Out(v, d).body))
<1>1. Source[v] \in Versions \ Firsts
  BY Sources
<1>2. Fields(d) /\ Layout(Age(Source[v]), d.body) /\ Wording(Source[v], d)
  BY <1>1, SoundIs
<1>3. Wording(v, Out(v, d))
  BY <1>2, WordingOfOut
<1>4. v \in Versions /\ v \notin Firsts
  BY DEF Derived, Versions, Firsts
<1>5. ASSUME Layout(Age(v), Out(v, d).body) PROVE Sound(v, Out(v, d))
  BY <1>3, <1>4, <1>5 DEF Sound
<1>6. CASE v = "1.4"
  <2> DEFINE new == V14(d)
  <2>1. Out(v, d) = new
    BY <1>6 DEF Out
  <2>2. Layout(3, d.body)
    BY <1>2, <1>6, Sources, Ages
  <2>3. TRUE
    OBVIOUS
  <2>4. Layout(4, new.body) /\ Topics(new.body) = Topics(d.body) \cup Added[v]
    BY <1>2, <1>6, <2>2, LayoutOf14, Addeds
  <2>5. Age(v) = 4
    BY <1>6, Ages
  <2> HIDE DEF new
  <2>6. Sound(v, new)
    BY <1>5, <2>1, <2>4, <2>5
  <2>7. "summary" \in Topics(d.body) /\ "proposal" \notin Topics(d.body)
    <3>1. 3 \in 3..12 /\ 3 <= 10
      OBVIOUS
    <3> QED
      BY <2>2, <3>1, Summarised
  <2>8. v \in Derived \ Proposals
    BY <1>6 DEF Derived, Proposals
  <2>9. HandedOn(v, Topics(d.body), Topics(new.body))
    BY <2>4, <2>7, <2>8, HandedOnIs
  <2> QED
    BY <2>1, <2>6, <2>9
<1>7. CASE v = "1.5"
  <2> DEFINE new == V15(d)
  <2>1. Out(v, d) = new
    BY <1>7 DEF Out
  <2>2. Layout(4, d.body)
    BY <1>2, <1>7, Sources, Ages
  <2>3. Anchored15(d)
    BY <1>7 DEF Anchored
  <2>4. Layout(5, new.body) /\ Topics(new.body) = Topics(d.body) \cup Added[v]
    BY <1>2, <1>7, <2>2, <2>3, LayoutOf15, Addeds
  <2>5. Age(v) = 5
    BY <1>7, Ages
  <2> HIDE DEF new
  <2>6. Sound(v, new)
    BY <1>5, <2>1, <2>4, <2>5
  <2>7. "summary" \in Topics(d.body) /\ "proposal" \notin Topics(d.body)
    <3>1. 4 \in 3..12 /\ 4 <= 10
      OBVIOUS
    <3> QED
      BY <2>2, <3>1, Summarised
  <2>8. v \in Derived \ Proposals
    BY <1>7 DEF Derived, Proposals
  <2>9. HandedOn(v, Topics(d.body), Topics(new.body))
    BY <2>4, <2>7, <2>8, HandedOnIs
  <2> QED
    BY <2>1, <2>6, <2>9
<1>8. CASE v = "1.6"
  <2> DEFINE new == V16(d)
  <2>1. Out(v, d) = new
    BY <1>8 DEF Out
  <2>2. Layout(5, d.body)
    BY <1>2, <1>8, Sources, Ages
  <2>3. Anchored16(d)
    BY <1>8 DEF Anchored
  <2>4. Layout(6, new.body) /\ Topics(new.body) = Topics(d.body) \cup Added[v]
    BY <1>2, <1>8, <2>2, <2>3, LayoutOf16, Addeds
  <2>5. Age(v) = 6
    BY <1>8, Ages
  <2> HIDE DEF new
  <2>6. Sound(v, new)
    BY <1>5, <2>1, <2>4, <2>5
  <2>7. "summary" \in Topics(d.body) /\ "proposal" \notin Topics(d.body)
    <3>1. 5 \in 3..12 /\ 5 <= 10
      OBVIOUS
    <3> QED
      BY <2>2, <3>1, Summarised
  <2>8. v \in Derived \ Proposals
    BY <1>8 DEF Derived, Proposals
  <2>9. HandedOn(v, Topics(d.body), Topics(new.body))
    BY <2>4, <2>7, <2>8, HandedOnIs
  <2> QED
    BY <2>1, <2>6, <2>9
<1>9. CASE v = "1.7"
  <2> DEFINE new == V17(d)
  <2>1. Out(v, d) = new
    BY <1>9 DEF Out
  <2>2. Layout(6, d.body)
    BY <1>2, <1>9, Sources, Ages
  <2>3. Anchored17(d)
    BY <1>9 DEF Anchored
  <2>4. Layout(7, new.body) /\ Topics(new.body) = Topics(d.body) \cup Added[v]
    BY <1>2, <1>9, <2>2, <2>3, LayoutOf17, Addeds
  <2>5. Age(v) = 7
    BY <1>9, Ages
  <2> HIDE DEF new
  <2>6. Sound(v, new)
    BY <1>5, <2>1, <2>4, <2>5
  <2>7. "summary" \in Topics(d.body) /\ "proposal" \notin Topics(d.body)
    <3>1. 6 \in 3..12 /\ 6 <= 10
      OBVIOUS
    <3> QED
      BY <2>2, <3>1, Summarised
  <2>8. v \in Derived \ Proposals
    BY <1>9 DEF Derived, Proposals
  <2>9. HandedOn(v, Topics(d.body), Topics(new.body))
    BY <2>4, <2>7, <2>8, HandedOnIs
  <2> QED
    BY <2>1, <2>6, <2>9
<1>10. CASE v = "1.8"
  <2> DEFINE new == V18(d)
  <2>1. Out(v, d) = new
    BY <1>10 DEF Out
  <2>2. Layout(7, d.body)
    BY <1>2, <1>10, Sources, Ages
  <2>3. Anchored18(d)
    BY <1>10 DEF Anchored
  <2>4. Layout(8, new.body) /\ Topics(new.body) = Topics(d.body) \cup Added[v]
    BY <1>2, <1>10, <2>2, <2>3, LayoutOf18, Addeds
  <2>5. Age(v) = 8
    BY <1>10, Ages
  <2> HIDE DEF new
  <2>6. Sound(v, new)
    BY <1>5, <2>1, <2>4, <2>5
  <2>7. "summary" \in Topics(d.body) /\ "proposal" \notin Topics(d.body)
    <3>1. 7 \in 3..12 /\ 7 <= 10
      OBVIOUS
    <3> QED
      BY <2>2, <3>1, Summarised
  <2>8. v \in Derived \ Proposals
    BY <1>10 DEF Derived, Proposals
  <2>9. HandedOn(v, Topics(d.body), Topics(new.body))
    BY <2>4, <2>7, <2>8, HandedOnIs
  <2> QED
    BY <2>1, <2>6, <2>9
<1>11. CASE v = "1.9"
  <2> DEFINE new == V19(d)
  <2>1. Out(v, d) = new
    BY <1>11 DEF Out
  <2>2. Layout(8, d.body)
    BY <1>2, <1>11, Sources, Ages
  <2>3. Anchored19(d)
    BY <1>11 DEF Anchored
  <2>4. Layout(9, new.body) /\ Topics(new.body) = Topics(d.body) \cup Added[v]
    BY <1>2, <1>11, <2>2, <2>3, LayoutOf19, Addeds
  <2>5. Age(v) = 9
    BY <1>11, Ages
  <2> HIDE DEF new
  <2>6. Sound(v, new)
    BY <1>5, <2>1, <2>4, <2>5
  <2>7. "summary" \in Topics(d.body) /\ "proposal" \notin Topics(d.body)
    <3>1. 8 \in 3..12 /\ 8 <= 10
      OBVIOUS
    <3> QED
      BY <2>2, <3>1, Summarised
  <2>8. v \in Derived \ Proposals
    BY <1>11 DEF Derived, Proposals
  <2>9. HandedOn(v, Topics(d.body), Topics(new.body))
    BY <2>4, <2>7, <2>8, HandedOnIs
  <2> QED
    BY <2>1, <2>6, <2>9
<1>12. CASE v = "2.0"
  <2> DEFINE new == V20(d)
  <2>1. Out(v, d) = new
    BY <1>12 DEF Out
  <2>2. Layout(9, d.body)
    BY <1>2, <1>12, Sources, Ages
  <2>3. Anchored20(d)
    BY <1>12 DEF Anchored
  <2>4. Layout(10, new.body) /\ Topics(new.body) = Topics(d.body) \cup Added[v]
    BY <1>2, <1>12, <2>2, <2>3, LayoutOf20, Addeds
  <2>5. Age(v) = 10
    BY <1>12, Ages
  <2> HIDE DEF new
  <2>6. Sound(v, new)
    BY <1>5, <2>1, <2>4, <2>5
  <2>7. "summary" \in Topics(d.body) /\ "proposal" \notin Topics(d.body)
    <3>1. 9 \in 3..12 /\ 9 <= 10
      OBVIOUS
    <3> QED
      BY <2>2, <3>1, Summarised
  <2>8. v \in Derived \ Proposals
    BY <1>12 DEF Derived, Proposals
  <2>9. HandedOn(v, Topics(d.body), Topics(new.body))
    BY <2>4, <2>7, <2>8, HandedOnIs
  <2> QED
    BY <2>1, <2>6, <2>9
<1>13. CASE v = "p1"
  <2> DEFINE new == P1(d)
  <2>1. Out(v, d) = new
    BY <1>13 DEF Out
  <2>2. Layout(10, d.body)
    BY <1>2, <1>13, Sources, Ages
  <2>3. TRUE
    OBVIOUS
  <2>4. Layout(11, new.body) /\ Topics(new.body) = (Topics(d.body) \ {"summary"}) \cup Added[v]
    BY <1>2, <1>13, <2>2, LayoutOfP1, Addeds
  <2>5. Age(v) = 11
    BY <1>13, Ages
  <2> HIDE DEF new
  <2>6. Sound(v, new)
    BY <1>5, <2>1, <2>4, <2>5
  <2>8. v \in Proposals
    BY <1>13 DEF Proposals
  <2>7. Added[v] = {"proposal"}
    BY <1>13, Addeds
  <2>9. HandedOn(v, Topics(d.body), Topics(new.body))
    BY <2>4, <2>7, <2>8 DEF HandedOn
  <2> QED
    BY <2>1, <2>6, <2>9
<1>14. CASE v = "p2"
  <2> DEFINE new == P2(d)
  <2>1. Out(v, d) = new
    BY <1>14 DEF Out
  <2>2. Layout(11, d.body)
    BY <1>2, <1>14, Sources, Ages
  <2>3. AnchoredP2(d)
    BY <1>14 DEF Anchored
  <2>4. Layout(12, new.body) /\ Topics(new.body) = (Topics(d.body) \ {"proposal"}) \cup Added[v]
    BY <1>2, <1>14, <2>2, <2>3, LayoutOfP2, Addeds
  <2>5. Age(v) = 12
    BY <1>14, Ages
  <2> HIDE DEF new
  <2>6. Sound(v, new)
    BY <1>5, <2>1, <2>4, <2>5
  <2>8. v \in Proposals
    BY <1>14 DEF Proposals
  <2>7. "summary" \notin Topics(d.body)
    <3>1. 11 \in 3..12 /\ 11 = 11
      OBVIOUS
    <3> QED
      BY <2>2, <3>1, Summarised
  <2>9. HandedOn(v, Topics(d.body), Topics(new.body))
    BY <2>4, <2>7, <2>8 DEF HandedOn
  <2> QED
    BY <2>1, <2>6, <2>9
<1> QED
  BY <1>6, <1>7, <1>8, <1>9, <1>10, <1>11, <1>12, <1>13, <1>14 DEF Derived

(* A sound document is sound after a pass through Word.                    *)
LEMMA SoundWord ==
  ASSUME NEW v, NEW d, Sound(v, d)
  PROVE  Sound(v, InWord(v, d)) /\ InWord(v, d).body = d.body
<1>1. v \in Versions /\ Wording(v, d) /\ Fields(d)
  BY DEF Sound, Wording
<1>2. InWord(v, d).body = d.body /\ Wording(v, InWord(v, d))
  BY <1>1, InWordIs, WordingOfWord
<1> QED
  BY <1>1, <1>2 DEF Sound

(* A file without one of its sections.                                     *)
Without(v, d, i) == [InWord(v, d) EXCEPT !.body = Cut(d.body, i)]

(* A sound document is sound after a second-level section was deleted and  *)
(* the gap closed.                                                         *)
LEMMA SoundCut ==
  ASSUME NEW v, NEW d, Sound(v, d), NEW i \in DOMAIN d.body, d.body[i].level = 2,
     d.body[i].num # <<>>
  PROVE  Sound(v, Without(v, d, i)) /\ Without(v, d, i).body = Cut(d.body, i)
<1>1. v \in Versions /\ Wording(v, d) /\ Fields(d)
  BY DEF Sound, Wording
<1>2. Without(v, d, i).body = Cut(d.body, i)
  BY <1>1, InWordIs DEF Without
<1>3. Wording(v, Without(v, d, i))
  BY <1>1, WordingOfWord DEF Without
<1>4. CASE v \in Firsts
  <2>1. Ranked(d.body)
    BY <1>4 DEF Sound
  <2>2. Ranked(Cut(d.body, i))
    BY <2>1, RankedCut
  <2> QED
    BY <1>1, <1>2, <1>3, <1>4, <2>2 DEF Sound
<1>5. CASE v \notin Firsts
  <2>1. Layout(Age(v), d.body) /\ Age(v) \in 3..12
    BY <1>1, <1>5, Ages DEF Sound
  <2>2. Layout(Age(v), Cut(d.body, i))
    BY <2>1, LayoutCut
  <2> QED
    BY <1>1, <1>2, <1>3, <1>5, <2>2 DEF Sound
<1> QED
  BY <1>4, <1>5

(* In a sound document, a heading has as many number parts as its level.   *)
LEMMA SoundRanked ==
  ASSUME NEW v, NEW d, Sound(v, d)
  PROVE  Ranked(d.body)
<1>1. CASE v \in Firsts
  BY <1>1 DEF Sound
<1>2. CASE v \notin Firsts
  <2>1. Layout(Age(v), d.body) /\ Age(v) \in 3..12
    BY <1>2, Ages DEF Sound
  <2> QED
    BY <2>1, LayoutRanked
<1> QED
  BY <1>1, <1>2

(* The paragraph on eight axes stands where the table of the axes does.    *)
LEMMA AxesTogether ==
  ASSUME NEW n \in 10..12, NEW body, Layout(n, body)
  PROVE  FirstWith(body, "eightAxes") = FirstWith(body, "axisTable")
<1>1. body \in Seq(Sec) /\ \A x \in Outline(body) : Shape(n, x)
  BY DEF Layout, Drawn
<1>2. DOMAIN body = 1..Len(body)
  BY <1>1, LenProperties
<1>3. ASSUME NEW i \in 1..Len(body)
      PROVE  "eightAxes" \in body[i].marks <=> "axisTable" \in body[i].marks
  <2>1. Sketch(body[i]) \in Outline(body) /\ body[i] \in Sec
    BY <1>1, <1>2, OutlineIs
  <2>2. Sketch(body[i]).marks = body[i].marks
    BY DEF Sketch
  <2>3. Noted(n, Sketch(body[i]))
    BY <1>1, <2>1 DEF Shape
  <2> QED
    BY <2>2, <2>3 DEF Noted
<1> DEFINE I == {i \in 1..Len(body) : "eightAxes" \in body[i].marks}
           J == {i \in 1..Len(body) : "axisTable" \in body[i].marks}
<1>4. I = J
  BY <1>3
<1>5. FirstWith(body, "eightAxes") = IF I # {} THEN Min(I) ELSE 0
  BY DEF FirstWith, SelectInSeq
<1>6. FirstWith(body, "axisTable") = IF J # {} THEN Min(J) ELSE 0
  BY DEF FirstWith, SelectInSeq
<1> HIDE DEF I, J
<1> QED
  BY <1>4, <1>5, <1>6

-----------------------------------------------------------------------------
(* The chain *)

(* The chain *)

(* What every step of the chain keeps: each file is one its version can    *)
(* be, and a first edition that nobody edits is the one its script writes. *)
Chained ==
  /\ Written \subseteq DOMAIN files /\ DOMAIN files \subseteq Versions
  /\ deleted \in 0..MaxDeleted /\ again \in 0..MaxAgain
  /\ \A v \in DOMAIN files : Sound(v, files[v])
  /\ \A v \in Written \ Edited : files[v] = New(v)

(* A step writes one file, and counts.                                     *)
Stores(v, doc) ==
  /\ DOMAIN files' = DOMAIN files \cup {v}
  /\ \A u \in DOMAIN files' : files'[u] = IF u = v THEN doc ELSE files[u]

(* Saving a document sets its version's file and leaves the other files    *)
(* alone.                                                                  *)
LEMMA SavedIs ==
  ASSUME NEW v, NEW doc, files' = Saved(v, doc)
  PROVE  Stores(v, doc)
BY DEF Saved, Stores

(* Writing a version that is there already counts, within the bound.       *)
LEMMA CountsOn ==
  ASSUME NEW v, again \in 0..MaxAgain, Overwrites(v)
  PROVE  again' \in 0..MaxAgain
<1>1. MaxAgain \in Nat
  BY ChainAssumption DEF ChainAssumption
<1>2. again' = again \/ again' = again + 1
  BY DEF Overwrites
<1>3. again' <= MaxAgain
  BY DEF Overwrites
<1> QED
  BY <1>1, <1>2, <1>3

(* What a deletion does: one numbered second-level section goes from one   *)
(* file.                                                                   *)
LEMMA DeletionIs ==
  ASSUME NEW v, DeleteSection(v)
  PROVE  /\ v \in DOMAIN files /\ deleted < MaxDeleted /\ deleted' = deleted + 1 /\ again' = again
         /\ \E i \in DOMAIN files[v].body :
              /\ files[v].body[i].level = 2 /\ files[v].body[i].num # <<>>
              /\ Fields(files[v]) => files' = Saved(v, Without(v, files[v], i))
<1>1. /\ v \in DOMAIN files /\ deleted < MaxDeleted /\ deleted' = deleted + 1 /\ again' = again
  BY DEF DeleteSection
<1>2. PICK i \in DOMAIN files[v].body :
        LET s == files[v].body[i]
        IN  /\ s.level = 2 /\ s.num # <<>> /\ s.num[1] \in Trimmed
            /\ files' = Saved(v, [InWord(v, files[v]) EXCEPT
                                    !.body = Numbering(RemoveAt(@, i),
                                       LAMBDA n : Closed(n, s.num))])
  BY DEF DeleteSection
<1>3. ASSUME Fields(files[v]) PROVE files' = Saved(v, Without(v, files[v], i))
  <2>1. InWord(v, files[v]).body = files[v].body
    BY <1>3, InWordIs
  <2>2. Numbering(RemoveAt(InWord(v, files[v]).body, i), LAMBDA n : Closed(n, files[v].body[i].num))
          = Cut(files[v].body, i)
    BY <2>1 DEF Cut
  <2> QED
    BY <1>2, <2>2 DEF Without
<1> QED
  BY <1>1, <1>2, <1>3

(* The documents written from scratch, from which every run begins, are    *)
(* sound.                                                                  *)
LEMMA ChainedInit == Init => Chained
<1> SUFFICES ASSUME Init PROVE Chained
  OBVIOUS
<1>1. DOMAIN files = Written /\ (\A v \in Written : files[v] = New(v)) /\ deleted = 0 /\ again = 0
  BY DEF Init
<1>2. MaxDeleted \in Nat /\ MaxAgain \in Nat
  BY ChainAssumption DEF ChainAssumption
<1>3. Written \subseteq Versions
  BY DEF Versions
<1>4. \A v \in DOMAIN files : Sound(v, files[v])
  BY <1>1, SoundNew
<1> QED
  BY <1>1, <1>2, <1>3, <1>4 DEF Chained

(* Storing a sound file keeps what is known of the chain.                  *)
LEMMA ChainedStores ==
  ASSUME Chained, NEW v \in Versions, NEW doc, Stores(v, doc), Sound(v, doc),
         v \in Written \ Edited => doc = New(v),
         deleted' \in 0..MaxDeleted, again' \in 0..MaxAgain
  PROVE  Chained'
<1>1. DOMAIN files' = DOMAIN files \cup {v} /\ \A u \in DOMAIN files' : files'[u] = IF u = v
         THEN doc ELSE files[u]
  BY DEF Stores
<1>2. \A u \in DOMAIN files' : Sound(u, files'[u])
  BY <1>1 DEF Chained
<1>3. Written \subseteq DOMAIN files' /\ DOMAIN files' \subseteq Versions
  BY <1>1 DEF Chained
<1>4. \A u \in Written \ Edited : files'[u] = New(u)
  BY <1>1, <1>3 DEF Chained
<1> QED
  BY <1>2, <1>3, <1>4 DEF Chained

(* Every step keeps every file sound: a script takes the layout it reads   *)
(* to the layout it writes, and edits keep the layout.                     *)
LEMMA ChainedNext == Chained /\ [Next]_vars => Chained'
<1> SUFFICES ASSUME Chained, [Next]_vars PROVE Chained'
  OBVIOUS
<1>0. /\ deleted \in 0..MaxDeleted /\ again \in 0..MaxAgain /\ DOMAIN files \subseteq Versions
      /\ \A v \in DOMAIN files : Sound(v, files[v]) /\ Fields(files[v])
  BY DEF Chained, Sound, Wording
<1>1. ASSUME NEW v \in Written, Write(v) PROVE Chained'
  <2>1. files' = Saved(v, New(v)) /\ Overwrites(v) /\ deleted' = deleted
    BY <1>1 DEF Write
  <2>2. Stores(v, New(v)) /\ again' \in 0..MaxAgain
    BY <1>0, <2>1, SavedIs, CountsOn
  <2>3. Sound(v, New(v)) /\ v \in Versions
    BY SoundNew DEF Versions
  <2> QED
    BY <1>0, <2>1, <2>2, <2>3, ChainedStores
<1>2. ASSUME NEW v \in Derived, Convert(v) PROVE Chained'
  <2> DEFINE d == files[Source[v]]
             new == Out(v, d)
  <2>1. /\ Source[v] \in DOMAIN files /\ Anchored(v, d) /\ files' = Saved(v, new)
        /\ Overwrites(v) /\ deleted' = deleted
    BY <1>2 DEF Convert
  <2>2. Sound(Source[v], d)
    BY <1>0, <2>1
  <2> HIDE DEF d
  <2>3. Sound(v, new)
    BY <2>1, <2>2, SoundOut
  <2>4. Stores(v, new) /\ again' \in 0..MaxAgain
    BY <1>0, <2>1, SavedIs, CountsOn
  <2>5. v \in Versions /\ v \notin Written
    BY DEF Versions, Derived, Written
  <2> HIDE DEF new
  <2> QED
    BY <1>0, <2>1, <2>3, <2>4, <2>5, ChainedStores
<1>3. ASSUME NEW v \in Edited, SaveInWord(v) PROVE Chained'
  <2> DEFINE new == InWord(v, files[v])
  <2>1. v \in DOMAIN files /\ files' = Saved(v, new) /\ deleted' = deleted /\ again' = again
    BY <1>3 DEF SaveInWord
  <2>2. Sound(v, new)
    BY <1>0, <2>1, SoundWord
  <2>3. Stores(v, new)
    BY <2>1, SavedIs
  <2> HIDE DEF new
  <2> QED
    BY <1>0, <2>1, <2>2, <2>3, ChainedStores
<1>4. ASSUME NEW v \in Edited, DeleteSection(v) PROVE Chained'
  <2>1. v \in DOMAIN files /\ deleted < MaxDeleted /\ deleted' = deleted + 1 /\ again' = again
    BY <1>4, DeletionIs
  <2>2. Sound(v, files[v]) /\ Fields(files[v])
    BY <1>0, <2>1
  <2>3. PICK i \in DOMAIN files[v].body :
          /\ files[v].body[i].level = 2 /\ files[v].body[i].num # <<>>
          /\ files' = Saved(v, Without(v, files[v], i))
    BY <1>4, <2>2, DeletionIs
  <2> DEFINE new == Without(v, files[v], i)
  <2>4. Sound(v, new)
    BY <2>2, <2>3, SoundCut
  <2>5. Stores(v, new)
    BY <2>3, SavedIs
  <2>6. deleted' \in 0..MaxDeleted
    <3>1. MaxDeleted \in Nat
      BY ChainAssumption DEF ChainAssumption
    <3> QED
      BY <1>0, <2>1, <3>1
  <2> HIDE DEF new
  <2> QED
    BY <1>0, <2>1, <2>4, <2>5, <2>6, ChainedStores
<1>5. CASE UNCHANGED vars
  BY <1>5 DEF vars, Chained
<1> QED
  BY <1>1, <1>2, <1>3, <1>4, <1>5 DEF Next

(* However scripts, saves in Word and deletions alternate, and whatever is *)
(* written over, each file stays sound: its headings rise in the layout of *)
(* its version with only second-level sections missing, and its contents   *)
(* page, prose, words and examples are those its version promises.         *)
THEOREM ChainStaysSound == Spec => []Chained
BY ChainedInit, ChainedNext, PTL DEF Spec

-----------------------------------------------------------------------------
(* What it means to a reader *)

(* Sound files have the fields TypeOK speaks of.                           *)
LEMMA ChainedTypes == Chained => TypeOK
<1> SUFFICES ASSUME Chained PROVE TypeOK
  OBVIOUS
<1>1. ASSUME NEW v \in DOMAIN files
      PROVE  /\ {files[v].word, files[v].split, files[v].polite} \subseteq BOOLEAN
             /\ files[v].cover \in Versions /\ Distinct(Body(v))
  <2>1. Sound(v, files[v])
    BY DEF Chained
  <2>2. Wording(v, files[v])
    BY <2>1 DEF Sound
  <2>3. Distinct(files[v].body)
    BY <2>1, SoundRanked DEF Ranked
  <2>4. files[v].polite \in BOOLEAN
    <3>1. files[v].polite = (v \in Written)
      BY <2>2 DEF Wording
    <3>2. (v \in Written) \in BOOLEAN
      OBVIOUS
    <3> QED
      BY <3>1, <3>2
  <2>5. files[v].word \in BOOLEAN /\ files[v].split \in BOOLEAN /\ files[v].cover \in Versions
    BY <2>2 DEF Wording
  <2> QED
    BY <2>3, <2>4, <2>5 DEF Body
<1> QED
  BY <1>1 DEF Chained, TypeOK

(* Every file stays a document: known fields, a body of sections no two of *)
(* which are alike, and counters within their bounds.                      *)
THEOREM ChainIsTyped == Spec => []TypeOK
BY ChainStaysSound, ChainedTypes, PTL

(* A sound document's contents page matches its chapters.                  *)
LEMMA ChainedContents == Chained => TocMatches
<1> SUFFICES ASSUME Chained, NEW v \in DOMAIN files \ {"0.7", "0.9"}
             PROVE  files[v].toc = ContentsOf(Body(v))
  BY DEF TocMatches
<1>1. Sound(v, files[v]) /\ v \in Versions \ Firsts
  BY DEF Chained, Firsts
<1>2. Layout(Age(v), Body(v)) /\ Wording(v, files[v]) /\ Age(v) \in 3..12
  BY <1>1, SoundIs, Ages DEF Body
<1>3. ContentsOf(Body(v)) = TocOf(Age(v))
  BY <1>2, ContentsOfLayout
<1>4. files[v].toc = TocOf(Age(v))
  <2>1. /\ V13Toc = Contents(Chapters13) /\ V19Toc = WithAppendix(Contents(Chapters19))
        /\ V20Toc = WithAppendix(Contents(Chapters20))
    BY DEF V13Toc, V19Toc, V20Toc, Chapters13, Chapters19, Chapters20
  <2>2. CASE v \in {"1.3", "1.4"}
    <3>1. files[v].toc = V13Toc
      BY <1>2, <2>2 DEF Wording
    <3>2. Age(v) \in {3, 4}
      BY <2>2, Ages
    <3>3. TocOf(Age(v)) = Contents(Chapters13)
      BY <3>2 DEF TocOf, ChapterTopics
    <3> QED
      BY <2>1, <3>1, <3>3
  <2>3. CASE v \in {"1.5", "1.6", "1.7", "1.8"}
    <3>1. files[v].toc = WithAppendix(V13Toc)
      BY <1>2, <2>3 DEF Wording
    <3>2. Age(v) \in {5, 6, 7, 8}
      BY <2>3, Ages
    <3>3. TocOf(Age(v)) = WithAppendix(Contents(Chapters13))
      BY <3>2 DEF TocOf, ChapterTopics
    <3> QED
      BY <2>1, <3>1, <3>3
  <2>4. CASE v = "1.9"
    <3>1. files[v].toc = V19Toc
      BY <1>2, <2>4 DEF Wording
    <3>2. Age(v) = 9
      BY <2>4, Ages
    <3>3. TocOf(Age(v)) = WithAppendix(Contents(Chapters19))
      BY <3>2 DEF TocOf, ChapterTopics
    <3> QED
      BY <2>1, <3>1, <3>3
  <2>5. CASE v \in {"2.0", "p1", "p2"}
    <3>1. files[v].toc = V20Toc
      BY <1>2, <2>5 DEF Wording
    <3>2. Age(v) \in {10, 11, 12}
      BY <2>5, Ages
    <3>3. TocOf(Age(v)) = WithAppendix(Contents(Chapters20))
      BY <3>2 DEF TocOf, ChapterTopics
    <3> QED
      BY <2>1, <3>1, <3>3
  <2> QED
    BY <1>1, <2>2, <2>3, <2>4, <2>5 DEF Versions, Written, Derived, Firsts
<1> QED
  BY <1>3, <1>4

(* The contents page of every file from v1.3 on, patched or overwritten    *)
(* line by line on the way, lists the chapters the body has, in their      *)
(* order.                                                                  *)
THEOREM ContentsMatch == Spec => []TocMatches
BY ChainStaysSound, ChainedContents, PTL

(* A sound document from v1.4 on is polished.                              *)
LEMMA ChainedPolish == Chained => Polished
<1> SUFFICES ASSUME Chained, NEW v \in Present(Derived)
             PROVE  ~files[v].polite /\ files[v].prose = PolishedProse
  BY DEF Polished, PolishedProse
<1>1. v \in Derived /\ Wording(v, files[v])
  BY DEF Chained, Sound, Present
<1>2. v \notin Written
  BY <1>1 DEF Derived, Written
<1>3. files[v].polite = (v \in Written)
  BY <1>1 DEF Wording
<1>4. files[v].prose = PolishedProse
  BY <1>1 DEF Wording
<1> QED
  BY <1>2, <1>3, <1>4

(* From v1.4 on no polite ending is left, and each dash is written as what *)
(* it stands for.                                                          *)
THEOREM ProseStaysPolished == Spec => []Polished
BY ChainStaysSound, ChainedPolish, PTL

(* A sound document's words agree with their particles and name what its   *)
(* version calls things.                                                   *)
LEMMA ChainedWords == Chained => WordsAgree
<1> SUFFICES ASSUME Chained PROVE WordsAgree
  OBVIOUS
<1>1. ASSUME NEW v \in Present(Derived \ {"1.4", "1.5", "1.6"})
      PROVE  /\ {w \in files[v].words : w[1] = "grant"} = {FormerName}
             /\ \A w \in files[v].words : Fits(w)
  <2>1. v \in {"1.7", "1.8", "1.9", "2.0", "p1", "p2"} /\ Wording(v, files[v])
    BY DEF Chained, Sound, Present, Derived
  <2>2. files[v].words = Words17 \/ files[v].words = Words20
    BY <2>1 DEF Wording
  <2> QED
    BY <1>1, <2>2, WordsFit
<1>2. ASSUME NEW v \in Present({"2.0"} \cup Proposals), NEW w \in files[v].words
      PROVE  w[1] # "lookup"
  <2>1. v \in {"2.0", "p1", "p2"} /\ Wording(v, files[v])
    BY DEF Chained, Sound, Present, Proposals
  <2>2. files[v].words = Words20
    BY <2>1 DEF Wording
  <2> QED
    BY <1>2, <2>2, WordsFit
<1> QED
  BY <1>1, <1>2 DEF WordsAgree

(* From v1.7 on the old noun is left only as the former name the glossary  *)
(* quotes, and every particle fits the noun before it; from v2.0 on the    *)
(* renamed class is gone.                                                  *)
THEOREM WordsKeepAgreeing == Spec => []WordsAgree
BY ChainStaysSound, ChainedWords, PTL

(* A sound document from v2.0 on shows no base row.                        *)
LEMMA ChainedExamples == Chained => ExamplesTellBoard
<1> SUFFICES ASSUME Chained, NEW v \in Present({"2.0"} \cup Proposals)
             PROVE  /\ files[v].boards # <<>>
                    /\ \A k \in DOMAIN files[v].boards : "B" \notin ToSet(files[v].boards[k])
                    /\ FirstWith(Body(v), "eightAxes") = FirstWith(Body(v), "axisTable")
  BY DEF ExamplesTellBoard
<1>1. v \in {"2.0", "p1", "p2"} /\ Sound(v, files[v]) /\ v \in Versions
  BY DEF Chained, Present, Proposals
<1>2. v \notin Firsts
  BY <1>1 DEF Firsts
<1>3. Layout(Age(v), Body(v)) /\ Wording(v, files[v])
  BY <1>1, <1>2, SoundIs DEF Body
<1>4. Cleared(files[v].boards)
  BY <1>1, <1>3 DEF Wording
<1>5. Age(v) \in 10..12
  BY <1>1, Ages
<1> QED
  BY <1>3, <1>4, <1>5, AxesTogether DEF Cleared

(* From v2.0 on the worked boards show no base row, and the paragraph on   *)
(* eight axes stands at the table of the axes, whichever sections were     *)
(* deleted.                                                                *)
THEOREM ExamplesTell == Spec => []ExamplesTellBoard
BY ChainStaysSound, ChainedExamples, PTL

(* A document written from scratch that nobody edits has no broken         *)
(* reference.                                                              *)
LEMMA ChainedFirstRefs == Chained => FirstRefsResolve
<1> SUFFICES ASSUME Chained, NEW v \in Written, v \notin Edited PROVE Broken(Body(v)) = {}
  BY DEF FirstRefsResolve
<1>1. files[v] = New(v)
  BY DEF Chained
<1>2. New("0.7") = V07 /\ New("0.9") = V09 /\ New("1.3") = V13
  BY DEF New
<1> QED
  BY <1>1, <1>2, First07, First09, First13 DEF Body, Written

(* In a document written from nothing that nobody edits, every reference   *)
(* leads to the section its author meant.                                  *)
THEOREM FirstRefsLead == Spec => []FirstRefsResolve
BY ChainStaysSound, ChainedFirstRefs, PTL

(* Deleting a section with one of the third level under it would leave     *)
(* that one without a section, and only first editions have that level.    *)
LEMMA ChainedOrder == Chained /\ Edited \cap {"0.7", "0.9"} = {} => ChaptersInOrder
<1> SUFFICES ASSUME Chained, Edited \cap {"0.7", "0.9"} = {}, NEW v \in DOMAIN files
             PROVE  InOrder(Body(v))
  BY DEF ChaptersInOrder
<1>1. Sound(v, files[v]) /\ v \in Versions
  BY DEF Chained
<1>2. CASE v \in Firsts
  <2>1. v \in Written /\ v \notin Edited
    BY <1>2 DEF Firsts, Written
  <2>2. files[v] = New(v)
    BY <2>1 DEF Chained
  <2>3. New("0.7") = V07 /\ New("0.9") = V09
    BY DEF New
  <2> QED
    BY <1>2, <2>2, <2>3, First07, First09 DEF Body, Firsts
<1>3. CASE v \notin Firsts
  BY <1>1, <1>3, SoundIs, Ages, LayoutInOrder DEF Body
<1> QED
  BY <1>2, <1>3

(* Chapters and sections stand in the order of their numbers in every      *)
(* file, however often sections were deleted, moved and renumbered. The    *)
(* two first editions may not be edited: they alone have third-level       *)
(* headings, which a deletion of the section above would orphan.           *)
THEOREM ChaptersStayInOrder == Edited \cap {"0.7", "0.9"} = {} => (Spec => []ChaptersInOrder)
<1>1. ASSUME Edited \cap {"0.7", "0.9"} = {} PROVE Spec => []ChaptersInOrder
  <2>1. Chained => ChaptersInOrder
    BY <1>1, ChainedOrder
  <2> QED
    BY <2>1, ChainStaysSound, PTL
<1> QED
  BY <1>1

-----------------------------------------------------------------------------
(* What a conversion hands on, and the covers *)

(* A conversion hands on every subject of the document it read, renames    *)
(* the one a proposal renames and adds its own.                            *)
LEMMA ChainedHandsOn ==
  ASSUME Chained, NEW v \in Derived, Convert(v)
  PROVE  Topics(Body(v)') = (Topics(Body(Source[v])) \ {"summary", "proposal"})
                              \cup (Added[v] \cup (IF v \in Proposals THEN {} ELSE {"summary"}))
<1> DEFINE d == files[Source[v]]
           new == Out(v, d)
<1>1. Source[v] \in DOMAIN files /\ Anchored(v, d) /\ files' = Saved(v, new)
  BY DEF Convert
<1>2. Sound(Source[v], d)
  BY <1>1 DEF Chained
<1>3. HandedOn(v, Topics(d.body), Topics(new.body))
  BY <1>1, <1>2, SoundOut
<1>4. Stores(v, new)
  BY <1>1, SavedIs
<1>5. files'[v] = new
  BY <1>4 DEF Stores
<1>6. Body(v)' = new.body /\ Body(Source[v]) = d.body
  BY <1>5 DEF Body
<1> HIDE DEF d, new
<1> QED
  BY <1>3, <1>6 DEF HandedOn

(* A script saves every section of the version it read, hand edits         *)
(* included, and nothing else but what it adds.                            *)
THEOREM EditsAreCarriedOver == Spec => EditsCarriedOver
<1>1. Chained /\ [Next]_vars =>
        [ \A v \in Derived : Convert(v) =>
            Topics(Body(v)') = (Topics(Body(Source[v])) \ {"summary", "proposal"})
                                 \cup (Added[v] \cup (IF v \in Proposals THEN {}
                                    ELSE {"summary"})) ]_vars
  BY ChainedHandsOn
<1> QED
  BY <1>1, ChainStaysSound, PTL DEF EditsCarriedOver, Spec

-----------------------------------------------------------------------------
(* The cover *)

(* v1.4 to v1.6 find the version in one run only, so the cover follows     *)
(* where Word leaves the run of the three versions they read in one piece. *)
Unsplit(v, d) == v \in {"1.3", "1.4", "1.5"} => d.split = FALSE

Followed == \A v \in DOMAIN files : files[v].cover = v /\ Unsplit(v, files[v])

Intact == Splits \cap {"1.3", "1.4", "1.5"} = {}

(* A from-scratch document has its own version on the cover, in one run.   *)
LEMMA CoverOfNew ==
  ASSUME NEW v \in Written
  PROVE  New(v).cover = v /\ Unsplit(v, New(v))
<1>1. New("0.7") = V07 /\ New("0.9") = V09 /\ New("1.3") = V13
  BY DEF New
<1> QED
  BY <1>1, NewIs DEF Written, Unsplit

(* Where the cover tells the version it comes from and a run search can    *)
(* find it, the script writes its own version on it.                       *)
LEMMA CoverOfOut ==
  ASSUME NEW v \in Derived, NEW d, Fields(d), d.cover = Source[v], Unsplit(Source[v], d)
  PROVE  Out(v, d).cover = v /\ Unsplit(v, Out(v, d))
<1>1. CASE v = "1.4"
  <2>1. d.cover = "1.3" /\ d.split = FALSE /\ Out(v, d) = V14(d)
    BY <1>1, Sources DEF Out, Unsplit
  <2>2. CoverByRun(d, "1.3", "1.4") = "1.4"
    BY <2>1 DEF CoverByRun
  <2> QED
    BY <1>1, <2>1, <2>2, V14Is DEF Unsplit
<1>2. CASE v = "1.5"
  <2>1. d.cover = "1.4" /\ d.split = FALSE /\ Out(v, d) = V15(d)
    BY <1>2, Sources DEF Out, Unsplit
  <2>2. CoverByRun(d, "1.4", "1.5") = "1.5"
    BY <2>1 DEF CoverByRun
  <2> QED
    BY <1>2, <2>1, <2>2, V15Is DEF Unsplit
<1>3. CASE v = "1.6"
  <2>1. d.cover = "1.5" /\ d.split = FALSE /\ Out(v, d) = V16(d)
    BY <1>3, Sources DEF Out, Unsplit
  <2>2. CoverByRun(d, "1.5", "1.6") = "1.6"
    BY <2>1 DEF CoverByRun
  <2> QED
    BY <1>3, <2>1, <2>2, V16Is DEF Unsplit
<1>4. CASE v = "1.7"
  <2>1. d.cover = "1.6" /\ Out(v, d) = V17(d)
    BY <1>4, Sources DEF Out
  <2>2. CoverByParagraph(d, "1.6", "1.7") = "1.7"
    BY <2>1 DEF CoverByParagraph
  <2> QED
    BY <1>4, <2>1, <2>2, V17Is DEF Unsplit
<1>5. CASE v = "1.8"
  <2>1. d.cover = "1.7" /\ Out(v, d) = V18(d)
    BY <1>5, Sources DEF Out
  <2>2. CoverByParagraph(d, "1.7", "1.8") = "1.8"
    BY <2>1 DEF CoverByParagraph
  <2> QED
    BY <1>5, <2>1, <2>2, V18Is DEF Unsplit
<1>6. CASE v = "1.9"
  <2>1. d.cover = "1.8" /\ Out(v, d) = V19(d)
    BY <1>6, Sources DEF Out
  <2>2. CoverByParagraph(d, "1.8", "1.9") = "1.9"
    BY <2>1 DEF CoverByParagraph
  <2> QED
    BY <1>6, <2>1, <2>2, V19Is DEF Unsplit
<1>7. CASE v = "2.0"
  <2>1. d.cover = "1.9" /\ Out(v, d) = V20(d)
    BY <1>7, Sources DEF Out
  <2>2. CoverByParagraph(d, "1.9", "2.0") = "2.0"
    BY <2>1 DEF CoverByParagraph
  <2> QED
    BY <1>7, <2>1, <2>2, V20Is DEF Unsplit
<1>8. CASE v = "p1"
  <2>1. Out(v, d) = P1(d)
    BY <1>8 DEF Out
  <2> QED
    BY <1>8, <2>1, P1Is DEF Unsplit
<1>9. CASE v = "p2"
  <2>1. Out(v, d) = P2(d)
    BY <1>9 DEF Out
  <2> QED
    BY <1>9, <2>1, P2Is DEF Unsplit
<1> QED
  BY <1>1, <1>2, <1>3, <1>4, <1>5, <1>6, <1>7, <1>8, <1>9 DEF Derived

(* Storing a document whose cover follows keeps all covers following.      *)
LEMMA FollowedStores ==
  ASSUME Followed, NEW v, NEW doc, Stores(v, doc), doc.cover = v, Unsplit(v, doc)
  PROVE  Followed'
<1>1. \A u \in DOMAIN files' : files'[u] = IF u = v THEN doc ELSE files[u]
  BY DEF Stores
<1>2. DOMAIN files' = DOMAIN files \cup {v}
  BY DEF Stores
<1> QED
  BY <1>1, <1>2 DEF Followed, Unsplit

(* Where Word leaves the covers of v1.3 to v1.5 whole, every step keeps    *)
(* the covers following.                                                   *)
LEMMA FollowedNext == Intact /\ Chained /\ Followed /\ [Next]_vars => Followed'
<1> SUFFICES ASSUME Intact, Chained, Followed, [Next]_vars PROVE Followed'
  OBVIOUS
<1>0. \A v \in DOMAIN files : Fields(files[v]) /\ files[v].cover = v /\ Unsplit(v, files[v])
  BY DEF Chained, Sound, Wording, Followed
<1>1. ASSUME NEW v \in Written, Write(v) PROVE Followed'
  <2>1. Stores(v, New(v))
    BY <1>1, SavedIs DEF Write
  <2> QED
    BY <2>1, CoverOfNew, FollowedStores
<1>2. ASSUME NEW v \in Derived, Convert(v) PROVE Followed'
  <2> DEFINE d == files[Source[v]]
  <2>1. Source[v] \in DOMAIN files /\ files' = Saved(v, Out(v, d))
    BY <1>2 DEF Convert
  <2>2. Fields(d) /\ d.cover = Source[v] /\ Unsplit(Source[v], d)
    BY <1>0, <2>1
  <2>3. Stores(v, Out(v, d))
    BY <2>1, SavedIs
  <2> HIDE DEF d
  <2>4. Out(v, d).cover = v /\ Unsplit(v, Out(v, d))
    BY <2>2, CoverOfOut
  <2> QED
    BY <2>3, <2>4, FollowedStores
<1>3. ASSUME NEW v, v \in DOMAIN files, NEW doc, Saves(v, files[v], doc), files' = Saved(v, doc)
      PROVE  Followed'
  <2>1. doc.cover = v /\ doc.split \in BOOLEAN /\ (doc.split => files[v].split \/ v \in Splits)
    BY <1>0, <1>3 DEF Saves
  <2>2. Unsplit(v, files[v])
    BY <1>0, <1>3
  <2>3. Unsplit(v, doc)
    BY <2>1, <2>2 DEF Unsplit, Intact
  <2>4. Stores(v, doc)
    BY <1>3, SavedIs
  <2> QED
    BY <2>1, <2>3, <2>4, FollowedStores
<1>4. ASSUME NEW v \in Edited, SaveInWord(v) PROVE Followed'
  <2>1. v \in DOMAIN files /\ files' = Saved(v, InWord(v, files[v]))
    BY <1>4 DEF SaveInWord
  <2>2. Saves(v, files[v], InWord(v, files[v]))
    BY <1>0, <2>1, InWordIs
  <2> QED
    BY <1>3, <2>1, <2>2
<1>5. ASSUME NEW v \in Edited, DeleteSection(v) PROVE Followed'
  <2>1. v \in DOMAIN files /\ Fields(files[v])
    BY <1>0, <1>5, DeletionIs
  <2>2. PICK i \in DOMAIN files[v].body : files' = Saved(v, Without(v, files[v], i))
    BY <1>5, <2>1, DeletionIs
  <2>3. Saves(v, files[v], Without(v, files[v], i))
    BY <2>1, InWordIs DEF Without
  <2> QED
    BY <1>3, <2>1, <2>2, <2>3
<1>6. CASE UNCHANGED vars
  BY <1>6 DEF vars, Followed
<1> QED
  BY <1>1, <1>2, <1>4, <1>5, <1>6 DEF Next

(* The documents written from scratch have covers that follow.             *)
LEMMA FollowedInit == Init => Followed
<1> SUFFICES ASSUME Init PROVE Followed
  OBVIOUS
<1>1. DOMAIN files = Written /\ \A v \in Written : files[v] = New(v)
  BY DEF Init
<1> QED
  BY <1>1, CoverOfNew DEF Followed

(* The cover of every file names its version. Word may split the covers    *)
(* that v1.7 and later look up by paragraph, but not those of v1.3 to      *)
(* v1.5, whose text the next script looks for in one run.                  *)
THEOREM CoversFollow == Splits \cap {"1.3", "1.4", "1.5"} = {} => (Spec => []CoverFollows)
<1>1. ASSUME Intact PROVE Spec => []CoverFollows
  <2>1. Chained /\ Followed /\ [Next]_vars => Followed'
    BY <1>1, FollowedNext
  <2>2. Followed => CoverFollows
    BY DEF Followed, CoverFollows
  <2> QED
    BY <2>1, <2>2, ChainStaysSound, FollowedInit, PTL DEF Spec
<1> QED
  BY <1>1 DEF Intact

=============================================================================
