-------------------------- MODULE DesignRestructure --------------------------
(***************************************************************************)
(* The scripts that rearrange the document: v1.9 moves whole chapters,     *)
(* v2.0 moves three sections into a chapter of their own, and the proposal *)
(* replaces the front.  Each renumbers what it moves and the references to *)
(* it.                                                                     *)
(***************************************************************************)
EXTENDS DesignScripts

(* Entries are overwritten one by one; what the old list has more stays.   *)
NewToc(old, new) ==
  [k \in 1..(IF Len(old) > Len(new) THEN Len(old) ELSE Len(new)) |->
     IF k <= Len(new) THEN new[k] ELSE old[k]]

WithAppendix(toc) == Append(toc, [num |-> <<>>, topic |-> "appendix"])

(* A heading's number under a map of the chapters.                         *)
InChapter(map, num) ==
  IF num # <<>> /\ num[1] \in DOMAIN map THEN [num EXCEPT ![1] = map[@]] ELSE num

-----------------------------------------------------------------------------
(* v1.9 *)

V19Chapters ==
  [n \in 0..11 |-> CASE n = 2 -> 5 [] n = 3 -> 4 [] n = 4 -> 6 [] n = 5 -> 3
                     [] n \in 6..11 -> n + 1 [] OTHER -> n]

V19Tokens ==
  [num \in {<<5, 1>>, <<10, 1>>, <<10, 2>>, <<10, 3>>, <<10, 5>>} |->
     IF num = <<5, 1>> THEN <<3, 1>> ELSE <<11, num[2]>>]

V19Heading(num) == InChapter(V19Chapters, num)

(* Mutant of V19Reference: bare chapter references are renumbered too.     *)
V19ReferenceAll(num) ==
  IF num \in DOMAIN V19Tokens THEN V19Tokens[num]
  ELSE IF Len(num) = 1 THEN InChapter(V19Chapters, num) ELSE num

(* Only five references are looked for; any other keeps its number.        *)
V19Reference(num) == IF num \in DOMAIN V19Tokens THEN V19Tokens[num] ELSE num

V19Toc ==
  WithAppendix(Contents(<<"overview", "architecture", "journey", "priority", "keys", "data",
    "calculation", "lookup", "enrolling", "period", "negotiated", "batch", "register">>))

Journey ==
  Citing(<<Section(1, <<2>>, "journey")>>, "journey",
         {Ref(<<12>>, "register"), Ref(<<3>>, "priority"), Ref(<<4>>, "keys"),
          Ref(<<11, 5>>, "physical"), Ref(<<11>>, "batch"), Ref(<<7>>, "lookup")})

(* Mutant of V19Order: data before calculation is forgotten.               *)
V19OrderKept == <<5, 3, 4, 2, 6, 7, 8, 9, 10, 11>>

(* Old numbers of the chapters that follow the journey.                    *)
V19Order == <<5, 3, 2, 4, 6, 7, 8, 9, 10, 11>>

(* Mutant of V19Moved: blocks are copied, not moved.                       *)
V19MovedCopied(old, new) ==
  LET block(n) == Block(old, ChapterAt(old, n))
      stay     == {i \in DOMAIN old : \E j \in block(1) : i <= j}
  IN  Pick(new, stay) \o Journey
        \o FlattenSeq([k \in DOMAIN V19Order |-> Pick(new, block(V19Order[k]))])
        \o Pick(new, DOMAIN old \ stay)

(* Blocks are taken by the old numbers and put, renumbered, behind the     *)
(* last element of chapter 1; what is in no block stays behind them.       *)
V19Moved(old, new) ==
  LET block(n) == Block(old, ChapterAt(old, n))
      stay     == {i \in DOMAIN old : \E j \in block(1) : i <= j}
      appendix == Block(old, Heading(old, <<>>, "appendix"))
      moved    == (UNION {block(V19Order[k]) : k \in DOMAIN V19Order}) \cup appendix
  IN  Pick(new, stay) \o Journey
        \o FlattenSeq([k \in DOMAIN V19Order |-> Pick(new, block(V19Order[k]))])
        \o Pick(new, appendix) \o Pick(new, DOMAIN old \ (stay \cup moved))

(* The intro of 10.5 cites the chapter that is still to come.              *)
V19Edited(body) ==
  CitingAt(Unmarking(body, {"figure", "side"}), "physIntro", {Ref(<<2>>, "journey")})

V19(d) ==
  LET edited == V19Edited(d.body)
      new    == Referring(Numbering(edited, V19Heading), V19Reference)
  IN  [d EXCEPT !.cover = CoverByParagraph(d, "1.8", "1.9"), !.toc = NewToc(@, V19Toc),
                !.body = V19Moved(d.body, new)]

Anchored19(d) ==
  /\ d.word /\ d.toc # <<>>
  /\ {"arrives", "side", "indexPara", "physIntro", "keysHead", "keyGrowth", "storedTable",
      "numbered"} \subseteq Marks(d.body)
  /\ Holds(d.body, <<10, 5>>, "physical") /\ Holds(d.body, <<5>>, "priority")
  /\ \A n \in DOMAIN V19Chapters : ChapterAt(d.body, n) # 0
  /\ Holds(d.body, <<>>, "appendix") /\ Holds(d.body, <<>>, "contents")

(* The old numbers are gone, the new ones are cited.                       *)
Checked19(d) ==
  /\ Holds(d.body, <<2>>, "journey")
  /\ {<<11, 5>>, <<3, 1>>} \subseteq Cited(d.body)
  /\ \A num \in Cited(d.body) : num # <<5, 1>> /\ (Len(num) = 2 => num[1] # 10)

-----------------------------------------------------------------------------
(* v2.0 *)

V20Chapters ==
  [n \in 0..12 |-> IF n <= 4 THEN n ELSE n + 1]

V20Special ==
  [num \in {<<11, 5>>, <<11, 4>>, <<11, 3>>} |->
     CASE num = <<11, 5>> -> <<5, 1>> [] num = <<11, 4>> -> <<5, 2>> [] num = <<11, 3>> -> <<5, 3>>]

V20Heading(num) == InChapter(V20Chapters, num)

(* Mutant of V20Reference: two passes, the second renumbers the first's.   *)
V20ReferenceTwice(num) ==
  InChapter(V20Chapters, IF num \in DOMAIN V20Special THEN V20Special[num] ELSE num)

(* One pass: what it wrote is not looked at again.                         *)
V20Reference(num) ==
  IF num \in DOMAIN V20Special THEN V20Special[num] ELSE InChapter(V20Chapters, num)

V20Toc ==
  WithAppendix(Contents(<<"overview", "architecture", "journey", "priority", "keys", "massive",
    "data", "calculation", "lookup", "enrolling", "period", "negotiated", "batch", "register">>))

Preferential(board) == Pick(board, {i \in DOMAIN board : board[i] # "B"})

(* Mutant of V20Boards: the account without preferences keeps its table.   *)
V20BoardsBoth(boards) ==
  LET k == SelectInSeq(boards, LAMBDA b : Len(b) >= 5)
  IN  [boards EXCEPT ![k] = Append(Preferential(@), "E")]

(* Base rows leave the first large table, a maker example joins it, and    *)
(* the first table of one row goes.                                        *)
V20Boards(boards) ==
  LET k    == SelectInSeq(boards, LAMBDA b : Len(b) >= 5)
      left == [boards EXCEPT ![k] = Append(Preferential(@), "E")]
  IN  RemoveAt(left, SelectInSeq(left, LAMBDA b : Len(b) = 1))

(* The first paragraph that begins so is rewritten for eight axes: the     *)
(* chapter on registration has another.                                    *)
V20Edited(body) ==
  LET i == FirstWith(body, "perStock")
  IN  CitingAt([body EXCEPT ![i].marks = @ \cup {"eightAxes"}],
               "note", {Ref(<<1, 4>>, "storage")})

V20Lifted == <<<<11, 5>>, <<11, 4>>, <<11, 3>>>>
V20LiftedTopic == <<"physical", "candidates", "scale">>

Massive == Citing(<<Section(1, <<5>>, "massive")>>, "massive", {Ref(<<12>>, "batch")})

(* Three sections become chapter 5, behind the last element of chapter 4.  *)
V20Moved(old, new) ==
  LET from(k)  == Heading(old, V20Lifted[k], V20LiftedTopic[k])
      lifted   == {from(k) : k \in DOMAIN V20Lifted}
      stay     == {i \in DOMAIN old : \E j \in Block(old, Heading(old, <<4>>, "keys")) : i <= j}
  IN  Pick(new, stay \ lifted) \o Massive
        \o [k \in DOMAIN V20Lifted |-> [new[from(k)] EXCEPT !.num = <<5, k>>]]
        \o Pick(new, DOMAIN old \ (stay \cup lifted))

V20(d) ==
  LET edited == V20Edited(d.body)
      new    == Numbering(Referring(edited, V20Reference), V20Heading)
  IN  [d EXCEPT !.cover = CoverByParagraph(d, "1.9", "2.0"), !.toc = NewToc(@, V20Toc),
                !.words = Reworded(@, <<<<<<"lookup", "class">>, <<"product", "class">>>>>>),
                !.boards = V20Boards(@), !.body = V20Moved(d.body, new)]

Anchored20(d) ==
  /\ d.word /\ d.toc # <<>>
  /\ {"perStock", "axisTable", "note", "option", "etf", "draft"} \subseteq Marks(d.body)
  /\ \E k \in DOMAIN d.boards : Len(d.boards[k]) >= 5
  /\ \E k \in DOMAIN d.boards : Len(d.boards[k]) = 1
  /\ \A k \in DOMAIN V20Lifted : Holds(d.body, V20Lifted[k], V20LiftedTopic[k])
  /\ Holds(d.body, <<4>>, "keys") /\ Holds(d.body, <<>>, "contents")

Checked20(d) ==
  /\ Holds(d.body, <<5>>, "massive")
  /\ \A k \in DOMAIN V20Lifted : Holds(d.body, <<5, k>>, V20LiftedTopic[k])
  /\ {<<5, 1>>, <<12>>, <<13>>} \subseteq Cited(d.body)
  /\ \A num \in Cited(d.body) : Len(num) = 2 => num[1] # 11
  /\ \A w \in d.words : w[1] # "lookup"

-----------------------------------------------------------------------------
(* The proposals *)

(* Mutant of P1Reference: references to 1.4 are left as they are.          *)
P1ReferenceLeft(num) == num

(* References to 1.4 are taken for the section that hand edits made 1.2.   *)
P1Reference(num) == IF num = <<1, 4>> THEN <<1, 2>> ELSE num

P1(d) ==
  LET body == Unmarking(Referring(d.body, P1Reference), {"why"})
  IN  [d EXCEPT !.cover = "p1",
                !.body = Citing(Titling(body, "summary", "proposal"), "proposal",
                                {Ref(<<1, 2>>, "storage"), Ref(<<6, 4>>, "outputs")})]

AnchoredP1(d) == Holds(d.body, <<>>, "summary") /\ FirstWith(d.body, "why") # 0

CheckedP1(d) ==
  /\ Holds(d.body, <<>>, "proposal") /\ ~Holds(d.body, <<>>, "summary")
  /\ <<1, 4>> \notin Cited(d.body)

(* Situation, problem, solution: a chapter before the glossary.            *)
Background ==
  Citing(<<Unnumbered(1, "background"), Unnumbered(2, "situation"), Unnumbered(2, "problem"),
           Unnumbered(2, "solution")>>, "solution",
         {Ref(<<0, 1>>, "premise"), Ref(<<1>>, "architecture"), Ref(<<2>>, "journey"),
          Ref(<<5>>, "massive"), Ref(<<6, 5>>, "logic")})

(* The overview goes with its references, the recommendation brings its.   *)
P2(d) ==
  LET i    == Heading(d.body, <<>>, "proposal")
      bare == [d.body EXCEPT ![i].refs = {}, ![i].marks = @ \ {"intro", "trans"}]
      body == Citing(Titling(bare, "proposal", "recommendation"), "recommendation",
                     {Ref(<<0, 3>>, "survey"), Ref(<<1, 2>>, "storage"), Ref(<<5, 3>>, "scale"),
                      Ref(<<5, 1>>, "physical"), Ref(<<8>>, "lookup"), Ref(<<6, 4>>, "outputs")})
  IN  [d EXCEPT !.cover = "p2", !.body = Before(body, Heading(body, <<>>, "terms"), Background)]

AnchoredP2(d) ==
  /\ d.word /\ d.cover = "p1"
  /\ {"intro", "trans"} \subseteq Marks(d.body)
  /\ Holds(d.body, <<>>, "proposal") /\ Holds(d.body, <<>>, "terms")

(* The recommendation and the chapter that argues for it, the overview gone. *)
CheckedP2(d) ==
  /\ \A topic \in {"recommendation", "background", "situation", "problem", "solution"} :
       Holds(d.body, <<>>, topic)
  /\ ~Holds(d.body, <<>>, "proposal")

=============================================================================
