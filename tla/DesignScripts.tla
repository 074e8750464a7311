---------------------------- MODULE DesignScripts ----------------------------
(***************************************************************************)
(* The scripts that make the design document and the proposal, each as a   *)
(* function from the document it reads to the document it saves, with the  *)
(* anchors it must find on the way: a script that misses one raises before *)
(* its only save.  Versions are "1.3" to "2.0" and the proposals "p1"      *)
(* and "p2".                                                               *)
(***************************************************************************)
EXTENDS DesignDoc

-----------------------------------------------------------------------------
(* v1.3, written from nothing *)

V13Front ==
  Marking(<<Unnumbered(1, "summary"), Unnumbered(2, "terms"), Unnumbered(1, "contents")>>,
          "summary", {"intro", "why", "trans"})

V13Chapters0to2 ==
  LET body == Chapter(0, "overview", <<"premise", "start", "survey">>)
                \o Chapter(1, "architecture", <<"principle", "whyboard", "boundary">>)
                \o Chapter(2, "data", <<"schedule", "policy", "account", "outputs", "logic">>)
  IN  Marking(body, "logic", {"axisTable", "perStock"})

V13Chapters3to6 ==
  LET body == Chapter(3, "keys", <<"composition", "class", "axes">>)
                \o Chapter(4, "calculation", <<"components", "bearer">>)
                \o Chapter(5, "priority", <<"ranking", "gate", "contest">>)
                \o Chapter(6, "lookup", <<"steps", "example">>)
      keys == Marking(Marking(body, "composition", {"arrives"}), "axes", {"side"})
  IN  Marking(Marking(keys, "steps", {"noRow"}), "example", {"note", "option", "etf"})

V13Chapters7to11 ==
  LET body == Chapter(7, "enrolling", <<>>) \o Chapter(8, "period", <<>>)
                \o Chapter(9, "negotiated", <<"lifecycle", "request", "approval", "extension", "metrics">>)
                \o Chapter(10, "batch", <<"full", "incremental">>)
                \o Chapter(11, "register", <<>>)
  IN  Marking(Marking(body, "full", {"cellRule", "numbered"}),
              "register", {"draft", "perStock", "end"})

(* What each dash of the prose stands for, and how v1.3 writes it.         *)
V13Prose ==
  [listedBreak |-> "dash",        \* between sentences, the first not polite
   listedAside |-> "dash",        \* before an aside
   closing     |-> "framed",      \* around the closing word
   break       |-> "polite dash", \* between sentences, the first polite
   label       |-> "dash",        \* after a label
   further     |-> "dash",        \* again in the same paragraph
   emptyCell   |-> "bare"]        \* alone in a table cell

(* Words by their parts: noun, then particle.                              *)
V13Words ==
  {<<"grant", "relation", "ro">>, <<"grant", "relation", "wa">>, <<"grant", "relation", "ga">>,
   <<"grant", "relation", "neun">>, <<"grant", "relation", "man">>, <<"grant", "relation">>, <<"grant", "id">>,
   <<"grant", "reul">>, <<"grant", "doem">>, <<"grant">>, <<"lookup", "class">>}

(* Policy type of each row of the example boards.                          *)
V13Boards == <<<<"N", "N", "B", "E", "B">>, <<"B">>>>

V13Toc ==
  Contents(<<"overview", "architecture", "data", "keys", "calculation", "priority", "lookup",
             "enrolling", "period", "negotiated", "batch", "register">>)

V13 ==
  LET body == V13Front \o V13Chapters0to2 \o V13Chapters3to6 \o V13Chapters7to11
  IN  [cover |-> "1.3", split |-> FALSE, word |-> FALSE, body |-> body,
       toc |-> V13Toc, polite |-> TRUE, prose |-> V13Prose, words |-> V13Words,
       boards |-> V13Boards]

(* v1.4 to v1.6 look for the version inside one run of the cover.          *)
CoverByRun(d, old, new) == IF d.cover = old /\ ~d.split THEN new ELSE d.cover

(* v1.7 and later find the paragraph and then change the run.              *)
CoverByParagraph(d, old, new) == IF d.cover = old THEN new ELSE d.cover

-----------------------------------------------------------------------------
(* v1.4: five passes over the prose, in this order *)

ExplicitPass(p) == [p EXCEPT !.listedBreak = "period", !.listedAside = "bracket",
                             !.closing = "period"]
SentencePass(p) == [k \in DOMAIN p |-> IF p[k] = "polite dash" THEN "period" ELSE p[k]]
LabelPass(p) ==
  [k \in DOMAIN p |-> IF p[k] \notin {"dash", "polite dash"} THEN p[k]
                      ELSE IF k = "further" THEN "period" ELSE "colon"]
BlankPass(p) == [k \in DOMAIN p |-> IF p[k] = "bare" THEN "hyphen" ELSE p[k]]
TersePass(p) == [k \in DOMAIN p |-> IF p[k] = "polite dash" THEN "dash" ELSE p[k]]

(* Mutant of V14Prose: labels before sentences.                            *)
V14ProseLabelsFirst(p) ==
  TersePass(BlankPass(SentencePass(LabelPass(ExplicitPass(p)))))

V14Prose(p) == TersePass(BlankPass(LabelPass(SentencePass(ExplicitPass(p)))))

V14(d) == [d EXCEPT !.cover = CoverByRun(d, "1.3", "1.4"), !.prose = V14Prose(@),
                    !.polite = FALSE]

(* What the script reports at its end: nothing polite, no dash is left.    *)
Checked14(d) ==
  ~d.polite /\ {d.prose[k] : k \in DOMAIN d.prose} \cap {"dash", "polite dash", "framed", "bare"} = {}

-----------------------------------------------------------------------------
(* v1.5: section 10.3 before chapter 11, the appendix before the end mark *)

(* Mutant of V15Toc: the appendix is not listed.                           *)
V15TocUnlisted(toc) == toc

V15Toc(toc) ==
  LET i == SelectInSeq(toc, LAMBDA e : e.num = <<11>>)
  IN  Before(toc, i + 1, <<[num |-> <<>>, topic |-> "appendix"]>>)

Appendix == Marking(<<Unnumbered(1, "appendix")>>, "appendix", {"end"})

V15(d) ==
  LET scale == Citing(<<Section(2, <<10, 3>>, "scale")>>, "scale",
                      {Ref(<<10, 1>>, "full"), Ref(<<10, 2>>, "incremental")})
      body  == Before(d.body, Heading(d.body, <<11>>, "register"), scale)
      i     == FirstWith(body, "end")
  IN  [d EXCEPT !.cover = CoverByRun(d, "1.4", "1.5"), !.toc = V15Toc(@),
                !.body = Before(Unmarking(body, {"end"}), i + 1, Appendix)]

Anchored15(d) ==
  /\ Holds(d.body, <<11>>, "register") /\ FirstWith(d.body, "end") # 0
  /\ \E k \in DOMAIN d.toc : d.toc[k].num = <<11>>

-----------------------------------------------------------------------------
(* v1.6: section 1.4, what the board stores *)

V16(d) ==
  LET body == Before(d.body, Heading(d.body, <<2>>, "data"), <<Section(2, <<1, 4>>, "storage")>>)
  IN  [d EXCEPT !.cover = CoverByRun(d, "1.5", "1.6"),
                !.body = CitingAt(body, "noRow", {Ref(<<1, 4>>, "storage")})]

Anchored16(d) == Holds(d.body, <<2>>, "data")

-----------------------------------------------------------------------------
(* v1.7: new vocabulary, section 10.4 *)

(* Old and new wording, the longer first: the new nouns end in a consonant *)
(* and take the other form of each particle.                               *)
V17Pairs ==
  <<<<<<"grant", "relation", "ro">>,   <<"enrol", "record", "euro">>>>,
    <<<<"grant", "relation", "wa">>,   <<"enrol", "record", "gwa">>>>,
    <<<<"grant", "relation", "ga">>,   <<"enrol", "record", "i">>>>,
    <<<<"grant", "relation", "neun">>, <<"enrol", "record", "eun">>>>,
    <<<<"grant", "relation", "reul">>, <<"enrol", "record", "eul">>>>,
    <<<<"grant", "relation">>,         <<"enrol", "record">>>>,
    <<<<"grant", "id">>,               <<"enrol", "id">>>>,
    <<<<"grant", "ro">>,               <<"enrol", "euro">>>>,
    <<<<"grant", "ga">>,               <<"enrol", "i">>>>,
    <<<<"grant", "neun">>,             <<"enrol", "eun">>>>,
    <<<<"grant", "reul">>,             <<"enrol", "eul">>>>,
    <<<<"grant">>,                     <<"enrol">>>>>>

ReplacedIn(word, pair) ==
  IF IsPrefix(pair[1], word)
  THEN pair[2] \o SubSeq(word, Len(pair[1]) + 1, Len(word)) ELSE word

(* One replacement after the other, each on what the last one left.        *)
Rewording(word, pairs) ==
  LET upTo[k \in 0..Len(pairs)] == IF k = 0 THEN word ELSE ReplacedIn(upTo[k - 1], pairs[k])
  IN  upTo[Len(pairs)]

(* Mutant of Reworded: the shorter wordings first.                         *)
RewordedShortFirst(words, pairs) == {Rewording(w, Reverse(pairs)) : w \in words}

Reworded(words, pairs) == {Rewording(w, pairs) : w \in words}

(* The glossary row of the new noun quotes the old one as its former name. *)
FormerName == <<"grant", "relation", "quoted">>
V17Glossary == {<<"enrol", "record">>, FormerName}

V17Candidates ==
  Marking(Citing(<<Section(2, <<10, 4>>, "candidates")>>, "candidates",
                 {Ref(<<5, 1>>, "ranking"), Ref(<<10, 3>>, "scale")}),
          "candidates", {"indexPara"})

(* Mutant of V17Words: the row is added before the words are replaced.     *)
V17WordsRowFirst(words) == Reworded(words \cup V17Glossary, V17Pairs)

(* The row is added after the words are replaced: its old noun stays.      *)
V17Words(words) == Reworded(words, V17Pairs) \cup V17Glossary

V17(d) ==
  [d EXCEPT !.cover = CoverByParagraph(d, "1.6", "1.7"),
            !.words = V17Words(@),
            !.body = Before(@, Heading(@, <<11>>, "register"), V17Candidates)]

Anchored17(d) ==
  /\ d.word
  /\ Holds(d.body, <<2>>, "data") /\ Holds(d.body, <<11>>, "register")
  /\ FirstWith(d.body, "cellRule") # 0 /\ Holds(d.body, <<10, 3>>, "scale")

(* The script counts what is left of the old noun and expects exactly one, *)
(* the former name in the glossary.                                        *)
Checked17(d) ==
  /\ {w \in d.words : w[1] = "grant"} = {FormerName}
  /\ \E w \in d.words : w[1] = "enrol"
  /\ Holds(d.body, <<10, 4>>, "candidates")

-----------------------------------------------------------------------------
(* v1.8: section 10.5, how the first contest is stored *)

(* Mutant of V18Physical: a paragraph a later script looks for is missing. *)
V18PhysicalReworded ==
  Marking(Citing(<<Section(2, <<10, 5>>, "physical")>>, "physical", {Ref(<<10, 3>>, "scale")}),
          "physical", {"physIntro", "figure", "keysHead", "storedTable"})

V18Physical ==
  Marking(Citing(<<Section(2, <<10, 5>>, "physical")>>, "physical", {Ref(<<10, 3>>, "scale")}),
          "physical", {"physIntro", "figure", "keysHead", "keyGrowth", "storedTable"})

(* The index paragraph is rewritten in place and keeps its first words.    *)
V18(d) ==
  LET body == CitingAt(d.body, "indexPara", {Ref(<<10, 5>>, "physical")})
  IN  [d EXCEPT !.cover = CoverByParagraph(d, "1.7", "1.8"),
                !.body = Before(body, Heading(body, <<11>>, "register"), V18Physical)]

Anchored18(d) ==
  /\ d.word
  /\ FirstWith(d.body, "indexPara") # 0 /\ Holds(d.body, <<11>>, "register")

Checked18(d) == Holds(d.body, <<10, 5>>, "physical") /\ "keysHead" \in Marks(d.body)

=============================================================================
