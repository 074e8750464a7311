----------------------------- MODULE DesignChain -----------------------------
(***************************************************************************)
(* The chain of scripts over the files they write, with the people who     *)
(* edit some of those files by hand.  A script reads one version and       *)
(* saves the next, any number of times; an editor saves a file in Word or  *)
(* deletes a section and numbers the following ones of its chapter anew,   *)
(* as the scripts that read v1.6 and v2.0 tell of.                         *)
(***************************************************************************)
EXTENDS DesignRestructure, DesignFirst

CONSTANTS
  Edited,     \* versions somebody edits
  Trimmed,    \* chapters somebody deletes sections of
  Splits,     \* versions where Word splits the run of the cover's version
  MaxDeleted, \* bound on the number of deletions
  MaxAgain    \* bound on the runs that overwrite a file

Derived   == {"1.4", "1.5", "1.6", "1.7", "1.8", "1.9", "2.0", "p1", "p2"}
Proposals == {"p1", "p2"}
Written   == {"0.7", "0.9", "1.3"}
Versions  == Written \cup Derived

(* The version a script reads.                                             *)
Source ==
  [v \in Derived |->
     CASE v = "1.4" -> "1.3" [] v = "1.5" -> "1.4" [] v = "1.6" -> "1.5" [] v = "1.7" -> "1.6"
       [] v = "1.8" -> "1.7" [] v = "1.9" -> "1.8" [] v = "2.0" -> "1.9" [] v = "p1"  -> "2.0"
       [] v = "p2"  -> "p1"]

ASSUME ChainAssumption ==
  /\ Edited \subseteq Versions
  /\ Trimmed \subseteq Nat
  /\ Splits \subseteq Versions
  /\ {MaxDeleted, MaxAgain} \subseteq Nat

VARIABLES
  files,   \* the files there are, by version
  deleted, \* deletions so far
  again    \* runs so far that found a file to overwrite

vars == <<files, deleted, again>>

Saved(v, doc) == [u \in DOMAIN files \cup {v} |-> IF u = v THEN doc ELSE files[u]]

(* A script overwrites the version it writes.                              *)
Overwrites(v) ==
  /\ again' = again + (IF v \in DOMAIN files THEN 1 ELSE 0)
  /\ again' <= MaxAgain

Out(v, d) ==
  CASE v = "1.4" -> V14(d)
    [] v = "1.5" -> V15(d)
    [] v = "1.6" -> V16(d)
    [] v = "1.7" -> V17(d)
    [] v = "1.8" -> V18(d)
    [] v = "1.9" -> V19(d)
    [] v = "2.0" -> V20(d)
    [] v = "p1"  -> P1(d)
    [] v = "p2"  -> P2(d)

Anchored(v, d) ==
  CASE v = "1.4" -> TRUE
    [] v = "1.5" -> Anchored15(d)
    [] v = "1.6" -> Anchored16(d)
    [] v = "1.7" -> Anchored17(d)
    [] v = "1.8" -> Anchored18(d)
    [] v = "1.9" -> Anchored19(d)
    [] v = "2.0" -> Anchored20(d)
    [] v = "p1"  -> AnchoredP1(d)
    [] v = "p2"  -> AnchoredP2(d)

-----------------------------------------------------------------------------
New(v) ==
  CASE v = "0.7" -> V07
    [] v = "0.9" -> V09
    [] v = "1.3" -> V13

(* A script that reads no other version.                                   *)
Write(v) ==
  /\ files' = Saved(v, New(v))
  /\ Overwrites(v)
  /\ UNCHANGED deleted

(* One run of one script.  A run that misses an anchor saves nothing.      *)
Convert(v) ==
  /\ Source[v] \in DOMAIN files
  /\ Anchored(v, files[Source[v]])
  /\ files' = Saved(v, Out(v, files[Source[v]]))
  /\ Overwrites(v)
  /\ UNCHANGED deleted

(* Word saves its own style names, and splits the cover of some versions.  *)
InWord(v, d) == [d EXCEPT !.word = TRUE, !.split = @ \/ v \in Splits]

SaveInWord(v) ==
  /\ v \in DOMAIN files
  /\ files' = Saved(v, InWord(v, files[v]))
  /\ UNCHANGED <<deleted, again>>

Closed(num, gone) ==
  IF Len(num) = 2 /\ num[1] = gone[1] /\ num[2] > gone[2] THEN <<num[1], num[2] - 1>> ELSE num

(* References to the sections behind it are left as they are.              *)
DeleteSection(v) ==
  /\ v \in DOMAIN files /\ deleted < MaxDeleted
  /\ \E i \in DOMAIN files[v].body :
       LET s == files[v].body[i]
       IN  /\ s.level = 2 /\ s.num # <<>> /\ s.num[1] \in Trimmed
           /\ files' = Saved(v, [InWord(v, files[v]) EXCEPT
                                   !.body = Numbering(RemoveAt(@, i), LAMBDA n : Closed(n, s.num))])
  /\ deleted' = deleted + 1
  /\ UNCHANGED again

Init ==
  /\ files = [v \in Written |-> New(v)]
  /\ deleted = 0
  /\ again = 0

Next ==
  \/ \E v \in Written : Write(v)
  \/ \E v \in Derived : Convert(v)
  \/ \E v \in Edited : SaveInWord(v) \/ DeleteSection(v)

Spec == Init /\ [][Next]_vars

-----------------------------------------------------------------------------
Body(v) == files[v].body

Present(V) == V \cap DOMAIN files

TypeOK ==
  /\ Written \subseteq DOMAIN files /\ DOMAIN files \subseteq Versions
  /\ deleted \in 0..MaxDeleted /\ again \in 0..MaxAgain
  /\ \A v \in DOMAIN files :
       /\ {files[v].word, files[v].split, files[v].polite} \subseteq BOOLEAN
       /\ files[v].cover \in Versions
       /\ Distinct(Body(v))

(* Whatever was moved, inserted or deleted, a reader finds chapters and    *)
(* sections in the order of their numbers: v1.9 and v2.0 move and renumber. *)
ChaptersInOrder == \A v \in DOMAIN files : InOrder(Body(v))

(* The list of contents, patched or overwritten line by line by v1.5, v1.9 *)
(* and v2.0, lists the chapters the body has, in that order.               *)
TocMatches == \A v \in DOMAIN files \ {"0.7", "0.9"} : files[v].toc = ContentsOf(Body(v))

(* A script run never makes a reference lose its section: what the new     *)
(* version misses, the version it was made from missed already.            *)
RefsKeepMeaning ==
  [][ \A v \in Derived \ Proposals :
        Convert(v) => Broken(Body(v)') \subseteq Broken(Body(Source[v])) ]_vars

(* Every reference of a document written from nothing leads to the section *)
(* its author meant, in the first editions across three levels.            *)
FirstRefsResolve == \A v \in Written : v \notin Edited => Broken(Body(v)) = {}

(* Every section of the version read, hand edits included, is in the one   *)
(* saved, and nothing else but what the script adds.                       *)
Added ==
  [v \in Derived |->
     CASE v = "1.5" -> {"scale", "appendix"}
       [] v = "1.6" -> {"storage"}
       [] v = "1.7" -> {"candidates"}
       [] v = "1.8" -> {"physical"}
       [] v = "1.9" -> {"journey"}
       [] v = "2.0" -> {"massive"}
       [] v = "p1"  -> {"proposal"}
       [] v = "p2"  -> {"recommendation", "background", "situation", "problem", "solution"}
       [] OTHER     -> {}]

EditsCarriedOver ==
  [][ \A v \in Derived : Convert(v) =>
        Topics(Body(v)') = (Topics(Body(Source[v])) \ {"summary", "proposal"})
                             \cup (Added[v] \cup (IF v \in Proposals THEN {} ELSE {"summary"})) ]_vars

(* From v1.4 on each dash is written as what it stands for: the passes     *)
(* take one another's input, so their order decides.                       *)
Polished ==
  \A v \in Present(Derived) :
    /\ ~files[v].polite
    /\ files[v].prose = [listedBreak |-> "period", listedAside |-> "bracket", closing |-> "period",
                         break |-> "period", label |-> "colon", further |-> "period",
                         emptyCell |-> "hyphen"]

(* From v1.7 on all that is left of the old noun and its compounds is the   *)
(* former name the glossary quotes, and every particle fits the noun       *)
(* before it; from v2.0 on the renamed class is gone.                      *)
Fits(w) == \A k \in 1..(Len(w) - 1) :
             w[k] \in {"enrol", "record"} => w[k + 1] \notin {"ro", "wa", "ga", "neun", "reul", "relation"}

WordsAgree ==
  /\ \A v \in Present(Derived \ {"1.4", "1.5", "1.6"}) :
       /\ {w \in files[v].words : w[1] = "grant"} = {FormerName}
       /\ \A w \in files[v].words : Fits(w)
  /\ \A v \in Present({"2.0"} \cup Proposals) : \A w \in files[v].words : w[1] # "lookup"

(* From v2.0 on the examples show what the board stores, preferential rows *)
(* only, and the paragraph on eight axes stands at the table of the axes.  *)
ExamplesTellBoard ==
  \A v \in Present({"2.0"} \cup Proposals) :
    /\ files[v].boards # <<>>
    /\ \A k \in DOMAIN files[v].boards : "B" \notin ToSet(files[v].boards[k])
    /\ FirstWith(Body(v), "eightAxes") = FirstWith(Body(v), "axisTable")

(* The cover names the version, also where Word split its run on the way.  *)
CoverFollows == \A v \in DOMAIN files : files[v].cover = v

(* No hand edit of these kinds stops the chain: a script finds its anchors *)
(* in every file that was saved in Word on the way.                        *)
NeverStuck ==
  \A v \in Derived :
    /\ Source[v] \in DOMAIN files
    /\ files[Source[v]].word \/ v \in {"1.4", "1.5", "1.6", "p1"}
    => Anchored(v, files[Source[v]])

(* Every file passes the check its script prints, whatever was deleted     *)
(* from it or its sources, so the check is blind to broken references.     *)
Checked(v, d) ==
  CASE v = "1.4" -> Checked14(d)
    [] v = "1.7" -> Checked17(d)
    [] v = "1.8" -> Checked18(d)
    [] v = "1.9" -> Checked19(d)
    [] v = "2.0" -> Checked20(d)
    [] v = "p1"  -> CheckedP1(d)
    [] v = "p2"  -> CheckedP2(d)
    [] OTHER     -> TRUE

OwnChecksPass == \A v \in DOMAIN files : Checked(v, files[v])

(* The proposal cites what it means, except sections that hand edits moved *)
(* from the numbers the two scripts write.                                 *)
Displaced(body) ==
  {t \in {"storage", "survey", "premise"} :
     ~Resolves(body, Ref(CASE t = "storage" -> <<1, 2>> [] t = "survey" -> <<0, 3>>
                           [] t = "premise" -> <<0, 1>>, t))}

ProposalCites == \A v \in Present(Proposals) : Broken(Body(v)) \subseteq Displaced(Body(v))

(* From v1.9 on every reference of the document leads to its section.      *)
RefsCorrected == \A v \in Present({"1.9", "2.0"}) : Broken(Body(v)) = {}

=============================================================================
