----------------------------- MODULE DesignFirst -----------------------------
(***************************************************************************)
(* The two first editions, written from nothing like v1.3: the technical   *)
(* design "0.9" and the business design "0.7".  They have no list of       *)
(* contents and number to three levels, and nothing checks the references  *)
(* their authors typed.                                                    *)
(***************************************************************************)
EXTENDS DesignDoc

(* A heading of level 3, the only one under its section.                   *)
Under(body, num, topic) ==
  LET i == SelectInSeq(body, LAMBDA s : s.num = num)
  IN  Before(body, i + 1, <<Section(3, Append(num, 1), topic)>>)

Edition(v, body) ==
  [cover |-> v, split |-> FALSE, word |-> FALSE, body |-> body, toc |-> <<>>,
   polite |-> TRUE, prose |-> <<>>, words |-> {}, boards |-> <<>>]

-----------------------------------------------------------------------------
(* The technical design *)

V09Chapters0to3 ==
  LET body == <<Unnumbered(2, "terms")>>
                \o Chapter(0, "overview", <<"premise", "start", "survey">>)
                \o Chapter(1, "architecture", <<"principle", "whyboard", "modules", "boundary">>)
                \o Chapter(2, "data", <<"schedule", "policy", "account", "outputs", "logic">>)
                \o Chapter(3, "keys", <<"composition", "matching">>)
      rules == Citing(body, "policy",
                      {Ref(<<2, 3>>, "account"), Ref(<<7>>, "enrolling"), Ref(<<8>>, "period")})
  IN  Citing(Citing(rules, "account", {Ref(<<9>>, "negotiated"), Ref(<<9, 5>>, "metrics")}),
             "outputs", {Ref(<<5>>, "priority")})

V09General ==
  {Ref(<<4, 3>>, "probes"), Ref(<<5, 3>>, "nocross"), Ref(<<5, 4>>, "ties"), Ref(<<11>>, "register")}

(* Mutant of V09Priority: the general computation gets a number of its own. *)
V09PriorityFlat ==
  Citing(Chapter(5, "priority", <<"layers", "general", "ranking", "nocross", "ties">>),
         "general", V09General)

V09Priority ==
  Citing(Under(Chapter(5, "priority", <<"layers", "ranking", "nocross", "ties">>),
               <<5, 1>>, "general"), "general", V09General)

V09Chapters4to6 ==
  Citing(Chapter(4, "calculation", <<"components", "bearer", "probes">>),
         "components", {Ref(<<5, 3>>, "nocross")})
    \o V09Priority \o Chapter(6, "lookup", <<"steps", "descent", "cached">>)

V09Chapters7to11 ==
  LET body == Chapter(7, "enrolling", <<"applying", "joining", "dormant", "targets", "qualified">>)
                \o Chapter(8, "period", <<>>)
                \o Chapter(9, "negotiated", <<"lifecycle", "request", "approval", "extension", "metrics">>)
                \o Chapter(10, "cache", <<>>) \o Chapter(11, "register", <<"workflow">>)
  IN  Citing(Citing(body, "joining", {Ref(<<8>>, "period")}), "qualified", {Ref(<<9>>, "negotiated")})

V09 == Edition("0.9", V09Chapters0to3 \o V09Chapters4to6 \o V09Chapters7to11)

-----------------------------------------------------------------------------
(* The business design *)

V07Process ==
  LET body == Chapter(1, "process",
                <<"glance", "layers", "kinds", "settings", "joining", "period", "activation",
                  "negotiated", "dormant", "roles">>)
  IN  Under(Under(body, <<1, 2>>, "ties"), <<1, 7>>, "workflow")

V07Chapters2to5 ==
  LET body == Chapter(2, "data", <<"bundles", "whyboard", "tables">>) \o Chapter(3, "applying", <<>>)
                \o Chapter(4, "architecture",
                     <<"principle", "boundary", "scale", "keys", "misses", "fewEvents">>)
                \o Chapter(5, "lookup", <<"hits", "example", "detail">>)
  IN  Citing(Citing(body, "fewEvents", {Ref(<<4, 5>>, "misses")}),
             "lookup", {Ref(<<1, 2, 1>>, "ties")})

V07 ==
  Edition("0.7", <<Unnumbered(2, "terms")>> \o Chapter(0, "overview", <<"premise", "start", "survey">>)
                   \o V07Process \o V07Chapters2to5)

=============================================================================
