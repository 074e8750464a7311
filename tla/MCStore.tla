------------------------------ MODULE MCStore ------------------------------
(* Small tables for TLC in the manner of the prototype's mock data.         *)
EXTENDS ResolveStore

CONSTANTS a1, a2

MCBases    == {"us", "kr"}
MCClassOf  == [b \in MCBases |-> IF b = "us" THEN "US" ELSE "KR"]
MCSessions == {"REG"}
MCChannels == {"MTS"}
MCThreshold == [c \in {"US", "KR"} |-> IF c = "US" THEN 1 ELSE 0]

Of(b) == [class |-> MCClassOf[b], bases |-> {b}, sessions |-> MCSessions, channels |-> MCChannels]
Plain(source, b, ord, start, end, sched) ==
  [source |-> source, scope |-> Of(b), specificity |-> 0, ord |-> ord, start |-> start,
   end |-> end, relative |-> FALSE, targets |-> Accounts, benefit |-> {}, needs |-> 0,
   sched |-> sched]

MCRule ==
  [r \in Rules |->
     CASE r = "base"   -> Plain("base", "us", 1, 1, 9, "s-base")
       [] r = "sale"   -> [Plain("event", "us", 2, 1, 9, "s-sale") EXCEPT !.needs = 1]
       [] r = "signup" -> [Plain("event", "us", 3, 1, 2, "s-free") EXCEPT !.relative = TRUE,
                                                                        !.benefit = {a1}]
       [] r = "spring" -> Plain("event", "us", 4, 1, 2, "s-free")]

MCSchedules == {Rule[r].sched : r \in Rules} \cup {"s-nego"}
MCPrice == [s \in MCSchedules |-> CASE s = "s-base" -> 3 [] s = "s-sale" -> 2
                                    [] s = "s-nego" -> 2 [] OTHER -> 1]
MCStatus == [r \in Rules |-> IF r \in {"base", "signup", "spring"} THEN "ACTIVE" ELSE "PENDING"]
MCLevel == [a \in Accounts |-> IF a = a1 THEN 0 ELSE 1]

Held(a, b) ==
  [acct |-> a, scope |-> Of(b), sched |-> "s-nego", from |-> 1, to |-> 4, status |-> "ACTIVE",
   exception |-> FALSE, req |-> 0]
MCSeed    == [status |-> MCStatus, price |-> MCPrice, nego |-> <<>>, level |-> MCLevel]
GrantSeed == [MCSeed EXCEPT !.nego = <<Held(a1, "us")>>]

Offer(as, b) == [accts |-> as, scope |-> Of(b), sched |-> "s-nego"]
MCOffers  == {Offer(<<a1>>, "us"), Offer(<<a2, a1>>, "us")}
NoOffers  == {}
MCSample  == [base |-> "us", session |-> "REG", channel |-> "MTS"]
=============================================================================
