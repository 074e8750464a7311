-------------------------------- MODULE MCFee --------------------------------
(* Small rule books for TLC: a cfg picks Rules, and with it what can happen. *)
EXTENDS FeeLedger

CONSTANTS a1, a2

MCBases    == {"fut"}
MCClasses  == {"DERIV", "STOCK"}
MCClassOf  == [b \in MCBases |-> "DERIV"]
MCSessions == {"NIGHT"}
MCChannels == {"MTS"}
AnySession == MCSessions \cup {"*"}
AnyChannel == MCChannels \cup {"*"}

Plain(type, rank, ord, start, end) ==
  [type |-> type, class |-> "DERIV", bases |-> MCBases, sessions |-> AnySession,
   channels |-> AnyChannel, rank |-> rank, specificity |-> 0, ord |-> ord, start |-> start,
   end |-> end, relative |-> FALSE, months |-> 0, targets |-> Accounts,
   application |-> FALSE, beats |-> {"base"} \cap Rules]
AtNight(r) == [r EXCEPT !.sessions = MCSessions, !.specificity = @ + 1]
ByMts(r)   == [r EXCEPT !.channels = MCChannels, !.specificity = @ + 1]

MCRule ==
  [r \in Rules |->
     CASE r = "base"   -> Plain("BASE", 25, 1, 1, 9)
       [] r = "night"  -> AtNight(Plain("EVENT", 5, 2, 2, 2))        \* one day, one session
       [] r = "mts"    -> ByMts(Plain("EVENT", 12, 3, 1, 9))         \* one channel
       [] r = "promo"  -> [Plain("EVENT", 8, 4, 2, 2) EXCEPT !.targets = {a1}]
       [] r = "trial"  -> [Plain("EVENT", 6, 5, 1, 1) EXCEPT !.relative = TRUE, !.months = 1,
                                                             !.application = TRUE]
       [] r = "nego"   -> Plain("NEGOTIATED", 10, 6, 1, 9)
       [] r = "short"  -> Plain("NEGOTIATED", 10, 9, 1, 1)           \* ends before its grants
       [] r = "brief"  -> Plain("NEGOTIATED", 10, 10, 1, 2)          \* ends with or before its grants
       [] r = "cheap"  -> Plain("BASE", 7, 8, 1, 1)                  \* a BASE rule that ends
       [] r = "dear"   -> [Plain("EVENT", 30, 7, 1, 9) EXCEPT !.beats = {}]]

MCSeeded == [r \in Rules |-> IF r = "base" THEN "ACTIVE" ELSE "PENDING"]
AllActive == [r \in Rules |-> "ACTIVE"]
Mixed    == [r \in Rules |-> CASE r = "base"            -> "ACTIVE"
                               [] r \in {"night", "dear"} -> "ABSENT"
                               [] OTHER                  -> "PENDING"]
OpenBoth == [a \in Accounts |-> MCClasses]
OpenOne  == [a \in Accounts |-> IF a = a1 THEN {"DERIV"} ELSE {"STOCK"}]
Alone    == {<<a>> : a \in Accounts}
AnyList  == Alone \cup {<<a1, a2>>}
NoBatch  == {}
BothWays == {-1, 1}
MCHash   == [as \in Batches |-> (IF as[1] = a1 THEN 1 ELSE 2) + 2 * (Len(as) - 1)]
=============================================================================
