----------------------------- MODULE MCRequests ------------------------------
(* Requests that meet on one rule book: a BASE rule that stays, a club      *)
(* event to join or expire, two events to approve, and a negotiated rule    *)
(* with a filed request.                                                    *)
EXTENDS FeeRequests

CONSTANTS a1, a2

MCBases    == {"fut"}
MCClasses  == {"DERIV"}
MCClassOf  == [b \in MCBases |-> "DERIV"]
MCOpened   == [a \in Accounts |-> MCClasses]
MCSessions == {"NIGHT"}
MCChannels == {"MTS"}
AnySession == MCSessions \cup {"*"}
AnyChannel == MCChannels \cup {"*"}

Plain(type, rank, ord, start) ==
  [type |-> type, class |-> "DERIV", bases |-> MCBases, sessions |-> AnySession,
   channels |-> AnyChannel, rank |-> rank, specificity |-> 0, ord |-> ord, start |-> start,
   end |-> 9, relative |-> FALSE, months |-> 0, targets |-> Accounts,
   application |-> FALSE, beats |-> {"base"} \cap Rules]

MCRule ==
  [r \in Rules |->
     CASE r = "base"  -> Plain("BASE", 25, 1, 1)
       [] r = "night" -> [Plain("EVENT", 5, 3, 1) EXCEPT !.sessions = MCSessions, !.specificity = 1]
       [] r = "mts"   -> [Plain("EVENT", 12, 4, 1) EXCEPT !.channels = MCChannels, !.specificity = 1]
       [] r = "nego"  -> Plain("NEGOTIATED", 8, 5, 1)
       [] r = "club"  -> [Plain("EVENT", 6, 6, 1) EXCEPT !.application = TRUE]]

MCSeeded == [r \in Rules |-> IF r \in {"night", "mts"} THEN "PENDING" ELSE "ACTIVE"]

AllHere == {{}}
AllEnded == {{}, {"base", "nego", "club"}}

FiledId   == [rule |-> "nego", hash |-> 1]
MCFilings ==
  IF "nego" \in Rules
  THEN <<[acct |-> a1, rule |-> "nego", status |-> "REQUESTED", from |-> NoDate, to |-> NoDate,
          at |-> NoDate, req |-> FiledId]>>
  ELSE <<>>

Ask(kind, r) == [kind |-> kind, rule |-> r, acct |-> a1,
                 filing |-> IF kind \in {"decide", "deny"} THEN FiledId ELSE NoReq]
MCRequest ==
  [q \in Requests |->
     CASE q = "okNight" -> Ask("approve", "night")
       [] q = "okMts"   -> Ask("approve", "mts")
       [] q = "again"   -> Ask("approve", "mts")
       [] q = "noMts"   -> Ask("reject", "mts")
       [] q = "endClub" -> Ask("expire", "club")
       [] q = "grant"   -> Ask("decide", "nego")
       [] q = "deny"    -> Ask("deny", "nego")
       [] q = "join"    -> Ask("enroll", "club")]

NoBatch == {}
MCHash  == [as \in Batches |-> 1]
=============================================================================
