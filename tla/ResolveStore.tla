---------------------------- MODULE ResolveStore ----------------------------
(***************************************************************************)
(* The browser prototype's store as a state machine: rules, schedules and  *)
(* negotiated grants behind a resolution cache per account and key         *)
(* (cache.ts) and a memoised policy index.  JavaScript runs one action at  *)
(* a time, so an action is a whole store method, the subscription that     *)
(* drops the index included.                                               *)
(***************************************************************************)
EXTENDS StoreTables

CONSTANTS
  Seed,      \* the mock tables: [status, price, nego, level]
  Submitted, \* rules that may be submitted
  Rejected,  \* rules that may be rejected
  Prices,    \* rank values a stored schedule may take
  Ends,      \* end dates an extension may set
  Year,      \* length of a grant
  Offers,    \* negotiated requests: [accts, scope, sched]
  SampleKey, \* key the re-resolution batch asks for
  MaxGrants, \* bound on grants
  MaxLevel   \* bound on the metric

ASSUME StoreAssumption ==
  /\ Seed \in [status : [Rules -> RuleStatus], price : [Schedules -> Nat], nego : Seq(Grant),
               level : [Accounts -> 0..MaxLevel]]
  /\ Len(Seed.nego) <= MaxGrants
  /\ Submitted \cup Rejected \subseteq Rules /\ Prices \cup Ends \subseteq Nat
  /\ \A o \in Offers : o.accts \in Seq(Accounts) /\ o.scope \in Scope /\ o.sched \in Schedules
  /\ SampleKey \in Keys
  /\ {Year, MaxGrants, MaxLevel} \subseteq Nat

VARIABLES
  cache,   \* resolveCache: entries of some account-key pairs
  index,   \* priorityIdx
  answer   \* what resolveFee returned last

vars == <<status, until, price, nego, level, cache, index, answer>>

-----------------------------------------------------------------------------
(* Cache and index *)

Without(P) == [p \in DOMAIN cache \ P |-> cache[p]]
InvalidateAccounts(A) == cache' = Without({p \in DOMAIN cache : p[1] \in A})
InvalidateScopes(S)   == cache' = Without({p \in DOMAIN cache : \E s \in S : Covers(s, p[2])})

(* Mutant of OnChange: only the rules are compared.                        *)
OnRules(rules, schedules) == index' = IF rules THEN NoIndex ELSE index

(* The subscription: a new rules or schedules array drops the index.       *)
OnChange(rules, schedules) == index' = IF rules \/ schedules THEN NoIndex ELSE index

GetIndex == IF index = NoIndex THEN BuildIndex ELSE index

Answer(a, k, fee) == answer' = [acct |-> a, key |-> k, fee |-> fee]

(* Mutant of Stored: a null result is cached too.                          *)
StoredAlways(a, k, fee) == {<<a, k>>}

(* The entry a resolution adds to the cache: a null result is not cached.  *)
Stored(a, k, fee) == IF fee = NoAnswer THEN {} ELSE {<<a, k>>}

ResolveFee(a, k) ==
  /\ UNCHANGED tables
  /\ \/ /\ <<a, k>> \in DOMAIN cache
        /\ Answer(a, k, cache[<<a, k>>])
        /\ UNCHANGED <<cache, index>>
     \/ /\ <<a, k>> \notin DOMAIN cache
        /\ index' = GetIndex
        /\ LET fee == Resolution(GetIndex, a, k)
           IN  /\ Answer(a, k, fee)
               /\ cache' = [p \in DOMAIN cache \cup Stored(a, k, fee) |->
                              IF p = <<a, k>> THEN fee ELSE cache[p]]

PolicyPriority ==
  /\ index' = GetIndex
  /\ UNCHANGED <<tables, cache, answer>>

(* Resolves one key for every account; the last account's answer remains.  *)
BatchReresolve ==
  LET now(a) == IF <<a, SampleKey>> \in DOMAIN cache THEN cache[<<a, SampleKey>>]
                ELSE Resolution(GetIndex, a, SampleKey)
      found  == UNION {Stored(a, SampleKey, now(a)) : a \in Accounts}
  IN  /\ index' = IF \A a \in Accounts : <<a, SampleKey>> \in DOMAIN cache THEN index ELSE GetIndex
      /\ cache' = [p \in DOMAIN cache \cup found |-> IF p \in found THEN now(p[1]) ELSE cache[p]]
      /\ \E a \in Accounts : Answer(a, SampleKey, now(a))
      /\ UNCHANGED tables

-----------------------------------------------------------------------------
(* Rules and schedules *)

(* A rule and its schedule replace what had their ids; nothing is taken    *)
(* out of the cache.                                                       *)
SubmitRule(r, p) ==
  /\ status' = [status EXCEPT ![r] = "PENDING"]
  /\ until' = [until EXCEPT ![r] = Rule[r].end]
  /\ price' = [price EXCEPT ![Rule[r].sched] = p]
  /\ OnChange(TRUE, TRUE)
  /\ UNCHANGED <<nego, level, cache, answer>>

(* Mutant of ApproveRule: the cache is left alone.                         *)
ApproveRuleOnly(r) ==
  /\ status[r] # "ABSENT"
  /\ status' = [status EXCEPT ![r] = "ACTIVE"]
  /\ OnChange(TRUE, FALSE)
  /\ UNCHANGED <<until, price, nego, level, cache, answer>>

ApproveRule(r) ==
  /\ status[r] # "ABSENT"
  /\ status' = [status EXCEPT ![r] = "ACTIVE"]
  /\ OnChange(TRUE, FALSE)
  /\ InvalidateScopes({Rule[r].scope})
  /\ UNCHANGED <<until, price, nego, level, answer>>

RejectRule(r) ==
  /\ status[r] # "ABSENT"
  /\ status' = [status EXCEPT ![r] = "REJECTED"]
  /\ OnChange(TRUE, FALSE)
  /\ UNCHANGED <<until, price, nego, level, cache, answer>>

ExtendNegotiated(r, d) ==
  /\ status[r] # "ABSENT"
  /\ until' = [until EXCEPT ![r] = d]
  /\ OnChange(TRUE, FALSE)
  /\ InvalidateScopes({Rule[r].scope})
  /\ UNCHANGED <<status, price, nego, level, answer>>

AddSchedule(s, p) ==
  /\ price' = [price EXCEPT ![s] = p]
  /\ OnChange(FALSE, TRUE)
  /\ UNCHANGED <<status, until, nego, level, cache, answer>>

(* classifyLifecycle: a pending rule in its period, an active one past it. *)
Activates(r) == status[r] = "PENDING" /\ Rule[r].start <= TODAY /\ TODAY <= until[r]
Expires(r)   == status[r] = "ACTIVE" /\ TODAY > until[r]

BatchActivateExpireRules ==
  /\ status' = [r \in Rules |-> IF Activates(r) THEN "ACTIVE"
                                ELSE IF Expires(r) THEN "EXPIRED" ELSE status[r]]
  /\ OnChange(TRUE, FALSE)
  /\ InvalidateScopes({Rule[r].scope : r \in {q \in Rules : Activates(q) \/ Expires(q)}})
  /\ UNCHANGED <<until, price, nego, level, answer>>

(* Metrics grow for every account; the ones in `up` pass a threshold.      *)
BatchRecomputeMetrics(up) ==
  /\ \A a \in up : level[a] < MaxLevel
  /\ level' = [a \in Accounts |-> IF a \in up THEN level[a] + 1 ELSE level[a]]
  /\ InvalidateAccounts(Accounts)
  /\ UNCHANGED <<status, until, price, nego, index, answer>>

-----------------------------------------------------------------------------
(* Negotiated grants *)

SubmitNegoRequest(o) ==
  /\ Len(nego) + Len(o.accts) <= MaxGrants
  /\ nego' = nego \o [n \in 1..Len(o.accts) |->
                        [acct |-> o.accts[n], scope |-> o.scope, sched |-> o.sched, from |-> 0,
                         to |-> 0, status |-> "REQUESTED",
                         exception |-> ~Qualifies(o.scope.class, o.accts[n]),
                         req |-> Len(nego) + 1]]
  /\ UNCHANGED <<status, until, price, level, cache, index, answer>>

OfRequest(q) == {i \in DOMAIN nego : nego[i].req = q}
Pending(q)   == {i \in OfRequest(q) : nego[i].status = "REQUESTED"}

Activated(q) ==
  [i \in DOMAIN nego |->
     IF i \in Pending(q)
     THEN [nego[i] EXCEPT !.status = "ACTIVE", !.from = TODAY, !.to = TODAY + Year]
     ELSE nego[i]]

(* Mutant of ApproveNegoRequest: the accounts' cached answers stay.        *)
ApproveNegoOnly(q) ==
  /\ nego' = Activated(q)
  /\ UNCHANGED <<status, until, price, level, cache, index, answer>>

ApproveNegoRequest(q) ==
  /\ nego' = Activated(q)
  /\ InvalidateAccounts({nego[i].acct : i \in OfRequest(q)})
  /\ UNCHANGED <<status, until, price, level, index, answer>>

RejectNegoRequest(q) ==
  /\ nego' = [i \in DOMAIN nego |->
                IF i \in Pending(q) THEN [nego[i] EXCEPT !.status = "REJECTED"] ELSE nego[i]]
  /\ UNCHANGED <<status, until, price, level, cache, index, answer>>

(* classifyNegoExtension: the review's verdict on one running grant.       *)
Keeps(n) == n.exception \/ Qualifies(n.scope.class, n.acct)
Running  == {i \in DOMAIN nego : nego[i].status = "ACTIVE"}

(* Mutant of Reviewed: verdicts are collected from all grants.             *)
ReviewedAll(keep) == {nego[i].acct : i \in {j \in DOMAIN nego : Keeps(nego[j]) = keep}}

(* The verdicts are collected by account, not by grant.                    *)
Reviewed(keep) == {nego[i].acct : i \in {j \in Running : Keeps(nego[j]) = keep}}

ApplyNegoExtension ==
  /\ nego' = [i \in DOMAIN nego |->
                CASE i \in Running /\ nego[i].acct \in Reviewed(TRUE)
                       -> [nego[i] EXCEPT !.to = TODAY + Year]
                  [] i \in Running /\ nego[i].acct \in Reviewed(FALSE) \ Reviewed(TRUE)
                       -> [nego[i] EXCEPT !.status = "REJECTED"]
                  [] OTHER -> nego[i]]
  /\ InvalidateAccounts(Reviewed(TRUE) \cup Reviewed(FALSE))
  /\ UNCHANGED <<status, until, price, level, index, answer>>

-----------------------------------------------------------------------------
Loaded ==
  /\ status = Seed.status /\ until = [r \in Rules |-> Rule[r].end]
  /\ price = Seed.price /\ nego = Seed.nego /\ level = Seed.level

Reset ==
  /\ status' = Seed.status /\ until' = [r \in Rules |-> Rule[r].end]
  /\ price' = Seed.price /\ nego' = Seed.nego /\ level' = Seed.level
  /\ cache' = <<>>
  /\ OnChange(TRUE, TRUE)
  /\ UNCHANGED answer

Init == Loaded /\ cache = <<>> /\ index = NoIndex /\ answer = NoAnswer

Read == PolicyPriority \/ BatchReresolve \/ \E a \in Accounts, k \in Keys : ResolveFee(a, k)
RuleStep ==
  \/ \E r \in Submitted, p \in Prices : SubmitRule(r, p)
  \/ \E r \in Rules : ApproveRule(r) \/ \E d \in Ends : ExtendNegotiated(r, d)
  \/ \E r \in Rejected : RejectRule(r)
  \/ \E s \in Schedules, p \in Prices : AddSchedule(s, p)
BatchStep == BatchActivateExpireRules \/ \E up \in SUBSET Accounts : BatchRecomputeMetrics(up)
NegoStep ==
  \/ \E o \in Offers : SubmitNegoRequest(o)
  \/ \E q \in {nego[i].req : i \in DOMAIN nego} : ApproveNegoRequest(q) \/ RejectNegoRequest(q)
  \/ ApplyNegoExtension

Next == Read \/ RuleStep \/ BatchStep \/ NegoStep \/ Reset

Spec == Init /\ [][Next]_vars

-----------------------------------------------------------------------------
(* What the store promises *)

(* Tables hold what their columns may hold, and cached answers are of      *)
(* accounts and keys, never null.                                          *)
TypeOK ==
  /\ status \in [Rules -> RuleStatus]
  /\ until \in [Rules -> Nat]
  /\ price \in [Schedules -> Nat]
  /\ nego \in Seq(Grant) /\ Len(nego) <= MaxGrants
  /\ level \in [Accounts -> 0..MaxLevel]
  /\ DOMAIN cache \subseteq Accounts \X Keys /\ \A p \in DOMAIN cache : cache[p] \in Entry

(* The memoised index is the index of the rules and schedules of the       *)
(* moment, however they were changed since it was built.                   *)
IndexCurrent == index = NoIndex \/ index = BuildIndex

(* Every cached answer is what the tables say now.                         *)
CacheTrue == \A p \in DOMAIN cache : cache[p] = Current(p[1], p[2])

(* A running rule is rejected or submitted again, or a schedule replaced.  *)
Withdrawn ==
  \/ \E r \in Rules : status[r] = "ACTIVE" /\ status'[r] \in {"REJECTED", "PENDING"}
  \/ price' # price

(* Every change of rules, metrics and grants takes the cached answers it   *)
(* makes wrong out of the cache, except where the code leaves them in.     *)
CacheStaysTrue == [][~Withdrawn => (CacheTrue => CacheTrue')]_vars

(* Cache and index cannot be noticed: every answer resolveFee gives is the *)
(* one the tables give at that moment.                                     *)
Now == INSTANCE ResolveNow
ReadsThrough == Now!Spec

(* A running grant is changed by the yearly review only, and, of an account*)
(* on whose grants the review agrees, as it says: kept grants are extended,*)
(* failed ones are closed.  (Reset, which loads the mock tables, is no such*)
(* change.)                                                                *)
GrantsFollowAgreedReview ==
  [][ ~Loaded' => \A i \in Running :
        (nego'[i] # nego[i] /\ \A j \in Running : nego[j].acct = nego[i].acct
                                                    => Keeps(nego[j]) = Keeps(nego[i]))
        => nego'[i] = (IF Keeps(nego[i]) THEN [nego[i] EXCEPT !.to = TODAY + Year]
                                         ELSE [nego[i] EXCEPT !.status = "REJECTED"]) ]_vars

=============================================================================
