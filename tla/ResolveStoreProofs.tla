------------------------- MODULE ResolveStoreProofs -------------------------
(***************************************************************************)
(* The prototype's store: its tables stay well typed, its memoised index   *)
(* is never stale, and the cached answers stay true as long as no running  *)
(* rule is withdrawn and no schedule replaced, for every rule book.        *)
(***************************************************************************)
EXTENDS ResolveStore, TLAPS, SequenceTheorems

(* The index reads rules, end dates and schedules only, so an action that  *)
(* leaves them alone keeps what the index would be.                        *)
LEMMA SameIndex ==
  ASSUME UNCHANGED <<status, until, price>>
  PROVE  BuildIndex' = BuildIndex
  BY DEF BuildIndex, InRanking

(* A read leaves the index as it was or builds the current one.            *)
LEMMA ReadKeepsIndex ==
  ASSUME IndexCurrent, UNCHANGED tables, index' \in {index, GetIndex}
  PROVE  IndexCurrent'
<1>1. BuildIndex' = BuildIndex
  BY SameIndex DEF tables
<1> QED
  BY <1>1 DEF IndexCurrent, GetIndex

(* An action that touches neither rules, schedules nor index.              *)
LEMMA OthersKeepIndex ==
  ASSUME IndexCurrent, UNCHANGED <<status, until, price, index>>
  PROVE  IndexCurrent'
<1>1. BuildIndex' = BuildIndex
  BY SameIndex
<1> QED
  BY <1>1 DEF IndexCurrent

(* Every step of the store keeps the index current.                        *)
LEMMA StepKeepsIndex ==
  ASSUME IndexCurrent, [Next]_vars
  PROVE  IndexCurrent'
<1>1. CASE Read
  <2>1. CASE PolicyPriority
    BY <2>1, ReadKeepsIndex DEF PolicyPriority
  <2>2. CASE BatchReresolve
    BY <2>2, ReadKeepsIndex DEF BatchReresolve
  <2>3. ASSUME NEW a \in Accounts, NEW k \in Keys, ResolveFee(a, k)
        PROVE  IndexCurrent'
    BY <2>3, ReadKeepsIndex DEF ResolveFee
  <2> QED
    BY <1>1, <2>1, <2>2, <2>3 DEF Read
<1>2. CASE RuleStep
  <2>1. ASSUME NEW r \in Submitted, NEW p \in Prices, SubmitRule(r, p)
        PROVE  IndexCurrent'
    BY <2>1 DEF SubmitRule, OnChange, IndexCurrent
  <2>2. ASSUME NEW r \in Rules, ApproveRule(r)
        PROVE  IndexCurrent'
    BY <2>2 DEF ApproveRule, OnChange, IndexCurrent
  <2>3. ASSUME NEW r \in Rules, NEW d \in Ends, ExtendNegotiated(r, d)
        PROVE  IndexCurrent'
    BY <2>3 DEF ExtendNegotiated, OnChange, IndexCurrent
  <2>4. ASSUME NEW r \in Rejected, RejectRule(r)
        PROVE  IndexCurrent'
    BY <2>4 DEF RejectRule, OnChange, IndexCurrent
  <2>5. ASSUME NEW s \in Schedules, NEW p \in Prices, AddSchedule(s, p)
        PROVE  IndexCurrent'
    BY <2>5 DEF AddSchedule, OnChange, IndexCurrent
  <2> QED
    BY <1>2, <2>1, <2>2, <2>3, <2>4, <2>5 DEF RuleStep
<1>3. CASE BatchStep
  <2>1. CASE BatchActivateExpireRules
    BY <2>1 DEF BatchActivateExpireRules, OnChange, IndexCurrent
  <2>2. ASSUME NEW up \in SUBSET Accounts, BatchRecomputeMetrics(up)
        PROVE  IndexCurrent'
    BY <2>2, OthersKeepIndex DEF BatchRecomputeMetrics
  <2> QED
    BY <1>3, <2>1, <2>2 DEF BatchStep
<1>4. CASE NegoStep
  <2>1. UNCHANGED <<status, until, price, index>>
    BY <1>4 DEF NegoStep, SubmitNegoRequest, ApproveNegoRequest, RejectNegoRequest,
                ApplyNegoExtension
  <2> QED
    BY <2>1, OthersKeepIndex
<1>5. CASE Reset
  BY <1>5 DEF Reset, OnChange, IndexCurrent
<1>6. CASE UNCHANGED vars
  BY <1>6, OthersKeepIndex DEF vars
<1> QED
  BY <1>1, <1>2, <1>3, <1>4, <1>5, <1>6 DEF Next

(* However rules and schedules are submitted, approved, rejected, extended, *)
(* expired, replaced or reset, the index in memory is the one that would be *)
(* built now: the subscription of useStore.ts misses no change.             *)
THEOREM IndexStaysCurrent == Spec => []IndexCurrent
<1>1. Init => IndexCurrent
  BY DEF Init, IndexCurrent
<1>2. IndexCurrent /\ [Next]_vars => IndexCurrent'
  BY StepKeepsIndex
<1> QED
  BY <1>1, <1>2, PTL DEF Spec

-----------------------------------------------------------------------------
(* Type correctness *)

(* A resolution is null or an entry: a schedule, a rule or none, a source. *)
LEMMA ResolutionType ==
  ASSUME TypeOK, NEW a \in Accounts, NEW k
  PROVE  Current(a, k) # NoAnswer => Current(a, k) \in Entry
<1> DEFINE G == BestGrants(a, k)
           W == Leading(BuildIndex, Eligible(BuildIndex, a, k))
           g == CHOOSE i \in G : TRUE
           w == CHOOSE r \in W : TRUE
<1>1. G \subseteq DOMAIN nego
  BY DEF BestGrants, Cheapest, GrantsFor
<1>2. W \subseteq {r \in Rules : InRanking(r)}
  BY DEF Leading, Eligible, BuildIndex
<1>3. CASE G # {}
  <2>1. g \in DOMAIN nego
    BY <1>1, <1>3
  <2>2. nego[g] \in Grant
    BY <2>1 DEF TypeOK
  <2>3. Current(a, k) = [sched |-> nego[g].sched, rule |-> NoRule, source |-> "nego"]
    BY <1>3 DEF Current, Resolution
  <2> QED
    BY <2>2, <2>3 DEF Grant, Entry
<1>4. CASE G = {} /\ W # {}
  <2>1. w \in Rules /\ InRanking(w)
    BY <1>2, <1>4
  <2>2. WinnerFor(BuildIndex, a, k) = w
    BY <1>4 DEF WinnerFor
  <2>3. w # NoRule
    BY <2>1, TablesAssumption
  <2>4. Current(a, k) = [sched |-> Rule[w].sched, rule |-> w, source |-> Rule[w].source]
    BY <1>4, <2>2, <2>3 DEF Current, Resolution
  <2>5. Rule[w].sched \in Schedules /\ Rule[w].source \in {"base", "event"}
    BY <2>1, TablesAssumption DEF FeeRule, InRanking
  <2> QED
    BY <2>1, <2>4, <2>5 DEF Entry
<1>5. CASE G = {} /\ W = {}
  BY <1>5 DEF Current, Resolution, WinnerFor
<1> QED
  BY <1>3, <1>4, <1>5

(* A list of grants whose elements are replaced one by one stays one.      *)
LEMMA GrantsReplaced ==
  ASSUME nego \in Seq(Grant), NEW h, h = [i \in DOMAIN nego |-> h[i]],
         \A i \in DOMAIN nego : h[i] \in Grant
  PROVE  h \in Seq(Grant) /\ Len(h) = Len(nego)
<1>1. DOMAIN nego = 1..Len(nego) /\ Len(nego) \in Nat
  BY LenProperties
<1>2. h \in [1..Len(nego) -> Grant]
  BY <1>1
<1> QED
  BY <1>1, <1>2, SeqDef, LenProperties

(* Taking entries out of the cache keeps the rest as it was.               *)
LEMMA WithoutType ==
  ASSUME TypeOK, NEW P, cache' = Without(P)
  PROVE  /\ DOMAIN cache' = DOMAIN cache \ P
         /\ \A p \in DOMAIN cache' : cache'[p] = cache[p]
         /\ DOMAIN cache' \subseteq Accounts \X Keys
         /\ \A p \in DOMAIN cache' : cache'[p] \in Entry
  BY DEF Without, TypeOK

(* The cache half of the type invariant, for any invalidation.             *)
LEMMA CacheType ==
  ASSUME TypeOK,
         \/ cache' = cache
         \/ \E A : InvalidateAccounts(A)
         \/ \E S : InvalidateScopes(S)
  PROVE  DOMAIN cache' \subseteq Accounts \X Keys /\ \A p \in DOMAIN cache' : cache'[p] \in Entry
<1>1. CASE cache' = cache
  BY <1>1 DEF TypeOK
<1>2. CASE \E P : cache' = Without(P)
  BY <1>2, WithoutType
<1> QED
  BY <1>1, <1>2 DEF InvalidateAccounts, InvalidateScopes

(* What the reads add to the cache: current answers, and no null one.      *)
LEMMA ReadCache ==
  ASSUME TypeOK, IndexCurrent, Read
  PROVE  /\ UNCHANGED tables
         /\ DOMAIN cache' \subseteq Accounts \X Keys
         /\ \A p \in DOMAIN cache' :
              \/ p \in DOMAIN cache /\ cache'[p] = cache[p]
              \/ cache'[p] # NoAnswer /\ cache'[p] = Current(p[1], p[2])
<1>1. GetIndex = BuildIndex
  BY DEF GetIndex, IndexCurrent
<1>2. CASE PolicyPriority
  BY <1>2 DEF PolicyPriority, TypeOK
<1>3. ASSUME NEW a \in Accounts, NEW k \in Keys, ResolveFee(a, k)
      PROVE  /\ UNCHANGED tables
             /\ DOMAIN cache' \subseteq Accounts \X Keys
             /\ \A p \in DOMAIN cache' :
                  \/ p \in DOMAIN cache /\ cache'[p] = cache[p]
                  \/ cache'[p] # NoAnswer /\ cache'[p] = Current(p[1], p[2])
  <2>1. CASE UNCHANGED cache
    BY <1>3, <2>1 DEF ResolveFee, TypeOK
  <2>2. CASE <<a, k>> \notin DOMAIN cache
    <3> DEFINE fee == Current(a, k)
    <3>1. cache' = [p \in DOMAIN cache \cup Stored(a, k, fee) |->
                      IF p = <<a, k>> THEN fee ELSE cache[p]]
      BY <1>1, <1>3, <2>2 DEF ResolveFee, Current
    <3>2. Stored(a, k, fee) = IF fee = NoAnswer THEN {} ELSE {<<a, k>>}
      BY DEF Stored
    <3>3. UNCHANGED tables
      BY <1>3 DEF ResolveFee
    <3>4. DOMAIN cache' = DOMAIN cache \cup Stored(a, k, fee)
      BY <3>1
    <3>5. DOMAIN cache' \subseteq Accounts \X Keys
      BY <3>2, <3>4 DEF TypeOK
    <3>6. ASSUME NEW p \in DOMAIN cache', p = <<a, k>>
          PROVE  cache'[p] # NoAnswer /\ cache'[p] = Current(p[1], p[2])
      <4>1. p \in Stored(a, k, fee)
        BY <2>2, <3>4, <3>6
      <4>2. fee # NoAnswer
        BY <3>2, <4>1
      <4>3. cache'[p] = fee
        BY <3>1, <3>4, <3>6
      <4>4. p[1] = a /\ p[2] = k
        BY <3>6
      <4> QED
        BY <4>2, <4>3, <4>4
    <3>7. ASSUME NEW p \in DOMAIN cache', p # <<a, k>>
          PROVE  p \in DOMAIN cache /\ cache'[p] = cache[p]
      BY <3>1, <3>2, <3>4, <3>7
    <3> QED
      BY <3>3, <3>5, <3>6, <3>7
  <2> QED
    BY <1>3, <2>1, <2>2 DEF ResolveFee
<1>4. CASE BatchReresolve
  <2> DEFINE key(a) == <<a, SampleKey>>
             now(a) == IF key(a) \in DOMAIN cache THEN cache[key(a)] ELSE Current(a, SampleKey)
             found  == UNION {Stored(a, SampleKey, now(a)) : a \in Accounts}
  <2>1. cache' = [p \in DOMAIN cache \cup found |-> IF p \in found THEN now(p[1]) ELSE cache[p]]
    BY <1>1, <1>4 DEF BatchReresolve, Current
  <2>2. UNCHANGED tables
    BY <1>4 DEF BatchReresolve
  <2>3. \A p \in found : p[1] \in Accounts /\ p = key(p[1]) /\ now(p[1]) # NoAnswer
    <3> HIDE DEF now, key
    <3>1. SUFFICES ASSUME NEW a \in Accounts, NEW p \in Stored(a, SampleKey, now(a))
                   PROVE  p[1] \in Accounts /\ p = key(p[1]) /\ now(p[1]) # NoAnswer
      OBVIOUS
    <3>2. p = <<a, SampleKey>> /\ now(a) # NoAnswer
      BY <3>1 DEF Stored
    <3>3. p[1] = a
      BY <3>2
    <3> QED
      BY <3>2, <3>3 DEF key
  <2> HIDE DEF now, found
  <2>4. found \subseteq Accounts \X Keys
    <3>1. \A a \in Accounts : key(a) \in Accounts \X Keys
      BY StoreAssumption
    <3> HIDE DEF key
    <3> QED
      BY <2>3, <3>1
  <2>5. DOMAIN cache' = DOMAIN cache \cup found
    BY <2>1
  <2>6. ASSUME NEW p \in DOMAIN cache', p \in found
        PROVE  \/ p \in DOMAIN cache /\ cache'[p] = cache[p]
               \/ cache'[p] # NoAnswer /\ cache'[p] = Current(p[1], p[2])
    <3>1. cache'[p] = now(p[1]) /\ p = key(p[1]) /\ now(p[1]) # NoAnswer
      BY <2>1, <2>3, <2>5, <2>6
    <3>2. p[2] = SampleKey
      BY <3>1
    <3>3. CASE p \in DOMAIN cache
      BY <3>1, <3>3 DEF now
    <3>4. CASE p \notin DOMAIN cache
      <4>1. now(p[1]) = Current(p[1], SampleKey)
        BY <3>1, <3>4 DEF now
      <4> QED
        BY <3>1, <3>2, <4>1
    <3> QED
      BY <3>3, <3>4
  <2>7. ASSUME NEW p \in DOMAIN cache', p \notin found
        PROVE  p \in DOMAIN cache /\ cache'[p] = cache[p]
    BY <2>1, <2>5, <2>7
  <2>8. DOMAIN cache' \subseteq Accounts \X Keys
    BY <2>4, <2>5 DEF TypeOK
  <2> QED
    BY <2>2, <2>6, <2>7, <2>8
<1> QED
  BY <1>2, <1>3, <1>4 DEF Read

(* A grant that is decided or re-dated is a grant.                         *)
LEMMA GrantChanged ==
  ASSUME NEW g \in Grant, NEW from \in Nat, NEW to \in Nat
  PROVE  /\ [g EXCEPT !.status = "ACTIVE", !.from = from, !.to = to] \in Grant
         /\ [g EXCEPT !.to = to] \in Grant
         /\ [g EXCEPT !.status = "REJECTED"] \in Grant
  BY DEF Grant, GrantStatus

(* A filed request appends well typed rows, all of them requested.         *)
LEMMA RequestedRows ==
  ASSUME TypeOK, NEW o \in Offers, SubmitNegoRequest(o)
  PROVE  \E rows \in Seq(Grant) : /\ nego' = nego \o rows /\ Len(rows) = Len(o.accts)
                                  /\ \A n \in 1..Len(rows) : rows[n].status = "REQUESTED"
<1> DEFINE row(n) == [acct |-> o.accts[n], scope |-> o.scope, sched |-> o.sched, from |-> 0,
                      to |-> 0, status |-> "REQUESTED",
                      exception |-> ~Qualifies(o.scope.class, o.accts[n]), req |-> Len(nego) + 1]
           rows   == [n \in 1..Len(o.accts) |-> row(n)]
<1>1. o.accts \in Seq(Accounts) /\ o.scope \in Scope /\ o.sched \in Schedules
  BY StoreAssumption
<1>2. Len(nego) \in Nat
  BY LenProperties DEF TypeOK
<1>3. Len(o.accts) \in Nat /\ \A n \in 1..Len(o.accts) : o.accts[n] \in Accounts
  BY <1>1, LenProperties
<1>4. \A n \in 1..Len(o.accts) : row(n) \in Grant /\ row(n).status = "REQUESTED"
  BY <1>1, <1>2, <1>3 DEF Grant, GrantStatus, Qualifies
<1>5. nego' = nego \o rows
  BY DEF SubmitNegoRequest
<1> HIDE DEF row
<1>6. rows \in [1..Len(o.accts) -> Grant] /\ \A n \in 1..Len(o.accts) : rows[n] = row(n)
  BY <1>4
<1> HIDE DEF rows
<1>7. rows \in Seq(Grant) /\ Len(rows) = Len(o.accts)
  BY <1>3, <1>6, SeqDef, LenProperties
<1> QED
  BY <1>4, <1>5, <1>6, <1>7

(* A step on the grants leaves a list of grants, within the bound.         *)
LEMMA GrantStep ==
  ASSUME TypeOK, NegoStep
  PROVE  nego' \in Seq(Grant) /\ Len(nego') <= MaxGrants
<1>1. nego \in Seq(Grant) /\ Len(nego) <= MaxGrants /\ Len(nego) \in Nat
  BY LenProperties DEF TypeOK
<1>2. DOMAIN nego = 1..Len(nego) /\ \A i \in DOMAIN nego : nego[i] \in Grant
  BY <1>1, LenProperties
<1>3. TODAY \in Nat /\ TODAY + Year \in Nat
  BY TablesAssumption, StoreAssumption
<1>4. ASSUME NEW o \in Offers, SubmitNegoRequest(o)
      PROVE  nego' \in Seq(Grant) /\ Len(nego') <= MaxGrants
  <2>1. PICK rows \in Seq(Grant) : nego' = nego \o rows /\ Len(rows) = Len(o.accts)
    BY <1>4, RequestedRows
  <2>2. Len(nego) + Len(o.accts) <= MaxGrants
    BY <1>4 DEF SubmitNegoRequest
  <2>3. nego \o rows \in Seq(Grant) /\ Len(nego \o rows) = Len(nego) + Len(rows)
    BY <1>1, ConcatProperties
  <2> QED
    BY <2>1, <2>2, <2>3
<1>5. ASSUME nego' = [i \in DOMAIN nego |-> nego'[i]], \A i \in DOMAIN nego : nego'[i] \in Grant
      PROVE  nego' \in Seq(Grant) /\ Len(nego') <= MaxGrants
  BY <1>1, <1>5, GrantsReplaced
<1>6. ASSUME NEW q, ApproveNegoRequest(q)
      PROVE  nego' \in Seq(Grant) /\ Len(nego') <= MaxGrants
  <2>1. \A i \in DOMAIN nego :
          [nego[i] EXCEPT !.status = "ACTIVE", !.from = TODAY, !.to = TODAY + Year] \in Grant
    BY <1>2, <1>3, GrantChanged
  <2>2. nego' = Activated(q)
    BY <1>6 DEF ApproveNegoRequest
  <2> QED
    BY <1>2, <1>5, <2>1, <2>2 DEF Activated
<1>7. ASSUME NEW q, RejectNegoRequest(q)
      PROVE  nego' \in Seq(Grant) /\ Len(nego') <= MaxGrants
  <2>1. \A i \in DOMAIN nego : [nego[i] EXCEPT !.status = "REJECTED"] \in Grant
    BY <1>2, <1>3, GrantChanged
  <2> QED
    BY <1>2, <1>5, <1>7, <2>1 DEF RejectNegoRequest
<1>8. CASE ApplyNegoExtension
  <2>1. \A i \in DOMAIN nego : /\ [nego[i] EXCEPT !.status = "REJECTED"] \in Grant
                               /\ [nego[i] EXCEPT !.to = TODAY + Year] \in Grant
    BY <1>2, <1>3, GrantChanged
  <2> QED
    BY <1>2, <1>5, <1>8, <2>1 DEF ApplyNegoExtension
<1> QED
  BY <1>4, <1>6, <1>7, <1>8 DEF NegoStep

(* Every step of the store keeps its tables and its cache well typed.      *)
LEMMA StepKeepsType ==
  ASSUME TypeOK, IndexCurrent, [Next]_vars
  PROVE  TypeOK'
<1> USE DEF RuleStatus
<1> DEFINE CacheOK == /\ DOMAIN cache' \subseteq Accounts \X Keys
                      /\ \A p \in DOMAIN cache' : cache'[p] \in Entry
<1>1. TODAY \in Nat /\ Ends \subseteq Nat /\ Prices \subseteq Nat /\ MaxLevel \in Nat
  BY TablesAssumption, StoreAssumption
<1>2. CASE Read
  <2>1. UNCHANGED tables
    BY <1>2, ReadCache
  <2>2. ASSUME NEW p \in DOMAIN cache', ~(p \in DOMAIN cache /\ cache'[p] = cache[p])
        PROVE  cache'[p] \in Entry
    <3>1. cache'[p] # NoAnswer /\ cache'[p] = Current(p[1], p[2]) /\ p[1] \in Accounts
      BY <1>2, <2>2, ReadCache
    <3> QED
      BY <3>1, ResolutionType
  <2>3. CacheOK
    BY <1>2, <2>2, ReadCache DEF TypeOK
  <2> QED
    BY <2>1, <2>3 DEF TypeOK, tables
<1>3. CASE RuleStep
  <2>1. ASSUME NEW r \in Submitted, NEW p \in Prices, SubmitRule(r, p)
        PROVE  TypeOK'
    <3>1. r \in Rules /\ Rule[r].end \in Nat
      BY StoreAssumption, TablesAssumption DEF FeeRule
    <3> QED
      BY <1>1, <2>1, <3>1 DEF SubmitRule, TypeOK
  <2>2. ASSUME NEW r \in Rules, ApproveRule(r)
        PROVE  TypeOK'
    <3>1. CacheOK
      BY <2>2, CacheType DEF ApproveRule
    <3> QED
      BY <2>2, <3>1 DEF ApproveRule, TypeOK
  <2>3. ASSUME NEW r \in Rules, NEW d \in Ends, ExtendNegotiated(r, d)
        PROVE  TypeOK'
    <3>1. CacheOK
      BY <2>3, CacheType DEF ExtendNegotiated
    <3> QED
      BY <1>1, <2>3, <3>1 DEF ExtendNegotiated, TypeOK
  <2>4. ASSUME NEW r \in Rejected, RejectRule(r)
        PROVE  TypeOK'
    BY <2>4 DEF RejectRule, TypeOK
  <2>5. ASSUME NEW s \in Schedules, NEW p \in Prices, AddSchedule(s, p)
        PROVE  TypeOK'
    BY <1>1, <2>5 DEF AddSchedule, TypeOK
  <2> QED
    BY <1>3, <2>1, <2>2, <2>3, <2>4, <2>5 DEF RuleStep
<1>4. CASE BatchStep
  <2>1. CASE BatchActivateExpireRules
    <3>1. CacheOK
      BY <2>1, CacheType DEF BatchActivateExpireRules
    <3> QED
      BY <2>1, <3>1 DEF BatchActivateExpireRules, TypeOK
  <2>2. ASSUME NEW up \in SUBSET Accounts, BatchRecomputeMetrics(up)
        PROVE  TypeOK'
    <3>1. CacheOK
      BY <2>2, CacheType DEF BatchRecomputeMetrics
    <3> QED
      BY <1>1, <2>2, <3>1 DEF BatchRecomputeMetrics, TypeOK
  <2> QED
    BY <1>4, <2>1, <2>2 DEF BatchStep
<1>5. CASE NegoStep
  <2>1. UNCHANGED <<status, until, price, level>>
    BY <1>5 DEF NegoStep, SubmitNegoRequest, ApproveNegoRequest, RejectNegoRequest,
                ApplyNegoExtension
  <2>2. cache' = cache \/ \E A : InvalidateAccounts(A)
    BY <1>5, Zenon DEF NegoStep, SubmitNegoRequest, ApproveNegoRequest, RejectNegoRequest,
                ApplyNegoExtension
  <2>3. CacheOK
    BY <2>2, CacheType
  <2> QED
    BY <1>5, <2>1, <2>3, GrantStep DEF TypeOK
<1>6. CASE Reset
  <2>1. \A r \in Rules : Rule[r].end \in Nat
    BY TablesAssumption DEF FeeRule
  <2> QED
    BY <1>6, <2>1, StoreAssumption DEF Reset, TypeOK
<1>7. CASE UNCHANGED vars
  BY <1>7 DEF vars, TypeOK
<1> QED
  BY <1>2, <1>3, <1>4, <1>5, <1>6, <1>7 DEF Next

(* The mock tables are well typed.                                         *)
LEMMA InitType == Init => TypeOK
<1>1. \A r \in Rules : Rule[r].end \in Nat
  BY TablesAssumption DEF FeeRule
<1> QED
  BY <1>1, StoreAssumption DEF Init, Loaded, TypeOK

(* The store's tables stay well typed, and the cache holds answers only:   *)
(* resolveFee never stores a null result.                                  *)
THEOREM StoreTyped == Spec => []TypeOK
<1>1. Init => TypeOK /\ IndexCurrent
  BY InitType DEF Init, IndexCurrent
<1>2. TypeOK /\ IndexCurrent /\ [Next]_vars => (TypeOK /\ IndexCurrent)'
  BY StepKeepsType, StepKeepsIndex
<1> QED
  BY <1>1, <1>2, PTL DEF Spec

-----------------------------------------------------------------------------
(* Cached answers *)

(* What a resolution depends on: the account's running grants, its metric, *)
(* the schedules and the ranked rules that cover the key.                  *)
LEMMA SameCurrent ==
  ASSUME NEW a \in Accounts, NEW k,
         price' = price, level'[a] = level[a],
         GrantsFor(a, k)' = GrantsFor(a, k),
         \A i \in GrantsFor(a, k) : nego'[i] = nego[i],
         \A r \in Rules : Covers(Rule[r].scope, k) =>
            (InRanking(r)' <=> InRanking(r)) /\ (InRanking(r) => until'[r] = until[r])
  PROVE  Current(a, k)' = Current(a, k)
<1> DEFINE E == Eligible(BuildIndex, a, k)
           G == GrantsFor(a, k)
<1>1. /\ \A r : r \in DOMAIN BuildIndex <=> r \in Rules /\ InRanking(r)
      /\ \A r : r \in DOMAIN BuildIndex' <=> r \in Rules /\ InRanking(r)'
      /\ \A r \in DOMAIN BuildIndex :
           BuildIndex[r] = [rank |-> price[Rule[r].sched], until |-> until[r]]
      /\ \A r \in DOMAIN BuildIndex' :
           BuildIndex'[r] = [rank |-> price'[Rule[r].sched], until |-> until'[r]]
  BY DEF BuildIndex
<1>2. \A r : Covers(Rule[r].scope, k) /\ r \in DOMAIN BuildIndex =>
        r \in DOMAIN BuildIndex' /\ BuildIndex'[r] = BuildIndex[r]
  BY <1>1
<1>3. \A r : Covers(Rule[r].scope, k) /\ r \in DOMAIN BuildIndex' => r \in DOMAIN BuildIndex
  BY <1>1
<1>4. \A r : IsTarget(r, a)' <=> IsTarget(r, a)
  BY DEF IsTarget
<1>5. \A r : Covers(Rule[r].scope, k) /\ r \in DOMAIN BuildIndex =>
        (IsBenefitActive(BuildIndex, r, a)' <=> IsBenefitActive(BuildIndex, r, a))
  BY <1>2 DEF IsBenefitActive
<1>6. E' = E
  BY <1>2, <1>3, <1>4, <1>5, Zenon DEF Eligible
<1>7. \A r \in E : r \in DOMAIN BuildIndex /\ BuildIndex'[r] = BuildIndex[r]
  BY <1>2 DEF Eligible
<1> HIDE DEF E
<1>8. \A r, s \in E : Ahead(BuildIndex, r, s)' <=> Ahead(BuildIndex, r, s)
  BY <1>7 DEF Ahead
<1>9. Leading(BuildIndex, E)' = Leading(BuildIndex, E)
  BY <1>6, <1>8 DEF Leading
<1>10. WinnerFor(BuildIndex, a, k)' = WinnerFor(BuildIndex, a, k)
  <2> DEFINE W == Leading(BuildIndex, E)
  <2>1. WinnerFor(BuildIndex, a, k) = IF W = {} THEN NoRule ELSE CHOOSE r \in W : TRUE
    BY DEF WinnerFor, E
  <2>2. WinnerFor(BuildIndex, a, k)' = IF W' = {} THEN NoRule ELSE CHOOSE r \in W' : TRUE
    BY DEF WinnerFor, E
  <2> HIDE DEF W
  <2> QED
    BY <1>9, <2>1, <2>2 DEF W
<1>11. BestGrants(a, k)' = BestGrants(a, k)
  BY DEF BestGrants, Cheapest
<1>12. \A i \in BestGrants(a, k) : nego'[i] = nego[i]
  BY DEF BestGrants, Cheapest
<1> DEFINE B == BestGrants(a, k)
           g == CHOOSE i \in B : TRUE
           w == WinnerFor(BuildIndex, a, k)
<1>13. B' = B /\ w' = w
  BY <1>10, <1>11
<1>14. CASE B # {}
  <2>1. g \in B /\ g' = g
    BY <1>13, <1>14
  <2>2. nego'[g'] = nego[g]
    BY <1>12, <2>1
  <2>3. /\ Current(a, k) = [sched |-> nego[g].sched, rule |-> NoRule, source |-> "nego"]
        /\ Current(a, k)' = [sched |-> nego'[g'].sched, rule |-> NoRule, source |-> "nego"]
    BY <1>13, <1>14 DEF Current, Resolution
  <2> QED
    BY <2>2, <2>3
<1>15. CASE B = {} /\ w # NoRule
  BY <1>13, <1>15 DEF Current, Resolution
<1>16. CASE B = {} /\ w = NoRule
  BY <1>13, <1>16 DEF Current, Resolution
<1> QED
  BY <1>14, <1>15, <1>16

(* Cached answers stay true when each entry that stays depends on nothing  *)
(* that changed.                                                           *)
LEMMA EntriesKept ==
  ASSUME CacheTrue,
         \A p \in DOMAIN cache' : /\ p \in DOMAIN cache /\ cache'[p] = cache[p]
                                  /\ Current(p[1], p[2])' = Current(p[1], p[2])
  PROVE  CacheTrue'
  BY DEF CacheTrue

(* An account's running grants are untouched if its own rows are, or if    *)
(* the rows that change run neither before nor after.                      *)
LEMMA SameGrants ==
  ASSUME NEW a \in Accounts, NEW k, DOMAIN nego \subseteq DOMAIN nego',
         \A i \in DOMAIN nego : nego'[i].acct = nego[i].acct,
         \A i \in DOMAIN nego' : nego'[i].acct = a =>
            \/ i \in DOMAIN nego /\ nego'[i] = nego[i]
            \/ nego'[i].status # "ACTIVE" /\ (i \in DOMAIN nego => nego[i].status # "ACTIVE")
  PROVE  /\ GrantsFor(a, k)' = GrantsFor(a, k)
         /\ \A i \in GrantsFor(a, k) : nego'[i] = nego[i]
  BY DEF GrantsFor

(* In particular when the step touches no row of the account.              *)
LEMMA OwnRowsSame ==
  ASSUME NEW a \in Accounts, NEW k, DOMAIN nego' = DOMAIN nego,
         \A i \in DOMAIN nego : nego'[i].acct = nego[i].acct,
         \A i \in DOMAIN nego' : nego'[i].acct = a => nego'[i] = nego[i]
  PROVE  /\ GrantsFor(a, k)' = GrantsFor(a, k)
         /\ \A i \in GrantsFor(a, k) : nego'[i] = nego[i]
  BY DEF GrantsFor

(* When grants and metrics stay, an answer depends on the rules that cover *)
(* its key only.                                                           *)
LEMMA RulesDecide ==
  ASSUME NEW a \in Accounts, NEW k, UNCHANGED <<price, nego, level>>,
         \A r \in Rules : Covers(Rule[r].scope, k) =>
            (InRanking(r)' <=> InRanking(r)) /\ (InRanking(r) => until'[r] = until[r])
  PROVE  Current(a, k)' = Current(a, k)
<1>1. GrantsFor(a, k)' = GrantsFor(a, k)
  BY DEF GrantsFor
<1> QED
  BY <1>1, SameCurrent

(* When rules, schedules and metrics stay, it depends on the account's     *)
(* grants only.                                                            *)
LEMMA GrantsDecide ==
  ASSUME NEW a \in Accounts, NEW k, UNCHANGED <<status, until, price, level>>,
         GrantsFor(a, k)' = GrantsFor(a, k),
         \A i \in GrantsFor(a, k) : nego'[i] = nego[i]
  PROVE  Current(a, k)' = Current(a, k)
<1>1. \A r \in Rules : InRanking(r)' <=> InRanking(r)
  BY DEF InRanking
<1> QED
  BY <1>1, SameCurrent

(* Entries of the cache are of accounts.                                   *)
LEMMA EntryAccount ==
  ASSUME TypeOK, NEW p \in DOMAIN cache
  PROVE  p[1] \in Accounts
  BY DEF TypeOK

(* Rule and schedule requests that withdraw no running rule.               *)
LEMMA RuleStepKeepsTrue ==
  ASSUME TypeOK, CacheTrue, RuleStep, ~Withdrawn
  PROVE  CacheTrue'
<1>1. price' = price
  BY DEF Withdrawn
<1>2. \A r \in Rules : status[r] = "ACTIVE" => status'[r] \notin {"REJECTED", "PENDING"}
  BY DEF Withdrawn
<1>3. status \in [Rules -> RuleStatus] /\ until \in [Rules -> Nat]
  BY DEF TypeOK
<1>4. ASSUME UNCHANGED <<nego, level, cache>>,
             \A r \in Rules : /\ InRanking(r)' <=> InRanking(r)
                              /\ InRanking(r) => until'[r] = until[r]
      PROVE  CacheTrue'
  BY <1>1, <1>4, RulesDecide, EntryAccount, EntriesKept
<1>5. ASSUME UNCHANGED <<nego, level>>, NEW r \in Rules, InvalidateScopes({Rule[r].scope}),
             \A s \in Rules \ {r} : status'[s] = status[s] /\ until'[s] = until[s]
      PROVE  CacheTrue'
  <2>1. \A s \in Rules \ {r} : InRanking(s)' <=> InRanking(s)
    BY <1>5 DEF InRanking
  <2>2. \A p \in DOMAIN cache' : /\ p \in DOMAIN cache /\ cache'[p] = cache[p]
                                 /\ ~Covers(Rule[r].scope, p[2])
    BY <1>5 DEF InvalidateScopes, Without
  <2>3. ASSUME NEW p \in DOMAIN cache'
        PROVE  Current(p[1], p[2])' = Current(p[1], p[2])
    BY <1>1, <1>5, <2>1, <2>2, RulesDecide, EntryAccount
  <2> QED
    BY <2>2, <2>3, EntriesKept
<1>6. ASSUME NEW r \in Submitted, NEW p \in Prices, SubmitRule(r, p)
      PROVE  CacheTrue'
  <2>1. r \in Rules
    BY StoreAssumption
  <2>2. status[r] # "ACTIVE" /\ status'[r] = "PENDING"
    BY <1>2, <1>3, <1>6, <2>1 DEF SubmitRule
  <2>3. \A s \in Rules \ {r} : status'[s] = status[s] /\ until'[s] = until[s]
    BY <1>3, <1>6 DEF SubmitRule
  <2>4. \A s \in Rules : /\ InRanking(s)' <=> InRanking(s)
                         /\ InRanking(s) => until'[s] = until[s]
    BY <2>2, <2>3 DEF InRanking
  <2> QED
    BY <1>4, <1>6, <2>4 DEF SubmitRule
<1>7. ASSUME NEW r \in Rules, ApproveRule(r)
      PROVE  CacheTrue'
  <2>1. \A s \in Rules \ {r} : status'[s] = status[s] /\ until'[s] = until[s]
    BY <1>3, <1>7 DEF ApproveRule
  <2> QED
    BY <1>5, <1>7, <2>1 DEF ApproveRule
<1>8. ASSUME NEW r \in Rules, NEW d \in Ends, ExtendNegotiated(r, d)
      PROVE  CacheTrue'
  <2>1. \A s \in Rules \ {r} : status'[s] = status[s] /\ until'[s] = until[s]
    BY <1>3, <1>8 DEF ExtendNegotiated
  <2> QED
    BY <1>5, <1>8, <2>1 DEF ExtendNegotiated
<1>9. ASSUME NEW r \in Rejected, RejectRule(r)
      PROVE  CacheTrue'
  <2>1. r \in Rules
    BY StoreAssumption
  <2>2. status[r] # "ACTIVE" /\ status'[r] = "REJECTED"
    BY <1>2, <1>3, <1>9, <2>1 DEF RejectRule
  <2>3. \A s \in Rules : /\ InRanking(s)' <=> InRanking(s)
                         /\ InRanking(s) => until'[s] = until[s]
    BY <1>3, <1>9, <2>2 DEF RejectRule, InRanking
  <2> QED
    BY <1>4, <1>9, <2>3 DEF RejectRule
<1>10. ASSUME NEW s \in Schedules, NEW p \in Prices, AddSchedule(s, p)
       PROVE  CacheTrue'
  <2>1. \A r \in Rules : /\ InRanking(r)' <=> InRanking(r)
                         /\ InRanking(r) => until'[r] = until[r]
    BY <1>10 DEF AddSchedule, InRanking
  <2> QED
    BY <1>4, <1>10, <2>1 DEF AddSchedule
<1> QED
  BY <1>6, <1>7, <1>8, <1>9, <1>10 DEF RuleStep

(* The batches.                                                            *)
LEMMA BatchStepKeepsTrue ==
  ASSUME TypeOK, CacheTrue, BatchStep
  PROVE  CacheTrue'
<1>1. CASE BatchActivateExpireRules
  <2> DEFINE changed == {q \in Rules : Activates(q) \/ Expires(q)}
  <2>1. \A r \in Rules \ changed : status'[r] = status[r]
    BY <1>1 DEF BatchActivateExpireRules
  <2>2. UNCHANGED <<until, price, nego, level>>
    BY <1>1 DEF BatchActivateExpireRules
  <2>3. \A r \in Rules \ changed : /\ InRanking(r)' <=> InRanking(r)
                                   /\ until'[r] = until[r]
    BY <2>1, <2>2 DEF InRanking
  <2>4. \A p \in DOMAIN cache' : /\ p \in DOMAIN cache /\ cache'[p] = cache[p]
                                 /\ \A r \in changed : ~Covers(Rule[r].scope, p[2])
    BY <1>1 DEF BatchActivateExpireRules, InvalidateScopes, Without
  <2> HIDE DEF changed
  <2>5. ASSUME NEW p \in DOMAIN cache'
        PROVE  Current(p[1], p[2])' = Current(p[1], p[2])
    BY <2>2, <2>3, <2>4, RulesDecide, EntryAccount
  <2> QED
    BY <2>4, <2>5, EntriesKept
<1>2. ASSUME NEW up \in SUBSET Accounts, BatchRecomputeMetrics(up)
      PROVE  CacheTrue'
  <2>1. \A p \in DOMAIN cache' : p \in DOMAIN cache /\ p[1] \notin Accounts
    BY <1>2 DEF BatchRecomputeMetrics, InvalidateAccounts, Without
  <2>2. DOMAIN cache' = {}
    BY <2>1, EntryAccount
  <2> QED
    BY <2>2 DEF CacheTrue
<1> QED
  BY <1>1, <1>2 DEF BatchStep

(* The desk.                                                               *)
LEMMA NegoStepKeepsTrue ==
  ASSUME TypeOK, CacheTrue, NegoStep
  PROVE  CacheTrue'
<1>1. UNCHANGED <<status, until, price, level>>
  BY DEF NegoStep, SubmitNegoRequest, ApproveNegoRequest, RejectNegoRequest, ApplyNegoExtension
<1>2. nego \in Seq(Grant) /\ DOMAIN nego = 1..Len(nego) /\ Len(nego) \in Nat
  BY LenProperties DEF TypeOK
<1>3. ASSUME \A p \in DOMAIN cache' : /\ p \in DOMAIN cache /\ cache'[p] = cache[p]
                                      /\ GrantsFor(p[1], p[2])' = GrantsFor(p[1], p[2])
                                      /\ \A i \in GrantsFor(p[1], p[2]) : nego'[i] = nego[i]
      PROVE  CacheTrue'
  <2>1. ASSUME NEW p \in DOMAIN cache'
        PROVE  Current(p[1], p[2])' = Current(p[1], p[2])
    BY <1>1, <1>3, GrantsDecide, EntryAccount
  <2> QED
    BY <1>3, <2>1, EntriesKept
<1>4. ASSUME NEW o \in Offers, SubmitNegoRequest(o)
      PROVE  CacheTrue'
  <2>1. PICK rows \in Seq(Grant) :
          nego' = nego \o rows /\ \A n \in 1..Len(rows) : rows[n].status = "REQUESTED"
    BY <1>4, RequestedRows
  <2>2. cache' = cache
    BY <1>4 DEF SubmitNegoRequest
  <2>3. /\ nego' \in Seq(Grant) /\ Len(nego') = Len(nego) + Len(rows)
        /\ \A i \in 1..Len(nego) + Len(rows) :
             nego'[i] = IF i <= Len(nego) THEN nego[i] ELSE rows[i - Len(nego)]
    BY <1>2, <2>1, ConcatProperties
  <2>4. DOMAIN nego' = 1..Len(nego) + Len(rows) /\ Len(rows) \in Nat
    BY <2>3, LenProperties
  <2>5. /\ DOMAIN nego \subseteq DOMAIN nego'
        /\ \A i \in DOMAIN nego : nego'[i] = nego[i]
        /\ \A i \in DOMAIN nego' : i \in DOMAIN nego \/ nego'[i].status = "REQUESTED"
    BY <1>2, <2>1, <2>3, <2>4
  <2>6. ASSUME NEW p \in DOMAIN cache
        PROVE  /\ GrantsFor(p[1], p[2])' = GrantsFor(p[1], p[2])
               /\ \A i \in GrantsFor(p[1], p[2]) : nego'[i] = nego[i]
    BY <2>5, EntryAccount, SameGrants
  <2> QED
    BY <1>3, <2>2, <2>6
<1>5. ASSUME NEW q, ApproveNegoRequest(q)
      PROVE  CacheTrue'
  <2>1. \A p \in DOMAIN cache' :
          /\ p \in DOMAIN cache /\ cache'[p] = cache[p]
          /\ \A i \in DOMAIN nego : nego[i].req = q => nego[i].acct # p[1]
    BY <1>5 DEF ApproveNegoRequest, InvalidateAccounts, Without, OfRequest
  <2>2. /\ DOMAIN nego' = DOMAIN nego
        /\ \A i \in DOMAIN nego : nego[i].req # q => nego'[i] = nego[i]
        /\ \A i \in DOMAIN nego : nego'[i].acct = nego[i].acct
    <3>1. nego' = Activated(q) /\ \A i \in DOMAIN nego : nego[i] \in Grant
      BY <1>2, <1>5 DEF ApproveNegoRequest
    <3>2. \A g \in Grant :
            [g EXCEPT !.status = "ACTIVE", !.from = TODAY, !.to = TODAY + Year].acct = g.acct
      BY DEF Grant
    <3>3. \A i \in DOMAIN nego : i \in Pending(q) => nego[i].req = q
      BY DEF Pending, OfRequest
    <3> QED
      BY <3>1, <3>2, <3>3 DEF Activated
  <2>3. ASSUME NEW p \in DOMAIN cache'
        PROVE  /\ GrantsFor(p[1], p[2])' = GrantsFor(p[1], p[2])
               /\ \A i \in GrantsFor(p[1], p[2]) : nego'[i] = nego[i]
    <3>1. \A i \in DOMAIN nego' : nego'[i].acct = p[1] => nego'[i] = nego[i]
      BY <2>1, <2>2
    <3>2. p[1] \in Accounts
      BY <2>1, <2>2, EntryAccount
    <3> QED
      BY <2>2, <3>1, <3>2, OwnRowsSame
  <2> QED
    BY <1>3, <2>1, <2>3
<1>6. ASSUME NEW q, RejectNegoRequest(q)
      PROVE  CacheTrue'
  <2>1. /\ DOMAIN nego' = DOMAIN nego
        /\ \A i \in DOMAIN nego :
             /\ nego'[i].acct = nego[i].acct
             /\ \/ nego'[i] = nego[i]
                \/ nego[i].status = "REQUESTED" /\ nego'[i].status = "REJECTED"
    BY <1>2, <1>6 DEF RejectNegoRequest, Pending, OfRequest, Grant
  <2>2. ASSUME NEW p \in DOMAIN cache
        PROVE  /\ GrantsFor(p[1], p[2])' = GrantsFor(p[1], p[2])
               /\ \A i \in GrantsFor(p[1], p[2]) : nego'[i] = nego[i]
    BY <2>1, EntryAccount, SameGrants
  <2> QED
    BY <1>3, <1>6, <2>2 DEF RejectNegoRequest
<1>7. CASE ApplyNegoExtension
  <2>1. \A i \in Running : nego[i].acct \in Reviewed(TRUE) \cup Reviewed(FALSE)
    BY DEF Reviewed, Keeps, Qualifies
  <2>2. \A p \in DOMAIN cache' :
          /\ p \in DOMAIN cache /\ cache'[p] = cache[p]
          /\ p[1] \notin Reviewed(TRUE) \cup Reviewed(FALSE)
    BY <1>7 DEF ApplyNegoExtension, InvalidateAccounts, Without
  <2>3. /\ DOMAIN nego' = DOMAIN nego
        /\ \A i \in DOMAIN nego : nego'[i].acct = nego[i].acct
        /\ \A i \in DOMAIN nego : i \notin Running => nego'[i] = nego[i]
    BY <1>2, <1>7 DEF ApplyNegoExtension, Grant
  <2>4. ASSUME NEW p \in DOMAIN cache'
        PROVE  /\ GrantsFor(p[1], p[2])' = GrantsFor(p[1], p[2])
               /\ \A i \in GrantsFor(p[1], p[2]) : nego'[i] = nego[i]
    <3>1. \A i \in DOMAIN nego' : nego'[i].acct = p[1] => nego'[i] = nego[i]
      <4> SUFFICES ASSUME NEW i \in DOMAIN nego', nego'[i].acct = p[1]
                   PROVE  nego'[i] = nego[i]
        OBVIOUS
      <4>1. i \in DOMAIN nego /\ nego[i].acct = p[1]
        BY <2>3
      <4>2. p[1] \notin Reviewed(TRUE) \cup Reviewed(FALSE)
        BY <2>2
      <4>3. i \notin Running
        BY <2>1, <4>1, <4>2
      <4> QED
        BY <2>3, <4>1, <4>3
    <3>2. p[1] \in Accounts
      BY <2>2, <2>3, EntryAccount
    <3> QED
      BY <2>3, <3>1, <3>2, OwnRowsSame
  <2> QED
    BY <1>3, <2>2, <2>4
<1> QED
  BY <1>4, <1>5, <1>6, <1>7 DEF NegoStep

(* Whatever changes rules, metrics and grants, the cached answers it makes *)
(* wrong are dropped in the same store action: true answers stay true      *)
(* unless a running rule is rejected or submitted again or a schedule is   *)
(* replaced.                                                               *)
LEMMA StepKeepsTrue ==
  ASSUME TypeOK, IndexCurrent, CacheTrue, [Next]_vars, ~Withdrawn
  PROVE  CacheTrue'
<1>1. CASE Read
  <2>1. UNCHANGED tables
    BY <1>1, ReadCache
  <2>2. \A a, k : Current(a, k)' = Current(a, k)
    BY <2>1 DEF tables, Current, Resolution, BestGrants, Cheapest, GrantsFor, WinnerFor, Leading,
                Eligible, Ahead, IsTarget, IsBenefitActive, BuildIndex, InRanking
  <2> QED
    BY <1>1, <2>2, ReadCache DEF CacheTrue
<1>2. CASE Reset
  BY <1>2 DEF Reset, CacheTrue
<1>3. CASE UNCHANGED vars
  <2>1. \A a, k : Current(a, k)' = Current(a, k)
    BY <1>3 DEF vars, Current, Resolution, BestGrants, Cheapest, GrantsFor, WinnerFor, Leading,
                Eligible, Ahead, IsTarget, IsBenefitActive, BuildIndex, InRanking
  <2> QED
    BY <1>3, <2>1 DEF vars, CacheTrue
<1> QED
  BY <1>1, <1>2, <1>3, RuleStepKeepsTrue, BatchStepKeepsTrue, NegoStepKeepsTrue DEF Next

(* Cached answers stay true in every step that withdraws no running rule   *)
(* and replaces no schedule: the invalidations of useStore.ts are enough.  *)
THEOREM AnswersStayTrue == Spec => CacheStaysTrue
<1>1. Init => TypeOK /\ IndexCurrent
  BY InitType DEF Init, IndexCurrent
<1>2. TypeOK /\ IndexCurrent /\ [Next]_vars => (TypeOK /\ IndexCurrent)'
  BY StepKeepsType, StepKeepsIndex
<1>3. TypeOK /\ IndexCurrent /\ [Next]_vars => [~Withdrawn => (CacheTrue => CacheTrue')]_vars
  BY StepKeepsTrue
<1> QED
  BY <1>1, <1>2, <1>3, PTL DEF Spec, CacheStaysTrue

-----------------------------------------------------------------------------
(* Implementing ResolveNow *)

(* A store that files no rule, rejects none and stores no schedule keeps   *)
(* its cached answers true in every step.                                  *)
LEMMA QuietStepKeepsTrue ==
  ASSUME TypeOK, IndexCurrent, CacheTrue, [Next]_vars,
         Submitted = {}, Rejected = {}, Prices = {}
  PROVE  CacheTrue'
<1>1. CASE Reset
  BY <1>1 DEF Reset, CacheTrue
<1>2. CASE Read \/ NegoStep \/ UNCHANGED vars
  <2>1. UNCHANGED <<status, price>>
    BY <1>2, ReadCache DEF tables, vars, NegoStep, SubmitNegoRequest, ApproveNegoRequest,
                           RejectNegoRequest, ApplyNegoExtension
  <2>2. ~Withdrawn
    BY <2>1 DEF Withdrawn
  <2> QED
    BY <2>2, StepKeepsTrue
<1>3. CASE RuleStep
  <2>1. PICK r \in Rules : ApproveRule(r) \/ \E d \in Ends : ExtendNegotiated(r, d)
    BY <1>3 DEF RuleStep
  <2>2. price' = price /\ status \in [Rules -> RuleStatus]
    BY <2>1 DEF ApproveRule, ExtendNegotiated, TypeOK
  <2>3. \A s \in Rules : status'[s] = status[s] \/ status'[s] = "ACTIVE"
    BY <2>1, <2>2 DEF ApproveRule, ExtendNegotiated
  <2>4. ~Withdrawn
    BY <2>2, <2>3 DEF Withdrawn
  <2> QED
    BY <2>4, StepKeepsTrue
<1>4. CASE BatchStep
  BY <1>4, BatchStepKeepsTrue
<1> QED
  BY <1>1, <1>2, <1>3, <1>4 DEF Next

(* With true cached answers and a current index every step is a question   *)
(* answered from the tables, or answers nothing.                           *)
LEMMA StepReadsThrough ==
  ASSUME IndexCurrent, CacheTrue, [Next]_vars
  PROVE  [Now!Next]_<<Now!tables, answer>>
<1>1. GetIndex = BuildIndex
  BY DEF GetIndex, IndexCurrent
<1>2. \A a, k : Now!Current(a, k) = Current(a, k)
  BY DEF Now!Current, Now!Resolution, Now!BestGrants, Now!Cheapest, Now!GrantsFor, Now!WinnerFor,
         Now!Leading, Now!Eligible, Now!Ahead, Now!IsTarget, Now!IsBenefitActive,
         Now!BuildIndex, Now!InRanking, Now!Covers,
         Current, Resolution, BestGrants, Cheapest, GrantsFor, WinnerFor, Leading, Eligible,
         Ahead, IsTarget, IsBenefitActive, BuildIndex, InRanking, Covers
<1>3. ASSUME NEW a \in Accounts, NEW k \in Keys, UNCHANGED tables, Answer(a, k, Current(a, k))
      PROVE  Now!Next
  <2>1. Now!Ask(a, k)
    BY <1>2, <1>3 DEF Now!Ask, Answer, tables, Now!tables
  <2> QED
    BY <2>1 DEF Now!Next, Keys, Now!Keys
<1>4. ASSUME NEW a \in Accounts, NEW k \in Keys, ResolveFee(a, k)
      PROVE  Now!Next
  <2>1. CASE <<a, k>> \in DOMAIN cache
    <3>1. cache[<<a, k>>] = Current(a, k)
      BY <2>1 DEF CacheTrue
    <3> QED
      BY <1>3, <1>4, <2>1, <3>1 DEF ResolveFee
  <2>2. CASE <<a, k>> \notin DOMAIN cache
    <3>1. UNCHANGED tables /\ Answer(a, k, Resolution(GetIndex, a, k))
      BY <1>4, <2>2 DEF ResolveFee
    <3>2. Answer(a, k, Current(a, k))
      BY <1>1, <3>1 DEF Current
    <3> QED
      BY <1>3, <3>1, <3>2
  <2> QED
    BY <2>1, <2>2
<1>5. CASE BatchReresolve
  <2> DEFINE now(a) == IF <<a, SampleKey>> \in DOMAIN cache THEN cache[<<a, SampleKey>>]
                       ELSE Resolution(GetIndex, a, SampleKey)
  <2>1. PICK a \in Accounts : Answer(a, SampleKey, now(a))
    BY <1>5 DEF BatchReresolve
  <2>2. now(a) = Current(a, SampleKey)
    <3>1. CASE <<a, SampleKey>> \in DOMAIN cache
      BY <3>1 DEF CacheTrue
    <3>2. CASE <<a, SampleKey>> \notin DOMAIN cache
      BY <1>1, <3>2 DEF Current
    <3> QED
      BY <3>1, <3>2
  <2> HIDE DEF now
  <2>3. Answer(a, SampleKey, Current(a, SampleKey))
    BY <2>1, <2>2
  <2>4. UNCHANGED tables /\ SampleKey \in Keys
    BY <1>5, StoreAssumption DEF BatchReresolve
  <2> QED
    BY <1>3, <2>3, <2>4
<1>6. CASE answer' = answer
  BY <1>6 DEF Now!Next, Now!Change
<1>7. CASE RuleStep \/ BatchStep \/ NegoStep \/ Reset \/ PolicyPriority \/ UNCHANGED vars
  <2>1. answer' = answer
    BY <1>7 DEF RuleStep, BatchStep, NegoStep, Reset, PolicyPriority, vars, SubmitRule, ApproveRule,
                RejectRule, ExtendNegotiated, AddSchedule, BatchActivateExpireRules,
                BatchRecomputeMetrics, SubmitNegoRequest, ApproveNegoRequest, RejectNegoRequest,
                ApplyNegoExtension
  <2> QED
    BY <1>6, <2>1
<1> QED
  BY <1>4, <1>5, <1>7 DEF Next, Read

(* Cache, index and their invalidations implement plain resolution: when   *)
(* no rule is submitted or rejected and no schedule stored, every answer   *)
(* resolveFee gives is the one the tables give at that moment, whatever    *)
(* approvals, expiries, extensions, metrics and grants did before.         *)
THEOREM StoreReadsThrough ==
  ASSUME Submitted = {}, Rejected = {}, Prices = {}
  PROVE  Spec => ReadsThrough
<1> DEFINE Inv == TypeOK /\ IndexCurrent /\ CacheTrue
<1>1. Init => Inv /\ answer = NoAnswer
  BY InitType DEF Init, IndexCurrent, CacheTrue
<1>2. Inv /\ [Next]_vars => Inv'
  BY StepKeepsType, StepKeepsIndex, QuietStepKeepsTrue
<1>3. Inv /\ [Next]_vars => [Now!Next]_<<Now!tables, answer>>
  BY StepReadsThrough
<1> QED
  BY <1>1, <1>2, <1>3, PTL DEF Spec, ReadsThrough, Now!Spec

-----------------------------------------------------------------------------
(* Running grants *)

(* Filing and deciding a request leave every running grant as it was.      *)
LEMMA RequestsLeaveRunning ==
  ASSUME TypeOK, NEW i \in Running,
         \/ \E o \in Offers : SubmitNegoRequest(o)
         \/ \E q : ApproveNegoRequest(q) \/ RejectNegoRequest(q)
  PROVE  nego'[i] = nego[i]
<1>1. i \in DOMAIN nego /\ nego[i].status = "ACTIVE"
  BY DEF Running
<1>2. ASSUME NEW o \in Offers, SubmitNegoRequest(o) PROVE nego'[i] = nego[i]
  <2>1. PICK rows \in Seq(Grant) : nego' = nego \o rows
    BY <1>2, RequestedRows
  <2>2. nego \in Seq(Grant) /\ i \in 1..Len(nego)
    BY <1>1, LenProperties DEF TypeOK
  <2> QED
    BY <2>1, <2>2, ConcatProperties
<1>3. ASSUME NEW q, ApproveNegoRequest(q) \/ RejectNegoRequest(q) PROVE nego'[i] = nego[i]
  <2>1. i \notin Pending(q)
    BY <1>1 DEF Pending
  <2> QED
    BY <1>1, <1>3, <2>1 DEF ApproveNegoRequest, RejectNegoRequest, Activated
<1> QED
  BY <1>2, <1>3

(* The review collects verdicts by account: where they agree, each running *)
(* grant of the account gets its own.                                      *)
LEMMA ReviewApplies ==
  ASSUME TypeOK, ApplyNegoExtension, NEW i \in Running,
         \A j \in Running : nego[j].acct = nego[i].acct => Keeps(nego[j]) = Keeps(nego[i])
  PROVE  nego'[i] = IF Keeps(nego[i]) THEN [nego[i] EXCEPT !.to = TODAY + Year]
                                      ELSE [nego[i] EXCEPT !.status = "REJECTED"]
<1>1. i \in DOMAIN nego
  BY DEF Running
<1>2. \A j \in Running : Keeps(nego[j]) \in BOOLEAN
  <2>1. \A j \in Running : nego[j] \in Grant
    BY LenProperties DEF Running, TypeOK
  <2>2. \A g \in Grant : g.exception \in BOOLEAN
    BY DEF Grant
  <2>3. \A j \in Running : nego[j].exception \in BOOLEAN
    BY <2>1, <2>2
  <2> QED
    BY <2>3 DEF Keeps, Qualifies
<1>3. /\ Keeps(nego[i]) => nego[i].acct \in Reviewed(TRUE)
      /\ ~Keeps(nego[i]) => nego[i].acct \in Reviewed(FALSE) \ Reviewed(TRUE)
  BY <1>2 DEF Reviewed
<1>4. CASE Keeps(nego[i])
  BY <1>1, <1>3, <1>4 DEF ApplyNegoExtension
<1>5. CASE ~Keeps(nego[i])
  BY <1>1, <1>3, <1>5 DEF ApplyNegoExtension
<1> QED
  BY <1>4, <1>5

(* No method but the yearly review changes a running grant, and it does to *)
(* the grants of an account on which it agrees what it says of each.       *)
THEOREM GrantsFollowReview == Spec => GrantsFollowAgreedReview
<1> DEFINE verdict(i) == IF Keeps(nego[i]) THEN [nego[i] EXCEPT !.to = TODAY + Year]
                                           ELSE [nego[i] EXCEPT !.status = "REJECTED"]
           agreed(i)  == \A j \in Running : nego[j].acct = nego[i].acct
                                            => Keeps(nego[j]) = Keeps(nego[i])
<1>1. ASSUME TypeOK, [Next]_vars, ~Loaded', NEW i \in Running, nego'[i] # nego[i], agreed(i)
      PROVE  nego'[i] = verdict(i)
  <2>1. ~Reset
    BY <1>1 DEF Reset, Loaded
  <2>2. ~(UNCHANGED nego)
    BY <1>1
  <2>3. NegoStep
    BY <1>1, <2>1, <2>2 DEF Next, Read, PolicyPriority, BatchReresolve, ResolveFee, tables, vars,
       RuleStep, SubmitRule, ApproveRule, RejectRule, ExtendNegotiated, AddSchedule, BatchStep,
       BatchActivateExpireRules, BatchRecomputeMetrics
  <2>4. ApplyNegoExtension
    BY <1>1, <2>3, RequestsLeaveRunning DEF NegoStep
  <2> QED
    BY <1>1, <2>4, ReviewApplies
<1>2. TypeOK /\ [Next]_vars =>
        [~Loaded' => \A i \in Running : nego'[i] # nego[i] /\ agreed(i) => nego'[i] = verdict(i)]_vars
  BY <1>1
<1> QED
  BY <1>2, StoreTyped, PTL DEF Spec, GrantsFollowAgreedReview

=============================================================================
