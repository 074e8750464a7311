# Formal model of the fee policy platform

TLA+ modules, TLC runs and TLAPS proofs for the fee policy platform: a brokerage
back end that keeps fee rules (base fees, events, negotiated fees), decides for
every account which rule is cheapest for every kind of trade, and stores the
result in a *binding board* a trading ledger reads. The repository also keeps the
scripts that write and rewrite the platform's design documents. Below, `S/`
stands for `src/server/src/main/java/kr/fees/` and `D/` for `src/docs/scripts/`.

## 1. The system

### Components, state and operations

| component | code | state | operations |
|---|---|---|---|
| Policy domain | `S/domain`, `S/batch/CellUniverse`, `CandidateMap` | none | scope matching, cell universe, unified ranking, eligibility gate, winner of a cell and its dates |
| Rule workflow | `S/service/RuleService` | `fee_rule.rule_status` | createDraft, submit, approve (dominance check), reject, expire |
| Negotiated desk | `S/service/NegoService`, `S/persistence/EnrollmentRepository` | `fee_enrollment` rows of NEGOTIATED rules, grouped by request id | createRequests, approve, reject, extend, candidate lists |
| Event enrollment | `S/api/EnrollController` | `fee_enrollment` rows of EVENT rules | enroll |
| Binding board | `S/batch/BindingWriter`, `IncrementalBinder`, `BindingRebuilder`, `DeltaBatch` | `fee_binding`, `fee_binding_history` | rebuild of one account, of the accounts a request concerns, of the accounts a day concerns, of all |
| Rank index | `S/batch/RankIndexService`, `RankIndexBootstrap` | `fee_rule.rank_value`, `fee_rule_candidate_index` | rebuildAll on approval, expiry, command and at start-up |
| Ledger lookup | `S/service/LedgerLookupService`, `S/persistence/BindingRepository` | reads the board | fee of a trade: most specific row, otherwise the base fee |
| Priority | `S/service/PriorityService` | reads the index | theoretically best policy of a cell |
| Fee calculation | `S/domain/FeeCalculator`, `DominanceValidator` | none | fee of an execution, dominance of one schedule over another at probe prices |
| Document generators | `D/` | the document files, one per version | twelve scripts that write a version from nothing or from another one; edits by hand in between |
| Trace, dashboard, master data | `S/service/TraceService`, `S/api` | none | read-only views |
| Browser prototype | `src/src/store`, `src/src/domain` | in-memory rules, schedules, grants, metrics; a resolution cache and a ranking index beside them | submitRule, approveRule, rejectRule, extendNegotiated, addSchedule, the batches, the negotiated desk and its yearly review, resolveFee |

### How they interact

A rule becomes ACTIVE by approval; the approval restamps ranks, rebuilds the
candidate index and rebuilds the boards of every account that opened the rule's
asset class. An approved or extended grant and an event application rebuild the
boards of the accounts named by their enrollment rows. Two batches, started
through the API, rebuild boards by date (delta) or completely. Requests run in
transactions of their own (READ COMMITTED), except the event application, whose
statements commit one by one; what they share is the tables and their row locks. Every rebuild
runs the same code: derive the wanted rows of one account from active rules and
its enrollments, compare with the stored rows, delete, insert, log. Readers never
derive anything: a trade takes the most specific stored row that is valid today
and falls back to the base rule, the priority screen takes the first indexed rule
that still qualifies.

So the board and the index are caches of a function of rules, enrollments and
date, refreshed in pieces by whoever changes an input. The hard questions are
whether every writer refreshes enough, whether dates passing is noticed, whether
what is stored answers a trade on a cell that is not stored, and whether a
deviation is repaired.

The browser prototype answers the same question without a board: `resolveFee`
resolves on demand, keeps each answer in a cache per account and key, and keeps
the ranking in a memoised index. There every method that changes an input must
drop the answers it makes wrong.

The document generators are a chain over files: v1.3 is written from nothing, v1.4
to v2.0 each from the file before, two proposals from v2.0. A script searches the
paragraphs it changes by their words and saves once, at its end. Between two scripts
files were edited by hand: v1.4 sets out to keep the manual edits of v1.3
(`D/기술설계서_v14_생성.py:2`), the script that reads v1.6 meets a cover run that Word
has split (`D/기술설계서_v17_생성.py:50`), the one that reads v2.0 respects manual
edits and repairs a reference left by a deleted section of chapter 1
(`D/개선제안서_생성.py:88` and `:94`). In which version the deletion was made cannot be
read from the scripts.

### What makes each component correct

* Domain: one winner per cell, the cheapest policy the account qualifies for; the
  stored cells represent all concrete trades.
* Board: one row per cell; negotiated rows carry the dates of an existing grant;
  history agrees with the board; every request keeps fresh boards fresh; a day's
  delta is enough; a full rebuild repairs everything.
* Workflow and desk: a decided grant is not decided again; only dominated rules
  become active.
* Index: ranked before used; index and computation give the same answer.
* Lookup: a trade is served the fee of the account's winner.
* Requests together: approvals and expiries that overlap leave boards right,
  approvals do not deadlock, every request ends, a crash leaves nothing half done
  that a transaction covers.
* Tariff: an approved schedule is nowhere dearer than its base; the ranking
  orders comparable schedules as their fees do; the margin verdict holds for other
  trades than the probe.
* Documents: numbers, contents and references agree with the sections wherever
  they moved; no edit by hand is lost or stops the chain.
* Prototype: cache and index cannot be noticed; a grant changes as the review of
  that grant says.

The hard-to-test situations are listed line by line in `PROJECT.json`
(`hazards`), with the properties that cover them.

## 2. Modules

| module | models | kind |
|---|---|---|
| `FeePolicy` | policy domain | operators over constants, statuses `st`, enrollments `en` |
| `FeeBinding` | workflow, desk, enrollment, board, batches, index | state machine, one action per request |
| `FeeLedger` | ledger lookup, priority | operators on `FeeBinding`'s state |
| `BoardView` | what the board promises: a view of rules, enrollments and date | abstract specification |
| `FeeRequests` | the requests of `FeeBinding` at statement level, side by side, with locks, failures and crashes | state machine |
| `FeeTariff` | fee calculation, rank key, dominance probes, the approving desk | operators and a small state machine |
| `MCFee`, `MCRequests`, `MCTariff` | rule books, requests, schedules and small sets for TLC | model values |
| `StoreTables` | tables, ranking and resolution of the browser prototype | operators and variables |
| `ResolveNow` | what resolution promises, with no cache | abstract specification |
| `ResolveStore` | the prototype's store, cache and index | state machine, one action per store method |
| `MCStore` | mock-like tables for TLC | model values |
| `DesignDoc` | a document: headings, marks, references, contents; what a reader expects | operators |
| `DesignFirst` | the technical design 0.9 and business design 0.7 | operators |
| `DesignScripts` | v1.3 to v1.8 | one function per script |
| `DesignRestructure` | v1.9, v2.0 and the two proposals, which move and renumber | one function per script |
| `DesignChain` | the scripts over the files, with edits by hand | state machine |
| `MCDesign` | names `DesignChain` for TLC | |
| `FeeBindingProofs` | ranking and winner; invariants and action properties of `FeeBinding`; what a trade is answered, and the index, in `FeeLedger`; `FeeBinding` implements `BoardView` | theorems |
| `FeeRequestsProofs` | grants and ranks while requests of `FeeRequests` overlap | theorems |
| `FeeOverlapProofs` | types, boards and deadlock while requests of `FeeRequests` overlap | theorems |
| `FeeTariffProofs` | probes, ranks and margins of `FeeTariff` for every price and quantity | theorems |
| `ResolveStoreProofs` | types, index, cache of `ResolveStore`; it implements `ResolveNow` | theorems |
| `DesignDocProofs` | what the operations of `DesignDoc` do to the order and the outline of any body | lemmas |
| `DesignScriptsProofs` | what each script, and a deletion by hand, does to any document it can meet | lemmas |
| `DesignChainProofs` | the documents written from nothing; invariants and an action property of `DesignChain` | theorems |

`FeeLedger` extends `FeeBinding`, which extends `FeePolicy`; `ResolveNow` and
`ResolveStore` extend `StoreTables`, and `ResolveStore` instantiates `ResolveNow`
with its own tables and answer. `FeeBinding` instantiates `BoardView` with
its date, its enrollments and `BoardOf`, what its rows say of each cell.
`FeeRequests` extends `FeeLedger`: it changes the same tables by smaller steps and
uses the same operators for what they should hold. `FeeTariff` stands alone; what
it computes is the constant `beats` of `FeeBinding`'s rules. The proof modules extend the module they are
about.

### Correspondence

A *cell* is a lookup key of the board (`FeeKey`): a base (asset class, lookup
key, product, exchange) and two axes, session and channel, on which a stored row
may hold the wildcard. The exchange wildcard of stock cells works as the other
two and is left out. A *rule* is a record of constants (scope, price rank,
period, who meets its condition); what changes is its status. The schedule of a
rule appears as its rank (`RankKey.of`) and as the set of BASE rules it dominates
(`beats`).

| variable | table or column |
|---|---|
| `today` | the base date requests carry |
| `status` | `fee_rule.rule_status` |
| `stamped` | rules with a `rank_value` |
| `index` | `fee_rule_candidate_index` |
| `enroll` | `fee_enrollment`, by id |
| `binding` | `fee_binding` |
| `latest` | the newest `fee_binding_history` entry of each cell of an account |

Actions: `CreateDraft`, `Submit`, `Approve`, `Reject`, `Expire` (RuleService);
`CreateRequests`, `ApproveNego`, `RejectNego`, `Extend` (NegoService); `Enroll`
(EnrollController); `FullRebuild`, `Delta`, `RebuildIndex` (batches); `Restart`
(start-up hook); `NextDay` (the calendar, which has no code). `Rebuild(A)` is
the board refresh they share. The enrollment query has no ORDER BY and the
domain takes the first row that fits, so each rebuild chooses an order
(`Orders`). A request id is the rule and the hash of the account list; the hash
is an arbitrary function (`Hash`), so equal lists share an id and different
lists may.

In `FeeBinding` an action is a whole request executed alone.

`FeeRequests` takes a request apart. `pc[q]` is the statement it executes next,
`work[q]` what it has read and what it has written and not committed, `held[q]`
the rows it has locked.

| actions | code |
|---|---|
| `Check`, `Mark` | approve: status and dominance are read; reject, expire: nothing is; the status is written |
| `Scan`, `Stamp`, `Clear`, `Clearing`, `Fill` | `RankIndexService.rebuildAll`: active rules in the order of their ids, one UPDATE each, DELETE of the whole index (which sees what is committed when it starts and waits for locked rows), inserts |
| `Decide` | the UPDATE of a request's undecided enrollments |
| `Apply` | the enrollment row of an application |
| `ReadRules`, `ReadGrants`, `ReadRows`, `Delete`, `Insert` | `IncrementalBinder` and `BindingWriter`, account by account |
| `Commit`, `Fails`, `Victim`, `Crash` | end of a transaction, exception, deadlock victim, server down and up |

The stored sequence of an approval is `check mark scan stamp* clear clearing fill
rules (grants rows delete insert)* commit`. Every statement sees what is committed
when it starts and its own writes. An application holds no lock and each of its
statements commits. The date does not move while requests run, and a refresh
writes each account's deletions in one step and its inserts in one step.

`FeeTariff`: `base` is the schedule of the active BASE rule that `validate`
compares with, `approved` the candidates with the base each was compared to,
`report` the last validation. Money is in hundredths, rates in basis points;
`Rate` rounds half up to hundredths per component, `ComponentAmount` applies the
minimum, a band charges its rate and its amount.

`DesignChain`: `files` maps a version to a document, `deleted` and `again` count
edits and reruns. A document is its headings with the paragraphs scripts search
for (`marks`) and the numbers paragraphs cite (`refs`), beside which `to` keeps the
section the author meant, the list of contents, the cover, and what the
document-wide passes rewrite (dashes, sentence endings, vocabulary, example
boards). A script is a function from document to document (`V14` .. `V20`, `P1`,
`P2`) and the anchors without which it raises (`Anchored14` ..); `Convert` is a run
of one. A reference is broken when its number no longer leads to what its author
meant, which no script looks at.

In `ResolveStore` an action is a whole store method with everything it triggers
(JavaScript runs one at a time, and zustand calls the subscriber that drops the
index inside `set`).

| variable | in `useStore.ts` |
|---|---|
| `status`, `until` | `rules[].status`, `rules[].endDate` |
| `price` | `rankKey` of each schedule |
| `nego` | `nego`, in array order |
| `level` | the account metric that conditions and qualification policies compare |
| `cache`, `index` | `resolveCache`, `priorityIdx` |
| `answer` | what `resolveFee` returned last |

Which rules are submitted or rejected and which schedules are stored are inputs
(`Submitted`, `Rejected`, `Prices`), as are the mock tables (`Seed`). A rule that
is submitted again keeps its scope; its schedule may change. The base of a key
stands for asset class, exchange and product. The metrics batch raises every
account's asset figure by 5%, so it invalidates every account; which accounts
pass a threshold is a choice. Enrollments never change in the prototype, so apply
modes and benefit periods are the constant sets `targets` and `benefit`.

### Bounds

`LastDay` bounds the date, `MaxEnrollments` the enrollment rows, `Horizon` the
end of an extended grant, and the ends that are valid at all (`1..Horizon`). A
negotiated term is `NegoTerm` days, and an extension moves an end by one of
`Extensions`, any set of integers: the request takes any number of months unchecked
(`S/api/NegoController.java:71`), so the runs with extensions move an end a day
forward or back (`delta`, with three days and four rules, only forward). Two days show a rule or grant starting and ending, three also a
day between; two enrollments show duplicates, re-application and renewal. One
base, one session and one channel already give the four cells of a crossing.

In `FeeRequests` `MaxBegun` bounds the requests that begin: three of eight, since
a circle of waiting needs two and a third is the one that meets its remains.
`Retired` lets the seeded active rules be gone beforehand: then stamping locks
nothing in common and approvals no longer wait for each other.

In `FeeTariff` `MaxApproved` is two (the ranking compares two). `Prices` and
`Quantities` are where the properties look; `MCTariff` puts the prices at and
between probe prices. Seven schedules have a rate, a rate with tax, one the
company bears, two flat fees, two bands, and a minimum.

In `DesignChain` `Edited` are the versions edited by hand (v1.6 and v2.0, whose
readers tell of edits), `Trimmed` the chapters they lose sections of, `Splits` the versions
whose cover Word split, `MaxDeleted` the deletions (two: the second meets numbers
the first moved), `MaxAgain` the runs that overwrite a file (one: an old file is
then read by a newer script).

In the prototype `MaxGrants` bounds the grant list, `MaxLevel` the metric. Three
rules give a base, a rule with a condition and an event that has ended (or one
with a benefit period of its own), three grants a running one beside a request
for two accounts.

## 3. Runs

| run | what it asks |
|---|---|
| `grants` | Two accounts, requests for one or both, applications, extensions and batches: one row per cell, negotiated rows backed, history of empty cells, incremental completeness, decisions made once and ends moved by extensions only; the server implements `BoardView`; a full rebuild leaves every board right |
| `crossing` | A session rule crossing a channel rule, a rule that fails dominance, every workflow order and restarts: a trade is served its winner, index and computation agree, ranks are stamped |
| `delta` | Over three days, with rules and grants that end independently: the delta batch leaves no account behind |
| `requests` | Up to three of eight requests interleaved statement by statement, with failures, deadlocks and crashes: at every moment approvals and expiries leave boards right, approvals of different rules never deadlock, a grant is decided once, every request ends |
| `tariff` | Every order of validations, approvals and changes of the base: an approved schedule is not dearer at the probes or between them, the rank key orders as fees do, the margin verdict holds for other trades |
| `store` | Every store method in every order: the memoised index is never stale, cached answers stay true unless a running rule is withdrawn or a schedule replaced, no null answer is cached |
| `readthrough` | Without withdrawals, two accounts, requests, reviews, metrics and expiries: the store implements `ResolveNow`; an account whose grants the review judges alike gets that verdict |
| `design` | Every order of script runs and reruns over the files, with edits by hand to v1.6 and v2.0: order, contents, references, wording, examples and covers of every version, and nothing an editor wrote is lost |

Every property of a passing run is also shown to break under a plausible bug in
the code (`mutants`: a missing status filter, an update that does not wait, a
query without ORDER BY, a probe left out, a renumbering in the wrong order, and so
on).

Four runs exhibit behaviour that disagrees with a document or a comment of the
repository; `findings` quotes both sides.

| run | what happens |
|---|---|
| `negoend` | A grant outlives its negotiated rule; the day after the rule's end nothing in the delta's two criteria points to the account |
| `renewal` | With an ended and a running grant of one rule, the gate looks at one and the dates come from the other; a trade gets the base fee |
| `overlap` | The approval of an event and the approval of a grant refresh one account at once; each board misses the other, and the account is charged the dearer policy until its next rebuild |
| `dangling` | A reference to a section whose number an edit of v1.6 changed is not among those v1.9 corrects, and leads nowhere in v1.9 |

### What the properties leave out, and why

Each restriction of a property is a behaviour of the code.

* `LedgerServesWinner` is about accounts with at most one active grant per
  negotiated rule (`renewal`) and about BASE rules of no particular session or
  channel: a BASE rule of one channel wins a cell that is then not stored, and
  the trade falls through to a dearer wildcard row
  (`src/docs/ismp/01_요구사항정의서.md:34` asks for the most specific row).
* `IncrementalKeepsFresh` is about steps other than the rejection of an active
  rule: `reject` looks at no status, succeeds, and refreshes nothing. It is the
  `Withdraw` of `BoardView`.
* `HistoryKnowsReturn` is about empty cells: a cell that passes to a winner with
  another start date logs the write first and the deletion after it, so its
  newest entry says "back to base" while a row is there.
* `DeltaFindsAll` names what the two criteria of the delta batch cannot see:
  the end of a negotiated rule before its grant (`negoend` checks the claim
  without this exception, `DeltaMissesNone`), and the end of a BASE rule, which
  has no row (`NoSilentEnd`); a renewed grant whose row carries other dates
  (`SingleGrant`, as in `renewal`). Accounts that something was granted to or
  applied by today are left out (`NothingSinceDawn`): that request rebuilt the
  board with today's date, and `IncrementalKeepsFresh` is about it.
* `OverlapLeavesFresh` speaks of every moment, not only of rest: what a
  transaction has not committed is not on the board. It holds while some active
  rule is touched by nobody (`Anchored`): what makes the later approval wait for
  the earlier one is the rank UPDATE of a rule both stamp, and the index rows both
  delete. It leaves out
  grant decisions (`overlap`), rejections, and applications: a failure after an
  application's delete leaves the account without rows, because `enroll` has no
  transaction and the binder calls its own method past the proxy.
* `ApprovalsNeverDeadlock` is about approvals of different rules, with an active
  rule touched by nobody, no expiry and no approval of a grant. Without such a
  rule nothing serialises two approvals, and they delete the board rows of the
  same two accounts in no agreed order. Approvals of a grant lock board rows
  without stamping first. Two expiries, or two approvals of one rule beside a
  third, may wait for each other; PostgreSQL then aborts one (`Victim`), and its
  boards are untouched.
* `NeverDearer` is about schedules without minimum fees and without gaps between
  bands (each at least two hundredths wide), from a price of one unit to the
  largest probe price, and quantities up to the probe's. Below one unit nothing is
  probed unless a band begins there. A band is probed one hundredth inside its
  edges, so at an edge that is no probe itself the schedule is compared with the
  base one hundredth further (`Inside`): a base that drops to nothing at its edge
  passes the probes against a schedule that drops a hundredth later. At ten units, 0.45 a unit and 3 bp pass
  every probe against 20 bp with a minimum of 5 and are dearer at a price of 250; above 100 000 nothing
  probes (`S/domain/DominanceValidator.java:11` lists the probe prices). A verdict
  is kept when the base changes (`ReplaceBase`). Amounts agree up to the rounding
  of each component.
* `RankFollowsFee` compares rates with rates and amounts with amounts: `RankKey`
  adds basis points and amounts, as
  `src/docs/ismp/03_아키텍처방향.md:27` says.
* `CacheStaysTrue` excludes rules that are rejected, or submitted again, while they
  run, and schedules that are replaced: `submitRule`, `rejectRule` and
  `addSchedule` invalidate nothing (`Withdrawn`).
* `GrantsFollowAgreedReview` is about accounts whose grants the review judges
  alike: it classifies grants and applies its verdicts by account
  (`src/src/store/useStore.ts:220` and `:225`), so of a failing and a passing
  grant both are extended.
* `RefsKeepMeaning` compares a version with the one it was made from; references
  an edit by hand broke stay broken. `OwnChecksPass` shows that the checks the
  scripts print do not notice, and `ProposalCites` names the three sections whose
  numbers the proposal scripts write out.

### Further observations

* `extend` takes any integer of months, unchecked: a negative number cuts a running
  grant short, a large one ends it in the past. `Extend` does so, the boards follow in the
  same request (`IncrementalKeepsFresh`), and `GrantDecidedOnce` says that a grant's end moves
  by no other request.
* The full rebuild repairs every board in one run (`RebuildRepairs`), but nothing in
  the code starts it: there is no scheduler, only `POST /api/batch/rebuild`, though a
  design document calls it the daily batch of record
  (`src/docs/superpowers/specs/2026-07-07-v1-java-postgres-platform-design.md`). That
  boards end up right is therefore no property of this code, and none is stated.
* The enrollment query has no ORDER BY, so an account that applied twice for a
  relative event has two possible boards (each rebuild chooses an order).
* `approve` reads PENDING and writes ACTIVE without looking again: a rejection
  that commits in between is overwritten (`S/service/RuleService.java:71`).
* Of two overlapping approvals the second may build its index from rules it read
  before the first committed; the first's rule is then missing from the index.
  The start-up check does not see it, since the rule has a rank and the index is
  not empty.
* The prototype's expiry batch ends a relative event at its enrollment deadline,
  though accounts may be inside their own benefit period (`Expires`).
* v1.5 and v1.6 replace the version on the cover run by run and miss it when Word
  has split the run; v1.7 looks at the whole paragraph, as its comment says
  (`D/기술설계서_v17_생성.py:50`), so the split of v1.6 does no harm.
* v1.7 replaces the old noun everywhere and then adds a glossary row that quotes it as the
  former name (`D/기술설계서_v17_생성.py:135`); its own report expects that one
  mention (`:152`). `WordsAgree` says that this mention and no other stays, through every
  later script.
* Saving in Word can split any run; the model splits the cover's. v1.4 is the only other
  script that replaces text run by run, so what is said of its prose is about a v1.3 whose
  runs are whole. Later scripts join the runs of a paragraph before they replace.
* A section deleted by hand before v1.6 would leave a gap in the numbers that a
  later insertion writes around; the runs delete from v1.6 and v2.0. Running an
  earlier script again overwrites the edits made to its output.

### Fairness

Only `requests` assumes any, weak fairness of "some request proceeds": while a statement can
run the database runs one, and its deadlock detector breaks a circle. Nothing is
assumed about beginning a request, about crashes, or about which request runs.

The other runs assume none.

## 4. Proofs

The proofs hold for every rule book, set of accounts, seed, set of
requests and bound allowed by the assumptions on the constants: distinct rule
ids, cells of one asset class per base, unrestricted axes that accept every value
(`ScopeAssumption`), natural dates and terms. `FeeOverlapProofs` adds that the rule
book is finite and that there is a day after the first (`RequestAssumption`),
`FeeTariffProofs` that schedules are lists of components with natural amounts
(`TariffAssumption`). `DesignChainProofs` assumes only that bounds are natural and that
the versions edited and split are versions (`ChainAssumption`): which of the twelve
are edited, in which chapters and how often, is arbitrary.

* `UniqueFirst`, `WinnerIsCheapest`: the comparator is a strict total order on
  rules with distinct ids, so every nonempty set of rules has one first element;
  hence `Winner`, a CHOOSE, is the cheapest policy that matches and passes.
* `TypeCorrect` (`TypeOK`) is inductive; the work is in the row a winner gives,
  whose dates come from enrollments when a gate has passed.
* `SingleRow`, `NegotiatedRowsBacked`, `HistoryReturns`: all follow from one
  lemma on the writer (`WriteIsWant`: what the diff leaves is what was wanted).
  A rebuilt account has the wanted rows; other accounts keep theirs, and their
  grants are untouched, which is what each action's scope of refresh must give.
* `IncrementalIsComplete` (`IncrementalKeepsFresh`): an account outside the
  refreshed set has the same rules in the classes it opened, and enrollments
  that agree with the old ones on everything the gate and the dates read, so it
  has the same wanted rows. The lemmas `SamePasses`, `SameWindow`, `SameExpected`
  carry that through the domain.
* `DeltaIsEnough` (`DeltaFindsAll`): for an account the delta leaves alone, no
  policy begins to fit overnight, since its rule does not start today and its
  grant or application is not of today; and one that stops fitting was stored with
  yesterday as its end (`DayTurns`), so it was not a winner. The winners of every
  cell are then those of yesterday, being the first of a smaller set they are still
  in. It needs `EventsDated`: the dates of a relative event's row are those its gate
  looked at.
* `GrantsAreDecidedOnce` (`GrantDecidedOnce`): a decision touches undecided rows of its
  request only, and an extension the active rows it names, by any integer. `RanksStamped`.
* `FullRebuildRepairs` (`RebuildRepairs`): the writer's lemma once more, for every account
  at once; of what the boards held before it needs the types only.
* `BoardImplementsView` (`ImplementsView`): `RightIsFresh` says that an account is
  assigned the right policy in each cell exactly when its rows are the wanted
  ones, which needs one row per cell (`OneRowPerCell`); `StepShape` says that each
  action refreshes a set of accounts and leaves the rows of the rest. With
  `IncrementalKeepsFresh` the rest was right and stays right, or was wrong and
  keeps its rows: a step of `Handle`. The rejection of an active rule maps to
  `Withdraw`, a new day to `Dawn`.
* `IndexedTopIsTop` (`TopAgrees`): the invariant `IndexCovers` says that the index is
  empty or was built from rules among which all active ones still are, since only
  an index rebuild adds an active rule. A rule that matches a key is then indexed
  in a cell the key reads (`RuleIsIndexed`).
* `TradesGetTheirWinner` (`LedgerServesWinner`): `Stands` is the cell that stands
  for a trade's key: a value of an axis if some active rule names it, the
  wildcard otherwise. The same rules match key and cell, so they have the same
  winner; a fresh board has that cell's row or, for a base winner, none; and the
  fall-through meets no other row first, since every row of the account carries
  the dates of its winner (`EventsDated`: event rows carry a date of joining). The proof needs
  the restrictions listed above and shows that they are enough.
* `FeeRequestsProofs`: the invariant is that what a request has decided and not
  committed is undecided in the table and locked by that request alone
  (`DecidesAlone`), that an approval past its scan ranks its own rule (`Placed`),
  and that active rules are stamped. A commit therefore writes only undecided
  rows, and leaves other requests' decisions undecided
  (`OverlappingDecisionsDecideOnce`); the rule it makes active comes with its rank
  (`OverlappingApprovalsStampRanks`), and a crash drops both or neither.
* `FeeOverlapProofs`: three invariants stand on each other. `TypeInv` types the
  tables and each request's work. `LaneInv` follows the locks of approvals and
  expiries: a request in the middle of stamping has locked, besides its own rule,
  only rules that come before the rest of its list in the order of ids; past its
  stamps it has locked the untouched active rule (the anchor), so only one request
  is there (`Serial`), and the rule it approves is in nobody else's list
  (`NotListed`). Two facts then exclude a circle (`ApprovalsDoNotDeadlock`): a
  request past its stamps waits for no one, and one that stamps waits only for one
  further along the order, which ends at the anchor. `BoardInv` says that while only
  approvals and expiries have begun, every committed board is right, and the
  request past its stamps has derived its rows from what is committed and its own
  mark (`InHand`): nothing it read can change before it commits, since whoever
  would change it is not past its stamps. So its commit writes what the rules
  then call for (`OverlapKeepsBoards`). The theorems hold for any number of
  accounts and requests; `requests` has one account, because a run with two spends
  its time on `RequestsEnd`.
* `FeeTariffProofs`: between two neighbouring probes no band begins or ends
  (`AgreeBetween`), so without minimum fees what a schedule charges is linear in
  the price up to half a hundredth for each component (`PaidNear`). A linear
  excess that is not positive at both ends is not positive between them
  (`BetweenProbes`); the probe's quantity scales down to smaller ones.
  `ApprovedNeverDearer` joins this to the invariant `TariffInv`: what is approved passed the
  probes against the base it was compared to, which a later base does not touch.
  `RanksFollowFees` and `MarginsHold` compare sums component by component in the
  same way. A sum over components is a recursive function on sets of positions;
  `UpTo` gives induction over those positions from the least element of a set of
  naturals (`LeastNumber`), which needs no operator parameter.
* `ResolveStoreProofs`: `StoreTyped` and `IndexStaysCurrent` together are
  inductive. `AnswersStayTrue` (`CacheStaysTrue`) rests on `SameCurrent`: an
  answer depends on the account's running grants, its metric, the schedules and
  the ranked rules that cover the key; each method's invalidation is then shown to
  reach every pair for which one of these changes. `StoreReadsThrough` is the
  refinement: with no submission, rejection or stored schedule, "every cached
  answer is true" is an invariant, and each store action maps to a question
  answered from the tables or to a change of them. `GrantsFollowReview`
  (`GrantsFollowAgreedReview`): filing a request appends rows and deciding one
  touches undecided rows only; the review collects verdicts by account, so where
  the account's running grants agree each gets its own, dates included.

* `DesignChainProofs`, with `DesignScriptsProofs` and `DesignDocProofs`. TLC follows
  one history of edits, v1.6 and v2.0 trimmed in chapters 0 and 1. The theorems are
  about all of them, so nothing may be computed from a concrete document beyond v1.3.
  What is followed instead is `Layout(n, body)`: the headings rise (every heading has
  a `Key`, its chapter, section and paragraph as one number, unnumbered headings by
  their place), each is one the n-th layout knows, and every chapter and loose heading
  is there; sections of the second level may be missing. The invariant `Chained` says that each
  file is `Sound`: from v1.3 on it has the layout of its age and the wording of its
  version (`Wording`: contents page, prose, words, boards); v0.7 and v0.9 keep their
  headings apart and at the level their number has (`Ranked`), and unedited
  files are what their script writes. It is inductive (`ChainStaysSound`) because
    * each script takes the layout it reads to the next (`LayoutOf14` .. `LayoutOfP2`).
      For v1.4 to v1.8 and the proposals a section is put at a free key between
      its neighbours. v1.9 and v2.0 cut the body into blocks: a block is exactly the
      headings of a chapter (`BlockOfChapter`), renumbering moves a key with its
      chapter (`CarriedIs`), and the pieces are put together in ranges that follow each
      other (`Assembled`), so the whole rises again whatever had been deleted;
    * a deletion closes the gap behind it and keeps the layout (`LayoutCut`);
    * what is written from nothing is sound: v1.3 is assembled chapter by chapter from
      `Piece`s with the range of their keys (`LayoutOf13`), v0.7 and v0.9 from `Draft`s,
      which also bound what is cited (`First07`, `First09`).

  From `Chained` follow `ChainIsTyped` (`TypeOK`), `ContentsMatch` (`TocMatches`: the
  contents page of a layout lists the chapters of its bodies, `ContentsOfLayout`),
  `ProseStaysPolished`, `WordsKeepAgreeing`, `ExamplesTell`, `FirstRefsLead`, and
  `EditsAreCarriedOver`, the action property: each script's new body has the old
  subjects and its own. Two need a hypothesis, which the code's history
  meets. `ChaptersStayInOrder` wants v0.7 and v0.9 unedited: they alone have headings
  of a third level, which a deletion of the section above leaves without it.
  `CoversFollow` wants Word not to split the covers of v1.3 to v1.5: the next script looks for
  the old version in one run there, and finds none in a split one; from v1.7 on
  scripts search the paragraph.

Each invariant is proved as three facts (initially, preserved, temporal), with
`TypeOK` or, in `DesignChain`, `Chained` as the strengthening it is inductive with.

Only model-checked:
* `NeverStuck`, `OwnChecksPass`, `ProposalCites` and `RefsKeepMeaning` of `DesignChain`.
  They are false for arbitrary edits: a script stops if the section it searches
  was deleted. They hold for the chapters that were trimmed, 0 and 1, and a
  proof would have to follow every anchor and every reference through the chain;
* the liveness property `RequestsEnd` (liveness is outside the prover's reach).

## 5. Not modelled

* Extensions, the full rebuild and the delta at statement level: they run the
  same refresh as the requests of `FeeRequests`, for other accounts.
* Rounding of `rank_value`, fractional basis points.
* Conditions on account metrics and apply modes: collapsed to the set `targets`
  and the flag `application`. A metric that changes is modelled in the prototype
  only.
* Enrollment status EXPIRED and the dormant-return refresh exist in the code but
  nothing produces them.
* createRequests for an unqualified account without a bypass reason rolls back
  and changes nothing.
* Trace, dashboard, master data, screens: read-only views without state.
  Instrument registration and the fee calculation of the browser prototype.
* Of the document generators: fonts, tables, pictures and page layout, and the
  scripts that draw diagrams. They only draw; none reads what another drew. That
  v1.9 removes every picture (`D/기술설계서_v19_생성.py:129`) is left out with them. Of the
  table rows scripts add to one another's output the model has those that matter to the wording,
  v1.7's glossary row among them.

## 6. Plan

Done: the policy, the board with its abstract view, requests side by side, the
tariff, the prototype's store, the document chain, and the theorems above. What
would come next:

1. Proofs of `NeverStuck` and `RefsKeepMeaning` for deletions in chapters 0 and 1,
   from a layout that also knows which anchors and references a section has.
2. The delta batch and the extension at statement level beside the requests.
