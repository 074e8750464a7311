SPECIFICATION Spec
CONSTANTS
  a1 = a1
  a2 = a2
  Accounts = {a1, a2}
  Rules = {"base", "night", "mts", "dear"}
  Rule <- MCRule
  Bases <- MCBases
  Classes <- MCClasses
  ClassOf <- MCClassOf
  Opened <- OpenOne
  Sessions <- MCSessions
  Channels <- MCChannels
  NoRule = NoRule
  Seeded <- Mixed
  Batches <- NoBatch
  Hash <- MCHash
  Applied = {}
  NegoTerm = 1
  Extensions <- BothWays
  LastDay = 2
  MaxEnrollments = 0
  Horizon = 4
INVARIANTS
  LedgerServesWinner
  TopAgrees
  RankStamped
