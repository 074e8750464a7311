SPECIFICATION Spec
CONSTANTS
  a1 = a1
  a2 = a2
  Accounts = {a1, a2}
  Rules = {"base", "nego"}
  Rule <- MCRule
  Bases <- MCBases
  Classes <- MCClasses
  ClassOf <- MCClassOf
  Opened <- OpenBoth
  Sessions <- MCSessions
  Channels <- MCChannels
  NoRule = NoRule
  Seeded <- MCSeeded
  Batches <- AnyList
  Hash <- MCHash
  Applied = {"nego"}
  NegoTerm = 1
  Extensions <- BothWays
  LastDay = 2
  MaxEnrollments = 2
  Horizon = 3
INVARIANTS
  TypeOK
  OneRowPerCell
  NegoRowBacked
  HistoryKnowsReturn
PROPERTIES
  IncrementalKeepsFresh
  GrantDecidedOnce
  ImplementsView
  RebuildRepairs
