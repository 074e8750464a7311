SPECIFICATION Spec
CONSTANTS
  a1 = a1
  a2 = a2
  Accounts = {a1}
  Rules = {"base", "nego"}
  Rule <- MCRule
  Bases <- MCBases
  Classes <- MCClasses
  ClassOf <- MCClassOf
  Opened <- OpenBoth
  Sessions <- MCSessions
  Channels <- MCChannels
  NoRule = NoRule
  Seeded <- MCSeeded
  Batches <- Alone
  Hash <- MCHash
  Applied = {}
  NegoTerm = 1
  Extensions <- BothWays
  LastDay = 3
  MaxEnrollments = 2
  Horizon = 4
INVARIANTS
  LedgerServesWinnerAnyGrants
