SPECIFICATION Spec
CONSTANTS
  a1 = a1
  a2 = a2
  Accounts = {a1}
  Rules = {"promo", "trial", "brief", "cheap"}
  Rule <- MCRule
  Bases <- MCBases
  Classes <- MCClasses
  ClassOf <- MCClassOf
  Opened <- OpenBoth
  Sessions <- MCSessions
  Channels <- MCChannels
  NoRule = NoRule
  Seeded <- AllActive
  Batches <- Alone
  Hash <- MCHash
  Applied = {"trial"}
  NegoTerm = 1
  Extensions = {1}
  LastDay = 3
  MaxEnrollments = 2
  Horizon = 3
INVARIANTS
  DeltaFindsAll
