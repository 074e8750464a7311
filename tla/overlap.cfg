SPECIFICATION TxSpec
CONSTANTS
  a1 = a1
  a2 = a2
  Accounts = {a1}
  Rules = {"base", "mts", "nego"}
  Rule <- MCRule
  Bases <- MCBases
  Classes <- MCClasses
  ClassOf <- MCClassOf
  Opened <- MCOpened
  Sessions <- MCSessions
  Channels <- MCChannels
  NoRule = NoRule
  Seeded <- MCSeeded
  Batches <- NoBatch
  Hash <- MCHash
  Applied = {}
  NegoTerm = 1
  Extensions = {}
  LastDay = 2
  MaxEnrollments = 1
  Horizon = 4
  Requests = {"okMts", "grant"}
  Request <- MCRequest
  Filings <- MCFilings
  Retired <- AllHere
  MaxBegun = 2
CHECK_DEADLOCK FALSE
INVARIANTS
  QuietServesCheapest
