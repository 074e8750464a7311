SPECIFICATION TxSpec
CONSTANTS
  a1 = a1
  a2 = a2
  Accounts = {a1}
  Rules = {"base", "night", "mts", "nego", "club"}
  Rule <- MCRule
  Bases <- MCBases
  Classes <- MCClasses
  ClassOf <- MCClassOf
  Opened <- MCOpened
  Sessions <- MCSessions
  Channels <- MCChannels
  NoRule = NoRule
  Seeded <- MCSeeded
  Batches <- NoBatch
  Hash <- MCHash
  Applied = {}
  NegoTerm = 1
  Extensions = {}
  LastDay = 2
  MaxEnrollments = 2
  Horizon = 4
  Requests = {"okNight", "okMts", "again", "noMts", "endClub", "grant", "deny", "join"}
  Request <- MCRequest
  Filings <- MCFilings
  Retired <- AllEnded
  MaxBegun = 3
CHECK_DEADLOCK FALSE
INVARIANTS
  TxTypeOK
  OverlapLeavesFresh
  ApprovalsNeverDeadlock
  RankStamped
PROPERTIES
  GrantDecidedOnce
  RequestsEnd
