SPECIFICATION Spec
CONSTANTS
  a1 = a1
  a2 = a2
  Accounts = {a1}
  Bases <- MCBases
  Sessions <- MCSessions
  Channels <- MCChannels
  Classes = {"US", "KR"}
  ClassOf <- MCClassOf
  Rules = {"base", "sale", "spring"}
  Rule <- MCRule
  Schedules <- MCSchedules
  Threshold <- MCThreshold
  NoRule = NoRule
  NoAnswer = NoAnswer
  NoIndex = NoIndex
  TODAY = 3
  Seed <- MCSeed
  Submitted = {"sale"}
  Rejected = {"sale"}
  Prices = {1, 2}
  Ends = {2, 9}
  Year = 2
  Offers <- NoOffers
  SampleKey <- MCSample
  MaxGrants = 0
  MaxLevel = 1
INVARIANTS
  TypeOK
  IndexCurrent
PROPERTIES
  CacheStaysTrue
