SPECIFICATION Spec
CONSTANTS
  a1 = a1
  a2 = a2
  Accounts = {a1, a2}
  Bases <- MCBases
  Sessions <- MCSessions
  Channels <- MCChannels
  Classes = {"US", "KR"}
  ClassOf <- MCClassOf
  Rules = {"base", "sale", "signup"}
  Rule <- MCRule
  Schedules <- MCSchedules
  Threshold <- MCThreshold
  NoRule = NoRule
  NoAnswer = NoAnswer
  NoIndex = NoIndex
  TODAY = 3
  Seed <- GrantSeed
  Submitted = {}
  Rejected = {}
  Prices = {}
  Ends = {2}
  Year = 2
  Offers <- MCOffers
  SampleKey <- MCSample
  MaxGrants = 3
  MaxLevel = 1
PROPERTIES
  ReadsThrough
  GrantsFollowAgreedReview
