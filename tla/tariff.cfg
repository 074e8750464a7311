SPECIFICATION TariffSpec
CONSTANTS
  Schedules = {"rate25", "taxed", "borne", "flat5", "flat2", "steep", "floor"}
  Sheet <- MCSheet
  NoSchedule = NoSchedule
  MaxApproved = 2
  Prices <- MCPrices
  Quantities = {1, 10}
INVARIANTS
  TariffTypeOK
  NeverDearer
  RankFollowsFee
  MarginVerdictHolds
