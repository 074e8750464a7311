SPECIFICATION Spec
CONSTANTS
  Edited = {"1.6", "2.0"}
  Trimmed = {0, 1}
  Splits = {"1.6"}
  MaxDeleted = 2
  MaxAgain = 1
CHECK_DEADLOCK FALSE
INVARIANTS
  TypeOK
  ChaptersInOrder
  TocMatches
  Polished
  WordsAgree
  ExamplesTellBoard
  NeverStuck
  CoverFollows
  ProposalCites
  OwnChecksPass
  FirstRefsResolve
PROPERTIES
  RefsKeepMeaning
  EditsCarriedOver
