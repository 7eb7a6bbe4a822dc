SPECIFICATION FairSpec
CONSTANTS
  TestNames <- McTests
  NoTest = "none"
  Catalog <- McCatalog
  Hooks <- McHooks
  OptionSets <- McOptions
  ForeignThrows = TRUE
INVARIANTS
  ExitZeroMeansPassed
  RecordIsTrue
PROPERTIES
  RunKeepsContract
  StopIsHeeded
