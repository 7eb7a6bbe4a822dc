SPECIFICATION Spec
CONSTANTS
  Elements <- McElements
  Holds = {"DcP6", "again", "DcP7", "ohms", "clock1", "clock2"}
  PathOf <- McPaths
  Driven <- McDriven
  Banks <- McBanks
  NoHold = "nothing"
  Sources = {"DcP6", "DcP7"}
  Readings <- McReadings
  SourceOf <- McSourceOf
  LandsAt <- McLandsAt
  LowZ = {"ohms"}
  SwitchUnit = "Swu1"
  NoSource = "none"
INVARIANTS
  CountsAreHolders
  HeldRelaysClosed
  LowTapIsCold
  RunEndsIdle
PROPERTIES
  RoutesAreShared
  SafingOpensCold
