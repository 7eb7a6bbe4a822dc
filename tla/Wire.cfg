SPECIFICATION McSpec
CONSTANTS
  Faces = {"a", "b"}
  Addresses = {"rack"}
  Simulated = Simulated
  Families = {"switches", "dmm", "meter", "generator", "supply", "wgen"}
  Natives = {"Unit"}
  NoLink = NoLink
  NoNative = NoNative
  QueueDepth = 3
  MaxLate = 2
  MaxRefused = 2
  Boxes <- McBoxes
  Optional = {"LOAD", "PROT"}
  kSlots = 2
  Kinds = {"Lan", "Gpib", "Usb", "Serial", "Simulated"}
  Candidates <- McCandidates
  NoSocket = NoSocket
  MaxLines = 3
  MaxBreaks = 2
INVARIANTS
  TellsTheTruth
  BlameIsFair
  SharedInStep
  TransportKeepsPromise
PROPERTIES
  CallsEnd
CHECK_DEADLOCK FALSE
