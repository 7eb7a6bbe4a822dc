SPECIFICATION Spec
CONSTANTS
  Instruments = {"keysight", "pico", "source"}
  Channels = {1, 2}
  Ranges = {"small", "large"}
  Couplings = {FALSE}
  Displays = {TRUE}
  TooLarge = {}
  Sources = {2}
  MaxArms = 3
  Kinds = {"generator", "wgen", "supply", "ac"}
  Shapes = {"square", "ramp", "dc"}
  Hertz = {1, 2}
  Volts = {4, 8}
  Offsets = {2}
  Amps = {1}
  Phases = {"A", "B"}
  MaxUses = 1
  Nothing = Nothing
INVARIANTS
  CapturesAreTheirs
  BeliefsHold
  AsAsked
  RestoredAsFound
PROPERTY AnswersItsArm
CHECK_DEADLOCK FALSE
