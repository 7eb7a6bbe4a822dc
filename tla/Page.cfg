CONSTANTS
  Tests <- MCTests
  Variants = {"bench", "field"}
  Default = "bench"
  MaxPasses = 2
  MaxStarts = 2
  MaxTroubles = 2
  None = None Spare = Spare Text = Text Huge = Huge
  Groups = {g1}
  LogTests = {t1}
  Numbers = {"finite", "nan"}
  MaxHooks = 7
  PipeSize = 3
  NoGroup = NoGroup NoTest = NoTest NoPhase = NoPhase NoVerb = NoVerb Adhoc = Adhoc
SPECIFICATION McSpec
INVARIANTS RunsWhatWasAsked PageTellsTrue  PageIsPrefix RecordsAgree
