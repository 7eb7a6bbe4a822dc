CONSTANTS
  Groups = {g1}
  Tests = {t1}
  Numbers = {"finite", "nan"}
  MaxHooks = 6
  PipeSize = 3
  NoGroup = NoGroup NoTest = NoTest NoPhase = NoPhase NoVerb = NoVerb Adhoc = Adhoc
SPECIFICATION Spec
INVARIANT MachineLogParses
