CONSTANTS
  Faces <- MCFaces
  BoxOf <- MCBoxOf
  TableAddress <- MCTable
  Panel <- MCPanel
  Contactable = {"Osc", "Wfg", "Dcp", "Swu", "Dmm"}
  Identifying = {"Swu"}
  Carded = {"Rack"}
  Wired = {"Dcp"}
  Pool <- MCPool
  Sites = {"bench2"}
  SiteAddress <- MCSiteAddress
  KindOf <- MCKinds
  Simulated = "sim"
  Flags <- MCFlags
  Exports <- MCExports
  Units = {"u1", "u2", "u3"}
  SerialOf <- MCSerials
  Racked = {"u1", "u3"}
  Nobody = "nobody"
  NoSerial = "none"
  Unknown = "unknown"
SPECIFICATION Spec
INVARIANT SafeReachesTheRun
