SPECIFICATION FairSpec
CONSTANTS
  Server = "server"
  NoRun = "none"
  MaxLines <- FewLines
  Children <- McChildren
  Runs <- McRuns
  Safes <- McSafes
  Emergencies <- McEmergencies
  Viewers <- McPages
  Downloads <- McDownloads
  Worlds <- Meetings
INVARIANTS
  LogIsWhole
  KilledIsGone
PROPERTIES
  OneRunAtATime
  KillOnlyOurs
  EndIsNoticed
  WaitsEnd
CHECK_DEADLOCK FALSE
