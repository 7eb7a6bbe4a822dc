SPECIFICATION LauncherFairSpec
CONSTANTS
  Launchers = {"first", "second"}
  Windows = {"window"}
  ClosedGrace = 3
  ServerGone = 2
  MaxMishaps = 1
  MaxRuns = 1
  Systems = {"mac", "linux", "windows"}
  Nobody = Nobody
PROPERTIES
  ConsoleIsKept
  ConsolesEnd
