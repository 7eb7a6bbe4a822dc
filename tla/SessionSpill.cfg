SPECIFICATION Spec
CONSTANTS
  Tests = {"t1", "t2", "t3"}
  Slots = {"rail", "amps", "reply"}
  Payloads = {"reply"}
  Contents = {"frame"}
  Heavy = {"frame"}
  Empty = Empty
  Torn = Torn
  Suite <- McSuite
  Paths <- McPaths
  Requests <- McRequests
  Injections <- McInjections
  RunScope = "<run>"
  Nobody = Nobody
INVARIANT LoudNotCorrupt
