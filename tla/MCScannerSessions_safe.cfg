SPECIFICATION ScannerSpec
CONSTANTS
  Clients = {c1, c2}
  Protocols = {"sane"}
  Sources = {s1, s2}
  MaxPolls = 2
INVARIANTS OpenSourcesAreRecorded GoneConnectionsHoldNothing
CHECK_DEADLOCK FALSE
