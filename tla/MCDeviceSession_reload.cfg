SPECIFICATION FairSpec
CONSTANTS
  d1 = d1
  NoSession = NoSession
  NoDevice = NoDevice
  Devices <- MCDevices
  Scopes <- MCScopes
  MaxConns = 2
  MaxStreams = 2
  TlsEnabled = TRUE
PROPERTY NewConnectionsStartClean
CHECK_DEADLOCK FALSE
