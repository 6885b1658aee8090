SPECIFICATION FairSpec
CONSTANTS
  d1 = d1
  NoSession = NoSession
  NoDevice = NoDevice
  Devices <- MCDevices
  Scopes <- MCScopes
  MaxConns = 2
  MaxStreams = 3
  TlsEnabled = TRUE
INVARIANTS ClosedHoldNothing OpenDevicesAreHeld PreviewsCanBeStopped
PROPERTY CleanupEnds
CHECK_DEADLOCK FALSE
