SPECIFICATION Spec
CONSTANTS
  c1 = c1
  c2 = c2
  d1 = d1
  d2 = d2
  Conns = {c1}
  Devices = {d1, d2}
  HardGrabDevices = {d1}
  MaxTasks = 3
CHECK_DEADLOCK FALSE
INVARIANTS
  ExclusiveManualCapture
  WindowHasOwner
  ProcessingIsSerial
  WorkersFindTheirTask
  ImageKept
  SummaryAgrees
PROPERTIES
  TaskHistory
  StartedTasksEnd
