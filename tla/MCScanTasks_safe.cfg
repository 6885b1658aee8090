SPECIFICATION ScanSpec
CONSTANTS
  s1 = s1
  t1 = t1
  t2 = t2
  SaneTasks = {s1}
  TwainTasks = {t1, t2}
  Together = {{s1, t1}, {t1, t2}}
  MaxPolls = 1
CHECK_DEADLOCK FALSE
INVARIANTS
  SaneSettles
  CompletedMeansConverted
  TwainBusyUntilWritten
PROPERTIES
  ScansEnd
