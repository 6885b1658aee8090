SPECIFICATION Spec
CONSTANTS
  Conns = {c1, c2}
  Uploaders = {u1}
  Readers = {r1}
  MaxTasks = 2
SYMMETRY Symmetry
INVARIANTS AssetsHaveFiles ReadersFindFiles
CHECK_DEADLOCK FALSE
