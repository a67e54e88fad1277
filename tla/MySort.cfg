CONSTANTS
  Value = {1, 2, 3}
  MaxSize = 4
  Counts = {1, 2, 3}
  Capacity = 1
SPECIFICATION Spec
INVARIANTS TypeOK PrintsSorted EachPartKept OneWriterPerPipe
PROPERTY Finishes
CHECK_DEADLOCK FALSE
