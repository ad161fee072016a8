\* Elements in any order, with gaps and repetitions, under each bound.
SPECIFICATION Spec
CONSTANTS
  Values = {1, 2}
  ElemIds = {0, 1, 2, 3}
  Bounds <- MCBounds
  Capacities = {2, 4}
  SlotBound = 2
  LogBound = 4
INVARIANTS
  TypeOK
  ArrayIsWhatArrived
