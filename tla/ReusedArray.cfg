\* Decodes into what earlier ones left, complete or given up.
SPECIFICATION Spec
CONSTANTS
  Values = {1}
  ElemIds = {0, 1, 2, 3}
  Bounds <- MCBounds
  Capacities = {2, 4}
  SlotBound = 2
  LogBound = 4
INVARIANTS
  TypeOK
  RefusalChangesNothing
PROPERTIES
  DecodesAsFresh
