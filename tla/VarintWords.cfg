\* Every kind of value by itself, runs of values of each length, and bytes from elsewhere.
SPECIFICATION Spec
CONSTANTS
  Values <- ValuesFor
  Blank <- OldBytes
  Foreign <- ForeignBytes
  RunBound = 3
INVARIANTS
  WritesAreShortest
  ReadsAreGroups
  ZigZagIsSmall
  RoundTrip
CHECK_DEADLOCK FALSE
