\* Payloads in any pieces, abandoned, over-delivered and disturbed.
SPECIFICATION Spec
CONSTANTS
  Bytes = {1, 2, 3}
  Payloads <- MCPayloads
  Extras <- MCExtras
  Strays <- MCStrays
  ArrivedBound = 5
INVARIANTS
  TypeOK
  PayloadHandedBack
  NothingStale
