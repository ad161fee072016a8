\* What the documentation of buffered() says.
SPECIFICATION Spec
CONSTANTS
  Bytes = {1, 2, 3}
  Payloads <- MCPayloads
  Extras <- MCExtras
  Strays <- MCStrays
  ArrivedBound = 5
INVARIANTS
  BufferedWhileSplit
