\* Framing: the scalar fields and nested sequences over every buffer, in depth.
SPECIFICATION TraceSpec
CONSTANTS
  MaxVarintLen = 2
  IdMax = 17
  ArrayMax = 2
  FixlenMax = 2
  MaxDepth = 2
  MinOutputBuffer = 1
  Fp32Len = 1
  Fp64Len = 2
  Utf8 <- MCUtf8
  Ids = {1, 16, 18}
  UnsignedValues = {5}
  SignedValues = {}
  Payloads = {}
  UnsignedArrays = {}
  SignedArrays = {}
  FloatArrays = {}
  Buffers <- MCBuffers
  WireBound = 4
INVARIANTS
  TypeOK
  HeldBackAreOpen
  WireIsWhole
PROPERTIES
  NothingLost
  DeadIsFinal
  DeadIsReported
  ImplementsEncoder
