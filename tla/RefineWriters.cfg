\* Writers: each field writer, accepted and refused, over every buffer.
SPECIFICATION TraceSpec
CONSTANTS
  MaxVarintLen = 2
  IdMax = 17
  ArrayMax = 2
  FixlenMax = 2
  MaxDepth = 1
  MinOutputBuffer = 1
  Fp32Len = 1
  Fp64Len = 2
  Utf8 <- MCUtf8
  Ids = {1, 16, 18}
  UnsignedValues = {5}
  SignedValues <- AllSignedValues
  Payloads <- AllPayloads
  UnsignedArrays <- AllUnsignedArrays
  SignedArrays <- AllSignedArrays
  FloatArrays <- AllFloatArrays
  Buffers <- MCBuffers
  WireBound = 0
INVARIANTS
  WireIsWhole
PROPERTIES
  ImplementsEncoder
