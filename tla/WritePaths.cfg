\* Every writer over buffers on both sides of every capacity test.
SPECIFICATION PathSpec
CONSTANTS
  MaxVarintLen = 2
  IdMax = 17
  ArrayMax = 3
  FixlenMax = 2
  MaxDepth = 1
  MinOutputBuffer = 1
  Fp32Len = 1
  Fp64Len = 2
  Utf8 <- MCUtf8
  Ids = {1, 16}
  UnsignedValues = {5, 130}
  SignedValues = {}
  Payloads <- PathPayloads
  UnsignedArrays <- PathUnsignedArrays
  SignedArrays <- PathSignedArrays
  FloatArrays <- PathFloatArrays
  Buffers <- PathBuffers
  WireBound = 0
INVARIANTS
  StoresInBuffer
  CursorInBuffer
PROPERTIES
  CallsReturn
  ImplementsOStream
