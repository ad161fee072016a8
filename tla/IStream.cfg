\* Each short sequence of bytes, and whole messages with long items, in every chunking.
SPECIFICATION Spec
CONSTANTS
  MaxVarintLen = 3
  IdMax = 17
  ArrayMax = 3
  FixlenMax = 4
  MaxDepth = 2
  Fp32Len = 1
  Fp64Len = 2
  Inputs <- AllInputs
INVARIANTS
  TypeOK
  CarryIsOnePrefix
  PayloadsInOrder
  ArraysInOrder
  ChunkingInvisible
PROPERTIES
  InvalidIsTerminal
  FeedReturns
