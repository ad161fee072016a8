\* A message with a string and an array of strings, in every chunking.
SPECIFICATION ReceiverSpec
CONSTANTS
  MaxVarintLen = 2
  IdMax = 17
  ArrayMax = 3
  FixlenMax = 4
  MaxDepth = 2
  Fp32Len = 1
  Fp64Len = 2
  Inputs <- MCMessages
  NameId = 1
  TagsId = 2
  NameBound <- MCNameBound
  TagsBound <- MCTagsBound
  TagBound <- MCTagBound
  TagsCapacity = 2
  Lead = 195
  Trail = 164
INVARIANTS
  VerdictIsChunkFree
  DestinationIsMessage
