\* What the comment in feed says of carry and resume.
SPECIFICATION Spec
CONSTANTS
  MaxVarintLen = 3
  IdMax = 17
  ArrayMax = 3
  FixlenMax = 4
  MaxDepth = 2
  Fp32Len = 1
  Fp64Len = 2
  Inputs <- Messages
INVARIANTS
  CarryOrResume
