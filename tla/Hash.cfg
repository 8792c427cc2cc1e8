SPECIFICATION Spec
CONSTANTS
  NumServers = 3
  DefaultGdim <- MCDefaultGdim
  Gdims <- MCGdims
  Boxes <- MCBoxes
  BBSize = 16
  MaxCalls = 2
  None = None
INVARIANTS
    WalkRight
    Partition
    FindsOwners
PROPERTIES
    HashReturns
CHECK_DEADLOCK FALSE
