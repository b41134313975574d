SPECIFICATION Spec
CONSTANTS
  MaxCount = 9
  InitialBatchSize = 1
CHECK_DEADLOCK FALSE
INVARIANT TypeOK
INVARIANT ChannelSuffices
INVARIANT CallsBounded
INVARIANT ResultRight
PROPERTY Returns
PROPERTY CreatesAsPromised
