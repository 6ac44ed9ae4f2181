SPECIFICATION Spec
CONSTANTS
  ByteBits = 8
  IntBytes = 2
  LongBytes = 3
  Programs <- MCPrograms
  FlowControl = {TRUE, FALSE}
  MaximumStepsAllowed = 6
  MaximumAllocation = 4
  Digest <- MCDigest
  Answer <- MCAnswer
  Floats <- MCFloats
  Blobs <- MCBlobs
INVARIANTS
  TypeOK
  StepsShared
  
PROPERTIES
  Terminates
  ForwardOnly
  TransactionUntouched
CHECK_DEADLOCK FALSE
