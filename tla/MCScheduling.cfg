CONSTANTS
  NumKeys = 3
  r1 = r1
  r2 = r2
  r3 = r3
  NoOne = NoOne
  Requests <- MCRequests
  Batches <- MCBatches
SPECIFICATION MCSpec
CHECK_DEADLOCK FALSE
INVARIANTS Serialized CrashSafe
PROPERTIES EveryoneServed  TruncationHappens
