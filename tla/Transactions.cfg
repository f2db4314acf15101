SPECIFICATION FairSpec
CONSTANTS
  Txns = {1, 2, 3}
  Keys = {1, 2, 3}
  Wall = 4
  MaxRefreshes = 2
  Environments <- MCEnvironments
INVARIANTS
  StrictlySerializable
  CommittedExactly
PROPERTY EveryoneFinishes
