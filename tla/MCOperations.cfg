SPECIFICATION MCSpec
CONSTANT Environments <- MCEnvironments
CHECK_DEADLOCK FALSE
INVARIANTS
  
  StoreReads
  AlarmsRight
PROPERTIES
  UpkeepConverges
