SPECIFICATION MCSpec
CHECK_DEADLOCK FALSE
INVARIANTS
  ConstraintsHold
  
  
PROPERTIES
  DrainEnds
