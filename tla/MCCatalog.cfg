SPECIFICATION MCSpec
CHECK_DEADLOCK FALSE
INVARIANTS
  
  ValuesOnce
  
PROPERTIES
  PrivilegesRight
