SPECIFICATION Spec
INVARIANTS SelectRight      KeysRight
    CollectionUnnoticed RestoreRight
CHECK_DEADLOCK FALSE
