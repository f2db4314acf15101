SPECIFICATION FillNullSpec
INVARIANTS ColumnsRight
CHECK_DEADLOCK FALSE
