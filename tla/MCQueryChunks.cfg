SPECIFICATION ChunkedSpec
INVARIANTS HistoryKept
CHECK_DEADLOCK FALSE
