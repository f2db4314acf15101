CONSTANTS
  NumKeys = 2
  GenSize = 2
  MaxSpans = 2
  t1 = t1
  MaxReads = 3
  Times <- MCTimes
  Txns <- MCTxns
  NoTxn = NoTxn
SPECIFICATION Spec
VIEW CacheView
CONSTRAINT ReadBound
PROPERTY Protects
