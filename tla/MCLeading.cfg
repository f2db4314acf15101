CONSTANTS
  n1 = n1
  n2 = n2
  q1 = q1
  q2 = q2
  Nodes <- MCNodes
  First = n1
  Requests <- MCRequests
  NoReq = NoReq
  MaxOffset = 1
  MaxTerm = 2
  Environments <- MCEnvironments
SPECIFICATION MCSpec
CHECK_DEADLOCK FALSE
SYMMETRY Symmetric
INVARIANTS Linearizable NoWriteBeneathRead ClosedIsClosed
