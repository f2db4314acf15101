CONSTANTS
  k1 = k1
  k2 = k2
  k3 = k3
  p1 = p1
  p2 = p2
  MaxTime = 2
  Times <- MCTimes
  Environments <- MCEnvironments
SPECIFICATION FairSpec
INVARIANT OutcomeStands
PROPERTIES Atomic CrashIsCleanedUp
