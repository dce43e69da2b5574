CONSTANTS
  a1 = a1
  a2 = a2
  Workers <- MCWorkers
  MaxNonce = 3
  MaxOld = 2
SPECIFICATION FairSpec
INVARIANTS
  MinableOrBehindGap
  NoncesAccounted
  GapBlocksLater
  RefusedWasOld
PROPERTY AcceptedIsMined
CHECK_DEADLOCK FALSE
