CONSTANTS
  a0 = a0
  a1 = a1
  Accounts <- MCAccounts
  Account0 = a0
  MaxNonce = 2
  MaxReorgs = 1
SPECIFICATION FairSpec
INVARIANTS
  TokenOnChain
  OnlyDeployerIsBehind
PROPERTY PrepairEnds
CHECK_DEADLOCK FALSE
