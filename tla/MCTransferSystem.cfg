CONSTANTS
  a1 = a1
  a2 = a2
  Workers <- MCWorkers
  Txs <- MCTxs
  MaxNonce = 2
  MaxHeight = 3
  MaxReorgs = 0
SPECIFICATION SysFairSpec
INVARIANTS
  WorkNeverStuck
PROPERTIES
  ImplementsTransfers
  WorksConfirmed
