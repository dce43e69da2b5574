CONSTANTS
  t1 = t1
  t2 = t2
  Txs <- MCTxs
  MaxHeight = 2
  MaxReorgs = 1
SPECIFICATION FairSpec
INVARIANTS
  NoLostConfirmation
  DispatchNeverBlocks
  SucceededMeansMinted
  ConfirmationOnItsWay
PROPERTY ConfirmedEventually
