CONSTANTS
  u1 = u1
  u2 = u2
  u3 = u3
  Units <- MCUnits
  Limit = 2
SPECIFICATION FairSpec
INVARIANTS
  HoldersWithinLimit
  DoneIsSafe
  WaitCoversEarlierAdds
PROPERTY AddIsServed
