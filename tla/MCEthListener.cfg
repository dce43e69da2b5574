CONSTANTS
  c1 = c1
  c2 = c2
  Conns <- MCConns
  Nil = Nil
  BufCap = 1
  MaxEvents = 2
SPECIFICATION FairSpec
INVARIANTS
  NothingMissedWhileListening
PROPERTIES
  HeadsReceivedInOrder
  ImplementsRecord
  RecordedEventually
  ListensAgain
