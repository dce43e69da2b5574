CONSTANTS
  w1 = w1
  w2 = w2
  Works <- MCWorks
  HasReporter = TRUE
  NoWork = NoWork
  U64 = 16
  Durations = {0, 1, 2}
  BucketWidth = 2
SPECIFICATION FairSpec
INVARIANTS
  CountsAreExact
  WorkingIsBracketed
  LatenciesAreExact
  HistogramMatchesResult
  ReportIsOneMoment
PROPERTIES
  StoredNeverFalls
  ResultsGetRecorded
