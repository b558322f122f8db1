SPECIFICATION FairSpec
CONSTANTS
  Entries = {1, 2, 3, 4}
  NameLen <- ShortAndLong
  Counts <- AllCounts
  MaxChanges = 2
INVARIANTS TypeOK NothingMissed NothingTwice FailureIsDue EntriesFit
PROPERTIES ScanEnds
