SPECIFICATION Spec
CONSTANTS
  Entries = {1, 2, 3, 4}
  NameLen <- ShortAndLong
  Counts <- AllCounts
  MaxChanges = 2
INVARIANTS PageWithinCount
