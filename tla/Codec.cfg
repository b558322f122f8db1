SPECIFICATION Spec
CONSTANTS
  Base = 4
  Known = 3
  Samples <- AllSamples
INVARIANTS RoundTrip CutIsAnError ReadDirCountsBytes ReadDirNeverOther
CHECK_DEADLOCK FALSE
