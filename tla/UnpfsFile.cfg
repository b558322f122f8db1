SPECIFICATION Spec
CONSTANTS
  Fids = {f1, f2}
  Tasks = {t1, t2}
  Offsets <- TwoBlocks
  MaxWrites = 2
SYMMETRY Symmetry
INVARIANTS TypeOK WritesLand FailureIsTold FsyncWaits
PROPERTIES ReadsOwnWrites
