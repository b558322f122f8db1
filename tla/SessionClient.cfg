SPECIFICATION Spec
CONSTANTS
  Tags = {t1, t2, t3}
  Fids = {f1, f2}
  Types <- AllKinds
  Outcomes <- AnyOutcome
  Awaits <- NoAwaits
  Disciplined = TRUE
SYMMETRY Symmetry
INVARIANTS ViewAgrees NoStandstill
PROPERTIES NoUnjustEBADF Linearizable TableChangesOnSuccess
