SPECIFICATION FairSpec
CONSTANTS
  Tags = {t1, t2, t3}
  Fids = {f1}
  Types <- NoWalk
  Outcomes <- ReturnsOrPanics
  Awaits <- NoAwaits
  Disciplined = FALSE
INVARIANTS TypeOK OperandsStayBound
PROPERTIES OperandsNotReplaced EveryTaskEnds Drains
