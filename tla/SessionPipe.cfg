SPECIFICATION FairSpec
CONSTANTS
  Tags = {t1, t2, t3}
  Fids = {f1, f2}
  Types <- PipeTypes
  Outcomes <- NoReplyLost
  Awaits <- ReadAwaitsWrite
  Disciplined = TRUE
PROPERTIES MethodsRunConcurrently
CHECK_DEADLOCK FALSE
