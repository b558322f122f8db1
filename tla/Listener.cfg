SPECIFICATION FairSpec
CONSTANTS
  Servers = {p1, p2, p3}
  Conns = {c1, c2}
  NoServer = NoServer
INVARIANTS TypeOK ServingIsReached StaleIsDue LostWithServer
PROPERTIES QueuedIsServed
