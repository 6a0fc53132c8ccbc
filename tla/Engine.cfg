SPECIFICATION FairSpec
CONSTANTS
  Replicas = {r1, r2}
  Games = {g1}
  g1 = g1
  Commands = {c1, c2}
  Target <- MCTarget
  None = None
  MaxCrashes = 1
  MaxFailures = 1
CHECK_DEADLOCK FALSE
INVARIANTS
  TypeOK
  Custody
  RemovedIsSilent
  OneOwner
  AppliedOnce
  CatchesUp
  StoredWasAnnounced
  StartIsViewable
  EventsInOrder
PROPERTIES
  CreationAckedFirst
  GameStarts
  Settles
  KeepsItsPromise
