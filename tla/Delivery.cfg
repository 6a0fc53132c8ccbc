SPECIFICATION Spec
CONSTANTS
  c1 = c1  w1 = w1  g1 = g1
  None = None
  Commands = {c1}
  Gateways = {w1}
  Games = {g1}
  Game = g1
  MaxEvents = 3
  MaxSockets = 2
  MaxFetches = 2
  MaxDrops = 1
CHECK_DEADLOCK FALSE
INVARIANTS
  TypeOK
  RegistryAgrees
  EventsInSequence
  ViewsAreReal
  KeepsSubscribed
