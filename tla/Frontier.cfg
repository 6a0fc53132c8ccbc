SPECIFICATION ClientSpec
CONSTANTS
  p1 = p1  p2 = p2  Nobody = Nobody
  t1 = t1  t2 = t2  t3 = t3  t4 = t4
  Players = {p1, p2}
  Seat <- MCSeat
  Tiles = {t1, t2, t3, t4}
  Neighbours <- MCNeighbours
  Terrain <- MCTerrain
  Home <- MCHome
  WinVP = 7
  MaxOffers = 1
  Amounts = {0, 1}
  Me = p1
  MaxLag = 1
  MaxRound = 3
  MaxPosted = 2
CONSTRAINT Bounded
CHECK_DEADLOCK FALSE
INVARIANTS
  TypeOK
  MarketSound
  FortsOnOwnLand
  VerdictInTime
  OfferedIsAccepted
PROPERTIES
  MarketConserves
  ClientFollows
