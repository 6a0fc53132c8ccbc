SPECIFICATION ClientSpec
CONSTANTS
  p1 = p1  p2 = p2  Nobody = Nobody
  t1 = t1  t2 = t2  t3 = t3
  Me = p1
  MaxLag = 2
  MaxRound = 2
  Players <- PagePlayers
  Seat <- PageSeat
  Tiles <- PageTiles
  Neighbours <- PageNeighbours
  Terrain <- PageTerrain
  EconomicValue <- PageValue
  Capital <- PageCapital
  StartForce <- PageForce
  StartStock <- PageStock
  UnitLimit <- PageLimit
  LoyaltyDamagePerAttack = 100
  MaxRepeats = 0
  StructureLimit <- PageStructures
CONSTRAINT ClientBound
INVARIANTS OfferedIsAccepted PreviewIsRight
