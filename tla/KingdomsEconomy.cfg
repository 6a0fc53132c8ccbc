SPECIFICATION Spec
CONSTANTS
  p1 = p1  p2 = p2  p3 = p3  Nobody = Nobody
  t1 = t1  t2 = t2  t3 = t3  t4 = t4
  MaxRound = 3
  Players <- RealmPlayers
  Seat <- RealmSeat
  Tiles <- EconomyTiles
  Neighbours <- EconomyNeighbours
  Terrain <- EconomyTerrain
  EconomicValue <- EconomyValue
  Capital <- RealmCapital
  StartForce <- EconomyForce
  StartStock <- EconomyStock
  UnitLimit <- EconomyLimit
  LoyaltyDamagePerAttack = 100
  MaxRepeats = 0
  StructureLimit <- EconomyStructures
CONSTRAINT RoundBound
INVARIANT NoDebt
