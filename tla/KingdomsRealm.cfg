SPECIFICATION Spec
CONSTANTS
  p1 = p1  p2 = p2  p3 = p3  Nobody = Nobody
  t1 = t1  t2 = t2  t3 = t3  t4 = t4
  MaxRound = 2
  Players <- RealmPlayers
  Seat <- RealmSeat
  Tiles <- RealmTiles
  Neighbours <- RealmNeighbours
  Terrain <- RealmTerrain
  EconomicValue <- RealmValue
  Capital <- RealmCapital
  StartForce <- RealmForce
  StartStock <- RealmStock
  UnitLimit <- RealmLimit
  LoyaltyDamagePerAttack = 100
  MaxRepeats = 1
  StructureLimit <- OneCity
CONSTRAINT RoundBound
INVARIANT StructuresFollowLand
PROPERTY LandChangesHands
