SPECIFICATION Spec
CONSTANTS
  p1 = p1  p2 = p2  p3 = p3  Nobody = Nobody
  t1 = t1  t2 = t2  t3 = t3  t4 = t4
  MaxRound = 4
  Players <- WarPlayers
  Seat <- WarSeat
  Tiles <- WarTiles
  Neighbours <- WarNeighbours
  Terrain <- WarTerrain
  EconomicValue <- WarValue
  Capital <- WarCapital
  StartForce <- WarForce
  StartStock <- WarStock
  UnitLimit <- WarLimit
  LoyaltyDamagePerAttack = 45
  MaxRepeats = 1
  StructureLimit <- NoStructures
CONSTRAINT RoundBound
INVARIANTS TypeOK ForcesStandAtHome CapitalsHeld EliminatedAreGone WinnerStandsAlone
