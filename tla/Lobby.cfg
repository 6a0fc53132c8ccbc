SPECIFICATION FairSpec
CONSTANTS
  u1 = u1  u2 = u2  u3 = u3
  r1 = r1
  None = None
  Users = {u1, u2, u3}
  Browsers = {u1}
  RoomIds = {r1}
  Sizes = {0, 2, 3}
  MaxPlayers = 2
  FormSizes = {2}
  SoloTTL = 0
  RoomTTL = 1
  MaxClicks = 1
  MaxGames = 2
  MaxFailures = 1
CHECK_DEADLOCK FALSE
INVARIANTS
  TypeOK
  RostersFit
  StrangersHadLeft
PROPERTIES
  OpenRoomsEnd
  ShownStartsAreFollowed
