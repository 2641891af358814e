CONSTANTS
  NUM_TEAMS = 3
  TEAM_SIZE = 1
  NUM_PACKETS = 3
  BLOCKED_LIMIT = 1
  Scale = Scale
  Barcode = Barcode
  Stations = {Scale, Barcode}
  Routes <- TwoStationRoute
  NoPacket = NoPacket
SPECIFICATION Spec
INVARIANTS TypeOK StationExclusion BlockedTeamIsBlocked NoTeamForgotten
