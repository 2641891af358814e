CONSTANTS
  NUM_TEAMS = 2
  TEAM_SIZE = 2
  NUM_PACKETS = 3
  BLOCKED_LIMIT = 2
  Scale = Scale
  Barcode = Barcode
  Stations = {Scale, Barcode}
  Routes <- AllTwoStationRoutes
  NoPacket = NoPacket
SPECIFICATION Spec
INVARIANT OneTagPerTeam
PROPERTY ImplementsShipping
