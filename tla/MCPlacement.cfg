SPECIFICATION Spec
CONSTANTS
  Hole = Hole
  Point <- MCPoint
  MaxPoints = 4
  MaxUe = 0
  MaxToken = 2
  MaxId = 1
CHECK_DEADLOCK FALSE
INVARIANTS
  MarkersNumberPoints
  NothingLeftBehind
  ZoneSurroundsPoints
PROPERTIES
  PositionsKeepTheirWaypoint
