SPECIFICATION SceneSpec
CONSTANTS
  NoEntity = NoEntity
  Nowhere = Nowhere
  UnitKind = {}
  Key <- MCKey
  Sc = {0}
  Ue = {}
  Mark = {}
  Token = {t1, t2}
  MaxPending = 1
PROPERTIES
  FlightHighlights
INVARIANTS
  ScatterersFollowManager
