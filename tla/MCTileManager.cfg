SPECIFICATION Spec
CONSTANTS
  exterior = exterior
  interior = interior
  tokyo = tokyo
  munich = munich
  oslo = oslo
  NoUrl = NoUrl
  Layer = {exterior}
  Url = {tokyo, munich, oslo}
  Ships <- MCShips
  MaxGen = 4
CHECK_DEADLOCK FALSE
INVARIANTS
  SceneTracked
  ShownIsEnabled
  SettledShowsWanted
