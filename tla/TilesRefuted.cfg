SPECIFICATION Spec
CONSTANTS
  exterior = exterior
  interior = interior
  tokyo = tokyo
  munich = munich
  oslo = oslo
  NoUrl = NoUrl
  Layer = {exterior, interior}
  Url = {tokyo, munich}
  Ships <- MCShips
  MaxGen = 2
CHECK_DEADLOCK FALSE
INVARIANTS
  MissingIsMissing
  CancelledIsLoading
