CONSTANTS
  Db = {d1, d2}
  Table = {"panels", "rus", "ues"}
  Kind = {"panels", "rus"}
  SettingsLoad = {s1}
  EditorLoad = {}
  MaxListings = 1
  Nothing = nothing
SPECIFICATION Spec
INVARIANTS AsksItsDatabase
CHECK_DEADLOCK FALSE
