CONSTANTS
  Db = {d1, d2}
  Table = {"panels", "rus", "ues"}
  Kind = {"panels", "rus"}
  SettingsLoad = {s1}
  EditorLoad = {e1}
  MaxListings = 1
  Nothing = nothing
SPECIFICATION Spec
SYMMETRY Symmetric
INVARIANT SavedIsCurrent
PROPERTIES LoadShowsItsDatabase PanelsOfTheLoad
CHECK_DEADLOCK FALSE
