SPECIFICATION SceneSpec
CONSTANTS
  NoEntity = NoEntity
  Nowhere = Nowhere
  UnitKind = {"ru"}
  Key <- MCKey
  Sc = {0}
  Ue <- MCUe
  Mark <- MCMark
  Token = {t1}
  MaxPending = 1
INVARIANTS
  SceneMirrorsStore
  NoColourStays
  HighlightFollowsSelection
  MarkersOfSelected
