SPECIFICATION Spec
CONSTANTS
  ru1 = ru1
  du1 = du1
  ue1 = ue1
  wp1 = wp1
  Building = Building
  Gizmo = Gizmo
  Ring = Ring
  None = None
  Entity = {ru1, ue1}
  Kind <- MCKind
  Record <- MCRecord
INVARIANTS
  MovesWhatWasGrabbed
  MovesAnnounced
