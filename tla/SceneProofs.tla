---------------------------- MODULE SceneProofs ----------------------------
(***************************************************************************)
(* Proofs about the map: the gestures of the mouse (Dragging), for any set *)
(* of entities, and what the layers and the highlights show (Scene), for   *)
(* any units, scatterers and user equipment.                               *)
(***************************************************************************)
EXTENDS Dragging, Scene, TLAPS

-----------------------------------------------------------------------------
(* Gestures.  The properties follow from one picture of an undisturbed drag:  *)
(* the dragged object is the selected and the pressed one, and whatever is    *)
(* left over (axis, ring, property, unannounced record, camera) is its.       *)

\* The drag holds what was pressed, with the button down.
DragIsOfGrabbed ==
    dragging # None => /\ button /\ mouseDown
                       /\ dragging \in Entity
                       /\ selected = dragging
                       /\ grabbed = dragging

\* Everything a gesture sets aside belongs to the dragged entity.
LeftoversAreDraggeds ==
    /\ axis => dragging # None /\ line \in {None, dragging}
    /\ ring => dragging # None
    /\ saved # None => saved = dragging
    /\ \A e \in dirty : dragging # None /\ e = Record[dragging] /\ e \in alive
    /\ ~camera => dragging # None

Picture == ~disturbed => DragIsOfGrabbed /\ LeftoversAreDraggeds /\ ~strayed

IInv == TypeOK /\ Picture

LEMMA InitIInv == Init => IInv
BY KindAssumption, RecordAssumption
DEF Init, IInv, TypeOK, Picture, DragIsOfGrabbed, LeftoversAreDraggeds

\* Between gestures nothing is dragged: a press finds neither axis nor ring.
LEMMA PressKeeps ==
    ASSUME IInv, Pressed,
           NEW hit \in Pickable, NEW near \in BOOLEAN, NEW ray \in BOOLEAN,
           NEW behind \in alive \cup {Building, None},
           \/ PressRing(hit, ray)
           \/ PressSelected(hit, ray)
           \/ PressGizmo(near)
           \/ PressSelect(hit, near, ray, behind)
           \/ PressUnselectable
    PROVE  IInv'
<1>a. /\ ~button
      /\ button' = TRUE /\ mouseDown' = TRUE /\ strayed' = FALSE
      /\ selectTool' = selectTool /\ tool' = tool /\ creating' = creating
      /\ saved' = saved /\ alive' = alive /\ dirty' = dirty /\ disturbed' = disturbed
      /\ gizmo' = gizmo
      BY DEF Pressed
<1>e. /\ selectTool' \in BOOLEAN /\ creating' \in BOOLEAN /\ tool' \in {"move", "rotate", "none"}
      /\ saved' \in Entity \cup {None} /\ alive' \subseteq Entity /\ dirty' \subseteq Entity
      /\ disturbed' \in BOOLEAN /\ gizmo' \in {Gizmo, Ring, None}
      BY <1>a DEF IInv, TypeOK
<1>c. None \notin Entity
      BY ThingsDiffer
<1>d. CameraBack \in BOOLEAN /\ (camera = TRUE => CameraBack = TRUE)
      BY DEF CameraBack, IInv, TypeOK
<1>b. ~disturbed => /\ dragging = None /\ axis = FALSE /\ ring = FALSE
                    /\ saved = None /\ dirty = {} /\ camera = TRUE
  <2>1. ~disturbed => dragging = None
        BY <1>a DEF IInv, Picture, DragIsOfGrabbed
  <2> QED BY <2>1 DEF IInv, TypeOK, Picture, LeftoversAreDraggeds
<1>1. CASE PressRing(hit, ray)
  <2>1. TypeOK'
        BY <1>1, <1>a, <1>d DEF PressRing, StartsRing, Rotatable, IInv, TypeOK
  <2>2. Picture'
        BY <1>1, <1>a, <1>b, <1>c, <1>d DEF PressRing, StartsRing, Rotatable, IInv, TypeOK, Picture, DragIsOfGrabbed, LeftoversAreDraggeds
  <2> QED BY <2>1, <2>2 DEF IInv
<1>2. CASE PressSelected(hit, ray)
  <2>1. TypeOK'
        BY <1>2, <1>a, <1>d DEF PressSelected, StartsMove, Draggable, IInv, TypeOK
  <2>2. Picture'
        BY <1>2, <1>a, <1>b, <1>c, <1>d DEF PressSelected, StartsMove, Draggable, IInv, TypeOK, Picture, DragIsOfGrabbed, LeftoversAreDraggeds
  <2> QED BY <2>1, <2>2 DEF IInv
<1>3. CASE PressGizmo(near)
  <2>1. TypeOK'
        BY <1>3, <1>a, <1>d DEF PressGizmo, Draggable, IInv, TypeOK
  <2>2. Picture'
        BY <1>3, <1>a, <1>b, <1>c, <1>d DEF PressGizmo, Draggable, IInv, TypeOK, Picture, DragIsOfGrabbed, LeftoversAreDraggeds
  <2> QED BY <2>1, <2>2 DEF IInv
<1>4. CASE PressSelect(hit, near, ray, behind)
  <2>0. /\ selected' \in Entity \cup {Building, None} /\ didSelect' \in BOOLEAN
        /\ camera' = CameraBack /\ grabbed' = None
        /\ dragging' = dragging /\ axis' = axis /\ line' = line /\ ring' = ring
        BY <1>4 DEF PressSelect, Pickable, IInv, TypeOK
  <2>3. /\ dragging' \in Entity \cup {Building, None} /\ axis' \in BOOLEAN
        /\ line' \in Entity \cup {None} /\ ring' \in BOOLEAN
        BY <2>0 DEF IInv, TypeOK
  <2>1. TypeOK'
        BY <1>a, <1>d, <1>e, <2>0, <2>3, Zenon DEF TypeOK
  <2>2. Picture'
        BY <1>4, <1>a, <1>b, <1>c, <1>d DEF PressSelect, Pickable, IInv, TypeOK, Picture, DragIsOfGrabbed, LeftoversAreDraggeds
  <2> QED BY <2>1, <2>2 DEF IInv
<1>5. CASE PressUnselectable
  <2>0. /\ selected' = selected /\ selected' \in Entity \cup {Building, None}
        /\ didSelect' \in BOOLEAN
        /\ camera' = CameraBack /\ grabbed' = None
        /\ dragging' = dragging /\ axis' = axis /\ line' = line /\ ring' = ring
        BY <1>5 DEF PressUnselectable, IInv, TypeOK
  <2>3. /\ dragging' \in Entity \cup {Building, None} /\ axis' \in BOOLEAN
        /\ line' \in Entity \cup {None} /\ ring' \in BOOLEAN
        BY <2>0 DEF IInv, TypeOK
  <2>1. TypeOK'
        BY <1>a, <1>d, <1>e, <2>0, <2>3, Zenon DEF TypeOK
  <2>2. Picture'
        BY <1>5, <1>a, <1>b, <1>c, <1>d DEF PressUnselectable, IInv, TypeOK, Picture, DragIsOfGrabbed, LeftoversAreDraggeds
  <2> QED BY <2>1, <2>2 DEF IInv
<1> QED BY <1>1, <1>2, <1>3, <1>4, <1>5

\* A move keeps to the grabbed entity while the selection does.
LEMMA MoveKeeps == ASSUME IInv, MouseMove PROVE IInv'
<1> USE KindAssumption, RecordAssumption, ThingsDiffer
<1> PICK touched \in {{}, Touched(selected)} :
      LET moved == ~ring /\ touched # {} IN
        /\ dirty' = IF moved THEN dirty \cup touched
                    ELSE IF touched # {} THEN {e \in dirty : Kind[e] # "ru"} ELSE dirty
        /\ saved' = IF moved /\ saved = None /\ Kind[selected] \in {"ue", "scatterer"}
                    THEN selected ELSE saved
        /\ strayed' = (strayed \/ (touched # {} /\ (selected # grabbed \/ (axis /\ ~ring /\ line # grabbed))))
        /\ didSelect' \in IF ring \/ axis THEN {didSelect}
                          ELSE IF moved THEN {FALSE}
                          ELSE IF selected \in Entity THEN {didSelect, FALSE} ELSE {didSelect}
      BY DEF MouseMove
<1> DEFINE moved == ~ring /\ touched # {}
<1>1. /\ dirty' = IF moved THEN dirty \cup touched
                    ELSE IF touched # {} THEN {e \in dirty : Kind[e] # "ru"} ELSE dirty
      /\ saved' = IF moved /\ saved = None /\ Kind[selected] \in {"ue", "scatterer"}
                    THEN selected ELSE saved
      /\ strayed' = (strayed \/ (touched # {} /\ (selected # grabbed \/ (axis /\ ~ring /\ line # grabbed))))
      /\ didSelect' \in BOOLEAN
      BY DEF IInv, TypeOK
<1>2. touched # {} => /\ selected \in Entity
                      /\ touched = {Record[selected]}
                      /\ Record[selected] \in alive
                      /\ axis /\ ~ring => line # None
      BY DEF Touched
<1> HIDE DEF moved
<1>3. /\ dragging' = selected /\ camera' = FALSE
      /\ ring \/ axis \/ dragging # None
      /\ UNCHANGED <<button, mouseDown, selected, axis, line, ring, selectTool, tool, creating,
                      alive, grabbed, disturbed, gizmo>>
      BY DEF MouseMove
<1>4. TypeOK'
  <2>1. dirty' \subseteq Entity
        BY <1>1, <1>2 DEF IInv, TypeOK
  <2>2. saved' \in Entity \cup {None} /\ strayed' \in BOOLEAN
        BY <1>1, <1>2 DEF IInv, TypeOK, moved
  <2>3. /\ axis' \in BOOLEAN /\ ring' \in BOOLEAN /\ selectTool' \in BOOLEAN
        /\ creating' \in BOOLEAN /\ disturbed' \in BOOLEAN /\ button' \in BOOLEAN
        /\ mouseDown' \in BOOLEAN
        BY <1>3 DEF IInv, TypeOK
  <2>4. /\ selected' \in Entity \cup {Building, None} /\ line' \in Entity \cup {None}
        /\ grabbed' \in Entity \cup {None} /\ alive' \subseteq Entity
        /\ tool' \in {"move", "rotate", "none"} /\ gizmo' \in {Gizmo, Ring, None}
        BY <1>3 DEF IInv, TypeOK
  <2>5. dragging' \in Entity \cup {Building, None} /\ camera' \in BOOLEAN
        BY <1>3 DEF IInv, TypeOK
  <2> QED BY <1>1, <2>1, <2>2, <2>3, <2>4, <2>5, Zenon DEF TypeOK
<1>5. Picture'
  <2> SUFFICES ASSUME ~disturbed
               PROVE  DragIsOfGrabbed' /\ LeftoversAreDraggeds' /\ strayed' = FALSE
      BY <1>3 DEF Picture
  <2>1. /\ dragging # None
        /\ button /\ mouseDown /\ dragging \in Entity
        /\ selected = dragging /\ grabbed = dragging
        BY <1>3 DEF IInv, Picture, DragIsOfGrabbed, LeftoversAreDraggeds
  <2>2. DragIsOfGrabbed'
        BY <1>3, <2>1 DEF DragIsOfGrabbed
  <2>3. strayed' = FALSE
        BY <1>1, <1>2, <2>1 DEF IInv, TypeOK, Picture, LeftoversAreDraggeds
  <2>4. \A e \in dirty' : e = Record[dragging] /\ e \in alive
        BY <1>1, <1>2, <2>1 DEF IInv, Picture, LeftoversAreDraggeds
  <2>5. saved' # None => saved' = dragging
        BY <1>1, <2>1 DEF IInv, Picture, LeftoversAreDraggeds
  <2>6. axis => line \in {None, dragging}
        BY DEF IInv, Picture, LeftoversAreDraggeds
  <2>7. LeftoversAreDraggeds'
        BY <1>3, <2>1, <2>4, <2>5, <2>6 DEF LeftoversAreDraggeds
  <2> QED BY <2>2, <2>3, <2>7
<1> QED BY <1>4, <1>5 DEF IInv

\* A release puts back what the drag set aside.
LEMMA ReleaseKeeps ==
    ASSUME IInv, NEW hit \in Pickable, NEW click \in BOOLEAN, LeftUp(hit, click)
    PROVE  IInv'
<1> USE KindAssumption, RecordAssumption, ThingsDiffer
<1>1. didSelect' \in BOOLEAN /\ selected' \in Entity \cup {Building, None}
      BY DEF LeftUp, Click, IInv, TypeOK
<1>2. /\ button' = FALSE /\ mouseDown' = FALSE /\ grabbed' = None
      /\ UNCHANGED <<selectTool, tool, creating, alive, gizmo>>
      BY DEF LeftUp
<1>3. CASE dragging # None
  <2>1. Drop
        BY <1>3 DEF LeftUp
  <2>2. TypeOK'
        BY <1>1, <1>2, <2>1 DEF Drop, IInv, TypeOK
  <2>3. ~disturbed' => dirty' = {} /\ saved' = None /\ ~strayed'
    <3>1. CASE disturbed
          BY <2>1, <3>1 DEF Drop, IInv, TypeOK
    <3>2. CASE ~disturbed
      <4>1. dragging \in Entity /\ \A e \in dirty : e = Record[dragging] /\ e \in alive
            BY <1>3, <3>2 DEF IInv, Picture, DragIsOfGrabbed, LeftoversAreDraggeds
      <4>2. \A e \in dirty : Kind[e] = Kind[dragging] /\ Published(dragging)
            BY <4>1 DEF Published
      <4> QED BY <2>1, <3>2, <4>1, <4>2 DEF Drop, Announced, IInv, Picture, TypeOK
    <3> QED BY <3>1, <3>2 DEF IInv, TypeOK
  <2> QED BY <1>2, <2>1, <2>2, <2>3
          DEF Drop, IInv, Picture, DragIsOfGrabbed, LeftoversAreDraggeds
<1>4. CASE dragging = None
  <2>1. UNCHANGED <<dragging, axis, line, ring, saved, dirty, camera, strayed, disturbed>>
        BY <1>4 DEF LeftUp
  <2> QED BY <1>1, <1>2, <1>4, <2>1
          DEF IInv, TypeOK, Picture, DragIsOfGrabbed, LeftoversAreDraggeds
<1> QED BY <1>3, <1>4

LEMMA NextIInv == IInv /\ [Next]_vars => IInv'
<1> SUFFICES ASSUME IInv, [Next]_vars PROVE IInv'
    OBVIOUS
<1> USE KindAssumption, RecordAssumption, ThingsDiffer
<1>1. CASE PressInCreation
      BY <1>1 DEF PressInCreation, IInv, TypeOK, Picture, DragIsOfGrabbed, LeftoversAreDraggeds,
                  store, refs, ghosts
<1>2. CASE LeftDown
  <2> PICK hit \in Pickable, near \in BOOLEAN, ray \in BOOLEAN,
           behind \in alive \cup {Building, None} :
        \/ PressRing(hit, ray)
        \/ PressSelected(hit, ray)
        \/ hit = Gizmo /\ PressGizmo(near)
        \/ PressSelect(hit, near, ray, behind)
      BY <1>2 DEF LeftDown
  <2>1. Pressed
        BY DEF PressRing, PressSelected, PressGizmo, PressSelect
  <2> QED BY <2>1, PressKeeps
<1>3. CASE PressUnselectable
  <2>1. None \in Pickable /\ None \in alive \cup {Building, None}
        BY DEF Pickable
  <2>2. Pressed
        BY <1>3 DEF PressUnselectable
  <2> QED BY <1>3, <2>1, <2>2, PressKeeps
<1>4. CASE MouseMove
      BY <1>4, MoveKeeps
<1>5. CASE \E hit \in Pickable, click \in BOOLEAN : LeftUp(hit, click)
      BY <1>5, ReleaseKeeps
<1>6. CASE LoseUp
  <2>1. /\ selected' = selected /\ dragging' = dragging /\ axis' = axis /\ ring' = ring
        /\ selectTool' = selectTool /\ tool' = tool /\ creating' = creating
        /\ mouseDown' = mouseDown /\ didSelect' = didSelect /\ line' = line /\ saved' = saved
        /\ camera' = camera /\ alive' = alive /\ dirty' = dirty /\ gizmo' = gizmo
        /\ grabbed' = grabbed /\ strayed' = strayed
        /\ selected' \in Entity \cup {Building, None}
        /\ dragging' \in Entity \cup {Building, None}
        /\ button' \in BOOLEAN /\ disturbed' \in BOOLEAN
        BY <1>6 DEF LoseUp, IInv, TypeOK, store, refs
  <2>2. TypeOK'
    <3>1. /\ selectTool' \in BOOLEAN /\ creating' \in BOOLEAN /\ mouseDown' \in BOOLEAN
          /\ didSelect' \in BOOLEAN /\ axis' \in BOOLEAN /\ ring' \in BOOLEAN
          /\ camera' \in BOOLEAN /\ strayed' \in BOOLEAN
          BY <2>1, Zenon DEF IInv, TypeOK
    <3>2. /\ line' \in Entity \cup {None} /\ saved' \in Entity \cup {None}
          /\ grabbed' \in Entity \cup {None} /\ tool' \in {"move", "rotate", "none"}
          /\ alive' \subseteq Entity /\ dirty' \subseteq Entity
          /\ gizmo' \in {Gizmo, Ring, None}
          BY <2>1 DEF IInv, TypeOK
    <3> QED BY <2>1, <3>1, <3>2, Zenon DEF TypeOK
  <2>4. disturbed' = FALSE => disturbed = FALSE /\ dragging = None
        BY <1>6 DEF LoseUp, IInv, TypeOK
  <2>3. Picture'
        BY <2>1, <2>4 DEF IInv, TypeOK, Picture, DragIsOfGrabbed, LeftoversAreDraggeds
  <2> QED BY <2>2, <2>3 DEF IInv
<1>7. CASE \E x \in {e \in alive : Record[e] = e} \cup {None} : SelectInPanel(x)
      BY <1>7 DEF SelectInPanel, Chosen, IInv, TypeOK, Picture, DragIsOfGrabbed,
                  LeftoversAreDraggeds, refs
<1>8. CASE RemoveSelected
  <2>1. dirty' \subseteq dirty /\ \A e \in dirty' : Kind[e] # Kind[selected]
        BY <1>8 DEF RemoveSelected
  <2>2. Kind[Record[selected]] = Kind[selected] /\ alive' = alive \ {Record[selected]}
        BY <1>8 DEF RemoveSelected
  <2> QED BY <1>8, <2>1, <2>2 DEF RemoveSelected, Chosen, IInv, TypeOK, Picture,
                  DragIsOfGrabbed, LeftoversAreDraggeds, refs
<1>9. CASE DataReplaced
      BY <1>9 DEF DataReplaced, IInv, TypeOK, Picture, DragIsOfGrabbed, LeftoversAreDraggeds,
                  store, refs, ghosts
<1>10. CASE SetSelectToolEnabled
      BY <1>10 DEF SetSelectToolEnabled, IInv, TypeOK, Picture, DragIsOfGrabbed,
                  LeftoversAreDraggeds, refs, ghosts
<1>11. CASE SetTransformTool
      BY <1>11 DEF SetTransformTool, IInv, TypeOK, Picture, DragIsOfGrabbed,
                  LeftoversAreDraggeds, refs, ghosts
<1>12. CASE ToggleCreating
      BY <1>12 DEF ToggleCreating, IInv, TypeOK, Picture, DragIsOfGrabbed,
                  LeftoversAreDraggeds, refs, ghosts
<1>13. CASE DrawGizmo
      BY <1>13 DEF DrawGizmo, ShownGizmo, IInv, TypeOK, Picture, DragIsOfGrabbed,
                  LeftoversAreDraggeds, store, refs, ghosts
<1>14. CASE UNCHANGED vars
      BY <1>14 DEF vars, store, refs, ghosts, IInv, TypeOK, Picture, DragIsOfGrabbed,
                  LeftoversAreDraggeds
<1> QED BY <1>1, <1>2, <1>3, <1>4, <1>5, <1>6, <1>7, <1>8, <1>9, <1>10, <1>11, <1>12, <1>13, <1>14 DEF Next

THEOREM Inductive == Spec => []IInv
BY InitIInv, NextIInv, PTL DEF Spec

\* Every variable keeps its type, whatever the number of entities.
THEOREM TypeCorrect == Spec => []TypeOK
<1>1. IInv => TypeOK
      BY DEF IInv
<1> QED BY <1>1, Inductive, PTL

\* handleMouseMove: an undisturbed gesture moves only what was pressed.
THEOREM GrabbedMoves == Spec => []MovesWhatWasGrabbed
<1>1. IInv => MovesWhatWasGrabbed
      BY DEF IInv, Picture, MovesWhatWasGrabbed
<1> QED BY <1>1, Inductive, PTL

\* handleLeftUp: an undisturbed gesture leaves no drag and a camera that answers.
THEOREM IdleAfterRelease == Spec => []ReleasedIsIdle
<1>1. IInv => ReleasedIsIdle
      BY DEF IInv, TypeOK, Picture, DragIsOfGrabbed, LeftoversAreDraggeds, ReleasedIsIdle
<1> QED BY <1>1, Inductive, PTL

\* handleLeftUp: an undisturbed gesture leaves no record changed and unannounced.
THEOREM AnnouncedAfterRelease == Spec => []MovesAnnounced
<1>1. IInv => MovesAnnounced
      BY DEF IInv, Picture, DragIsOfGrabbed, LeftoversAreDraggeds, MovesAnnounced
<1> QED BY <1>1, Inductive, PTL

\* handleObjectDragging: the position property put aside is the dragged entity's.
THEOREM SavedComesBack == Spec => []SavedIsOfDragged
<1>1. IInv => SavedIsOfDragged
      BY DEF IInv, Picture, LeftoversAreDraggeds, SavedIsOfDragged
<1> QED BY <1>1, Inductive, PTL

-----------------------------------------------------------------------------
(* Views: what the operators of the highlight manager and the layers do to    *)
(* the parts of one.                                                          *)

Look == [colour : Colours, at : Token \cup {Nowhere}]

\* The scene gives every entity in it a look, user equipment and scatterers a place of
\* their own, and a reference is to an entity in the scene as long as it is live.
IsView(v) ==
    /\ v \in [scene : {v.scene}, chosen : Reference \cup {NoEntity},
              hov : Holding \cup {NoEntity}, sel : Holding \cup {NoEntity}]
    /\ DOMAIN v.scene \subseteq Ents /\ v.scene \in [DOMAIN v.scene -> Look]
    /\ \A e \in DOMAIN v.scene : e[1] \in {"ue", "scatterer"} => v.scene[e].at \in Token
    /\ v.chosen # NoEntity /\ v.chosen.live => v.chosen.ent \in DOMAIN v.scene
    /\ v.hov # NoEntity /\ v.hov.live => v.hov.ent \in DOMAIN v.scene
    /\ v.sel # NoEntity /\ v.sel.live => v.sel.ent \in DOMAIN v.scene

Holds(r, e) == r # NoEntity /\ r.live /\ r.ent = e

\* The same entities at the same places.
SameBody(v, w) ==
    /\ DOMAIN w.scene = DOMAIN v.scene
    /\ \A e \in DOMAIN v.scene : w.scene[e].at = v.scene[e].at

\* What is held is given its own colour back, nothing else has another, and no entity is
\* held twice.
Coloured(v) ==
    /\ v.hov # NoEntity => v.hov.was = "own"
    /\ v.sel # NoEntity => v.sel.was = "own"
    /\ \A e \in DOMAIN v.scene :
          /\ v.scene[e].colour # "own" => Holds(v.hov, e) \/ Holds(v.sel, e)
          /\ ~(Holds(v.hov, e) /\ Holds(v.sel, e))

Lit(v) == Coloured(v) /\ \A e \in DOMAIN v.scene : Holds(v.sel, e) => v.scene[e].colour = "green"

\* The highlighted selection is the store's, and an entity of the store's selection that
\* is in the scene is highlighted; of user equipment it is the name that counts.
Follows(v) ==
    /\ v.sel # NoEntity => v.chosen # NoEntity /\ v.sel.ent = v.chosen.ent
    /\ \A e \in DOMAIN v.scene :
          Holds(v.chosen, e) \/ (OfUe(e) /\ v.chosen # NoEntity /\ v.chosen.ent = e) => Holds(v.sel, e)

\* Painting changes one colour, and none if the reference is to an entity that is gone.
LEMMA PaintIs ==
    ASSUME NEW v, IsView(v), NEW r \in Reference \cup Holding, r.live => r.ent \in DOMAIN v.scene,
           NEW c \in Colours
    PROVE  LET w == Paint(v, r, c)
           IN  /\ IsView(w) /\ SameBody(v, w)
               /\ w.chosen = v.chosen /\ w.hov = v.hov /\ w.sel = v.sel
               /\ \A e \in DOMAIN v.scene :
                     w.scene[e].colour = IF r.live /\ e = r.ent THEN c ELSE v.scene[e].colour
<1> DEFINE x == r.ent
           s == [v.scene EXCEPT ![x] = [v.scene[x] EXCEPT !.colour = c]]
           u == [v EXCEPT !.scene = s]
<1>1. CASE ~r.live
  BY <1>1 DEF Paint, SameBody
<1>2. CASE r.live
  <2>1. x \in DOMAIN v.scene /\ v.scene[x] \in Look
    BY <1>2 DEF IsView
  <2>2. Paint(v, r, c) = u
    BY <1>2 DEF Paint
  <2>3. [v.scene[x] EXCEPT !.colour = c] \in Look
        /\ [v.scene[x] EXCEPT !.colour = c].at = v.scene[x].at
        /\ [v.scene[x] EXCEPT !.colour = c].colour = c
    BY <2>1 DEF Look
  <2>4. /\ DOMAIN s = DOMAIN v.scene /\ s \in [DOMAIN s -> Look]
        /\ \A e \in DOMAIN v.scene : s[e].at = v.scene[e].at
        /\ \A e \in DOMAIN v.scene : s[e].colour = IF e = x THEN c ELSE v.scene[e].colour
    BY <2>1, <2>3 DEF IsView
  <2> HIDE DEF s
  <2>5. u.scene = s /\ u.chosen = v.chosen /\ u.hov = v.hov /\ u.sel = v.sel
        /\ u \in [scene : {s}, chosen : Reference \cup {NoEntity}, hov : Holding \cup {NoEntity}, sel : Holding \cup {NoEntity}]
    BY DEF IsView
  <2> HIDE DEF u
  <2>. QED
    BY <1>2, <2>2, <2>4, <2>5 DEF IsView, SameBody
<1>. QED
  BY <1>1, <1>2

LEMMA RefIs ==
    ASSUME NEW e \in Ents \cup {Text}, NEW live \in BOOLEAN, NEW c \in Colours
    PROVE  /\ Ref(e, live) \in Reference /\ Ref(e, live).ent = e /\ Ref(e, live).live = live
           /\ \A r \in Reference \cup Holding :
                 /\ r # NoEntity
                 /\ Held(r, c) \in Holding /\ Held(r, c).ent = r.ent /\ Held(r, c).live = r.live
                 /\ Held(r, c).was = c
  BY NoEntityAssumption DEF Ref, Held, Reference, Holding

\* What is assigned to a field of a view.
LEMMA HovIs ==
    ASSUME NEW v, IsView(v), NEW h \in Holding \cup {NoEntity},
           h # NoEntity /\ h.live => h.ent \in DOMAIN v.scene
    PROVE  LET w == [v EXCEPT !.hov = h]
           IN  IsView(w) /\ w.scene = v.scene /\ w.chosen = v.chosen /\ w.hov = h /\ w.sel = v.sel
  BY DEF IsView

LEMMA SelIs ==
    ASSUME NEW v, IsView(v), NEW h \in Holding \cup {NoEntity},
           h # NoEntity /\ h.live => h.ent \in DOMAIN v.scene
    PROVE  LET w == [v EXCEPT !.sel = h]
           IN  IsView(w) /\ w.scene = v.scene /\ w.chosen = v.chosen /\ w.hov = v.hov /\ w.sel = h
  BY DEF IsView

LEMMA ChosenIs ==
    ASSUME NEW v, IsView(v), NEW r \in Reference \cup {NoEntity},
           r # NoEntity /\ r.live => r.ent \in DOMAIN v.scene
    PROVE  LET w == [v EXCEPT !.chosen = r]
           IN  IsView(w) /\ w.scene = v.scene /\ w.chosen = r /\ w.hov = v.hov /\ w.sel = v.sel
  BY DEF IsView

\* Taking the hover away gives the colour back.
LEMMA UnhoveredIs ==
    ASSUME NEW v, IsView(v)
    PROVE  LET w == UnhighlightHovered(v)
           IN  /\ IsView(w) /\ SameBody(v, w)
               /\ w.chosen = v.chosen /\ w.hov = NoEntity /\ w.sel = v.sel
               /\ Lit(v) => Lit(w)
               /\ Follows(v) => Follows(w)
<1> DEFINE w == UnhighlightHovered(v)
<1>1. CASE v.hov = NoEntity \/ Same(v.hov, v.sel)
  <2>1. w = [v EXCEPT !.hov = NoEntity]
    BY <1>1 DEF UnhighlightHovered
  <2>2. /\ IsView(w) /\ SameBody(v, w) /\ w.scene = v.scene
        /\ w.chosen = v.chosen /\ w.hov = NoEntity /\ w.sel = v.sel
    BY <2>1, HovIs DEF SameBody
  <2> HIDE DEF w
  <2>3. Lit(v) => \A e \in DOMAIN v.scene : ~Holds(v.hov, e)
    BY <1>1 DEF Lit, Coloured, Holds, Same
  <2>. QED
    BY <2>2, <2>3 DEF w, Lit, Coloured, Follows, Holds
<1>2. CASE ~(v.hov = NoEntity \/ Same(v.hov, v.sel))
  <2> DEFINE p == Paint(v, v.hov, v.hov.was)
  <2>1. w = [p EXCEPT !.hov = NoEntity]
    BY <1>2 DEF UnhighlightHovered
  <2>2. v.hov \in Holding /\ v.hov.was \in Colours /\ (v.hov.live => v.hov.ent \in DOMAIN v.scene)
    BY <1>2 DEF IsView, Holding
  <2>3. /\ IsView(p) /\ SameBody(v, p)
        /\ p.chosen = v.chosen /\ p.hov = v.hov /\ p.sel = v.sel
        /\ \A e \in DOMAIN v.scene :
              p.scene[e].colour = IF v.hov.live /\ e = v.hov.ent THEN v.hov.was ELSE v.scene[e].colour
    BY <2>2, PaintIs
  <2> HIDE DEF p
  <2>4. /\ IsView(w) /\ SameBody(p, w) /\ w.scene = p.scene
        /\ w.chosen = p.chosen /\ w.hov = NoEntity /\ w.sel = p.sel
    BY <2>1, <2>3, HovIs DEF SameBody
  <2> HIDE DEF w
  <2>5. SameBody(v, w) /\ DOMAIN w.scene = DOMAIN v.scene
    BY <2>3, <2>4 DEF SameBody
  <2>6. Lit(v) => Lit(w)
    BY <1>2, <2>3, <2>4, <2>5 DEF Lit, Coloured, Holds
  <2>7. Follows(v) => Follows(w)
    BY <2>3, <2>4, <2>5 DEF Follows, Holds
  <2>. QED
    BY <2>3, <2>4, <2>5, <2>6, <2>7 DEF w
<1>. QED
  BY <1>1, <1>2

\* Taking the selection's highlight away gives the colour back.
LEMMA UnselectedIs ==
    ASSUME NEW v, IsView(v)
    PROVE  LET w == UnhighlightSelected(v)
           IN  /\ IsView(w) /\ SameBody(v, w)
               /\ w.chosen = v.chosen /\ w.hov = v.hov /\ w.sel = NoEntity
               /\ Coloured(v) => Lit(w)
<1> DEFINE w == UnhighlightSelected(v)
<1>1. CASE v.sel = NoEntity
  BY <1>1 DEF UnhighlightSelected, SameBody, Lit, Holds
<1>2. CASE v.sel # NoEntity
  <2> DEFINE p == Paint(v, v.sel, v.sel.was)
  <2>1. w = [p EXCEPT !.sel = NoEntity]
    BY <1>2 DEF UnhighlightSelected
  <2>2. v.sel \in Holding /\ v.sel.was \in Colours /\ (v.sel.live => v.sel.ent \in DOMAIN v.scene)
    BY <1>2 DEF IsView, Holding
  <2>3. /\ IsView(p) /\ SameBody(v, p)
        /\ p.chosen = v.chosen /\ p.hov = v.hov /\ p.sel = v.sel
        /\ \A e \in DOMAIN v.scene :
              p.scene[e].colour = IF v.sel.live /\ e = v.sel.ent THEN v.sel.was ELSE v.scene[e].colour
    BY <2>2, PaintIs
  <2> HIDE DEF p
  <2>4. /\ IsView(w) /\ SameBody(p, w) /\ w.scene = p.scene
        /\ w.chosen = p.chosen /\ w.hov = p.hov /\ w.sel = NoEntity
    BY <2>1, <2>3, SelIs DEF SameBody
  <2> HIDE DEF w
  <2>5. SameBody(v, w) /\ DOMAIN w.scene = DOMAIN v.scene
    BY <2>3, <2>4 DEF SameBody
  <2>6. Coloured(v) => Lit(w)
    BY <1>2, <2>3, <2>4, <2>5 DEF Lit, Coloured, Holds
  <2>. QED
    BY <2>3, <2>4, <2>5, <2>6 DEF w
<1>. QED
  BY <1>1, <1>2

\* The selection's highlight goes to the entity given, and the one before gets its
\* colour back.
LEMMA SelectedIs ==
    ASSUME NEW v, IsView(v), NEW r \in Reference, r.live => r.ent \in DOMAIN v.scene
    PROVE  LET w == HighlightSelection(v, r)
           IN  /\ IsView(w) /\ SameBody(v, w)
               /\ w.chosen = v.chosen /\ w.hov = v.hov
               /\ w.sel # NoEntity /\ w.sel.ent = r.ent /\ w.sel.live = r.live
               /\ /\ Coloured(v) /\ (r.live => ~Holds(v.hov, r.ent))
                  /\ Same(r, v.sel) /\ r.live => r.ent[1] = "ue" \/ v.scene[r.ent].colour = "green"
                  => Lit(w)
<1> DEFINE w == HighlightSelection(v, r)
<1>0. r # NoEntity /\ "green" \in Colours /\ "own" \in Colours /\ r.live \in BOOLEAN
  BY NoEntityAssumption DEF Colours, Reference
<1>1. CASE Same(r, v.sel)
  <2>1. v.sel # NoEntity /\ v.sel.ent = r.ent /\ v.sel.live = r.live
    BY <1>1 DEF Same
  <2>2. CASE r.ent[1] = "ue"
    <3>1. w = Paint(v, r, "green")
      BY <1>1, <2>2 DEF HighlightSelection
    <3>2. /\ IsView(w) /\ SameBody(v, w)
          /\ w.chosen = v.chosen /\ w.hov = v.hov /\ w.sel = v.sel
          /\ \A e \in DOMAIN v.scene :
                w.scene[e].colour = IF r.live /\ e = r.ent THEN "green" ELSE v.scene[e].colour
      BY <1>0, <3>1, PaintIs
    <3> HIDE DEF w
    <3>3. Coloured(v) => Lit(w)
      BY <2>1, <3>2 DEF Lit, Coloured, Holds, SameBody
    <3>. QED
      BY <2>1, <3>2, <3>3 DEF w
  <2>3. CASE r.ent[1] # "ue"
    <3>1. w = v
      BY <1>1, <2>3 DEF HighlightSelection
    <3>2. Coloured(v) /\ (r.live => v.scene[r.ent].colour = "green") => Lit(v)
      BY <2>1 DEF Lit, Holds
    <3>. QED
      BY <1>1, <2>1, <2>3, <3>1, <3>2 DEF SameBody
  <2>. QED
    BY <2>2, <2>3
<1>2. CASE ~Same(r, v.sel)
  <2> DEFINE u == UnhighlightSelected(v)
             p == Paint(u, r, "green")
             c == Colour(u, r)
  <2>1. /\ IsView(u) /\ SameBody(v, u)
        /\ u.chosen = v.chosen /\ u.hov = v.hov /\ u.sel = NoEntity
        /\ Coloured(v) => Lit(u)
    BY UnselectedIs
  <2>2. w = [p EXCEPT !.sel = Held(r, c)]
    BY <1>2 DEF HighlightSelection
  <2> HIDE DEF u
  <2>3. r.live => r.ent \in DOMAIN u.scene
    BY <2>1 DEF SameBody
  <2>4. /\ IsView(p) /\ SameBody(u, p)
        /\ p.chosen = u.chosen /\ p.hov = u.hov /\ p.sel = u.sel
        /\ \A e \in DOMAIN u.scene :
              p.scene[e].colour = IF r.live /\ e = r.ent THEN "green" ELSE u.scene[e].colour
    BY <1>0, <2>1, <2>3, PaintIs
  <2>5. c \in Colours
    BY <1>0, <2>1, <2>3 DEF Colour, IsView, Look
  <2> HIDE DEF c, p
  <2>6. /\ Held(r, c) \in Holding /\ Held(r, c) # NoEntity /\ Held(r, c).ent = r.ent
        /\ Held(r, c).live = r.live /\ Held(r, c).was = c
    BY <1>0, <2>5, NoEntityAssumption DEF Held, Holding, Reference
  <2>7. /\ IsView(w) /\ SameBody(p, w) /\ w.scene = p.scene
        /\ w.chosen = p.chosen /\ w.hov = p.hov /\ w.sel = Held(r, c)
    <3>1. r.live => r.ent \in DOMAIN p.scene
      BY <2>3, <2>4 DEF SameBody
    <3>. QED
      BY <2>2, <2>4, <2>6, <3>1, SelIs DEF SameBody
  <2> HIDE DEF w
  <2>8. SameBody(v, w) /\ DOMAIN w.scene = DOMAIN u.scene
    BY <2>1, <2>4, <2>7 DEF SameBody
  <2>9. ASSUME Coloured(v), r.live => ~Holds(v.hov, r.ent)
        PROVE  Lit(w)
    <3>1. Lit(u)
      BY <2>1, <2>9
    <3>2. c = "own"
      BY <2>1, <2>3, <2>9, <3>1 DEF Lit, Coloured, Holds, Colour, c
    <3>3. \A e \in DOMAIN u.scene : Holds(w.sel, e) <=> r.live /\ e = r.ent
      BY <2>6, <2>7 DEF Holds
    <3>4. \A e \in DOMAIN u.scene : u.scene[e].colour # "own" => Holds(u.hov, e)
      BY <2>1, <3>1 DEF Lit, Coloured, Holds
    <3>5. \A e \in DOMAIN w.scene : /\ w.scene[e].colour # "own" => Holds(w.hov, e) \/ Holds(w.sel, e)
                                    /\ Holds(w.sel, e) => w.scene[e].colour = "green"
                                    /\ ~(Holds(w.hov, e) /\ Holds(w.sel, e))
      BY <2>1, <2>4, <2>7, <2>8, <2>9, <3>3, <3>4
    <3>6. (w.hov # NoEntity => w.hov.was = "own") /\ w.sel.was = "own"
      BY <2>1, <2>4, <2>6, <2>7, <3>1, <3>2 DEF Lit, Coloured
    <3>. QED
      BY <3>5, <3>6 DEF Lit, Coloured
  <2>. QED
    BY <2>1, <2>4, <2>6, <2>7, <2>8, <2>9 DEF w
<1>. QED
  BY <1>1, <1>2

-----------------------------------------------------------------------------
(* The layers.                                                                *)

\* Entities of other kinds are neither drawn, moved nor removed.
KeepsOthers(v, w, kinds) ==
    \A e \in Ents : e[1] \notin kinds =>
       /\ e \in DOMAIN w.scene <=> e \in DOMAIN v.scene
       /\ e \in DOMAIN v.scene => w.scene[e].at = v.scene[e].at

\* What a layer does to the view: other kinds and the store's selection stay, and the
\* highlights stay right.
Redraws(v, w, kinds) ==
    /\ IsView(w) /\ KeepsOthers(v, w, kinds)
    /\ w.chosen = NoEntity <=> v.chosen = NoEntity
    /\ v.chosen # NoEntity => w.chosen.ent = v.chosen.ent
    /\ Lit(v) /\ Follows(v) => Lit(w) /\ Follows(w)

\* What is removed leaves relics with whoever held it.
LEMMA RemovedIs ==
    ASSUME NEW v, IsView(v), NEW gone
    PROVE  LET w == Remove(v, gone)
           IN  /\ IsView(w) /\ DOMAIN w.scene = DOMAIN v.scene \ gone
               /\ \A e \in DOMAIN w.scene : w.scene[e] = v.scene[e]
               /\ w.chosen = NoEntity <=> v.chosen = NoEntity
               /\ v.chosen # NoEntity => w.chosen.ent = v.chosen.ent
               /\ w.sel = NoEntity <=> v.sel = NoEntity
               /\ v.sel # NoEntity => w.sel.ent = v.sel.ent
               /\ w.hov = NoEntity <=> v.hov = NoEntity
               /\ v.hov # NoEntity => w.hov.ent = v.hov.ent
               /\ \A e : /\ Holds(w.chosen, e) <=> Holds(v.chosen, e) /\ e \notin gone
                         /\ Holds(w.sel, e) <=> Holds(v.sel, e) /\ e \notin gone
                         /\ Holds(w.hov, e) <=> Holds(v.hov, e) /\ e \notin gone
               /\ Coloured(v) => Coloured(w)
               /\ Lit(v) => Lit(w)
               /\ Follows(v) => Follows(w)
<1> DEFINE w == Remove(v, gone)
<1>1. ASSUME NEW r \in Reference \cup Holding \cup {NoEntity}
      PROVE  LET d == Detached(r, gone)
             IN  /\ d = NoEntity <=> r = NoEntity
                 /\ r # NoEntity => d.ent = r.ent /\ (r \in Holding => d.was = r.was)
                 /\ r # NoEntity => (d.live <=> r.live /\ r.ent \notin gone)
                 /\ r \in Reference => d \in Reference
                 /\ r \in Holding => d \in Holding
                 /\ \A e : Holds(d, e) <=> Holds(r, e) /\ e \notin gone
  <2>1. CASE r = NoEntity
    BY <2>1, NoEntityAssumption DEF Detached, Holds
  <2>2. CASE r # NoEntity /\ r.ent \notin gone
    BY <2>2 DEF Detached, Holds
  <2>3. CASE r # NoEntity /\ r.ent \in gone
    <3> DEFINE d == [r EXCEPT !.live = FALSE]
    <3>1. Detached(r, gone) = d
      BY <2>3 DEF Detached
    <3>2. /\ d.ent = r.ent /\ ~d.live
          /\ r \in Reference => d \in Reference
          /\ r \in Holding => d \in Holding /\ d.was = r.was
      BY <2>3 DEF Reference, Holding
    <3>3. d # NoEntity
      BY <2>3, <3>2, NoEntityAssumption
    <3> HIDE DEF d
    <3>. QED
      BY <2>3, <3>1, <3>2, <3>3 DEF Holds
  <2>. QED
    BY <2>1, <2>2, <2>3
<1>2. /\ v.chosen \in Reference \cup {NoEntity} /\ v.hov \in Holding \cup {NoEntity}
      /\ v.sel \in Holding \cup {NoEntity}
  BY DEF IsView
<1>3. /\ w.scene = [e \in DOMAIN v.scene \ gone |-> v.scene[e]]
      /\ w.chosen = Detached(v.chosen, gone) /\ w.hov = Detached(v.hov, gone) /\ w.sel = Detached(v.sel, gone)
      /\ w = [scene |-> w.scene, chosen |-> w.chosen, hov |-> w.hov, sel |-> w.sel]
  BY DEF Remove
<1>4. DOMAIN w.scene = DOMAIN v.scene \ gone /\ \A e \in DOMAIN w.scene : w.scene[e] = v.scene[e]
  BY <1>3
<1> HIDE DEF w
<1>5. /\ w.chosen = NoEntity <=> v.chosen = NoEntity
      /\ v.chosen # NoEntity => w.chosen.ent = v.chosen.ent /\ (w.chosen.live <=> v.chosen.live /\ v.chosen.ent \notin gone)
      /\ w.chosen \in Reference \cup {NoEntity}
      /\ \A e : Holds(w.chosen, e) <=> Holds(v.chosen, e) /\ e \notin gone
  BY <1>1, <1>2, <1>3
<1>6. /\ w.sel = NoEntity <=> v.sel = NoEntity
      /\ v.sel # NoEntity => /\ w.sel.ent = v.sel.ent /\ w.sel.was = v.sel.was
                             /\ w.sel.live <=> v.sel.live /\ v.sel.ent \notin gone
      /\ w.sel \in Holding \cup {NoEntity}
      /\ \A e : Holds(w.sel, e) <=> Holds(v.sel, e) /\ e \notin gone
  BY <1>1, <1>2, <1>3
<1>7. /\ w.hov = NoEntity <=> v.hov = NoEntity
      /\ v.hov # NoEntity => /\ w.hov.ent = v.hov.ent /\ w.hov.was = v.hov.was
                             /\ w.hov.live <=> v.hov.live /\ v.hov.ent \notin gone
      /\ w.hov \in Holding \cup {NoEntity}
      /\ \A e : Holds(w.hov, e) <=> Holds(v.hov, e) /\ e \notin gone
  BY <1>1, <1>2, <1>3
<1>8. IsView(w)
  <2>1. w \in [scene : {w.scene}, chosen : Reference \cup {NoEntity},
               hov : Holding \cup {NoEntity}, sel : Holding \cup {NoEntity}]
    BY <1>3, <1>5, <1>6, <1>7
  <2>2. DOMAIN w.scene \subseteq Ents /\ w.scene \in [DOMAIN w.scene -> Look]
    BY <1>3, <1>4 DEF IsView
  <2>. QED
    BY <1>4, <1>5, <1>6, <1>7, <2>1, <2>2 DEF IsView
<1>9. (Coloured(v) => Coloured(w)) /\ (Lit(v) => Lit(w))
  BY <1>4, <1>6, <1>7 DEF Lit, Coloured
<1>10. Follows(v) => Follows(w)
  BY <1>4, <1>5, <1>6 DEF Follows
<1>. QED
  BY <1>4, <1>5, <1>6, <1>7, <1>8, <1>9, <1>10 DEF w

\* What is drawn has its own colour and stands where it is drawn.
LEMMA DrawnIs ==
    ASSUME NEW v, IsView(v), NEW at, DOMAIN at \subseteq Ents, at \in [DOMAIN at -> Token \cup {Nowhere}],
           \A e \in DOMAIN at : e[1] \in {"ue", "scatterer"} => at[e] \in Token
    PROVE  LET w == Draw(v, at)
           IN  /\ IsView(w) /\ DOMAIN w.scene = DOMAIN at \cup DOMAIN v.scene
               /\ \A e \in DOMAIN at : w.scene[e].colour = "own" /\ w.scene[e].at = at[e]
               /\ \A e \in DOMAIN v.scene \ DOMAIN at : w.scene[e] = v.scene[e]
               /\ w.chosen = v.chosen /\ w.sel = v.sel /\ w.hov = v.hov
               /\ Coloured(v) => Coloured(w)
<1> DEFINE s == [e \in DOMAIN at \cup DOMAIN v.scene |->
                   IF e \in DOMAIN at THEN [colour |-> "own", at |-> at[e]] ELSE v.scene[e]]
           w == [v EXCEPT !.scene = s]
<1>1. Draw(v, at) = w
  BY DEF Draw
<1>2. /\ DOMAIN s = DOMAIN at \cup DOMAIN v.scene
      /\ \A e \in DOMAIN at : s[e] = [colour |-> "own", at |-> at[e]]
      /\ \A e \in DOMAIN v.scene \ DOMAIN at : s[e] = v.scene[e]
  OBVIOUS
<1>3. \A e \in DOMAIN at : [colour |-> "own", at |-> at[e]] \in Look
  BY DEF Look, Colours
<1>4. s \in [DOMAIN s -> Look] /\ DOMAIN s \subseteq Ents
  BY <1>2, <1>3 DEF IsView
<1> HIDE DEF s
<1>5. /\ w.scene = s /\ w.chosen = v.chosen /\ w.sel = v.sel /\ w.hov = v.hov
      /\ w \in [scene : {s}, chosen : Reference \cup {NoEntity},
                hov : Holding \cup {NoEntity}, sel : Holding \cup {NoEntity}]
  BY DEF IsView
<1> HIDE DEF w
<1>6. IsView(w)
  BY <1>2, <1>4, <1>5 DEF IsView
<1>7. \A e \in DOMAIN at : w.scene[e].colour = "own" /\ w.scene[e].at = at[e]
  BY <1>2, <1>5
<1>8. Coloured(v) => Coloured(w)
  <2>1. \A e : (Holds(v.hov, e) => e \in DOMAIN v.scene) /\ (Holds(v.sel, e) => e \in DOMAIN v.scene)
    BY DEF IsView, Holds
  <2>. QED
    BY <1>2, <1>5, <1>7, <2>1 DEF Coloured
<1>. QED
  BY <1>1, <1>2, <1>5, <1>6, <1>7, <1>8

\* A layer that removes all of its kind and draws it anew.
LEMMA RedrawnIs ==
    ASSUME NEW v, IsView(v), NEW kind, kind \notin {"ue", "ue-waypoint"},
           NEW at, DOMAIN at \subseteq Ents, at \in [DOMAIN at -> Token \cup {Nowhere}],
           \A e \in DOMAIN at : e[1] = kind /\ (kind = "scatterer" => at[e] \in Token)
    PROVE  LET w == Draw(Remove(v, Entities(v, kind)), at)
           IN  Redraws(v, w, {kind}) /\ Entities(w, kind) = DOMAIN at
<1> DEFINE gone == Entities(v, kind)
           u == Remove(v, gone)
           w == Draw(u, at)
<1>1. /\ IsView(u) /\ DOMAIN u.scene = DOMAIN v.scene \ gone
      /\ \A e \in DOMAIN u.scene : u.scene[e] = v.scene[e]
      /\ u.chosen = NoEntity <=> v.chosen = NoEntity
      /\ v.chosen # NoEntity => u.chosen.ent = v.chosen.ent
      /\ Lit(v) => Lit(u)
      /\ Follows(v) => Follows(u)
  BY RemovedIs
<1> HIDE DEF u
<1>2. /\ IsView(w) /\ DOMAIN w.scene = DOMAIN at \cup DOMAIN u.scene
      /\ \A e \in DOMAIN u.scene \ DOMAIN at : w.scene[e] = u.scene[e]
      /\ w.chosen = u.chosen /\ w.sel = u.sel /\ w.hov = u.hov
      /\ Coloured(u) => Coloured(w)
  BY <1>1, DrawnIs
<1> HIDE DEF w
<1>3. \A e \in DOMAIN u.scene : e[1] # kind
  BY <1>1 DEF Entities
<1>4. DOMAIN at \cap DOMAIN u.scene = {}
  BY <1>3
<1>5. Entities(w, kind) = DOMAIN at
  BY <1>2, <1>3 DEF Entities
<1>6. KeepsOthers(v, w, {kind})
  <2>1. ASSUME NEW e \in Ents, e[1] # kind
        PROVE  /\ e \in DOMAIN w.scene <=> e \in DOMAIN v.scene
               /\ e \in DOMAIN v.scene => w.scene[e].at = v.scene[e].at
    <3>1. e \notin DOMAIN at /\ e \notin gone
      BY <2>1 DEF Entities
    <3>. QED
      BY <1>1, <1>2, <3>1
  <2>. QED
    BY <2>1 DEF KeepsOthers
<1>7. Lit(u) => Lit(w)
  <2>1. \A e : Holds(u.sel, e) => e \in DOMAIN u.scene
    BY <1>1 DEF IsView, Holds
  <2>. QED
    BY <1>2, <1>4, <2>1 DEF Lit
<1>8. Follows(u) => Follows(w)
  <2>1. \A e : Holds(u.chosen, e) => e \in DOMAIN u.scene
    BY <1>1 DEF IsView, Holds
  <2>2. \A e \in DOMAIN at : ~OfUe(e)
    BY DEF OfUe
  <2>. QED
    BY <1>2, <2>1, <2>2 DEF Follows
<1>. QED
  BY <1>1, <1>2, <1>5, <1>6, <1>7, <1>8 DEF Redraws, u, w

\* Which entities there are, by the first part of their names.
LEMMA EntsAre ==
    /\ \A kind \in UnitKind : kind \notin {"ue", "ue-waypoint", "scatterer"}
    /\ \A kind, i : UnitEnt(kind, i)[1] = kind /\ UnitEnt(kind, i)[2] = i
    /\ \A kind \in UnitKind, i \in Key : UnitEnt(kind, i) \in Ents
    /\ \A i : ScEnt(i)[1] = "scatterer" /\ ScEnt(i)[2] = i
    /\ \A i \in Sc : ScEnt(i) \in Ents
    /\ \A u : UeEnt(u)[1] = "ue" /\ UeEnt(u)[2] = u
    /\ \A u \in Ue : UeEnt(u) \in Ents
    /\ \A u, m : MarkEnt(u, m)[1] = "ue-waypoint" /\ MarkEnt(u, m)[2] = u /\ MarkEnt(u, m)[3] = m
    /\ \A u \in Ue, m \in Mark : MarkEnt(u, m) \in Ents
    /\ \A e \in Ents : /\ e[1] = "ue" => e[2] \in Ue /\ e = UeEnt(e[2])
                       /\ e[1] = "ue-waypoint" => e[2] \in Ue /\ e[3] \in Mark /\ e = MarkEnt(e[2], e[3])
    /\ ~OfUe(Text)
<1>1. \A e \in Ents : \/ \E k \in UnitKind, i \in Key : e = <<k, i>>
                      \/ \E i \in Sc : e = <<"scatterer", i>>
                      \/ \E u \in Ue : e = <<"ue", u>>
                      \/ \E u \in Ue, m \in Mark : e = <<"ue-waypoint", u, m>>
  BY DEF Ents, UnitEnt, ScEnt, UeEnt, MarkEnt
<1>2. \A e \in Ents : e[1] = "ue" => e[2] \in Ue /\ e = UeEnt(e[2])
  BY <1>1, UnitKindAssumption DEF UeEnt
<1>3. \A e \in Ents : e[1] = "ue-waypoint" => e[2] \in Ue /\ e[3] \in Mark /\ e = MarkEnt(e[2], e[3])
  BY <1>1, UnitKindAssumption DEF MarkEnt
<1>4. \A kind \in UnitKind : kind \notin {"ue", "ue-waypoint", "scatterer"}
  BY UnitKindAssumption
<1>5. /\ \A kind \in UnitKind, i \in Key : UnitEnt(kind, i) \in Ents
      /\ \A i \in Sc : ScEnt(i) \in Ents
      /\ \A u \in Ue : UeEnt(u) \in Ents
      /\ \A u \in Ue, m \in Mark : MarkEnt(u, m) \in Ents
  BY DEF Ents
<1>6. ~OfUe(Text)
  BY DEF OfUe, Text
<1>. QED
  BY <1>2, <1>3, <1>4, <1>5, <1>6 DEF UnitEnt, ScEnt, UeEnt, MarkEnt

UnitMap(map) == DOMAIN map \subseteq Key /\ \A i \in DOMAIN map : map[i] \in Key
ScMap(map) == DOMAIN map \subseteq Sc /\ \A i \in DOMAIN map : map[i] \in Token
UeMap(map) == /\ DOMAIN map \subseteq Ue
              /\ \A u \in DOMAIN map : map[u].at \in Token \cup {Nowhere} /\ map[u].marks \subseteq Mark

\* As long as the identifiers of the units are their keys, they are drawn.
UnitsDrawn(v, kind, map) ==
    (\A k \in DOMAIN map : map[k] = k) => Entities(v, kind) = {UnitEnt(kind, k) : k \in DOMAIN map}

ScsDrawn(v, map) == Entities(v, "scatterer") = {ScEnt(i) : i \in DOMAIN map}

\* User equipment that is somewhere is drawn there, and no other equipment is drawn.
UesDrawn(v, map) ==
    /\ \A u \in DOMAIN map : map[u].at # Nowhere =>
          UeEnt(u) \in DOMAIN v.scene /\ v.scene[UeEnt(u)].at = map[u].at
    /\ \A e \in Entities(v, "ue") : e[2] \in DOMAIN map

\* The waypoints drawn are those of one equipment.
MarksDrawn(v, map, id) ==
    \A e \in Ents : e \in Entities(v, "ue-waypoint") <=>
        \E u \in DOMAIN map \cap {id} : \E m \in map[u].marks : e = MarkEnt(u, m)

LEMMA UnitsAre ==
    ASSUME NEW v, IsView(v), NEW kind \in UnitKind, NEW map, UnitMap(map)
    PROVE  LET w == UnitVisualize(v, kind, map)
           IN  Redraws(v, w, {kind}) /\ UnitsDrawn(w, kind, map)
<1> DEFINE shown == Entities(v, kind)
           new == {UnitEnt(kind, map[k]) : k \in DOMAIN map}
           w == UnitVisualize(v, kind, map)
<1>1. CASE DOMAIN map # {} /\ {UnitEnt(kind, k) : k \in DOMAIN map} = shown
  <2>1. w = v
    BY <1>1 DEF UnitVisualize
  <2>. QED
    BY <1>1, <2>1 DEF Redraws, KeepsOthers, UnitsDrawn
<1>2. CASE ~(DOMAIN map # {} /\ {UnitEnt(kind, k) : k \in DOMAIN map} = shown)
  <2> DEFINE at == [e \in new |-> Nowhere]
  <2>1. w = Draw(Remove(v, shown), at)
    BY <1>2 DEF UnitVisualize
  <2>2. new \subseteq Ents /\ \A e \in new : e[1] = kind
    BY EntsAre DEF UnitMap
  <2>3. DOMAIN at = new /\ at \in [DOMAIN at -> Token \cup {Nowhere}]
    OBVIOUS
  <2> HIDE DEF at
  <2>4. Redraws(v, w, {kind}) /\ Entities(w, kind) = new
    <3>1. kind \notin {"ue", "ue-waypoint"}
      BY EntsAre
    <3>2. \A e \in DOMAIN at : e[1] = kind /\ (kind = "scatterer" => at[e] \in Token)
      BY <2>2, <2>3, EntsAre
    <3>3. LET d == Draw(Remove(v, Entities(v, kind)), at)
          IN  Redraws(v, d, {kind}) /\ Entities(d, kind) = DOMAIN at
      BY <2>2, <2>3, <3>1, <3>2, RedrawnIs
    <3>. QED
      BY <2>1, <2>3, <3>3
  <2>. QED
    BY <2>4 DEF UnitsDrawn
<1>. QED
  BY <1>1, <1>2

LEMMA ScsAre ==
    ASSUME NEW v, IsView(v), NEW map, ScMap(map)
    PROVE  LET w == ScVisualize(v, map)
           IN  Redraws(v, w, {"scatterer"}) /\ ScsDrawn(w, map)
<1> DEFINE shown == Entities(v, "scatterer")
           new == {ScEnt(k) : k \in DOMAIN map}
           w == ScVisualize(v, map)
<1>1. CASE DOMAIN map # {} /\ new = shown
  <2>1. w = v
    BY <1>1 DEF ScVisualize
  <2>. QED
    BY <1>1, <2>1 DEF Redraws, KeepsOthers, ScsDrawn
<1>2. CASE ~(DOMAIN map # {} /\ new = shown)
  <2> DEFINE at == [e \in new |-> map[e[2]]]
  <2>1. w = Draw(Remove(v, shown), at)
    BY <1>2 DEF ScVisualize
  <2>2. new \subseteq Ents /\ \A e \in new : e[1] = "scatterer" /\ e[2] \in DOMAIN map
    BY EntsAre DEF ScMap
  <2>3. DOMAIN at = new /\ at \in [DOMAIN at -> Token]
    BY <2>2 DEF ScMap
  <2> HIDE DEF at
  <2>4. at \in [DOMAIN at -> Token \cup {Nowhere}]
    BY <2>3
  <2>5. LET d == Draw(Remove(v, Entities(v, "scatterer")), at)
        IN  Redraws(v, d, {"scatterer"}) /\ Entities(d, "scatterer") = DOMAIN at
    BY <2>2, <2>3, <2>4, RedrawnIs
  <2>. QED
    BY <2>1, <2>3, <2>5 DEF ScsDrawn
<1>. QED
  BY <1>1, <1>2

LEMMA UeDrawnIs ==
    ASSUME NEW map, UeMap(map), NEW id
    PROVE  LET at == UeDrawn(map, id)
           IN  /\ DOMAIN at \subseteq Ents /\ at \in [DOMAIN at -> Token \cup {Nowhere}]
               /\ \A e \in DOMAIN at : OfUe(e) /\ (e[1] = "ue" => e[2] \in DOMAIN map /\ at[e] \in Token)
               /\ \A u \in DOMAIN map : map[u].at # Nowhere =>
                     UeEnt(u) \in DOMAIN at /\ at[UeEnt(u)] = map[u].at
               /\ \A e \in Ents : e[1] = "ue-waypoint" =>
                     (e \in DOMAIN at <=> \E u \in DOMAIN map \cap {id} : \E m \in map[u].marks : e = MarkEnt(u, m))
<1> DEFINE somewhere == {UeEnt(u) : u \in {u \in DOMAIN map : map[u].at # Nowhere}}
           marks == UNION {{MarkEnt(u, m) : m \in map[u].marks} : u \in DOMAIN map \cap {id}}
           at == [e \in somewhere \cup marks |-> IF e[1] = "ue" THEN map[e[2]].at ELSE Nowhere]
<1>1. UeDrawn(map, id) = at
  BY DEF UeDrawn
<1>2. \A e \in somewhere : /\ e \in Ents /\ e[1] = "ue" /\ e[2] \in DOMAIN map
                           /\ map[e[2]].at \in Token
  <2>1. SUFFICES ASSUME NEW u \in DOMAIN map, map[u].at # Nowhere
                 PROVE  /\ UeEnt(u) \in Ents /\ UeEnt(u)[1] = "ue" /\ UeEnt(u)[2] = u
                        /\ map[u].at \in Token
    OBVIOUS
  <2>. QED
    BY <2>1, EntsAre DEF UeMap
<1>3. \A e \in marks : \E u \in DOMAIN map \cap {id} : \E m \in map[u].marks : e = MarkEnt(u, m)
  OBVIOUS
<1>4. \A e \in marks : e \in Ents /\ e[1] = "ue-waypoint"
  BY <1>3, EntsAre DEF UeMap
<1>5. \A u \in DOMAIN map : map[u].at # Nowhere => UeEnt(u) \in somewhere
  OBVIOUS
<1>6. \A u \in DOMAIN map \cap {id} : \A m \in map[u].marks : MarkEnt(u, m) \in marks
  OBVIOUS
<1> HIDE DEF somewhere, marks
<1>7. DOMAIN at = somewhere \cup marks
  OBVIOUS
<1>8. \A e \in somewhere : at[e] = map[e[2]].at
  BY <1>2
<1>9. \A e \in marks : at[e] = Nowhere
  BY <1>4
<1>10. at \in [DOMAIN at -> Token \cup {Nowhere}]
  BY <1>2, <1>4
<1> HIDE DEF at
<1>11. \A e \in DOMAIN at : OfUe(e) /\ (e[1] = "ue" => e[2] \in DOMAIN map /\ at[e] \in Token)
  BY <1>2, <1>4, <1>7, <1>8 DEF OfUe
<1>12. \A u \in DOMAIN map : map[u].at # Nowhere =>
         UeEnt(u) \in DOMAIN at /\ at[UeEnt(u)] = map[u].at
  BY <1>5, <1>7, <1>8, EntsAre
<1>13. \A e \in Ents : e[1] = "ue-waypoint" =>
         (e \in DOMAIN at <=> \E u \in DOMAIN map \cap {id} : \E m \in map[u].marks : e = MarkEnt(u, m))
  BY <1>2, <1>3, <1>6, <1>7
<1>. QED
  BY <1>1, <1>2, <1>4, <1>7, <1>10, <1>11, <1>12, <1>13

\* Nothing is highlighted yet, or the highlight is the store's selection.
Steady(v) ==
    \/ v.hov = NoEntity /\ v.sel = NoEntity
    \/ Follows(v)

\* The selection is highlighted again after its layer has drawn what it draws.
LEMMA RehighlightedIs ==
    ASSUME NEW v, IsView(v), NEW at, DOMAIN at \subseteq Ents, at \in [DOMAIN at -> Token \cup {Nowhere}],
           \A e \in DOMAIN at : OfUe(e) /\ (e[1] = "ue" => at[e] \in Token),
           Entities(v, "ue-waypoint") = {}
    PROVE  LET d == Draw(v, at)
               w == Rehighlight(d)
           IN  /\ IsView(w) /\ SameBody(d, w)
               /\ w.chosen = v.chosen /\ w.hov = v.hov
               /\ Lit(v) /\ Steady(v) => Lit(w)
               /\ Follows(v) => Follows(w)
<1> DEFINE d == Draw(v, at)
           w == Rehighlight(d)
           r == Ref(d.chosen.ent, TRUE)
<1>1. /\ IsView(d) /\ DOMAIN d.scene = DOMAIN at \cup DOMAIN v.scene
      /\ \A e \in DOMAIN v.scene \ DOMAIN at : d.scene[e] = v.scene[e]
      /\ d.chosen = v.chosen /\ d.sel = v.sel /\ d.hov = v.hov
      /\ Coloured(v) => Coloured(d)
  <2>1. \A e \in DOMAIN at : e[1] \in {"ue", "scatterer"} => at[e] \in Token
    BY DEF OfUe
  <2>. QED
    BY <2>1, DrawnIs
<1> HIDE DEF d
<1>2. \A e : /\ Holds(v.sel, e) => e \in DOMAIN v.scene
             /\ Holds(v.hov, e) => e \in DOMAIN v.scene
             /\ Holds(v.chosen, e) => e \in DOMAIN v.scene
  BY DEF IsView, Holds
<1>3. CASE v.chosen # NoEntity /\ OfUe(v.chosen.ent) /\ v.chosen.ent \in DOMAIN d.scene
  <2>1. w = HighlightSelection(d, r)
    BY <1>1, <1>3 DEF Rehighlight
  <2>2. r \in Reference /\ r.ent = v.chosen.ent /\ r.live
    <3>1. d.chosen.ent = v.chosen.ent /\ d.chosen.ent \in Ents
      BY <1>1, <1>3 DEF IsView
    <3>. QED
      BY <3>1 DEF Ref, Reference
  <2> HIDE DEF r
  <2>3. /\ IsView(w) /\ SameBody(d, w)
        /\ w.chosen = d.chosen /\ w.hov = d.hov
        /\ w.sel # NoEntity /\ w.sel.ent = r.ent /\ w.sel.live = r.live
        /\ /\ Coloured(d) /\ (r.live => ~Holds(d.hov, r.ent))
           /\ Same(r, d.sel) /\ r.live => r.ent[1] = "ue" \/ d.scene[r.ent].colour = "green"
           => Lit(w)
    <3>1. r.live => r.ent \in DOMAIN d.scene
      BY <1>3, <2>2
    <3> DEFINE h == HighlightSelection(d, r)
    <3>2. /\ IsView(h) /\ SameBody(d, h)
          /\ h.chosen = d.chosen /\ h.hov = d.hov
          /\ h.sel # NoEntity /\ h.sel.ent = r.ent /\ h.sel.live = r.live
          /\ /\ Coloured(d) /\ (r.live => ~Holds(d.hov, r.ent))
             /\ Same(r, d.sel) /\ r.live => r.ent[1] = "ue" \/ d.scene[r.ent].colour = "green"
             => Lit(h)
      BY <1>1, <2>2, <3>1, SelectedIs
    <3> HIDE DEF h, w
    <3>. QED
      BY <2>1, <3>2 DEF h
  <2> HIDE DEF w
  <2>4. r.ent[1] # "ue" => ~Same(r, d.sel)
    <3>1. r.ent[1] # "ue" => r.ent \notin DOMAIN v.scene
      BY <1>3, <2>2 DEF Entities, OfUe
    <3>. QED
      BY <1>1, <1>2, <2>2, <3>1 DEF Same, Holds
  <2>5. Lit(v) /\ Steady(v) => ~Holds(d.hov, r.ent)
    <3>1. v.hov = NoEntity => ~Holds(d.hov, r.ent)
      BY <1>1 DEF Holds
    <3>2. Follows(v) /\ r.ent \in DOMAIN v.scene => Holds(v.sel, r.ent)
      BY <1>3, <2>2 DEF Follows
    <3>3. Coloured(v) /\ r.ent \in DOMAIN v.scene => ~(Holds(v.hov, r.ent) /\ Holds(v.sel, r.ent))
      BY DEF Coloured
    <3>. QED
      BY <1>1, <1>2, <3>1, <3>2, <3>3 DEF Lit, Steady
  <2>6. Lit(v) /\ Steady(v) => Lit(w)
    BY <1>1, <2>3, <2>4, <2>5 DEF Lit
  <2>7. Follows(w)
    BY <1>1, <1>3, <2>2, <2>3 DEF Follows, Holds
  <2>. QED
    BY <1>1, <2>3, <2>6, <2>7 DEF d, w
<1>4. CASE ~(v.chosen # NoEntity /\ OfUe(v.chosen.ent) /\ v.chosen.ent \in DOMAIN d.scene)
  <2>1. w = d
    BY <1>1, <1>4 DEF Rehighlight
  <2>2. Follows(v) => \A e \in DOMAIN d.scene : Holds(v.sel, e) => e \notin DOMAIN at
    BY <1>4 DEF Follows, Holds
  <2>3. Lit(v) /\ Follows(v) => Lit(d)
    BY <1>1, <1>2, <2>2 DEF Lit
  <2>4. v.sel = NoEntity /\ Lit(v) => Lit(d)
    BY <1>1 DEF Lit, Holds
  <2>5. Follows(v) => Follows(d)
    BY <1>1, <1>2, <1>4 DEF Follows, Holds
  <2>. QED
    BY <1>1, <2>1, <2>3, <2>4, <2>5 DEF d, w, SameBody, Steady
<1>. QED
  BY <1>3, <1>4

\* Entities that are drawn again in place stay whose selection they are.
LEMMA UesAre ==
    ASSUME NEW v, IsView(v), NEW map, UeMap(map), NEW id
    PROVE  LET w == UeVisualize(v, map, id)
           IN  /\ IsView(w) /\ KeepsOthers(v, w, {"ue", "ue-waypoint"})
               /\ w.chosen = NoEntity <=> v.chosen = NoEntity
               /\ v.chosen # NoEntity => w.chosen.ent = v.chosen.ent
               /\ w.hov = NoEntity <=> v.hov = NoEntity
               /\ \A e \in DOMAIN w.scene :
                     Holds(v.chosen, e) /\ e[1] # "ue-waypoint" => Holds(w.chosen, e)
               /\ UesDrawn(w, map) /\ MarksDrawn(w, map, id)
               /\ Lit(v) /\ Steady(v) => Lit(w)
               /\ Follows(v) => Follows(w)
<1> DEFINE w == UeVisualize(v, map, id)
<1>1. CASE DOMAIN map = {}
  <2> DEFINE gone == {e \in DOMAIN v.scene : OfUe(e)}
  <2>1. w = Remove(v, gone)
    BY <1>1 DEF UeVisualize
  <2> HIDE DEF w
  <2>2. /\ IsView(w) /\ DOMAIN w.scene = DOMAIN v.scene \ gone
        /\ \A e \in DOMAIN w.scene : w.scene[e] = v.scene[e]
        /\ w.chosen = NoEntity <=> v.chosen = NoEntity
        /\ v.chosen # NoEntity => w.chosen.ent = v.chosen.ent
        /\ w.hov = NoEntity <=> v.hov = NoEntity
        /\ \A e : Holds(w.chosen, e) <=> Holds(v.chosen, e) /\ e \notin gone
        /\ Lit(v) => Lit(w)
        /\ Follows(v) => Follows(w)
    BY <2>1, RemovedIs
  <2>3. KeepsOthers(v, w, {"ue", "ue-waypoint"})
    BY <2>2 DEF KeepsOthers, OfUe
  <2>4. UesDrawn(w, map) /\ MarksDrawn(w, map, id)
    BY <1>1, <2>2 DEF UesDrawn, MarksDrawn, Entities, OfUe
  <2>. QED
    BY <2>2, <2>3, <2>4 DEF w
<1>2. CASE DOMAIN map # {}
  <2> DEFINE gone == Entities(v, "ue-waypoint") \cup {e \in Entities(v, "ue") : e[2] \notin DOMAIN map}
             u == Remove(v, gone)
             at == UeDrawn(map, id)
             d == Draw(u, at)
  <2>1. w = Rehighlight(d)
    BY <1>2 DEF UeVisualize
  <2> HIDE DEF w
  <2>2. /\ DOMAIN at \subseteq Ents /\ at \in [DOMAIN at -> Token \cup {Nowhere}]
        /\ \A e \in DOMAIN at : OfUe(e) /\ (e[1] = "ue" => e[2] \in DOMAIN map /\ at[e] \in Token)
        /\ \A n \in DOMAIN map : map[n].at # Nowhere =>
              UeEnt(n) \in DOMAIN at /\ at[UeEnt(n)] = map[n].at
        /\ \A e \in Ents : e[1] = "ue-waypoint" =>
              (e \in DOMAIN at <=> \E n \in DOMAIN map \cap {id} : \E m \in map[n].marks : e = MarkEnt(n, m))
    BY UeDrawnIs
  <2>3. /\ IsView(u) /\ DOMAIN u.scene = DOMAIN v.scene \ gone
        /\ \A e \in DOMAIN u.scene : u.scene[e] = v.scene[e]
        /\ u.chosen = NoEntity <=> v.chosen = NoEntity
        /\ v.chosen # NoEntity => u.chosen.ent = v.chosen.ent
        /\ u.hov = NoEntity <=> v.hov = NoEntity
        /\ u.sel = NoEntity <=> v.sel = NoEntity
        /\ \A e : Holds(u.chosen, e) <=> Holds(v.chosen, e) /\ e \notin gone
        /\ Lit(v) => Lit(u)
        /\ Follows(v) => Follows(u)
    BY RemovedIs
  <2> HIDE DEF u, at
  <2>4. \A e \in DOMAIN v.scene : e \in gone <=>
           e[1] = "ue-waypoint" \/ (e[1] = "ue" /\ e[2] \notin DOMAIN map)
    BY DEF Entities
  <2> HIDE DEF gone
  <2>5. Entities(u, "ue-waypoint") = {}
    BY <2>3, <2>4 DEF Entities
  <2>6. /\ IsView(w) /\ SameBody(d, w)
        /\ w.chosen = u.chosen /\ w.hov = u.hov
        /\ Lit(u) /\ Steady(u) => Lit(w)
        /\ Follows(u) => Follows(w)
    <3> DEFINE h == Rehighlight(d)
    <3>1. /\ IsView(h) /\ SameBody(d, h)
          /\ h.chosen = u.chosen /\ h.hov = u.hov
          /\ Lit(u) /\ Steady(u) => Lit(h)
          /\ Follows(u) => Follows(h)
      BY <2>2, <2>3, <2>5, RehighlightedIs
    <3> HIDE DEF h
    <3>. QED
      BY <2>1, <3>1 DEF h
  <2>7. /\ DOMAIN d.scene = DOMAIN at \cup DOMAIN u.scene
        /\ \A e \in DOMAIN at : d.scene[e].at = at[e]
        /\ \A e \in DOMAIN u.scene \ DOMAIN at : d.scene[e] = u.scene[e]
    <3>1. \A e \in DOMAIN at : e[1] \in {"ue", "scatterer"} => at[e] \in Token
      BY <2>2 DEF OfUe
    <3>. QED
      BY <2>2, <2>3, <3>1, DrawnIs
  <2> HIDE DEF d
  <2>8. /\ DOMAIN w.scene = DOMAIN at \cup DOMAIN u.scene
        /\ \A e \in DOMAIN at : w.scene[e].at = at[e]
        /\ \A e \in DOMAIN u.scene \ DOMAIN at : w.scene[e].at = u.scene[e].at
    BY <2>6, <2>7 DEF SameBody
  <2>9. KeepsOthers(v, w, {"ue", "ue-waypoint"})
    <3>1. ASSUME NEW e \in Ents, e[1] \notin {"ue", "ue-waypoint"}
          PROVE  /\ e \in DOMAIN w.scene <=> e \in DOMAIN v.scene
                 /\ e \in DOMAIN v.scene => w.scene[e].at = v.scene[e].at
      <4>1. e \notin DOMAIN at
        BY <2>2, <3>1 DEF OfUe
      <4>2. e \in DOMAIN u.scene <=> e \in DOMAIN v.scene
        BY <2>3, <2>4, <3>1
      <4>. QED
        BY <2>3, <2>8, <4>1, <4>2
    <3>. QED
      BY <3>1 DEF KeepsOthers
  <2>10. UesDrawn(w, map)
    <3>1. \A e \in Entities(w, "ue") : e[2] \in DOMAIN map
      BY <2>2, <2>3, <2>4, <2>8 DEF Entities
    <3>2. \A n \in DOMAIN map : map[n].at # Nowhere =>
            UeEnt(n) \in DOMAIN w.scene /\ w.scene[UeEnt(n)].at = map[n].at
      BY <2>2, <2>8
    <3>. QED
      BY <3>1, <3>2 DEF UesDrawn
  <2>11. MarksDrawn(w, map, id)
    <3>1. ASSUME NEW e \in Ents
          PROVE  e \in Entities(w, "ue-waypoint") <=> e[1] = "ue-waypoint" /\ e \in DOMAIN at
      BY <2>5, <2>8 DEF Entities
    <3>2. \A n \in DOMAIN map : \A m \in map[n].marks : MarkEnt(n, m)[1] = "ue-waypoint"
      BY EntsAre
    <3>. QED
      BY <2>2, <3>1, <3>2 DEF MarksDrawn
  <2>12. \A e \in DOMAIN w.scene :
           Holds(v.chosen, e) /\ e[1] # "ue-waypoint" => Holds(w.chosen, e)
    <3>1. \A e : Holds(v.chosen, e) => e \in DOMAIN v.scene
      BY DEF IsView, Holds
    <3>2. \A e \in DOMAIN w.scene : e[1] # "ue-waypoint" => e \notin gone \/ e \notin DOMAIN v.scene
      BY <2>2, <2>3, <2>4, <2>8 DEF OfUe
    <3>. QED
      BY <2>3, <2>6, <3>1, <3>2
  <2>13. Steady(v) => Steady(u)
    BY <2>3 DEF Steady
  <2>. QED
    BY <2>3, <2>6, <2>9, <2>10, <2>11, <2>12, <2>13 DEF w
<1>. QED
  BY <1>1, <1>2

\* What a layer draws stays when another draws.
LEMMA OthersKept ==
    ASSUME NEW v, NEW w, IsView(v), IsView(w), NEW kinds, KeepsOthers(v, w, kinds)
    PROVE  /\ \A kind : kind \notin kinds => Entities(w, kind) = Entities(v, kind)
           /\ \A kind \in UnitKind : \A map : kind \notin kinds /\ UnitsDrawn(v, kind, map) => UnitsDrawn(w, kind, map)
           /\ \A map : "scatterer" \notin kinds /\ ScsDrawn(v, map) => ScsDrawn(w, map)
           /\ \A map : "ue" \notin kinds /\ UeMap(map) /\ UesDrawn(v, map) => UesDrawn(w, map)
           /\ \A map, id : "ue-waypoint" \notin kinds /\ MarksDrawn(v, map, id) => MarksDrawn(w, map, id)
<1>1. ASSUME NEW kind, kind \notin kinds
      PROVE  Entities(w, kind) = Entities(v, kind)
  BY <1>1 DEF KeepsOthers, IsView, Entities
<1>2. ASSUME NEW map, "ue" \notin kinds, UeMap(map), UesDrawn(v, map)
      PROVE  UesDrawn(w, map)
  <2>1. Entities(w, "ue") = Entities(v, "ue")
    BY <1>1, <1>2
  <2>2. \A u \in DOMAIN map : UeEnt(u) \in Ents /\ UeEnt(u)[1] = "ue"
    BY <1>2, EntsAre DEF UeMap
  <2>. QED
    BY <1>2, <2>1, <2>2 DEF UesDrawn, KeepsOthers
<1>3. ASSUME NEW map, NEW id, "ue-waypoint" \notin kinds, MarksDrawn(v, map, id)
      PROVE  MarksDrawn(w, map, id)
  BY <1>1, <1>3 DEF MarksDrawn
<1>4. ASSUME NEW map, "scatterer" \notin kinds, ScsDrawn(v, map)
      PROVE  ScsDrawn(w, map)
  BY <1>1, <1>4 DEF ScsDrawn
<1>5. ASSUME NEW kind \in UnitKind, NEW map, kind \notin kinds, UnitsDrawn(v, kind, map)
      PROVE  UnitsDrawn(w, kind, map)
  BY <1>1, <1>5 DEF UnitsDrawn
<1>. QED
  BY <1>1, <1>2, <1>3, <1>4, <1>5

\* What is hovered turns blue, unless it is selected.
LEMMA HoveredIs ==
    ASSUME NEW v, IsView(v), v.hov = NoEntity, NEW e \in DOMAIN v.scene
    PROVE  LET w == HighlightHover(v, Ref(e, TRUE))
           IN  /\ IsView(w) /\ SameBody(v, w)
               /\ w.chosen = v.chosen /\ w.sel = v.sel
               /\ Lit(v) => Lit(w)
               /\ Follows(v) => Follows(w)
<1> DEFINE r == Ref(e, TRUE)
           w == HighlightHover(v, r)
           p == Paint(v, r, "blue")
           c == Colour(v, r)
<1>1. r \in Reference /\ r.ent = e /\ r.live /\ "blue" \in Colours /\ r # NoEntity
  <2>1. e \in Ents
    BY DEF IsView
  <2>2. r \in Reference /\ r.ent = e /\ r.live /\ "blue" \in Colours
    BY <2>1 DEF Ref, Reference, Colours
  <2>. QED
    BY <2>2, NoEntityAssumption
<1> HIDE DEF r
<1>2. CASE Same(r, v.sel)
  <2>1. w = v
    BY <1>2 DEF HighlightHover
  <2>. QED
    BY <2>1 DEF SameBody, r
<1>3. CASE ~Same(r, v.sel)
  <2>1. w = [p EXCEPT !.hov = Held(r, c)]
    BY <1>3 DEF HighlightHover, Same
  <2>2. /\ IsView(p) /\ SameBody(v, p)
        /\ p.chosen = v.chosen /\ p.hov = v.hov /\ p.sel = v.sel
        /\ \A f \in DOMAIN v.scene :
              p.scene[f].colour = IF r.live /\ f = r.ent THEN "blue" ELSE v.scene[f].colour
    BY <1>1, PaintIs
  <2>3. c \in Colours /\ c = v.scene[e].colour
    BY <1>1 DEF Colour, IsView, Look
  <2> HIDE DEF c, p
  <2>4. /\ Held(r, c) \in Holding /\ Held(r, c) # NoEntity /\ Held(r, c).ent = e
        /\ Held(r, c).live /\ Held(r, c).was = c
    <3>1. r.ent \in Ents \cup {Text} /\ r.live \in BOOLEAN
      BY <1>1 DEF Reference
    <3>2. Held(r, c) \in Holding /\ Held(r, c).ent = e /\ Held(r, c).live /\ Held(r, c).was = c
      BY <1>1, <2>3, <3>1 DEF Held, Holding
    <3>. QED
      BY <3>2, NoEntityAssumption
  <2>5. /\ IsView(w) /\ w.scene = p.scene
        /\ w.chosen = p.chosen /\ w.hov = Held(r, c) /\ w.sel = p.sel
    <3>1. e \in DOMAIN p.scene
      BY <2>2 DEF SameBody
    <3>. QED
      BY <2>1, <2>2, <2>4, <3>1, HovIs
  <2> HIDE DEF w
  <2>6. SameBody(v, w) /\ DOMAIN w.scene = DOMAIN v.scene
    BY <2>2, <2>5 DEF SameBody
  <2>7. ~Holds(v.sel, e)
    BY <1>1, <1>3 DEF Same, Holds
  <2>8. Lit(v) => c = "own"
    BY <2>3, <2>7 DEF Lit, Coloured, Holds
  <2>9. \A f : Holds(w.hov, f) <=> f = e
    BY <2>4, <2>5 DEF Holds
  <2>10. \A f : ~Holds(v.hov, f)
    BY DEF Holds
  <2>11. Lit(v) => Lit(w)
    BY <1>1, <2>2, <2>4, <2>5, <2>6, <2>7, <2>8, <2>9, <2>10 DEF Lit, Coloured
  <2>12. Follows(v) => Follows(w)
    BY <2>2, <2>5, <2>6 DEF Follows
  <2>. QED
    BY <2>2, <2>5, <2>6, <2>11, <2>12 DEF r, w
<1>. QED
  BY <1>2, <1>3

\* Both highlights are cleared before the selection changes.
LEMMA ClearedIs ==
    ASSUME NEW v, IsView(v), NEW r \in Reference \cup {NoEntity},
           r # NoEntity /\ r.live => r.ent \in DOMAIN v.scene
    PROVE  LET w == [UnhighlightSelected(UnhighlightHovered(v)) EXCEPT !.chosen = r]
           IN  /\ IsView(w) /\ SameBody(v, w)
               /\ w.chosen = r /\ w.hov = NoEntity /\ w.sel = NoEntity
               /\ Lit(v) => Lit(w)
<1> DEFINE u == UnhighlightHovered(v)
           s == UnhighlightSelected(u)
           w == [s EXCEPT !.chosen = r]
<1>1. /\ IsView(u) /\ SameBody(v, u) /\ u.hov = NoEntity
      /\ Lit(v) => Lit(u)
  BY UnhoveredIs
<1> HIDE DEF u
<1>2. /\ IsView(s) /\ SameBody(u, s)
      /\ s.hov = u.hov /\ s.sel = NoEntity
      /\ Coloured(u) => Lit(s)
  BY <1>1, UnselectedIs
<1> HIDE DEF s
<1>3. /\ IsView(w) /\ w.scene = s.scene /\ w.chosen = r /\ w.hov = s.hov /\ w.sel = s.sel
  <2>1. r # NoEntity /\ r.live => r.ent \in DOMAIN s.scene
    BY <1>1, <1>2 DEF SameBody
  <2>. QED
    BY <1>2, <2>1, ChosenIs
<1> HIDE DEF w
<1>4. SameBody(v, w)
  BY <1>1, <1>2, <1>3 DEF SameBody
<1>5. Lit(v) => Lit(w)
  BY <1>1, <1>2, <1>3 DEF Lit, Coloured
<1>. QED
  BY <1>1, <1>2, <1>3, <1>4, <1>5 DEF u, s, w

-----------------------------------------------------------------------------
(* The invariant.                                                             *)

Stores == /\ DOMAIN units = UnitKind
          /\ \A kind \in UnitKind : UnitMap(units[kind])
          /\ ScMap(scs) /\ UeMap(ues)

\* The layers have drawn what their managers hold, and the waypoints of one equipment.
Shows(v, id) ==
    /\ \A kind \in UnitKind : UnitsDrawn(v, kind, units[kind])
    /\ ScsDrawn(v, scs) /\ UesDrawn(v, ues) /\ MarksDrawn(v, ues, id)

Mirrored == viewer => Shows(view, ueId)

IdOf(r) == IF IsUe(r) THEN LastNumber(r.ent) ELSE NoEntity

\* UserEquipmentLayer has the number of the selected equipment or waypoint, and nothing is
\* drawn or selected before the map is up.
SceneInv ==
    /\ viewer \in BOOLEAN /\ late \in BOOLEAN
    /\ Stores /\ IsView(view) /\ frames \subseteq Ents /\ flights \subseteq Ents
    /\ Mirrored
    /\ ~viewer => DOMAIN view.scene = {} /\ view.chosen = NoEntity
    /\ ueId = IdOf(view.chosen)
    /\ ~late => Lit(view) /\ Follows(view)

LEMMA SceneInitially == SceneInit => SceneInv
<1> SUFFICES ASSUME SceneInit
             PROVE  SceneInv
  OBVIOUS
<1>1. Stores
  BY DEF SceneInit, Stores, UnitMap, ScMap, UeMap
<1>2. DOMAIN view.scene = {} /\ view.chosen = NoEntity /\ view.hov = NoEntity /\ view.sel = NoEntity
      /\ view = [scene |-> view.scene, chosen |-> NoEntity, hov |-> NoEntity, sel |-> NoEntity]
      /\ view.scene = <<>>
  BY DEF SceneInit
<1>3. view.scene \in [DOMAIN view.scene -> Look]
  BY <1>2
<1>4. IsView(view)
  BY <1>2, <1>3 DEF IsView
<1>5. Lit(view) /\ Follows(view)
  BY <1>2 DEF Lit, Coloured, Follows
<1>. QED
  BY <1>1, <1>2, <1>4, <1>5 DEF SceneInit, SceneInv, Mirrored, IdOf, IsUe

\* A layer that redraws, from a view that shows what this one shows.
LEMMA SetUnitsKeeps ==
    ASSUME SceneInv, NEW kind \in UnitKind, NEW map, UnitMap(map),
           NEW v, IsView(v), SameBody(view, v), IdOf(v.chosen) = ueId,
           ~viewer => v.chosen = NoEntity,
           ~late => Lit(v) /\ Follows(v),
           SetUnits(kind, map, v),
           UNCHANGED <<viewer, scs, ues, ueId, frames, flights, late>>
    PROVE  SceneInv'
<1> DEFINE w == UnitVisualize(v, kind, map)
<1>1. Redraws(v, w, {kind}) /\ UnitsDrawn(w, kind, map)
  BY UnitsAre
<1> HIDE DEF w
<1>2. Stores' /\ units'[kind] = map /\ \A k \in UnitKind \ {kind} : units'[k] = units[k]
  BY DEF SetUnits, SceneInv, Stores
<1>3. CASE viewer
  <2>1. view' = w
    BY <1>3 DEF SetUnits, w
  <2>2. KeepsOthers(view, w, {kind})
    BY <1>1 DEF Redraws, KeepsOthers, SameBody
  <2>3. IsView(view) /\ IsView(w) /\ Mirrored
    BY <1>1, <1>3 DEF Redraws, SceneInv
  <2>4. kind \notin {"ue", "ue-waypoint", "scatterer"} /\ UeMap(ues)
    BY EntsAre DEF SceneInv, Stores
  <2>5. \A k \in UnitKind \ {kind} : UnitsDrawn(w, k, units[k])
    BY <1>3, <2>2, <2>3, OthersKept DEF Mirrored, Shows
  <2>6. ScsDrawn(w, scs) /\ UesDrawn(w, ues) /\ MarksDrawn(w, ues, ueId)
    BY <1>3, <2>2, <2>3, <2>4, OthersKept DEF Mirrored, Shows
  <2>7. Mirrored'
    BY <1>1, <1>2, <2>1, <2>5, <2>6 DEF Mirrored, Shows
  <2>8. IdOf(w.chosen) = ueId
    BY <1>1 DEF Redraws, IdOf, IsUe
  <2>9. ~late => Lit(w) /\ Follows(w)
    BY <1>1 DEF Redraws
  <2>. QED
    BY <1>2, <1>3, <2>1, <2>3, <2>7, <2>8, <2>9 DEF SceneInv
<1>4. CASE ~viewer
  <2>1. view' = v
    BY <1>4 DEF SetUnits
  <2>. QED
    BY <1>2, <1>4, <2>1 DEF SceneInv, SameBody, Mirrored
<1>. QED
  BY <1>3, <1>4

\* A change of the highlights alone.
LEMMA LooksKeep ==
    ASSUME SceneInv, UNCHANGED <<viewer, storeVars, ueId>>,
           IsView(view'), SameBody(view, view'), view'.chosen = view.chosen,
           frames' \subseteq Ents, flights' \subseteq Ents, late' \in BOOLEAN,
           ~late' => Lit(view') /\ Follows(view')
    PROVE  SceneInv'
<1>1. KeepsOthers(view, view', {})
  BY DEF KeepsOthers, SameBody
<1>2. Mirrored'
  <2> SUFFICES ASSUME viewer
               PROVE  Mirrored'
    BY DEF Mirrored
  <2>1. IsView(view) /\ Mirrored /\ UeMap(ues)
    BY DEF SceneInv, Stores
  <2>2. \A kind \in UnitKind : UnitsDrawn(view', kind, units[kind])
    BY <1>1, <2>1, OthersKept DEF Mirrored, Shows
  <2>3. ScsDrawn(view', scs) /\ UesDrawn(view', ues) /\ MarksDrawn(view', ues, ueId)
    BY <1>1, <2>1, OthersKept DEF Mirrored, Shows
  <2>. QED
    BY <2>2, <2>3 DEF Mirrored, Shows, storeVars
<1>. QED
  BY <1>2 DEF SceneInv, Stores, SameBody, storeVars

\* The store's selection, through the layer that draws the waypoints of whoever is
\* selected.
LEMMA SetSelectedKeeps ==
    ASSUME SceneInv, NEW r \in Reference \cup {NoEntity},
           r # NoEntity => viewer /\ r.live /\ r.ent \in DOMAIN view.scene,
           SetSelectedObject(view, r),
           UNCHANGED <<viewer, storeVars, flights, late>>
    PROVE  SceneInv'
<1> DEFINE id == IF IsUe(r) THEN LastNumber(r.ent) ELSE NoEntity
           v1 == [Selecting(view, r) EXCEPT !.chosen = r]
           v2 == IF id # ueId THEN UeVisualize(v1, ues, id) ELSE v1
<1>0. /\ ueId' = id /\ id = IdOf(r)
      /\ view' = IF r = NoEntity THEN v2 ELSE HighlightSelection(v2, v2.chosen)
      /\ frames' \subseteq frames \cup (IF r = NoEntity THEN {} ELSE {r.ent})
  <2>1. /\ ueId' = id
        /\ view' = IF r = NoEntity THEN v2 ELSE HighlightSelection(v2, v2.chosen)
        /\ frames' = IF IsUe(r) /\ ~(IsUe(view.chosen) /\ view.chosen.ent = r.ent)
                     THEN frames \cup {r.ent} ELSE frames
    BY DEF SetSelectedObject
  <2> HIDE DEF v2
  <2>. QED
    BY <2>1 DEF IdOf, IsUe
<1>2. /\ IsView(v1) /\ SameBody(view, v1)
      /\ v1.chosen = r /\ v1.hov = NoEntity /\ v1.sel = NoEntity
      /\ ~late => Lit(v1)
  <2>1. IsView(view) /\ (~late => Lit(view))
    BY DEF SceneInv
  <2>. QED
    BY <2>1, ClearedIs DEF Selecting
<1> HIDE DEF id
<1> HIDE DEF v1
<1>3. /\ IsView(v2) /\ v2.hov = NoEntity
      /\ viewer => Shows(v2, id)
      /\ ~viewer => DOMAIN v2.scene = {}
      /\ v2.chosen = NoEntity <=> r = NoEntity
      /\ r # NoEntity => v2.chosen.ent = r.ent
      /\ ~late => Lit(v2)
      /\ \A e \in DOMAIN v2.scene : r # NoEntity /\ r.ent = e /\ OfUe(e) => v2.chosen.live
      /\ r = NoEntity => v2.sel = NoEntity
  <2>1. KeepsOthers(view, v1, {})
    BY <1>2 DEF KeepsOthers, SameBody
  <2>2. IsView(view) /\ UeMap(ues) /\ Mirrored
    BY DEF SceneInv, Stores
  <2>3. CASE id = ueId
    <3>1. v2 = v1
      BY <2>3
    <3> HIDE DEF v2
    <3>2. viewer => Shows(v1, ueId)
      <4>1. viewer => \A kind \in UnitKind : UnitsDrawn(v1, kind, units[kind])
        BY <1>2, <2>1, <2>2, OthersKept DEF Mirrored, Shows
      <4>2. viewer => ScsDrawn(v1, scs) /\ UesDrawn(v1, ues) /\ MarksDrawn(v1, ues, ueId)
        BY <1>2, <2>1, <2>2, OthersKept DEF Mirrored, Shows
      <4>. QED
        BY <4>1, <4>2 DEF Mirrored, Shows
    <3>3. viewer => Shows(v1, id)
      BY <2>3, <3>2
    <3>4. ~viewer => DOMAIN v1.scene = {}
      BY <1>2 DEF SceneInv, SameBody
    <3>. QED
      BY <1>2, <3>1, <3>3, <3>4
  <2>4. CASE id # ueId
    <3>1. v2 = UeVisualize(v1, ues, id)
      BY <2>4
    <3> HIDE DEF v2
    <3> DEFINE w == UeVisualize(v1, ues, id)
    <3>2. /\ IsView(w) /\ KeepsOthers(v1, w, {"ue", "ue-waypoint"})
          /\ w.chosen = NoEntity <=> v1.chosen = NoEntity
          /\ v1.chosen # NoEntity => w.chosen.ent = v1.chosen.ent
          /\ w.hov = NoEntity <=> v1.hov = NoEntity
          /\ \A e \in DOMAIN w.scene :
                Holds(v1.chosen, e) /\ e[1] # "ue-waypoint" => Holds(w.chosen, e)
          /\ UesDrawn(w, ues) /\ MarksDrawn(w, ues, id)
          /\ Lit(v1) /\ Steady(v1) => Lit(w)
          /\ Follows(v1) => Follows(w)
      BY <1>2, <2>2, UesAre
    <3> HIDE DEF w
    <3>3. viewer
      BY <1>0, <2>4 DEF SceneInv, IdOf, IsUe
    <3>4. KeepsOthers(view, w, {"ue", "ue-waypoint"})
      BY <2>1, <3>2 DEF KeepsOthers
    <3>5. Shows(w, id)
      <4>1. \A kind \in UnitKind : UnitsDrawn(w, kind, units[kind])
        BY <2>2, <3>2, <3>3, <3>4, OthersKept, EntsAre DEF Mirrored, Shows
      <4>2. ScsDrawn(w, scs)
        BY <2>2, <3>2, <3>3, <3>4, OthersKept DEF Mirrored, Shows
      <4>. QED
        BY <3>2, <4>1, <4>2 DEF Shows
    <3>6. ASSUME NEW e \in DOMAIN w.scene, r # NoEntity, r.ent = e, OfUe(e)
          PROVE  w.chosen.live
      <4>1. e \in DOMAIN view.scene /\ e \in Ents /\ r.live
        BY <2>2, <3>6 DEF IsView
      <4>2. CASE e[1] = "ue-waypoint"
        <5>1. e \in Entities(view, "ue-waypoint") /\ e \in Entities(w, "ue-waypoint")
          BY <4>1, <4>2 DEF Entities
        <5>2. e[2] = ueId
          BY <2>2, <3>3, <4>1, <5>1, EntsAre DEF Mirrored, Shows, MarksDrawn
        <5>3. e[2] = id
          BY <3>2, <4>1, <5>1, EntsAre DEF MarksDrawn
        <5>. QED
          BY <2>4, <5>2, <5>3
      <4>3. CASE e[1] # "ue-waypoint"
        BY <1>2, <3>2, <3>6, <4>1, <4>3 DEF Holds
      <4>. QED
        BY <4>2, <4>3
    <3>7. r = NoEntity => w.sel = NoEntity
      <4>1. r = NoEntity => Follows(v1)
        BY <1>2 DEF Follows, Holds
      <4>. QED
        BY <1>2, <3>2, <4>1 DEF Follows
    <3>8. ~late => Lit(w)
      BY <1>2, <3>2 DEF Steady
    <3>. QED
      BY <1>2, <3>1, <3>2, <3>3, <3>5, <3>6, <3>7, <3>8 DEF w
  <2>. QED
    BY <2>3, <2>4
<1> HIDE DEF v2
<1>4. CASE r = NoEntity
  <2>1. view' = v2
    BY <1>0, <1>4
  <2>2. Follows(v2)
    BY <1>3, <1>4 DEF Follows, Holds
  <2>3. IdOf(v2.chosen) = id
    BY <1>0, <1>3, <1>4 DEF IdOf, IsUe
  <2>. QED
    BY <1>0, <1>3, <1>4, <2>1, <2>2, <2>3 DEF SceneInv, Stores, storeVars, Mirrored, Shows
<1>5. CASE r # NoEntity
  <2> DEFINE c == v2.chosen
             w == HighlightSelection(v2, c)
  <2>1. view' = w
    BY <1>0, <1>5
  <2>2. c \in Reference /\ c # NoEntity /\ c.ent = r.ent /\ (c.live => c.ent \in DOMAIN v2.scene)
    BY <1>3, <1>5 DEF IsView
  <2>3. /\ IsView(w) /\ SameBody(v2, w)
        /\ w.chosen = v2.chosen /\ w.hov = v2.hov
        /\ w.sel # NoEntity /\ w.sel.ent = c.ent /\ w.sel.live = c.live
        /\ /\ Coloured(v2) /\ (c.live => ~Holds(v2.hov, c.ent))
           /\ Same(c, v2.sel) /\ c.live => c.ent[1] = "ue" \/ v2.scene[c.ent].colour = "green"
           => Lit(w)
    BY <1>3, <2>2, SelectedIs
  <2> HIDE DEF w
  <2>4. ~late => Lit(w)
    <3>1. ~Holds(v2.hov, c.ent)
      BY <1>3 DEF Holds
    <3>2. ~late /\ Same(c, v2.sel) /\ c.live => v2.scene[c.ent].colour = "green"
      BY <1>3, <2>2 DEF Lit, Same, Holds
    <3>. QED
      BY <1>3, <2>3, <3>1, <3>2 DEF Lit
  <2>5. Follows(w)
    BY <1>3, <2>2, <2>3 DEF Follows, Holds, SameBody
  <2>6. KeepsOthers(v2, w, {})
    BY <2>3 DEF KeepsOthers, SameBody
  <2>7. viewer /\ Shows(w, id)
    <3>1. /\ UeMap(ues)
          /\ \A kind \in UnitKind : UnitsDrawn(v2, kind, units[kind])
          /\ ScsDrawn(v2, scs) /\ UesDrawn(v2, ues) /\ MarksDrawn(v2, ues, id)
      BY <1>0, <1>3, <1>5 DEF Mirrored, Shows, SceneInv, Stores, storeVars
    <3>2. \A kind \in UnitKind : UnitsDrawn(w, kind, units[kind])
      BY <1>3, <2>3, <2>6, <3>1, OthersKept
    <3>3. ScsDrawn(w, scs) /\ UesDrawn(w, ues) /\ MarksDrawn(w, ues, id)
      BY <1>3, <2>3, <2>6, <3>1, OthersKept
    <3>. QED
      BY <1>5, <3>2, <3>3 DEF Shows
  <2>8. IdOf(w.chosen) = id
    BY <1>0, <1>5, <2>2, <2>3 DEF IdOf, IsUe
  <2>9. frames' \subseteq Ents
    BY <1>0, <1>5 DEF SceneInv, IsView
  <2>. QED
    BY <1>0, <1>5, <2>1, <2>3, <2>4, <2>5, <2>7, <2>8, <2>9 DEF SceneInv, Stores, storeVars, Mirrored, Shows
<1>. QED
  BY <1>4, <1>5

-----------------------------------------------------------------------------
(* The actions.                                                               *)

LEMMA ReadyKeeps == SceneInv /\ ViewerReady => SceneInv'
<1> SUFFICES ASSUME SceneInv, ViewerReady
             PROVE  SceneInv'
  OBVIOUS
<1> DEFINE v1 == IF "ru" \in UnitKind THEN UnitVisualize(view, "ru", units["ru"]) ELSE view
           v2 == IF "du" \in UnitKind THEN UnitVisualize(v1, "du", units["du"]) ELSE v1
           v3 == ScVisualize(v2, scs)
           v4 == UeVisualize(v3, ues, ueId)
<1>1. viewer' /\ view' = v4 /\ UNCHANGED <<storeVars, ueId, loopVars>>
  BY DEF ViewerReady
<1>2. /\ Stores /\ ScMap(scs) /\ UeMap(ues) /\ \A kind \in UnitKind : UnitMap(units[kind])
      /\ IsView(view) /\ view.chosen = NoEntity /\ ueId = NoEntity
      /\ ~late => Lit(view) /\ Follows(view)
  BY DEF SceneInv, Stores, ViewerReady, IdOf, IsUe
<1>3. /\ IsView(v1) /\ v1.chosen = NoEntity
      /\ "ru" \in UnitKind => UnitsDrawn(v1, "ru", units["ru"])
      /\ ~late => Lit(v1) /\ Follows(v1)
  <2>1. CASE "ru" \in UnitKind
    BY <1>2, <2>1, UnitsAre DEF Redraws
  <2>2. CASE "ru" \notin UnitKind
    BY <1>2, <2>2
  <2>. QED
    BY <2>1, <2>2
<1> HIDE DEF v1
<1>4. /\ IsView(v2) /\ v2.chosen = NoEntity
      /\ \A kind \in UnitKind : UnitsDrawn(v2, kind, units[kind])
      /\ ~late => Lit(v2) /\ Follows(v2)
  <2>1. CASE "du" \in UnitKind
    <3> DEFINE w == UnitVisualize(v1, "du", units["du"])
    <3>1. Redraws(v1, w, {"du"}) /\ UnitsDrawn(w, "du", units["du"])
      BY <1>2, <1>3, <2>1, UnitsAre
    <3> HIDE DEF w
    <3>2. "ru" \in UnitKind => UnitsDrawn(w, "ru", units["ru"])
      BY <1>3, <3>1, OthersKept DEF Redraws
    <3>3. v2 = w
      BY <2>1 DEF w
    <3>. QED
      BY <1>3, <3>1, <3>2, <3>3, UnitKindAssumption DEF Redraws
  <2>2. CASE "du" \notin UnitKind
    BY <1>3, <2>2, UnitKindAssumption
  <2>. QED
    BY <2>1, <2>2
<1> HIDE DEF v2
<1>5. Redraws(v2, v3, {"scatterer"}) /\ ScsDrawn(v3, scs)
  BY <1>2, <1>4, ScsAre
<1> HIDE DEF v3
<1>6. \A kind \in UnitKind : UnitsDrawn(v3, kind, units[kind])
  BY <1>4, <1>5, OthersKept, EntsAre DEF Redraws
<1>7. IsView(v3) /\ v3.chosen = NoEntity /\ (~late => Lit(v3) /\ Follows(v3))
  BY <1>4, <1>5 DEF Redraws
<1>8. /\ IsView(v4) /\ KeepsOthers(v3, v4, {"ue", "ue-waypoint"})
      /\ v4.chosen = NoEntity
      /\ UesDrawn(v4, ues) /\ MarksDrawn(v4, ues, ueId)
      /\ Lit(v3) /\ Steady(v3) => Lit(v4)
      /\ Follows(v3) => Follows(v4)
  BY <1>2, <1>7, UesAre
<1> HIDE DEF v4
<1>9. Shows(v4, ueId)
  <2>1. \A kind \in UnitKind : UnitsDrawn(v4, kind, units[kind])
    BY <1>6, <1>7, <1>8, OthersKept, EntsAre
  <2>2. ScsDrawn(v4, scs)
    BY <1>5, <1>7, <1>8, OthersKept
  <2>. QED
    BY <1>8, <2>1, <2>2 DEF Shows
<1>10. ~late => Lit(v4) /\ Follows(v4)
  BY <1>7, <1>8 DEF Steady
<1>. QED
  BY <1>1, <1>2, <1>8, <1>9, <1>10
  DEF SceneInv, Stores, Mirrored, Shows, storeVars, loopVars, IdOf, IsUe

LEMMA UnitsKeep ==
    ASSUME SceneInv, NEW kind \in UnitKind
    PROVE  /\ PlaceUnit(kind) => SceneInv'
           /\ \A k \in DOMAIN units[kind] : RemoveUnit(kind, k) => SceneInv'
           /\ \A k \in DOMAIN units[kind], n \in Key : RenameUnit(kind, k, n) => SceneInv'
           /\ \A ids \in SUBSET Key : LoadUnits(kind, ids) => SceneInv'
<1>0. /\ UnitMap(units[kind]) /\ IsView(view) /\ IdOf(view.chosen) = ueId
      /\ ~viewer => view.chosen = NoEntity
      /\ ~late => Lit(view) /\ Follows(view)
      /\ SameBody(view, view)
  BY DEF SceneInv, Stores, SameBody
<1>1. ASSUME PlaceUnit(kind)
      PROVE  SceneInv'
  <2> DEFINE ks == DOMAIN units[kind]
             new == IF ks = {} THEN 0 ELSE 1 + CHOOSE i \in ks : \A j \in ks : j <= i
             map == [i \in ks \cup {new} |-> IF i = new THEN new ELSE units[kind][i]]
  <2>1. /\ new \in Key /\ SetUnits(kind, map, view)
        /\ UNCHANGED <<viewer, scs, ues, ueId, frames, flights, late>>
    BY <1>1 DEF PlaceUnit
  <2> HIDE DEF new
  <2>2. UnitMap(map)
    BY <1>0, <2>1 DEF UnitMap
  <2> HIDE DEF map
  <2>. QED
    BY <1>0, <2>1, <2>2, SetUnitsKeeps
<1>2. ASSUME NEW k \in DOMAIN units[kind], RemoveUnit(kind, k)
      PROVE  SceneInv'
  <2> DEFINE id == units[kind][k]
             v == IF kind = "ru" /\ view.chosen # NoEntity /\ view.chosen.ent = UnitEnt(kind, id)
                  THEN [UnhighlightSelected(UnhighlightHovered(view)) EXCEPT !.chosen = NoEntity]
                  ELSE view
             map == [i \in DOMAIN units[kind] \ {id} |-> units[kind][i]]
  <2>1. SetUnits(kind, map, v) /\ UNCHANGED <<viewer, scs, ues, ueId, frames, flights, late>>
    BY <1>2 DEF RemoveUnit, loopVars
  <2>2. UnitMap(map)
    BY <1>0 DEF UnitMap
  <2> HIDE DEF map
  <2>3. /\ IsView(v) /\ SameBody(view, v) /\ IdOf(v.chosen) = ueId
        /\ ~viewer => v.chosen = NoEntity
        /\ ~late => Lit(v) /\ Follows(v)
    <3>1. CASE kind = "ru" /\ view.chosen # NoEntity /\ view.chosen.ent = UnitEnt(kind, id)
      <4> DEFINE w == [UnhighlightSelected(UnhighlightHovered(view)) EXCEPT !.chosen = NoEntity]
      <4>1. v = w
        BY <3>1
      <4>2. /\ IsView(w) /\ SameBody(view, w)
            /\ w.chosen = NoEntity /\ w.hov = NoEntity /\ w.sel = NoEntity
            /\ Lit(view) => Lit(w)
        BY <1>0, ClearedIs
      <4> HIDE DEF w
      <4>3. ~IsUe(view.chosen)
        BY <3>1, EntsAre DEF IsUe, OfUe
      <4>4. IdOf(w.chosen) = ueId
        BY <1>0, <4>2, <4>3 DEF IdOf, IsUe
      <4>5. Follows(w)
        BY <4>2 DEF Follows, Holds
      <4>. QED
        BY <1>0, <4>1, <4>2, <4>4, <4>5
    <3>2. CASE ~(kind = "ru" /\ view.chosen # NoEntity /\ view.chosen.ent = UnitEnt(kind, id))
      BY <1>0, <3>2
    <3>. QED
      BY <3>1, <3>2
  <2> HIDE DEF v
  <2>. QED
    BY <2>1, <2>2, <2>3, SetUnitsKeeps
<1>3. ASSUME NEW k \in DOMAIN units[kind], NEW n \in Key, RenameUnit(kind, k, n)
      PROVE  SceneInv'
  <2> DEFINE id == units[kind][k]
             map == [units[kind] EXCEPT ![id] = n]
  <2>1. SetUnits(kind, map, view) /\ UNCHANGED <<viewer, scs, ues, ueId, frames, flights, late>>
    BY <1>3 DEF RenameUnit, loopVars
  <2>2. UnitMap(map)
    BY <1>0 DEF UnitMap
  <2> HIDE DEF map
  <2>. QED
    BY <1>0, <2>1, <2>2, SetUnitsKeeps
<1>4. ASSUME NEW ids \in SUBSET Key, LoadUnits(kind, ids)
      PROVE  SceneInv'
  <2> DEFINE map == [i \in ids |-> i]
  <2>1. SetUnits(kind, map, view) /\ UNCHANGED <<viewer, scs, ues, ueId, frames, flights, late>>
    BY <1>4 DEF LoadUnits, loopVars
  <2>2. UnitMap(map)
    BY DEF UnitMap
  <2> HIDE DEF map
  <2>. QED
    BY <1>0, <2>1, <2>2, SetUnitsKeeps
<1>. QED
  BY <1>1, <1>2, <1>3, <1>4

LEMMA ScatterersKeep ==
    ASSUME SceneInv, NEW map, ScMap(map), LoadScatterers(map)
    PROVE  SceneInv'
<1> DEFINE w == ScVisualize(view, map)
<1>1. /\ scs' = map /\ view' = (IF viewer THEN w ELSE view)
      /\ UNCHANGED <<viewer, units, ues, ueId, frames, flights, late>>
  BY DEF LoadScatterers, loopVars
<1>2. IsView(view) /\ UeMap(ues)
  BY DEF SceneInv, Stores
<1>3. Redraws(view, w, {"scatterer"}) /\ ScsDrawn(w, map)
  BY <1>2, ScsAre
<1> HIDE DEF w
<1>4. viewer => /\ \A kind \in UnitKind : UnitsDrawn(w, kind, units[kind])
                /\ UesDrawn(w, ues) /\ MarksDrawn(w, ues, ueId)
  <2>1. viewer => \A kind \in UnitKind : UnitsDrawn(w, kind, units[kind])
    BY <1>2, <1>3, OthersKept, EntsAre DEF SceneInv, Mirrored, Shows, Redraws
  <2>2. viewer => UesDrawn(w, ues) /\ MarksDrawn(w, ues, ueId)
    BY <1>2, <1>3, OthersKept DEF SceneInv, Mirrored, Shows, Redraws
  <2>. QED
    BY <2>1, <2>2
<1>5. viewer => IdOf(w.chosen) = ueId
  BY <1>3 DEF Redraws, IdOf, IsUe, SceneInv
<1>. QED
  BY <1>1, <1>3, <1>4, <1>5 DEF SceneInv, Stores, Mirrored, Shows, Redraws

LEMMA UesKeep ==
    ASSUME SceneInv, NEW map, UeMap(map), SetUes(map)
    PROVE  SceneInv'
<1> DEFINE w == UeVisualize(view, map, ueId)
<1>1. /\ ues' = map /\ view' = (IF viewer THEN w ELSE view)
      /\ UNCHANGED <<viewer, units, scs, ueId, frames, flights, late>>
  BY DEF SetUes, loopVars
<1>2. IsView(view)
  BY DEF SceneInv
<1>3. /\ IsView(w) /\ KeepsOthers(view, w, {"ue", "ue-waypoint"})
      /\ w.chosen = NoEntity <=> view.chosen = NoEntity
      /\ view.chosen # NoEntity => w.chosen.ent = view.chosen.ent
      /\ UesDrawn(w, map) /\ MarksDrawn(w, map, ueId)
      /\ Lit(view) /\ Steady(view) => Lit(w)
      /\ Follows(view) => Follows(w)
  BY <1>2, UesAre
<1> HIDE DEF w
<1>4. viewer => /\ \A kind \in UnitKind : UnitsDrawn(w, kind, units[kind])
                /\ ScsDrawn(w, scs)
  BY <1>2, <1>3, OthersKept, EntsAre DEF SceneInv, Mirrored, Shows
<1>5. viewer => IdOf(w.chosen) = ueId
  BY <1>3 DEF IdOf, IsUe, SceneInv
<1>. QED
  BY <1>1, <1>3, <1>4, <1>5 DEF SceneInv, Stores, Mirrored, Shows, Steady

LEMMA NamedIs ==
    ASSUME SceneInv, NEW e
    PROVE  LET r == Named(view, e)
           IN  /\ r \in Reference \cup {NoEntity}
               /\ r # NoEntity => viewer /\ r.live /\ r.ent \in DOMAIN view.scene
<1>1. CASE e \in DOMAIN view.scene
  <2>1. e \in Ents /\ viewer
    BY <1>1 DEF SceneInv, IsView
  <2>. QED
    BY <1>1, <2>1 DEF Named, Ref, Reference
<1>2. CASE e \notin DOMAIN view.scene
  BY <1>2 DEF Named
<1>. QED
  BY <1>1, <1>2

LEMMA SelectionKeeps ==
    ASSUME SceneInv
    PROVE  /\ \A e : PlacedTimer(e) => SceneInv'
           /\ \A e : Select(e) => SceneInv'
           /\ Deselect => SceneInv'
<1>1. ASSUME NEW e, PlacedTimer(e)
      PROVE  SceneInv'
  <2> DEFINE r == Named(view, e)
  <2>1. SetSelectedObject(view, r) /\ UNCHANGED <<viewer, storeVars, flights, late>>
    BY <1>1 DEF PlacedTimer
  <2>2. /\ r \in Reference \cup {NoEntity}
        /\ r # NoEntity => viewer /\ r.live /\ r.ent \in DOMAIN view.scene
    BY NamedIs
  <2> HIDE DEF r
  <2>. QED
    BY <2>1, <2>2, SetSelectedKeeps
<1>2. ASSUME NEW e, Select(e)
      PROVE  SceneInv'
  <2> DEFINE r == Ref(e, TRUE)
  <2>1. /\ SetSelectedObject(view, r) /\ UNCHANGED <<viewer, storeVars, flights, late>>
        /\ viewer /\ e \in DOMAIN view.scene
    BY <1>2 DEF Select
  <2>2. r \in Reference /\ r.live /\ r.ent = e
    <3>1. e \in Ents
      BY <2>1 DEF SceneInv, IsView
    <3>. QED
      BY <3>1 DEF Ref, Reference
  <2> HIDE DEF r
  <2>. QED
    BY <2>1, <2>2, SetSelectedKeeps
<1>3. ASSUME Deselect
      PROVE  SceneInv'
  <2>1. SetSelectedObject(view, NoEntity) /\ UNCHANGED <<viewer, storeVars, flights, late>>
    BY <1>3 DEF Deselect
  <2>. QED
    BY <2>1, SetSelectedKeeps
<1>. QED
  BY <1>1, <1>2, <1>3

LEMMA LooksKept ==
    ASSUME SceneInv
    PROVE  /\ \A e : Hover(e) => SceneInv'
           /\ ClearHover => SceneInv'
           /\ \A e \in frames : Frame(e) => SceneInv'
           /\ \A e \in Ents : ZoomTo(e) => SceneInv'
           /\ \A e \in flights : FlightEnds(e) => SceneInv'
<1> DEFINE u == UnhighlightHovered(view)
<1>0. /\ IsView(view) /\ frames \subseteq Ents /\ flights \subseteq Ents /\ late \in BOOLEAN
      /\ ~late => Lit(view) /\ Follows(view)
  BY DEF SceneInv
<1>1. /\ IsView(u) /\ SameBody(view, u) /\ u.hov = NoEntity
      /\ u.chosen = view.chosen
      /\ Lit(view) => Lit(u)
      /\ Follows(view) => Follows(u)
  BY <1>0, UnhoveredIs
<1> HIDE DEF u
<1>2. ASSUME NEW e, Hover(e)
      PROVE  SceneInv'
  <2> DEFINE w == HighlightHover(u, Ref(e, TRUE))
  <2>1. view' = w /\ e \in DOMAIN view.scene /\ UNCHANGED <<viewer, storeVars, ueId, frames, flights, late>>
    BY <1>2 DEF Hover, loopVars, u
  <2>2. e \in DOMAIN u.scene
    BY <1>1, <2>1 DEF SameBody
  <2>3. /\ IsView(w) /\ SameBody(u, w)
        /\ w.chosen = u.chosen
        /\ Lit(u) => Lit(w)
        /\ Follows(u) => Follows(w)
    BY <1>1, <2>2, HoveredIs
  <2> HIDE DEF w
  <2>4. SameBody(view, w)
    BY <1>1, <2>3 DEF SameBody
  <2>. QED
    BY <1>0, <1>1, <2>1, <2>3, <2>4, LooksKeep
<1>3. ASSUME ClearHover
      PROVE  SceneInv'
  <2>1. view' = u /\ UNCHANGED <<viewer, storeVars, ueId, frames, flights, late>>
    BY <1>3 DEF ClearHover, loopVars, u
  <2>. QED
    BY <1>0, <1>1, <2>1, LooksKeep
<1>4. ASSUME NEW e \in frames, Frame(e)
      PROVE  SceneInv'
  <2> DEFINE r == Ref(e, TRUE)
             w == HighlightSelection(view, r)
  <2>1. /\ view' = IF e \in DOMAIN view.scene THEN w ELSE view
        /\ late' = (late \/ (e \in DOMAIN view.scene /\ ~(IsUe(view.chosen) /\ view.chosen.ent = e)))
        /\ frames' \subseteq Ents /\ UNCHANGED <<viewer, storeVars, ueId, flights>>
    BY <1>0, <1>4 DEF Frame
  <2>2. r \in Reference /\ r.ent = e /\ r.live
    BY <1>0 DEF Ref, Reference
  <2> HIDE DEF r
  <2>3. CASE e \notin DOMAIN view.scene
    BY <1>0, <2>1, <2>3, LooksKeep DEF SameBody
  <2>4. CASE e \in DOMAIN view.scene
    <3>1. /\ IsView(w) /\ SameBody(view, w)
          /\ w.chosen = view.chosen /\ w.hov = view.hov
          /\ w.sel # NoEntity /\ w.sel.ent = r.ent /\ w.sel.live = r.live
          /\ /\ Coloured(view) /\ (r.live => ~Holds(view.hov, r.ent))
             /\ Same(r, view.sel) /\ r.live => r.ent[1] = "ue" \/ view.scene[r.ent].colour = "green"
             => Lit(w)
      BY <1>0, <2>2, <2>4, SelectedIs
    <3> HIDE DEF w
    <3>2. ASSUME ~late'
          PROVE  Lit(w) /\ Follows(w)
      <4>1. ~late /\ IsUe(view.chosen) /\ view.chosen.ent = e
        BY <2>1, <2>4, <3>2
      <4>2. Holds(view.sel, e)
        BY <1>0, <2>4, <4>1 DEF Follows, IsUe
      <4>3. ~Holds(view.hov, e) /\ view.scene[e].colour = "green"
        BY <1>0, <2>4, <4>1, <4>2 DEF Lit, Coloured
      <4>4. Lit(w)
        BY <1>0, <2>2, <3>1, <4>1, <4>3 DEF Lit
      <4>5. Follows(w)
        BY <2>2, <3>1, <4>1 DEF Follows, Holds, IsUe
      <4>. QED
        BY <4>4, <4>5
    <3>. QED
      BY <1>0, <2>1, <2>4, <3>1, <3>2, LooksKeep
  <2>. QED
    BY <2>3, <2>4
<1>5. ASSUME NEW e \in Ents, ZoomTo(e)
      PROVE  SceneInv'
  <2>1. flights' = {e} /\ UNCHANGED <<viewer, storeVars, view, ueId, frames, late>>
    BY <1>5 DEF ZoomTo
  <2>. QED
    BY <1>0, <2>1, LooksKeep DEF SameBody
<1>6. ASSUME NEW e \in flights, FlightEnds(e)
      PROVE  SceneInv'
  <2> DEFINE r == Ref(Text, FALSE)
             w == HighlightSelection(view, r)
  <2>1. /\ view' = w /\ late' /\ late' \in BOOLEAN /\ flights' \subseteq Ents
        /\ UNCHANGED <<viewer, storeVars, ueId, frames>>
    BY <1>0, <1>6 DEF FlightEnds
  <2>2. r \in Reference /\ ~r.live
    BY DEF Ref, Reference
  <2> HIDE DEF r
  <2>3. IsView(w) /\ SameBody(view, w) /\ w.chosen = view.chosen
    BY <1>0, <2>2, SelectedIs
  <2> HIDE DEF w
  <2>. QED
    BY <1>0, <2>1, <2>3, LooksKeep
<1>. QED
  BY <1>2, <1>3, <1>4, <1>5, <1>6

LEMMA SceneStep == SceneInv /\ [SceneNext]_sceneVars => SceneInv'
<1> SUFFICES ASSUME SceneInv, [SceneNext]_sceneVars
             PROVE  SceneInv'
  OBVIOUS
<1>0. Stores
  BY DEF SceneInv
<1>1. ASSUME NEW ids \in SUBSET Sc, NEW t \in Token, LoadScatterers([i \in ids |-> t])
      PROVE  SceneInv'
  <2>1. ScMap([i \in ids |-> t])
    BY DEF ScMap
  <2>. QED
    BY <1>1, <2>1, ScatterersKeep
<1>2. ASSUME NEW us \in SUBSET Ue, NEW t \in Token, LoadUes(us, t)
      PROVE  SceneInv'
  <2> DEFINE map == [u \in us |-> [at |-> t, marks |-> Mark]]
  <2>1. UeMap(map) /\ SetUes(map)
    BY <1>2 DEF UeMap, LoadUes
  <2> HIDE DEF map
  <2>. QED
    BY <2>1, UesKeep
<1>3. ASSUME NEW u \in DOMAIN ues, NEW t \in Token \cup {Nowhere}, NEW marks \in SUBSET Mark,
             UpdateUe(u, t, marks)
      PROVE  SceneInv'
  <2> DEFINE map == [ues EXCEPT ![u] = [at |-> t, marks |-> marks]]
  <2>1. UeMap(map) /\ SetUes(map)
    BY <1>0, <1>3 DEF Stores, UeMap, UpdateUe
  <2> HIDE DEF map
  <2>. QED
    BY <2>1, UesKeep
<1>4. ASSUME NEW u \in DOMAIN ues, RemoveUe(u)
      PROVE  SceneInv'
  <2> DEFINE map == [w \in DOMAIN ues \ {u} |-> ues[w]]
  <2>1. UeMap(map) /\ SetUes(map)
    BY <1>0, <1>4 DEF Stores, UeMap, RemoveUe
  <2> HIDE DEF map
  <2>. QED
    BY <2>1, UesKeep
<1>5. ASSUME UNCHANGED sceneVars
      PROVE  SceneInv'
  BY <1>5, LooksKeep DEF sceneVars, storeVars, loopVars, SceneInv, SameBody
<1>6. CASE SceneNext
  BY <1>1, <1>2, <1>3, <1>4, <1>6, ReadyKeeps, UnitsKeep, SelectionKeeps, LooksKept
  DEF SceneNext
<1>. QED
  BY <1>5, <1>6

-----------------------------------------------------------------------------
(* The theorems.                                                              *)

\* What the layers have drawn is what the managers hold, every reference to an entity in
\* the scene is good, and as long as no frame came too late and no flight ended, the
\* highlights are given their colours back and follow the selection.
THEOREM SceneInductive == SceneSpec => []SceneInv
<1>1. SceneInit => SceneInv
  BY SceneInitially
<1>2. SceneInv /\ [SceneNext]_sceneVars => SceneInv'
  BY SceneStep
<1>. QED
  BY <1>1, <1>2, PTL DEF SceneSpec

\* The scene, the store's selection and the highlight manager's data have their types, and
\* a live reference is to an entity in the scene.
THEOREM SceneTypeCorrect == SceneSpec => []SceneTypeOK
<1>1. SceneInv => SceneTypeOK
  <2> SUFFICES ASSUME SceneInv
               PROVE  SceneTypeOK
    OBVIOUS
  <2>1. IsView(view) /\ Stores /\ ueId = IdOf(view.chosen)
    BY DEF SceneInv
  <2>2. ueId \in Ue \cup Mark \cup {NoEntity}
    <3>1. CASE IsUe(view.chosen)
      <4>1. view.chosen.ent \in Ents
        BY <2>1, <3>1, EntsAre DEF IsUe, IsView, Reference
      <4>. QED
        BY <2>1, <3>1, <4>1, EntsAre DEF IdOf, IsUe, OfUe, LastNumber
    <3>2. CASE ~IsUe(view.chosen)
      BY <2>1, <3>2 DEF IdOf
    <3>. QED
      BY <3>1, <3>2
  <2>3. \A e \in DOMAIN view.scene :
           /\ e \in Ents /\ view.scene[e].colour \in Colours
           /\ e[1] \in {"ue", "scatterer"} => view.scene[e].at \in Token
    BY <2>1 DEF IsView, Look
  <2>4. /\ view.hov \in Holding \cup {NoEntity} /\ view.sel \in Holding \cup {NoEntity}
        /\ view.chosen \in Reference \cup {NoEntity}
        /\ \A r \in {view.hov, view.sel, view.chosen} \ {NoEntity} : r.live => r.ent \in DOMAIN view.scene
    BY <2>1 DEF IsView
  <2>5. /\ viewer \in BOOLEAN /\ late \in BOOLEAN /\ frames \cup flights \subseteq Ents
    BY DEF SceneInv
  <2>6. /\ DOMAIN units = UnitKind
        /\ \A k \in UnitKind : DOMAIN units[k] \subseteq Key /\ \A i \in DOMAIN units[k] : units[k][i] \in Key
        /\ DOMAIN scs \subseteq Sc /\ \A i \in DOMAIN scs : scs[i] \in Token
        /\ DOMAIN ues \subseteq Ue
        /\ \A u \in DOMAIN ues : ues[u].at \in Token \cup {Nowhere} /\ ues[u].marks \subseteq Mark
    BY <2>1 DEF Stores, UnitMap, ScMap, UeMap
  <2>. QED
    BY <2>2, <2>3, <2>4, <2>5, <2>6 DEF SceneTypeOK
<1>. QED
  BY <1>1, SceneInductive, PTL

\* As long as no identifier was edited away from its key, the scene has an entity for
\* every unit, scatterer and placed user equipment of the managers and no other, and
\* units and user equipment stand where the managers have them.
THEOREM SceneFaithful == SceneSpec => []SceneMirrorsStore
<1>1. SceneInv => SceneMirrorsStore
  <2> SUFFICES ASSUME SceneInv, viewer
               PROVE  /\ \A kind \in UnitKind : (\A k \in DOMAIN units[kind] : units[kind][k] = k) =>
                            /\ Entities(view, kind) = {UnitEnt(kind, k) : k \in DOMAIN units[kind]}
                            /\ \A e \in Entities(view, kind) : UnitAt(kind, e[2]) # Nowhere
                      /\ Entities(view, "scatterer") = {ScEnt(i) : i \in DOMAIN scs}
                      /\ \A u \in DOMAIN ues : ues[u].at # Nowhere =>
                            UeEnt(u) \in DOMAIN view.scene /\ view.scene[UeEnt(u)].at = ues[u].at
                      /\ \A e \in Entities(view, "ue") : e[2] \in DOMAIN ues
    BY DEF SceneMirrorsStore
  <2>1. Shows(view, ueId) /\ Stores
    BY DEF SceneInv, Mirrored
  <2>2. ASSUME NEW kind \in UnitKind, \A k \in DOMAIN units[kind] : units[kind][k] = k
        PROVE  /\ Entities(view, kind) = {UnitEnt(kind, k) : k \in DOMAIN units[kind]}
               /\ \A e \in Entities(view, kind) : UnitAt(kind, e[2]) # Nowhere
    <3>1. Entities(view, kind) = {UnitEnt(kind, k) : k \in DOMAIN units[kind]}
      BY <2>1, <2>2 DEF Shows, UnitsDrawn
    <3>2. DOMAIN units[kind] \subseteq Key
      BY <2>1 DEF Stores, UnitMap
    <3>3. \A k \in DOMAIN units[kind] : UnitAt(kind, UnitEnt(kind, k)[2]) # Nowhere
      BY <3>2, EntsAre, DistinctAssumption DEF UnitAt
    <3>. QED
      BY <3>1, <3>3
  <2>. QED
    BY <2>1, <2>2 DEF Shows, ScsDrawn, UesDrawn
<1>. QED
  BY <1>1, SceneInductive, PTL

\* Whatever was hovered or selected before has its colour back.
THEOREM ColoursReturn == SceneSpec => []NoColourStays
<1>1. SceneInv => NoColourStays
  BY DEF SceneInv, NoColourStays, Lit, Coloured, Holds
<1>. QED
  BY <1>1, SceneInductive, PTL

\* What is highlighted as selected is what the store has selected.
THEOREM HighlightCorrect == SceneSpec => []HighlightFollowsSelection
<1>1. SceneInv => HighlightFollowsSelection
  <2> SUFFICES ASSUME SceneInv, ~late
               PROVE  IF view.chosen = NoEntity THEN view.sel = NoEntity
                      ELSE /\ view.sel # NoEntity => view.sel.ent = view.chosen.ent
                           /\ view.chosen.live => view.scene[view.chosen.ent].colour = "green"
    BY DEF HighlightFollowsSelection
  <2>1. IsView(view) /\ Lit(view) /\ Follows(view)
    BY DEF SceneInv
  <2>2. CASE view.chosen = NoEntity
    BY <2>1, <2>2 DEF Follows
  <2>3. CASE view.chosen # NoEntity
    <3>1. ASSUME view.chosen.live
          PROVE  view.scene[view.chosen.ent].colour = "green"
      <4>1. view.chosen.ent \in DOMAIN view.scene /\ Holds(view.chosen, view.chosen.ent)
        BY <2>1, <2>3, <3>1 DEF IsView, Holds
      <4>. QED
        BY <2>1, <4>1 DEF Follows, Lit
    <3>. QED
      BY <2>1, <2>3, <3>1 DEF Follows
  <2>. QED
    BY <2>2, <2>3
<1>. QED
  BY <1>1, SceneInductive, PTL

\* The waypoints in the scene are those of the selected user equipment.
THEOREM MarkersCorrect == SceneSpec => []MarkersOfSelected
<1>1. SceneInv => MarkersOfSelected
  <2> SUFFICES ASSUME SceneInv, IsUe(view.chosen), view.chosen.live, view.chosen.ent[1] = "ue"
               PROVE  Entities(view, "ue-waypoint")
                         = {MarkEnt(view.chosen.ent[2], m) : m \in ues[view.chosen.ent[2]].marks}
    BY DEF MarkersOfSelected
  <2> DEFINE e == view.chosen.ent
  <2>1. e \in DOMAIN view.scene /\ e \in Ents /\ viewer
    BY DEF SceneInv, IsView, IsUe
  <2>2. ueId = e[2] /\ Shows(view, ueId) /\ UeMap(ues)
    BY <2>1 DEF SceneInv, Mirrored, Stores, IdOf, IsUe, LastNumber
  <2>3. e[2] \in DOMAIN ues
    BY <2>1, <2>2 DEF Shows, UesDrawn, Entities
  <2>4. \A x \in Ents : x \in Entities(view, "ue-waypoint") <=> \E m \in ues[e[2]].marks : x = MarkEnt(e[2], m)
    BY <2>2, <2>3 DEF Shows, MarksDrawn
  <2>5. Entities(view, "ue-waypoint") \subseteq Ents
    BY DEF SceneInv, IsView, Entities
  <2>6. \A m \in ues[e[2]].marks : MarkEnt(e[2], m) \in Ents
    BY <2>2, <2>3, EntsAre DEF UeMap
  <2>. QED
    BY <2>4, <2>5, <2>6
<1>. QED
  BY <1>1, SceneInductive, PTL
=============================================================================
