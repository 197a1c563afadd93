------------------------------ MODULE Dragging ------------------------------
(***************************************************************************)
(* Selecting, moving and rotating the objects of the scene with the mouse: *)
(* the handlers of viewer/app/hooks/cesium/usePickingHandlers.ts over the  *)
(* store of objectSlice.ts, with the panels that change the same store     *)
(* while the button is held.                                               *)
(*                                                                         *)
(* Where a ray meets a gizmo, a ring or the globe, and how far the pointer *)
(* has moved, are choices of the environment.  The path of a user          *)
(* equipment stands for the equipment, as effectivePickedId has it.  The   *)
(* marker of a waypoint has the id "ue-waypoint-<ue>-<waypoint>", of which *)
(* extractEntityId reads the last number as that of a user equipment.      *)
(***************************************************************************)
EXTENDS Integers, FiniteSets

CONSTANTS
    Entity,      \* the entities of the scene the handlers may grab
    Kind,        \* Entity -> their kinds
    Record,      \* Entity -> the entity whose data extractEntityId names
    Building,    \* a feature of a 3D tileset
    Gizmo,       \* an arrow of the move gizmo
    Ring,        \* a ring of the rotate gizmo
    None

ASSUME KindAssumption == Kind \in [Entity -> {"ru", "du", "ue", "scatterer"}]
ASSUME RecordAssumption ==
    /\ Record \in [Entity -> Entity]
    /\ \A e \in Entity : Kind[Record[e]] = Kind[e]
    /\ \A e \in Entity : Record[e] # e => Kind[e] = "ue"
ASSUME ThingsDiffer ==
    /\ Cardinality({Building, Gizmo, Ring, None}) = 4
    /\ {Building, Gizmo, Ring, None} \cap Entity = {}

VARIABLES
    button,      \* the mouse button is physically held
    mouseDown,   \* isMouseDownRef
    didSelect,   \* didSelectOnThisDownRef
    selected,    \* selectedObject
    dragging,    \* draggingObject
    axis,        \* draggingGizmoAxis and axisDragAxisRef, set and cleared together
    line,        \* the entity through whose position axisDragLineRef passes
    ring,        \* draggingRotateRing and rotateDragRingRef
    saved,       \* the entity whose property savedPositionPropertyRef holds
    selectTool,  \* selectToolEnabled
    tool,        \* "move", "rotate" or "none": setTransformTool keeps one at most
    creating,    \* creatingEntityType is set
    camera,      \* screenSpaceCameraController.enableInputs
    alive,       \* the entities whose records the managers hold
    dirty,       \* records changed in place, of which no subscriber was told
    gizmo,       \* the gizmo in the last frame: Gizmo, Ring or None
    grabbed,     \* history: what the last press took hold of
    strayed,     \* history: that gesture moved something else, or along another's axis
    disturbed    \* history: the gesture was disturbed and nothing has put it right since

store == <<selected, dragging, axis, ring, selectTool, tool, creating>>
refs == <<mouseDown, didSelect, line, saved>>
ghosts == <<grabbed, strayed, disturbed>>
vars == <<store, refs, ghosts, button, camera, alive, dirty, gizmo>>

Draggable == selected \in Entity
Rotatable == selected \in Entity /\ Kind[selected] = "ru"
Published(e) == Kind[e] = "scatterer" \/ Record[e] \in alive

TypeOK ==
    /\ button \in BOOLEAN /\ mouseDown \in BOOLEAN /\ didSelect \in BOOLEAN
    /\ axis \in BOOLEAN /\ ring \in BOOLEAN /\ camera \in BOOLEAN
    /\ selectTool \in BOOLEAN /\ creating \in BOOLEAN
    /\ strayed \in BOOLEAN /\ disturbed \in BOOLEAN
    /\ selected \in Entity \cup {Building, None}
    /\ dragging \in Entity \cup {Building, None}
    /\ line \in Entity \cup {None}
    /\ saved \in Entity \cup {None}
    /\ grabbed \in Entity \cup {None}
    /\ tool \in {"move", "rotate", "none"}
    /\ alive \subseteq Entity
    /\ dirty \subseteq Entity
    /\ gizmo \in {Gizmo, Ring, None}

Init ==
    /\ button = FALSE /\ mouseDown = FALSE /\ didSelect = FALSE
    /\ selected = None /\ dragging = None
    /\ axis = FALSE /\ line = None /\ ring = FALSE /\ saved = None
    /\ selectTool = TRUE /\ tool = "none" /\ creating = FALSE
    /\ camera = TRUE
    /\ alive = Entity /\ dirty = {}
    /\ grabbed = None /\ strayed = FALSE /\ disturbed = FALSE
    /\ gizmo = None

-----------------------------------------------------------------------------
(* The layers of the gizmos: their effects run after the store has changed,  *)
(* and the scene shows what they drew one frame later.                       *)

ArrowsShown == tool = "move" /\ Draggable /\ Kind[selected] # "scatterer" /\ selected \in alive

RingsShown == tool = "rotate" /\ Rotatable /\ selected \in alive

ShownGizmo == IF ArrowsShown THEN Gizmo ELSE IF RingsShown THEN Ring ELSE None

DrawGizmo ==
    /\ gizmo # ShownGizmo
    /\ gizmo' = ShownGizmo
    /\ UNCHANGED <<store, refs, ghosts, button, camera, alive, dirty>>

-----------------------------------------------------------------------------
(* handleLeftDown: the first of its cases that applies.  Away from the       *)
(* creation mode the button is noted before anything else.                   *)

\* The gizmo of the frame before may still be there.
Pickable == alive \cup {Building, None, gizmo}

\* The rotate tool takes hold of a ring, picked or met by the ray.
StartsRing(hit, ray) ==
    tool = "rotate" /\ Rotatable /\ selected \in alive /\ (hit = Ring \/ ray)

\* The move tool takes hold of the selected entity or of its gizmo, near it on screen.
StartsMove(hit, near) ==
    tool = "move" /\ Draggable /\ hit \in {selected, Gizmo} /\ near

Pressed ==
    /\ ~button /\ ~creating
    /\ button' = TRUE
    /\ mouseDown' = TRUE
    /\ strayed' = FALSE
    /\ UNCHANGED <<selectTool, tool, creating, saved, alive, dirty, disturbed, gizmo>>

PressInCreation ==
    /\ ~button /\ creating
    /\ button' = TRUE
    /\ UNCHANGED <<store, refs, ghosts, camera, alive, dirty, gizmo>>

PressRing(hit, ray) ==
    /\ Pressed
    /\ StartsRing(hit, ray)
    /\ ring' = TRUE
    /\ dragging' = selected
    /\ grabbed' = selected
    /\ camera' = FALSE
    /\ didSelect' = FALSE
    /\ UNCHANGED <<selected, axis, line>>

\* An arrow picked or met by the ray starts an axis drag, the body a free one.
PressSelected(hit, ray) ==
    /\ Pressed
    /\ StartsMove(hit, TRUE)
    /\ dragging' = selected
    /\ grabbed' = selected
    /\ camera' = FALSE
    /\ LET onAxis == hit = Gizmo \/ ray IN
       IF onAxis
         THEN axis' = TRUE /\ line' = selected /\ didSelect' = FALSE
         ELSE didSelect' = TRUE /\ UNCHANGED <<axis, line>>
    /\ UNCHANGED <<selected, ring>>

\* An arrow far from its entity on screen, or of an entity without a position.
PressGizmo(hasPosition) ==
    /\ Pressed
    /\ tool = "move" /\ Draggable
    /\ axis' = TRUE
    /\ line' = IF hasPosition THEN selected ELSE None
    /\ dragging' = selected
    /\ grabbed' = selected
    /\ camera' = FALSE
    /\ didSelect' = FALSE
    /\ UNCHANGED <<selected, ring>>

CameraBack == IF tool = "move" /\ Draggable THEN TRUE ELSE camera

\* No drag: the camera comes back and, with the select tool, the object under the
\* pointer is selected; "behind" is what drillPick finds under a gizmo.
PressSelect(hit, near, ray, behind) ==
    /\ Pressed
    /\ ~StartsRing(hit, ray) /\ ~StartsMove(hit, near)
    /\ ~(hit = Gizmo /\ tool = "move")
    /\ camera' = CameraBack
    /\ grabbed' = None
    /\ LET found == CASE hit = None -> IF tool # "none" THEN behind ELSE None
                      [] hit \in {Gizmo, Ring} -> behind
                      [] OTHER -> hit
           kept  == ~selectTool \/ (hit \in {Gizmo, Ring} /\ behind = None)
       IN  /\ selected' = IF kept THEN selected ELSE found
           /\ didSelect' = (~kept /\ found # None)
    /\ UNCHANGED <<dragging, axis, line, ring>>

\* A tileset marked not selectable, or an arrow with nothing to move: the press is over.
PressUnselectable ==
    /\ Pressed
    /\ camera' = CameraBack
    /\ grabbed' = None
    /\ didSelect' = FALSE
    /\ UNCHANGED <<selected, dragging, axis, line, ring>>

LeftDown ==
    \E hit \in Pickable, near, ray \in BOOLEAN, behind \in alive \cup {Building, None} :
        \/ PressRing(hit, ray)
        \/ PressSelected(hit, ray)
        \/ hit = Gizmo /\ PressGizmo(near)
        \/ PressSelect(hit, near, ray, behind)

-----------------------------------------------------------------------------
(* handleMouseMove: with the button down and a drag begun, the SELECTED      *)
(* object becomes the dragged one and is moved.                              *)

\* What the move touches, when the pointer meets the globe and the threshold is passed.
Touched(e) ==
    IF e \in Entity /\ Record[e] \in alive /\ (ring => Kind[e] = "ru") /\ (axis /\ ~ring => line # None)
    THEN {Record[e]} ELSE {}

MouseMove ==
    /\ ~creating
    /\ mouseDown
    /\ ring \/ axis \/ dragging # None
    /\ dragging' = selected
    /\ camera' = FALSE
    /\ \E touched \in {{}, Touched(selected)} :
        LET moved == ~ring /\ touched # {} IN
        /\ dirty' = IF moved THEN dirty \cup touched
                    ELSE IF touched # {} THEN {e \in dirty : Kind[e] # "ru"} ELSE dirty
        /\ saved' = IF moved /\ saved = None /\ Kind[selected] \in {"ue", "scatterer"}
                    THEN selected ELSE saved
        /\ strayed' = (strayed \/ (touched # {} /\ (selected # grabbed \/ (axis /\ ~ring /\ line # grabbed))))
        /\ didSelect' \in IF ring \/ axis THEN {didSelect}
                          ELSE IF moved THEN {FALSE}
                          ELSE IF selected \in Entity THEN {didSelect, FALSE} ELSE {didSelect}
    /\ UNCHANGED <<button, mouseDown, selected, axis, line, ring, selectTool, tool, creating,
                   alive, grabbed, disturbed, gizmo>>

-----------------------------------------------------------------------------
(* handleLeftUp, and the LEFT_CLICK Cesium raises after it when the pointer   *)
(* has hardly moved.                                                          *)

\* Mutant: the end of a drag announces no user equipment.
Announced_NoUe(e) == IF e \in Entity /\ Kind[e] # "ue" /\ Published(e) THEN {Kind[e]} ELSE {}

\* The kinds of which LEFT_UP tells the subscribers.
Announced(e) == IF e \in Entity /\ Published(e) THEN {Kind[e]} ELSE {}

\* Mutant: the end of a drag leaves the axis and its line set.
Drop_KeepsAxis ==
    /\ dragging' = None
    /\ axis' = axis /\ line' = line /\ ring' = FALSE
    /\ saved' = IF dragging \in Entity THEN None ELSE saved
    /\ dirty' = {e \in dirty : Kind[e] \notin Announced(dragging)}
    /\ camera' = TRUE
    /\ disturbed' = (disturbed /\ (dirty' # {} \/ saved' # None))
    /\ strayed' = (strayed /\ disturbed')

\* The end of a drag: the property is restored, the change announced, and the
\* gesture's state cleared.
Drop ==
    /\ dragging' = None
    /\ axis' = FALSE /\ line' = None /\ ring' = FALSE
    /\ saved' = IF dragging \in Entity THEN None ELSE saved
    /\ dirty' = {e \in dirty : Kind[e] \notin Announced(dragging)}
    /\ camera' = TRUE
    /\ disturbed' = (disturbed /\ (dirty' # {} \/ saved' # None))
    /\ strayed' = (strayed /\ disturbed')

\* handleNormalClick with what lies under the pointer; fresh: didSelectOnThisDownRef.
Click(hit, fresh) ==
    IF creating \/ ~selectTool
    THEN didSelect' = fresh /\ selected' = selected
    ELSE /\ didSelect' = FALSE
         /\ selected' = IF hit # None \/ fresh \/ (tool # "none" /\ Rotatable)
                        THEN selected ELSE None

LeftUp(hit, click) ==
    /\ button
    /\ button' = FALSE
    /\ mouseDown' = FALSE
    /\ grabbed' = None
    /\ LET fresh == dragging = None /\ didSelect IN
       IF click THEN Click(hit, fresh)
                ELSE didSelect' = fresh /\ selected' = selected
    /\ IF dragging # None THEN Drop
       ELSE UNCHANGED <<dragging, axis, line, ring, saved, dirty, camera, strayed, disturbed>>
    /\ UNCHANGED <<selectTool, tool, creating, alive, gizmo>>

\* Cesium looks an action up by the modifier keys held: a button released under
\* one of them raises no LEFT_UP here.
LoseUp ==
    /\ button
    /\ button' = FALSE
    /\ disturbed' = (disturbed \/ dragging # None)
    /\ UNCHANGED <<store, refs, camera, alive, dirty, grabbed, strayed, gizmo>>

-----------------------------------------------------------------------------
(* The toolbar, the panels and the loads, also from the keyboard while the   *)
(* button is held.                                                           *)

Chosen(x) ==
    /\ selected' = x
    /\ disturbed' = (disturbed \/ (dragging # None /\ x # selected))

\* A row of the entities panel, a search result, or the cross of a property panel.
SelectInPanel(x) ==
    /\ Chosen(x)
    /\ UNCHANGED <<dragging, axis, ring, selectTool, tool, creating, refs, button, camera,
                   alive, dirty, grabbed, strayed, gizmo>>

\* The remove button of a property panel: the manager forgets and tells, the selection goes.
RemoveSelected ==
    /\ selected \in Entity
    /\ Record[selected] \in alive
    /\ alive' = alive \ {Record[selected]}
    /\ dirty' = {e \in dirty : Kind[e] # Kind[selected]}
    /\ Chosen(None)
    /\ UNCHANGED <<dragging, axis, ring, selectTool, tool, creating, refs, button, camera,
                   grabbed, strayed, gizmo>>

\* A load replaces the records; every manager tells its subscribers.
DataReplaced ==
    /\ alive' \in SUBSET Entity
    /\ dirty' = {}
    /\ UNCHANGED <<store, refs, ghosts, button, camera, gizmo>>

SetSelectToolEnabled ==
    /\ selectTool' = ~selectTool
    /\ UNCHANGED <<selected, dragging, axis, ring, tool, creating, refs, ghosts, button, camera,
                   alive, dirty, gizmo>>

SetTransformTool ==
    /\ tool' \in {"move", "rotate", "none"} \ {tool}
    /\ UNCHANGED <<selected, dragging, axis, ring, selectTool, creating, refs, ghosts, button,
                   camera, alive, dirty, gizmo>>

\* startCreatingEntity and cancelCreatingEntity.
ToggleCreating ==
    /\ creating' = ~creating
    /\ UNCHANGED <<selected, dragging, axis, ring, selectTool, tool, refs, ghosts, button,
                   camera, alive, dirty, gizmo>>

Next ==
    \/ PressInCreation
    \/ LeftDown
    \/ PressUnselectable
    \/ MouseMove
    \/ \E hit \in Pickable, click \in BOOLEAN : LeftUp(hit, click)
    \/ LoseUp
    \/ \E x \in {e \in alive : Record[e] = e} \cup {None} : SelectInPanel(x)
    \/ RemoveSelected
    \/ DataReplaced
    \/ SetSelectToolEnabled
    \/ SetTransformTool
    \/ ToggleCreating
    \/ DrawGizmo

Spec == Init /\ [][Next]_vars

-----------------------------------------------------------------------------
(* Undisturbed: since the last release that put everything back, no panel,   *)
(* key or lost release has changed the selection or the button under a drag. *)

\* Undisturbed, a gesture moves or turns only what was pressed, and along an axis
\* through it: handleMouseMove makes whatever is selected the dragged object.
MovesWhatWasGrabbed == ~disturbed => ~strayed

\* Undisturbed, when the button is up no drag is left over and the camera answers:
\* handleLeftDown turns it off before it decides, on every path to a return.
ReleasedIsIdle ==
    ~disturbed /\ ~button => camera /\ dragging = None /\ ~axis /\ ~ring

\* Undisturbed, when the button is up every record changed in place by
\* handleObjectDragging has been announced (the YML file is written from there).
MovesAnnounced == ~disturbed /\ ~button => dirty = {}

\* Undisturbed, the position property put aside is that of the dragged object, to
\* which handleLeftUp gives it back.
SavedIsOfDragged == ~disturbed /\ saved # None => saved = dragging

\* ObjectToolbar.tsx:27 has selected objects dragged and repositioned: the records a
\* drag changes are those of the object pressed.  Not so for the marker of a waypoint.
\* Refuted: DragMarker.cfg has the counterexample.
DragChangesItsObject == ~disturbed => dirty \subseteq {grabbed}
=============================================================================
