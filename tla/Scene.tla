------------------------------- MODULE Scene -------------------------------
(***************************************************************************)
(* What Cesium shows of the store: the layers turn the managers' maps into *)
(* entities (RadioUnitLayer, DistributedUnitLayer, ScattererLayer and      *)
(* UserEquipmentLayer), the store selects entities, and the highlight      *)
(* manager colours the hovered and the selected one, remembering what to   *)
(* give them back.  Entities are objects: a layer that removes one and     *)
(* adds one of the same name leaves whoever held the first with a relic.   *)
(***************************************************************************)
EXTENDS Naturals, FiniteSets

CONSTANTS
    UnitKind,   \* the kinds the unit layers draw: "ru", "du"
    Key,        \* identifiers of units, an interval of naturals from 0
    Sc,         \* identifiers of scatterers
    Ue,         \* identifiers of user equipment, naturals
    Mark,       \* identifiers of waypoints after the first, naturals
    Token,      \* what positions are loaded or edited
    MaxPending, \* bound on the timers pending, and on the frames
    NoEntity, Nowhere \* no entity, no position

ASSUME UnitKindAssumption == UnitKind \subseteq {"ru", "du"}
ASSUME SetAssumption == Key \subseteq Nat /\ Sc \subseteq Nat /\ Ue \subseteq Nat /\ Mark \subseteq Nat
ASSUME BoundAssumption == MaxPending \in Nat
ASSUME DistinctAssumption ==
    NoEntity # Nowhere /\ Nowhere \notin Token \cup Key /\ NoEntity \notin Ue \cup Mark

VARIABLES
    viewer,   \* cesiumViewer is there
    units,    \* by kind, the manager's map from keys to the identifiers of the units
    scs,      \* scattererManager: the route of every scatterer
    ues,      \* userEquipmentManager: where each is, and its waypoints after the first
    view,     \* the scene, the store's selection and the highlight manager's data
    ueId,     \* UserEquipmentLayer.selectedUEId
    frames,   \* the entities a requestAnimationFrame will highlight
    flights,  \* the entities the camera flies to
    placed,   \* the units a timer will select
    late      \* history: a frame came after the selection had changed again, or a flight ended;
              \* the mouse is followed up to there (a bound), the data further

storeVars == <<units, scs, ues>>
loopVars == <<frames, flights, placed, late>>
sceneVars == <<viewer, storeVars, view, ueId, loopVars>>

-----------------------------------------------------------------------------
(* Entities, references to them and the view.                                *)

UnitEnt(kind, i) == <<kind, i>>
ScEnt(i) == <<"scatterer", i>>
UeEnt(u) == <<"ue", u>>
MarkEnt(u, m) == <<"ue-waypoint", u, m>>

\* A name where an entity is meant.
Text == <<"text">>

OfUe(e) == e[1] \in {"ue", "ue-waypoint"}

\* A reference: the entity it names and whether that entity is still in the scene;
\* "was" is the colour the highlight manager gives back.
Ref(e, live) == [ent |-> e, live |-> live]
Held(r, was) == [ent |-> r.ent, live |-> r.live, was |-> was]
Same(r, s) == r # NoEntity /\ s # NoEntity /\ r.ent = s.ent /\ r.live = s.live

Detached(r, gone) == IF r = NoEntity THEN r
                     ELSE IF r.ent \in gone THEN [r EXCEPT !.live = FALSE] ELSE r

\* viewer.entities.remove
Remove(v, gone) ==
    [scene  |-> [e \in DOMAIN v.scene \ gone |-> v.scene[e]],
     chosen |-> Detached(v.chosen, gone),
     hov    |-> Detached(v.hov, gone),
     sel    |-> Detached(v.sel, gone)]

\* getOrCreateEntity and new graphics, at the given place.
Draw(v, at) ==
    [v EXCEPT !.scene = [e \in DOMAIN at \cup DOMAIN v.scene |->
        IF e \in DOMAIN at THEN [colour |-> "own", at |-> at[e]] ELSE v.scene[e]]]

Paint(v, r, colour) ==
    IF r.live THEN [v EXCEPT !.scene[r.ent].colour = colour] ELSE v

-----------------------------------------------------------------------------
(* The highlight manager.                                                    *)

\* Mutant: the colour is not given back.
UnhighlightHovered_Keeps(v) == [v EXCEPT !.hov = NoEntity]

\* unhighlightEntityInternal(true): a hovered entity that is selected stays green.
UnhighlightHovered(v) ==
    IF v.hov = NoEntity \/ Same(v.hov, v.sel) THEN [v EXCEPT !.hov = NoEntity]
    ELSE [Paint(v, v.hov, v.hov.was) EXCEPT !.hov = NoEntity]

UnhighlightSelected(v) ==
    IF v.sel = NoEntity THEN v
    ELSE [Paint(v, v.sel, v.sel.was) EXCEPT !.sel = NoEntity]

Colour(v, r) == IF r.live THEN v.scene[r.ent].colour ELSE "own"

\* highlightEntity for the hover; nothing for what is hovered or selected already.
HighlightHover(v, r) ==
    IF Same(r, v.sel) THEN v
    ELSE LET w == IF v.hov # NoEntity /\ ~Same(r, v.hov) THEN UnhighlightHovered(v) ELSE v
         IN  IF Same(r, w.hov) THEN w
             ELSE [Paint(w, r, "blue") EXCEPT !.hov = Held(r, Colour(w, r))]

\* highlightEntity for the selection: the ellipsoid of the one selected already is
\* painted again.
HighlightSelection(v, r) ==
    IF Same(r, v.sel) THEN IF r.ent[1] = "ue" THEN Paint(v, r, "green") ELSE v
    ELSE LET w == UnhighlightSelected(v)
         IN  [Paint(w, r, "green") EXCEPT !.sel = Held(r, Colour(w, r))]

-----------------------------------------------------------------------------
(* The layers.                                                               *)

Entities(v, kind) == {e \in DOMAIN v.scene : e[1] = kind}

\* Mutant: entities of units that are gone stay.
UnitVisualize_NoClear(v, kind, map) ==
    LET shown == Entities(v, kind)
        new   == {UnitEnt(kind, map[k]) : k \in DOMAIN map}
    IN  IF DOMAIN map # {} /\ {UnitEnt(kind, k) : k \in DOMAIN map} = shown THEN v
        ELSE Draw(v, [e \in new |-> Nowhere])

\* RadioUnitLayer.visualize, and DistributedUnitLayer's: the names are compared with
\* the keys, and when they differ everything goes and is made anew.  A unit's
\* position is a callback and reads the manager (UnitAt).
UnitVisualize(v, kind, map) ==
    LET shown == Entities(v, kind)
        new   == {UnitEnt(kind, map[k]) : k \in DOMAIN map}
    IN  IF DOMAIN map # {} /\ {UnitEnt(kind, k) : k \in DOMAIN map} = shown THEN v
        ELSE Draw(Remove(v, shown), [e \in new |-> Nowhere])

\* ScattererLayer.visualize: the same comparison; the route is sampled when the
\* entity is made.
ScVisualize(v, map) ==
    LET shown == Entities(v, "scatterer")
    IN  IF DOMAIN map # {} /\ {ScEnt(k) : k \in DOMAIN map} = shown THEN v
        ELSE Draw(Remove(v, shown), [e \in {ScEnt(k) : k \in DOMAIN map} |-> map[e[2]]])

\* What UserEquipmentLayer draws: whoever is somewhere, and the waypoints of one.
UeDrawn(map, id) ==
    LET somewhere == {UeEnt(u) : u \in {u \in DOMAIN map : map[u].at # Nowhere}}
        marks     == UNION {{MarkEnt(u, m) : m \in map[u].marks} : u \in DOMAIN map \cap {id}}
    IN  [e \in somewhere \cup marks |-> IF e[1] = "ue" THEN map[e[2]].at ELSE Nowhere]

\* The selection is highlighted again when the scene still has an entity of its name.
Rehighlight(v) ==
    IF v.chosen = NoEntity THEN v
    ELSE IF OfUe(v.chosen.ent) /\ v.chosen.ent \in DOMAIN v.scene
         THEN HighlightSelection(v, Ref(v.chosen.ent, TRUE)) ELSE v

\* Mutant: the markers of the waypoints stay.
UeVisualize_KeepsMarkers(v, map, id) ==
    IF DOMAIN map = {} THEN Remove(v, {e \in DOMAIN v.scene : OfUe(e)})
    ELSE LET gone == {e \in Entities(v, "ue") : e[2] \notin DOMAIN map}
         IN  Rehighlight(Draw(Remove(v, gone), UeDrawn(map, id)))

\* UserEquipmentLayer.visualize updates in place, the markers of waypoints excepted.
UeVisualize(v, map, id) ==
    IF DOMAIN map = {} THEN Remove(v, {e \in DOMAIN v.scene : OfUe(e)})
    ELSE LET gone == Entities(v, "ue-waypoint") \cup {e \in Entities(v, "ue") : e[2] \notin DOMAIN map}
         IN  Rehighlight(Draw(Remove(v, gone), UeDrawn(map, id)))

\* Where the callback of a unit's entity puts it: its unit if the manager has that
\* key, and the centre of the earth otherwise.
UnitAt(kind, i) == IF i \in DOMAIN units[kind] THEN i ELSE Nowhere

-----------------------------------------------------------------------------
(* The store's selection.                                                    *)

\* extractEntityId takes the last number of the name: of a waypoint's marker, that of
\* the waypoint.
LastNumber(e) == e[IF e[1] = "ue-waypoint" THEN 3 ELSE 2]

IsUe(r) == r # NoEntity /\ OfUe(r.ent)

\* Mutant: the colour of the selection before is not given back.
Selecting_NoClear(v, r) == UnhighlightHovered(v)

\* setSelectedObject first clears both highlights.
Selecting(v, r) == UnhighlightSelected(UnhighlightHovered(v))

\* setSelectedObject: UserEquipmentLayer's subscriptions run inside set(), before the
\* new selection is highlighted.
SetSelectedObject(v, r) ==
    LET id == IF IsUe(r) THEN LastNumber(r.ent) ELSE NoEntity
        v1 == [Selecting(v, r) EXCEPT !.chosen = r]
        v2 == IF id # ueId THEN UeVisualize(v1, ues, id) ELSE v1
    IN  /\ ueId' = id
        /\ frames' = IF IsUe(r) /\ ~(IsUe(v.chosen) /\ v.chosen.ent = r.ent)
                     THEN frames \cup {r.ent} ELSE frames
        /\ view' = IF r = NoEntity THEN v2 ELSE HighlightSelection(v2, v2.chosen)

\* By name, as the panels do: an entity that is not there deselects.
Named(v, e) == IF e \in DOMAIN v.scene THEN Ref(e, TRUE) ELSE NoEntity

-----------------------------------------------------------------------------
Colours == {"own", "blue", "green"}
Ents == {UnitEnt(k, i) : k \in UnitKind, i \in Key} \cup {ScEnt(i) : i \in Sc}
        \cup {UeEnt(u) : u \in Ue} \cup {MarkEnt(u, m) : u \in Ue, m \in Mark}

\* References to entities, and those the highlight manager holds.
Reference == [ent : Ents \cup {Text}, live : BOOLEAN]
Holding == [ent : Ents \cup {Text}, live : BOOLEAN, was : Colours]

ASSUME NoEntityAssumption == NoEntity \notin Reference \cup Holding

SceneTypeOK ==
    /\ viewer \in BOOLEAN /\ late \in BOOLEAN
    /\ DOMAIN units = UnitKind
    /\ \A k \in UnitKind : DOMAIN units[k] \subseteq Key /\ \A i \in DOMAIN units[k] : units[k][i] \in Key
    /\ DOMAIN scs \subseteq Sc /\ \A i \in DOMAIN scs : scs[i] \in Token
    /\ DOMAIN ues \subseteq Ue
    /\ \A u \in DOMAIN ues : ues[u].at \in Token \cup {Nowhere} /\ ues[u].marks \subseteq Mark
    /\ \A e \in DOMAIN view.scene :
          /\ e \in Ents /\ view.scene[e].colour \in Colours
          /\ e[1] \in {"ue", "scatterer"} => view.scene[e].at \in Token
    /\ ueId \in Ue \cup Mark \cup {NoEntity}
    /\ view.hov \in Holding \cup {NoEntity} /\ view.sel \in Holding \cup {NoEntity}
    /\ view.chosen \in Reference \cup {NoEntity}
    /\ \A r \in {view.hov, view.sel, view.chosen} \ {NoEntity} : r.live => r.ent \in DOMAIN view.scene
    /\ frames \cup flights \subseteq Ents

SceneInit ==
    /\ viewer = FALSE
    /\ units = [k \in UnitKind |-> <<>>] /\ scs = <<>> /\ ues = <<>>
    /\ view = [scene |-> <<>>, chosen |-> NoEntity, hov |-> NoEntity, sel |-> NoEntity]
    /\ ueId = NoEntity
    /\ frames = {} /\ flights = {} /\ placed = {} /\ late = FALSE

\* The map is up: every layer draws what its manager already holds.
ViewerReady ==
    /\ ~viewer
    /\ viewer' = TRUE
    /\ LET drawn(v, kind) == IF kind \in UnitKind THEN UnitVisualize(v, kind, units[kind]) ELSE v
       IN  view' = UeVisualize(ScVisualize(drawn(drawn(view, "ru"), "du"), scs), ues, ueId)
    /\ UNCHANGED <<storeVars, ueId, loopVars>>

-----------------------------------------------------------------------------
(* Radio units and distributed units.                                        *)

\* A manager's map changes and its layer hears of it.
SetUnits(kind, map, v) ==
    /\ units' = [units EXCEPT ![kind] = map]
    /\ view' = IF viewer THEN UnitVisualize(v, kind, map) ELSE v

\* A click of the create tool: one more than the greatest key, to be selected in 100 ms.
PlaceUnit(kind) ==
    /\ viewer /\ Cardinality(placed) < MaxPending
    /\ LET ks  == DOMAIN units[kind]
           new == IF ks = {} THEN 0 ELSE 1 + CHOOSE i \in ks : \A j \in ks : j <= i
       IN  /\ new \in Key
           /\ SetUnits(kind, [i \in ks \cup {new} |-> IF i = new THEN new ELSE units[kind][i]], view)
           /\ placed' = placed \cup {UnitEnt(kind, new)}
    /\ UNCHANGED <<viewer, scs, ues, ueId, frames, flights, late>>

PlacedTimer(e) ==
    /\ SetSelectedObject(view, Named(view, e))
    /\ placed' = placed \ {e}
    /\ UNCHANGED <<viewer, storeVars, flights, late>>

\* Remove in the panel of the kind, which lists the units by their identifiers; the
\* radio units' deselects first.
RemoveUnit(kind, k) ==
    LET id     == units[kind][k]
        chosen == view.chosen # NoEntity /\ view.chosen.ent = UnitEnt(kind, id)
        v      == IF kind = "ru" /\ chosen
                  THEN [UnhighlightSelected(UnhighlightHovered(view)) EXCEPT !.chosen = NoEntity]
                  ELSE view
    IN  /\ SetUnits(kind, [i \in DOMAIN units[kind] \ {id} |-> units[kind][i]], v)
        /\ UNCHANGED <<viewer, scs, ues, ueId, loopVars>>

\* The ID field of the selected unit: update(id, {id: n}) keeps the key.
RenameUnit(kind, k, n) ==
    LET id == units[kind][k] IN
    /\ view.chosen # NoEntity /\ view.chosen.ent = UnitEnt(kind, id)
    /\ id \in DOMAIN units[kind]
    /\ SetUnits(kind, [units[kind] EXCEPT ![id] = n], view)
    /\ UNCHANGED <<viewer, scs, ues, ueId, loopVars>>

\* setAll or clear: a database, a file.
LoadUnits(kind, ids) ==
    /\ SetUnits(kind, [i \in ids |-> i], view)
    /\ UNCHANGED <<viewer, scs, ues, ueId, loopVars>>

-----------------------------------------------------------------------------
(* Scatterers and user equipment.                                            *)

LoadScatterers(map) ==
    /\ scs' = map
    /\ view' = IF viewer THEN ScVisualize(view, map) ELSE view
    /\ UNCHANGED <<viewer, units, ues, ueId, loopVars>>

SetUes(map) ==
    /\ ues' = map
    /\ view' = IF viewer THEN UeVisualize(view, map, ueId) ELSE view
    /\ UNCHANGED <<viewer, units, scs, ueId, loopVars>>

LoadUes(us, t) == SetUes([u \in us |-> [at |-> t, marks |-> Mark]])

\* A drag, a form, a waypoint added or removed: of the last one there is nothing to draw.
UpdateUe(u, at, marks) == SetUes([ues EXCEPT ![u] = [at |-> at, marks |-> marks]])

RemoveUe(u) == SetUes([w \in DOMAIN ues \ {u} |-> ues[w]])

-----------------------------------------------------------------------------
(* The mouse, the panels, the camera and the frames.                         *)

\* A click in the scene, or a name in a panel.
Select(e) ==
    /\ viewer /\ ~late
    /\ e \in DOMAIN view.scene
    /\ Cardinality(frames) < MaxPending \/ ~OfUe(e)
    /\ SetSelectedObject(view, Ref(e, TRUE))
    /\ UNCHANGED <<viewer, storeVars, flights, placed, late>>

\* Back, a second click on the name, or the selection of something that is no entity.
Deselect ==
    /\ viewer
    /\ SetSelectedObject(view, NoEntity)
    /\ UNCHANGED <<viewer, storeVars, flights, placed, late>>

Hover(e) ==
    /\ viewer /\ ~late
    /\ e \in DOMAIN view.scene
    /\ view' = HighlightHover(UnhighlightHovered(view), Ref(e, TRUE))
    /\ UNCHANGED <<viewer, storeVars, ueId, loopVars>>

\* The mouse leaves every object, or the select tool is switched off.
ClearHover ==
    /\ view.hov # NoEntity
    /\ view' = UnhighlightHovered(view)
    /\ UNCHANGED <<viewer, storeVars, ueId, loopVars>>

\* The frame asked for when a user equipment was selected.
Frame(e) ==
    /\ frames' = frames \ {e}
    /\ late' = (late \/ (e \in DOMAIN view.scene /\ ~(IsUe(view.chosen) /\ view.chosen.ent = e)))
    /\ view' = IF e \in DOMAIN view.scene THEN HighlightSelection(view, Ref(e, TRUE)) ELSE view
    /\ UNCHANGED <<viewer, storeVars, ueId, flights, placed>>

\* A second flight cancels the first.
ZoomTo(e) ==
    /\ viewer /\ ~late
    /\ e \in DOMAIN view.scene
    /\ flights' = {e}
    /\ UNCHANGED <<viewer, storeVars, view, ueId, frames, placed, late>>

\* The flight ends: highlightObject gets the entity's name, a string, where it
\* takes an entity; nothing is painted, and the selection loses its colour.
FlightEnds(e) ==
    /\ flights' = flights \ {e}
    /\ view' = HighlightSelection(view, Ref(Text, FALSE))
    /\ late' = TRUE
    /\ UNCHANGED <<viewer, storeVars, ueId, frames, placed>>

SceneNext ==
    \/ ViewerReady
    \/ \E kind \in UnitKind : PlaceUnit(kind)
    \/ \E e \in placed : PlacedTimer(e)
    \/ \E kind \in UnitKind : \E k \in DOMAIN units[kind] : RemoveUnit(kind, k)
    \/ \E kind \in UnitKind : \E k \in DOMAIN units[kind], n \in Key : RenameUnit(kind, k, n)
    \/ \E kind \in UnitKind : \E ids \in SUBSET Key : LoadUnits(kind, ids)
    \/ \E ids \in SUBSET Sc, t \in Token : LoadScatterers([i \in ids |-> t])
    \/ \E us \in SUBSET Ue, t \in Token : LoadUes(us, t)
    \/ \E u \in DOMAIN ues, t \in Token \cup {Nowhere}, marks \in SUBSET Mark : UpdateUe(u, t, marks)
    \/ \E u \in DOMAIN ues : RemoveUe(u)
    \/ \E e \in Ents : Select(e)
    \/ Deselect
    \/ \E e \in Ents : Hover(e)
    \/ ClearHover
    \/ \E e \in frames : Frame(e)
    \/ \E e \in Ents : ZoomTo(e)
    \/ \E e \in flights : FlightEnds(e)

SceneSpec == SceneInit /\ [][SceneNext]_sceneVars

-----------------------------------------------------------------------------
\* As long as no identifier has been edited away from its key, the scene has an entity
\* for every unit of the managers and no other, and each stands where its unit is; a
\* user equipment that is somewhere is drawn there, and scatterers are all drawn.
SceneMirrorsStore ==
    viewer =>
        /\ \A kind \in UnitKind : (\A k \in DOMAIN units[kind] : units[kind][k] = k) =>
              /\ Entities(view, kind) = {UnitEnt(kind, k) : k \in DOMAIN units[kind]}
              /\ \A e \in Entities(view, kind) : UnitAt(kind, e[2]) # Nowhere
        /\ Entities(view, "scatterer") = {ScEnt(i) : i \in DOMAIN scs}
        /\ \A u \in DOMAIN ues : ues[u].at # Nowhere =>
              UeEnt(u) \in DOMAIN view.scene /\ view.scene[UeEnt(u)].at = ues[u].at
        /\ \A e \in Entities(view, "ue") : e[2] \in DOMAIN ues

\* Unless a frame comes too late or a flight ends, only what the highlight manager holds has another
\* colour than its own: whatever was hovered or selected before got its colour back,
\* through redrawing, deletion and selection from the panels.
NoColourStays ==
    ~late => \A e \in DOMAIN view.scene : view.scene[e].colour # "own" =>
                \E r \in {view.hov, view.sel} \ {NoEntity} : r.live /\ r.ent = e

\* Unless a frame comes too late or a flight has ended, what is highlighted as selected
\* is what the store has selected, and a selected entity that is in the scene is green.
HighlightFollowsSelection ==
    ~late =>
        IF view.chosen = NoEntity THEN view.sel = NoEntity
        ELSE /\ view.sel # NoEntity => view.sel.ent = view.chosen.ent
             /\ view.chosen.live => view.scene[view.chosen.ent].colour = "green"

\* The waypoints in the scene are those of the selected user equipment.
MarkersOfSelected ==
    IsUe(view.chosen) /\ view.chosen.live /\ view.chosen.ent[1] = "ue" =>
        LET u == view.chosen.ent[2]
        IN  Entities(view, "ue-waypoint") = {MarkEnt(u, m) : m \in ues[u].marks}

\* As ScattererLayer announces, it follows the manager: every scatterer's entity runs
\* along the route the manager holds.
\* Refuted: SceneRefuted.cfg has the counterexample.
ScatterersFollowManager ==
    viewer => \A i \in DOMAIN scs : view.scene[ScEnt(i)].at = scs[i]

\* As zoomTo announces, the entity flown to is highlighted when the flight ends.
\* Refuted: SceneRefuted.cfg has the counterexample.
FlightHighlights ==
    [][\A e \in flights \ flights' : e \in DOMAIN view.scene => view'.sel # NoEntity /\ view'.sel.ent = e]_sceneVars
=============================================================================
