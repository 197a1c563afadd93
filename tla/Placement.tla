----------------------------- MODULE Placement -----------------------------
(***************************************************************************)
(* Creating objects with the mouse, drawing the spawn zone and editing the *)
(* waypoints of user equipment: the actions of store/slices/objectSlice.ts *)
(* as GhostPreviewLayer.tsx, CreateTool.tsx and the property panels call   *)
(* them.  The modes are flags of one store, and nothing keeps the user     *)
(* from entering one from within another.                                  *)
(*                                                                         *)
(* A waypoint carries two tokens: "own" for its attributes (speed, stop,   *)
(* azimuth) and "at" for its position, equal as long as the position is    *)
(* the one given to that waypoint.                                         *)
(***************************************************************************)
EXTENDS Integers, Sequences, FiniteSets, SequencesExt

CONSTANTS
    Point,       \* the points of the terrain a click may hit, pairs of integers, each one once
    MaxPoints,   \* bound on the points of a zone
    MaxUe,       \* bound on the identifiers of user equipment
    MaxToken,    \* bound on the tokens in use at a time
    MaxId,       \* bound on the identifiers of waypoints
    Hole         \* an array element never assigned

ASSUME PointAssumption == Point \subseteq Int \X Int /\ IsFiniteSet(Point) /\ Hole \notin Point
ASSUME BoundAssumption == MaxPoints \in Nat /\ MaxUe \in Nat /\ MaxToken \in Nat /\ MaxId \in Nat

None == -1

VARIABLES
    creating,    \* creatingEntityType
    points,      \* spawnZoneCreationPoints
    editingZone, \* editingSpawnZone
    zone,        \* the points of spawnZoneManager
    markers,     \* how many entities spawn-zone-point-<i> the layer has added
    held,        \* szDragIndexRef, or 0
    ways,        \* the waypoints userEquipmentManager holds, by equipment
    editId,      \* waypointEditingId, or None
    editPoints,  \* waypointEditingPoints: their "at" tokens
    stale,       \* history: the edited equipment has changed under the edit
    crossed      \* history: a mode was entered from within another, or left with the button down

zoneVars == <<points, editingZone, zone, markers, held, crossed>>
wayVars == <<ways, editId, editPoints, stale>>
vars == <<creating, zoneVars, wayVars>>

-----------------------------------------------------------------------------
(* computeConvexHull: Andrew's monotone chain over the points sorted by       *)
(* longitude, then latitude.  Sorting and chaining are recursive functions    *)
(* over positions, so that what they compute can be proved.                   *)

Cross(o, a, b) == (a[1] - o[1]) * (b[2] - o[2]) - (a[2] - o[2]) * (b[1] - o[1])

Before(a, b) == a[1] < b[1] \/ (a[1] = b[1] /\ a[2] < b[2])

\* Mutant: the chain does not go back over the points a new one makes concave.
Extend_NoPop(chain, p) == Append(chain, p)

\* Points are popped while the last turn is not to the left.
Extend(chain, p) ==
    LET stays == {k \in 0..Len(chain) : k < 2 \/ Cross(chain[k - 1], chain[k], p) > 0}
        keep  == CHOOSE k \in stays : \A j \in stays : j <= k
    IN  Append(SubSeq(chain, 1, keep), p)

Chain(s) ==
    LET chain[n \in 0..Len(s)] == IF n = 0 THEN <<>> ELSE Extend(chain[n - 1], s[n])
    IN  chain[Len(s)]

\* A point comes after the points it is not before.
Insert(sorted, p) ==
    LET first == {k \in 0..Len(sorted) : \A i \in 1..k : ~Before(p, sorted[i])}
        place == CHOOSE k \in first : \A j \in first : j <= k
    IN  SubSeq(sorted, 1, place) \o <<p>> \o SubSeq(sorted, place + 1, Len(sorted))

Sorted(s) ==
    LET sorted[n \in 0..Len(s)] == IF n = 0 THEN <<>> ELSE Insert(sorted[n - 1], s[n])
    IN  sorted[Len(s)]

Hull(s) ==
    IF Len(s) < 3 THEN s
    ELSE Front(Chain(Sorted(s))) \o Front(Chain(Reverse(Sorted(s))))

Whole(s) == \A i \in DOMAIN s : s[i] # Hole

\* What drawing makes of the zone; with a hole the hull throws before anything is set.
Drawn(s) == IF Len(s) >= 3 THEN Hull(s) ELSE <<>>
Throws(s) == Len(s) >= 3 /\ ~Whole(s)

-----------------------------------------------------------------------------
UE == 0..MaxUe

\* A user equipment of a file or of the database, with a waypoint.
Loaded == [u \in {0} |-> <<[id |-> 0, own |-> 1, at |-> 1]>>]

Used == {editPoints[i] : i \in DOMAIN editPoints} \cup
        UNION {UNION {{ways[u][i].own, ways[u][i].at} : i \in DOMAIN ways[u]} : u \in DOMAIN ways}
Fresh == (1..MaxToken) \ Used
Token == CHOOSE t \in Fresh : \A s \in Fresh : t <= s

TypeOK ==
    /\ creating \in {"none", "unit", "userEquipment", "spawnZone", "waypoint"}
    /\ points \in Seq(Point \cup {Hole}) /\ zone \in Seq(Point)
    /\ editingZone \in BOOLEAN /\ crossed \in BOOLEAN /\ stale \in BOOLEAN
    /\ markers \in Nat /\ held \in Nat
    /\ DOMAIN ways \subseteq UE
    /\ \A u \in DOMAIN ways : ways[u] \in Seq([id : Nat, own : Nat, at : Nat])
    /\ editId \in UE \cup {None}
    /\ editPoints \in Seq(Nat)

Init ==
    /\ creating = "none"
    /\ points = <<>> /\ editingZone = FALSE /\ zone = <<>> /\ markers = 0 /\ held = 0
    /\ ways = Loaded /\ editId = None /\ editPoints = <<>>
    /\ stale = FALSE /\ crossed = FALSE

\* GhostPreviewLayer runs its effect when creatingEntityType changes: the markers
\* go, and an edited zone gets its own.  held is a ref and survives.
Entering(mode, pts, editing) ==
    /\ creating' = mode
    /\ points' = pts
    /\ editingZone' = editing
    /\ markers' = IF mode = creating THEN markers
                  ELSE IF mode = "spawnZone" /\ editing THEN Len(pts) ELSE 0

-----------------------------------------------------------------------------
(* The create menu and what ends a creation.                                 *)

\* The menu opens only outside the creation mode; the old zone goes at once.
StartCreatingEntity(mode) ==
    /\ creating = "none"
    /\ zone' = IF mode = "spawnZone" THEN <<>> ELSE zone
    /\ Entering(mode, IF mode = "spawnZone" THEN <<>> ELSE points, editingZone)
    /\ UNCHANGED <<held, crossed, wayVars>>

\* Mutant: the points of an abandoned zone are kept.
CancelCreatingEntity_KeepsPoints ==
    /\ creating # "none"
    /\ zone' = IF creating = "spawnZone" /\ ~editingZone THEN <<>> ELSE zone
    /\ Entering("none", points, FALSE)
    /\ crossed' = (held # 0)
    /\ UNCHANGED <<held, wayVars>>

\* Escape or the crossed button: of a zone being drawn nothing is left, of a zone
\* being edited what it has become; waypoints being edited stay in the store.
CancelCreatingEntity ==
    /\ creating # "none"
    /\ zone' = IF creating = "spawnZone" /\ ~editingZone THEN <<>> ELSE zone
    /\ Entering("none", <<>>, FALSE)
    /\ crossed' = (held # 0)
    /\ UNCHANGED <<held, wayVars>>

\* A click with a unit in hand: the manager gets it (see the entity store), the mode ends.
PlaceUnit ==
    /\ creating = "unit"
    /\ Entering("none", <<>>, FALSE)
    /\ crossed' = (held # 0)
    /\ UNCHANGED <<zone, held, wayVars>>

\* A click with a user equipment in hand: the next identifier, the point its first waypoint.
PlaceUserEquipment ==
    /\ creating = "userEquipment"
    /\ Fresh # {}
    /\ LET ids == DOMAIN ways
           new == IF ids = {} THEN 0 ELSE 1 + CHOOSE u \in ids : \A v \in ids : v <= u
       IN  /\ new \in UE
           /\ ways' = [u \in ids \cup {new} |->
                        IF u = new THEN <<[id |-> 0, own |-> Token, at |-> Token]>> ELSE ways[u]]
    /\ Entering("none", <<>>, FALSE)
    /\ crossed' = (held # 0)
    /\ UNCHANGED <<zone, held, editId, editPoints, stale>>

-----------------------------------------------------------------------------
(* Drawing the spawn zone.                                                   *)

Drawing == creating = "spawnZone"

\* A click away from the markers.
AddSpawnZoneCreationPoint(p) ==
    /\ Drawing /\ held = 0
    /\ Len(points) < MaxPoints /\ p \notin Range(points)
    /\ LET pts == Append(points, p) IN
        /\ ~Throws(pts)
        /\ points' = pts
        /\ zone' = IF Len(pts) >= 3 THEN Hull(pts) ELSE zone
    /\ markers' = markers + 1
    /\ UNCHANGED <<creating, editingZone, held, crossed, wayVars>>

\* Mutant: the markers of the points behind keep their numbers.
RemoveSpawnZoneCreationPoint_KeepsMarkers(i) ==
    /\ Drawing /\ held = 0
    /\ i <= markers
    /\ LET pts == IF i <= Len(points) THEN RemoveAt(points, i) ELSE points IN
        /\ ~Throws(pts) /\ (Len(pts) < 3 => Whole(pts))
        /\ points' = pts
        /\ zone' = Drawn(pts)
        /\ markers' = markers
    /\ UNCHANGED <<creating, editingZone, held, crossed, wayVars>>

\* A click on a marker; the markers are built anew from the store.
RemoveSpawnZoneCreationPoint(i) ==
    /\ Drawing /\ held = 0
    /\ i <= markers
    /\ LET pts == IF i <= Len(points) THEN RemoveAt(points, i) ELSE points IN
        /\ ~Throws(pts) /\ (Len(pts) < 3 => Whole(pts))
        /\ points' = pts
        /\ zone' = Drawn(pts)
        /\ markers' = Len(pts)
    /\ UNCHANGED <<creating, editingZone, held, crossed, wayVars>>

\* LEFT_DOWN on a marker.
HoldPoint(i) ==
    /\ Drawing /\ held = 0
    /\ i <= markers
    /\ held' = i
    /\ UNCHANGED <<creating, points, editingZone, zone, markers, crossed, wayVars>>

\* MOUSE_MOVE with a point held, in any creation: points[index] = point, beyond the end too.
UpdateSpawnZoneCreationPoint(p) ==
    /\ creating # "none" /\ held # 0 /\ p \notin Range(points)
    /\ LET pts == [i \in 1..(IF held > Len(points) THEN held ELSE Len(points)) |->
                      IF i = held THEN p ELSE IF i <= Len(points) THEN points[i] ELSE Hole]
       IN  /\ ~Throws(pts)
           /\ points' = pts
           /\ zone' = Drawn(pts)
    /\ UNCHANGED <<creating, editingZone, markers, held, crossed, wayVars>>

\* LEFT_UP, where the layer has a handler.
ReleasePoint ==
    /\ creating # "none" /\ held # 0
    /\ held' = 0
    /\ UNCHANGED <<creating, points, editingZone, zone, markers, crossed, wayVars>>

\* Done, offered from three points on.
CommitSpawnZone ==
    /\ Drawing
    /\ Len(points) >= 3 /\ Whole(points)
    /\ zone' = Hull(points)
    /\ Entering("none", <<>>, FALSE)
    /\ crossed' = (held # 0)
    /\ UNCHANGED <<held, wayVars>>

\* Edit in the entities panel, in whatever mode the viewer is.
StartEditingSpawnZone ==
    /\ ~editingZone
    /\ zone # <<>>
    /\ Entering("spawnZone", zone, TRUE)
    /\ crossed' = (crossed \/ Drawing \/ held # 0)
    /\ UNCHANGED <<zone, held, wayVars>>

\* Delete in the entities panel, or another file or database.
ReplaceZone ==
    /\ zone' \in {<<>>, Hull(SetToSeq(Point))}
    /\ zone' # zone
    /\ crossed' = (crossed \/ Drawing)
    /\ UNCHANGED <<creating, points, editingZone, markers, held, wayVars>>

-----------------------------------------------------------------------------
(* Editing waypoints.                                                        *)

\* Edit, offered while no waypoints are being edited.
StartEditingWaypoints(u) ==
    /\ editId = None
    /\ editId' = u
    /\ editPoints' = [i \in DOMAIN ways[u] |-> ways[u][i].at]
    /\ stale' = FALSE
    /\ Entering("waypoint", points, editingZone)
    /\ crossed' = (crossed \/ Drawing \/ held # 0)
    /\ UNCHANGED <<zone, held, ways>>

\* A click on the terrain.
AddWaypoint ==
    /\ creating = "waypoint"
    /\ Fresh # {}
    /\ editPoints' = Append(editPoints, Token)
    /\ UNCHANGED <<creating, zoneVars, ways, editId, stale>>

\* Mutant: the attributes are those of the preceding waypoint.
Committed_Shifted(old, pts) ==
    LET ids == {old[i].id : i \in DOMAIN old}
        top == IF ids = {} THEN -1 ELSE CHOOSE n \in ids : \A m \in ids : m <= n
    IN  [i \in DOMAIN pts |->
            IF i <= Len(old) THEN [old[IF i = 1 THEN 1 ELSE i - 1] EXCEPT !.id = old[i].id, !.at = pts[i]]
            ELSE [id |-> top + i - Len(old), own |-> pts[i], at |-> pts[i]]]

\* What Done makes of the manager's waypoints: identifiers and attributes by index,
\* beyond them new identifiers and default attributes.
Committed(old, pts) ==
    LET ids == {old[i].id : i \in DOMAIN old}
        top == IF ids = {} THEN -1 ELSE CHOOSE n \in ids : \A m \in ids : m <= n
    IN  [i \in DOMAIN pts |->
            IF i <= Len(old) THEN [old[i] EXCEPT !.at = pts[i]]
            ELSE [id |-> top + i - Len(old), own |-> pts[i], at |-> pts[i]]]

EndEditing ==
    /\ editId' = None
    /\ editPoints' = <<>>
    /\ stale' = FALSE
    /\ Entering("none", points, editingZone)
    /\ crossed' = (crossed \/ Drawing \/ held # 0)
    /\ UNCHANGED <<zone, held>>

\* Done and Cancel stand in the panel of the edited equipment, also after Escape.
CommitWaypoints ==
    /\ editId \in DOMAIN ways
    /\ editPoints # <<>>
    /\ ways' = [ways EXCEPT ![editId] = Committed(@, editPoints)]
    /\ \A i \in DOMAIN editPoints : ways'[editId][i].id <= MaxId
    /\ EndEditing

CancelWaypoints ==
    /\ editId \in DOMAIN ways
    /\ EndEditing
    /\ UNCHANGED ways

-----------------------------------------------------------------------------
(* The same panel edits the manager directly, in any mode.                   *)

\* The cross of a waypoint's card.
RemoveWaypoint(u, i) ==
    /\ ways' = [ways EXCEPT ![u] = RemoveAt(@, i)]
    /\ stale' = (stale \/ u = editId)
    /\ UNCHANGED <<creating, zoneVars, editId, editPoints>>

\* A position field of a waypoint's card loses the focus, or its slider moves.
UpdateWaypoint(u, i) ==
    /\ Fresh # {}
    /\ ways' = [ways EXCEPT ![u][i].own = Token, ![u][i].at = Token]
    /\ stale' = (stale \/ u = editId)
    /\ UNCHANGED <<creating, zoneVars, editId, editPoints>>

RemoveUserEquipment(u) ==
    /\ ways' = [v \in DOMAIN ways \ {u} |-> ways[v]]
    /\ stale' = (stale \/ u = editId)
    /\ UNCHANGED <<creating, zoneVars, editId, editPoints>>

\* A file or a database replaces the equipment; waypointEditingId is not reset.
ReplaceUserEquipment ==
    /\ ways' = Loaded
    /\ stale' = (editId # None)
    /\ UNCHANGED <<creating, zoneVars, editId, editPoints>>

Next ==
    \/ \E mode \in {"unit", "userEquipment", "spawnZone"} : StartCreatingEntity(mode)
    \/ CancelCreatingEntity
    \/ PlaceUnit
    \/ PlaceUserEquipment
    \/ \E p \in Point : AddSpawnZoneCreationPoint(p)
    \/ \E i \in 1..markers : RemoveSpawnZoneCreationPoint(i)
    \/ \E i \in 1..markers : HoldPoint(i)
    \/ \E p \in Point : UpdateSpawnZoneCreationPoint(p)
    \/ ReleasePoint
    \/ CommitSpawnZone
    \/ StartEditingSpawnZone
    \/ ReplaceZone
    \/ \E u \in DOMAIN ways : StartEditingWaypoints(u)
    \/ AddWaypoint
    \/ CommitWaypoints
    \/ CancelWaypoints
    \/ \E u \in DOMAIN ways : \E i \in DOMAIN ways[u] : RemoveWaypoint(u, i)
    \/ \E u \in DOMAIN ways : \E i \in DOMAIN ways[u] : UpdateWaypoint(u, i)
    \/ \E u \in DOMAIN ways : RemoveUserEquipment(u)
    \/ ReplaceUserEquipment

Spec == Init /\ [][Next]_vars

-----------------------------------------------------------------------------
\* As long as nobody changes an equipment while its waypoints are being edited,
\* Done gives every position back to the waypoint it belongs to: commitWaypoints
\* matches them by index against what the manager holds then.
PositionsKeepTheirWaypoint ==
    [][~stale => (\A u \in DOMAIN ways \cap DOMAIN ways' :
          u = editId /\ editId' = None =>
              \A i \in DOMAIN ways'[u] :
                  ways'[u][i].own = ways'[u][i].at \/ ways'[u][i] \in Range(ways[u]))]_vars

\* A click that adds a waypoint has an equipment to add it to.
ClicksHaveAnEquipment == creating = "waypoint" => editId # None

\* Unless modes are crossed, marker i is that of point i, so that a click on it or a
\* drag of it changes that point.
MarkersNumberPoints ==
    ~crossed => /\ creating = "spawnZone" => markers = Len(points)
                /\ held <= Len(points)

\* Unless modes are crossed, a zone drawn or edited that is left behind in the store
\* does not show up in the next one.
NothingLeftBehind == ~crossed /\ creating # "spawnZone" => points = <<>> /\ ~editingZone

\* Unless modes are crossed, the zone is a convex polygon around every point drawn,
\* while drawing and once committed.
ZoneSurroundsPoints ==
    LET edge(i) == <<zone[i], zone[IF i = Len(zone) THEN 1 ELSE i + 1]>>
        inside(p) == \A i \in DOMAIN zone : Cross(edge(i)[1], edge(i)[2], p) >= 0
    IN  ~crossed /\ Len(zone) >= 3 =>
            /\ \A i \in DOMAIN zone : inside(zone[i])
            /\ creating = "spawnZone" => \A i \in DOMAIN points : inside(points[i])
=============================================================================
