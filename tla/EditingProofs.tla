--------------------------- MODULE EditingProofs ---------------------------
(* Proofs about what the create menu and the forms do: Placement, where a     *)
(* click that adds a waypoint has an equipment to add it to, unless modes are *)
(* crossed nothing of a zone drawn before is left in the store, markers have  *)
(* the numbers of their points and the zone is a convex polygon around them,  *)
(* and waypoints keep their positions through an edit; and Assignment, where  *)
(* automatic radio units have the closest distributed unit, those assigned by *)
(* hand stay and additions replace nothing.  What is defined here for         *)
(* Assignment starts with "Assignment".                                       *)
EXTENDS Placement, Assignment, WellFoundedInduction, NaturalsInduction,
        FiniteSetTheorems, SequenceTheorems, TLAPS

-----------------------------------------------------------------------------
(* Placement: modes, the zone and the waypoints.                              *)

\* Outside the drawing of a zone, with no mode crossed, the store holds no point and
\* the layer no marker in hand: what every way into and out of a mode has to keep.
Clean ==
    ~crossed /\ creating # "spawnZone" => points = <<>> /\ editingZone = FALSE /\ held = 0

Numbers == DOMAIN ways \subseteq UE

IInv == ClicksHaveAnEquipment /\ Clean /\ Numbers

-----------------------------------------------------------------------------
\* What EndEditing does to the mode and to the zone, whatever happens to the waypoints.
LEMMA EndsClean ==
    ASSUME IInv, EndEditing, points' = points
    PROVE  ClicksHaveAnEquipment' /\ Clean'
  BY DEF IInv, EndEditing, Entering, Drawing, ClicksHaveAnEquipment, Clean, Numbers

\* IInv holds in every reachable state: no action but a crossing of modes leaves a
\* part of a zone behind, and the waypoint mode begins and ends with the edit.
THEOREM Inductive == Spec => []IInv
<1>1. Init => IInv
  BY BoundAssumption DEF Init, IInv, ClicksHaveAnEquipment, Clean, Numbers, Loaded, UE
<1>2. IInv /\ [Next]_vars => IInv'
  <2> SUFFICES ASSUME IInv, [Next]_vars PROVE IInv'
    OBVIOUS
  <2> USE DEF IInv
  <2>1. ASSUME NEW mode \in {"unit", "userEquipment", "spawnZone"}, StartCreatingEntity(mode)
        PROVE  IInv'
    BY <2>1 DEF StartCreatingEntity, Entering, ClicksHaveAnEquipment, Clean, Numbers, wayVars
  <2>2. CASE CancelCreatingEntity
    BY <2>2 DEF CancelCreatingEntity, Entering, ClicksHaveAnEquipment, Clean, Numbers, wayVars
  <2>3. CASE PlaceUnit
    BY <2>3 DEF PlaceUnit, Entering, ClicksHaveAnEquipment, Clean, Numbers, wayVars
  <2>4. CASE PlaceUserEquipment
    <3>1. Numbers'
      <4>1. PICK new \in UE : DOMAIN ways' = DOMAIN ways \cup {new}
        BY <2>4 DEF PlaceUserEquipment
      <4>. QED
        BY <4>1 DEF Numbers
    <3>. QED
      BY <2>4, <3>1 DEF PlaceUserEquipment, Entering, ClicksHaveAnEquipment, Clean
  <2>5. ASSUME NEW p \in Point, AddSpawnZoneCreationPoint(p) PROVE IInv'
    BY <2>5 DEF AddSpawnZoneCreationPoint, Drawing, ClicksHaveAnEquipment, Clean, Numbers, wayVars
  <2>6. ASSUME NEW i \in 1..markers, RemoveSpawnZoneCreationPoint(i) PROVE IInv'
    BY <2>6 DEF RemoveSpawnZoneCreationPoint, Drawing, ClicksHaveAnEquipment, Clean, Numbers, wayVars
  <2>7. ASSUME NEW i \in 1..markers, HoldPoint(i) PROVE IInv'
    BY <2>7 DEF HoldPoint, Drawing, ClicksHaveAnEquipment, Clean, Numbers, wayVars
  <2>8. ASSUME NEW p \in Point, UpdateSpawnZoneCreationPoint(p) PROVE IInv'
    BY <2>8 DEF UpdateSpawnZoneCreationPoint, ClicksHaveAnEquipment, Clean, Numbers, wayVars
  <2>9. CASE ReleasePoint
    BY <2>9 DEF ReleasePoint, ClicksHaveAnEquipment, Clean, Numbers, wayVars
  <2>10. CASE CommitSpawnZone
    BY <2>10 DEF CommitSpawnZone, Entering, ClicksHaveAnEquipment, Clean, Numbers, wayVars
  <2>11. CASE StartEditingSpawnZone
    BY <2>11 DEF StartEditingSpawnZone, Entering, Drawing, ClicksHaveAnEquipment, Clean, Numbers, wayVars
  <2>12. CASE ReplaceZone
    BY <2>12 DEF ReplaceZone, ClicksHaveAnEquipment, Clean, Numbers, wayVars
  <2>13. ASSUME NEW u \in DOMAIN ways, StartEditingWaypoints(u) PROVE IInv'
    <3>1. u # None
      BY BoundAssumption DEF Numbers, UE, None
    <3>. QED
      BY <2>13, <3>1 DEF StartEditingWaypoints, Entering, Drawing, ClicksHaveAnEquipment, Clean, Numbers
  <2>13a. CASE AddWaypoint
    BY <2>13a DEF AddWaypoint, ClicksHaveAnEquipment, Clean, Numbers, zoneVars
  <2>14. CASE CommitWaypoints
    BY <2>14, EndsClean DEF CommitWaypoints, EndEditing, Entering, Numbers
  <2>15. CASE CancelWaypoints
    BY <2>15, EndsClean DEF CancelWaypoints, EndEditing, Entering, Numbers
  <2>16. ASSUME NEW u \in DOMAIN ways, NEW i \in DOMAIN ways[u], RemoveWaypoint(u, i)
         PROVE  IInv'
    BY <2>16 DEF RemoveWaypoint, ClicksHaveAnEquipment, Clean, Numbers, zoneVars
  <2>17. ASSUME NEW u \in DOMAIN ways, NEW i \in DOMAIN ways[u], UpdateWaypoint(u, i)
         PROVE  IInv'
    BY <2>17 DEF UpdateWaypoint, ClicksHaveAnEquipment, Clean, Numbers, zoneVars
  <2>18. ASSUME NEW u \in DOMAIN ways, RemoveUserEquipment(u) PROVE IInv'
    BY <2>18 DEF RemoveUserEquipment, ClicksHaveAnEquipment, Clean, Numbers, zoneVars
  <2>19. CASE ReplaceUserEquipment
    BY <2>19, BoundAssumption
       DEF ReplaceUserEquipment, Loaded, UE, ClicksHaveAnEquipment, Clean, Numbers, zoneVars
  <2>20. CASE UNCHANGED vars
    BY <2>20 DEF vars, zoneVars, wayVars, ClicksHaveAnEquipment, Clean, Numbers
  <2> HIDE DEF IInv
  <2>. QED
    BY <2>1, <2>2, <2>3, <2>4, <2>5, <2>6, <2>7, <2>8, <2>9, <2>10, <2>11, <2>12, <2>13,
       <2>14, <2>15, <2>16, <2>17, <2>18, <2>19, <2>20, <2>13a DEF Next
<1>. QED
  BY <1>1, <1>2, PTL DEF Spec

\* A click that adds a waypoint always has an equipment being edited.
THEOREM ClicksLand == Spec => []ClicksHaveAnEquipment
<1>. IInv => ClicksHaveAnEquipment
  BY DEF IInv
<1>. QED
  BY Inductive, PTL

\* Whoever keeps to one mode at a time finds the store clean of the last zone.
THEOREM StartsClean == Spec => []NothingLeftBehind
<1>. IInv => NothingLeftBehind
  BY DEF IInv, Clean, NothingLeftBehind
<1>. QED
  BY Inductive, PTL

-----------------------------------------------------------------------------
(* Placement: the waypoints while they are edited.                            *)

\* A set of naturals with an element has a least.
LEMMA LeastExists ==
    ASSUME NEW S \in SUBSET Nat, S # {}
    PROVE  \E m \in S : \A j \in S : m <= j
<1>1. PICK m \in S : \A j \in S : ~(<<j, m>> \in OpToRel(<, Nat))
  BY NatLessThanWellFounded, WFMin
<1>2. ASSUME NEW j \in S PROVE m <= j
  <2>1. j \in Nat /\ m \in Nat
    OBVIOUS
  <2>2. ~(j < m)
    BY <1>1, <2>1 DEF OpToRel
  <2>. QED
    BY <2>1, <2>2
<1>. QED
  BY <1>2

\* And a greatest, if it is bounded.
LEMMA GreatestExists ==
    ASSUME NEW n \in Nat, NEW S \in SUBSET (0..n), S # {}
    PROVE  \E m \in S : \A j \in S : j <= m
<1> DEFINE T == {n - k : k \in S}
<1>1. T \subseteq Nat /\ T # {}
  <2>1. \A k \in S : n - k \in Nat
    OBVIOUS
  <2>2. PICK k \in S : TRUE
    OBVIOUS
  <2>3. n - k \in T
    OBVIOUS
  <2>. QED
    BY <2>1, <2>3
<1>2. PICK x \in T : \A y \in T : x <= y
  BY <1>1, LeastExists
<1>3. PICK m \in S : x = n - m
  OBVIOUS
<1>4. ASSUME NEW j \in S PROVE j <= m
  <2>1. n - j \in T /\ j \in 0..n /\ m \in 0..n
    OBVIOUS
  <2>2. n - m <= n - j
    BY <1>2, <1>3, <2>1
  <2> HIDE DEF T
  <2>. QED
    BY <2>1, <2>2
<1>. QED
  BY <1>4

\* Induction on the naturals, of a set.
LEMMA FromZeroOn ==
    ASSUME NEW S, 0 \in S, \A n \in Nat : n \in S => n + 1 \in S
    PROVE  \A n \in Nat : n \in S
<1> SUFFICES ASSUME NEW k \in Nat, k \notin S PROVE FALSE
  OBVIOUS
<1> DEFINE F == {n \in Nat : n \notin S}
<1>1. PICK m \in F : \A j \in F : m <= j
  <2>1. F \subseteq Nat /\ k \in F
    OBVIOUS
  <2>. QED
    BY <2>1, LeastExists
<1>2. m \in Nat /\ m # 0 /\ m \notin S
  OBVIOUS
<1>3. m - 1 \in Nat /\ ~(m <= m - 1) /\ (m - 1) + 1 = m
  BY <1>2
<1>4. m - 1 \in S
  BY <1>1, <1>3
<1>. QED
  BY <1>2, <1>3, <1>4

Waypoint == [id : 0..MaxId, own : Nat, at : Nat]

\* While an equipment is edited and nobody has changed it, the edited points start with
\* the positions of its waypoints, in their order.
EditFollows ==
    /\ ~stale /\ editId # None => editId \in DOMAIN ways
    /\ ~stale /\ editId \in DOMAIN ways =>
          /\ Len(ways[editId]) <= Len(editPoints)
          /\ \A i \in 1..Len(ways[editId]) : editPoints[i] = ways[editId][i].at

WaypointInv ==
    /\ Numbers
    /\ \A u \in DOMAIN ways : ways[u] \in Seq(Waypoint)
    /\ editPoints \in Seq(Nat)
    /\ EditFollows

\* The token given to a position is a natural number.
LEMMA TokenType ==
    ASSUME Fresh # {}
    PROVE  Token \in Nat
<1>1. Fresh \subseteq Nat
  BY BoundAssumption DEF Fresh
<1>2. \E t \in Fresh : \A s \in Fresh : t <= s
  BY <1>1, LeastExists
<1>. QED
  BY <1>1, <1>2 DEF Token

\* What Done makes of the waypoints has their type, once the identifiers are in bounds.
LEMMA CommittedType ==
    ASSUME NEW old \in Seq(Waypoint), NEW pts \in Seq(Nat),
           \A i \in DOMAIN pts : Committed(old, pts)[i].id <= MaxId
    PROVE  Committed(old, pts) \in Seq(Waypoint)
<1> DEFINE ids == {old[i].id : i \in DOMAIN old}
           top == IF ids = {} THEN -1 ELSE CHOOSE n \in ids : \A m \in ids : m <= n
           new(i) == IF i <= Len(old) THEN [old[i] EXCEPT !.at = pts[i]]
                     ELSE [id |-> top + i - Len(old), own |-> pts[i], at |-> pts[i]]
<1>0. /\ DOMAIN pts = 1..Len(pts) /\ Len(pts) \in Nat /\ \A i \in DOMAIN pts : pts[i] \in Nat
      /\ DOMAIN old = 1..Len(old) /\ Len(old) \in Nat /\ \A i \in DOMAIN old : old[i] \in Waypoint
  OBVIOUS
<1>1. ids \subseteq 0..MaxId
  BY <1>0 DEF Waypoint
<1>2. top \in Int /\ top >= -1
  <2>1. CASE ids = {}
    BY <2>1
  <2>2. CASE ids # {}
    <3> HIDE DEF ids
    <3>1. \E n \in ids : \A m \in ids : m <= n
      BY <1>1, <2>2, GreatestExists, BoundAssumption
    <3>2. top \in ids
      BY <2>2, <3>1
    <3>3. top \in 0..MaxId
      BY <1>1, <3>2
    <3> HIDE DEF top
    <3>. QED
      BY <3>3
  <2>. QED
    BY <2>1, <2>2
<1>3. Committed(old, pts) = [i \in DOMAIN pts |-> new(i)]
  BY DEF Committed
<1> HIDE DEF top
<1>4. ASSUME NEW i \in DOMAIN pts
      PROVE  new(i) \in Waypoint
  <2>1. CASE i <= Len(old)
    <3>1. old[i] \in Waypoint /\ pts[i] \in Nat
      BY <1>0, <2>1
    <3>2. [old[i] EXCEPT !.at = pts[i]] \in Waypoint
      BY <3>1 DEF Waypoint
    <3>. QED
      BY <2>1, <3>2
  <2>2. CASE ~(i <= Len(old))
    <3>1. new(i) = [id |-> top + i - Len(old), own |-> pts[i], at |-> pts[i]]
      BY <2>2
    <3>2. Committed(old, pts)[i] = new(i)
      BY <1>3
    <3>3. top + i - Len(old) <= MaxId
      BY <3>1, <3>2
    <3>4. top + i - Len(old) \in 0..MaxId
      BY <1>0, <1>2, <2>2, <3>3, BoundAssumption
    <3>5. pts[i] \in Nat
      BY <1>0
    <3> HIDE DEF new
    <3>. QED
      BY <3>1, <3>4, <3>5 DEF Waypoint
  <2>. QED
    BY <2>1, <2>2
<1> HIDE DEF new
<1>. QED
  BY <1>0, <1>3, <1>4

\* Removing a waypoint leaves a sequence of waypoints.
LEMMA RemovedType ==
    ASSUME NEW s \in Seq(Waypoint), NEW i \in 1..Len(s)
    PROVE  RemoveAt(s, i) \in Seq(Waypoint)
<1>1. SubSeq(s, 1, i - 1) \in Seq(Waypoint) /\ SubSeq(s, i + 1, Len(s)) \in Seq(Waypoint)
  OBVIOUS
<1>. QED
  BY <1>1 DEF RemoveAt

\* While the edit is undisturbed, what Done makes of a waypoint that was there is that
\* waypoint, and of a new one the same token twice.
LEMMA CommittedKeeps ==
    ASSUME NEW old \in Seq(Waypoint), NEW pts \in Seq(Nat),
           \A i \in 1..Len(old) : pts[i] = old[i].at,
           NEW i \in DOMAIN pts
    PROVE  LET new == Committed(old, pts)[i]
           IN  new.own = new.at \/ new \in Range(old)
<1>1. CASE i <= Len(old)
  <2>1. i \in DOMAIN old /\ old[i] \in Waypoint /\ pts[i] = old[i].at
    BY <1>1
  <2>2. Committed(old, pts)[i] = [old[i] EXCEPT !.at = pts[i]]
    BY <1>1 DEF Committed
  <2>3. [old[i] EXCEPT !.at = pts[i]] = old[i]
    BY <2>1 DEF Waypoint
  <2>. QED
    BY <2>1, <2>2, <2>3 DEF Range
<1>2. CASE ~(i <= Len(old))
  BY <1>2 DEF Committed
<1>. QED
  BY <1>1, <1>2

\* WaypointInv holds in every reachable state, whatever modes are crossed.
THEOREM WaypointsInductive == Spec => []WaypointInv
<1>1. Init => WaypointInv
  <2> SUFFICES ASSUME Init PROVE WaypointInv
    OBVIOUS
  <2>1. [id |-> 0, own |-> 1, at |-> 1] \in Waypoint
    BY BoundAssumption DEF Waypoint
  <2>2. DOMAIN ways = {0} /\ ways[0] = <<[id |-> 0, own |-> 1, at |-> 1]>>
    BY DEF Init, Loaded
  <2>3. ways[0] \in Seq(Waypoint)
    BY <2>1, <2>2
  <2>4. Numbers
    BY <2>2, BoundAssumption DEF Numbers, UE
  <2>5. editId = None /\ editPoints = <<>> /\ None \notin DOMAIN ways
    BY <2>2 DEF Init, None
  <2>6. editPoints \in Seq(Nat)
    BY <2>5
  <2>. QED
    BY <2>2, <2>3, <2>4, <2>5, <2>6 DEF WaypointInv, EditFollows
<1>2. WaypointInv /\ [Next]_vars => WaypointInv'
  <2> SUFFICES ASSUME WaypointInv, [Next]_vars PROVE WaypointInv'
    OBVIOUS
  <2>t. /\ DOMAIN ways \subseteq UE /\ None \notin DOMAIN ways
        /\ \A u \in DOMAIN ways : ways[u] \in Seq(Waypoint)
        /\ editPoints \in Seq(Nat)
        /\ EditFollows
    BY BoundAssumption DEF WaypointInv, Numbers, UE, None
  <2>1. CASE UNCHANGED wayVars
    BY <2>1 DEF WaypointInv, wayVars, Numbers, EditFollows
  <2>2. CASE PlaceUserEquipment
    <3>1. PICK new \in UE :
             ways' = [u \in DOMAIN ways \cup {new} |->
                        IF u = new THEN <<[id |-> 0, own |-> Token, at |-> Token]>> ELSE ways[u]]
      BY <2>2 DEF PlaceUserEquipment
    <3>2. PICK n \in Int : /\ n \notin DOMAIN ways
                           /\ ways' = [u \in DOMAIN ways \cup {n} |->
                                 IF u = n THEN <<[id |-> 0, own |-> Token, at |-> Token]>> ELSE ways[u]]
                           /\ n \in UE
      <4>1. CASE DOMAIN ways = {}
        BY <2>2, <4>1 DEF PlaceUserEquipment, UE
      <4>2. CASE DOMAIN ways # {}
        <5> DEFINE top == CHOOSE u \in DOMAIN ways : \A v \in DOMAIN ways : v <= u
        <5>1. \E u \in DOMAIN ways : \A v \in DOMAIN ways : v <= u
          BY <2>t, <4>2, GreatestExists, BoundAssumption DEF UE
        <5>2. top \in DOMAIN ways /\ \A v \in DOMAIN ways : v <= top
          BY <5>1
        <5>3. /\ 1 + top \in UE
              /\ ways' = [u \in DOMAIN ways \cup {1 + top} |->
                            IF u = 1 + top THEN <<[id |-> 0, own |-> Token, at |-> Token]>> ELSE ways[u]]
          BY <2>2, <4>2 DEF PlaceUserEquipment
        <5> HIDE DEF top
        <5>4. 1 + top \notin DOMAIN ways /\ 1 + top \in Int
          BY <2>t, <5>2, BoundAssumption DEF UE
        <5>. QED
          BY <5>3, <5>4
      <4>. QED
        BY <4>1, <4>2
    <3>3. Token \in Nat
      BY <2>2, TokenType DEF PlaceUserEquipment
    <3>4. [id |-> 0, own |-> Token, at |-> Token] \in Waypoint
      BY <3>3, BoundAssumption DEF Waypoint
    <3>5. <<[id |-> 0, own |-> Token, at |-> Token]>> \in Seq(Waypoint)
      BY <3>4
    <3>6. UNCHANGED <<editId, editPoints, stale>>
      BY <2>2 DEF PlaceUserEquipment
    <3>7. \A u \in DOMAIN ways' : ways'[u] \in Seq(Waypoint)
      BY <2>t, <3>2, <3>5
    <3>8. \A u \in DOMAIN ways : u \in DOMAIN ways' /\ ways'[u] = ways[u]
      BY <3>2
    <3>9. DOMAIN ways' = DOMAIN ways \cup {n}
      BY <3>2
    <3>10. EditFollows'
      <4>1. ASSUME ~stale', editId' # None PROVE editId' \in DOMAIN ways'
        BY <2>t, <3>6, <3>8, <4>1 DEF EditFollows
      <4>2. ASSUME ~stale', editId' \in DOMAIN ways'
            PROVE  /\ Len(ways'[editId']) <= Len(editPoints')
                   /\ \A i \in 1..Len(ways'[editId']) : editPoints'[i] = ways'[editId'][i].at
        <5>1. editId # None
          BY <3>2, <3>6, <4>2, <2>t, <3>9, BoundAssumption DEF UE, None
        <5>2. editId \in DOMAIN ways
          BY <2>t, <3>6, <4>2, <5>1 DEF EditFollows
        <5>. QED
          BY <2>t, <3>6, <3>8, <4>2, <5>2 DEF EditFollows
      <4>. QED
        BY <4>1, <4>2 DEF EditFollows
    <3>. QED
      BY <2>t, <3>2, <3>6, <3>7, <3>9, <3>10 DEF WaypointInv, Numbers
  <2>3. ASSUME NEW u \in DOMAIN ways, StartEditingWaypoints(u) PROVE WaypointInv'
    <3>1. editId' = u /\ editPoints' = [i \in DOMAIN ways[u] |-> ways[u][i].at] /\ ways' = ways
      BY <2>3 DEF StartEditingWaypoints
    <3>2. DOMAIN ways[u] = 1..Len(ways[u]) /\ Len(ways[u]) \in Nat
          /\ \A i \in 1..Len(ways[u]) : ways[u][i] \in Waypoint
      BY <2>t
    <3>3. \A i \in 1..Len(ways[u]) : ways[u][i].at \in Nat
      BY <3>2 DEF Waypoint
    <3>4. editPoints' \in Seq(Nat) /\ Len(editPoints') = Len(ways[u])
      BY <3>1, <3>2, <3>3
    <3>. QED
      BY <2>t, <3>1, <3>2, <3>4 DEF WaypointInv, Numbers, EditFollows
  <2>4. CASE AddWaypoint
    <3>1. editPoints' = Append(editPoints, Token) /\ Token \in Nat /\ UNCHANGED <<ways, editId, stale>>
      BY <2>4, TokenType DEF AddWaypoint
    <3>2. /\ editPoints' \in Seq(Nat) /\ Len(editPoints') = Len(editPoints) + 1 /\ Len(editPoints) \in Nat
          /\ \A i \in 1..Len(editPoints) : editPoints'[i] = editPoints[i]
      BY <2>t, <3>1
    <3>3. EditFollows'
      <4>1. \A u \in DOMAIN ways : Len(ways[u]) \in Nat
        BY <2>t
      <4>. QED
        BY <2>t, <3>1, <3>2, <4>1 DEF EditFollows
    <3>. QED
      BY <2>t, <3>1, <3>2, <3>3 DEF WaypointInv, Numbers
  <2>5. CASE CommitWaypoints
    <3>1. /\ editId \in DOMAIN ways
          /\ ways' = [ways EXCEPT ![editId] = Committed(ways[editId], editPoints)]
          /\ \A i \in DOMAIN editPoints : ways'[editId][i].id <= MaxId
          /\ editId' = None /\ editPoints' = <<>>
      BY <2>5 DEF CommitWaypoints, EndEditing
    <3>2. Committed(ways[editId], editPoints) \in Seq(Waypoint)
      <4>1. ways'[editId] = Committed(ways[editId], editPoints)
        BY <3>1
      <4>. QED
        BY <2>t, <3>1, <4>1, CommittedType
    <3>3. DOMAIN ways' = DOMAIN ways /\ \A u \in DOMAIN ways' : ways'[u] \in Seq(Waypoint)
      BY <2>t, <3>1, <3>2
    <3>4. editPoints' \in Seq(Nat)
      BY <3>1
    <3>. QED
      BY <2>t, <3>1, <3>3, <3>4 DEF WaypointInv, Numbers, EditFollows
  <2>6. CASE CancelWaypoints
    <3>1. editId' = None /\ editPoints' = <<>> /\ ways' = ways
      BY <2>6 DEF CancelWaypoints, EndEditing
    <3>2. editPoints' \in Seq(Nat)
      BY <3>1
    <3>. QED
      BY <2>t, <3>1, <3>2 DEF WaypointInv, Numbers, EditFollows
  <2>7. ASSUME NEW u \in DOMAIN ways, NEW i \in DOMAIN ways[u], RemoveWaypoint(u, i)
        PROVE  WaypointInv'
    <3>1. /\ ways' = [ways EXCEPT ![u] = RemoveAt(ways[u], i)]
          /\ stale' = (stale \/ u = editId)
          /\ UNCHANGED <<editId, editPoints>>
      BY <2>7 DEF RemoveWaypoint
    <3>2. ways[u] \in Seq(Waypoint) /\ i \in 1..Len(ways[u])
      BY <2>t
    <3>3. RemoveAt(ways[u], i) \in Seq(Waypoint)
      BY <3>2, RemovedType
    <3>4. DOMAIN ways' = DOMAIN ways /\ \A v \in DOMAIN ways' : ways'[v] \in Seq(Waypoint)
      BY <2>t, <3>1, <3>3
    <3>5. \A v \in DOMAIN ways \ {u} : ways'[v] = ways[v]
      BY <3>1
    <3>. QED
      BY <2>t, <3>1, <3>4, <3>5 DEF WaypointInv, Numbers, EditFollows
  <2>8. ASSUME NEW u \in DOMAIN ways, NEW i \in DOMAIN ways[u], UpdateWaypoint(u, i)
        PROVE  WaypointInv'
    <3>1. /\ ways' = [ways EXCEPT ![u][i].own = Token, ![u][i].at = Token]
          /\ stale' = (stale \/ u = editId)
          /\ UNCHANGED <<editId, editPoints>>
      BY <2>8 DEF UpdateWaypoint
    <3>2. ways[u] \in Seq(Waypoint) /\ i \in 1..Len(ways[u]) /\ ways[u][i] \in Waypoint
      BY <2>t
    <3>3. Token \in Nat
      BY <2>8, TokenType DEF UpdateWaypoint
    <3> DEFINE one == [ways EXCEPT ![u] = [ways[u] EXCEPT ![i] = [ways[u][i] EXCEPT !.own = Token]]]
    <3>4. [ways[u][i] EXCEPT !.own = Token] \in Waypoint
      BY <3>2, <3>3 DEF Waypoint
    <3>5. [ways[u] EXCEPT ![i] = [ways[u][i] EXCEPT !.own = Token]] \in Seq(Waypoint)
      BY <3>2, <3>4
    <3>6. DOMAIN one = DOMAIN ways /\ one[u] = [ways[u] EXCEPT ![i] = [ways[u][i] EXCEPT !.own = Token]]
          /\ \A v \in DOMAIN ways \ {u} : one[v] = ways[v]
      OBVIOUS
    <3>7. one[u] \in Seq(Waypoint) /\ i \in 1..Len(one[u]) /\ one[u][i] \in Waypoint
      BY <3>2, <3>4, <3>5, <3>6
    <3>8. ways' = [one EXCEPT ![u] = [one[u] EXCEPT ![i] = [one[u][i] EXCEPT !.at = Token]]]
      BY <3>1
    <3> HIDE DEF one
    <3>9. [one[u][i] EXCEPT !.at = Token] \in Waypoint
      BY <3>3, <3>7 DEF Waypoint
    <3>10. [one[u] EXCEPT ![i] = [one[u][i] EXCEPT !.at = Token]] \in Seq(Waypoint)
      BY <3>7, <3>9
    <3>11. DOMAIN ways' = DOMAIN ways /\ \A v \in DOMAIN ways' : ways'[v] \in Seq(Waypoint)
      BY <2>t, <3>6, <3>8, <3>10
    <3>12. \A v \in DOMAIN ways \ {u} : ways'[v] = ways[v]
      BY <3>6, <3>8
    <3>. QED
      BY <2>t, <3>1, <3>11, <3>12 DEF WaypointInv, Numbers, EditFollows
  <2>9. ASSUME NEW u \in DOMAIN ways, RemoveUserEquipment(u) PROVE WaypointInv'
    BY <2>t, <2>9 DEF RemoveUserEquipment, WaypointInv, Numbers, EditFollows
  <2>10. CASE ReplaceUserEquipment
    <3>1. ways' = Loaded /\ stale' = (editId # None) /\ UNCHANGED <<editId, editPoints>>
      BY <2>10 DEF ReplaceUserEquipment
    <3>2. [id |-> 0, own |-> 1, at |-> 1] \in Waypoint
      BY BoundAssumption DEF Waypoint
    <3>3. DOMAIN ways' = {0} /\ ways'[0] = <<[id |-> 0, own |-> 1, at |-> 1]>>
      BY <3>1 DEF Loaded
    <3>4. ways'[0] \in Seq(Waypoint) /\ None \notin DOMAIN ways' /\ DOMAIN ways' \subseteq UE
      BY <3>2, <3>3, BoundAssumption DEF None, UE
    <3>. QED
      BY <2>t, <3>1, <3>3, <3>4 DEF WaypointInv, Numbers, EditFollows
  <2>. QED
    BY <2>1, <2>2, <2>3, <2>4, <2>5, <2>6, <2>7, <2>8, <2>9, <2>10
       DEF Next, vars, StartCreatingEntity, CancelCreatingEntity, PlaceUnit, AddSpawnZoneCreationPoint,
           RemoveSpawnZoneCreationPoint, HoldPoint, UpdateSpawnZoneCreationPoint, ReleasePoint,
           CommitSpawnZone, StartEditingSpawnZone, ReplaceZone
<1>. QED
  BY <1>1, <1>2, PTL DEF Spec

\* An edit nobody interferes with gives every position back to the waypoint it is of.
THEOREM WaypointsKept == Spec => PositionsKeepTheirWaypoint
<1> DEFINE Kept == ~stale => (\A u \in DOMAIN ways \cap DOMAIN ways' :
          u = editId /\ editId' = None =>
              \A i \in DOMAIN ways'[u] :
                  ways'[u][i].own = ways'[u][i].at \/ ways'[u][i] \in Range(ways[u]))
<1>1. ASSUME WaypointInv, [Next]_vars
      PROVE  [Kept]_vars
  <2>t. /\ None \notin DOMAIN ways
        /\ \A u \in DOMAIN ways : ways[u] \in Seq(Waypoint)
        /\ editPoints \in Seq(Nat)
        /\ EditFollows
    BY <1>1, BoundAssumption DEF WaypointInv, Numbers, UE, None
  <2>1. CASE UNCHANGED editId
    BY <2>t, <2>1
  <2>2. ASSUME NEW u \in DOMAIN ways, StartEditingWaypoints(u) PROVE Kept
    BY <2>t, <2>2 DEF StartEditingWaypoints
  <2>3. CASE CommitWaypoints
    <3> SUFFICES ASSUME ~stale, NEW u \in DOMAIN ways \cap DOMAIN ways', u = editId,
                        NEW i \in DOMAIN ways'[u]
                 PROVE  ways'[u][i].own = ways'[u][i].at \/ ways'[u][i] \in Range(ways[u])
      OBVIOUS
    <3>1. ways'[u] = Committed(ways[u], editPoints)
      BY <2>3 DEF CommitWaypoints
    <3>2. DOMAIN ways'[u] = DOMAIN editPoints
      BY <3>1 DEF Committed
    <3>3. \A j \in 1..Len(ways[u]) : editPoints[j] = ways[u][j].at
      BY <2>t DEF EditFollows
    <3>. QED
      BY <2>t, <3>1, <3>2, <3>3, CommittedKeeps
  <2>4. CASE CancelWaypoints
    <3> SUFFICES ASSUME NEW u \in DOMAIN ways, NEW i \in DOMAIN ways[u]
                 PROVE  ways[u][i] \in Range(ways[u])
      BY <2>4 DEF CancelWaypoints
    <3>. QED
      BY DEF Range
  <2> HIDE DEF Kept
  <2>. QED
    BY <1>1, <2>1, <2>2, <2>3, <2>4
       DEF Next, vars, StartCreatingEntity, CancelCreatingEntity, PlaceUnit, PlaceUserEquipment,
           AddSpawnZoneCreationPoint, RemoveSpawnZoneCreationPoint, HoldPoint,
           UpdateSpawnZoneCreationPoint, ReleasePoint, CommitSpawnZone, StartEditingSpawnZone, ReplaceZone,
           AddWaypoint, RemoveWaypoint, UpdateWaypoint, RemoveUserEquipment, ReplaceUserEquipment, wayVars
<1>. QED
  BY <1>1, WaypointsInductive, PTL DEF Spec, PositionsKeepTheirWaypoint

-----------------------------------------------------------------------------
(* Placement: the hull.  A sweep is a sequence of points in the order of the  *)
(* plane, from west to east or back; a chain over it keeps what is swept on   *)
(* its left.  Of geometry the proof needs that among vectors that go forward  *)
(* turning left is transitive; the rest is about where chains are cut.        *)

(* Vectors of the plane: to the east, or straight to the north; what is left  *)
(* of what.                                                                   *)
Plane == Int \X Int
Forward(u) == u[1] > 0 \/ (u[1] = 0 /\ u[2] > 0)
Onward(u) == u[1] > 0 \/ (u[1] = 0 /\ u[2] >= 0)
Turn(u, v) == u[1] * v[2] - u[2] * v[1]

\* The vector from a to b, turned round when the sweep goes from east to west.
Step(f, a, b) == IF f THEN <<b[1] - a[1], b[2] - a[2]>> ELSE <<a[1] - b[1], a[2] - b[2]>>

\* The order of the sweep: from west to east when f, otherwise back.
Up(f, a, b) == IF f THEN Before(a, b) ELSE Before(b, a)
UpTo(f, a, b) == a = b \/ Up(f, a, b)

\* Among vectors that go forward, turning left is transitive.
LEMMA HalfPlane ==
    ASSUME NEW u \in Plane, NEW v \in Plane, NEW w \in Plane, Onward(u), Forward(v), Onward(w),
           Turn(u, v) >= 0, Turn(v, w) >= 0
    PROVE  /\ Turn(u, w) >= 0
           /\ Turn(u, v) > 0 /\ Turn(v, w) > 0 => Turn(u, w) > 0
<1> DEFINE ux == u[1]  uy == u[2]  vx == v[1]  vy == v[2]  wx == w[1]  wy == w[2]
<1>0. /\ ux \in Int /\ uy \in Int /\ vx \in Int /\ vy \in Int /\ wx \in Int /\ wy \in Int
      /\ ux > 0 \/ (ux = 0 /\ uy >= 0)
      /\ vx > 0 \/ (vx = 0 /\ vy > 0)
      /\ wx > 0 \/ (wx = 0 /\ wy >= 0)
      /\ Turn(u, v) = ux * vy - uy * vx
      /\ Turn(v, w) = vx * wy - vy * wx
      /\ Turn(u, w) = ux * wy - uy * wx
  BY DEF Plane, Onward, Forward, Turn
<1>u. ux * vy - uy * vx >= 0 /\ vx * wy - vy * wx >= 0
  BY <1>0
<1>g. SUFFICES /\ ux * wy - uy * wx >= 0
               /\ ux * vy - uy * vx > 0 /\ vx * wy - vy * wx > 0 => ux * wy - uy * wx > 0
  BY <1>0
<1> HIDE DEF ux, uy, vx, vy, wx, wy
<1>1. vx * (ux * wy - uy * wx) = ux * (vx * wy - vy * wx) + wx * (ux * vy - uy * vx)
  BY <1>0
<1>2. CASE vx > 0
  <2>1. ux * (vx * wy - vy * wx) >= 0 /\ wx * (ux * vy - uy * vx) >= 0
    BY <1>0, <1>u
  <2>2. ux * wy - uy * wx >= 0
    BY <1>0, <1>1, <1>2, <2>1
  <2>3. ASSUME ux * vy - uy * vx > 0, vx * wy - vy * wx > 0
        PROVE  ux * wy - uy * wx > 0
    <3>1. ux > 0 \/ wx > 0
      BY <1>0, <1>2, <2>3
    <3>2. ux > 0 => ux * (vx * wy - vy * wx) > 0
      BY <1>0, <2>3
    <3>3. wx > 0 => wx * (ux * vy - uy * vx) > 0
      BY <1>0, <2>3
    <3>. QED
      BY <1>0, <1>1, <1>2, <2>1, <3>1, <3>2, <3>3
  <2>. QED
    BY <2>2, <2>3
<1>3. CASE vx = 0
  <2>1. ux * vy >= 0 /\ vy * wx <= 0 /\ vy > 0
    BY <1>0, <1>u, <1>3
  <2>2. wx = 0
    BY <1>0, <2>1
  <2>3. uy * wx = 0 /\ vx * wy = 0 /\ vy * wx = 0 /\ ux * wy >= 0
    BY <1>0, <1>3, <2>2
  <2>. QED
    BY <1>0, <2>3
<1>. QED
  BY <1>0, <1>2, <1>3

\* Onward and forward are the order of the sweep.
LEMMA StepIs ==
    ASSUME NEW f \in BOOLEAN, NEW a \in Plane, NEW b \in Plane
    PROVE  /\ Step(f, a, b) \in Plane
           /\ Up(f, a, b) <=> Forward(Step(f, a, b))
           /\ UpTo(f, a, b) <=> Onward(Step(f, a, b))
<1>1. a[1] \in Int /\ a[2] \in Int /\ b[1] \in Int /\ b[2] \in Int /\ (a = b <=> a[1] = b[1] /\ a[2] = b[2])
  BY DEF Plane
<1>. QED
  BY <1>1 DEF Plane, Step, Up, UpTo, Before, Forward, Onward

\* Every way the cross product is used, as a turn between two steps.
LEMMA CrossIsTurn ==
    ASSUME NEW f \in BOOLEAN, NEW a \in Plane, NEW b \in Plane, NEW c \in Plane
    PROVE  /\ Cross(a, b, c) \in Int
           /\ Cross(a, b, c) = Turn(Step(f, a, b), Step(f, a, c))
           /\ Cross(a, b, c) = Turn(Step(f, a, b), Step(f, b, c))
           /\ Cross(a, b, c) = - Turn(Step(f, a, c), Step(f, a, b))
           /\ Cross(a, b, c) = Turn(Step(f, c, b), Step(f, a, b))
           /\ Cross(a, b, c) = Turn(Step(f, c, a), Step(f, a, b))
           /\ Cross(a, b, b) = 0 /\ Cross(a, b, a) = 0 /\ Cross(a, a, b) = 0
<1>1. /\ a[1] \in Int /\ a[2] \in Int /\ b[1] \in Int /\ b[2] \in Int /\ c[1] \in Int /\ c[2] \in Int
  BY DEF Plane
<1>2. /\ Cross(a, b, c) \in Int
      /\ Cross(a, b, b) = 0 /\ Cross(a, b, a) = 0 /\ Cross(a, a, b) = 0
  BY <1>1 DEF Cross
<1>3. /\ Cross(a, b, c) = Turn(Step(f, a, b), Step(f, a, c))
      /\ Cross(a, b, c) = Turn(Step(f, a, b), Step(f, b, c))
  BY <1>1 DEF Step, Turn, Cross
<1>4. Cross(a, b, c) = - Turn(Step(f, a, c), Step(f, a, b))
  BY <1>1 DEF Step, Turn, Cross
<1>5. Cross(a, b, c) = Turn(Step(f, c, b), Step(f, a, b))
  BY <1>1 DEF Step, Turn, Cross
<1>6. Cross(a, b, c) = Turn(Step(f, c, a), Step(f, a, b))
  BY <1>1 DEF Step, Turn, Cross
<1>. QED
  BY <1>2, <1>3, <1>4, <1>5, <1>6

\* The points of the plane are in order, whichever way the sweep goes.
LEMMA OrderTotal ==
    ASSUME NEW f \in BOOLEAN, NEW a \in Plane, NEW b \in Plane
    PROVE  /\ UpTo(f, a, b) \/ UpTo(f, b, a)
           /\ UpTo(f, a, b) /\ UpTo(f, b, a) => a = b
           /\ Up(f, a, b) => a # b
           /\ UpTo(f, a, b) <=> a = b \/ Up(f, a, b)
           /\ UpTo(f, a, b) <=> ~Up(f, b, a)
  BY DEF Plane, UpTo, Up, Before

\* And what comes later than a later point comes later.
LEMMA OrderTransitive ==
    ASSUME NEW f \in BOOLEAN, NEW a \in Plane, NEW b \in Plane, NEW c \in Plane, UpTo(f, a, b), UpTo(f, b, c)
    PROVE  /\ UpTo(f, a, c)
           /\ Up(f, a, b) \/ Up(f, b, c) => Up(f, a, c)
  BY DEF Plane, UpTo, Up, Before

\* A turn to the left before a turn to the left.
LEMMA TurnsOn ==
    ASSUME NEW f \in BOOLEAN, NEW a \in Plane, NEW b \in Plane, NEW c \in Plane, NEW d \in Plane,
           Up(f, a, b), Up(f, b, c), Up(f, c, d), Cross(a, b, c) > 0, Cross(b, c, d) > 0
    PROVE  Cross(a, b, d) > 0
<1> DEFINE u == Step(f, a, b)  v == Step(f, b, c)  w == Step(f, c, d)
<1>1. /\ u \in Plane /\ v \in Plane /\ w \in Plane
      /\ Forward(u) /\ Forward(v) /\ Forward(w)
  BY StepIs
<1>2. Turn(u, v) > 0 /\ Turn(v, w) > 0
  BY CrossIsTurn
<1>3. \A x \in Plane, y \in Plane : Turn(x, y) \in Int
  BY DEF Plane, Turn
<1>4. Cross(a, b, d) = Turn(u, v) + Turn(u, w)
  <2>1. /\ a[1] \in Int /\ a[2] \in Int /\ b[1] \in Int /\ b[2] \in Int /\ c[1] \in Int /\ c[2] \in Int
        /\ d[1] \in Int /\ d[2] \in Int
    BY DEF Plane
  <2>. QED
    BY <2>1 DEF Cross, Turn, Step
<1> HIDE DEF u, v, w
<1>5. Turn(u, v) \in Int /\ Turn(v, w) \in Int /\ Turn(u, w) \in Int
  BY <1>1, <1>3
<1>6. Onward(u) /\ Onward(w)
  BY <1>1 DEF Onward, Forward, Plane
<1>7. Turn(u, w) > 0
  BY <1>1, <1>2, <1>5, <1>6, HalfPlane
<1>. QED
  BY <1>2, <1>4, <1>5, <1>7

\* A point p that makes b concave: what is ahead of a stays on the left.
LEMMA AheadStays ==
    ASSUME NEW f \in BOOLEAN, NEW a \in Plane, NEW b \in Plane, NEW p \in Plane, NEW q \in Plane,
           Up(f, a, b), UpTo(f, a, p), UpTo(f, a, q), Cross(a, b, q) >= 0, Cross(a, b, p) <= 0
    PROVE  Cross(a, p, q) >= 0
<1> DEFINE u == Step(f, a, p)  v == Step(f, a, b)  w == Step(f, a, q)
<1>1. /\ u \in Plane /\ v \in Plane /\ w \in Plane
      /\ Onward(u) /\ Forward(v) /\ Onward(w)
  BY StepIs
<1>2. Turn(v, w) >= 0 /\ Cross(a, p, q) = Turn(u, w)
  BY CrossIsTurn
<1>3. Turn(u, v) >= 0
  <2>1. Cross(a, p, b) = Turn(u, v) /\ Cross(a, b, p) = - Turn(u, v)
    BY CrossIsTurn
  <2>2. Cross(a, p, b) \in Int
    BY CrossIsTurn
  <2>. QED
    BY <2>1, <2>2
<1> HIDE DEF u, v, w
<1>4. Turn(u, w) >= 0
  BY <1>1, <1>2, <1>3, HalfPlane
<1>. QED
  BY <1>2, <1>4

\* And what is behind a, left of the edge that ends there.
LEMMA BehindStays ==
    ASSUME NEW f \in BOOLEAN, NEW z \in Plane, NEW a \in Plane, NEW p \in Plane, NEW q \in Plane,
           Up(f, z, a), UpTo(f, a, p), UpTo(f, q, a), Cross(z, a, q) >= 0, Cross(z, a, p) >= 0
    PROVE  Cross(a, p, q) >= 0
<1> DEFINE u == Step(f, q, a)  v == Step(f, z, a)  w == Step(f, a, p)
<1>1. /\ u \in Plane /\ v \in Plane /\ w \in Plane
      /\ Onward(u) /\ Forward(v) /\ Onward(w)
  BY StepIs
<1>2. Turn(u, v) >= 0 /\ Turn(v, w) >= 0 /\ Cross(a, p, q) = Turn(u, w)
  BY CrossIsTurn
<1> HIDE DEF u, v, w
<1>4. Turn(u, w) >= 0
  BY <1>1, <1>2, HalfPlane
<1>. QED
  BY <1>2, <1>4

\* The recursion of Chain has a solution.
LEMMA ChainDefined ==
    ASSUME NEW s, Len(s) \in Nat
    PROVE  \E c : /\ Chain(s) = c[Len(s)] /\ c[0] = <<>>
                  /\ \A n \in 1..Len(s) : c[n] = Extend(c[n - 1], s[n])
<1> DEFINE Solves(c, m) == c = [n \in 0..m |-> IF n = 0 THEN <<>> ELSE Extend(c[n - 1], s[n])]
           S == {m \in Nat : \E c : Solves(c, m)}
<1>1. 0 \in S
  <2> DEFINE c == [n \in 0..0 |-> <<>>]
  <2>1. Solves(c, 0)
    OBVIOUS
  <2>. QED
    BY <2>1
<1>2. ASSUME NEW m \in Nat, m \in S PROVE m + 1 \in S
  <2>1. PICK c : Solves(c, m)
    BY <1>2
  <2>2. PICK d : d = [n \in 0..m + 1 |-> IF n = 0 THEN <<>> ELSE Extend(c[n - 1], s[n])]
    OBVIOUS
  <2>3. \A n \in 0..m : d[n] = c[n]
    BY <2>1, <2>2
  <2>4. \A n \in 1..m + 1 : d[n - 1] = c[n - 1]
    BY <2>3
  <2>5. \A n \in 0..m + 1 : (IF n = 0 THEN <<>> ELSE Extend(c[n - 1], s[n]))
                             = (IF n = 0 THEN <<>> ELSE Extend(d[n - 1], s[n]))
    BY <2>4
  <2>6. d = [n \in 0..m + 1 |-> IF n = 0 THEN <<>> ELSE Extend(d[n - 1], s[n])]
    BY <2>2, <2>5
  <2>. QED
    BY <2>6
<1>3. PICK c : Solves(c, Len(s))
  <2> HIDE DEF S
  <2>1. Len(s) \in S
    BY <1>1, <1>2, FromZeroOn
  <2>. QED
    BY <2>1 DEF S
<1> DEFINE e == CHOOSE x : Solves(x, Len(s))
<1>4. Solves(e, Len(s))
  BY <1>3
<1>5. Chain(s) = e[Len(s)]
  BY DEF Chain
<1> HIDE DEF e
<1>6. e[0] = <<>> /\ \A n \in 1..Len(s) : e[n] = Extend(e[n - 1], s[n])
  BY <1>4
<1>. QED
  BY <1>5, <1>6

\* The cross product is an integer, zero when two of the points are one.
LEMMA CrossIsFlat ==
    \A a \in Plane : \A b \in Plane :
        /\ Cross(a, b, b) = 0 /\ Cross(a, b, a) = 0 /\ Cross(a, a, b) = 0
        /\ \A c \in Plane : Cross(a, b, c) \in Int
  BY CrossIsTurn

\* d is the first k points of c and p, where the turn to p is to the left.
Trimmed(c, p, d, k) ==
    /\ k \in Nat /\ k <= Len(c)
    /\ Len(c) >= 1 => k >= 1
    /\ k >= 2 => Cross(c[k - 1], c[k], p) > 0
    /\ k >= 1 /\ k < Len(c) => ~(Cross(c[k], c[k + 1], p) > 0)
    /\ d \in Seq(Plane) /\ Len(d) = k + 1
    /\ \A i \in 1..k : d[i] = c[i]
    /\ d[k + 1] = p

\* computeConvexHull pops down to the last turn to the left, and pushes the point.
LEMMA ExtendIs ==
    ASSUME NEW c \in Seq(Plane), NEW p \in Plane
    PROVE  \E k : Trimmed(c, p, Extend(c, p), k)
<1> DEFINE stays == {k \in 0..Len(c) : k < 2 \/ Cross(c[k - 1], c[k], p) > 0}
           keep == CHOOSE k \in stays : \A j \in stays : j <= k
<1>1. Len(c) \in Nat /\ 0 \in stays /\ (Len(c) >= 1 => 1 \in stays)
  OBVIOUS
<1>2. \E k \in stays : \A j \in stays : j <= k
  BY <1>1, GreatestExists
<1>3. keep \in stays /\ \A j \in stays : j <= keep
  BY <1>2
<1>4. Extend(c, p) = Append(SubSeq(c, 1, keep), p)
  BY DEF Extend
<1> HIDE DEF keep
<1>5. keep \in 0..Len(c) /\ (keep >= 2 => Cross(c[keep - 1], c[keep], p) > 0) /\ (Len(c) >= 1 => keep >= 1)
  BY <1>1, <1>3
<1>6. ASSUME keep >= 1, keep < Len(c) PROVE ~(Cross(c[keep], c[keep + 1], p) > 0)
  <2>1. keep + 1 \notin stays
    BY <1>1, <1>3, <1>5
  <2>2. keep + 1 \in 0..Len(c) /\ (keep + 1) - 1 = keep /\ ~(keep + 1 < 2)
    BY <1>1, <1>5, <1>6
  <2>. QED
    BY <2>1, <2>2
<1>7. SubSeq(c, 1, keep) \in Seq(Plane) /\ Len(SubSeq(c, 1, keep)) = keep
      /\ \A i \in 1..keep : SubSeq(c, 1, keep)[i] = c[i]
  BY <1>5
<1>8. /\ Extend(c, p) \in Seq(Plane) /\ Len(Extend(c, p)) = keep + 1
      /\ \A i \in 1..keep : Extend(c, p)[i] = c[i]
      /\ Extend(c, p)[keep + 1] = p
  BY <1>4, <1>5, <1>7
<1>9. Trimmed(c, p, Extend(c, p), keep)
  BY <1>1, <1>5, <1>6, <1>8 DEF Trimmed
<1>. QED
  BY <1>9

Ordered(f, t) == \A i \in 1..Len(t) : \A j \in i..Len(t) : UpTo(f, t[i], t[j])

\* What a chain over the first n points of the sweep t is: it leads from the first point
\* to the last over points of the sweep and turns left at each; it goes forward, unless
\* there is only one point; and every point swept is on the left of every edge.
Swept(f, t, n, c) ==
    /\ c \in Seq(Plane) /\ Len(c) <= n
    /\ n >= 1 => Len(c) >= 1 /\ c[1] = t[1] /\ c[Len(c)] = t[n]
    /\ n >= 2 => Len(c) >= 2
    /\ \A k \in 1..Len(c) : \E i \in 1..n : c[k] = t[i]
    /\ \A k \in 1..Len(c) - 2 : Cross(c[k], c[k + 1], c[k + 2]) > 0
    /\ (\A k \in 1..Len(c) - 1 : Up(f, c[k], c[k + 1])) \/ (\A i \in 1..n : t[i] = t[1])
    /\ \A k \in 1..Len(c) - 1 : \A i \in 1..n : Cross(c[k], c[k + 1], t[i]) >= 0

\* The next point of the sweep: it is left of the edges kept, for otherwise the last of
\* them it is right of would have been popped; and what is left of the edges that meet
\* where the chain is cut is left of the edge to the point.
LEMMA SweptStep ==
    ASSUME NEW f \in BOOLEAN, NEW t \in Seq(Plane), Ordered(f, t), NEW n \in Nat, n < Len(t),
           NEW c, Swept(f, t, n, c)
    PROVE  Swept(f, t, n + 1, Extend(c, t[n + 1]))
<1>p. PICK p : p = t[n + 1]
  OBVIOUS
<1>m. PICK m : m = Len(c)
  OBVIOUS
<1>d. PICK d : d = Extend(c, p)
  OBVIOUS
<1>1. p \in Plane /\ c \in Seq(Plane) /\ m \in Nat /\ m <= n /\ Len(t) \in Nat
      /\ \A i \in 1..Len(t) : t[i] \in Plane
      /\ \A k \in 1..m : c[k] \in Plane
  BY <1>p, <1>m DEF Swept
<1>k. PICK K \in 0..m : Trimmed(c, p, d, K)
  <2>1. PICK k : Trimmed(c, p, d, k)
    BY <1>1, <1>d, ExtendIs
  <2>2. k \in 0..m
    BY <1>1, <1>m, <2>1 DEF Trimmed
  <2>. QED
    BY <2>1, <2>2
<1>2. /\ m >= 1 => K >= 1
      /\ K >= 2 => Cross(c[K - 1], c[K], p) > 0
      /\ K >= 1 /\ K < m => ~(Cross(c[K], c[K + 1], p) > 0)
      /\ d \in Seq(Plane) /\ Len(d) = K + 1
      /\ \A i \in 1..K : d[i] = c[i]
      /\ d[K + 1] = p
  BY <1>k, <1>m DEF Trimmed
<1>3. \A i \in 1..n + 1 : UpTo(f, t[i], p) /\ t[i] \in Plane /\ UpTo(f, t[1], t[i])
  BY <1>1, <1>p DEF Ordered
\* what has nothing to do with geometry
<1>4. /\ Len(d) <= n + 1 /\ Len(d) >= 1 /\ d[1] = t[1] /\ d[Len(d)] = t[n + 1]
      /\ n + 1 >= 2 => Len(d) >= 2
  <2>1. CASE n = 0
    BY <1>1, <1>2, <2>1, <1>p
  <2>2. CASE n >= 1
    <3>1. m >= 1 /\ c[1] = t[1]
      BY <2>2, <1>m DEF Swept
    <3>. QED
      BY <1>1, <1>2, <2>2, <3>1, <1>p
  <2>. QED
    BY <2>1, <2>2
<1>5. \A k \in 1..Len(d) : \E i \in 1..n + 1 : d[k] = t[i]
  <2>1. \A k \in 1..m : \E i \in 1..n : c[k] = t[i]
    BY <1>m DEF Swept
  <2>2. ASSUME NEW k \in 1..K PROVE \E i \in 1..n + 1 : d[k] = t[i]
    <3>1. k \in 1..m /\ d[k] = c[k]
      BY <1>1, <1>2
    <3>2. PICK i \in 1..n : c[k] = t[i]
      BY <2>1, <3>1
    <3>. QED
      BY <3>1, <3>2
  <2>3. d[K + 1] = t[n + 1] /\ n + 1 \in 1..n + 1
    BY <1>2, <1>p
  <2>4. \A k \in 1..Len(d) : k \in 1..K \/ k = K + 1
    BY <1>1, <1>2
  <2>. QED
    BY <2>2, <2>3, <2>4
<1>6. \A k \in 1..K : UpTo(f, d[k], p) /\ d[k] = c[k] /\ d[k] \in Plane
  <2> SUFFICES ASSUME NEW k \in 1..K PROVE UpTo(f, d[k], p) /\ d[k] = c[k] /\ d[k] \in Plane
    OBVIOUS
  <2>1. k \in 1..Len(d)
    BY <1>1, <1>2
  <2>2. PICK i \in 1..n + 1 : d[k] = t[i]
    BY <1>5, <2>1
  <2>3. d[k] = c[k]
    BY <1>2
  <2>. QED
    BY <1>3, <2>2, <2>3
<1>7. CASE \A i \in 1..n : t[i] = t[1]
  <2>1. \A k \in 1..m : c[k] = t[1]
    BY <1>7, <1>m DEF Swept
  <2>2. K <= 1
    <3>1. SUFFICES ASSUME K >= 2 PROVE FALSE
      BY <1>1
    <3>2. c[K - 1] = t[1] /\ c[K] = t[1] /\ t[1] \in Plane
      BY <1>1, <1>2, <2>1, <3>1
    <3>3. Cross(c[K - 1], c[K], p) = 0
      BY <1>1, <3>2, CrossIsFlat
    <3>. QED
      BY <1>2, <3>1, <3>3
  <2>3. \A k \in 1..Len(d) - 1 : k = 1 /\ K = 1 /\ d[k] = t[1] /\ d[k + 1] = p /\ t[1] \in Plane
    BY <1>1, <1>2, <2>1, <2>2
  <2>4. \A k \in 1..Len(d) - 1 : \A i \in 1..n + 1 : Cross(d[k], d[k + 1], t[i]) >= 0
    <3> SUFFICES ASSUME NEW k \in 1..Len(d) - 1, NEW i \in 1..n + 1 PROVE Cross(d[k], d[k + 1], t[i]) >= 0
      OBVIOUS
    <3>1. t[i] = t[1] \/ t[i] = p
      BY <1>7, <1>p
    <3>2. Cross(t[1], p, t[1]) = 0 /\ Cross(t[1], p, p) = 0
      BY <1>1, <2>3, CrossIsFlat
    <3>3. d[k] = t[1] /\ d[k + 1] = p
      BY <2>3
    <3>4. Cross(d[k], d[k + 1], t[i]) = 0
      BY <3>1, <3>2, <3>3
    <3>. QED
      BY <3>4
  <2>5. (\A k \in 1..Len(d) - 1 : Up(f, d[k], d[k + 1])) \/ (\A i \in 1..n + 1 : t[i] = t[1])
    <3>1. CASE p = t[1]
      BY <1>7, <3>1, <1>p
    <3>2. CASE p # t[1]
      <4>1. n + 1 \in 1..n + 1 /\ p = t[n + 1]
        BY <1>p
      <4>2. UpTo(f, t[1], p)
        BY <1>3, <4>1
      <4>3. Up(f, t[1], p)
        BY <3>2, <4>2 DEF UpTo
      <4>. QED
        BY <2>3, <4>3
    <3>. QED
      BY <3>1, <3>2
  <2>6. \A k \in 1..Len(d) - 2 : Cross(d[k], d[k + 1], d[k + 2]) > 0
    BY <1>2, <2>2
  <2>7. Swept(f, t, n + 1, d)
    BY <1>2, <1>4, <1>5, <2>4, <2>5, <2>6 DEF Swept
  <2>. QED
    BY <2>7, <1>p, <1>d
<1>8. CASE ~\A i \in 1..n : t[i] = t[1]
  <2>1. /\ \A k \in 1..m - 1 : Up(f, c[k], c[k + 1])
        /\ \A k \in 1..m - 2 : Cross(c[k], c[k + 1], c[k + 2]) > 0
        /\ \A k \in 1..m - 1 : \A i \in 1..n : Cross(c[k], c[k + 1], t[i]) >= 0
        /\ n >= 1 /\ m >= 1 /\ c[m] = t[n] /\ c[1] = t[1]
        /\ n >= 2 => m >= 2
    <3>1. n >= 1
      BY <1>8
    <3>. QED
      BY <1>1, <1>8, <3>1, <1>m DEF Swept
  <2>2. n >= 2 /\ m >= 2 /\ K >= 1
    BY <1>2, <1>8, <2>1
  \* the sweep has passed the end of what is kept
  <2>3. Up(f, c[K], p)
    <3>1. UpTo(f, c[K], p) /\ c[K] \in Plane
      BY <1>6, <2>2
    <3>2. CASE K = m
      <4>1. Cross(c[K - 1], c[K], p) > 0 /\ c[K - 1] \in Plane
        BY <1>1, <1>2, <2>2, <3>2
      <4>2. c[K] # p
        <5>1. c[K] = p => Cross(c[K - 1], c[K], p) = 0
          BY <1>1, <4>1, CrossIsFlat
        <5>. QED
          BY <4>1, <5>1
      <4>. QED
        BY <1>1, <3>1, <4>2, OrderTotal
    <3>3. CASE K < m
      <4>1. Up(f, c[K], c[K + 1]) /\ c[K + 1] \in Plane
        BY <1>1, <2>1, <2>2, <3>3
      <4>2. PICK i \in 1..n : c[K + 1] = t[i]
        BY <1>1, <2>2, <3>3, <1>m DEF Swept
      <4>3. UpTo(f, c[K + 1], p)
        BY <1>3, <4>2
      <4>4. UpTo(f, c[K], c[K + 1])
        BY <4>1 DEF UpTo
      <4>. QED
        BY <1>1, <3>1, <4>1, <4>3, <4>4, OrderTransitive
    <3>. QED
      BY <1>1, <3>2, <3>3
  <2>4. \A k \in 1..Len(d) - 1 : Up(f, d[k], d[k + 1])
    <3> SUFFICES ASSUME NEW k \in 1..K PROVE Up(f, d[k], d[k + 1])
      BY <1>2
    <3>1. CASE k = K
      BY <1>2, <1>6, <2>3, <3>1
    <3>2. CASE k < K
      <4>1. d[k] = c[k] /\ d[k + 1] = c[k + 1] /\ k \in 1..m - 1
        BY <1>1, <1>2, <3>2
      <4>. QED
        BY <2>1, <4>1
    <3>. QED
      BY <3>1, <3>2
  <2>5. \A k \in 1..Len(d) - 2 : Cross(d[k], d[k + 1], d[k + 2]) > 0
    <3> SUFFICES ASSUME NEW k \in 1..K - 1 PROVE Cross(d[k], d[k + 1], d[k + 2]) > 0
      BY <1>2
    <3>1. d[k] = c[k] /\ d[k + 1] = c[k + 1]
      BY <1>2
    <3>2. CASE k = K - 1
      BY <1>2, <3>1, <3>2
    <3>3. CASE k < K - 1
      <4>0. k + 2 \in 1..K /\ k \in 1..m - 2
        BY <1>1, <3>3
      <4>1. d[k + 2] = c[k + 2]
        BY <1>2, <4>0
      <4>. QED
        BY <2>1, <3>1, <4>0, <4>1
    <3>. QED
      BY <3>2, <3>3
  \* the new point is on the left of the edges that are kept
  <2>6. \A k \in 1..K - 1 : Cross(c[k], c[k + 1], p) > 0
    <3> DEFINE F == {k \in 0..K : k >= 1 /\ k <= K - 1 /\ ~(Cross(c[k], c[k + 1], p) > 0)}
    <3>1. SUFFICES ASSUME F # {} PROVE FALSE
      <4> SUFFICES ASSUME NEW k \in 1..K - 1, ~(Cross(c[k], c[k + 1], p) > 0) PROVE FALSE
        OBVIOUS
      <4>1. k \in F
        BY <1>1
      <4>. QED
        BY <3>1, <4>1
    <3>2. PICK k \in F : \A j \in F : j <= k
      <4>1. F \in SUBSET (0..K) /\ K \in Nat
        BY <1>1
      <4> HIDE DEF F
      <4>. QED
        BY <3>1, <4>1, GreatestExists
    <3>3. k \in 1..K - 1 /\ ~(Cross(c[k], c[k + 1], p) > 0)
      OBVIOUS
    <3>4. k # K - 1
      BY <1>2, <2>2, <3>3
    <3>5. k + 1 \in 1..K - 1 /\ k + 1 \notin F
      BY <3>2, <3>3, <3>4
    <3>6. Cross(c[k + 1], c[k + 2], p) > 0
      BY <3>5
    <3> HIDE DEF F
    <3>7. /\ c[k] \in Plane /\ c[k + 1] \in Plane /\ c[k + 2] \in Plane
          /\ Up(f, c[k], c[k + 1]) /\ Up(f, c[k + 1], c[k + 2]) /\ Cross(c[k], c[k + 1], c[k + 2]) > 0
      BY <1>1, <2>1, <3>3, <3>5
    <3>8. Up(f, c[k + 2], p)
      <4>1. CASE k + 2 = K
        BY <2>3, <4>1
      <4>2. CASE k + 2 < K
        <5>1. UpTo(f, c[k + 2], p) /\ UpTo(f, c[k + 3], p) /\ Up(f, c[k + 2], c[k + 3]) /\ c[k + 3] \in Plane
          BY <1>1, <1>6, <2>1, <3>3, <4>2
        <5>2. UpTo(f, c[k + 2], c[k + 3])
          BY <5>1 DEF UpTo
        <5>. QED
          BY <1>1, <3>7, <5>1, <5>2, OrderTransitive
      <4>. QED
        BY <1>1, <3>3, <3>5, <4>1, <4>2
    <3>. QED
      BY <1>1, <3>3, <3>6, <3>7, <3>8, TurnsOn
  \* everything swept is on the left of the new edge
  <2>7. \A i \in 1..n + 1 : Cross(c[K], p, t[i]) >= 0
    <3> SUFFICES ASSUME NEW i \in 1..n + 1 PROVE Cross(c[K], p, t[i]) >= 0
      OBVIOUS
    <3> DEFINE a == c[K]  q == t[i]
    <3>0. a \in Plane /\ q \in Plane /\ UpTo(f, a, p)
      BY <1>3, <1>6, <2>2
    <3> HIDE DEF a, q
    <3>1. CASE q = a \/ q = p
      <4>1. Cross(a, p, q) = 0
        BY <1>1, <3>0, <3>1, CrossIsFlat
      <4>. QED
        BY <4>1 DEF a, q
    <3>2. CASE q # a /\ q # p
      <4>0. i \in 1..n
        BY <3>2, <1>p DEF q
      <4>1. CASE UpTo(f, a, q)
        <5>1. K < m
          <6>1. SUFFICES ASSUME K = m PROVE FALSE
            BY <1>1
          <6>2. a = t[n] /\ UpTo(f, q, t[n])
            BY <1>1, <2>1, <4>0, <6>1 DEF Ordered, a, q
          <6>. QED
            BY <3>0, <3>2, <4>1, <6>2, OrderTotal
        <5>2. Up(f, a, c[K + 1]) /\ Cross(a, c[K + 1], q) >= 0 /\ c[K + 1] \in Plane
          <6>1. K \in 1..m - 1 /\ K + 1 \in 1..m
            BY <1>1, <2>2, <5>1
          <6>2. Up(f, c[K], c[K + 1]) /\ Cross(c[K], c[K + 1], t[i]) >= 0
            BY <2>1, <4>0, <6>1
          <6>. QED
            BY <1>1, <6>1, <6>2 DEF a, q
        <5>3. Cross(a, c[K + 1], p) <= 0
          <6>1. ~(Cross(a, c[K + 1], p) > 0)
            BY <1>2, <2>2, <5>1 DEF a
          <6>2. Cross(a, c[K + 1], p) \in Int
            BY <1>1, <3>0, <5>2, CrossIsTurn
          <6>. QED
            BY <6>1, <6>2
        <5>4. Cross(a, p, q) >= 0
          BY <1>1, <3>0, <4>1, <5>2, <5>3, AheadStays
        <5>. QED
          BY <5>4 DEF a, q
      <4>2. CASE UpTo(f, q, a)
        <5>1. K >= 2
          <6>1. SUFFICES ASSUME K = 1 PROVE FALSE
            BY <1>1, <2>2
          <6>2. UpTo(f, a, q)
            BY <1>3, <2>1, <6>1 DEF a, q
          <6>. QED
            BY <3>0, <3>2, <4>2, <6>2, OrderTotal
        <5>2. /\ Up(f, c[K - 1], a) /\ Cross(c[K - 1], a, q) >= 0 /\ c[K - 1] \in Plane
              /\ Cross(c[K - 1], a, p) > 0
          <6>1. K - 1 \in 1..m - 1 /\ (K - 1) + 1 = K
            BY <1>1, <5>1
          <6>. QED
            BY <1>1, <1>2, <2>1, <4>0, <5>1, <6>1 DEF a, q
        <5>3. Cross(c[K - 1], a, p) \in Int
          BY <1>1, <3>0, <5>2, CrossIsTurn
        <5>4. Cross(c[K - 1], a, p) >= 0
          BY <5>2, <5>3
        <5>5. Cross(a, p, q) >= 0
          BY <1>1, <3>0, <4>2, <5>2, <5>4, BehindStays
        <5>. QED
          BY <5>5 DEF a, q
      <4>. QED
        BY <3>0, <4>1, <4>2, OrderTotal
    <3>. QED
      BY <3>1, <3>2
  <2>8. \A k \in 1..Len(d) - 1 : \A i \in 1..n + 1 : Cross(d[k], d[k + 1], t[i]) >= 0
    <3> SUFFICES ASSUME NEW k \in 1..K, NEW i \in 1..n + 1 PROVE Cross(d[k], d[k + 1], t[i]) >= 0
      BY <1>2
    <3>1. CASE k = K
      BY <1>2, <1>6, <2>7, <3>1
    <3>2. CASE k < K
      <4>1. d[k] = c[k] /\ d[k + 1] = c[k + 1] /\ k \in 1..m - 1 /\ k \in 1..K - 1
        BY <1>1, <1>2, <3>2
      <4>2. CASE i \in 1..n
        BY <2>1, <4>1, <4>2
      <4>3. CASE i = n + 1
        <5>0. c[k] \in Plane /\ c[k + 1] \in Plane
          BY <1>1, <4>1
        <5>1. Cross(c[k], c[k + 1], p) > 0 /\ Cross(c[k], c[k + 1], p) \in Int
          BY <1>1, <2>6, <4>1, <5>0, CrossIsFlat
        <5>. QED
          BY <4>1, <4>3, <5>1, <1>p
      <4>. QED
        BY <4>2, <4>3
    <3>. QED
      BY <3>1, <3>2
  <2>9. Swept(f, t, n + 1, d)
    BY <1>2, <1>4, <1>5, <2>4, <2>5, <2>8 DEF Swept
  <2>. QED
    BY <2>9, <1>p, <1>d
<1>. QED
  BY <1>7, <1>8

\* The chain over a whole sweep.
LEMMA ChainSwept ==
    ASSUME NEW f \in BOOLEAN, NEW t \in Seq(Plane), Ordered(f, t)
    PROVE  Swept(f, t, Len(t), Chain(t))
<1>1. Len(t) \in Nat
  OBVIOUS
<1>2. PICK c : /\ Chain(t) = c[Len(t)] /\ c[0] = <<>>
               /\ \A n \in 1..Len(t) : c[n] = Extend(c[n - 1], t[n])
  BY <1>1, ChainDefined
<1> DEFINE S == {n \in Nat : n <= Len(t) => Swept(f, t, n, c[n])}
<1>3. 0 \in S
  <2>1. c[0] \in Seq(Plane) /\ Len(c[0]) = 0
    BY <1>2
  <2>2. Swept(f, t, 0, c[0])
    BY <2>1 DEF Swept
  <2>. QED
    BY <2>2
<1>4. ASSUME NEW n \in Nat, n \in S PROVE n + 1 \in S
  <2>1. SUFFICES ASSUME n + 1 <= Len(t) PROVE Swept(f, t, n + 1, c[n + 1])
    OBVIOUS
  <2>2. n < Len(t) /\ Swept(f, t, n, c[n])
    BY <1>1, <1>4, <2>1
  <2>3. c[n + 1] = Extend(c[n], t[n + 1])
    <3>1. n + 1 \in 1..Len(t) /\ (n + 1) - 1 = n
      BY <1>1, <2>1
    <3>. QED
      BY <1>2, <3>1
  <2>. QED
    BY <2>2, <2>3, SweptStep
<1> HIDE DEF S
<1>5. Len(t) \in S
  BY <1>1, <1>3, <1>4, FromZeroOn
<1>. QED
  BY <1>2, <1>5 DEF S

\* The recursion of Sorted has a solution.
LEMMA SortedDefined ==
    ASSUME NEW s, Len(s) \in Nat
    PROVE  \E c : /\ Sorted(s) = c[Len(s)] /\ c[0] = <<>>
                  /\ \A n \in 1..Len(s) : c[n] = Insert(c[n - 1], s[n])
<1> DEFINE Solves(c, m) == c = [n \in 0..m |-> IF n = 0 THEN <<>> ELSE Insert(c[n - 1], s[n])]
           S == {m \in Nat : \E c : Solves(c, m)}
<1>1. 0 \in S
  <2> DEFINE c == [n \in 0..0 |-> <<>>]
  <2>1. Solves(c, 0)
    OBVIOUS
  <2>. QED
    BY <2>1
<1>2. ASSUME NEW m \in Nat, m \in S PROVE m + 1 \in S
  <2>1. PICK c : Solves(c, m)
    BY <1>2
  <2>2. PICK d : d = [n \in 0..m + 1 |-> IF n = 0 THEN <<>> ELSE Insert(c[n - 1], s[n])]
    OBVIOUS
  <2>3. \A n \in 0..m : d[n] = c[n]
    BY <2>1, <2>2
  <2>4. \A n \in 1..m + 1 : d[n - 1] = c[n - 1]
    BY <2>3
  <2>5. \A n \in 0..m + 1 : (IF n = 0 THEN <<>> ELSE Insert(c[n - 1], s[n]))
                             = (IF n = 0 THEN <<>> ELSE Insert(d[n - 1], s[n]))
    BY <2>4
  <2>6. d = [n \in 0..m + 1 |-> IF n = 0 THEN <<>> ELSE Insert(d[n - 1], s[n])]
    BY <2>2, <2>5
  <2>. QED
    BY <2>6
<1>3. PICK c : Solves(c, Len(s))
  <2> HIDE DEF S
  <2>1. Len(s) \in S
    BY <1>1, <1>2, FromZeroOn
  <2>. QED
    BY <2>1 DEF S
<1> DEFINE e == CHOOSE x : Solves(x, Len(s))
<1>4. Solves(e, Len(s))
  BY <1>3
<1>5. Sorted(s) = e[Len(s)]
  BY DEF Sorted
<1> HIDE DEF e
<1>6. e[0] = <<>> /\ \A n \in 1..Len(s) : e[n] = Insert(e[n - 1], s[n])
  BY <1>4
<1>. QED
  BY <1>5, <1>6

\* d is the first k points of c, p, and the other points of c.
Put(c, p, d, k) ==
    /\ k \in 0..Len(c)
    /\ d \in Seq(Plane) /\ Len(d) = Len(c) + 1
    /\ \A i \in 1..k : d[i] = c[i] /\ UpTo(TRUE, c[i], p)
    /\ d[k + 1] = p
    /\ \A i \in k + 2..Len(c) + 1 : d[i] = c[i - 1]
    /\ k < Len(c) => Up(TRUE, p, c[k + 1])

\* Where Insert puts the point.
LEMMA InsertIs ==
    ASSUME NEW c \in Seq(Plane), NEW p \in Plane
    PROVE  \E k : Put(c, p, Insert(c, p), k)
<1> DEFINE first == {k \in 0..Len(c) : \A i \in 1..k : ~Before(p, c[i])}
           place == CHOOSE k \in first : \A j \in first : j <= k
<1>1. Len(c) \in Nat /\ 0 \in first
  OBVIOUS
<1>2. \E k \in first : \A j \in first : j <= k
  BY <1>1, GreatestExists
<1>3. place \in first /\ \A j \in first : j <= place
  BY <1>2
<1>4. Insert(c, p) = SubSeq(c, 1, place) \o <<p>> \o SubSeq(c, place + 1, Len(c))
  BY DEF Insert
<1> HIDE DEF place
<1>5. place \in 0..Len(c) /\ \A i \in 1..place : ~Before(p, c[i])
  BY <1>3
<1>6. ASSUME place < Len(c) PROVE Before(p, c[place + 1])
  <2>1. SUFFICES ASSUME ~Before(p, c[place + 1]) PROVE FALSE
    OBVIOUS
  <2>2. \A i \in 1..place + 1 : i \in 1..place \/ i = place + 1
    BY <1>1, <1>5
  <2>3. \A i \in 1..place + 1 : ~Before(p, c[i])
    BY <1>5, <2>1, <2>2
  <2>4. place + 1 \in first /\ ~(place + 1 <= place)
    BY <1>1, <1>5, <1>6, <2>3
  <2>. QED
    BY <1>3, <2>4
<1>7. /\ SubSeq(c, 1, place) \in Seq(Plane) /\ Len(SubSeq(c, 1, place)) = place
      /\ \A i \in 1..place : SubSeq(c, 1, place)[i] = c[i]
      /\ SubSeq(c, place + 1, Len(c)) \in Seq(Plane) /\ Len(SubSeq(c, place + 1, Len(c))) = Len(c) - place
      /\ \A i \in 1..Len(c) - place : SubSeq(c, place + 1, Len(c))[i] = c[place + i]
  BY <1>1, <1>5
<1>8. PICK a, b : a = SubSeq(c, 1, place) /\ b = SubSeq(c, place + 1, Len(c))
  OBVIOUS
<1>9. PICK e : e = a \o <<p>> /\ Insert(c, p) = e \o b
  BY <1>4, <1>8
<1>10. /\ a \in Seq(Plane) /\ Len(a) = place /\ b \in Seq(Plane) /\ Len(b) = Len(c) - place
       /\ \A i \in 1..place : a[i] = c[i]
       /\ \A i \in 1..Len(c) - place : b[i] = c[place + i]
  BY <1>7, <1>8
<1>11. e \in Seq(Plane) /\ Len(e) = place + 1 /\ e[place + 1] = p /\ \A i \in 1..place : e[i] = c[i]
  <2>1. PICK o : o = <<p>>
    OBVIOUS
  <2>2. o \in Seq(Plane) /\ Len(o) = 1 /\ o[1] = p
    BY <2>1
  <2>3. e = a \o o
    BY <1>9, <2>1
  <2>4. /\ e \in Seq(Plane) /\ Len(e) = Len(a) + Len(o)
        /\ \A i \in 1..Len(a) + Len(o) : e[i] = IF i <= Len(a) THEN a[i] ELSE o[i - Len(a)]
    BY <1>10, <2>2, <2>3, ConcatProperties
  <2>5. Len(a) = place /\ Len(o) = 1 /\ place \in Nat
    BY <1>1, <1>5, <1>10, <2>2
  <2>6. e[place + 1] = o[1]
    <3>1. place + 1 \in 1..place + 1 /\ ~(place + 1 <= place) /\ (place + 1) - place = 1
      BY <2>5
    <3>. QED
      BY <2>4, <2>5, <3>1
  <2>7. \A i \in 1..place : e[i] = a[i]
    BY <2>4, <2>5
  <2>. QED
    BY <1>10, <2>2, <2>4, <2>5, <2>6, <2>7
<1>13. /\ Insert(c, p) \in Seq(Plane) /\ Len(Insert(c, p)) = Len(c) + 1
       /\ \A i \in 1..place + 1 : Insert(c, p)[i] = e[i]
       /\ \A i \in place + 2..Len(c) + 1 : Insert(c, p)[i] = b[i - (place + 1)]
  <2>1. /\ e \o b \in Seq(Plane) /\ Len(e \o b) = Len(e) + Len(b)
        /\ \A i \in 1..Len(e) + Len(b) : (e \o b)[i] = IF i <= Len(e) THEN e[i] ELSE b[i - Len(e)]
    <3>1. e \in Seq(Plane) /\ b \in Seq(Plane)
      BY <1>10, <1>11
    <3>. QED
      BY <3>1, ConcatProperties
  <2>2. PICK g : g = e \o b
    OBVIOUS
  <2>3. /\ g \in Seq(Plane) /\ Len(g) = Len(e) + Len(b)
        /\ \A i \in 1..Len(e) + Len(b) : g[i] = IF i <= Len(e) THEN e[i] ELSE b[i - Len(e)]
    BY <2>1, <2>2
  <2>4. Len(e) = place + 1 /\ Len(b) = Len(c) - place /\ place \in Nat /\ Len(c) - place \in Nat
    BY <1>1, <1>5, <1>10, <1>11
  <2>5. Len(e) + Len(b) = Len(c) + 1
    BY <1>1, <2>4
  <2>6. \A i \in 1..place + 1 : g[i] = e[i]
    BY <1>1, <2>3, <2>4
  <2>7. ASSUME NEW i \in place + 2..Len(c) + 1 PROVE g[i] = b[i - (place + 1)]
    <3>1. i \in 1..Len(e) + Len(b) /\ ~(i <= Len(e)) /\ i - Len(e) = i - (place + 1)
      BY <1>1, <2>4
    <3>. QED
      BY <2>3, <3>1
  <2>8. Insert(c, p) = g
    BY <1>9, <2>2
  <2>. QED
    BY <2>3, <2>5, <2>6, <2>7, <2>8
<1>14. /\ \A i \in 1..place : Insert(c, p)[i] = c[i]
       /\ Insert(c, p)[place + 1] = p
  BY <1>1, <1>5, <1>11, <1>13
<1>15. ASSUME NEW i \in place + 2..Len(c) + 1 PROVE Insert(c, p)[i] = c[i - 1]
  <2>1. i - (place + 1) \in 1..Len(c) - place /\ place + (i - (place + 1)) = i - 1
    BY <1>1, <1>5
  <2>. QED
    BY <1>10, <1>13, <2>1
<1>16. \A i \in 1..place : UpTo(TRUE, c[i], p)
  <2> SUFFICES ASSUME NEW i \in 1..place PROVE UpTo(TRUE, c[i], p)
    OBVIOUS
  <2>1. c[i] \in Plane /\ ~Up(TRUE, p, c[i])
    BY <1>1, <1>5 DEF Up
  <2>. QED
    BY <2>1, OrderTotal
<1>17. place < Len(c) => Up(TRUE, p, c[place + 1])
  BY <1>6 DEF Up
<1>. QED
  BY <1>5, <1>13, <1>14, <1>15, <1>16, <1>17 DEF Put

\* The elements of s and t are the same.
SameElements(s, t) ==
    /\ \A i \in 1..Len(s) : \E j \in 1..Len(t) : s[i] = t[j]
    /\ \A j \in 1..Len(t) : \E i \in 1..Len(s) : s[i] = t[j]

\* Inserting where the order wants it keeps the order.
LEMMA InsertSorts ==
    ASSUME NEW c \in Seq(Plane), Ordered(TRUE, c), NEW p \in Plane
    PROVE  /\ Insert(c, p) \in Seq(Plane) /\ Len(Insert(c, p)) = Len(c) + 1
           /\ Ordered(TRUE, Insert(c, p))
           /\ \A i \in 1..Len(c) + 1 : Insert(c, p)[i] = p \/ \E j \in 1..Len(c) : Insert(c, p)[i] = c[j]
           /\ \E i \in 1..Len(c) + 1 : Insert(c, p)[i] = p
           /\ \A j \in 1..Len(c) : \E i \in 1..Len(c) + 1 : Insert(c, p)[i] = c[j]
<1>d. PICK d : d = Insert(c, p)
  OBVIOUS
<1>k. PICK k : Put(c, p, d, k)
  BY <1>d, InsertIs
<1>m. PICK m \in Nat : m = Len(c)
  OBVIOUS
<1>1. /\ k \in 0..m
      /\ d \in Seq(Plane) /\ Len(d) = m + 1
      /\ \A i \in 1..k : d[i] = c[i]
      /\ d[k + 1] = p
      /\ \A i \in k + 2..m + 1 : d[i] = c[i - 1]
  BY <1>k, <1>m DEF Put
<1>u. /\ \A i \in 1..k : UpTo(TRUE, c[i], p)
      /\ k < m => Up(TRUE, p, c[k + 1])
  BY <1>k, <1>m DEF Put
<1>2. \A i \in 1..m + 1 : i \in 1..k \/ i = k + 1 \/ i \in k + 2..m + 1
  BY <1>1
<1>3. \A i \in 1..m : c[i] \in Plane
  BY <1>m
<1>4. \A i \in 1..m : \A j \in i..m : UpTo(TRUE, c[i], c[j])
  BY <1>m DEF Ordered
<1>5. ASSUME NEW i \in k + 1..m PROVE UpTo(TRUE, p, c[i])
  <2>1. k + 1 \in 1..m /\ i \in k + 1..m /\ i \in 1..m
    BY <1>1
  <2>2. UpTo(TRUE, c[k + 1], c[i])
    BY <1>4, <2>1
  <2>3. Up(TRUE, p, c[k + 1])
    <3>1. k < m
      BY <1>1, <2>1
    <3>. QED
      BY <1>u, <3>1
  <2>4. UpTo(TRUE, p, c[k + 1])
    BY <2>3 DEF UpTo
  <2>. QED
    BY <1>3, <2>1, <2>2, <2>4, OrderTransitive
<1>6. Ordered(TRUE, d)
  <2> SUFFICES ASSUME NEW i \in 1..m + 1, NEW j \in i..m + 1 PROVE UpTo(TRUE, d[i], d[j])
    BY <1>1 DEF Ordered
  <2>0. j \in 1..m + 1
    OBVIOUS
  <2>1. CASE i \in 1..k
    <3>1. d[i] = c[i] /\ i \in 1..m
      BY <1>1, <2>1
    <3>2. CASE j \in 1..k
      <4>1. d[j] = c[j] /\ j \in i..m
        BY <1>1, <3>2
      <4>. QED
        BY <1>4, <3>1, <4>1
    <3>3. CASE j = k + 1
      BY <1>1, <1>u, <2>1, <3>1, <3>3
    <3>4. CASE j \in k + 2..m + 1
      <4>1. d[j] = c[j - 1] /\ j - 1 \in i..m
        BY <1>1, <2>1, <3>4
      <4>. QED
        BY <1>4, <3>1, <4>1
    <3>. QED
      BY <1>2, <2>0, <3>2, <3>3, <3>4
  <2>2. CASE i = k + 1
    <3>1. CASE j = k + 1
      BY <2>2, <3>1 DEF UpTo
    <3>2. CASE j \in k + 2..m + 1
      <4>1. d[j] = c[j - 1] /\ j - 1 \in k + 1..m
        BY <1>1, <3>2
      <4>. QED
        BY <1>1, <1>5, <2>2, <4>1
    <3>3. j = k + 1 \/ j \in k + 2..m + 1
      BY <1>1, <2>2
    <3>. QED
      BY <3>1, <3>2, <3>3
  <2>3. CASE i \in k + 2..m + 1
    <3>1. d[i] = c[i - 1] /\ d[j] = c[j - 1] /\ i - 1 \in 1..m /\ j - 1 \in i - 1..m
      BY <1>1, <2>3
    <3>. QED
      BY <1>4, <3>1
  <2>. QED
    BY <1>2, <2>1, <2>2, <2>3
<1>7. ASSUME NEW i \in 1..m + 1 PROVE d[i] = p \/ \E j \in 1..m : d[i] = c[j]
  <2>1. CASE i \in 1..k
    <3>1. d[i] = c[i] /\ i \in 1..m
      BY <1>1, <2>1
    <3>. QED
      BY <3>1
  <2>2. CASE i = k + 1
    BY <1>1, <2>2
  <2>3. CASE i \in k + 2..m + 1
    <3>1. d[i] = c[i - 1] /\ i - 1 \in 1..m
      BY <1>1, <2>3
    <3>. QED
      BY <3>1
  <2>. QED
    BY <1>2, <2>1, <2>2, <2>3
<1>8. \E i \in 1..m + 1 : d[i] = p
  <2>1. k + 1 \in 1..m + 1
    BY <1>1
  <2>. QED
    BY <1>1, <2>1
<1>9. ASSUME NEW j \in 1..m PROVE \E i \in 1..m + 1 : d[i] = c[j]
  <2>1. CASE j <= k
    <3>1. j \in 1..k /\ j \in 1..m + 1
      BY <1>1, <2>1
    <3>. QED
      BY <1>1, <3>1
  <2>2. CASE j > k
    <3>1. j + 1 \in k + 2..m + 1 /\ j + 1 \in 1..m + 1 /\ (j + 1) - 1 = j
      BY <1>1, <2>2
    <3>. QED
      BY <1>1, <3>1
  <2>. QED
    BY <1>1, <2>1, <2>2
<1>. QED
  BY <1>d, <1>m, <1>1, <1>6, <1>7, <1>8, <1>9

\* d is the first n points of s in their order.
Sorts(s, d, n) ==
    /\ d \in Seq(Plane) /\ Len(d) = n /\ Ordered(TRUE, d)
    /\ \A i \in 1..n : \E j \in 1..n : d[i] = s[j]
    /\ \A j \in 1..n : \E i \in 1..n : d[i] = s[j]

\* Sorted(s) is a rearrangement of s in order.
LEMMA SortedIs ==
    ASSUME NEW s \in Seq(Plane)
    PROVE  /\ Sorted(s) \in Seq(Plane) /\ Len(Sorted(s)) = Len(s)
           /\ Ordered(TRUE, Sorted(s)) /\ SameElements(Sorted(s), s)
<1>1. Len(s) \in Nat /\ \A i \in 1..Len(s) : s[i] \in Plane
  OBVIOUS
<1>2. PICK c : /\ Sorted(s) = c[Len(s)] /\ c[0] = <<>>
               /\ \A n \in 1..Len(s) : c[n] = Insert(c[n - 1], s[n])
  BY <1>1, SortedDefined
<1> DEFINE S == {n \in Nat : n <= Len(s) => Sorts(s, c[n], n)}
<1>3. 0 \in S
  <2>1. c[0] \in Seq(Plane) /\ Len(c[0]) = 0
    BY <1>2
  <2>2. Sorts(s, c[0], 0)
    BY <2>1 DEF Ordered, Sorts
  <2>. QED
    BY <2>2
<1>4. ASSUME NEW n \in Nat, n \in S PROVE n + 1 \in S
  <2>1. SUFFICES ASSUME n + 1 <= Len(s) PROVE Sorts(s, c[n + 1], n + 1)
    OBVIOUS
  <2>d. PICK d, e, p : d = c[n] /\ p = s[n + 1] /\ e = Insert(d, p)
    OBVIOUS
  <2>2. p \in Plane /\ c[n + 1] = e
    <3>1. n + 1 \in 1..Len(s) /\ (n + 1) - 1 = n
      BY <1>1, <2>1
    <3>. QED
      BY <1>1, <1>2, <2>d, <3>1
  <2>3. /\ d \in Seq(Plane) /\ Len(d) = n /\ Ordered(TRUE, d)
        /\ \A i \in 1..n : \E j \in 1..n : d[i] = s[j]
        /\ \A j \in 1..n : \E i \in 1..n : d[i] = s[j]
    <3>1. n <= Len(s)
      BY <1>1, <2>1
    <3>2. Sorts(s, d, n)
      BY <1>4, <2>d, <3>1
    <3>. QED
      BY <3>2 DEF Sorts
  <2> HIDE DEF S
  <2>4. /\ e \in Seq(Plane) /\ Len(e) = n + 1 /\ Ordered(TRUE, e)
        /\ \A i \in 1..n + 1 : e[i] = p \/ \E j \in 1..n : e[i] = d[j]
        /\ \E i \in 1..n + 1 : e[i] = p
        /\ \A j \in 1..n : \E i \in 1..n + 1 : e[i] = d[j]
    <3>1. /\ Insert(d, p) \in Seq(Plane) /\ Len(Insert(d, p)) = Len(d) + 1
          /\ Ordered(TRUE, Insert(d, p))
          /\ \A i \in 1..Len(d) + 1 : Insert(d, p)[i] = p \/ \E j \in 1..Len(d) : Insert(d, p)[i] = d[j]
          /\ \E i \in 1..Len(d) + 1 : Insert(d, p)[i] = p
          /\ \A j \in 1..Len(d) : \E i \in 1..Len(d) + 1 : Insert(d, p)[i] = d[j]
      BY <2>2, <2>3, InsertSorts
    <3>2. Insert(d, p) = e /\ Len(d) = n
      BY <2>3, <2>d
    <3>. QED
      BY <3>1, <3>2
  <2>5. ASSUME NEW i \in 1..n + 1 PROVE \E j \in 1..n + 1 : e[i] = s[j]
    <3>1. CASE e[i] = p
      BY <2>d, <3>1
    <3>2. CASE \E k \in 1..n : e[i] = d[k]
      <4>1. PICK k \in 1..n : e[i] = d[k]
        BY <3>2
      <4>2. PICK j \in 1..n : d[k] = s[j]
        BY <2>3, <4>1
      <4>. QED
        BY <4>1, <4>2
    <3>. QED
      BY <2>4, <3>1, <3>2
  <2>6. ASSUME NEW j \in 1..n + 1 PROVE \E i \in 1..n + 1 : e[i] = s[j]
    <3>1. CASE j = n + 1
      BY <2>4, <2>d, <3>1
    <3>2. CASE j \in 1..n
      <4>1. PICK k \in 1..n : d[k] = s[j]
        BY <2>3, <3>2
      <4>2. PICK i \in 1..n + 1 : e[i] = d[k]
        BY <2>4, <4>1
      <4>. QED
        BY <4>1, <4>2
    <3>. QED
      BY <3>1, <3>2
  <2>. QED
    BY <2>2, <2>4, <2>5, <2>6 DEF Sorts
<1> HIDE DEF S
<1>5. Len(s) \in S
  BY <1>1, <1>3, <1>4, FromZeroOn
<1>. QED
  <2>1. Sorts(s, Sorted(s), Len(s))
    BY <1>1, <1>2, <1>5 DEF S
  <2>. QED
    BY <1>1, <2>1 DEF Sorts, SameElements

\* A sweep from west to east, read backwards, is one from east to west.
LEMMA ReverseIs ==
    ASSUME NEW t \in Seq(Plane), Ordered(TRUE, t)
    PROVE  /\ Reverse(t) \in Seq(Plane) /\ Len(Reverse(t)) = Len(t)
           /\ Ordered(FALSE, Reverse(t)) /\ SameElements(Reverse(t), t)
           /\ Len(t) >= 1 => Reverse(t)[1] = t[Len(t)] /\ Reverse(t)[Len(t)] = t[1]
<1>1. PICK r : r = Reverse(t)
  OBVIOUS
<1>2. PICK n \in Nat : n = Len(t)
  OBVIOUS
<1>3. /\ \A i \in 1..n : t[i] \in Plane
      /\ r = [i \in 1..n |-> t[(n - i) + 1]]
  BY <1>1, <1>2 DEF Reverse
<1>4. \A i \in 1..n : (n - i) + 1 \in 1..n /\ r[i] = t[(n - i) + 1]
  BY <1>3
<1>5. r \in Seq(Plane) /\ Len(r) = n
  BY <1>3, <1>4
<1>6. Ordered(FALSE, r)
  <2> SUFFICES ASSUME NEW i \in 1..n, NEW j \in i..n PROVE UpTo(FALSE, r[i], r[j])
    BY <1>5 DEF Ordered
  <2>1. (n - j) + 1 \in 1..n /\ (n - i) + 1 \in (n - j) + 1..n /\ j \in 1..n
    OBVIOUS
  <2>2. UpTo(TRUE, t[(n - j) + 1], t[(n - i) + 1])
    BY <1>2, <2>1 DEF Ordered
  <2>3. UpTo(TRUE, r[j], r[i])
    BY <1>4, <2>1, <2>2
  <2>. QED
    BY <2>3 DEF UpTo, Up
<1>7. \A j \in 1..n : \E i \in 1..n : r[i] = t[j]
  <2> SUFFICES ASSUME NEW j \in 1..n PROVE \E i \in 1..n : r[i] = t[j]
    OBVIOUS
  <2>1. (n - j) + 1 \in 1..n /\ (n - ((n - j) + 1)) + 1 = j
    OBVIOUS
  <2>. QED
    BY <1>4, <2>1
<1>8. SameElements(r, t)
  BY <1>2, <1>4, <1>5, <1>7 DEF SameElements
<1>9. n >= 1 => r[1] = t[n] /\ r[n] = t[1]
  BY <1>4
<1>. QED
  BY <1>1, <1>2, <1>5, <1>6, <1>8, <1>9

\* q is on no edge's right.
Surrounds(h, q) == \A i \in DOMAIN h : Cross(h[i], h[IF i = Len(h) THEN 1 ELSE i + 1], q) >= 0

\* Two chains that end where the other begins, each with the points on its left, make a polygon.
LEMMA ChainsClose ==
    ASSUME NEW a \in Seq(Plane), NEW b \in Seq(Plane), Len(a) >= 2, Len(b) >= 2,
           a[Len(a)] = b[1], b[Len(b)] = a[1], NEW q \in Plane,
           \A k \in 1..Len(a) - 1 : Cross(a[k], a[k + 1], q) >= 0,
           \A k \in 1..Len(b) - 1 : Cross(b[k], b[k + 1], q) >= 0
    PROVE  Surrounds(Front(a) \o Front(b), q)
<1>1. PICK m \in Nat, n \in Nat : m = Len(a) - 1 /\ n = Len(b) - 1 /\ m >= 1 /\ n >= 1
  <2>1. Len(a) - 1 \in Nat /\ Len(b) - 1 \in Nat /\ Len(a) - 1 >= 1 /\ Len(b) - 1 >= 1
    OBVIOUS
  <2>. QED
    BY <2>1
<1>2. PICK x, y, h : x = Front(a) /\ y = Front(b) /\ h = x \o y
  OBVIOUS
<1>3. /\ x \in Seq(Plane) /\ Len(x) = m /\ \A i \in 1..m : x[i] = a[i]
      /\ y \in Seq(Plane) /\ Len(y) = n /\ \A i \in 1..n : y[i] = b[i]
  BY <1>1, <1>2 DEF Front
<1>4. /\ h \in Seq(Plane) /\ Len(h) = Len(x) + Len(y)
      /\ \A i \in 1..Len(x) + Len(y) : h[i] = IF i <= Len(x) THEN x[i] ELSE y[i - Len(x)]
  <2>1. /\ x \o y \in Seq(Plane) /\ Len(x \o y) = Len(x) + Len(y)
        /\ \A i \in 1..Len(x) + Len(y) : (x \o y)[i] = IF i <= Len(x) THEN x[i] ELSE y[i - Len(x)]
    <3>1. x \in Seq(Plane) /\ y \in Seq(Plane)
      BY <1>3
    <3>. QED
      BY <3>1, ConcatProperties
  <2>2. h = x \o y
    BY <1>2
  <2>. QED
    BY <2>1, <2>2
<1>5. \A i \in 1..m : h[i] = a[i]
  BY <1>3, <1>4
<1>6. \A i \in 1..n : h[m + i] = b[i]
  <2> SUFFICES ASSUME NEW i \in 1..n PROVE h[m + i] = b[i]
    OBVIOUS
  <2>1. m + i \in 1..m + n /\ ~(m + i <= m) /\ (m + i) - m = i
    BY <1>1
  <2>2. h[m + i] = y[i]
    BY <1>3, <1>4, <2>1
  <2>. QED
    BY <1>3, <2>2
<1>7. SUFFICES ASSUME NEW i \in 1..m + n PROVE Cross(h[i], h[IF i = m + n THEN 1 ELSE i + 1], q) >= 0
  <2>1. DOMAIN h = 1..m + n /\ Len(h) = m + n
    BY <1>3, <1>4
  <2>. QED
    BY <1>2, <2>1 DEF Surrounds
<1>8. CASE i <= m
  <2>1. i \in 1..Len(a) - 1 /\ i # m + n
    BY <1>1, <1>8
  <2>2. h[i + 1] = a[i + 1]
    <3>1. CASE i = m
      <4>1. h[m + 1] = b[1] /\ a[m + 1] = b[1]
        BY <1>1, <1>6
      <4>. QED
        BY <3>1, <4>1
    <3>2. CASE i # m
      <4>1. i + 1 \in 1..m
        BY <1>8, <3>2
      <4>. QED
        BY <1>5, <4>1
    <3>. QED
      BY <3>1, <3>2
  <2>3. h[i] = a[i]
    BY <1>5, <1>8
  <2>. QED
    BY <2>1, <2>2, <2>3
<1>9. CASE i > m
  <2>1. PICK j \in 1..n : i = m + j
    <3>1. i - m \in 1..n /\ i = m + (i - m)
      BY <1>1, <1>9
    <3>. QED
      BY <3>1
  <2>2. h[i] = b[j] /\ j \in 1..Len(b) - 1
    BY <1>1, <1>6, <2>1
  <2>3. h[IF i = m + n THEN 1 ELSE i + 1] = b[j + 1]
    <3>1. CASE j = n
      <4>1. (IF i = m + n THEN 1 ELSE i + 1) = 1
        BY <2>1, <3>1
      <4>2. h[1] = a[1]
        BY <1>1, <1>5
      <4>3. b[j + 1] = a[1]
        <5>1. j + 1 = Len(b)
          BY <1>1, <3>1
        <5>. QED
          BY <5>1
      <4>. QED
        BY <4>1, <4>2, <4>3
    <3>2. CASE j # n
      <4>1. j + 1 \in 1..n /\ i # m + n /\ i + 1 = m + (j + 1)
        BY <2>1, <3>2
      <4>2. h[m + (j + 1)] = b[j + 1]
        BY <1>6, <4>1
      <4>3. (IF i = m + n THEN 1 ELSE i + 1) = m + (j + 1)
        BY <4>1
      <4>. QED
        BY <4>2, <4>3
    <3>. QED
      BY <3>1, <3>2
  <2>. QED
    BY <2>2, <2>3
<1>. QED
  BY <1>1, <1>8, <1>9

\* The hull of a drawing goes through points of it, and is around all of them.
THEOREM HullIs ==
    ASSUME NEW s \in Seq(Plane), Len(s) >= 3
    PROVE  /\ Hull(s) \in Seq(Plane) /\ Len(Hull(s)) >= 2
           /\ \A i \in 1..Len(Hull(s)) : \E j \in 1..Len(s) : Hull(s)[i] = s[j]
           /\ \A j \in 1..Len(s) : Surrounds(Hull(s), s[j])
<1>1. PICK n \in Nat : n = Len(s) /\ n >= 3
  OBVIOUS
<1>2. PICK t, r, a, b : t = Sorted(s) /\ r = Reverse(t) /\ a = Chain(t) /\ b = Chain(r)
  OBVIOUS
<1>3. Hull(s) = Front(a) \o Front(b)
  BY <1>1, <1>2 DEF Hull
<1>4. t \in Seq(Plane) /\ Len(t) = n /\ Ordered(TRUE, t) /\ SameElements(t, s)
  BY <1>1, <1>2, SortedIs
<1>5. /\ r \in Seq(Plane) /\ Len(r) = n /\ Ordered(FALSE, r) /\ SameElements(r, t)
      /\ r[1] = t[n] /\ r[n] = t[1]
  <2>1. /\ r \in Seq(Plane) /\ Len(r) = Len(t) /\ Ordered(FALSE, r) /\ SameElements(r, t)
        /\ Len(t) >= 1 => r[1] = t[Len(t)] /\ r[Len(t)] = t[1]
    BY <1>2, <1>4, ReverseIs
  <2>2. r \in Seq(Plane) /\ Len(r) = n /\ Ordered(FALSE, r) /\ SameElements(r, t)
    BY <1>4, <2>1
  <2>3. r[1] = t[n] /\ r[n] = t[1]
    <3>1. Len(t) = n /\ Len(t) >= 1
      BY <1>1, <1>4
    <3>. QED
      BY <2>1, <3>1
  <2>. QED
    BY <2>2, <2>3
<1>6. Swept(TRUE, t, n, a) /\ Swept(FALSE, r, n, b)
  <2>1. Swept(TRUE, t, Len(t), Chain(t))
    BY <1>4, ChainSwept
  <2>2. Swept(FALSE, r, Len(r), Chain(r))
    BY <1>5, ChainSwept
  <2>. QED
    BY <1>2, <1>4, <1>5, <2>1, <2>2
<1>7. /\ a \in Seq(Plane) /\ Len(a) >= 2 /\ a[1] = t[1] /\ a[Len(a)] = t[n]
      /\ \A k \in 1..Len(a) : \E i \in 1..n : a[k] = t[i]
      /\ \A k \in 1..Len(a) - 1 : \A i \in 1..n : Cross(a[k], a[k + 1], t[i]) >= 0
  BY <1>1, <1>6 DEF Swept
<1>8. /\ b \in Seq(Plane) /\ Len(b) >= 2 /\ b[1] = r[1] /\ b[Len(b)] = r[n]
      /\ \A k \in 1..Len(b) : \E i \in 1..n : b[k] = r[i]
      /\ \A k \in 1..Len(b) - 1 : \A i \in 1..n : Cross(b[k], b[k + 1], r[i]) >= 0
  BY <1>1, <1>6 DEF Swept
<1>9. ASSUME NEW j \in 1..n PROVE Surrounds(Hull(s), s[j])
  <2>1. PICK i \in 1..n : t[i] = s[j]
    BY <1>1, <1>4 DEF SameElements
  <2>2. PICK k \in 1..n : r[k] = t[i]
    BY <1>4, <1>5 DEF SameElements
  <2>3. \A l \in 1..Len(a) - 1 : Cross(a[l], a[l + 1], s[j]) >= 0
    BY <1>7, <2>1
  <2>4. \A l \in 1..Len(b) - 1 : Cross(b[l], b[l + 1], s[j]) >= 0
    BY <1>8, <2>1, <2>2
  <2>5. s[j] \in Plane
    BY <1>1
  <2>6. a[Len(a)] = b[1] /\ b[Len(b)] = a[1]
    BY <1>5, <1>7, <1>8
  <2>7. Surrounds(Front(a) \o Front(b), s[j])
    BY <1>7, <1>8, <2>3, <2>4, <2>5, <2>6, ChainsClose
  <2>. QED
    BY <1>3, <2>7
<1>10. PICK x, y, h : x = Front(a) /\ y = Front(b) /\ h = Hull(s)
  OBVIOUS
<1>11. /\ x \in Seq(Plane) /\ Len(x) = Len(a) - 1 /\ \A i \in 1..Len(x) : x[i] = a[i]
       /\ y \in Seq(Plane) /\ Len(y) = Len(b) - 1 /\ \A i \in 1..Len(y) : y[i] = b[i]
  BY <1>7, <1>8, <1>10 DEF Front
<1>12. /\ h \in Seq(Plane) /\ Len(h) = Len(x) + Len(y)
       /\ \A i \in 1..Len(x) + Len(y) : h[i] = IF i <= Len(x) THEN x[i] ELSE y[i - Len(x)]
  <2>1. /\ x \o y \in Seq(Plane) /\ Len(x \o y) = Len(x) + Len(y)
        /\ \A i \in 1..Len(x) + Len(y) : (x \o y)[i] = IF i <= Len(x) THEN x[i] ELSE y[i - Len(x)]
    <3>1. x \in Seq(Plane) /\ y \in Seq(Plane)
      BY <1>11
    <3>. QED
      BY <3>1, ConcatProperties
  <2>2. h = x \o y
    BY <1>3, <1>10
  <2>. QED
    BY <2>1, <2>2
<1>13. Len(h) >= 2
  BY <1>7, <1>8, <1>11, <1>12
<1>14. ASSUME NEW i \in 1..Len(h) PROVE \E j \in 1..n : h[i] = s[j]
  <2>1. (\E k \in 1..Len(a) : h[i] = a[k]) \/ (\E k \in 1..Len(b) : h[i] = b[k])
    <3>1. CASE i <= Len(x)
      <4>1. h[i] = a[i] /\ i \in 1..Len(a)
        BY <1>7, <1>11, <1>12, <3>1
      <4>. QED
        BY <4>1
    <3>2. CASE i > Len(x)
      <4>1. i - Len(x) \in 1..Len(y) /\ i \in 1..Len(x) + Len(y) /\ ~(i <= Len(x))
        BY <1>11, <1>12, <3>2
      <4>2. h[i] = b[i - Len(x)] /\ i - Len(x) \in 1..Len(b)
        <5>1. h[i] = y[i - Len(x)]
          BY <1>12, <4>1
        <5>2. y[i - Len(x)] = b[i - Len(x)]
          BY <1>11, <4>1
        <5>3. i - Len(x) \in 1..Len(b)
          BY <1>8, <1>11, <4>1
        <5>. QED
          BY <5>1, <5>2, <5>3
      <4>. QED
        BY <4>2
    <3>. QED
      BY <1>11, <1>12, <3>1, <3>2
  <2>2. \E k \in 1..n : h[i] = t[k]
    <3>1. \A k \in 1..n : \E l \in 1..n : r[k] = t[l]
      BY <1>4, <1>5 DEF SameElements
    <3>2. CASE \E k \in 1..Len(a) : h[i] = a[k]
      BY <1>7, <3>2
    <3>3. CASE \E k \in 1..Len(b) : h[i] = b[k]
      <4>1. PICK k \in 1..n : h[i] = r[k]
        BY <1>8, <3>3
      <4>. QED
        BY <3>1, <4>1
    <3>. QED
      BY <2>1, <3>2, <3>3
  <2>. QED
    BY <1>1, <1>4, <2>2 DEF SameElements
<1>. QED
  BY <1>1, <1>9, <1>10, <1>12, <1>13, <1>14

-----------------------------------------------------------------------------
(* Placement: the zone and its markers.                                       *)

\* A polygon the viewer may hold: through points of the terrain, convex.
Polygon(h) ==
    /\ h \in Seq(Point)
    /\ Len(h) >= 3 => \A i \in DOMAIN h : Surrounds(h, h[i])

ZoneInv ==
    /\ Polygon(zone)
    /\ points \in Seq(Point \cup {Hole}) /\ markers \in Nat /\ held \in Nat
    /\ ~crossed => Whole(points)
    /\ MarkersNumberPoints
    /\ ~crossed /\ creating = "spawnZone" =>
           /\ Len(points) < 3 => Len(zone) < 3
           /\ Len(zone) >= 3 => \A i \in DOMAIN points : Surrounds(zone, points[i])

\* The hull of any drawing without a hole is a polygon, around it if it has three points.
LEMMA HullOfPoints ==
    ASSUME NEW s \in Seq(Point)
    PROVE  /\ Polygon(Hull(s))
           /\ Len(s) >= 3 => \A j \in DOMAIN s : Surrounds(Hull(s), s[j])
<1>1. CASE Len(s) < 3
  <2>1. Hull(s) = s
    BY <1>1 DEF Hull
  <2>. QED
    BY <1>1, <2>1 DEF Polygon
<1>2. CASE Len(s) >= 3
  <2>1. s \in Seq(Plane)
    BY PointAssumption DEF Plane
  <2>2. PICK h : h = Hull(s)
    OBVIOUS
  <2>3. /\ h \in Seq(Plane)
        /\ \A i \in 1..Len(h) : \E j \in 1..Len(s) : h[i] = s[j]
        /\ \A j \in 1..Len(s) : Surrounds(h, s[j])
    BY <1>2, <2>1, <2>2, HullIs
  <2>4. \A i \in 1..Len(h) : h[i] \in Point
    BY <2>3
  <2>5. h \in Seq(Point)
    BY <2>3, <2>4
  <2>6. \A i \in DOMAIN h : Surrounds(h, h[i])
    BY <2>3
  <2>7. \A j \in DOMAIN s : Surrounds(h, s[j])
    BY <2>3
  <2>. QED
    BY <2>2, <2>5, <2>6, <2>7 DEF Polygon
<1>. QED
  BY <1>1, <1>2

\* A drawing without a hole consists of points of the terrain.
LEMMA WholePoints ==
    ASSUME NEW s \in Seq(Point \cup {Hole})
    PROVE  Whole(s) <=> s \in Seq(Point)
<1>1. ASSUME Whole(s) PROVE s \in Seq(Point)
  <2>1. \A i \in 1..Len(s) : s[i] \in Point
    BY <1>1 DEF Whole
  <2>. QED
    BY <2>1
<1>2. ASSUME s \in Seq(Point) PROVE Whole(s)
  BY <1>2, PointAssumption DEF Whole
<1>. QED
  BY <1>1, <1>2

\* What a change of the drawing makes of the zone.
LEMMA DrawnIs ==
    ASSUME NEW s \in Seq(Point \cup {Hole}), ~Throws(s)
    PROVE  /\ Polygon(Drawn(s))
           /\ Len(s) < 3 => Len(Drawn(s)) < 3
           /\ Len(Drawn(s)) >= 3 => \A j \in DOMAIN s : Surrounds(Drawn(s), s[j])
<1>1. CASE Len(s) < 3
  <2>1. Drawn(s) = <<>>
    BY <1>1 DEF Drawn
  <2>2. <<>> \in Seq(Point) /\ Len(<<>>) = 0
    OBVIOUS
  <2>. QED
    BY <1>1, <2>1, <2>2 DEF Polygon
<1>2. CASE Len(s) >= 3
  <2>1. Drawn(s) = Hull(s) /\ Whole(s)
    BY <1>2 DEF Drawn, Throws
  <2>2. s \in Seq(Point)
    BY <2>1, WholePoints
  <2>. QED
    BY <1>2, <2>1, <2>2, HullOfPoints
<1>. QED
  BY <1>1, <1>2

\* The points of the terrain, as a file lists them.
LEMMA TerrainIs == SetToSeq(Point) \in Seq(Point)
<1>1. Cardinality(Point) \in Nat /\ ExistsBijection(1..Cardinality(Point), Point)
  BY PointAssumption, FS_CardinalityType
<1>2. PICK f : f \in Bijection(1..Cardinality(Point), Point)
  BY <1>1 DEF ExistsBijection
<1>3. f \in [1..Cardinality(Point) -> Point] /\ IsInjective(f)
  BY <1>2 DEF Bijection, Injection, IsInjective
<1>4. SetToSeq(Point) \in [1..Cardinality(Point) -> Point]
  BY <1>3 DEF SetToSeq
<1>. QED
  BY <1>1, <1>4

\* Going from the zone to any other mode, with the points or without them.
LEMMA LeavesZone ==
    ASSUME ZoneInv, Clean, NEW mode \in {"none", "unit", "userEquipment", "waypoint"}, NEW pts, NEW editing,
           Entering(mode, pts, editing), pts = <<>> \/ pts = points, held' = held, Polygon(zone'),
           ~crossed' => held = 0 /\ (pts = <<>> \/ ~crossed)
    PROVE  ZoneInv'
<1>1. points' = pts /\ creating' # "spawnZone"
  BY DEF Entering
<1>2. markers' \in Nat
  BY DEF Entering, ZoneInv
<1>3. points' \in Seq(Point \cup {Hole}) /\ Len(points') \in Nat
  <2>1. pts \in Seq(Point \cup {Hole})
    <3>1. <<>> \in Seq(Point \cup {Hole}) /\ points \in Seq(Point \cup {Hole})
      BY DEF ZoneInv
    <3>. QED
      BY <3>1
  <2>. QED
    BY <1>1, <2>1
<1>4. ~crossed' => Whole(points')
  BY <1>1 DEF ZoneInv, Whole
<1>. QED
  BY <1>1, <1>2, <1>3, <1>4 DEF ZoneInv, MarkersNumberPoints

\* Every step keeps ZoneInv, which relies on Clean for what is found when drawing starts.
LEMMA ZoneStep ==
    ASSUME ZoneInv, Clean, [Next]_vars
    PROVE  ZoneInv'
<1>1. ASSUME NEW mode \in {"unit", "userEquipment", "spawnZone"}, StartCreatingEntity(mode) PROVE ZoneInv'
  <2>1. CASE mode = "spawnZone"
    <3>1. /\ creating' = "spawnZone" /\ points' = <<>> /\ zone' = <<>> /\ markers' \in Nat
          /\ held' = held /\ crossed' = crossed /\ creating = "none"
          /\ markers' = IF editingZone THEN Len(<<>>) ELSE 0
      BY <1>1, <2>1 DEF StartCreatingEntity, Entering
    <3>2. ~crossed => held = 0
      BY <3>1 DEF Clean
    <3>3. <<>> \in Seq(Point) /\ Len(<<>>) = 0 /\ markers' = 0
      BY <3>1
    <3>. QED
      BY <3>1, <3>2, <3>3 DEF ZoneInv, Polygon, Whole, MarkersNumberPoints
  <2>2. CASE mode # "spawnZone"
    <3>1. Entering(mode, points, editingZone) /\ zone' = zone /\ held' = held /\ crossed' = crossed /\ creating = "none"
      BY <1>1, <2>2 DEF StartCreatingEntity
    <3>2. Polygon(zone') /\ (~crossed' => held = 0)
      BY <3>1 DEF ZoneInv, Polygon, Surrounds, Clean
    <3>. QED
      BY <2>2, <3>1, <3>2, LeavesZone
  <2>. QED
    BY <2>1, <2>2
<1>e. Polygon(<<>>)
  BY DEF Polygon
<1>2. ASSUME CancelCreatingEntity PROVE ZoneInv'
  <2>1. Entering("none", <<>>, FALSE) /\ held' = held /\ crossed' = (held # 0) /\ (zone' = <<>> \/ zone' = zone)
    BY <1>2 DEF CancelCreatingEntity
  <2>2. Polygon(zone')
    BY <1>e, <2>1 DEF ZoneInv
  <2>. QED
    BY <2>1, <2>2, LeavesZone
<1>3. ASSUME PlaceUnit \/ PlaceUserEquipment PROVE ZoneInv'
  <2>1. Entering("none", <<>>, FALSE) /\ held' = held /\ crossed' = (held # 0) /\ zone' = zone
    BY <1>3 DEF PlaceUnit, PlaceUserEquipment
  <2>2. Polygon(zone')
    BY <2>1 DEF ZoneInv
  <2>. QED
    BY <2>1, <2>2, LeavesZone
<1>4. ASSUME NEW p \in Point, AddSpawnZoneCreationPoint(p) PROVE ZoneInv'
  <2>1. PICK pts : pts = Append(points, p)
    OBVIOUS
  <2>2. /\ creating = "spawnZone" /\ creating' = creating /\ held = 0 /\ held' = held /\ crossed' = crossed
        /\ ~Throws(pts) /\ points' = pts /\ zone' = IF Len(pts) >= 3 THEN Hull(pts) ELSE zone
        /\ markers' = markers + 1
    BY <1>4, <2>1 DEF AddSpawnZoneCreationPoint, Drawing
  <2>3. pts \in Seq(Point \cup {Hole}) /\ Len(pts) = Len(points) + 1 /\ Len(points) \in Nat
    BY <2>1 DEF ZoneInv
  <2>4. Whole(points) => Whole(pts)
    BY <2>1, PointAssumption DEF Whole, ZoneInv
  <2>5. MarkersNumberPoints'
    BY <2>2, <2>3 DEF MarkersNumberPoints, ZoneInv
  <2>6. CASE Len(pts) >= 3
    <3>1. zone' = Drawn(pts)
      BY <2>2, <2>6 DEF Drawn
    <3>. QED
      BY <2>2, <2>3, <2>4, <2>5, <2>6, <3>1, DrawnIs DEF ZoneInv
  <2>7. CASE Len(pts) < 3
    <3>1. zone' = zone /\ Len(points) < 3
      BY <2>2, <2>3, <2>7
    <3>2. Len(zone) \in Nat
      BY DEF ZoneInv, Polygon
    <3>. QED
      BY <2>2, <2>3, <2>4, <2>5, <2>7, <3>1, <3>2 DEF ZoneInv
  <2>. QED
    BY <2>3, <2>6, <2>7
<1>5. ASSUME NEW i \in 1..markers, RemoveSpawnZoneCreationPoint(i) PROVE ZoneInv'
  <2>1. PICK pts : pts = IF i <= Len(points) THEN RemoveAt(points, i) ELSE points
    OBVIOUS
  <2>2. /\ creating = "spawnZone" /\ creating' = creating /\ held = 0 /\ held' = held /\ crossed' = crossed
        /\ ~Throws(pts) /\ points' = pts /\ zone' = Drawn(pts) /\ (Len(pts) < 3 => Whole(pts))
        /\ markers' = Len(pts)
    BY <1>5, <2>1 DEF RemoveSpawnZoneCreationPoint, Drawing
  <2>3. pts \in Seq(Point \cup {Hole}) /\ Len(pts) \in Nat
    <3>1. points \in Seq(Point \cup {Hole}) /\ markers \in Nat
      BY DEF ZoneInv
    <3>2. CASE i <= Len(points)
      <4>1. /\ SubSeq(points, 1, i - 1) \in Seq(Point \cup {Hole})
            /\ SubSeq(points, i + 1, Len(points)) \in Seq(Point \cup {Hole})
        BY <3>1, <3>2
      <4>2. pts = SubSeq(points, 1, i - 1) \o SubSeq(points, i + 1, Len(points))
        BY <2>1, <3>2 DEF RemoveAt
      <4>3. PICK x, y : x = SubSeq(points, 1, i - 1) /\ y = SubSeq(points, i + 1, Len(points))
        OBVIOUS
      <4>4. x \in Seq(Point \cup {Hole}) /\ y \in Seq(Point \cup {Hole})
        BY <4>1, <4>3
      <4>5. x \o y \in Seq(Point \cup {Hole}) /\ Len(x \o y) = Len(x) + Len(y)
        BY <4>4, ConcatProperties
      <4>6. Len(x) \in Nat /\ Len(y) \in Nat
        BY <4>4
      <4>7. pts = x \o y
        BY <4>2, <4>3
      <4>. QED
        BY <4>5, <4>6, <4>7
    <3>. QED
      BY <2>1, <3>1, <3>2
  <2>4. Whole(pts)
    BY <2>2, <2>3 DEF Throws
  <2>. QED
    BY <2>2, <2>3, <2>4, DrawnIs DEF ZoneInv, MarkersNumberPoints
<1>6. ASSUME NEW i \in 1..markers, HoldPoint(i) PROVE ZoneInv'
  <2>1. /\ creating = "spawnZone" /\ creating' = creating /\ held' = i /\ i <= markers
        /\ UNCHANGED <<points, zone, markers, crossed>>
    BY <1>6 DEF HoldPoint, Drawing
  <2>. QED
    BY <2>1 DEF ZoneInv, MarkersNumberPoints, Polygon, Surrounds, Whole
<1>7. ASSUME NEW p \in Point, UpdateSpawnZoneCreationPoint(p) PROVE ZoneInv'
  <2>1. PICK pts : pts = [i \in 1..(IF held > Len(points) THEN held ELSE Len(points)) |->
                      IF i = held THEN p ELSE IF i <= Len(points) THEN points[i] ELSE Hole]
    OBVIOUS
  <2>2. /\ creating' = creating /\ creating # "none" /\ held # 0 /\ held' = held /\ crossed' = crossed
        /\ ~Throws(pts) /\ points' = pts /\ zone' = Drawn(pts) /\ markers' = markers
    BY <1>7, <2>1 DEF UpdateSpawnZoneCreationPoint
  <2>3. pts \in Seq(Point \cup {Hole}) /\ Len(pts) = (IF held > Len(points) THEN held ELSE Len(points))
    BY <2>1 DEF ZoneInv
  <2>4. ~crossed => creating = "spawnZone" /\ held <= Len(points) /\ Len(pts) = Len(points) /\ Whole(points)
    BY <2>2, <2>3 DEF ZoneInv, MarkersNumberPoints, Clean
  <2>5. ~crossed => Whole(pts)
    <3> SUFFICES ASSUME ~crossed PROVE Whole(pts)
      OBVIOUS
    <3>1. \A i \in 1..Len(points) : pts[i] = IF i = held THEN p ELSE points[i]
      BY <2>1, <2>4 DEF ZoneInv
    <3>2. \A i \in 1..Len(points) : points[i] # Hole
      BY <2>4 DEF Whole, ZoneInv
    <3>. QED
      BY <2>3, <2>4, <3>1, <3>2, PointAssumption DEF Whole
  <2>6. MarkersNumberPoints'
    BY <2>2, <2>3, <2>4 DEF MarkersNumberPoints, ZoneInv
  <2>. QED
    BY <2>2, <2>3, <2>5, <2>6, DrawnIs DEF ZoneInv
<1>8. ASSUME ReleasePoint PROVE ZoneInv'
  <2>1. creating' = creating /\ held' = 0 /\ UNCHANGED <<points, zone, markers, crossed>>
    BY <1>8 DEF ReleasePoint
  <2>2. Len(points) \in Nat
    BY DEF ZoneInv
  <2>. QED
    BY <2>1, <2>2 DEF ZoneInv, MarkersNumberPoints, Polygon, Surrounds, Whole
<1>9. ASSUME CommitSpawnZone PROVE ZoneInv'
  <2>1. /\ Entering("none", <<>>, FALSE) /\ held' = held /\ crossed' = (held # 0)
        /\ zone' = Hull(points) /\ Whole(points)
    BY <1>9 DEF CommitSpawnZone
  <2>2. Polygon(zone')
    BY <2>1, WholePoints, HullOfPoints DEF ZoneInv
  <2>. QED
    BY <2>1, <2>2, LeavesZone
<1>10. ASSUME StartEditingSpawnZone PROVE ZoneInv'
  <2>1. /\ creating' = "spawnZone" /\ points' = zone /\ zone' = zone /\ held' = held
        /\ crossed' = (crossed \/ creating = "spawnZone" \/ held # 0)
        /\ markers' = IF creating = "spawnZone" THEN markers ELSE Len(zone)
    BY <1>10 DEF StartEditingSpawnZone, Entering, Drawing
  <2>2. zone \in Seq(Point) /\ zone \in Seq(Point \cup {Hole}) /\ Whole(zone) /\ Len(zone) \in Nat
    BY PointAssumption DEF ZoneInv, Polygon, Whole
  <2>3. markers' \in Nat
    BY <2>1, <2>2 DEF ZoneInv
  <2>4. MarkersNumberPoints'
    <3>1. ~crossed' => creating # "spawnZone" /\ held = 0
      BY <2>1
    <3>. QED
      BY <2>1, <2>2, <3>1 DEF MarkersNumberPoints
  <2>. QED
    BY <2>1, <2>2, <2>3, <2>4 DEF ZoneInv, Polygon, Surrounds, Whole
<1>11. ASSUME ReplaceZone PROVE ZoneInv'
  <2>1. /\ creating' = creating /\ points' = points /\ markers' = markers /\ held' = held
        /\ crossed' = (crossed \/ creating = "spawnZone") /\ zone' \in {<<>>, Hull(SetToSeq(Point))}
    BY <1>11 DEF ReplaceZone, Drawing
  <2>2. Polygon(zone')
    BY <1>e, <2>1, TerrainIs, HullOfPoints
  <2>3. MarkersNumberPoints'
    BY <2>1 DEF MarkersNumberPoints, ZoneInv
  <2>. QED
    BY <2>1, <2>2, <2>3 DEF ZoneInv
<1>12. ASSUME NEW u \in DOMAIN ways, StartEditingWaypoints(u) PROVE ZoneInv'
  <2>1. /\ Entering("waypoint", points, editingZone) /\ zone' = zone /\ held' = held
        /\ crossed' = (crossed \/ Drawing \/ held # 0)
    BY <1>12 DEF StartEditingWaypoints
  <2>2. Polygon(zone')
    BY <2>1 DEF ZoneInv
  <2>. QED
    BY <2>1, <2>2, LeavesZone
<1>13. ASSUME CommitWaypoints \/ CancelWaypoints PROVE ZoneInv'
  <2>1. /\ Entering("none", points, editingZone) /\ zone' = zone /\ held' = held
        /\ crossed' = (crossed \/ Drawing \/ held # 0)
    BY <1>13 DEF CommitWaypoints, CancelWaypoints, EndEditing
  <2>2. Polygon(zone')
    BY <2>1 DEF ZoneInv
  <2>. QED
    BY <2>1, <2>2, LeavesZone
<1>14. ASSUME UNCHANGED <<creating, points, zone, markers, held, crossed>> PROVE ZoneInv'
  BY <1>14 DEF ZoneInv, MarkersNumberPoints, Polygon, Surrounds, Whole
<1>15. ASSUME AddWaypoint PROVE ZoneInv'
  BY <1>14, <1>15 DEF AddWaypoint, zoneVars
<1>16. ASSUME NEW u \in DOMAIN ways, NEW i \in DOMAIN ways[u], RemoveWaypoint(u, i) \/ UpdateWaypoint(u, i)
       PROVE  ZoneInv'
  BY <1>14, <1>16 DEF RemoveWaypoint, UpdateWaypoint, zoneVars
<1>17. ASSUME NEW u \in DOMAIN ways, RemoveUserEquipment(u) PROVE ZoneInv'
  BY <1>14, <1>17 DEF RemoveUserEquipment, zoneVars
<1>18. ASSUME ReplaceUserEquipment \/ UNCHANGED vars PROVE ZoneInv'
  BY <1>14, <1>18 DEF ReplaceUserEquipment, zoneVars, vars
<1>. QED
  BY <1>1, <1>2, <1>3, <1>4, <1>5, <1>6, <1>7, <1>8, <1>9, <1>10, <1>11, <1>12, <1>13, <1>15, <1>16,
     <1>17, <1>18 DEF Next

\* ZoneInv holds in every reachable state.
THEOREM ZoneInductive == Spec => []ZoneInv
<1>1. Init => ZoneInv
  <2> SUFFICES ASSUME Init PROVE ZoneInv
    OBVIOUS
  <2>1. creating = "none" /\ points = <<>> /\ zone = <<>> /\ markers = 0 /\ held = 0
    BY DEF Init
  <2>. QED
    BY <2>1 DEF ZoneInv, Polygon, Whole, MarkersNumberPoints
<1>2. ZoneInv /\ Clean /\ [Next]_vars => ZoneInv'
  BY ZoneStep
<1>3. IInv => Clean
  BY DEF IInv
<1>. QED
  BY <1>1, <1>2, <1>3, Inductive, PTL DEF Spec

\* As long as modes are not crossed, a click or a drag of marker i changes point i.
THEOREM MarkersCorrect == Spec => []MarkersNumberPoints
<1>1. ZoneInv => MarkersNumberPoints
  BY DEF ZoneInv
<1>. QED
  BY <1>1, ZoneInductive, PTL

\* As long as modes are not crossed, the zone is a convex polygon around all points drawn,
\* whatever the points and however many.
THEOREM ZoneCorrect == Spec => []ZoneSurroundsPoints
<1>1. ASSUME ZoneInv PROVE ZoneSurroundsPoints
  <2> SUFFICES ASSUME ~crossed, Len(zone) >= 3
               PROVE  /\ \A i \in DOMAIN zone : Surrounds(zone, zone[i])
                      /\ creating = "spawnZone" => \A i \in DOMAIN points : Surrounds(zone, points[i])
    BY DEF ZoneSurroundsPoints, Surrounds
  <2>. QED
    BY <1>1 DEF ZoneInv, Polygon
<1>. QED
  BY <1>1, ZoneInductive, PTL

-----------------------------------------------------------------------------
(* Assignment: the managers as functions from keys to records.               *)

\* Which distributed units fit and are closest depends on the panel type and the place only.
LEMMA ClosestDepends ==
    ASSUME NEW r, NEW s, r.panelType = s.panelType, r.position = s.position
    PROVE  Closest(r) = Closest(s)
  BY DEF Closest, Matching

\* It changes with the distributed units and the panels only.
LEMMA ClosestKept ==
    ASSUME UNCHANGED <<du, panel>>, NEW k
    PROVE  Closest(ru[k])' = Closest(ru'[k])
<1>1. Matching(ru[k])' = Matching(ru'[k])
  BY DEF Matching
<1>. QED
  BY <1>1 DEF Closest

\* The closest distributed unit has an identifier of the manager's, or is none.
LEMMA ClosestType ==
    ASSUME AssignmentTypeOK, NEW r, NEW d \in Closest(r)
    PROVE  d \in Id \cup {NoDu}
<1>1. CASE Matching(r) = {}
  BY <1>1 DEF Closest
<1>2. CASE Matching(r) # {}
  <2>1. PICK k \in Matching(r) : d = du[k].id
    BY <1>2 DEF Closest
  <2>2. k \in DOMAIN du
    BY <2>1 DEF Matching
  <2>. QED
    BY <2>1, <2>2 DEF AssignmentTypeOK, DistributedUnit
<1>. QED
  BY <1>1, <1>2

\* The next number is no key of the map.
LEMMA NextIdIsNew ==
    ASSUME NEW map, DOMAIN map \subseteq Id, NEW first
    PROVE  NextId(map, first) \notin DOMAIN map
<1>1. CASE DOMAIN map = {}
  BY <1>1
<1>2. CASE DOMAIN map # {}
  <2>1. \E m \in DOMAIN map : \A j \in DOMAIN map : j <= m
    BY <1>2, GreatestExists, NumberAssumption DEF Id
  <2>2. Max(DOMAIN map) \in Id /\ \A j \in DOMAIN map : Max(DOMAIN map) >= j
    BY <2>1, NumberAssumption DEF Max, Id
  <2>. QED
    BY <1>2, <2>2, NumberAssumption DEF NextId, Id
<1>. QED
  BY <1>1, <1>2

-----------------------------------------------------------------------------
(* Assignment: the inductive invariant is the types and AutomaticIsClosest.   *)

AssignmentInv == AssignmentTypeOK /\ AutomaticIsClosest

\* What an update of a radio unit leaves: every other unit as it was, and this one with
\* the distributed unit the assignment gives it.
LEMMA UpdateRadioUnitKeeps ==
    ASSUME AssignmentInv, UNCHANGED <<du, panel>>,
           NEW id, NEW field \in {"id", "position", "duId", "manual", "panelType"}, NEW value,
           id \in DOMAIN ru => [ru[id] EXCEPT ![field] = value] \in RadioUnit,
           UpdateRadioUnit(id, field, value)
    PROVE  AssignmentInv'
<1>1. CASE id \notin DOMAIN ru
  <2>1. UNCHANGED <<ru, du, panel, touched>>
    BY <1>1 DEF UpdateRadioUnit
  <2>. QED
    <3>1. \A k \in touched : Closest(ru[k])' = Closest(ru[k])
      BY <2>1, ClosestKept
    <3>. QED
      BY <2>1, <3>1 DEF AssignmentInv, AssignmentTypeOK, AutomaticIsClosest
<1>2. CASE id \in DOMAIN ru
  <2> DEFINE new == [ru[id] EXCEPT ![field] = value]
  <2>1. PICK r \in Merged(new, field) : ru' = [ru EXCEPT ![id] = r]
    BY <1>2 DEF UpdateRadioUnit
  <2>2. touched' = CASE field \in {"manual", "position", "panelType"} -> touched \union {id}
                     [] field = "duId" -> touched \ {id}
                     [] OTHER -> touched
    BY <1>2 DEF UpdateRadioUnit
  <2>3. new \in RadioUnit /\ ru[id] \in RadioUnit
    BY <1>2 DEF AssignmentInv, AssignmentTypeOK
  <2>4. /\ Asks(field, new) => \E d \in Closest(new) : r = [new EXCEPT !.duId = d]
        /\ ~Asks(field, new) => r = new
    BY <2>1 DEF Merged
  <2>5. r \in RadioUnit
    <3>1. CASE Asks(field, new)
      <4>1. PICK d \in Closest(new) : r = [new EXCEPT !.duId = d]
        BY <2>4, <3>1
      <4>2. d \in Id \cup {NoDu}
        BY <4>1, ClosestType DEF AssignmentInv
      <4>. QED
        BY <2>3, <4>1, <4>2 DEF RadioUnit
    <3>2. CASE ~Asks(field, new)
      BY <2>3, <2>4, <3>2
    <3>. QED
      BY <3>1, <3>2
  <2>6. /\ DOMAIN ru' = DOMAIN ru
        /\ ru'[id] = r
        /\ \A k \in DOMAIN ru \ {id} : ru'[k] = ru[k]
    BY <1>2, <2>1
  <2>7. touched' \subseteq touched \cup {id}
    BY <2>2
  <2>8. AssignmentTypeOK'
    BY <1>2, <2>5, <2>6, <2>7 DEF AssignmentInv, AssignmentTypeOK
  <2>9. \A k \in touched' : Closest(ru[k])' = Closest(ru'[k])
    BY ClosestKept
  <2>10. ASSUME NEW k \in touched' \ {id}, ~ru'[k].manual
         PROVE  ru'[k].duId \in Closest(ru[k])'
    <3>1. k \in touched /\ ru'[k] = ru[k]
      BY <2>6, <2>7, <2>10 DEF AssignmentInv, AssignmentTypeOK
    <3>2. ru[k].duId \in Closest(ru[k])
      BY <2>10, <3>1 DEF AssignmentInv, AutomaticIsClosest
    <3>. QED
      BY <2>9, <3>1, <3>2
  <2>11. ASSUME id \in touched', ~r.manual
         PROVE  r.duId \in Closest(r)
    <3>1. CASE field \in {"manual", "position", "panelType"}
      <4>1. ~new.manual
        BY <2>3, <2>4, <2>11 DEF RadioUnit
      <4>2. PICK d \in Closest(new) : r = [new EXCEPT !.duId = d]
        BY <2>4, <3>1, <4>1 DEF Asks
      <4>3. r.duId = d /\ r.panelType = new.panelType /\ r.position = new.position
        BY <2>3, <4>2 DEF RadioUnit
      <4>. QED
        BY <4>2, <4>3, ClosestDepends
    <3>2. CASE field = "duId"
      BY <2>2, <2>11, <3>2
    <3>3. CASE field = "id"
      <4>1. id \in touched /\ r = new
        BY <2>2, <2>4, <2>11, <3>3 DEF Asks
      <4>2. /\ r.duId = ru[id].duId /\ r.panelType = ru[id].panelType
            /\ r.position = ru[id].position /\ r.manual = ru[id].manual
        BY <2>3, <3>3, <4>1 DEF RadioUnit
      <4>3. ru[id].duId \in Closest(ru[id])
        BY <2>11, <4>1, <4>2 DEF AssignmentInv, AutomaticIsClosest
      <4>. QED
        BY <4>2, <4>3, ClosestDepends
    <3>. QED
      BY <3>1, <3>2, <3>3
  <2>12. AutomaticIsClosest'
    BY <2>6, <2>9, <2>10, <2>11 DEF AutomaticIsClosest
  <2>. QED
    BY <2>8, <2>12 DEF AssignmentInv
<1>. QED
  BY <1>1, <1>2

\* An edit of the distributed units or panels forgets who was assigned among those before.
LEMMA ForgetsAll ==
    ASSUME touched' = {}, AssignmentTypeOK, ru' = ru,
           \A k \in DOMAIN du' : k \in Id /\ du'[k] \in DistributedUnit,
           \A k \in DOMAIN panel' : k \in Id /\ panel'[k] \in Panel
    PROVE  AssignmentInv'
  BY DEF AssignmentInv, AssignmentTypeOK, AutomaticIsClosest

LEMMA AddRadioUnitKeeps ==
    ASSUME AssignmentInv, AddRadioUnit
    PROVE  AssignmentInv'
<1>1. PICK place \in Place, type \in PanelTypeOfNew :
         LET k == NextId(ru, 0)
             new == [id |-> k, panelType |-> type, duId |-> NoDu, manual |-> FALSE, position |-> place]
         IN  /\ k \in Id
             /\ \E d \in Closest(new) : ru' = With(ru, k, [new EXCEPT !.duId = d])
             /\ touched' = touched \union {k}
             /\ UNCHANGED <<du, panel>>
  BY DEF AddRadioUnit
<1> DEFINE k == NextId(ru, 0)
           new == [id |-> k, panelType |-> type, duId |-> NoDu, manual |-> FALSE, position |-> place]
<1>2. k \in Id /\ touched' = touched \cup {k} /\ UNCHANGED <<du, panel>>
  BY <1>1
<1>3. PICK d \in Closest(new) : ru' = With(ru, k, [new EXCEPT !.duId = d])
  BY <1>1
<1> DEFINE r == [new EXCEPT !.duId = d]
<1>4. type \in Id
  <2>1. DefaultPanel \in Id
    BY NumberAssumption DEF DefaultPanel, Id
  <2>2. DOMAIN panel \subseteq Id
    BY DEF AssignmentInv, AssignmentTypeOK
  <2>. QED
    BY <2>1, <2>2 DEF PanelTypeOfNew
<1>5. d \in Id \cup {NoDu}
  BY ClosestType DEF AssignmentInv
<1> HIDE DEF k
<1>6. new \in RadioUnit
  BY <1>2, <1>4 DEF RadioUnit
<1>7. r \in RadioUnit /\ ~r.manual /\ r.duId = d /\ r.panelType = new.panelType /\ r.position = new.position
  BY <1>5, <1>6 DEF RadioUnit
<1> HIDE DEF new, r
<1>8. /\ DOMAIN ru' = DOMAIN ru \cup {k}
      /\ ru'[k] = r
      /\ \A j \in DOMAIN ru \ {k} : ru'[j] = ru[j]
  BY <1>3 DEF With, r
<1>9. AssignmentTypeOK'
  BY <1>2, <1>7, <1>8 DEF AssignmentInv, AssignmentTypeOK
<1>10. Closest(r) = Closest(new)
  BY <1>7, ClosestDepends
<1>11. ASSUME NEW j \in touched', ~ru'[j].manual
       PROVE  ru'[j].duId \in Closest(ru[j])'
  <2>1. Closest(ru[j])' = Closest(ru'[j])
    BY <1>2, ClosestKept
  <2>2. CASE j = k
    BY <1>3, <1>7, <1>8, <1>10, <2>1, <2>2
  <2>3. CASE j # k
    <3>1. j \in touched /\ ru'[j] = ru[j]
      BY <1>2, <1>8, <2>3 DEF AssignmentInv, AssignmentTypeOK
    <3>. QED
      BY <1>11, <2>1, <3>1 DEF AssignmentInv, AutomaticIsClosest
  <2>. QED
    BY <2>2, <2>3
<1>. QED
  BY <1>9, <1>11 DEF AssignmentInv, AutomaticIsClosest

LEMMA RemoveRadioUnitKeeps ==
    ASSUME AssignmentInv, NEW i \in DOMAIN ru, RemoveRadioUnit(i)
    PROVE  AssignmentInv'
<1>1. /\ DOMAIN ru' = DOMAIN ru \ {ru[i].id}
      /\ \A j \in DOMAIN ru \ {ru[i].id} : ru'[j] = ru[j]
      /\ touched' = touched \ {ru[i].id}
      /\ UNCHANGED <<du, panel>>
  BY DEF Without, RemoveRadioUnit
<1>2. AssignmentTypeOK'
  BY <1>1 DEF AssignmentInv, AssignmentTypeOK
<1>3. ASSUME NEW j \in touched', ~ru'[j].manual
      PROVE  ru'[j].duId \in Closest(ru[j])'
  <2>1. Closest(ru[j])' = Closest(ru'[j])
    BY <1>1, ClosestKept
  <2>2. j \in touched /\ ru'[j] = ru[j]
    BY <1>1 DEF AssignmentInv, AssignmentTypeOK
  <2>. QED
    BY <1>3, <2>1, <2>2 DEF AssignmentInv, AutomaticIsClosest
<1>. QED
  BY <1>2, <1>3 DEF AssignmentInv, AutomaticIsClosest

\* AssignmentInv holds in every reachable state.
THEOREM AssignmentInductive == AssignmentSpec => []AssignmentInv
<1>1. AssignmentInit => AssignmentInv
  <2> SUFFICES ASSUME AssignmentInit PROVE AssignmentInv
    OBVIOUS
  <2>1. touched = {} => AutomaticIsClosest
    BY DEF AutomaticIsClosest
  <2>2. CASE Empty
    BY <2>1, <2>2 DEF Empty, AssignmentInit, AssignmentInv, AssignmentTypeOK
  <2>3. ASSUME NEW d \in {0, NoDu}, LoadedEntities(d) PROVE AssignmentInv
    <3>1. (CHOOSE p \in Place : TRUE) \in Place
      BY NumberAssumption
    <3>2. 0 \in Id /\ DefaultPanel \in Id
      BY NumberAssumption DEF Id, DefaultPanel
    <3>3. /\ DOMAIN panel = {DefaultPanel} /\ DOMAIN du = {0} /\ DOMAIN ru = {0}
          /\ panel[DefaultPanel] = [id |-> DefaultPanel, grid |-> 4, dual |-> FALSE, named |-> 4, carrier |-> 3600]
          /\ du[0] = [id |-> 0, antennas |-> 4, carrier |-> 3600, position |-> CHOOSE p \in Place : TRUE]
          /\ ru[0] = [id |-> 0, panelType |-> DefaultPanel, duId |-> d, manual |-> FALSE, position |-> CHOOSE p \in Place : TRUE]
      <4>1. DOMAIN panel = {DefaultPanel} /\ panel[DefaultPanel] = [id |-> DefaultPanel, grid |-> 4, dual |-> FALSE, named |-> 4, carrier |-> 3600]
        BY <2>3 DEF LoadedEntities
      <4>2. DOMAIN du = {0} /\ du[0] = [id |-> 0, antennas |-> 4, carrier |-> 3600, position |-> CHOOSE p \in Place : TRUE]
        BY <2>3 DEF LoadedEntities
      <4>3. DOMAIN ru = {0} /\ ru[0] = [id |-> 0, panelType |-> DefaultPanel, duId |-> d, manual |-> FALSE, position |-> CHOOSE p \in Place : TRUE]
        BY <2>3 DEF LoadedEntities
      <4>. QED
        BY <4>1, <4>2, <4>3
    <3>4. panel[DefaultPanel] \in Panel
      BY <3>2, <3>3, GridAssumption DEF Panel
    <3>5. du[0] \in DistributedUnit
      BY <3>1, <3>2, <3>3, GridAssumption DEF DistributedUnit
    <3>6. ru[0] \in RadioUnit
      BY <3>1, <3>2, <3>3 DEF RadioUnit
    <3>7. touched = {}
      BY DEF AssignmentInit
    <3>8. /\ \A k \in DOMAIN ru : k = 0
          /\ \A k \in DOMAIN du : k = 0
          /\ \A k \in DOMAIN panel : k = DefaultPanel
      BY <3>3
    <3>. QED
      BY <2>1, <3>2, <3>4, <3>5, <3>6, <3>7, <3>8 DEF AssignmentInv, AssignmentTypeOK
  <2>. QED
    BY <2>2, <2>3 DEF AssignmentInit
<1>2. AssignmentInv /\ [AssignmentNext]_assignmentVars => AssignmentInv'
  <2> SUFFICES ASSUME AssignmentInv, [AssignmentNext]_assignmentVars PROVE AssignmentInv'
    OBVIOUS
  <2>t. AssignmentTypeOK
    BY DEF AssignmentInv
  <2>1. CASE AddRadioUnit
    BY <2>1, AddRadioUnitKeeps
  <2>2. CASE AddDistributedUnit
    <3>1. PICK place \in Place :
             LET k == NextId(du, 0)
             IN  /\ k \in Id
                 /\ du' = With(du, k, [id |-> k, antennas |-> 4, carrier |-> 3600, position |-> place])
                 /\ touched' = {}
                 /\ UNCHANGED <<ru, panel>>
      BY <2>2 DEF AddDistributedUnit
    <3> DEFINE k == NextId(du, 0)
               r == [id |-> k, antennas |-> 4, carrier |-> 3600, position |-> place]
    <3>2. r \in DistributedUnit
      BY <3>1, GridAssumption DEF DistributedUnit
    <3>3. k \in Id /\ du' = With(du, k, r) /\ touched' = {} /\ UNCHANGED <<ru, panel>>
      BY <3>1
    <3> HIDE DEF k, r
    <3>4. \A j \in DOMAIN du' : j \in Id /\ du'[j] \in DistributedUnit
      BY <2>t, <3>2, <3>3 DEF With, AssignmentTypeOK
    <3>. QED
      BY <2>t, <3>3, <3>4, ForgetsAll DEF AssignmentTypeOK
  <2>3. CASE AddPanel
    <3> DEFINE k == NextId(panel, 1)
               r == [id |-> k, grid |-> 4, dual |-> FALSE, named |-> 4, carrier |-> 3600]
    <3>1. k \in Id /\ panel' = With(panel, k, r) /\ touched' = {} /\ UNCHANGED <<ru, du>>
      BY <2>3 DEF AddPanel
    <3>2. r \in Panel
      BY <3>1, GridAssumption DEF Panel
    <3> HIDE DEF k, r
    <3>3. \A j \in DOMAIN panel' : j \in Id /\ panel'[j] \in Panel
      BY <2>t, <3>1, <3>2 DEF With, AssignmentTypeOK
    <3>. QED
      BY <2>t, <3>1, <3>3, ForgetsAll DEF AssignmentTypeOK
  <2>4. ASSUME NEW k \in DOMAIN ru, RemoveRadioUnit(k) PROVE AssignmentInv'
    BY <2>4, RemoveRadioUnitKeeps
  <2>5. ASSUME NEW k \in DOMAIN ru, RenameRadioUnit(k) PROVE AssignmentInv'
    <3>1. PICK v \in Id : UpdateRadioUnit(ru[k].id, "id", v)
      BY <2>5 DEF RenameRadioUnit
    <3>2. ru[k].id \in DOMAIN ru => [ru[ru[k].id] EXCEPT !["id"] = v] \in RadioUnit
      BY <2>t DEF AssignmentTypeOK, RadioUnit
    <3>. QED
      BY <2>5, <3>1, <3>2, UpdateRadioUnitKeeps DEF RenameRadioUnit
  <2>6. ASSUME NEW k \in DOMAIN ru, MoveRadioUnit(k) PROVE AssignmentInv'
    <3>1. PICK v \in Place : UpdateRadioUnit(ru[k].id, "position", v)
      BY <2>6 DEF MoveRadioUnit
    <3>2. ru[k].id \in DOMAIN ru => [ru[ru[k].id] EXCEPT !["position"] = v] \in RadioUnit
      BY <2>t DEF AssignmentTypeOK, RadioUnit
    <3>. QED
      BY <2>6, <3>1, <3>2, UpdateRadioUnitKeeps DEF MoveRadioUnit
  <2>7. ASSUME NEW k \in DOMAIN ru, TypeDuId(k) PROVE AssignmentInv'
    <3>1. PICK v \in Id : UpdateRadioUnit(ru[k].id, "duId", IF v = 0 THEN NoDu ELSE v)
      BY <2>7 DEF TypeDuId
    <3>2. ru[k].id \in DOMAIN ru => [ru[ru[k].id] EXCEPT !["duId"] = IF v = 0 THEN NoDu ELSE v] \in RadioUnit
      BY <2>t DEF AssignmentTypeOK, RadioUnit
    <3>. QED
      BY <2>7, <3>1, <3>2, UpdateRadioUnitKeeps DEF TypeDuId
  <2>8. ASSUME NEW k \in DOMAIN ru, ToggleAssignment(k) PROVE AssignmentInv'
    <3>1. ru[k].id \in DOMAIN ru => [ru[ru[k].id] EXCEPT !["manual"] = ~ru[k].manual] \in RadioUnit
      BY <2>t DEF AssignmentTypeOK, RadioUnit
    <3>. QED
      BY <2>8, <3>1, UpdateRadioUnitKeeps DEF ToggleAssignment
  <2>9. ASSUME NEW k \in DOMAIN ru, PickPanelType(k) PROVE AssignmentInv'
    <3>1. PICK v \in DOMAIN panel : UpdateRadioUnit(ru[k].id, "panelType", v)
      BY <2>9 DEF PickPanelType
    <3>2. ru[k].id \in DOMAIN ru => [ru[ru[k].id] EXCEPT !["panelType"] = v] \in RadioUnit
      BY <2>t DEF AssignmentTypeOK, RadioUnit
    <3>. QED
      BY <2>9, <3>1, <3>2, UpdateRadioUnitKeeps DEF PickPanelType
  <2>10. ASSUME NEW k \in DOMAIN du, RemoveDistributedUnit(k) PROVE AssignmentInv'
    <3>1. \A j \in DOMAIN du' : j \in Id /\ du'[j] \in DistributedUnit
      BY <2>t, <2>10 DEF Without, RemoveDistributedUnit, AssignmentTypeOK
    <3>. QED
      BY <2>t, <2>10, <3>1, ForgetsAll DEF RemoveDistributedUnit, AssignmentTypeOK
  <2>11. ASSUME NEW k \in DOMAIN du, EditDistributedUnit(k) PROVE AssignmentInv'
    <3>1. PICK field, value : /\ du' = Update(du, du[k].id, field, value)
                              /\ \A r \in DistributedUnit : [r EXCEPT ![field] = value] \in DistributedUnit
      <4>1. CASE \E v \in Id : du' = Update(du, du[k].id, "id", v)
        BY <4>1 DEF DistributedUnit
      <4>2. CASE \E v \in Grid : du' = Update(du, du[k].id, "antennas", v)
        BY <4>2, GridAssumption DEF DistributedUnit
      <4>3. CASE \E v \in Carrier : du' = Update(du, du[k].id, "carrier", v)
        BY <4>3 DEF DistributedUnit
      <4>4. CASE \E v \in Place : du' = Update(du, du[k].id, "position", v)
        BY <4>4 DEF DistributedUnit
      <4>. QED
        BY <2>11, <4>1, <4>2, <4>3, <4>4 DEF EditDistributedUnit
    <3>2. \A j \in DOMAIN du' : j \in Id /\ du'[j] \in DistributedUnit
      BY <2>t, <3>1 DEF Update, AssignmentTypeOK
    <3>. QED
      BY <2>t, <2>11, <3>2, ForgetsAll DEF EditDistributedUnit, AssignmentTypeOK
  <2>12. ASSUME NEW k \in DOMAIN panel, RemovePanel(k) PROVE AssignmentInv'
    <3>1. \A j \in DOMAIN panel' : j \in Id /\ panel'[j] \in Panel
      BY <2>t, <2>12 DEF Without, RemovePanel, AssignmentTypeOK
    <3>. QED
      BY <2>t, <2>12, <3>1, ForgetsAll DEF RemovePanel, AssignmentTypeOK
  <2>13. ASSUME NEW k \in DOMAIN panel, EditPanel(k) PROVE AssignmentInv'
    <3> DEFINE id == panel[k].id
    <3>0. panel[k] \in Panel
      BY <2>t DEF AssignmentTypeOK
    <3>1. PICK field, value : /\ panel' = Update(panel, id, field, value)
                              /\ \A r \in Panel : [r EXCEPT ![field] = value] \in Panel
      <4>1. CASE \E v \in Id \ {0} : panel' = Update(panel, id, "id", v)
        BY <4>1 DEF Panel
      <4>2. CASE panel' = Update(panel, id, "dual", ~panel[k].dual)
        <5>0. panel[k].dual \in BOOLEAN
          BY <3>0 DEF Panel
        <5>1. (~panel[k].dual) \in BOOLEAN
          BY <5>0
        <5>2. ASSUME NEW b \in BOOLEAN, NEW r \in Panel PROVE [r EXCEPT !["dual"] = b] \in Panel
          BY DEF Panel
        <5>. QED
          BY <4>2, <5>1, <5>2
      <4>3. CASE \E v \in Grid : panel' = Update(panel, id, "grid", v)
        BY <4>3 DEF Panel
      <4>4. CASE panel' = Update(panel, id, "named", panel[k].grid)
        BY <3>0, <4>4 DEF Panel
      <4>5. CASE \E v \in Carrier : panel' = Update(panel, id, "carrier", v)
        BY <4>5 DEF Panel
      <4>. QED
        BY <2>13, <4>1, <4>2, <4>3, <4>4, <4>5 DEF EditPanel
    <3> HIDE DEF id
    <3>2. \A j \in DOMAIN panel' : j \in Id /\ panel'[j] \in Panel
      BY <2>t, <3>1 DEF Update, AssignmentTypeOK
    <3>. QED
      BY <2>t, <2>13, <3>2, ForgetsAll DEF EditPanel, AssignmentTypeOK
  <2>14. CASE UNCHANGED assignmentVars
    <3>1. \A k \in touched : Closest(ru[k])' = Closest(ru[k])
      BY <2>14, ClosestKept DEF assignmentVars
    <3>. QED
      BY <2>14, <3>1 DEF assignmentVars, AssignmentInv, AssignmentTypeOK, AutomaticIsClosest
  <2>. QED
    BY <2>1, <2>2, <2>3, <2>4, <2>5, <2>6, <2>7, <2>8, <2>9, <2>10, <2>11, <2>12, <2>13, <2>14
       DEF AssignmentNext, Edit
<1>. QED
  BY <1>1, <1>2, PTL DEF AssignmentSpec

\* The managers hold what their types say, whatever is created, edited and removed.
THEOREM AssignmentTypeCorrect == AssignmentSpec => []AssignmentTypeOK
<1>. AssignmentInv => AssignmentTypeOK
  BY DEF AssignmentInv
<1>. QED
  BY AssignmentInductive, PTL

\* An automatic radio unit that was created or edited since the distributed units and the
\* panels last changed has a closest distributed unit that fits its panel.
THEOREM AutomaticCorrect == AssignmentSpec => []AutomaticIsClosest
<1>. AssignmentInv => AutomaticIsClosest
  BY DEF AssignmentInv
<1>. QED
  BY AssignmentInductive, PTL

\* A radio unit assigned by hand keeps its distributed unit until it is typed anew.
THEOREM ManualCorrect == AssignmentSpec => ManualStays
<1> DEFINE Kept == \A k \in DOMAIN ru \intersect DOMAIN ru' :
              ru[k].manual /\ ru'[k].manual /\ ru'[k].duId # ru[k].duId => \E j \in DOMAIN ru : TypeDuId(j)
<1>1. ASSUME AssignmentInv, [AssignmentNext]_assignmentVars
      PROVE  [Kept]_assignmentVars
  <2>t. \A k \in DOMAIN ru : ru[k] \in RadioUnit
    BY <1>1 DEF AssignmentInv, AssignmentTypeOK
  \* An update of another field leaves a unit that is and stays manual its distributed unit.
  <2>1. ASSUME NEW id, NEW field \in {"id", "position", "manual", "panelType"}, NEW value,
               UpdateRadioUnit(id, field, value), NEW k \in DOMAIN ru, ru[k].manual
        PROVE  ru'[k].manual => ru'[k].duId = ru[k].duId
    <3>1. CASE id \notin DOMAIN ru \/ k # id
      BY <2>1, <3>1 DEF UpdateRadioUnit
    <3>2. CASE id \in DOMAIN ru /\ k = id
      <4>1. PICK r \in Merged([ru[k] EXCEPT ![field] = value], field) : ru' = [ru EXCEPT ![k] = r]
        BY <2>1, <3>2 DEF UpdateRadioUnit
      <4>2. CASE field = "manual"
        BY <2>t, <2>1, <3>2, <4>1, <4>2 DEF Merged, Asks, RadioUnit
      <4>3. CASE field # "manual"
        BY <2>t, <2>1, <3>2, <4>1, <4>3 DEF Merged, Asks, RadioUnit
      <4>. QED
        BY <4>2, <4>3
    <3>. QED
      BY <3>1, <3>2
  <2>2. CASE AddRadioUnit
    <3>1. PICK k, r : ru' = With(ru, k, r) /\ r.manual = FALSE
      BY <2>2 DEF AddRadioUnit
    <3>. QED
      BY <3>1 DEF With
  <2>3. CASE UNCHANGED ru
    BY <2>3
  <2>4. ASSUME NEW i \in DOMAIN ru, RemoveRadioUnit(i) PROVE Kept
    BY <2>4 DEF RemoveRadioUnit, Without
  <2>5. ASSUME NEW i \in DOMAIN ru, RenameRadioUnit(i) PROVE Kept
    BY <2>1, <2>5 DEF RenameRadioUnit
  <2>6. ASSUME NEW i \in DOMAIN ru, MoveRadioUnit(i) PROVE Kept
    BY <2>1, <2>6 DEF MoveRadioUnit
  <2>7. ASSUME NEW i \in DOMAIN ru, TypeDuId(i) PROVE Kept
    BY <2>7
  <2>8. ASSUME NEW i \in DOMAIN ru, ToggleAssignment(i) PROVE Kept
    BY <2>1, <2>8 DEF ToggleAssignment
  <2>9. ASSUME NEW i \in DOMAIN ru, PickPanelType(i) PROVE Kept
    BY <2>1, <2>9 DEF PickPanelType
  <2>10. CASE AddDistributedUnit
    BY <2>3, <2>10 DEF AddDistributedUnit
  <2>11. CASE AddPanel
    BY <2>3, <2>11 DEF AddPanel
  <2>12. ASSUME NEW i \in DOMAIN du, RemoveDistributedUnit(i) \/ EditDistributedUnit(i) PROVE Kept
    BY <2>3, <2>12 DEF RemoveDistributedUnit, EditDistributedUnit
  <2>13. ASSUME NEW i \in DOMAIN panel, RemovePanel(i) \/ EditPanel(i) PROVE Kept
    BY <2>3, <2>13 DEF RemovePanel, EditPanel
  <2> HIDE DEF Kept
  <2>. QED
    BY <1>1, <2>2, <2>4, <2>5, <2>6, <2>7, <2>8, <2>9, <2>10, <2>11, <2>12, <2>13
       DEF AssignmentNext, Edit
<1>. QED
  BY <1>1, AssignmentInductive, PTL DEF AssignmentSpec, ManualStays

\* Creating a radio unit, a distributed unit or a panel never replaces another.
THEOREM AdditionsKeep == AssignmentSpec => AddingKeepsTheRest
<1> DEFINE Kept == /\ AddRadioUnit => \A k \in DOMAIN ru : ru'[k] = ru[k]
                   /\ AddDistributedUnit => \A k \in DOMAIN du : du'[k] = du[k]
                   /\ AddPanel => \A k \in DOMAIN panel : panel'[k] = panel[k]
<1>1. ASSUME AssignmentInv
      PROVE  Kept
  <2>1. DOMAIN ru \subseteq Id /\ DOMAIN du \subseteq Id /\ DOMAIN panel \subseteq Id
    BY <1>1 DEF AssignmentInv, AssignmentTypeOK
  <2>2. ASSUME AddRadioUnit PROVE \A k \in DOMAIN ru : ru'[k] = ru[k]
    <3>1. PICK r : ru' = With(ru, NextId(ru, 0), r)
      BY <2>2 DEF AddRadioUnit
    <3>. QED
      BY <2>1, <3>1, NextIdIsNew DEF With
  <2>3. ASSUME AddDistributedUnit PROVE \A k \in DOMAIN du : du'[k] = du[k]
    <3>1. PICK r : du' = With(du, NextId(du, 0), r)
      BY <2>3 DEF AddDistributedUnit
    <3>. QED
      BY <2>1, <3>1, NextIdIsNew DEF With
  <2>4. ASSUME AddPanel PROVE \A k \in DOMAIN panel : panel'[k] = panel[k]
    <3>1. PICK r : panel' = With(panel, NextId(panel, 1), r)
      BY <2>4 DEF AddPanel
    <3>. QED
      BY <2>1, <3>1, NextIdIsNew DEF With
  <2>. QED
    BY <2>2, <2>3, <2>4
<1>. QED
  BY <1>1, AssignmentInductive, PTL DEF AssignmentSpec, AddingKeepsTheRest
=============================================================================
