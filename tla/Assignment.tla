----------------------------- MODULE Assignment -----------------------------
(***************************************************************************)
(* The radio units, distributed units and panels of the scene as the       *)
(* property forms edit them, and the automatic assignment of a radio unit  *)
(* to the closest distributed unit that fits its panel                     *)
(* (utils/ruDuAutoAssign.ts, managers/radioUnitManager.ts,                 *)
(* distributedUnitManager.ts, panelManager.ts and the forms under          *)
(* components/ui/properties/).                                             *)
(*                                                                         *)
(* Each manager is a map from keys to records that also hold an "id": a    *)
(* form edits the id, the key stays, and every button of the form asks the *)
(* manager for the id it shows.  The name of a panel is its key, as        *)
(* CreateTool.tsx and panelManager.load give it.                           *)
(***************************************************************************)
EXTENDS Integers, FiniteSets, FiniteSetsExt

CONSTANTS
    MaxKey,      \* bound on the keys and the identifiers
    Place,       \* places along a line, integers
    Carrier,     \* reference frequencies
    Grid,        \* sizes of an antenna grid
    MaxSteps     \* bound on the edits of a behaviour

ASSUME NumberAssumption == MaxKey \in Nat /\ MaxKey >= 2 /\ MaxSteps \in Nat /\ Place \subseteq Int /\ Place # {}
ASSUME GridAssumption == 4 \in Grid /\ Grid \subseteq Nat /\ 3600 \in Carrier

Id == 0..MaxKey
NoDu == -1
DefaultPanel == 2       \* "panel_02" of entityDefaults.ts

VARIABLES
    ru,          \* radioUnitManager: key -> record
    du,          \* distributedUnitManager
    panel,       \* panelManager
    touched,     \* history: the radio units created, or edited where the assignment asks, since a distributed unit or a
                 \* panel last changed, or since the form of a unit of the same id typed a distributed unit into them
    steps        \* how many edits so far

assignmentVars == <<ru, du, panel, touched, steps>>

RadioUnit == [id : Id, panelType : Id, duId : Id \union {NoDu}, manual : BOOLEAN, position : Place]
DistributedUnit == [id : Id, antennas : Nat, carrier : Carrier, position : Place]
Panel == [id : Id, grid : Grid, dual : BOOLEAN, named : Grid, carrier : Carrier]

Without(map, k) == [j \in DOMAIN map \ {k} |-> map[j]]

With(map, k, r) == [j \in DOMAIN map \union {k} |-> IF j = k THEN r ELSE map[j]]

-----------------------------------------------------------------------------
(* utils/ruDuAutoAssign.ts *)

\* panelAntennaElementCount: the larger of the grid and the list of antennas.
Elements(p) ==
    LET polarized == IF p.dual THEN 2 * p.grid ELSE p.grid
    IN  IF polarized > p.named THEN polarized ELSE p.named

Distance(a, b) == IF a > b THEN a - b ELSE b - a

\* The distributed units a radio unit's panel fits, in number of antennas and carrier.
Matching(r) ==
    {k \in DOMAIN du : /\ r.panelType \in DOMAIN panel
                       /\ du[k].antennas = Elements(panel[r.panelType])
                       /\ du[k].carrier = panel[r.panelType].carrier}

\* findClosestMatchingDuId; which of two at the same distance depends on the map's order.
Closest(r) ==
    LET matching == Matching(r)
    IN  IF matching = {} THEN {NoDu}
        ELSE {du[k].id : k \in {j \in matching : \A i \in matching :
                 Distance(r.position, du[j].position) <= Distance(r.position, du[i].position)}}

\* pickPanelTypeForNewRu
PanelTypeOfNew ==
    LET used == {ru[k].panelType : k \in DOMAIN ru} \intersect DOMAIN panel
        first == {k \in DOMAIN panel : \A j \in DOMAIN panel : panel[k].id <= panel[j].id}
    IN  IF DefaultPanel \in DOMAIN panel \/ DOMAIN panel = {} THEN {DefaultPanel}
        ELSE IF used # {} THEN used ELSE first

-----------------------------------------------------------------------------
(* The managers. *)

\* "Generate unique IDs incrementally"
NextId(map, first) == IF DOMAIN map = {} THEN first ELSE Max(DOMAIN map) + 1

\* Mutant: a new panel type is stored without asking again.
Asks_NotPanel(field, r) == ~r.manual /\ field \in {"manual", "position"}

\* shouldRecomputeDu, of the unit as it will be
Asks(field, r) == ~r.manual /\ field \in {"manual", "position", "panelType"}

\* Mutant: a unit assigned by hand is assigned again with the others.
Merged_AsksAlways(r, field) ==
    IF field \in {"manual", "position", "panelType"}
    THEN {[r EXCEPT !.duId = d] : d \in Closest(r)} ELSE {r}

\* What radioUnitManager.update stores of a unit one field of which has changed.
Merged(r, field) ==
    IF Asks(field, r) THEN {[r EXCEPT !.duId = d] : d \in Closest(r)} ELSE {r}

\* radioUnitManager.update: nothing happens when the key is not there.
UpdateRadioUnit(id, field, value) ==
    \/ /\ id \notin DOMAIN ru
       /\ UNCHANGED <<ru, touched>>
    \/ /\ id \in DOMAIN ru
       /\ \E r \in Merged([ru[id] EXCEPT ![field] = value], field) : ru' = [ru EXCEPT ![id] = r]
       /\ touched' = CASE field \in {"manual", "position", "panelType"} -> touched \union {id}
                       [] field = "duId" -> touched \ {id}
                       [] OTHER -> touched

\* distributedUnitManager.update and panelManager.update
Update(map, id, field, value) ==
    IF id \in DOMAIN map THEN [map EXCEPT ![id][field] = value] ELSE map

-----------------------------------------------------------------------------
(* Creation: a click of GhostPreviewLayer.tsx, the menu of CreateTool.tsx. *)

AddRadioUnit ==
    \E place \in Place, type \in PanelTypeOfNew :
       LET k == NextId(ru, 0)
           new == [id |-> k, panelType |-> type, duId |-> NoDu, manual |-> FALSE, position |-> place]
       IN  /\ k \in Id
           /\ \E d \in Closest(new) : ru' = With(ru, k, [new EXCEPT !.duId = d])
           /\ touched' = touched \union {k}
           /\ UNCHANGED <<du, panel>>

AddDistributedUnit ==
    \E place \in Place :
       LET k == NextId(du, 0)
       IN  /\ k \in Id
           /\ du' = With(du, k, [id |-> k, antennas |-> 4, carrier |-> 3600, position |-> place])
           /\ touched' = {}
           /\ UNCHANGED <<ru, panel>>

AddPanel ==
    LET k == NextId(panel, 1)
    IN  /\ k \in Id
        /\ panel' = With(panel, k, [id |-> k, grid |-> 4, dual |-> FALSE, named |-> 4, carrier |-> 3600])
        /\ touched' = {}
        /\ UNCHANGED <<ru, du>>

-----------------------------------------------------------------------------
(* The forms: each asks the manager for the id it shows. *)

RemoveRadioUnit(k) ==
    /\ ru' = Without(ru, ru[k].id)
    /\ touched' = touched \ {ru[k].id}
    /\ UNCHANGED <<du, panel>>

RenameRadioUnit(k) ==
    /\ \E v \in Id : UpdateRadioUnit(ru[k].id, "id", v)
    /\ UNCHANGED <<du, panel>>

\* The coordinates of the form, or the gizmo's drop.
MoveRadioUnit(k) ==
    /\ \E v \in Place : UpdateRadioUnit(ru[k].id, "position", v)
    /\ UNCHANGED <<du, panel>>

\* The field is disabled for an automatic unit; "parseInt(...) || -1" reads 0 as none.
TypeDuId(k) ==
    /\ ru[k].manual
    /\ \E v \in Id : UpdateRadioUnit(ru[k].id, "duId", IF v = 0 THEN NoDu ELSE v)
    /\ UNCHANGED <<du, panel>>

ToggleAssignment(k) ==
    /\ UpdateRadioUnit(ru[k].id, "manual", ~ru[k].manual)
    /\ UNCHANGED <<du, panel>>

PickPanelType(k) ==
    /\ \E v \in DOMAIN panel : UpdateRadioUnit(ru[k].id, "panelType", v)
    /\ UNCHANGED <<du, panel>>

RemoveDistributedUnit(k) ==
    /\ du' = Without(du, du[k].id)
    /\ touched' = {}
    /\ UNCHANGED <<ru, panel>>

EditDistributedUnit(k) ==
    /\ \/ \E v \in Id : du' = Update(du, du[k].id, "id", v)
       \/ \E v \in Grid : du' = Update(du, du[k].id, "antennas", v)
       \/ \E v \in Carrier : du' = Update(du, du[k].id, "carrier", v)
       \/ \E v \in Place : du' = Update(du, du[k].id, "position", v)
    /\ touched' = {}
    /\ UNCHANGED <<ru, panel>>

RemovePanel(k) ==
    /\ panel' = Without(panel, panel[k].id)
    /\ touched' = {}
    /\ UNCHANGED <<ru, du>>

\* The id 0 is read as no id; an antenna type names as many antennas as the grid has.
EditPanel(k) ==
    /\ \/ \E v \in Id \ {0} : panel' = Update(panel, panel[k].id, "id", v)
       \/ panel' = Update(panel, panel[k].id, "dual", ~panel[k].dual)
       \/ \E v \in Grid : panel' = Update(panel, panel[k].id, "grid", v)
       \/ panel' = Update(panel, panel[k].id, "named", panel[k].grid)
       \/ \E v \in Carrier : panel' = Update(panel, panel[k].id, "carrier", v)
    /\ touched' = {}
    /\ UNCHANGED <<ru, du>>

-----------------------------------------------------------------------------
\* A database of one panel, one distributed unit and one radio unit, whose assignment is the file's.
LoadedEntities(d) ==
    /\ panel = [k \in {DefaultPanel} |-> [id |-> DefaultPanel, grid |-> 4, dual |-> FALSE, named |-> 4, carrier |-> 3600]]
    /\ du = [k \in {0} |-> [id |-> 0, antennas |-> 4, carrier |-> 3600, position |-> CHOOSE p \in Place : TRUE]]
    /\ ru = [k \in {0} |-> [id |-> 0, panelType |-> DefaultPanel, duId |-> d, manual |-> FALSE, position |-> CHOOSE p \in Place : TRUE]]

Empty == panel = <<>> /\ du = <<>> /\ ru = <<>>

AssignmentInit ==
    /\ Empty \/ \E d \in {0, NoDu} : LoadedEntities(d)
    /\ touched = {}
    /\ steps = 0

Edit ==
    \/ AddRadioUnit
    \/ AddDistributedUnit
    \/ AddPanel
    \/ \E k \in DOMAIN ru : \/ RemoveRadioUnit(k)
                            \/ RenameRadioUnit(k)
                            \/ MoveRadioUnit(k)
                            \/ TypeDuId(k)
                            \/ ToggleAssignment(k)
                            \/ PickPanelType(k)
    \/ \E k \in DOMAIN du : RemoveDistributedUnit(k) \/ EditDistributedUnit(k)
    \/ \E k \in DOMAIN panel : RemovePanel(k) \/ EditPanel(k)

AssignmentNext == steps < MaxSteps /\ steps' = steps + 1 /\ Edit

AssignmentSpec == AssignmentInit /\ [][AssignmentNext]_assignmentVars

-----------------------------------------------------------------------------
(* The managers hold what their types say. *)
AssignmentTypeOK ==
    /\ \A k \in DOMAIN ru : k \in Id /\ ru[k] \in RadioUnit
    /\ \A k \in DOMAIN du : k \in Id /\ du[k] \in DistributedUnit
    /\ \A k \in DOMAIN panel : k \in Id /\ panel[k] \in Panel
    /\ touched \subseteq DOMAIN ru

(* A radio unit that is assigned automatically, and was created, moved, given *)
(* a panel type or switched to automatic since the distributed units and the  *)
(* panels last changed, has a closest distributed unit that fits its panel    *)
(* (radioUnitManager.ts, add and update).  The exception is a unit another    *)
(* took the id of: that one's form types its distributed unit into this one.  *)
AutomaticIsClosest ==
    \A k \in touched : ~ru[k].manual => ru[k].duId \in Closest(ru[k])

(* A unit assigned by hand keeps its distributed unit through every edit but  *)
(* the one of the field itself, of whatever unit and whatever entity          *)
(* (radioUnitManager.ts, update).                                             *)
ManualStays ==
    [][\A k \in DOMAIN ru \intersect DOMAIN ru' :
           ru[k].manual /\ ru'[k].manual /\ ru'[k].duId # ru[k].duId
               => \E j \in DOMAIN ru : TypeDuId(j)]_assignmentVars

(* Creating an object never replaces one that is there, however many were     *)
(* removed or renamed before (GhostPreviewLayer.tsx, CreateTool.tsx).         *)
AddingKeepsTheRest ==
    [][/\ AddRadioUnit => \A k \in DOMAIN ru : ru'[k] = ru[k]
       /\ AddDistributedUnit => \A k \in DOMAIN du : du'[k] = du[k]
       /\ AddPanel => \A k \in DOMAIN panel : panel'[k] = panel[k]]_assignmentVars

(* A new radio unit has an id no other has: "Generate unique IDs             *)
(* incrementally" (GhostPreviewLayer.tsx).  The id is taken from the keys,    *)
(* and an edit of an id changes no key.                                       *)
(* Refuted: NewIds.cfg has the counterexample.                              *)
NewIdIsUnique ==
    [][\A k \in DOMAIN ru' \ DOMAIN ru : \A j \in DOMAIN ru : ru[j].id # ru'[k].id]_assignmentVars
=============================================================================
