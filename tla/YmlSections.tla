---------------------------- MODULE YmlSections ----------------------------
(***************************************************************************)
(* The simulation file between the client (SimConfig) and the viewer       *)
(* (app/managers/ymlConfigLoader.ts).  The viewer applies the file to its  *)
(* entities (applyYmlConfig) and, after an edit, writes the entities back  *)
(* over it (serializeToYml): an entity takes the entry and the first       *)
(* update that the file has for it, and puts its own properties on top;    *)
(* the other updates go.                                                   *)
(*                                                                         *)
(* A property of an entity is named here by its key in the file, and its   *)
(* value is in the unit of the viewer: Hz for the spacing of subcarriers,  *)
(* 0 and 2 for the polarisation; the frequency of a panel, in Hz in the    *)
(* viewer, is in kHz here, for Hz would not fit the integers of TLC.       *)
(* When the save happens is the subject of YmlSync.                        *)
(***************************************************************************)
EXTENDS SimConfig

VARIABLE scene   \* the entities of the viewer: [attrs, place] by id; the scenario parameters are entity 0

sectionsVars == <<kind, config, contents, imported, steps, scene>>

(* DU_, RU_, UE_, PANEL_ and SCENARIO_ATTRIBUTE_MAP, for the attributes that SimConfig has.  Of the scenario's only some:
   the viewer writes the seed and mobility as it does the procedural user equipments, whatever the switches.  The names of
   antennas stand for the set of them: serializePanel writes each once. *)
ViewerTable ==
    [Panels |-> {"antenna_names", "reference_freq_mhz", "dual_polarized"},
     DUs |-> {"aerial_du_reference_freq", "aerial_du_subcarrier_spacing"},
     RUs |-> {"aerial_gnb_radiated_power", "aerial_gnb_mech_tilt", "aerial_gnb_enable_rays", "aerial_gnb_cell_id"},
     UEs |-> {"aerial_ue_radiated_power", "aerial_ue_manual", "waypoint_speed"},
     Scenario |-> {"sim_is_full", "sim_duration", "sim_num_procedural_ues"}]

\* DEFAULT_..._PROPERTIES and the initial scenarioParams of the store, in the units of the viewer.
Default == [antenna_names |-> 1, reference_freq_mhz |-> 3600 * 1000, dual_polarized |-> 0,
            aerial_du_reference_freq |-> 3600, aerial_du_subcarrier_spacing |-> 30000,
            aerial_gnb_radiated_power |-> 43, aerial_gnb_mech_tilt |-> 0, aerial_gnb_enable_rays |-> 1,
            aerial_gnb_cell_id |-> 0,
            aerial_ue_radiated_power |-> 23, aerial_ue_manual |-> 1, waypoint_speed |-> 1,
            sim_is_full |-> 0, sim_duration |-> 1, sim_num_procedural_ues |-> 0]

\* SCENARIO_EXPORT_DEFAULTS
ScenarioExportDefaults == [sim_duration |-> 1, sim_num_procedural_ues |-> 0]

\* normalizeDuSubcarrierSpacingHz: up to 1000 it is kHz.
SubcarrierSpacingHz(v) == IF v \in 1..1000 THEN v * 1000 ELSE v

\* coerceRuRadiatedPowerDbm: a number of watts that stands for a whole dBm (of the integers 1, 10 and 100) becomes that dBm.
RadiatedPowerDbm(v) == IF v \in {1, 10, 100} THEN (CASE v = 1 -> 30 [] v = 10 -> 40 [] v = 100 -> 50) ELSE v

\* From the file to the viewer: applyPanelUpdates and normalizePanelDualPolarized, createDistributedUnits.
InViewer(key, v) ==
    CASE key = "reference_freq_mhz" -> v * 1000
      [] key = "dual_polarized" -> IF v \in {1, 2} THEN 2 ELSE 0
      [] key = "aerial_du_subcarrier_spacing" -> SubcarrierSpacingHz(v)
      [] OTHER -> v

\* createRadioUnits converts the power when it reads it, createUserEquipments does not.
Shown(key, v) == IF key = "aerial_gnb_radiated_power" THEN RadiatedPowerDbm(v) ELSE InViewer(key, v)

\* InFile without the conversion of the spacing to kHz.
InFile_Hz(key, v) ==
    CASE key = "reference_freq_mhz" -> v \div 1000
      [] key = "dual_polarized" -> IF v = 2 THEN 1 ELSE 0
      [] key \in {"aerial_gnb_radiated_power", "aerial_ue_radiated_power"} -> RadiatedPowerDbm(v)
      [] OTHER -> v

\* From the viewer to the file: the serialize... functions.
InFile(key, v) ==
    CASE key = "reference_freq_mhz" -> v \div 1000
      [] key = "dual_polarized" -> IF v = 2 THEN 1 ELSE 0
      [] key = "aerial_du_subcarrier_spacing" -> SubcarrierSpacingHz(v) \div 1000
      [] key \in {"aerial_gnb_radiated_power", "aerial_ue_radiated_power"} -> RadiatedPowerDbm(v)
      [] OTHER -> v

AllInFile(attrs) == [key \in DOMAIN attrs |-> InFile(key, attrs[key])]

-----------------------------------------------------------------------------
(* Reading: the create... functions, applyUpdates, buildScenarioParams. *)

\* What the updates of a section say, in their order, of the properties of an entity.
Updates(s, id) ==
    LET attrs == Only(Applied(s.update, id), ViewerTable[kind])
    IN  [key \in DOMAIN attrs |-> Shown(key, attrs[key])]

\* "pos" before "position", and the origin when there is neither.
PositionOf(entry) ==
    IF entry.pos # NoPlace THEN entry.pos ELSE IF entry.position # NoPlace THEN entry.position ELSE Origin

CreatePanels(s) ==
    [id \in DOMAIN s.add |-> [attrs |-> Over(Updates(s, id), Restrict(Default, ViewerTable.Panels)), place |-> NoPlace]]

CreateDistributedUnits(s) ==
    [id \in DOMAIN s.add |->
        [attrs |-> Over(Updates(s, id), Restrict(Default, ViewerTable.DUs)), place |-> PositionOf(s.add[id])]]

\* The cell of a radio unit has its id unless an update says otherwise.
CreateRadioUnits(s) ==
    [id \in DOMAIN s.add |->
        [attrs |-> Over(Updates(s, id), Over(One("aerial_gnb_cell_id", id), Restrict(Default, ViewerTable.RUs))),
         place |-> PositionOf(s.add[id])]]

\* The speeds of an update replace those of the waypoints, as many as there are: none on a path from a GPX source.
CreateUserEquipments(s) ==
    [id \in DOMAIN s.add |->
        LET fromEntry == One("waypoint_speed", s.add[id].speed)
            read == Over(Updates(s, id), Over(fromEntry, Restrict(Default, ViewerTable.UEs)))
        IN  [attrs |-> IF s.add[id].position = NoPlace THEN Over(fromEntry, read) ELSE read, place |-> s.add[id].position]]

\* The parameters that the file has replace those of the store.
BuildScenarioParams(s, before) == One(0, [attrs |-> Over(Updates(s, 0), before[0].attrs), place |-> NoPlace])

\* applyYmlConfig, for this section.
ApplySection(s, before) ==
    CASE kind = "Panels" -> CreatePanels(s)
      [] kind = "DUs" -> CreateDistributedUnits(s)
      [] kind = "RUs" -> CreateRadioUnits(s)
      [] kind = "UEs" -> CreateUserEquipments(s)
      [] kind = "Scenario" -> BuildScenarioParams(s, before)

\* The entities of a page that starts.
FreshScene ==
    IF kind = "Scenario" THEN One(0, [attrs |-> Restrict(Default, ViewerTable.Scenario), place |-> NoPlace]) ELSE NoAttributes

-----------------------------------------------------------------------------
(* Writing: serializeToYml over the section that is there. *)

\* existingUpdateForId: the first update for the id.
ExistingUpdates(s, id) == {i \in DOMAIN s.update : Targets(s.update[i], id)}

ExistingAttributes(s, id) ==
    LET there == ExistingUpdates(s, id)
    IN  IF there = {} THEN NoAttributes ELSE s.update[CHOOSE i \in there : \A j \in there : i <= j].attrs

\* ymlPositionSource: where an entry of the file is, as far as it says.
There(entry) == IF entry.position # NoPlace THEN entry.position ELSE entry.pos

\* What is written of a position: latitude and longitude; of a path the height of its waypoints over the terrain as well.
Flattened(place) == IF place = NoPlace THEN NoPlace ELSE Flat[place]

Unmoved(id, place, s) == id \in DOMAIN s.add /\ There(s.add[id]) = place

\* serializePositionAdd: an entry whose position has not changed stays as it is.
PositionAdd(id, place, s) ==
    IF Unmoved(id, place, s) THEN s.add[id]
    ELSE IF id \in DOMAIN s.add THEN [s.add[id] EXCEPT !.pos = NoPlace, !.position = Flattened(place)]
    ELSE AddEntry(Flattened(place), "", 0)

\* serializePanel: nothing for a panel from a file that no update is for; the antenna names only when there are none yet.
PanelAttributes(id, e, s) ==
    LET there == ExistingAttributes(s, id)
    IN  IF id \in DOMAIN s.add /\ s.add[id].src = "file" /\ ExistingUpdates(s, id) = {} THEN NoAttributes
        ELSE Over(Only(there, {"antenna_names"}), Over(AllInFile(e.attrs), there))

\* serializeDistributedUnit
DuAttributes(id, e, s) == Over(AllInFile(e.attrs), ExistingAttributes(s, id))

\* RuAttributes that leaves the default out though the update there has another value.
RuAttributes_Lean(id, e, s) ==
    LET lean == {key \in {"aerial_gnb_enable_rays"} : e.attrs[key] = Default[key]}
    IN  Over(AllInFile(Without(e.attrs, {"aerial_gnb_cell_id"} \union lean)), ExistingAttributes(s, id))

\* serializeRadioUnit: enableRays is written when it is there or not the default; the cell is not among RU_EXPORT_ATTRS.
RuAttributes(id, e, s) ==
    LET there == ExistingAttributes(s, id)
        lean == {key \in {"aerial_gnb_enable_rays"} \ DOMAIN there : e.attrs[key] = Default[key]}
    IN  Over(AllInFile(Without(e.attrs, {"aerial_gnb_cell_id"} \union lean)), there)

\* serializeUserEquipment: the speeds go to the waypoints, the waypoints to the entry unless that has a GPX source.
UeAttributes(id, e, s) == Over(AllInFile(Without(e.attrs, {"waypoint_speed"})), ExistingAttributes(s, id))

UeAdd(id, e, s) ==
    IF id \in DOMAIN s.add /\ s.add[id].src = "gpx" THEN s.add[id]
    ELSE AddEntry(Flattened(e.place), "waypoints", e.attrs["waypoint_speed"])

PanelAdd(id, s) == IF id \in DOMAIN s.add THEN s.add[id] ELSE AddEntry(NoPlace, "spec", 0)

\* serializeScenarioParams: of a file that has an update only the keys of the first one, else what is not the default.
ScenarioParams(e, s) ==
    LET there == ExistingAttributes(s, 0)
        written == IF s.update # <<>> THEN DOMAIN there
                   ELSE {key \in DOMAIN e.attrs : e.attrs[key] # Over(ScenarioExportDefaults, Default)[key]}
    IN  Over(AllInFile(Only(e.attrs, written)), there)

SerializeAdd(id, e, s) ==
    CASE kind = "Panels" -> PanelAdd(id, s)
      [] kind \in {"DUs", "RUs"} -> PositionAdd(id, e.place, s)
      [] kind = "UEs" -> UeAdd(id, e, s)

SerializeAttributes(id, e, s) ==
    CASE kind = "Panels" -> PanelAttributes(id, e, s)
      [] kind = "DUs" -> DuAttributes(id, e, s)
      [] kind = "RUs" -> RuAttributes(id, e, s)
      [] kind = "UEs" -> UeAttributes(id, e, s)
      [] kind = "Scenario" -> ScenarioParams(e, s)

\* Only manual user equipments are written.
Written(entities) ==
    IF kind = "Scenario" THEN {}
    ELSE {id \in DOMAIN entities : kind = "UEs" => entities[id].attrs["aerial_ue_manual"] = 1}

\* The section in the file after a save; of a section without entities only its asset is left.
SerializeToYml(entities, s) ==
    LET saved == {id \in IF kind = "Scenario" THEN {0} ELSE Written(entities) :
                     DOMAIN SerializeAttributes(id, entities[id], s) # {}}
        ids == InOrder(saved)
    IN  [default |-> s.default,
         add |-> [id \in Written(entities) |-> SerializeAdd(id, entities[id], s)],
         update |-> [i \in 1..Len(ids) |-> [ids |-> IF ids[i] = 0 THEN {} ELSE {ids[i]},
                                           attrs |-> SerializeAttributes(ids[i], entities[ids[i]], s)]]]

-----------------------------------------------------------------------------
(* The operations of the viewer, and the file between the two. *)

\* A property is changed in a form: not whether a user equipment is manual, nor the parameters of the scenario.
EditAttribute(id, key, v) ==
    /\ kind # "Scenario" /\ id \in DOMAIN scene /\ key \in ViewerTable[kind] \ {"aerial_ue_manual"}
    /\ scene' = [scene EXCEPT ![id].attrs[key] = v]

\* These come with the simulation that is loaded (scenarioManager.ts).
LoadScenario(full, duration, procedural) ==
    /\ kind = "Scenario"
    /\ scene' = [scene EXCEPT ![0].attrs = [sim_is_full |-> full, sim_duration |-> duration, sim_num_procedural_ues |-> procedural]]

MoveEntity(id, place) ==
    /\ kind \in {"DUs", "RUs", "UEs"} /\ id \in DOMAIN scene
    /\ scene' = [scene EXCEPT ![id].place = place]

AddEntity(id, place) ==
    /\ kind \in {"DUs", "RUs", "UEs"} /\ id \notin DOMAIN scene
    /\ LET cells == {scene[other].attrs["aerial_gnb_cell_id"] : other \in DOMAIN scene}
           cell == IF kind = "RUs" THEN One("aerial_gnb_cell_id", Max({0} \union cells) + 1) ELSE NoAttributes
       IN  scene' = Over(scene, One(id, [attrs |-> Over(cell, Restrict(Default, ViewerTable[kind])), place |-> place]))

RemoveEntity(id) ==
    /\ kind \in {"DUs", "RUs", "UEs"} /\ id \in DOMAIN scene
    /\ scene' = Restrict(scene, DOMAIN scene \ {id})

ViewerEdit ==
    \/ \E id \in DOMAIN scene, key \in ViewerTable[kind] : \E v \in Values(key) :
          EditAttribute(id, key, InViewer(key, v))
    \/ \E full \in {0, 1}, d \in Values("sim_duration"), n \in Values("sim_num_procedural_ues") : LoadScenario(full, d, n)
    \/ \E id \in Id : (\E place \in Place : MoveEntity(id, place) \/ AddEntity(id, place)) \/ RemoveEntity(id)

\* A file with "pos" instead of "position": the viewer reads it, the client does not write it.
WithPos(s) ==
    [s EXCEPT !.add = [id \in DOMAIN s.add |-> [s.add[id] EXCEPT !.pos = s.add[id].position, !.position = NoPlace]]]

\* A configuration to begin with, and the file uploaded: of the client, with the other spelling of positions, or with an asset only.
Base ==
    CASE kind = "Panels" -> {One(1, NewPrim(NoPlace, "spec", 0)),
                             Over(One(1, NewPrim(NoPlace, "spec", 0)), One(3, NewPrim(NoPlace, "file", 0)))}
      [] kind = "UEs" -> {Over(One(1, NewPrim(Origin, "waypoints", 1)), One(2, NewPrim(NoPlace, "gpx", 0)))}
      [] kind = "Scenario" -> {Scenario0}
      [] OTHER -> {One(1, NewPrim(Origin, "", 0))}

SectionsInit ==
    /\ kind \in Section
    /\ \E prims \in Base : config = [prims |-> prims, groups |-> <<>>, next |-> NextPanel(prims)]
    /\ contents \in {ToYaml(config), [default |-> TRUE, add |-> NoAttributes, update |-> <<>>]}
                \union (IF kind \in {"DUs", "RUs"} THEN {WithPos(ToYaml(config))} ELSE {})
    /\ scene = ApplySection(contents, FreshScene)
    /\ imported = [ids |-> {}, groups |-> 0]
    /\ steps = 0

ClientStep == steps < MaxSteps /\ ClientEdit /\ steps' = steps + 1 /\ UNCHANGED <<kind, contents, imported, scene>>

ViewerStep == steps < MaxSteps /\ ViewerEdit /\ steps' = steps + 1 /\ UNCHANGED <<kind, config, contents, imported>>

\* The client's file is put into the editor and applied.
Upload ==
    /\ contents' = ToYaml(config)
    /\ scene' = ApplySection(contents', scene)
    /\ UNCHANGED <<kind, config, imported, steps>>

\* The page starts with the file in the storage of the browser.
ReloadPage == scene' = ApplySection(contents, FreshScene) /\ UNCHANGED <<kind, config, contents, imported, steps>>

Save == contents' = SerializeToYml(scene, contents) /\ UNCHANGED <<kind, config, imported, steps, scene>>

Import == ImportFile /\ UNCHANGED scene

SectionsNext == ClientStep \/ ViewerStep \/ Upload \/ ReloadPage \/ Save \/ Import

SectionsSpec == SectionsInit /\ [][SectionsNext]_sectionsVars

-----------------------------------------------------------------------------
\* What a save does not take from the entity: the file has its own (antenna names, speeds, parameters outside the first
\* update, the path of a GPX source), or no place for it (the cell, a panel from a file, the height of a unit that is
\* new or was moved, the height of the terrain under the waypoints of a user equipment).
Lost(id) ==
    LET there == DOMAIN ExistingAttributes(contents, id)
        isA(src) == id \in DOMAIN contents.add /\ contents.add[id].src = src
        height == IF Unmoved(id, scene[id].place, contents) THEN {} ELSE {"height"}
    IN  CASE kind = "Panels" -> IF isA("file") /\ there = {} THEN ViewerTable.Panels ELSE there \intersect {"antenna_names"}
          [] kind = "DUs" -> height
          [] kind = "RUs" -> {"aerial_gnb_cell_id"} \union height
          [] kind = "UEs" -> IF isA("gpx") THEN {"waypoint_speed", "place"}
                             ELSE {"height"} \union (there \intersect {"waypoint_speed"})
          [] kind = "Scenario" -> IF contents.update = <<>> THEN {} ELSE ViewerTable.Scenario \ there

(***************************************************************************)
(* What is saved and applied again shows what was on the screen, whatever  *)
(* the file had: the save merges the entities into entries and updates of  *)
(* the client or of an earlier save, and leaves defaults out.  Except for  *)
(* what Lost lists, and for a power that reads as watts.                   *)
(***************************************************************************)
SavedIsShown ==
    LET again == ApplySection(SerializeToYml(scene, contents), FreshScene)
        saved(key, v) == IF key \in {"aerial_gnb_radiated_power", "aerial_ue_radiated_power"} THEN RadiatedPowerDbm(v) ELSE v
    IN  /\ DOMAIN again = IF kind = "Scenario" THEN {0} ELSE Written(scene)
        /\ \A id \in DOMAIN again :
              /\ \A key \in ViewerTable[kind] \ Lost(id) : again[id].attrs[key] = saved(key, scene[id].attrs[key])
              /\ "place" \notin Lost(id) =>
                    again[id].place = IF "height" \in Lost(id) THEN Flattened(scene[id].place) ELSE scene[id].place

\* The format has an "alt" for the position of a unit (ymlConfigLoader.ts:81) and the viewer shows it there: so it should
\* survive a save.
\* Refuted: YmlPower.cfg has the counterexample.
HeightIsKept ==
    LET again == ApplySection(SerializeToYml(scene, contents), FreshScene)
    IN  kind \in {"DUs", "RUs"} => \A id \in DOMAIN again : again[id].place = scene[id].place

(***************************************************************************)
(* The client and the viewer understand a saved file alike: the same       *)
(* entities, the same values of the attributes both know, each in its      *)
(* unit, and the same positions where the file does not say "pos".         *)
(***************************************************************************)
ClientReadsSaved ==
    LET saved == SerializeToYml(scene, contents)
        shown == ApplySection(saved, FreshScene)
        read == FromYaml(saved).prims
        inViewer(key, v) == IF key = "aerial_du_subcarrier_spacing" THEN v * 1000 ELSE InViewer(key, v)
    IN  Importable(saved) =>
            /\ DOMAIN read = DOMAIN shown
            /\ \A id \in DOMAIN read :
                  /\ read[id].src # "file" =>
                        \A key \in Table[kind] \intersect ViewerTable[kind] :
                            inViewer(key, read[id].attrs[key]) = shown[id].attrs[key]
                  /\ (kind # "Scenario" /\ saved.add[id].pos = NoPlace) => read[id].place = shown[id].place

\* The comment of ymlConfigLoader.ts:610: a power that is uploaded is the power that is saved.
PowerIsKept ==
    kind \in {"RUs", "UEs"} =>
        LET saved == SerializeToYml(scene, contents)
            key == IF kind = "RUs" THEN "aerial_gnb_radiated_power" ELSE "aerial_ue_radiated_power"
        IN  \A id \in DOMAIN saved.add :
                key \in DOMAIN ExistingAttributes(contents, id) /\ scene = ApplySection(contents, FreshScene)
                    => Applied(saved.update, id)[key] = Applied(contents.update, id)[key]
=============================================================================
