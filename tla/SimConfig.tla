----------------------------- MODULE SimConfig -----------------------------
(***************************************************************************)
(* The configuration object of the Python/C++ client                       *)
(* (client/config/sim_config.hpp, prims.hpp, prim_collections.hpp) and the *)
(* simulation file it writes (toYamlString) and reads back (fromYAMLFile). *)
(*                                                                         *)
(* The sections of the file do not refer to each other when they are       *)
(* written or read, so a behaviour is about one of them, "kind".  A        *)
(* section lists what is added and then updates, which are applied in      *)
(* order: each gives attributes to some of the ids, or to all of them.     *)
(* The client keeps the attributes it knows as fields of the primitive and *)
(* everything else as groups that it writes after them.  The scenario has  *)
(* nothing to add and no ids: it is the primitive 0.                       *)
(*                                                                         *)
(* For each kind a few attributes stand for the others: those with a       *)
(* conversion or a rule of their own, one that is plain, one the client    *)
(* does not know ("custom").  Booleans are 0 and 1.                        *)
(***************************************************************************)
EXTENDS Integers, Sequences, FiniteSets, SequencesExt

CONSTANTS
    Section,     \* the sections a behaviour may be about
    Id,          \* identifiers of primitives
    Place,       \* positions; for a user equipment, paths
    Flat,        \* Flat[p]: p as the viewer saves it, a position without its height, a path without the terrain under it
    Origin,      \* the position of an entity whose entry has none
    NoPlace,     \* no position
    Power,       \* radiated powers in dBm
    MaxSteps     \* bound on the operations of a behaviour

ASSUME SectionAssumption == Section \subseteq {"Panels", "DUs", "RUs", "UEs", "Scenario"}
ASSUME PlaceAssumption == Origin \in Place /\ NoPlace \notin Place /\ Flat \in [Place -> Place]
ASSUME IdAssumption == Id \subseteq Nat \ {0} /\ IsFiniteSet(Id) /\ MaxSteps \in Nat

VARIABLES
    kind,        \* the section
    config,      \* SimConfig: primitives by id, the groups of setAttributes, the next panel id
    contents,    \* the section in the file that goes between the client and the viewer
    imported,    \* history: the ids the last import found and how many groups it left; ids = {} before
    steps        \* how many operations so far

clientVars == <<config, imported>>

\* Attribute functions are partial: the keys that are there.  Over puts the first on top of the second.
NoAttributes == [key \in {} |-> 0]
One(key, v) == [k \in {key} |-> v]
Over(top, attrs) ==
    [key \in DOMAIN top \union DOMAIN attrs |-> IF key \in DOMAIN top THEN top[key] ELSE attrs[key]]
Without(attrs, keys) == Restrict(attrs, DOMAIN attrs \ keys)
Only(attrs, keys) == Restrict(attrs, DOMAIN attrs \intersect keys)

(* The tables of the attributes the client knows. *)
PanelTable == {"antenna_names", "reference_freq_mhz", "dual_polarized"}
DuTable == {"aerial_du_reference_freq", "aerial_du_subcarrier_spacing"}
RuTable == {"aerial_gnb_radiated_power", "aerial_gnb_mech_tilt"}
UeTable == {"aerial_ue_radiated_power", "aerial_ue_manual", "aerial_ue_bler_target"}
ScenarioTable ==
    {"sim_is_full", "sim_simulation_mode", "sim_duration", "sim_is_seeded", "sim_seed", "sim_num_procedural_ues",
     "sim_perc_indoor_procedural_ues", "um_enable_urban_mobility", "sim_enable_dynamic_scattering", "um_num_vehicles"}

Table == [Panels |-> PanelTable, DUs |-> DuTable, RUs |-> RuTable, UEs |-> UeTable, Scenario |-> ScenarioTable]

\* The initial values of the fields of Panel, DU, RU, UE and Scenario.
Initial == [antenna_names |-> 1, reference_freq_mhz |-> 3600, dual_polarized |-> 1,
            aerial_du_reference_freq |-> 3600, aerial_du_subcarrier_spacing |-> 30,
            aerial_gnb_radiated_power |-> 43, aerial_gnb_mech_tilt |-> 0,
            aerial_ue_radiated_power |-> 26, aerial_ue_manual |-> 1, aerial_ue_bler_target |-> 10,
            sim_is_full |-> 0, sim_simulation_mode |-> 0, sim_duration |-> 1, sim_is_seeded |-> 0, sim_seed |-> 0,
            sim_num_procedural_ues |-> 0, sim_perc_indoor_procedural_ues |-> 0,
            um_enable_urban_mobility |-> 0, sim_enable_dynamic_scattering |-> 0, um_num_vehicles |-> 0]

\* What an attribute may be set to, in the unit of the file.
Values(key) ==
    CASE key \in {"aerial_gnb_radiated_power", "aerial_ue_radiated_power"} -> Power
      [] key = "reference_freq_mhz" -> {1200, 3600}
      [] key = "aerial_du_subcarrier_spacing" -> {15, 30}
      [] key = "sim_duration" -> {1, 2}
      [] key = "waypoint_speed" -> {3}
      [] key = "aerial_gnb_cell_id" -> {7}
      [] key \in {"dual_polarized", "aerial_ue_manual", "aerial_gnb_enable_rays", "sim_is_full", "sim_simulation_mode",
                  "sim_num_procedural_ues", "sim_is_seeded", "um_enable_urban_mobility",
                  "sim_enable_dynamic_scattering"} -> {0, 1}
      [] key = "um_num_vehicles" -> {0, 2}
      [] OTHER -> {1, 2}

\* Keys that setAttributes is given: any, whether the client knows them or not.
Settable == [Panels |-> PanelTable \union {"custom"},
             DUs |-> DuTable \union {"custom"},
             RUs |-> RuTable \union {"aerial_gnb_enable_rays", "aerial_gnb_cell_id", "custom"},
             UEs |-> UeTable \union {"waypoint_speed", "custom"},
             Scenario |-> (ScenarioTable \ {"sim_is_full", "sim_simulation_mode"}) \union {"custom"}]

(***************************************************************************)
(* Updates: [ids, attrs], for all ids when the set is empty ("*").         *)
(***************************************************************************)
Targets(u, id) == u.ids = {} \/ id \in u.ids

\* The attributes a section gives an id: a later update overrides an earlier one.
Applied(update, id) ==
    LET for == {i \in DOMAIN update : Targets(update[i], id)}
        says(key) == {i \in for : key \in DOMAIN update[i].attrs}
    IN  [key \in UNION {DOMAIN update[i].attrs : i \in for} |->
            update[CHOOSE i \in says(key) : \A j \in says(key) : j <= i].attrs[key]]

(***************************************************************************)
(* Writing: toNeutralTree and the build...Section functions.               *)
(***************************************************************************)
AddEntry(position, src, speed) == [pos |-> NoPlace, position |-> position, src |-> src, speed |-> speed]

InOrder(ids) ==
    CHOOSE s \in [1..Cardinality(ids) -> ids] : Range(s) = ids /\ \A i, j \in DOMAIN s : i < j => s[i] < s[j]

\* One update for each of the ids, in their order, then the groups of setAttributes.
OwnThenGroups(c, ids) ==
    LET sorted == InOrder(ids)
    IN  [i \in 1..Len(sorted) |-> [ids |-> {sorted[i]}, attrs |-> c.prims[sorted[i]].attrs]] \o c.groups

PlacedSection(c) ==
    [default |-> TRUE,
     add |-> [id \in DOMAIN c.prims |-> AddEntry(c.prims[id].place, c.prims[id].src, c.prims[id].speed)],
     update |-> OwnThenGroups(c, DOMAIN c.prims)]

\* A panel from a file has no update of its own.
BuildPanelsSection(c) ==
    [PlacedSection(c) EXCEPT !.update = OwnThenGroups(c, {id \in DOMAIN c.prims : c.prims[id].src # "file"})]

BuildDUsSection(c) == PlacedSection(c)

BuildRUsSection(c) == PlacedSection(c)

\* Waypoints, a GPX source, or both.
BuildUEsSection(c) == PlacedSection(c)

\* The switches of the scenario, each with the attributes that are written only when it is on.
Switched == [sim_is_seeded |-> {"sim_seed"},
             sim_num_procedural_ues |-> {"sim_perc_indoor_procedural_ues"},
             um_enable_urban_mobility |-> {"sim_enable_dynamic_scattering", "um_num_vehicles"}]

Off(attrs) == {switch \in DOMAIN Switched : ~(attrs[switch] > 0)}

\* What the switches that are off keep out of the file.
Silenced(attrs) == IF kind = "Scenario" THEN UNION {Switched[switch] : switch \in Off(attrs)} ELSE {}

\* Scenario::toAttributeMap leaves out a switch that is off and what it governs, whatever values that has.
ScenarioAttributes(p) == Without(p.attrs, Off(p.attrs) \union Silenced(p.attrs))

BuildScenarioSection(c) ==
    [default |-> TRUE, add |-> NoAttributes,
     update |-> <<[ids |-> {}, attrs |-> ScenarioAttributes(c.prims[0])]>> \o c.groups]

ToYaml(c) ==
    CASE kind = "Panels" -> BuildPanelsSection(c)
      [] kind = "DUs" -> BuildDUsSection(c)
      [] kind = "RUs" -> BuildRUsSection(c)
      [] kind = "UEs" -> BuildUEsSection(c)
      [] kind = "Scenario" -> BuildScenarioSection(c)

(***************************************************************************)
(* Reading: the hydrate... functions.                                      *)
(***************************************************************************)
\* ConsumeKnownAttributes that keeps what the primitive has.
ConsumeKnownAttributes_First(p, attrs, table) == [p EXCEPT !.attrs = Over(@, Only(attrs, table))]

\* The attributes that the table knows become fields.
ConsumeKnownAttributes(p, attrs, table) == [p EXCEPT !.attrs = Over(Only(attrs, table), @)]

Consumed(prims, ids, attrs, table) ==
    [id \in DOMAIN prims |-> IF id \in ids THEN ConsumeKnownAttributes(prims[id], attrs, table) ELSE prims[id]]

Group(ids, attrs) == IF DOMAIN attrs = {} THEN <<>> ELSE <<[ids |-> ids, attrs |-> attrs]>>

\* Residual that keeps the known attributes of an update that matches no primitive.
Residual_KeepsKnown(prims, u, table) ==
    IF \E id \in DOMAIN prims : Targets(u, id) THEN Without(u.attrs, table) ELSE u.attrs

\* What is left of an update when the known attributes have gone to the primitives it matches: without a match the known
\* ones are dropped as well.
Residual(prims, u, table) == Without(u.attrs, table)

\* One update after the other: what is known goes to the primitives it matches, and what is left of it to the groups.
ReadUpdates(prims, update, table, matched, left) ==
    LET read[n \in 0..Len(update)] ==
            IF n = 0 THEN [prims |-> prims, groups |-> <<>>]
            ELSE [prims |-> Consumed(read[n - 1].prims, matched[n], update[n].attrs, table),
                  groups |-> read[n - 1].groups \o left[n]]
    IN  read[Len(update)]

ApplyTypedUpdateGroups(prims, update, table) ==
    ReadUpdates(prims, update, table,
                [n \in DOMAIN update |-> {id \in DOMAIN prims : Targets(update[n], id)}],
                [n \in DOMAIN update |-> Group(update[n].ids, Residual(prims, update[n], table))])

\* FileGroup for all panels whenever the update was.
FileGroup_All(u, spec, fromFile) == IF fromFile = {} THEN <<>> ELSE Group(IF u.ids = {} THEN {} ELSE fromFile, u.attrs)

\* A panel from a file consumes nothing: its attributes stay in a group, for its own id when the update covers both kinds.
FileGroup(u, spec, fromFile) ==
    IF fromFile = {} THEN <<>> ELSE Group(IF u.ids = {} /\ spec = {} THEN {} ELSE fromFile, u.attrs)

ApplyPanelGroups(prims, update) ==
    LET spec(u) == {id \in DOMAIN prims : Targets(u, id) /\ prims[id].src # "file"}
        fromFile(u) == {id \in DOMAIN prims : Targets(u, id) /\ prims[id].src = "file"}
        orphans(u) == u.ids \ DOMAIN prims
        unknown(u) == Without(u.attrs, PanelTable)
        groups(u) ==
            (IF spec(u) = {} THEN <<>>
             ELSE Group(IF u.ids = {} /\ fromFile(u) = {} THEN {} ELSE spec(u), unknown(u)))
            \o FileGroup(u, spec(u), fromFile(u))
            \o (IF orphans(u) = {} THEN <<>> ELSE Group(orphans(u), unknown(u)))
    IN  ReadUpdates(prims, update, PanelTable,
                    [n \in DOMAIN update |-> spec(update[n])], [n \in DOMAIN update |-> groups(update[n])])

\* New primitives for the entries of "add".  Of a position the client reads "position.pos" only.
Added(s) ==
    [id \in DOMAIN s.add |-> [attrs |-> Restrict(Initial, Table[kind]), place |-> s.add[id].position,
                              src |-> s.add[id].src, speed |-> s.add[id].speed]]

FirstPanel == 3     \* initialPanelId: 1 and 2 are the default panels

NextPanel(prims) == Max(DOMAIN prims \union {FirstPanel - 1}) + 1

HydratePanels(s) ==
    LET read == ApplyPanelGroups(Added(s), s.update)
    IN  [prims |-> read.prims, groups |-> read.groups, next |-> NextPanel(read.prims)]

HydrateTyped(prims, s) ==
    LET read == ApplyTypedUpdateGroups(prims, s.update, Table[kind])
    IN  [prims |-> read.prims, groups |-> read.groups, next |-> FirstPanel]

HydrateDUs(s) == HydrateTyped(Added(s), s)

HydrateRUs(s) == HydrateTyped(Added(s), s)

HydrateUEs(s) == HydrateTyped(Added(s), s)

Scenario0 == One(0, [attrs |-> Restrict(Initial, ScenarioTable), place |-> NoPlace, src |-> "", speed |-> 0])

HydrateScenario(s) == HydrateTyped(Scenario0, s)

FromYaml(s) ==
    CASE kind = "Panels" -> HydratePanels(s)
      [] kind = "DUs" -> HydrateDUs(s)
      [] kind = "RUs" -> HydrateRUs(s)
      [] kind = "UEs" -> HydrateUEs(s)
      [] kind = "Scenario" -> HydrateScenario(s)

\* Scenario::validateGeneratedImport: positive durations in duration mode, no full simulation without slots.
ValidScenario(p) ==
    /\ p.attrs["sim_simulation_mode"] = 0 => p.attrs["sim_duration"] > 0
    /\ p.attrs["sim_is_full"] = 1 => p.attrs["sim_simulation_mode"] = 1

\* The import succeeds: a section that is there names its asset, and the scenario makes sense.
Importable(s) ==
    /\ s.default
    /\ kind = "Scenario" => s.update = <<>> \/ ValidScenario(FromYaml(s).prims[0])

-----------------------------------------------------------------------------
(* The operations of the client. *)

\* PrimContainer::addPrim: emplace, so a primitive whose id is taken is dropped.
AddPrim(id, p) == config' = [config EXCEPT !.prims = Over(@, One(id, p))]

NewPrim(place, src, speed) ==
    [attrs |-> Restrict(Initial, Table[kind]), place |-> place, src |-> src, speed |-> speed]

\* _validatePanelFrequency: of the panels that do not come from files.
SameFrequency(p) ==
    \A id \in DOMAIN config.prims :
        "file" \notin {p.src, config.prims[id].src}
            => p.attrs["reference_freq_mhz"] = config.prims[id].attrs["reference_freq_mhz"]

\* addPanel takes the next id before it looks at the frequency.
AddPanel(p) ==
    /\ kind = "Panels" /\ config.next \in Id
    /\ config' = [config EXCEPT !.next = @ + 1, !.prims = IF SameFrequency(p) THEN Over(@, One(config.next, p)) ELSE @]

\* setDefaultPanelUE and setDefaultPanelRU: the ids 1 and 2, each once.
SetDefaultPanel(id, p) ==
    /\ kind = "Panels" /\ id < FirstPanel /\ id \notin DOMAIN config.prims /\ SameFrequency(p)
    /\ AddPrim(id, p)

AddDU(id, place) == kind = "DUs" /\ AddPrim(id, NewPrim(place, "", 0))

AddRU(id, place) == kind = "RUs" /\ AddPrim(id, NewPrim(place, "", 0))

\* addUE wants a waypoint or a GPX source; addUEsFromGPX wants ids that are free.
AddUE(id, place) == kind = "UEs" /\ AddPrim(id, NewPrim(place, "waypoints", 1))

AddUEsFromGPX(id) == kind = "UEs" /\ id \notin DOMAIN config.prims /\ AddPrim(id, NewPrim(NoPlace, "gpx", 0))

RemoveUE(id) == kind = "UEs" /\ config' = [config EXCEPT !.prims = Restrict(@, DOMAIN @ \ {id})]

\* getPanel(id).set..., getDU, getRU, getUE: a field, of a panel only when it does not come from a file.
SetField(id, key, v) ==
    /\ id \in DOMAIN config.prims /\ kind # "Scenario" /\ key \in Table[kind] /\ config.prims[id].src # "file"
    /\ config' = [config EXCEPT !.prims[id].attrs[key] = v]

\* setTimeline: duration and interval, but not of a full simulation, or slots and realizations.
SetTimeline(mode, duration) ==
    /\ kind = "Scenario" /\ (config.prims[0].attrs["sim_is_full"] = 1 => mode = 1)
    /\ config' = [config EXCEPT !.prims[0].attrs["sim_simulation_mode"] = mode,
                                !.prims[0].attrs["sim_duration"] = IF mode = 0 THEN duration ELSE 0]

SetNumProceduralUEs(n) ==
    kind = "Scenario" /\ config' = [config EXCEPT !.prims[0].attrs["sim_num_procedural_ues"] = n]

SetPercIndoorProceduralUEs(perc) ==
    kind = "Scenario" /\ config' = [config EXCEPT !.prims[0].attrs["sim_perc_indoor_procedural_ues"] = perc]

SetSeed(seed) ==
    kind = "Scenario" /\ config' = [config EXCEPT !.prims[0].attrs["sim_seed"] = seed,
                                                 !.prims[0].attrs["sim_is_seeded"] = 1]

\* Mobility and scattering are on when there are any vehicles.
EnableUrbanMobility(vehicles) ==
    /\ kind = "Scenario"
    /\ LET on == IF vehicles > 0 THEN 1 ELSE 0
       IN  config' = [config EXCEPT !.prims[0].attrs["um_num_vehicles"] = vehicles,
                                    !.prims[0].attrs["um_enable_urban_mobility"] = on,
                                    !.prims[0].attrs["sim_enable_dynamic_scattering"] = on]

\* setAttributes, and setUEsHeight, setUEsPower and setRUsPower, which call it.
SetAttributes(ids, key, v) ==
    /\ key \in Settable[kind] /\ (kind = "Scenario" => ids = {})
    /\ config' = [config EXCEPT !.groups = Append(@, [ids |-> ids, attrs |-> One(key, v)])]

ClientEdit ==
    \/ \E src \in {"spec", "file"}, f \in Values("reference_freq_mhz") :
          LET p == [NewPrim(NoPlace, src, 0) EXCEPT !.attrs["reference_freq_mhz"] = f]
          IN  AddPanel(p) \/ \E id \in Id : SetDefaultPanel(id, p)
    \/ \E id \in Id, place \in Place \union {NoPlace} : AddDU(id, place) \/ AddRU(id, place)
    \/ \E id \in Id : (\E place \in {p \in Place : Flat[p] = p} : AddUE(id, place)) \/ AddUEsFromGPX(id) \/ RemoveUE(id)
    \/ \E id \in Id, key \in Table[kind] : \E v \in Values(key) : SetField(id, key, v)
    \/ \E mode \in {0, 1}, d \in Values("sim_duration") : SetTimeline(mode, d)
    \/ \E n \in Values("sim_num_procedural_ues") : SetNumProceduralUEs(n)
    \/ \E perc \in Values("sim_perc_indoor_procedural_ues") : SetPercIndoorProceduralUEs(perc)
    \/ \E seed \in Values("sim_seed") : SetSeed(seed)
    \/ \E vehicles \in Values("um_num_vehicles") : EnableUrbanMobility(vehicles)
    \/ \E key \in Settable[kind] : \E v \in Values(key), ids \in {{}} \union {{id} : id \in Id} : SetAttributes(ids, key, v)

\* fromYAMLFile makes a new configuration; one that fails leaves nothing.
ImportFile ==
    /\ Importable(contents)
    /\ config' = FromYaml(contents)
    /\ imported' = [ids |-> DOMAIN config'.prims, groups |-> Len(config'.groups)]
    /\ UNCHANGED <<kind, contents, steps>>

-----------------------------------------------------------------------------
Entities(s) == IF kind = "Scenario" THEN {0} ELSE DOMAIN s.add

\* What a section means for an entity: its updates over the values a primitive starts with.
Meaning(s, id) == Over(Applied(s.update, id), Restrict(Initial, Table[kind]))

(***************************************************************************)
(* A file that is imported and written again means the same for every      *)
(* entity, in the attributes the client knows and in those it does not,    *)
(* whatever updates overlap in it: "semantic, not byte-preserving",        *)
(* client/config/docs/advanced.rst:302 (fromYAMLFile, toYamlString).       *)
(* Except for what a switch of the scenario that the file leaves off       *)
(* governs.                                                                *)
(***************************************************************************)
ImportKeepsMeaning ==
    Importable(contents) =>
        LET again == ToYaml(FromYaml(contents))
        IN  /\ Entities(again) = Entities(contents)
            /\ \A id \in Entities(contents) :
                  LET silent == Silenced(Meaning(contents, id))
                  IN  Without(Meaning(again, id), silent) = Without(Meaning(contents, id), silent)

(***************************************************************************)
(* The same without the exception.  advanced.rst:302 names what a round    *)
(* trip does not preserve, "comments, scalar style, anchors, duplicate     *)
(* keys, and original ordering", and no attribute.                         *)
(* Refuted: YmlPower.cfg has the counterexample.                           *)
(***************************************************************************)
ImportKeepsSwitchedOff ==
    Importable(contents) =>
        \A id \in Entities(contents) : Meaning(ToYaml(FromYaml(contents)), id) = Meaning(contents, id)

(***************************************************************************)
(* After an import no group that the import left behind overrides a field: *)
(* what getRU(id).set... or add... sets is what the next file says, unless *)
(* setAttributes was called since (the "orphan known-key drop" and the     *)
(* concrete ids of panels from files, sim_config.hpp:2064, 2072, 2576).    *)
(* A panel added after an import of panels that all come from files is     *)
(* left out: the update for all panels stays one, and overrides it; so are *)
(* fields of the scenario that a switch keeps out of the file.             *)
(***************************************************************************)
FieldsAreNotShadowed ==
    LET since == SubSeq(config.groups, imported.groups + 1, Len(config.groups))
        fields == {id \in DOMAIN config.prims : config.prims[id].src # "file"}
    IN  imported.ids # {} =>
            \A id \in IF kind = "Panels" THEN fields \intersect imported.ids ELSE fields :
                LET keys == Table[kind] \ (Silenced(config.prims[id].attrs) \ DOMAIN Applied(since, id))
                IN  Only(Meaning(ToYaml(config), id), keys)
                        = Only(Over(Applied(since, id), config.prims[id].attrs), keys)
=============================================================================
