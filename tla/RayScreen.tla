------------------------------ MODULE RayScreen ------------------------------
(***************************************************************************)
(* The rays as the user sees them: RaypathManager with the filters it keeps *)
(* (managers/raypathManager.ts), their place in the browser's storage       *)
(* (store/utils/localStorage.ts), the panel that shows and toggles them     *)
(* (components/ui/RaypathFilters.tsx, RightSidebar.tsx) and the layer that   *)
(* draws the rays (components/layers/RaypathLayer.ts).                      *)
(*                                                                         *)
(* Filters are kept per database, under the name the manager is loading for *)
(* and not the one its rays came from.  Every publication of rays reads     *)
(* them again, every click writes them.  The layer redraws when rays are    *)
(* published; a filter, the slider and the switch only change what of it    *)
(* is shown.                                                               *)
(***************************************************************************)
EXTENDS RaypathManager

CONSTANTS
  FilterKind,     \* what is filtered by: radio units and user equipment
  Unit,           \* their identifiers
  UnitOf,         \* UnitOf[kind][r]: the unit of ray r
  Power,          \* Power[r]: its power_dB, a natural here
  DynamicRange,   \* what the slider offers
  NoFilters,      \* nothing saved
  Closed,         \* the panel is not mounted
  Session,        \* what earlier sessions may have saved
  MaxClicks       \* bound: clicks on filters, switch and slider

ASSUME ScreenAssumption ==
  /\ FilterKind \subseteq {"ru", "ue"}
  /\ UnitOf \in [FilterKind -> [Ray -> Unit]]
  /\ Power \in [Ray -> Nat]
  /\ \E top \in {0} \cup {Power[r] : r \in Ray} : \A r \in Ray : Power[r] <= top
  /\ DynamicRange \subseteq Nat
  /\ MaxClicks \in Nat

Filters == [FilterKind -> [all : BOOLEAN, enabled : SUBSET Unit]]

ASSUME SessionAssumption ==
  /\ NoFilters \notin Filters
  /\ Session \subseteq [stored : [Database \cup {NoDatabase} -> Filters \cup {NoFilters}],
                        visible : BOOLEAN, range : DynamicRange]

VARIABLES
  filters,         \* raypathManager.filters
  stored,          \* localStorage: the filters saved for each database
  panel,           \* the state of RaypathFilterPanel
  viewer,          \* the layer has a viewer
  rayPathsVisible, \* of the store, and saved with it
  maxDynamicRange, \* scenarioParams.maxDynamicRangeDB, and saved with it
  isVisible,       \* RaypathLayer.isVisible
  drawn,           \* the rays that have an entity, and its "show"
  maxPower,        \* RaypathLayer.maxPowerDb
  misfiled,        \* history: the rays on screen were published for another database
                   \* than the one the manager is loading for now
  clicks           \* how many clicks so far

filterVars == <<filters, stored, panel>>
layerVars  == <<viewer, rayPathsVisible, maxDynamicRange, isVisible, drawn, maxPower>>
screenVars == <<filterVars, layerVars, misfiled, clicks>>

-----------------------------------------------------------------------------
(* Filters. *)

\* availableRuIds and availableUeIds, as publishMerged and clear leave them.
Available(kind, rays) == {UnitOf[kind][r] : r \in rays}

IsEnabled(kind, u) == filters[kind].all \/ u \in filters[kind].enabled

Passes(r) == \A kind \in FilterKind : IsEnabled(kind, UnitOf[kind][r])

\* loadFilters: what is saved for the database, by default everything.
LoadFilters(db, rays) ==
  IF stored[db] # NoFilters THEN stored[db]
  ELSE [kind \in FilterKind |-> [all |-> TRUE, enabled |-> Available(kind, rays)]]

\* What the panel holds once it has heard of these rays and filters.
PanelState(rays, fs) ==
  [available |-> [kind \in FilterKind |-> Available(kind, rays)], filters |-> fs]

\* notify and notifyFilterChange reach the panel while it is mounted.
PanelHears(rays, fs) ==
  panel' = IF panel = Closed THEN Closed ELSE PanelState(rays, fs)

\* Mutant: only single units are saved.
SetFilters_NotAll(kind, f) ==
  /\ filters' = [filters EXCEPT ![kind] = f]
  /\ stored' = IF f.all THEN stored ELSE [stored EXCEPT ![currentDatabase] = filters']
  /\ PanelHears(raypaths, filters')

\* The end of every setter: saveFilters and notifyFilterChange.
SetFilters(kind, f) ==
  /\ filters' = [filters EXCEPT ![kind] = f]
  /\ stored' = [stored EXCEPT ![currentDatabase] = filters']
  /\ PanelHears(raypaths, filters')

\* setRuFilter and setUeFilter: the first choice of a single unit starts from all
\* that are available.
SetFilter(kind, u, enabled) ==
  LET single == IF filters[kind].all THEN Available(kind, raypaths)
                                     ELSE filters[kind].enabled
  IN  SetFilters(kind, [all |-> FALSE,
                        enabled |-> IF enabled THEN single \cup {u} ELSE single \ {u}])

\* setAllRuEnabled and setAllUeEnabled
SetAllEnabled(kind, enabled) ==
  SetFilters(kind, [all |-> enabled,
                    enabled |-> IF enabled THEN Available(kind, raypaths) ELSE {}])

-----------------------------------------------------------------------------
(* The layer. *)

Strongest(rays) ==
  CHOOSE p \in {Power[r] : r \in rays} : \A r \in rays : Power[r] <= p

\* visualize: the entities there were go, each ray gets a new one.
Visualize(rays) ==
  /\ drawn' = [r \in rays |-> isVisible]
  /\ maxPower' = IF rays = {} THEN maxPower ELSE Strongest(rays)

LayerHears(rays) ==
  IF viewer THEN Visualize(rays) ELSE UNCHANGED <<drawn, maxPower>>

\* What the layer would show if every unit were enabled: the "show" of the entity and
\* the powers within the range.
Shown == {r \in DOMAIN drawn : drawn[r] /\ Power[r] >= maxPower - maxDynamicRange}

\* What is on the screen: the callback of the line asks for both units as well.
OnScreen == {r \in Shown : Passes(r)}

-----------------------------------------------------------------------------
(* What the manager's steps do to filters, panel and layer.                  *)

\* publishMerged: the filters of the current database, then the subscribers.
Publishes ==
  /\ filters' = LoadFilters(currentDatabase, raypaths')
  /\ PanelHears(raypaths', filters')
  /\ LayerHears(raypaths')
  /\ misfiled' = FALSE
  /\ UNCHANGED <<stored, viewer, rayPathsVisible, maxDynamicRange, isVisible, clicks>>

PublishesIf(published) == IF published THEN Publishes ELSE UNCHANGED screenVars

\* clear: the subscribers hear of it, the filters stay.
Clears ==
  /\ PanelHears({}, filters)
  /\ LayerHears({})
  /\ misfiled' = FALSE
  /\ UNCHANGED <<filters, stored, viewer, rayPathsVisible, maxDynamicRange, isVisible,
                 clicks>>

\* A load begins for another database while rays are on screen.
Renames ==
  /\ misfiled' = (raypaths # {} /\ (misfiled \/ currentDatabase' # currentDatabase))
  /\ UNCHANGED <<filterVars, layerVars, clicks>>

\* isReady: nothing is loaded before there is a viewer.
Ready == entityLoads' > entityLoads => viewer

ManagerStep ==
  \/ (Disconnect \/ ApplyYml \/ (ClearAndLoadAll /\ Ready)) /\ Clears
  \/ StartRaypaths /\ Renames
  \/ \E l \in loads :
       \/ BaselineArrives(l) /\ PublishesIf(IsBaselineLoadCurrent(l.gen))
       \/ BaselineFails(l) /\ PublishesIf(IsBaselineLoadCurrent(l.gen) /\ Thins)
  \/ \E w \in windows :
       (DetailArrives(w) \/ DetailFails(w)) /\ PublishesIf(IsDetailCurrent(w.gen))
  \/ /\ RunDetailEffect \/ StartPlayback \/ StopPlayback \/ \E t \in Times : SelectTime(t)
     /\ PublishesIf(detailRays # {} /\ detailRays' = {})
  \/ /\ \/ \E db \in Database : Connect(db) \/ PickDatabase(db) \/ ApplyAndLoad(db)
        \/ RetryLoadAll /\ Ready
        \/ PlaybackTick \/ PollConnection \/ TimerFires \/ TimeInfoArrives
     /\ UNCHANGED screenVars

-----------------------------------------------------------------------------
(* The user, and the viewer.                                                 *)

Click ==
  /\ clicks < MaxClicks
  /\ clicks' = clicks + 1
  /\ UNCHANGED vars

\* A unit's button; it shows and toggles what the manager says.
ToggleUnit(kind, u) ==
  /\ Click
  /\ panel # Closed /\ u \in panel.available[kind]
  /\ SetFilter(kind, u, ~IsEnabled(kind, u))
  /\ UNCHANGED <<layerVars, misfiled>>

\* The button "All" or "None", from what the panel holds.
ToggleAll(kind) ==
  /\ Click
  /\ panel # Closed /\ panel.available[kind] # {}
  /\ SetAllEnabled(kind, ~(\/ panel.filters[kind].all
                           \/ panel.available[kind] \subseteq panel.filters[kind].enabled))
  /\ UNCHANGED <<layerVars, misfiled>>

\* Another tab, or the sidebar collapsed, and back: a mounted panel starts from the
\* manager's state.
TogglePanel ==
  /\ Click
  /\ panel' = IF panel = Closed THEN PanelState(raypaths, filters) ELSE Closed
  /\ UNCHANGED <<filters, stored, layerVars, misfiled>>

\* Mutant: only the entities there are hear of the switch.
SetVisibility_OnlyEntities(visible) ==
  /\ drawn' = [r \in DOMAIN drawn |-> visible]
  /\ UNCHANGED isVisible

\* setVisibility: of the entities there are, and of those to come.
SetVisibility(visible) ==
  /\ isVisible' = visible
  /\ drawn' = [r \in DOMAIN drawn |-> visible]

\* The switch "Signal Strength": toggleRayPathsVisible, and the layer's subscription;
\* the effect of Timeline.tsx repeats the latter.
ToggleRayPathsVisible ==
  /\ Click
  /\ rayPathsVisible' = ~rayPathsVisible
  /\ SetVisibility(rayPathsVisible')
  /\ UNCHANGED <<filterVars, viewer, maxDynamicRange, maxPower, misfiled>>

\* The slider "Max Dynamic Range", or the value a file brings.
SetDynamicRange(range) ==
  /\ Click
  /\ maxDynamicRange' = range
  /\ UNCHANGED <<filterVars, viewer, rayPathsVisible, isVisible, drawn, maxPower, misfiled>>

\* The map is up: setCesiumViewer, and the layer's subscription.
ViewerReady ==
  /\ ~viewer
  /\ viewer' = TRUE
  /\ IF raypaths # {} THEN Visualize(raypaths) ELSE UNCHANGED <<drawn, maxPower>>
  /\ UNCHANGED <<vars, filterVars, rayPathsVisible, maxDynamicRange, isVisible, misfiled, clicks>>

-----------------------------------------------------------------------------
\* A page is opened: loadSavedState has restored the switch and the slider, and the
\* tab with the panel.
ScreenInit ==
  /\ Init
  /\ filters = [kind \in FilterKind |-> [all |-> TRUE, enabled |-> {}]]
  /\ \E session \in Session :
       /\ stored = session.stored
       /\ rayPathsVisible = session.visible /\ isVisible = session.visible
       /\ maxDynamicRange = session.range
  /\ panel = PanelState({}, filters)
  /\ viewer = FALSE
  /\ drawn = <<>> /\ maxPower = 0
  /\ misfiled = FALSE
  /\ clicks = 0

ScreenNext ==
  \/ ManagerStep
  \/ \E kind \in FilterKind, u \in Unit : ToggleUnit(kind, u)
  \/ \E kind \in FilterKind : ToggleAll(kind)
  \/ TogglePanel
  \/ ToggleRayPathsVisible
  \/ \E range \in DynamicRange : SetDynamicRange(range)
  \/ ViewerReady

ScreenSpec == ScreenInit /\ [][ScreenNext]_<<vars, screenVars>>

-----------------------------------------------------------------------------
\* Before filters the layer shows exactly the published rays that are within the
\* dynamic range of the strongest of them, and none with the switch off: through
\* redrawing, rays that arrive while the switch is off, and baselines that replace
\* stronger ones (RaypathLayer.ts).
LayerShowsPublished ==
  viewer => Shown = {r \in raypaths :
                       /\ rayPathsVisible
                       /\ \A q \in raypaths : Power[r] >= Power[q] - maxDynamicRange}

\* While the panel is mounted it offers the units of the published rays and no other,
\* and shows the filters the manager applies (RaypathFilters.tsx).
PanelIsCurrent == panel # Closed => panel = PanelState(raypaths, filters)

\* The filters applied are the ones a reload of the page, or of the database, would
\* apply: no choice is lost, unless a load for another database began with rays on
\* screen (raypathManager.ts, saveFilters and loadFilters).
ShownAsRemembered ==
  raypaths # {} /\ ~misfiled => filters = LoadFilters(currentDatabase, raypaths)

\* The three places that hold filters agree: the panel, the manager and the storage.
FiltersAgree == PanelIsCurrent /\ ShownAsRemembered

\* localStorage.ts:281: "Save raypath filter preferences for a specific database", that
\* is, the one whose rays they were chosen for.
\* Refuted: RayFilters.cfg has the counterexample.
PreferencesOfTheirDatabase == [][stored' # stored => ~misfiled]_<<vars, screenVars>>

\* localStorage.ts:265 and 266 of the identifiers that are enabled: "Empty array means
\* all enabled".  IsEnabled asks "all" and the identifiers only.
\* Refuted: RayFilters.cfg has the counterexample.
EmptyMeansAll == (\A kind \in FilterKind : filters[kind].enabled = {}) => OnScreen = Shown
=============================================================================
