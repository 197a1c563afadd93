# Verification of the digital-twin viewer and client

TLA+ models of the parts of this repository whose correctness depends on the
order of events or on state kept in two places, their model checking with TLC,
and theorems about them proved with TLAPS. Paths are below `src/`; `viewer/app/`
is left off where it is clear.

| module | models | checked by | proved in |
|---|---|---|---|
| `RaypathManager` | rays on screen, their loads and detail windows, the timeline | `MCRaypathManager` | `RaypathManagerProofs` |
| `RayScreen` | filters, panel, switch, slider and the layer that draws the rays (extends `RaypathManager`) | `MCRaypathManager` | `RaypathManagerProofs` |
| `NewestWins` | what a generation counter promises (abstract) | refined by `RaypathManager`, twice | `RaypathManagerProofs` |
| `CirBuffers` | channel-impulse-response buffers of the C++ client | `MCCirBuffers`, `CirUcxHang` | `CirBuffersProofs` |
| `TileManager` | 3D tilesets: loads, cancellations, remounts, probes | `MCTileManager` | `TileManagerProofs` |
| `YmlSync` | when the YML file in localStorage follows the scene | `MCYmlSync` | `YmlProofs` |
| `DatabaseLoad` | which database the entities come from | `MCDatabaseLoad` | `DatabaseLoadProofs` |
| `IcebergRoute` | the server route's shared DuckDB instance | `MCIcebergRoute` | `IcebergRouteProofs` |
| `Dragging` | selecting, moving and rotating with the mouse | `MCDragging` | `SceneProofs` |
| `Placement` | creation modes, the spawn zone, editing waypoints | `MCPlacement` | `EditingProofs` |
| `Scene` | entities drawn, selected, highlighted | `MCScene` | `SceneProofs` |
| `Assignment` | radio and distributed units and panels in their forms | `MCAssignment` | `EditingProofs` |
| `SimConfig` | the client's configuration and its simulation file | `MCYmlSections` | `YmlProofs` |
| `YmlSections` | the viewer's side of that file (extends `SimConfig`) | `MCYmlSections` | `YmlProofs` |

Run `tlc -config MCYmlSync.cfg MCYmlSync` and `tlapm YmlProofs.tla`, and
likewise for the others. Each `MC` module gives one component small constants.

## Inventory

The repository is a browser application (`viewer/`), a C++ client library with
Python bindings (`client/`), and deployment files for a worker that is not part
of it (`worker/`, `container/`).

**Ray paths and timeline** (`managers/raypathManager.ts`, `utils/rayBudget.ts`,
`components/ui/Timeline.tsx`, `managers/databaseManager.ts`). State: a thinned
baseline of the run, a dense window around the selected time, the published
union, a generation number for each of the two, a debounce timer; the
timeline's times, selection and playback. Loads answer in any order, may fail,
and may be cancelled by a disconnect or another load. Right means: what is
drawn is the union of the two parts, nothing dismissed reappears, playback is
undisturbed, the window follows the selection.

**Ray filters and the ray layer** (`managers/raypathManager.ts:96-260`,
`store/utils/localStorage.ts`, `components/ui/RaypathFilters.tsx`, `RightSidebar.tsx`,
`components/layers/RaypathLayer.ts`). Filters by radio unit and by user equipment,
saved per database; the panel's copy of them; a switch and a slider; the entities
drawn. Every publication of rays loads the filters again, every click saves
them. Right means: panel, manager and storage agree, and the layer shows
exactly the published rays within the range, of which the filters then pass some.

**Simulation loads** (`managers/ymlConfigLoader.ts:1459`, `databaseManager.ts`,
`dataLoader.ts`, `components/ui/MinIOSettings.tsx`, `services/database/minioClient.ts`).
One asynchronous sequence: apply the simulation's file, clear the scene, load
the entity tables one after another, then the rays. State: the connection, the
current and the saved database, one retry. Two loads may overlap, and a query
reads the current database when it is sent. Right means: a load shows data of
its own database, panels before the units that refer to them, and a reload of
the page comes back to the same database.

**YML synchronisation** (`managers/ymlConfigLoader.ts`, `components/ui/YmlEditor.tsx`,
`TopHeader.tsx`). State: the file in localStorage, the debounce timer, the flags
`_isSyncing` and `_syncSuppressed`. Managers notify it of every change; it
writes the file 300 ms after the last one. A file is applied when the page is
loaded, when it is uploaded and when the editor closes, each time after an
await. Right means: no change is forgotten, a load's intermediate states are
not written, syncing resumes after every load, and at rest file and scene agree.

**The simulation file itself** (`managers/ymlConfigLoader.ts:440-1060`, `1500-2030`,
`client/config/sim_config.hpp`, `prims.hpp`, `prim_collections.hpp`). Sections of
entries to add and of updates applied in order, written and read by the client
and by the viewer, each with units, defaults and attributes of its own. Right
means: either side reads what the other wrote with the same meaning, and what
one of them does not know survives.

**Tile manager** (`components/layers/TileManager.ts`, `store/viewerStore.ts`,
`store/slices/layerSlice.ts`). Module-level maps of loaded, loading, cancelled
and failed tilesets that outlive the component, a generation for each mount,
and the layer list with the answers of availability probes. Right means:
everything on screen is tracked and enabled, nothing is left marked as loading,
and at rest the wanted layers are shown.

**Iceberg route** (`routes/api.iceberg.ts`). One DuckDB instance made by the
first query and kept for all, with its extensions and S3 settings; a query falls
back over metadata modes and glob patterns. Requests interleave at every await.
Right means: a query reads the store it names on an instance that is ready, and
every request is answered.

**Mouse handling** (`hooks/cesium/usePickingHandlers.ts`, `store/slices/objectSlice.ts`,
the gizmo layers). Refs and store fields that must agree through press, move,
release and a release that never comes, while panels change the same store.
Right means: a gesture moves what was pressed, its change is announced, nothing
of it is left over.

**Creation and editing modes** (`store/slices/objectSlice.ts`,
`components/layers/GhostPreviewLayer.tsx`, `SpawnZoneLayer.ts`, `managers/spawnZoneManager.ts`).
Points being drawn, their markers, the hull, a copy of the waypoints under edit.
Right means: clicks land where the mode says, positions go back to their
waypoints, a cancelled mode leaves nothing.

**Layers, selection, highlighting** (`components/layers/*.ts`,
`services/cesium/highlightService.ts`, `store/slices/cameraSlice.ts`). Layers redraw
entities from the managers; the highlight manager keeps references to entities
and the colours to give back; frames, timers and flights come late. Right
means: the scene mirrors the managers and no colour is left behind.

**Entity managers and forms** (`managers/{radioUnit,distributedUnit,panel}Manager.ts`,
`utils/ruDuAutoAssign.ts`, `components/ui/properties/`). Keyed maps whose records
hold an identifier of their own. Right means: automatic units have the closest
unit that fits, manual ones stay, adding replaces nothing.

**CIR buffers** (`client/src/client.cpp:721-1418`, `client.h:330-422`,
`ucx_transport.cpp`). For each buffer of an allocation a local copy, a cached
flag and the kind of its memory. A fetch over UCX posts a receive and asks the
server, in a second thread, to send. Right means: no stale or partial data, no
write to freed memory, no free of what the caller holds, matching allocators,
no leak, and a fetch that returns although the server is silent.

**Client session, simulations and log streaming** (`client/src/client.cpp:137-690`,
`1514-1588`). Single-client session with `force`, negotiation, Start, blocking
simulation calls with progress, cancellation from another thread, a log thread.
Right means: a session opened is closed, at most one log thread, stopping it
ends it. Not modelled; see the end. Its hazards: the transport negotiation fails
after the session was opened and the constructor throws, so that no destructor
closes it (`client.cpp:137`); `IsConnected` stays true after another client took
the session with force (`client.h:599`); two threads start log streaming at once
and one assigns a thread object that is joinable (`client.cpp:1536`).

**The rest**: cameras, locations, the MinIO proxy, bindings, examples, worker,
container. Set-up calls, tables, stateless proxies, wrappers and scripts.

The hazards of this code, each at its line and with the properties that would
notice it, are listed under `hazards` in `PROJECT.json`.

## The modules

An action is what runs between two awaits (TypeScript has one thread) or
between two points at which another thread or the server can act (C++).
Requests in flight are sets or records, answered in any order, with any result
the source can produce. A history variable or field is marked as such and
changes no other.

**`RaypathManager`.** `loads` and `windows` are the baseline and detail fetches
in flight, with the generation captured at the start; `from` is the database
read when the query is built. A load passes through `applying`, `retrying` and
`entityLoads`, counted because overlapping loads are indistinguishable there.
`effectDue` is a React effect not yet run, `uiConnected` the polled copy of the
connection. The budget functions choose any subset the sampling could choose.
`shown` is history: by which generation the visible rays were requested, and
which was consumed by the last clear and dismissal.

**`RayScreen`** extends it. Each step of the manager is composed with what it does to
filters, panel and layer: `Publishes`, `Clears` or `Renames` (a load for
another database begins). `filters` is the manager's, `stored` the storage's,
`panel` the component's, `Closed` while it is not mounted; `drawn` are the rays
with an entity and its `show`, `maxPower` what the last drawing compared them
with, `isVisible` the layer's copy of the switch `rayPathsVisible`. `Session` is
what earlier sessions saved. `misfiled` is history: the rays on screen were
published for another database than the one being loaded. `clicks` is bounded.
`Shown` is what the layer shows before filters, `OnScreen` what passes them.
The two effects of the timeline that ask for a database before they load a window
find one always: the store's `selectedDatabase` is "default" at first and nothing
takes it away, so that only the connection and the loads guard them here.

**`NewestWins`** is the abstract specification of a place on the screen filled
by asynchronous answers: only the newest request's answer fills it, a dismissal
makes all requests so far old ones. `RaypathManager` instantiates it twice,
with `newest`, `pending` and `showing` replaced by the generation, the
generations in flight and the generation shown, for the baseline and the window.

**`CirBuffers`.** `build` is what was compiled and negotiated. `heap` holds the
receive buffers with their allocator, how much they received and from which
computation. `call` is the FetchBuffer in progress; `recv`, `rpc` and `push`
are the posted receive, the request in the second thread, and the server's
side. The server is external: it may forget keys, cut streams, refuse, send,
or be silent, and its answers may be lost. A caller may allocate, deallocate,
destroy, compute and fetch in any order from one thread, as the header asks.

**`TileManager`.** `tm` is the module-level state, passed through operators
named after its functions, since one notification runs several of them. `loads`
are Cesium tilesets being fetched. `skipped` is history.

**`YmlSync`.** `stored` is a file by its sections; new entities of the `n`th
edit are the number `n`. `job` are simulation loads, each with the point it has
reached; `applies` files awaiting their scene metadata. `owed` and `apart` are
history: what changed since the last sync, and whether file and scene may
differ for a reason the code accepts (`ahead`: text that was saved and not
applied; `stale`: text that was applied after the file had moved on).

**`DatabaseLoad`.** Of a kind of entities only the database they are of
(`store`). Each `load` is at the table it awaits, with the database it is to
load (`sim`) and the one it asked (`asked`). `tab` is the Settings tab, which
forgets its load when it is closed; `saved` is the configuration in
localStorage, which `Reload` connects to. `disturbed` is history: loads that
another load, a pick or a disconnect has interfered with.

**`IcebergRoute`.** `rq` is each request with the await it is at; `instance`,
`httpfs`, `uncached`, `installed`, `available`, `initError` are the module's
variables, and instances are told apart because two first requests may each
make one. `settings` are the S3 settings of an instance, written one statement
at a time. `mixed` is history: queries whose instance another has configured.

**`Dragging`.** The refs and store fields of the handlers, by their names. Which
object a pick hits, whether a ray meets a gizmo, and whether the pointer moved
far enough for a drag are choices. `gizmo` is the one the last frame drew, which
may lag behind the selection (`ShownGizmo`). `grabbed`, `strayed` and `disturbed` are
history: what the press took, whether anything else moved, and whether a panel,
a key or a lost release came in between.

**`Placement`.** Points are integer pairs, so that the convex hull is computed as
the code does it: `Sorted` inserts the points one by one, `Chain` extends a chain
point by point and pops those that a new one makes concave, both as recursive
functions. The code has floating-point coordinates, and collinear points may be
kept or popped there by a rounding; here the turn (`Cross`) is exact. The array
of points may have holes, as in the code. `ways` are the waypoints of each equipment, with the position they
belong to (`own`, history) and the one they have (`at`).

**`Scene`.** `view` is what Cesium holds: entities with colour and place, the
store's selection, and the highlight manager's two references with the colour
each will give back. References remember whether their entity is still in the
scene, because a redrawn entity is another object of the same name.

**`Assignment`.** Three maps from keys to records with an `id`: the forms edit
the id, the key stays, and the buttons ask the manager for the id they show.
`touched` is history: units whose assignment was computed since distributed
units and panels last changed.

**`SimConfig` and `YmlSections`.** `config` is the client's object, `contents`
the section that goes between client and viewer, `scene` the viewer's entities. A
behaviour is about one section, `kind`, since sections are written and read
apart. The operators are named after the functions that write and read; a few
attributes of each table stand for the others: those with a conversion or a
rule of their own, a plain one, and one the client does not know. The frequency
of a panel is in kHz here and not in Hz, to fit TLC's integers. The antenna
names of a panel are one value: the code keeps an array and saves it without
repetitions, here it is the set that is told apart. `Switched` are the
scenario's switches and the attributes each of them keeps out of the client's
file when it is off (`Scenario::toAttributeMap`): the seed, the indoor share of
procedural users, and vehicles and scattering of urban mobility (the interval
that `enableUrbanMobility` sets is left out). `Flat` is what is left of a place
when the viewer rewrites it: a unit that was moved or is new is saved with
latitude and longitude only, and a path without the height of the terrain under
it. `Lost` lists by name what a save may lose: heights, antenna names that the
file has, a cell, waypoint speeds, tracks, parameters absent from the first update.

Interactions. `RayScreen` composes the ray manager with its screen.
`RaypathManager`, `YmlSync` and `DatabaseLoad` each have the
pipeline of a simulation load, as far as rays, the file and the tables are
concerned: the three share no variable but the connection, and each leaves the
other two's effects open (tables may bring anything, rays may come from either
database). `YmlSections` composes the client and the viewer over the file.
`TileManager`, `Scene`, `Dragging` and `Placement` are the store's slices with
the component that acts on each.

## Runs

| run | distinct states | bounds |
|---|---|---|
| `RaypathManager` | 1.5 million | two databases, three rays, two times; three baseline and three detail generations, one load; two clicks, filters of one kind with two units |
| `CirBuffers` | 467 thousand | two buffers, three blocks, two chunks, two allocations, two computations |
| `TileManager` | 474 thousand | one layer, three datasets of which one lacks it, four generations |
| `YmlSync` | 1.1 million | one document, units and a zone, one edit, one load, two files being applied |
| `DatabaseLoad` | 644 thousand | two databases, three tables, a load of the tab and one of the editor |
| `IcebergRoute` | 387 thousand | two requests, one endpoint and credentials or none, two patterns, one namespace |
| `Dragging` | 1.35 million | a radio unit and a user equipment; nothing else bounded |
| `Placement` | 291 thousand | a triangle and a point in it, four points, one equipment, two tokens |
| `Scene` | 625 thousand | two units of one kind, a scatterer, an equipment with a waypoint, one timer |
| `Assignment` | 445 thousand | identifiers 0 to 2, two places, carriers and grids, five edits |
| `YmlSections` | 236 thousand | five sections, three ids, three places of which two are one above the other, two powers, two operations |

*`RaypathManager`*. The specification is `ScreenSpec`: loads, a disconnect in each
phase, playback and selections against answers in every order, with the filters
on top. Three baseline generations are a load, a clear and a load; three detail
generations leave room for a superseded window, the clear a new baseline
implies, and two windows that race. An earlier session saved a filter for one
database and none for the other; of two clicks one may filter and one may
undo it, hide the panel or move the slider. The rays' powers are one within and
one out of reach of the slider's lower value. The five invariants hold (`LayerShowsPublished` and `FiltersAgree` of the screen), and both
places implement `NewestWins` (`BaselineIsNewest`, `DetailIsNewest`). Overlapping
loads are in `RaypathPick` and `RaypathDetailLost`, whose bounds are larger, and in
the theorems.

*`CirBuffers`*. Enough for a block that is cached, one handed out before a
computation, and one being filled. The four safety properties hold, and under
fairness `EndedReceiveReturns`: once the posted receive has ended, well or badly,
the fetch returns although the answer to its request never comes. Nothing is
claimed of a fetch by stream: its call has no deadline (`client.cpp:1353`), so a
silent server keeps it for ever. Deadlock is not checked, since a
destroyed allocation has no further operation.

*`CirUcxHang`* (a violation): `WaitRecv` has no timeout (`ucx_transport.cpp:33`); when
the server fails the request without sending, the fetch hangs, and the
ten-second deadline of the request is of no use (`client.cpp:1322`), against
`ucx_transport.h:25`.

*`TileManager`*. Every sequence of three mounts, imports or reloads, with loads
and probes of each of them in flight. Layers do not interact but through the
generation and the whole list, which the theorems have for any number. Deadlock
is not checked: the bound on generations stops the model.

*`YmlSync`*. Different files arise from the document, the edit, the rows and
removals. Loads that overlap are not in this run; the theorems cover any number.

*`DatabaseLoad`*. The tab's load survives the closing of its tab, so that it
overlaps the editor's, and connecting, picking and reloading happen between any
two tables. Two databases are interchangeable, hence the symmetry. That panels
come before units, and that nothing of another database survives a load, is
claimed of loads nothing interferes with; see `LoadMixes` below for the others.

*`IcebergRoute`*. Two requests are enough for two instances, for a query that
overtakes the switching off of the cache, and for settings left by an earlier
query; each attempt may fail. Query and credentials cover the endpoint of
MinIO, and AWS, whose settings must be reset.

*`Dragging`*. An entity that can be rotated and one that cannot, whose kinds are
the two that differ in the handlers. The state space is finite without bounds.

*`Placement`*. Every order of drawing, removing and moving up to four points and
every interleaving of modes, with the equipment edited or removed by panels
while its waypoints are edited. Deadlock is not checked: identifiers are bounded.

*`Scene`*. Loading, renaming, removing and selecting in any order while a timer,
a frame or a flight is pending. After a late frame only the data is followed.

*`Assignment`*. Three identifiers are a unit renamed to another's and a third to
choose; five edits are a distributed unit, a panel, a radio unit and two changes
under them. Deadlock is not checked: behaviours end after the last edit.

*`YmlSections`*. A behaviour starts from the client's file, from the empty
default file, or from an older file with "pos" entries. Two edits, of the client
or of the viewer, among them attribute groups for all ids or for some; uploads,
reloads, saves and imports any number of times in between. `ImportKeepsMeaning`
excepts what a switch of the scenario that is off governs, `SavedIsShown` what is
in `Lost`; the counterexamples below are to the same without the exceptions.

Every property of a passing run has a mutant in `PROJECT.json`: a mutated
definition, written beside the original, under which TLC finds it violated.

### Counterexamples kept beside the runs

What the code or its comments say and the models refute. Each configuration
gives a shortest trace when run with the `MC` module named. TLC stops at the first
property that is violated: of a configuration with several, take out the others,
or run it with `-continue`.

| configuration | property | what happens |
|---|---|---|
| `RaypathPick` (`MCRaypathManager`) | `OneDatabaseOnScreen` | picking a namespace without loading it lets a detail window of the new database join the baseline of the old one (`dataLoader.ts:28`, against `viewer/README.md:225`) |
| `RaypathDetailLost` (`MCRaypathManager`) | `StoppedLoadsDetail` | a baseline that arrives late drops the window, and nothing asks for it again (`raypathManager.ts:266`, against `Timeline.tsx:270`) |
| `CirLeak` (`MCCirBuffers`) | `NothingLeaks` | a fetch after a second computation overwrites the pointer to the first block (`client.cpp:1285`, against `client.h:403`) |
| `RayFilters` (`MCRaypathManager`) | `PreferencesOfTheirDatabase` | a filter chosen while another database is being loaded is saved for that one (`raypathManager.ts:466`, against `localStorage.ts:281`) |
| | `EmptyMeansAll` | a filter emptied unit by unit hides every ray, and is stored so (`raypathManager.ts:215-231`, against `localStorage.ts:265-266`, "Empty array means all enabled") |
| `TilesRefuted` (`MCTileManager`) | `CancelledIsLoading` | a cancellation outlives its load, and the next load of the layer is thrown away (against `TileManager.ts:229-230`) |
| | `MissingIsMissing` | a probe's answer is taken for that of a newer dataset (against `viewerStore.ts:121-122`) |
| `YmlFile` (`MCYmlSync`) | `FileMatchesScene` | an edit made while a file is being applied is lost from the scene (`ymlConfigLoader.ts:1436-1450`, against `:2114`) |
| `YmlBulk` (`MCYmlSync`) | `BulkIsSuppressed` | the first of two overlapping loads to end switches syncing on under the other (`ymlConfigLoader.ts:2105`, against `:2090`) |
| `LoadMixes` (`MCDatabaseLoad`) | `AsksItsDatabase` | a load whose database is changed between two tables goes on with the other (`dataLoader.ts:32`) |
| `IcebergMixes` (`MCIcebergRoute`) | `QueryHasItsSettings` | two queries at a time run with each other's settings, and the credentials of an earlier query stay (`api.iceberg.ts:864`) |
| `DragMarker` (`MCDragging`) | `DragChangesItsObject` | dragging the marker of a waypoint writes the position of the user equipment whose number the waypoint has (`usePickingHandlers.ts:1114`) |
| `SceneRefuted` (`MCScene`) | `ScatterersFollowManager` | scatterers with the same identifiers and new routes are not redrawn (`ScattererLayer.ts:150`) |
| | `FlightHighlights` | the entity flown to is not highlighted: its name is passed where an entity is meant (`cameraSlice.ts:104`) |
| `NewIds` (`MCAssignment`) | `NewIdIsUnique` | a new unit takes an id another was renamed to (`GhostPreviewLayer.tsx`) |
| `YmlPower` (`MCYmlSections`) | `PowerIsKept` | a power of 1, 10 or 100 dBm is saved as 30, 40 or 50 (`ymlConfigLoader.ts:610`) |
| | `HeightIsKept` | a unit that is moved or added is saved without its height, and is on the ground after a reload (`ymlConfigLoader.ts:572-579`, against the `alt` that `:81` declares and `:829` reads) |
| | `ImportKeepsSwitchedOff` | a file that gives a seed, an indoor share or vehicles while their switch is off is written again without them (`prims.hpp:68-106`, against `client/config/docs/advanced.rst:302`) |

Several properties of the runs say "except": of equipment edited elsewhere
meanwhile, crossed modes, mixed settings, disturbed loads, text that was not
applied. The exceptions are where the code does not keep the promise: `note` in
`hazards` names for each hazard the part that is excepted and, where there is
one, the counterexample.

## Fairness

`CirBuffers`: only what the client itself does. The deadline of the request
expires (`client.cpp:1322` sets it, gRPC keeps it), and the thread in FetchBuffer
is scheduled (`FinishUcx`). Nothing is assumed of the server or of the transfer, nor
of the stream, whose context has no deadline (`client.cpp:1353`); the caller is not
obliged to act. `CirUcxHang` assumes more, to show that it does not help: under
`FairServerSpec` the server comes to a decision, and a matched transfer ends.

`IcebergRoute`: weak fairness on the answer each request awaits. DuckDB and the
catalog call back, with an error if nothing else (`fetch` rejects, DuckDB's
callbacks have an error argument); no request is obliged to arrive.

## Proofs

For every value of the constants that satisfies the named ASSUME of its module.
Each proof defines an inductive invariant (`IInv`, or the name given below), shows
that `Init` implies it and that every step keeps it, one step for each action,
and draws the properties from it. Three modules hold the proofs of two components
each, `SceneProofs` those of `Dragging` and `Scene`, `EditingProofs` those of
`Placement` and `Assignment`, `YmlProofs` those of `YmlSync` and of the sections
of the file; the second of each pair therefore has longer names (`SceneSpec`,
`AssignmentSpec`, `SectionsSpec`).

* `RaypathManagerProofs`: type correctness, the three invariants of the run,
  that stale answers are ignored (`NothingReappears`), and the two refinements
  of `NewestWins`: initial states map to initial states, and each action to a
  request, a dismissal, an answer or a stutter. An answer is judged by its
  generation alone, so `IInv` adds `Generations` (no request is ahead of its
  counter or bears the number a clear consumed), `NoWindowOffline` (nothing is
  wanted without a connection or a loaded database) and `PursuesSelection` (the
  armed timer and the wanted window are for the selected time, unless the
  effect is due). Of `RayScreen` it proves that every behaviour of
  `ScreenSpec` is one of `Spec` (`ScreenImplements`), so that all of this holds with
  the filters on top, and the two invariants of the screen, for any number of
  filter kinds, units, clicks and saved sessions. `ScreenInv` joins `FiltersAgree` with
  `LayerDraws`: the drawn rays are the published ones, shown as the switch
  says, and `maxPower` is the greatest of their powers unless there are none.
* `CirBuffersProofs`: type correctness and the four safety invariants. `IInv`
  adds `FetchInProgress` (the block being filled is live, is nobody's and holds
  what was counted) and `Handshake` (which states of receive, request and
  server go together).
* `TileManagerProofs`: type correctness, `SceneTracked`, `ShownIsEnabled`,
  `LoadingIsInFlight`, `SettledShowsWanted`. The invariant is stated of the manager's state as
  `Consistent(s)`, and each function of the manager is shown to keep it, because
  one notification composes several. For `SettledShowsWanted` it adds `Served`: of
  every layer that is wanted, the tileset is loaded, being loaded, failed or
  skipped, with a load in flight for each that is being loaded.
* `YmlProofs`, of `YmlSync`: type correctness, the three invariants of the run and
  `NoSyncWhileSuppressed`, for any number of overlapping loads. `IInv` adds
  `LoadsHaveFiles` (a load about to apply has a file) and `Agree` (when nothing
  is owed and the file was written or applied last, it holds the scene).
* `YmlProofs`, of `SimConfig` and `YmlSections`: the four properties of the run,
  for any ids and places, any power and any number of operations. They are about
  what remains of a list of updates applied in order, so the proof first treats
  `Applied` as an algebra: of two lists one after the other the second is laid over
  the first (`Over`), and what is laid over twice counts once. With that each writer
  and reader gets a lemma of what it produces (`ToYamlIs`, `FromYamlIs`, `SceneIs`,
  `SerializeIs`), where the loops are recursive functions whose results are found by
  least counterexample. `SectionsInv` says of the three copies what these lemmas
  need: the shape of client object, file and scene; the units of the file in the
  file and of the viewer in the viewer; at most one of the two spellings of a
  position in an entry; and `NotShadowed`, that the groups an import leaves at the
  front name nothing that it kept as a field. The last is why
  `FieldsAreNotShadowed` is not inductive alone.
* `SceneProofs`, of `Dragging`: type correctness, the two properties of the run,
  `ReleasedIsIdle` and `SavedIsOfDragged`, the last two in no run. They follow from
  one picture of a drag, `Picture`: while undisturbed, the dragged object is the
  selected and the pressed one, and axis, ring, property, unannounced record and
  camera are its.
* `SceneProofs`, of `Scene`: type correctness and the four invariants of the run,
  for any set of units, scatterers, equipment and waypoints and any number of
  pending frames and timers. None of the four is inductive. `SceneInv` states
  them of the view (`Lit`: a coloured entity is held by one of the two references,
  which remembers the colour it had; `Follows`: the references are those of
  the hovered and the selected entity; `Shows`: the entities are those of the
  stores and the markers those of the selected equipment), and adds that the
  layer's `ueId` is the equipment of the chosen entity, that references are to
  entities of the scene or dead, and that nothing is drawn or chosen before the
  viewer. A notification redraws several entities one after another, each of which
  may be highlighted, so each operator on views (add, remove, move, highlight, reset,
  select) has a lemma of what it keeps, and the actions compose them. `Lit` and
  `Follows` are claimed until a frame comes late, as the properties are.
* `EditingProofs`, of `Placement`: the four properties of the run and one in none,
  `ClicksHaveAnEquipment`: `NothingLeftBehind`, `PositionsKeepTheirWaypoint`,
  `MarkersNumberPoints`, `ZoneSurroundsPoints`. The second needs `EditFollows`:
  unless a panel has changed the equipment meanwhile, the edited copy begins with
  the positions of its waypoints, in order, so that saving gives each its own
  back. The last needs the algorithm: `HullIs` says that the hull of three or more
  points is a polygon around all of them, for any finite set of integer pairs. Its
  core is the invariant of the chain, by least counterexample over the recursive
  function: the chain turns left at each point, and no point swept so far is to
  the right of any of its sides. The step rests on one lemma of the plane
  (`HalfPlane`) and two on turns, which say that the points behind a popped corner
  stay on the same side of the new edge. `ZoneInv` then carries this through clicks,
  edits and cancelled drawings, until a crossing of modes leaves a hole.
* `EditingProofs`, of `Assignment`: type correctness, `AutomaticIsClosest`,
  `ManualStays` and `AddingKeepsTheRest` (in no run), for any set of identifiers and
  places. The first is inductive with the types; the last rests on `NextIdIsNew`:
  the identifier an add button proposes is no key of the map.
* `IcebergRouteProofs`: type correctness, `ReadsItsStore`, `RunsOnConfigured`.
  `IInv` adds `Instances` (the instance kept is one that was made), `Ready` (a
  single instance, once the extensions are installed, has httpfs, and the cache
  off or a request about to switch it off), `Fits` (each phase with what the
  request holds) and `InEffect` (the statements already run are in the settings,
  unless the query is mixed).
* `DatabaseLoadProofs`: type correctness, `LoadShowsItsDatabase` and
  `PanelsOfTheLoad`, both action properties. `IInv` says that an undisturbed load
  runs alone, and of each of its points what it has cleared and brought (`Sound`).
  `SavedIsCurrent` needs neither types nor `IInv`: it is inductive, since a
  connection stays under way until it saves what is current or takes the
  configuration away.

Model-checked only. Liveness (`EndedReceiveReturns`, `EveryRequestAnswered`) is out
of the prover's reach: both are leads-to properties under weak fairness. Every
other property of a passing run has a theorem. Induction over data is not
available as a rule, since the library's induction theorems take an operator as
parameter; where a proof needs it, a least counterexample is taken in a set of
numbers (`LeastExists`, `FromZeroOn`), and the model has recursive functions.

## Not modelled

Within the modelled components: playback speed, colours and points of the
rays, the legacy Parquet source; the LOCAL_IPC transport, which has no local copies;
visibility of all tilesets at once, camera moves, ion assets, styling; in the
simulation file scatterers, the spawn zone, materials, db, gis and calibration,
and the client's checks that one section refers to another that exists; labels,
arrows and paths of entities, building features; what a table's rows convert
to. React effects run in one step with what triggered them, except where their
delay shows (`effectDue`, `uiConnected`, frames and timers of `Scene`).

Whole components:

* *Client session, simulations, log streaming.* The session lock is the
  server's, which is not in the repository; the calls between keep no state.
  Log streaming is a thread that the one caller starts and joins.
* *Cameras, locations, coordinates, Cesium set-up.* Tables, geometry and calls
  into CesiumJS whose effect is the picture.
* *MinIO proxy and request signing.* Stateless.
* *Bindings, examples, worker, container.* Wrappers, samples and scripts.

## What is next

1. `ClientSession` with the server's lock as an external component, and
   `LogStream` with two callers.
2. Scatterers, the spawn zone and the db, gis and calibration sections in
   `SimConfig` and `YmlSections`.
