--------------------------- MODULE RaypathManager ---------------------------
(***************************************************************************)
(* Rays on the viewer's screen: managers/raypathManager.ts, the load        *)
(* pipeline that feeds it (applyAndLoadSimulation, databaseManager.loadAll  *)
(* and loadRaypaths) and the timeline that asks for a detail window.        *)
(*                                                                         *)
(* The published rays are a thin baseline of the whole run plus, while the  *)
(* timeline stands still, a denser window around the selected time.  Both   *)
(* are fetched asynchronously; a generation number tells an answer that is  *)
(* still wanted from one that was superseded.  A fetch names no database:   *)
(* minioClient reads its own current one when the request is built.         *)
(***************************************************************************)
EXTENDS Integers, FiniteSets

CONSTANTS
  Database,       \* the namespaces the catalog lists
  NoDatabase,     \* the empty name ""
  Ray,            \* the rays all databases hold
  DbOf,           \* DbOf[r]: the database ray r is stored in
  TimeOf,         \* TimeOf[r]: its time_idx
  LinkOf,         \* LinkOf[r]: its (ru_id, ue_id) pair
  Times,          \* the time indices on the timeline
  NoTime,         \* nothing selected, timer not armed
  Radius,         \* DETAIL_TIMESTEP_RADIUS
  GlobalBudget,   \* GLOBAL_RAY_BUDGET
  DetailBudget,   \* DETAIL_RAY_BUDGET
  RaysSparsity,   \* scenarioParams.raysSparsity
  MaxVisible,     \* scenarioParams.maxVisibleRayPaths, per link and time
  MaxLoads,       \* bound: simulation loads in progress
  MaxBaselineGen, \* bound: baselineLoadGeneration
  MaxDetailGen    \* bound: detailGeneration

ASSUME RayAssumption ==
  /\ NoDatabase \notin Database
  /\ DbOf \in [Ray -> Database]
  /\ Times \subseteq Nat /\ Times # {}
  /\ TimeOf \in [Ray -> Times]
  /\ NoTime \notin Times
  /\ Radius \in Nat
  /\ RaysSparsity \in Nat \ {0}
  /\ MaxVisible \in Nat
  /\ MaxLoads \in Nat
  /\ MaxBaselineGen \in Nat
  /\ MaxDetailGen \in Nat

VARIABLES
  connected,      \* minioClient.isConnected()
  clientDb,       \* minioClient.currentDatabase
  uiConnected,    \* the polled isConnected prop of the timeline
  applying,       \* applyAndLoadSimulation calls awaiting their YAML
  retrying,       \* loadAll calls waiting to retry because not ready
  entityLoads,    \* loadAll calls awaiting the entity tables
  dbmDatabase,    \* databaseManager.database
  currentDatabase,        \* raypathManager.currentDatabase
  baselineLoadGeneration,
  detailGeneration,
  baselineRays,
  detailRays,
  raypaths,       \* what was last published to the layers
  loads,          \* baseline fetches in flight
  windows,        \* detail fetches in flight
  timeData,       \* the time indices the timeline offers: none or Times
  selectedTimeIdx,
  isPlaying,
  timer,          \* the debounced detail load: the time it will ask for
  effectDue,      \* a dependency of the detail effect changed, it has not run
  timeInfoDue,    \* time_info fetches are in flight
  shown           \* history: what the rays on screen stem from

connVars     == <<connected, clientDb>>
loadVars     == <<applying, retrying, entityLoads, dbmDatabase>>
timelineVars == <<timeData, selectedTimeIdx, isPlaying>>
rayVars      == <<baselineRays, detailRays, raypaths, shown>>
vars == <<connVars, uiConnected, loadVars, currentDatabase, baselineLoadGeneration,
          detailGeneration, baselineRays, detailRays, raypaths, loads, windows,
          timelineVars, timer, effectDue, timeInfoDue, shown>>

-----------------------------------------------------------------------------
(* The rays a fetch returns and how many of them are kept.                  *)

\* What selectRaysForBudget may return: everything within the budget, else
\* exactly as many rays as the budget allows.
Selections(S, budget) ==
  {T \in SUBSET S : IF Cardinality(S) <= budget THEN T = S
                                                ELSE Cardinality(T) = budget}

RaysIn(db) == {r \in Ray : DbOf[r] = db}

\* time_idx BETWEEN center - radius AND center + radius
Window(db, center) ==
  {r \in RaysIn(db) : TimeOf[r] - center \in -Radius..Radius}

\* Every RaysSparsity-th time index that still has rays, from the first.
Sparse(S) ==
  {r \in S :
     Cardinality({t \in {TimeOf[q] : q \in S} : t < TimeOf[r]}) % RaysSparsity = 0}

SameGroup(S, r) == {q \in S : LinkOf[q] = LinkOf[r] /\ TimeOf[q] = TimeOf[r]}

\* The rays loadRaypaths may keep of S: the sparse time steps, at most MaxVisible
\* rays for each link and time (0: no such limit).
Thinned(S) ==
  LET kept == Sparse(S)
  IN  IF MaxVisible = 0 THEN {kept}
      ELSE {T \in SUBSET kept :
              \A r \in kept :
                LET group == SameGroup(kept, r)
                IN  IF Cardinality(group) <= MaxVisible
                    THEN group \subseteq T
                    ELSE Cardinality(SameGroup(T, r)) = MaxVisible}

Thins == RaysSparsity > 1 \/ MaxVisible > 0

Least(S) == CHOOSE t \in S : \A u \in S : t <= u

FirstTime == Least(Times)

\* Playback's next time index; after the last one it starts over.
NextTime(t) ==
  IF \E u \in Times : u > t THEN Least({u \in Times : u > t}) ELSE FirstTime

-----------------------------------------------------------------------------
(* The methods of raypathManager that replace rays.                         *)

\* setAll: a new baseline, any detail window cleared, published.  `by' is the
\* generation of the load on whose behalf it is called.
SetAll(rays, by) ==
  /\ detailGeneration < MaxDetailGen
  /\ baselineRays' = rays
  /\ detailRays' = {}
  /\ raypaths' = rays
  /\ detailGeneration' = detailGeneration + 1
  /\ shown' = [shown EXCEPT !.baselineBy = by, !.dismissedAt = detailGeneration']

\* Mutant: the early return comes before the generation is advanced.
ClearDetailLate ==
  /\ detailGeneration < MaxDetailGen
  /\ IF detailRays = {}
     THEN UNCHANGED <<detailGeneration, detailRays, raypaths, shown>>
     ELSE /\ detailGeneration' = detailGeneration + 1
          /\ detailRays' = {}
          /\ raypaths' = baselineRays
          /\ shown' = [shown EXCEPT !.dismissedAt = detailGeneration']
  /\ UNCHANGED baselineRays

\* clearDetail: always invalidates the requests in flight, publishes only when
\* there was something to remove.
ClearDetail ==
  /\ detailGeneration < MaxDetailGen
  /\ detailGeneration' = detailGeneration + 1
  /\ detailRays' = {}
  /\ raypaths' = IF detailRays = {} THEN raypaths ELSE baselineRays
  /\ shown' = [shown EXCEPT !.dismissedAt = detailGeneration']
  /\ UNCHANGED baselineRays

\* clear: both kinds of rays go and both kinds of requests are invalidated.
Clear ==
  /\ baselineLoadGeneration < MaxBaselineGen
  /\ detailGeneration < MaxDetailGen
  /\ baselineLoadGeneration' = baselineLoadGeneration + 1
  /\ detailGeneration' = detailGeneration + 1
  /\ baselineRays' = {}
  /\ detailRays' = {}
  /\ raypaths' = {}
  /\ shown' = [shown EXCEPT !.clearedAt = baselineLoadGeneration',
                            !.dismissedAt = detailGeneration']

\* Mutant: no generation is compared.
AnyGeneration(gen) == TRUE

IsBaselineLoadCurrent(gen) == gen = baselineLoadGeneration

IsDetailCurrent(gen) == gen = detailGeneration

\* Mutant: rays of the baseline stay in the detail window.
EveryRay(S) == S

\* selectDetailRays drops the rays the baseline already shows.
Novel(S) == S \ baselineRays

\* Where minioClient sends a request built now: nowhere without a connection
\* and a namespace, whatever database the caller was asked to load.
FetchFrom == IF connected THEN clientDb ELSE NoDatabase

-----------------------------------------------------------------------------
(* Connection and simulation loads.                                         *)

Connect(db) ==
  /\ ~connected
  /\ connected' = TRUE
  /\ clientDb' = db
  /\ UNCHANGED <<uiConnected, loadVars, currentDatabase, baselineLoadGeneration,
                 detailGeneration, rayVars, loads, windows, timelineVars, timer,
                 effectDue, timeInfoDue>>

\* handleDisconnect; loads under way are not told.
Disconnect ==
  /\ connected
  /\ connected' = FALSE
  /\ clientDb' = NoDatabase
  /\ Clear
  /\ UNCHANGED <<uiConnected, loadVars, currentDatabase, loads, windows,
                 timelineVars, timer, effectDue, timeInfoDue>>

\* handleDatabaseChange: the drop-down, without pressing Load.
PickDatabase(db) ==
  /\ connected
  /\ clientDb' = db
  /\ UNCHANGED <<connected, uiConnected, loadVars, currentDatabase,
                 baselineLoadGeneration, detailGeneration, rayVars, loads, windows,
                 timelineVars, timer, effectDue, timeInfoDue>>

\* applyAndLoadSimulation up to its first await (the YAML and the scene metadata).
ApplyAndLoad(db) ==
  /\ connected
  /\ applying + retrying + entityLoads < MaxLoads
  /\ clientDb' = db
  /\ applying' = applying + 1
  /\ UNCHANGED <<connected, uiConnected, retrying, entityLoads, dbmDatabase,
                 currentDatabase, baselineLoadGeneration, detailGeneration, rayVars,
                 loads, windows, timelineVars, timer, effectDue, timeInfoDue>>

\* The rest of it in one task: databaseManager.clearAll, then loadAll up to the
\* first entity fetch, or its half-second retry when the connection has gone.
ClearAndLoadAll ==
  /\ applying > 0
  /\ applying' = applying - 1
  /\ Clear
  /\ IF connected
     THEN /\ dbmDatabase' = clientDb
          /\ entityLoads' = entityLoads + 1
          /\ UNCHANGED retrying
     ELSE /\ retrying' = retrying + 1
          /\ UNCHANGED <<dbmDatabase, entityLoads>>
  /\ UNCHANGED <<connVars, uiConnected, currentDatabase, loads, windows,
                 timelineVars, timer, effectDue, timeInfoDue>>

\* loadAll(1): starts like the first attempt, or throws.
RetryLoadAll ==
  /\ retrying > 0
  /\ retrying' = retrying - 1
  /\ IF connected
     THEN dbmDatabase' = clientDb /\ entityLoads' = entityLoads + 1
     ELSE UNCHANGED <<dbmDatabase, entityLoads>>
  /\ UNCHANGED <<connVars, uiConnected, applying, currentDatabase,
                 baselineLoadGeneration, detailGeneration, rayVars, loads, windows,
                 timelineVars, timer, effectDue, timeInfoDue>>

\* A YAML applied or removed on its own: all rays go, the timeline restarts on the
\* YAML's time indices or, without any, empties and stops.
ApplyYml ==
  /\ Clear
  /\ \/ /\ timeData' = Times
        /\ selectedTimeIdx' = FirstTime
        /\ UNCHANGED isPlaying
     \/ /\ timeData' = {}
        /\ selectedTimeIdx' = NoTime
        /\ isPlaying' = FALSE
  /\ effectDue' = (effectDue \/ <<selectedTimeIdx, isPlaying>>'
                                  # <<selectedTimeIdx, isPlaying>>)
  /\ UNCHANGED <<connVars, uiConnected, loadVars, currentDatabase, loads, windows,
                 timer, timeInfoDue>>

\* loadAll after the entity tables: refresh the timeline, then loadRaypaths without
\* awaiting it.
StartRaypaths ==
  /\ entityLoads > 0
  /\ baselineLoadGeneration < MaxBaselineGen
  /\ entityLoads' = entityLoads - 1
  /\ timeInfoDue' = (timeInfoDue \/ (uiConnected /\ connected))
  /\ baselineLoadGeneration' = baselineLoadGeneration + 1
  /\ currentDatabase' = dbmDatabase
  /\ loads' = loads \cup {[gen |-> baselineLoadGeneration', from |-> FetchFrom]}
  /\ UNCHANGED <<connVars, uiConnected, applying, retrying, dbmDatabase,
                 detailGeneration, rayVars, windows, timelineVars, timer, effectDue>>

\* The rows of a baseline fetch arrive: load() publishes what fits the budget and
\* loadRaypaths, in the microtask that follows, thins all published rays.
BaselineArrives(l) ==
  /\ l \in loads
  /\ l.from # NoDatabase
  /\ loads' = loads \ {l}
  /\ IF ~IsBaselineLoadCurrent(l.gen)
     THEN UNCHANGED <<detailGeneration, rayVars>>
     ELSE \E fetched \in Selections(RaysIn(l.from), GlobalBudget) :
            IF Thins THEN \E rays \in Thinned(fetched) : SetAll(rays, l.gen)
                     ELSE SetAll(fetched, l.gen)
  /\ UNCHANGED <<connVars, uiConnected, loadVars, currentDatabase,
                 baselineLoadGeneration, windows, timelineVars, timer, effectDue,
                 timeInfoDue>>

\* The fetch fails: load() keeps what it has but loadRaypaths still thins the
\* published rays, detail window included, and makes them the baseline.
BaselineFails(l) ==
  /\ l \in loads
  /\ loads' = loads \ {l}
  /\ IF IsBaselineLoadCurrent(l.gen) /\ Thins
     THEN \E rays \in Thinned(raypaths) : SetAll(rays, l.gen)
     ELSE UNCHANGED <<detailGeneration, rayVars>>
  /\ UNCHANGED <<connVars, uiConnected, loadVars, currentDatabase,
                 baselineLoadGeneration, windows, timelineVars, timer, effectDue,
                 timeInfoDue>>

-----------------------------------------------------------------------------
(* The timeline and its detail window.                                      *)

\* Body of the effect that depends on the selected time, isPlaying and isConnected:
\* dismiss the window, or arm the debounced load for the selected time.  The effect also
\* asks for "database", which viewer.tsx takes from the store: it is "default" from the
\* start (uiSlice.ts:40) and the program never sets it.
DetailEffect(time, playing, ui) ==
  /\ effectDue' = FALSE
  /\ IF playing \/ time = NoTime \/ ~ui
     THEN timer' = NoTime /\ ClearDetail
     ELSE timer' = time /\ UNCHANGED <<detailGeneration, rayVars>>

\* After a change that no click made, React runs the effect some time later.
RunDetailEffect ==
  /\ effectDue
  /\ DetailEffect(selectedTimeIdx, isPlaying, uiConnected)
  /\ UNCHANGED <<connVars, uiConnected, loadVars, currentDatabase,
                 baselineLoadGeneration, loads, windows, timelineVars, timeInfoDue>>

\* A step, previous, next or go-to click; React runs a click's effect at once.
SelectTime(t) ==
  /\ t \in timeData \ {selectedTimeIdx}
  /\ selectedTimeIdx' = t
  /\ DetailEffect(t, isPlaying, uiConnected)
  /\ UNCHANGED <<connVars, uiConnected, loadVars, currentDatabase,
                 baselineLoadGeneration, loads, windows, timeData, isPlaying,
                 timeInfoDue>>

\* startPlayback clears the window itself; so does the effect of the same click.
StartPlayback ==
  /\ ~isPlaying
  /\ timeData # {}
  /\ isPlaying' = TRUE
  /\ DetailEffect(selectedTimeIdx, TRUE, uiConnected)
  /\ UNCHANGED <<connVars, uiConnected, loadVars, currentDatabase,
                 baselineLoadGeneration, loads, windows, timeData, selectedTimeIdx,
                 timeInfoDue>>

StopPlayback ==
  /\ isPlaying
  /\ isPlaying' = FALSE
  /\ DetailEffect(selectedTimeIdx, FALSE, uiConnected)
  /\ UNCHANGED <<connVars, uiConnected, loadVars, currentDatabase,
                 baselineLoadGeneration, loads, windows, timeData, selectedTimeIdx,
                 timeInfoDue>>

\* The playback interval, stepping through the time data it was started with.
PlaybackTick ==
  /\ isPlaying
  /\ selectedTimeIdx' = IF selectedTimeIdx = NoTime THEN FirstTime
                                                    ELSE NextTime(selectedTimeIdx)
  /\ effectDue' = (effectDue \/ selectedTimeIdx' # selectedTimeIdx)
  /\ UNCHANGED <<connVars, uiConnected, loadVars, currentDatabase,
                 baselineLoadGeneration, detailGeneration, rayVars, loads, windows,
                 timeData, isPlaying, timer, timeInfoDue>>

\* The page's one-second poll; on a new connection the timeline may also refetch.
PollConnection ==
  /\ uiConnected # connected
  /\ uiConnected' = connected
  /\ effectDue' = TRUE
  /\ timeInfoDue' \in {timeInfoDue, timeInfoDue \/ connected}
  /\ UNCHANGED <<connVars, loadVars, currentDatabase, baselineLoadGeneration,
                 detailGeneration, rayVars, loads, windows, timelineVars, timer>>

\* loadTimeInfo resumes: with rows it selects the first time index, with an error
\* it empties the timeline and leaves the selection.  The flag stands for any
\* number of fetches, so another one may still be in flight.
TimeInfoArrives ==
  /\ timeInfoDue
  /\ timeInfoDue' \in BOOLEAN
  /\ \/ timeData' = Times /\ selectedTimeIdx' = FirstTime
     \/ timeData' = {} /\ UNCHANGED selectedTimeIdx
  /\ effectDue' = (effectDue \/ selectedTimeIdx' # selectedTimeIdx)
  /\ UNCHANGED <<connVars, uiConnected, loadVars, currentDatabase,
                 baselineLoadGeneration, detailGeneration, rayVars, loads, windows,
                 isPlaying, timer>>

\* The debounce ends: loadDetailWindow up to its await.
TimerFires ==
  /\ timer # NoTime
  /\ timer' = NoTime
  /\ IF ~connected \/ currentDatabase = NoDatabase
     THEN UNCHANGED <<detailGeneration, windows>>
     ELSE /\ detailGeneration < MaxDetailGen
          /\ detailGeneration' = detailGeneration + 1
          /\ windows' = windows \cup {[gen |-> detailGeneration', from |-> FetchFrom,
                                       center |-> timer]}
  /\ UNCHANGED <<connVars, uiConnected, loadVars, currentDatabase,
                 baselineLoadGeneration, rayVars, loads, timelineVars, effectDue,
                 timeInfoDue>>

\* What loadDetailWindow publishes for request w: rays beside the current baseline.
PublishDetail(rays, w) ==
  /\ detailRays' = rays
  /\ raypaths' = baselineRays \cup rays
  /\ shown' = [shown EXCEPT !.detailBy = w.gen, !.center = w.center]
  /\ UNCHANGED baselineRays

\* Rows for a detail window; the request leaves headroom for the baseline's rays.
DetailArrives(w) ==
  /\ w \in windows
  /\ w.from # NoDatabase
  /\ windows' = windows \ {w}
  /\ IF ~IsDetailCurrent(w.gen)
     THEN UNCHANGED rayVars
     ELSE \E fetched \in Selections(Window(w.from, w.center),
                                    DetailBudget + GlobalBudget) :
          \E rays \in Selections(Novel(fetched), DetailBudget) :
            PublishDetail(rays, w)
  /\ UNCHANGED <<connVars, uiConnected, loadVars, currentDatabase,
                 baselineLoadGeneration, detailGeneration, loads, timelineVars, timer,
                 effectDue, timeInfoDue>>

\* An error result empties the window.
DetailFails(w) ==
  /\ w \in windows
  /\ windows' = windows \ {w}
  /\ IF IsDetailCurrent(w.gen) THEN PublishDetail({}, w) ELSE UNCHANGED rayVars
  /\ UNCHANGED <<connVars, uiConnected, loadVars, currentDatabase,
                 baselineLoadGeneration, detailGeneration, loads, timelineVars, timer,
                 effectDue, timeInfoDue>>

-----------------------------------------------------------------------------
Init ==
  /\ connected \in BOOLEAN          \* a saved configuration reconnects
  /\ clientDb \in IF connected THEN Database ELSE {NoDatabase}
  /\ uiConnected = FALSE
  /\ applying = 0 /\ retrying = 0 /\ entityLoads = 0
  /\ dbmDatabase = NoDatabase
  /\ currentDatabase = NoDatabase
  /\ baselineLoadGeneration = 0
  /\ detailGeneration = 0
  /\ baselineRays = {} /\ detailRays = {} /\ raypaths = {}
  /\ loads = {} /\ windows = {}
  /\ timeData = {} /\ selectedTimeIdx = NoTime /\ isPlaying = FALSE
  /\ timer = NoTime
  /\ effectDue = FALSE
  /\ timeInfoDue = FALSE
  /\ shown = [baselineBy |-> 0, detailBy |-> 0, center |-> NoTime,
              clearedAt |-> 0, dismissedAt |-> 0]

User ==
  \/ \E db \in Database : Connect(db) \/ PickDatabase(db) \/ ApplyAndLoad(db)
  \/ Disconnect
  \/ ApplyYml
  \/ \E t \in Times : SelectTime(t)
  \/ StartPlayback
  \/ StopPlayback

Browser ==
  \/ ClearAndLoadAll
  \/ RetryLoadAll
  \/ StartRaypaths
  \/ RunDetailEffect
  \/ PlaybackTick
  \/ PollConnection
  \/ TimerFires

Answers ==
  \/ \E l \in loads : BaselineArrives(l) \/ BaselineFails(l)
  \/ \E w \in windows : DetailArrives(w) \/ DetailFails(w)
  \/ TimeInfoArrives

Next == User \/ Browser \/ Answers

Spec == Init /\ [][Next]_vars

-----------------------------------------------------------------------------
Fetch == [gen : 1..MaxBaselineGen, from : Database \cup {NoDatabase}]
WindowFetch == [gen : 1..MaxDetailGen, from : Database \cup {NoDatabase}, center : Times]

\* Every variable has its type.
TypeOK ==
  /\ connected \in BOOLEAN /\ uiConnected \in BOOLEAN
  /\ clientDb \in Database \cup {NoDatabase}
  /\ applying \in Nat /\ retrying \in Nat /\ entityLoads \in Nat
  /\ dbmDatabase \in Database \cup {NoDatabase}
  /\ currentDatabase \in Database \cup {NoDatabase}
  /\ baselineLoadGeneration \in 0..MaxBaselineGen
  /\ detailGeneration \in 0..MaxDetailGen
  /\ baselineRays \subseteq Ray /\ detailRays \subseteq Ray /\ raypaths \subseteq Ray
  /\ loads \subseteq Fetch
  /\ windows \subseteq WindowFetch
  /\ timeData \in {{}, Times}
  /\ selectedTimeIdx \in Times \cup {NoTime}
  /\ isPlaying \in BOOLEAN
  /\ timer \in Times \cup {NoTime}
  /\ effectDue \in BOOLEAN /\ timeInfoDue \in BOOLEAN
  /\ shown \in [baselineBy : 0..MaxBaselineGen, detailBy : 0..MaxDetailGen,
                center : Times \cup {NoTime},
                clearedAt : 0..MaxBaselineGen, dismissedAt : 0..MaxDetailGen]

\* The layers draw the baseline and the detail window, and no ray twice, although
\* the two are replaced by different callers and a window is computed against a
\* baseline that may since have been replaced (setAll, clearDetail, publishMerged).
PublishedUnion ==
  /\ raypaths = baselineRays \cup detailRays
  /\ baselineRays \cap detailRays = {}

\* Whatever was cleared or dismissed stays away until something requested later
\* brings rays back: no answer to an older request, of either kind, reappears.
NothingReappears ==
  /\ baselineRays # {} => shown.baselineBy > shown.clearedAt
  /\ detailRays # {} => shown.detailBy > shown.dismissedAt

\* During playback only the baseline is drawn, and no request or timer is left
\* that could bring a window back before playback stops.
PlaybackShowsBaseline ==
  isPlaying => /\ detailRays = {}
               /\ timer = NoTime
               /\ \A w \in windows : w.gen # detailGeneration

\* No detail request or change of the timeline is still being worked on.
DetailSettled ==
  /\ timer = NoTime /\ ~effectDue
  /\ \A w \in windows : w.gen # detailGeneration

\* Once settled, a detail window on screen is the one around the selected time,
\* however the selections and the answers overtook each other.
DetailMatchesSelection ==
  DetailSettled /\ detailRays # {} => shown.center = selectedTimeIdx

\* What README.md:225 tells the user: a namespace is picked, and Load brings its
\* data; so the rays on screen never come from two databases.
\* Refuted: RaypathPick.cfg has the counterexample.
OneDatabaseOnScreen == \A r, q \in raypaths : DbOf[r] = DbOf[q]

\* Nothing is in flight any more.
AllSettled ==
  /\ DetailSettled /\ ~timeInfoDue
  /\ loads = {} /\ windows = {}
  /\ applying = 0 /\ retrying = 0 /\ entityLoads = 0

\* What Timeline.tsx:270 says: stopped on a time step, the denser rays around it
\* are loaded (or their fetch failed) once everything has settled.
\* Refuted: RaypathDetailLost.cfg has the counterexample.
StoppedLoadsDetail ==
  AllSettled /\ connected /\ uiConnected /\ baselineRays # {}
    /\ ~isPlaying /\ selectedTimeIdx # NoTime
  => shown.detailBy > shown.dismissedAt

-----------------------------------------------------------------------------
(* The two places of the screen, each as NewestWins describes it.             *)

Gens(requests) == {q.gen : q \in requests}

Baseline == INSTANCE NewestWins WITH
  newest  <- baselineLoadGeneration,
  pending <- Gens(loads),
  showing <- IF baselineRays = {} THEN 0 ELSE shown.baselineBy

Detail == INSTANCE NewestWins WITH
  newest  <- detailGeneration,
  pending <- Gens(windows),
  showing <- IF detailRays = {} THEN 0 ELSE shown.detailBy

\* The baseline is a place the newest request wins: a load, a clear and the answers,
\* in whatever order they overtake each other, are steps of that specification
\* (load, clear, isBaselineLoadCurrent).
BaselineIsNewest == Baseline!Spec

\* The detail window is another, which a new baseline, playback and every change of
\* the selection dismiss (loadDetailWindow, clearDetail, setAll, clear).
DetailIsNewest == Detail!Spec
=============================================================================
