---------------------------- MODULE TileManager ----------------------------
(***************************************************************************)
(* The 3D-tile layers of the viewer: the store's list of layers             *)
(* (viewerStore.ts, layerSlice.ts), the HEAD probes that tell which layers a *)
(* dataset ships, and TileManager.ts, which loads a tileset for each layer   *)
(* that is wanted and removes it when it no longer is.                      *)
(*                                                                         *)
(* A change of the store calls TileManager's subscriber synchronously, so an *)
(* action is a change of the store with everything the subscriber does.  Probe *)
(* results and tilesets arrive at any later time and in any order.  The layers *)
(* are listed together, built for one dataset; the viewer exists whenever the *)
(* manager is mounted; nothing in the application hides all tilesets at once. *)
(***************************************************************************)
EXTENDS Naturals, FiniteSets

CONSTANTS
  Layer,    \* exterior, interior, vegetation
  Url,      \* the datasets a scenario or an endpoint may point to
  NoUrl,    \* null, or an empty list of layers
  Ships,    \* <<layer, url>>: the dataset at url has this layer
  MaxGen    \* bound: mounts, reloads and changes of the scene

ASSUME TileAssumption ==
  /\ NoUrl \notin Url
  /\ Ships \subseteq Layer \X Url
  /\ MaxGen \in Nat \ {0}

VARIABLES
  vizBaseUrl,    \* of the imported scenario
  tilesUrl,      \* what the store's layers are built for, NoUrl: no layers
  enabled,       \* their check boxes, also while they are saved only
  availability,  \* what is known of them; "checking" while there are none
  probes,        \* HEAD requests in flight
  tm             \* TileManager's module-level state and its part of the scene

storeVars == <<vizBaseUrl, tilesUrl, enabled, availability>>
vars == <<storeVars, probes, tm>>

Load(id, url, gen) == [id |-> id, url |-> url, gen |-> gen]
Shown(id, url) == [id |-> id, url |-> url]
NotLoading == 0    \* generations count from 1 here

-----------------------------------------------------------------------------
(* TileManager on its state s: loaded and loading (by layer), cancelled,    *)
(* failed, gen, the loads in flight, the tilesets in the scene and, as       *)
(* history, the layers whose last load was skipped as cancelled.            *)

\* Mutant: layers being loaded stay marked, as their loads are still in flight.
CleanupButLoading(s) ==
  [s EXCEPT !.gen = @ + 1, !.scene = {}, !.loaded = [l \in Layer |-> NoUrl]]

\* Everything leaves the scene; loads in flight are recognised by their generation.
CleanupAllTilesets(s) ==
  [s EXCEPT !.gen = @ + 1,
            !.scene = {},
            !.loaded = [l \in Layer |-> NoUrl],
            !.loading = [l \in Layer |-> NotLoading]]

\* A new scene, or the reload button.
Reset(s) == [CleanupAllTilesets(s) EXCEPT !.failed = {}]

\* The enabled layers but those being probed and those known to be absent.
Wanted ==
  {l \in Layer : /\ tilesUrl # NoUrl /\ enabled[l]
                 /\ availability[l] \notin {"checking", "missing"}}

Held(s) == {l \in Layer : s.loaded[l] # NoUrl \/ s.loading[l] # NotLoading}

\* Mutant: an unloaded tileset is forgotten but stays in the scene.
ForgetTilesets(s, wanted, url) ==
  LET toLoad   == wanted \ (Held(s) \cup s.failed)
      toUnload == Held(s) \ wanted
  IN  [s EXCEPT
        !.loaded    = [l \in Layer |-> IF l \in toUnload THEN NoUrl ELSE @[l]],
        !.cancelled = @ \cup {l \in toUnload : s.loading[l] # NotLoading},
        !.loading   = [l \in Layer |-> IF l \in toLoad THEN s.gen ELSE @[l]],
        !.loads     = @ \cup {Load(l, url, s.gen) : l \in toLoad},
        !.skipped   = @ \ toLoad]

\* Unload what is not wanted, cancel its load, and load what is missing.
HandleTilesetChanges(s, wanted, url) ==
  LET toLoad   == wanted \ (Held(s) \cup s.failed)
      toUnload == Held(s) \ wanted
  IN  [s EXCEPT
        !.scene     = @ \ {Shown(l, s.loaded[l]) : l \in toUnload},
        !.loaded    = [l \in Layer |-> IF l \in toUnload THEN NoUrl ELSE @[l]],
        !.cancelled = @ \cup {l \in toUnload : s.loading[l] # NotLoading},
        !.loading   = [l \in Layer |-> IF l \in toLoad THEN s.gen ELSE @[l]],
        !.loads     = @ \cup {Load(l, url, s.gen) : l \in toLoad},
        !.skipped   = @ \ toLoad]

\* The subscriber, in the state the store changed to.
Notify(s) == tm' = HandleTilesetChanges(s, Wanted', tilesUrl')

EndLoad(s, id) == [s EXCEPT !.loading = [@ EXCEPT ![id] = NotLoading]]

-----------------------------------------------------------------------------
(* The user and the scenario.                                               *)

\* refreshGisTilesets: layers for url, all to be probed.
BuildLayers(url) ==
  /\ tilesUrl' = url
  /\ availability' = [l \in Layer |-> "checking"]
  /\ probes' = probes \cup {[id |-> l, url |-> url] : l \in Layer}

\* applyYmlConfig names an endpoint and a scene; both are set in one update.
ImportYml(url) ==
  /\ url # vizBaseUrl => tm.gen < MaxGen
  /\ vizBaseUrl' = url
  /\ BuildLayers(url)
  /\ UNCHANGED enabled
  /\ Notify(IF url # vizBaseUrl THEN Reset(tm) ELSE tm)

\* A new endpoint typed into the settings, with the stored scene if there is one;
\* an empty list overwrites the saved check boxes.
ChangeEndpoint(url) ==
  /\ IF url # NoUrl
     THEN BuildLayers(url) /\ UNCHANGED enabled
     ELSE /\ tilesUrl' = NoUrl
          /\ availability' = [l \in Layer |-> "checking"]
          /\ enabled' = [l \in Layer |-> TRUE]
          /\ UNCHANGED probes
  /\ UNCHANGED vizBaseUrl
  /\ Notify(tm)

\* clearAllEntities drops the scene; the saved check boxes remain.
ClearAllEntities ==
  /\ vizBaseUrl # NoUrl => tm.gen < MaxGen
  /\ vizBaseUrl' = NoUrl
  /\ tilesUrl' = NoUrl
  /\ availability' = [l \in Layer |-> "checking"]
  /\ UNCHANGED <<enabled, probes>>
  /\ Notify(IF vizBaseUrl # NoUrl THEN Reset(tm) ELSE tm)

\* A check box, which is disabled while the layer is probed or when it is absent.
ToggleTileset(l) ==
  /\ vizBaseUrl # NoUrl /\ tilesUrl # NoUrl
  /\ availability[l] \notin {"checking", "missing"}
  /\ enabled' = [enabled EXCEPT ![l] = ~@]
  /\ UNCHANGED <<vizBaseUrl, tilesUrl, availability, probes>>
  /\ Notify(tm)

\* The "Reload all tilesets" button.
RefreshTilesets ==
  /\ vizBaseUrl # NoUrl
  /\ tm.gen < MaxGen
  /\ UNCHANGED <<storeVars, probes>>
  /\ Notify(Reset(tm))

\* Unmounted and mounted again (StrictMode, or an error overlay that went away);
\* failed loads are remembered.
Remount ==
  /\ tm.gen < MaxGen
  /\ UNCHANGED <<storeVars, probes>>
  /\ Notify(CleanupAllTilesets(tm))

-----------------------------------------------------------------------------
(* Answers.                                                                 *)

\* A probe's answer is taken while the layer is listed and still being checked.
ProbeReturns(p, result) ==
  /\ p \in probes
  /\ result = "available" => <<p.id, p.url>> \in Ships
  /\ result = "missing" => <<p.id, p.url>> \notin Ships
  /\ probes' = probes \ {p}
  /\ UNCHANGED <<vizBaseUrl, tilesUrl, enabled>>
  /\ IF tilesUrl = NoUrl \/ availability[p.id] # "checking"
     THEN UNCHANGED <<availability, tm>>
     ELSE /\ availability' = [availability EXCEPT ![p.id] = result]
          /\ Notify(tm)

\* What a tileset that arrived makes of s, from which its load has been taken.
Arrived(s, l) ==
  IF l.gen # s.gen
    THEN IF s.loading[l.id] = l.gen THEN EndLoad(s, l.id) ELSE s
  ELSE IF l.id \in s.cancelled
    THEN [EndLoad(s, l.id) EXCEPT !.cancelled = @ \ {l.id}, !.skipped = @ \cup {l.id}]
  ELSE IF s.loaded[l.id] # NoUrl \/ tilesUrl = NoUrl \/ ~enabled[l.id]
    THEN EndLoad(s, l.id)
  ELSE [EndLoad(s, l.id) EXCEPT !.scene = @ \cup {Shown(l.id, l.url)},
                                !.loaded = [@ EXCEPT ![l.id] = l.url]]

\* Mutant: the tileset is added whatever became of its layer.
LoadSucceedsBlindly(l) ==
  /\ l \in tm.loads
  /\ <<l.id, l.url>> \in Ships
  /\ tm' = [EndLoad(tm, l.id) EXCEPT !.loads = @ \ {l},
                                     !.scene = @ \cup {Shown(l.id, l.url)},
                                     !.loaded = [@ EXCEPT ![l.id] = l.url]]
  /\ UNCHANGED <<storeVars, probes>>

\* A tileset arrives.  If it is shown and has a bounding region, that is written to
\* the store, which notifies the subscriber.
LoadSucceeds(l) ==
  /\ l \in tm.loads
  /\ <<l.id, l.url>> \in Ships
  /\ UNCHANGED <<storeVars, probes>>
  /\ LET s == Arrived([tm EXCEPT !.loads = @ \ {l}], l)
     IN  \/ tm' = s
         \/ s.scene # tm.scene /\ Notify(s)

\* The load fails, however old it is.
LoadFails(l) ==
  /\ l \in tm.loads
  /\ LET s == IF tm.loading[l.id] = l.gen THEN EndLoad(tm, l.id) ELSE tm
     IN  tm' = [s EXCEPT !.loads = @ \ {l},
                         !.failed = @ \cup {l.id},
                         !.cancelled = @ \ {l.id}]
  /\ UNCHANGED <<storeVars, probes>>

-----------------------------------------------------------------------------
\* The page loads: layers saved by an earlier session are listed and probed.
Init ==
  /\ vizBaseUrl = NoUrl
  /\ tilesUrl \in Url \cup {NoUrl}
  /\ enabled \in [Layer -> BOOLEAN]
  /\ availability = [l \in Layer |-> "checking"]
  /\ probes = IF tilesUrl = NoUrl THEN {} ELSE {[id |-> l, url |-> tilesUrl] : l \in Layer}
  /\ tm = [loaded |-> [l \in Layer |-> NoUrl], loading |-> [l \in Layer |-> NotLoading],
           cancelled |-> {}, failed |-> {}, gen |-> 1, loads |-> {}, scene |-> {},
           skipped |-> {}]

User ==
  \/ \E url \in Url : ImportYml(url)
  \/ \E url \in Url \cup {NoUrl} : ChangeEndpoint(url)
  \/ ClearAllEntities
  \/ \E l \in Layer : ToggleTileset(l)
  \/ RefreshTilesets
  \/ Remount

Answers ==
  \/ \E p \in probes : \E result \in {"available", "missing", "unknown"} : ProbeReturns(p, result)
  \/ \E l \in tm.loads : LoadSucceeds(l) \/ LoadFails(l)

Next == User \/ Answers

Spec == Init /\ [][Next]_vars

-----------------------------------------------------------------------------
\* Every variable has its type.
TypeOK ==
  /\ vizBaseUrl \in Url \cup {NoUrl} /\ tilesUrl \in Url \cup {NoUrl}
  /\ enabled \in [Layer -> BOOLEAN]
  /\ availability \in [Layer -> {"checking", "available", "missing", "unknown"}]
  /\ probes \subseteq [id : Layer, url : Url]
  /\ tm \in [loaded : [Layer -> Url \cup {NoUrl}], loading : [Layer -> 0..MaxGen],
             cancelled : SUBSET Layer, failed : SUBSET Layer, gen : 1..MaxGen,
             loads : SUBSET [id : Layer, url : Url, gen : 1..MaxGen],
             scene : SUBSET [id : Layer, url : Url], skipped : SUBSET Layer]

\* The scene holds exactly the tilesets the manager can still remove, one for each
\* layer at most: none is left behind by an unload, a reload or a late arrival.
SceneTracked ==
  tm.scene = {Shown(l, tm.loaded[l]) : l \in {k \in Layer : tm.loaded[k] # NoUrl}}

\* What is on screen is a listed, enabled layer, although it was asked for long before.
ShownIsEnabled == \A t \in tm.scene : tilesUrl # NoUrl /\ enabled[t.id]

\* The layers marked as loading are those with a load of this generation in flight, one
\* each, and they are not loaded: none stays marked for ever, none is loaded twice.
LoadingIsInFlight ==
  /\ \A l \in Layer :
       tm.loading[l] # NotLoading <=> \E k \in tm.loads : k.id = l /\ k.gen = tm.gen
  /\ \A j, k \in tm.loads : j.id = k.id /\ j.gen = k.gen => j = k
  /\ \A l \in Layer : ~(tm.loading[l] # NotLoading /\ tm.loaded[l] # NoUrl)

\* When no answer is awaited, a wanted layer is on screen unless its load failed or was
\* skipped as cancelled.
SettledShowsWanted ==
  probes = {} /\ tm.loads = {} =>
    \A l \in Wanted \ (tm.failed \cup tm.skipped) : tm.loaded[l] # NoUrl

\* What TileManager.ts:229-230 says: a cancellation does not outlive the loads it was
\* for, so that the next loads are not skipped.
\* Refuted: TilesRefuted.cfg has the counterexample.
CancelledIsLoading == \A l \in tm.cancelled : tm.loading[l] # NotLoading

\* What viewerStore.ts:121-122 says: an answer to an older probe does not clobber a newer
\* refresh; so no layer its dataset ships is marked as missing.
\* Refuted: TilesRefuted.cfg has the counterexample.
MissingIsMissing ==
  tilesUrl # NoUrl =>
    \A l \in Layer : availability[l] = "missing" => <<l, tilesUrl>> \notin Ships
=============================================================================
