-------------------------- MODULE TileManagerProofs --------------------------
(***************************************************************************)
(* The invariants of TileManager for any layers and datasets and any number *)
(* of mounts and reloads.  They are stated of the manager's state s, so that *)
(* each of its methods keeps them, whatever the store then does with it.     *)
(***************************************************************************)
EXTENDS TileManager, TLAPS

Manager ==
  [loaded : [Layer -> Url \cup {NoUrl}], loading : [Layer -> 0..MaxGen],
   cancelled : SUBSET Layer, failed : SUBSET Layer, gen : 1..MaxGen,
   loads : SUBSET [id : Layer, url : Url, gen : 1..MaxGen],
   scene : SUBSET [id : Layer, url : Url], skipped : SUBSET Layer]

\* The tilesets in the scene are the tracked ones.
Tracked(s) ==
  /\ \A t \in s.scene : s.loaded[t.id] = t.url
  /\ \A l \in Layer : s.loaded[l] # NoUrl => Shown(l, s.loaded[l]) \in s.scene

\* Marks belong to this generation, and each to one load; no load is from the future.
Marked(s) ==
  /\ \A l \in Layer : s.loading[l] \in {NotLoading, s.gen}
  /\ \A k \in s.loads : k.gen <= s.gen
  /\ \A l \in Layer :
       s.loading[l] # NotLoading => \E k \in s.loads : k.id = l /\ k.gen = s.gen
  /\ \A k \in s.loads : k.gen = s.gen => s.loading[k.id] # NotLoading
  /\ \A j, k \in s.loads : j.id = k.id /\ j.gen = k.gen => j = k
  /\ \A l \in Layer : ~(s.loading[l] # NotLoading /\ s.loaded[l] # NoUrl)

Consistent(s) == s \in Manager /\ Tracked(s) /\ Marked(s)

\* Only layers of W are on screen.
ShowsOnly(s, W) == \A t \in s.scene : t.id \in W

EnabledLayers == {l \in Layer : tilesUrl # NoUrl /\ enabled[l]}

StoreType ==
  /\ vizBaseUrl \in Url \cup {NoUrl} /\ tilesUrl \in Url \cup {NoUrl}
  /\ enabled \in [Layer -> BOOLEAN]
  /\ availability \in [Layer -> {"checking", "available", "missing", "unknown"}]
  /\ probes \subseteq [id : Layer, url : Url]

IInv == StoreType /\ Consistent(tm) /\ ShowsOnly(tm, EnabledLayers)

-----------------------------------------------------------------------------
(* The methods of the manager.                                              *)

\* Taking everything down leaves nothing on screen and no mark.
LEMMA CleanupKeeps ==
  ASSUME NEW s, Consistent(s), s.gen < MaxGen
  PROVE  Consistent(CleanupAllTilesets(s)) /\ Consistent(Reset(s))
<1> DEFINE c == CleanupAllTilesets(s)
<1> DEFINE r == Reset(s)
<1>1. s \in Manager
  BY DEF Consistent
<1>2. /\ c \in Manager /\ c.scene = {} /\ c.loads = s.loads /\ c.gen = s.gen + 1
      /\ c.loaded = [l \in Layer |-> NoUrl] /\ c.loading = [l \in Layer |-> NotLoading]
  <2>1. c = [loaded |-> c.loaded, loading |-> c.loading, cancelled |-> c.cancelled,
              failed |-> c.failed, gen |-> c.gen, loads |-> c.loads,
              scene |-> c.scene, skipped |-> c.skipped]
    <3>1. c = [s EXCEPT !.gen = s.gen + 1, !.scene = {},
                        !.loaded = [l \in Layer |-> NoUrl],
                        !.loading = [l \in Layer |-> NotLoading]]
      BY Zenon DEF CleanupAllTilesets
    <3> HIDE DEF c
    <3> QED
      BY <1>1, <3>1 DEF Manager
  <2>2. c.scene = {} /\ c.loads = s.loads /\ c.gen = s.gen + 1
    BY <1>1 DEF CleanupAllTilesets, Manager
  <2>3. c.cancelled = s.cancelled /\ c.failed = s.failed /\ c.skipped = s.skipped
    BY <1>1 DEF CleanupAllTilesets, Manager
  <2>4. c.loaded = [l \in Layer |-> NoUrl] /\ c.loading = [l \in Layer |-> NotLoading]
    BY <1>1 DEF CleanupAllTilesets, Manager
  <2> HIDE DEF c
  <2> QED
    BY <1>1, <2>1, <2>2, <2>3, <2>4, TileAssumption DEF Manager, NotLoading
<1>3. /\ r \in Manager /\ r.scene = {} /\ r.loads = s.loads /\ r.gen = s.gen + 1
      /\ r.loaded = [l \in Layer |-> NoUrl] /\ r.loading = [l \in Layer |-> NotLoading]
  <2>1. r = [c EXCEPT !.failed = {}]
    BY DEF Reset
  <2> HIDE DEF r, c
  <2> QED
    BY <1>2, <2>1 DEF Manager
<1>4. /\ s.gen \in Nat
      /\ \A k \in s.loads : k.gen \in Nat /\ k.gen <= s.gen
      /\ \A j, k \in s.loads : j.id = k.id /\ j.gen = k.gen => j = k
      /\ \A k \in s.loads : k.id \in Layer
  BY <1>1, TileAssumption DEF Consistent, Marked, Manager
<1> HIDE DEF c, r
<1>5. Consistent(c)
  BY <1>2, <1>4 DEF Consistent, Tracked, Marked
<1>6. Consistent(r)
  BY <1>3, <1>4 DEF Consistent, Tracked, Marked
<1> QED
  BY <1>5, <1>6 DEF c, r

\* What the subscriber makes of each part of the manager's state.
LEMMA HandleFields ==
  ASSUME NEW s \in Manager, NEW W \in SUBSET Layer, NEW url
  PROVE  LET toLoad   == W \ (Held(s) \cup s.failed)
             toUnload == Held(s) \ W
             h        == HandleTilesetChanges(s, W, url)
         IN  /\ h.scene = s.scene \ {Shown(l, s.loaded[l]) : l \in toUnload}
             /\ h.loaded = [l \in Layer |-> IF l \in toUnload THEN NoUrl ELSE s.loaded[l]]
             /\ h.loading = [l \in Layer |-> IF l \in toLoad THEN s.gen ELSE s.loading[l]]
             /\ h.loads = s.loads \cup {Load(l, url, s.gen) : l \in toLoad}
             /\ h.gen = s.gen /\ h.failed = s.failed
             /\ h.cancelled = s.cancelled \cup {l \in toUnload : s.loading[l] # NotLoading}
             /\ h.skipped = s.skipped \ toLoad
             /\ h = [loaded |-> h.loaded, loading |-> h.loading, cancelled |-> h.cancelled,
                     failed |-> h.failed, gen |-> h.gen, loads |-> h.loads,
                     scene |-> h.scene, skipped |-> h.skipped]
<1> DEFINE toLoad   == W \ (Held(s) \cup s.failed)
<1> DEFINE toUnload == Held(s) \ W
<1> DEFINE h == HandleTilesetChanges(s, W, url)
<1>1. h = [s EXCEPT
      !.scene     = s.scene \ {Shown(l, s.loaded[l]) : l \in toUnload},
      !.loaded    = [l \in Layer |-> IF l \in toUnload THEN NoUrl ELSE s.loaded[l]],
      !.cancelled = s.cancelled \cup {l \in toUnload : s.loading[l] # NotLoading},
      !.loading   = [l \in Layer |-> IF l \in toLoad THEN s.gen ELSE s.loading[l]],
      !.loads     = s.loads \cup {Load(l, url, s.gen) : l \in toLoad},
      !.skipped   = s.skipped \ toLoad]
  BY Zenon DEF HandleTilesetChanges
<1> HIDE DEF h, toLoad, toUnload
<1>2. h.scene = s.scene \ {Shown(l, s.loaded[l]) : l \in toUnload}
  BY <1>1 DEF Manager
<1>3. h.loaded = [l \in Layer |-> IF l \in toUnload THEN NoUrl ELSE s.loaded[l]]
  BY <1>1 DEF Manager
<1>4. h.loading = [l \in Layer |-> IF l \in toLoad THEN s.gen ELSE s.loading[l]]
  BY <1>1 DEF Manager
<1>5. h.loads = s.loads \cup {Load(l, url, s.gen) : l \in toLoad}
  BY <1>1 DEF Manager
<1>6. h.gen = s.gen /\ h.failed = s.failed /\ h.skipped = s.skipped \ toLoad
  BY <1>1 DEF Manager
<1>7. h.cancelled = s.cancelled \cup {l \in toUnload : s.loading[l] # NotLoading}
  BY <1>1 DEF Manager
<1>8. h = [loaded |-> h.loaded, loading |-> h.loading, cancelled |-> h.cancelled,
            failed |-> h.failed, gen |-> h.gen, loads |-> h.loads,
            scene |-> h.scene, skipped |-> h.skipped]
  BY <1>1 DEF Manager
<1> QED
  BY <1>2, <1>3, <1>4, <1>5, <1>6, <1>7, <1>8 DEF h, toLoad, toUnload

\* What the subscriber does leaves only wanted layers on screen.
LEMMA HandleKeeps ==
  ASSUME NEW s, Consistent(s), NEW W \in SUBSET Layer, NEW url, W # {} => url \in Url
  PROVE  /\ Consistent(HandleTilesetChanges(s, W, url))
         /\ ShowsOnly(HandleTilesetChanges(s, W, url), W)
<1> DEFINE toLoad   == W \ (Held(s) \cup s.failed)
<1> DEFINE toUnload == Held(s) \ W
<1> DEFINE h == HandleTilesetChanges(s, W, url)
<1>1. s \in Manager /\ Tracked(s) /\ Marked(s)
  BY DEF Consistent
<1>2. toLoad \subseteq Layer /\ toUnload \subseteq Layer /\ (toLoad # {} => url \in Url)
  BY DEF Held
<1>3. /\ h.scene = s.scene \ {Shown(l, s.loaded[l]) : l \in toUnload}
      /\ h.loaded = [l \in Layer |-> IF l \in toUnload THEN NoUrl ELSE s.loaded[l]]
      /\ h.loading = [l \in Layer |-> IF l \in toLoad THEN s.gen ELSE s.loading[l]]
      /\ h.loads = s.loads \cup {Load(l, url, s.gen) : l \in toLoad}
      /\ h.gen = s.gen /\ h.failed = s.failed
      /\ h.cancelled = s.cancelled \cup {l \in toUnload : s.loading[l] # NotLoading}
      /\ h.skipped = s.skipped \ toLoad
      /\ h = [loaded |-> h.loaded, loading |-> h.loading, cancelled |-> h.cancelled,
              failed |-> h.failed, gen |-> h.gen, loads |-> h.loads,
              scene |-> h.scene, skipped |-> h.skipped]
  BY <1>1, HandleFields
<1>4. s.gen \in 1..MaxGen /\ s.gen # NotLoading /\ s.loading \in [Layer -> 0..MaxGen]
      /\ s.loaded \in [Layer -> Url \cup {NoUrl}] /\ s.loads \subseteq [id : Layer, url : Url, gen : 1..MaxGen]
      /\ s.scene \subseteq [id : Layer, url : Url]
      /\ s.cancelled \subseteq Layer /\ s.failed \subseteq Layer /\ s.skipped \subseteq Layer
  BY <1>1, TileAssumption DEF Manager, NotLoading
<1>5. /\ \A l \in toLoad : s.loading[l] = NotLoading /\ s.loaded[l] = NoUrl
      /\ \A l \in Layer : l \notin toUnload =>
           (s.loaded[l] = NoUrl /\ s.loading[l] = NotLoading) \/ l \in W
  BY DEF Held
<1>6. \A l \in toLoad : /\ Load(l, url, s.gen).id = l /\ Load(l, url, s.gen).gen = s.gen
                        /\ Load(l, url, s.gen) \in [id : Layer, url : Url, gen : 1..MaxGen]
  BY <1>2, <1>4 DEF Load
<1> HIDE DEF h, toLoad, toUnload
<1>7. h \in Manager
  <2>1. h.loaded \in [Layer -> Url \cup {NoUrl}] /\ h.loading \in [Layer -> 0..MaxGen]
    BY <1>2, <1>3, <1>4, TileAssumption
  <2>2. h.loads \subseteq [id : Layer, url : Url, gen : 1..MaxGen]
    BY <1>3, <1>4, <1>6
  <2>3. h.cancelled \subseteq Layer /\ h.skipped \subseteq Layer /\ h.failed \subseteq Layer
    BY <1>2, <1>3, <1>4
  <2>4. h.scene \subseteq [id : Layer, url : Url] /\ h.gen \in 1..MaxGen
    BY <1>3, <1>4
  <2> QED
    BY <1>3, <2>1, <2>2, <2>3, <2>4 DEF Manager
<1>8. Tracked(h)
  <2>1. ASSUME NEW t \in h.scene PROVE h.loaded[t.id] = t.url
    <3>1. t \in s.scene /\ t.id \in Layer /\ s.loaded[t.id] = t.url
      BY <1>1, <1>3, <1>4, <2>1 DEF Tracked
    <3>2. t = Shown(t.id, t.url)
      BY <1>4, <3>1 DEF Shown
    <3>3. t.id \notin toUnload
      BY <1>3, <2>1, <3>1, <3>2
    <3> QED
      BY <1>3, <3>1, <3>3
  <2>2. ASSUME NEW l \in Layer, h.loaded[l] # NoUrl PROVE Shown(l, h.loaded[l]) \in h.scene
    <3>1. l \notin toUnload /\ h.loaded[l] = s.loaded[l]
      BY <1>3, <2>2
    <3>2. Shown(l, s.loaded[l]) \in s.scene
      BY <1>1, <2>2, <3>1 DEF Tracked
    <3>3. \A k \in toUnload : Shown(k, s.loaded[k]) # Shown(l, s.loaded[l])
      BY <3>1 DEF Shown
    <3> QED
      BY <1>3, <3>1, <3>2, <3>3
  <2> QED
    BY <2>1, <2>2 DEF Tracked
<1>9. Marked(h)
  <2>1. \A l \in Layer : h.loading[l] \in {NotLoading, h.gen}
    BY <1>1, <1>3 DEF Marked
  <2>2. \A k \in h.loads : k.gen <= h.gen
    BY <1>1, <1>3, <1>4, <1>6 DEF Marked
  <2>3. ASSUME NEW l \in Layer, h.loading[l] # NotLoading
        PROVE  \E k \in h.loads : k.id = l /\ k.gen = h.gen
    BY <1>1, <1>3, <1>6, <2>3 DEF Marked
  <2>4. \A k \in h.loads : k.gen = h.gen => h.loading[k.id] # NotLoading
    BY <1>1, <1>2, <1>3, <1>4, <1>6 DEF Marked
  <2>5. ASSUME NEW j \in h.loads, NEW k \in h.loads, j.id = k.id, j.gen = k.gen PROVE j = k
    <3>1. CASE j \in s.loads /\ k \in s.loads
      BY <1>1, <2>5, <3>1 DEF Marked
    <3>2. CASE j \notin s.loads /\ k \notin s.loads
      BY <1>3, <1>6, <2>5, <3>2
    <3>3. CASE j \in s.loads /\ k \notin s.loads
      BY <1>1, <1>3, <1>5, <1>6, <2>5, <3>3 DEF Marked
    <3>4. CASE j \notin s.loads /\ k \in s.loads
      BY <1>1, <1>3, <1>5, <1>6, <2>5, <3>4 DEF Marked
    <3> QED
      BY <3>1, <3>2, <3>3, <3>4
  <2>6. \A l \in Layer : ~(h.loading[l] # NotLoading /\ h.loaded[l] # NoUrl)
    BY <1>1, <1>3, <1>5 DEF Marked
  <2> QED
    BY <2>1, <2>2, <2>3, <2>4, <2>5, <2>6 DEF Marked
<1>10. ShowsOnly(h, W)
  <2>1. ASSUME NEW t \in h.scene PROVE t.id \in W
    <3>1. t.id \in Layer /\ h.loaded[t.id] = t.url /\ t.url # NoUrl
      BY <1>3, <1>4, <1>8, <2>1, TileAssumption DEF Tracked
    <3>2. t.id \notin toUnload /\ s.loaded[t.id] # NoUrl
      BY <1>3, <3>1
    <3> QED
      BY <1>5, <3>1, <3>2
  <2> QED
    BY <2>1 DEF ShowsOnly
<1> QED
  BY <1>7, <1>8, <1>9, <1>10 DEF Consistent, h

\* A load that ends, its tileset shown or not, is unmarked if it is a current one.
LEMMA EndKeeps ==
  ASSUME NEW s, Consistent(s), NEW l \in s.loads, NEW r \in Manager,
         r.gen = s.gen, r.loads = s.loads \ {l},
         r.loading = IF l.gen = s.gen THEN [s.loading EXCEPT ![l.id] = NotLoading]
                                      ELSE s.loading,
         \/ r.scene = s.scene /\ r.loaded = s.loaded
         \/ /\ l.gen = s.gen
            /\ r.scene = s.scene \cup {Shown(l.id, l.url)}
            /\ r.loaded = [s.loaded EXCEPT ![l.id] = l.url]
  PROVE  Consistent(r)
<1>1. s \in Manager /\ Tracked(s) /\ Marked(s)
  BY DEF Consistent
<1>2. /\ l.id \in Layer /\ l.url \in Url /\ l.gen \in 1..MaxGen
      /\ s.loading \in [Layer -> 0..MaxGen] /\ s.loaded \in [Layer -> Url \cup {NoUrl}]
      /\ s.gen \in 1..MaxGen /\ s.scene \subseteq [id : Layer, url : Url]
      /\ s.loads \subseteq [id : Layer, url : Url, gen : 1..MaxGen]
  BY <1>1 DEF Manager
<1>3. l.gen = s.gen => s.loading[l.id] # NotLoading /\ s.loaded[l.id] = NoUrl
  BY <1>1, <1>2 DEF Marked
<1>4. Tracked(r)
  <2>1. CASE r.scene = s.scene /\ r.loaded = s.loaded
    BY <1>1, <2>1 DEF Tracked
  <2>2. CASE /\ l.gen = s.gen
             /\ r.scene = s.scene \cup {Shown(l.id, l.url)}
             /\ r.loaded = [s.loaded EXCEPT ![l.id] = l.url]
    <3>1. \A t \in s.scene : t.id # l.id /\ t.id \in Layer
      BY <1>1, <1>2, <1>3, <2>2, TileAssumption DEF Tracked
    <3>2. Shown(l.id, l.url).id = l.id /\ Shown(l.id, l.url).url = l.url
      BY DEF Shown
    <3>3. \A t \in r.scene : r.loaded[t.id] = t.url
      BY <1>1, <1>2, <2>2, <3>1, <3>2 DEF Tracked
    <3>4. \A k \in Layer : r.loaded[k] # NoUrl => Shown(k, r.loaded[k]) \in r.scene
      BY <1>1, <1>2, <2>2 DEF Tracked
    <3> QED
      BY <3>3, <3>4 DEF Tracked
  <2> QED
    BY <2>1, <2>2
<1>5. Marked(r)
  <2>1. \A k \in Layer : r.loading[k] = IF l.gen = s.gen /\ k = l.id THEN NotLoading
                                                                   ELSE s.loading[k]
    BY <1>2
  <2>2. \A k \in Layer : r.loaded[k] = s.loaded[k] \/ (l.gen = s.gen /\ k = l.id)
    BY <1>2
  <2>3. ASSUME NEW m \in Layer, r.loading[m] # NotLoading
        PROVE  \E k \in r.loads : k.id = m /\ k.gen = r.gen
    <3>1. PICK k \in s.loads : k.id = m /\ k.gen = s.gen
      BY <1>1, <2>1, <2>3 DEF Marked
    <3>2. k # l
      BY <2>1, <2>3, <3>1
    <3> QED
      BY <3>1, <3>2
  <2>4. \A k \in r.loads : k.gen = r.gen => r.loading[k.id] # NotLoading
    <3>1. ASSUME NEW k \in s.loads, k # l, k.gen = s.gen PROVE r.loading[k.id] # NotLoading
      <4>1. ~(k.id = l.id /\ k.gen = l.gen)
        BY <1>1, <3>1 DEF Marked
      <4>2. s.loading[k.id] # NotLoading /\ k.id \in Layer
        BY <1>1, <1>2, <3>1 DEF Marked
      <4> QED
        BY <2>1, <3>1, <4>1, <4>2
    <3> QED
      BY <3>1
  <2>5. \A m \in Layer : r.loading[m] \in {NotLoading, r.gen}
    BY <1>1, <2>1 DEF Marked
  <2>6. \A k \in r.loads : k.gen <= r.gen
    BY <1>1 DEF Marked
  <2>7. \A j, k \in r.loads : j.id = k.id /\ j.gen = k.gen => j = k
    BY <1>1 DEF Marked
  <2>8. \A m \in Layer : ~(r.loading[m] # NotLoading /\ r.loaded[m] # NoUrl)
    BY <1>1, <2>1, <2>2 DEF Marked
  <2> QED
    BY <2>3, <2>4, <2>5, <2>6, <2>7, <2>8 DEF Marked
<1> QED
  BY <1>4, <1>5 DEF Consistent

\* A tileset that arrives is shown only if its layer is still enabled.
LEMMA ArrivedKeeps ==
  ASSUME NEW s, Consistent(s), NEW l \in s.loads
  PROVE  LET r == Arrived([s EXCEPT !.loads = @ \ {l}], l)
         IN  /\ Consistent(r)
             /\ \A t \in r.scene : t \in s.scene \/ t.id \in EnabledLayers
<1> DEFINE u == [s EXCEPT !.loads = @ \ {l}]
<1> DEFINE e == EndLoad(u, l.id)
<1> DEFINE r == Arrived(u, l)
<1>1. s \in Manager /\ Tracked(s) /\ Marked(s)
  BY DEF Consistent
<1>2. /\ l.id \in Layer /\ l.url \in Url /\ l.gen \in 1..MaxGen /\ s.gen \in 1..MaxGen
      /\ s.loading \in [Layer -> 0..MaxGen]
  BY <1>1 DEF Manager
<1>3. /\ u \in Manager /\ u.gen = s.gen /\ u.loads = s.loads \ {l}
      /\ u.loading = s.loading /\ u.scene = s.scene /\ u.loaded = s.loaded
  BY <1>1 DEF Manager
<1> HIDE DEF u
<1>4. e = [u EXCEPT !.loading = [u.loading EXCEPT ![l.id] = NotLoading]]
  BY Zenon DEF EndLoad
<1> HIDE DEF e
<1>5. [u.loading EXCEPT ![l.id] = NotLoading] \in [Layer -> 0..MaxGen]
  BY <1>2, <1>3, TileAssumption DEF NotLoading
<1>6. /\ e \in Manager /\ e.gen = s.gen /\ e.loads = s.loads \ {l}
      /\ e.loading = [s.loading EXCEPT ![l.id] = NotLoading]
      /\ e.scene = s.scene /\ e.loaded = s.loaded
  BY <1>3, <1>4, <1>5 DEF Manager
<1>7. CASE l.gen # s.gen
  <2>1. s.loading[l.id] # l.gen
    BY <1>1, <1>2, <1>7 DEF Marked, NotLoading
  <2>2. r = u
    BY <1>3, <1>7, <2>1 DEF Arrived
  <2> HIDE DEF r
  <2>3. Consistent(r)
    BY <1>3, <1>7, <2>2, EndKeeps
  <2> QED
    BY <1>3, <2>2, <2>3 DEF r, u
<1>8. CASE l.gen = s.gen
  <2>1. CASE u.loaded[l.id] # NoUrl \/ tilesUrl = NoUrl \/ ~enabled[l.id] \/ l.id \in u.cancelled
    <3>1. \/ r = e
          \/ r = [e EXCEPT !.cancelled = e.cancelled \ {l.id},
                            !.skipped = e.skipped \cup {l.id}]
      BY <1>3, <1>8, <2>1, Zenon DEF Arrived, e
    <3> HIDE DEF r
    <3>2. /\ r \in Manager /\ r.gen = s.gen /\ r.loads = s.loads \ {l}
          /\ r.loading = [s.loading EXCEPT ![l.id] = NotLoading]
          /\ r.scene = s.scene /\ r.loaded = s.loaded
      <4>1. CASE r = e
        BY <1>6, <4>1
      <4>2. CASE r = [e EXCEPT !.cancelled = e.cancelled \ {l.id},
                               !.skipped = e.skipped \cup {l.id}]
        <5>1. e.cancelled \ {l.id} \subseteq Layer /\ e.skipped \cup {l.id} \subseteq Layer
          BY <1>2, <1>6 DEF Manager
        <5> QED
          BY <1>6, <4>2, <5>1 DEF Manager
      <4> QED
        BY <3>1, <4>1, <4>2
    <3>3. Consistent(r)
      BY <1>8, <3>2, EndKeeps
    <3> QED
      BY <1>6, <3>2, <3>3 DEF r, u
  <2>2. CASE ~(u.loaded[l.id] # NoUrl \/ tilesUrl = NoUrl \/ ~enabled[l.id] \/ l.id \in u.cancelled)
    <3>1. r = [e EXCEPT !.scene = e.scene \cup {Shown(l.id, l.url)},
                        !.loaded = [e.loaded EXCEPT ![l.id] = l.url]]
      BY <1>3, <1>8, <2>2, Zenon DEF Arrived, e
    <3>2. /\ Shown(l.id, l.url) \in [id : Layer, url : Url]
          /\ Shown(l.id, l.url).id = l.id
          /\ [e.loaded EXCEPT ![l.id] = l.url] \in [Layer -> Url \cup {NoUrl}]
      BY <1>2, <1>6 DEF Shown, Manager
    <3> HIDE DEF r
    <3>3. /\ r \in Manager /\ r.gen = s.gen /\ r.loads = s.loads \ {l}
          /\ r.loading = [s.loading EXCEPT ![l.id] = NotLoading]
          /\ r.scene = s.scene \cup {Shown(l.id, l.url)}
          /\ r.loaded = [s.loaded EXCEPT ![l.id] = l.url]
      BY <1>6, <3>1, <3>2 DEF Manager
    <3>4. Consistent(r)
      BY <1>8, <3>3, EndKeeps
    <3>5. l.id \in EnabledLayers
      BY <1>2, <2>2 DEF EnabledLayers
    <3> QED
      BY <3>2, <3>3, <3>4, <3>5 DEF r, u
  <2> QED
    BY <2>1, <2>2
<1> QED
  BY <1>7, <1>8

\* A load that fails shows nothing and unmarks its layer if it is a current one.
LEMMA FailedKeeps ==
  ASSUME NEW l \in tm.loads, Consistent(tm), LoadFails(l)
  PROVE  Consistent(tm') /\ tm'.scene = tm.scene
<1> DEFINE e == EndLoad(tm, l.id)
<1> DEFINE s == IF tm.loading[l.id] = l.gen THEN e ELSE tm
<1>1. tm \in Manager /\ Marked(tm)
  BY DEF Consistent
<1>2. /\ l.id \in Layer /\ l.gen \in 1..MaxGen /\ tm.gen \in 1..MaxGen
      /\ tm.loading \in [Layer -> 0..MaxGen]
  BY <1>1 DEF Manager
<1>3. tm.loading[l.id] = l.gen <=> l.gen = tm.gen
  BY <1>1, <1>2 DEF Marked, NotLoading
<1>4. e = [tm EXCEPT !.loading = [tm.loading EXCEPT ![l.id] = NotLoading]]
  BY Zenon DEF EndLoad
<1>5. tm' = [s EXCEPT !.loads = s.loads \ {l}, !.failed = s.failed \cup {l.id},
                      !.cancelled = s.cancelled \ {l.id}]
  BY Zenon DEF LoadFails
<1>6. [tm.loading EXCEPT ![l.id] = NotLoading] \in [Layer -> 0..MaxGen]
  BY <1>2, TileAssumption DEF NotLoading
<1> HIDE DEF e
<1>7. /\ s \in Manager /\ s.gen = tm.gen /\ s.loads = tm.loads
      /\ s.scene = tm.scene /\ s.loaded = tm.loaded
      /\ s.loading = IF l.gen = tm.gen THEN [tm.loading EXCEPT ![l.id] = NotLoading]
                                       ELSE tm.loading
  <2>1. CASE l.gen = tm.gen
    BY <1>1, <1>3, <1>4, <1>6, <2>1 DEF Manager
  <2>2. CASE l.gen # tm.gen
    BY <1>1, <1>3, <2>2
  <2> QED
    BY <2>1, <2>2
<1> HIDE DEF s
<1>8. /\ s.failed \cup {l.id} \subseteq Layer /\ s.cancelled \ {l.id} \subseteq Layer
      /\ s.loads \ {l} \subseteq [id : Layer, url : Url, gen : 1..MaxGen]
  BY <1>2, <1>7 DEF Manager
<1>9. /\ tm' \in Manager /\ tm'.gen = tm.gen /\ tm'.loads = tm.loads \ {l}
      /\ tm'.scene = tm.scene /\ tm'.loaded = tm.loaded
      /\ tm'.loading = s.loading
  BY <1>5, <1>7, <1>8 DEF Manager
<1> QED
  BY <1>7, <1>9, EndKeeps

-----------------------------------------------------------------------------
(* The steps of the system.                                                 *)

\* The subscriber leaves a consistent manager, with only enabled layers on screen.
LEMMA NotifyKeeps ==
  ASSUME NEW s, Consistent(s), Notify(s), tilesUrl' \in Url \cup {NoUrl}
  PROVE  Consistent(tm') /\ ShowsOnly(tm', EnabledLayers')
<1>1. /\ Wanted' \in SUBSET Layer /\ (Wanted' # {} => tilesUrl' \in Url)
      /\ Wanted' \subseteq EnabledLayers'
  BY DEF Wanted, EnabledLayers
<1>2. tm' = HandleTilesetChanges(s, Wanted', tilesUrl')
  BY DEF Notify
<1> DEFINE h == HandleTilesetChanges(s, Wanted', tilesUrl')
<1>3. Consistent(h) /\ ShowsOnly(h, Wanted')
  BY <1>1, HandleKeeps
<1> HIDE DEF h
<1>4. ShowsOnly(h, EnabledLayers')
  BY <1>1, <1>3 DEF ShowsOnly
<1> QED
  BY <1>2, <1>3, <1>4 DEF h, Consistent, ShowsOnly, Tracked, Marked

\* Nothing is loaded when the page loads.
LEMMA InvInit == Init => IInv
<1> SUFFICES ASSUME Init PROVE IInv
  OBVIOUS
<1>1. StoreType
  BY DEF Init, StoreType
<1>2. tm \in Manager
  BY TileAssumption DEF Init, Manager, NotLoading
<1>3. Tracked(tm) /\ Marked(tm) /\ ShowsOnly(tm, EnabledLayers)
  BY DEF Init, Tracked, Marked, ShowsOnly
<1> QED
  BY <1>1, <1>2, <1>3 DEF IInv, Consistent

\* Every change of the store, and every answer, keeps the invariant.
LEMMA InvStep == IInv /\ [Next]_vars => IInv'
<1> SUFFICES ASSUME IInv, [Next]_vars PROVE IInv'
  OBVIOUS
<1>1. StoreType /\ Consistent(tm) /\ tm.gen \in 1..MaxGen /\ MaxGen \in Nat
  BY TileAssumption DEF IInv, Consistent, Manager
<1>2. tm.gen < MaxGen => Consistent(CleanupAllTilesets(tm)) /\ Consistent(Reset(tm))
  BY <1>1, CleanupKeeps
<1>3. ASSUME StoreType', Consistent(tm'), ShowsOnly(tm', EnabledLayers') PROVE IInv'
  BY <1>3 DEF IInv, Consistent, ShowsOnly, Tracked, Marked
<1>4. ASSUME NEW url \in Url, BuildLayers(url), enabled' = enabled,
             vizBaseUrl' \in Url \cup {NoUrl}
      PROVE  StoreType'
  BY <1>1, <1>4 DEF BuildLayers, StoreType
<1>5. ASSUME NEW url \in Url, ImportYml(url) PROVE IInv'
  <2>1. StoreType'
    BY <1>4, <1>5 DEF ImportYml
  <2>2. CASE url = vizBaseUrl
    <3>1. Notify(tm)
      BY <1>5, <2>2 DEF ImportYml
    <3> QED
      BY <1>1, <1>3, <2>1, <3>1, NotifyKeeps DEF StoreType
  <2>3. CASE url # vizBaseUrl
    <3>1. Notify(Reset(tm)) /\ Consistent(Reset(tm))
      BY <1>2, <1>5, <2>3 DEF ImportYml
    <3> QED
      BY <1>3, <2>1, <3>1, NotifyKeeps DEF StoreType
  <2> QED
    BY <2>2, <2>3
<1>6. ASSUME NEW url \in Url \cup {NoUrl}, ChangeEndpoint(url) PROVE IInv'
  <2>1. StoreType'
    <3>1. CASE url # NoUrl
      BY <1>1, <1>4, <1>6, <3>1 DEF ChangeEndpoint, StoreType
    <3>2. CASE url = NoUrl
      BY <1>1, <1>6, <3>2 DEF ChangeEndpoint, StoreType
    <3> QED
      BY <3>1, <3>2
  <2>2. Notify(tm)
    BY <1>6 DEF ChangeEndpoint
  <2> QED
    BY <1>1, <1>3, <2>1, <2>2, NotifyKeeps DEF StoreType
<1>7. ASSUME ClearAllEntities PROVE IInv'
  <2>1. StoreType'
    BY <1>1, <1>7 DEF ClearAllEntities, StoreType
  <2>2. \/ Notify(tm)
        \/ Notify(Reset(tm)) /\ Consistent(Reset(tm))
    BY <1>2, <1>7 DEF ClearAllEntities
  <2> QED
    BY <1>1, <1>3, <2>1, <2>2, NotifyKeeps DEF StoreType
<1>8. ASSUME NEW l \in Layer, ToggleTileset(l) PROVE IInv'
  <2>1. StoreType'
    BY <1>1, <1>8 DEF ToggleTileset, StoreType
  <2>2. Notify(tm)
    BY <1>8 DEF ToggleTileset
  <2> QED
    BY <1>1, <1>3, <2>1, <2>2, NotifyKeeps DEF StoreType
<1>9. ASSUME RefreshTilesets PROVE IInv'
  <2>1. StoreType'
    BY <1>1, <1>9 DEF RefreshTilesets, StoreType, storeVars
  <2>2. Notify(Reset(tm)) /\ Consistent(Reset(tm))
    BY <1>2, <1>9 DEF RefreshTilesets
  <2> QED
    BY <1>3, <2>1, <2>2, NotifyKeeps DEF StoreType
<1>10. ASSUME Remount PROVE IInv'
  <2>1. StoreType'
    BY <1>1, <1>10 DEF Remount, StoreType, storeVars
  <2>2. Notify(CleanupAllTilesets(tm)) /\ Consistent(CleanupAllTilesets(tm))
    BY <1>2, <1>10 DEF Remount
  <2> QED
    BY <1>3, <2>1, <2>2, NotifyKeeps DEF StoreType
<1>11. ASSUME NEW p \in probes, NEW result \in {"available", "missing", "unknown"},
              ProbeReturns(p, result)
       PROVE  IInv'
  <2>1. StoreType'
    BY <1>1, <1>11 DEF ProbeReturns, StoreType
  <2>2. CASE Notify(tm)
    BY <1>1, <1>3, <2>1, <2>2, NotifyKeeps DEF StoreType
  <2>3. CASE UNCHANGED <<availability, tm>>
    <3>1. tm' = tm /\ EnabledLayers' = EnabledLayers
      BY <1>11, <2>3 DEF ProbeReturns, EnabledLayers
    <3> QED
      BY <1>3, <2>1, <3>1 DEF IInv
  <2> QED
    BY <1>11, <2>2, <2>3 DEF ProbeReturns
<1>12. ASSUME UNCHANGED storeVars, UNCHANGED probes
       PROVE  StoreType' /\ EnabledLayers' = EnabledLayers
  BY <1>1, <1>12 DEF StoreType, storeVars, EnabledLayers
<1>13. ASSUME NEW l \in tm.loads, LoadSucceeds(l) PROVE IInv'
  <2> DEFINE s == Arrived([tm EXCEPT !.loads = @ \ {l}], l)
  <2>1. UNCHANGED storeVars /\ UNCHANGED probes /\ (tm' = s \/ Notify(s))
    BY <1>13 DEF LoadSucceeds
  <2>2. Consistent(s) /\ \A t \in s.scene : t \in tm.scene \/ t.id \in EnabledLayers
    BY <1>1, ArrivedKeeps
  <2> HIDE DEF s
  <2>3. ShowsOnly(s, EnabledLayers)
    BY <2>2 DEF IInv, ShowsOnly
  <2>4. CASE tm' = s
    BY <1>3, <1>12, <2>1, <2>2, <2>3, <2>4
  <2>5. CASE Notify(s)
    BY <1>3, <1>12, <2>1, <2>2, <2>5, NotifyKeeps DEF StoreType
  <2> QED
    BY <2>1, <2>4, <2>5
<1>14. ASSUME NEW l \in tm.loads, LoadFails(l) PROVE IInv'
  <2>1. Consistent(tm') /\ tm'.scene = tm.scene
    BY <1>1, <1>14, FailedKeeps
  <2>2. ShowsOnly(tm', EnabledLayers)
    BY <2>1 DEF IInv, ShowsOnly
  <2> QED
    BY <1>3, <1>12, <1>14, <2>1, <2>2 DEF LoadFails
<1>15. ASSUME UNCHANGED vars PROVE IInv'
  <2>1. tm' = tm /\ UNCHANGED storeVars /\ UNCHANGED probes
    BY <1>15 DEF vars
  <2> QED
    BY <1>3, <1>12, <2>1 DEF IInv
<1> QED
  BY <1>5, <1>6, <1>7, <1>8, <1>9, <1>10, <1>11, <1>13, <1>14, <1>15
     DEF Next, User, Answers

\* IInv holds in every reachable state.
THEOREM Invariance == Spec => []IInv
  BY InvInit, InvStep, PTL DEF Spec

-----------------------------------------------------------------------------
(* No wanted layer is forgotten.                                            *)

\* Each layer of W is shown or being loaded, or its load failed or was skipped.
Served(s, W) ==
  \A l \in W : s.loaded[l] # NoUrl \/ s.loading[l] # NotLoading \/ l \in s.failed \cup s.skipped

WantedServed == Served(tm, Wanted)

\* The subscriber serves whoever is wanted then, whatever it had served before.
LEMMA NotifyServes ==
  ASSUME NEW s, Consistent(s), Notify(s)
  PROVE  Served(tm', Wanted')
<1> DEFINE W == Wanted'
<1> DEFINE toLoad == W \ (Held(s) \cup s.failed)
<1> DEFINE h == HandleTilesetChanges(s, W, tilesUrl')
<1>1. s \in Manager /\ W \in SUBSET Layer /\ tm' = h
  BY DEF Consistent, Wanted, Notify
<1>2. /\ h.loaded = [l \in Layer |-> IF l \in Held(s) \ W THEN NoUrl ELSE s.loaded[l]]
      /\ h.loading = [l \in Layer |-> IF l \in toLoad THEN s.gen ELSE s.loading[l]]
      /\ h.failed = s.failed
  BY <1>1, HandleFields
<1>3. s.gen # NotLoading
  BY <1>1, TileAssumption DEF Manager, NotLoading
<1>4. ASSUME NEW l \in W
      PROVE  h.loaded[l] # NoUrl \/ h.loading[l] # NotLoading \/ l \in h.failed
  <2>1. CASE l \in toLoad
    BY <1>1, <1>2, <1>3, <2>1
  <2>2. CASE l \in s.failed
    BY <1>2, <2>2
  <2>3. CASE l \in Held(s) /\ l \notin toLoad
    BY <1>1, <1>2, <2>3 DEF Held
  <2> QED
    BY <2>1, <2>2, <2>3
<1> HIDE DEF h, W
<1>5. Served(h, W)
  BY <1>4 DEF Served
<1> QED
  BY <1>1, <1>5 DEF Served, W

\* An arrival serves its layer, or was not for a layer that is wanted.
LEMMA ArrivedServes ==
  ASSUME NEW s, Consistent(s), NEW l \in s.loads, NEW W \in SUBSET EnabledLayers, Served(s, W)
  PROVE  Served(Arrived([s EXCEPT !.loads = @ \ {l}], l), W)
<1> DEFINE u == [s EXCEPT !.loads = @ \ {l}]
<1> DEFINE e == EndLoad(u, l.id)
<1> DEFINE r == Arrived(u, l)
<1>1. s \in Manager /\ Marked(s)
  BY DEF Consistent
<1>2. l.id \in Layer /\ l.url \in Url /\ l.gen \in 1..MaxGen /\ s.gen \in 1..MaxGen
  BY <1>1 DEF Manager
<1>3. u \in Manager /\ u.gen = s.gen /\ u.loading = s.loading
      /\ u.loaded = s.loaded /\ u.failed = s.failed /\ u.skipped = s.skipped
  BY <1>1 DEF Manager
<1> HIDE DEF u
<1>4. e = [u EXCEPT !.loading = [u.loading EXCEPT ![l.id] = NotLoading]]
  BY Zenon DEF EndLoad
<1> HIDE DEF e
<1>5. /\ e.loading = [s.loading EXCEPT ![l.id] = NotLoading] /\ e.loaded = s.loaded
      /\ e.failed = s.failed /\ e.skipped = s.skipped
      /\ e = [loaded |-> e.loaded, loading |-> e.loading, cancelled |-> e.cancelled,
              failed |-> e.failed, gen |-> e.gen, loads |-> e.loads,
              scene |-> e.scene, skipped |-> e.skipped]
  BY <1>3, <1>4 DEF Manager
<1>6. s.loading \in [Layer -> 0..MaxGen] /\ s.loaded \in [Layer -> Url \cup {NoUrl}]
      /\ W \subseteq Layer
  BY <1>1 DEF Manager, EnabledLayers
<1>7. CASE r = u
  BY <1>3, <1>7 DEF Served, u
<1>8. CASE /\ l.gen = s.gen
           /\ s.loaded[l.id] # NoUrl \/ tilesUrl = NoUrl \/ ~enabled[l.id]
           /\ r = e
  <2>1. l.id \notin W
    BY <1>1, <1>2, <1>8 DEF Marked, EnabledLayers
  <2> QED
    BY <1>2, <1>5, <1>6, <1>8, <2>1 DEF Served, u
<1>9. CASE r = [e EXCEPT !.cancelled = e.cancelled \ {l.id}, !.skipped = e.skipped \cup {l.id}]
  <2> HIDE DEF r
  <2>1. r.loading = e.loading /\ r.loaded = e.loaded /\ r.failed = e.failed
        /\ r.skipped = e.skipped \cup {l.id}
    BY <1>5, <1>9
  <2>2. Served(r, W)
    BY <1>2, <1>5, <1>6, <2>1 DEF Served
  <2> QED
    BY <2>2 DEF r, u
<1>10. CASE r = [e EXCEPT !.scene = e.scene \cup {Shown(l.id, l.url)},
                          !.loaded = [e.loaded EXCEPT ![l.id] = l.url]]
  <2> HIDE DEF r
  <2>1. r.loading = e.loading /\ r.loaded = [e.loaded EXCEPT ![l.id] = l.url]
        /\ r.failed = e.failed /\ r.skipped = e.skipped
    BY <1>5, <1>10
  <2>2. Served(r, W)
    BY <1>2, <1>5, <1>6, <2>1, TileAssumption DEF Served
  <2> QED
    BY <2>2 DEF r, u
<1>11. l.gen # s.gen => r = u
  BY <1>1, <1>2, <1>3 DEF Arrived, Marked, NotLoading
<1>12. l.gen = s.gen =>
         \/ r = [e EXCEPT !.cancelled = e.cancelled \ {l.id}, !.skipped = e.skipped \cup {l.id}]
         \/ (s.loaded[l.id] # NoUrl \/ tilesUrl = NoUrl \/ ~enabled[l.id]) /\ r = e
         \/ r = [e EXCEPT !.scene = e.scene \cup {Shown(l.id, l.url)},
                          !.loaded = [e.loaded EXCEPT ![l.id] = l.url]]
  BY <1>3, Zenon DEF Arrived, e
<1> QED
  BY <1>7, <1>8, <1>9, <1>10, <1>11, <1>12

\* TileManager.ts: whatever is toggled, imported, reloaded or cancelled, every layer that
\* is wanted is shown or on its way, unless its load failed or was skipped as cancelled.
LEMMA ServedStep == IInv /\ Served(tm, Wanted) /\ [Next]_vars => Served(tm', Wanted')
<1> SUFFICES ASSUME IInv, Served(tm, Wanted), [Next]_vars PROVE Served(tm', Wanted')
  OBVIOUS
<1>1. Consistent(tm) /\ tm \in Manager /\ MaxGen \in Nat /\ Wanted \in SUBSET EnabledLayers
  BY TileAssumption DEF IInv, Consistent, Wanted, EnabledLayers
<1>2. tm.gen < MaxGen => Consistent(CleanupAllTilesets(tm)) /\ Consistent(Reset(tm))
  BY <1>1, CleanupKeeps
<1>3. ASSUME User PROVE Served(tm', Wanted')
  <2>1. \/ Notify(tm)
        \/ tm.gen < MaxGen /\ (Notify(Reset(tm)) \/ Notify(CleanupAllTilesets(tm)))
    BY <1>3 DEF User, ImportYml, ChangeEndpoint, ClearAllEntities, ToggleTileset,
                RefreshTilesets, Remount
  <2> QED
    BY <1>1, <1>2, <2>1, NotifyServes
<1>4. ASSUME NEW p \in probes, NEW result, ProbeReturns(p, result) PROVE Served(tm', Wanted')
  <2>1. CASE Notify(tm)
    BY <1>1, <2>1, NotifyServes
  <2>2. CASE UNCHANGED <<availability, tm>>
    <3>1. Wanted' = Wanted /\ tm' = tm
      BY <1>4, <2>2 DEF ProbeReturns, Wanted
    <3> QED
      BY <3>1
  <2> QED
    BY <1>4, <2>1, <2>2 DEF ProbeReturns
<1>5. ASSUME UNCHANGED storeVars PROVE Wanted' = Wanted
  BY <1>5 DEF storeVars, Wanted
<1>6. ASSUME NEW l \in tm.loads, LoadSucceeds(l) PROVE Served(tm', Wanted')
  <2> DEFINE s == Arrived([tm EXCEPT !.loads = @ \ {l}], l)
  <2>1. UNCHANGED storeVars /\ (tm' = s \/ Notify(s))
    BY <1>6 DEF LoadSucceeds
  <2>2. Consistent(s) /\ Served(s, Wanted)
    BY <1>1, ArrivedKeeps, ArrivedServes
  <2> HIDE DEF s
  <2> QED
    BY <1>5, <2>1, <2>2, NotifyServes
<1>7. ASSUME NEW l \in tm.loads, LoadFails(l) PROVE Served(tm', Wanted')
  <2> DEFINE s == IF tm.loading[l.id] = l.gen THEN EndLoad(tm, l.id) ELSE tm
  <2>1. EndLoad(tm, l.id) = [tm EXCEPT !.loading = [tm.loading EXCEPT ![l.id] = NotLoading]]
    BY Zenon DEF EndLoad
  <2>2. tm' = [s EXCEPT !.loads = s.loads \ {l}, !.failed = s.failed \cup {l.id},
                        !.cancelled = s.cancelled \ {l.id}]
    BY <1>7, Zenon DEF LoadFails
  <2>3. /\ s.loaded = tm.loaded /\ s.failed = tm.failed /\ s.skipped = tm.skipped
        /\ \A k \in Layer : k # l.id => s.loading[k] = tm.loading[k]
        /\ s = [loaded |-> s.loaded, loading |-> s.loading, cancelled |-> s.cancelled,
                failed |-> s.failed, gen |-> s.gen, loads |-> s.loads,
                scene |-> s.scene, skipped |-> s.skipped]
    BY <1>1, <2>1 DEF Manager
  <2> HIDE DEF s
  <2>4. /\ tm'.loaded = s.loaded /\ tm'.loading = s.loading /\ tm'.skipped = s.skipped
        /\ tm'.failed = s.failed \cup {l.id}
    BY <2>2, <2>3
  <2>5. Served(tm', Wanted)
    BY <1>1, <2>3, <2>4 DEF Served, EnabledLayers
  <2> QED
    BY <1>5, <1>7, <2>5 DEF LoadFails
<1>8. ASSUME UNCHANGED vars PROVE Served(tm', Wanted')
  <2>1. tm' = tm /\ UNCHANGED storeVars
    BY <1>8 DEF vars
  <2> QED
    BY <1>5, <2>1
<1> QED
  BY <1>3, <1>4, <1>6, <1>7, <1>8 DEF Next, Answers

\* TileManager.ts: when no load is under way, a layer that is wanted is on screen unless its
\* load failed or was skipped as cancelled: no change of the store goes unnoticed, and no
\* load is waited for that is not in flight.
THEOREM WantedIsShown == Spec => []SettledShowsWanted
<1>1. Init => WantedServed
  BY DEF Init, WantedServed, Served, Wanted
<1>2. IInv /\ WantedServed => SettledShowsWanted
  <2> SUFFICES ASSUME IInv, WantedServed, tm.loads = {},
                      NEW l \in Wanted \ (tm.failed \cup tm.skipped)
               PROVE  tm.loaded[l] # NoUrl
    BY DEF SettledShowsWanted
  <2>1. Marked(tm) /\ l \in Layer
    BY DEF IInv, Consistent, Wanted
  <2>2. tm.loading[l] = NotLoading
    BY <2>1 DEF Marked
  <2> QED
    BY <2>2 DEF WantedServed, Served
<1>3. IInv /\ WantedServed /\ [Next]_vars => WantedServed'
  BY ServedStep DEF WantedServed, Served
<1> QED
  BY <1>1, <1>2, <1>3, Invariance, PTL DEF Spec

-----------------------------------------------------------------------------
(* The properties the runs check.                                           *)

\* TileManager.ts: every variable keeps its type, whatever is imported, loaded or lost.
THEOREM TypeCorrect == Spec => []TypeOK
<1>1. IInv => TypeOK
  BY DEF IInv, StoreType, Consistent, Manager, TypeOK
<1> QED
  BY <1>1, Invariance, PTL

\* TileManager.ts: the tilesets in the scene are those of loadedTilesets, so that each
\* can still be unloaded.
THEOREM NoTilesetLeftBehind == Spec => []SceneTracked
<1>1. ASSUME Consistent(tm) PROVE SceneTracked
  <2>1. ASSUME NEW t \in tm.scene
        PROVE  t.id \in Layer /\ tm.loaded[t.id] # NoUrl /\ t = Shown(t.id, tm.loaded[t.id])
    BY <1>1, <2>1, TileAssumption DEF Consistent, Manager, Tracked, Shown
  <2>2. ASSUME NEW l \in Layer, tm.loaded[l] # NoUrl PROVE Shown(l, tm.loaded[l]) \in tm.scene
    BY <1>1, <2>2 DEF Consistent, Tracked
  <2> QED
    BY <2>1, <2>2 DEF SceneTracked
<1>2. IInv => SceneTracked
  BY <1>1 DEF IInv
<1> QED
  BY <1>2, Invariance, PTL

\* TileManager.ts: a tileset on screen is that of a layer listed and enabled now.
THEOREM OnlyEnabledOnScreen == Spec => []ShownIsEnabled
<1>1. IInv => ShownIsEnabled
  BY DEF IInv, ShowsOnly, EnabledLayers, ShownIsEnabled
<1> QED
  BY <1>1, Invariance, PTL

\* TileManager.ts: loadingTilesets marks exactly the layers with a current load in flight.
THEOREM MarksAreLoads == Spec => []LoadingIsInFlight
<1>1. IInv => LoadingIsInFlight
  BY DEF IInv, Consistent, Marked, LoadingIsInFlight
<1> QED
  BY <1>1, Invariance, PTL
=============================================================================
