------------------------ MODULE RaypathManagerProofs ------------------------
(***************************************************************************)
(* The invariants of RaypathManager for any databases, rays, budgets and    *)
(* bounds.  They are not inductive alone: an answer that arrives is judged  *)
(* by its generation only, so the proof needs how the generations issued to *)
(* the requests in flight relate to the counters, to the last clear and to  *)
(* the timeline's selection.                                                *)
(***************************************************************************)
EXTENDS RayScreen, WellFoundedInduction, TLAPS

\* No request in flight carries a generation ahead of its counter or the one a
\* clear or a dismissal consumed.
Generations ==
  /\ shown.clearedAt <= baselineLoadGeneration
  /\ shown.dismissedAt <= detailGeneration
  /\ \A l \in loads : l.gen <= baselineLoadGeneration /\ l.gen # shown.clearedAt
  /\ \A w \in windows : w.gen <= detailGeneration /\ w.gen # shown.dismissedAt

\* Without a connection or a loaded database there is no window and none wanted.
NoWindowOffline ==
  /\ connected => clientDb \in Database
  /\ entityLoads > 0 => dbmDatabase \in Database
  /\ ~connected \/ currentDatabase = NoDatabase
     => detailRays = {} /\ \A w \in windows : w.gen # detailGeneration

\* Unless the effect is still due, the timer and then the wanted request are for
\* the selected time.
PursuesSelection ==
  /\ timer # NoTime /\ ~effectDue => timer = selectedTimeIdx
  /\ timer = NoTime /\ ~effectDue
     => \A w \in windows : w.gen = detailGeneration => w.center = selectedTimeIdx

IInv ==
  /\ TypeOK
  /\ PublishedUnion
  /\ NothingReappears
  /\ PlaybackShowsBaseline
  /\ DetailMatchesSelection
  /\ Generations
  /\ NoWindowOffline
  /\ PursuesSelection

-----------------------------------------------------------------------------
(* The budget and the thinning only ever drop rays.                         *)

\* A selection within the budget is made of the rays it was given.
LEMMA SelectionIsSubset ==
  ASSUME NEW S, NEW budget, NEW T \in Selections(S, budget)
  PROVE  T \subseteq S
BY DEF Selections

\* Thinning to the global budget adds no ray.
LEMMA ThinnedIsSubset ==
  ASSUME NEW S, NEW T \in Thinned(S)
  PROVE  T \subseteq S
BY DEF Thinned, Sparse

\* A request is sent to a database or nowhere.
LEMMA FetchFromType ==
  ASSUME TypeOK
  PROVE  FetchFrom \in Database \cup {NoDatabase}
BY DEF FetchFrom, TypeOK

-----------------------------------------------------------------------------
(* The time steps of playback.                                              *)

\* The earliest of a set of times belongs to it, and no time of it is earlier.
LEMMA LeastIsMember ==
  ASSUME NEW S, S \subseteq Nat, S # {}
  PROVE  Least(S) \in S
<1>1. PICK t \in S : \A u \in S : <<u, t>> \notin OpToRel(<, Nat)
  BY NatLessThanWellFounded, WFMin
<1>2. \A u \in S : ~(u < t)
  BY <1>1 DEF OpToRel
<1>3. \E m \in S : \A u \in S : m <= u
  BY <1>2
<1> QED
  BY <1>3 DEF Least

\* The time of the next playback tick is a time or none.
LEMMA PlaybackTimeType ==
  /\ FirstTime \in Times
  /\ \A t : NextTime(t) \in Times
<1>1. FirstTime \in Times
  BY LeastIsMember, RayAssumption DEF FirstTime
<1>2. ASSUME NEW t PROVE NextTime(t) \in Times
  <2>1. CASE \E u \in Times : u > t
    <3> DEFINE Later == {u \in Times : u > t}
    <3>1. Later \subseteq Nat /\ Later # {}
      BY <2>1, RayAssumption
    <3>2. Least(Later) \in Later
      BY <3>1, LeastIsMember
    <3> QED
      BY <2>1, <3>2 DEF NextTime
  <2>2. CASE ~ \E u \in Times : u > t
    BY <1>1, <2>2 DEF NextTime
  <2> QED
    BY <2>1, <2>2
<1> QED
  BY <1>1, <1>2

-----------------------------------------------------------------------------
(* The methods that replace rays keep the types of what they replace.       *)

RaysTyped ==
  /\ detailGeneration \in 0..MaxDetailGen
  /\ baselineRays \subseteq Ray /\ detailRays \subseteq Ray /\ raypaths \subseteq Ray
  /\ shown \in [baselineBy : 0..MaxBaselineGen, detailBy : 0..MaxDetailGen,
                center : Times \cup {NoTime},
                clearedAt : 0..MaxBaselineGen, dismissedAt : 0..MaxDetailGen]

\* Clearing the raypaths keeps the types.
LEMMA ClearType ==
  ASSUME TypeOK, Clear
  PROVE  RaysTyped' /\ (baselineLoadGeneration \in 0..MaxBaselineGen)'
<1>1. baselineLoadGeneration' \in 0..MaxBaselineGen
  BY RayAssumption DEF Clear, TypeOK
<1>2. detailGeneration' \in 0..MaxDetailGen
  BY RayAssumption DEF Clear, TypeOK
<1> QED
  BY <1>1, <1>2 DEF Clear, TypeOK, RaysTyped

\* Dismissing the detail window keeps the types.
LEMMA ClearDetailType ==
  ASSUME TypeOK, ClearDetail
  PROVE  RaysTyped'
<1>1. detailGeneration' \in 0..MaxDetailGen
  BY RayAssumption DEF ClearDetail, TypeOK
<1> QED
  BY <1>1 DEF ClearDetail, TypeOK, RaysTyped

\* Replacing the baseline keeps the types.
LEMMA SetAllType ==
  ASSUME TypeOK, NEW rays, rays \subseteq Ray,
         NEW by \in 0..MaxBaselineGen, SetAll(rays, by)
  PROVE  RaysTyped'
<1>1. detailGeneration' \in 0..MaxDetailGen
  BY RayAssumption DEF SetAll, TypeOK
<1> QED
  BY <1>1 DEF SetAll, TypeOK, RaysTyped

\* Publishing a detail window keeps the types.
LEMMA PublishDetailType ==
  ASSUME TypeOK, NEW rays, rays \subseteq Ray, NEW w \in windows,
         PublishDetail(rays, w), UNCHANGED detailGeneration
  PROVE  RaysTyped'
<1>1. w.gen \in 0..MaxDetailGen /\ w.center \in Times
  BY RayAssumption DEF TypeOK, WindowFetch
<1> QED
  BY <1>1 DEF PublishDetail, TypeOK, RaysTyped

-----------------------------------------------------------------------------
(* Type correctness.                                                        *)

\* Every step keeps the types.
LEMMA TypeStep == TypeOK /\ [Next]_vars => TypeOK'
<1> SUFFICES ASSUME TypeOK, [Next]_vars PROVE TypeOK'
  OBVIOUS
<1> USE RayAssumption DEF TypeOK, Fetch, WindowFetch, rayVars, loadVars, connVars, timelineVars
<1>1. ASSUME NEW db \in Database, Connect(db) PROVE TypeOK'
  BY <1>1 DEF Connect
<1>2. ASSUME NEW db \in Database, PickDatabase(db) PROVE TypeOK'
  BY <1>2 DEF PickDatabase
<1>3. ASSUME NEW db \in Database, ApplyAndLoad(db) PROVE TypeOK'
  BY <1>3 DEF ApplyAndLoad
<1>4. ASSUME Disconnect PROVE TypeOK'
  BY <1>4, ClearType DEF Disconnect, RaysTyped
<1>5. ASSUME ApplyYml PROVE TypeOK'
  BY <1>5, ClearType, PlaybackTimeType DEF ApplyYml, RaysTyped
<1>6. ASSUME NEW t \in Times, SelectTime(t) PROVE TypeOK'
  BY <1>6, ClearDetailType DEF SelectTime, DetailEffect, RaysTyped
<1>7. ASSUME StartPlayback PROVE TypeOK'
  BY <1>7, ClearDetailType DEF StartPlayback, DetailEffect, RaysTyped
<1>8. ASSUME StopPlayback PROVE TypeOK'
  BY <1>8, ClearDetailType DEF StopPlayback, DetailEffect, RaysTyped
<1>9. ASSUME ClearAndLoadAll PROVE TypeOK'
  BY <1>9, ClearType DEF ClearAndLoadAll, RaysTyped
<1>10. ASSUME RetryLoadAll PROVE TypeOK'
  BY <1>10 DEF RetryLoadAll
<1>11. ASSUME StartRaypaths PROVE TypeOK'
  BY <1>11, FetchFromType DEF StartRaypaths, FetchFrom
<1>12. ASSUME RunDetailEffect PROVE TypeOK'
  BY <1>12, ClearDetailType DEF RunDetailEffect, DetailEffect, RaysTyped
<1>13. ASSUME PlaybackTick PROVE TypeOK'
  BY <1>13, PlaybackTimeType DEF PlaybackTick
<1>14. ASSUME PollConnection PROVE TypeOK'
  BY <1>14 DEF PollConnection
<1>15. ASSUME TimerFires PROVE TypeOK'
  BY <1>15, FetchFromType DEF TimerFires, FetchFrom
<1>16. ASSUME NEW l \in loads, BaselineArrives(l) PROVE TypeOK'
  <2>1. RaysTyped'
    <3>1. CASE ~IsBaselineLoadCurrent(l.gen)
      BY <1>16, <3>1 DEF BaselineArrives, RaysTyped
    <3>2. CASE IsBaselineLoadCurrent(l.gen)
      <4>1. PICK rays : rays \subseteq Ray /\ SetAll(rays, l.gen)
        BY <1>16, <3>2, SelectionIsSubset, ThinnedIsSubset DEF BaselineArrives, RaysIn
      <4> QED
        BY <4>1, SetAllType
    <3> QED
      BY <3>1, <3>2
  <2> QED
    BY <1>16, <2>1 DEF BaselineArrives, RaysTyped
<1>17. ASSUME NEW l \in loads, BaselineFails(l) PROVE TypeOK'
  <2>1. RaysTyped'
    <3>1. CASE ~(IsBaselineLoadCurrent(l.gen) /\ Thins)
      BY <1>17, <3>1 DEF BaselineFails, RaysTyped
    <3>2. CASE IsBaselineLoadCurrent(l.gen) /\ Thins
      <4>1. PICK rays : rays \subseteq Ray /\ SetAll(rays, l.gen)
        BY <1>17, <3>2, ThinnedIsSubset DEF BaselineFails
      <4> QED
        BY <4>1, SetAllType
    <3> QED
      BY <3>1, <3>2
  <2> QED
    BY <1>17, <2>1 DEF BaselineFails, RaysTyped
<1>18. ASSUME NEW w \in windows, DetailArrives(w) PROVE TypeOK'
  <2>1. RaysTyped'
    <3>1. CASE ~IsDetailCurrent(w.gen)
      BY <1>18, <3>1 DEF DetailArrives, RaysTyped
    <3>2. CASE IsDetailCurrent(w.gen)
      <4>1. PICK rays : rays \subseteq Ray /\ PublishDetail(rays, w)
        BY <1>18, <3>2, SelectionIsSubset DEF DetailArrives, Window, RaysIn, Novel
      <4> QED
        BY <1>18, <4>1, PublishDetailType DEF DetailArrives
    <3> QED
      BY <3>1, <3>2
  <2> QED
    BY <1>18, <2>1 DEF DetailArrives, RaysTyped
<1>19. ASSUME NEW w \in windows, DetailFails(w) PROVE TypeOK'
  <2>1. RaysTyped'
    <3>1. CASE ~IsDetailCurrent(w.gen)
      BY <1>19, <3>1 DEF DetailFails, RaysTyped
    <3>2. CASE IsDetailCurrent(w.gen)
      BY <1>19, <3>2, PublishDetailType DEF DetailFails
    <3> QED
      BY <3>1, <3>2
  <2> QED
    BY <1>19, <2>1 DEF DetailFails, RaysTyped
<1>20. ASSUME TimeInfoArrives PROVE TypeOK'
  BY <1>20, PlaybackTimeType DEF TimeInfoArrives
<1>21. CASE UNCHANGED vars
  BY <1>21 DEF vars
<1> QED
  BY <1>1, <1>2, <1>3, <1>4, <1>5, <1>6, <1>7, <1>8, <1>9, <1>10, <1>11, <1>12, <1>13, <1>14, <1>15, <1>16, <1>17, <1>18, <1>19, <1>20, <1>21
     DEF Next, User, Browser, Answers

-----------------------------------------------------------------------------
(* The safety invariants.                                                   *)

\* A new baseline on behalf of the load that is current: its generation is beyond
\* the last clear, and every detail request in flight becomes stale.
LEMMA SetAllInv ==
  ASSUME IInv, TypeOK', NEW rays, NEW l \in loads, IsBaselineLoadCurrent(l.gen),
         SetAll(rays, l.gen), loads' = loads \ {l},
         UNCHANGED <<connVars, uiConnected, loadVars, currentDatabase,
                     baselineLoadGeneration, windows, timelineVars, timer,
                     effectDue, timeInfoDue>>
  PROVE  IInv'
<1> USE DEF IInv, TypeOK, Fetch, WindowFetch, connVars, loadVars, timelineVars
<1>1. l.gen > shown.clearedAt
  BY DEF Generations, IsBaselineLoadCurrent
<1>2. /\ shown'.baselineBy = l.gen /\ shown'.clearedAt = shown.clearedAt
      /\ shown'.dismissedAt = detailGeneration'
  BY DEF SetAll
<1>3. \A w \in windows : w.gen < detailGeneration'
  BY DEF SetAll, Generations
<1>4. detailRays' = {} /\ baselineRays' = rays /\ raypaths' = rays
  BY DEF SetAll
<1>5. Generations'
  BY <1>2, <1>3 DEF Generations, SetAll
<1>6. NothingReappears' /\ PublishedUnion'
  BY <1>1, <1>2, <1>4 DEF NothingReappears, PublishedUnion
<1>7. PlaybackShowsBaseline' /\ DetailMatchesSelection'
  BY <1>3, <1>4 DEF PlaybackShowsBaseline, DetailMatchesSelection
<1>8. NoWindowOffline' /\ PursuesSelection'
  BY <1>3, <1>4 DEF NoWindowOffline, PursuesSelection
<1> QED
  BY <1>5, <1>6, <1>7, <1>8

\* Every step preserves the inductive invariant.
LEMMA InvStep == IInv /\ [Next]_vars => IInv'
<1> SUFFICES ASSUME IInv, [Next]_vars PROVE IInv'
  OBVIOUS
<1>0. TypeOK'
  BY TypeStep DEF IInv
<1> USE <1>0, RayAssumption DEF IInv, TypeOK, Fetch, WindowFetch, rayVars, loadVars, connVars, timelineVars
<1> USE DEF PublishedUnion, NothingReappears, PlaybackShowsBaseline, DetailMatchesSelection, DetailSettled, Generations, NoWindowOffline, PursuesSelection
<1>1. ASSUME NEW db \in Database, Connect(db) PROVE IInv'
  BY <1>1 DEF Connect
<1>2. ASSUME NEW db \in Database, PickDatabase(db) PROVE IInv'
  BY <1>2 DEF PickDatabase
<1>3. ASSUME NEW db \in Database, ApplyAndLoad(db) PROVE IInv'
  BY <1>3 DEF ApplyAndLoad
<1>4. ASSUME Disconnect PROVE IInv'
  BY <1>4 DEF Disconnect, Clear
<1>5. ASSUME ApplyYml PROVE IInv'
  <2>1. ~effectDue' => /\ ~effectDue
                      /\ selectedTimeIdx' = selectedTimeIdx
                      /\ isPlaying' = isPlaying
    BY <1>5 DEF ApplyYml
  <2>2. Clear /\ (isPlaying' => isPlaying)
    BY <1>5 DEF ApplyYml
  <2>3. UNCHANGED <<connected, clientDb, entityLoads, dbmDatabase, currentDatabase,
                    loads, windows, timer>>
    BY <1>5 DEF ApplyYml
  <2> QED
    BY <2>1, <2>2, <2>3 DEF Clear
<1>6. ASSUME NEW t \in Times, SelectTime(t) PROVE IInv'
  BY <1>6 DEF SelectTime, DetailEffect, ClearDetail
<1>7. ASSUME StartPlayback PROVE IInv'
  BY <1>7 DEF StartPlayback, DetailEffect, ClearDetail
<1>8. ASSUME StopPlayback PROVE IInv'
  BY <1>8 DEF StopPlayback, DetailEffect, ClearDetail
<1>9. ASSUME ClearAndLoadAll PROVE IInv'
  BY <1>9 DEF ClearAndLoadAll, Clear
<1>10. ASSUME RetryLoadAll PROVE IInv'
  BY <1>10 DEF RetryLoadAll
<1>11. ASSUME StartRaypaths PROVE IInv'
  BY <1>11 DEF StartRaypaths, FetchFrom
<1>12. ASSUME RunDetailEffect PROVE IInv'
  BY <1>12 DEF RunDetailEffect, DetailEffect, ClearDetail
<1>13. ASSUME PlaybackTick PROVE IInv'
  BY <1>13 DEF PlaybackTick
<1>14. ASSUME PollConnection PROVE IInv'
  BY <1>14 DEF PollConnection
<1>15. ASSUME TimerFires PROVE IInv'
  <2>1. CASE ~connected \/ currentDatabase = NoDatabase
    BY <1>15, <2>1 DEF TimerFires
  <2>2. CASE connected /\ currentDatabase # NoDatabase
    <3> DEFINE asked == [gen |-> detailGeneration', from |-> FetchFrom, center |-> timer]
    <3>1. /\ detailGeneration' = detailGeneration + 1
          /\ windows' = windows \cup {asked}
          /\ timer # NoTime /\ timer' = NoTime
          /\ UNCHANGED <<connected, clientDb, entityLoads, dbmDatabase, currentDatabase,
                         baselineLoadGeneration, loads, selectedTimeIdx, isPlaying,
                         effectDue, baselineRays, detailRays, raypaths, shown>>
      BY <1>15, <2>2 DEF TimerFires
    <3>2. asked.gen = detailGeneration + 1 /\ asked.center = timer
      BY <3>1
    <3>3. \A w \in windows : w.gen < detailGeneration'
      BY <3>1
    <3> HIDE DEF asked
    <3> QED
      BY <2>2, <3>1, <3>2, <3>3
  <2> QED
    BY <2>1, <2>2
<1>16. ASSUME NEW l \in loads, BaselineArrives(l) PROVE IInv'
  <2>1. CASE ~IsBaselineLoadCurrent(l.gen)
    BY <1>16, <2>1 DEF BaselineArrives
  <2>2. CASE IsBaselineLoadCurrent(l.gen)
    <3>1. PICK rays : SetAll(rays, l.gen)
      BY <1>16, <2>2 DEF BaselineArrives
    <3> QED
      BY <1>16, <2>2, <3>1, SetAllInv DEF BaselineArrives
  <2> QED
    BY <2>1, <2>2
<1>17. ASSUME NEW l \in loads, BaselineFails(l) PROVE IInv'
  <2>1. CASE ~(IsBaselineLoadCurrent(l.gen) /\ Thins)
    BY <1>17, <2>1 DEF BaselineFails
  <2>2. CASE IsBaselineLoadCurrent(l.gen) /\ Thins
    <3>1. PICK rays : SetAll(rays, l.gen)
      BY <1>17, <2>2 DEF BaselineFails
    <3> QED
      BY <1>17, <2>2, <3>1, SetAllInv DEF BaselineFails
  <2> QED
    BY <2>1, <2>2
<1>18. ASSUME NEW w \in windows, DetailArrives(w) PROVE IInv'
  <2>1. CASE ~IsDetailCurrent(w.gen)
    <3>1. UNCHANGED rayVars /\ windows' = windows \ {w}
      BY <1>18, <2>1 DEF DetailArrives
    <3>2. UNCHANGED <<connected, clientDb, entityLoads, dbmDatabase, currentDatabase,
                      baselineLoadGeneration, detailGeneration, loads,
                      selectedTimeIdx, isPlaying, timer, effectDue>>
      BY <1>18 DEF DetailArrives
    <3> QED
      BY <2>1, <3>1, <3>2 DEF IsDetailCurrent
  <2>2. CASE IsDetailCurrent(w.gen)
    <3>1. PICK rays : rays \cap baselineRays = {} /\ PublishDetail(rays, w)
      BY <1>18, <2>2, SelectionIsSubset DEF DetailArrives, Novel
    <3>2. connected /\ currentDatabase # NoDatabase /\ ~isPlaying
      BY <2>2 DEF IsDetailCurrent
    <3> QED
      BY <1>18, <2>2, <3>1, <3>2 DEF DetailArrives, PublishDetail, IsDetailCurrent
  <2> QED
    BY <2>1, <2>2
<1>19. ASSUME NEW w \in windows, DetailFails(w) PROVE IInv'
  BY <1>19 DEF DetailFails, PublishDetail, IsDetailCurrent
<1>20. ASSUME TimeInfoArrives PROVE IInv'
  BY <1>20 DEF TimeInfoArrives
<1>21. CASE UNCHANGED vars
  BY <1>21 DEF vars
<1> QED
  BY <1>1, <1>2, <1>3, <1>4, <1>5, <1>6, <1>7, <1>8, <1>9, <1>10, <1>11, <1>12, <1>13, <1>14, <1>15, <1>16, <1>17, <1>18, <1>19, <1>20, <1>21
     DEF Next, User, Browser, Answers

\* The inductive invariant holds initially.
LEMMA InvInit == Init => IInv
<1> SUFFICES ASSUME Init PROVE IInv
  OBVIOUS
<1> USE DEF Init
<1>1. clientDb \in Database \cup {NoDatabase}
  OBVIOUS
<1>2. shown \in [baselineBy : 0..MaxBaselineGen, detailBy : 0..MaxDetailGen,
                 center : Times \cup {NoTime},
                 clearedAt : 0..MaxBaselineGen, dismissedAt : 0..MaxDetailGen]
  BY RayAssumption
<1>3. TypeOK
  BY <1>1, <1>2, RayAssumption DEF TypeOK
<1>4. PublishedUnion /\ NothingReappears /\ PlaybackShowsBaseline
  BY DEF PublishedUnion, NothingReappears, PlaybackShowsBaseline
<1>5. DetailMatchesSelection /\ Generations /\ NoWindowOffline /\ PursuesSelection
  BY RayAssumption
     DEF DetailMatchesSelection, Generations, NoWindowOffline, PursuesSelection
<1> QED
  BY <1>3, <1>4, <1>5 DEF IInv

\* The inductive invariant holds throughout.
THEOREM Invariance == Spec => []IInv
  BY InvInit, InvStep, PTL DEF Spec

-----------------------------------------------------------------------------
(* What the runs check, for every value of the constants.                   *)

\* Every variable keeps its type, whatever the data and the bounds.
THEOREM TypeCorrect == Spec => []TypeOK
  BY Invariance, PTL DEF IInv

\* What the layers draw is always the baseline and the detail window side by side.
THEOREM PublishedCorrect == Spec => []PublishedUnion
  BY Invariance, PTL DEF IInv

\* An answer to a request older than a clear or a dismissal never brings rays back.
THEOREM StaleAnswersIgnored == Spec => []NothingReappears
  BY Invariance, PTL DEF IInv

\* No detail window is drawn or can still appear while playback runs.
THEOREM PlaybackUndisturbed == Spec => []PlaybackShowsBaseline
  BY Invariance, PTL DEF IInv

\* Once settled, a detail window is the one around the selected time.
THEOREM DetailFollowsSelection == Spec => []DetailMatchesSelection
  BY Invariance, PTL DEF IInv

-----------------------------------------------------------------------------
(* The refinement: every step is one of NewestWins or a stutter, for the      *)
(* baseline and for the detail window.                                        *)

\* No two requests in flight carry one generation.
OneEach ==
  /\ \A l, m \in loads : l.gen = m.gen => l = m
  /\ \A v, w \in windows : v.gen = w.gen => v = w

\* An answer takes the generation of its request away, and no other.
LEMMA GensWithout ==
  ASSUME NEW S, NEW q \in S, \A u, v \in S : u.gen = v.gen => u = v
  PROVE  Gens(S \ {q}) = Gens(S) \ {q.gen}
BY DEF Gens

\* A request adds its generation.
LEMMA GensWith ==
  ASSUME NEW S, NEW q
  PROVE  Gens(S \cup {q}) = Gens(S) \cup {q.gen}
BY DEF Gens

\* Requests are given generations no request in flight has.
LEMMA OneEachStep == IInv /\ OneEach /\ [Next]_vars => OneEach'
<1> SUFFICES ASSUME IInv, OneEach, [Next]_vars PROVE OneEach'
  OBVIOUS
<1> USE DEF OneEach
<1>1. ASSUME loads' \subseteq loads, windows' \subseteq windows PROVE OneEach'
  BY <1>1
<1>2. ASSUME StartRaypaths PROVE OneEach'
  <2>1. \A l \in loads : l.gen < baselineLoadGeneration'
    BY <1>2 DEF StartRaypaths, IInv, Generations, TypeOK, Fetch
  <2>2. PICK q : q.gen = baselineLoadGeneration' /\ loads' = loads \cup {q}
    BY <1>2 DEF StartRaypaths
  <2>3. windows' = windows
    BY <1>2 DEF StartRaypaths
  <2>4. \A l \in loads : l.gen # q.gen
    BY <2>1, <2>2 DEF IInv, TypeOK, Fetch
  <2> QED
    BY <2>2, <2>3, <2>4
<1>3. ASSUME TimerFires PROVE OneEach'
  <2>1. CASE windows' = windows
    BY <1>3, <2>1 DEF TimerFires
  <2>2. CASE windows' # windows
    <3>1. \A w \in windows : w.gen < detailGeneration'
      BY <1>3, <2>2 DEF TimerFires, IInv, Generations, TypeOK, WindowFetch
    <3>2. PICK q : q.gen = detailGeneration' /\ windows' = windows \cup {q}
      BY <1>3, <2>2 DEF TimerFires
    <3>3. loads' = loads
      BY <1>3 DEF TimerFires
    <3>4. \A w \in windows : w.gen # q.gen
      BY <3>1, <3>2 DEF IInv, TypeOK, WindowFetch
    <3> QED
      BY <3>2, <3>3, <3>4
  <2> QED
    BY <2>1, <2>2
<1>4. CASE UNCHANGED vars
  BY <1>4, <1>1 DEF vars
<1>5. ASSUME NEW db \in Database, Connect(db) \/ PickDatabase(db) \/ ApplyAndLoad(db) PROVE OneEach'
  BY <1>5, <1>1 DEF Connect, PickDatabase, ApplyAndLoad
<1>6. ASSUME Disconnect \/ ApplyYml \/ ClearAndLoadAll \/ RetryLoadAll PROVE OneEach'
  BY <1>6, <1>1 DEF Disconnect, ApplyYml, ClearAndLoadAll, RetryLoadAll
<1>7. ASSUME RunDetailEffect \/ PlaybackTick \/ PollConnection \/ TimeInfoArrives PROVE OneEach'
  BY <1>7, <1>1 DEF RunDetailEffect, PlaybackTick, PollConnection, TimeInfoArrives
<1>8. ASSUME StartPlayback \/ StopPlayback \/ \E t \in Times : SelectTime(t) PROVE OneEach'
  BY <1>8, <1>1 DEF StartPlayback, StopPlayback, SelectTime
<1>9. ASSUME NEW l \in loads, BaselineArrives(l) \/ BaselineFails(l) PROVE OneEach'
  BY <1>9, <1>1 DEF BaselineArrives, BaselineFails
<1>10. ASSUME NEW w \in windows, DetailArrives(w) \/ DetailFails(w) PROVE OneEach'
  BY <1>10, <1>1 DEF DetailArrives, DetailFails
<1> QED
  BY <1>2, <1>3, <1>4, <1>5, <1>6, <1>7, <1>8, <1>9, <1>10 DEF Next, User, Browser, Answers

\* Every step is a step of the baseline's place or a stutter of it.
LEMMA BaselineStep == IInv /\ OneEach /\ [Next]_vars => [Baseline!Next]_(Baseline!vars)
<1> SUFFICES ASSUME IInv, OneEach, [Next]_vars PROVE [Baseline!Next]_(Baseline!vars)
  OBVIOUS
<1> DEFINE Showing == IF baselineRays = {} THEN 0 ELSE shown.baselineBy
<1>1. ASSUME UNCHANGED <<baselineLoadGeneration, loads, Showing>> PROVE UNCHANGED Baseline!vars
  BY <1>1 DEF Baseline!vars
<1>2. ASSUME Clear, UNCHANGED loads PROVE Baseline!Next
  BY <1>2 DEF Clear, Baseline!Next, Baseline!Dismiss
<1>3. ASSUME ClearDetail \/ UNCHANGED rayVars, UNCHANGED <<baselineLoadGeneration, loads>>
      PROVE UNCHANGED Baseline!vars
  <2>1. baselineRays' = baselineRays /\ shown'.baselineBy = shown.baselineBy
    BY <1>3 DEF ClearDetail, rayVars, IInv, TypeOK
  <2> QED
    BY <1>1, <1>3, <2>1
<1>4. ASSUME StartRaypaths PROVE Baseline!Next
  <2>1. PICK q : q.gen = baselineLoadGeneration' /\ loads' = loads \cup {q}
    BY <1>4 DEF StartRaypaths
  <2>2. Gens(loads') = Gens(loads) \cup {baselineLoadGeneration'}
    BY <2>1, GensWith
  <2>3. UNCHANGED Showing
    BY <1>4 DEF StartRaypaths, rayVars
  <2>4. baselineLoadGeneration' = baselineLoadGeneration + 1
    BY <1>4 DEF StartRaypaths
  <2> QED
    BY <2>2, <2>3, <2>4 DEF Baseline!Next, Baseline!Ask, Gens
<1>5. ASSUME NEW l \in loads, BaselineArrives(l) \/ BaselineFails(l) PROVE Baseline!Next
  <2>1. loads' = loads \ {l} /\ UNCHANGED baselineLoadGeneration
    BY <1>5 DEF BaselineArrives, BaselineFails
  <2>2. Gens(loads') = Gens(loads) \ {l.gen} /\ l.gen \in Gens(loads)
    BY <2>1, GensWithout DEF OneEach, Gens
  <2>3. \/ UNCHANGED rayVars
        \/ l.gen = baselineLoadGeneration /\ \E rays : SetAll(rays, l.gen)
    BY <1>5 DEF BaselineArrives, BaselineFails, IsBaselineLoadCurrent
  <2>4. Showing' \in IF l.gen = baselineLoadGeneration THEN {l.gen, 0, Showing} ELSE {Showing}
    <3>1. CASE UNCHANGED rayVars
      BY <3>1 DEF rayVars
    <3>2. CASE l.gen = baselineLoadGeneration /\ \E rays : SetAll(rays, l.gen)
      BY <3>2 DEF SetAll, IInv, TypeOK
    <3> QED
      BY <2>3, <3>1, <3>2
  <2>5. Baseline!Answer(l.gen)
    BY <2>1, <2>2, <2>4 DEF Baseline!Answer, Gens
  <2> QED
    BY <2>2, <2>5 DEF Baseline!Next
<1>6. CASE UNCHANGED vars
  BY <1>1, <1>6 DEF vars, rayVars
<1>7. ASSUME NEW db \in Database, Connect(db) \/ PickDatabase(db) \/ ApplyAndLoad(db)
      PROVE UNCHANGED Baseline!vars
  BY <1>3, <1>7 DEF Connect, PickDatabase, ApplyAndLoad
<1>8. ASSUME Disconnect \/ ApplyYml \/ ClearAndLoadAll PROVE Baseline!Next
  BY <1>2, <1>8 DEF Disconnect, ApplyYml, ClearAndLoadAll
<1>9. ASSUME RetryLoadAll \/ PlaybackTick \/ PollConnection \/ TimeInfoArrives \/ TimerFires
      PROVE UNCHANGED Baseline!vars
  BY <1>3, <1>9 DEF RetryLoadAll, PlaybackTick, PollConnection, TimeInfoArrives, TimerFires
<1>10. ASSUME RunDetailEffect \/ StartPlayback \/ StopPlayback \/ \E t \in Times : SelectTime(t)
       PROVE UNCHANGED Baseline!vars
  BY <1>3, <1>10 DEF RunDetailEffect, StartPlayback, StopPlayback, SelectTime, DetailEffect, rayVars
<1>11. ASSUME NEW w \in windows, DetailArrives(w) \/ DetailFails(w) PROVE UNCHANGED Baseline!vars
  <2>1. UNCHANGED <<baselineLoadGeneration, loads, baselineRays>>
    BY <1>11 DEF DetailArrives, DetailFails, PublishDetail, rayVars
  <2>2. shown'.baselineBy = shown.baselineBy
    BY <1>11 DEF DetailArrives, DetailFails, PublishDetail, rayVars, IInv, TypeOK
  <2> QED
    BY <1>1, <2>1, <2>2
<1> QED
  BY <1>4, <1>5, <1>6, <1>7, <1>8, <1>9, <1>10, <1>11 DEF Next, User, Browser, Answers

\* Every step is a step of the detail window's place or a stutter of it.
LEMMA DetailStep == IInv /\ OneEach /\ [Next]_vars => [Detail!Next]_(Detail!vars)
<1> SUFFICES ASSUME IInv, OneEach, [Next]_vars PROVE [Detail!Next]_(Detail!vars)
  OBVIOUS
<1> DEFINE Showing == IF detailRays = {} THEN 0 ELSE shown.detailBy
<1>1. ASSUME UNCHANGED <<detailGeneration, windows, rayVars>> PROVE UNCHANGED Detail!vars
  BY <1>1 DEF Detail!vars, rayVars
<1>2. ASSUME Clear \/ ClearDetail, UNCHANGED windows PROVE Detail!Next
  BY <1>2 DEF Clear, ClearDetail, Detail!Next, Detail!Dismiss
<1>3. ASSUME TimerFires PROVE [Detail!Next]_(Detail!vars)
  <2>1. CASE UNCHANGED <<detailGeneration, windows>>
    BY <1>1, <1>3, <2>1 DEF TimerFires
  <2>2. CASE ~UNCHANGED <<detailGeneration, windows>>
    <3>1. PICK q : q.gen = detailGeneration' /\ windows' = windows \cup {q}
      BY <1>3, <2>2 DEF TimerFires
    <3>2. Gens(windows') = Gens(windows) \cup {detailGeneration'}
      BY <3>1, GensWith
    <3>3. UNCHANGED Showing
      BY <1>3 DEF TimerFires, rayVars
    <3>4. detailGeneration' = detailGeneration + 1
      BY <1>3, <2>2 DEF TimerFires
    <3> QED
      BY <3>2, <3>3, <3>4 DEF Detail!Next, Detail!Ask, Gens
  <2> QED
    BY <2>1, <2>2
<1>4. ASSUME NEW l \in loads, BaselineArrives(l) \/ BaselineFails(l) PROVE [Detail!Next]_(Detail!vars)
  <2>1. UNCHANGED windows
    BY <1>4 DEF BaselineArrives, BaselineFails
  <2>2. CASE UNCHANGED <<detailGeneration, rayVars>>
    BY <1>1, <2>1, <2>2
  <2>3. CASE \E rays : SetAll(rays, l.gen)
    BY <2>1, <2>3 DEF SetAll, Detail!Next, Detail!Dismiss
  <2> QED
    BY <1>4, <2>2, <2>3 DEF BaselineArrives, BaselineFails
<1>5. ASSUME NEW w \in windows, DetailArrives(w) \/ DetailFails(w) PROVE Detail!Next
  <2>1. windows' = windows \ {w} /\ UNCHANGED detailGeneration
    BY <1>5 DEF DetailArrives, DetailFails
  <2>2. Gens(windows') = Gens(windows) \ {w.gen} /\ w.gen \in Gens(windows)
    BY <2>1, GensWithout DEF OneEach, Gens
  <2>3. \/ UNCHANGED rayVars
        \/ w.gen = detailGeneration /\ \E rays : PublishDetail(rays, w)
    BY <1>5 DEF DetailArrives, DetailFails, IsDetailCurrent
  <2>4. Showing' \in IF w.gen = detailGeneration THEN {w.gen, 0, Showing} ELSE {Showing}
    <3>1. CASE UNCHANGED rayVars
      BY <3>1 DEF rayVars
    <3>2. CASE w.gen = detailGeneration /\ \E rays : PublishDetail(rays, w)
      BY <3>2 DEF PublishDetail, IInv, TypeOK
    <3> QED
      BY <2>3, <3>1, <3>2
  <2>5. Detail!Answer(w.gen)
    BY <2>1, <2>2, <2>4 DEF Detail!Answer, Gens
  <2> QED
    BY <2>2, <2>5 DEF Detail!Next
<1>6. CASE UNCHANGED vars
  BY <1>1, <1>6 DEF vars, rayVars
<1>7. ASSUME NEW db \in Database, Connect(db) \/ PickDatabase(db) \/ ApplyAndLoad(db)
      PROVE UNCHANGED Detail!vars
  BY <1>1, <1>7 DEF Connect, PickDatabase, ApplyAndLoad
<1>8. ASSUME Disconnect \/ ApplyYml \/ ClearAndLoadAll PROVE Detail!Next
  BY <1>2, <1>8 DEF Disconnect, ApplyYml, ClearAndLoadAll
<1>9. ASSUME RetryLoadAll \/ StartRaypaths \/ PlaybackTick \/ PollConnection \/ TimeInfoArrives
      PROVE UNCHANGED Detail!vars
  BY <1>1, <1>9 DEF RetryLoadAll, StartRaypaths, PlaybackTick, PollConnection, TimeInfoArrives
<1>10. ASSUME RunDetailEffect \/ StartPlayback \/ StopPlayback \/ \E t \in Times : SelectTime(t)
       PROVE [Detail!Next]_(Detail!vars)
  BY <1>1, <1>2, <1>10 DEF RunDetailEffect, StartPlayback, StopPlayback, SelectTime, DetailEffect
<1> QED
  BY <1>3, <1>4, <1>5, <1>6, <1>7, <1>8, <1>9, <1>10 DEF Next, User, Browser, Answers

\* The two kinds of requests have a generation each, throughout.
LEMMA OneEachHolds == Spec => []OneEach
<1>1. Init => OneEach
  BY DEF Init, OneEach
<1> QED
  BY <1>1, OneEachStep, Invariance, PTL DEF Spec

\* The baseline is a place the newest request wins, whatever the data and the bounds.
THEOREM BaselineRefines == Spec => BaselineIsNewest
<1>1. Init => Baseline!Init
  BY DEF Init, Baseline!Init, Gens
<1> QED
  BY <1>1, BaselineStep, OneEachHolds, Invariance, PTL DEF Spec, BaselineIsNewest, Baseline!Spec

\* The detail window is another.
THEOREM DetailRefines == Spec => DetailIsNewest
<1>1. Init => Detail!Init
  BY DEF Init, Detail!Init, Gens
<1> QED
  BY <1>1, DetailStep, OneEachHolds, Invariance, PTL DEF Spec, DetailIsNewest, Detail!Spec

-----------------------------------------------------------------------------
(* RayScreen: the manager does what it did, and screen, panel and storage     *)
(* follow.                                                                    *)

\* The strongest of some rays is one of them, since the powers of rays are bounded.
LEMMA StrongestIsMaximum ==
  ASSUME NEW rays, rays \subseteq Ray, rays # {}
  PROVE  /\ \E q \in rays : Strongest(rays) = Power[q]
         /\ \A r \in rays : Power[r] <= Strongest(rays)
<1>1. PICK top \in Nat : Power \in [Ray -> Nat] /\ \A r \in Ray : Power[r] <= top
  BY ScreenAssumption
<1> DEFINE Above == {n \in Nat : \A r \in rays : Power[r] <= n}
<1>2. Above \subseteq Nat /\ Above # {}
  BY <1>1
<1>3. PICK n \in Above : \A m \in Above : <<m, n>> \notin OpToRel(<, Nat)
  <2> HIDE DEF Above
  <2> QED
    BY <1>2, NatLessThanWellFounded, WFMin
<1>4. \A m \in Above : ~(m < n)
  BY <1>2, <1>3 DEF OpToRel
<1>5. \E q \in rays : Power[q] = n
  <2> SUFFICES ASSUME \A q \in rays : Power[q] # n PROVE FALSE
    OBVIOUS
  <2>1. \A q \in rays : Power[q] \in Nat /\ Power[q] < n
    BY <1>1
  <2>2. n - 1 \in Above
    BY <2>1
  <2> QED
    BY <1>4, <2>2
<1>6. \E p \in {Power[r] : r \in rays} : \A r \in rays : Power[r] <= p
  BY <1>5
<1> QED
  BY <1>6 DEF Strongest

\* The filters are filters.
FiltersTyped ==
  /\ filters \in Filters
  /\ stored \in [Database \cup {NoDatabase} -> Filters \cup {NoFilters}]

\* The layer has an entity for each published ray, and remembers the greatest power.
LayerDraws ==
  /\ isVisible = rayPathsVisible
  /\ maxDynamicRange \in Nat
  /\ DOMAIN drawn = IF viewer THEN raypaths ELSE {}
  /\ \A r \in DOMAIN drawn : drawn[r] = isVisible
  /\ viewer /\ raypaths # {} => maxPower = Strongest(raypaths)

ScreenInv == FiltersTyped /\ PanelIsCurrent /\ ShownAsRemembered /\ LayerDraws

\* What the panel offers are units, and what is loaded are filters.
LEMMA AvailableUnits ==
  ASSUME NEW rays, rays \subseteq Ray, NEW kind \in FilterKind
  PROVE  Available(kind, rays) \subseteq Unit
BY ScreenAssumption DEF Available

LEMMA LoadedTyped ==
  ASSUME FiltersTyped, NEW rays, rays \subseteq Ray, NEW db \in Database \cup {NoDatabase}
  PROVE  LoadFilters(db, rays) \in Filters
BY AvailableUnits DEF LoadFilters, FiltersTyped, Filters

\* A step of the composition is one of the manager's, or none.
LEMMA ScreenStep == [ScreenNext]_<<vars, screenVars>> => [Next]_vars
<1>1. ASSUME ManagerStep PROVE Next
  BY <1>1 DEF ManagerStep, Next, User, Browser, Answers
<1>2. ASSUME Click PROVE UNCHANGED vars
  BY <1>2 DEF Click
<1>3. ASSUME ViewerReady PROVE UNCHANGED vars
  BY <1>3 DEF ViewerReady
<1> QED
  BY <1>1, <1>2, <1>3
     DEF ScreenNext, ToggleUnit, ToggleAll, TogglePanel, ToggleRayPathsVisible, SetDynamicRange

\* A setter of the filters leaves panel and storage with what it set.
LEMMA SetFiltersInv ==
  ASSUME ScreenInv, NEW kind \in FilterKind, NEW f \in [all : BOOLEAN, enabled : SUBSET Unit],
         currentDatabase \in Database \cup {NoDatabase},
         SetFilters(kind, f), UNCHANGED <<vars, layerVars, misfiled>>
  PROVE  ScreenInv'
<1>1. filters' \in Filters
  BY DEF SetFilters, ScreenInv, FiltersTyped, Filters
<1>2. FiltersTyped'
  BY <1>1 DEF SetFilters, ScreenInv, FiltersTyped
<1>3. PanelIsCurrent'
  BY DEF SetFilters, PanelHears, ScreenInv, PanelIsCurrent, vars, PanelState
<1>4. stored'[currentDatabase'] = filters' /\ filters' # NoFilters
  BY <1>1, SessionAssumption DEF SetFilters, ScreenInv, FiltersTyped, vars
<1>5. ShownAsRemembered'
  BY <1>4 DEF ShownAsRemembered, LoadFilters
<1>6. LayerDraws'
  BY DEF ScreenInv, LayerDraws, layerVars, vars, Strongest
<1> QED
  BY <1>2, <1>3, <1>5, <1>6 DEF ScreenInv

\* After a publication panel, layer and filters are those of the rays published.
LEMMA PublishesInv ==
  ASSUME ScreenInv, raypaths' \subseteq Ray, currentDatabase \in Database \cup {NoDatabase},
         currentDatabase' = currentDatabase, Publishes
  PROVE  ScreenInv'
<1>1. FiltersTyped'
  <2>1. LoadFilters(currentDatabase, raypaths') \in Filters
    BY LoadedTyped DEF ScreenInv
  <2> QED
    BY <2>1 DEF Publishes, ScreenInv, FiltersTyped
<1>2. PanelIsCurrent'
  BY DEF Publishes, PanelHears, PanelIsCurrent, PanelState
<1>3. ShownAsRemembered'
  BY DEF Publishes, ShownAsRemembered, LoadFilters
<1>4. LayerDraws'
  BY DEF Publishes, LayerHears, Visualize, ScreenInv, LayerDraws, Strongest
<1> QED
  BY <1>1, <1>2, <1>3, <1>4 DEF ScreenInv

LEMMA ClearsInv ==
  ASSUME ScreenInv, raypaths' = {}, Clears
  PROVE  ScreenInv'
<1>1. PanelIsCurrent'
  BY DEF Clears, PanelHears, PanelIsCurrent, PanelState
<1>2. LayerDraws'
  BY DEF Clears, LayerHears, Visualize, ScreenInv, LayerDraws
<1> QED
  BY <1>1, <1>2 DEF Clears, ScreenInv, FiltersTyped, ShownAsRemembered

\* Rays, current database and screen unchanged, the invariant is.
LEMMA QuietInv ==
  ASSUME ScreenInv, raypaths' = raypaths, currentDatabase' = currentDatabase,
         UNCHANGED screenVars
  PROVE  ScreenInv'
<1> USE DEF screenVars, filterVars, layerVars
<1>1. PanelIsCurrent'
  BY DEF ScreenInv, PanelIsCurrent, PanelState
<1>2. ShownAsRemembered'
  BY DEF ScreenInv, ShownAsRemembered, LoadFilters
<1>3. LayerDraws'
  BY DEF ScreenInv, LayerDraws, Strongest
<1> QED
  BY <1>1, <1>2, <1>3 DEF ScreenInv, FiltersTyped

\* What the manager publishes, forgets and leaves alone, action by action.
LEMMA ManagerStepInv ==
  ASSUME TypeOK, TypeOK', ScreenInv, ManagerStep
  PROVE  ScreenInv'
<1>1. raypaths' \subseteq Ray /\ currentDatabase \in Database \cup {NoDatabase}
  BY DEF TypeOK
<1>2. CASE (Disconnect \/ ApplyYml \/ (ClearAndLoadAll /\ Ready)) /\ Clears
  BY <1>2, ClearsInv DEF Disconnect, ApplyYml, ClearAndLoadAll, Clear
<1>3. CASE StartRaypaths /\ Renames
  <2> USE DEF StartRaypaths, Renames, filterVars, layerVars, rayVars
  <2>1. PanelIsCurrent'
    BY <1>3 DEF ScreenInv, PanelIsCurrent, PanelState
  <2>2. ShownAsRemembered'
    BY <1>3 DEF ScreenInv, ShownAsRemembered, LoadFilters
  <2>3. LayerDraws'
    BY <1>3 DEF ScreenInv, LayerDraws, Strongest
  <2> QED
    BY <1>3, <2>1, <2>2, <2>3 DEF ScreenInv, FiltersTyped
<1>4. ASSUME NEW l \in loads,
             \/ BaselineArrives(l) /\ PublishesIf(IsBaselineLoadCurrent(l.gen))
             \/ BaselineFails(l) /\ PublishesIf(IsBaselineLoadCurrent(l.gen) /\ Thins)
      PROVE  ScreenInv'
  <2>1. currentDatabase' = currentDatabase
    BY <1>4 DEF BaselineArrives, BaselineFails
  <2>2. CASE Publishes
    BY <1>1, <2>1, <2>2, PublishesInv
  <2>3. CASE UNCHANGED screenVars /\ raypaths' = raypaths
    BY <2>1, <2>3, QuietInv
  <2> QED
    BY <1>4, <2>2, <2>3 DEF BaselineArrives, BaselineFails, PublishesIf, rayVars
<1>5. ASSUME NEW w \in windows,
             (DetailArrives(w) \/ DetailFails(w)) /\ PublishesIf(IsDetailCurrent(w.gen))
      PROVE  ScreenInv'
  <2>1. currentDatabase' = currentDatabase
    BY <1>5 DEF DetailArrives, DetailFails
  <2>2. CASE Publishes
    BY <1>1, <2>1, <2>2, PublishesInv
  <2>3. CASE UNCHANGED screenVars /\ raypaths' = raypaths
    BY <2>1, <2>3, QuietInv
  <2> QED
    BY <1>5, <2>2, <2>3 DEF DetailArrives, DetailFails, PublishesIf, rayVars
<1>6. CASE /\ RunDetailEffect \/ StartPlayback \/ StopPlayback \/ \E t \in Times : SelectTime(t)
           /\ PublishesIf(detailRays # {} /\ detailRays' = {})
  <2>1. currentDatabase' = currentDatabase
    BY <1>6 DEF RunDetailEffect, StartPlayback, StopPlayback, SelectTime
  <2>2. CASE Publishes
    BY <1>1, <2>1, <2>2, PublishesInv
  <2>3. CASE UNCHANGED screenVars /\ ~(detailRays # {} /\ detailRays' = {})
    <3>1. raypaths' = raypaths
      BY <1>6, <2>3
         DEF RunDetailEffect, StartPlayback, StopPlayback, SelectTime, DetailEffect, ClearDetail, rayVars
    <3> QED
      BY <2>1, <2>3, <3>1, QuietInv
  <2> QED
    BY <1>6, <2>2, <2>3 DEF PublishesIf
<1>7. CASE /\ \/ \E db \in Database : Connect(db) \/ PickDatabase(db) \/ ApplyAndLoad(db)
              \/ RetryLoadAll /\ Ready
              \/ PlaybackTick \/ PollConnection \/ TimerFires \/ TimeInfoArrives
           /\ UNCHANGED screenVars
  <2>1. raypaths' = raypaths /\ currentDatabase' = currentDatabase
    BY <1>7 DEF Connect, PickDatabase, ApplyAndLoad, RetryLoadAll, PlaybackTick, PollConnection,
                TimerFires, TimeInfoArrives, rayVars
  <2> QED
    BY <1>7, <2>1, QuietInv
<1> QED
  BY <1>2, <1>3, <1>4, <1>5, <1>6, <1>7 DEF ManagerStep

LEMMA ScreenInvStep ==
  ASSUME TypeOK, TypeOK', ScreenInv, [ScreenNext]_<<vars, screenVars>>
  PROVE  ScreenInv'
<1>1. CASE ManagerStep
  BY <1>1, ManagerStepInv
<1>2. ASSUME NEW kind \in FilterKind, NEW u \in Unit, ToggleUnit(kind, u)
      PROVE  ScreenInv'
  <2> DEFINE single == IF filters[kind].all THEN Available(kind, raypaths)
                                            ELSE filters[kind].enabled
             enabled == ~IsEnabled(kind, u)
             f == [all |-> FALSE, enabled |-> IF enabled THEN single \cup {u} ELSE single \ {u}]
  <2>1. single \subseteq Unit
    BY AvailableUnits DEF TypeOK, ScreenInv, FiltersTyped, Filters
  <2>2. f \in [all : BOOLEAN, enabled : SUBSET Unit]
    BY <2>1
  <2>3. SetFilters(kind, f) /\ UNCHANGED <<vars, layerVars, misfiled>>
    BY <1>2 DEF ToggleUnit, SetFilter, Click
  <2> HIDE DEF f
  <2> QED
    BY <2>2, <2>3, SetFiltersInv DEF TypeOK
<1>3. ASSUME NEW kind \in FilterKind, ToggleAll(kind)
      PROVE  ScreenInv'
  <2>1. PICK all \in BOOLEAN :
          SetFilters(kind, [all |-> all, enabled |-> IF all THEN Available(kind, raypaths) ELSE {}])
    BY <1>3 DEF ToggleAll, SetAllEnabled
  <2> DEFINE f == [all |-> all, enabled |-> IF all THEN Available(kind, raypaths) ELSE {}]
  <2>2. f \in [all : BOOLEAN, enabled : SUBSET Unit]
    BY AvailableUnits DEF TypeOK
  <2>3. UNCHANGED <<vars, layerVars, misfiled>>
    BY <1>3 DEF ToggleAll, Click
  <2>4. SetFilters(kind, f)
    BY <2>1
  <2> HIDE DEF f
  <2> QED
    BY <2>2, <2>3, <2>4, SetFiltersInv DEF TypeOK
<1>4. CASE TogglePanel
  <2> USE DEF TogglePanel, Click, vars, layerVars
  <2>1. PanelIsCurrent'
    BY <1>4 DEF ScreenInv, PanelIsCurrent, PanelState
  <2>2. ShownAsRemembered'
    BY <1>4 DEF ScreenInv, ShownAsRemembered, LoadFilters
  <2>3. LayerDraws'
    BY <1>4 DEF ScreenInv, LayerDraws, Strongest
  <2> QED
    BY <1>4, <2>1, <2>2, <2>3 DEF ScreenInv, FiltersTyped
<1>5. CASE ToggleRayPathsVisible \/ \E range \in DynamicRange : SetDynamicRange(range)
  <2> USE DEF ToggleRayPathsVisible, SetDynamicRange, SetVisibility, Click, vars, filterVars
  <2>1. PanelIsCurrent'
    BY <1>5 DEF ScreenInv, PanelIsCurrent, PanelState
  <2>2. ShownAsRemembered'
    BY <1>5 DEF ScreenInv, ShownAsRemembered, LoadFilters
  <2>3. LayerDraws'
    <3>1. DynamicRange \subseteq Nat
      BY ScreenAssumption
    <3> QED
      BY <1>5, <3>1 DEF ScreenInv, LayerDraws, Strongest
  <2> QED
    BY <1>5, <2>1, <2>2, <2>3 DEF ScreenInv, FiltersTyped
<1>6. CASE ViewerReady
  <2> USE DEF ViewerReady, vars, filterVars
  <2>1. PanelIsCurrent'
    BY <1>6 DEF ScreenInv, PanelIsCurrent, PanelState
  <2>2. ShownAsRemembered'
    BY <1>6 DEF ScreenInv, ShownAsRemembered, LoadFilters
  <2>3. LayerDraws'
    BY <1>6 DEF ScreenInv, LayerDraws, Strongest, Visualize
  <2> QED
    BY <1>6, <2>1, <2>2, <2>3 DEF ScreenInv, FiltersTyped
<1>7. CASE UNCHANGED <<vars, screenVars>>
  BY <1>7, QuietInv DEF vars
<1> QED
  BY <1>1, <1>2, <1>3, <1>4, <1>5, <1>6, <1>7 DEF ScreenNext

LEMMA ScreenInvInit == ScreenInit => ScreenInv
<1> SUFFICES ASSUME ScreenInit PROVE ScreenInv
  OBVIOUS
<1>1. FiltersTyped
  BY SessionAssumption DEF ScreenInit, FiltersTyped, Filters
<1>2. PanelIsCurrent /\ ShownAsRemembered
  BY DEF ScreenInit, Init, PanelIsCurrent, ShownAsRemembered
<1>3. LayerDraws
  <2>1. DynamicRange \subseteq Nat
    BY ScreenAssumption
  <2> QED
    BY <2>1, SessionAssumption DEF ScreenInit, Init, LayerDraws
<1> QED
  BY <1>1, <1>2, <1>3 DEF ScreenInv

\* With screen, panel and storage beside it the manager behaves as it does alone, so that
\* every theorem above holds of the composition.
THEOREM ScreenImplements == ScreenSpec => Spec
<1>1. ScreenInit => Init
  BY DEF ScreenInit
<1> QED
  BY <1>1, ScreenStep, PTL DEF ScreenSpec, Spec

\* The screen, the panel and the storage follow the manager.
THEOREM ScreenInvariance == ScreenSpec => []ScreenInv
<1>1. Spec => []TypeOK
  BY TypeCorrect
<1>2. ScreenInv /\ TypeOK /\ TypeOK' /\ [ScreenNext]_<<vars, screenVars>> => ScreenInv'
  BY ScreenInvStep
<1> QED
  BY <1>1, <1>2, ScreenInvInit, ScreenImplements, PTL DEF ScreenSpec

\* Before filters the layer shows exactly the published rays within the range of the
\* strongest, and none with the switch off, for any rays and order of events.
THEOREM LayerCorrect == ScreenSpec => []LayerShowsPublished
<1>1. TypeOK /\ ScreenInv => LayerShowsPublished
  <2> SUFFICES ASSUME TypeOK, ScreenInv, viewer
               PROVE  Shown = {r \in raypaths :
                          /\ rayPathsVisible
                          /\ \A q \in raypaths : Power[r] >= Power[q] - maxDynamicRange}
    BY DEF LayerShowsPublished
  <2>1. DOMAIN drawn = raypaths /\ \A r \in raypaths : drawn[r] = rayPathsVisible
    BY DEF ScreenInv, LayerDraws
  <2>2. CASE raypaths = {}
    BY <2>1, <2>2 DEF Shown
  <2>3. CASE raypaths # {}
    <3>1. maxPower = Strongest(raypaths) /\ maxDynamicRange \in Nat
      BY <2>3 DEF ScreenInv, LayerDraws
    <3>2. PICK top \in raypaths : maxPower = Power[top]
      BY <2>3, <3>1, StrongestIsMaximum DEF TypeOK
    <3>3. \A r \in raypaths : Power[r] <= maxPower
      BY <2>3, <3>1, StrongestIsMaximum DEF TypeOK
    <3>4. \A r \in raypaths : Power[r] \in Nat
      BY ScreenAssumption DEF TypeOK
    <3>5. ASSUME NEW r \in raypaths
          PROVE  Power[r] >= maxPower - maxDynamicRange
                   <=> \A q \in raypaths : Power[r] >= Power[q] - maxDynamicRange
      BY <3>1, <3>2, <3>3, <3>4
    <3> QED
      BY <2>1, <3>5 DEF Shown
  <2> QED
    BY <2>2, <2>3
<1> QED
  BY <1>1, ScreenInvariance, ScreenImplements, TypeCorrect, PTL

\* Panel, manager and storage agree on the filters.
THEOREM FiltersCorrect == ScreenSpec => []FiltersAgree
<1>1. ScreenInv => FiltersAgree
  BY DEF ScreenInv, FiltersAgree
<1> QED
  BY <1>1, ScreenInvariance, PTL
=============================================================================
