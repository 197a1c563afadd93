------------------------ MODULE DatabaseLoadProofs ------------------------
(***************************************************************************)
(* Proofs about DatabaseLoad: whatever the databases, the tables and the   *)
(* loads that interleave, one that nothing interfered with shows its       *)
(* database only.  The invariant says why: such a load is the only one     *)
(* running, and the current database is still its own.                     *)
(***************************************************************************)
EXTENDS DatabaseLoad, TLAPS

\* What holds for a load that runs undisturbed.
Sound(m) ==
    /\ load[m].sim = current
    /\ load[m].phase \in Table \cup {"other name"} => load[m].asked = load[m].sim
    /\ load[m].phase # "apply" =>
          /\ \A k \in Kind : store[k] \in {load[m].sim, Nothing}
          /\ store["rus"] # Nothing => ruPanel = store["panels"]
    /\ load[m].phase \in {"wait", "scenario", "panels", "rus"} => store["rus"] = Nothing

Undisturbed(m) == Running(m) /\ m \notin disturbed

IInv ==
    /\ TypeOK
    /\ \A m \in Load : Undisturbed(m) =>
          Sound(m) /\ \A o \in Load : Running(o) => o = m

Phase == Table \cup {"idle", "yaml", "apply", "wait", "tables", "other name", "hint"}

\* A load x of l is over, or awaits in phase p the answer of a.
Moves(l, x, p, a) ==
    \/ load' = [load EXCEPT ![l] = Idle]
    \/ load' = [load EXCEPT ![l] = [x EXCEPT !.phase = p, !.asked = a]]

\* FirstFrom finds a table, at the place it is asked for or later (loadAll's order).
LEMMA FirstFromOrder ==
    ASSUME NEW n \in 1..6
    PROVE  FirstFrom(n) \in Table /\ Order[FirstFrom(n)] >= n
<1> DEFINE Least(k, t) == Order[t] >= k /\ \A u \in Table : Order[u] >= k => Order[t] <= Order[u]
<1>1. \A t \in Table : Order[t] \in 1..6
  BY SetAssumption DEF Order
<1>2. \E t \in Table : Least(6, t)
  BY SetAssumption, <1>1 DEF Order
<1>3. ASSUME NEW k \in 1..5, \E t \in Table : Least(k + 1, t)
      PROVE  \E t \in Table : Least(k, t)
  <2>1. CASE \E t \in Table : Order[t] = k
    BY <2>1, <1>1
  <2>2. CASE ~\E t \in Table : Order[t] = k
    <3>1. \A t \in Table : Order[t] >= k <=> Order[t] >= k + 1
      BY <2>2, <1>1
    <3> QED BY <3>1, <1>3
  <2> QED BY <2>1, <2>2
<1> HIDE DEF Least
<1>5. \E t \in Table : Least(5, t)
  BY <1>2, <1>3
<1>6. \E t \in Table : Least(4, t)
  BY <1>5, <1>3
<1>7. \E t \in Table : Least(3, t)
  BY <1>6, <1>3
<1>8. \E t \in Table : Least(2, t)
  BY <1>7, <1>3
<1>9. \E t \in Table : Least(1, t)
  BY <1>8, <1>3
<1>10. \E t \in Table : Least(n, t)
  BY <1>2, <1>5, <1>6, <1>7, <1>8, <1>9
<1> QED BY <1>10 DEF Least, FirstFrom

LEMMA TablesKnown ==
    /\ "panels" \in Table /\ "rus" \in Table /\ "ues" \in Table
    /\ "panels" \in Kind /\ "rus" \in Kind
    /\ \A t \in Table : Order[t] \in 1..6 /\ (t # "ues" => Order[t] + 1 \in 1..6)
    /\ \A t \in Table : t \in {"scenario", "panels", "rus", "dus", "scatterers", "ues"}
  BY SetAssumption DEF Order

LEMMA MovesType ==
    ASSUME load \in [Load -> LoadState], NEW l \in Load, NEW x \in LoadState,
           NEW p \in Phase, NEW a \in Chosen, Moves(l, x, p, a)
    PROVE  load' \in [Load -> LoadState]
<1>1. Idle \in LoadState
  BY DEF Idle, LoadState, Chosen
<1>2. [x EXCEPT !.phase = p, !.asked = a] \in LoadState
  BY DEF LoadState, Phase
<1> QED BY <1>1, <1>2 DEF Moves

\* Ask leaves a load over, or awaiting what it asked for, or the list of tables.
LEMMA AskMoves ==
    ASSUME TypeOK, NEW l \in Load, NEW x \in LoadState, NEW t \in Table, NEW db \in Chosen,
           Ask(l, x, t, db)
    PROVE  /\ tab' \in TabState
           /\ \/ Moves(l, x, "hint", Nothing)
              \/ Moves(l, x, t, db)
  BY DEF Ask, End, Await, Moves, TypeOK, TabState, Ended

-----------------------------------------------------------------------------
(* Type correctness.                                                         *)

\* What the steps of the client and the tab do to their variables keeps the types.
LEMMA SetType ==
    ASSUME TypeOK, NEW d \in Chosen, SetCurrentDatabase(d)
    PROVE  /\ hasConfig' \in BOOLEAN /\ connected' \in BOOLEAN
           /\ current' \in Chosen /\ saved' \in Chosen \cup {NoFile, NullFile}
  BY DEF TypeOK, SetCurrentDatabase

LEMMA TabTypes ==
    /\ NoTab \in TabState
    /\ \A c, w \in BOOLEAN : Tab(c, w) \in TabState
  BY DEF NoTab, Tab, TabState, NoLoad, Chosen

Requests == [kind : {"connect", "databases"}, sel : Chosen, shown : BOOLEAN]

LEMMA RequestTypes ==
    /\ \A k \in {"connect", "databases"}, d \in Chosen, b \in BOOLEAN :
          Listing(k, d, b) \in Requests
    /\ TypeOK => Left \subseteq Requests
<1>1. \A k \in {"connect", "databases"}, d \in Chosen, b \in BOOLEAN :
          Listing(k, d, b) \in Requests
  BY DEF Listing, Requests
<1>2. ASSUME TypeOK, NEW q \in Left PROVE q \in Requests
  <2>1. PICK r \in listings : q = Listing(r.kind, r.sel, FALSE)
    BY <1>2 DEF Left
  <2>2. r \in Requests
    BY <1>2 DEF TypeOK, Requests
  <2> QED BY <2>1, <2>2, <1>1 DEF Requests
<1> QED BY <1>1, <1>2

LEMMA TabSteps ==
    ASSUME TypeOK, [\/ OpenTab \/ CloseTab \/ Connect \/ Disconnect
                    \/ \E d \in Db : Pick(d)]_vars
    PROVE  TypeOK'
<1> USE DEF TypeOK
<1>1. CASE OpenTab
  <2>1. tab' \in TabState
    BY <1>1, TabTypes DEF OpenTab
  <2>2. listings' \subseteq Requests
    <3>1. \/ listings' = listings
          \/ listings' = listings \cup {Listing("databases", Nothing, TRUE)}
          \/ listings' = listings \cup {Listing("connect", Nothing, TRUE)}
      BY <1>1 DEF OpenTab
    <3>2. /\ Listing("databases", Nothing, TRUE) \in Requests
          /\ Listing("connect", Nothing, TRUE) \in Requests
      BY RequestTypes DEF Chosen
    <3> QED BY <3>1, <3>2 DEF Requests
  <2>4. disturbed' \subseteq Load
    BY <1>1 DEF OpenTab, Disturb
  <2>5. hasConfig' \in BOOLEAN /\ connected' \in BOOLEAN /\ current' \in Chosen
    BY <1>1 DEF OpenTab, StartConnect, Chosen, clientVars
  <2>6. UNCHANGED <<saved, store, ruPanel, load>>
    BY <1>1 DEF OpenTab, StartConnect, clientVars, storeVars
  <2> QED BY <2>1, <2>2, <2>4, <2>5, <2>6 DEF Requests
<1>2. CASE CloseTab
  BY <1>2, TabTypes, RequestTypes DEF CloseTab, Requests, clientVars, storeVars
<1>3. CASE Connect
  <2>1. tab' \in TabState
    BY <1>3 DEF Connect, TabState
  <2>2. listings' \subseteq Requests
    <3>1. tab.sel \in Chosen
      BY DEF TabState
    <3> QED BY <1>3, <3>1, RequestTypes DEF Connect, Requests
  <2> QED BY <1>3, <2>1, <2>2 DEF Requests, Connect, StartConnect, Disturb, storeVars, Chosen
<1>4. CASE Disconnect
  <2>1. tab' \in TabState
    BY <1>4 DEF Disconnect, TabState, Chosen
  <2> QED BY <1>4, <2>1 DEF Disconnect, MinioDisconnect, ClearScene, Disturb, Chosen
<1>5. CASE \E d \in Db : Pick(d)
  <2> PICK d \in Db : Pick(d)
    BY <1>5
  <2>1. tab' \in TabState
    BY DEF Pick, TabState, Chosen
  <2> QED BY SetType, <2>1 DEF Pick, DisturbIfOther, Chosen, storeVars
<1>6. CASE UNCHANGED vars
  BY <1>6 DEF vars, clientVars, tabVars, storeVars
<1> QED BY <1>1, <1>2, <1>3, <1>4, <1>5, <1>6

LEMMA ListingSteps ==
    ASSUME TypeOK, NEW r \in listings,
           Connected(r) \/ ConnectFails(r) \/ DatabasesListed(r) \/ DatabasesFail(r)
    PROVE  TypeOK'
<1> USE DEF TypeOK
<1> USE DEF Requests
<1>1. CASE Connected(r)
  <2>1. tab' \in TabState
    BY <1>1 DEF Connected, TabState
  <2>2. listings' \subseteq Requests
    BY <1>1 DEF Connected, Listing
  <2> QED BY <1>1, <2>1, <2>2 DEF Connected, Disturb, storeVars
<1>2. CASE ConnectFails(r)
  <2>1. tab' \in TabState
    BY <1>2 DEF ConnectFails, TabState
  <2> QED BY <1>2, <2>1 DEF ConnectFails, Disturb, storeVars, Chosen
<1>3. CASE DatabasesListed(r)
  <2>0. PICK dbs \in SUBSET Db : \E d \in NextDb(r.sel, dbs) :
          /\ SetCurrentDatabase(d)
          /\ tab' = IF r.shown
                    THEN [tab EXCEPT !.connecting = FALSE, !.listed = (d # Nothing), !.sel = d]
                    ELSE tab
    BY <1>3 DEF DatabasesListed
  <2>1. PICK d \in NextDb(r.sel, dbs) :
          /\ SetCurrentDatabase(d)
          /\ tab' = IF r.shown
                    THEN [tab EXCEPT !.connecting = FALSE, !.listed = (d # Nothing), !.sel = d]
                    ELSE tab
    BY <2>0
  <2>2. d \in Chosen
    BY <2>1 DEF NextDb, Chosen
  <2>3. tab' \in TabState
    BY <2>1, <2>2 DEF TabState
  <2>4. UNCHANGED <<store, ruPanel, load>> /\ listings' \subseteq listings
        /\ disturbed' \subseteq Load
    BY <1>3 DEF DatabasesListed, DisturbIfOther, storeVars
  <2> QED BY <2>1, <2>2, <2>3, <2>4, SetType
<1>4. CASE DatabasesFail(r)
  <2>1. tab' \in TabState
    BY <1>4 DEF DatabasesFail, TabState
  <2> QED BY <1>4, <2>1 DEF DatabasesFail, clientVars, storeVars
<1> QED BY <1>1, <1>2, <1>3, <1>4

\* One load takes a step: the others, and their types, stay.
LEMMA AskType ==
    ASSUME TypeOK, NEW l \in Load, NEW x \in LoadState, NEW t \in Table, NEW db \in Chosen,
           Ask(l, x, t, db)
    PROVE  tab' \in TabState /\ load' \in [Load -> LoadState]
<1>1. t \in Phase /\ "hint" \in Phase /\ Nothing \in Chosen
  BY DEF Phase, Chosen
<1> QED BY <1>1, AskMoves, MovesType DEF TypeOK

LEMMA ThrowType ==
    ASSUME TypeOK, NEW l \in Load, Throw(l)
    PROVE  tab' \in TabState /\ load' \in [Load -> LoadState]
<1>1. Idle \in LoadState
  BY DEF Idle, LoadState, Chosen
<1> QED BY <1>1 DEF Throw, Ended, TypeOK, TabState

LEMMA AwaitType ==
    ASSUME TypeOK, NEW l \in Load, NEW x \in LoadState, NEW p \in Phase, NEW db \in Chosen,
           Await(l, x, p, db)
    PROVE  tab' \in TabState /\ load' \in [Load -> LoadState]
<1>1. Moves(l, x, p, db)
  BY DEF Await, Moves
<1> QED BY <1>1, MovesType DEF Await, TypeOK

LEMMA EndType ==
    ASSUME TypeOK, NEW l \in Load, NEW db \in Chosen, End(l, db)
    PROVE  tab' \in TabState /\ load' \in [Load -> LoadState]
<1>1. Idle \in LoadState
  BY DEF Idle, LoadState, Chosen
<1> QED BY <1>1 DEF End, Ended, TypeOK, TabState

LEMMA HintType ==
    ASSUME TypeOK, NEW l \in Load, Hint(l)
    PROVE  tab' \in TabState /\ load' \in [Load -> LoadState]
<1>1. "hint" \in Phase /\ Nothing \in Chosen /\ load[l] \in LoadState /\ current \in Chosen
  BY DEF Phase, Chosen, TypeOK
<1> QED BY <1>1, AwaitType, EndType DEF Hint

LEMMA AskNextType ==
    ASSUME TypeOK, NEW l \in Load, load[l].phase \in Table, AskNext(l)
    PROVE  tab' \in TabState /\ load' \in [Load -> LoadState]
<1>1. load[l] \in LoadState /\ current \in Chosen
  BY DEF TypeOK
<1>2. CASE load[l].phase = "ues"
  BY <1>1, <1>2, EndType DEF AskNext
<1>3. CASE load[l].phase # "ues"
  <2>1. FirstFrom(Order[load[l].phase] + 1) \in Table
    BY <1>3, TablesKnown, FirstFromOrder
  <2> QED BY <1>1, <1>3, <2>1, AskType DEF AskNext
<1> QED BY <1>2, <1>3

LEMMA ShownType ==
    ASSUME TypeOK, NEW t \in Table, NEW d \in Chosen, Shown(t, d)
    PROVE  store' \in [Kind -> Chosen] /\ ruPanel' \in Chosen
  BY TablesKnown DEF Shown, TypeOK

LEMMA ClearType ==
    ASSUME TypeOK, NEW l \in Load, NEW x \in LoadState, NEW db \in Chosen,
           ClearAndLoadAll(l, x, db)
    PROVE  /\ tab' \in TabState /\ load' \in [Load -> LoadState]
           /\ store' \in [Kind -> Chosen] /\ ruPanel' \in Chosen
<1>1. FirstFrom(1) \in Table /\ "wait" \in Phase /\ Nothing \in Chosen
  BY FirstFromOrder DEF Phase, Chosen
<1>2. tab' \in TabState /\ load' \in [Load -> LoadState]
  BY <1>1, AskType, AwaitType DEF ClearAndLoadAll
<1> QED BY <1>1, <1>2 DEF ClearAndLoadAll, ClearScene, TypeOK

LEMMA BeginType ==
    ASSUME TypeOK, NEW l \in Load, NEW d \in Chosen, NEW file \in BOOLEAN, Begin(l, d, file)
    PROVE  TypeOK'
<1> DEFINE x == [load[l] EXCEPT !.sim = d]
<1>1. x \in LoadState
  BY DEF TypeOK, LoadState
<1>2. "apply" \in Phase /\ Nothing \in Chosen
  BY DEF Phase, Chosen
<1>3. \/ Throw(l) /\ UNCHANGED storeVars
      \/ Await(l, x, "apply", Nothing) /\ UNCHANGED storeVars
      \/ ClearAndLoadAll(l, x, d)
  BY DEF Begin
<1>4. /\ SetCurrentDatabase(d)
      /\ UNCHANGED listings
  BY DEF Begin
<1>5. disturbed' \subseteq Load
  BY DEF Begin
<1> HIDE DEF x
<1>6. tab' \in TabState /\ load' \in [Load -> LoadState]
  BY <1>1, <1>2, <1>3, ThrowType, AwaitType, ClearType
<1>7. store' \in [Kind -> Chosen] /\ ruPanel' \in Chosen
  BY <1>1, <1>3, ClearType DEF storeVars, TypeOK
<1>8. /\ hasConfig' \in BOOLEAN /\ connected' \in BOOLEAN
      /\ current' \in Chosen /\ saved' \in Chosen \cup {NoFile, NullFile}
  BY <1>4, SetType
<1> QED BY <1>4, <1>5, <1>6, <1>7, <1>8 DEF TypeOK

\* The steps that GoesOn describes only have to say what they do to the load, the tab and
\* the store.
LEMMA GoesOnType ==
    ASSUME TypeOK, GoesOn, tab' \in TabState /\ load' \in [Load -> LoadState],
           store' \in [Kind -> Chosen] /\ ruPanel' \in Chosen
    PROVE  TypeOK'
  BY DEF TypeOK, GoesOn, clientVars

LEMMA LoadSteps ==
    ASSUME TypeOK, NEW l \in Load, LoadStep(l)
    PROVE  TypeOK'
<1> USE DEF TypeOK
<1>0. load[l] \in LoadState /\ load[l].asked \in Chosen /\ load[l].sim \in Chosen
      /\ Nothing \in Chosen /\ tab.sel \in Chosen /\ Db \subseteq Chosen
      /\ {"apply", "wait", "tables", "hint"} \subseteq Phase /\ "other name" \in Phase
  BY DEF LoadState, Chosen, TabState, Phase
<1>1. CASE LoadDatabase(l)
  <2>1. tab' \in TabState
    BY <1>1 DEF LoadDatabase, TabState
  <2>2. [Idle EXCEPT !.phase = "yaml", !.sim = tab.sel] \in LoadState
    BY <1>0 DEF Idle, LoadState
  <2> QED BY <1>1, <2>1, <2>2 DEF LoadDatabase, clientVars, storeVars
<1>2. CASE \E found \in BOOLEAN : YamlFetched(l, found)
  BY <1>0, <1>2, BeginType DEF YamlFetched
<1>3. CASE \E d \in Db : Apply(l, d)
  BY <1>0, <1>3, BeginType DEF Apply
<1>4. CASE MetadataFetched(l)
  BY <1>0, <1>4, ClearType, GoesOnType DEF MetadataFetched
<1>5. CASE MetadataFails(l)
  BY <1>5, ThrowType, GoesOnType DEF MetadataFails, storeVars
<1>6. CASE WaitOver(l)
  <2>1. FirstFrom(1) \in Table
    BY FirstFromOrder
  <2> QED BY <1>0, <1>6, <2>1, AskType, ThrowType, GoesOnType DEF WaitOver, storeVars
<1>7. CASE Rows(l)
  BY <1>0, <1>7, ShownType, AskNextType, GoesOnType DEF Rows
<1>8. CASE NoRows(l)
  BY <1>8, HintType, AskNextType, GoesOnType DEF NoRows, storeVars
<1>9. CASE NoTable(l)
  BY <1>0, <1>9, AwaitType, GoesOnType DEF NoTable, storeVars
<1>10. CASE TableNamed(l)
  <2>1. Ask(l, load[l], "other name", current) => 
           tab' \in TabState /\ load' \in [Load -> LoadState]
    BY <1>0, AwaitType, EndType DEF Ask
  <2> QED BY <1>10, <2>1, GoesOnType DEF TableNamed, storeVars
<1>11. CASE NoTableNamed(l)
  BY <1>11, HintType, GoesOnType DEF NoTableNamed, storeVars
<1>12. CASE \E rows \in BOOLEAN : OtherName(l, rows)
  <2> PICK rows \in BOOLEAN : OtherName(l, rows)
    BY <1>12
  <2>1. CASE rows
    BY <1>0, <2>1, TablesKnown, ShownType, EndType, GoesOnType DEF OtherName
  <2>2. CASE ~rows
    BY <2>2, HintType, GoesOnType DEF OtherName, storeVars
  <2> QED BY <2>1, <2>2
<1>13. CASE Hinted(l)
  BY <1>13, EndType, GoesOnType DEF Hinted, storeVars
<1> QED BY <1>1, <1>2, <1>3, <1>4, <1>5, <1>6, <1>7, <1>8, <1>9, <1>10, <1>11, <1>12,
           <1>13 DEF LoadStep

LEMMA ReloadType ==
    ASSUME TypeOK, Reload
    PROVE  TypeOK'
<1>1. Idle \in LoadState
  BY DEF Idle, LoadState, Chosen
<1>2. hasConfig' \in BOOLEAN /\ connected' \in BOOLEAN
  BY DEF Reload
<1> QED BY <1>1, <1>2, TabTypes DEF Reload, TypeOK, Chosen

LEMMA TypeInit == Init => TypeOK
<1>1. Idle \in LoadState
  BY DEF Idle, LoadState, Chosen
<1>2. Init => hasConfig \in BOOLEAN /\ connected \in BOOLEAN
  BY DEF Init
<1> QED BY <1>1, <1>2, TabTypes DEF Init, TypeOK, Chosen

LEMMA TypeNext == TypeOK /\ [Next]_vars => TypeOK'
  BY TabSteps, ListingSteps, LoadSteps, ReloadType DEF Next

\* Every variable keeps its type, whatever the databases, tables and loads.
THEOREM TypeCorrect == Spec => []TypeOK
<1>1. Init => TypeOK
  BY TypeInit
<1>2. TypeOK /\ [Next]_vars => TypeOK'
  BY TypeNext
<1> QED BY <1>1, <1>2, PTL DEF Spec

-----------------------------------------------------------------------------
(* What holds for a load that runs undisturbed.                              *)

Alone == \A m \in Load : Undisturbed(m) =>
            Sound(m) /\ \A o \in Load : Running(o) => o = m

\* Whoever touches the client, the store or another database disturbs what runs.
LEMMA OutsideSteps ==
    ASSUME TypeOK, Alone,
           \/ [OpenTab \/ CloseTab \/ Connect \/ Disconnect \/ \E d \in Db : Pick(d)]_vars
           \/ \E r \in listings :
                 Connected(r) \/ ConnectFails(r) \/ DatabasesListed(r) \/ DatabasesFail(r)
    PROVE  Alone'
<1>1. load' = load
  BY DEF OpenTab, CloseTab, Connect, Disconnect, Pick, Connected, ConnectFails,
         DatabasesListed, DatabasesFail, vars
<1>2. \A m \in Load : Running(m)' <=> Running(m)
  BY <1>1 DEF Running
<1>3. CASE Disturb
  BY <1>2, <1>3 DEF Disturb, Undisturbed, Alone
<1>4. CASE DisturbIfOther /\ UNCHANGED storeVars
  <2>1. ASSUME NEW m \in Load, Undisturbed(m)'
        PROVE  Undisturbed(m) /\ current' = current
    BY <1>2, <1>4, <2>1 DEF DisturbIfOther, Undisturbed
  <2> QED BY <1>1, <1>2, <1>4, <2>1 DEF Alone, Sound, storeVars
<1>5. CASE UNCHANGED <<clientVars, storeVars, disturbed>>
  <2>1. \A m \in Load : Undisturbed(m)' <=> Undisturbed(m)
    BY <1>2, <1>5 DEF Undisturbed
  <2> QED BY <1>1, <1>2, <1>5, <2>1 DEF Alone, Sound, clientVars, storeVars
<1>6. Disturb \/ (DisturbIfOther /\ UNCHANGED storeVars)
      \/ UNCHANGED <<clientVars, storeVars, disturbed>>
  BY DEF OpenTab, CloseTab, Connect, Disconnect, Pick, Connected, ConnectFails,
         DatabasesListed, DatabasesFail, vars, tabVars
<1> QED BY <1>3, <1>4, <1>5, <1>6

\* A running load that goes on is the only one, if it is undisturbed; so only what it
\* does to itself matters.
LEMMA GoesOnAlone ==
    ASSUME TypeOK, Alone, NEW l \in Load, Running(l), GoesOn,
           \A o \in Load \ {l} : load'[o] = load[o],
           Undisturbed(l) /\ Sound(l) /\ Running(l)' => Sound(l)'
    PROVE  Alone'
<1>1. ASSUME NEW m \in Load, Undisturbed(m)'
      PROVE  m \notin disturbed
  <2>1. load'[m] # Idle
    BY <1>1 DEF Undisturbed, Running, Idle
  <2> QED BY <1>1, <2>1 DEF GoesOn, Undisturbed
<1>2. \A o \in Load \ {l} : Running(o)' <=> Running(o)
  BY DEF Running
<1>3. ASSUME NEW m \in Load, Undisturbed(m)'
      PROVE  m = l
  <2>1. CASE m # l
    BY <1>1, <1>2, <1>3, <2>1 DEF Undisturbed, Alone
  <2> QED BY <2>1
<1>4. ASSUME NEW m \in Load, Undisturbed(m)'
      PROVE  Sound(m)' /\ \A o \in Load : Running(o)' => o = m
  BY <1>1, <1>2, <1>3, <1>4 DEF Undisturbed, Alone
<1> QED BY <1>4 DEF Alone

\* A load is sound if it is over or awaits a request that its database answers.
LEMMA AwaitSound ==
    ASSUME TypeOK, NEW l \in Load, NEW x \in LoadState, NEW p \in Phase, NEW a \in Chosen,
           Moves(l, x, p, a), Running(l)', x.sim = current', p \in Table \cup {"other name"} => a = x.sim,
           p # "apply" => /\ \A k \in Kind : store'[k] \in {x.sim, Nothing}
                          /\ store'["rus"] # Nothing => ruPanel' = store'["panels"],
           p \in {"wait", "scenario", "panels", "rus"} => store'["rus"] = Nothing
    PROVE  Sound(l)'
<1>1. load'[l].phase # "idle"
  BY DEF Running
<1>2. load' = [load EXCEPT ![l] = [x EXCEPT !.phase = p, !.asked = a]]
  <2>1. CASE load' = [load EXCEPT ![l] = Idle]
    <3>1. load'[l] = Idle
      BY <2>1 DEF TypeOK
    <3>2. Idle.phase = "idle"
      BY DEF Idle
    <3> QED BY <1>1, <3>1, <3>2
  <2> QED BY <2>1 DEF Moves
<1>3. load'[l].phase = p /\ load'[l].asked = a /\ load'[l].sim = x.sim
  BY <1>2 DEF TypeOK, LoadState
<1> QED BY <1>3 DEF Sound

LEMMA MovesOne ==
    ASSUME TypeOK, NEW l \in Load, NEW x, NEW p, NEW a, Moves(l, x, p, a)
    PROVE  \A o \in Load \ {l} : load'[o] = load[o]
  BY DEF Moves, TypeOK

\* The load asks for a table of the current database, db, and the units are not there yet
\* if the table comes no later than theirs.
LEMMA AskSound ==
    ASSUME TypeOK, NEW l \in Load, NEW x \in LoadState, NEW t \in Table, NEW db \in Chosen,
           Ask(l, x, t, db), x.sim = db, current' = db,
           \A k \in Kind : store'[k] \in {x.sim, Nothing},
           store'["rus"] # Nothing => ruPanel' = store'["panels"],
           t \in {"scenario", "panels", "rus"} => store'["rus"] = Nothing
    PROVE  /\ \A o \in Load \ {l} : load'[o] = load[o]
           /\ Running(l)' => Sound(l)'
<1>1. \/ Moves(l, x, "hint", Nothing)
      \/ Moves(l, x, t, db)
  BY AskMoves
<1>2. "hint" \in Phase /\ t \in Phase /\ "hint" \notin Table \cup {"other name"} /\ Nothing \in Chosen
      /\ t # "apply" /\ t # "wait"
  BY TablesKnown DEF Phase, Chosen
<1>3. Running(l)' => Sound(l)'
  BY <1>1, <1>2, AwaitSound
<1> QED BY <1>1, <1>3, MovesOne

LEMMA ClearSound ==
    ASSUME TypeOK, NEW l \in Load, NEW x \in LoadState, NEW db \in Chosen,
           ClearAndLoadAll(l, x, db), x.sim = db, current' = db
    PROVE  /\ \A o \in Load \ {l} : load'[o] = load[o]
           /\ Running(l)' => Sound(l)'
<1>1. \A k \in Kind : store'[k] = Nothing
  BY DEF ClearAndLoadAll, ClearScene
<1>2. store'["rus"] = Nothing
  BY <1>1, TablesKnown
<1>3. CASE Ask(l, x, FirstFrom(1), db)
  <2>1. FirstFrom(1) \in Table
    BY FirstFromOrder
  <2> QED BY <1>1, <1>2, <1>3, <2>1, AskSound
<1>4. CASE Await(l, x, "wait", Nothing)
  <2>1. Moves(l, x, "wait", Nothing)
    BY <1>4 DEF Await, Moves
  <2>2. "wait" \in Phase /\ "wait" \notin Table \cup {"other name"} /\ Nothing \in Chosen
    BY TablesKnown DEF Phase, Chosen
  <2>3. Running(l)' => Sound(l)'
    BY <1>1, <1>2, <2>1, <2>2, AwaitSound
  <2> QED BY <2>1, <2>3, MovesOne
<1> QED BY <1>3, <1>4 DEF ClearAndLoadAll

LEMMA BeginAlone ==
    ASSUME TypeOK, Alone, NEW l \in Load, NEW d \in Chosen, NEW file \in BOOLEAN,
           Begin(l, d, file)
    PROVE  Alone'
<1> DEFINE x == [load[l] EXCEPT !.sim = d]
           others == {m \in Load \ {l} : Running(m)}
<1>1. x \in LoadState /\ x.sim = d
  BY DEF TypeOK, LoadState
<1>2. \/ Throw(l)
      \/ Await(l, x, "apply", Nothing)
      \/ ClearAndLoadAll(l, x, d)
  BY DEF Begin
<1>3. current' = d
  BY DEF Begin, SetCurrentDatabase
<1>4. disturbed' = {m \in others \cup {l} : load'[m] # Idle /\ others # {}}
  BY DEF Begin
<1> HIDE DEF x
<1>5. /\ \A o \in Load \ {l} : load'[o] = load[o]
      /\ Running(l)' => Sound(l)'
  <2>1. CASE Throw(l)
    BY <2>1 DEF Throw, TypeOK, Running, Idle
  <2>2. CASE Await(l, x, "apply", Nothing)
    <3>1. Moves(l, x, "apply", Nothing)
      BY <2>2 DEF Await, Moves
    <3>2. "apply" \in Phase /\ "apply" \notin Table \cup {"other name"} /\ Nothing \in Chosen
      BY TablesKnown DEF Phase, Chosen
    <3>3. Running(l)' => Sound(l)'
      BY <1>1, <1>3, <3>1, <3>2, AwaitSound
    <3> QED BY <3>1, <3>3, MovesOne
  <2>3. CASE ClearAndLoadAll(l, x, d)
    BY <1>1, <1>3, <2>3, ClearSound
  <2> QED BY <1>2, <2>1, <2>2, <2>3
<1>6. ASSUME NEW m \in Load, Undisturbed(m)'
      PROVE  Sound(m)' /\ \A o \in Load : Running(o)' => o = m
  <2>1. load'[m] # Idle
    BY <1>6 DEF Undisturbed, Running, Idle
  <2>2. m # l => Running(m)
    BY <1>5, <1>6 DEF Undisturbed, Running
  <2>3. others = {}
    BY <1>4, <1>6, <2>1, <2>2 DEF Undisturbed
  <2>4. m = l
    BY <2>2, <2>3
  <2>5. \A o \in Load \ {l} : ~Running(o)'
    BY <1>5, <2>3 DEF Running
  <2> QED BY <1>5, <1>6, <2>4, <2>5 DEF Undisturbed
<1> QED BY <1>6 DEF Alone

\* The next table after one that has been answered, its rows shown or not.
LEMMA AskNextSound ==
    ASSUME TypeOK, NEW l \in Load, load[l].phase \in Table, AskNext(l), current' = current,
           load[l].sim = current,
           \A k \in Kind : store'[k] \in {load[l].sim, Nothing},
           store'["rus"] # Nothing => ruPanel' = store'["panels"],
           load[l].phase \in {"scenario", "panels"} => store'["rus"] = Nothing
    PROVE  /\ \A o \in Load \ {l} : load'[o] = load[o]
           /\ Running(l)' => Sound(l)'
<1>1. CASE load[l].phase = "ues"
  BY <1>1 DEF AskNext, End, TypeOK, Running, Idle
<1>2. CASE load[l].phase # "ues"
  <2> DEFINE t == FirstFrom(Order[load[l].phase] + 1)
  <2>1. t \in Table /\ Order[t] >= Order[load[l].phase] + 1
    BY <1>2, TablesKnown, FirstFromOrder
  <2>2. t \in {"scenario", "panels", "rus"} => load[l].phase \in {"scenario", "panels"}
    BY <2>1, TablesKnown DEF Order
  <2>3. Ask(l, load[l], t, current)
    BY <1>2 DEF AskNext
  <2>4. load[l] \in LoadState /\ current \in Chosen
    BY DEF TypeOK
  <2> HIDE DEF t
  <2> QED BY <2>1, <2>2, <2>3, <2>4, AskSound
<1> QED BY <1>1, <1>2

\* The list of tables for the log is all that is still asked for, or nothing.
LEMMA HintSound ==
    ASSUME TypeOK, NEW l \in Load, Hint(l), Sound(l), Running(l), load[l].phase # "apply",
           current' = current, UNCHANGED storeVars
    PROVE  /\ \A o \in Load \ {l} : load'[o] = load[o]
           /\ Running(l)' => Sound(l)'
<1>1. Moves(l, load[l], "hint", Nothing)
  BY DEF Hint, Await, End, Moves
<1>2. "hint" \in Phase /\ "hint" \notin Table \cup {"other name"} /\ Nothing \in Chosen
      /\ load[l] \in LoadState
  BY TablesKnown DEF Phase, Chosen, TypeOK
<1>3. Running(l)' => Sound(l)'
  BY <1>1, <1>2, AwaitSound DEF Sound, storeVars
<1> QED BY <1>1, <1>3, MovesOne

LEMMA EndSound ==
    ASSUME TypeOK, NEW l \in Load,
           Throw(l) \/ \E db \in Chosen : End(l, db)
    PROVE  /\ \A o \in Load \ {l} : load'[o] = load[o]
           /\ ~Running(l)'
<1>1. load' = [load EXCEPT ![l] = Idle]
  BY DEF Throw, End
<1> QED BY <1>1 DEF TypeOK, Running, Idle

\* The rows of the load's own database are shown: still all the entities are of it, and
\* the units' panels are those there.
LEMMA ShownSound ==
    ASSUME TypeOK, NEW l \in Load, NEW t \in Table, Shown(t, load[l].asked), Sound(l),
           load[l].phase # "apply", load[l].asked = load[l].sim,
           t = "panels" => store["rus"] = Nothing
    PROVE  /\ \A k \in Kind : store'[k] \in {load[l].sim, Nothing}
           /\ store'["rus"] # Nothing => ruPanel' = store'["panels"]
           /\ t # "rus" /\ store["rus"] = Nothing => store'["rus"] = Nothing
<1>1. store' = [k \in Kind |-> IF k = t THEN load[l].asked ELSE store[k]]
  BY DEF Shown
<1>2. \A k \in Kind : store'[k] \in {load[l].sim, Nothing}
  BY <1>1 DEF Sound
<1>3. t # "rus" => store'["rus"] = store["rus"] /\ ruPanel' = ruPanel
  BY <1>1, TablesKnown DEF Shown
<1>4. t # "panels" => store'["panels"] = store["panels"]
  BY <1>1, TablesKnown
<1>5. t = "rus" => ruPanel' = store["panels"]
  BY DEF Shown
<1>6. store'["rus"] # Nothing => ruPanel' = store'["panels"]
  BY <1>3, <1>4, <1>5 DEF Sound
<1> QED BY <1>2, <1>3, <1>6

\* A step of a running load after the file was applied.
LEMMA RunningSteps ==
    ASSUME TypeOK, Alone, NEW l \in Load,
           \/ MetadataFetched(l) \/ MetadataFails(l) \/ WaitOver(l) \/ Rows(l) \/ NoRows(l)
           \/ NoTable(l) \/ TableNamed(l) \/ NoTableNamed(l)
           \/ \E rows \in BOOLEAN : OtherName(l, rows)
           \/ Hinted(l)
    PROVE  Alone'
<1>1. GoesOn /\ current' = current
  BY DEF MetadataFetched, MetadataFails, WaitOver, Rows, NoRows, NoTable, TableNamed,
         NoTableNamed, OtherName, Hinted, GoesOn, clientVars
<1>2. Running(l)
  BY TablesKnown DEF MetadataFetched, MetadataFails, WaitOver, Rows, NoRows, NoTable, TableNamed,
         NoTableNamed, OtherName, Hinted, Running
<1>3. load[l] \in LoadState /\ current \in Chosen /\ Nothing \in Chosen
  BY DEF TypeOK, Chosen
<1> SUFFICES /\ \A o \in Load \ {l} : load'[o] = load[o]
             /\ Sound(l) /\ Running(l)' => Sound(l)'
  BY <1>1, <1>2, GoesOnAlone
<1>a. ASSUME NEW p \in Phase \ {"apply", "wait"}, NEW a \in Chosen, Await(l, load[l], p, a),
             UNCHANGED storeVars, load[l].phase # "apply",
             p \in Table \cup {"other name"} => a = current,
             p \notin {"scenario", "panels", "rus"}
      PROVE  /\ \A o \in Load \ {l} : load'[o] = load[o]
             /\ Sound(l) /\ Running(l)' => Sound(l)'
  <2>1. Moves(l, load[l], p, a)
    BY <1>a DEF Await, Moves
  <2>2. Sound(l) /\ Running(l)' => Sound(l)'
    BY <1>1, <1>3, <1>a, <2>1, AwaitSound DEF Sound, storeVars
  <2> QED BY <2>1, <2>2, MovesOne
<1>4. CASE MetadataFetched(l)
  <2>1. ClearAndLoadAll(l, load[l], current)
    BY <1>4 DEF MetadataFetched
  <2>2. \A o \in Load \ {l} : load'[o] = load[o]
    <3>1. FirstFrom(1) \in Table
      BY FirstFromOrder
    <3> QED BY <1>3, <2>1, <3>1, AskMoves, MovesOne DEF ClearAndLoadAll, Await, TypeOK
  <2>3. Sound(l) /\ Running(l)' => Sound(l)'
    BY <1>1, <1>3, <2>1, ClearSound DEF Sound
  <2> QED BY <2>2, <2>3
<1>5. CASE MetadataFails(l)
  BY <1>5, EndSound DEF MetadataFails
<1>6. CASE WaitOver(l)
  <2>1. CASE Throw(l)
    BY <2>1, EndSound
  <2>2. CASE Ask(l, load[l], FirstFrom(1), current)
    <3>1. FirstFrom(1) \in Table
      BY FirstFromOrder
    <3>2. UNCHANGED storeVars /\ load[l].phase = "wait"
      BY <1>6 DEF WaitOver
    <3>3. \A o \in Load \ {l} : load'[o] = load[o]
      BY <1>3, <2>2, <3>1, AskMoves, MovesOne
    <3>4. Sound(l) /\ Running(l)' => Sound(l)'
      BY <1>1, <1>3, <2>2, <3>1, <3>2, AskSound DEF Sound, storeVars
    <3> QED BY <3>3, <3>4
  <2> QED BY <1>6, <2>1, <2>2 DEF WaitOver
<1>b. ASSUME load[l].phase \in Table, AskNext(l)
      PROVE  \A o \in Load \ {l} : load'[o] = load[o]
  <2>1. CASE load[l].phase = "ues"
    BY <1>3, <1>b, <2>1, EndSound DEF AskNext
  <2>2. CASE load[l].phase # "ues"
    <3>1. FirstFrom(Order[load[l].phase] + 1) \in Table
      BY <2>2, <1>b, TablesKnown, FirstFromOrder
    <3> QED BY <1>3, <1>b, <2>2, <3>1, AskMoves, MovesOne DEF AskNext
  <2> QED BY <2>1, <2>2
<1>7. CASE Rows(l)
  <2>1. load[l].phase \in Table /\ Shown(load[l].phase, load[l].asked) /\ AskNext(l)
    BY <1>7 DEF Rows
  <2>2. ASSUME Sound(l) PROVE Running(l)' => Sound(l)'
    <3>1. load[l].asked = load[l].sim /\ load[l].phase # "apply" /\ load[l].sim = current
      BY <2>1, <2>2, TablesKnown DEF Sound
    <3>2. load[l].phase \in {"scenario", "panels"} => store["rus"] = Nothing
      BY <2>2 DEF Sound
    <3> QED BY <1>1, <2>1, <2>2, <3>1, <3>2, ShownSound, AskNextSound
  <2> QED BY <2>1, <2>2, <1>b
<1>h. ASSUME Hint(l), load[l].phase # "apply", UNCHANGED storeVars
      PROVE  /\ \A o \in Load \ {l} : load'[o] = load[o]
             /\ Sound(l) /\ Running(l)' => Sound(l)'
  <2>1. Moves(l, load[l], "hint", Nothing)
    BY <1>h DEF Hint, Await, End, Moves
  <2> QED BY <1>1, <1>2, <1>h, <2>1, MovesOne, HintSound
<1>8. CASE NoRows(l)
  <2>1. load[l].phase \in Table /\ UNCHANGED storeVars /\ load[l].phase # "apply"
    BY <1>8, TablesKnown DEF NoRows
  <2>2. CASE load[l].phase = "ues" /\ Hint(l)
    BY <2>1, <2>2, <1>h
  <2>3. CASE AskNext(l)
    BY <1>1, <1>b, <2>1, <2>3, AskNextSound DEF Sound, storeVars
  <2> QED BY <1>8, <2>2, <2>3 DEF NoRows
<1>9. CASE NoTable(l)
  <2>1. "tables" \in Phase \ {"apply", "wait"} /\ "tables" \notin Table \cup {"other name"}
    BY TablesKnown DEF Phase
  <2> QED BY <1>3, <1>9, <2>1, <1>a DEF NoTable
<1>10. CASE TableNamed(l)
  <2>1. "other name" \in Phase \ {"apply", "wait"} /\ "hint" \in Phase \ {"apply", "wait"}
        /\ "other name" \notin Table /\ "hint" \notin Table
    BY TablesKnown DEF Phase
  <2>2. load[l].phase # "apply" /\ UNCHANGED storeVars
    BY <1>10 DEF TableNamed
  <2>3. \/ Await(l, load[l], "hint", Nothing)
        \/ Await(l, load[l], "other name", current)
        \/ End(l, current)
    BY <1>10 DEF TableNamed, Ask
  <2> QED BY <1>3, <2>1, <2>2, <2>3, <1>a, EndSound
<1>11. CASE NoTableNamed(l)
  BY <1>11, <1>h DEF NoTableNamed
<1>12. CASE \E rows \in BOOLEAN : OtherName(l, rows)
  <2> PICK rows \in BOOLEAN : OtherName(l, rows)
    BY <1>12
  <2>1. CASE rows
    BY <1>3, <2>1, EndSound DEF OtherName
  <2>2. CASE ~rows
    BY <2>2, <1>h DEF OtherName
  <2> QED BY <2>1, <2>2
<1>13. CASE Hinted(l)
  BY <1>3, <1>13, EndSound DEF Hinted
<1> QED BY <1>4, <1>5, <1>6, <1>7, <1>8, <1>9, <1>10, <1>11, <1>12, <1>13

LEMMA AloneNext == TypeOK /\ Alone /\ [Next]_vars => Alone'
<1> SUFFICES ASSUME TypeOK, Alone, [Next]_vars PROVE Alone'
  OBVIOUS
<1>1. ASSUME NEW l \in Load, LoadStep(l) PROVE Alone'
  <2>0. load[l].sim \in Chosen /\ Db \subseteq Chosen
    BY DEF TypeOK, LoadState, Chosen
  <2>1. CASE LoadDatabase(l)
    <3>1. \A o \in Load \ {l} : load'[o] = load[o]
      BY <2>1 DEF LoadDatabase, TypeOK
    <3>2. ~Running(l)' /\ UNCHANGED <<current, store, ruPanel, disturbed>>
      BY <2>1 DEF LoadDatabase, TypeOK, Running, clientVars, storeVars
    <3>3. \A o \in Load \ {l} : Running(o)' <=> Running(o)
      BY <3>1 DEF Running
    <3>4. ASSUME NEW m \in Load, Undisturbed(m)'
          PROVE  /\ m # l /\ Undisturbed(m) /\ load'[m] = load[m]
                 /\ \A o \in Load : Running(o)' => Running(o)
      BY <3>1, <3>2, <3>3, <3>4 DEF Undisturbed
    <3>5. ASSUME NEW m \in Load, Undisturbed(m)'
          PROVE  Sound(m)'
      BY <3>2, <3>4, <3>5 DEF Alone, Sound
    <3> QED BY <3>4, <3>5 DEF Alone
  <2>2. CASE \E found \in BOOLEAN : YamlFetched(l, found)
    BY <2>0, <2>2, BeginAlone DEF YamlFetched
  <2>3. CASE \E d \in Db : Apply(l, d)
    BY <2>0, <2>3, BeginAlone DEF Apply
  <2> QED BY <1>1, <2>1, <2>2, <2>3, RunningSteps DEF LoadStep
<1>2. CASE Reload
  <2>1. \A m \in Load : ~Running(m)'
    BY <1>2 DEF Reload, Running, Idle
  <2> QED BY <2>1 DEF Alone, Undisturbed
<1> QED BY <1>1, <1>2, OutsideSteps DEF Next

THEOREM Inductive == Spec => []IInv
<1>1. Init => IInv
  <2>1. Init => TypeOK
    BY TypeInit
  <2>2. Init => \A m \in Load : ~Running(m)
    BY DEF Init, Running, Idle
  <2> QED BY <2>1, <2>2 DEF IInv, Undisturbed
<1>2. IInv /\ [Next]_vars => IInv'
  BY TypeNext, AloneNext DEF IInv, Alone
<1> QED BY <1>1, <1>2, PTL DEF Spec

-----------------------------------------------------------------------------
(* What a load leaves when it is over.                                       *)

LEMMA OneLoad ==
    ASSUME TypeOK, NEW l \in Load, LoadStep(l)
    PROVE  \A o \in Load \ {l} : load'[o] = load[o]
<1>1. ASSUME NEW v, load' = [load EXCEPT ![l] = v]
      PROVE  \A o \in Load \ {l} : load'[o] = load[o]
  BY <1>1 DEF TypeOK
<1>2. ASSUME Throw(l) \/ (\E d : End(l, d)) \/ (\E x, p, d : Await(l, x, p, d))
             \/ \E x, t, d : Ask(l, x, t, d)
      PROVE  \A o \in Load \ {l} : load'[o] = load[o]
  BY <1>1, <1>2 DEF Throw, End, Await, Ask
<1>3. ASSUME Hint(l) \/ AskNext(l) \/ \E x, d : ClearAndLoadAll(l, x, d)
      PROVE  \A o \in Load \ {l} : load'[o] = load[o]
  BY <1>2, <1>3 DEF Hint, AskNext, ClearAndLoadAll
<1>4. ASSUME NEW d, NEW file, Begin(l, d, file)
      PROVE  \A o \in Load \ {l} : load'[o] = load[o]
  BY <1>2, <1>3, <1>4 DEF Begin
<1>5. CASE LoadDatabase(l)
  BY <1>1, <1>5 DEF LoadDatabase
<1>6. CASE \E found \in BOOLEAN : YamlFetched(l, found)
  BY <1>4, <1>6 DEF YamlFetched
<1>7. CASE \E d \in Db : Apply(l, d)
  BY <1>4, <1>7 DEF Apply
<1>8. CASE MetadataFetched(l) \/ MetadataFails(l) \/ WaitOver(l)
  BY <1>2, <1>3, <1>8 DEF MetadataFetched, MetadataFails, WaitOver
<1>9. CASE Rows(l) \/ NoRows(l) \/ NoTable(l)
  BY <1>2, <1>3, <1>9 DEF Rows, NoRows, NoTable
<1>10. CASE TableNamed(l) \/ NoTableNamed(l) \/ Hinted(l)
  BY <1>2, <1>3, <1>10 DEF TableNamed, NoTableNamed, Hinted
<1>11. CASE \E rows \in BOOLEAN : OtherName(l, rows)
  BY <1>2, <1>3, <1>11 DEF OtherName
<1> QED BY <1>5, <1>6, <1>7, <1>8, <1>9, <1>10, <1>11 DEF LoadStep

\* The last step of a load: it shows the rows of its own database, or leaves what is there.
LEMMA LastStep ==
    ASSUME IInv, NEW l \in EndAlone, [Next]_vars
    PROVE  /\ \A k \in Kind : store'[k] \in {load[l].sim, Nothing}
           /\ store'["rus"] # Nothing => ruPanel' = store'["panels"]
<1> USE DEF IInv
<1>1. /\ l \in Load /\ load'[l] = Idle /\ load[l].phase \notin {"idle", "yaml", "apply", "wait"}
      /\ load[l] # Idle /\ Undisturbed(l) /\ Sound(l)
  BY DEF EndAlone, Undisturbed, Running, Idle
<1>2. CASE Reload
  <2>1. \A k \in Kind : store'[k] = Nothing
    BY <1>2 DEF Reload
  <2> QED BY <2>1, TablesKnown
<1>3. CASE UNCHANGED storeVars
  BY <1>1, <1>3 DEF Sound, storeVars
<1>4. ASSUME NEW m \in Load, LoadStep(m), ~UNCHANGED storeVars
      PROVE  /\ \A k \in Kind : store'[k] \in {load[l].sim, Nothing}
             /\ store'["rus"] # Nothing => ruPanel' = store'["panels"]
  <2>1. m = l
    BY <1>1, <1>4, OneLoad
  <2>2. \/ Rows(l) \/ \E rows \in BOOLEAN : OtherName(l, rows)
    BY <1>1, <1>4, <2>1
       DEF LoadStep, LoadDatabase, YamlFetched, Apply, MetadataFetched, MetadataFails, WaitOver,
           NoRows, NoTable, TableNamed, NoTableNamed, Hinted, Idle
  <2>3. PICK t \in Table : Shown(t, load[l].asked) /\ load[l].phase \in Table \cup {"other name"}
                           /\ (t = "panels" => load[l].phase = "panels")
    BY <1>4, <2>1, <2>2, TablesKnown DEF Rows, OtherName
  <2>4. load[l].asked = load[l].sim /\ (t = "panels" => store["rus"] = Nothing)
    BY <1>1, <2>3 DEF Sound
  <2> QED BY <1>1, <2>3, <2>4, ShownSound
<1>5. CASE [OpenTab \/ CloseTab \/ Connect \/ Disconnect \/ \E d \in Db : Pick(d)]_vars
           \/ \E r \in listings :
                 Connected(r) \/ ConnectFails(r) \/ DatabasesListed(r) \/ DatabasesFail(r)
  <2>1. load' = load
    BY <1>5 DEF OpenTab, CloseTab, Connect, Disconnect, Pick, Connected, ConnectFails,
                DatabasesListed, DatabasesFail, vars
  <2> QED BY <1>1, <2>1
<1> QED BY <1>2, <1>3, <1>4, <1>5 DEF Next

\* A load nobody interferes with leaves entities of its own database only, whatever the
\* databases, the tables and the loads that came before it.
THEOREM ShowsItsDatabase == Spec => LoadShowsItsDatabase
<1>1. IInv /\ [Next]_vars =>
         [\A l \in EndAlone, k \in Kind : store'[k] \in {load[l].sim, Nothing}]_vars
  BY LastStep
<1> QED BY <1>1, Inductive, PTL DEF Spec, LoadShowsItsDatabase

\* And the units it leaves found their panels among those it has loaded.
THEOREM PanelsLookedUp == Spec => PanelsOfTheLoad
<1>1. IInv /\ [Next]_vars =>
         [EndAlone # {} /\ store'["rus"] # Nothing => ruPanel' = store'["panels"]]_vars
  <2> SUFFICES ASSUME IInv, [Next]_vars, NEW l \in EndAlone, store'["rus"] # Nothing
               PROVE  ruPanel' = store'["panels"]
    OBVIOUS
  <2> QED BY LastStep
<1> QED BY <1>1, Inductive, PTL DEF Spec, PanelsOfTheLoad

-----------------------------------------------------------------------------
(* What a reload of the page connects to.                                    *)

\* A load changes what is saved only together with what is current.
LEMMA SavedByLoads ==
    ASSUME NEW l \in Load, LoadStep(l)
    PROVE  /\ UNCHANGED <<hasConfig, connected, listings>>
           /\ UNCHANGED <<current, saved>> \/ \E d : SetCurrentDatabase(d)
<1>1. CASE LoadDatabase(l)
  BY <1>1 DEF LoadDatabase, clientVars
<1>2. ASSUME NEW d, NEW file, Begin(l, d, file)
      PROVE  /\ UNCHANGED <<hasConfig, connected, listings>>
             /\ SetCurrentDatabase(d)
  BY <1>2 DEF Begin, SetCurrentDatabase
<1>3. CASE \E found \in BOOLEAN : YamlFetched(l, found)
  BY <1>2, <1>3 DEF YamlFetched
<1>4. CASE \E d \in Db : Apply(l, d)
  BY <1>2, <1>4 DEF Apply
<1>5. CASE GoesOn
  BY <1>5 DEF GoesOn, clientVars
<1>6. \/ LoadDatabase(l) \/ (\E found \in BOOLEAN : YamlFetched(l, found))
      \/ (\E d \in Db : Apply(l, d)) \/ GoesOn
  <2>1. MetadataFetched(l) \/ MetadataFails(l) \/ WaitOver(l) => GoesOn
    BY DEF MetadataFetched, MetadataFails, WaitOver
  <2>2. Rows(l) \/ NoRows(l) \/ NoTable(l) \/ NoTableNamed(l) \/ Hinted(l) => GoesOn
    BY DEF Rows, NoRows, NoTable, NoTableNamed, Hinted
  <2>3. TableNamed(l) \/ (\E rows \in BOOLEAN : OtherName(l, rows)) => GoesOn
    BY DEF TableNamed, OtherName
  <2> QED BY <2>1, <2>2, <2>3 DEF LoadStep
<1> QED BY <1>1, <1>3, <1>4, <1>5, <1>6

\* Whatever connections, choices and loads overtake each other, a reload of the page comes
\* back to the database that is current: a connection under way is the only excuse, and it
\* stays under way until it saves what is current or takes the configuration away.
THEOREM ReloadComesBack == Spec => []SavedIsCurrent
<1> USE DEF SavedIsCurrent
<1>1. Init => SavedIsCurrent
  BY DEF Init
<1>2. SavedIsCurrent /\ [Next]_vars => SavedIsCurrent'
  <2> SUFFICES ASSUME SavedIsCurrent, [Next]_vars PROVE SavedIsCurrent'
    OBVIOUS
  <2>1. ASSUME NEW d, SetCurrentDatabase(d), Connecting' <=> Connecting
        PROVE  SavedIsCurrent'
    BY <2>1 DEF SetCurrentDatabase
  <2>2. ASSUME NEW l \in Load, LoadStep(l) PROVE SavedIsCurrent'
    <3>1. Connecting' <=> Connecting
      BY <2>2, SavedByLoads DEF Connecting
    <3> QED BY <2>1, <2>2, <3>1, SavedByLoads
  <2>3. CASE OpenTab
    <3>1. CASE StartConnect /\ listings' = listings \cup {Listing("connect", Nothing, TRUE)}
      <4>1. Listing("connect", Nothing, TRUE) \in listings'
        BY <3>1
      <4> QED BY <4>1 DEF Connecting, Listing
    <3>2. CASE /\ UNCHANGED clientVars
               /\ listings' \subseteq listings \cup {Listing("databases", Nothing, TRUE)}
               /\ listings \subseteq listings'
      BY <3>2 DEF Connecting, Listing, clientVars
    <3> QED BY <2>3, <3>1, <3>2 DEF OpenTab
  <2>4. CASE CloseTab
    <3>1. Connecting => Connecting'
      <4> SUFFICES ASSUME NEW r \in listings, r.kind = "connect"
                   PROVE  Connecting'
        BY DEF Connecting
      <4>1. Listing(r.kind, r.sel, FALSE) \in listings'
        BY <2>4 DEF CloseTab, Left
      <4> QED BY <4>1 DEF Connecting, Listing
    <3> QED BY <2>4, <3>1 DEF CloseTab, clientVars
  <2>5. CASE Connect
    <3>1. Listing("connect", tab.sel, TRUE) \in listings'
      BY <2>5 DEF Connect
    <3> QED BY <3>1 DEF Connecting, Listing
  <2>6. CASE Disconnect
    BY <2>6 DEF Disconnect, MinioDisconnect
  <2>7. ASSUME NEW r \in listings, Connected(r) PROVE SavedIsCurrent'
    BY <2>7 DEF Connected
  <2>8. ASSUME NEW r \in listings, ConnectFails(r) PROVE SavedIsCurrent'
    BY <2>8 DEF ConnectFails
  <2>9. ASSUME NEW r \in listings, DatabasesListed(r) PROVE SavedIsCurrent'
    <3>1. Connecting' <=> Connecting
      BY <2>9 DEF DatabasesListed, Connecting
    <3>2. \E d : SetCurrentDatabase(d)
      BY <2>9 DEF DatabasesListed
    <3> QED BY <2>1, <3>1, <3>2
  <2>10. ASSUME NEW r \in listings, DatabasesFail(r) PROVE SavedIsCurrent'
    <3>1. Connecting' <=> Connecting
      BY <2>10 DEF DatabasesFail, Connecting
    <3> QED BY <2>10, <3>1 DEF DatabasesFail, clientVars
  <2>11. ASSUME NEW d \in Db, Pick(d) PROVE SavedIsCurrent'
    <3>1. Connecting' <=> Connecting
      BY <2>11 DEF Pick, Connecting
    <3> QED BY <2>1, <2>11, <3>1 DEF Pick
  <2>12. CASE Reload
    BY <2>12 DEF Reload
  <2>13. CASE UNCHANGED vars
    BY <2>13 DEF vars, clientVars, tabVars, Connecting
  <2> QED BY <2>2, <2>3, <2>4, <2>5, <2>6, <2>7, <2>8, <2>9, <2>10, <2>11, <2>12, <2>13
          DEF Next
<1> QED BY <1>1, <1>2, PTL DEF Spec
=============================================================================
