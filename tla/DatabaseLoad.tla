---------------------------- MODULE DatabaseLoad ----------------------------
(***************************************************************************)
(* Which database the scene's entities come from.  The Settings tab        *)
(* (MinIOSettings.tsx) connects minioClient to a catalog, lists its        *)
(* databases and picks one; a load, the tab's or the YML editor's          *)
(* (applyAndLoadSimulation), clears the scene and asks for one table after *)
(* another (databaseManager.loadAll), each of whatever database is current *)
(* when it is asked for.  An action is what runs between two awaits.       *)
(*                                                                         *)
(* Of a kind of entities the model keeps the database they are of.  The    *)
(* ray paths and the timeline are RaypathManager's, and the entities of a  *)
(* file YmlSync's.  The legacy mode without a catalog is left out: the tab *)
(* no longer offers it.                                                    *)
(***************************************************************************)
EXTENDS FiniteSets, Naturals

CONSTANTS
    Db,           \* the databases of the catalog
    Table,        \* the tables loaded, all those of Order in the program
    Kind,         \* the kinds of entities watched
    SettingsLoad, \* bound: the loads of the Settings tab under way
    EditorLoad,   \* the loads of the YML editor, which disables its button meanwhile
    MaxListings,  \* bound: requests for the catalog's databases under way
    Nothing       \* no entities, no database

ASSUME SetAssumption ==
    /\ SettingsLoad \cap EditorLoad = {} /\ "none" \notin SettingsLoad
    /\ Nothing \notin Db
    /\ {"panels", "rus", "ues"} \subseteq Table
    /\ {"panels", "rus"} \subseteq Kind /\ Kind \subseteq Table \ {"scenario"}
    /\ Table \subseteq {"scenario", "panels", "rus", "dus", "scatterers", "ues"}
    /\ MaxListings \in Nat

VARIABLES
    hasConfig, \* minioClient.config is not null
    connected, \* isConnectedFlag
    current,   \* currentDatabase, which config.database follows
    saved,     \* minio_config in localStorage: none, the text "null", or its database
    tab,       \* the Settings tab's state
    listings,  \* its requests for the databases
    store,     \* the managers' maps
    ruPanel,   \* where the radio units' panels were looked up
    load,      \* each load: the request it awaits (phase), the database it is to load (sim),
               \* the one it asked (asked)
    disturbed  \* history: the loads that something else has interfered with

clientVars == <<hasConfig, connected, current, saved>>
tabVars == <<tab, listings>>
storeVars == <<store, ruPanel>>
vars == <<clientVars, tabVars, storeVars, load, disturbed>>

Load == SettingsLoad \cup EditorLoad
Chosen == Db \cup {Nothing}
NoFile == "no file"
NullFile == "null"

-----------------------------------------------------------------------------
(* minioClient.                                                              *)

\* Mutant: the choice is not written to localStorage.
SetCurrentDatabase_Forgets(d) ==
    /\ current' = d
    /\ UNCHANGED <<hasConfig, connected, saved>>

SetCurrentDatabase(d) ==
    /\ current' = d
    /\ saved' = IF hasConfig THEN d ELSE saved
    /\ UNCHANGED <<hasConfig, connected>>

\* connect, up to its request.
StartConnect ==
    /\ hasConfig' = TRUE
    /\ current' = Nothing
    /\ UNCHANGED <<connected, saved>>

MinioDisconnect ==
    /\ hasConfig' = FALSE /\ current' = Nothing /\ saved' = NoFile
    /\ connected' = FALSE

-----------------------------------------------------------------------------
(* Loads: what they share.                                                   *)

\* From applyAndLoadSimulation on.
Running(l) == load[l].phase \notin {"idle", "yaml"}

\* Whatever a load uses has been touched by something else; or only if another database
\* is current now.
Disturb == disturbed' = {l \in Load : Running(l)}
DisturbIfOther == disturbed' = {l \in Load : Running(l) /\ (l \in disturbed \/ current' # current)}

ClearScene ==
    /\ store' = [k \in Kind |-> Nothing]
    /\ UNCHANGED ruPanel

-----------------------------------------------------------------------------
(* The Settings tab.                                                         *)

\* The load that isLoading is about; a load of a tab that was closed is not shown.
NoLoad == "none"

Tab(isConnected, isConnecting) ==
    [open |-> TRUE, connected |-> isConnected, connecting |-> isConnecting,
     loading |-> NoLoad, sel |-> Nothing, listed |-> FALSE]

\* A request for the databases, to connect or to list them, made when sel was selected by
\* the tab that is still shown or not.
Listing(kind, sel, shown) == [kind |-> kind, sel |-> sel, shown |-> shown]
Left == {Listing(r.kind, r.sel, FALSE) : r \in listings}
Connecting == \E r \in listings : r.kind = "connect"

NoTab == [Tab(FALSE, TRUE) EXCEPT !.open = FALSE]

CloseTab ==
    /\ tab.open /\ tab' = NoTab
    /\ listings' = Left
    /\ UNCHANGED <<clientVars, storeVars, load, disturbed>>

\* The tab is opened: it lists the databases, or connects by itself if settings
\* are saved.
OpenTab ==
    /\ ~tab.open
    /\ Cardinality(listings) < MaxListings
    /\ \/ /\ connected
          /\ tab' = Tab(TRUE, FALSE)
          /\ listings' = listings \cup {Listing("databases", Nothing, TRUE)}
          /\ UNCHANGED <<clientVars, disturbed>>
       \/ /\ ~connected
          /\ tab' = Tab(FALSE, TRUE)
          /\ listings' = listings \cup {Listing("connect", Nothing, TRUE)}
          /\ StartConnect /\ Disturb
       \/ /\ ~connected
          /\ tab' = Tab(FALSE, FALSE)
          /\ UNCHANGED <<clientVars, listings, disturbed>>
    /\ UNCHANGED <<storeVars, load>>

Connect ==
    /\ ~tab.connected /\ ~tab.connecting
    /\ Cardinality(listings) < MaxListings
    /\ tab' = [tab EXCEPT !.connecting = TRUE]
    /\ listings' = listings \cup {Listing("connect", tab.sel, TRUE)}
    /\ StartConnect /\ Disturb
    /\ UNCHANGED <<storeVars, load>>

\* The catalog's answer to connect: the databases are asked for next, unless another
\* connection has failed meanwhile.
Connected(r) ==
    /\ r.kind = "connect"
    /\ connected' = TRUE
    /\ saved' = IF hasConfig THEN current ELSE NullFile
    /\ tab' = IF r.shown
              THEN [tab EXCEPT !.connected = TRUE, !.connecting = hasConfig]
              ELSE tab
    /\ listings' = (listings \ {r}) \cup
                   (IF hasConfig THEN {Listing("databases", r.sel, r.shown)} ELSE {})
    /\ Disturb
    /\ UNCHANGED <<hasConfig, current, storeVars, load>>

ConnectFails(r) ==
    /\ r.kind = "connect"
    /\ hasConfig' = FALSE /\ current' = Nothing
    /\ tab' = IF r.shown THEN [tab EXCEPT !.connecting = FALSE] ELSE tab
    /\ listings' = listings \ {r}
    /\ Disturb
    /\ UNCHANGED <<connected, saved, storeVars, load>>

\* resolveAvailableNamespaceSelection: what was selected when the list was asked for, or
\* what is current now, if it is there; else the first.
NextDb(sel, dbs) ==
    LET preferred == IF sel # Nothing THEN sel ELSE current
    IN IF dbs = {} THEN {Nothing} ELSE IF preferred \in dbs THEN {preferred} ELSE dbs

DatabasesListed(r) ==
    /\ r.kind = "databases"
    /\ listings' = listings \ {r}
    /\ \E dbs \in SUBSET Db : \E d \in NextDb(r.sel, dbs) :
          /\ SetCurrentDatabase(d)
          /\ tab' = IF r.shown
                    THEN [tab EXCEPT !.connecting = FALSE, !.listed = (d # Nothing), !.sel = d]
                    ELSE tab
    /\ DisturbIfOther
    /\ UNCHANGED <<storeVars, load>>

DatabasesFail(r) ==
    /\ r.kind = "databases"
    /\ listings' = listings \ {r}
    /\ tab' = IF r.shown THEN [tab EXCEPT !.connecting = FALSE, !.listed = FALSE] ELSE tab
    /\ UNCHANGED <<clientVars, storeVars, load, disturbed>>

\* handleDatabaseChange
Pick(d) ==
    /\ tab.connected /\ tab.listed
    /\ tab' = [tab EXCEPT !.sel = d]
    /\ SetCurrentDatabase(d)
    /\ DisturbIfOther
    /\ UNCHANGED <<listings, storeVars, load>>

\* handleDisconnect
Disconnect ==
    /\ tab.connected /\ ~tab.connecting
    /\ tab' = [tab EXCEPT !.connected = FALSE, !.sel = Nothing, !.listed = FALSE]
    /\ MinioDisconnect
    /\ ClearScene
    /\ Disturb
    /\ UNCHANGED <<listings, load>>

-----------------------------------------------------------------------------
(* Loads, request by request.                                                *)

Idle == [phase |-> "idle", sim |-> Nothing, asked |-> Nothing]

\* A load x awaits its next request, or is over: with an error, or well, which shows the
\* tab the database that is current now.
Await(l, x, phase, db) ==
    /\ load' = [load EXCEPT ![l] = [x EXCEPT !.phase = phase, !.asked = db]]
    /\ UNCHANGED tab

Ended(l) == [tab EXCEPT !.loading = IF @ = l THEN NoLoad ELSE @]

Throw(l) ==
    /\ load' = [load EXCEPT ![l] = Idle]
    /\ tab' = Ended(l)

End(l, db) ==
    /\ load' = [load EXCEPT ![l] = Idle]
    /\ tab' = IF ~tab.open THEN tab
              ELSE [Ended(l) EXCEPT !.sel = db, !.listed = @ \/ db # Nothing]

\* A table is asked for, of the current database db; if there is none, or no catalog, this
\* and all the following requests fail before they are sent, and only the list of tables,
\* for the log, is still asked for.
Ask(l, x, table, db) ==
    IF ~hasConfig THEN End(l, db)
    ELSE IF db = Nothing THEN Await(l, x, "hint", Nothing)
    ELSE Await(l, x, table, db)

\* Mutant: the units before the panels.
Order_UnitsFirst == [scenario |-> 1, panels |-> 3, rus |-> 2, dus |-> 4, scatterers |-> 5,
                     ues |-> 6]

\* loadAll's order.
Order == [scenario |-> 1, panels |-> 2, rus |-> 3, dus |-> 4, scatterers |-> 5, ues |-> 6]

\* The first table from the n-th place on.
FirstFrom(n) ==
    CHOOSE t \in Table : /\ Order[t] >= n
                         /\ \A u \in Table : Order[u] >= n => Order[t] <= Order[u]

\* Mutant: the units that are there stay until there is other.
ClearAndLoadAll_KeepsUnits(l, x, db) ==
    /\ store' = [k \in Kind |-> IF k = "rus" THEN store[k] ELSE Nothing]
    /\ UNCHANGED ruPanel
    /\ IF connected THEN Ask(l, x, FirstFrom(1), db) ELSE Await(l, x, "wait", Nothing)

\* The scene is cleared, and loadAll begins, or waits half a second for a connection.
ClearAndLoadAll(l, x, db) ==
    /\ ClearScene
    /\ IF connected THEN Ask(l, x, FirstFrom(1), db) ELSE Await(l, x, "wait", Nothing)

\* loadDatabase: the file of the simulation selected is asked for first.
LoadDatabase(l) ==
    /\ l \in SettingsLoad /\ load[l] = Idle
    /\ tab.connected /\ tab.loading = NoLoad
    /\ tab' = [tab EXCEPT !.loading = l]
    /\ load' = [load EXCEPT ![l] = [Idle EXCEPT !.phase = "yaml", !.sim = tab.sel]]
    /\ UNCHANGED <<clientVars, listings, storeVars, disturbed>>

\* applyAndLoadSimulation, up to its first await.
Begin(l, d, file) ==
    LET x == [load[l] EXCEPT !.sim = d]
    IN /\ SetCurrentDatabase(d)
       /\ IF ~connected THEN Throw(l) /\ UNCHANGED storeVars
          ELSE IF file THEN Await(l, x, "apply", Nothing) /\ UNCHANGED storeVars
          ELSE ClearAndLoadAll(l, x, d)
       /\ LET others == {m \in Load \ {l} : Running(m)}
          IN disturbed' = {m \in others \cup {l} : load'[m] # Idle /\ others # {}}
       /\ UNCHANGED listings

\* The file of the simulation, if there is one.
YamlFetched(l, found) == load[l].phase = "yaml" /\ Begin(l, load[l].sim, found)

\* The YML editor's Apply
Apply(l, d) == l \in EditorLoad /\ load[l] = Idle /\ Begin(l, d, TRUE)

\* A load goes on, with what else it disturbs unchanged.
GoesOn == /\ disturbed' = {m \in disturbed : load'[m] # Idle}
          /\ UNCHANGED <<clientVars, listings>>

\* The metadata of the file's scene arrives, and the file is applied, just to be cleared;
\* or it cannot be fetched though it is needed.
MetadataFetched(l) ==
    /\ load[l].phase = "apply"
    /\ ClearAndLoadAll(l, load[l], current)
    /\ GoesOn

MetadataFails(l) ==
    /\ load[l].phase = "apply"
    /\ Throw(l)
    /\ GoesOn /\ UNCHANGED storeVars

WaitOver(l) ==
    /\ load[l].phase = "wait"
    /\ IF connected THEN Ask(l, load[l], FirstFrom(1), current) ELSE Throw(l)
    /\ GoesOn /\ UNCHANGED storeVars

\* The rows of a table of d become the manager's map; a unit's panel is looked up, by
\* indexToId, among those that are there now.
Shown(table, d) ==
    /\ store' = [k \in Kind |-> IF k = table THEN d ELSE store[k]]
    /\ IF table = "rus" THEN ruPanel' = store["panels"] ELSE UNCHANGED ruPanel

\* The equipment's request is over without rows: the tables are listed for the log.
Hint(l) == IF hasConfig THEN Await(l, load[l], "hint", Nothing) ELSE End(l, current)

\* The next table, after the answer of the one awaited.
AskNext(l) ==
    IF load[l].phase = "ues" THEN End(l, current)
    ELSE Ask(l, load[l], FirstFrom(Order[load[l].phase] + 1), current)

\* A table's answer has rows, or there are none or an error, which leave what is there.
Rows(l) ==
    /\ load[l].phase \in Table
    /\ Shown(load[l].phase, load[l].asked)
    /\ AskNext(l)
    /\ GoesOn

NoRows(l) ==
    /\ load[l].phase \in Table
    /\ IF load[l].phase = "ues" THEN Hint(l) ELSE AskNext(l)
    /\ GoesOn /\ UNCHANGED storeVars

\* The equipment's table is not found: it may be there under another name.
NoTable(l) ==
    /\ load[l].phase = "ues" /\ hasConfig
    /\ Await(l, load[l], "tables", Nothing)
    /\ GoesOn /\ UNCHANGED storeVars

TableNamed(l) ==
    /\ load[l].phase = "tables"
    /\ Ask(l, load[l], "other name", current)
    /\ GoesOn /\ UNCHANGED storeVars

NoTableNamed(l) ==
    /\ load[l].phase = "tables"
    /\ Hint(l)
    /\ GoesOn /\ UNCHANGED storeVars

OtherName(l, rows) ==
    /\ load[l].phase = "other name"
    /\ IF rows THEN Shown("ues", load[l].asked) /\ End(l, current)
       ELSE Hint(l) /\ UNCHANGED storeVars
    /\ GoesOn

\* The list of tables for the log, or that of the lookup failed.
Hinted(l) ==
    /\ load[l].phase \in {"hint", "tables"}
    /\ End(l, current)
    /\ GoesOn /\ UNCHANGED storeVars

-----------------------------------------------------------------------------
\* Reloading the page restores the connection from localStorage.
Reload ==
    /\ hasConfig' = (saved \notin {NoFile, NullFile})
    /\ connected' = (saved \notin {NoFile, NullFile})
    /\ current' = IF saved \in {NoFile, NullFile} THEN Nothing ELSE saved
    /\ tab' = NoTab /\ listings' = {}
    /\ store' = [k \in Kind |-> Nothing] /\ ruPanel' = Nothing
    /\ load' = [l \in Load |-> Idle] /\ disturbed' = {}
    /\ UNCHANGED saved

Init ==
    /\ saved \in Chosen \cup {NoFile}
    /\ hasConfig = (saved # NoFile) /\ connected = (saved # NoFile)
    /\ current = IF saved = NoFile THEN Nothing ELSE saved
    /\ tab = NoTab /\ listings = {}
    /\ store = [k \in Kind |-> Nothing] /\ ruPanel = Nothing
    /\ load = [l \in Load |-> Idle] /\ disturbed = {}

LoadStep(l) ==
    \/ LoadDatabase(l)
    \/ \E found \in BOOLEAN : YamlFetched(l, found)
    \/ \E d \in Db : Apply(l, d)
    \/ MetadataFetched(l) \/ MetadataFails(l) \/ WaitOver(l)
    \/ Rows(l) \/ NoRows(l)
    \/ NoTable(l) \/ TableNamed(l) \/ NoTableNamed(l)
    \/ \E rows \in BOOLEAN : OtherName(l, rows)
    \/ Hinted(l)

Next ==
    \/ \E l \in Load : LoadStep(l)
    \/ OpenTab \/ CloseTab \/ Connect \/ Disconnect
    \/ \E r \in listings :
          Connected(r) \/ ConnectFails(r) \/ DatabasesListed(r) \/ DatabasesFail(r)
    \/ \E d \in Db : Pick(d)
    \/ Reload

Spec == Init /\ [][Next]_vars

-----------------------------------------------------------------------------
(* Properties.                                                               *)

LoadState ==
    [phase : Table \cup {"idle", "yaml", "apply", "wait", "tables", "other name", "hint"},
     sim : Chosen, asked : Chosen]

TabState ==
    [open : BOOLEAN, connected : BOOLEAN, connecting : BOOLEAN,
     loading : SettingsLoad \cup {NoLoad}, sel : Chosen, listed : BOOLEAN]

TypeOK ==
    /\ hasConfig \in BOOLEAN /\ connected \in BOOLEAN
    /\ current \in Chosen /\ saved \in Chosen \cup {NoFile, NullFile}
    /\ tab \in TabState
    /\ listings \subseteq [kind : {"connect", "databases"}, sel : Chosen, shown : BOOLEAN]
    /\ store \in [Kind -> Chosen] /\ ruPanel \in Chosen
    /\ load \in [Load -> LoadState] /\ disturbed \subseteq Load

\* The loads that are over after this step, having got as far as the tables, and that
\* nothing interfered with.
EndAlone == {l \in Load \ disturbed :
                /\ load[l].phase \notin {"idle", "yaml", "apply", "wait"}
                /\ load'[l] = Idle}

\* A load that nothing else interferes with, however its requests end, leaves entities of
\* its own database only: nothing of the database before outlives the clearing, and
\* no request goes to another database (applyAndLoadSimulation, loadAll).
LoadShowsItsDatabase ==
    [][\A l \in EndAlone, k \in Kind : store'[k] \in {load[l].sim, Nothing}]_vars

\* And the panels of its units were looked up among those it has loaded, since they come
\* before (loadAll's order, getByIndex).
PanelsOfTheLoad ==
    [][EndAlone # {} /\ store'["rus"] # Nothing => ruPanel' = store'["panels"]]_vars

\* What a reload of the page connects to is what is connected now: between connections,
\* localStorage follows every choice of a database (connect, setCurrentDatabase).
SavedIsCurrent == hasConfig /\ connected /\ ~Connecting => saved = current

\* "the sim_id / Iceberg namespace whose tables should be loaded": whatever else happens,
\* the tables a load asks for are of its database.
\* Refuted: LoadMixes.cfg has the counterexample.
AsksItsDatabase ==
    \A l \in Load : load[l].sim # Nothing => load[l].asked \in {load[l].sim, Nothing}
=============================================================================
