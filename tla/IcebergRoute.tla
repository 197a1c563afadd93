---------------------------- MODULE IcebergRoute ----------------------------
(***************************************************************************)
(* The server's Iceberg route (api.iceberg.ts): requests interleave at     *)
(* every await, and the queries among them share one DuckDB instance, made *)
(* by the first of them and kept, with its S3 settings, for all.           *)
(*                                                                         *)
(* Of a query's answer the model keeps whether it has rows; it is read in  *)
(* one attempt after another, from the store that the instance's settings  *)
(* name.  A statement takes effect when its callback runs.  The region,    *)
(* set by every query like the endpoint, and the version guessing, whose   *)
(* failure is ignored, are left out.                                       *)
(***************************************************************************)
EXTENDS Naturals, Sequences

CONSTANTS
    Request,    \* the requests under way, by slot
    Endpoint,   \* S3 endpoints; a query without one is for AWS
    Key,        \* credentials
    None,       \* not given, or as DuckDB has it by default
    Query,      \* the queries: their endpoint, their credentials, whether with a ray budget
    CanReset,   \* whether this build of DuckDB can RESET its settings
    Patterns,   \* the number of glob patterns that queryWithFallbacks tries
    Namespaces  \* bound: the namespaces of the catalog

ASSUME RouteAssumption ==
    /\ None \notin Endpoint \cup Key \cup Request
    /\ Query \subseteq [endpoint : Endpoint \cup {None}, key : Key \cup {None}, budget : BOOLEAN]
    /\ CanReset \in BOOLEAN
    /\ Patterns \in Nat \ {0}
    /\ Namespaces \in Nat

VARIABLES
    instance,  \* dbInstance: an instance goes by the request that made it; None for null
    created,   \* the instances made
    httpfs,    \* the instances with httpfs loaded
    uncached,  \* those whose HTTP metadata cache is off
    installed, \* extensionsInstalled
    available, \* icebergExtensionAvailable
    initError, \* whether initError is set
    settings,  \* the S3 settings of each instance
    rq,        \* the requests
    mixed      \* history: the queries whose instance another has configured meanwhile

engineVars == <<instance, created, httpfs, uncached, installed, available, initError>>
vars == <<engineVars, settings, rq, mixed>>

\* The credentials stand for their two settings, which are written one after the other, and
\* the endpoint for its own, the path style and ssl.
Setting == {"credentials", "endpoint"}
NoQuery == [endpoint |-> None, key |-> None, budget |-> FALSE]

\* What a request awaits (phase), for which query; whether the table's location is known;
\* the instance; and which statement, pattern or namespace (n), in which mode.
Idle == [phase |-> "idle", q |-> NoQuery, located |-> FALSE, db |-> None, n |-> 0,
         mode |-> "plain"]

Initialising == {"create", "install", "load", "iceberg", "cache"}
Reading == {"files", "manifest", "scan", "globs"}
Uses(r, db) == rq[r].db = db /\ rq[r].phase \in Reading \cup {"set"}

\* A request is answered, or awaits what x says.
Go(r, x) ==
    /\ rq' = [rq EXCEPT ![r] = x]
    /\ mixed' = IF x = Idle THEN mixed \ {r} ELSE mixed

Respond(r) == Go(r, Idle)

-----------------------------------------------------------------------------
(* Requests that only ask the catalog.                                       *)

\* A malformed request is refused at once, and changes nothing.
Arrive(r) ==
    /\ rq[r].phase = "idle"
    /\ \/ \E q \in Query : Go(r, [Idle EXCEPT !.phase = "metadata", !.q = q])
       \/ Go(r, [Idle EXCEPT !.phase = "catalog"])
    /\ UNCHANGED <<engineVars, settings>>

\* testConnection, listNamespaces, listTables and describeTable have one answer, or fail;
\* listDatabasesAndTables asks for the tables of one namespace after another, and one that
\* cannot be listed is listed without.
Browse(r, n) == Go(r, IF n = 0 THEN Idle ELSE [rq[r] EXCEPT !.phase = "browse", !.n = n])

CatalogAnswers(r) ==
    /\ rq[r].phase = "catalog"
    /\ \E n \in 0..Namespaces : Browse(r, n)
    /\ UNCHANGED <<engineVars, settings>>

TablesListedOrNot(r) ==
    /\ rq[r].phase = "browse"
    /\ Browse(r, rq[r].n - 1)
    /\ UNCHANGED <<engineVars, settings>>

-----------------------------------------------------------------------------
(* How a query goes on.                                                      *)

\* With a ray budget, the strongest rays are asked for, then any, then the first rows.
FirstMode(q) == IF q.budget THEN "amplitude" ELSE "plain"
NextMode == [amplitude |-> "none", none |-> "plain"]

Attempt(x, phase, n) == [x EXCEPT !.phase = phase, !.n = n, !.mode = FirstMode(x.q)]

\* The patterns, which no longer depend on how much the catalog knew.
Globs(x, n) == [Attempt(x, "globs", n) EXCEPT !.located = FALSE]

\* The extension reads by the table's location, the glob patterns without it; the
\* extension may come and go while another request initialises.
ByLocation(x, phase) ==
    IF available /\ x.located THEN Attempt(x, phase, 0) ELSE Globs(x, 1)

\* Mutant: a pattern without rows is tried again.
NextAttempt_SamePattern(x) ==
    CASE x.phase \in {"files", "manifest"} -> ByLocation(x, "scan")
      [] x.phase = "scan" -> Globs(x, 1)
      [] x.phase = "globs" -> IF x.n < Patterns THEN Globs(x, x.n) ELSE Idle

\* After an attempt without rows: the extension's scan comes after the files of the
\* manifest, the patterns after either, one by one; after the last, there are no rows.
NextAttempt(x) ==
    CASE x.phase \in {"files", "manifest"} -> ByLocation(x, "scan")
      [] x.phase = "scan" -> Globs(x, 1)
      [] x.phase = "globs" -> IF x.n < Patterns THEN Globs(x, x.n + 1) ELSE Idle

\* The settings a query writes: its credentials if it has some, and its endpoint or none.
Write(setting, value) == [setting |-> setting, value |-> value]
Credentials(q) == IF q.key = None THEN <<>> ELSE <<Write("credentials", q.key)>>

\* Mutant: what is not given is not reset.
Statements_NoReset(q) ==
    Credentials(q) \o IF q.endpoint = None THEN <<>> ELSE <<Write("endpoint", q.endpoint)>>

Statements(q) == Credentials(q) \o <<Write("endpoint", q.endpoint)>>

\* The n-th statement comes next, or the table is read.
Configure(x, n) ==
    IF n > Len(Statements(x.q)) THEN ByLocation(x, "files")
    ELSE [x EXCEPT !.phase = "set", !.n = n]

On(x, phase, db) == [x EXCEPT !.phase = phase, !.db = db]

-----------------------------------------------------------------------------
(* initDuckDB.                                                               *)

\* Up to its first await.
InitDuckDB(x) ==
    IF instance # None /\ installed THEN Configure([x EXCEPT !.db = instance], 1)
    ELSE IF initError THEN Idle
    ELSE IF instance = None THEN On(x, "create", None)
    ELSE On(x, "install", instance)

\* handleQueryTable: the catalog knows where the table is, or at least its metadata; or
\* it does not know the table, or fails.
TableLocated(r) ==
    /\ rq[r].phase = "metadata"
    /\ \E located \in BOOLEAN : Go(r, InitDuckDB([rq[r] EXCEPT !.located = located]))
    /\ UNCHANGED <<engineVars, settings>>

TableMissing(r) ==
    /\ rq[r].phase = "metadata"
    /\ Respond(r)
    /\ UNCHANGED <<engineVars, settings>>

\* Two first requests make an instance each, and the later one stays.
Created(r) ==
    /\ rq[r].phase = "create"
    /\ created' = created \cup {r}
    /\ instance' = r
    /\ Go(r, On(rq[r], IF installed THEN "cache" ELSE "install", r))
    /\ UNCHANGED <<httpfs, uncached, installed, available, initError, settings>>

\* Mutant: the extensions count as installed before they are.
HttpfsInstalled_Early(r) ==
    /\ rq[r].phase = "install"
    /\ Go(r, On(rq[r], "load", instance))
    /\ installed' = TRUE
    /\ UNCHANGED <<instance, created, httpfs, uncached, available, initError, settings>>

HttpfsInstalled(r) ==
    /\ rq[r].phase = "install"
    /\ Go(r, On(rq[r], "load", instance))
    /\ UNCHANGED <<engineVars, settings>>

HttpfsLoaded(r) ==
    /\ rq[r].phase = "load"
    /\ httpfs' = httpfs \cup {rq[r].db}
    /\ Go(r, On(rq[r], "iceberg", instance))
    /\ UNCHANGED <<instance, created, uncached, installed, available, initError, settings>>

\* The iceberg extension is optional.
IcebergLoadedOrNot(r) ==
    /\ rq[r].phase = "iceberg"
    /\ available' \in BOOLEAN
    /\ installed' = TRUE
    /\ Go(r, On(rq[r], "cache", instance))
    /\ UNCHANGED <<instance, created, httpfs, uncached, initError, settings>>

CacheOff(r) ==
    /\ rq[r].phase = "cache"
    /\ uncached' = uncached \cup {rq[r].db}
    /\ Go(r, Configure([rq[r] EXCEPT !.db = instance], 1))
    /\ UNCHANGED <<instance, created, httpfs, installed, available, initError, settings>>

\* An error on the way is remembered.
InitFails(r) ==
    /\ rq[r].phase \in Initialising \ {"iceberg"}
    /\ initError' = TRUE
    /\ Respond(r)
    /\ UNCHANGED <<instance, created, httpfs, uncached, installed, available, settings>>

-----------------------------------------------------------------------------
(* executeDuckDbIcebergQuery.                                                *)

\* A RESET may fail, and that is ignored.
Set(r) ==
    /\ rq[r].phase = "set"
    /\ LET x == rq[r]
           w == Statements(x.q)[x.n]
       IN /\ settings' = IF w.value = None /\ ~CanReset THEN settings
                         ELSE [settings EXCEPT ![x.db][w.setting] = w.value]
          /\ rq' = [rq EXCEPT ![r] = Configure(x, x.n + 1)]
          /\ mixed' = mixed \cup {o \in Request \ {r} : Uses(o, x.db)}
    /\ UNCHANGED engineVars

SetFails(r) ==
    /\ rq[r].phase = "set"
    /\ Statements(rq[r].q)[rq[r].n].value # None
    /\ Respond(r)
    /\ UNCHANGED <<engineVars, settings>>

\* The files of the manifest.
FilesListed(r) ==
    /\ rq[r].phase = "files"
    /\ Go(r, Attempt(rq[r], "manifest", 0))
    /\ UNCHANGED <<engineVars, settings>>

NoFiles(r) ==
    /\ rq[r].phase = "files"
    /\ Go(r, NextAttempt(rq[r]))
    /\ UNCHANGED <<engineVars, settings>>

Querying(r) == rq[r].phase \in Reading \ {"files"}

Rows(r) ==
    /\ Querying(r)
    /\ Respond(r)
    /\ UNCHANGED <<engineVars, settings>>

NoRows(r) ==
    /\ Querying(r)
    /\ Go(r, NextAttempt(rq[r]))
    /\ UNCHANGED <<engineVars, settings>>

\* A failed attempt is followed by one in the next mode, after a ROLLBACK; the failure of
\* the last is that of the attempt.
QueryFails(r) ==
    /\ Querying(r)
    /\ Go(r, IF rq[r].mode = "plain" THEN NextAttempt(rq[r])
             ELSE [rq[r] EXCEPT !.mode = NextMode[rq[r].mode]])
    /\ UNCHANGED <<engineVars, settings>>

-----------------------------------------------------------------------------
Init ==
    /\ instance = None /\ created = {} /\ httpfs = {} /\ uncached = {}
    /\ installed = FALSE /\ available = FALSE /\ initError = FALSE
    /\ settings = [db \in Request |-> [s \in Setting |-> None]]
    /\ rq = [r \in Request |-> Idle] /\ mixed = {}

\* What is awaited answers.
Answer(r) ==
    \/ CatalogAnswers(r) \/ TablesListedOrNot(r)
    \/ TableLocated(r) \/ TableMissing(r)
    \/ Created(r) \/ HttpfsInstalled(r) \/ HttpfsLoaded(r) \/ IcebergLoadedOrNot(r)
    \/ CacheOff(r) \/ InitFails(r)
    \/ Set(r) \/ SetFails(r)
    \/ FilesListed(r) \/ NoFiles(r) \/ Rows(r) \/ NoRows(r) \/ QueryFails(r)

Next == \E r \in Request : Arrive(r) \/ Answer(r)

Spec == Init /\ [][Next]_vars

\* The catalog and DuckDB call back; nothing obliges anybody to ask.
FairSpec == Spec /\ \A r \in Request : WF_vars(Answer(r))

-----------------------------------------------------------------------------
(* Properties.                                                               *)

TypeOK ==
    /\ instance \in Request \cup {None} /\ created \subseteq Request
    /\ httpfs \subseteq Request /\ uncached \subseteq Request
    /\ installed \in BOOLEAN /\ available \in BOOLEAN /\ initError \in BOOLEAN
    /\ settings \in [Request -> [Setting -> Endpoint \cup Key \cup {None}]]
    /\ rq \in [Request ->
         [phase : Initialising \cup Reading \cup
                     {"idle", "catalog", "browse", "metadata", "set"},
          q : Query \cup {NoQuery}, located : BOOLEAN, db : Request \cup {None}, n : Nat,
          mode : {"amplitude", "none", "plain"}]]
    /\ mixed \subseteq Request

\* A query that no other has configured the instance under reads from the store it names,
\* with the credentials it names, whatever was asked before (executeDuckDbIcebergQuery).
ReadsItsStore ==
    \A r \in Request \ mixed :
        rq[r].phase \in Reading /\ CanReset =>
            LET q == rq[r].q  s == settings[rq[r].db]
            IN /\ s["endpoint"] = q.endpoint
               /\ q.key # None => s["credentials"] = q.key

\* A query is never run on an instance without httpfs, nor with the metadata cache on but
\* for one that overtakes the request switching it off, or after that failed: as long as
\* the first requests made one instance only (initDuckDB).
RunsOnConfigured ==
    \A r \in Request :
        rq[r].phase \in Reading \cup {"set"} /\ created = {rq[r].db} =>
            /\ rq[r].db \in httpfs
            /\ \/ rq[r].db \in uncached \/ initError
               \/ \E o \in Request : rq[o].phase = "cache"

\* Every request is answered, however many attempts fail.
EveryRequestAnswered ==
    \A r \in Request : rq[r].phase # "idle" ~> rq[r].phase = "idle"

\* "Configure S3 credentials for this query", "DuckDB settings persist on the cached
\* in-memory DB. Reset MinIO-specific S3 settings before querying real AWS S3": a query
\* runs with its own settings.
\* Refuted: IcebergMixes.cfg has the counterexample.
QueryHasItsSettings ==
    \A r \in Request :
        rq[r].phase \in Reading =>
            settings[rq[r].db] = [credentials |-> rq[r].q.key, endpoint |-> rq[r].q.endpoint]
=============================================================================
