------------------------- MODULE IcebergRouteProofs -------------------------
(***************************************************************************)
(* The safety properties of IcebergRoute for any requests, queries and     *)
(* bounds.  A query's settings are written one by one, with other requests *)
(* in between, so the proof follows how far each query has come, what of   *)
(* its statements is in effect, and how the first request, while others    *)
(* arrive, brings the only instance into the state all rely on.            *)
(***************************************************************************)
EXTENDS IcebergRoute, TLAPS

Phase == Initialising \cup Reading \cup {"idle", "catalog", "browse", "metadata", "set"}

RequestState ==
    [phase : Phase, q : Query \cup {NoQuery}, located : BOOLEAN, db : Request \cup {None},
     n : Nat, mode : {"amplitude", "none", "plain"}]

-----------------------------------------------------------------------------
(* The helpers: what they leave alone and where they may lead.                *)

\* A query names an endpoint and credentials or none, and may have a budget.
LEMMA QueryFields ==
    ASSUME NEW q \in Query \cup {NoQuery}
    PROVE  /\ q.endpoint \in Endpoint \cup {None}
           /\ q.key \in Key \cup {None}
           /\ q.budget \in BOOLEAN
<1>1. CASE q \in Query
    <2>1. q \in [endpoint : Endpoint \cup {None}, key : Key \cup {None}, budget : BOOLEAN]
        BY <1>1, RouteAssumption
    <2> QED
        BY <2>1
<1>2. CASE q = NoQuery
    BY <1>2 DEF NoQuery
<1> QED
    BY <1>1, <1>2

\* The fields of a request, one by one.
LEMMA Fields ==
    ASSUME NEW x \in RequestState
    PROVE  /\ x.phase \in Phase /\ x.q \in Query \cup {NoQuery} /\ x.located \in BOOLEAN
           /\ x.db \in Request \cup {None} /\ x.n \in Nat /\ x.mode \in {"amplitude", "none", "plain"}
BY DEF RequestState

\* A request may change its phase, its number and its mode.
LEMMA Changed ==
    ASSUME NEW x \in RequestState, NEW p \in Phase, NEW n \in Nat,
           NEW m \in {"amplitude", "none", "plain"}
    PROVE  /\ [x EXCEPT !.phase = p, !.n = n] \in RequestState
           /\ [x EXCEPT !.phase = p, !.n = n, !.mode = m] \in RequestState
BY DEF RequestState

\* Nothing is awaited at first.
LEMMA IdleState == Idle \in RequestState /\ Idle.phase = "idle"
<1>1. Idle.phase = "idle"
    BY DEF Idle
<1>2. Idle \in RequestState
    BY DEF Idle, RequestState, Phase, NoQuery
<1> QED
    BY <1>1, <1>2

\* One or two statements, the endpoint's last.
LEMMA StatementsShape ==
    ASSUME NEW q \in Query \cup {NoQuery}
    PROVE  \/ /\ q.key = None
              /\ Len(Statements(q)) = 1
              /\ Statements(q)[1] = Write("endpoint", q.endpoint)
           \/ /\ q.key # None
              /\ Len(Statements(q)) = 2
              /\ Statements(q)[1] = Write("credentials", q.key)
              /\ Statements(q)[2] = Write("endpoint", q.endpoint)
<1>1. CASE q.key = None
    BY <1>1 DEF Statements, Credentials, Write
<1>2. CASE q.key # None
    BY <1>2 DEF Statements, Credentials, Write
<1> QED
    BY <1>1, <1>2

\* The mode of a first attempt is a mode.
LEMMA FirstModeType == \A q : FirstMode(q) \in {"amplitude", "none", "plain"}
BY DEF FirstMode

\* The numbers of one or two statements.
LEMMA OneOrTwo ==
    \A k, l : (l = 1 \/ l = 2) /\ k \in 1..l => k = 1 \/ (k = 2 /\ l = 2)
OBVIOUS

\* y has the query and the instance of x.
SameQuery(x, y) == y.q = x.q /\ y.db = x.db

\* An attempt keeps the query and the instance.
LEMMA AttemptShape ==
    ASSUME NEW x \in RequestState, NEW p \in Phase, NEW n \in Nat
    PROVE  /\ Attempt(x, p, n) \in RequestState
           /\ Attempt(x, p, n).phase = p
           /\ SameQuery(x, Attempt(x, p, n))
<1>1. FirstMode(x.q) \in {"amplitude", "none", "plain"}
    BY FirstModeType
<1>2. Attempt(x, p, n) \in RequestState
    BY <1>1, Changed DEF Attempt
<1>3. Attempt(x, p, n).phase = p /\ Attempt(x, p, n).q = x.q /\ Attempt(x, p, n).db = x.db
    BY DEF Attempt, RequestState
<1> QED
    BY <1>2, <1>3 DEF SameQuery

LEMMA GlobsShape ==
    ASSUME NEW x \in RequestState, NEW n \in Nat
    PROVE  /\ Globs(x, n) \in RequestState
           /\ Globs(x, n).phase = "globs"
           /\ SameQuery(x, Globs(x, n))
<1> DEFINE a == Attempt(x, "globs", n)
<1>1. a \in RequestState /\ a.phase = "globs" /\ SameQuery(x, a)
    BY AttemptShape DEF Phase, Reading
<1>2. Globs(x, n) = [a EXCEPT !.located = FALSE]
    BY DEF Globs
<1> HIDE DEF a
<1>3. [a EXCEPT !.located = FALSE] \in RequestState
    BY <1>1 DEF RequestState
<1>4. [a EXCEPT !.located = FALSE].phase = a.phase
    BY <1>1 DEF RequestState
<1>5. SameQuery(x, [a EXCEPT !.located = FALSE])
    BY <1>1 DEF RequestState, SameQuery
<1> QED
    BY <1>1, <1>2, <1>3, <1>4, <1>5

\* y reads the table for the query of x.
ReadsFor(x, y) == y \in RequestState /\ y.phase \in Reading /\ SameQuery(x, y)

LEMMA ByLocationReads ==
    ASSUME NEW x \in RequestState, NEW p \in Reading
    PROVE  ReadsFor(x, ByLocation(x, p))
<1>1. p \in Phase /\ "globs" \in Reading
    BY DEF Phase, Reading
<1> QED
    BY <1>1, AttemptShape, GlobsShape DEF ByLocation, ReadsFor

\* An attempt without rows leads to another, or to the end.
LEMMA NextAttemptReads ==
    ASSUME NEW x \in RequestState, x.phase \in Reading
    PROVE  NextAttempt(x) = Idle \/ ReadsFor(x, NextAttempt(x))
<1>1. CASE x.phase \in {"files", "manifest"}
    <2>1. NextAttempt(x) = ByLocation(x, "scan")
        BY <1>1 DEF NextAttempt
    <2> QED
        BY <2>1, ByLocationReads DEF Reading
<1>2. CASE x.phase = "scan"
    <2>1. NextAttempt(x) = Globs(x, 1)
        BY <1>2 DEF NextAttempt
    <2> QED
        BY <2>1, GlobsShape DEF ReadsFor, Reading
<1>3. CASE x.phase = "globs"
    <2>1. NextAttempt(x) = IF x.n < Patterns THEN Globs(x, x.n + 1) ELSE Idle
        BY <1>3 DEF NextAttempt
    <2>2. x.n + 1 \in Nat
        BY Fields
    <2> QED
        BY <2>1, <2>2, GlobsShape DEF ReadsFor, Reading
<1> QED
    BY <1>1, <1>2, <1>3 DEF Reading

\* Before the n-th statement, the statement is awaited if there is one.
LEMMA ConfigureShape ==
    ASSUME NEW x \in RequestState, NEW n \in Nat \ {0}
    PROVE  \/ n > Len(Statements(x.q)) /\ ReadsFor(x, Configure(x, n))
           \/ /\ n <= Len(Statements(x.q)) /\ Configure(x, n) \in RequestState
              /\ Configure(x, n).phase = "set" /\ Configure(x, n).n = n
              /\ SameQuery(x, Configure(x, n))
<1>1. Len(Statements(x.q)) \in Nat
    BY StatementsShape, Fields
<1>2. CASE n > Len(Statements(x.q))
    BY <1>2, ByLocationReads DEF Configure, Reading
<1>3. CASE n <= Len(Statements(x.q))
    <2>1. Configure(x, n) = [x EXCEPT !.phase = "set", !.n = n]
        BY <1>1, <1>3 DEF Configure
    <2>2. [x EXCEPT !.phase = "set", !.n = n] \in RequestState
        BY Changed DEF Phase
    <2>3. /\ [x EXCEPT !.phase = "set", !.n = n].phase = "set"
          /\ [x EXCEPT !.phase = "set", !.n = n].n = n
          /\ SameQuery(x, [x EXCEPT !.phase = "set", !.n = n])
        BY DEF RequestState, SameQuery
    <2> QED
        BY <1>3, <2>1, <2>2, <2>3
<1> QED
    BY <1>1, <1>2, <1>3

LEMMA OnShape ==
    ASSUME NEW x \in RequestState, NEW p \in Phase, NEW db \in Request \cup {None}
    PROVE  /\ On(x, p, db) \in RequestState
           /\ On(x, p, db).phase = p
           /\ On(x, p, db).db = db
<1>1. On(x, p, db) \in RequestState
    BY DEF On, RequestState
<1> QED
    BY <1>1 DEF On, RequestState

\* With an instance, a query starts configuring it.
LEMMA StartsConfiguring ==
    ASSUME NEW x \in RequestState, NEW db \in Request \cup {None}
    PROVE  LET y == Configure([x EXCEPT !.db = db], 1)
           IN  /\ y \in RequestState /\ y.phase = "set" /\ y.n = 1 /\ y.db = db
               /\ Len(Statements(y.q)) >= 1
<1> DEFINE z == [x EXCEPT !.db = db]
<1>1. z \in RequestState /\ z.db = db
    BY DEF RequestState
<1> HIDE DEF z
<1>2. Len(Statements(z.q)) \in Nat /\ Len(Statements(z.q)) >= 1
    BY <1>1, StatementsShape, Fields
<1>3. /\ Configure(z, 1) \in RequestState /\ Configure(z, 1).phase = "set"
      /\ Configure(z, 1).n = 1 /\ SameQuery(z, Configure(z, 1))
    <2>1. ~(1 > Len(Statements(z.q)))
        BY <1>2
    <2> QED
        BY <1>1, <2>1, ConfigureShape
<1> QED
    BY <1>1, <1>2, <1>3 DEF SameQuery, z

\* initDuckDB up to its first await: an error remembered, the instance configured, or one
\* of its first two steps.
LEMMA InitDuckDBShape ==
    ASSUME NEW x \in RequestState, instance \in Request \cup {None}
    PROVE  LET y == InitDuckDB(x)
           IN  \/ y = Idle
               \/ /\ instance # None /\ installed
                  /\ y = Configure([x EXCEPT !.db = instance], 1)
               \/ instance = None /\ y \in RequestState /\ y.phase = "create"
               \/ /\ instance # None /\ y \in RequestState
                  /\ y.phase = "install" /\ y.db = instance
<1>1. "create" \in Phase /\ "install" \in Phase
    BY DEF Phase, Initialising
<1> QED
    BY <1>1, OnShape DEF InitDuckDB

-----------------------------------------------------------------------------
(* The invariant.                                                             *)

\* The statements of x that come before its next one are in effect.
InEffect(x) ==
    x.phase \in Reading \cup {"set"} =>
        \A i \in 1..Len(Statements(x.q)) :
            x.phase \in Reading \/ i < x.n =>
                settings[x.db][Statements(x.q)[i].setting] = Statements(x.q)[i].value

\* What request r relies on while it awaits x.
Fits(r, x) ==
    /\ x.phase = "set" => x.n \in 1..Len(Statements(x.q))
    /\ x.phase = "browse" => x.n # 0
    /\ x.phase = "create" => r \notin created
    /\ x.phase \in (Initialising \ {"create"}) \cup Reading \cup {"set"} => x.db \in created
    /\ x.phase \in {"cache", "set"} \cup Reading => installed
    /\ x.phase = "iceberg" => \A d \in Request : created = {d} => d \in httpfs

Instances ==
    \/ instance = None /\ created = {} /\ ~installed
    \/ instance \in created

\* A single instance, once the extensions are installed, is ready or about to be.
Ready ==
    \A d \in Request : created = {d} /\ installed =>
        /\ d \in httpfs
        /\ d \in uncached \/ initError \/ \E o \in Request : rq[o].phase = "cache"

IInv ==
    /\ TypeOK
    /\ Instances
    /\ Ready
    /\ \A r \in Request : Fits(r, rq[r])
    /\ CanReset => \A r \in Request \ mixed : InEffect(rq[r])

EngineTyped ==
    /\ instance \in Request \cup {None} /\ created \subseteq Request
    /\ httpfs \subseteq Request /\ uncached \subseteq Request
    /\ installed \in BOOLEAN /\ available \in BOOLEAN /\ initError \in BOOLEAN

LEMMA Types ==
    TypeOK <=> /\ EngineTyped
               /\ settings \in [Request -> [Setting -> Endpoint \cup Key \cup {None}]]
               /\ rq \in [Request -> RequestState]
               /\ mixed \subseteq Request
<1>1. Phase = Initialising \cup Reading \cup {"idle", "catalog", "browse", "metadata", "set"}
    BY DEF Phase
<1> QED
    BY <1>1 DEF TypeOK, EngineTyped, RequestState

\* A request without a query under way relies on nothing.
LEMMA AwaitsNothing ==
    ASSUME NEW r \in Request, NEW x, x.phase \in {"idle", "catalog", "browse", "metadata"},
           x.phase = "browse" => x.n # 0
    PROVE  Fits(r, x) /\ InEffect(x)
BY DEF Fits, InEffect, Initialising, Reading

\* A request goes on to x, and all that others rely on stays.
LEMMA GoKeeps ==
    ASSUME IInv, NEW r \in Request, NEW x \in RequestState, Go(r, x),
           UNCHANGED <<engineVars, settings>>, rq[r].phase # "cache",
           Fits(r, x), ~CanReset \/ (r \in mixed /\ x # Idle) \/ InEffect(x)
    PROVE  IInv'
<1>1. rq' = [rq EXCEPT ![r] = x] /\ mixed' \subseteq mixed /\ mixed \subseteq mixed' \cup {r}
    BY DEF Go
<1>2. r \in mixed => r \in mixed' \/ x = Idle
    BY DEF Go
<1>3. rq'[r] = x /\ \A o \in Request \ {r} : rq'[o] = rq[o]
    BY <1>1, Types DEF IInv
<1>4. TypeOK'
    <2>1. rq' \in [Request -> RequestState]
        BY <1>1, Types DEF IInv
    <2>2. mixed' \subseteq Request
        BY <1>1, Types DEF IInv
    <2> QED
        BY <2>1, <2>2 DEF IInv, TypeOK, engineVars, RequestState, Phase
<1>5. Instances'
    BY DEF IInv, Instances, engineVars
<1>6. Ready'
    BY <1>3 DEF IInv, Ready, engineVars
<1>7. \A o \in Request : Fits(o, rq[o])'
    BY <1>3 DEF IInv, Fits, engineVars
<1>8. CanReset => \A o \in Request \ mixed' : InEffect(rq[o])'
    <2> SUFFICES ASSUME CanReset, NEW o \in Request \ mixed' PROVE InEffect(rq[o])'
        OBVIOUS
    <2>1. CASE o = r
        BY <1>2, <1>3, <2>1 DEF InEffect
    <2>2. CASE o # r
        BY <1>1, <1>3, <2>2 DEF InEffect, IInv
    <2> QED
        BY <2>1, <2>2
<1> QED
    BY <1>4, <1>5, <1>6, <1>7, <1>8 DEF IInv

\* A request goes on to a phase that relies on nothing.
LEMMA GoAside ==
    ASSUME IInv, NEW r \in Request, NEW x \in RequestState, Go(r, x),
           UNCHANGED <<engineVars, settings>>, rq[r].phase # "cache",
           x.phase \in {"idle", "catalog", "browse", "metadata"}, x.phase = "browse" => x.n # 0
    PROVE  IInv'
BY AwaitsNothing, GoKeeps

\* A request is answered.
LEMMA RespondKeeps ==
    ASSUME IInv, NEW r \in Request, Respond(r), UNCHANGED <<engineVars, settings>>,
           rq[r].phase # "cache"
    PROVE  IInv'
BY IdleState, GoAside DEF Respond

\* A query reads on, with the settings it has.
LEMMA ReadsOn ==
    ASSUME IInv, NEW r \in Request, rq[r].phase \in Reading, NEW x, ReadsFor(rq[r], x),
           Go(r, x), UNCHANGED <<engineVars, settings>>
    PROVE  IInv'
<1>1. x \in RequestState /\ x.phase \in Reading /\ x.q = rq[r].q /\ x.db = rq[r].db
    BY DEF ReadsFor, SameQuery
<1>2. rq[r].phase # "cache" /\ x # Idle
    BY <1>1, IdleState DEF Reading
<1>3. Fits(r, x)
    BY <1>1 DEF IInv, Fits, Reading, Initialising
<1>4. r \in mixed \/ ~CanReset \/ InEffect(x)
    BY <1>1 DEF IInv, InEffect
<1> QED
    BY <1>1, <1>2, <1>3, <1>4, GoKeeps

\* An instance known to others is passed on.
LEMMA InstanceKnown ==
    ASSUME IInv, created # {}
    PROVE  instance \in created /\ instance \in Request
BY DEF IInv, Instances, TypeOK

\* A statement in effect stays so until another query's is written, and the next one's
\* setting is a different one.
LEMMA SetKeeps ==
    ASSUME IInv, NEW r \in Request, Set(r)
    PROVE  IInv'
<1> DEFINE x == rq[r]
           w == Statements(x.q)[x.n]
           y == Configure(x, x.n + 1)
<1>1. x \in RequestState /\ x.phase = "set" /\ x.n \in 1..Len(Statements(x.q)) /\ x.q \in Query \cup {NoQuery}
    <2>1. x \in RequestState /\ x.phase = "set"
        BY Types DEF IInv, Set
    <2> QED
        BY <2>1, Fields DEF IInv, Fits
<1>2. x.db \in created /\ installed /\ x.db \in Request
    BY <1>1 DEF IInv, Fits, TypeOK, Reading
<1>3. /\ settings' = IF w.value = None /\ ~CanReset THEN settings
                     ELSE [settings EXCEPT ![x.db][w.setting] = w.value]
      /\ rq' = [rq EXCEPT ![r] = y]
      /\ mixed' = mixed \cup {o \in Request \ {r} : Uses(o, x.db)}
      /\ UNCHANGED engineVars
    BY DEF Set
<1>4. w.setting \in Setting /\ w.value \in Endpoint \cup Key \cup {None}
    <2>1. x.q.endpoint \in Endpoint \cup {None} /\ x.q.key \in Key \cup {None}
        BY <1>1, QueryFields
    <2>2. w = Write("endpoint", x.q.endpoint) \/ w = Write("credentials", x.q.key)
        <3>1. x.n = 1 \/ (x.n = 2 /\ Len(Statements(x.q)) = 2)
            <4>1. Len(Statements(x.q)) = 1 \/ Len(Statements(x.q)) = 2
                BY <1>1, StatementsShape
            <4>2. x.n \in 1..Len(Statements(x.q))
                BY <1>1
            <4> QED
                BY <4>1, <4>2, OneOrTwo
        <3> QED
            BY <1>1, <3>1, StatementsShape
    <2> QED
        BY <2>1, <2>2 DEF Write, Setting
<1>5. x.n + 1 \in Nat \ {0} /\ Len(Statements(x.q)) \in Nat
    BY <1>1, StatementsShape
<1>6. \/ x.n + 1 > Len(Statements(x.q)) /\ ReadsFor(x, y)
      \/ /\ x.n + 1 <= Len(Statements(x.q)) /\ y \in RequestState
         /\ y.phase = "set" /\ y.n = x.n + 1 /\ SameQuery(x, y)
    BY <1>1, <1>5, ConfigureShape
<1>7. y \in RequestState /\ y.phase \in Reading \cup {"set"} /\ y.q = x.q /\ y.db = x.db
    BY <1>6 DEF ReadsFor, SameQuery
<1> HIDE DEF x, y, w
<1>8. rq'[r] = y /\ \A o \in Request \ {r} : rq'[o] = rq[o]
    BY <1>3, Types DEF IInv
<1>9. TypeOK'
    <2>1. rq' \in [Request -> RequestState]
        BY <1>3, <1>7, Types DEF IInv
    <2>2. settings' \in [Request -> [Setting -> Endpoint \cup Key \cup {None}]]
        BY <1>2, <1>3, <1>4, Types DEF IInv
    <2>3. mixed' \subseteq Request
        BY <1>3, Types DEF IInv
    <2> QED
        BY <1>3, <2>1, <2>2, <2>3 DEF IInv, TypeOK, engineVars, RequestState, Phase
<1>10. Instances'
    BY <1>3 DEF IInv, Instances, engineVars
<1>11. Ready'
    BY <1>1, <1>3, <1>8 DEF IInv, Ready, engineVars, x
<1>12. \A o \in Request : Fits(o, rq[o])'
    <2>1. Fits(r, y)
        BY <1>2, <1>5, <1>6, <1>7 DEF Fits, Reading, Initialising, ReadsFor
    <2> QED
        BY <1>3, <1>8, <2>1 DEF IInv, Fits, engineVars
<1>13. CanReset => \A o \in Request \ mixed' : InEffect(rq[o])'
    <2> SUFFICES ASSUME CanReset, NEW o \in Request \ mixed' PROVE InEffect(rq[o])'
        OBVIOUS
    <2>1. settings' = [settings EXCEPT ![x.db][w.setting] = w.value]
        BY <1>3
    <2>2. o \notin mixed
        BY <1>3
    <2>3. CASE o # r
        <3>1. InEffect(rq[o])
            BY <2>2 DEF IInv
        <3>2. rq[o].phase \in Reading \cup {"set"} => rq[o].db # x.db
            BY <1>3, <2>3 DEF Uses
        <3>3. rq[o].db # x.db => settings'[rq[o].db] = settings[rq[o].db]
            BY <2>1, <1>2, Types DEF IInv
        <3> QED
            BY <1>8, <2>3, <3>1, <3>2, <3>3 DEF InEffect
    <2>4. CASE o = r
        <3>1. /\ settings'[x.db][w.setting] = w.value
              /\ \A t \in Setting \ {w.setting} : settings'[x.db][t] = settings[x.db][t]
            BY <1>2, <1>4, <2>1, Types DEF IInv
        <3>2. InEffect(x)
            BY <2>2, <2>4 DEF IInv, x
        <3>3. \A i \in 1..Len(Statements(x.q)) :
                  i < x.n => settings[x.db][Statements(x.q)[i].setting] = Statements(x.q)[i].value
            BY <1>1, <3>2 DEF InEffect
        <3>4. \A i \in 1..Len(Statements(x.q)) :
                  i < x.n => Statements(x.q)[i].setting \in Setting \ {w.setting}
            <4> SUFFICES ASSUME NEW i \in 1..Len(Statements(x.q)), i < x.n
                         PROVE  Statements(x.q)[i].setting \in Setting \ {w.setting}
                OBVIOUS
            <4>1. Len(Statements(x.q)) = 2 /\ i = 1 /\ x.n = 2
                <5>1. Len(Statements(x.q)) = 1 \/ Len(Statements(x.q)) = 2
                    BY <1>1, StatementsShape
                <5>2. x.n \in 1..Len(Statements(x.q))
                    BY <1>1
                <5>3. i = 1 \/ i = 2
                    BY <5>1, OneOrTwo
                <5>4. x.n = 1 \/ (x.n = 2 /\ Len(Statements(x.q)) = 2)
                    BY <5>1, <5>2, OneOrTwo
                <5> QED
                    BY <5>3, <5>4
            <4>2. Statements(x.q)[i] = Write("credentials", x.q.key) /\ w = Write("endpoint", x.q.endpoint)
                BY <1>1, <4>1, StatementsShape DEF w
            <4> QED
                BY <4>2 DEF Setting, Write
        <3>5. \A i \in 1..Len(Statements(x.q)) :
                  i < x.n + 1 => settings'[x.db][Statements(x.q)[i].setting] = Statements(x.q)[i].value
            BY <1>1, <3>1, <3>3, <3>4 DEF w
        <3>6. \A i \in 1..Len(Statements(x.q)) : y.phase \in Reading \/ i < y.n => i < x.n + 1
            <4>1. CASE x.n + 1 > Len(Statements(x.q))
                BY <1>5, <1>1, <4>1
            <4>2. CASE y.phase = "set" /\ y.n = x.n + 1
                BY <4>2 DEF Reading
            <4> QED
                BY <1>6, <4>1, <4>2
        <3> QED
            BY <1>7, <1>8, <2>4, <3>5, <3>6 DEF InEffect
    <2> QED
        BY <2>3, <2>4
<1> QED
    BY <1>9, <1>10, <1>11, <1>12, <1>13 DEF IInv

\* A step of initDuckDB for request r: what it changes of the instances and flags only
\* adds to what the others rely on.
LEMMA EngineKeeps ==
    ASSUME IInv, NEW r \in Request, NEW x \in RequestState, Go(r, x), UNCHANGED settings,
           EngineTyped', Instances', Ready', Fits(r, rq[r])', InEffect(x),
           created' = created \/ (created' = created \cup {r} /\ r \notin created),
           installed => installed', httpfs \subseteq httpfs'
    PROVE  IInv'
<1>1. rq' = [rq EXCEPT ![r] = x] /\ mixed' \subseteq mixed /\ mixed \subseteq mixed' \cup {r}
    BY DEF Go
<1>2. rq'[r] = x /\ \A o \in Request \ {r} : rq'[o] = rq[o]
    BY <1>1, Types DEF IInv
<1>3. TypeOK'
    <2>1. rq' \in [Request -> RequestState]
        BY <1>1, Types DEF IInv
    <2>2. mixed' \subseteq Request /\ settings' \in [Request -> [Setting -> Endpoint \cup Key \cup {None}]]
        BY <1>1, Types DEF IInv
    <2> QED
        BY <2>1, <2>2 DEF EngineTyped, TypeOK, RequestState, Phase
<1>4. \A o \in Request : Fits(o, rq[o])'
    <2> SUFFICES ASSUME NEW o \in Request, o # r PROVE Fits(o, rq[o])'
        OBVIOUS
    <2>1. Fits(o, rq[o]) /\ rq'[o] = rq[o]
        BY <1>2 DEF IInv
    <2>2. rq[o].phase = "iceberg" => \A d \in Request : created' = {d} => d \in httpfs'
        <3> SUFFICES ASSUME rq[o].phase = "iceberg", NEW d \in Request, created' = {d} PROVE d \in httpfs'
            OBVIOUS
        <3>1. rq[o].db \in created
            BY <2>1 DEF Fits, Initialising
        <3>2. created = {d}
            BY <3>1
        <3> QED
            BY <2>1, <3>2 DEF Fits
    <2> QED
        BY <2>1, <2>2 DEF Fits
<1>5. CanReset => \A o \in Request \ mixed' : InEffect(rq[o])'
    BY <1>1, <1>2 DEF InEffect, IInv
<1> QED
    BY <1>3, <1>4, <1>5 DEF IInv

\* Every step keeps the invariant.
LEMMA InvStep == IInv /\ [Next]_vars => IInv'
<1> SUFFICES ASSUME IInv, [Next]_vars PROVE IInv'
    OBVIOUS
<1>0. \A r \in Request : rq[r] \in RequestState /\ Fits(r, rq[r])
    BY Types DEF IInv
<1>1. ASSUME NEW r \in Request, Arrive(r) PROVE IInv'
    <2>1. CASE Go(r, [Idle EXCEPT !.phase = "catalog"])
        <3> DEFINE y == [Idle EXCEPT !.phase = "catalog"]
        <3>1. y.phase = "catalog" /\ y \in RequestState
            BY IdleState DEF RequestState, Phase
        <3> HIDE DEF y
        <3>2. Go(r, y)
            BY <2>1 DEF y
        <3> QED
            BY <1>1, <3>1, <3>2, GoAside DEF Arrive
    <2>2. ASSUME NEW q \in Query, Go(r, [Idle EXCEPT !.phase = "metadata", !.q = q]) PROVE IInv'
        <3> DEFINE y == [Idle EXCEPT !.phase = "metadata", !.q = q]
        <3>1. y.phase = "metadata" /\ y \in RequestState
            BY IdleState DEF RequestState, Phase
        <3> HIDE DEF y
        <3>2. Go(r, y)
            BY <2>2 DEF y
        <3> QED
            BY <1>1, <3>1, <3>2, GoAside DEF Arrive
    <2> QED
        BY <1>1, <2>1, <2>2 DEF Arrive
<1>2. ASSUME NEW r \in Request, NEW n \in Nat, Browse(r, n), UNCHANGED <<engineVars, settings>>,
             rq[r].phase # "cache"
      PROVE  IInv'
    <2>1. CASE n = 0
        BY <1>2, <2>1, RespondKeeps DEF Browse, Respond
    <2>2. CASE n # 0
        <3> DEFINE y == [rq[r] EXCEPT !.phase = "browse", !.n = n]
        <3>1. y.phase = "browse" /\ y.n # 0 /\ y \in RequestState
            BY <1>0, <2>2 DEF RequestState, Phase
        <3> HIDE DEF y
        <3>2. Go(r, y)
            BY <1>2, <2>2 DEF Browse, y
        <3> QED
            BY <1>2, <3>1, <3>2, GoAside
    <2> QED
        BY <2>1, <2>2
<1>3. ASSUME NEW r \in Request, CatalogAnswers(r) PROVE IInv'
    <2>1. PICK n \in 0..Namespaces : Browse(r, n)
        BY <1>3 DEF CatalogAnswers
    <2>2. n \in Nat
        BY RouteAssumption
    <2> QED
        BY <1>2, <1>3, <2>1, <2>2 DEF CatalogAnswers
<1>4. ASSUME NEW r \in Request, TablesListedOrNot(r) PROVE IInv'
    <2>1. rq[r].phase = "browse" /\ Browse(r, rq[r].n - 1)
        BY <1>4 DEF TablesListedOrNot
    <2>2. rq[r].n - 1 \in Nat
        BY <1>0, <2>1, Fields DEF Fits
    <2> QED
        BY <1>2, <1>4, <2>1, <2>2 DEF TablesListedOrNot
<1>5. ASSUME NEW r \in Request, TableLocated(r) PROVE IInv'
    <2>1. PICK located \in BOOLEAN : Go(r, InitDuckDB([rq[r] EXCEPT !.located = located]))
        BY <1>5 DEF TableLocated
    <2> DEFINE x == [rq[r] EXCEPT !.located = located]
    <2>2. x \in RequestState
        BY <1>0 DEF RequestState
    <2> HIDE DEF x
    <2>3. Go(r, InitDuckDB(x)) /\ UNCHANGED <<engineVars, settings>> /\ rq[r].phase = "metadata"
        BY <1>5, <2>1 DEF TableLocated, x
    <2>4. CASE InitDuckDB(x) = Idle
        BY <2>3, <2>4, RespondKeeps DEF Respond
    <2>5. CASE /\ instance # None /\ installed
               /\ InitDuckDB(x) = Configure([x EXCEPT !.db = instance], 1)
        <3> DEFINE y == Configure([x EXCEPT !.db = instance], 1)
        <3>1. instance \in created /\ instance \in Request
            BY <2>5 DEF IInv, Instances, TypeOK
        <3>2. /\ y \in RequestState /\ y.phase = "set" /\ y.n = 1 /\ y.db = instance
              /\ Len(Statements(y.q)) >= 1
            BY <2>2, <3>1, StartsConfiguring
        <3> HIDE DEF y
        <3>3. Len(Statements(y.q)) \in Nat
            BY <3>2, StatementsShape, Fields
        <3>4. Fits(r, y) /\ InEffect(y)
            BY <2>5, <3>1, <3>2, <3>3 DEF Fits, InEffect, Reading, Initialising
        <3> QED
            BY <2>3, <2>5, <3>2, <3>4, GoKeeps DEF y
    <2>6. CASE instance = None /\ InitDuckDB(x) \in RequestState /\ InitDuckDB(x).phase = "create"
        <3>1. created = {}
            BY <2>6, RouteAssumption DEF IInv, Instances, TypeOK
        <3>2. Fits(r, InitDuckDB(x)) /\ InEffect(InitDuckDB(x))
            BY <2>6, <3>1 DEF Fits, InEffect, Reading, Initialising
        <3> QED
            BY <2>3, <2>6, <3>2, GoKeeps
    <2>7. CASE /\ instance # None /\ InitDuckDB(x) \in RequestState
               /\ InitDuckDB(x).phase = "install" /\ InitDuckDB(x).db = instance
        <3>1. instance \in created
            BY <2>7 DEF IInv, Instances
        <3>2. Fits(r, InitDuckDB(x)) /\ InEffect(InitDuckDB(x))
            BY <2>7, <3>1 DEF Fits, InEffect, Reading, Initialising
        <3> QED
            BY <2>3, <2>7, <3>2, GoKeeps
    <2> QED
        BY <2>2, <2>4, <2>5, <2>6, <2>7, InitDuckDBShape DEF IInv, TypeOK
<1>6. ASSUME NEW r \in Request, TableMissing(r) PROVE IInv'
    BY <1>6, RespondKeeps DEF TableMissing
<1>7. ASSUME NEW r \in Request, SetFails(r) PROVE IInv'
    BY <1>7, RespondKeeps DEF SetFails
<1>8. ASSUME NEW r \in Request, Rows(r) PROVE IInv'
    BY <1>8, RespondKeeps DEF Rows, Querying, Reading
<1>9. ASSUME NEW r \in Request, Set(r) PROVE IInv'
    BY <1>9, SetKeeps
<1>10. ASSUME NEW r \in Request, rq[r].phase \in Reading, Go(r, NextAttempt(rq[r])),
              UNCHANGED <<engineVars, settings>>
       PROVE  IInv'
    <2>1. CASE NextAttempt(rq[r]) = Idle
        BY <1>10, <2>1, RespondKeeps DEF Respond, Reading
    <2>2. CASE ReadsFor(rq[r], NextAttempt(rq[r]))
        BY <1>10, <2>2, ReadsOn
    <2> QED
        BY <1>0, <1>10, <2>1, <2>2, NextAttemptReads
<1>11. ASSUME NEW r \in Request, FilesListed(r) PROVE IInv'
    <2>1. rq[r].phase \in Reading /\ "manifest" \in Reading /\ "manifest" \in Phase
        BY <1>11 DEF FilesListed, Reading, Phase
    <2>2. ReadsFor(rq[r], Attempt(rq[r], "manifest", 0))
        BY <1>0, <2>1, AttemptShape DEF ReadsFor
    <2> QED
        BY <1>11, <2>1, <2>2, ReadsOn DEF FilesListed
<1>12. ASSUME NEW r \in Request, NoFiles(r) \/ NoRows(r) PROVE IInv'
    BY <1>10, <1>12 DEF NoFiles, NoRows, Querying, Reading
<1>13. ASSUME NEW r \in Request, QueryFails(r) PROVE IInv'
    <2>1. CASE rq[r].mode = "plain"
        BY <1>10, <1>13, <2>1 DEF QueryFails, Querying
    <2>2. CASE rq[r].mode # "plain"
        <3> DEFINE y == [rq[r] EXCEPT !.mode = NextMode[rq[r].mode]]
        <3>1. NextMode[rq[r].mode] \in {"amplitude", "none", "plain"}
            BY <1>0, <2>2, Fields DEF NextMode
        <3>2. y \in RequestState /\ y.phase = rq[r].phase /\ SameQuery(rq[r], y)
            BY <1>0, <3>1 DEF RequestState, SameQuery
        <3>3. rq[r].phase \in Reading
            BY <1>13 DEF QueryFails, Querying
        <3> HIDE DEF y
        <3>4. ReadsFor(rq[r], y)
            BY <3>2, <3>3 DEF ReadsFor
        <3>5. Go(r, y) /\ UNCHANGED <<engineVars, settings>>
            BY <1>13, <2>2 DEF QueryFails, y
        <3> QED
            BY <3>3, <3>4, <3>5, ReadsOn
    <2> QED
        BY <2>1, <2>2
<1>14. ASSUME NEW r \in Request, NEW x, x.phase \in Initialising PROVE InEffect(x)
    BY <1>14 DEF InEffect, Initialising, Reading
<1>16. ASSUME NEW r \in Request, Created(r) PROVE IInv'
    <2> DEFINE p == IF installed THEN "cache" ELSE "install"
               x == On(rq[r], p, r)
    <2>1. x \in RequestState /\ x.phase = p /\ x.db = r
        BY <1>0, OnShape DEF Phase, Initialising
    <2>2. r \notin created
        BY <1>0, <1>16 DEF Created, Fits
    <2>3. /\ created' = created \cup {r} /\ instance' = r /\ Go(r, x)
          /\ UNCHANGED <<httpfs, uncached, installed, available, initError, settings>>
        BY <1>16 DEF Created
    <2>4. (p = "cache" /\ installed) \/ p = "install"
        OBVIOUS
    <2> HIDE DEF x, p
    <2>5. rq'[r] = x
        BY <2>3, Types DEF IInv, Go
    <2>6. EngineTyped' /\ Instances'
        BY <2>3, Types DEF IInv, EngineTyped, Instances
    <2>7. Ready'
        <3>1. installed => created # {}
            BY DEF IInv, Instances
        <3>2. installed => \A d \in Request : created' # {d}
            BY <2>2, <2>3, <3>1
        <3> QED
            BY <2>3, <3>2 DEF Ready
    <2>8. Fits(r, rq[r])'
        BY <2>1, <2>3, <2>4, <2>5 DEF Fits, Initialising, Reading
    <2>9. InEffect(x)
        BY <1>14, <2>1, <2>4 DEF Initialising
    <2> QED
        BY <2>1, <2>2, <2>3, <2>6, <2>7, <2>8, <2>9, EngineKeeps
<1>17. ASSUME NEW r \in Request, HttpfsInstalled(r) \/ HttpfsLoaded(r) \/ IcebergLoadedOrNot(r) PROVE IInv'
    <2>1. rq[r].db \in created /\ instance \in created /\ instance \in Request
        BY <1>0, <1>17, InstanceKnown DEF HttpfsInstalled, HttpfsLoaded, IcebergLoadedOrNot, Fits, Initialising
    <2>2. CASE HttpfsInstalled(r)
        <3> DEFINE x == On(rq[r], "load", instance)
        <3>1. x \in RequestState /\ x.phase = "load" /\ x.db = instance
            BY <1>0, <2>1, OnShape DEF Phase, Initialising
        <3> HIDE DEF x
        <3>2. Go(r, x) /\ UNCHANGED <<engineVars, settings>> /\ rq[r].phase = "install"
            BY <2>2 DEF HttpfsInstalled, x
        <3>3. Fits(r, x) /\ InEffect(x)
            BY <2>1, <3>1 DEF Fits, InEffect, Initialising, Reading
        <3> QED
            BY <3>1, <3>2, <3>3, GoKeeps
    <2>3. CASE HttpfsLoaded(r)
        <3> DEFINE x == On(rq[r], "iceberg", instance)
        <3>1. x \in RequestState /\ x.phase = "iceberg" /\ x.db = instance
            BY <1>0, <2>1, OnShape DEF Phase, Initialising
        <3> HIDE DEF x
        <3>2. /\ Go(r, x) /\ rq[r].phase = "load" /\ httpfs' = httpfs \cup {rq[r].db}
              /\ UNCHANGED <<instance, created, uncached, installed, available, initError, settings>>
            BY <2>3 DEF HttpfsLoaded, x
        <3>3. rq'[r] = x /\ \A o \in Request \ {r} : rq'[o] = rq[o]
            BY <3>2, Types DEF IInv, Go
        <3>4. EngineTyped' /\ Instances'
            BY <2>1, <3>2, Types DEF IInv, EngineTyped, Instances
        <3>5. Ready'
            BY <3>2, <3>3 DEF IInv, Ready
        <3>6. Fits(r, rq[r])'
            BY <2>1, <3>1, <3>2, <3>3 DEF Fits, Initialising, Reading
        <3>7. InEffect(x)
            BY <1>14, <3>1 DEF Initialising
        <3> QED
            BY <3>1, <3>2, <3>4, <3>5, <3>6, <3>7, EngineKeeps
    <2>4. CASE IcebergLoadedOrNot(r)
        <3> DEFINE x == On(rq[r], "cache", instance)
        <3>1. x \in RequestState /\ x.phase = "cache" /\ x.db = instance
            BY <1>0, <2>1, OnShape DEF Phase, Initialising
        <3> HIDE DEF x
        <3>2. /\ Go(r, x) /\ rq[r].phase = "iceberg" /\ available' \in BOOLEAN /\ installed' = TRUE
              /\ UNCHANGED <<instance, created, httpfs, uncached, initError, settings>>
            BY <2>4 DEF IcebergLoadedOrNot, x
        <3>3. rq'[r] = x
            BY <3>2, Types DEF IInv, Go
        <3>4. EngineTyped'
            BY <3>2, Types DEF IInv, EngineTyped
        <3>5. Instances'
            BY <2>1, <3>2 DEF Instances
        <3>6. Ready'
            BY <1>0, <3>1, <3>2, <3>3 DEF Ready, Fits
        <3>7. Fits(r, rq[r])'
            BY <2>1, <3>1, <3>2, <3>3 DEF Fits, Initialising, Reading
        <3>8. InEffect(x)
            BY <1>14, <3>1 DEF Initialising
        <3> QED
            BY <3>1, <3>2, <3>4, <3>5, <3>6, <3>7, <3>8, EngineKeeps
    <2> QED
        BY <1>17, <2>2, <2>3, <2>4
<1>18. ASSUME NEW r \in Request, CacheOff(r) PROVE IInv'
    <2>1. rq[r].db \in created /\ instance \in created /\ instance \in Request /\ installed
        BY <1>0, <1>18, InstanceKnown DEF CacheOff, Fits, Initialising
    <2> DEFINE x == Configure([rq[r] EXCEPT !.db = instance], 1)
    <2>2. /\ x \in RequestState /\ x.phase = "set" /\ x.n = 1 /\ x.db = instance
          /\ Len(Statements(x.q)) >= 1
        BY <1>0, <2>1, StartsConfiguring
    <2> HIDE DEF x
    <2>3. Len(Statements(x.q)) \in Nat
        BY <2>2, StatementsShape, Fields
    <2>4. /\ Go(r, x) /\ rq[r].phase = "cache" /\ uncached' = uncached \cup {rq[r].db}
          /\ UNCHANGED <<instance, created, httpfs, installed, available, initError, settings>>
        BY <1>18 DEF CacheOff, x
    <2>5. rq'[r] = x
        BY <2>4, Types DEF IInv, Go
    <2>6. EngineTyped' /\ Instances'
        BY <2>1, <2>4, Types DEF IInv, EngineTyped, Instances
    <2>7. Ready'
        BY <2>1, <2>4 DEF IInv, Ready
    <2>8. Fits(r, rq[r])'
        BY <2>1, <2>2, <2>3, <2>4, <2>5 DEF Fits, Initialising, Reading
    <2>9. InEffect(x)
        BY <2>2, <2>3 DEF InEffect, Reading
    <2> QED
        BY <2>2, <2>4, <2>6, <2>7, <2>8, <2>9, EngineKeeps
<1>19. ASSUME NEW r \in Request, InitFails(r) PROVE IInv'
    <2>1. /\ Go(r, Idle) /\ initError' = TRUE
          /\ UNCHANGED <<instance, created, httpfs, uncached, installed, available, settings>>
        BY <1>19 DEF InitFails, Respond
    <2>2. EngineTyped' /\ Instances' /\ Ready'
        BY <2>1, Types DEF IInv, EngineTyped, Instances, Ready
    <2>3. rq'[r] = Idle
        BY <2>1, Types DEF IInv, Go
    <2>4. Fits(r, rq[r])' /\ InEffect(Idle)
        BY <2>3, IdleState DEF Fits, InEffect, Initialising, Reading
    <2> QED
        BY <2>1, <2>2, <2>4, IdleState, EngineKeeps
<1>20. CASE UNCHANGED vars
    <2>1. TypeOK' /\ Instances' /\ Ready'
        BY <1>20 DEF vars, engineVars, IInv, TypeOK, Instances, Ready
    <2>2. \A r \in Request : Fits(r, rq[r])'
        BY <1>20 DEF vars, engineVars, IInv, Fits
    <2>3. CanReset => \A r \in Request \ mixed' : InEffect(rq[r])'
        BY <1>20 DEF vars, IInv, InEffect
    <2> QED
        BY <2>1, <2>2, <2>3 DEF IInv
<1> QED
    BY <1>1, <1>3, <1>4, <1>5, <1>6, <1>7, <1>8, <1>9, <1>11, <1>12, <1>13, <1>16, <1>17, <1>18, <1>19, <1>20
       DEF Next, Answer

\* Before the first request there is no instance and nothing is awaited.
LEMMA InvInit == Init => IInv
<1> SUFFICES ASSUME Init PROVE IInv
    OBVIOUS
<1>1. rq = [r \in Request |-> Idle] /\ Idle \in RequestState
    BY IdleState DEF Init
<1>2. settings \in [Request -> [Setting -> Endpoint \cup Key \cup {None}]]
    BY DEF Init
<1>3. TypeOK
    BY <1>1, <1>2, Types DEF Init, EngineTyped
<1>4. Instances /\ Ready
    BY DEF Init, Instances, Ready
<1>5. \A r \in Request : Fits(r, rq[r]) /\ InEffect(rq[r])
    <2>1. \A r \in Request : rq[r] = Idle
        BY <1>1
    <2>2. \A r \in Request : Fits(r, Idle) /\ InEffect(Idle)
        BY IdleState DEF Fits, InEffect, Initialising, Reading
    <2> HIDE DEF Init
    <2> QED
        BY <2>1, <2>2
<1> QED
    BY <1>3, <1>4, <1>5 DEF IInv

\* The invariant holds throughout.
THEOREM Inductive == Spec => []IInv
    BY InvInit, InvStep, PTL DEF Spec

-----------------------------------------------------------------------------
(* What the run checks, for every value of the constants.                     *)

\* Every variable keeps its type.
THEOREM TypeCorrect == Spec => []TypeOK
    BY Inductive, PTL DEF IInv

\* A query no other has interfered with reads from the store it names.
THEOREM ReadsOwnStore == Spec => []ReadsItsStore
<1>1. IInv => ReadsItsStore
    <2> SUFFICES ASSUME IInv, CanReset, NEW r \in Request \ mixed, rq[r].phase \in Reading
                 PROVE  LET q == rq[r].q  s == settings[rq[r].db]
                        IN /\ s["endpoint"] = q.endpoint
                           /\ q.key # None => s["credentials"] = q.key
        BY DEF ReadsItsStore
    <2> DEFINE q == rq[r].q
    <2>1. rq[r] \in RequestState
        BY Types DEF IInv
    <2>2. q \in Query \cup {NoQuery}
        BY <2>1, Fields
    <2>3. \A i \in 1..Len(Statements(q)) :
              settings[rq[r].db][Statements(q)[i].setting] = Statements(q)[i].value
        BY DEF IInv, InEffect
    <2> HIDE DEF q
    <2>4. CASE q.key = None
        <3>1. Len(Statements(q)) = 1 /\ Statements(q)[1] = Write("endpoint", q.endpoint)
            BY <2>2, <2>4, StatementsShape
        <3> QED
            BY <2>3, <2>4, <3>1 DEF Write, q
    <2>5. CASE q.key # None
        <3>1. /\ Len(Statements(q)) = 2
              /\ Statements(q)[1] = Write("credentials", q.key)
              /\ Statements(q)[2] = Write("endpoint", q.endpoint)
            BY <2>2, <2>5, StatementsShape
        <3> QED
            BY <2>3, <3>1 DEF Write, q
    <2> QED
        BY <2>4, <2>5
<1> QED
    BY <1>1, Inductive, PTL

\* A query never runs on an instance that is not ready, as long as there is only one.
THEOREM RunsOnReady == Spec => []RunsOnConfigured
<1>1. IInv => RunsOnConfigured
    BY DEF IInv, Ready, Fits, RunsOnConfigured, TypeOK
<1> QED
    BY <1>1, Inductive, PTL
=============================================================================
