------------------------------ MODULE YmlSync ------------------------------
(***************************************************************************)
(* The scene's entities and the YML file in localStorage                    *)
(* (ymlConfigLoader.ts): a change of an entity is written to the file by a   *)
(* debounced sync; a file that is uploaded, edited or found when the page    *)
(* loads is applied to the scene once its scene metadata has been fetched;   *)
(* and a simulation's load (applyAndLoadSimulation) applies its file, clears *)
(* the scene and loads one table after another from the database, while     *)
(* syncing is suppressed.                                                   *)
(*                                                                         *)
(* An action is what runs between two awaits.  applyYmlConfig has none, so   *)
(* its guard _isSyncing is seen by its own notifications only: they do not   *)
(* arm the timer.  Of a file the model keeps whose db and gis sections it has *)
(* and, for each kind of entity that is written to it, what its section      *)
(* holds.  Which database the rows come from is left out.                    *)
(***************************************************************************)
EXTENDS Naturals, Sequences, FiniteSets

CONSTANTS
  Kind,       \* the sections of a file: units, panels, the spawn zone
  Zone,       \* the spawn zone, which no table holds and no load clears
  Tables,     \* the other kinds in the order in which loadAll loads them
  Doc,        \* the documents a user or a simulation may bring
  Has,        \* <<document, kind>>: the document has entities of this kind
  Rows,       \* the entities a database holds
  Nothing,    \* no entities; the db and gis sections of a file made by a sync
  NoFile,     \* nothing in localStorage
  Job,        \* bound: simulation loads under way
  MaxApplies, \* bound: files being applied at a time
  MaxEdits    \* bound: edits, each of which makes new entities

ASSUME YmlAssumption ==
  /\ Zone \in Kind /\ Tables \in Seq(Kind \ {Zone}) /\ Len(Tables) > 0
  /\ MaxEdits \in Nat /\ MaxApplies \in Nat \ {0} /\ Nothing \notin Doc /\ Rows # Nothing

VARIABLES
  stored,      \* the file in localStorage
  ents,        \* the entities of the managers, by kind
  timer,       \* _syncTimer is set
  suppressed,  \* _syncSuppressed
  connected,   \* minioClient.isConnected()
  job,         \* the simulation loads, by job
  applies,     \* the files being applied, their scene metadata not yet fetched
  editor,      \* the YML editor's mode, and the file when it was opened or closed
  edits,       \* how many edits there were
  owed,        \* history: kinds changed since the last sync or apply
  apart        \* history: why the file and the scene may differ

fileVars == <<stored, ents, timer, suppressed, owed, apart>>
vars == <<fileVars, connected, job, applies, editor, edits>>

Content == {Nothing, Rows} \cup Doc \cup 1..MaxEdits
File == [doc : Doc \cup {Nothing}, ents : [Kind -> Content]]
Submitted(d) ==
  [doc |-> d, ents |-> [k \in Kind |-> IF <<d, k>> \in Has THEN d ELSE Nothing]]

-----------------------------------------------------------------------------
(* Syncing, and applying a file.                                            *)

\* A manager notifies of a change; the timer is set again or for the first time.
DebouncedSync(K) ==
  /\ timer' = (timer \/ ~suppressed)
  /\ owed' = owed \cup K

\* The entities e are written to the file file, if there is one or a spawn zone; its
\* db and gis sections are kept.
SyncYmlToStorage(file, e) ==
  /\ stored' = IF file # NoFile THEN [file EXCEPT !.ents = e]
               ELSE IF e[Zone] # Nothing THEN [doc |-> Nothing, ents |-> e]
               ELSE NoFile
  /\ owed' = {}
  /\ apart' = "no"

SuppressSync == suppressed' = TRUE /\ timer' = FALSE

\* Mutant: syncing is resumed without a first sync.
ResumeOnly(file, e, notified) ==
  /\ suppressed' = FALSE
  /\ timer' = (timer \/ (notified /\ ~suppressed))
  /\ stored' = file
  /\ UNCHANGED <<owed, apart>>

\* The finally block of a load, after a last notification or none; a timer that is set
\* stays.
ResumeSync(file, e, notified) ==
  /\ suppressed' = FALSE
  /\ timer' = (timer \/ (notified /\ ~suppressed))
  /\ SyncYmlToStorage(file, e)

\* Mutant: what the file does not have stays in the scene.
ApplyOver(f, ok) ==
  /\ ents' = [k \in Kind |-> IF f.ents[k] = Nothing \/ ~ok THEN ents[k] ELSE f.ents[k]]
  /\ timer' = FALSE
  /\ owed' = {}
  /\ apart' = IF ~ok THEN "ahead" ELSE IF stored = f THEN "no" ELSE "stale"

\* applyYmlConfig(f): the scene is cleared, then filled unless the file is malformed.
ApplyYmlConfig(f, ok) ==
  /\ ents' = IF ok THEN f.ents ELSE [k \in Kind |-> Nothing]
  /\ timer' = FALSE
  /\ owed' = {}
  /\ apart' = IF ~ok THEN "ahead" ELSE IF stored = f THEN "no" ELSE "stale"

\* What may come of applying a file: the metadata of the scene is fetched or not needed,
\* it is needed and cannot be fetched, or the file turns out to be malformed.
Outcome == {"applied", "fatal", "malformed"}

\* A file is applied outside of a load.
ApplyYmlContent(f, outcome) ==
  /\ IF outcome = "fatal"
     THEN UNCHANGED <<ents, timer, owed, apart>>
     ELSE ApplyYmlConfig(f, outcome = "applied")
  /\ UNCHANGED <<stored, suppressed>>

-----------------------------------------------------------------------------
(* The loads of simulations.                                                *)

Load(phase, by, f) ==
  [phase |-> phase, by |-> by, file |-> f, table |-> 1, live |-> FALSE]
Idle == Load("idle", "settings", NoFile)

\* Syncing should be suppressed: from applyAndLoadSimulation's start to its end.
InBulk(j) == job[j].phase \in {"prefetch", "retry", "fetch"}

Step(j, phase) == job' = [job EXCEPT ![j] = [@ EXCEPT !.phase = phase]]

Fetch(j, i) ==
  job' = [job EXCEPT ![j] = [@ EXCEPT !.phase = "fetch", !.table = i, !.live = connected]]
End(j) == job' = [job EXCEPT ![j] = Idle]

Cleared(e) == [k \in Kind |-> IF k = Zone THEN e[k] ELSE Nothing]

\* loadAll waits half a second once if the client is not connected.
LoadAll(j) == IF connected THEN Fetch(j, 1) ELSE Step(j, "retry")

\* The editor's Load button: the text, which must name a simulation, is saved, then
\* loaded.  If the client is not connected, the load fails with the text saved.
EditorLoad(j, f) ==
  /\ editor.mode = "open" /\ job[j] = Idle
  /\ f.doc # Nothing
  /\ \A i \in Job : job[i].by # "editor"
  /\ stored' = f
  /\ apart' = "ahead"
  /\ IF connected
     THEN /\ SuppressSync
          /\ job' = [job EXCEPT ![j] = Load("prefetch", "editor", f)]
     ELSE UNCHANGED <<timer, suppressed, job>>
  /\ UNCHANGED <<ents, connected, applies, editor, edits, owed>>

\* The Load button of the settings asks for the simulation's file first.  Its tab may be
\* closed and opened again while it waits, which forgets that it was pressed.
SettingsLoad(j) ==
  /\ editor.mode = "closed" /\ job[j] = Idle /\ connected
  /\ job' = [job EXCEPT ![j] = Load("yaml", "settings", NoFile)]
  /\ UNCHANGED <<fileVars, connected, applies, editor, edits>>

\* The simulation has no file: the scene is cleared and its tables are loaded.
YamlMissing(j) ==
  /\ job[j].phase = "yaml"
  /\ IF connected
     THEN /\ SuppressSync
          /\ ents' = Cleared(ents)
          /\ owed' = owed \cup (Kind \ {Zone})
          /\ Fetch(j, 1)
     ELSE End(j) /\ UNCHANGED <<ents, timer, suppressed, owed>>
  /\ UNCHANGED <<stored, apart, connected, applies, editor, edits>>

\* The simulation's file is stored, and applied if the client is still connected.
YamlArrives(j, d) ==
  /\ job[j].phase = "yaml"
  /\ stored' = Submitted(d)
  /\ apart' = "ahead"
  /\ IF connected
     THEN /\ SuppressSync
          /\ job' = [job EXCEPT ![j] = Load("prefetch", "settings", Submitted(d))]
     ELSE End(j) /\ UNCHANGED <<timer, suppressed>>
  /\ UNCHANGED <<ents, owed, connected, applies, editor, edits>>

\* The file of a load is applied and the scene cleared, or the load fails.
LoadApplies(j, outcome) ==
  /\ job[j].phase = "prefetch"
  /\ LET f == job[j].file IN
     CASE outcome = "applied" ->
            /\ ents' = Cleared(f.ents)
            /\ timer' = ~suppressed
            /\ owed' = Kind \ {Zone}
            /\ apart' = IF stored = f THEN "no" ELSE "stale"
            /\ LoadAll(j)
            /\ UNCHANGED <<stored, suppressed>>
       [] outcome = "fatal" ->
            UNCHANGED ents /\ ResumeSync(stored, ents, FALSE) /\ End(j)
       [] outcome = "malformed" ->
            /\ ents' = [k \in Kind |-> Nothing]
            /\ suppressed' = FALSE /\ timer' = FALSE
            /\ SyncYmlToStorage(stored, ents')
            /\ End(j)
  /\ UNCHANGED <<connected, applies, editor, edits>>

\* Mutant: a load that fails leaves syncing suppressed.
GiveUpSuppressed(j) ==
  /\ job[j].phase = "retry"
  /\ IF connected THEN Fetch(j, 1) ELSE End(j)
  /\ UNCHANGED <<fileVars, connected, applies, editor, edits>>

\* The second and last attempt of loadAll.
RetryLoadAll(j) ==
  /\ job[j].phase = "retry"
  /\ IF connected
     THEN Fetch(j, 1) /\ UNCHANGED fileVars
     ELSE UNCHANGED ents /\ ResumeSync(stored, ents, FALSE) /\ End(j)
  /\ UNCHANGED <<connected, applies, editor, edits>>

\* A table's rows arrive, or none do; after the last table the zone is set once more
\* and syncing is resumed.  The editor takes the file as applied.
TableArrives(j, rows) ==
  /\ job[j].phase = "fetch"
  /\ rows => job[j].live
  /\ LET k == Tables[job[j].table]
         e == IF rows THEN [ents EXCEPT ![k] = Rows] ELSE ents
     IN  /\ ents' = e
         /\ IF job[j].table < Len(Tables)
            THEN /\ IF rows THEN DebouncedSync({k}) ELSE UNCHANGED <<timer, owed>>
                 /\ Fetch(j, job[j].table + 1)
                 /\ UNCHANGED <<stored, suppressed, apart, editor>>
            ELSE /\ ResumeSync(stored, e, rows \/ e[Zone] # Nothing)
                 /\ End(j)
                 /\ editor' = IF job[j].by = "editor" /\ editor.mode = "open"
                              THEN [editor EXCEPT !.file = stored'] ELSE editor
  /\ UNCHANGED <<connected, applies, edits>>

-----------------------------------------------------------------------------
(* The user.                                                                *)

\* Entities are added, changed or removed; the editor covers the scene.
EditEntity(k, content) ==
  /\ editor.mode = "closed"
  /\ edits < MaxEdits
  /\ edits' = edits + 1
  /\ content \in {edits', Nothing}
  /\ ents' = [ents EXCEPT ![k] = content]
  /\ DebouncedSync({k})
  /\ UNCHANGED <<stored, suppressed, apart, connected, job, applies, editor>>

OpenEditor ==
  /\ editor.mode = "closed"
  /\ editor' = [mode |-> "open", file |-> stored]
  /\ UNCHANGED <<fileVars, connected, job, applies, edits>>

\* A file is dropped on the editor: stored, and applied behind it.
UploadFile(d) ==
  /\ editor.mode = "open"
  /\ Cardinality(applies) < MaxApplies
  /\ stored' = Submitted(d)
  /\ apart' = "ahead"
  /\ applies' = applies \cup {Submitted(d)}
  /\ UNCHANGED <<ents, timer, suppressed, owed, connected, job, editor, edits>>

\* The editor's Save stores its text, Clear removes the file; the scene stays.
SaveFile(f) ==
  /\ editor.mode = "open"
  /\ stored' = f
  /\ apart' = "ahead"
  /\ UNCHANGED <<ents, timer, suppressed, owed, connected, job, applies, editor, edits>>

\* A file that differs from the one the editor was opened with is applied on closing.
CloseEditor ==
  /\ editor.mode = "open"
  /\ editor' = IF stored = editor.file THEN [mode |-> "closed", file |-> NoFile]
                                       ELSE [mode |-> "closing", file |-> stored]
  /\ UNCHANGED <<fileVars, connected, job, applies, edits>>

\* The overlay that covers the page while the file is applied goes away.
EditorCloses(outcome) ==
  /\ editor.mode = "closing" /\ editor.file # NoFile
  /\ ApplyYmlContent(editor.file, outcome)
  /\ editor' = [mode |-> "closed", file |-> NoFile]
  /\ UNCHANGED <<connected, job, applies, edits>>

\* No file is left: the scene is cleared.
ClearAllEntities ==
  /\ editor.mode = "closing" /\ editor.file = NoFile
  /\ ents' = [k \in Kind |-> Nothing]
  /\ timer' = FALSE
  /\ owed' = {}
  /\ apart' = IF stored = NoFile THEN apart ELSE "stale"
  /\ editor' = [mode |-> "closed", file |-> NoFile]
  /\ UNCHANGED <<stored, suppressed, connected, job, applies, edits>>

Connect ==
  /\ ~connected /\ editor.mode = "closed"
  /\ connected' = TRUE
  /\ UNCHANGED <<fileVars, job, applies, editor, edits>>

\* Disconnecting clears the scene but its spawn zone.
Disconnect ==
  /\ connected /\ editor.mode = "closed"
  /\ connected' = FALSE
  /\ ents' = Cleared(ents)
  /\ DebouncedSync(Kind \ {Zone})
  /\ UNCHANGED <<stored, suppressed, apart, job, applies, editor, edits>>

\* The page is loaded again: everything but what localStorage holds is lost, and the file
\* found there is applied.
Reload ==
  /\ ents' = [k \in Kind |-> Nothing]
  /\ timer' = FALSE /\ suppressed' = FALSE /\ owed' = {}
  /\ job' = [j \in Job |-> Idle]
  /\ applies' = {stored} \ {NoFile}
  /\ editor' = [mode |-> "closed", file |-> NoFile]
  /\ apart' = "ahead"
  /\ UNCHANGED <<stored, connected, edits>>

-----------------------------------------------------------------------------
(* Time passes.                                                             *)

\* 300 ms after the last change.
TimerFires ==
  /\ timer
  /\ timer' = FALSE
  /\ SyncYmlToStorage(stored, ents)
  /\ UNCHANGED <<ents, suppressed, connected, job, applies, editor, edits>>

\* The scene metadata of an uploaded file, or of the one found on loading the page.
ApplyArrives(f, outcome) ==
  /\ f \in applies
  /\ applies' = applies \ {f}
  /\ ApplyYmlContent(f, outcome)
  /\ UNCHANGED <<connected, job, editor, edits>>

Init ==
  /\ stored \in {NoFile} \cup {Submitted(d) : d \in Doc}
  /\ ents = [k \in Kind |-> Nothing]
  /\ timer = FALSE /\ suppressed = FALSE
  /\ connected \in BOOLEAN
  /\ job = [j \in Job |-> Idle]
  /\ applies = {stored} \ {NoFile}
  /\ editor = [mode |-> "closed", file |-> NoFile]
  /\ edits = 0 /\ owed = {} /\ apart = "ahead"

Texts == {Submitted(d) : d \in Doc} \cup ({stored} \ {NoFile})

User ==
  \/ \E k \in Kind : \E c \in {edits + 1, Nothing} : EditEntity(k, c)
  \/ \E j \in Job : SettingsLoad(j)
  \/ \E j \in Job : \E f \in Texts : EditorLoad(j, f)
  \/ OpenEditor
  \/ \E d \in Doc : UploadFile(d)
  \/ \E f \in Texts \cup {NoFile} : SaveFile(f)
  \/ CloseEditor
  \/ Connect
  \/ Disconnect
  \/ Reload

Browser ==
  \/ TimerFires
  \/ \E f \in applies : \E o \in Outcome : ApplyArrives(f, o)
  \/ \E o \in Outcome : EditorCloses(o)
  \/ ClearAllEntities

Loads ==
  \E j \in Job :
    \/ YamlMissing(j)
    \/ \E d \in Doc : YamlArrives(j, d)
    \/ \E o \in Outcome : LoadApplies(j, o)
    \/ RetryLoadAll(j)
    \/ \E rows \in BOOLEAN : TableArrives(j, rows)

Next == User \/ Browser \/ Loads

Spec == Init /\ [][Next]_vars

-----------------------------------------------------------------------------
JobState ==
  [phase : {"idle", "yaml", "prefetch", "retry", "fetch"}, by : {"editor", "settings"},
   file : File \cup {NoFile}, table : 1..Len(Tables), live : BOOLEAN]

\* Every variable has its type.
TypeOK ==
  /\ stored \in File \cup {NoFile}
  /\ ents \in [Kind -> Content]
  /\ timer \in BOOLEAN /\ suppressed \in BOOLEAN /\ connected \in BOOLEAN
  /\ job \in [Job -> JobState]
  /\ applies \subseteq File
  /\ editor \in [mode : {"closed", "open", "closing"}, file : File \cup {NoFile}]
  /\ edits \in 0..MaxEdits
  /\ owed \subseteq Kind
  /\ apart \in {"no", "ahead", "stale"}

\* While syncing is suppressed no sync is waiting to run: one armed before a load would
\* write the scene while it is being cleared and filled.
NoSyncWhileSuppressed == ~(timer /\ suppressed)

\* Syncing is suppressed only by a load that is under way and will resume it, however it
\* ends: no failure switches the syncing off for good.
SuppressedByLoad == suppressed => \E j \in Job : InBulk(j)

\* A change of the scene that the file does not have yet will be written: the timer is
\* set, or a load under way ends with a sync.
OwedIsPending == owed # {} => timer \/ suppressed

\* Nothing is under way that will bring the file and the scene together.
Settled ==
  /\ stored # NoFile /\ ~timer /\ ~suppressed
  /\ applies = {} /\ editor.mode = "closed"
  /\ \A j \in Job : job[j] = Idle

\* At rest the file describes the scene, unless it is text not applied or the text that was
\* applied is no longer in the file.
FileIsScene == Settled /\ apart = "no" => stored.ents = ents

\* What ymlConfigLoader.ts:2114-2115 says: a change of the scene is synced back to the file;
\* so at rest the file describes the scene, unless it is text not applied.
\* Refuted: YmlFile.cfg has the counterexample.
FileMatchesScene == Settled /\ apart # "ahead" => stored.ents = ents

\* What ymlConfigLoader.ts:2090-2092 says: syncing is suppressed during a load, so that its
\* intermediate empty states are not written to the file.
\* Refuted: YmlBulk.cfg has the counterexample.
BulkIsSuppressed == \A j \in Job : InBulk(j) => suppressed
=============================================================================
