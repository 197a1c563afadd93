----------------------------- MODULE YmlProofs -----------------------------
(***************************************************************************)
(* The simulation file.  First the invariants of YmlSync, when the viewer  *)
(* writes it, for any documents, tables and loads.  Then those of SimConfig *)
(* and YmlSections, what the client and the viewer write and read, for any *)
(* identifiers, places, powers and any number of updates.                  *)
(*                                                                         *)
(* For the second part everything rests on what a list of updates says of  *)
(* an entity (Applied): of two lists one after the other the second says   *)
(* over the first.  The invariant is SectionsInv; each of the four         *)
(* properties follows from it.                                             *)
(***************************************************************************)
EXTENDS YmlSync, YmlSections, WellFoundedInduction, NaturalsInduction, FiniteSetTheorems, SequenceTheorems, TLAPS

\* A load has the file that it is about to apply.
LoadsHaveFiles == \A j \in Job : job[j].phase = "prefetch" => job[j].file \in File

\* If nothing is owed and the file was synced or applied last, it holds the scene.
Agree == apart = "no" /\ owed = {} /\ stored # NoFile => stored.ents = ents

IInv ==
  /\ TypeOK /\ LoadsHaveFiles
  /\ NoSyncWhileSuppressed /\ SuppressedByLoad /\ OwedIsPending /\ Agree

\* What the steps of a load may make of the loads.
LoadsKept ==
  /\ job' \in [Job -> JobState]
  /\ LoadsHaveFiles'

-----------------------------------------------------------------------------
(* Files, scenes and loads.                                                 *)

LEMMA SubmittedFile == \A d \in Doc : Submitted(d) \in File
  BY DEF Submitted, File, Content

LEMMA EmptyScene == [k \in Kind |-> Nothing] \in [Kind -> Content]
  BY DEF Content

\* Clearing the scene leaves a scene, and is a change of something.
LEMMA ClearedScene ==
  /\ \A e \in [Kind -> Content] : Cleared(e) \in [Kind -> Content]
  /\ Kind \ {Zone} # {}
<1>1. Tables[1] \in Kind \ {Zone}
  BY YmlAssumption
<1> QED
  BY <1>1 DEF Cleared, Content

\* A sync leaves a file that holds the scene, or none.
LEMMA SyncWrites ==
  ASSUME NEW file \in File \cup {NoFile}, NEW e \in [Kind -> Content],
         SyncYmlToStorage(file, e)
  PROVE  /\ stored' \in File \cup {NoFile} /\ owed' = {} /\ apart' = "no"
         /\ stored' # NoFile => stored'.ents = e
<1>1. CASE file # NoFile
  <2>1. file \in File /\ stored' = [file EXCEPT !.ents = e]
    BY <1>1 DEF SyncYmlToStorage
  <2>2. stored' = [doc |-> file.doc, ents |-> e]
    BY <2>1 DEF File
  <2> QED
    BY <2>1, <2>2 DEF SyncYmlToStorage, File
<1>2. CASE file = NoFile
  <2>1. [doc |-> Nothing, ents |-> e] \in File
    BY DEF File
  <2> QED
    BY <1>2, <2>1 DEF SyncYmlToStorage
<1> QED
  BY <1>1, <1>2

\* A load that goes on to table i is under way, and the others are as they were.
LEMMA FetchKeeps ==
  ASSUME job \in [Job -> JobState], LoadsHaveFiles, connected \in BOOLEAN,
         NEW j \in Job, NEW i \in 1..Len(Tables), Fetch(j, i)
  PROVE  LoadsKept /\ InBulk(j)' /\ \A h \in Job \ {j} : job'[h] = job[h]
<1> DEFINE p == [job[j] EXCEPT !.phase = "fetch"]
           q == [p EXCEPT !.table = i]
           r == [q EXCEPT !.live = connected]
<1>1. r = [phase |-> "fetch", by |-> job[j].by, file |-> job[j].file, table |-> i,
           live |-> connected]
  <2>1. p = [phase |-> "fetch", by |-> job[j].by, file |-> job[j].file,
             table |-> job[j].table, live |-> job[j].live]
    BY DEF JobState
  <2> HIDE DEF p
  <2>2. q = [phase |-> "fetch", by |-> job[j].by, file |-> job[j].file, table |-> i,
             live |-> job[j].live]
    BY <2>1
  <2> HIDE DEF q
  <2> QED
    BY <2>2
<1>2. r \in JobState /\ r.phase = "fetch"
  BY <1>1 DEF JobState
<1>3. job' = [job EXCEPT ![j] = r]
  BY DEF Fetch
<1> HIDE DEF r
<1> QED
  BY <1>2, <1>3 DEF LoadsKept, LoadsHaveFiles, InBulk

\* A load that waits to try again is under way, and the others are as they were.
LEMMA RetryKeeps ==
  ASSUME job \in [Job -> JobState], LoadsHaveFiles,
         NEW j \in Job, Step(j, "retry")
  PROVE  LoadsKept /\ InBulk(j)' /\ \A h \in Job \ {j} : job'[h] = job[h]
<1> DEFINE r == [job[j] EXCEPT !.phase = "retry"]
<1>1. r = [phase |-> "retry", by |-> job[j].by, file |-> job[j].file,
           table |-> job[j].table, live |-> job[j].live]
  BY DEF JobState
<1>2. r \in JobState /\ r.phase = "retry"
  BY <1>1 DEF JobState
<1>3. job' = [job EXCEPT ![j] = r]
  BY DEF Step
<1> HIDE DEF r
<1> QED
  BY <1>2, <1>3 DEF LoadsKept, LoadsHaveFiles, InBulk

\* A load with a file, or one that asks for it, or that is over.
LEMMA NewLoad ==
  ASSUME job \in [Job -> JobState], LoadsHaveFiles, NEW j \in Job,
         NEW phase \in {"idle", "yaml", "prefetch"}, NEW by \in {"editor", "settings"},
         NEW f \in File \cup {NoFile}, phase = "prefetch" => f \in File,
         job' = [job EXCEPT ![j] = Load(phase, by, f)]
  PROVE  /\ LoadsKept
         /\ phase = "prefetch" => InBulk(j)'
         /\ \A h \in Job \ {j} : job'[h] = job[h]
<1>1. Load(phase, by, f) \in JobState /\ Load(phase, by, f).phase = phase
      /\ Load(phase, by, f).file = f
  BY YmlAssumption DEF Load, JobState
<1> QED
  BY <1>1 DEF LoadsKept, LoadsHaveFiles, InBulk

LEMMA EndKeeps ==
  ASSUME job \in [Job -> JobState], LoadsHaveFiles, NEW j \in Job, End(j)
  PROVE  LoadsKept /\ \A h \in Job \ {j} : job'[h] = job[h]
<1>1. job' = [job EXCEPT ![j] = Load("idle", "settings", NoFile)]
  BY DEF End, Idle
<1> QED
  BY <1>1, NewLoad

-----------------------------------------------------------------------------
(* The steps.                                                               *)

\* Nothing is stored, shown or loaded to begin with but the file that is found.
LEMMA InvInit == Init => IInv
<1> SUFFICES ASSUME Init PROVE IInv
  OBVIOUS
<1>1. Idle \in JobState /\ Idle.phase = "idle"
  BY YmlAssumption DEF Idle, Load, JobState
<1>2. TypeOK
  <2>1. [mode |-> "closed", file |-> NoFile]
          \in [mode : {"closed", "open", "closing"}, file : File \cup {NoFile}]
    OBVIOUS
  <2>2. stored \in File \cup {NoFile} /\ applies \subseteq File
    BY SubmittedFile DEF Init
  <2>3. job \in [Job -> JobState]
    BY <1>1 DEF Init
  <2>4. /\ ents \in [Kind -> Content] /\ timer = FALSE /\ suppressed = FALSE
        /\ connected \in BOOLEAN /\ edits \in 0..MaxEdits /\ owed = {} /\ apart = "ahead"
        /\ editor = [mode |-> "closed", file |-> NoFile]
    BY EmptyScene, YmlAssumption DEF Init
  <2> QED
    BY <2>1, <2>2, <2>3, <2>4 DEF TypeOK
<1>3. LoadsHaveFiles
  BY <1>1 DEF Init, LoadsHaveFiles
<1>4. NoSyncWhileSuppressed /\ SuppressedByLoad /\ OwedIsPending /\ Agree
  BY DEF Init, NoSyncWhileSuppressed, SuppressedByLoad, OwedIsPending, Agree
<1> QED
  BY <1>2, <1>3, <1>4 DEF IInv

\* What a step does to the flags and the file, given what it leaves of the scene.
Flags == NoSyncWhileSuppressed /\ OwedIsPending /\ Agree

\* A file applied outside of a load.
LEMMA ApplyKeeps ==
  ASSUME IInv, NEW f \in File, NEW outcome \in Outcome, ApplyYmlContent(f, outcome)
  PROVE  /\ ents' \in [Kind -> Content] /\ timer' \in BOOLEAN /\ owed' \subseteq Kind
         /\ apart' \in {"no", "ahead", "stale"}
         /\ Flags'
<1>1. CASE outcome = "fatal"
  BY <1>1 DEF IInv, TypeOK, Flags, NoSyncWhileSuppressed, OwedIsPending, Agree, ApplyYmlContent
<1>2. CASE outcome # "fatal"
  <2>1. ApplyYmlConfig(f, outcome = "applied") /\ UNCHANGED <<stored, suppressed>>
    BY <1>2 DEF ApplyYmlContent
  <2>2. CASE outcome = "applied"
    BY <2>1, <2>2 DEF ApplyYmlConfig, File, Flags, NoSyncWhileSuppressed, OwedIsPending, Agree
  <2>3. CASE outcome # "applied"
    BY <2>1, <2>3, EmptyScene
    DEF ApplyYmlConfig, Flags, NoSyncWhileSuppressed, OwedIsPending, Agree
  <2> QED
    BY <2>2, <2>3
<1> QED
  BY <1>1, <1>2

\* Syncing resumed at the end of a load.
LEMMA ResumeKeeps ==
  ASSUME TypeOK, NEW e \in [Kind -> Content], NEW notified \in BOOLEAN,
         ents' = e, ResumeSync(stored, e, notified)
  PROVE  /\ stored' \in File \cup {NoFile} /\ timer' \in BOOLEAN /\ owed' \subseteq Kind
         /\ apart' \in {"no", "ahead", "stale"} /\ suppressed' = FALSE
         /\ Flags'
<1>1. SyncYmlToStorage(stored, e) /\ suppressed' = FALSE /\ timer' \in BOOLEAN
  BY DEF ResumeSync, TypeOK
<1>2. /\ stored' \in File \cup {NoFile} /\ owed' = {} /\ apart' = "no"
      /\ stored' # NoFile => stored'.ents = e
  BY <1>1, SyncWrites DEF TypeOK
<1> QED
  BY <1>1, <1>2 DEF Flags, NoSyncWhileSuppressed, OwedIsPending, Agree

\* What the user does.
LEMMA UserKeeps == IInv /\ User => IInv'
<1> SUFFICES ASSUME IInv, User PROVE IInv'
  OBVIOUS
<1> USE DEF IInv
<1> DEFINE mode(m, f) == [mode |-> m, file |-> f]
<1>t. \A m \in {"closed", "open", "closing"} : \A f \in File \cup {NoFile} :
        mode(m, f) \in [mode : {"closed", "open", "closing"}, file : File \cup {NoFile}]
  OBVIOUS
<1>f. Texts \subseteq File
  BY SubmittedFile DEF Texts, TypeOK
<1>1. ASSUME NEW k \in Kind, NEW c \in {edits + 1, Nothing}, EditEntity(k, c) PROVE IInv'
  <2>1. ents' \in [Kind -> Content] /\ edits' \in 0..MaxEdits
    BY <1>1, YmlAssumption DEF EditEntity, TypeOK, Content
  <2>2. timer' = (timer \/ ~suppressed) /\ owed' = owed \cup {k}
    BY <1>1 DEF EditEntity, DebouncedSync
  <2>3. UNCHANGED <<stored, suppressed, apart, connected, job, applies, editor>>
    BY <1>1 DEF EditEntity
  <2>4. TypeOK'
    BY <2>1, <2>2, <2>3 DEF TypeOK
  <2>5. LoadsHaveFiles' /\ SuppressedByLoad'
    BY <2>3 DEF LoadsHaveFiles, SuppressedByLoad, InBulk
  <2>6. NoSyncWhileSuppressed' /\ OwedIsPending' /\ Agree'
    BY <2>2, <2>3 DEF NoSyncWhileSuppressed, OwedIsPending, Agree, TypeOK
  <2> QED
    BY <2>4, <2>5, <2>6
<1>2. ASSUME NEW j \in Job, SettingsLoad(j) PROVE IInv'
  <2>1. UNCHANGED <<fileVars, connected, applies, editor, edits>>
    BY <1>2 DEF SettingsLoad
  <2>2. job[j] = Idle /\ job' = [job EXCEPT ![j] = Load("yaml", "settings", NoFile)]
    BY <1>2 DEF SettingsLoad
  <2>3. LoadsKept /\ \A h \in Job \ {j} : job'[h] = job[h]
    BY <2>2, NewLoad DEF TypeOK
  <2>4. TypeOK'
    BY <2>1, <2>3 DEF TypeOK, fileVars, LoadsKept
  <2>5. SuppressedByLoad'
    BY <2>1, <2>2, <2>3 DEF SuppressedByLoad, InBulk, Idle, Load, fileVars
  <2>6. NoSyncWhileSuppressed' /\ OwedIsPending' /\ Agree'
    BY <2>1 DEF fileVars, NoSyncWhileSuppressed, OwedIsPending, Agree
  <2> QED
    BY <2>3, <2>4, <2>5, <2>6 DEF LoadsKept
<1>3. ASSUME NEW j \in Job, NEW f \in Texts, EditorLoad(j, f) PROVE IInv'
  <2>1. /\ job[j] = Idle /\ stored' = f /\ apart' = "ahead" /\ f \in File
        /\ UNCHANGED <<ents, connected, applies, editor, edits, owed>>
    BY <1>3, <1>f DEF EditorLoad
  <2>2. CASE connected
    <3>1. suppressed' = TRUE /\ timer' = FALSE
          /\ job' = [job EXCEPT ![j] = Load("prefetch", "editor", f)]
      BY <1>3, <2>2 DEF EditorLoad, SuppressSync
    <3>2. LoadsKept /\ InBulk(j)'
      BY <2>1, <3>1, NewLoad DEF TypeOK
    <3>3. TypeOK'
      BY <2>1, <3>1, <3>2 DEF TypeOK, LoadsKept
    <3> QED
      BY <2>1, <3>1, <3>2, <3>3
      DEF LoadsKept, NoSyncWhileSuppressed, SuppressedByLoad, OwedIsPending, Agree
  <2>3. CASE ~connected
    <3>1. UNCHANGED <<timer, suppressed, job>>
      BY <1>3, <2>3 DEF EditorLoad
    <3>2. TypeOK'
      BY <2>1, <3>1 DEF TypeOK
    <3> QED
      BY <2>1, <3>1, <3>2 DEF LoadsHaveFiles, NoSyncWhileSuppressed, SuppressedByLoad,
                              OwedIsPending, Agree, InBulk
  <2> QED
    BY <2>2, <2>3
<1>4. ASSUME OpenEditor \/ CloseEditor PROVE IInv'
  <2>1. UNCHANGED <<fileVars, connected, job, applies, edits>>
    BY <1>4 DEF OpenEditor, CloseEditor
  <2>2. \E m \in {"closed", "open", "closing"} : \E f \in File \cup {NoFile} :
          editor' = mode(m, f)
    BY <1>4 DEF OpenEditor, CloseEditor, TypeOK
  <2>3. TypeOK'
    BY <1>t, <2>1, <2>2 DEF TypeOK, fileVars
  <2> QED
    BY <2>1, <2>3 DEF fileVars, LoadsHaveFiles, NoSyncWhileSuppressed, SuppressedByLoad,
                      OwedIsPending, Agree, InBulk
<1>5. ASSUME NEW f \in File \cup {NoFile}, stored' = f, apart' = "ahead",
             applies' \subseteq File,
             UNCHANGED <<ents, timer, suppressed, owed, connected, job, editor, edits>>
      PROVE  IInv'
  <2>1. TypeOK'
    BY <1>5 DEF TypeOK
  <2> QED
    BY <1>5, <2>1 DEF LoadsHaveFiles, NoSyncWhileSuppressed, SuppressedByLoad,
                      OwedIsPending, Agree, InBulk
<1>6. ASSUME NEW d \in Doc, UploadFile(d) PROVE IInv'
  BY <1>5, <1>6, SubmittedFile DEF UploadFile, TypeOK
<1>7. ASSUME NEW f \in Texts \cup {NoFile}, SaveFile(f) PROVE IInv'
  BY <1>5, <1>7, <1>f DEF SaveFile, TypeOK
<1>8. ASSUME Connect PROVE IInv'
  BY <1>8 DEF Connect, fileVars, TypeOK, LoadsHaveFiles, NoSyncWhileSuppressed,
              SuppressedByLoad, OwedIsPending, Agree, InBulk
<1>9. ASSUME Disconnect PROVE IInv'
  <2>1. /\ connected' = FALSE /\ ents' \in [Kind -> Content]
        /\ timer' = (timer \/ ~suppressed) /\ owed' = owed \cup (Kind \ {Zone})
        /\ UNCHANGED <<stored, suppressed, apart, job, applies, editor, edits>>
    BY <1>9, ClearedScene DEF Disconnect, DebouncedSync, TypeOK
  <2>2. TypeOK'
    BY <2>1 DEF TypeOK
  <2>3. LoadsHaveFiles' /\ SuppressedByLoad'
    BY <2>1 DEF LoadsHaveFiles, SuppressedByLoad, InBulk
  <2>4. NoSyncWhileSuppressed' /\ OwedIsPending' /\ Agree'
    BY <2>1, ClearedScene DEF NoSyncWhileSuppressed, OwedIsPending, Agree, TypeOK
  <2> QED
    BY <2>2, <2>3, <2>4
<1>10. ASSUME Reload PROVE IInv'
  <2>1. /\ ents' = [k \in Kind |-> Nothing] /\ job' = [j \in Job |-> Idle]
        /\ timer' = FALSE /\ suppressed' = FALSE /\ owed' = {} /\ apart' = "ahead"
        /\ applies' = {stored} \ {NoFile} /\ editor' = mode("closed", NoFile)
        /\ UNCHANGED <<stored, connected, edits>>
    BY <1>10 DEF Reload
  <2>2. Idle \in JobState /\ Idle.phase = "idle"
    BY YmlAssumption DEF Idle, Load, JobState
  <2>3. TypeOK'
    BY <1>t, <2>1, <2>2, EmptyScene DEF TypeOK
  <2>4. LoadsHaveFiles'
    BY <2>1, <2>2 DEF LoadsHaveFiles
  <2> QED
    BY <2>1, <2>3, <2>4 DEF NoSyncWhileSuppressed, SuppressedByLoad, OwedIsPending, Agree
<1> QED
  BY <1>1, <1>2, <1>3, <1>4, <1>6, <1>7, <1>8, <1>9, <1>10 DEF User

\* What comes of the browser's callbacks.
LEMMA BrowserKeeps == IInv /\ Browser => IInv'
<1> SUFFICES ASSUME IInv, Browser PROVE IInv'
  OBVIOUS
<1> USE DEF IInv
<1>t. [mode |-> "closed", file |-> NoFile]
        \in [mode : {"closed", "open", "closing"}, file : File \cup {NoFile}]
  OBVIOUS
<1>1. ASSUME TimerFires PROVE IInv'
  <2>1. /\ timer' = FALSE /\ SyncYmlToStorage(stored, ents)
        /\ UNCHANGED <<ents, suppressed, connected, job, applies, editor, edits>>
    BY <1>1 DEF TimerFires
  <2>2. /\ stored' \in File \cup {NoFile} /\ owed' = {} /\ apart' = "no"
        /\ stored' # NoFile => stored'.ents = ents
    BY <2>1, SyncWrites DEF TypeOK
  <2>3. TypeOK'
    BY <2>1, <2>2 DEF TypeOK
  <2>4. LoadsHaveFiles' /\ SuppressedByLoad'
    BY <2>1 DEF LoadsHaveFiles, SuppressedByLoad, InBulk
  <2> QED
    BY <2>1, <2>2, <2>3, <2>4 DEF NoSyncWhileSuppressed, OwedIsPending, Agree
<1>2. ASSUME NEW f \in File, NEW outcome \in Outcome, ApplyYmlContent(f, outcome),
             applies' \subseteq File,
             editor' \in [mode : {"closed", "open", "closing"}, file : File \cup {NoFile}],
             UNCHANGED <<connected, job, edits>>
      PROVE  IInv'
  <2>1. /\ ents' \in [Kind -> Content] /\ timer' \in BOOLEAN /\ owed' \subseteq Kind
        /\ apart' \in {"no", "ahead", "stale"} /\ Flags'
    BY <1>2, ApplyKeeps
  <2>2. UNCHANGED <<stored, suppressed>>
    BY <1>2 DEF ApplyYmlContent
  <2>3. TypeOK'
    BY <1>2, <2>1, <2>2 DEF TypeOK
  <2>4. LoadsHaveFiles' /\ SuppressedByLoad'
    BY <1>2, <2>2 DEF LoadsHaveFiles, SuppressedByLoad, InBulk
  <2> QED
    BY <2>1, <2>3, <2>4 DEF Flags
<1>3. ASSUME NEW f \in applies, NEW outcome \in Outcome, ApplyArrives(f, outcome) PROVE IInv'
  BY <1>2, <1>3 DEF ApplyArrives, TypeOK
<1>4. ASSUME NEW outcome \in Outcome, EditorCloses(outcome) PROVE IInv'
  <2>1. editor.file \in File
    BY <1>4 DEF EditorCloses, TypeOK
  <2> QED
    BY <1>2, <1>4, <1>t, <2>1 DEF EditorCloses, TypeOK
<1>5. ASSUME ClearAllEntities PROVE IInv'
  <2>1. /\ ents' = [k \in Kind |-> Nothing] /\ timer' = FALSE /\ owed' = {}
        /\ apart' = (IF stored = NoFile THEN apart ELSE "stale")
        /\ editor' = [mode |-> "closed", file |-> NoFile]
        /\ UNCHANGED <<stored, suppressed, connected, job, applies, edits>>
    BY <1>5 DEF ClearAllEntities
  <2>2. TypeOK'
    BY <1>t, <2>1, EmptyScene DEF TypeOK
  <2>3. LoadsHaveFiles' /\ SuppressedByLoad'
    BY <2>1 DEF LoadsHaveFiles, SuppressedByLoad, InBulk
  <2> QED
    BY <2>1, <2>2, <2>3 DEF NoSyncWhileSuppressed, OwedIsPending, Agree
<1> QED
  BY <1>1, <1>3, <1>4, <1>5 DEF Browser

\* What the loads do.  After each step syncing is on, or a load is under way.
LEMMA LoadsKeep == IInv /\ Loads => IInv'
<1> SUFFICES ASSUME IInv, Loads PROVE IInv'
  OBVIOUS
<1> USE DEF IInv
<1>o. /\ 1 \in 1..Len(Tables)
      /\ Kind \ {Zone} # {} /\ \A i \in 1..Len(Tables) : Tables[i] \in Kind \ {Zone}
  BY YmlAssumption, ClearedScene
<1>1. ASSUME NEW j \in Job, YamlMissing(j) PROVE IInv'
  <2>1. job[j].phase = "yaml" /\ UNCHANGED <<stored, apart, connected, applies, editor, edits>>
    BY <1>1 DEF YamlMissing
  <2>2. CASE connected
    <3>1. /\ suppressed' = TRUE /\ timer' = FALSE /\ ents' = Cleared(ents)
          /\ owed' = owed \cup (Kind \ {Zone}) /\ Fetch(j, 1)
      BY <1>1, <2>2 DEF YamlMissing, SuppressSync
    <3>2. LoadsKept /\ InBulk(j)'
      BY <1>o, <3>1, FetchKeeps DEF TypeOK
    <3>3. TypeOK'
      BY <2>1, <3>1, <3>2, ClearedScene DEF TypeOK, LoadsKept
    <3> QED
      BY <1>o, <2>1, <3>1, <3>2, <3>3
      DEF LoadsKept, NoSyncWhileSuppressed, SuppressedByLoad, OwedIsPending, Agree
  <2>3. CASE ~connected
    <3>1. End(j) /\ UNCHANGED <<ents, timer, suppressed, owed>>
      BY <1>1, <2>3 DEF YamlMissing
    <3>2. LoadsKept /\ \A h \in Job \ {j} : job'[h] = job[h]
      BY <3>1, EndKeeps DEF TypeOK
    <3>3. TypeOK'
      BY <2>1, <3>1, <3>2 DEF TypeOK, LoadsKept
    <3>4. SuppressedByLoad'
      BY <2>1, <3>1, <3>2 DEF SuppressedByLoad, InBulk
    <3> QED
      BY <2>1, <3>1, <3>2, <3>3, <3>4
      DEF LoadsKept, NoSyncWhileSuppressed, OwedIsPending, Agree
  <2> QED
    BY <2>2, <2>3
<1>2. ASSUME NEW j \in Job, NEW d \in Doc, YamlArrives(j, d) PROVE IInv'
  <2>1. /\ job[j].phase = "yaml" /\ stored' = Submitted(d) /\ apart' = "ahead"
        /\ Submitted(d) \in File
        /\ UNCHANGED <<ents, owed, connected, applies, editor, edits>>
    BY <1>2, SubmittedFile DEF YamlArrives
  <2>2. CASE connected
    <3>1. /\ suppressed' = TRUE /\ timer' = FALSE
          /\ job' = [job EXCEPT ![j] = Load("prefetch", "settings", Submitted(d))]
      BY <1>2, <2>2 DEF YamlArrives, SuppressSync
    <3>2. LoadsKept /\ InBulk(j)'
      BY <2>1, <3>1, NewLoad DEF TypeOK
    <3>3. TypeOK'
      BY <2>1, <3>1, <3>2 DEF TypeOK, LoadsKept
    <3> QED
      BY <2>1, <3>1, <3>2, <3>3
      DEF LoadsKept, NoSyncWhileSuppressed, SuppressedByLoad, OwedIsPending, Agree
  <2>3. CASE ~connected
    <3>1. End(j) /\ UNCHANGED <<timer, suppressed>>
      BY <1>2, <2>3 DEF YamlArrives
    <3>2. LoadsKept /\ \A h \in Job \ {j} : job'[h] = job[h]
      BY <3>1, EndKeeps DEF TypeOK
    <3>3. TypeOK'
      BY <2>1, <3>1, <3>2 DEF TypeOK, LoadsKept
    <3>4. SuppressedByLoad'
      BY <2>1, <3>1, <3>2 DEF SuppressedByLoad, InBulk
    <3> QED
      BY <2>1, <3>1, <3>2, <3>3, <3>4
      DEF LoadsKept, NoSyncWhileSuppressed, OwedIsPending, Agree
  <2> QED
    BY <2>2, <2>3
\* A load that ends, however it does, and resumes syncing.
<1>e. ASSUME NEW j \in Job, NEW e \in [Kind -> Content], NEW notified \in BOOLEAN,
             ents' = e, ResumeSync(stored, e, notified), End(j),
             editor' \in [mode : {"closed", "open", "closing"}, file : File \cup {NoFile}],
             UNCHANGED <<connected, applies, edits>>
      PROVE  IInv'
  <2>1. /\ stored' \in File \cup {NoFile} /\ timer' \in BOOLEAN /\ owed' \subseteq Kind
        /\ apart' \in {"no", "ahead", "stale"} /\ suppressed' = FALSE /\ Flags'
    BY <1>e, ResumeKeeps
  <2>2. LoadsKept
    BY <1>e, EndKeeps DEF TypeOK
  <2>3. TypeOK'
    BY <1>e, <2>1, <2>2 DEF TypeOK, LoadsKept
  <2> QED
    BY <2>1, <2>2, <2>3 DEF Flags, LoadsKept, SuppressedByLoad
<1>3. ASSUME NEW j \in Job, NEW outcome \in Outcome, LoadApplies(j, outcome) PROVE IInv'
  <2> DEFINE f == job[j].file
  <2>1. f \in File /\ job[j].phase = "prefetch" /\ UNCHANGED <<connected, applies, editor, edits>>
    BY <1>3 DEF LoadApplies, LoadsHaveFiles
  <2>2. CASE outcome = "applied"
    <3>1. /\ ents' = Cleared(f.ents) /\ timer' = ~suppressed /\ owed' = Kind \ {Zone}
          /\ apart' \in {"no", "stale"} /\ LoadAll(j) /\ UNCHANGED <<stored, suppressed>>
      BY <1>3, <2>2 DEF LoadApplies
    <3>2. LoadsKept /\ InBulk(j)'
      <4>1. CASE connected
        BY <1>o, <3>1, <4>1, FetchKeeps DEF LoadAll, TypeOK
      <4>2. CASE ~connected
        BY <3>1, <4>2, RetryKeeps DEF LoadAll, TypeOK
      <4> QED
        BY <4>1, <4>2
    <3>3. ents' \in [Kind -> Content]
      BY <2>1, <3>1, ClearedScene DEF File
    <3>4. TypeOK'
      BY <2>1, <3>1, <3>2, <3>3 DEF TypeOK, LoadsKept
    <3> QED
      BY <1>o, <3>1, <3>2, <3>4
      DEF LoadsKept, NoSyncWhileSuppressed, SuppressedByLoad, OwedIsPending, Agree, TypeOK
  <2>3. CASE outcome = "fatal"
    <3>1. UNCHANGED ents /\ ResumeSync(stored, ents, FALSE) /\ End(j)
      BY <1>3, <2>3 DEF LoadApplies
    <3> QED
      BY <1>e, <2>1, <3>1 DEF TypeOK
  <2>4. CASE outcome = "malformed"
    <3>1. /\ ents' = [k \in Kind |-> Nothing] /\ suppressed' = FALSE /\ timer' = FALSE
          /\ SyncYmlToStorage(stored, ents') /\ End(j)
      BY <1>3, <2>4 DEF LoadApplies
    <3>2. /\ stored' \in File \cup {NoFile} /\ owed' = {} /\ apart' = "no"
          /\ stored' # NoFile => stored'.ents = ents'
      BY <3>1, EmptyScene, SyncWrites DEF TypeOK
    <3>3. LoadsKept
      BY <3>1, EndKeeps DEF TypeOK
    <3>4. TypeOK'
      BY <2>1, <3>1, <3>2, <3>3, EmptyScene DEF TypeOK, LoadsKept
    <3> QED
      BY <3>1, <3>2, <3>3, <3>4
      DEF LoadsKept, NoSyncWhileSuppressed, SuppressedByLoad, OwedIsPending, Agree
  <2> QED
    BY <2>2, <2>3, <2>4 DEF Outcome
<1>4. ASSUME NEW j \in Job, RetryLoadAll(j) PROVE IInv'
  <2>1. job[j].phase = "retry" /\ UNCHANGED <<connected, applies, editor, edits>>
    BY <1>4 DEF RetryLoadAll
  <2>2. CASE connected
    <3>1. Fetch(j, 1) /\ UNCHANGED fileVars
      BY <1>4, <2>2 DEF RetryLoadAll
    <3>2. LoadsKept /\ InBulk(j)'
      BY <1>o, <3>1, FetchKeeps DEF TypeOK
    <3>3. TypeOK'
      BY <2>1, <3>1, <3>2 DEF TypeOK, LoadsKept, fileVars
    <3> QED
      BY <3>1, <3>2, <3>3 DEF fileVars, LoadsKept, NoSyncWhileSuppressed, SuppressedByLoad,
                              OwedIsPending, Agree
  <2>3. CASE ~connected
    <3>1. UNCHANGED ents /\ ResumeSync(stored, ents, FALSE) /\ End(j)
      BY <1>4, <2>3 DEF RetryLoadAll
    <3> QED
      BY <1>e, <2>1, <3>1 DEF TypeOK
  <2> QED
    BY <2>2, <2>3
<1>5. ASSUME NEW j \in Job, NEW rows \in BOOLEAN, TableArrives(j, rows) PROVE IInv'
  <2> DEFINE i == job[j].table
             k == Tables[i]
             e == IF rows THEN [ents EXCEPT ![k] = Rows] ELSE ents
  <2>1. /\ job[j].phase = "fetch" /\ ents' = e /\ UNCHANGED <<connected, applies, edits>>
        /\ i \in 1..Len(Tables) /\ k \in Kind
    BY <1>5, <1>o DEF TableArrives, TypeOK, JobState
  <2>2. e \in [Kind -> Content]
    BY <2>1 DEF TypeOK, Content
  <2>3. CASE i < Len(Tables)
    <3>1. /\ IF rows THEN DebouncedSync({k}) ELSE UNCHANGED <<timer, owed>>
          /\ Fetch(j, i + 1) /\ UNCHANGED <<stored, suppressed, apart, editor>>
      BY <1>5, <2>3 DEF TableArrives
    <3>2. i + 1 \in 1..Len(Tables)
      BY <2>1, <2>3, YmlAssumption
    <3>3. LoadsKept /\ InBulk(j)'
      BY <3>1, <3>2, FetchKeeps DEF TypeOK
    <3>4. CASE rows
      <4>1. timer' = (timer \/ ~suppressed) /\ owed' = owed \cup {k}
        BY <3>1, <3>4 DEF DebouncedSync
      <4>2. TypeOK'
        <5> HIDE DEF k, e
        <5> QED
          BY <2>1, <2>2, <3>1, <3>3, <4>1 DEF TypeOK, LoadsKept
      <4> HIDE DEF k, e
      <4> QED
        BY <3>1, <3>3, <4>1, <4>2
        DEF LoadsKept, NoSyncWhileSuppressed, SuppressedByLoad, OwedIsPending, Agree, TypeOK
    <3>5. CASE ~rows
      <4>1. UNCHANGED <<ents, timer, owed, stored, suppressed, apart, editor>>
        BY <2>1, <3>1, <3>5
      <4>2. TypeOK'
        BY <2>1, <3>3, <4>1 DEF TypeOK, LoadsKept
      <4> QED
        BY <3>3, <4>1, <4>2
        DEF LoadsKept, NoSyncWhileSuppressed, SuppressedByLoad, OwedIsPending, Agree
    <3> QED
      BY <3>4, <3>5
  <2>4. CASE ~(i < Len(Tables))
    <3> DEFINE n == rows \/ e[Zone] # Nothing
    <3>1. /\ ResumeSync(stored, e, n) /\ End(j)
          /\ editor' = (IF job[j].by = "editor" /\ editor.mode = "open"
                        THEN [editor EXCEPT !.file = stored'] ELSE editor)
      BY <1>5, <2>4 DEF TableArrives
    <3>2. n \in BOOLEAN
      OBVIOUS
    <3>3. stored' \in File \cup {NoFile}
      BY <2>1, <2>2, <3>1, <3>2, ResumeKeeps
    <3>4. editor' \in [mode : {"closed", "open", "closing"}, file : File \cup {NoFile}]
      BY <3>1, <3>3 DEF TypeOK
    <3> HIDE DEF n, e
    <3> QED
      BY <1>e, <2>1, <2>2, <3>1, <3>2, <3>4
  <2> QED
    BY <2>3, <2>4
<1> QED
  BY <1>1, <1>2, <1>3, <1>4, <1>5 DEF Loads

\* The invariant holds in every state.
THEOREM Invariance == Spec => []IInv
<1>1. ASSUME IInv, UNCHANGED vars PROVE IInv'
  BY <1>1 DEF vars, fileVars, IInv, TypeOK, LoadsHaveFiles, NoSyncWhileSuppressed,
              SuppressedByLoad, OwedIsPending, Agree, InBulk
<1>2. IInv /\ [Next]_vars => IInv'
  BY <1>1, UserKeeps, BrowserKeeps, LoadsKeep DEF Next
<1> QED
  BY InvInit, <1>2, PTL DEF Spec

-----------------------------------------------------------------------------
(* The properties the runs check.                                           *)

\* ymlConfigLoader.ts: every variable keeps its type.
THEOREM TypeCorrect == Spec => []TypeOK
<1>1. IInv => TypeOK
  BY DEF IInv
<1> QED
  BY <1>1, Invariance, PTL

\* suppressSync (ymlConfigLoader.ts): no sync waits to run while a load clears and fills
\* the scene.
THEOREM NoSyncInBulk == Spec => []NoSyncWhileSuppressed
<1>1. IInv => NoSyncWhileSuppressed
  BY DEF IInv
<1> QED
  BY <1>1, Invariance, PTL

\* applyAndLoadSimulation (ymlConfigLoader.ts): syncing is not left suppressed, however a
\* load ends and whatever other loads run.
THEOREM SyncingResumes == Spec => []SuppressedByLoad
<1>1. IInv => SuppressedByLoad
  BY DEF IInv
<1> QED
  BY <1>1, Invariance, PTL

\* debouncedSync (ymlConfigLoader.ts): no change of the scene is forgotten; a timer or a
\* load's end will write it.
THEOREM ChangesArePending == Spec => []OwedIsPending
<1>1. IInv => OwedIsPending
  BY DEF IInv
<1> QED
  BY <1>1, Invariance, PTL

\* ymlConfigLoader.ts: at rest the file describes the scene, but for the cases apart names.
THEOREM FileHoldsScene == Spec => []FileIsScene
<1>1. IInv => FileIsScene
  BY DEF IInv, OwedIsPending, Agree, Settled, FileIsScene
<1> QED
  BY <1>1, Invariance, PTL

-----------------------------------------------------------------------------
(* Least and greatest elements.                                               *)

\* A set of naturals with an element has a least.
LEMMA LeastExists ==
    ASSUME NEW S \in SUBSET Nat, S # {}
    PROVE  \E m \in S : \A j \in S : m <= j
<1>1. PICK m \in S : \A j \in S : ~(<<j, m>> \in OpToRel(<, Nat))
  BY NatLessThanWellFounded, WFMin
<1>2. ASSUME NEW j \in S PROVE m <= j
  <2>1. j \in Nat /\ m \in Nat
    OBVIOUS
  <2>2. ~(j < m)
    BY <1>1, <2>1 DEF OpToRel
  <2>. QED
    BY <2>1, <2>2
<1>. QED
  BY <1>2

\* And a greatest, if it is bounded.
LEMMA GreatestExists ==
    ASSUME NEW n \in Nat, NEW S \in SUBSET (0..n), S # {}
    PROVE  \E m \in S : \A j \in S : j <= m
<1> DEFINE T == {n - k : k \in S}
<1>1. T \subseteq Nat /\ T # {}
  <2>1. \A k \in S : n - k \in Nat
    OBVIOUS
  <2>2. PICK k \in S : TRUE
    OBVIOUS
  <2>3. n - k \in T
    OBVIOUS
  <2>. QED
    BY <2>1, <2>3
<1>2. PICK x \in T : \A y \in T : x <= y
  BY <1>1, LeastExists
<1>3. PICK m \in S : x = n - m
  OBVIOUS
<1>4. ASSUME NEW j \in S PROVE j <= m
  <2>1. n - j \in T /\ j \in 0..n /\ m \in 0..n
    OBVIOUS
  <2>2. n - m <= n - j
    BY <1>2, <1>3, <2>1
  <2> HIDE DEF T
  <2>. QED
    BY <2>1, <2>2
<1>. QED
  BY <1>4

\* Induction on the naturals, of a set.
LEMMA FromZeroOn ==
    ASSUME NEW S, 0 \in S, \A n \in Nat : n \in S => n + 1 \in S
    PROVE  \A n \in Nat : n \in S
<1> SUFFICES ASSUME NEW k \in Nat, k \notin S PROVE FALSE
  OBVIOUS
<1> DEFINE F == {n \in Nat : n \notin S}
<1>1. PICK m \in F : \A j \in F : m <= j
  <2>1. F \subseteq Nat /\ k \in F
    OBVIOUS
  <2>. QED
    BY <2>1, LeastExists
<1>2. m \in Nat /\ m # 0 /\ m \notin S
  OBVIOUS
<1>3. m - 1 \in Nat /\ ~(m <= m - 1) /\ (m - 1) + 1 = m
  BY <1>2
<1>4. m - 1 \in S
  BY <1>1, <1>3
<1>. QED
  BY <1>2, <1>3, <1>4

-----------------------------------------------------------------------------
(* What a list of updates says.                                               *)

IsList(s) == \E S : s \in Seq(S)

\* The updates that give an entity a value for the key.
Says(update, id, key) == {i \in DOMAIN update : Targets(update[i], id) /\ key \in DOMAIN update[i].attrs}

LEMMA ListIs ==
    ASSUME NEW s, IsList(s)
    PROVE  Len(s) \in Nat /\ DOMAIN s = 1..Len(s)
  BY DEF IsList

LEMMA ConcatIs ==
    ASSUME NEW a, NEW b, IsList(a), IsList(b)
    PROVE  /\ IsList(a \o b) /\ Len(a \o b) = Len(a) + Len(b)
           /\ \A i \in 1..Len(a) : (a \o b)[i] = a[i]
           /\ \A i \in 1..Len(b) : (a \o b)[Len(a) + i] = b[i]
<1>1. PICK A : a \in Seq(A)
  BY DEF IsList
<1>2. PICK B : b \in Seq(B)
  BY DEF IsList
<1>3. a \in Seq(A \cup B) /\ b \in Seq(A \cup B)
  BY <1>1, <1>2
<1>4. a \o b \in Seq(A \cup B)
  BY <1>3
<1>. QED
  BY <1>3, <1>4 DEF IsList

\* The last update that gives an entity a value for a key gives it the value.
LEMMA AppliedIs ==
    ASSUME NEW update, IsList(update), NEW id
    PROVE  /\ Applied(update, id) = [key \in DOMAIN Applied(update, id) |-> Applied(update, id)[key]]
           /\ \A key : key \in DOMAIN Applied(update, id) <=> Says(update, id, key) # {}
           /\ \A key : \A i \in Says(update, id, key) :
                 (\A j \in Says(update, id, key) : j <= i) => Applied(update, id)[key] = update[i].attrs[key]
           /\ \A key \in DOMAIN Applied(update, id) :
                 \E i \in Says(update, id, key) : \A j \in Says(update, id, key) : j <= i
<1> DEFINE for == {i \in DOMAIN update : Targets(update[i], id)}
           keys == UNION {DOMAIN update[i].attrs : i \in for}
           says(key) == {i \in for : key \in DOMAIN update[i].attrs}
           last(key) == CHOOSE i \in says(key) : \A j \in says(key) : j <= i
<1>1. Applied(update, id) = [key \in keys |-> update[last(key)].attrs[key]]
  BY DEF Applied
<1>2. \A key : says(key) = Says(update, id, key)
  BY DEF Says
<1>3. \A key : key \in keys <=> says(key) # {}
  OBVIOUS
<1>4. ASSUME NEW key, says(key) # {} PROVE \E i \in says(key) : \A j \in says(key) : j <= i
  <2>1. Len(update) \in Nat /\ says(key) \subseteq 0..Len(update)
    BY ListIs
  <2> HIDE DEF says
  <2>. QED
    BY <1>4, <2>1, GreatestExists
<1>5. ASSUME NEW key, NEW i \in says(key), \A j \in says(key) : j <= i
      PROVE  Applied(update, id)[key] = update[i].attrs[key]
  <2>1. last(key) \in says(key) /\ \A j \in says(key) : j <= last(key)
    <3> HIDE DEF says
    <3>. QED
      BY <1>5
  <2>2. i \in Nat /\ last(key) \in Nat /\ i <= last(key) /\ last(key) <= i
    <3>1. Len(update) \in Nat /\ says(key) \subseteq 1..Len(update)
      BY ListIs
    <3> HIDE DEF says, last
    <3>. QED
      BY <1>5, <2>1, <3>1
  <2>3. last(key) = i
    <3> HIDE DEF last
    <3>. QED
      BY <2>2
  <2>4. key \in keys
    BY <1>3, <1>5
  <2> HIDE DEF keys, last
  <2>. QED
    BY <1>1, <2>3, <2>4
<1> HIDE DEF keys, last, says
<1>6. Applied(update, id) = [key \in DOMAIN Applied(update, id) |-> Applied(update, id)[key]]
  BY <1>1
<1>7. DOMAIN Applied(update, id) = keys
  BY <1>1
<1>. QED
  BY <1>2, <1>3, <1>4, <1>5, <1>6, <1>7

\* Of two lists the second overrides the first.
LEMMA AppliedConcat ==
    ASSUME NEW a, NEW b, IsList(a), IsList(b), NEW id
    PROVE  Applied(a \o b, id) = Over(Applied(b, id), Applied(a, id))
<1> DEFINE ab == Applied(a \o b, id)
           over == Over(Applied(b, id), Applied(a, id))
<1>l. /\ IsList(a \o b) /\ Len(a \o b) = Len(a) + Len(b) /\ Len(a) \in Nat /\ Len(b) \in Nat
      /\ DOMAIN a = 1..Len(a) /\ DOMAIN b = 1..Len(b) /\ DOMAIN (a \o b) = 1..Len(a) + Len(b)
      /\ \A i \in 1..Len(a) : (a \o b)[i] = a[i]
      /\ \A i \in 1..Len(b) : (a \o b)[Len(a) + i] = b[i]
  BY ConcatIs, ListIs
<1>s. ASSUME NEW key
      PROVE  /\ \A i \in Says(a, id, key) : i \in 1..Len(a) /\ i \in Says(a \o b, id, key)
             /\ \A i \in Says(b, id, key) : i \in 1..Len(b) /\ Len(a) + i \in Says(a \o b, id, key)
             /\ \A i \in Says(a \o b, id, key) :
                   i \in Says(a, id, key) \/ \E j \in Says(b, id, key) : i = Len(a) + j
  <2>1. ASSUME NEW i \in Says(a, id, key) PROVE i \in 1..Len(a) /\ i \in Says(a \o b, id, key)
    BY <2>1, <1>l DEF Says
  <2>2. ASSUME NEW i \in Says(b, id, key) PROVE i \in 1..Len(b) /\ Len(a) + i \in Says(a \o b, id, key)
    <3>1. i \in 1..Len(b) /\ Len(a) + i \in DOMAIN (a \o b) /\ (a \o b)[Len(a) + i] = b[i]
      BY <1>l DEF Says
    <3>. QED
      BY <3>1 DEF Says
  <2>3. ASSUME NEW i \in Says(a \o b, id, key)
        PROVE  i \in Says(a, id, key) \/ \E j \in Says(b, id, key) : i = Len(a) + j
    <3>1. i \in 1..Len(a) + Len(b)
      BY <1>l DEF Says
    <3>2. CASE i \in 1..Len(a)
      BY <3>2, <1>l DEF Says
    <3>3. CASE i \notin 1..Len(a)
      <4>1. i - Len(a) \in 1..Len(b) /\ i = Len(a) + (i - Len(a))
        BY <3>1, <3>3, <1>l
      <4>2. i - Len(a) \in DOMAIN b /\ (a \o b)[i] = b[i - Len(a)]
        BY <4>1, <1>l
      <4>3. i - Len(a) \in Says(b, id, key)
        BY <4>2 DEF Says
      <4>. QED
        BY <4>1, <4>3
    <3>. QED
      BY <3>2, <3>3
  <2>. QED
    BY <2>1, <2>2, <2>3
<1>1. DOMAIN ab = DOMAIN over
  <2>1. DOMAIN over = DOMAIN Applied(b, id) \cup DOMAIN Applied(a, id)
    BY DEF Over
  <2>2. ASSUME NEW key PROVE Says(a \o b, id, key) # {} <=> Says(a, id, key) # {} \/ Says(b, id, key) # {}
    BY <1>s
  <2> HIDE DEF ab, over
  <2>3. \A key : key \in DOMAIN ab <=> key \in DOMAIN Applied(b, id) \cup DOMAIN Applied(a, id)
    BY <2>2, <1>l, AppliedIs DEF ab
  <2>. QED
    BY <2>1, <2>3
<1>2. ASSUME NEW key \in DOMAIN ab PROVE ab[key] = over[key]
  <2>1. PICK m \in Says(a \o b, id, key) : \A j \in Says(a \o b, id, key) : j <= m
    BY <1>l, AppliedIs
  <2>2. ab[key] = (a \o b)[m].attrs[key]
    <3>1. PICK l : l = a \o b
      OBVIOUS
    <3>2. IsList(l) /\ m \in Says(l, id, key) /\ \A j \in Says(l, id, key) : j <= m
      BY <1>l, <3>1, <2>1
    <3> HIDE DEF ab
    <3>3. Applied(l, id)[key] = l[m].attrs[key]
      BY <3>2, AppliedIs
    <3>. QED
      BY <3>1, <3>3 DEF ab
  <2>3. CASE Says(b, id, key) # {}
    <3>1. PICK n \in Says(b, id, key) : m = Len(a) + n
      BY <2>1, <2>3, <1>s, <1>l
    <3>2. \A j \in Says(b, id, key) : j <= n
      <4>1. ASSUME NEW j \in Says(b, id, key) PROVE j <= n
        <5>1. Len(a) + j <= Len(a) + n /\ j \in Nat /\ n \in Nat
          BY <2>1, <3>1, <1>s, <1>l
        <5>. QED
          BY <5>1, <1>l
      <4>. QED
        BY <4>1
    <3>3. Applied(b, id)[key] = b[n].attrs[key] /\ key \in DOMAIN Applied(b, id)
      BY <3>2, AppliedIs, <2>3
    <3>4. over[key] = Applied(b, id)[key]
      BY <3>3 DEF Over
    <3>5. (a \o b)[m] = b[n]
      BY <3>1, <1>s, <1>l
    <3>. QED
      BY <2>2, <3>3, <3>4, <3>5
  <2>4. CASE Says(b, id, key) = {}
    <3>1. m \in Says(a, id, key) /\ \A j \in Says(a, id, key) : j <= m
      BY <2>1, <2>4, <1>s
    <3>2. Applied(a, id)[key] = a[m].attrs[key] /\ key \in DOMAIN Applied(a, id) /\ key \notin DOMAIN Applied(b, id)
      BY <3>1, AppliedIs, <2>4
    <3>3. over[key] = Applied(a, id)[key]
      BY <3>2 DEF Over
    <3>4. (a \o b)[m] = a[m]
      BY <3>1, <1>s, <1>l
    <3>. QED
      BY <2>2, <3>2, <3>3, <3>4
  <2>. QED
    BY <2>3, <2>4
<1>3. ab = [key \in DOMAIN ab |-> ab[key]]
  BY <1>l, AppliedIs
<1>4. over = [key \in DOMAIN over |-> over[key]]
  BY DEF Over
<1> HIDE DEF ab, over
<1>5. ab = over
  BY <1>1, <1>2, <1>3, <1>4
<1>. QED
  BY <1>5 DEF ab, over

\* A list of one update, and the empty list.
LEMMA AppliedOne ==
    ASSUME NEW u, NEW id
    PROVE  Applied(<<u>>, id) = IF Targets(u, id) THEN [key \in DOMAIN u.attrs |-> u.attrs[key]] ELSE NoAttributes
<1>1. IsList(<<u>>) /\ DOMAIN <<u>> = {1} /\ <<u>>[1] = u
  <2>1. <<u>> \in Seq({u})
    OBVIOUS
  <2>2. IsList(<<u>>)
    BY <2>1 DEF IsList
  <2>3. DOMAIN <<u>> = {1} /\ <<u>>[1] = u
    OBVIOUS
  <2>. QED
    BY <2>2, <2>3
<1>2. \A key : Says(<<u>>, id, key) = IF Targets(u, id) /\ key \in DOMAIN u.attrs THEN {1} ELSE {}
  BY <1>1 DEF Says
<1> DEFINE ap == Applied(<<u>>, id)
<1>3. ap = [key \in DOMAIN ap |-> ap[key]]
  BY <1>1, AppliedIs
<1>4. \A key : key \in DOMAIN ap <=> Targets(u, id) /\ key \in DOMAIN u.attrs
  BY <1>1, <1>2, AppliedIs
<1>5. ASSUME NEW key \in DOMAIN ap PROVE ap[key] = u.attrs[key]
  <2>1. Says(<<u>>, id, key) = {1}
    BY <1>2, <1>4
  <2>. QED
    BY <1>1, <2>1, AppliedIs
<1> HIDE DEF ap
<1>6. CASE Targets(u, id)
  <2>1. DOMAIN ap = DOMAIN u.attrs
    BY <1>4, <1>6
  <2>2. ap = [key \in DOMAIN u.attrs |-> u.attrs[key]]
    BY <1>3, <1>5, <2>1
  <2>. QED
    BY <2>2, <1>6 DEF ap
<1>7. CASE ~Targets(u, id)
  <2>1. DOMAIN ap = {}
    BY <1>4, <1>7
  <2>2. ap = NoAttributes
    BY <1>3, <2>1 DEF NoAttributes
  <2>. QED
    BY <2>2, <1>7 DEF ap
<1>. QED
  BY <1>6, <1>7

LEMMA AppliedNone ==
    ASSUME NEW id
    PROVE  Applied(<<>>, id) = NoAttributes
  BY DEF Applied, NoAttributes

-----------------------------------------------------------------------------
(* The order of the identifiers.                                              *)

\* s goes through the identifiers from the least to the greatest.
Enumerates(s, ids) ==
    /\ s \in [1..Cardinality(ids) -> ids] /\ Range(s) = ids
    /\ \A i, j \in DOMAIN s : i < j => s[i] < s[j]

LEMMA EnumerationExists ==
    ASSUME NEW ids \in SUBSET Nat, IsFiniteSet(ids)
    PROVE  \E s : Enumerates(s, ids)
<1> DEFINE S == {n \in Nat : \A T \in SUBSET Nat : IsFiniteSet(T) /\ Cardinality(T) = n => \E s : Enumerates(s, T)}
<1>1. 0 \in S
  <2> SUFFICES ASSUME NEW T \in SUBSET Nat, IsFiniteSet(T), Cardinality(T) = 0 PROVE \E s : Enumerates(s, T)
    OBVIOUS
  <2>1. T = {}
    BY FS_EmptySet
  <2> DEFINE s == [i \in 1..0 |-> i]
  <2>2. s \in [1..Cardinality(T) -> T] /\ DOMAIN s = {}
    BY <2>1
  <2>3. Range(s) = T
    BY <2>1, <2>2 DEF Range
  <2>. QED
    BY <2>2, <2>3 DEF Enumerates
<1>2. ASSUME NEW n \in Nat, n \in S PROVE n + 1 \in S
  <2> SUFFICES ASSUME NEW T \in SUBSET Nat, IsFiniteSet(T), Cardinality(T) = n + 1 PROVE \E s : Enumerates(s, T)
    OBVIOUS
  <2>1. T # {}
    BY FS_EmptySet
  <2>2. PICK m \in T : \A j \in T : m <= j
    BY <2>1, LeastExists
  <2>3. IsFiniteSet(T \ {m}) /\ Cardinality(T \ {m}) = n
    <3>1. IsFiniteSet(T \ {m}) /\ Cardinality(T \ {m}) = (n + 1) - 1
      BY FS_RemoveElement
    <3>. QED
      BY <3>1
  <2>4. PICK r : Enumerates(r, T \ {m})
    <3>1. T \ {m} \in SUBSET Nat
      OBVIOUS
    <3>. QED
      BY <1>2, <2>3, <3>1
  <2>5. r \in [1..n -> T \ {m}] /\ Range(r) = T \ {m} /\ \A i, j \in 1..n : i < j => r[i] < r[j]
    BY <2>3, <2>4 DEF Enumerates
  <2> DEFINE s == [i \in 1..n + 1 |-> IF i = 1 THEN m ELSE r[i - 1]]
  <2>6. \A i \in 1..n + 1 : i # 1 => i - 1 \in 1..n /\ s[i] = r[i - 1] /\ s[i] \in T \ {m}
    BY <2>5
  <2>7. s \in [1..n + 1 -> T]
    BY <2>6
  <2>8. Range(s) = T
    <3>1. Range(s) \subseteq T
      BY <2>7 DEF Range
    <3>2. ASSUME NEW x \in T PROVE x \in Range(s)
      <4>1. CASE x = m
        <5>1. 1 \in DOMAIN s /\ s[1] = m
          OBVIOUS
        <5>. QED
          BY <4>1, <5>1 DEF Range
      <4>2. CASE x # m
        <5>1. PICK i \in 1..n : r[i] = x
          BY <2>5, <4>2 DEF Range
        <5>2. i + 1 \in DOMAIN s /\ s[i + 1] = x
          <6>1. i + 1 \in 1..n + 1 /\ i + 1 # 1 /\ (i + 1) - 1 = i
            OBVIOUS
          <6>. QED
            BY <5>1, <6>1
        <5>. QED
          BY <5>2 DEF Range
      <4>. QED
        BY <4>1, <4>2
    <3>. QED
      BY <3>1, <3>2
  <2>9. ASSUME NEW i \in 1..n + 1, NEW j \in 1..n + 1, i < j PROVE s[i] < s[j]
    <3>1. j # 1 /\ s[j] = r[j - 1] /\ s[j] \in T \ {m} /\ j - 1 \in 1..n
      BY <2>6, <2>9
    <3>2. CASE i = 1
      <4>1. s[i] = m /\ m <= s[j] /\ m # s[j] /\ m \in Nat /\ s[j] \in Nat
        BY <2>2, <3>1, <3>2
      <4> HIDE DEF s
      <4>. QED
        BY <4>1
    <3>3. CASE i # 1
      <4>1. s[i] = r[i - 1] /\ i - 1 \in 1..n /\ i - 1 < j - 1
        BY <2>6, <2>9, <3>3
      <4> HIDE DEF s
      <4>. QED
        BY <2>5, <3>1, <4>1
    <3>. QED
      BY <3>2, <3>3
  <2>10. DOMAIN s = 1..n + 1
    OBVIOUS
  <2> HIDE DEF s
  <2>11. Enumerates(s, T)
    BY <2>7, <2>8, <2>9, <2>10 DEF Enumerates
  <2>. QED
    BY <2>11
<1>3. Cardinality(ids) \in Nat
  BY FS_CardinalityType
<1> HIDE DEF S
<1>4. Cardinality(ids) \in S
  BY <1>1, <1>2, <1>3, FromZeroOn
<1>. QED
  BY <1>4 DEF S

LEMMA InOrderIs ==
    ASSUME NEW ids \in SUBSET Nat, IsFiniteSet(ids)
    PROVE  /\ Len(InOrder(ids)) \in Nat /\ DOMAIN InOrder(ids) = 1..Len(InOrder(ids)) /\ IsList(InOrder(ids))
           /\ \A i \in 1..Len(InOrder(ids)) : InOrder(ids)[i] \in ids
           /\ \A id \in ids : \E i \in 1..Len(InOrder(ids)) : InOrder(ids)[i] = id
           /\ \A i, j \in 1..Len(InOrder(ids)) : InOrder(ids)[i] = InOrder(ids)[j] => i = j
<1>1. Enumerates(InOrder(ids), ids)
  BY EnumerationExists DEF InOrder, Enumerates
<1>2. PICK s : s = InOrder(ids)
  OBVIOUS
<1>3. Cardinality(ids) \in Nat
  BY FS_CardinalityType
<1>4. s \in Seq(ids) /\ Len(s) = Cardinality(ids) /\ DOMAIN s = 1..Len(s)
  BY <1>1, <1>2, <1>3 DEF Enumerates
<1>5. \A i, j \in 1..Len(s) : i < j => s[i] < s[j]
  BY <1>1, <1>2, <1>4 DEF Enumerates
<1>6. \A i \in 1..Len(s) : s[i] \in ids /\ s[i] \in Nat
  <2>1. s \in [1..Len(s) -> ids]
    BY <1>1, <1>2, <1>4 DEF Enumerates
  <2>. QED
    BY <2>1
<1>7. ASSUME NEW i \in 1..Len(s), NEW j \in 1..Len(s), s[i] = s[j] PROVE i = j
  <2>1. ~(i < j) /\ ~(j < i)
    BY <1>5, <1>6, <1>7
  <2>. QED
    BY <1>4, <2>1
<1>8. \A id \in ids : \E i \in 1..Len(s) : s[i] = id
  BY <1>1, <1>2, <1>4 DEF Enumerates, Range
<1>. QED
  BY <1>2, <1>3, <1>4, <1>6, <1>7, <1>8 DEF IsList

\* A list with one update for each of the identifiers, in their order.
OneEach(list, ids, attrs) ==
    /\ IsList(list) /\ Len(list) = Len(InOrder(ids))
    /\ \A i \in 1..Len(list) : list[i].attrs = attrs[InOrder(ids)[i]]

LEMMA AppliedOwn ==
    ASSUME NEW ids \in SUBSET Nat, IsFiniteSet(ids), NEW list, NEW attrs, OneEach(list, ids, attrs), NEW id,
           \A i \in 1..Len(list) : Targets(list[i], id) <=> InOrder(ids)[i] = id
    PROVE  Applied(list, id) = IF id \in ids THEN [key \in DOMAIN attrs[id] |-> attrs[id][key]] ELSE NoAttributes
<1> DEFINE ap == Applied(list, id)
<1>1. DOMAIN list = 1..Len(list) /\ Len(list) \in Nat
  BY ListIs DEF OneEach
<1>2. ap = [key \in DOMAIN ap |-> ap[key]]
  BY AppliedIs DEF OneEach
<1>3. CASE id \in ids
  <2>1. PICK i \in 1..Len(list) : InOrder(ids)[i] = id
    BY <1>3, InOrderIs DEF OneEach
  <2>2. \A j \in 1..Len(list) : InOrder(ids)[j] = id => j = i
    BY <2>1, InOrderIs DEF OneEach
  <2>3. list[i].attrs = attrs[id]
    BY <2>1 DEF OneEach
  <2>4. \A key : Says(list, id, key) = IF key \in DOMAIN attrs[id] THEN {i} ELSE {}
    BY <1>1, <2>1, <2>2, <2>3 DEF Says
  <2>5. \A key : key \in DOMAIN ap <=> key \in DOMAIN attrs[id]
    BY <2>4, AppliedIs DEF OneEach
  <2>6. ASSUME NEW key \in DOMAIN attrs[id] PROVE ap[key] = attrs[id][key]
    <3>1. Says(list, id, key) = {i} /\ i <= i
      BY <2>4, <1>1, <2>1
    <3>2. ap[key] = list[i].attrs[key]
      BY <3>1, AppliedIs DEF OneEach
    <3>. QED
      BY <2>3, <3>2
  <2> HIDE DEF ap
  <2>7. DOMAIN ap = DOMAIN attrs[id]
    BY <2>5
  <2>8. ap = [key \in DOMAIN attrs[id] |-> attrs[id][key]]
    BY <1>2, <2>6, <2>7
  <2>. QED
    BY <1>3, <2>8 DEF ap
<1>4. CASE id \notin ids
  <2>1. ASSUME NEW key, NEW i \in Says(list, id, key) PROVE FALSE
    <3>1. i \in 1..Len(list) /\ Targets(list[i], id)
      BY <1>1, <2>1 DEF Says
    <3>2. InOrder(ids)[i] \in ids
      BY <3>1, InOrderIs DEF OneEach
    <3>. QED
      BY <1>4, <3>1, <3>2
  <2>2. \A key : key \notin DOMAIN ap
    BY <2>1, AppliedIs DEF OneEach
  <2> HIDE DEF ap
  <2>3. DOMAIN ap = {}
    BY <2>2
  <2>4. ap = NoAttributes
    BY <1>2, <2>3 DEF NoAttributes
  <2>. QED
    BY <1>4, <2>4 DEF ap
<1>. QED
  BY <1>3, <1>4

-----------------------------------------------------------------------------
(* Attributes over attributes.                                                *)

IsAttrs(a) == a = [key \in DOMAIN a |-> a[key]]

LEMMA OverIs ==
    ASSUME NEW a, NEW b
    PROVE  /\ IsAttrs(Over(a, b)) /\ DOMAIN Over(a, b) = DOMAIN a \cup DOMAIN b
           /\ \A key \in DOMAIN a : Over(a, b)[key] = a[key]
           /\ \A key \in DOMAIN b \ DOMAIN a : Over(a, b)[key] = b[key]
  BY DEF Over, IsAttrs

LEMMA OverWithin ==
    ASSUME NEW a, NEW b, DOMAIN a \subseteq DOMAIN b
    PROVE  IsAttrs(Over(a, b)) /\ DOMAIN Over(a, b) = DOMAIN b
<1>1. DOMAIN Over(a, b) = DOMAIN a \cup DOMAIN b
  BY DEF Over
<1>. QED
  BY <1>1, OverIs

LEMMA OnlyIs ==
    ASSUME NEW a, NEW keys
    PROVE  /\ IsAttrs(Only(a, keys)) /\ DOMAIN Only(a, keys) = DOMAIN a \cap keys
           /\ \A key \in DOMAIN a \cap keys : Only(a, keys)[key] = a[key]
  BY DEF Only, Restrict, IsAttrs

LEMMA WithoutIs ==
    ASSUME NEW a, NEW keys
    PROVE  /\ IsAttrs(Without(a, keys)) /\ DOMAIN Without(a, keys) = DOMAIN a \ keys
           /\ \A key \in DOMAIN a \ keys : Without(a, keys)[key] = a[key]
  BY DEF Without, Restrict, IsAttrs

LEMMA NoneIs == IsAttrs(NoAttributes) /\ DOMAIN NoAttributes = {}
  BY DEF NoAttributes, IsAttrs

LEMMA SameAttrs ==
    ASSUME NEW a, NEW b, IsAttrs(a), IsAttrs(b), DOMAIN a = DOMAIN b, \A key \in DOMAIN a : a[key] = b[key]
    PROVE  a = b
  BY DEF IsAttrs

\* Nothing over attributes changes nothing.
LEMMA NothingOver ==
    ASSUME NEW a, IsAttrs(a), NEW keys
    PROVE  Over(NoAttributes, a) = a /\ Over(Only(NoAttributes, keys), a) = a /\ Without(NoAttributes, keys) = NoAttributes
<1>1. ASSUME NEW b, DOMAIN b = {} PROVE Over(b, a) = a
  <2>1. DOMAIN Over(b, a) = DOMAIN a /\ \A key \in DOMAIN a : Over(b, a)[key] = a[key]
    BY <1>1 DEF Over
  <2>. QED
    BY <2>1, OverIs, SameAttrs
<1>2. DOMAIN NoAttributes = {} /\ DOMAIN Only(NoAttributes, keys) = {} /\ DOMAIN Without(NoAttributes, keys) = {}
  BY NoneIs, OnlyIs, WithoutIs
<1>3. Without(NoAttributes, keys) = NoAttributes
  BY <1>2, NoneIs, WithoutIs, SameAttrs
<1>. QED
  BY <1>1, <1>2, <1>3

\* What is read first and then overridden is what the whole says.
LEMMA OnlyOver ==
    ASSUME NEW x, NEW y, NEW z, NEW keys
    PROVE  Over(Only(x, keys), Over(Only(y, keys), z)) = Over(Only(Over(x, y), keys), z)
<1> DEFINE l == Over(Only(x, keys), Over(Only(y, keys), z))
           r == Over(Only(Over(x, y), keys), z)
<1>1. IsAttrs(l) /\ IsAttrs(r)
  BY OverIs
<1>2. DOMAIN l = DOMAIN r
  <2>1. DOMAIN l = (DOMAIN x \cap keys) \cup ((DOMAIN y \cap keys) \cup DOMAIN z)
    BY DEF Over, Only, Restrict
  <2>2. DOMAIN r = ((DOMAIN x \cup DOMAIN y) \cap keys) \cup DOMAIN z
    BY DEF Over, Only, Restrict
  <2> HIDE DEF l, r
  <2>. QED
    BY <2>1, <2>2
<1>3. ASSUME NEW key \in DOMAIN l PROVE l[key] = r[key]
  BY DEF Over, Only, Restrict
<1> HIDE DEF l, r
<1>4. l = r
  BY <1>1, <1>2, <1>3, SameAttrs
<1>. QED
  BY <1>4 DEF l, r

LEMMA WithoutOver ==
    ASSUME NEW x, NEW y, NEW keys
    PROVE  Over(Without(x, keys), Without(y, keys)) = Without(Over(x, y), keys)
<1> DEFINE l == Over(Without(x, keys), Without(y, keys))
           r == Without(Over(x, y), keys)
<1>1. IsAttrs(l) /\ IsAttrs(r)
  BY OverIs, WithoutIs
<1>2. DOMAIN l = DOMAIN r
  <2>1. DOMAIN l = (DOMAIN x \ keys) \cup (DOMAIN y \ keys)
    BY DEF Over, Without, Restrict
  <2>2. DOMAIN r = (DOMAIN x \cup DOMAIN y) \ keys
    BY DEF Over, Without, Restrict
  <2> HIDE DEF l, r
  <2>. QED
    BY <2>1, <2>2
<1>3. ASSUME NEW key \in DOMAIN l PROVE l[key] = r[key]
  BY DEF Over, Without, Restrict
<1> HIDE DEF l, r
<1>4. l = r
  BY <1>1, <1>2, <1>3, SameAttrs
<1>. QED
  BY <1>4 DEF l, r

\* The attributes that are known and those that are left make the whole.
LEMMA KnownAndLeft ==
    ASSUME NEW x, NEW i, NEW keys
    PROVE  Over(Over(Without(x, keys), Over(Only(x, keys), i)), i) = Over(x, i)
<1> DEFINE l == Over(Over(Without(x, keys), Over(Only(x, keys), i)), i)
           r == Over(x, i)
<1>1. IsAttrs(l) /\ IsAttrs(r)
  BY OverIs
<1>2. DOMAIN l = DOMAIN r
  <2>1. DOMAIN l = ((DOMAIN x \ keys) \cup ((DOMAIN x \cap keys) \cup DOMAIN i)) \cup DOMAIN i
    BY DEF Over, Only, Without, Restrict
  <2>2. DOMAIN r = DOMAIN x \cup DOMAIN i
    BY OverIs
  <2> HIDE DEF l, r
  <2>. QED
    BY <2>1, <2>2
<1>3. ASSUME NEW key \in DOMAIN l PROVE l[key] = r[key]
  BY DEF Over, Without, Only, Restrict
<1> HIDE DEF l, r
<1>4. l = r
  BY <1>1, <1>2, <1>3, SameAttrs
<1>. QED
  BY <1>4 DEF l, r

\* The attributes whose value has a conversion, or a rule, of its own.
Converted == {"reference_freq_mhz", "dual_polarized", "aerial_du_subcarrier_spacing",
              "sim_is_seeded", "sim_num_procedural_ues", "um_enable_urban_mobility"}

FileUnits(attrs) == \A key \in DOMAIN attrs \cap Converted : attrs[key] \in Values(key)

ListOK(update) == IsList(update) /\ \A i \in 1..Len(update) : FileUnits(update[i].attrs)

LEMMA OverUnits ==
    ASSUME NEW a, NEW b, FileUnits(a), FileUnits(b), NEW keys
    PROVE  FileUnits(Over(a, b)) /\ FileUnits(Only(a, keys)) /\ FileUnits(Without(a, keys))
<1>1. FileUnits(Over(a, b))
  BY DEF FileUnits, Over
<1>2. FileUnits(Only(a, keys))
  BY DEF FileUnits, Only, Restrict
<1>3. FileUnits(Without(a, keys))
  BY DEF FileUnits, Without, Restrict
<1>. QED
  BY <1>1, <1>2, <1>3

LEMMA ConcatOK ==
    ASSUME NEW a, NEW b, ListOK(a), ListOK(b)
    PROVE  ListOK(a \o b)
<1>1. /\ IsList(a \o b) /\ Len(a \o b) = Len(a) + Len(b) /\ Len(a) \in Nat /\ Len(b) \in Nat
      /\ \A i \in 1..Len(a) : (a \o b)[i] = a[i]
      /\ \A i \in 1..Len(b) : (a \o b)[Len(a) + i] = b[i]
  BY ConcatIs, ListIs DEF ListOK
<1>2. ASSUME NEW i \in 1..Len(a) + Len(b) PROVE FileUnits((a \o b)[i].attrs)
  <2>1. CASE i \in 1..Len(a)
    BY <1>1, <2>1 DEF ListOK
  <2>2. CASE i \notin 1..Len(a)
    <3>1. i - Len(a) \in 1..Len(b) /\ Len(a) + (i - Len(a)) = i
      BY <1>1, <2>2
    <3>2. (a \o b)[i] = b[i - Len(a)]
      BY <1>1, <3>1
    <3>. QED
      BY <3>1, <3>2 DEF ListOK
  <2>. QED
    BY <2>1, <2>2
<1>. QED
  BY <1>1, <1>2 DEF ListOK

LEMMA EmptyOK == ListOK(<<>>) /\ \A id : Applied(<<>>, id) = NoAttributes
<1>1. <<>> \in Seq({}) /\ Len(<<>>) = 0
  OBVIOUS
<1>. QED
  BY <1>1, AppliedNone DEF ListOK, IsList

-----------------------------------------------------------------------------
(* Reading the updates of a section.                                          *)

IsPrim(p) == p = [attrs |-> p.attrs, place |-> p.place, src |-> p.src, speed |-> p.speed] /\ IsAttrs(p.attrs)

\* c is what ReadUpdates has read after each of the updates.
ReadsBy(c, prims, update, table, matched, left) ==
    /\ ReadUpdates(prims, update, table, matched, left) = c[Len(update)]
    /\ c[0].prims = prims /\ c[0].groups = <<>>
    /\ \A n \in 0..Len(update) - 1 :
          /\ c[n + 1].prims = Consumed(c[n].prims, matched[n + 1], update[n + 1].attrs, table)
          /\ c[n + 1].groups = c[n].groups \o left[n + 1]

\* The recursion of ReadUpdates has a solution.
LEMMA ReadDefined ==
    ASSUME NEW prims, NEW update, NEW table, NEW matched, NEW left, Len(update) \in Nat
    PROVE  \E c : ReadsBy(c, prims, update, table, matched, left)
<1> DEFINE start == [prims |-> prims, groups |-> <<>>]
           next(n, before) == [prims |-> Consumed(before.prims, matched[n], update[n].attrs, table),
                               groups |-> before.groups \o left[n]]
           Solves(c, m) == c = [n \in 0..m |-> IF n = 0 THEN start ELSE next(n, c[n - 1])]
           S == {m \in Nat : \E c : Solves(c, m)}
<1>1. 0 \in S
  <2> DEFINE c == [n \in 0..0 |-> start]
  <2>1. Solves(c, 0)
    OBVIOUS
  <2>. QED
    BY <2>1
<1>2. ASSUME NEW m \in Nat, m \in S PROVE m + 1 \in S
  <2>1. PICK c : Solves(c, m)
    BY <1>2
  <2> HIDE DEF next, start
  <2>2. PICK d : d = [n \in 0..m + 1 |-> IF n = 0 THEN start ELSE next(n, c[n - 1])]
    OBVIOUS
  <2>3. \A n \in 0..m : d[n] = c[n]
    BY <2>1, <2>2
  <2>4. \A n \in 1..m + 1 : d[n - 1] = c[n - 1]
    BY <2>3
  <2>5. \A n \in 0..m + 1 : (IF n = 0 THEN start ELSE next(n, c[n - 1]))
                             = (IF n = 0 THEN start ELSE next(n, d[n - 1]))
    BY <2>4
  <2>6. d = [n \in 0..m + 1 |-> IF n = 0 THEN start ELSE next(n, d[n - 1])]
    BY <2>2, <2>5
  <2>. QED
    BY <2>6
<1>3. PICK c : Solves(c, Len(update))
  <2> HIDE DEF S
  <2>1. Len(update) \in S
    BY <1>1, <1>2, FromZeroOn
  <2>. QED
    BY <2>1 DEF S
<1> DEFINE e == CHOOSE x : Solves(x, Len(update))
<1>4. Solves(e, Len(update))
  BY <1>3
<1>5. ReadUpdates(prims, update, table, matched, left) = e[Len(update)]
  BY DEF ReadUpdates
<1> HIDE DEF e
<1>6. e[0] = start /\ \A n \in 1..Len(update) : e[n] = next(n, e[n - 1])
  <2> HIDE DEF next, start
  <2>. QED
    BY <1>4
<1>7. \A n \in 0..Len(update) - 1 : n + 1 \in 1..Len(update) /\ e[n + 1] = next(n + 1, e[n])
  <2>1. ASSUME NEW n \in 0..Len(update) - 1 PROVE n + 1 \in 1..Len(update) /\ (n + 1) - 1 = n
    OBVIOUS
  <2> HIDE DEF next
  <2>. QED
    BY <1>6, <2>1
<1>8. \A n \in 0..Len(update) - 1 : /\ e[n + 1].prims = next(n + 1, e[n]).prims
                                    /\ e[n + 1].groups = next(n + 1, e[n]).groups
  <2> HIDE DEF next
  <2>. QED
    BY <1>7
<1>9. e[0].prims = prims /\ e[0].groups = <<>>
  BY <1>6
<1>. QED
  BY <1>5, <1>8, <1>9 DEF ReadsBy

LEMMA PrefixIs ==
    ASSUME NEW s, IsList(s)
    PROVE  /\ SubSeq(s, 1, 0) = <<>> /\ SubSeq(s, 1, Len(s)) = s
           /\ \A n \in 0..Len(s) : IsList(SubSeq(s, 1, n))
           /\ \A n \in 0..Len(s) - 1 : SubSeq(s, 1, n + 1) = SubSeq(s, 1, n) \o <<s[n + 1]>>
<1>1. PICK S : s \in Seq(S)
  BY DEF IsList
<1>2. SubSeq(s, 1, 0) = <<>>
  BY <1>1
<1>3. SubSeq(s, 1, Len(s)) = s
  BY <1>1
<1>4. \A n \in 0..Len(s) : SubSeq(s, 1, n) \in Seq(S) /\ Len(SubSeq(s, 1, n)) = n /\ \A i \in 1..n : SubSeq(s, 1, n)[i] = s[i]
  BY <1>1
<1>5. ASSUME NEW n \in 0..Len(s) - 1 PROVE SubSeq(s, 1, n + 1) = SubSeq(s, 1, n) \o <<s[n + 1]>>
  <2> DEFINE l == SubSeq(s, 1, n + 1)
             p == SubSeq(s, 1, n)
             r == p \o <<s[n + 1]>>
  <2>1. Len(s) \in Nat /\ n \in 0..Len(s) /\ n + 1 \in 0..Len(s) /\ n + 1 \in 1..Len(s) /\ s[n + 1] \in S
    BY <1>1
  <2>2. l \in Seq(S) /\ Len(l) = n + 1 /\ \A i \in 1..n + 1 : l[i] = s[i]
    BY <1>4, <2>1
  <2>3. p \in Seq(S) /\ Len(p) = n /\ \A i \in 1..n : p[i] = s[i]
    BY <1>4, <2>1
  <2> HIDE DEF l, p
  <2>4. r \in Seq(S) /\ Len(r) = n + 1 /\ (\A i \in 1..n : r[i] = p[i]) /\ r[n + 1] = s[n + 1]
    BY <2>1, <2>3
  <2> HIDE DEF r
  <2>5. \A i \in 1..n + 1 : l[i] = r[i]
    BY <2>1, <2>2, <2>3, <2>4
  <2>6. l = r
    BY <2>2, <2>4, <2>5
  <2>. QED
    BY <2>6 DEF l, p, r
<1>. QED
  BY <1>2, <1>3, <1>4, <1>5 DEF IsList

\* Applied, one update further.
LEMMA AppliedNext ==
    ASSUME NEW update, IsList(update), NEW n \in 0..Len(update) - 1, NEW id
    PROVE  Applied(SubSeq(update, 1, n + 1), id)
             = IF Targets(update[n + 1], id) THEN Over(update[n + 1].attrs, Applied(SubSeq(update, 1, n), id))
               ELSE Applied(SubSeq(update, 1, n), id)
<1> DEFINE u == update[n + 1]
           before == Applied(SubSeq(update, 1, n), id)
<1>1. IsList(SubSeq(update, 1, n)) /\ IsList(<<u>>)
  <2>1. n \in 0..Len(update)
    BY ListIs
  <2>2. <<u>> \in Seq({u})
    OBVIOUS
  <2>. QED
    BY <2>1, <2>2, PrefixIs DEF IsList
<1>2. Applied(SubSeq(update, 1, n + 1), id) = Over(Applied(<<u>>, id), before)
  <2>1. SubSeq(update, 1, n + 1) = SubSeq(update, 1, n) \o <<u>>
    BY PrefixIs
  <2>2. PICK p, q : p = SubSeq(update, 1, n) /\ q = <<u>>
    OBVIOUS
  <2>3. IsList(p) /\ IsList(q)
    BY <1>1, <2>2
  <2>4. Applied(p \o q, id) = Over(Applied(q, id), Applied(p, id))
    BY <2>3, AppliedConcat
  <2>. QED
    BY <2>1, <2>2, <2>4
<1>3. IsAttrs(before)
  BY <1>1, AppliedIs DEF IsAttrs
<1>4. Applied(<<u>>, id) = IF Targets(u, id) THEN [key \in DOMAIN u.attrs |-> u.attrs[key]] ELSE NoAttributes
  BY AppliedOne
<1>5. Over([key \in DOMAIN u.attrs |-> u.attrs[key]], before) = Over(u.attrs, before)
  <2> HIDE DEF u, before
  <2> DEFINE l == Over([key \in DOMAIN u.attrs |-> u.attrs[key]], before)
             r == Over(u.attrs, before)
  <2>1. DOMAIN l = DOMAIN r /\ \A key \in DOMAIN l : l[key] = r[key]
    BY DEF Over
  <2>2. IsAttrs(l) /\ IsAttrs(r)
    BY OverIs
  <2>. QED
    BY <2>1, <2>2, SameAttrs
<1> HIDE DEF u, before
<1>6. Over(NoAttributes, before) = before
  BY <1>3, NothingOver
<1>. QED
  BY <1>2, <1>4, <1>5, <1>6 DEF u, before

LEMMA ConsumedIs ==
    ASSUME NEW prims, NEW ids, NEW attrs, NEW table
    PROVE  /\ DOMAIN Consumed(prims, ids, attrs, table) = DOMAIN prims
           /\ \A id \in DOMAIN prims : IsPrim(prims[id]) =>
                 LET p == Consumed(prims, ids, attrs, table)[id]
                 IN  /\ IsPrim(p) /\ p.place = prims[id].place /\ p.src = prims[id].src /\ p.speed = prims[id].speed
                     /\ p.attrs = IF id \in ids THEN Over(Only(attrs, table), prims[id].attrs) ELSE prims[id].attrs
<1>1. DOMAIN Consumed(prims, ids, attrs, table) = DOMAIN prims
  BY DEF Consumed
<1>2. ASSUME NEW id \in DOMAIN prims, IsPrim(prims[id])
      PROVE  LET p == Consumed(prims, ids, attrs, table)[id]
             IN  /\ IsPrim(p) /\ p.place = prims[id].place /\ p.src = prims[id].src /\ p.speed = prims[id].speed
                 /\ p.attrs = IF id \in ids THEN Over(Only(attrs, table), prims[id].attrs) ELSE prims[id].attrs
  <2>1. PICK q : q = prims[id]
    OBVIOUS
  <2>2. PICK a : a = Over(Only(attrs, table), q.attrs)
    OBVIOUS
  <2>3. IsAttrs(a)
    BY <2>2, OverIs
  <2>4. PICK r : r = [q EXCEPT !.attrs = a]
    OBVIOUS
  <2>5. r = [attrs |-> a, place |-> q.place, src |-> q.src, speed |-> q.speed]
    BY <1>2, <2>1, <2>4 DEF IsPrim
  <2>6. IsPrim(r) /\ r.place = q.place /\ r.src = q.src /\ r.speed = q.speed /\ r.attrs = a
    BY <2>3, <2>5 DEF IsPrim
  <2>7. ConsumeKnownAttributes(q, attrs, table) = r
    BY <2>2, <2>4 DEF ConsumeKnownAttributes
  <2>8. Consumed(prims, ids, attrs, table)[id] = IF id \in ids THEN r ELSE q
    BY <2>1, <2>7 DEF Consumed
  <2>. QED
    BY <1>2, <2>1, <2>2, <2>6, <2>8
<1>. QED
  BY <1>1, <1>2

LEMMA ReadDomain ==
    ASSUME NEW prims, NEW update, NEW table, NEW matched, NEW left, IsList(update)
    PROVE  DOMAIN ReadUpdates(prims, update, table, matched, left).prims = DOMAIN prims
<1>l. Len(update) \in Nat
  BY ListIs
<1>1. PICK c : ReadsBy(c, prims, update, table, matched, left)
  BY <1>l, ReadDefined
<1> DEFINE S == {n \in Nat : n <= Len(update) => DOMAIN c[n].prims = DOMAIN prims}
<1>2. 0 \in S
  BY <1>1 DEF ReadsBy
<1>3. ASSUME NEW n \in Nat, n \in S PROVE n + 1 \in S
  <2> SUFFICES ASSUME n + 1 <= Len(update) PROVE DOMAIN c[n + 1].prims = DOMAIN prims
    OBVIOUS
  <2>1. n \in 0..Len(update) - 1 /\ DOMAIN c[n].prims = DOMAIN prims
    BY <1>l, <1>3
  <2>2. c[n + 1].prims = Consumed(c[n].prims, matched[n + 1], update[n + 1].attrs, table)
    BY <1>1, <2>1 DEF ReadsBy
  <2>. QED
    BY <2>1, <2>2, ConsumedIs
<1> HIDE DEF S
<1>4. Len(update) \in S
  BY <1>2, <1>3, <1>l, FromZeroOn
<1>. QED
  BY <1>1, <1>4, <1>l DEF S, ReadsBy

\* A primitive that every update for it matches gets what the updates say of what is known.
LEMMA ReadPrims ==
    ASSUME NEW prims, NEW update, NEW table, NEW matched, NEW left, IsList(update), NEW id \in DOMAIN prims, IsPrim(prims[id])
    PROVE  LET read == ReadUpdates(prims, update, table, matched, left).prims
           IN  /\ DOMAIN read = DOMAIN prims /\ IsPrim(read[id])
               /\ read[id].place = prims[id].place /\ read[id].src = prims[id].src /\ read[id].speed = prims[id].speed
               /\ (\A n \in 1..Len(update) : id \in matched[n] <=> Targets(update[n], id))
                     => read[id].attrs = Over(Only(Applied(update, id), table), prims[id].attrs)
               /\ (\A n \in 1..Len(update) : id \notin matched[n]) => read[id].attrs = prims[id].attrs
<1> DEFINE all == \A n \in 1..Len(update) : id \in matched[n] <=> Targets(update[n], id)
           none == \A n \in 1..Len(update) : id \notin matched[n]
           told(n) == Over(Only(Applied(SubSeq(update, 1, n), id), table), prims[id].attrs)
           Good(n, read) == /\ DOMAIN read = DOMAIN prims /\ IsPrim(read[id])
                            /\ read[id].place = prims[id].place /\ read[id].src = prims[id].src
                            /\ read[id].speed = prims[id].speed
                            /\ all => read[id].attrs = told(n)
                            /\ none => read[id].attrs = prims[id].attrs
<1>l. Len(update) \in Nat
  BY ListIs
<1>1. PICK c : ReadsBy(c, prims, update, table, matched, left)
  BY <1>l, ReadDefined
<1> DEFINE S == {n \in Nat : n <= Len(update) => Good(n, c[n].prims)}
<1>2. 0 \in S
  <2>1. c[0].prims = prims
    BY <1>1 DEF ReadsBy
  <2>2. told(0) = prims[id].attrs
    <3>1. Applied(SubSeq(update, 1, 0), id) = NoAttributes
      BY PrefixIs, AppliedNone
    <3>2. IsAttrs(prims[id].attrs)
      BY DEF IsPrim
    <3>. QED
      BY <3>1, <3>2, NothingOver
  <2> HIDE DEF told
  <2>. QED
    BY <2>1, <2>2
<1>3. ASSUME NEW n \in Nat, n \in S PROVE n + 1 \in S
  <2> SUFFICES ASSUME n + 1 <= Len(update) PROVE Good(n + 1, c[n + 1].prims)
    OBVIOUS
  <2>1. n + 1 \in 1..Len(update) /\ n \in 0..Len(update) - 1 /\ (n + 1) - 1 = n /\ n <= Len(update)
    BY <1>l
  <2>2. Good(n, c[n].prims)
    BY <1>3, <2>1
  <2>3. c[n + 1].prims = Consumed(c[n].prims, matched[n + 1], update[n + 1].attrs, table)
    BY <1>1, <2>1 DEF ReadsBy
  <2> DEFINE before == c[n].prims[id]
             after == c[n + 1].prims[id]
             u == update[n + 1]
  <2>4. /\ DOMAIN c[n + 1].prims = DOMAIN prims /\ IsPrim(after)
        /\ after.place = before.place /\ after.src = before.src /\ after.speed = before.speed
        /\ after.attrs = IF id \in matched[n + 1] THEN Over(Only(u.attrs, table), before.attrs) ELSE before.attrs
    BY <2>2, <2>3, ConsumedIs
  <2>5. ASSUME all PROVE after.attrs = told(n + 1)
    <3>1. before.attrs = told(n)
      BY <2>2, <2>5
    <3> DEFINE ap == Applied(SubSeq(update, 1, n), id)
    <3>2. CASE Targets(u, id)
      <4>1. id \in matched[n + 1]
        BY <2>1, <2>5, <3>2
      <4>2. told(n + 1) = Over(Only(Over(u.attrs, ap), table), prims[id].attrs)
        BY <2>1, <3>2, AppliedNext
      <4>. QED
        BY <2>4, <3>1, <4>1, <4>2, OnlyOver
    <3>3. CASE ~Targets(u, id)
      <4>1. id \notin matched[n + 1]
        BY <2>1, <2>5, <3>3
      <4>2. told(n + 1) = told(n)
        BY <2>1, <3>3, AppliedNext
      <4> HIDE DEF told
      <4>. QED
        BY <2>4, <3>1, <4>1, <4>2
    <3>. QED
      BY <3>2, <3>3
  <2>6. ASSUME none PROVE after.attrs = prims[id].attrs
    BY <2>1, <2>2, <2>4, <2>6
  <2> HIDE DEF told, all, none
  <2>. QED
    BY <2>2, <2>4, <2>5, <2>6
<1> HIDE DEF S
<1>4. Len(update) \in S
  BY <1>2, <1>3, <1>l, FromZeroOn
<1>5. Good(Len(update), c[Len(update)].prims)
  BY <1>4, <1>l DEF S
<1>6. told(Len(update)) = Over(Only(Applied(update, id), table), prims[id].attrs)
  BY PrefixIs
<1>7. ReadUpdates(prims, update, table, matched, left) = c[Len(update)]
  BY <1>1 DEF ReadsBy
<1> HIDE DEF told
<1>. QED
  BY <1>7, <1>5, <1>6

\* When each update leaves of what it says of an entity all but some keys, so do the groups.
LEMMA ReadGroups ==
    ASSUME NEW prims, NEW update, NEW table, NEW matched, NEW left, IsList(update),
           \A n \in 1..Len(update) : ListOK(left[n])
    PROVE  LET groups == ReadUpdates(prims, update, table, matched, left).groups
           IN  /\ ListOK(groups)
               /\ \A id, keys :
                     (\A n \in 1..Len(update) :
                         Applied(left[n], id) = IF Targets(update[n], id) THEN Without(update[n].attrs, keys) ELSE NoAttributes)
                     => Applied(groups, id) = Without(Applied(update, id), keys)
<1> DEFINE Left(id, keys) ==
               \A n \in 1..Len(update) :
                  Applied(left[n], id) = IF Targets(update[n], id) THEN Without(update[n].attrs, keys) ELSE NoAttributes
           told(n, id, keys) == Without(Applied(SubSeq(update, 1, n), id), keys)
           Good(n, groups) == ListOK(groups) /\ \A id, keys : Left(id, keys) => Applied(groups, id) = told(n, id, keys)
<1>l. Len(update) \in Nat
  BY ListIs
<1>1. PICK c : ReadsBy(c, prims, update, table, matched, left)
  BY <1>l, ReadDefined
<1> DEFINE S == {n \in Nat : n <= Len(update) => Good(n, c[n].groups)}
<1>2. 0 \in S
  <2>1. c[0].groups = <<>>
    BY <1>1 DEF ReadsBy
  <2>2. ListOK(<<>>)
    BY EmptyOK
  <2>3. ASSUME NEW id, NEW keys PROVE Applied(<<>>, id) = told(0, id, keys)
    BY PrefixIs, AppliedNone, NoneIs, NothingOver
  <2> HIDE DEF told, Left
  <2>. QED
    BY <2>1, <2>2, <2>3
<1>3. ASSUME NEW n \in Nat, n \in S PROVE n + 1 \in S
  <2> SUFFICES ASSUME n + 1 <= Len(update) PROVE Good(n + 1, c[n + 1].groups)
    OBVIOUS
  <2>1. n + 1 \in 1..Len(update) /\ n \in 0..Len(update) - 1 /\ (n + 1) - 1 = n /\ n <= Len(update)
    BY <1>l
  <2>2. Good(n, c[n].groups)
    BY <1>3, <2>1
  <2>3. c[n + 1].groups = c[n].groups \o left[n + 1]
    BY <1>1, <2>1 DEF ReadsBy
  <2>g. PICK g, l : g = c[n].groups /\ l = left[n + 1]
    OBVIOUS
  <2>h. ListOK(g) /\ ListOK(l) /\ IsList(g) /\ IsList(l)
    BY <2>1, <2>2, <2>g DEF ListOK
  <2>4. ListOK(c[n + 1].groups)
    BY <2>3, <2>g, <2>h, ConcatOK
  <2>5. ASSUME NEW id, NEW keys, Left(id, keys) PROVE Applied(c[n + 1].groups, id) = told(n + 1, id, keys)
    <3> DEFINE u == update[n + 1]
               ap == Applied(SubSeq(update, 1, n), id)
    <3>1. Applied(g, id) = Without(ap, keys)
      BY <2>2, <2>5, <2>g
    <3>2. Applied(c[n + 1].groups, id) = Over(Applied(l, id), Without(ap, keys))
      <4>1. Applied(g \o l, id) = Over(Applied(l, id), Applied(g, id))
        BY <2>h, AppliedConcat
      <4>. QED
        BY <2>3, <2>g, <3>1, <4>1
    <3>3. CASE Targets(u, id)
      <4>1. Applied(l, id) = Without(u.attrs, keys)
        BY <2>1, <2>5, <2>g, <3>3
      <4>2. told(n + 1, id, keys) = Without(Over(u.attrs, ap), keys)
        BY <2>1, <3>3, AppliedNext
      <4>. QED
        BY <3>2, <4>1, <4>2, WithoutOver
    <3>4. CASE ~Targets(u, id)
      <4>1. Applied(l, id) = NoAttributes
        BY <2>1, <2>5, <2>g, <3>4
      <4>2. told(n + 1, id, keys) = Without(ap, keys)
        BY <2>1, <3>4, AppliedNext
      <4>3. Over(NoAttributes, Without(ap, keys)) = Without(ap, keys)
        BY WithoutIs, NothingOver
      <4>. QED
        BY <3>2, <4>1, <4>2, <4>3
    <3>. QED
      BY <3>3, <3>4
  <2> HIDE DEF told, Left
  <2>. QED
    BY <2>4, <2>5
<1> HIDE DEF S
<1>4. Len(update) \in S
  BY <1>2, <1>3, <1>l, FromZeroOn
<1>5. Good(Len(update), c[Len(update)].groups)
  BY <1>4, <1>l DEF S
<1>6. \A id, keys : told(Len(update), id, keys) = Without(Applied(update, id), keys)
  BY PrefixIs
<1>7. ReadUpdates(prims, update, table, matched, left) = c[Len(update)]
  BY <1>1 DEF ReadsBy
<1> HIDE DEF told
<1>. QED
  BY <1>7, <1>5, <1>6

-----------------------------------------------------------------------------
(* What is read and what is written, for each section.                        *)

Sections == {"Panels", "DUs", "RUs", "UEs", "Scenario"}

\* The values a primitive starts with.
Start == Restrict(Initial, Table[kind])

LEMMA StartIs ==
    ASSUME kind \in Sections
    PROVE  /\ IsAttrs(Start) /\ DOMAIN Start = Table[kind]
           /\ \A key \in Table[kind] : Start[key] = Initial[key]
  BY DEF Start, Restrict, IsAttrs

LEMMA GroupIs ==
    ASSUME NEW ids, NEW attrs
    PROVE  /\ FileUnits(attrs) => ListOK(Group(ids, attrs))
           /\ \A id : Applied(Group(ids, attrs), id)
                        = IF ids = {} \/ id \in ids THEN [key \in DOMAIN attrs |-> attrs[key]] ELSE NoAttributes
<1>1. CASE DOMAIN attrs = {}
  <2>1. Group(ids, attrs) = <<>>
    BY <1>1 DEF Group
  <2>2. [key \in DOMAIN attrs |-> attrs[key]] = NoAttributes
    BY <1>1 DEF NoAttributes
  <2>. QED
    BY <2>1, <2>2, EmptyOK
<1>2. CASE DOMAIN attrs # {}
  <2>1. PICK u : u = [ids |-> ids, attrs |-> attrs]
    OBVIOUS
  <2>2. Group(ids, attrs) = <<u>>
    BY <1>2, <2>1 DEF Group
  <2>3. <<u>> \in Seq({u})
    OBVIOUS
  <2>4. FileUnits(attrs) => ListOK(<<u>>)
    <3>1. Len(<<u>>) = 1 /\ <<u>>[1] = u /\ u.attrs = attrs
      BY <2>1
    <3>2. FileUnits(attrs) => \A i \in 1..Len(<<u>>) : FileUnits(<<u>>[i].attrs)
      BY <3>1
    <3>. QED
      BY <2>3, <3>2 DEF IsList, ListOK
  <2>5. ASSUME NEW id
        PROVE  Applied(<<u>>, id)
                 = IF ids = {} \/ id \in ids THEN [key \in DOMAIN attrs |-> attrs[key]] ELSE NoAttributes
    BY <2>1, AppliedOne DEF Targets
  <2>. QED
    BY <2>2, <2>4, <2>5
<1>. QED
  BY <1>1, <1>2

\* Without keys, of attributes that need not be a function.
LEMMA WithoutTo ==
    ASSUME NEW attrs, NEW keys
    PROVE  [key \in DOMAIN Without(attrs, keys) |-> Without(attrs, keys)[key]] = Without(attrs, keys)
<1>1. PICK a : a = Without(attrs, keys)
  OBVIOUS
<1>2. IsAttrs(a)
  BY <1>1, WithoutIs
<1>3. a = [key \in DOMAIN a |-> a[key]]
  BY <1>2 DEF IsAttrs
<1>. QED
  BY <1>1, <1>3

\* All of them, of attributes that need not be a function.
LEMMA AllOf ==
    ASSUME NEW attrs
    PROVE  Over([key \in DOMAIN attrs |-> attrs[key]], NoAttributes) = Without(attrs, {})
<1>1. PICK l, r : l = Over([key \in DOMAIN attrs |-> attrs[key]], NoAttributes) /\ r = Without(attrs, {})
  OBVIOUS
<1>2. DOMAIN l = DOMAIN attrs /\ \A key \in DOMAIN attrs : l[key] = attrs[key]
  BY <1>1 DEF Over, NoAttributes
<1>3. DOMAIN r = DOMAIN attrs /\ \A key \in DOMAIN attrs : r[key] = attrs[key]
  BY <1>1 DEF Without, Restrict
<1>4. IsAttrs(l) /\ IsAttrs(r)
  BY <1>1, OverIs, WithoutIs
<1>5. l = r
  BY <1>2, <1>3, <1>4, SameAttrs
<1>. QED
  BY <1>1, <1>5

\* ApplyTypedUpdateGroups gives every primitive what the updates say of what the client knows, and the groups the rest.
LEMMA TypedRead ==
    ASSUME NEW prims, NEW update, NEW table, ListOK(update), \A id \in DOMAIN prims : IsPrim(prims[id])
    PROVE  LET read == ApplyTypedUpdateGroups(prims, update, table)
           IN  /\ DOMAIN read.prims = DOMAIN prims /\ ListOK(read.groups)
               /\ \A id \in DOMAIN prims :
                     /\ IsPrim(read.prims[id]) /\ read.prims[id].place = prims[id].place
                     /\ read.prims[id].src = prims[id].src /\ read.prims[id].speed = prims[id].speed
                     /\ read.prims[id].attrs = Over(Only(Applied(update, id), table), prims[id].attrs)
               /\ \A id : Applied(read.groups, id) = Without(Applied(update, id), table)
<1> DEFINE matched == [n \in DOMAIN update |-> {id \in DOMAIN prims : Targets(update[n], id)}]
           left == [n \in DOMAIN update |-> Group(update[n].ids, Residual(prims, update[n], table))]
           read == ReadUpdates(prims, update, table, matched, left)
<1>1. ApplyTypedUpdateGroups(prims, update, table) = read
  BY DEF ApplyTypedUpdateGroups
<1>2. DOMAIN update = 1..Len(update) /\ IsList(update)
  BY ListIs DEF ListOK
<1>3. ASSUME NEW id \in DOMAIN prims, NEW n \in 1..Len(update) PROVE id \in matched[n] <=> Targets(update[n], id)
  BY <1>2
<1>4. ASSUME NEW n \in 1..Len(update)
      PROVE  /\ ListOK(left[n])
             /\ \A id : Applied(left[n], id)
                          = IF Targets(update[n], id) THEN Without(update[n].attrs, table) ELSE NoAttributes
  <2> DEFINE rest == Without(update[n].attrs, table)
  <2>1. left[n] = Group(update[n].ids, rest)
    BY <1>2 DEF Residual
  <2>2. [key \in DOMAIN rest |-> rest[key]] = rest /\ FileUnits(rest)
    BY WithoutTo, OverUnits DEF ListOK
  <2> HIDE DEF rest, left
  <2>. QED
    BY <2>1, <2>2, GroupIs DEF Targets, rest
<1> HIDE DEF matched, left
<1>5. /\ ListOK(read.groups)
      /\ \A id : Applied(read.groups, id) = Without(Applied(update, id), table)
  BY <1>2, <1>4, ReadGroups
<1>6. ASSUME NEW id \in DOMAIN prims
      PROVE  /\ DOMAIN read.prims = DOMAIN prims
             /\ IsPrim(read.prims[id]) /\ read.prims[id].place = prims[id].place
             /\ read.prims[id].src = prims[id].src /\ read.prims[id].speed = prims[id].speed
             /\ read.prims[id].attrs = Over(Only(Applied(update, id), table), prims[id].attrs)
  BY <1>2, <1>3, ReadPrims
<1>7. DOMAIN read.prims = DOMAIN prims
  BY <1>2, ReadDomain
<1> HIDE DEF read
<1>. QED
  BY <1>1, <1>5, <1>6, <1>7

\* ApplyPanelGroups does so for the panels that do not come from files; for the others everything stays in the groups.
LEMMA PanelRead ==
    ASSUME NEW prims, NEW update, ListOK(update), \A id \in DOMAIN prims : IsPrim(prims[id])
    PROVE  LET read == ApplyPanelGroups(prims, update)
           IN  /\ DOMAIN read.prims = DOMAIN prims /\ ListOK(read.groups)
               /\ \A id \in DOMAIN prims :
                     LET known == IF prims[id].src = "file" THEN {} ELSE PanelTable
                     IN  /\ IsPrim(read.prims[id]) /\ read.prims[id].place = prims[id].place
                         /\ read.prims[id].src = prims[id].src /\ read.prims[id].speed = prims[id].speed
                         /\ read.prims[id].attrs = IF prims[id].src = "file" THEN prims[id].attrs
                                                   ELSE Over(Only(Applied(update, id), PanelTable), prims[id].attrs)
                         /\ Applied(read.groups, id) = Without(Applied(update, id), known)
<1> DEFINE spec(u) == {id \in DOMAIN prims : Targets(u, id) /\ prims[id].src # "file"}
           fromFile(u) == {id \in DOMAIN prims : Targets(u, id) /\ prims[id].src = "file"}
           orphans(u) == u.ids \ DOMAIN prims
           unknown(u) == Without(u.attrs, PanelTable)
           ofSpec(u) == IF spec(u) = {} THEN <<>>
                        ELSE Group(IF u.ids = {} /\ fromFile(u) = {} THEN {} ELSE spec(u), unknown(u))
           ofFile(u) == FileGroup(u, spec(u), fromFile(u))
           ofOrphans(u) == IF orphans(u) = {} THEN <<>> ELSE Group(orphans(u), unknown(u))
           groups(u) == ofSpec(u) \o ofFile(u) \o ofOrphans(u)
           matched == [n \in DOMAIN update |-> spec(update[n])]
           left == [n \in DOMAIN update |-> groups(update[n])]
           read == ReadUpdates(prims, update, PanelTable, matched, left)
<1>1. ApplyPanelGroups(prims, update) = read
  BY DEF ApplyPanelGroups
<1>2. DOMAIN update = 1..Len(update) /\ IsList(update)
  BY ListIs DEF ListOK
<1>3. ASSUME NEW id \in DOMAIN prims, NEW n \in 1..Len(update)
      PROVE  id \in matched[n] <=> Targets(update[n], id) /\ prims[id].src # "file"
  BY <1>2
<1>s. ASSUME NEW u, FileUnits(u.attrs)
      PROVE  /\ ListOK(ofSpec(u))
             /\ \A id \in DOMAIN prims :
                   Applied(ofSpec(u), id) = IF id \in spec(u) THEN unknown(u) ELSE NoAttributes
  <2>1. CASE spec(u) = {}
    BY <2>1, EmptyOK
  <2>2. CASE spec(u) # {}
    <3> DEFINE for == IF u.ids = {} /\ fromFile(u) = {} THEN {} ELSE spec(u)
               g == Group(for, unknown(u))
    <3>1. ofSpec(u) = g
      BY <2>2
    <3>2. ASSUME NEW id \in DOMAIN prims PROVE (for = {} \/ id \in for) <=> id \in spec(u)
      BY <2>2 DEF Targets
    <3>3. [key \in DOMAIN unknown(u) |-> unknown(u)[key]] = unknown(u) /\ FileUnits(unknown(u))
      BY <1>s, WithoutTo, OverUnits
    <3> HIDE DEF for, spec, unknown, ofSpec
    <3>. QED
      BY <3>1, <3>2, <3>3, GroupIs
  <2>. QED
    BY <2>1, <2>2
<1>f. ASSUME NEW u, FileUnits(u.attrs)
      PROVE  /\ ListOK(ofFile(u))
             /\ \A id \in DOMAIN prims :
                   Applied(ofFile(u), id) = IF id \in fromFile(u) THEN [key \in DOMAIN u.attrs |-> u.attrs[key]] ELSE NoAttributes
  <2>1. CASE fromFile(u) = {}
    BY <2>1, EmptyOK DEF FileGroup
  <2>2. CASE fromFile(u) # {}
    <3> DEFINE for == IF u.ids = {} /\ spec(u) = {} THEN {} ELSE fromFile(u)
               g == Group(for, u.attrs)
    <3>1. ofFile(u) = g
      BY <2>2 DEF FileGroup
    <3>2. ASSUME NEW id \in DOMAIN prims PROVE (for = {} \/ id \in for) <=> id \in fromFile(u)
      BY <2>2 DEF Targets
    <3> HIDE DEF for, fromFile, ofFile
    <3>. QED
      BY <1>f, <3>1, <3>2, GroupIs
  <2>. QED
    BY <2>1, <2>2
<1>o. ASSUME NEW u, FileUnits(u.attrs)
      PROVE  ListOK(ofOrphans(u)) /\ \A id \in DOMAIN prims : Applied(ofOrphans(u), id) = NoAttributes
  <2>1. CASE orphans(u) = {}
    BY <2>1, EmptyOK
  <2>2. CASE orphans(u) # {}
    <3>1. ofOrphans(u) = Group(orphans(u), unknown(u))
      BY <2>2
    <3>2. (\A id \in DOMAIN prims : id \notin orphans(u)) /\ FileUnits(unknown(u))
      BY <1>o, OverUnits
    <3> HIDE DEF orphans, ofOrphans, unknown
    <3>. QED
      BY <2>2, <3>1, <3>2, GroupIs
  <2>. QED
    BY <2>1, <2>2
<1>g. ASSUME NEW u, FileUnits(u.attrs)
      PROVE  /\ ListOK(groups(u))
             /\ \A id \in DOMAIN prims :
                   Applied(groups(u), id)
                     = IF ~Targets(u, id) THEN NoAttributes
                       ELSE Without(u.attrs, IF prims[id].src = "file" THEN {} ELSE PanelTable)
  <2>1. PICK a, b, c : a = ofSpec(u) /\ b = ofFile(u) /\ c = ofOrphans(u)
    OBVIOUS
  <2>2. ListOK(a) /\ ListOK(b) /\ ListOK(c) /\ IsList(a) /\ IsList(b) /\ IsList(c)
    <3> HIDE DEF ofSpec, ofFile, ofOrphans
    <3>. QED
      BY <2>1, <1>g, <1>s, <1>f, <1>o DEF ListOK
  <2>3. ListOK(a \o b) /\ ListOK((a \o b) \o c)
    BY <2>2, ConcatOK
  <2>4. groups(u) = (a \o b) \o c
    <3> HIDE DEF ofSpec, ofFile, ofOrphans
    <3>. QED
      BY <2>1
  <2>5. ASSUME NEW id \in DOMAIN prims
        PROVE  Applied((a \o b) \o c, id)
                 = IF ~Targets(u, id) THEN NoAttributes
                   ELSE Without(u.attrs, IF prims[id].src = "file" THEN {} ELSE PanelTable)
    <3>1. Applied((a \o b) \o c, id) = Over(Applied(c, id), Over(Applied(b, id), Applied(a, id)))
      <4>1. PICK ab : ab = a \o b
        OBVIOUS
      <4>2. IsList(ab) /\ Applied(ab, id) = Over(Applied(b, id), Applied(a, id))
        BY <2>2, <2>3, <4>1, AppliedConcat DEF ListOK
      <4>3. Applied(ab \o c, id) = Over(Applied(c, id), Applied(ab, id))
        BY <2>2, <4>2, AppliedConcat
      <4>. QED
        BY <4>1, <4>2, <4>3
    <3>2. Applied(c, id) = NoAttributes
      <4> HIDE DEF ofOrphans
      <4>. QED
        BY <1>g, <2>1, <1>o
    <3>3. Applied(b, id) = IF id \in fromFile(u) THEN [key \in DOMAIN u.attrs |-> u.attrs[key]] ELSE NoAttributes
      <4> HIDE DEF ofFile, fromFile
      <4>. QED
        BY <1>g, <2>1, <1>f
    <3>4. Applied(a, id) = IF id \in spec(u) THEN unknown(u) ELSE NoAttributes
      <4> HIDE DEF ofSpec, spec, unknown
      <4>. QED
        BY <1>g, <2>1, <1>s
    <3>5. Applied((a \o b) \o c, id) = Over(Applied(b, id), Applied(a, id))
      BY <3>1, <3>2, OverIs, NothingOver
    <3>6. Over(NoAttributes, NoAttributes) = NoAttributes
      BY NoneIs, NothingOver
    <3>7. CASE ~Targets(u, id)
      <4>1. Applied(a, id) = NoAttributes /\ Applied(b, id) = NoAttributes
        BY <3>3, <3>4, <3>7
      <4>. QED
        BY <3>5, <3>6, <3>7, <4>1
    <3>8. CASE Targets(u, id) /\ prims[id].src # "file"
      <4>1. Applied(a, id) = unknown(u) /\ Applied(b, id) = NoAttributes
        BY <3>3, <3>4, <3>8
      <4>2. Over(NoAttributes, unknown(u)) = unknown(u)
        BY WithoutIs, NothingOver
      <4>. QED
        BY <3>5, <3>8, <4>1, <4>2
    <3>9. CASE Targets(u, id) /\ prims[id].src = "file"
      <4> DEFINE all == [key \in DOMAIN u.attrs |-> u.attrs[key]]
      <4>1. Applied(a, id) = NoAttributes /\ Applied(b, id) = all
        BY <3>3, <3>4, <3>9
      <4>2. Over(all, NoAttributes) = Without(u.attrs, {})
        BY AllOf
      <4>. QED
        BY <3>5, <3>9, <4>1, <4>2
    <3>. QED
      BY <3>7, <3>8, <3>9
  <2> HIDE DEF groups
  <2>. QED
    BY <2>3, <2>4, <2>5
<1>4. ASSUME NEW n \in 1..Len(update)
      PROVE  /\ ListOK(left[n])
             /\ \A id \in DOMAIN prims :
                   Applied(left[n], id)
                     = IF Targets(update[n], id)
                       THEN Without(update[n].attrs, IF prims[id].src = "file" THEN {} ELSE PanelTable) ELSE NoAttributes
  <2>1. left[n] = groups(update[n]) /\ FileUnits(update[n].attrs)
    BY <1>2 DEF ListOK
  <2> HIDE DEF groups, left
  <2>. QED
    BY <1>g, <2>1
<1> HIDE DEF matched, left
<1>5. /\ ListOK(read.groups)
      /\ \A id, keys :
            (\A n \in 1..Len(update) :
                Applied(left[n], id) = IF Targets(update[n], id) THEN Without(update[n].attrs, keys) ELSE NoAttributes)
            => Applied(read.groups, id) = Without(Applied(update, id), keys)
  BY <1>2, <1>4, ReadGroups
<1>6. ASSUME NEW id \in DOMAIN prims
      PROVE  /\ IsPrim(read.prims[id]) /\ read.prims[id].place = prims[id].place
             /\ read.prims[id].src = prims[id].src /\ read.prims[id].speed = prims[id].speed
             /\ read.prims[id].attrs = IF prims[id].src = "file" THEN prims[id].attrs
                                       ELSE Over(Only(Applied(update, id), PanelTable), prims[id].attrs)
  BY <1>2, <1>3, ReadPrims
<1>7. ASSUME NEW id \in DOMAIN prims
      PROVE  Applied(read.groups, id) = Without(Applied(update, id), IF prims[id].src = "file" THEN {} ELSE PanelTable)
  <2> DEFINE keys == IF prims[id].src = "file" THEN {} ELSE PanelTable
  <2>1. \A n \in 1..Len(update) :
           Applied(left[n], id) = IF Targets(update[n], id) THEN Without(update[n].attrs, keys) ELSE NoAttributes
    BY <1>4
  <2> HIDE DEF keys
  <2>2. Applied(read.groups, id) = Without(Applied(update, id), keys)
    BY <1>5, <2>1
  <2>. QED
    BY <2>2 DEF keys
<1>8. DOMAIN read.prims = DOMAIN prims
  BY <1>2, ReadDomain
<1> HIDE DEF read
<1>. QED
  BY <1>1, <1>5, <1>6, <1>7, <1>8

-----------------------------------------------------------------------------
(* What a configuration, a section and the scene are.                         *)

ViewerUnits(attrs) == \A key \in DOMAIN attrs \cap Converted : \E v \in Values(key) : attrs[key] = InViewer(key, v)

Numbered(k, ids) == IF k = "Scenario" THEN ids = {0} ELSE ids \subseteq Nat \ {0} /\ IsFiniteSet(ids)

\* A position of the file or of a primitive: of a unit a place or none.
PlaceOK(k, place) == (k = "Panels" => place = NoPlace) /\ (k \in {"DUs", "RUs"} => place \in Place \cup {NoPlace})

PrimOK(k, p) == IsPrim(p) /\ DOMAIN p.attrs = Table[k] /\ FileUnits(p.attrs) /\ PlaceOK(k, p.place)

\* A configuration.
ConfigOK(k, c) ==
    /\ c = [prims |-> c.prims, groups |-> c.groups, next |-> c.next]
    /\ Numbered(k, DOMAIN c.prims) /\ ListOK(c.groups)
    /\ \A id \in DOMAIN c.prims : PrimOK(k, c.prims[id])

EntryOK(k, e) ==
    /\ e = [pos |-> e.pos, position |-> e.position, src |-> e.src, speed |-> e.speed]
    /\ e.pos = NoPlace \/ e.position = NoPlace
    /\ PlaceOK(k, e.position) /\ PlaceOK(k, e.pos)

\* A section of the file: an entry has one spelling of its position.
SectionOK(k, s) ==
    /\ ListOK(s.update)
    /\ k # "Scenario" => Numbered(k, DOMAIN s.add) /\ \A id \in DOMAIN s.add : EntryOK(k, s.add[id])

EntityOK(k, e) ==
    /\ e = [attrs |-> e.attrs, place |-> e.place] /\ IsAttrs(e.attrs)
    /\ DOMAIN e.attrs = ViewerTable[k] /\ ViewerUnits(e.attrs)
    /\ k \in {"Panels", "Scenario"} => e.place = NoPlace
    /\ k \in {"DUs", "RUs"} => e.place \in Place

\* The entities of the viewer.
SceneOK(k, v) == Numbered(k, DOMAIN v) /\ \A id \in DOMAIN v : EntityOK(k, v[id])

\* What a list says is in the units of the file when every update of it is.
LEMMA AppliedUnits ==
    ASSUME NEW update, ListOK(update), NEW id
    PROVE  FileUnits(Applied(update, id))
<1> SUFFICES ASSUME NEW key \in DOMAIN Applied(update, id) \cap Converted PROVE Applied(update, id)[key] \in Values(key)
  BY DEF FileUnits
<1>1. IsList(update) /\ DOMAIN update = 1..Len(update)
  BY ListIs DEF ListOK
<1>2. PICK i \in Says(update, id, key) : \A j \in Says(update, id, key) : j <= i
  BY <1>1, AppliedIs
<1>3. Applied(update, id)[key] = update[i].attrs[key]
  BY <1>1, <1>2, AppliedIs
<1>4. i \in 1..Len(update) /\ key \in DOMAIN update[i].attrs
  BY <1>1 DEF Says
<1>. QED
  BY <1>3, <1>4 DEF ListOK, FileUnits

LEMMA StartUnits ==
    ASSUME kind \in Sections
    PROVE  FileUnits(Start)
<1>1. \A key \in Converted : Initial[key] \in Values(key)
  BY DEF Converted, Initial, Values
<1>. QED
  BY <1>1, StartIs DEF FileUnits

\* The identifiers of the primitives that a section has an update of their own for.
OwnIds(c) == IF kind = "Panels" THEN {id \in DOMAIN c.prims : c.prims[id].src # "file"} ELSE DOMAIN c.prims

LEMMA OwnThenGroupsIs ==
    ASSUME NEW c, NEW ids, ids \subseteq Nat, IsFiniteSet(ids), ids \subseteq DOMAIN c.prims, ListOK(c.groups),
           \A id \in ids : IsAttrs(c.prims[id].attrs) /\ FileUnits(c.prims[id].attrs)
    PROVE  /\ ListOK(OwnThenGroups(c, ids))
           /\ \A id : Applied(OwnThenGroups(c, ids), id)
                        = Over(Applied(c.groups, id), IF id \in ids THEN c.prims[id].attrs ELSE NoAttributes)
<1> DEFINE sorted == InOrder(ids)
           own == [i \in 1..Len(sorted) |-> [ids |-> {sorted[i]}, attrs |-> c.prims[sorted[i]].attrs]]
           attrs == [id \in ids |-> c.prims[id].attrs]
<1>1. OwnThenGroups(c, ids) = own \o c.groups
  BY DEF OwnThenGroups
<1>2. /\ Len(sorted) \in Nat
      /\ \A i \in 1..Len(sorted) : sorted[i] \in ids
      /\ \A i, j \in 1..Len(sorted) : sorted[i] = sorted[j] => i = j
  BY InOrderIs
<1>3. /\ IsList(own) /\ Len(own) = Len(sorted)
      /\ \A i \in 1..Len(sorted) : own[i].ids = {sorted[i]} /\ own[i].attrs = attrs[sorted[i]]
  <2>1. \A i \in 1..Len(sorted) : own[i].ids = {sorted[i]} /\ own[i].attrs = attrs[sorted[i]]
    BY <1>2
  <2> DEFINE U == {own[i] : i \in 1..Len(sorted)}
  <2>2. own \in [1..Len(sorted) -> U]
    OBVIOUS
  <2>3. DOMAIN own = 1..Len(sorted)
    OBVIOUS
  <2> HIDE DEF own, U, sorted
  <2>4. own \in Seq(U) /\ Len(own) = Len(sorted)
    BY <1>2, <2>2, <2>3
  <2>. QED
    BY <2>1, <2>4 DEF IsList
<1>a. \A id \in ids : attrs[id] = c.prims[id].attrs /\ IsAttrs(attrs[id]) /\ FileUnits(attrs[id])
  OBVIOUS
<1> HIDE DEF own, attrs
<1>4. OneEach(own, ids, attrs)
  BY <1>2, <1>3 DEF OneEach
<1>5. ASSUME NEW id PROVE Applied(own, id) = IF id \in ids THEN c.prims[id].attrs ELSE NoAttributes
  <2>1. \A i \in 1..Len(own) : Targets(own[i], id) <=> sorted[i] = id
    <3> HIDE DEF sorted
    <3>. QED
      BY <1>3 DEF Targets
  <2>2. Applied(own, id) = IF id \in ids THEN [key \in DOMAIN attrs[id] |-> attrs[id][key]] ELSE NoAttributes
    <3>1. ids \in SUBSET Nat
      OBVIOUS
    <3>2. \A i \in 1..Len(own) : Targets(own[i], id) <=> InOrder(ids)[i] = id
      BY <2>1
    <3> HIDE DEF sorted
    <3>. QED
      BY <1>4, <3>1, <3>2, AppliedOwn
  <2>3. id \in ids => [key \in DOMAIN attrs[id] |-> attrs[id][key]] = attrs[id]
    BY <1>a DEF IsAttrs
  <2>. QED
    BY <1>a, <2>2, <2>3
<1>6. ListOK(own)
  <2> HIDE DEF sorted
  <2>1. \A i \in 1..Len(own) : FileUnits(own[i].attrs)
    BY <1>2, <1>3, <1>a
  <2>. QED
    BY <1>3, <2>1 DEF ListOK
<1>7. PICK g : g = c.groups
  OBVIOUS
<1>8. ListOK(own \o g)
  BY <1>6, <1>7, ConcatOK
<1>9. \A id : Applied(own \o g, id) = Over(Applied(g, id), Applied(own, id))
  BY <1>3, <1>7, AppliedConcat DEF ListOK
<1>. QED
  BY <1>1, <1>5, <1>7, <1>8, <1>9

\* What the section says of a primitive before the groups.
Own(c, id) ==
    IF kind = "Scenario" THEN ScenarioAttributes(c.prims[0])
    ELSE IF id \in OwnIds(c) THEN c.prims[id].attrs ELSE NoAttributes

LEMMA ToYamlIs ==
    ASSUME kind \in Sections, NEW c, ConfigOK(kind, c)
    PROVE  /\ SectionOK(kind, ToYaml(c)) /\ ToYaml(c).default = TRUE
           /\ kind # "Scenario" =>
                 /\ DOMAIN ToYaml(c).add = DOMAIN c.prims
                 /\ \A id \in DOMAIN c.prims : ToYaml(c).add[id] = AddEntry(c.prims[id].place, c.prims[id].src, c.prims[id].speed)
           /\ \A id \in DOMAIN c.prims :
                 Applied(ToYaml(c).update, id) = Over(Applied(c.groups, id), Own(c, id))
<1>1. CASE kind = "Scenario"
  <2> DEFINE first == [ids |-> {}, attrs |-> ScenarioAttributes(c.prims[0])]
  <2>1. ToYaml(c) = [default |-> TRUE, add |-> NoAttributes, update |-> <<first>> \o c.groups]
    BY <1>1 DEF ToYaml, BuildScenarioSection
  <2>2. PICK g : g = c.groups
    OBVIOUS
  <2>3. ListOK(g) /\ IsList(g)
    BY <2>2 DEF ConfigOK, ListOK
  <2>4. PrimOK(kind, c.prims[0]) /\ DOMAIN c.prims = {0}
    BY <1>1 DEF ConfigOK, Numbered
  <2>5. FileUnits(ScenarioAttributes(c.prims[0])) /\ IsAttrs(ScenarioAttributes(c.prims[0]))
    <3>1. PICK at, drop : at = c.prims[0].attrs /\ drop = Off(at) \cup Silenced(at)
      OBVIOUS
    <3>2. FileUnits(at) /\ ScenarioAttributes(c.prims[0]) = Without(at, drop)
      BY <2>4, <3>1 DEF ScenarioAttributes, PrimOK
    <3>3. PICK w : w = Without(at, drop)
      OBVIOUS
    <3>4. FileUnits(w) /\ IsAttrs(w)
      BY <3>2, <3>3, OverUnits, WithoutIs
    <3>. QED
      BY ONLY <3>2, <3>3, <3>4
  <2>6. PICK l : l = <<first>>
    OBVIOUS
  <2>7. ListOK(l) /\ IsList(l)
    <3>1. l \in Seq({first}) /\ Len(l) = 1 /\ l[1] = first
      BY <2>6
    <3>2. IsList(l)
      BY <3>1 DEF IsList
    <3>3. FileUnits(first.attrs)
      BY <2>5
    <3> HIDE DEF first
    <3>4. \A i \in 1..Len(l) : FileUnits(l[i].attrs)
      BY <3>1, <3>3
    <3>. QED
      BY <3>2, <3>4 DEF ListOK
  <2>8. Applied(l, 0) = ScenarioAttributes(c.prims[0])
    <3>1. Applied(l, 0) = [key \in DOMAIN first.attrs |-> first.attrs[key]]
      BY <2>6, AppliedOne DEF Targets
    <3>. QED
      BY <2>5, <3>1 DEF IsAttrs
  <2>9. Applied(l \o g, 0) = Over(Applied(g, 0), Applied(l, 0))
    BY <2>3, <2>7, AppliedConcat
  <2>10. ListOK(l \o g)
    BY <2>3, <2>7, ConcatOK
  <2> HIDE DEF first
  <2>11. ToYaml(c).update = l \o g /\ ToYaml(c).default = TRUE
    BY <2>1, <2>2, <2>6
  <2>12. SectionOK(kind, ToYaml(c))
    BY <1>1, <2>10, <2>11 DEF SectionOK
  <2>13. \A id \in DOMAIN c.prims : Applied(ToYaml(c).update, id) = Over(Applied(c.groups, id), Own(c, id))
    BY <1>1, <2>2, <2>4, <2>8, <2>9, <2>11 DEF Own
  <2>. QED
    BY <1>1, <2>11, <2>12, <2>13
<1>2. CASE kind # "Scenario"
  <2> DEFINE add == [id \in DOMAIN c.prims |-> AddEntry(c.prims[id].place, c.prims[id].src, c.prims[id].speed)]
             update == OwnThenGroups(c, OwnIds(c))
  <2>1. ToYaml(c) = [default |-> TRUE, add |-> add, update |-> update]
    BY <1>2 DEF ToYaml, Sections, BuildPanelsSection, BuildDUsSection, BuildRUsSection, BuildUEsSection, PlacedSection, OwnIds
  <2>2. DOMAIN c.prims \subseteq Nat \ {0} /\ IsFiniteSet(DOMAIN c.prims)
    BY <1>2 DEF ConfigOK, Numbered
  <2>3. OwnIds(c) \subseteq DOMAIN c.prims /\ IsFiniteSet(OwnIds(c))
    <3>1. OwnIds(c) \subseteq DOMAIN c.prims
      BY DEF OwnIds
    <3>. QED
      BY <2>2, <3>1, FS_Subset
  <2>4. \A id \in DOMAIN c.prims : IsAttrs(c.prims[id].attrs) /\ FileUnits(c.prims[id].attrs)
    BY DEF ConfigOK, PrimOK, IsPrim
  <2>5. /\ ListOK(update)
        /\ \A id : Applied(update, id) = Over(Applied(c.groups, id), IF id \in OwnIds(c) THEN c.prims[id].attrs ELSE NoAttributes)
    <3>1. ListOK(c.groups) /\ OwnIds(c) \subseteq Nat
      BY <2>2, <2>3 DEF ConfigOK
    <3>. QED
      BY <2>3, <2>4, <3>1, OwnThenGroupsIs
  <2>6. \A id \in DOMAIN c.prims : EntryOK(kind, add[id])
    BY DEF EntryOK, AddEntry, ConfigOK, PrimOK, PlaceOK
  <2>7. DOMAIN add = DOMAIN c.prims
    OBVIOUS
  <2>8. \A id \in DOMAIN c.prims : add[id] = AddEntry(c.prims[id].place, c.prims[id].src, c.prims[id].speed)
    OBVIOUS
  <2> HIDE DEF add, update
  <2>9. ToYaml(c).update = update /\ ToYaml(c).add = add /\ ToYaml(c).default = TRUE
    BY <2>1
  <2>10. SectionOK(kind, ToYaml(c))
    BY <1>2, <2>2, <2>5, <2>6, <2>7, <2>9 DEF SectionOK, Numbered
  <2>11. \A id \in DOMAIN c.prims : Applied(ToYaml(c).update, id) = Over(Applied(c.groups, id), Own(c, id))
    BY <1>2, <2>5, <2>9 DEF Own
  <2>. QED
    BY <2>7, <2>8, <2>9, <2>10, <2>11
<1>. QED
  BY <1>1, <1>2

-----------------------------------------------------------------------------
(* Import.                                                                    *)

\* What does not take known attributes from the updates: a panel from a file.
FromFile(p) == kind = "Panels" /\ p.src = "file"

LEMMA AddedIs ==
    ASSUME kind \in Sections, kind # "Scenario", NEW s, SectionOK(kind, s)
    PROVE  /\ DOMAIN Added(s) = DOMAIN s.add /\ Numbered(kind, DOMAIN Added(s))
           /\ \A id \in DOMAIN s.add :
                 /\ PrimOK(kind, Added(s)[id]) /\ Added(s)[id].attrs = Start
                 /\ Added(s)[id].place = s.add[id].position /\ Added(s)[id].src = s.add[id].src
                 /\ Added(s)[id].speed = s.add[id].speed
<1>1. DOMAIN Added(s) = DOMAIN s.add /\ Numbered(kind, DOMAIN Added(s))
  BY DEF Added, SectionOK
<1>2. ASSUME NEW id \in DOMAIN s.add
      PROVE  /\ PrimOK(kind, Added(s)[id]) /\ Added(s)[id].attrs = Start
             /\ Added(s)[id].place = s.add[id].position /\ Added(s)[id].src = s.add[id].src
             /\ Added(s)[id].speed = s.add[id].speed
  <2>1. PICK e : e = s.add[id]
    OBVIOUS
  <2>2. Added(s)[id] = [attrs |-> Start, place |-> e.position, src |-> e.src, speed |-> e.speed]
    BY <2>1 DEF Added, Start
  <2>3. PICK p : p = Added(s)[id]
    OBVIOUS
  <2>4. p.attrs = Start /\ p.place = e.position /\ p.src = e.src /\ p.speed = e.speed
    BY <2>2, <2>3
  <2>5. IsPrim(p)
    BY <2>2, <2>3, <2>4, StartIs DEF IsPrim
  <2>6. PlaceOK(kind, e.position)
    BY <2>1 DEF SectionOK, EntryOK
  <2>7. PrimOK(kind, p)
    BY <2>4, <2>5, <2>6, StartIs, StartUnits DEF PrimOK
  <2>. QED
    BY <2>1, <2>3, <2>4, <2>7
<1>. QED
  BY <1>1, <1>2

LEMMA Scenario0Is ==
    ASSUME kind = "Scenario"
    PROVE  /\ DOMAIN Scenario0 = {0} /\ PrimOK(kind, Scenario0[0])
           /\ Scenario0[0].attrs = Start /\ Scenario0[0].place = NoPlace
<1>1. DOMAIN Scenario0 = {0} /\ Scenario0[0] = [attrs |-> Start, place |-> NoPlace, src |-> "", speed |-> 0]
  BY DEF Scenario0, One, Start, Table
<1>2. PICK p : p = Scenario0[0]
  OBVIOUS
<1>a. p.attrs = Start /\ p.place = NoPlace /\ p.src = "" /\ p.speed = 0
  <2>1. PICK st, empty : st = Start /\ empty = ""
    OBVIOUS
  <2>2. p = [attrs |-> st, place |-> NoPlace, src |-> empty, speed |-> 0]
    BY <1>1, <1>2, <2>1
  <2>3. p.attrs = st /\ p.place = NoPlace /\ p.src = empty /\ p.speed = 0
    BY <2>2
  <2>. QED
    BY <2>1, <2>3
<1>b. p = [attrs |-> p.attrs, place |-> p.place, src |-> p.src, speed |-> p.speed]
  BY <1>1, <1>2, <1>a
<1>3. p.attrs = Start /\ p.place = NoPlace /\ IsPrim(p)
  BY <1>a, <1>b, StartIs DEF IsPrim, Sections
<1>4. PrimOK(kind, p)
  BY <1>3, StartIs, StartUnits DEF PrimOK, PlaceOK, Sections
<1>. QED
  BY <1>1, <1>2, <1>3, <1>4

\* What of a section is not in the groups.
Known(s, id) == Over(Only(Applied(s.update, id), Table[kind]), Start)

\* fromYAMLFile: the primitives have what the client knows, the groups the rest.
LEMMA FromYamlIs ==
    ASSUME kind \in Sections, NEW s, SectionOK(kind, s)
    PROVE  LET c == FromYaml(s)
           IN  /\ ConfigOK(kind, c)
               /\ DOMAIN c.prims = Entities(s)
               /\ kind # "Scenario" =>
                     \A id \in DOMAIN s.add : /\ c.prims[id].place = s.add[id].position /\ c.prims[id].src = s.add[id].src
                                              /\ c.prims[id].speed = s.add[id].speed
               /\ \A id \in DOMAIN c.prims :
                     /\ c.prims[id].attrs = IF FromFile(c.prims[id]) THEN Start ELSE Known(s, id)
                     /\ Applied(c.groups, id)
                          = Without(Applied(s.update, id), IF FromFile(c.prims[id]) THEN {} ELSE Table[kind])
               /\ kind # "Panels" => \A id : Applied(c.groups, id) = Without(Applied(s.update, id), Table[kind])
<1> DEFINE c == FromYaml(s)
<1>u. ListOK(s.update)
  BY DEF SectionOK
<1>k. \A id : FileUnits(Known(s, id)) /\ DOMAIN Known(s, id) = Table[kind]
  <2> SUFFICES ASSUME NEW id PROVE FileUnits(Known(s, id)) /\ DOMAIN Known(s, id) = Table[kind]
    OBVIOUS
  <2>1. FileUnits(Only(Applied(s.update, id), Table[kind]))
    BY <1>u, AppliedUnits, OverUnits
  <2>2. FileUnits(Known(s, id))
    BY <2>1, StartUnits, OverUnits DEF Known
  <2>3. DOMAIN Known(s, id) = Table[kind]
    <3>1. DOMAIN Known(s, id) = (DOMAIN Applied(s.update, id) \cap Table[kind]) \cup DOMAIN Start
      BY DEF Known, Over, Only, Restrict
    <3>. QED
      BY <3>1, StartIs
  <2>. QED
    BY <2>2, <2>3
<1>1. ASSUME kind # "Panels", NEW prims, Numbered(kind, DOMAIN prims), c = HydrateTyped(prims, s),
             DOMAIN prims = Entities(s),
             \A id \in DOMAIN prims : PrimOK(kind, prims[id]) /\ prims[id].attrs = Start
      PROVE  /\ ConfigOK(kind, c) /\ DOMAIN c.prims = Entities(s)
             /\ \A id \in DOMAIN prims : /\ c.prims[id].place = prims[id].place /\ c.prims[id].src = prims[id].src
                                         /\ c.prims[id].speed = prims[id].speed /\ c.prims[id].attrs = Known(s, id)
             /\ \A id : Applied(c.groups, id) = Without(Applied(s.update, id), Table[kind])
  <2> DEFINE read == ApplyTypedUpdateGroups(prims, s.update, Table[kind])
  <2>1. c = [prims |-> read.prims, groups |-> read.groups, next |-> FirstPanel]
    BY <1>1 DEF HydrateTyped
  <2>2. \A id \in DOMAIN prims : IsPrim(prims[id])
    BY <1>1 DEF PrimOK
  <2>3. /\ DOMAIN read.prims = DOMAIN prims /\ ListOK(read.groups)
        /\ \A id \in DOMAIN prims :
              /\ IsPrim(read.prims[id]) /\ read.prims[id].place = prims[id].place
              /\ read.prims[id].src = prims[id].src /\ read.prims[id].speed = prims[id].speed
              /\ read.prims[id].attrs = Over(Only(Applied(s.update, id), Table[kind]), prims[id].attrs)
        /\ \A id : Applied(read.groups, id) = Without(Applied(s.update, id), Table[kind])
    BY <1>u, <2>2, TypedRead
  <2> HIDE DEF read, c
  <2>4. c.prims = read.prims /\ c.groups = read.groups /\ c = [prims |-> c.prims, groups |-> c.groups, next |-> c.next]
    BY <2>1
  <2>5. \A id \in DOMAIN prims : c.prims[id].attrs = Known(s, id)
    BY <1>1, <2>3, <2>4 DEF Known
  <2>6. \A id \in DOMAIN prims : PrimOK(kind, c.prims[id])
    BY <1>1, <1>k, <2>3, <2>4, <2>5 DEF PrimOK
  <2>7. ConfigOK(kind, c)
    BY <1>1, <2>3, <2>4, <2>6 DEF ConfigOK
  <2>. QED
    BY <1>1, <2>3, <2>4, <2>5, <2>7
<1>2. CASE kind = "Scenario"
  <2>1. c = HydrateTyped(Scenario0, s)
    BY <1>2 DEF FromYaml, HydrateScenario
  <2>2. Numbered(kind, DOMAIN Scenario0) /\ DOMAIN Scenario0 = Entities(s)
    BY <1>2, Scenario0Is DEF Numbered, Entities
  <2>3. \A id \in DOMAIN Scenario0 : PrimOK(kind, Scenario0[id]) /\ Scenario0[id].attrs = Start
    BY <1>2, Scenario0Is
  <2> HIDE DEF c
  <2>4. /\ ConfigOK(kind, c) /\ DOMAIN c.prims = Entities(s)
        /\ \A id \in DOMAIN Scenario0 : c.prims[id].attrs = Known(s, id)
        /\ \A id : Applied(c.groups, id) = Without(Applied(s.update, id), Table[kind])
    BY <1>1, <1>2, <2>1, <2>2, <2>3
  <2>. QED
    BY <1>2, <2>2, <2>4 DEF FromFile, c
<1>3. CASE kind \in {"DUs", "RUs", "UEs"}
  <2>1. c = HydrateTyped(Added(s), s)
    BY <1>3 DEF FromYaml, HydrateDUs, HydrateRUs, HydrateUEs
  <2>2. Numbered(kind, DOMAIN Added(s)) /\ DOMAIN Added(s) = Entities(s) /\ DOMAIN Added(s) = DOMAIN s.add
    BY <1>3, AddedIs DEF Entities
  <2>3. \A id \in DOMAIN Added(s) : PrimOK(kind, Added(s)[id]) /\ Added(s)[id].attrs = Start
    BY <1>3, <2>2, AddedIs
  <2> HIDE DEF c
  <2>4. /\ ConfigOK(kind, c) /\ DOMAIN c.prims = Entities(s)
        /\ \A id \in DOMAIN Added(s) : /\ c.prims[id].place = Added(s)[id].place /\ c.prims[id].src = Added(s)[id].src
                                       /\ c.prims[id].speed = Added(s)[id].speed /\ c.prims[id].attrs = Known(s, id)
        /\ \A id : Applied(c.groups, id) = Without(Applied(s.update, id), Table[kind])
    BY <1>1, <1>3, <2>1, <2>2, <2>3
  <2>5. \A id \in DOMAIN s.add : /\ Added(s)[id].place = s.add[id].position /\ Added(s)[id].src = s.add[id].src
                                 /\ Added(s)[id].speed = s.add[id].speed
    BY <1>3, AddedIs
  <2>6. \A id \in DOMAIN s.add : /\ c.prims[id].place = s.add[id].position /\ c.prims[id].src = s.add[id].src
                                 /\ c.prims[id].speed = s.add[id].speed
    BY <2>2, <2>4, <2>5
  <2>7. \A id \in DOMAIN c.prims : ~FromFile(c.prims[id]) /\ c.prims[id].attrs = Known(s, id)
    BY <1>3, <2>2, <2>4 DEF FromFile
  <2>. QED
    BY <1>3, <2>2, <2>4, <2>6, <2>7 DEF c
<1>4. CASE kind = "Panels"
  <2> DEFINE read == ApplyPanelGroups(Added(s), s.update)
  <2>1. c = [prims |-> read.prims, groups |-> read.groups, next |-> NextPanel(read.prims)]
    BY <1>4 DEF FromYaml, HydratePanels
  <2>2. /\ DOMAIN Added(s) = DOMAIN s.add /\ Numbered(kind, DOMAIN Added(s))
        /\ \A id \in DOMAIN s.add :
              /\ PrimOK(kind, Added(s)[id]) /\ Added(s)[id].attrs = Start
              /\ Added(s)[id].place = s.add[id].position /\ Added(s)[id].src = s.add[id].src
              /\ Added(s)[id].speed = s.add[id].speed
    BY <1>4, AddedIs
  <2>p. PICK prims : prims = Added(s)
    OBVIOUS
  <2>3. /\ DOMAIN read.prims = DOMAIN prims /\ ListOK(read.groups)
        /\ \A id \in DOMAIN prims :
              /\ IsPrim(read.prims[id]) /\ read.prims[id].place = prims[id].place
              /\ read.prims[id].src = prims[id].src /\ read.prims[id].speed = prims[id].speed
              /\ read.prims[id].attrs = IF prims[id].src = "file" THEN prims[id].attrs
                                        ELSE Over(Only(Applied(s.update, id), PanelTable), prims[id].attrs)
              /\ Applied(read.groups, id) = Without(Applied(s.update, id), IF prims[id].src = "file" THEN {} ELSE PanelTable)
    <3>1. \A id \in DOMAIN prims : IsPrim(prims[id])
      BY <2>2, <2>p DEF PrimOK
    <3>. QED
      BY <1>u, <2>p, <3>1, PanelRead
  <2> HIDE DEF read, c
  <2>4. c.prims = read.prims /\ c.groups = read.groups /\ c = [prims |-> c.prims, groups |-> c.groups, next |-> c.next]
    BY <2>1
  <2>5. Table[kind] = PanelTable
    BY <1>4 DEF Table
  <2>6. ASSUME NEW id \in DOMAIN prims
        PROVE  /\ c.prims[id].attrs = IF FromFile(c.prims[id]) THEN Start ELSE Known(s, id)
               /\ Applied(c.groups, id) = Without(Applied(s.update, id), IF FromFile(c.prims[id]) THEN {} ELSE Table[kind])
               /\ c.prims[id].place = s.add[id].position /\ c.prims[id].src = s.add[id].src
               /\ c.prims[id].speed = s.add[id].speed
               /\ PrimOK(kind, c.prims[id])
    <3>1. FromFile(c.prims[id]) <=> prims[id].src = "file"
      BY <1>4, <2>3, <2>4 DEF FromFile
    <3>2. c.prims[id].attrs = IF FromFile(c.prims[id]) THEN Start ELSE Known(s, id)
      BY <2>2, <2>3, <2>4, <2>5, <2>p, <3>1 DEF Known
    <3>3. PrimOK(kind, c.prims[id])
      BY <1>4, <1>k, <2>2, <2>3, <2>4, <2>p, <3>2, StartIs, StartUnits DEF PrimOK
    <3>. QED
      BY <2>2, <2>3, <2>4, <2>5, <2>p, <3>1, <3>2, <3>3
  <2>7. ConfigOK(kind, c)
    BY <2>2, <2>3, <2>4, <2>6, <2>p DEF ConfigOK
  <2>8. DOMAIN c.prims = Entities(s) /\ DOMAIN c.prims = DOMAIN prims /\ DOMAIN prims = DOMAIN s.add
    BY <1>4, <2>2, <2>3, <2>4, <2>p DEF Entities
  <2>. QED
    BY <1>4, <2>6, <2>7, <2>8 DEF c
<1>. QED
  BY <1>2, <1>3, <1>4 DEF Sections

SwitchKeys == {"sim_is_seeded", "sim_num_procedural_ues", "um_enable_urban_mobility"}

LEMMA SwitchesAre ==
    /\ DOMAIN Switched = SwitchKeys /\ SwitchKeys \subseteq Table.Scenario
    /\ \A key \in SwitchKeys : Values(key) = {0, 1} /\ key \in Converted /\ Initial[key] = 0
    /\ \A a : Off(a) \subseteq SwitchKeys
<1>1. DOMAIN Switched = SwitchKeys
  BY DEF Switched, SwitchKeys
<1>2. SwitchKeys \subseteq Table.Scenario
  BY DEF Table, ScenarioTable, SwitchKeys
<1>3. \A key \in SwitchKeys : Values(key) = {0, 1}
  BY DEF Values, SwitchKeys
<1>4. \A key \in SwitchKeys : key \in Converted /\ Initial[key] = 0
  BY DEF Converted, Initial, SwitchKeys
<1>. QED
  BY <1>1, <1>2, <1>3, <1>4 DEF Off

\* What the scenario leaves out was 0, as it is at the start, or is governed by a switch that is off.
LEMMA LeftOutIs ==
    ASSUME kind = "Scenario", NEW p, PrimOK(kind, p), NEW x
    PROVE  LET l == Over(Over(x, ScenarioAttributes(p)), Start)
               r == Over(Over(x, p.attrs), Start)
           IN  /\ DOMAIN l = DOMAIN r
               /\ \A key \in DOMAIN r : key \notin Silenced(p.attrs) \ DOMAIN x => l[key] = r[key]
<1> DEFINE l == Over(Over(x, ScenarioAttributes(p)), Start)
           r == Over(Over(x, p.attrs), Start)
<1>1. PICK at, st, drop, silent : at = p.attrs /\ st = Start /\ drop = Off(at) \cup silent /\ silent = Silenced(at)
  OBVIOUS
<1>2. DOMAIN at = Table[kind] /\ DOMAIN st = Table[kind]
  BY <1>1, StartIs DEF PrimOK, Sections
<1>3. \A key \in Off(at) : at[key] = 0 /\ st[key] = 0
  <2> SUFFICES ASSUME NEW key \in Off(at) PROVE at[key] = 0 /\ st[key] = 0
    OBVIOUS
  <2>1. key \in SwitchKeys /\ key \in DOMAIN at /\ ~(at[key] > 0)
    BY <1>2, SwitchesAre DEF Off
  <2>2. at[key] \in {0, 1}
    BY <1>1, <2>1, SwitchesAre DEF PrimOK, FileUnits
  <2>3. st[key] = 0
    BY <1>1, <1>2, <2>1, SwitchesAre, StartIs DEF Sections
  <2>. QED
    BY <2>1, <2>2, <2>3
<1>4. ScenarioAttributes(p) = Without(at, drop)
  BY <1>1 DEF ScenarioAttributes
<1>5. DOMAIN l = (DOMAIN x \cup (DOMAIN at \ drop)) \cup DOMAIN st
  BY <1>1, <1>4 DEF Over, Without, Restrict
<1>6. DOMAIN r = (DOMAIN x \cup DOMAIN at) \cup DOMAIN st
  BY <1>1 DEF Over
<1>7. ASSUME NEW key \in DOMAIN r
      PROVE  /\ l[key] = IF key \in DOMAIN x THEN x[key] ELSE IF key \in DOMAIN at \ drop THEN at[key] ELSE st[key]
             /\ r[key] = IF key \in DOMAIN x THEN x[key] ELSE at[key]
  BY <1>1, <1>2, <1>4, <1>5, <1>6, <1>7 DEF Over, Without, Restrict
<1> HIDE DEF l, r
<1>8. ASSUME NEW key \in DOMAIN r, key \notin Silenced(p.attrs) \ DOMAIN x PROVE l[key] = r[key]
  <2>1. CASE key \in DOMAIN x
    BY <1>7, <2>1
  <2>2. CASE key \notin DOMAIN x /\ key \in Off(at)
    BY <1>1, <1>3, <1>7, <2>2
  <2>3. CASE key \notin DOMAIN x /\ key \notin Off(at)
    BY <1>1, <1>2, <1>6, <1>7, <1>8, <2>3
  <2>. QED
    BY <2>1, <2>2, <2>3
<1>. QED
  BY <1>2, <1>5, <1>6, <1>8 DEF l, r

LEMMA SameWithout ==
    ASSUME NEW l, NEW r, NEW keys, DOMAIN l = DOMAIN r, \A key \in DOMAIN r : key \notin keys => l[key] = r[key]
    PROVE  Without(l, keys) = Without(r, keys)
<1>1. PICK a, b : a = Without(l, keys) /\ b = Without(r, keys)
  OBVIOUS
<1>2. IsAttrs(a) /\ IsAttrs(b)
  BY <1>1, WithoutIs
<1>3. DOMAIN a = DOMAIN b /\ \A key \in DOMAIN a : a[key] = b[key]
  BY <1>1 DEF Without, Restrict
<1>. QED
  BY <1>1, <1>2, <1>3, SameAttrs

\* Only the scenario has switches, and what they silence depends on them alone.
LEMMA SilencedIs ==
    /\ kind # "Scenario" => \A a : Silenced(a) = {}
    /\ \A a, b : (\A key \in SwitchKeys : a[key] = b[key]) => Silenced(a) = Silenced(b)
<1>1. kind # "Scenario" => \A a : Silenced(a) = {}
  BY DEF Silenced
<1>2. ASSUME NEW a, NEW b, \A key \in SwitchKeys : a[key] = b[key] PROVE Silenced(a) = Silenced(b)
  <2>1. Off(a) = Off(b)
    BY <1>2, SwitchesAre DEF Off
  <2>. QED
    BY <2>1 DEF Silenced
<1>. QED
  BY <1>1, <1>2

\* For every section there can be, ImportKeepsMeaning.
LEMMA ImportIs ==
    ASSUME kind \in Sections, SectionOK(kind, contents)
    PROVE  ImportKeepsMeaning
<1> DEFINE c == FromYaml(contents)
           again == ToYaml(c)
<1>1. /\ ConfigOK(kind, c) /\ DOMAIN c.prims = Entities(contents)
      /\ \A id \in DOMAIN c.prims :
            /\ c.prims[id].attrs = IF FromFile(c.prims[id]) THEN Start ELSE Known(contents, id)
            /\ Applied(c.groups, id)
                 = Without(Applied(contents.update, id), IF FromFile(c.prims[id]) THEN {} ELSE Table[kind])
  BY FromYamlIs
<1> HIDE DEF c
<1>2. /\ kind # "Scenario" => DOMAIN again.add = DOMAIN c.prims
      /\ \A id \in DOMAIN c.prims : Applied(again.update, id) = Over(Applied(c.groups, id), Own(c, id))
  BY <1>1, ToYamlIs
<1> HIDE DEF again
<1>3. Entities(again) = Entities(contents)
  BY <1>1, <1>2 DEF Entities
<1>4. ASSUME NEW id \in Entities(contents)
      PROVE  LET silent == Silenced(Meaning(contents, id))
             IN  Without(Meaning(again, id), silent) = Without(Meaning(contents, id), silent)
  <2> DEFINE x == Applied(contents.update, id)
  <2>1. id \in DOMAIN c.prims
    BY <1>1
  <2>2. Meaning(again, id) = Over(Over(Applied(c.groups, id), Own(c, id)), Start)
    BY <1>2, <2>1 DEF Meaning, Start
  <2>3. Meaning(contents, id) = Over(x, Start)
    BY DEF Meaning, Start
  <2>4. CASE FromFile(c.prims[id])
    <3>1. Own(c, id) = NoAttributes
      BY <2>4 DEF Own, OwnIds, FromFile
    <3>2. Applied(c.groups, id) = Without(x, {})
      BY <1>1, <2>1, <2>4
    <3>3. Over(Over(Without(x, {}), NoAttributes), Start) = Over(x, Start)
      <4> HIDE DEF x
      <4> DEFINE l == Over(Over(Without(x, {}), NoAttributes), Start)
                 r == Over(x, Start)
      <4>1. IsAttrs(l) /\ IsAttrs(r)
        BY OverIs
      <4>2. DOMAIN l = DOMAIN r /\ \A key \in DOMAIN l : l[key] = r[key]
        BY DEF Over, Without, Restrict, NoAttributes
      <4> HIDE DEF l, r
      <4>3. l = r
        BY <4>1, <4>2, SameAttrs
      <4>. QED
        BY <4>3 DEF l, r
    <3>. QED
      BY <2>2, <2>3, <3>1, <3>2, <3>3
  <2>5. CASE ~FromFile(c.prims[id])
    <3>1. c.prims[id].attrs = Known(contents, id) /\ Applied(c.groups, id) = Without(x, Table[kind])
      BY <1>1, <2>1, <2>5
    <3>2. Over(Over(Without(x, Table[kind]), c.prims[id].attrs), Start) = Over(x, Start)
      BY <3>1, KnownAndLeft DEF Known
    <3>3. CASE kind = "Scenario"
      <4>1. id = 0 /\ Own(c, id) = ScenarioAttributes(c.prims[id]) /\ PrimOK(kind, c.prims[id])
        BY <1>1, <2>1, <3>3 DEF Own, Entities, ConfigOK
      <4> HIDE DEF x
      <4>2. PICK l, r, y, at : /\ y = Without(x, Table[kind]) /\ at = c.prims[id].attrs
                               /\ l = Over(Over(y, Own(c, id)), Start) /\ r = Over(Over(y, at), Start)
        OBVIOUS
      <4>3. DOMAIN l = DOMAIN r /\ \A key \in DOMAIN r : key \notin Silenced(at) => l[key] = r[key]
        BY <3>3, <4>1, <4>2, LeftOutIs
      <4>4. Meaning(again, id) = l /\ Meaning(contents, id) = r
        BY <2>2, <2>3, <3>1, <3>2, <4>2
      <4>5. \A key \in SwitchKeys : r[key] = at[key]
        <5> SUFFICES ASSUME NEW key \in SwitchKeys PROVE r[key] = at[key]
          OBVIOUS
        <5>1. key \in Table[kind] /\ DOMAIN at = Table[kind]
          BY <3>3, <4>1, <4>2, SwitchesAre DEF PrimOK
        <5>. QED
          BY <4>2, <5>1 DEF Over, Without, Restrict
      <4>6. Silenced(at) = Silenced(r)
        BY <4>5, SilencedIs
      <4>7. PICK silent : silent = Silenced(r)
        OBVIOUS
      <4>8. Without(l, silent) = Without(r, silent)
        BY <4>3, <4>6, <4>7, SameWithout
      <4>. QED
        BY <4>4, <4>7, <4>8
    <3>4. CASE kind # "Scenario"
      <4>1. Own(c, id) = c.prims[id].attrs
        BY <2>1, <2>5, <3>4 DEF Own, OwnIds, FromFile
      <4>. QED
        BY <2>2, <2>3, <3>1, <3>2, <4>1
    <3>. QED
      BY <3>3, <3>4
  <2>. QED
    BY <2>4, <2>5
<1>. QED
  BY <1>3, <1>4 DEF ImportKeepsMeaning, again, c

-----------------------------------------------------------------------------
(* The groups that an import leaves.                                          *)

\* The groups left behind by the last import say nothing of what the client knows: of a panel, if the import found it and
\* it does not come from a file.
NotShadowed(k, c, imp) ==
    /\ imp.groups \in 0..Len(c.groups)
    /\ k = "Panels" => imp.ids \subseteq DOMAIN c.prims
    /\ \A id : (k = "Panels" => id \in imp.ids /\ c.prims[id].src # "file")
                   => DOMAIN Applied(SubSeq(c.groups, 1, imp.groups), id) \cap Table[k] = {}

LEMMA SplitIs ==
    ASSUME NEW s, IsList(s), NEW n \in 0..Len(s)
    PROVE  /\ IsList(SubSeq(s, 1, n)) /\ IsList(SubSeq(s, n + 1, Len(s)))
           /\ s = SubSeq(s, 1, n) \o SubSeq(s, n + 1, Len(s))
<1>1. PICK S : s \in Seq(S)
  BY DEF IsList
<1>2. PICK a, b : a = SubSeq(s, 1, n) /\ b = SubSeq(s, n + 1, Len(s))
  OBVIOUS
<1>3. a \in Seq(S) /\ Len(a) = n /\ \A i \in 1..n : a[i] = s[i]
  BY <1>1, <1>2
<1>4. b \in Seq(S) /\ Len(b) = Len(s) - n /\ \A i \in 1..Len(s) - n : b[i] = s[n + i]
  BY <1>1, <1>2
<1>5. PICK r : r = a \o b
  OBVIOUS
<1>6. r \in Seq(S) /\ Len(r) = Len(s) /\ Len(s) \in Nat
  BY <1>1, <1>3, <1>4, <1>5
<1>7. ASSUME NEW i \in 1..Len(s) PROVE r[i] = s[i]
  <2>1. CASE i <= n
    BY <1>3, <1>4, <1>5, <1>6, <2>1
  <2>2. CASE ~(i <= n)
    <3>1. i - n \in 1..Len(s) - n /\ n + (i - n) = i
      BY <1>6, <2>2
    <3>2. r[i] = b[i - n]
      BY <1>3, <1>4, <1>5, <1>6, <2>2, <3>1
    <3>. QED
      BY <1>4, <3>1, <3>2
  <2>. QED
    BY <2>1, <2>2
<1>8. r = s
  BY <1>1, <1>6, <1>7
<1>. QED
  BY <1>2, <1>3, <1>4, <1>5, <1>8 DEF IsList

LEMMA FieldsIs ==
    ASSUME kind \in Sections, ConfigOK(kind, config), NotShadowed(kind, config, imported)
    PROVE  FieldsAreNotShadowed
<1> DEFINE n == imported.groups
           groups == config.groups
           old == SubSeq(groups, 1, n)
           since == SubSeq(groups, n + 1, Len(groups))
           fields == {id \in DOMAIN config.prims : config.prims[id].src # "file"}
           table == Table[kind]
<1>1. IsList(groups) /\ n \in 0..Len(groups)
  BY DEF ConfigOK, ListOK, NotShadowed
<1>2. IsList(old) /\ IsList(since) /\ groups = old \o since
  BY <1>1, SplitIs
<1>3. \A id : Applied(groups, id) = Over(Applied(since, id), Applied(old, id))
  <2> HIDE DEF old, since, groups
  <2>. QED
    BY <1>2, AppliedConcat
<1>4. ASSUME NEW id \in IF kind = "Panels" THEN fields \cap imported.ids ELSE fields
      PROVE  LET keys == table \ (Silenced(config.prims[id].attrs) \ DOMAIN Applied(since, id))
             IN  Only(Meaning(ToYaml(config), id), keys) = Only(Over(Applied(since, id), config.prims[id].attrs), keys)
  <2>1. id \in DOMAIN config.prims /\ config.prims[id].src # "file" /\ (kind = "Panels" => id \in imported.ids)
    OBVIOUS
  <2>2. PICK new, was, at : /\ new = Applied(since, id) /\ was = Applied(old, id) /\ at = config.prims[id].attrs
    OBVIOUS
  <2>3. DOMAIN was \cap table = {}
    BY <2>1, <2>2 DEF NotShadowed
  <2>4. PrimOK(kind, config.prims[id]) /\ DOMAIN at = table /\ IsAttrs(at)
    BY <2>1, <2>2 DEF ConfigOK, PrimOK, IsPrim
  <2>5. Applied(ToYaml(config).update, id) = Over(Over(new, was), Own(config, id))
    <3>1. Applied(ToYaml(config).update, id) = Over(Applied(config.groups, id), Own(config, id))
      BY <2>1, ToYamlIs
    <3> HIDE DEF old, since
    <3>. QED
      BY <1>3, <2>2, <3>1
  <2>6. PICK m, r, keys : /\ m = Meaning(ToYaml(config), id) /\ r = Over(Over(Over(new, was), at), Start)
                          /\ keys = table \ (Silenced(at) \ DOMAIN new)
    OBVIOUS
  <2>7. m = Over(Over(Over(new, was), Own(config, id)), Start)
    BY <2>5, <2>6 DEF Meaning, Start
  <2>8. DOMAIN m = DOMAIN r /\ \A key \in DOMAIN r : key \notin Silenced(at) \ DOMAIN Over(new, was) => m[key] = r[key]
    <3>1. CASE kind = "Scenario"
      <4>1. id = 0
        BY <2>1, <3>1 DEF ConfigOK, Numbered
      <4>2. Own(config, id) = ScenarioAttributes(config.prims[id])
        BY <3>1, <4>1 DEF Own
      <4>. QED
        BY <2>2, <2>4, <2>6, <2>7, <3>1, <4>2, LeftOutIs
    <3>2. CASE kind # "Scenario"
      <4>1. Own(config, id) = at
        BY <2>1, <2>2, <3>2 DEF Own, OwnIds
      <4>. QED
        BY <2>6, <2>7, <4>1
    <3>. QED
      BY <3>1, <3>2
  <2> HIDE DEF table
  <2>9. ASSUME NEW key \in keys
        PROVE  /\ key \in DOMAIN m
               /\ m[key] = IF key \in DOMAIN new THEN new[key] ELSE at[key]
    <3>1. key \in table /\ key \in DOMAIN at /\ key \notin DOMAIN was
      BY <2>3, <2>4, <2>6
    <3>2. key \in DOMAIN r /\ r[key] = IF key \in DOMAIN new THEN new[key] ELSE at[key]
      BY <2>6, <3>1 DEF Over
    <3>3. key \notin Silenced(at) \ DOMAIN Over(new, was)
      BY <2>6 DEF Over
    <3>. QED
      BY <2>8, <3>2, <3>3
  <2>10. PICK l, o : l = Only(m, keys) /\ o = Only(Over(new, at), keys)
    OBVIOUS
  <2>11. IsAttrs(l) /\ IsAttrs(o)
    BY <2>10, OnlyIs
  <2>12. DOMAIN l = keys /\ \A key \in keys : l[key] = IF key \in DOMAIN new THEN new[key] ELSE at[key]
    BY <2>9, <2>10 DEF Only, Restrict
  <2>13. DOMAIN o = keys /\ \A key \in keys : o[key] = IF key \in DOMAIN new THEN new[key] ELSE at[key]
    BY <2>4, <2>6, <2>10 DEF Over, Only, Restrict
  <2>14. l = o
    BY <2>11, <2>12, <2>13, SameAttrs
  <2>. QED
    BY <2>2, <2>6, <2>10, <2>14
<1>. QED
  BY <1>4 DEF FieldsAreNotShadowed

-----------------------------------------------------------------------------
(* What the viewer shows.                                                     *)

LEMMA UpdatesIs ==
    ASSUME NEW s, NEW id
    PROVE  /\ IsAttrs(Updates(s, id)) /\ DOMAIN Updates(s, id) = DOMAIN Applied(s.update, id) \cap ViewerTable[kind]
           /\ \A key \in DOMAIN Updates(s, id) : Updates(s, id)[key] = Shown(key, Applied(s.update, id)[key])
<1>1. PICK a : a = Only(Applied(s.update, id), ViewerTable[kind])
  OBVIOUS
<1>2. /\ DOMAIN a = DOMAIN Applied(s.update, id) \cap ViewerTable[kind]
      /\ \A key \in DOMAIN a : a[key] = Applied(s.update, id)[key]
  BY <1>1 DEF Only, Restrict
<1>3. Updates(s, id) = [key \in DOMAIN a |-> Shown(key, a[key])]
  BY <1>1 DEF Updates
<1>4. PICK u : u = Updates(s, id)
  OBVIOUS
<1>5. DOMAIN u = DOMAIN a /\ (\A key \in DOMAIN a : u[key] = Shown(key, a[key])) /\ IsAttrs(u)
  BY <1>3, <1>4 DEF IsAttrs
<1>. QED
  BY <1>2, <1>4, <1>5

LEMMA UpdatesUnits ==
    ASSUME NEW s, ListOK(s.update), NEW id
    PROVE  ViewerUnits(Updates(s, id))
<1> SUFFICES ASSUME NEW key \in DOMAIN Updates(s, id) \cap Converted
             PROVE  \E v \in Values(key) : Updates(s, id)[key] = InViewer(key, v)
  BY DEF ViewerUnits
<1>1. key \in DOMAIN Applied(s.update, id) /\ Updates(s, id)[key] = Shown(key, Applied(s.update, id)[key])
  BY UpdatesIs
<1>2. Applied(s.update, id)[key] \in Values(key)
  BY <1>1, AppliedUnits DEF FileUnits
<1>3. \A v : Shown(key, v) = InViewer(key, v)
  BY DEF Shown, Converted
<1>. QED
  BY <1>1, <1>2, <1>3

LEMMA DefaultUnits ==
    ASSUME NEW key \in Converted, NEW k \in Sections, key \in ViewerTable[k]
    PROVE  \E v \in Values(key) : Default[key] = InViewer(key, v)
<1>1. CASE key = "reference_freq_mhz"
  <2>1. 3600 \in Values(key) /\ Default[key] = InViewer(key, 3600)
    BY <1>1 DEF Values, Default, InViewer
  <2>. QED
    BY <2>1
<1>2. CASE key = "dual_polarized"
  <2>1. 0 \in Values(key) /\ Default[key] = InViewer(key, 0)
    BY <1>2 DEF Values, Default, InViewer
  <2>. QED
    BY <2>1
<1>3. CASE key = "aerial_du_subcarrier_spacing"
  <2>1. 30 \in Values(key) /\ Default[key] = InViewer(key, 30)
    BY <1>3 DEF Values, Default, InViewer, SubcarrierSpacingHz
  <2>. QED
    BY <2>1
<1>4. CASE key = "sim_num_procedural_ues"
  <2>1. 0 \in Values(key) /\ Default[key] = InViewer(key, 0)
    BY <1>4 DEF Values, Default, InViewer
  <2>. QED
    BY <2>1
<1>5. key \notin {"sim_is_seeded", "um_enable_urban_mobility"}
  BY DEF ViewerTable, Sections
<1>. QED
  BY <1>1, <1>2, <1>3, <1>4, <1>5 DEF Converted

\* The value of a property before the updates.
Before(s, id, key) ==
    IF key = "waypoint_speed" THEN s.add[id].speed ELSE IF key = "aerial_gnb_cell_id" THEN id ELSE Default[key]

\* The path of a user equipment from a GPX source takes no speed.
Fixed(s, id, key) == key = "waypoint_speed" /\ s.add[id].position = NoPlace

\* An entity shows what its updates say, and else the values before them.
ShowsEntry(s, id, e) ==
    /\ \A key \in ViewerTable[kind] :
          e.attrs[key] = IF key \in DOMAIN Updates(s, id) /\ ~Fixed(s, id, key) THEN Updates(s, id)[key] ELSE Before(s, id, key)
    /\ e.place = IF kind = "Panels" THEN NoPlace ELSE IF kind = "UEs" THEN s.add[id].position ELSE PositionOf(s.add[id])

LEMMA EntityIs ==
    ASSUME kind \in Sections, kind # "Scenario", NEW s, NEW before, NEW id \in DOMAIN s.add
    PROVE  LET e == ApplySection(s, before)[id]
           IN  /\ e = [attrs |-> e.attrs, place |-> e.place] /\ IsAttrs(e.attrs) /\ DOMAIN e.attrs = ViewerTable[kind]
               /\ ShowsEntry(s, id, e)
<1> DEFINE e == ApplySection(s, before)[id]
<1>1. PICK u : u = Updates(s, id)
  OBVIOUS
<1>2. DOMAIN u \subseteq ViewerTable[kind] /\ IsAttrs(u)
  BY <1>1, UpdatesIs
<1>3. CASE kind = "Panels"
  <2>1. PICK d : d = Restrict(Default, ViewerTable.Panels)
    OBVIOUS
  <2>2. DOMAIN d = ViewerTable[kind] /\ \A key \in ViewerTable[kind] : d[key] = Default[key]
    BY <1>3, <2>1 DEF ViewerTable, Restrict
  <2>3. PICK a : a = Over(u, d)
    OBVIOUS
  <2>4. e = [attrs |-> a, place |-> NoPlace]
    BY <1>1, <1>3, <2>1, <2>3 DEF ApplySection, CreatePanels
  <2>5. IsAttrs(a) /\ DOMAIN a = ViewerTable[kind]
    BY <1>2, <2>2, <2>3, OverWithin
  <2>6. \A key \in ViewerTable[kind] : a[key] = IF key \in DOMAIN u THEN u[key] ELSE Default[key]
    BY <2>2, <2>3 DEF Over
  <2>7. \A key \in ViewerTable[kind] : key # "waypoint_speed" /\ key # "aerial_gnb_cell_id"
    BY <1>3 DEF ViewerTable
  <2>8. e.attrs = a /\ e.place = NoPlace
    BY <2>4
  <2> HIDE DEF e
  <2>9. ShowsEntry(s, id, e)
    BY <1>1, <1>3, <2>6, <2>7, <2>8 DEF ShowsEntry, Before, Fixed
  <2>. QED
    BY <2>4, <2>5, <2>8, <2>9 DEF e
<1>4. CASE kind = "DUs"
  <2>1. PICK d, p : d = Restrict(Default, ViewerTable.DUs) /\ p = PositionOf(s.add[id])
    OBVIOUS
  <2>2. DOMAIN d = ViewerTable[kind] /\ \A key \in ViewerTable[kind] : d[key] = Default[key]
    BY <1>4, <2>1 DEF ViewerTable, Restrict
  <2>3. PICK a : a = Over(u, d)
    OBVIOUS
  <2>4. e = [attrs |-> a, place |-> p]
    BY <1>1, <1>4, <2>1, <2>3 DEF ApplySection, CreateDistributedUnits
  <2>5. IsAttrs(a) /\ DOMAIN a = ViewerTable[kind]
    BY <1>2, <2>2, <2>3, OverWithin
  <2>6. \A key \in ViewerTable[kind] : a[key] = IF key \in DOMAIN u THEN u[key] ELSE Default[key]
    BY <2>2, <2>3 DEF Over
  <2>7. \A key \in ViewerTable[kind] : key # "waypoint_speed" /\ key # "aerial_gnb_cell_id"
    BY <1>4 DEF ViewerTable
  <2>8. e.attrs = a /\ e.place = p
    BY <2>4
  <2> HIDE DEF e
  <2>9. ShowsEntry(s, id, e)
    BY <1>1, <1>4, <2>1, <2>6, <2>7, <2>8 DEF ShowsEntry, Before, Fixed
  <2>. QED
    BY <2>4, <2>5, <2>8, <2>9 DEF e
<1>5. CASE kind = "RUs"
  <2>1. PICK d, p, c : /\ d = Restrict(Default, ViewerTable.RUs) /\ p = PositionOf(s.add[id])
                       /\ c = One("aerial_gnb_cell_id", id)
    OBVIOUS
  <2>2. DOMAIN d = ViewerTable[kind] /\ \A key \in ViewerTable[kind] : d[key] = Default[key]
    BY <1>5, <2>1 DEF ViewerTable, Restrict
  <2>3. DOMAIN c = {"aerial_gnb_cell_id"} /\ c["aerial_gnb_cell_id"] = id /\ DOMAIN c \subseteq ViewerTable[kind]
    BY <1>5, <2>1 DEF One, ViewerTable
  <2>4. PICK a, b : b = Over(c, d) /\ a = Over(u, b)
    OBVIOUS
  <2>5. e = [attrs |-> a, place |-> p]
    BY <1>1, <1>5, <2>1, <2>4 DEF ApplySection, CreateRadioUnits
  <2>6. DOMAIN b = ViewerTable[kind] /\ \A key \in ViewerTable[kind] : b[key] = IF key = "aerial_gnb_cell_id" THEN id ELSE Default[key]
    BY <2>2, <2>3, <2>4 DEF Over
  <2>7. IsAttrs(a) /\ DOMAIN a = ViewerTable[kind]
    BY <1>2, <2>4, <2>6, OverWithin
  <2>8. \A key \in ViewerTable[kind] : a[key] = IF key \in DOMAIN u THEN u[key] ELSE b[key]
    BY <2>4, <2>6 DEF Over
  <2>9. \A key \in ViewerTable[kind] : key # "waypoint_speed"
    BY <1>5 DEF ViewerTable
  <2>10. e.attrs = a /\ e.place = p
    BY <2>5
  <2> HIDE DEF e
  <2>11. ShowsEntry(s, id, e)
    BY <1>1, <1>5, <2>1, <2>6, <2>8, <2>9, <2>10 DEF ShowsEntry, Before, Fixed
  <2>. QED
    BY <2>5, <2>7, <2>10, <2>11 DEF e
<1>6. CASE kind = "UEs"
  <2>1. PICK d, p, c : /\ d = Restrict(Default, ViewerTable.UEs) /\ p = s.add[id].position
                       /\ c = One("waypoint_speed", s.add[id].speed)
    OBVIOUS
  <2>2. DOMAIN d = ViewerTable[kind] /\ \A key \in ViewerTable[kind] : d[key] = Default[key]
    BY <1>6, <2>1 DEF ViewerTable, Restrict
  <2>3. DOMAIN c = {"waypoint_speed"} /\ c["waypoint_speed"] = s.add[id].speed /\ DOMAIN c \subseteq ViewerTable[kind]
    BY <1>6, <2>1 DEF One, ViewerTable
  <2>4. PICK b, r, f : b = Over(c, d) /\ r = Over(u, b) /\ f = Over(c, r)
    OBVIOUS
  <2>5. e = [attrs |-> IF p = NoPlace THEN f ELSE r, place |-> p]
    BY <1>1, <1>6, <2>1, <2>4 DEF ApplySection, CreateUserEquipments
  <2>6. /\ DOMAIN b = ViewerTable[kind]
        /\ \A key \in ViewerTable[kind] : b[key] = IF key = "waypoint_speed" THEN s.add[id].speed ELSE Default[key]
    BY <2>2, <2>3, <2>4 DEF Over
  <2>7. DOMAIN r = ViewerTable[kind] /\ \A key \in ViewerTable[kind] : r[key] = IF key \in DOMAIN u THEN u[key] ELSE b[key]
    BY <1>2, <2>4, <2>6 DEF Over
  <2>8. DOMAIN f = ViewerTable[kind] /\ \A key \in ViewerTable[kind] : f[key] = IF key = "waypoint_speed" THEN s.add[id].speed ELSE r[key]
    BY <2>3, <2>4, <2>7 DEF Over
  <2>9. IsAttrs(r) /\ IsAttrs(f)
    BY <2>4, OverIs
  <2>10. \A key \in ViewerTable[kind] : key # "aerial_gnb_cell_id"
    BY <1>6 DEF ViewerTable
  <2>11. e.attrs = (IF p = NoPlace THEN f ELSE r) /\ e.place = p
    BY <2>5
  <2> HIDE DEF e
  <2>12. ShowsEntry(s, id, e)
    BY <1>1, <1>6, <2>1, <2>6, <2>7, <2>8, <2>10, <2>11 DEF ShowsEntry, Before, Fixed
  <2>13. IsAttrs(e.attrs) /\ DOMAIN e.attrs = ViewerTable[kind]
    BY <2>7, <2>8, <2>9, <2>11
  <2>14. e = [attrs |-> e.attrs, place |-> e.place]
    BY <2>5, <2>11 DEF e
  <2>. QED
    BY <2>12, <2>13, <2>14 DEF e
<1>. QED
  BY <1>3, <1>4, <1>5, <1>6 DEF Sections

LEMMA SceneIs ==
    ASSUME kind \in Sections, NEW s, SectionOK(kind, s), NEW before, kind = "Scenario" => SceneOK(kind, before)
    PROVE  LET scn == ApplySection(s, before)
           IN  /\ SceneOK(kind, scn) /\ DOMAIN scn = Entities(s)
               /\ kind = "Scenario" => scn[0].attrs = Over(Updates(s, 0), before[0].attrs)
               /\ kind # "Scenario" => \A id \in DOMAIN scn : ShowsEntry(s, id, scn[id])
<1> DEFINE scn == ApplySection(s, before)
<1>u. ListOK(s.update)
  BY DEF SectionOK
<1>1. CASE kind = "Scenario"
  <2>1. PICK a : a = Over(Updates(s, 0), before[0].attrs)
    OBVIOUS
  <2>2. scn = One(0, [attrs |-> a, place |-> NoPlace])
    BY <1>1, <2>1 DEF ApplySection, BuildScenarioParams
  <2>3. DOMAIN scn = {0} /\ scn[0] = [attrs |-> a, place |-> NoPlace]
    BY <2>2 DEF One
  <2>4. EntityOK(kind, before[0])
    BY <1>1 DEF SceneOK, Numbered
  <2>5. DOMAIN a = ViewerTable[kind] /\ IsAttrs(a)
    <3>1. DOMAIN Updates(s, 0) \subseteq ViewerTable[kind] /\ DOMAIN before[0].attrs = ViewerTable[kind]
      BY <2>4, UpdatesIs DEF EntityOK
    <3>. QED
      BY <2>1, <3>1, OverWithin
  <2>6. ViewerUnits(a)
    <3>1. ViewerUnits(Updates(s, 0)) /\ ViewerUnits(before[0].attrs)
      BY <1>u, <2>4, UpdatesUnits DEF EntityOK
    <3>. QED
      BY <2>1, <3>1 DEF ViewerUnits, Over
  <2> HIDE DEF scn
  <2>7. scn[0].attrs = a /\ scn[0].place = NoPlace
    BY <2>3
  <2>8. EntityOK(kind, scn[0])
    BY <1>1, <2>3, <2>5, <2>6, <2>7 DEF EntityOK
  <2>9. SceneOK(kind, scn)
    BY <1>1, <2>3, <2>8 DEF SceneOK, Numbered
  <2>. QED
    BY <1>1, <2>1, <2>3, <2>7, <2>9 DEF Entities, scn
<1>2. CASE kind # "Scenario"
  <2>1. DOMAIN scn = DOMAIN s.add
    BY <1>2 DEF ApplySection, CreatePanels, CreateDistributedUnits, CreateRadioUnits, CreateUserEquipments, Sections
  <2>2. ASSUME NEW id \in DOMAIN s.add PROVE EntityOK(kind, scn[id]) /\ ShowsEntry(s, id, scn[id])
    <3>1. /\ scn[id] = [attrs |-> scn[id].attrs, place |-> scn[id].place] /\ IsAttrs(scn[id].attrs)
          /\ DOMAIN scn[id].attrs = ViewerTable[kind]
          /\ ShowsEntry(s, id, scn[id])
      BY <1>2, EntityIs
    <3> HIDE DEF scn
    <3>2. ViewerUnits(scn[id].attrs)
      <4> SUFFICES ASSUME NEW key \in ViewerTable[kind] \cap Converted
                   PROVE  \E v \in Values(key) : scn[id].attrs[key] = InViewer(key, v)
        BY <3>1 DEF ViewerUnits
      <4>1. key # "waypoint_speed" /\ key # "aerial_gnb_cell_id"
        BY DEF Converted
      <4>2. scn[id].attrs[key] = IF key \in DOMAIN Updates(s, id) THEN Updates(s, id)[key] ELSE Default[key]
        BY <3>1, <4>1 DEF ShowsEntry, Before, Fixed
      <4>3. key \in DOMAIN Updates(s, id) => \E v \in Values(key) : Updates(s, id)[key] = InViewer(key, v)
        BY <1>u, UpdatesUnits DEF ViewerUnits
      <4>. QED
        BY <4>2, <4>3, DefaultUnits
    <3>3. kind \in {"DUs", "RUs"} => scn[id].place \in Place
      <4>1. EntryOK(kind, s.add[id])
        BY <1>2 DEF SectionOK
      <4>. QED
        BY <3>1, <4>1, PlaceAssumption DEF ShowsEntry, PositionOf, EntryOK, PlaceOK
    <3>4. kind = "Panels" => scn[id].place = NoPlace
      BY <3>1 DEF ShowsEntry
    <3>. QED
      BY <1>2, <3>1, <3>2, <3>3, <3>4 DEF EntityOK
  <2>3. Numbered(kind, DOMAIN s.add)
    BY <1>2 DEF SectionOK
  <2> HIDE DEF scn
  <2>4. SceneOK(kind, scn)
    BY <2>1, <2>2, <2>3 DEF SceneOK
  <2>. QED
    BY <1>2, <2>1, <2>2, <2>4 DEF Entities, scn
<1>. QED
  BY <1>1, <1>2

LEMMA FreshIs ==
    ASSUME kind = "Scenario"
    PROVE  SceneOK(kind, FreshScene) /\ \A key \in ViewerTable.Scenario : FreshScene[0].attrs[key] = Default[key]
<1>1. PICK a : a = Restrict(Default, ViewerTable.Scenario)
  OBVIOUS
<1>2. DOMAIN a = ViewerTable[kind] /\ IsAttrs(a) /\ \A key \in ViewerTable[kind] : a[key] = Default[key]
  BY <1>1 DEF Restrict, IsAttrs, ViewerTable
<1>3. DOMAIN FreshScene = {0} /\ FreshScene[0] = [attrs |-> a, place |-> NoPlace]
  BY <1>1 DEF FreshScene, One
<1>4. FreshScene[0].attrs = a /\ FreshScene[0].place = NoPlace
  BY <1>3
<1>5. ViewerUnits(a)
  BY <1>2, DefaultUnits DEF ViewerUnits, Sections
<1>6. EntityOK(kind, FreshScene[0])
  BY <1>2, <1>3, <1>4, <1>5 DEF EntityOK
<1>. QED
  BY <1>2, <1>3, <1>4, <1>6 DEF SceneOK, Numbered, ViewerTable

-----------------------------------------------------------------------------
(* What a save writes.                                                        *)

LEMMA ExistingIs ==
    ASSUME NEW s, ListOK(s.update), NEW id
    PROVE  /\ FileUnits(ExistingAttributes(s, id))
           /\ ExistingUpdates(s, id) = {} => DOMAIN ExistingAttributes(s, id) = {}
<1>1. DOMAIN s.update = 1..Len(s.update) /\ Len(s.update) \in Nat
  BY ListIs DEF ListOK
<1>2. CASE ExistingUpdates(s, id) = {}
  BY <1>2, NoneIs DEF ExistingAttributes, FileUnits
<1>3. CASE ExistingUpdates(s, id) # {}
  <2>1. PICK there : there = ExistingUpdates(s, id)
    OBVIOUS
  <2>2. there \subseteq 1..Len(s.update) /\ there \subseteq Nat /\ there # {}
    BY <1>1, <1>3, <2>1 DEF ExistingUpdates
  <2>3. \E i \in there : \A j \in there : i <= j
    BY <2>2, LeastExists
  <2>4. PICK i \in there : i = CHOOSE x \in there : \A j \in there : x <= j
    BY <2>3
  <2>5. ExistingAttributes(s, id) = s.update[i].attrs
    BY <1>3, <2>1, <2>4 DEF ExistingAttributes
  <2>. QED
    BY <1>3, <2>2, <2>5 DEF ListOK
<1>. QED
  BY <1>2, <1>3

\* A value of the viewer that is written and read again.
SavedValue(key, v) == IF key \in {"aerial_gnb_radiated_power", "aerial_ue_radiated_power"} THEN RadiatedPowerDbm(v) ELSE v

LEMMA TripIs ==
    ASSUME NEW attrs, ViewerUnits(attrs), NEW key \in DOMAIN attrs
    PROVE  /\ Shown(key, InFile(key, attrs[key])) = SavedValue(key, attrs[key])
           /\ key \in Converted => InFile(key, attrs[key]) \in Values(key)
<1>1. CASE key \in Converted
  <2>1. PICK w \in Values(key) : attrs[key] = InViewer(key, w)
    BY <1>1 DEF ViewerUnits
  <2>2. key \notin {"aerial_gnb_radiated_power", "aerial_ue_radiated_power"}
    BY <1>1 DEF Converted
  <2>3. InFile(key, attrs[key]) = w
    <3>1. CASE key = "reference_freq_mhz"
      <4>1. w \in {1200, 3600} /\ attrs[key] = w * 1000
        BY <2>1, <3>1 DEF Values, InViewer
      <4>2. attrs[key] \div 1000 = w
        BY <4>1
      <4>. QED
        BY <3>1, <4>2 DEF InFile
    <3>2. CASE key = "dual_polarized"
      <4>1. w \in {0, 1} /\ attrs[key] = IF w \in {1, 2} THEN 2 ELSE 0
        BY <2>1, <3>2 DEF Values, InViewer
      <4>. QED
        BY <3>2, <4>1 DEF InFile
    <3>3. CASE key = "aerial_du_subcarrier_spacing"
      <4>1. w \in {15, 30} /\ attrs[key] = w * 1000
        BY <2>1, <3>3 DEF Values, InViewer, SubcarrierSpacingHz
      <4>2. SubcarrierSpacingHz(attrs[key]) \div 1000 = w
        BY <4>1 DEF SubcarrierSpacingHz
      <4>. QED
        BY <3>3, <4>2 DEF InFile
    <3>4. CASE key \in {"sim_num_procedural_ues", "sim_is_seeded", "um_enable_urban_mobility"}
      BY <2>1, <3>4 DEF InFile, InViewer
    <3>. QED
      BY <1>1, <3>1, <3>2, <3>3, <3>4 DEF Converted
  <2>4. Shown(key, w) = InViewer(key, w)
    BY <2>2 DEF Shown
  <2>. QED
    BY <2>1, <2>2, <2>3, <2>4 DEF SavedValue
<1>2. CASE key = "aerial_gnb_radiated_power"
  <2>1. InFile(key, attrs[key]) = RadiatedPowerDbm(attrs[key])
    BY <1>2 DEF InFile
  <2>2. \A v : RadiatedPowerDbm(RadiatedPowerDbm(v)) = RadiatedPowerDbm(v)
    BY DEF RadiatedPowerDbm
  <2>. QED
    BY <1>2, <2>1, <2>2 DEF Shown, SavedValue, Converted
<1>3. CASE key = "aerial_ue_radiated_power"
  BY <1>3 DEF InFile, Shown, InViewer, SavedValue, Converted
<1>4. CASE key \notin Converted \cup {"aerial_gnb_radiated_power", "aerial_ue_radiated_power"}
  BY <1>4 DEF InFile, Shown, InViewer, SavedValue, Converted
<1>. QED
  BY <1>1, <1>2, <1>3, <1>4

LEMMA AllInFileIs ==
    ASSUME NEW attrs, ViewerUnits(attrs), NEW keys, keys \subseteq DOMAIN attrs
    PROVE  LET a == AllInFile(Only(attrs, keys))
               b == AllInFile(attrs)
               c == AllInFile(Without(attrs, keys))
           IN  /\ FileUnits(a) /\ DOMAIN a = keys /\ \A key \in keys : a[key] = InFile(key, attrs[key])
               /\ FileUnits(b) /\ DOMAIN b = DOMAIN attrs /\ \A key \in DOMAIN attrs : b[key] = InFile(key, attrs[key])
               /\ FileUnits(c) /\ DOMAIN c = DOMAIN attrs \ keys
               /\ \A key \in DOMAIN attrs \ keys : c[key] = InFile(key, attrs[key])
<1>1. ASSUME NEW r, DOMAIN r \subseteq DOMAIN attrs, \A key \in DOMAIN r : r[key] = attrs[key]
      PROVE  /\ FileUnits(AllInFile(r)) /\ DOMAIN AllInFile(r) = DOMAIN r
             /\ \A key \in DOMAIN r : AllInFile(r)[key] = InFile(key, attrs[key])
  <2>1. DOMAIN AllInFile(r) = DOMAIN r /\ \A key \in DOMAIN r : AllInFile(r)[key] = InFile(key, attrs[key])
    BY <1>1 DEF AllInFile
  <2>2. ASSUME NEW key \in DOMAIN r \cap Converted PROVE AllInFile(r)[key] \in Values(key)
    BY <1>1, <2>1, TripIs
  <2>. QED
    BY <2>1, <2>2 DEF FileUnits
<1>2. PICK o, w : o = Only(attrs, keys) /\ w = Without(attrs, keys)
  OBVIOUS
<1>3. DOMAIN o = keys /\ \A key \in keys : o[key] = attrs[key]
  BY <1>2 DEF Only, Restrict
<1>4. DOMAIN w = DOMAIN attrs \ keys /\ \A key \in DOMAIN attrs \ keys : w[key] = attrs[key]
  BY <1>2 DEF Without, Restrict
<1>5. FileUnits(AllInFile(o)) /\ DOMAIN AllInFile(o) = keys /\ \A key \in keys : AllInFile(o)[key] = InFile(key, attrs[key])
  BY <1>1, <1>3
<1>6. /\ FileUnits(AllInFile(w)) /\ DOMAIN AllInFile(w) = DOMAIN attrs \ keys
      /\ \A key \in DOMAIN attrs \ keys : AllInFile(w)[key] = InFile(key, attrs[key])
  BY <1>1, <1>4
<1>7. /\ FileUnits(AllInFile(attrs)) /\ DOMAIN AllInFile(attrs) = DOMAIN attrs
      /\ \A key \in DOMAIN attrs : AllInFile(attrs)[key] = InFile(key, attrs[key])
  BY <1>1
<1>. QED
  BY <1>2, <1>5, <1>6, <1>7

\* What the file has of its own and a save keeps.
Keeps == {"antenna_names", "aerial_gnb_cell_id", "waypoint_speed"}

\* The keys of the viewer that a save does not write.
NotWritten(id, e, s, key) ==
    CASE kind = "Panels" -> id \in DOMAIN s.add /\ s.add[id].src = "file" /\ ExistingUpdates(s, id) = {}
      [] kind = "DUs" -> FALSE
      [] kind = "RUs" -> key = "aerial_gnb_cell_id" \/ (key = "aerial_gnb_enable_rays" /\ e.attrs[key] = Default[key])
      [] kind = "UEs" -> key = "waypoint_speed"
      [] kind = "Scenario" -> IF s.update = <<>> THEN e.attrs[key] = Default[key]
                              ELSE key \notin DOMAIN ExistingAttributes(s, id)

\* written is what a save writes for the entity e.
WritesEntity(id, e, s, written) ==
    /\ IsAttrs(written) /\ FileUnits(written)
    /\ \A key \in DOMAIN written \cap ViewerTable[kind] :
          \/ written[key] = InFile(key, e.attrs[key])
          \/ key \in Keeps \cap DOMAIN ExistingAttributes(s, id)
    /\ \A key \in ViewerTable[kind] \ DOMAIN written : NotWritten(id, e, s, key)

LEMMA WritesIs ==
    ASSUME kind \in Sections, NEW s, SectionOK(kind, s), NEW id, kind = "Scenario" => id = 0, NEW e, EntityOK(kind, e)
    PROVE  WritesEntity(id, e, s, SerializeAttributes(id, e, s))
<1>1. PICK there, at, written : /\ there = ExistingAttributes(s, id) /\ at = e.attrs
                                /\ written = SerializeAttributes(id, e, s)
  OBVIOUS
<1>2. FileUnits(there) /\ (ExistingUpdates(s, id) = {} => DOMAIN there = {})
  BY <1>1, ExistingIs DEF SectionOK
<1>3. ViewerUnits(at) /\ DOMAIN at = ViewerTable[kind]
  BY <1>1 DEF EntityOK
<1>4. \A keys \in SUBSET DOMAIN at :
         LET a == AllInFile(Only(at, keys))
             b == AllInFile(at)
             c == AllInFile(Without(at, keys))
         IN  /\ FileUnits(a) /\ DOMAIN a = keys /\ \A key \in keys : a[key] = InFile(key, at[key])
             /\ FileUnits(b) /\ DOMAIN b = DOMAIN at /\ \A key \in DOMAIN at : b[key] = InFile(key, at[key])
             /\ FileUnits(c) /\ DOMAIN c = DOMAIN at \ keys
             /\ \A key \in DOMAIN at \ keys : c[key] = InFile(key, at[key])
  BY <1>3, AllInFileIs
<1>5. PICK b : b = AllInFile(at)
  OBVIOUS
<1>6. FileUnits(b) /\ DOMAIN b = DOMAIN at /\ \A key \in DOMAIN at : b[key] = InFile(key, at[key])
  BY <1>4, <1>5
<1>p. CASE kind = "Panels"
  <2>1. CASE id \in DOMAIN s.add /\ s.add[id].src = "file" /\ ExistingUpdates(s, id) = {}
    <3>1. written = NoAttributes
      BY <1>p, <1>1, <2>1 DEF SerializeAttributes, PanelAttributes
    <3>. QED
      BY <1>p, <1>1, <2>1, <3>1, NoneIs DEF WritesEntity, NotWritten, FileUnits
  <2>2. CASE ~(id \in DOMAIN s.add /\ s.add[id].src = "file" /\ ExistingUpdates(s, id) = {})
    <3>1. PICK n, m : n = Only(there, {"antenna_names"}) /\ m = Over(b, there)
      OBVIOUS
    <3>2. written = Over(n, m)
      BY <1>p, <1>1, <1>5, <2>2, <3>1 DEF SerializeAttributes, PanelAttributes
    <3>3. FileUnits(n) /\ FileUnits(m)
      BY <1>2, <1>6, <3>1, OverUnits
    <3>4. IsAttrs(written) /\ FileUnits(written)
      BY <3>2, <3>3, OverUnits, OverIs
    <3>5. DOMAIN n = DOMAIN there \cap {"antenna_names"}
      BY <3>1 DEF Only, Restrict
    <3>6. \A key \in DOMAIN at : key \in DOMAIN written /\ (key \notin DOMAIN n => written[key] = InFile(key, at[key]))
      BY <1>6, <3>1, <3>2 DEF Over
    <3>. QED
      BY <1>1, <1>3, <3>4, <3>5, <3>6 DEF WritesEntity, Keeps
  <2>. QED
    BY <2>1, <2>2
<1>d. CASE kind = "DUs"
  <2>1. written = Over(b, there)
    BY <1>d, <1>1, <1>5 DEF SerializeAttributes, DuAttributes
  <2>2. IsAttrs(written) /\ FileUnits(written)
    BY <1>2, <1>6, <2>1, OverUnits, OverIs
  <2>3. \A key \in DOMAIN at : key \in DOMAIN written /\ written[key] = InFile(key, at[key])
    BY <1>6, <2>1 DEF Over
  <2>. QED
    BY <1>1, <1>3, <2>2, <2>3 DEF WritesEntity
<1>r. CASE kind = "RUs"
  <2>1. PICK lean : lean = {key \in {"aerial_gnb_enable_rays"} \ DOMAIN there : at[key] = Default[key]}
    OBVIOUS
  <2>2. PICK out : out = {"aerial_gnb_cell_id"} \cup lean
    OBVIOUS
  <2>3. PICK a : a = AllInFile(Without(at, out))
    OBVIOUS
  <2>4. written = Over(a, there)
    BY <1>r, <1>1, <2>1, <2>2, <2>3 DEF SerializeAttributes, RuAttributes
  <2>5. out \subseteq DOMAIN at
    BY <1>r, <1>3, <2>1, <2>2 DEF ViewerTable
  <2>6. FileUnits(a) /\ DOMAIN a = DOMAIN at \ out /\ \A key \in DOMAIN at \ out : a[key] = InFile(key, at[key])
    BY <1>4, <2>3, <2>5
  <2>7. IsAttrs(written) /\ FileUnits(written)
    BY <1>2, <2>6, <2>4, OverUnits, OverIs
  <2>8. \A key \in DOMAIN at \ out : key \in DOMAIN written /\ written[key] = InFile(key, at[key])
    BY <2>4, <2>6 DEF Over
  <2>9. \A key \in DOMAIN at \cap out : key \in DOMAIN written => key \in DOMAIN there
    BY <2>4, <2>6 DEF Over
  <2>10. \A key \in lean : key \notin DOMAIN there /\ key = "aerial_gnb_enable_rays" /\ at[key] = Default[key]
    BY <2>1
  <2>11. ASSUME NEW key \in DOMAIN at \cap DOMAIN written, key \in out PROVE key \in Keeps \cap DOMAIN there
    BY <2>2, <2>9, <2>10, <2>11 DEF Keeps
  <2>12. ASSUME NEW key \in DOMAIN at \ DOMAIN written PROVE NotWritten(id, e, s, key)
    BY <1>r, <1>1, <2>2, <2>8, <2>10 DEF NotWritten
  <2>. QED
    BY <1>1, <1>3, <2>7, <2>8, <2>11, <2>12 DEF WritesEntity
<1>e. CASE kind = "UEs"
  <2>1. PICK a : a = AllInFile(Without(at, {"waypoint_speed"}))
    OBVIOUS
  <2>2. written = Over(a, there)
    BY <1>e, <1>1, <2>1 DEF SerializeAttributes, UeAttributes
  <2>3. {"waypoint_speed"} \in SUBSET DOMAIN at
    BY <1>e, <1>3 DEF ViewerTable
  <2>4. /\ FileUnits(a) /\ DOMAIN a = DOMAIN at \ {"waypoint_speed"}
        /\ \A key \in DOMAIN at \ {"waypoint_speed"} : a[key] = InFile(key, at[key])
    BY <1>4, <2>1, <2>3
  <2>5. IsAttrs(written) /\ FileUnits(written)
    BY <1>2, <2>4, <2>2, OverUnits, OverIs
  <2>6. \A key \in DOMAIN at : key # "waypoint_speed" => key \in DOMAIN written /\ written[key] = InFile(key, at[key])
    BY <2>2, <2>4 DEF Over
  <2>7. "waypoint_speed" \in DOMAIN written => "waypoint_speed" \in DOMAIN there
    BY <2>2, <2>4 DEF Over
  <2>. QED
    BY <1>e, <1>1, <1>3, <2>5, <2>6, <2>7 DEF WritesEntity, NotWritten, Keeps
<1>s. CASE kind = "Scenario"
  <2> DEFINE export == Over(ScenarioExportDefaults, Default)
  <2>1. PICK keys : keys = IF s.update # <<>> THEN DOMAIN there ELSE {key \in DOMAIN at : at[key] # export[key]}
    OBVIOUS
  <2>2. PICK a : a = AllInFile(Only(at, keys))
    OBVIOUS
  <2>3. written = Over(a, there)
    BY <1>s, <1>1, <2>1, <2>2 DEF SerializeAttributes, ScenarioParams
  <2>4. Only(at, keys) = Only(at, keys \cap DOMAIN at)
    BY DEF Only, Restrict
  <2>5. FileUnits(a) /\ DOMAIN a = keys \cap DOMAIN at /\ \A key \in keys \cap DOMAIN at : a[key] = InFile(key, at[key])
    <3>1. PICK k : k = keys \cap DOMAIN at
      OBVIOUS
    <3>2. k \in SUBSET DOMAIN at /\ a = AllInFile(Only(at, k))
      BY <2>2, <2>4, <3>1
    <3>3. FileUnits(a) /\ DOMAIN a = k /\ \A key \in k : a[key] = InFile(key, at[key])
      BY <1>4, <3>2
    <3>. QED
      BY <3>1, <3>3
  <2>6. IsAttrs(written) /\ FileUnits(written)
    BY <1>2, <2>5, <2>3, OverUnits, OverIs
  <2>7. \A key \in keys \cap DOMAIN at : key \in DOMAIN written /\ written[key] = InFile(key, at[key])
    BY <2>3, <2>5 DEF Over
  <2>8. s.update = <<>> => DOMAIN there = {}
    <3>1. s.update = <<>> => ExistingUpdates(s, id) = {}
      BY DEF ExistingUpdates
    <3>. QED
      BY <1>2, <3>1
  <2>9. \A key \in DOMAIN there : key \in keys
    BY <2>1, <2>8
  <2>10. \A key \in DOMAIN at : key \in DOMAIN written => key \in keys
    BY <2>3, <2>5, <2>9 DEF Over
  <2>11. \A key \in DOMAIN at : export[key] = Default[key]
    BY <1>s, <1>3 DEF ViewerTable, Over, ScenarioExportDefaults, Default
  <2>12. ASSUME NEW key \in DOMAIN at \ DOMAIN written PROVE NotWritten(id, e, s, key)
    <3>1. key \notin keys
      BY <2>7, <2>12
    <3>2. CASE s.update = <<>>
      BY <1>s, <1>1, <2>1, <2>11, <3>1, <3>2 DEF NotWritten
    <3>3. CASE s.update # <<>>
      BY <1>s, <1>1, <2>1, <3>1, <3>3 DEF NotWritten
    <3>. QED
      BY <3>2, <3>3
  <2> HIDE DEF export
  <2>. QED
    BY <1>1, <1>3, <2>6, <2>7, <2>10, <2>12 DEF WritesEntity
<1>. QED
  BY <1>p, <1>d, <1>r, <1>e, <1>s DEF Sections

\* What a save makes of the entry of an entity.
WritesEntry(id, e, s, r) ==
    /\ EntryOK(kind, r)
    /\ kind = "Panels" => (r.src = "file" <=> id \in DOMAIN s.add /\ s.add[id].src = "file")
    /\ kind \in {"DUs", "RUs"} =>
          /\ PositionOf(r) = IF Unmoved(id, e.place, s) THEN e.place ELSE Flattened(e.place)
          /\ r.pos = NoPlace => r.position = PositionOf(r)
    /\ kind = "UEs" /\ ~(id \in DOMAIN s.add /\ s.add[id].src = "gpx")
          => r.position = Flattened(e.place) /\ r.speed = e.attrs["waypoint_speed"]

LEMMA AddEntryIs ==
    ASSUME NEW k, NEW position, NEW src, NEW speed, NEW e, e = AddEntry(position, src, speed)
    PROVE  /\ e = [pos |-> e.pos, position |-> e.position, src |-> e.src, speed |-> e.speed]
           /\ e.pos = NoPlace /\ e.position = position /\ e.src = src /\ e.speed = speed
           /\ PlaceOK(k, position) => EntryOK(k, e)
<1>1. e.pos = NoPlace /\ e.position = position /\ e.src = src /\ e.speed = speed
  BY DEF AddEntry
<1>2. e = [pos |-> e.pos, position |-> e.position, src |-> e.src, speed |-> e.speed]
  BY <1>1 DEF AddEntry
<1>. QED
  BY <1>1, <1>2 DEF EntryOK, PlaceOK

LEMMA AddIs ==
    ASSUME kind \in Sections, kind # "Scenario", NEW s, SectionOK(kind, s), NEW id, NEW e, EntityOK(kind, e)
    PROVE  WritesEntry(id, e, s, SerializeAdd(id, e, s))
<1>1. PICK r : r = SerializeAdd(id, e, s)
  OBVIOUS
<1>2. PICK t : t = s.add[id]
  OBVIOUS
<1>3. id \in DOMAIN s.add => EntryOK(kind, t)
  BY <1>2 DEF SectionOK
<1>4. CASE kind = "Panels"
  <2>1. r = IF id \in DOMAIN s.add THEN t ELSE AddEntry(NoPlace, "spec", 0)
    BY <1>1, <1>2, <1>4 DEF SerializeAdd, PanelAdd
  <2>2. CASE id \in DOMAIN s.add
    BY <1>1, <1>2, <1>3, <1>4, <2>1, <2>2 DEF WritesEntry
  <2>3. CASE id \notin DOMAIN s.add
    <3>1. EntryOK(kind, r) /\ r.src = "spec"
      BY <1>4, <2>1, <2>3, AddEntryIs DEF PlaceOK
    <3>. QED
      BY <1>1, <1>4, <2>3, <3>1 DEF WritesEntry
  <2>. QED
    BY <2>2, <2>3
<1>5. CASE kind \in {"DUs", "RUs"}
  <2>1. PICK place, flat : place = e.place /\ flat = Flattened(place)
    OBVIOUS
  <2>2. r = PositionAdd(id, place, s)
    BY <1>1, <1>5, <2>1 DEF SerializeAdd
  <2>3. place # NoPlace /\ flat # NoPlace /\ PlaceOK(kind, flat) /\ PlaceOK(kind, NoPlace)
    BY <1>5, <2>1, PlaceAssumption DEF EntityOK, PlaceOK, Flattened
  <2>4. CASE Unmoved(id, place, s)
    <3>1. r = t /\ id \in DOMAIN s.add /\ (IF t.position # NoPlace THEN t.position ELSE t.pos) = place
      BY <1>2, <2>2, <2>4 DEF PositionAdd, Unmoved, There
    <3>2. EntryOK(kind, r) /\ (r.pos = NoPlace \/ r.position = NoPlace)
      BY <1>3, <3>1 DEF EntryOK
    <3>. QED
      BY <1>1, <1>5, <2>1, <2>3, <2>4, <3>1, <3>2 DEF WritesEntry, PositionOf
  <2>5. CASE ~Unmoved(id, place, s) /\ id \notin DOMAIN s.add
    <3>1. PICK empty : empty = ""
      OBVIOUS
    <3>2. r = AddEntry(flat, empty, 0)
      BY <2>1, <2>2, <2>5, <3>1 DEF PositionAdd
    <3>3. r.pos = NoPlace /\ r.position = flat /\ EntryOK(kind, r)
      BY <2>3, <3>2, AddEntryIs
    <3>. QED
      BY <1>1, <1>5, <2>1, <2>3, <2>5, <3>3 DEF WritesEntry, PositionOf
  <2>6. CASE ~Unmoved(id, place, s) /\ id \in DOMAIN s.add
    <3>1. r = [t EXCEPT !.pos = NoPlace, !.position = flat]
      BY <1>2, <2>1, <2>2, <2>6 DEF PositionAdd
    <3>2. t = [pos |-> t.pos, position |-> t.position, src |-> t.src, speed |-> t.speed]
      BY <1>3, <2>6 DEF EntryOK
    <3>3. r = [pos |-> NoPlace, position |-> flat, src |-> t.src, speed |-> t.speed]
      BY <3>1, <3>2
    <3>4. r.pos = NoPlace /\ r.position = flat /\ r.src = t.src /\ r.speed = t.speed
      BY <3>3
    <3>5. EntryOK(kind, r)
      BY <2>3, <3>3, <3>4 DEF EntryOK
    <3>. QED
      BY <1>1, <1>5, <2>1, <2>3, <2>6, <3>4, <3>5 DEF WritesEntry, PositionOf
  <2>. QED
    BY <2>4, <2>5, <2>6
<1>6. CASE kind = "UEs"
  <2>1. CASE id \in DOMAIN s.add /\ s.add[id].src = "gpx"
    <3>1. r = t
      BY <1>1, <1>2, <1>6, <2>1 DEF SerializeAdd, UeAdd
    <3>. QED
      BY <1>1, <1>3, <1>6, <2>1, <3>1 DEF WritesEntry
  <2>2. CASE ~(id \in DOMAIN s.add /\ s.add[id].src = "gpx")
    <3>1. r = AddEntry(Flattened(e.place), "waypoints", e.attrs["waypoint_speed"])
      BY <1>1, <1>6, <2>2 DEF SerializeAdd, UeAdd
    <3>2. EntryOK(kind, r) /\ r.position = Flattened(e.place) /\ r.speed = e.attrs["waypoint_speed"]
      BY <1>6, <3>1, AddEntryIs DEF PlaceOK
    <3>. QED
      BY <1>1, <1>6, <3>2 DEF WritesEntry
  <2>. QED
    BY <2>1, <2>2
<1>. QED
  BY <1>4, <1>5, <1>6 DEF Sections

LEMMA SerializeIs ==
    ASSUME kind \in Sections, NEW s, SectionOK(kind, s), NEW v, SceneOK(kind, v)
    PROVE  LET saved == SerializeToYml(v, s)
           IN  /\ SectionOK(kind, saved) /\ saved.default = s.default
               /\ DOMAIN saved.add = Written(v) /\ Written(v) \subseteq DOMAIN v
               /\ Entities(saved) \subseteq DOMAIN v /\ (kind = "Scenario" => Entities(saved) = {0})
               /\ kind # "Scenario" => \A id \in DOMAIN saved.add : WritesEntry(id, v[id], s, saved.add[id])
               /\ \A id \in Entities(saved) : WritesEntity(id, v[id], s, Applied(saved.update, id))
<1> DEFINE saved == SerializeToYml(v, s)
           from == IF kind = "Scenario" THEN {0} ELSE Written(v)
           ids == {id \in from : DOMAIN SerializeAttributes(id, v[id], s) # {}}
           sorted == InOrder(ids)
           add == [id \in Written(v) |-> SerializeAdd(id, v[id], s)]
           attrs == [id \in from |-> SerializeAttributes(id, v[id], s)]
           update == [i \in 1..Len(sorted) |-> [ids |-> IF sorted[i] = 0 THEN {} ELSE {sorted[i]},
                                                attrs |-> SerializeAttributes(sorted[i], v[sorted[i]], s)]]
<1>1. saved = [default |-> s.default, add |-> add, update |-> update]
  BY DEF SerializeToYml
<1>2. /\ Written(v) \subseteq DOMAIN v /\ from \subseteq DOMAIN v /\ from \subseteq Nat /\ IsFiniteSet(from)
      /\ kind # "Scenario" => 0 \notin from /\ Numbered(kind, Written(v))
  <2>1. CASE kind = "Scenario"
    <3>1. Written(v) = {} /\ from = {0} /\ DOMAIN v = {0}
      BY <2>1 DEF Written, SceneOK, Numbered
    <3>. QED
      BY <2>1, <3>1, FS_EmptySet, FS_AddElement, FS_Singleton
  <2>2. CASE kind # "Scenario"
    <3>1. Written(v) \subseteq DOMAIN v /\ from = Written(v)
      BY <2>2 DEF Written
    <3>2. DOMAIN v \subseteq Nat \ {0} /\ IsFiniteSet(DOMAIN v)
      BY <2>2 DEF SceneOK, Numbered
    <3>3. IsFiniteSet(Written(v))
      BY <3>1, <3>2, FS_Subset
    <3>. QED
      BY <2>2, <3>1, <3>2, <3>3 DEF Numbered
  <2>. QED
    BY <2>1, <2>2
<1>3. \A id \in from : attrs[id] = SerializeAttributes(id, v[id], s) /\ WritesEntity(id, v[id], s, attrs[id])
  <2> SUFFICES ASSUME NEW id \in from PROVE WritesEntity(id, v[id], s, SerializeAttributes(id, v[id], s))
    OBVIOUS
  <2>1. EntityOK(kind, v[id]) /\ (kind = "Scenario" => id = 0)
    BY <1>2 DEF SceneOK
  <2>. QED
    BY <2>1, WritesIs
<1>4. ids \subseteq from /\ ids \in SUBSET Nat /\ IsFiniteSet(ids) /\ \A id \in from : id \notin ids => DOMAIN attrs[id] = {}
  <2>1. ids \subseteq from
    OBVIOUS
  <2>2. \A id \in from : id \notin ids => DOMAIN attrs[id] = {}
    OBVIOUS
  <2> HIDE DEF ids, from, attrs
  <2>. QED
    BY <1>2, <2>1, <2>2, FS_Subset
<1>5. /\ Len(sorted) \in Nat
      /\ \A i \in 1..Len(sorted) : sorted[i] \in ids
  <2> HIDE DEF ids
  <2>. QED
    BY <1>4, InOrderIs
<1>6. /\ IsList(update) /\ Len(update) = Len(sorted)
      /\ \A i \in 1..Len(sorted) : /\ update[i].ids = (IF sorted[i] = 0 THEN {} ELSE {sorted[i]})
                                   /\ update[i].attrs = attrs[sorted[i]]
  <2>1. \A i \in 1..Len(sorted) : /\ update[i].ids = (IF sorted[i] = 0 THEN {} ELSE {sorted[i]})
                                  /\ update[i].attrs = SerializeAttributes(sorted[i], v[sorted[i]], s)
    <3> HIDE DEF sorted
    <3>. QED
      OBVIOUS
  <2>2. \A i \in 1..Len(sorted) : attrs[sorted[i]] = SerializeAttributes(sorted[i], v[sorted[i]], s)
    <3> HIDE DEF sorted, ids, attrs, from
    <3>. QED
      BY <1>3, <1>4, <1>5
  <2> DEFINE U == {update[i] : i \in 1..Len(sorted)}
  <2>3. update \in [1..Len(sorted) -> U] /\ DOMAIN update = 1..Len(sorted)
    <3> HIDE DEF sorted
    <3>. QED
      OBVIOUS
  <2> HIDE DEF update, U, sorted
  <2>4. update \in Seq(U) /\ Len(update) = Len(sorted)
    BY <1>5, <2>3
  <2> HIDE DEF attrs
  <2>. QED
    BY <2>1, <2>2, <2>4 DEF IsList
<1> HIDE DEF update, attrs
<1>7. ListOK(update) /\ OneEach(update, ids, attrs)
  <2> HIDE DEF ids, from
  <2>1. \A i \in 1..Len(update) : FileUnits(update[i].attrs)
    <3> HIDE DEF sorted
    <3>. QED
      BY <1>3, <1>4, <1>5, <1>6 DEF WritesEntity
  <2>. QED
    BY <1>6, <2>1 DEF ListOK, OneEach
<1>8. ASSUME NEW id \in from PROVE Applied(update, id) = attrs[id]
  <2>1. \A i \in 1..Len(update) : Targets(update[i], id) <=> InOrder(ids)[i] = id
    <3> SUFFICES ASSUME NEW i \in 1..Len(update) PROVE Targets(update[i], id) <=> sorted[i] = id
      OBVIOUS
    <3>1. update[i].ids = (IF sorted[i] = 0 THEN {} ELSE {sorted[i]}) /\ sorted[i] \in from
      <4> HIDE DEF sorted, ids
      <4>. QED
        BY <1>4, <1>5, <1>6
    <3>2. sorted[i] = 0 => id = 0
      <4>1. CASE kind = "Scenario"
        <5>1. from = {0}
          BY <4>1
        <5>. QED
          BY <5>1
      <4>2. CASE kind # "Scenario"
        <5> HIDE DEF from, sorted
        <5>. QED
          BY <1>2, <3>1, <4>2
      <4>. QED
        BY <4>1, <4>2
    <3> HIDE DEF sorted, from
    <3>. QED
      BY <3>1, <3>2 DEF Targets
  <2>2. Applied(update, id) = IF id \in ids THEN [key \in DOMAIN attrs[id] |-> attrs[id][key]] ELSE NoAttributes
    <3> HIDE DEF ids
    <3>. QED
      BY <1>4, <1>7, <2>1, AppliedOwn
  <2>3. IsAttrs(attrs[id])
    BY <1>3 DEF WritesEntity
  <2> HIDE DEF ids, from
  <2>4. CASE id \in ids
    BY <2>2, <2>3, <2>4 DEF IsAttrs
  <2>5. CASE id \notin ids
    <3>1. DOMAIN attrs[id] = {}
      BY <1>4, <2>5
    <3>2. attrs[id] = NoAttributes
      BY <2>3, <3>1, NoneIs, SameAttrs
    <3>. QED
      BY <2>2, <2>5, <3>2
  <2>. QED
    BY <2>4, <2>5
<1>9. DOMAIN add = Written(v)
  OBVIOUS
<1>10. ASSUME kind # "Scenario", NEW id \in Written(v) PROVE WritesEntry(id, v[id], s, add[id])
  <2>1. EntityOK(kind, v[id])
    BY <1>2 DEF SceneOK
  <2>2. add[id] = SerializeAdd(id, v[id], s)
    OBVIOUS
  <2>. QED
    BY <1>10, <2>1, <2>2, AddIs
<1> HIDE DEF add, ids
<1>11. saved.default = s.default /\ saved.add = add /\ saved.update = update
  <2> HIDE DEF saved
  <2>. QED
    BY <1>1
<1> HIDE DEF saved
<1>12. SectionOK(kind, saved)
  BY <1>2, <1>7, <1>9, <1>10, <1>11 DEF SectionOK, WritesEntry
<1>13. Entities(saved) = from
  BY <1>9, <1>11 DEF Entities
<1>14. kind = "Scenario" => from = {0}
  OBVIOUS
<1> HIDE DEF from
<1>. QED
  BY <1>2, <1>3, <1>8, <1>9, <1>10, <1>11, <1>12, <1>13, <1>14 DEF saved

-----------------------------------------------------------------------------
(* What is saved is what is shown.                                            *)

\* The value that is saved for a property that the save takes from the entity.
LEMMA SavedAttribute ==
    ASSUME kind \in Sections, SectionOK(kind, contents), NEW id, NEW e, EntityOK(kind, e), NEW written, WritesEntity(id, e, contents, written),
           NEW key \in ViewerTable[kind] \ Lost(id)
    PROVE  /\ key \in DOMAIN written => \/ Shown(key, written[key]) = SavedValue(key, e.attrs[key])
                                        \/ kind = "UEs" /\ key = "waypoint_speed" /\ id \in DOMAIN contents.add /\ contents.add[id].src = "gpx"
           /\ key \notin DOMAIN written =>
                 /\ kind \in {"RUs", "UEs", "Scenario"} /\ SavedValue(key, e.attrs[key]) = e.attrs[key]
                 /\ kind = "UEs" => key = "waypoint_speed"
                 /\ kind # "UEs" => e.attrs[key] = Default[key]
                 /\ key # "aerial_gnb_cell_id"
<1> DEFINE there == ExistingAttributes(contents, id)
<1>1. key \in DOMAIN e.attrs /\ ViewerUnits(e.attrs)
  BY DEF EntityOK
<1>2. Shown(key, InFile(key, e.attrs[key])) = SavedValue(key, e.attrs[key])
  BY <1>1, TripIs
<1>3. ASSUME key \in Keeps \cap DOMAIN there
      PROVE  FALSE
  <2>1. CASE kind = "Panels"
    <3>1. key = "antenna_names"
      BY <1>3, <2>1 DEF Keeps, ViewerTable
    <3>. QED
      BY <1>3, <2>1, <3>1 DEF Lost
  <2>2. CASE kind = "DUs"
    BY <1>3, <2>2 DEF Keeps, ViewerTable
  <2>3. CASE kind = "RUs"
    BY <1>3, <2>3 DEF Keeps, ViewerTable, Lost
  <2>4. CASE kind = "UEs"
    <3>1. key = "waypoint_speed"
      BY <1>3, <2>4 DEF Keeps, ViewerTable
    <3>. QED
      BY <1>3, <2>4, <3>1 DEF Lost
  <2>5. CASE kind = "Scenario"
    BY <1>3, <2>5 DEF Keeps, ViewerTable
  <2>. QED
    BY <2>1, <2>2, <2>3, <2>4, <2>5 DEF Sections
<1>4. ASSUME key \in DOMAIN written PROVE Shown(key, written[key]) = SavedValue(key, e.attrs[key])
  BY <1>2, <1>3, <1>4 DEF WritesEntity
<1>5. ASSUME key \notin DOMAIN written
      PROVE  /\ kind \in {"RUs", "UEs", "Scenario"} /\ SavedValue(key, e.attrs[key]) = e.attrs[key]
             /\ kind = "UEs" => key = "waypoint_speed"
             /\ kind # "UEs" => e.attrs[key] = Default[key]
             /\ key # "aerial_gnb_cell_id"
  <2>1. NotWritten(id, e, contents, key)
    BY <1>5 DEF WritesEntity
  <2>2. kind # "Panels"
    <3> SUFFICES ASSUME kind = "Panels" PROVE FALSE
      OBVIOUS
    <3>1. id \in DOMAIN contents.add /\ contents.add[id].src = "file" /\ ExistingUpdates(contents, id) = {}
      BY <2>1 DEF NotWritten
    <3>2. DOMAIN there = {}
      BY <3>1, ExistingIs DEF SectionOK
    <3>. QED
      BY <3>1, <3>2 DEF Lost
  <2>3. kind # "DUs"
    BY <2>1 DEF NotWritten
  <2>4. CASE kind = "RUs"
    BY <2>1, <2>4 DEF NotWritten, Lost, SavedValue
  <2>5. CASE kind = "UEs"
    BY <2>1, <2>5 DEF NotWritten, SavedValue
  <2>6. CASE kind = "Scenario"
    <3>1. e.attrs[key] = Default[key]
      BY <2>1, <2>6 DEF NotWritten, Lost
    <3>2. key \in {"sim_is_full", "sim_duration", "sim_num_procedural_ues"}
      BY <2>6 DEF ViewerTable
    <3>. QED
      BY <2>6, <3>1, <3>2 DEF SavedValue
  <2>. QED
    BY <2>2, <2>3, <2>4, <2>5, <2>6 DEF Sections
<1>. QED
  BY <1>4, <1>5

\* The height that is lost is that of a unit that the file does not have where it is, or of the terrain under a path.
LEMMA HeightLost ==
    ASSUME kind \in Sections, NEW id
    PROVE  "height" \in Lost(id) <=>
              \/ kind \in {"DUs", "RUs"} /\ ~Unmoved(id, scene[id].place, contents)
              \/ kind = "UEs" /\ ~(id \in DOMAIN contents.add /\ contents.add[id].src = "gpx")
<1>1. \A k \in {"Panels", "Scenario"} : "height" \notin ViewerTable[k]
  BY DEF ViewerTable
<1>. QED
  BY <1>1 DEF Lost, Sections

LEMMA SavedIs ==
    ASSUME kind \in Sections, SectionOK(kind, contents), SceneOK(kind, scene)
    PROVE  SavedIsShown
<1> DEFINE saved == SerializeToYml(scene, contents)
           again == ApplySection(saved, FreshScene)
<1>1. /\ SectionOK(kind, saved) /\ DOMAIN saved.add = Written(scene) /\ Written(scene) \subseteq DOMAIN scene
      /\ Entities(saved) \subseteq DOMAIN scene /\ (kind = "Scenario" => Entities(saved) = {0})
      /\ kind # "Scenario" => \A id \in DOMAIN saved.add : WritesEntry(id, scene[id], contents, saved.add[id])
      /\ \A id \in Entities(saved) : WritesEntity(id, scene[id], contents, Applied(saved.update, id))
  BY SerializeIs
<1> HIDE DEF saved
<1>2. /\ DOMAIN again = Entities(saved)
      /\ kind = "Scenario" => again[0].attrs = Over(Updates(saved, 0), FreshScene[0].attrs)
      /\ kind = "Scenario" => EntityOK(kind, again[0])
      /\ kind # "Scenario" => \A id \in DOMAIN again : ShowsEntry(saved, id, again[id])
  <2>1. kind = "Scenario" => SceneOK(kind, FreshScene)
    BY FreshIs
  <2>2. SceneOK(kind, again) /\ DOMAIN again = Entities(saved)
    BY <1>1, <2>1, SceneIs
  <2>3. kind = "Scenario" => EntityOK(kind, again[0])
    BY <2>2 DEF SceneOK, Numbered
  <2>. QED
    BY <1>1, <2>1, <2>3, SceneIs
<1> HIDE DEF again
<1>3. DOMAIN again = IF kind = "Scenario" THEN {0} ELSE Written(scene)
  BY <1>1, <1>2 DEF Entities
<1>4. ASSUME NEW id \in DOMAIN again, NEW key \in ViewerTable[kind] \ Lost(id)
      PROVE  again[id].attrs[key] = SavedValue(key, scene[id].attrs[key])
  <2>1. PICK written, e : written = Applied(saved.update, id) /\ e = scene[id]
    OBVIOUS
  <2>2. WritesEntity(id, e, contents, written) /\ EntityOK(kind, e)
    BY <1>1, <1>2, <2>1 DEF SceneOK
  <2>3. /\ DOMAIN Updates(saved, id) = DOMAIN written \cap ViewerTable[kind]
        /\ \A k \in DOMAIN Updates(saved, id) : Updates(saved, id)[k] = Shown(k, written[k])
    BY <2>1, UpdatesIs
  <2>4. /\ key \in DOMAIN written => \/ Shown(key, written[key]) = SavedValue(key, e.attrs[key])
                                     \/ kind = "UEs" /\ key = "waypoint_speed" /\ id \in DOMAIN contents.add /\ contents.add[id].src = "gpx"
        /\ key \notin DOMAIN written =>
              /\ kind \in {"RUs", "UEs", "Scenario"} /\ SavedValue(key, e.attrs[key]) = e.attrs[key]
              /\ kind = "UEs" => key = "waypoint_speed"
              /\ kind # "UEs" => e.attrs[key] = Default[key]
              /\ key # "aerial_gnb_cell_id"
    BY <2>2, SavedAttribute
  <2>5. ~(kind = "UEs" /\ key = "waypoint_speed" /\ id \in DOMAIN contents.add /\ contents.add[id].src = "gpx")
    BY DEF Lost
  <2>6. key \in DOMAIN written => Shown(key, written[key]) = SavedValue(key, e.attrs[key])
    BY <2>4, <2>5
  <2>7. CASE kind = "Scenario"
    <3>1. id = 0 /\ key \in ViewerTable.Scenario
      BY <1>3, <2>7
    <3>2. again[0].attrs[key] = IF key \in DOMAIN Updates(saved, 0) THEN Updates(saved, 0)[key] ELSE Default[key]
      <4>1. PICK u, f : u = Updates(saved, 0) /\ f = FreshScene[0].attrs
        OBVIOUS
      <4>2. again[0].attrs = Over(u, f) /\ key \in DOMAIN again[0].attrs
        BY <1>2, <2>7, <3>1, <4>1 DEF EntityOK
      <4>3. f[key] = Default[key]
        BY <2>7, <3>1, <4>1, FreshIs
      <4>. QED
        BY <4>1, <4>2, <4>3 DEF Over
    <3>. QED
      BY <2>1, <2>3, <2>4, <2>6, <2>7, <3>1, <3>2
  <2>8. CASE kind = "UEs" /\ key = "waypoint_speed"
    <3>1. ShowsEntry(saved, id, again[id]) /\ WritesEntry(id, e, contents, saved.add[id])
      BY <1>1, <1>2, <1>3, <2>1, <2>8
    <3>2. saved.add[id].speed = e.attrs[key] /\ SavedValue(key, e.attrs[key]) = e.attrs[key]
      BY <2>5, <2>8, <3>1 DEF WritesEntry, SavedValue
    <3>3. again[id].attrs[key]
             = IF key \in DOMAIN Updates(saved, id) /\ ~Fixed(saved, id, key) THEN Updates(saved, id)[key] ELSE saved.add[id].speed
      BY <2>8, <3>1 DEF ShowsEntry, Before
    <3>. QED
      BY <2>1, <2>3, <2>6, <3>2, <3>3
  <2>9. CASE kind # "Scenario" /\ ~(kind = "UEs" /\ key = "waypoint_speed")
    <3>1. ShowsEntry(saved, id, again[id])
      BY <1>2, <2>9
    <3>2. key # "waypoint_speed"
      BY <2>9 DEF ViewerTable, Sections
    <3>3. key \notin DOMAIN written => key # "aerial_gnb_cell_id" /\ e.attrs[key] = Default[key] /\ SavedValue(key, e.attrs[key]) = e.attrs[key]
      BY <2>4, <2>9
    <3>4. again[id].attrs[key] = IF key \in DOMAIN Updates(saved, id) THEN Updates(saved, id)[key] ELSE Before(saved, id, key)
      BY <3>1, <3>2 DEF ShowsEntry, Fixed
    <3>. QED
      BY <2>1, <2>3, <2>6, <3>2, <3>3, <3>4 DEF Before
  <2>. QED
    BY <2>7, <2>8, <2>9
<1>5. ASSUME NEW id \in DOMAIN again, "place" \notin Lost(id)
      PROVE  again[id].place = IF "height" \in Lost(id) THEN Flattened(scene[id].place) ELSE scene[id].place
  <2>1. EntityOK(kind, scene[id])
    BY <1>1, <1>2 DEF SceneOK
  <2>h. "height" \in Lost(id) <=>
           \/ kind \in {"DUs", "RUs"} /\ ~Unmoved(id, scene[id].place, contents)
           \/ kind = "UEs" /\ ~(id \in DOMAIN contents.add /\ contents.add[id].src = "gpx")
    BY HeightLost
  <2>2. CASE kind = "Scenario"
    BY <1>2, <1>3, <2>1, <2>2, <2>h DEF EntityOK
  <2>3. CASE kind # "Scenario"
    <3>1. ShowsEntry(saved, id, again[id]) /\ WritesEntry(id, scene[id], contents, saved.add[id])
      BY <1>1, <1>2, <1>3, <2>3
    <3>2. CASE kind = "Panels"
      BY <2>1, <2>h, <3>1, <3>2 DEF ShowsEntry, EntityOK
    <3>3. CASE kind \in {"DUs", "RUs"}
      BY <2>h, <3>1, <3>3 DEF ShowsEntry, WritesEntry
    <3>4. CASE kind = "UEs"
      <4>1. ~(id \in DOMAIN contents.add /\ contents.add[id].src = "gpx")
        BY <1>5, <3>4 DEF Lost
      <4>. QED
        BY <2>h, <3>1, <3>4, <4>1 DEF ShowsEntry, WritesEntry
    <3>. QED
      BY <2>3, <3>2, <3>3, <3>4 DEF Sections
  <2>. QED
    BY <2>2, <2>3
<1>. QED
  BY <1>3, <1>4, <1>5 DEF SavedIsShown, SavedValue, saved, again

-----------------------------------------------------------------------------
(* The client reads what the viewer shows.                                    *)

\* The value the client has, in the unit of the viewer.
ReadValue(key, v) == IF key = "aerial_du_subcarrier_spacing" THEN v * 1000 ELSE InViewer(key, v)

LEMMA InitialIsDefault ==
    ASSUME NEW key \in {"sim_is_full", "sim_duration", "sim_num_procedural_ues"}
    PROVE  ReadValue(key, Initial[key]) = Default[key]
  BY DEF ReadValue, Initial, Default, InViewer

\* A value that was written means the same to both.
LEMMA BothRead ==
    ASSUME NEW id, NEW e, EntityOK(kind, e), NEW written, WritesEntity(id, e, contents, written),
           NEW key \in DOMAIN written \cap ViewerTable[kind]
    PROVE  ReadValue(key, written[key]) = Shown(key, written[key])
<1>1. PICK v : v = written[key]
  OBVIOUS
<1>2. CASE key = "aerial_du_subcarrier_spacing"
  <2>1. v \in {15, 30}
    BY <1>1, <1>2 DEF WritesEntity, FileUnits, Converted, Values
  <2>. QED
    BY <1>1, <1>2, <2>1 DEF ReadValue, Shown, InViewer, SubcarrierSpacingHz
<1>3. CASE key = "aerial_gnb_radiated_power"
  <2>1. v = InFile(key, e.attrs[key])
    BY <1>1, <1>3 DEF WritesEntity, Keeps
  <2>2. v = RadiatedPowerDbm(e.attrs[key])
    BY <1>3, <2>1 DEF InFile
  <2>3. RadiatedPowerDbm(v) = v
    BY <2>2 DEF RadiatedPowerDbm
  <2>. QED
    BY <1>1, <1>3, <2>3 DEF ReadValue, Shown, InViewer
<1>4. CASE key \notin {"aerial_du_subcarrier_spacing", "aerial_gnb_radiated_power"}
  BY <1>1, <1>4 DEF ReadValue, Shown
<1>. QED
  BY <1>2, <1>3, <1>4

LEMMA ReadsIs ==
    ASSUME kind \in Sections, SectionOK(kind, contents), SceneOK(kind, scene)
    PROVE  ClientReadsSaved
<1> DEFINE saved == SerializeToYml(scene, contents)
           shown == ApplySection(saved, FreshScene)
           read == FromYaml(saved).prims
<1>1. /\ SectionOK(kind, saved) /\ DOMAIN saved.add = Written(scene) /\ Written(scene) \subseteq DOMAIN scene
      /\ Entities(saved) \subseteq DOMAIN scene /\ (kind = "Scenario" => Entities(saved) = {0})
      /\ kind # "Scenario" => \A id \in DOMAIN saved.add : WritesEntry(id, scene[id], contents, saved.add[id])
      /\ \A id \in Entities(saved) : WritesEntity(id, scene[id], contents, Applied(saved.update, id))
  BY SerializeIs
<1> HIDE DEF saved
<1>2. /\ DOMAIN shown = Entities(saved)
      /\ kind = "Scenario" => shown[0].attrs = Over(Updates(saved, 0), FreshScene[0].attrs)
      /\ kind # "Scenario" => \A id \in DOMAIN shown : ShowsEntry(saved, id, shown[id])
      /\ \A id \in DOMAIN shown : EntityOK(kind, shown[id])
  <2>1. kind = "Scenario" => SceneOK(kind, FreshScene)
    BY FreshIs
  <2>2. SceneOK(kind, shown)
    BY <1>1, <2>1, SceneIs
  <2>. QED
    BY <1>1, <2>1, <2>2, SceneIs DEF SceneOK
<1>3. /\ DOMAIN read = Entities(saved)
      /\ kind # "Scenario" =>
            \A id \in DOMAIN saved.add : read[id].place = saved.add[id].position /\ read[id].src = saved.add[id].src
      /\ \A id \in DOMAIN read : read[id].attrs = IF FromFile(read[id]) THEN Start ELSE Known(saved, id)
  BY <1>1, FromYamlIs
<1> HIDE DEF shown, read
<1>4. ASSUME NEW id \in DOMAIN read, read[id].src # "file", NEW key \in Table[kind] \cap ViewerTable[kind]
      PROVE  ReadValue(key, read[id].attrs[key]) = shown[id].attrs[key]
  <2>1. PICK written, e : written = Applied(saved.update, id) /\ e = scene[id]
    OBVIOUS
  <2>2. WritesEntity(id, e, contents, written) /\ EntityOK(kind, e)
    BY <1>1, <1>3, <2>1 DEF SceneOK
  <2>3. /\ DOMAIN Updates(saved, id) = DOMAIN written \cap ViewerTable[kind]
        /\ \A k \in DOMAIN Updates(saved, id) : Updates(saved, id)[k] = Shown(k, written[k])
    BY <2>1, UpdatesIs
  <2>4. read[id].attrs[key] = IF key \in DOMAIN written THEN written[key] ELSE Initial[key]
    <3>1. read[id].attrs = Over(Only(written, Table[kind]), Start)
      BY <1>3, <1>4, <2>1 DEF FromFile, Known
    <3>2. key \in DOMAIN Start /\ Start[key] = Initial[key]
      BY StartIs
    <3>3. PICK o, st : o = Only(written, Table[kind]) /\ st = Start
      OBVIOUS
    <3>4. (key \in DOMAIN o <=> key \in DOMAIN written) /\ (key \in DOMAIN o => o[key] = written[key])
      BY <3>3 DEF Only, Restrict
    <3>. QED
      BY <3>1, <3>2, <3>3, <3>4 DEF Over
  <2>5. shown[id].attrs[key] = IF key \in DOMAIN written THEN Shown(key, written[key]) ELSE Default[key]
    <3>1. CASE kind = "Scenario"
      <4>1. id = 0 /\ key \in ViewerTable.Scenario
        BY <1>1, <1>3, <3>1
      <4>2. PICK u, f : u = Updates(saved, 0) /\ f = FreshScene[0].attrs
        OBVIOUS
      <4>3. shown[0].attrs = Over(u, f) /\ key \in DOMAIN shown[0].attrs
        BY <1>2, <1>3, <3>1, <4>1, <4>2 DEF EntityOK
      <4>4. f[key] = Default[key]
        BY <3>1, <4>1, <4>2, FreshIs
      <4>. QED
        BY <2>3, <4>1, <4>2, <4>3, <4>4 DEF Over
    <3>2. CASE kind # "Scenario"
      <4>1. key # "waypoint_speed" /\ key # "aerial_gnb_cell_id"
        BY DEF Table, PanelTable, DuTable, RuTable, UeTable, ScenarioTable, Sections
      <4>2. ShowsEntry(saved, id, shown[id])
        BY <1>2, <1>3, <3>2
      <4>. QED
        BY <2>3, <4>1, <4>2 DEF ShowsEntry, Before, Fixed
    <3>. QED
      BY <3>1, <3>2
  <2>6. CASE key \in DOMAIN written
    BY <2>2, <2>4, <2>5, <2>6, BothRead
  <2>7. CASE key \notin DOMAIN written
    <3>1. NotWritten(id, e, contents, key)
      BY <2>2, <2>7 DEF WritesEntity
    <3>2. kind # "Panels"
      <4> SUFFICES ASSUME kind = "Panels" PROVE FALSE
        OBVIOUS
      <4>1. id \in DOMAIN contents.add /\ contents.add[id].src = "file"
        BY <3>1 DEF NotWritten
      <4>2. id \in DOMAIN saved.add
        BY <1>3 DEF Entities
      <4>3. saved.add[id].src = "file"
        BY <1>1, <4>1, <4>2 DEF WritesEntry
      <4>. QED
        BY <1>3, <1>4, <4>2, <4>3
    <3>3. kind # "DUs"
      BY <3>1 DEF NotWritten
    <3>4. kind # "RUs"
      <4> SUFFICES ASSUME kind = "RUs" PROVE FALSE
        OBVIOUS
      <4>1. key = "aerial_gnb_cell_id" \/ key = "aerial_gnb_enable_rays"
        BY <3>1 DEF NotWritten
      <4>2. key \in RuTable
        BY DEF Table
      <4>. QED
        BY <4>1, <4>2 DEF RuTable
    <3>5. kind # "UEs"
      <4> SUFFICES ASSUME kind = "UEs" PROVE FALSE
        OBVIOUS
      <4>1. key = "waypoint_speed"
        BY <3>1 DEF NotWritten
      <4>2. key \in UeTable
        BY DEF Table
      <4>. QED
        BY <4>1, <4>2 DEF UeTable
    <3>6. key \in {"sim_is_full", "sim_duration", "sim_num_procedural_ues"}
      BY <3>2, <3>3, <3>4, <3>5 DEF ViewerTable, Sections
    <3>. QED
      BY <2>4, <2>5, <2>7, <3>6, InitialIsDefault
  <2>. QED
    BY <2>6, <2>7
<1>5. ASSUME NEW id \in DOMAIN read, kind # "Scenario", saved.add[id].pos = NoPlace
      PROVE  read[id].place = shown[id].place
  <2>1. id \in DOMAIN saved.add
    BY <1>3, <1>5 DEF Entities
  <2>2. /\ read[id].place = saved.add[id].position /\ ShowsEntry(saved, id, shown[id])
        /\ WritesEntry(id, scene[id], contents, saved.add[id])
    BY <1>1, <1>2, <1>3, <1>5, <2>1
  <2>3. CASE kind = "Panels"
    BY <2>2, <2>3 DEF ShowsEntry, WritesEntry, EntryOK, PlaceOK
  <2>4. CASE kind \in {"DUs", "RUs"}
    BY <1>5, <2>2, <2>4 DEF ShowsEntry, WritesEntry
  <2>5. CASE kind = "UEs"
    BY <2>2, <2>5 DEF ShowsEntry
  <2>. QED
    BY <1>5, <2>3, <2>4, <2>5 DEF Sections
<1>6. DOMAIN read = DOMAIN shown
  BY <1>2, <1>3
<1>. QED
  BY <1>4, <1>5, <1>6 DEF ClientReadsSaved, ReadValue, saved, shown, read

-----------------------------------------------------------------------------
(* The invariant of the two sides and the file, and the client's steps.       *)

SectionsInv ==
    /\ kind \in Section
    /\ ConfigOK(kind, config)
    /\ SectionOK(kind, contents)
    /\ SceneOK(kind, scene)
    /\ NotShadowed(kind, config, imported)

LEMMA NewPrimIs ==
    ASSUME kind \in Sections, NEW place, NEW src, NEW speed, NEW p, p = NewPrim(place, src, speed)
    PROVE  /\ IsPrim(p) /\ DOMAIN p.attrs = Table[kind] /\ FileUnits(p.attrs) /\ p.place = place /\ p.src = src
           /\ PlaceOK(kind, place) => PrimOK(kind, p)
<1>1. PICK st : st = Start
  OBVIOUS
<1>2. IsAttrs(st) /\ DOMAIN st = Table[kind] /\ FileUnits(st)
  BY <1>1, StartIs, StartUnits
<1>3. p = [attrs |-> st, place |-> place, src |-> src, speed |-> speed]
  BY <1>1 DEF NewPrim, Start
<1>4. p.attrs = st /\ p.place = place /\ p.src = src /\ p.speed = speed
  BY <1>3
<1>5. IsPrim(p)
  BY <1>2, <1>3, <1>4 DEF IsPrim
<1>. QED
  BY <1>2, <1>4, <1>5 DEF PrimOK

\* With another field.
LEMMA FieldIs ==
    ASSUME NEW k, NEW p, PrimOK(k, p), NEW key, NEW v, key \in Converted => v \in Values(key),
           NEW q, q = [p EXCEPT !.attrs[key] = v]
    PROVE  PrimOK(k, q) /\ q.src = p.src
<1>1. PICK a, place, src, speed : a = p.attrs /\ place = p.place /\ src = p.src /\ speed = p.speed
  OBVIOUS
<1>2. p = [attrs |-> a, place |-> place, src |-> src, speed |-> speed] /\ IsAttrs(a)
  BY <1>1 DEF PrimOK, IsPrim
<1>3. PICK b : b = [a EXCEPT ![key] = v]
  OBVIOUS
<1>4. DOMAIN b = DOMAIN a /\ \A x \in DOMAIN a : b[x] = IF x = key THEN v ELSE a[x]
  BY <1>3
<1>5. b = [x \in DOMAIN a |-> IF x = key THEN v ELSE a[x]]
  BY <1>3
<1>6. IsAttrs(b)
  BY <1>4, <1>5 DEF IsAttrs
<1>7. FileUnits(b)
  BY <1>1, <1>4 DEF PrimOK, FileUnits
<1>8. q = [attrs |-> b, place |-> place, src |-> src, speed |-> speed]
  BY <1>2, <1>3
<1>9. q.attrs = b /\ q.place = place /\ q.src = src /\ q.speed = speed
  BY <1>8
<1>10. PrimOK(k, q)
  BY <1>1, <1>4, <1>6, <1>7, <1>8, <1>9 DEF PrimOK, IsPrim
<1>. QED
  BY <1>1, <1>9, <1>10

\* Other primitives of the right kind leave a configuration, and the groups as they are.
LEMMA PrimsIs ==
    ASSUME NEW k, NEW c, ConfigOK(k, c), NEW prims, Numbered(k, DOMAIN prims), \A id \in DOMAIN prims : PrimOK(k, prims[id]),
           NEW n, NEW d, d = [prims |-> prims, groups |-> c.groups, next |-> n]
    PROVE  ConfigOK(k, d) /\ d.prims = prims /\ d.groups = c.groups
<1>1. d.prims = prims /\ d.groups = c.groups /\ d.next = n
  OBVIOUS
<1>. QED
  BY <1>1 DEF ConfigOK

\* The groups of the import are still the first, and the panels it found are still there.
LEMMA StillNotShadowed ==
    ASSUME NEW k, NEW c, NEW d, NEW imp, NotShadowed(k, c, imp), d.groups = c.groups,
           k = "Panels" => \A id \in DOMAIN c.prims : id \in DOMAIN d.prims /\ d.prims[id].src = c.prims[id].src
    PROVE  NotShadowed(k, d, imp)
  BY DEF NotShadowed

LEMMA OneMore ==
    ASSUME NEW k, NEW c, ConfigOK(k, c), NEW id \in Id, k # "Scenario", NEW p, PrimOK(k, p)
    PROVE  LET prims == Over(c.prims, One(id, p))
           IN  /\ Numbered(k, DOMAIN prims) /\ \A i \in DOMAIN prims : PrimOK(k, prims[i])
               /\ \A i \in DOMAIN c.prims : i \in DOMAIN prims /\ prims[i] = c.prims[i]
<1>1. PICK ps, o : ps = c.prims /\ o = One(id, p)
  OBVIOUS
<1>2. DOMAIN o = {id} /\ o[id] = p
  BY <1>1 DEF One
<1>3. PICK prims : prims = Over(ps, o)
  OBVIOUS
<1>4. /\ DOMAIN prims = DOMAIN ps \cup {id}
      /\ \A i \in DOMAIN prims : prims[i] = IF i \in DOMAIN ps THEN ps[i] ELSE p
  BY <1>2, <1>3 DEF Over
<1>5. Numbered(k, DOMAIN prims)
  <2>1. id \in Nat \ {0} /\ DOMAIN ps \subseteq Nat \ {0} /\ IsFiniteSet(DOMAIN ps)
    BY <1>1, IdAssumption DEF ConfigOK, Numbered
  <2>. QED
    BY <1>4, <2>1, FS_AddElement DEF Numbered
<1>6. \A i \in DOMAIN ps : PrimOK(k, ps[i])
  BY <1>1 DEF ConfigOK
<1>. QED
  BY <1>1, <1>3, <1>4, <1>5, <1>6

\* A client step keeps the configuration, and the groups of the import apart.
ConfigKept == ConfigOK(kind, config') /\ NotShadowed(kind, config', imported)

LEMMA AddPrimKeeps ==
    ASSUME SectionsInv, kind # "Scenario", NEW id \in Id, NEW p, PrimOK(kind, p), AddPrim(id, p)
    PROVE  ConfigKept
<1>1. PICK prims : prims = Over(config.prims, One(id, p))
  OBVIOUS
<1>2. ConfigOK(kind, config) /\ NotShadowed(kind, config, imported)
  BY DEF SectionsInv
<1>3. /\ Numbered(kind, DOMAIN prims) /\ \A i \in DOMAIN prims : PrimOK(kind, prims[i])
      /\ \A i \in DOMAIN config.prims : i \in DOMAIN prims /\ prims[i] = config.prims[i]
  BY <1>1, <1>2, OneMore
<1>4. PICK d : d = config'
  OBVIOUS
<1>5. d = [prims |-> prims, groups |-> config.groups, next |-> config.next]
  BY <1>1, <1>2, <1>4 DEF AddPrim, ConfigOK
<1>6. ConfigOK(kind, d) /\ d.prims = prims /\ d.groups = config.groups
  BY <1>2, <1>3, <1>5, PrimsIs
<1>7. NotShadowed(kind, d, imported)
  BY <1>2, <1>3, <1>6, StillNotShadowed
<1>. QED
  BY <1>4, <1>6, <1>7 DEF ConfigKept

LEMMA AddPanelKeeps ==
    ASSUME SectionsInv, NEW p, PrimOK(kind, p), AddPanel(p)
    PROVE  ConfigKept
<1>1. PICK prims : prims = IF SameFrequency(p) THEN Over(config.prims, One(config.next, p)) ELSE config.prims
  OBVIOUS
<1>2. ConfigOK(kind, config) /\ NotShadowed(kind, config, imported) /\ kind = "Panels" /\ config.next \in Id
  BY DEF SectionsInv, AddPanel
<1>3. /\ Numbered(kind, DOMAIN prims) /\ \A i \in DOMAIN prims : PrimOK(kind, prims[i])
      /\ \A i \in DOMAIN config.prims : i \in DOMAIN prims /\ prims[i] = config.prims[i]
  <2>1. CASE SameFrequency(p)
    <3>1. PICK id : id = config.next
      OBVIOUS
    <3>2. prims = Over(config.prims, One(id, p)) /\ id \in Id /\ kind # "Scenario"
      BY <1>1, <1>2, <2>1, <3>1
    <3>. QED
      BY <1>2, <3>2, OneMore
  <2>2. CASE ~SameFrequency(p)
    BY <1>1, <1>2, <2>2 DEF ConfigOK
  <2>. QED
    BY <2>1, <2>2
<1>4. PICK d, n : d = config' /\ n = config.next + 1
  OBVIOUS
<1>5. d = [prims |-> prims, groups |-> config.groups, next |-> n]
  BY <1>1, <1>2, <1>4 DEF AddPanel, ConfigOK
<1>6. ConfigOK(kind, d) /\ d.prims = prims /\ d.groups = config.groups
  BY <1>2, <1>3, <1>5, PrimsIs
<1>7. NotShadowed(kind, d, imported)
  BY <1>2, <1>3, <1>6, StillNotShadowed
<1>. QED
  BY <1>4, <1>6, <1>7 DEF ConfigKept

\* Another value of a field of one primitive.
LEMMA OneField ==
    ASSUME NEW k, NEW c, ConfigOK(k, c), NEW id \in DOMAIN c.prims, NEW q, PrimOK(k, q), q.src = c.prims[id].src,
           NEW d, d = [c EXCEPT !.prims = [c.prims EXCEPT ![id] = q]]
    PROVE  /\ ConfigOK(k, d) /\ d.groups = c.groups
           /\ \A i \in DOMAIN c.prims : i \in DOMAIN d.prims /\ d.prims[i].src = c.prims[i].src
<1>1. PICK ps, prims : ps = c.prims /\ prims = [ps EXCEPT ![id] = q]
  OBVIOUS
<1>2. DOMAIN prims = DOMAIN ps /\ \A i \in DOMAIN ps : prims[i] = IF i = id THEN q ELSE ps[i]
  BY <1>1
<1>3. Numbered(k, DOMAIN prims) /\ \A i \in DOMAIN prims : PrimOK(k, prims[i])
  BY <1>1, <1>2 DEF ConfigOK
<1>4. PICK n : n = c.next
  OBVIOUS
<1>5. ConfigOK(k, d) /\ d.prims = prims /\ d.groups = c.groups
  <2>1. d = [prims |-> prims, groups |-> c.groups, next |-> n] /\ ConfigOK(k, c)
    BY <1>1, <1>4 DEF ConfigOK
  <2>. QED
    BY ONLY <1>3, <2>1, PrimsIs
<1>. QED
  BY <1>1, <1>2, <1>5

LEMMA SetFieldKeeps ==
    ASSUME SectionsInv, NEW id, NEW key, NEW v \in Values(key), SetField(id, key, v)
    PROVE  ConfigKept
<1>1. ConfigOK(kind, config) /\ NotShadowed(kind, config, imported) /\ id \in DOMAIN config.prims
  BY DEF SectionsInv, SetField
<1>2. PICK p, d : p = config.prims[id] /\ d = config'
  OBVIOUS
<1>3. PICK q : q = [p EXCEPT !.attrs[key] = v]
  OBVIOUS
<1>4. PrimOK(kind, q) /\ q.src = p.src
  <2>1. PrimOK(kind, p)
    BY <1>1, <1>2 DEF ConfigOK
  <2>. QED
    BY <1>2, <1>3, <2>1, FieldIs
<1>5. d = [config EXCEPT !.prims = [config.prims EXCEPT ![id] = q]]
  BY <1>2, <1>3 DEF SetField
<1>. QED
  BY <1>1, <1>2, <1>4, <1>5, OneField, StillNotShadowed DEF ConfigKept

LEMMA SetTimelineKeeps ==
    ASSUME SectionsInv, NEW mode, NEW duration, SetTimeline(mode, duration)
    PROVE  ConfigKept
<1>1. ConfigOK(kind, config) /\ NotShadowed(kind, config, imported) /\ 0 \in DOMAIN config.prims
  BY DEF SectionsInv, SetTimeline, ConfigOK, Numbered
<1>2. PICK c, p, d, v : c = config /\ p = config.prims[0] /\ d = config' /\ v = IF mode = 0 THEN duration ELSE 0
  OBVIOUS
<1>3. PICK q : q = [p EXCEPT !.attrs["sim_simulation_mode"] = mode]
  OBVIOUS
<1>4. PICK r : r = [q EXCEPT !.attrs["sim_duration"] = v]
  OBVIOUS
<1>5. PrimOK(kind, q) /\ q.src = p.src
  <2>1. PrimOK(kind, p)
    BY <1>1, <1>2 DEF ConfigOK
  <2>. QED
    BY <1>3, <2>1, FieldIs DEF Converted
<1>6. PrimOK(kind, r) /\ r.src = p.src
  BY <1>4, <1>5, FieldIs DEF Converted
<1>7. PICK b : b = [c EXCEPT !.prims = [c.prims EXCEPT ![0] = q]]
  OBVIOUS
<1>8. ConfigOK(kind, b) /\ b.groups = c.groups
      /\ \A i \in DOMAIN c.prims : i \in DOMAIN b.prims /\ b.prims[i].src = c.prims[i].src
  BY <1>1, <1>2, <1>5, <1>7, OneField
<1>9. b.prims[0] = q /\ 0 \in DOMAIN b.prims
  <2>1. c = [prims |-> c.prims, groups |-> c.groups, next |-> c.next]
    BY <1>1, <1>2 DEF ConfigOK
  <2>2. b.prims = [c.prims EXCEPT ![0] = q]
    BY <1>7, <2>1
  <2>. QED
    BY <1>1, <1>2, <2>2
<1>10. d = [b EXCEPT !.prims = [b.prims EXCEPT ![0] = r]]
  <2>1. d = [config EXCEPT !.prims[0].attrs["sim_simulation_mode"] = mode, !.prims[0].attrs["sim_duration"] = v]
    BY <1>2 DEF SetTimeline
  <2>2. d = [b EXCEPT !.prims[0].attrs["sim_duration"] = v]
    BY <1>2, <1>3, <1>7, <2>1
  <2>. QED
    BY <1>4, <1>9, <2>2
<1>11. ConfigOK(kind, d) /\ d.groups = b.groups
       /\ \A i \in DOMAIN b.prims : i \in DOMAIN d.prims /\ d.prims[i].src = b.prims[i].src
  BY <1>6, <1>5, <1>8, <1>9, <1>10, OneField
<1>. QED
  BY <1>1, <1>2, <1>8, <1>11, StillNotShadowed DEF ConfigKept

LEMMA SetNumProceduralUEsKeeps ==
    ASSUME SectionsInv, NEW n \in Values("sim_num_procedural_ues"), SetNumProceduralUEs(n)
    PROVE  ConfigKept
<1>1. ConfigOK(kind, config) /\ NotShadowed(kind, config, imported) /\ 0 \in DOMAIN config.prims
  BY DEF SectionsInv, SetNumProceduralUEs, ConfigOK, Numbered
<1>2. PICK p, d, key : p = config.prims[0] /\ d = config' /\ key = "sim_num_procedural_ues"
  OBVIOUS
<1>3. PICK q : q = [p EXCEPT !.attrs[key] = n]
  OBVIOUS
<1>4. PrimOK(kind, q) /\ q.src = p.src
  <2>1. PrimOK(kind, p)
    BY <1>1, <1>2 DEF ConfigOK
  <2>. QED
    BY <1>2, <1>3, <2>1, FieldIs
<1>5. d = [config EXCEPT !.prims = [config.prims EXCEPT ![0] = q]]
  BY <1>2, <1>3 DEF SetNumProceduralUEs
<1>. QED
  BY <1>1, <1>2, <1>4, <1>5, OneField, StillNotShadowed DEF ConfigKept

\* One more field of the scenario.
LEMMA ScenarioField ==
    ASSUME NEW k, NEW c, ConfigOK(k, c), 0 \in DOMAIN c.prims, NEW imp, NotShadowed(k, c, imp),
           NEW key, NEW v, key \in Converted => v \in Values(key), NEW d, d = [c EXCEPT !.prims[0].attrs[key] = v]
    PROVE  ConfigOK(k, d) /\ 0 \in DOMAIN d.prims /\ NotShadowed(k, d, imp)
<1>1. PICK p : p = c.prims[0]
  OBVIOUS
<1>2. PICK q : q = [p EXCEPT !.attrs[key] = v]
  OBVIOUS
<1>3. PrimOK(k, p)
  BY <1>1 DEF ConfigOK
<1>4. PrimOK(k, q) /\ q.src = p.src
  BY ONLY <1>2, <1>3, key \in Converted => v \in Values(key), FieldIs
<1>5. d = [c EXCEPT !.prims = [c.prims EXCEPT ![0] = q]]
  BY <1>1, <1>2
<1>6. /\ ConfigOK(k, d) /\ d.groups = c.groups
      /\ \A i \in DOMAIN c.prims : i \in DOMAIN d.prims /\ d.prims[i].src = c.prims[i].src
  BY <1>1, <1>4, <1>5, OneField
<1>. QED
  BY <1>6, StillNotShadowed

LEMMA SetPercIndoorProceduralUEsKeeps ==
    ASSUME SectionsInv, NEW perc, SetPercIndoorProceduralUEs(perc)
    PROVE  ConfigKept
<1>1. ConfigOK(kind, config) /\ NotShadowed(kind, config, imported) /\ 0 \in DOMAIN config.prims
  BY DEF SectionsInv, SetPercIndoorProceduralUEs, ConfigOK, Numbered
<1>2. PICK d, key : d = config' /\ key = "sim_perc_indoor_procedural_ues"
  OBVIOUS
<1>3. d = [config EXCEPT !.prims[0].attrs[key] = perc] /\ key \notin Converted
  BY <1>2 DEF SetPercIndoorProceduralUEs, Converted
<1>. QED
  BY <1>1, <1>2, <1>3, ScenarioField DEF ConfigKept

LEMMA SetSeedKeeps ==
    ASSUME SectionsInv, NEW seed, SetSeed(seed)
    PROVE  ConfigKept
<1>1. ConfigOK(kind, config) /\ NotShadowed(kind, config, imported) /\ 0 \in DOMAIN config.prims
  BY DEF SectionsInv, SetSeed, ConfigOK, Numbered
<1>2. PICK first, second : first = "sim_seed" /\ second = "sim_is_seeded"
  OBVIOUS
<1>3. first \notin Converted /\ (second \in Converted => 1 \in Values(second))
  BY <1>2 DEF Converted, Values
<1>4. PICK c : c = [config EXCEPT !.prims[0].attrs[first] = seed]
  OBVIOUS
<1>5. ConfigOK(kind, c) /\ 0 \in DOMAIN c.prims /\ NotShadowed(kind, c, imported)
  BY <1>1, <1>3, <1>4, ScenarioField
<1>6. PICK d : d = [c EXCEPT !.prims[0].attrs[second] = 1]
  OBVIOUS
<1>7. config' = d
  BY <1>2, <1>4, <1>6 DEF SetSeed
<1>8. ConfigOK(kind, d) /\ NotShadowed(kind, d, imported)
  BY <1>3, <1>5, <1>6, ScenarioField
<1>. QED
  BY <1>7, <1>8 DEF ConfigKept

LEMMA EnableUrbanMobilityKeeps ==
    ASSUME SectionsInv, NEW vehicles, EnableUrbanMobility(vehicles)
    PROVE  ConfigKept
<1>1. ConfigOK(kind, config) /\ NotShadowed(kind, config, imported) /\ 0 \in DOMAIN config.prims
  BY DEF SectionsInv, EnableUrbanMobility, ConfigOK, Numbered
<1>2. PICK on : on = IF vehicles > 0 THEN 1 ELSE 0
  OBVIOUS
<1>3. PICK first, second, third : /\ first = "um_num_vehicles" /\ second = "um_enable_urban_mobility"
                                 /\ third = "sim_enable_dynamic_scattering"
  OBVIOUS
<1>4. first \notin Converted /\ (second \in Converted => on \in Values(second)) /\ third \notin Converted
  BY <1>2, <1>3 DEF Converted, Values
<1>5. PICK b : b = [config EXCEPT !.prims[0].attrs[first] = vehicles]
  OBVIOUS
<1>6. ConfigOK(kind, b) /\ 0 \in DOMAIN b.prims /\ NotShadowed(kind, b, imported)
  BY <1>1, <1>4, <1>5, ScenarioField
<1>7. PICK c : c = [b EXCEPT !.prims[0].attrs[second] = on]
  OBVIOUS
<1>8. ConfigOK(kind, c) /\ 0 \in DOMAIN c.prims /\ NotShadowed(kind, c, imported)
  BY <1>4, <1>6, <1>7, ScenarioField
<1>9. PICK d : d = [c EXCEPT !.prims[0].attrs[third] = on]
  OBVIOUS
<1>10. config' = d
  BY <1>2, <1>3, <1>5, <1>7, <1>9 DEF EnableUrbanMobility
<1>11. ConfigOK(kind, d) /\ NotShadowed(kind, d, imported)
  BY <1>4, <1>8, <1>9, ScenarioField
<1>. QED
  BY <1>10, <1>11 DEF ConfigKept

LEMMA RemoveUEKeeps ==
    ASSUME SectionsInv, NEW id, RemoveUE(id)
    PROVE  ConfigKept
<1>1. ConfigOK(kind, config) /\ NotShadowed(kind, config, imported) /\ kind = "UEs"
  BY DEF SectionsInv, RemoveUE
<1>2. PICK ps, prims, d : ps = config.prims /\ prims = Restrict(ps, DOMAIN ps \ {id}) /\ d = config'
  OBVIOUS
<1>3. DOMAIN prims \subseteq DOMAIN ps /\ \A i \in DOMAIN prims : prims[i] = ps[i]
  BY <1>2 DEF Restrict
<1>4. Numbered(kind, DOMAIN prims) /\ \A i \in DOMAIN prims : PrimOK(kind, prims[i])
  <2>1. DOMAIN ps \subseteq Nat \ {0} /\ IsFiniteSet(DOMAIN ps)
    BY <1>1, <1>2 DEF ConfigOK, Numbered
  <2>2. IsFiniteSet(DOMAIN prims)
    BY <1>3, <2>1, FS_Subset
  <2>. QED
    BY <1>1, <1>2, <1>3, <2>1, <2>2 DEF ConfigOK, Numbered
<1>5. d = [prims |-> prims, groups |-> config.groups, next |-> config.next]
  BY <1>1, <1>2 DEF RemoveUE, ConfigOK
<1>6. ConfigOK(kind, d) /\ d.groups = config.groups
  BY <1>1, <1>4, <1>5, PrimsIs
<1>. QED
  BY <1>1, <1>2, <1>6, StillNotShadowed DEF ConfigKept

LEMMA AppendIs ==
    ASSUME NEW g, ListOK(g), NEW u, FileUnits(u.attrs)
    PROVE  /\ ListOK(Append(g, u)) /\ Len(Append(g, u)) = Len(g) + 1
           /\ \A n \in 0..Len(g) : SubSeq(Append(g, u), 1, n) = SubSeq(g, 1, n)
<1>1. PICK S : g \in Seq(S)
  BY DEF ListOK, IsList
<1>2. PICK T : T = S \cup {u}
  OBVIOUS
<1>3. g \in Seq(T) /\ u \in T
  BY <1>1, <1>2
<1>4. PICK a : a = Append(g, u)
  OBVIOUS
<1>5. a \in Seq(T) /\ Len(a) = Len(g) + 1 /\ Len(g) \in Nat /\ a[Len(g) + 1] = u
      /\ \A i \in 1..Len(g) : a[i] = g[i]
  BY <1>3, <1>4
<1>6. ListOK(a)
  <2>1. ASSUME NEW i \in 1..Len(a) PROVE FileUnits(a[i].attrs)
    <3>1. CASE i = Len(g) + 1
      BY <1>5, <3>1
    <3>2. CASE i # Len(g) + 1
      BY <1>5, <3>2 DEF ListOK
    <3>. QED
      BY <3>1, <3>2
  <2>. QED
    BY <1>5, <2>1 DEF ListOK, IsList
<1>7. ASSUME NEW n \in 0..Len(g) PROVE SubSeq(a, 1, n) = SubSeq(g, 1, n)
  <2>1. SubSeq(a, 1, n) = [i \in 1..n |-> a[i]] /\ SubSeq(g, 1, n) = [i \in 1..n |-> g[i]]
    BY <1>3, <1>5
  <2>2. \A i \in 1..n : a[i] = g[i]
    BY <1>5
  <2>. QED
    BY <2>1, <2>2
<1>. QED
  BY <1>4, <1>5, <1>6, <1>7

LEMMA SetAttributesKeeps ==
    ASSUME SectionsInv, NEW ids, NEW key, NEW v \in Values(key), SetAttributes(ids, key, v)
    PROVE  ConfigKept
<1>1. ConfigOK(kind, config) /\ NotShadowed(kind, config, imported)
  BY DEF SectionsInv
<1>2. PICK a : a = One(key, v)
  OBVIOUS
<1>3. FileUnits(a)
  BY <1>2 DEF One, FileUnits
<1>4. PICK u : u = [ids |-> ids, attrs |-> a]
  OBVIOUS
<1>5. PICK c, d, g : c = config /\ d = config' /\ g = Append(config.groups, u)
  OBVIOUS
<1>6. /\ ListOK(g) /\ Len(g) = Len(c.groups) + 1 /\ Len(c.groups) \in Nat
      /\ \A n \in 0..Len(c.groups) : SubSeq(g, 1, n) = SubSeq(c.groups, 1, n)
  <2>1. FileUnits(u.attrs) /\ ListOK(c.groups)
    BY <1>1, <1>3, <1>4, <1>5 DEF ConfigOK
  <2>. QED
    BY <1>5, <2>1, AppendIs, ListIs DEF ListOK
<1>7. d = [c EXCEPT !.groups = g]
  BY <1>2, <1>4, <1>5 DEF SetAttributes
<1>8. d = [prims |-> c.prims, groups |-> g, next |-> c.next]
  BY <1>1, <1>5, <1>7 DEF ConfigOK
<1>9. d.prims = c.prims /\ d.groups = g /\ d.next = c.next
  BY <1>8
<1>10. ConfigOK(kind, d)
  BY <1>1, <1>5, <1>6, <1>8, <1>9 DEF ConfigOK
<1>11. NotShadowed(kind, d, imported)
  <2>1. imported.groups \in 0..Len(c.groups)
    BY <1>1, <1>5 DEF NotShadowed
  <2>2. SubSeq(d.groups, 1, imported.groups) = SubSeq(c.groups, 1, imported.groups) /\ imported.groups \in 0..Len(d.groups)
    BY <1>6, <1>9, <2>1
  <2>. QED
    BY <1>1, <1>5, <1>9, <2>2 DEF NotShadowed
<1>. QED
  BY <1>5, <1>10, <1>11 DEF ConfigKept

LEMMA ClientEditKeeps ==
    ASSUME SectionsInv, ClientEdit
    PROVE  ConfigKept
<1>k. kind \in Sections
  BY SectionAssumption DEF SectionsInv, Sections
<1>1. ASSUME NEW src, NEW f \in Values("reference_freq_mhz"), NEW p,
             p = [NewPrim(NoPlace, src, 0) EXCEPT !.attrs["reference_freq_mhz"] = f]
      PROVE  PrimOK(kind, p)
  <2>1. PICK n, key : n = NewPrim(NoPlace, src, 0) /\ key = "reference_freq_mhz"
    OBVIOUS
  <2>2. PrimOK(kind, n)
    BY <1>k, <2>1, NewPrimIs DEF PlaceOK
  <2>. QED
    BY <1>1, <2>1, <2>2, FieldIs
<1>2. ASSUME NEW src, NEW f \in Values("reference_freq_mhz"), NEW p,
             p = [NewPrim(NoPlace, src, 0) EXCEPT !.attrs["reference_freq_mhz"] = f],
             AddPanel(p) \/ \E id \in Id : SetDefaultPanel(id, p)
      PROVE  ConfigKept
  <2>1. PrimOK(kind, p)
    BY <1>1, <1>2
  <2>2. ASSUME NEW id \in Id, SetDefaultPanel(id, p) PROVE ConfigKept
    BY <2>1, <2>2, AddPrimKeeps DEF SetDefaultPanel
  <2>. QED
    BY <1>2, <2>1, <2>2, AddPanelKeeps
<1>3. ASSUME NEW id \in Id, NEW place \in Place \cup {NoPlace}, AddDU(id, place) \/ AddRU(id, place)
      PROVE  ConfigKept
  <2>1. PICK p : p = NewPrim(place, "", 0)
    OBVIOUS
  <2>2. kind \in {"DUs", "RUs"} /\ AddPrim(id, p)
    BY <1>3, <2>1 DEF AddDU, AddRU
  <2>3. PrimOK(kind, p)
    BY <1>k, <2>1, <2>2, NewPrimIs DEF PlaceOK
  <2>. QED
    BY <2>2, <2>3, AddPrimKeeps
<1>4. ASSUME NEW id \in Id, NEW place, AddUE(id, place) PROVE ConfigKept
  <2>1. PICK p : p = NewPrim(place, "waypoints", 1)
    OBVIOUS
  <2>2. kind = "UEs" /\ AddPrim(id, p)
    BY <1>4, <2>1 DEF AddUE
  <2>3. PrimOK(kind, p)
    BY <1>k, <2>1, <2>2, NewPrimIs DEF PlaceOK
  <2>. QED
    BY <2>2, <2>3, AddPrimKeeps
<1>5. ASSUME NEW id \in Id, AddUEsFromGPX(id) PROVE ConfigKept
  <2>1. PICK p : p = NewPrim(NoPlace, "gpx", 0)
    OBVIOUS
  <2>2. kind = "UEs" /\ AddPrim(id, p)
    BY <1>5, <2>1 DEF AddUEsFromGPX
  <2>3. PrimOK(kind, p)
    BY <1>k, <2>1, <2>2, NewPrimIs DEF PlaceOK
  <2>. QED
    BY <2>2, <2>3, AddPrimKeeps
<1>. QED
  BY <1>2, <1>3, <1>4, <1>5, RemoveUEKeeps, SetFieldKeeps, SetTimelineKeeps, SetNumProceduralUEsKeeps, SetAttributesKeeps,
     SetPercIndoorProceduralUEsKeeps, SetSeedKeeps, EnableUrbanMobilityKeeps DEF ClientEdit

-----------------------------------------------------------------------------
(* Import, and the viewer's steps.                                            *)

LEMMA WholeIs ==
    ASSUME NEW g, IsList(g)
    PROVE  SubSeq(g, 1, Len(g)) = g
  BY DEF IsList

LEMMA ImportKeeps ==
    ASSUME SectionsInv, ImportFile
    PROVE  ConfigOK(kind, config') /\ NotShadowed(kind, config', imported')
<1>1. kind \in Sections /\ SectionOK(kind, contents)
  BY SectionAssumption DEF SectionsInv, Sections
<1>2. PICK c, imp : c = FromYaml(contents) /\ imp = [ids |-> DOMAIN c.prims, groups |-> Len(c.groups)]
  OBVIOUS
<1>3. /\ ConfigOK(kind, c)
      /\ \A id \in DOMAIN c.prims :
            Applied(c.groups, id) = Without(Applied(contents.update, id), IF FromFile(c.prims[id]) THEN {} ELSE Table[kind])
      /\ kind # "Panels" => \A id : Applied(c.groups, id) = Without(Applied(contents.update, id), Table[kind])
  BY <1>1, <1>2, FromYamlIs
<1>4. imp.ids = DOMAIN c.prims /\ imp.groups = Len(c.groups)
  BY <1>2
<1>5. PICK old : old = SubSeq(c.groups, 1, imp.groups)
  OBVIOUS
<1>o. old = c.groups /\ imp.groups \in 0..Len(c.groups)
  <2>1. IsList(c.groups) /\ Len(c.groups) \in Nat
    BY <1>3, ListIs DEF ConfigOK, ListOK
  <2>. QED
    BY <1>4, <1>5, <2>1, WholeIs
<1>6. ASSUME NEW id, kind = "Panels" => id \in imp.ids /\ c.prims[id].src # "file"
      PROVE  DOMAIN Applied(old, id) \cap Table[kind] = {}
  <2>1. PICK a, b : a = Applied(contents.update, id) /\ b = Applied(old, id)
    OBVIOUS
  <2>2. b = Without(a, Table[kind])
    BY <1>3, <1>4, <1>6, <1>o, <2>1 DEF FromFile
  <2>3. DOMAIN b = DOMAIN a \ Table[kind]
    BY <2>2, WithoutIs
  <2>. QED
    BY <2>1, <2>3
<1>7. NotShadowed(kind, c, imp)
  BY <1>4, <1>5, <1>6, <1>o DEF NotShadowed
<1>8. config' = c /\ imported' = imp
  BY <1>2 DEF ImportFile
<1>. QED
  BY <1>3, <1>7, <1>8

\* Another entity for one of them.
LEMMA OneEntity ==
    ASSUME NEW k, NEW v, SceneOK(k, v), NEW id \in DOMAIN v, NEW e, EntityOK(k, e)
    PROVE  SceneOK(k, [v EXCEPT ![id] = e])
<1>1. PICK w : w = [v EXCEPT ![id] = e]
  OBVIOUS
<1>2. DOMAIN w = DOMAIN v /\ \A i \in DOMAIN v : w[i] = IF i = id THEN e ELSE v[i]
  BY <1>1
<1>. QED
  BY <1>1, <1>2 DEF SceneOK

LEMMA EditAttributeKeeps ==
    ASSUME SectionsInv, NEW id, NEW key, NEW w \in Values(key), EditAttribute(id, key, InViewer(key, w))
    PROVE  SceneOK(kind, scene')
<1>1. SceneOK(kind, scene) /\ id \in DOMAIN scene /\ key \in ViewerTable[kind]
  BY DEF SectionsInv, EditAttribute
<1>2. PICK v, p, a : v = InViewer(key, w) /\ p = scene[id].place /\ a = scene[id].attrs
  OBVIOUS
<1>3. scene[id] = [attrs |-> a, place |-> p] /\ IsAttrs(a) /\ DOMAIN a = ViewerTable[kind] /\ ViewerUnits(a)
      /\ (kind \in {"Panels", "Scenario"} => p = NoPlace) /\ (kind \in {"DUs", "RUs"} => p \in Place)
  BY <1>1, <1>2 DEF SceneOK, EntityOK
<1>4. PICK b : b = [a EXCEPT ![key] = v]
  OBVIOUS
<1>5. b = [x \in DOMAIN a |-> IF x = key THEN v ELSE a[x]]
  BY <1>4
<1>6. DOMAIN b = DOMAIN a /\ \A x \in DOMAIN a : b[x] = IF x = key THEN v ELSE a[x]
  BY <1>5
<1>7. IsAttrs(b)
  BY <1>5, <1>6 DEF IsAttrs
<1>8. ViewerUnits(b)
  <2>1. ASSUME NEW x \in DOMAIN b \cap Converted PROVE \E y \in Values(x) : b[x] = InViewer(x, y)
    <3>1. CASE x = key
      BY <1>2, <1>6, <3>1
    <3>2. CASE x # key
      BY <1>3, <1>6, <3>2 DEF ViewerUnits
    <3>. QED
      BY <3>1, <3>2
  <2>. QED
    BY <2>1 DEF ViewerUnits
<1>9. PICK e : e = [attrs |-> b, place |-> p]
  OBVIOUS
<1>10. e.attrs = b /\ e.place = p
  BY <1>9
<1>11. EntityOK(kind, e)
  BY <1>3, <1>6, <1>7, <1>8, <1>9, <1>10 DEF EntityOK
<1>12. scene' = [scene EXCEPT ![id] = e]
  <2>1. scene' = [scene EXCEPT ![id] = [scene[id] EXCEPT !.attrs = [scene[id].attrs EXCEPT ![key] = v]]]
    BY <1>2 DEF EditAttribute
  <2>2. [scene[id] EXCEPT !.attrs = b] = e
    BY <1>3, <1>9
  <2>. QED
    BY <1>2, <1>4, <2>1, <2>2
<1>. QED
  BY <1>1, <1>11, <1>12, OneEntity

LEMMA LoadScenarioKeeps ==
    ASSUME SectionsInv, NEW full, NEW d, NEW n \in Values("sim_num_procedural_ues"), LoadScenario(full, d, n)
    PROVE  SceneOK(kind, scene')
<1>1. SceneOK(kind, scene) /\ kind = "Scenario" /\ 0 \in DOMAIN scene
  BY DEF SectionsInv, LoadScenario, SceneOK, Numbered
<1>2. PICK a, p : a = [sim_is_full |-> full, sim_duration |-> d, sim_num_procedural_ues |-> n] /\ p = scene[0].place
  OBVIOUS
<1>3. scene[0] = [attrs |-> scene[0].attrs, place |-> p] /\ p = NoPlace
  BY <1>1, <1>2 DEF SceneOK, EntityOK
<1>4. DOMAIN a = {"sim_is_full", "sim_duration", "sim_num_procedural_ues"} /\ a["sim_num_procedural_ues"] = n
  BY <1>2
<1>5. IsAttrs(a)
  <2>1. a = [x \in DOMAIN a |-> a[x]]
    BY <1>2
  <2>. QED
    BY <2>1 DEF IsAttrs
<1>6. DOMAIN a = ViewerTable[kind]
  BY <1>1, <1>4 DEF ViewerTable
<1>7. ViewerUnits(a)
  <2>1. ASSUME NEW x \in DOMAIN a \cap Converted PROVE \E y \in Values(x) : a[x] = InViewer(x, y)
    <3>1. x = "sim_num_procedural_ues"
      BY <1>4 DEF Converted
    <3>2. InViewer(x, n) = n
      BY <3>1 DEF InViewer
    <3>. QED
      BY <1>4, <3>1, <3>2
  <2>. QED
    BY <2>1 DEF ViewerUnits
<1>8. PICK e : e = [attrs |-> a, place |-> p]
  OBVIOUS
<1>9. e.attrs = a /\ e.place = p
  BY <1>8
<1>10. EntityOK(kind, e)
  BY <1>1, <1>3, <1>5, <1>6, <1>7, <1>8, <1>9 DEF EntityOK
<1>11. scene' = [scene EXCEPT ![0] = e]
  <2>1. scene' = [scene EXCEPT ![0] = [scene[0] EXCEPT !.attrs = a]]
    BY <1>2 DEF LoadScenario
  <2>2. [scene[0] EXCEPT !.attrs = a] = e
    BY <1>3, <1>8
  <2>. QED
    BY <2>1, <2>2
<1>. QED
  BY <1>1, <1>10, <1>11, OneEntity

LEMMA MoveEntityKeeps ==
    ASSUME SectionsInv, NEW id, NEW place \in Place, MoveEntity(id, place)
    PROVE  SceneOK(kind, scene')
<1>1. SceneOK(kind, scene) /\ kind \in {"DUs", "RUs", "UEs"} /\ id \in DOMAIN scene /\ EntityOK(kind, scene[id])
  BY DEF SectionsInv, MoveEntity, SceneOK
<1>2. PICK a : a = scene[id].attrs
  OBVIOUS
<1>3. PICK e : e = [attrs |-> a, place |-> place]
  OBVIOUS
<1>4. e.attrs = a /\ e.place = place
  BY <1>3
<1>5. EntityOK(kind, e)
  BY <1>1, <1>2, <1>3, <1>4 DEF EntityOK
<1>6. scene' = [scene EXCEPT ![id] = e]
  <2>1. scene' = [scene EXCEPT ![id] = [scene[id] EXCEPT !.place = place]]
    BY DEF MoveEntity
  <2>2. [scene[id] EXCEPT !.place = place] = e
    BY <1>1, <1>2, <1>3 DEF EntityOK
  <2>. QED
    BY <2>1, <2>2
<1>. QED
  BY <1>1, <1>5, <1>6, OneEntity

LEMMA AddEntityKeeps ==
    ASSUME SectionsInv, NEW id \in Id, NEW place \in Place, AddEntity(id, place)
    PROVE  SceneOK(kind, scene')
<1>1. SceneOK(kind, scene) /\ kind \in {"DUs", "RUs", "UEs"} /\ id \notin DOMAIN scene
  BY DEF SectionsInv, AddEntity
<1> DEFINE cells == {scene[other].attrs["aerial_gnb_cell_id"] : other \in DOMAIN scene}
<1>2. PICK n : n = Max({0} \union cells) + 1
  OBVIOUS
<1>3. PICK cell, d : /\ cell = IF kind = "RUs" THEN One("aerial_gnb_cell_id", n) ELSE NoAttributes
                     /\ d = Restrict(Default, ViewerTable[kind])
  OBVIOUS
<1>4. DOMAIN cell \subseteq {"aerial_gnb_cell_id"} /\ DOMAIN cell \subseteq ViewerTable[kind]
  BY <1>3 DEF One, NoAttributes, ViewerTable
<1>5. DOMAIN d = ViewerTable[kind] /\ \A key \in ViewerTable[kind] : d[key] = Default[key]
  BY <1>1, <1>3 DEF Restrict, ViewerTable, Default
<1>6. PICK a : a = Over(cell, d)
  OBVIOUS
<1>7. IsAttrs(a) /\ DOMAIN a = ViewerTable[kind]
  BY <1>4, <1>5, <1>6, OverWithin
<1>8. ViewerUnits(a)
  <2>1. ASSUME NEW key \in DOMAIN a \cap Converted PROVE a[key] = Default[key]
    <3>1. key \notin DOMAIN cell
      BY <1>4 DEF Converted
    <3>. QED
      BY <1>5, <1>6, <1>7, <3>1 DEF Over
  <2>. QED
    BY <1>1, <1>7, <2>1, DefaultUnits DEF ViewerUnits, Sections
<1>9. PICK e : e = [attrs |-> a, place |-> place]
  OBVIOUS
<1>10. e.attrs = a /\ e.place = place
  BY <1>9
<1>11. EntityOK(kind, e)
  BY <1>1, <1>7, <1>8, <1>9, <1>10 DEF EntityOK
<1>12. PICK o, v : o = One(id, e) /\ v = Over(scene, o)
  OBVIOUS
<1>13. scene' = v
  BY <1>2, <1>3, <1>6, <1>9, <1>12 DEF AddEntity
<1>14. DOMAIN v = DOMAIN scene \cup {id} /\ \A i \in DOMAIN v : v[i] = IF i \in DOMAIN scene THEN scene[i] ELSE e
  <2>1. DOMAIN o = {id} /\ o[id] = e
    BY <1>12 DEF One
  <2>. QED
    BY <1>12, <2>1 DEF Over
<1>15. Numbered(kind, DOMAIN v)
  <2>1. id \in Nat \ {0} /\ DOMAIN scene \subseteq Nat \ {0} /\ IsFiniteSet(DOMAIN scene)
    BY <1>1, IdAssumption DEF SceneOK, Numbered
  <2>. QED
    BY <1>1, <1>14, <2>1, FS_AddElement DEF Numbered
<1>. QED
  BY <1>1, <1>11, <1>13, <1>14, <1>15 DEF SceneOK

LEMMA RemoveEntityKeeps ==
    ASSUME SectionsInv, NEW id, RemoveEntity(id)
    PROVE  SceneOK(kind, scene')
<1>1. SceneOK(kind, scene) /\ kind \in {"DUs", "RUs", "UEs"}
  BY DEF SectionsInv, RemoveEntity
<1>2. PICK v : v = Restrict(scene, DOMAIN scene \ {id})
  OBVIOUS
<1>3. DOMAIN v \subseteq DOMAIN scene /\ \A i \in DOMAIN v : v[i] = scene[i]
  BY <1>2 DEF Restrict
<1>4. Numbered(kind, DOMAIN v)
  <2>1. DOMAIN scene \subseteq Nat \ {0} /\ IsFiniteSet(DOMAIN scene)
    BY <1>1 DEF SceneOK, Numbered
  <2>. QED
    BY <1>1, <1>3, <2>1, FS_Subset DEF Numbered
<1>5. scene' = v
  BY <1>2 DEF RemoveEntity
<1>. QED
  BY <1>1, <1>3, <1>4, <1>5 DEF SceneOK

LEMMA ViewerEditKeeps ==
    ASSUME SectionsInv, ViewerEdit
    PROVE  SceneOK(kind, scene')
  BY EditAttributeKeeps, LoadScenarioKeeps, MoveEntityKeeps, AddEntityKeeps, RemoveEntityKeeps DEF ViewerEdit

-----------------------------------------------------------------------------
(* The states a behaviour begins with.                                        *)

LEMMA OneEntry ==
    ASSUME NEW id, NEW p, NEW o, o = One(id, p)
    PROVE  DOMAIN o = {id} /\ o[id] = p
  BY DEF One

LEMMA BaseIs ==
    ASSUME kind \in Sections, NEW prims \in Base
    PROVE  Numbered(kind, DOMAIN prims) /\ \A id \in DOMAIN prims : PrimOK(kind, prims[id])
<1>f. \A i, j \in Nat \ {0} : IsFiniteSet({i}) /\ IsFiniteSet({i, j}) /\ {i} \subseteq Nat \ {0} /\ {i, j} \subseteq Nat \ {0}
  <2>1. ASSUME NEW i, NEW j PROVE IsFiniteSet({i}) /\ IsFiniteSet({i, j})
    <3>1. IsFiniteSet({i})
      BY FS_Singleton
    <3>2. IsFiniteSet({i} \cup {j})
      BY <3>1, FS_AddElement
    <3>3. {i} \cup {j} = {i, j}
      OBVIOUS
    <3>. QED
      BY <3>1, <3>2, <3>3
  <2>. QED
    BY <2>1
<1>1. CASE kind = "Panels"
  <2>1. PICK p, q : p = NewPrim(NoPlace, "spec", 0) /\ q = NewPrim(NoPlace, "file", 0)
    OBVIOUS
  <2>2. PrimOK(kind, p) /\ PrimOK(kind, q)
    BY <2>1, NewPrimIs DEF PlaceOK
  <2>3. prims = One(1, p) \/ prims = Over(One(1, p), One(3, q))
    BY <1>1, <2>1 DEF Base
  <2>4. CASE prims = One(1, p)
    <3>1. DOMAIN prims = {1} /\ prims[1] = p
      BY <2>4, OneEntry
    <3>. QED
      BY <1>1, <1>f, <2>2, <3>1 DEF Numbered
  <2>5. CASE prims = Over(One(1, p), One(3, q))
    <3>1. PICK i, j : i = 1 /\ j = 3
      OBVIOUS
    <3>2. prims = Over(One(i, p), One(j, q)) /\ i # j /\ i \in Nat \ {0} /\ j \in Nat \ {0}
      BY <2>5, <3>1
    <3>3. DOMAIN prims = {i, j} /\ prims[i] = p /\ prims[j] = q
      <4>1. PICK a, b : a = One(i, p) /\ b = One(j, q)
        OBVIOUS
      <4>2. prims = Over(a, b)
        BY <3>2, <4>1
      <4>3. DOMAIN a = {i} /\ a[i] = p /\ DOMAIN b = {j} /\ b[j] = q
        BY <4>1, OneEntry
      <4>. QED
        BY ONLY <3>2, <4>2, <4>3 DEF Over
    <3>. QED
      BY <1>1, <1>f, <2>2, <3>2, <3>3 DEF Numbered
  <2>. QED
    BY <2>3, <2>4, <2>5
<1>2. CASE kind = "UEs"
  <2>1. PICK p, q : p = NewPrim(Origin, "waypoints", 1) /\ q = NewPrim(NoPlace, "gpx", 0)
    OBVIOUS
  <2>2. PrimOK(kind, p) /\ PrimOK(kind, q)
    BY <1>2, <2>1, NewPrimIs DEF PlaceOK
  <2>3. prims = Over(One(1, p), One(2, q))
    BY <1>2, <2>1 DEF Base
  <2>4. PICK i, j : i = 1 /\ j = 2
    OBVIOUS
  <2>5. prims = Over(One(i, p), One(j, q)) /\ i # j /\ i \in Nat \ {0} /\ j \in Nat \ {0}
    BY <2>3, <2>4
  <2>6. DOMAIN prims = {i, j} /\ prims[i] = p /\ prims[j] = q
    <3>1. PICK a, b : a = One(i, p) /\ b = One(j, q)
      OBVIOUS
    <3>2. prims = Over(a, b)
      BY <2>5, <3>1
    <3>3. DOMAIN a = {i} /\ a[i] = p /\ DOMAIN b = {j} /\ b[j] = q
      BY <3>1, OneEntry
    <3>. QED
      BY ONLY <2>5, <3>2, <3>3 DEF Over
  <2>. QED
    BY <1>2, <1>f, <2>2, <2>5, <2>6 DEF Numbered
<1>3. CASE kind = "Scenario"
  <2>1. prims = Scenario0
    BY <1>3 DEF Base
  <2>. QED
    BY <1>3, <2>1, Scenario0Is DEF Numbered
<1>4. CASE kind \in {"DUs", "RUs"}
  <2>1. PICK p : p = NewPrim(Origin, "", 0)
    OBVIOUS
  <2>2. PrimOK(kind, p)
    BY <1>4, <2>1, NewPrimIs, PlaceAssumption DEF PlaceOK
  <2>3. prims = One(1, p)
    BY <1>4, <2>1 DEF Base
  <2>4. DOMAIN prims = {1} /\ prims[1] = p
    BY <2>3, OneEntry
  <2>. QED
    BY <1>4, <1>f, <2>2, <2>4 DEF Numbered
<1>. QED
  BY <1>1, <1>2, <1>3, <1>4 DEF Sections

LEMMA WithPosIs ==
    ASSUME kind \in {"DUs", "RUs"}, NEW c, ConfigOK(kind, c)
    PROVE  SectionOK(kind, WithPos(ToYaml(c)))
<1>1. PICK s : s = ToYaml(c)
  OBVIOUS
<1>2. SectionOK(kind, s) /\ s.update = OwnThenGroups(c, DOMAIN c.prims)
      /\ s = [default |-> TRUE, add |-> s.add, update |-> s.update]
  <2>1. SectionOK(kind, s)
    BY <1>1, ToYamlIs DEF Sections
  <2>2. PICK add, update : /\ add = [id \in DOMAIN c.prims |-> AddEntry(c.prims[id].place, c.prims[id].src, c.prims[id].speed)]
                           /\ update = OwnThenGroups(c, DOMAIN c.prims)
    OBVIOUS
  <2>3. s = [default |-> TRUE, add |-> add, update |-> update]
    BY <1>1, <2>2 DEF ToYaml, BuildDUsSection, BuildRUsSection, PlacedSection
  <2>. QED
    BY <2>1, <2>2, <2>3
<1>3. PICK add : add = [id \in DOMAIN s.add |-> [s.add[id] EXCEPT !.pos = s.add[id].position, !.position = NoPlace]]
  OBVIOUS
<1>4. PICK w : w = WithPos(s)
  OBVIOUS
<1>5. w = [s EXCEPT !.add = add]
  BY <1>3, <1>4 DEF WithPos
<1>6. w.add = add /\ w.update = s.update
  <2>1. PICK asset, entries, update : asset = TRUE /\ entries = s.add /\ update = s.update
    OBVIOUS
  <2>2. s = [default |-> asset, add |-> entries, update |-> update]
    BY <1>2, <2>1
  <2>3. w = [default |-> asset, add |-> add, update |-> update]
    BY <1>5, <2>2
  <2>. QED
    BY <2>1, <2>3
<1>7. ASSUME NEW id \in DOMAIN s.add PROVE EntryOK(kind, add[id])
  <2>1. PICK t, at, src, speed : t = s.add[id] /\ at = t.position /\ src = t.src /\ speed = t.speed
    OBVIOUS
  <2>2. PICK pos : t = [pos |-> pos, position |-> at, src |-> src, speed |-> speed]
    BY <1>2, <2>1 DEF SectionOK, EntryOK
  <2>3. PICK r : r = add[id]
    OBVIOUS
  <2>4. r = [t EXCEPT !.pos = at, !.position = NoPlace]
    BY <1>3, <2>1, <2>3
  <2>5. r = [pos |-> at, position |-> NoPlace, src |-> src, speed |-> speed]
    BY <2>2, <2>4
  <2>6. r.pos = at /\ r.position = NoPlace /\ r.src = src /\ r.speed = speed
    BY <2>5
  <2>7. PlaceOK(kind, at) /\ PlaceOK(kind, NoPlace)
    BY <1>2, <2>1 DEF SectionOK, EntryOK, PlaceOK
  <2>. QED
    BY <2>3, <2>5, <2>6, <2>7 DEF EntryOK
<1>8. DOMAIN add = DOMAIN s.add
  BY <1>3
<1>9. SectionOK(kind, w)
  BY <1>2, <1>6, <1>7, <1>8 DEF SectionOK
<1>. QED
  BY <1>1, <1>4, <1>9

LEMMA AssetOnlyIs ==
    ASSUME NEW k, NEW s, s = [default |-> TRUE, add |-> NoAttributes, update |-> <<>>]
    PROVE  SectionOK(k, s)
<1>1. s.add = NoAttributes /\ s.update = <<>>
  OBVIOUS
<1>2. DOMAIN s.add = {} /\ IsFiniteSet({})
  BY <1>1, NoneIs, FS_EmptySet
<1>. QED
  BY <1>1, <1>2, EmptyOK DEF SectionOK, Numbered

LEMMA InitSections ==
    ASSUME SectionsInit
    PROVE  SectionsInv
<1>k. kind \in Section /\ kind \in Sections
  BY SectionAssumption DEF SectionsInit, Sections
<1>1. PICK prims \in Base : config = [prims |-> prims, groups |-> <<>>, next |-> NextPanel(prims)]
  BY DEF SectionsInit
<1>2. PICK n, none : n = NextPanel(prims) /\ none = <<>>
  OBVIOUS
<1>3. config = [prims |-> prims, groups |-> none, next |-> n]
  BY <1>1, <1>2
<1>4. config.prims = prims /\ config.groups = none /\ config.next = n
  BY <1>3
<1>5. ConfigOK(kind, config)
  <2>1. ListOK(none)
    BY <1>2, EmptyOK
  <2>2. Numbered(kind, DOMAIN prims) /\ \A id \in DOMAIN prims : PrimOK(kind, prims[id])
    BY <1>k, BaseIs
  <2>. QED
    BY <1>3, <1>4, <2>1, <2>2 DEF ConfigOK
<1>6. SectionOK(kind, contents)
  <2>1. SectionOK(kind, ToYaml(config))
    BY <1>k, <1>5, ToYamlIs
  <2>2. kind \in {"DUs", "RUs"} => SectionOK(kind, WithPos(ToYaml(config)))
    BY <1>5, WithPosIs
  <2>3. PICK s : s = [default |-> TRUE, add |-> NoAttributes, update |-> <<>>]
    OBVIOUS
  <2>4. SectionOK(kind, s)
    BY <2>3, AssetOnlyIs
  <2>5. contents = ToYaml(config) \/ contents = s \/ (kind \in {"DUs", "RUs"} /\ contents = WithPos(ToYaml(config)))
    BY <2>3 DEF SectionsInit
  <2>. QED
    BY <2>1, <2>2, <2>4, <2>5
<1>7. SceneOK(kind, scene)
  <2>1. kind = "Scenario" => SceneOK(kind, FreshScene)
    BY FreshIs
  <2>2. SceneOK(kind, ApplySection(contents, FreshScene))
    BY <1>k, <1>6, <2>1, SceneIs
  <2>. QED
    BY <2>2 DEF SectionsInit
<1>8. NotShadowed(kind, config, imported)
  <2>1. imported.ids = {} /\ imported.groups = 0
    BY DEF SectionsInit
  <2>2. SubSeq(none, 1, 0) = none /\ Len(none) = 0
    BY <1>2
  <2>3. \A id : DOMAIN Applied(none, id) = {}
    BY <1>2, EmptyOK, NoneIs
  <2>4. PICK old : old = SubSeq(config.groups, 1, imported.groups)
    OBVIOUS
  <2>5. old = none /\ imported.groups \in 0..Len(config.groups)
    BY <1>4, <2>1, <2>2, <2>4
  <2>6. \A id : DOMAIN Applied(old, id) \cap Table[kind] = {}
    BY <2>3, <2>5
  <2>. QED
    BY <2>1, <2>4, <2>5, <2>6 DEF NotShadowed
<1>. QED
  BY <1>k, <1>5, <1>6, <1>7, <1>8 DEF SectionsInv

-----------------------------------------------------------------------------
(* The theorems.                                                              *)

LEMMA NextSections ==
    ASSUME SectionsInv, [SectionsNext]_sectionsVars
    PROVE  SectionsInv'
<1>k. kind \in Sections
  BY SectionAssumption DEF SectionsInv, Sections
<1>1. CASE ClientStep
  <2>1. ConfigOK(kind, config') /\ NotShadowed(kind, config', imported)
    BY <1>1, ClientEditKeeps DEF ClientStep, ConfigKept
  <2>. QED
    BY <1>1, <2>1 DEF ClientStep, SectionsInv
<1>2. CASE ViewerStep
  <2>1. SceneOK(kind, scene')
    BY <1>2, ViewerEditKeeps DEF ViewerStep
  <2>. QED
    BY <1>2, <2>1 DEF ViewerStep, SectionsInv
<1>3. CASE Upload
  <2>1. PICK s : s = ToYaml(config)
    OBVIOUS
  <2>2. contents' = s /\ scene' = ApplySection(s, scene)
    BY <1>3, <2>1 DEF Upload
  <2>3. SectionOK(kind, s)
    BY <1>k, <2>1, ToYamlIs DEF SectionsInv
  <2>4. SceneOK(kind, scene')
    BY <1>k, <2>2, <2>3, SceneIs DEF SectionsInv
  <2>. QED
    BY <1>3, <2>2, <2>3, <2>4 DEF Upload, SectionsInv
<1>4. CASE ReloadPage
  <2>1. SceneOK(kind, ApplySection(contents, FreshScene))
    BY <1>k, FreshIs, SceneIs DEF SectionsInv
  <2>. QED
    BY <1>4, <2>1 DEF ReloadPage, SectionsInv
<1>5. CASE Save
  <2>1. SectionOK(kind, SerializeToYml(scene, contents))
    BY <1>k, SerializeIs DEF SectionsInv
  <2>. QED
    BY <1>5, <2>1 DEF Save, SectionsInv
<1>6. CASE Import
  <2>1. ImportFile /\ UNCHANGED <<kind, contents, scene>>
    BY <1>6 DEF Import, ImportFile
  <2>2. ConfigOK(kind, config') /\ NotShadowed(kind, config', imported')
    BY <2>1, ImportKeeps
  <2>. QED
    BY <2>1, <2>2 DEF SectionsInv
<1>7. CASE UNCHANGED sectionsVars
  BY <1>7 DEF sectionsVars, SectionsInv
<1>. QED
  BY <1>1, <1>2, <1>3, <1>4, <1>5, <1>6, <1>7 DEF SectionsNext

(***************************************************************************)
(* In every state the configuration, the file and the scene have what the  *)
(* attributes of the section need (every known attribute, in its unit, one *)
(* spelling of a position for each entry), and the groups that the last    *)
(* import left behind say nothing of what the client keeps as fields       *)
(* (applyYmlConfig, serializeToYml, fromYAMLFile, toYamlString).           *)
(***************************************************************************)
THEOREM SectionsInductive == SectionsSpec => []SectionsInv
<1>1. SectionsInit => SectionsInv
  BY InitSections
<1>2. SectionsInv /\ [SectionsNext]_sectionsVars => SectionsInv'
  BY NextSections
<1>. QED
  BY <1>1, <1>2, PTL DEF SectionsSpec

(***************************************************************************)
(* Importing a file and writing it again keeps what it means, for every    *)
(* section, any number of primitives and of updates that overlap in it     *)
(* (fromYAMLFile, toYamlString), except for what the switches govern that  *)
(* the file leaves off (Scenario::toAttributeMap).                         *)
(***************************************************************************)
THEOREM ImportMeaning == SectionsSpec => []ImportKeepsMeaning
<1>1. SectionsInv => ImportKeepsMeaning
  BY ImportIs, SectionAssumption DEF SectionsInv, Sections
<1>. QED
  BY <1>1, SectionsInductive, PTL

(***************************************************************************)
(* After an import the fields of a primitive are what the next file says,  *)
(* whatever groups the import left behind (ConsumeKnownAttributes and the  *)
(* groups of ApplyTypedUpdateGroups, ApplyPanelGroups).                    *)
(***************************************************************************)
THEOREM FieldsCount == SectionsSpec => []FieldsAreNotShadowed
<1>1. SectionsInv => FieldsAreNotShadowed
  BY FieldsIs, SectionAssumption DEF SectionsInv, Sections
<1>. QED
  BY <1>1, SectionsInductive, PTL

(***************************************************************************)
(* What serializeToYml writes shows, when applyYmlConfig reads it again,   *)
(* what was on the screen, except for what Lost lists: of a unit that is   *)
(* new or was moved, the latitude and longitude, and a path over flat      *)
(* terrain.                                                                *)
(***************************************************************************)
THEOREM SavedShown == SectionsSpec => []SavedIsShown
<1>1. SectionsInv => SavedIsShown
  BY SavedIs, SectionAssumption DEF SectionsInv, Sections
<1>. QED
  BY <1>1, SectionsInductive, PTL

(***************************************************************************)
(* The client reads from a file that serializeToYml wrote what the viewer  *)
(* reads from it.                                                          *)
(***************************************************************************)
THEOREM ReadAlike == SectionsSpec => []ClientReadsSaved
<1>1. SectionsInv => ClientReadsSaved
  BY ReadsIs, SectionAssumption DEF SectionsInv, Sections
<1>. QED
  BY <1>1, SectionsInductive, PTL
=============================================================================
