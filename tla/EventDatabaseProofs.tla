------------------------ MODULE EventDatabaseProofs ------------------------
(***************************************************************************)
(* Proofs about EventDatabase, for any records, uploads, files, structures *)
(* and number of requests.  The invariants come in layers, each proved     *)
(* from the ones before it and from what it assumes of the requests:       *)
(*   - nothing: types, rejected layouts, the settings that the network is  *)
(*     configured by, and that no record is lost;                          *)
(*   - one restore at a time: network security.                            *)
(***************************************************************************)
EXTENDS EventDatabase, TLAPS

OneRestore == \A h, g \in Restorers : h = g

Forms == [security : BOOLEAN, layout : {"valid", "invalid"}]
PostJobs ==
  {Idle} \cup
  [step : {"security", "layout", "check", "store", "load"}, obj : Structures, form : Forms]
RestoreJobs ==
  {Idle} \cup [step : {"backup", "close", "remove", "rename", "open", "load"}, upload : Uploads]
ClearJobs == {Idle} \cup [step : {"backup", "delete"}]
JobsFit ==
  /\ job = [h \in Requests |-> job[h]]
  /\ \A h \in Posters : job[h] \in PostJobs
  /\ \A h \in Restorers : job[h] \in RestoreJobs
  /\ \A h \in Clearers : job[h] \in ClearJobs
DiskFits ==
  /\ path \in Files \cup {NoFile} /\ file \in [Files -> Contents]
  /\ saved \subseteq Records /\ recent \in [Reasons -> (SUBSET Records) \cup {NoBackup}]
SettingsFit ==
  /\ live \in Structures /\ record \in [Structures -> Settings]
  /\ built \in BOOLEAN /\ stray \in BOOLEAN
ProcessFits ==
  /\ stage \in {"down", "starting", "loading", "seeding", "reloading", "running"}
  /\ firstRun \in BOOLEAN /\ open \in BOOLEAN /\ db \in Files \cup {NoFile}
  /\ open => db \in Files
HistoryFits ==
  /\ owed \subseteq Records /\ late \subseteq Teams /\ overwritten \subseteq Records
  /\ chosen \in BOOLEAN /\ unseeded \in BOOLEAN /\ crossed \subseteq Posters
(* No page is served before the settings are loaded for the second time. *)
NotYetServing == stage # "running" => \A h \in Requests : job[h] = Idle

Typed == JobsFit /\ DiskFits /\ SettingsFit /\ ProcessFits /\ HistoryFits /\ NotYetServing

(* What the invariants of several layers need to know of a step. *)
SameRecords == \A f \in Files : file'[f].records = file[f].records
SameSecurity == \A f \in Files : file'[f].settings.security = file[f].settings.security

-----------------------------------------------------------------------------
(* The parts of a step. *)
LEMMA GetIs ==
  ASSUME Typed, NEW f \in Files
  PROVE  /\ GetEventSettings(file[f].settings) \in Settings
         /\ GetEventSettings(file[f].settings).security = file[f].settings.security
         /\ GetEventSettings(file[f].settings).layout \in {"valid", "invalid"}
<1>1. file[f].settings \in Settings \cup {None}
  BY DEF Typed, DiskFits, Contents
<1>2. CASE file[f].settings = None
  BY <1>2 DEF GetEventSettings, Settings, Default, None
<1>3. CASE file[f].settings # None
  <2>1. file[f].settings \in Settings
    BY <1>1, <1>3
  <2>2. GetEventSettings(file[f].settings) =
          [file[f].settings EXCEPT !.layout =
             IF file[f].settings.layout = "unset" THEN "valid" ELSE file[f].settings.layout]
    BY <1>3 DEF GetEventSettings
  <2> QED
    BY <2>1, <2>2 DEF Settings
<1> QED
  BY <1>2, <1>3

LEMMA LoadIs ==
  ASSUME Typed, LoadSettings
  PROVE  /\ path' = path /\ file' \in [Files -> Contents] /\ SameRecords /\ SameSecurity
         /\ SettingsFit' /\ open /\ db \in Files
         /\ \A s \in Structures : Held(s) => record'[s] = record[s]
         /\ live' \in Structures /\ ~Held(live')
         /\ record'[live'].security = file[db].settings.security
         /\ built' = file[db].settings.security /\ stray' = FALSE
<1>1. db \in Files /\ file[db] \in Contents /\ open
  BY DEF Typed, DiskFits, ProcessFits, LoadSettings
<1> DEFINE settings == GetEventSettings(file[db].settings)
<1>2. settings \in Settings /\ settings.security = file[db].settings.security
  BY <1>1, GetIs
<1> HIDE DEF settings
<1>3. /\ path' = path /\ live' \in Structures /\ ~Held(live')
      /\ record' = [s \in Structures |-> IF s = live' THEN settings
                                        ELSE IF Held(s) THEN record[s] ELSE Default]
      /\ built' = settings.security /\ stray' = FALSE
  BY DEF LoadSettings, settings
<1>4. Default \in Settings /\ settings.security \in BOOLEAN
  BY <1>2 DEF Settings, Default
<1>5. /\ SettingsFit' /\ record'[live'] = settings
      /\ \A s \in Structures : Held(s) => record'[s] = record[s]
  BY <1>2, <1>3, <1>4 DEF SettingsFit, Typed
<1>6. CASE file[db].settings = None
  <2>1. file' = [file EXCEPT ![db] = [file[db] EXCEPT !.settings = Default]]
    BY <1>6 DEF LoadSettings
  <2>2. None.security = Default.security
    BY DEF None, Default
  <2>3. file' \in [Files -> Contents] /\ SameRecords /\ SameSecurity
    BY <1>1, <1>4, <1>6, <2>1, <2>2 DEF Typed, DiskFits, Contents, SameRecords, SameSecurity
  <2> QED
    BY <1>1, <1>2, <1>3, <1>5, <2>3
<1>7. CASE file[db].settings # None
  <2>1. file' = file
    BY <1>7 DEF LoadSettings
  <2>2. file' \in [Files -> Contents] /\ SameRecords /\ SameSecurity
    BY <2>1 DEF Typed, DiskFits, SameRecords, SameSecurity
  <2> QED
    BY <1>1, <1>2, <1>3, <1>5, <2>2
<1> QED
  BY <1>6, <1>7

LEMMA StoreIs ==
  ASSUME Typed, open, NEW settings \in Settings, UpdateEventSettings(settings)
  PROVE  /\ path' = path /\ file' \in [Files -> Contents] /\ SameRecords
         /\ file'[db].settings = settings
  BY DEF UpdateEventSettings, Typed, DiskFits, ProcessFits, Contents, SameRecords

LEMMA OpenIs ==
  ASSUME Typed, OpenDatabase
  PROVE  /\ path' \in Files /\ open' = TRUE /\ db' = path' /\ file' \in [Files -> Contents]
         /\ path # NoFile => path' = path /\ file' = file
         /\ path = NoFile => Free(path') /\ file' = [file EXCEPT ![path'] = Blank]
<1>1. Blank \in Contents
  BY DEF Blank, Contents
<1>2. CASE path # NoFile
  BY <1>2 DEF Typed, DiskFits, OpenDatabase, diskVars
<1>3. CASE path = NoFile
  BY <1>1, <1>3 DEF Typed, DiskFits, OpenDatabase, Freed
<1> QED
  BY <1>2, <1>3

(* A request that goes on to another step, or ends. *)
LEMMA PostGoesOn ==
  ASSUME EventDatabaseAssumption, JobsFit, NEW h \in Posters, NEW j \in PostJobs,
         job' = [job EXCEPT ![h] = j]
  PROVE  JobsFit' /\ job'[h] = j /\ \A g \in Requests : g = h \/ job'[g] = job[g]
  BY DEF EventDatabaseAssumption, JobsFit, Requests
LEMMA RestoreGoesOn ==
  ASSUME EventDatabaseAssumption, JobsFit, NEW h \in Restorers, NEW j \in RestoreJobs,
         job' = [job EXCEPT ![h] = j]
  PROVE  JobsFit' /\ job'[h] = j /\ \A g \in Requests : g = h \/ job'[g] = job[g]
  BY DEF EventDatabaseAssumption, JobsFit, Requests
LEMMA ClearGoesOn ==
  ASSUME EventDatabaseAssumption, JobsFit, NEW h \in Clearers, NEW j \in ClearJobs,
         job' = [job EXCEPT ![h] = j]
  PROVE  JobsFit' /\ job'[h] = j /\ \A g \in Requests : g = h \/ job'[g] = job[g]
  BY DEF EventDatabaseAssumption, JobsFit, Requests

(* Where a request is, and what it may go on to. *)
LEMMA PostAt ==
  ASSUME Typed, NEW h \in Posters,
         NEW step \in {"security", "layout", "check", "store", "load"}, At(h, step)
  PROVE  /\ h \in Requests /\ stage = "running" /\ job[h] # Idle
         /\ job[h].obj \in Structures /\ job[h].form \in Forms
         /\ \A on \in {"layout", "check", "store", "load"} :
              /\ [job[h] EXCEPT !.step = on] \in PostJobs
              /\ [job[h] EXCEPT !.step = on].step = on
              /\ [job[h] EXCEPT !.step = on].obj = job[h].obj
<1>1. h \in Requests /\ job[h] \in PostJobs /\ job[h] # Idle
  BY DEF Typed, JobsFit, Requests, At, Idle
<1> QED
  BY <1>1 DEF Typed, NotYetServing, PostJobs
LEMMA RestoreAt ==
  ASSUME Typed, NEW h \in Restorers,
         NEW step \in {"backup", "close", "remove", "rename", "open", "load"}, At(h, step)
  PROVE  /\ h \in Requests /\ stage = "running" /\ job[h].upload \in Uploads
         /\ \A on \in {"close", "remove", "rename", "open", "load"} :
              /\ [job[h] EXCEPT !.step = on] \in RestoreJobs
              /\ [job[h] EXCEPT !.step = on].step = on
<1>1. h \in Requests /\ job[h] \in RestoreJobs /\ job[h] # Idle
  BY DEF Typed, JobsFit, Requests, At, Idle
<1> QED
  BY <1>1 DEF Typed, NotYetServing, RestoreJobs
LEMMA RestoreMovesOn ==
  ASSUME Typed, NEW h \in Restorers,
         NEW step \in {"backup", "close", "remove", "rename", "open", "load"}, At(h, step),
         NEW on \in {"close", "remove", "rename", "open", "load"}
  PROVE  (GoOn(h, on) => job'[h].step = on) /\ (Done(h) => job'[h].step = "none")
<1>1. h \in DOMAIN job /\ [job[h] EXCEPT !.step = on].step = on
  BY RestoreAt DEF Typed, JobsFit
<1>2. GoOn(h, on) => job'[h] = [job[h] EXCEPT !.step = on]
  BY <1>1 DEF GoOn
<1>3. Done(h) => job'[h].step = "none"
  BY <1>1 DEF Done, Idle
<1> QED
  BY <1>1, <1>2, <1>3
LEMMA ClearAt ==
  ASSUME Typed, NEW h \in Clearers, NEW step \in {"backup", "delete"}, At(h, step)
  PROVE  /\ h \in Requests /\ stage = "running"
         /\ [job[h] EXCEPT !.step = "delete"] \in ClearJobs
         /\ [job[h] EXCEPT !.step = "delete"].step = "delete"
<1>1. h \in Requests /\ job[h] \in ClearJobs /\ job[h] # Idle
  BY DEF Typed, JobsFit, Requests, At, Idle
<1> QED
  BY <1>1 DEF Typed, NotYetServing, ClearJobs
LEMMA IdleFits == Idle \in PostJobs /\ Idle \in RestoreJobs /\ Idle \in ClearJobs /\ Idle.step = "none"
  BY DEF PostJobs, RestoreJobs, ClearJobs, Idle

-----------------------------------------------------------------------------
(* The types. *)
LEMMA InitTyped == ASSUME EventDatabaseAssumption, Init PROVE Typed
<1>1. JobsFit /\ NotYetServing
  BY DEF Init, Stopped, JobsFit, NotYetServing, PostJobs, RestoreJobs, ClearJobs, Requests
<1>2. DiskFits
  <2>1. Blank \in Contents
    BY DEF Blank, Contents
  <2>2. saved = {} /\ recent \in [Reasons -> (SUBSET Records) \cup {NoBackup}]
    <3>1. saved = {} /\ recent = [r \in Reasons |-> NoBackup]
      BY DEF Init
    <3> QED
      BY <3>1
  <2>3. CASE path = NoFile /\ file = [f \in Files |-> Blank]
    BY <2>1, <2>2, <2>3 DEF DiskFits
  <2>4. ASSUME NEW on \in BOOLEAN, path \in Files,
               file = [f \in Files |->
                 IF f = path THEN [records |-> Matches, settings |-> [security |-> on, layout |-> "unset"]]
                 ELSE Blank]
        PROVE  DiskFits
    <3>1. [records |-> Matches, settings |-> [security |-> on, layout |-> "unset"]] \in Contents
      BY DEF Contents, Settings, Records
    <3> QED
      BY <2>1, <2>2, <2>4, <3>1 DEF DiskFits
  <2> QED
    BY <2>3, <2>4 DEF Init
<1>3. SettingsFit
  BY DEF Init, Stopped, SettingsFit, Settings, Default
<1>4. ProcessFits
  BY DEF Init, Stopped, ProcessFits
<1>5. HistoryFits
  BY DEF EventDatabaseAssumption, Init, HistoryFits, Records
<1> QED
  BY <1>1, <1>2, <1>3, <1>4, <1>5 DEF Typed

(* The start of the program and its end: nothing is being handled.  The end *)
(* leaves the disk as it is.                                                *)
LEMMA StartingKeepsTyped ==
  ASSUME EventDatabaseAssumption, Typed, Starting
  PROVE  /\ Typed' /\ stage # "running" /\ job' = job /\ \A h \in Requests : job[h] = Idle
         /\ UNCHANGED <<saved, recent, owed, late, overwritten, crossed>>
<1> USE DEF Typed
<1>1. stage # "running" /\ \A h \in Requests : job[h] = Idle
  BY DEF Starting, Start, NewArenaOpens, NewArenaLoads, Seed, MainLoads, NotYetServing
<1>2. job' = job /\ UNCHANGED <<saved, recent, owed, late, overwritten, crossed>>
  BY DEF Starting, Start, NewArenaOpens, NewArenaLoads, Seed, MainLoads, requestVars, backupVars,
         recordVars, historyVars
<1>3. JobsFit' /\ NotYetServing'
  BY <1>1, <1>2 DEF JobsFit, NotYetServing
<1>4. CASE Start
  BY <1>1, <1>2, <1>3, <1>4 DEF Start, DiskFits, SettingsFit, ProcessFits, HistoryFits,
                          diskVars, arenaVars, historyVars
<1>5. CASE NewArenaOpens
  <2>1. OpenDatabase /\ UNCHANGED <<firstRun, live, record, built, stray, chosen, unseeded>> /\ stage' = "loading"
    BY <1>5 DEF NewArenaOpens, arenaVars, historyVars
  <2> QED
    BY <1>1, <1>2, <1>3, <2>1, OpenIs DEF DiskFits, SettingsFit, ProcessFits, HistoryFits
<1>6. CASE NewArenaLoads \/ MainLoads
  <2>1. /\ LoadSettings /\ UNCHANGED <<open, db, chosen, unseeded>>
        /\ stage' \in {"seeding", "running"} /\ (firstRun' = firstRun \/ firstRun' = FALSE)
    BY <1>6 DEF NewArenaLoads, MainLoads, historyVars
  <2> QED
    BY <1>1, <1>2, <1>3, <2>1, LoadIs DEF DiskFits, ProcessFits, HistoryFits
<1>7. CASE Seed
  <2>1. Seeded \in Settings
    BY DEF Seeded, SettingsFit, Settings, EventDatabaseAssumption
  <2>2. file' \in [Files -> Contents] /\ path' = path
    BY <1>7, <2>1 DEF Seed, UpdateEventSettings, DiskFits, Contents
  <2>3. SettingsFit' /\ ProcessFits'
    BY <1>7, <2>1 DEF Seed, SettingsFit, ProcessFits
  <2>4. HistoryFits'
    BY <1>7, <1>2 DEF Seed, HistoryFits, EventDatabaseAssumption
  <2> QED
    BY <1>1, <1>2, <1>3, <2>2, <2>3, <2>4 DEF DiskFits
<1> QED
  BY <1>1, <1>2, <1>4, <1>5, <1>6, <1>7 DEF Starting

LEMMA StopKeepsTyped ==
  ASSUME EventDatabaseAssumption, Typed, Stop
  PROVE  /\ Typed' /\ \A h \in Requests : job'[h] = Idle
         /\ UNCHANGED <<path, file, saved, recent, owed, late, overwritten, chosen>> /\ open' = FALSE
<1> USE DEF Typed
<1>1. /\ job' = [h \in Requests |-> Idle] /\ open' = FALSE /\ db' = NoFile
      /\ stage' = "down" /\ firstRun' = FALSE /\ crossed' = {}
      /\ UNCHANGED <<path, file, saved, recent, owed, late, overwritten, live, chosen>>
      /\ record' = [s \in Structures |-> Default] /\ built' = FALSE /\ stray' = FALSE
      /\ unseeded' = (unseeded \/ (firstRun /\ stage \in {"loading", "seeding"}))
  BY DEF Stop, diskVars, backupVars, recordVars
<1>2. JobsFit' /\ \A h \in Requests : job'[h] = Idle
  BY <1>1 DEF JobsFit, PostJobs, RestoreJobs, ClearJobs, Requests
<1>3. SettingsFit'
  BY <1>1 DEF SettingsFit, Settings, Default
<1>4. DiskFits' /\ ProcessFits' /\ HistoryFits'
  BY <1>1 DEF DiskFits, ProcessFits, HistoryFits
<1> QED
  BY <1>1, <1>2, <1>3, <1>4 DEF NotYetServing

(* A request that changes neither the database in use nor its records.      *)
Quiet ==
  /\ path' = path /\ SameRecords
  /\ UNCHANGED <<saved, recent, stage, firstRun, open, db, owed, late, overwritten>>
LEMMA PostingKeepsTyped ==
  ASSUME EventDatabaseAssumption, Typed, NEW h \in Posters, Posting(h)
  PROVE  Typed' /\ Quiet /\ stage = "running" /\ \A g \in Requests : g = h \/ job'[g] = job[g]
<1> USE DEF Typed
<1>1. h \in Requests /\ JobsFit
  BY DEF Requests
<1>2. ASSUME NEW j \in PostJobs, job' = [job EXCEPT ![h] = j], stage = "running", Quiet,
             file' \in [Files -> Contents], SettingsFit', HistoryFits'
      PROVE  Typed' /\ Quiet /\ stage = "running" /\ \A g \in Requests : g = h \/ job'[g] = job[g]
  <2>1. JobsFit' /\ \A g \in Requests : g = h \/ job'[g] = job[g]
    BY <1>1, <1>2, PostGoesOn
  <2>2. DiskFits' /\ ProcessFits' /\ NotYetServing'
    BY <1>2 DEF Quiet, DiskFits, ProcessFits, NotYetServing
  <2> QED
    BY <1>2, <2>1, <2>2
<1>3. CASE \E form \in Forms : TakeForm(h, form)
  <2>1. PICK form \in Forms : TakeForm(h, form)
    BY <1>3
  <2> DEFINE j == [step |-> "security", obj |-> live, form |-> form]
  <2>2. j \in PostJobs
    BY DEF PostJobs, SettingsFit
  <2>3. job' = [job EXCEPT ![h] = j] /\ stage = "running"
    BY <2>1 DEF TakeForm, Takes
  <2>4. Quiet /\ SettingsFit' /\ HistoryFits' /\ file' \in [Files -> Contents]
    BY <2>1 DEF TakeForm, Quiet, SameRecords, DiskFits, SettingsFit, HistoryFits, diskVars, backupVars,
                processVars, arenaVars, recordVars, historyVars
  <2> QED
    BY <1>2, <2>2, <2>3, <2>4
<1>4. CASE EditSecurity(h)
  <2>1. Quiet /\ HistoryFits' /\ file' \in [Files -> Contents]
    BY <1>4 DEF EditSecurity, Quiet, SameRecords, DiskFits, HistoryFits, diskVars, backupVars,
                processVars, recordVars, historyVars
  <2>2. At(h, "security") /\ job' = [job EXCEPT ![h] = [job[h] EXCEPT !.step = "layout"]]
        /\ record' = [record EXCEPT ![job[h].obj] = [@ EXCEPT !.security = job[h].form.security]]
        /\ UNCHANGED <<live, built, stray>>
    BY <1>4 DEF EditSecurity, GoOn
  <2>3. SettingsFit'
    BY <2>2, PostAt DEF SettingsFit, Settings, Forms
  <2> QED
    BY <1>2, <2>1, <2>2, <2>3, PostAt
<1>5. CASE EditLayout(h)
  <2>1. Quiet /\ HistoryFits' /\ file' \in [Files -> Contents]
    BY <1>5 DEF EditLayout, Quiet, SameRecords, DiskFits, HistoryFits, diskVars, backupVars, processVars, recordVars
  <2>2. At(h, "layout") /\ job' = [job EXCEPT ![h] = [job[h] EXCEPT !.step = "check"]]
        /\ record' = [record EXCEPT ![job[h].obj] = [@ EXCEPT !.layout = job[h].form.layout]]
        /\ UNCHANGED <<live, built, stray>>
    BY <1>5 DEF EditLayout, GoOn
  <2>3. SettingsFit'
    BY <2>2, PostAt DEF SettingsFit, Settings, Forms
  <2> QED
    BY <1>2, <2>1, <2>2, <2>3, PostAt
<1>6. CASE CheckLayout(h)
  <2>1. Quiet /\ SettingsFit' /\ HistoryFits' /\ file' \in [Files -> Contents]
    BY <1>6 DEF CheckLayout, TurnAway, Quiet, SameRecords, DiskFits, SettingsFit, HistoryFits, diskVars, backupVars,
                processVars, arenaVars, recordVars, historyVars
  <2>2. At(h, "check")
        /\ \E j \in {Idle, [job[h] EXCEPT !.step = "store"]} : job' = [job EXCEPT ![h] = j]
    BY <1>6 DEF CheckLayout, GoOn, Done
  <2> QED
    BY <1>2, <2>1, <2>2, PostAt, IdleFits
<1>7. CASE StoreForm(h)
  <2>1. At(h, "store") /\ \E j \in {Idle, [job[h] EXCEPT !.step = "load"]} : job' = [job EXCEPT ![h] = j]
    BY <1>7 DEF StoreForm, GoOn, Done
  <2>2. record[job[h].obj] \in Settings
    BY <2>1, PostAt DEF SettingsFit
  <2>3. UNCHANGED <<saved, recent, stage, firstRun, open, db, live, record, built, owed, late, overwritten>>
        /\ stray' \in BOOLEAN
        /\ ((open /\ UpdateEventSettings(record[job[h].obj])) \/ UNCHANGED <<path, file>>)
    BY <1>7 DEF StoreForm, TurnAway, CanUpdate, diskVars, backupVars, processVars, recordVars, SettingsFit
  <2>4. path' = path /\ file' \in [Files -> Contents] /\ SameRecords
    <3>1. CASE open /\ UpdateEventSettings(record[job[h].obj])
      BY <2>2, <3>1, StoreIs
    <3>2. CASE UNCHANGED <<path, file>>
      BY <3>2 DEF DiskFits, SameRecords
    <3> QED
      BY <2>3, <3>1, <3>2
  <2>5. Quiet /\ SettingsFit'
    BY <2>3, <2>4 DEF Quiet, SettingsFit
  <2>6. HistoryFits'
    <3>1. record[job[h].obj].security \in BOOLEAN
      BY <2>2 DEF Settings
    <3> QED
      BY <1>7, <2>3, <3>1 DEF StoreForm, HistoryFits
  <2> QED
    BY <1>2, <2>1, <2>4, <2>5, <2>6, PostAt, IdleFits
<1>8. CASE LoadForm(h)
  <2>1. UNCHANGED <<saved, recent, stage, firstRun, open, db, owed, late, overwritten, chosen, unseeded, crossed>>
        /\ At(h, "load") /\ job' = [job EXCEPT ![h] = Idle]
        /\ (LoadSettings \/ UNCHANGED <<path, file, live, record, built, stray>>)
    BY <1>8 DEF LoadForm, Done, diskVars, arenaVars, backupVars, processVars, recordVars, historyVars
  <2>2. Quiet /\ SettingsFit' /\ file' \in [Files -> Contents]
    <3>1. CASE LoadSettings
      BY <2>1, <3>1, LoadIs DEF Quiet
    <3>2. CASE UNCHANGED <<path, file, live, record, built, stray>>
      BY <2>1, <3>2 DEF Quiet, SameRecords, DiskFits, SettingsFit
    <3> QED
      BY <2>1, <3>1, <3>2
  <2>3. HistoryFits'
    BY <2>1 DEF HistoryFits
  <2> QED
    BY <1>2, <2>1, <2>2, <2>3, PostAt, IdleFits
<1> QED
  BY <1>3, <1>4, <1>5, <1>6, <1>7, <1>8 DEF Posting, Forms

(* What backups, restores, clears and teams write is of its type. *)
LEMMA BackupFits ==
  ASSUME Typed, NEW h \in Requests, NEW reason \in Reasons, NEW step, Backup(h, reason, step)
  PROVE  recent' \in [Reasons -> (SUBSET Records) \cup {NoBackup}] /\ overwritten' \subseteq Records
<1>1. recent \in [Reasons -> (SUBSET Records) \cup {NoBackup}] /\ overwritten \subseteq Records
  BY DEF Typed, DiskFits, HistoryFits
<1>2. ASSUME NEW records \in SUBSET Records, Copy(reason, records)
      PROVE  recent' \in [Reasons -> (SUBSET Records) \cup {NoBackup}] /\ overwritten' \subseteq Records
  BY <1>1, <1>2 DEF Copy
<1>3. open => file[db].records \in SUBSET Records
  BY DEF Typed, DiskFits, ProcessFits, Contents
<1>4. {} \in SUBSET Records
  OBVIOUS
<1> QED
  BY <1>1, <1>2, <1>3, <1>4 DEF Backup
LEMMA RestoringKeepsTyped ==
  ASSUME EventDatabaseAssumption, Typed, NEW h \in Restorers, Restoring(h)
  PROVE  /\ Typed' /\ stage = "running" /\ stage' = stage /\ firstRun' = firstRun
         /\ UNCHANGED <<owed, late, crossed>>
         /\ \A g \in Requests : g = h \/ job'[g] = job[g]
<1> USE DEF Typed
<1>1. h \in Requests /\ JobsFit
  BY DEF Requests
<1>2. Blank \in Contents
  BY DEF Blank, Contents
<1>3. ASSUME NEW j \in RestoreJobs, job' = [job EXCEPT ![h] = j], stage = "running",
             UNCHANGED <<stage, firstRun, owed, late, crossed>>, DiskFits', SettingsFit',
             ProcessFits', overwritten' \subseteq Records, chosen' \in BOOLEAN, unseeded' \in BOOLEAN
      PROVE  /\ Typed' /\ stage = "running" /\ stage' = stage /\ firstRun' = firstRun
             /\ UNCHANGED <<owed, late, crossed>>
             /\ \A g \in Requests : g = h \/ job'[g] = job[g]
  <2>1. JobsFit' /\ \A g \in Requests : g = h \/ job'[g] = job[g]
    BY <1>1, <1>3, RestoreGoesOn
  <2> QED
    BY <1>3, <2>1 DEF HistoryFits, NotYetServing
<1>4. CASE \E upload \in Uploads : TakeUpload(h, upload)
  <2>1. PICK upload \in Uploads : TakeUpload(h, upload)
    BY <1>4
  <2>2. [step |-> "backup", upload |-> upload] \in RestoreJobs
    BY DEF RestoreJobs
  <2>3. /\ job' = [job EXCEPT ![h] = [step |-> "backup", upload |-> upload]] /\ stage = "running"
        /\ UNCHANGED <<path, file, saved, recent, stage, firstRun, db, open, live, record, built, stray,
                       owed, late, overwritten, chosen, unseeded, crossed>>
    BY <2>1 DEF TakeUpload, Takes, diskVars, backupVars, processVars, arenaVars, recordVars, historyVars
  <2>4. DiskFits' /\ SettingsFit' /\ ProcessFits' /\ HistoryFits'
    BY <2>3 DEF DiskFits, SettingsFit, ProcessFits, HistoryFits
  <2> QED
    BY <1>3, <2>2, <2>3, <2>4 DEF HistoryFits
<1>5. CASE BackUpBeforeRestore(h)
  <2>1. /\ At(h, "backup")
        /\ UNCHANGED <<path, file, saved, stage, firstRun, db, open, live, record, built, stray,
                       owed, late, chosen, unseeded, crossed>>
        /\ \E j \in {Idle, [job[h] EXCEPT !.step = "close"]} : job' = [job EXCEPT ![h] = j]
    BY <1>5 DEF BackUpBeforeRestore, Backup, GoOn, Done, diskVars, processVars, arenaVars, recordVars, historyVars
  <2>2. recent' \in [Reasons -> (SUBSET Records) \cup {NoBackup}] /\ overwritten' \subseteq Records
    <3>1. "pre_restore" \in Reasons /\ Backup(h, "pre_restore", "close")
      BY <1>5 DEF BackUpBeforeRestore, Reasons
    <3> QED
      BY <1>1, <3>1, BackupFits
  <2>3. DiskFits' /\ SettingsFit' /\ ProcessFits' /\ HistoryFits'
    BY <2>1, <2>2 DEF DiskFits, SettingsFit, ProcessFits, HistoryFits
  <2>4. stage = "running" /\ \E j \in RestoreJobs : job' = [job EXCEPT ![h] = j]
    BY <2>1, RestoreAt, IdleFits
  <2> QED
    BY <1>3, <2>1, <2>2, <2>3, <2>4 DEF HistoryFits
<1>6. CASE CloseDatabase(h)
  <2>1. /\ At(h, "close") /\ open' = FALSE
        /\ \E j \in {Idle, [job[h] EXCEPT !.step = "remove"]} : job' = [job EXCEPT ![h] = j]
        /\ UNCHANGED <<path, saved, recent, stage, firstRun, db, live, record, built, stray,
                       owed, late, overwritten, chosen, unseeded, crossed>>
        /\ UNCHANGED file \/ Freed(db)
    BY <1>6 DEF CloseDatabase, GoOn, Done, backupVars, arenaVars, recordVars, historyVars
  <2>2. DiskFits' /\ SettingsFit' /\ ProcessFits' /\ HistoryFits'
    BY <1>2, <2>1 DEF Freed, DiskFits, SettingsFit, ProcessFits, HistoryFits
  <2>3. stage = "running" /\ \E j \in RestoreJobs : job' = [job EXCEPT ![h] = j]
    BY <2>1, RestoreAt, IdleFits
  <2> QED
    BY <1>3, <2>1, <2>2, <2>3 DEF HistoryFits
<1>7. CASE RemoveFile(h)
  <2>1. /\ At(h, "remove")
        /\ UNCHANGED <<saved, recent, stage, firstRun, db, open, live, record, built, stray,
                       owed, late, overwritten, chosen, unseeded, crossed>>
        /\ \E j \in {Idle, [job[h] EXCEPT !.step = "rename"]} : job' = [job EXCEPT ![h] = j]
        /\ path' \in {path, NoFile} /\ (UNCHANGED file \/ Freed(path))
    BY <1>7 DEF RemoveFile, GoOn, Done, diskVars, backupVars, processVars, arenaVars, recordVars, historyVars
  <2>2. DiskFits' /\ SettingsFit' /\ ProcessFits' /\ HistoryFits'
    BY <1>2, <2>1 DEF Freed, DiskFits, SettingsFit, ProcessFits, HistoryFits
  <2> QED
    BY <1>3, <2>1, <2>2, RestoreAt, IdleFits DEF HistoryFits
<1>8. CASE RenameUpload(h)
  <2>1. /\ At(h, "rename")
        /\ UNCHANGED <<saved, recent, stage, firstRun, db, open, live, record, built, stray,
                       owed, late, overwritten, crossed>>
        /\ \E j \in {Idle, [job[h] EXCEPT !.step = "open"]} : job' = [job EXCEPT ![h] = j]
    BY <1>8 DEF RenameUpload, GoOn, Done, diskVars, backupVars, processVars, arenaVars, recordVars
  <2>2. job[h].upload \in Contents /\ job[h].upload.settings.security \in BOOLEAN
    <3>1. job[h].upload \in Contents
      BY <2>1, RestoreAt DEF EventDatabaseAssumption
    <3>2. job[h].upload.settings \in Settings \/ job[h].upload.settings = None
      BY <3>1 DEF Contents
    <3>3. CASE job[h].upload.settings = None
      BY <3>1, <3>3 DEF None
    <3>4. CASE job[h].upload.settings \in Settings
      BY <3>1, <3>4 DEF Settings
    <3> QED
      BY <3>2, <3>3, <3>4
  <2>3. path' \in Files \cup {NoFile} /\ file' \in [Files -> Contents]
        /\ overwritten' \subseteq Records /\ chosen' \in BOOLEAN /\ unseeded' \in BOOLEAN
    <3>1. CASE UNCHANGED <<path, file, chosen, unseeded>>
      BY <2>1, <3>1 DEF DiskFits, HistoryFits
    <3>2. CASE /\ path' \in {f \in Files : Free(f)}
               /\ file' = [f \in Files |-> IF f = path' THEN job[h].upload
                            ELSE IF f = path /\ ~(open /\ db = f) THEN Blank ELSE file[f]]
               /\ chosen' = job[h].upload.settings.security /\ unseeded' = FALSE
      BY <1>2, <2>1, <2>2, <3>2 DEF DiskFits, HistoryFits
    <3> QED
      BY <1>8, <3>1, <3>2 DEF RenameUpload, diskVars
  <2>4. DiskFits' /\ SettingsFit' /\ ProcessFits'
    BY <2>1, <2>3 DEF DiskFits, SettingsFit, ProcessFits
  <2> QED
    BY <1>3, <2>1, <2>3, <2>4, RestoreAt, IdleFits
<1>9. CASE ReopenDatabase(h)
  <2>1. /\ At(h, "open")
        /\ UNCHANGED <<saved, recent, stage, firstRun, live, record, built, stray,
                       owed, late, overwritten, chosen, unseeded, crossed>>
        /\ \E j \in {Idle, [job[h] EXCEPT !.step = "load"]} : job' = [job EXCEPT ![h] = j]
        /\ OpenDatabase \/ (db' = NoFile /\ open' = FALSE /\ UNCHANGED <<path, file>>)
    BY <1>9 DEF ReopenDatabase, GoOn, Done, diskVars, backupVars, arenaVars, recordVars, historyVars
  <2>2. /\ path' \in Files \cup {NoFile} /\ file' \in [Files -> Contents]
        /\ open' \in BOOLEAN /\ db' \in Files \cup {NoFile} /\ (open' => db' \in Files)
    <3>1. CASE OpenDatabase
      <4>1. path # NoFile \/ path = NoFile
        OBVIOUS
      <4> QED
        BY <3>1, <4>1, OpenIs
    <3>2. CASE db' = NoFile /\ open' = FALSE /\ UNCHANGED <<path, file>>
      BY <3>2 DEF DiskFits
    <3> QED
      BY <2>1, <3>1, <3>2
  <2>3. DiskFits' /\ SettingsFit' /\ ProcessFits' /\ HistoryFits'
    BY <2>1, <2>2 DEF DiskFits, SettingsFit, ProcessFits, HistoryFits
  <2>4. stage = "running" /\ \E j \in RestoreJobs : job' = [job EXCEPT ![h] = j]
    BY <2>1, RestoreAt, IdleFits
  <2> QED
    BY <1>3, <2>1, <2>3, <2>4 DEF HistoryFits
<1>10. CASE LoadUpload(h)
  <2>1. /\ At(h, "load") /\ job' = [job EXCEPT ![h] = Idle]
        /\ UNCHANGED <<saved, recent, stage, firstRun, db, open, owed, late, overwritten, chosen, unseeded, crossed>>
        /\ (LoadSettings \/ UNCHANGED <<path, file, live, record, built, stray>>)
    BY <1>10 DEF LoadUpload, Done, diskVars, arenaVars, backupVars, processVars, recordVars, historyVars
  <2>2. DiskFits' /\ SettingsFit' /\ ProcessFits' /\ HistoryFits'
    BY <2>1, LoadIs DEF DiskFits, SettingsFit, ProcessFits, HistoryFits
  <2> QED
    BY <1>3, <2>1, <2>2, RestoreAt, IdleFits DEF HistoryFits
<1> QED
  BY <1>4, <1>5, <1>6, <1>7, <1>8, <1>9, <1>10 DEF Restoring

LEMMA ClearingKeepsTyped ==
  ASSUME EventDatabaseAssumption, Typed, NEW h \in Clearers, Clearing(h)
  PROVE  /\ Typed' /\ stage = "running" /\ \A g \in Requests : g = h \/ job'[g] = job[g]
         /\ UNCHANGED <<path, saved, processVars, arenaVars, owed, late, historyVars>>
         /\ \A f \in Files : file'[f].settings = file[f].settings
<1> USE DEF Typed
<1>1. /\ UNCHANGED <<path, saved, processVars, arenaVars, owed, late, historyVars>>
      /\ SettingsFit' /\ ProcessFits'
  BY DEF Clearing, TakeClear, BackUpBeforeClear, Backup, DeleteMatch, diskVars, backupVars,
         processVars, arenaVars, recordVars, SettingsFit, ProcessFits
<1>2. stage = "running"
      /\ (UNCHANGED job \/ \E j \in ClearJobs : job' = [job EXCEPT ![h] = j])
  <2>1. CASE TakeClear(h)
    BY <2>1 DEF TakeClear, Takes, ClearJobs
  <2>2. CASE BackUpBeforeClear(h)
    BY <2>2, ClearAt, IdleFits DEF BackUpBeforeClear, Backup, GoOn, Done
  <2>3. CASE DeleteMatch(h)
    BY <2>3, ClearAt, IdleFits DEF DeleteMatch, Done, requestVars
  <2> QED
    BY <2>1, <2>2, <2>3 DEF Clearing
<1>3. JobsFit' /\ \A g \in Requests : g = h \/ job'[g] = job[g]
  <2>1. CASE UNCHANGED job
    BY <2>1 DEF JobsFit
  <2>2. CASE \E j \in ClearJobs : job' = [job EXCEPT ![h] = j]
    BY <2>2, ClearGoesOn
  <2> QED
    BY <1>2, <2>1, <2>2
<1>4. file' \in [Files -> Contents] /\ \A f \in Files : file'[f].settings = file[f].settings
  <2>1. CASE UNCHANGED file
    BY <2>1 DEF DiskFits
  <2>2. ASSUME NEW m \in Matches, open, file' = [file EXCEPT ![db].records = @ \ {m}]
        PROVE  file' \in [Files -> Contents] /\ \A f \in Files : file'[f].settings = file[f].settings
    BY <2>2 DEF DiskFits, ProcessFits, Contents
  <2> QED
    BY <2>1, <2>2 DEF Clearing, TakeClear, BackUpBeforeClear, Backup, DeleteMatch, diskVars
<1>5. recent' \in [Reasons -> (SUBSET Records) \cup {NoBackup}] /\ overwritten' \subseteq Records
  <2>1. CASE BackUpBeforeClear(h)
    BY <2>1, BackupFits DEF BackUpBeforeClear, Reasons, Requests
  <2>2. CASE UNCHANGED <<recent, overwritten>>
    BY <2>2 DEF DiskFits, HistoryFits
  <2> QED
    BY <2>1, <2>2 DEF Clearing, TakeClear, DeleteMatch, backupVars, recordVars
<1>6. HistoryFits'
  BY <1>1, <1>5 DEF HistoryFits, historyVars
<1> QED
  BY <1>1, <1>2, <1>3, <1>4, <1>5, <1>6 DEF DiskFits, NotYetServing, processVars

LEMMA TeamsKeepTyped ==
  ASSUME EventDatabaseAssumption, Typed, NEW t \in Teams, CreateTeam(t) \/ DeleteTeam(t)
  PROVE  /\ Typed'
         /\ UNCHANGED <<path, backupVars, processVars, arenaVars, requestVars, historyVars>>
         /\ \A f \in Files : file'[f].settings = file[f].settings
<1> USE DEF Typed
<1>1. open /\ db \in Files /\ t \in Records
      /\ UNCHANGED <<path, backupVars, processVars, arenaVars, requestVars, historyVars>>
  BY DEF CreateTeam, DeleteTeam, ProcessFits, Records
<1>2. PICK records \in SUBSET Records : file' = [file EXCEPT ![db] = [file[db] EXCEPT !.records = records]]
  <2>1. file[db].records \in SUBSET Records
    BY <1>1 DEF DiskFits, Contents
  <2>2. file[db].records \cup {t} \in SUBSET Records /\ file[db].records \ {t} \in SUBSET Records
    BY <1>1, <2>1
  <2> QED
    BY <2>2 DEF CreateTeam, DeleteTeam
<1>3. file' \in [Files -> Contents] /\ \A f \in Files : file'[f].settings = file[f].settings
  BY <1>1, <1>2 DEF DiskFits, Contents
<1>4. HistoryFits'
  BY <1>1 DEF CreateTeam, DeleteTeam, HistoryFits, historyVars
<1> QED
  BY <1>1, <1>3, <1>4 DEF DiskFits, SettingsFit, ProcessFits, JobsFit, NotYetServing,
     backupVars, processVars, arenaVars, requestVars

LEMMA SecondKeepsTyped ==
  ASSUME EventDatabaseAssumption, Typed, SecondPasses
  PROVE  Typed'
<1> USE DEF Typed
<1>1. /\ recent' = [r \in Reasons |-> NoBackup]
      /\ saved' = saved \cup (UNION {recent[r] : r \in {s \in Reasons : recent[s] # NoBackup}})
      /\ UNCHANGED <<path, file, stage, firstRun, open, db, live, record, built, stray, job,
                     owed, late, overwritten, chosen, unseeded, crossed>>
  BY DEF SecondPasses, diskVars, processVars, arenaVars, requestVars, recordVars, historyVars
<1>2. \A r \in Reasons : recent[r] # NoBackup => recent[r] \subseteq Records
  BY DEF DiskFits
<1>3. saved' \subseteq Records /\ recent' \in [Reasons -> (SUBSET Records) \cup {NoBackup}]
  BY <1>1, <1>2 DEF DiskFits
<1> QED
  BY <1>1, <1>3 DEF DiskFits, JobsFit, SettingsFit, ProcessFits, HistoryFits, NotYetServing

LEMMA StutterKeepsTyped == ASSUME Typed, UNCHANGED vars PROVE Typed'
  BY DEF Typed, DiskFits, JobsFit, SettingsFit, ProcessFits, HistoryFits, NotYetServing, vars, diskVars,
         backupVars, processVars, arenaVars, requestVars, recordVars, historyVars

LEMMA StepKeepsTyped == ASSUME EventDatabaseAssumption, Typed, [Next]_vars PROVE Typed'
  BY StartingKeepsTyped, StopKeepsTyped, SecondKeepsTyped, PostingKeepsTyped, RestoringKeepsTyped,
     ClearingKeepsTyped, TeamsKeepTyped, StutterKeepsTyped DEF Next

(* Every request, file and structure is of its type, however the requests   *)
(* to the pages overlap.                                                    *)
THEOREM TypeInvariant == Spec => []TypeOK
<1>1. Init => Typed
  BY EventDatabaseAssumption, InitTyped
<1>2. Typed /\ [Next]_vars => Typed'
  BY EventDatabaseAssumption, StepKeepsTyped
<1>3. Typed => TypeOK
  BY DEF Typed, TypeOK, JobsFit, DiskFits, SettingsFit, ProcessFits, HistoryFits, PostJobs, Forms,
         RestoreJobs, ClearJobs
<1> QED
  BY <1>1, <1>2, <1>3, PTL DEF Spec

-----------------------------------------------------------------------------
(* Layouts that are rejected, and the settings that the network is          *)
(* configured by.  A form about to be stored holds a bad layout only if     *)
(* another wrote it there.                                                  *)
CrossedFits ==
  \A h \in Posters : At(h, "store") /\ record[job[h].obj].layout = "invalid" => h \in crossed
SettingsSound == Typed /\ CrossedFits /\ NetworkIsAsStored

(* No form is put into the place of one about to be stored. *)
LEMMA CrossedIsKept ==
  ASSUME CrossedFits,
         \A h \in Posters : At(h, "store")' =>
           /\ At(h, "store") /\ job'[h].obj = job[h].obj /\ (h \in crossed => h \in crossed')
           /\ record'[job[h].obj].layout = "invalid" =>
                record[job[h].obj].layout = "invalid" \/ h \in crossed'
  PROVE  CrossedFits'
  BY DEF CrossedFits
(* Loading puts the settings where no form is being edited. *)
LEMMA LoadKeepsCrossed ==
  ASSUME Typed, CrossedFits, LoadSettings, crossed' = crossed,
         \A h \in Posters : At(h, "store")' => job'[h] = job[h]
  PROVE  CrossedFits'
<1>1. \A h \in Posters : At(h, "store") => job[h].obj \in Structures /\ Held(job[h].obj)
  BY PostAt DEF Held
<1>2. \A s \in Structures : Held(s) => record'[s] = record[s]
  BY LoadIs
<1>3. \A h \in Posters : At(h, "store")' =>
        At(h, "store") /\ job'[h].obj = job[h].obj /\ record'[job[h].obj] = record[job[h].obj]
  BY <1>1, <1>2 DEF At
<1> QED
  BY <1>3, CrossedIsKept

(* What the network is configured by changes with a form in hand, or with   *)
(* one turned away.                                                         *)
LEMMA NetworkIsKept ==
  ASSUME NetworkIsAsStored, UNCHANGED <<built, live, stage>>,
         open' => open /\ db' = db /\ file'[db].settings.security = file[db].settings.security,
         \A h \in Requests : At(h, "load") => At(h, "load")',
         record'[live].security = record[live].security \/ Held(live)' \/ stray',
         Held(live) \/ stray => Held(live)' \/ stray'
  PROVE  NetworkIsAsStored'
<1> SUFFICES ASSUME stage' = "running", open', \A h \in Requests : ~At(h, "load")'
             PROVE  /\ built' = file'[db'].settings.security
                    /\ \/ record'[live'].security = file'[db'].settings.security
                       \/ Held(live)' \/ stray'
  BY DEF NetworkIsAsStored, Held
<1>1. stage = "running" /\ open /\ \A h \in Requests : ~At(h, "load")
  OBVIOUS
<1>2. /\ built = file[db].settings.security
      /\ record[live].security = file[db].settings.security \/ Held(live) \/ stray
  BY <1>1 DEF NetworkIsAsStored
<1> QED
  BY <1>2
LEMMA LoadingFits ==
  ASSUME Typed, LoadSettings, UNCHANGED <<open, db>>
  PROVE  NetworkIsAsStored'
<1>1. /\ built' = file[db].settings.security /\ db \in Files
      /\ record'[live'].security = file[db].settings.security
      /\ file'[db].settings.security = file[db].settings.security
  BY LoadIs DEF SameSecurity
<1> QED
  BY <1>1 DEF NetworkIsAsStored
(* A form that goes on keeps its structure; one that ends leaves the others *)
(* theirs.                                                                  *)
LEMMA FormGoesOn ==
  ASSUME Typed, NEW h \in Posters,
         NEW step \in {"security", "layout", "check", "store", "load"}, At(h, step),
         NEW on \in {"layout", "check", "store", "load"},
         job' = [job EXCEPT ![h] = [job[h] EXCEPT !.step = on]],
         \A g \in Requests : g = h \/ job'[g] = job[g], h \in Requests
  PROVE  job'[h].step = on /\ job'[h].obj = job[h].obj /\ \A s : Held(s)' <=> Held(s)
<1>1. /\ job'[h] = [job[h] EXCEPT !.step = on] /\ job[h] # Idle
      /\ [job[h] EXCEPT !.step = on].step = on /\ [job[h] EXCEPT !.step = on].obj = job[h].obj
  BY PostAt DEF Typed, JobsFit
<1>2. job'[h] # Idle
  BY <1>1 DEF Idle
<1>3. \A g \in Posters : (job'[g] # Idle <=> job[g] # Idle) /\ (job[g] # Idle => job'[g].obj = job[g].obj)
  BY <1>1, <1>2 DEF Requests
<1> QED
  BY <1>1, <1>3 DEF Held
LEMMA FormEnds ==
  ASSUME Typed, NEW h \in Posters, Done(h), \A g \in Requests : g = h \/ job'[g] = job[g], TurnAway(h),
         live' = live
  PROVE  job'[h].step = "none" /\ (Held(live) \/ stray => Held(live)' \/ stray')
<1>1. job'[h].step = "none"
  BY DEF Typed, JobsFit, Done, Idle, Requests
<1>2. Held(live) => Held(live)' \/ live = job[h].obj
  BY DEF Held, Requests
<1> QED
  BY <1>1, <1>2 DEF TurnAway

LEMMA InitSettingsSound == ASSUME EventDatabaseAssumption, Init PROVE SettingsSound
<1>1. Typed
  BY InitTyped
<1>2. (\A h \in Posters : job[h] = Idle) /\ stage = "down"
  BY DEF Init, Stopped, Requests
<1> QED
  BY <1>1, <1>2 DEF SettingsSound, CrossedFits, NetworkIsAsStored, At, Idle

LEMMA StartingKeepsSettingsSound ==
  ASSUME EventDatabaseAssumption, SettingsSound, Starting PROVE SettingsSound'
<1> USE DEF SettingsSound
<1>1. Typed' /\ job' = job /\ \A h \in Posters : job[h] = Idle
  BY StartingKeepsTyped DEF Requests
<1>2. CrossedFits'
  BY <1>1 DEF CrossedFits, At, Idle
<1>3. CASE MainLoads
  BY <1>1, <1>2, <1>3, LoadingFits DEF MainLoads
<1>4. CASE ~MainLoads
  <2>1. stage' # "running"
    BY <1>4 DEF Starting, Start, NewArenaOpens, NewArenaLoads, Seed
  <2> QED
    BY <1>1, <1>2, <2>1 DEF NetworkIsAsStored
<1> QED
  BY <1>3, <1>4

LEMMA StopKeepsSettingsSound ==
  ASSUME EventDatabaseAssumption, SettingsSound, Stop PROVE SettingsSound'
<1>1. Typed' /\ (\A h \in Posters : job'[h] = Idle) /\ stage' = "down"
  BY StopKeepsTyped DEF SettingsSound, Stop, Requests
<1> QED
  BY <1>1 DEF SettingsSound, CrossedFits, NetworkIsAsStored, At, Idle

LEMMA PostingKeepsSettingsSound ==
  ASSUME EventDatabaseAssumption, SettingsSound, NEW h \in Posters, Posting(h) PROVE SettingsSound'
<1> USE DEF SettingsSound
<1>1. /\ Typed' /\ Quiet /\ h \in Requests /\ Posters \subseteq Requests
      /\ \A g \in Requests : g = h \/ job'[g] = job[g]
  BY PostingKeepsTyped DEF Requests
<1>2. ASSUME UNCHANGED <<built, live, file>>, ~At(h, "load"),
             record'[live].security = record[live].security \/ Held(live)' \/ stray',
             Held(live) \/ stray => Held(live)' \/ stray'
      PROVE  NetworkIsAsStored'
  BY <1>1, <1>2, NetworkIsKept DEF Quiet, At
<1>3. CASE \E form \in Forms : TakeForm(h, form)
  <2>1. PICK form \in Forms : TakeForm(h, form)
    BY <1>3
  <2> DEFINE j == [step |-> "security", obj |-> live, form |-> form]
  <2>2. /\ job[h] = Idle /\ job' = [job EXCEPT ![h] = j]
        /\ UNCHANGED <<file, live, record, built, crossed>>
    BY <2>1 DEF TakeForm, Takes, diskVars, arenaVars, historyVars
  <2>3. job'[h] = j /\ ~At(h, "load")
    BY <1>1, <2>2 DEF Typed, JobsFit, At, Idle
  <2>4. Held(live)'
    BY <2>2, <2>3 DEF Held, Idle
  <2>5. CrossedFits'
    BY <1>1, <2>2, <2>3, CrossedIsKept DEF At
  <2> QED
    BY <1>1, <1>2, <2>2, <2>3, <2>4, <2>5
<1>4. CASE EditSecurity(h)
  <2>1. /\ At(h, "security") /\ job' = [job EXCEPT ![h] = [job[h] EXCEPT !.step = "layout"]]
        /\ record' = [record EXCEPT ![job[h].obj] = [@ EXCEPT !.security = job[h].form.security]]
        /\ UNCHANGED <<file, live, built, stray, crossed>>
    BY <1>4 DEF EditSecurity, GoOn, diskVars, historyVars
  <2>2. job'[h].step = "layout" /\ \A s : Held(s)' <=> Held(s)
    BY <1>1, <2>1, FormGoesOn
  <2>3. job[h] # Idle /\ job[h].obj \in Structures /\ live \in Structures
        /\ record \in [Structures -> Settings]
    BY <2>1, PostAt DEF Typed, SettingsFit
  <2>4. /\ \A s \in Structures : record'[s].layout = record[s].layout
        /\ record'[live].security = record[live].security \/ live = job[h].obj
    BY <2>1, <2>3 DEF Settings
  <2>5. live = job[h].obj => Held(live)'
    BY <2>1, <2>2, <2>3 DEF Held
  <2>6. NetworkIsAsStored'
    BY <1>2, <2>1, <2>2, <2>4, <2>5 DEF At
  <2>7. \A g \in Posters : At(g, "store")' => At(g, "store") /\ job'[g] = job[g]
    BY <1>1, <2>2 DEF At
  <2>8. \A g \in Posters : At(g, "store") => job[g].obj \in Structures
    BY PostAt
  <2>9. CrossedFits'
    BY <2>1, <2>4, <2>7, <2>8, CrossedIsKept
  <2> QED
    BY <1>1, <2>6, <2>9
<1>5. CASE EditLayout(h)
  <2>1. /\ At(h, "layout") /\ job' = [job EXCEPT ![h] = [job[h] EXCEPT !.step = "check"]]
        /\ record' = [record EXCEPT ![job[h].obj] = [@ EXCEPT !.layout = job[h].form.layout]]
        /\ UNCHANGED <<file, live, built, stray>>
        /\ crossed' = crossed \cup {g \in Posters : At(g, "store") /\ job[g].obj = job[h].obj}
    BY <1>5 DEF EditLayout, GoOn, diskVars
  <2>2. job'[h].step = "check" /\ \A s : Held(s)' <=> Held(s)
    BY <1>1, <2>1, FormGoesOn
  <2>3. job[h].obj \in Structures /\ live \in Structures /\ record \in [Structures -> Settings]
    BY <2>1, PostAt DEF Typed, SettingsFit
  <2>4. /\ \A s \in Structures : s # job[h].obj => record'[s] = record[s]
        /\ record'[live].security = record[live].security
    BY <2>1, <2>3 DEF Settings
  <2>5. NetworkIsAsStored'
    BY <1>2, <2>1, <2>2, <2>4 DEF At
  <2>6. \A g \in Posters : At(g, "store")' => At(g, "store") /\ job'[g] = job[g]
    BY <1>1, <2>2 DEF At
  <2>7. \A g \in Posters : At(g, "store") => job[g].obj \in Structures
    BY PostAt
  <2>8. \A g \in Posters : At(g, "store") =>
          (g \in crossed => g \in crossed')
          /\ (record'[job[g].obj].layout = "invalid" =>
                record[job[g].obj].layout = "invalid" \/ g \in crossed')
    BY <2>1, <2>4, <2>7
  <2>9. CrossedFits'
    BY <2>6, <2>8, CrossedIsKept
  <2> QED
    BY <1>1, <2>5, <2>9
<1>6. CASE CheckLayout(h)
  <2>1. At(h, "check") /\ UNCHANGED <<file, live, record, built, crossed>>
    BY <1>6 DEF CheckLayout, diskVars, historyVars
  <2>2. CASE record[job[h].obj].layout = "invalid" /\ Done(h) /\ TurnAway(h)
    <3>1. job'[h].step = "none" /\ (Held(live) \/ stray => Held(live)' \/ stray')
      BY <1>1, <2>1, <2>2, FormEnds
    <3>2. NetworkIsAsStored'
      BY <1>2, <2>1, <3>1 DEF At
    <3> QED
      BY <1>1, <2>1, <3>1, <3>2, CrossedIsKept DEF At
  <2>3. CASE record[job[h].obj].layout # "invalid" /\ GoOn(h, "store") /\ UNCHANGED stray
    <3>1. job'[h].obj = job[h].obj /\ \A s : Held(s)' <=> Held(s)
      BY <1>1, <2>1, <2>3, FormGoesOn DEF GoOn
    <3>2. CrossedFits'
      BY <1>1, <2>1, <2>3, <3>1 DEF CrossedFits, At
    <3>3. NetworkIsAsStored'
      BY <1>2, <2>1, <2>3, <3>1 DEF At
    <3> QED
      BY <1>1, <3>2, <3>3
  <2> QED
    BY <1>6, <2>2, <2>3 DEF CheckLayout
<1>7. CASE StoreForm(h)
  <2>1. At(h, "store") /\ UNCHANGED <<live, record, built>> /\ crossed' = crossed \ {h}
    BY <1>7 DEF StoreForm
  <2>2. CASE CanUpdate
    <3>1. job'[h].step = "load"
      BY <1>1, <1>7, <2>1, <2>2, FormGoesOn DEF StoreForm, GoOn
    <3>2. NetworkIsAsStored'
      BY <1>1, <3>1 DEF NetworkIsAsStored, At
    <3> QED
      BY <1>1, <2>1, <3>1, <3>2, CrossedIsKept DEF At
  <2>3. CASE ~CanUpdate
    <3>1. Done(h) /\ TurnAway(h) /\ UNCHANGED file
      BY <1>7, <2>3 DEF StoreForm, diskVars
    <3>2. job'[h].step = "none" /\ (Held(live) \/ stray => Held(live)' \/ stray')
      BY <1>1, <2>1, <3>1, FormEnds
    <3>3. NetworkIsAsStored'
      BY <1>2, <2>1, <3>1, <3>2 DEF At
    <3> QED
      BY <1>1, <2>1, <3>2, <3>3, CrossedIsKept DEF At
  <2> QED
    BY <2>2, <2>3
<1>8. CASE LoadForm(h)
  <2>1. /\ job' = [job EXCEPT ![h] = Idle] /\ crossed' = crossed
        /\ LoadSettings \/ (~open /\ UNCHANGED <<file, record>>)
    BY <1>8 DEF LoadForm, Done, diskVars, arenaVars, historyVars
  <2>2. job'[h].step = "none"
    BY <1>1, <2>1 DEF Typed, JobsFit, Idle
  <2>3. \A g \in Posters : At(g, "store")' => job'[g] = job[g]
    BY <1>1, <2>2 DEF At
  <2>4. CASE LoadSettings
    BY <1>1, <2>1, <2>3, <2>4, LoadKeepsCrossed, LoadingFits DEF Quiet
  <2>5. CASE ~open /\ UNCHANGED <<file, record>>
    <3>1. NetworkIsAsStored'
      BY <1>1, <2>5 DEF NetworkIsAsStored, Quiet
    <3> QED
      BY <1>1, <2>1, <2>3, <2>5, <3>1, CrossedIsKept DEF At
  <2> QED
    BY <2>1, <2>4, <2>5
<1> QED
  BY <1>3, <1>4, <1>5, <1>6, <1>7, <1>8 DEF Posting, Forms

(* A restore never writes to the database that is open. *)
LEMMA RestoringKeepsSettingsSound ==
  ASSUME EventDatabaseAssumption, SettingsSound, NEW h \in Restorers, Restoring(h)
  PROVE  SettingsSound'
<1> USE DEF SettingsSound
<1>1. /\ Typed' /\ stage' = stage /\ crossed' = crossed /\ h \in Requests
      /\ \A g \in Requests : g = h \/ job'[g] = job[g]
  BY RestoringKeepsTyped DEF Requests
<1>2. \A g \in Posters : job'[g] = job[g]
  BY <1>1 DEF EventDatabaseAssumption, Requests
<1>3. ASSUME UNCHANGED record PROVE CrossedFits'
  BY <1>1, <1>2, <1>3 DEF CrossedFits, At
<1>4. ASSUME UNCHANGED <<arenaVars, open, db>>, open => file'[db].settings = file[db].settings,
             ~At(h, "load")
      PROVE  NetworkIsAsStored'
  <2>1. UNCHANGED <<live, record, built, stray>> /\ (Held(live)' <=> Held(live))
    BY <1>2, <1>4 DEF arenaVars, Held
  <2> QED
    BY <1>1, <1>4, <2>1, NetworkIsKept DEF At
<1>5. CASE \E upload \in Uploads : TakeUpload(h, upload)
  <2>1. job[h] = Idle /\ UNCHANGED <<file, open, db, record, arenaVars>>
    BY <1>5 DEF TakeUpload, Takes, diskVars, processVars, arenaVars
  <2> QED
    BY <1>1, <1>3, <1>4, <2>1 DEF At, Idle
<1>6. CASE BackUpBeforeRestore(h)
  BY <1>1, <1>3, <1>4, <1>6 DEF BackUpBeforeRestore, Backup, At, diskVars, processVars, arenaVars
<1>7. CASE CloseDatabase(h)
  <2>1. ~open' /\ UNCHANGED record
    BY <1>7 DEF CloseDatabase, arenaVars
  <2> QED
    BY <1>1, <1>3, <2>1 DEF NetworkIsAsStored
<1>8. CASE RemoveFile(h)
  <2>1. UNCHANGED <<open, db, record, arenaVars>> /\ ~At(h, "load")
    BY <1>8 DEF RemoveFile, At, processVars, arenaVars
  <2>2. open => file'[db].settings = file[db].settings
    BY <1>8 DEF RemoveFile, Freed, diskVars, Typed, DiskFits, ProcessFits
  <2> QED
    BY <1>1, <1>3, <1>4, <2>1, <2>2
<1>9. CASE RenameUpload(h)
  <2>1. UNCHANGED <<open, db, record, arenaVars>> /\ ~At(h, "load")
    BY <1>9 DEF RenameUpload, At, processVars, arenaVars
  <2>2. open => file'[db].settings = file[db].settings
    BY <1>9 DEF RenameUpload, Free, diskVars, Typed, DiskFits, ProcessFits
  <2> QED
    BY <1>1, <1>3, <1>4, <2>1, <2>2
<1>10. CASE ReopenDatabase(h)
  <2>1. At(h, "open") /\ UNCHANGED record
    BY <1>10 DEF ReopenDatabase, arenaVars
  <2>2. CASE GoOn(h, "load")
    <3>1. job'[h].step = "load"
      BY <1>1, <2>1, <2>2, RestoreAt DEF GoOn, Typed, JobsFit
    <3> QED
      BY <1>1, <1>3, <2>1, <3>1 DEF NetworkIsAsStored, At
  <2>3. CASE open' = FALSE
    BY <1>1, <1>3, <2>1, <2>3 DEF NetworkIsAsStored
  <2> QED
    BY <1>10, <2>2, <2>3 DEF ReopenDatabase, diskVars
<1>11. CASE LoadUpload(h)
  <2>1. UNCHANGED <<open, db>> /\ (LoadSettings \/ (~open /\ UNCHANGED record))
    BY <1>11 DEF LoadUpload, diskVars, arenaVars, processVars
  <2>2. CASE LoadSettings
    BY <1>1, <1>2, <2>1, <2>2, LoadKeepsCrossed, LoadingFits
  <2>3. CASE ~open /\ UNCHANGED record
    BY <1>1, <1>3, <2>1, <2>3 DEF NetworkIsAsStored
  <2> QED
    BY <2>1, <2>2, <2>3
<1> QED
  BY <1>5, <1>6, <1>7, <1>8, <1>9, <1>10, <1>11 DEF Restoring

LEMMA ElseKeepsSettingsSound ==
  ASSUME EventDatabaseAssumption, SettingsSound,
         \/ SecondPasses \/ UNCHANGED vars
         \/ \E h \in Clearers : Clearing(h)
         \/ \E t \in Teams : CreateTeam(t) \/ DeleteTeam(t)
  PROVE  SettingsSound'
<1> USE DEF SettingsSound
<1>1. ASSUME UNCHANGED <<stage, open, db, live, record, built, stray, crossed>>,
             open => file'[db].settings = file[db].settings,
             \A h \in Posters \cup Restorers : job'[h] = job[h],
             \A h \in Clearers : ~At(h, "load")
      PROVE  CrossedFits' /\ NetworkIsAsStored'
  <2>1. CrossedFits'
    BY <1>1 DEF CrossedFits, At
  <2>2. \A h \in Requests : At(h, "load") => At(h, "load")'
    BY <1>1 DEF At, Requests
  <2>3. Held(live)' <=> Held(live)
    BY <1>1 DEF Held
  <2> QED
    BY <1>1, <2>1, <2>2, <2>3, NetworkIsKept
<1>2. \A h \in Clearers : ~At(h, "load")
  BY DEF Typed, JobsFit, ClearJobs, At, Idle
<1>3. open => db \in Files
  BY DEF Typed, ProcessFits
<1>4. CASE SecondPasses \/ UNCHANGED vars
  <2>1. UNCHANGED <<stage, open, db, live, record, built, stray, crossed, file, job>>
    BY <1>4 DEF SecondPasses, vars, diskVars, processVars, arenaVars, requestVars, historyVars
  <2> QED
    BY <1>1, <1>2, <1>4, <2>1, SecondKeepsTyped, StutterKeepsTyped
<1>5. ASSUME NEW h \in Clearers, Clearing(h) PROVE SettingsSound'
  <2>1. /\ Typed' /\ UNCHANGED <<stage, open, db, live, record, built, stray, crossed>>
        /\ open => file'[db].settings = file[db].settings
        /\ \A g \in Posters \cup Restorers : job'[g] = job[g]
    BY <1>3, <1>5, ClearingKeepsTyped
       DEF EventDatabaseAssumption, Requests, processVars, arenaVars, historyVars
  <2> QED
    BY <1>1, <1>2, <2>1
<1>6. ASSUME NEW t \in Teams, CreateTeam(t) \/ DeleteTeam(t) PROVE SettingsSound'
  <2>1. /\ Typed' /\ UNCHANGED <<stage, open, db, live, record, built, stray, crossed, job>>
        /\ open => file'[db].settings = file[db].settings
    BY <1>3, <1>6, TeamsKeepTyped DEF processVars, arenaVars, requestVars, historyVars
  <2> QED
    BY <1>1, <1>2, <2>1
<1> QED
  BY <1>4, <1>5, <1>6

LEMMA SettingsAreSound == Spec => []SettingsSound
<1>1. Init => SettingsSound
  BY EventDatabaseAssumption, InitSettingsSound
<1>2. SettingsSound /\ [Next]_vars => SettingsSound'
  BY EventDatabaseAssumption, StartingKeepsSettingsSound, StopKeepsSettingsSound,
     PostingKeepsSettingsSound, RestoringKeepsSettingsSound, ElseKeepsSettingsSound DEF Next
<1> QED
  BY <1>1, <1>2, PTL DEF Spec

(* While the database is open and no settings are about to be loaded, the   *)
(* access point's client was built with network security as it is stored,   *)
(* and the structure by which the arena decides whether to configure the    *)
(* network says the same unless a form in hand, or turned away, wrote into  *)
(* it: however forms, restores and restarts overlap (LoadSettings,          *)
(* settingsPostHandler).                                                    *)
THEOREM NetworkSafety == Spec => []NetworkIsAsStored
<1>1. SettingsSound => NetworkIsAsStored
  BY DEF SettingsSound
<1> QED
  BY <1>1, SettingsAreSound, PTL

(* A layout that cannot be rendered is stored only by a form whose checked  *)
(* layout another form replaced, for any number of forms                    *)
(* (settingsPostHandler).                                                   *)
THEOREM LayoutSafety == Spec => BadLayoutsRejected
<1>1. SettingsSound =>
        \A h \in Posters : StoreForm(h) /\ CanUpdate /\ record[job[h].obj].layout = "invalid" =>
          h \in crossed
  BY DEF SettingsSound, CrossedFits, StoreForm
<1> QED
  BY <1>1, SettingsAreSound, PTL DEF BadLayoutsRejected

-----------------------------------------------------------------------------
(* One restore at a time: the database in use is the one that the next      *)
(* start opens, and it is closed before its file is removed.                *)
InUse == open => db = path
RestoreFits ==
  \A h \in Restorers :
    /\ job[h].step \in {"remove", "rename", "open"} => ~open
    /\ job[h].step = "rename" => path = NoFile
    /\ job[h].step = "open" => path \in Files
(* How far a start has come: the first run is one that found no file, and   *)
(* what it loads is what it stores again but for the configured security.   *)
StartFits ==
  /\ stage \in {"down", "running"} => ~firstRun
  /\ stage = "starting" => (firstRun <=> path = NoFile)
  /\ stage \in {"loading", "seeding", "reloading"} => open
  /\ stage = "seeding" /\ ~firstRun => record[live].security = file[path].settings.security
Unseeded == unseeded \/ (firstRun /\ stage \in {"loading", "seeding"})
SecurityKept == path \in Files /\ ~Unseeded => file[path].settings.security = chosen
InOrder == Typed /\ InUse /\ RestoreFits /\ StartFits /\ SecurityKept

LEMMA InitInOrder == ASSUME EventDatabaseAssumption, Init PROVE InOrder
<1>1. Typed /\ ~open /\ (\A h \in Restorers : job[h] = Idle) /\ stage = "down" /\ firstRun = FALSE
  BY InitTyped DEF Init, Stopped, Requests
<1>2. SecurityKept
  BY <1>1 DEF Init, SecurityKept, EventDatabaseAssumption
<1> QED
  BY <1>1, <1>2 DEF InOrder, InUse, RestoreFits, StartFits, Idle

LEMMA StartingKeepsInOrder ==
  ASSUME EventDatabaseAssumption, InOrder, Starting PROVE InOrder'
<1> USE DEF InOrder
<1>1. Typed' /\ \A h \in Restorers : job'[h] = Idle
  BY StartingKeepsTyped DEF Requests
<1>2. RestoreFits'
  BY <1>1 DEF RestoreFits, Idle
<1>3. CASE Start
  <2>1. /\ stage = "down" /\ stage' = "starting" /\ firstRun' = (path = NoFile)
        /\ UNCHANGED <<path, file, db, open, chosen, unseeded>>
    BY <1>3 DEF Start, diskVars, historyVars
  <2> QED
    BY <1>1, <1>2, <2>1 DEF InUse, StartFits, SecurityKept, Unseeded
<1>4. CASE NewArenaOpens
  <2>1. /\ stage = "starting" /\ stage' = "loading" /\ OpenDatabase
        /\ UNCHANGED <<firstRun, chosen, unseeded>>
    BY <1>4 DEF NewArenaOpens, historyVars
  <2>2. open' = TRUE /\ db' = path' /\ (path # NoFile => path' = path /\ file' = file)
    BY <2>1, OpenIs
  <2> QED
    BY <1>1, <1>2, <2>1, <2>2 DEF InUse, StartFits, SecurityKept, Unseeded
<1>5. CASE NewArenaLoads \/ MainLoads
  <2>1. LoadSettings /\ UNCHANGED <<open, db, chosen, unseeded>>
    BY <1>5 DEF NewArenaLoads, MainLoads, historyVars
  <2>2. /\ path' = path /\ db = path /\ path \in Files /\ open
        /\ file'[path].settings.security = file[path].settings.security
        /\ record'[live'].security = file[path].settings.security
    BY <2>1, LoadIs DEF InUse, SameSecurity, Typed, SettingsFit
  <2>3. \/ stage = "loading" /\ stage' = "seeding" /\ firstRun' = firstRun
        \/ stage = "reloading" /\ stage' = "running" /\ firstRun' = FALSE
    BY <1>5 DEF NewArenaLoads, MainLoads
  <2>4. InUse' /\ StartFits'
    BY <2>1, <2>2, <2>3 DEF InUse, StartFits
  <2>5. SecurityKept'
    BY <2>1, <2>2, <2>3 DEF SecurityKept, Unseeded
  <2> QED
    BY <1>1, <1>2, <2>4, <2>5
<1>6. CASE Seed
  <2>1. /\ stage = "seeding" /\ stage' = "reloading" /\ UNCHANGED <<path, firstRun, open, db>>
        /\ UpdateEventSettings(Seeded)
        /\ IF firstRun THEN chosen' = Configured /\ unseeded' = FALSE ELSE UNCHANGED <<chosen, unseeded>>
    BY <1>6 DEF Seed, UpdateEventSettings
  <2>2. open /\ db = path /\ path \in Files
    BY <2>1 DEF StartFits, InUse, Typed, ProcessFits
  <2>3. Seeded \in Settings /\ Seeded.security = IF firstRun THEN Configured ELSE record[live].security
    BY DEF Seeded, Typed, SettingsFit, Settings, EventDatabaseAssumption
  <2>4. file'[path].settings.security = IF firstRun THEN Configured ELSE record[live].security
    BY <2>1, <2>2, <2>3, StoreIs
  <2>5. SecurityKept'
    <3>1. CASE firstRun
      BY <2>1, <2>4, <3>1 DEF SecurityKept, Unseeded
    <3>2. CASE ~firstRun
      BY <2>1, <2>2, <2>4, <3>2 DEF SecurityKept, Unseeded, StartFits
    <3> QED
      BY <3>1, <3>2
  <2> QED
    BY <1>1, <1>2, <2>1, <2>2, <2>5 DEF InUse, StartFits
<1> QED
  BY <1>3, <1>4, <1>5, <1>6 DEF Starting

LEMMA StopKeepsInOrder ==
  ASSUME EventDatabaseAssumption, InOrder, Stop PROVE InOrder'
<1> USE DEF InOrder
<1>1. /\ Typed' /\ open' = FALSE /\ stage' = "down" /\ firstRun' = FALSE
      /\ \A h \in Restorers : job'[h] = Idle
      /\ UNCHANGED <<path, file, chosen>> /\ unseeded' = (unseeded \/ (firstRun /\ stage \in {"loading", "seeding"}))
  BY StopKeepsTyped DEF Requests, Stop
<1>2. SecurityKept'
  BY <1>1 DEF SecurityKept, Unseeded
<1> QED
  BY <1>1, <1>2 DEF InUse, RestoreFits, StartFits, Idle

(* Requests are handled only once the program runs. *)
LEMMA RunningKeepsInOrder ==
  ASSUME InOrder, Typed', stage = "running", UNCHANGED <<stage, firstRun>>,
         open' => db' = path', RestoreFits',
         path' \in Files /\ ~unseeded' => file'[path'].settings.security = chosen'
  PROVE  InOrder'
  BY DEF InOrder, InUse, StartFits, SecurityKept, Unseeded

LEMMA PostingKeepsInOrder ==
  ASSUME EventDatabaseAssumption, InOrder, NEW h \in Posters, Posting(h) PROVE InOrder'
<1> USE DEF InOrder
<1>1. /\ Typed' /\ stage = "running" /\ ~firstRun
      /\ UNCHANGED <<path, stage, firstRun, open, db>>
      /\ \A g \in Restorers : job'[g] = job[g]
  <2>1. h \notin Restorers /\ Restorers \subseteq Requests
    BY DEF EventDatabaseAssumption, Requests
  <2> QED
    BY <2>1, PostingKeepsTyped DEF Quiet, StartFits
<1>2. RestoreFits' /\ (open' => db' = path')
  BY <1>1 DEF RestoreFits, InUse
<1>3. path \in Files /\ ~unseeded' => file'[path].settings.security = chosen'
  <2>1. CASE StoreForm(h) /\ CanUpdate
    <3>1. At(h, "store") /\ open /\ UpdateEventSettings(record[job[h].obj])
          /\ chosen' = record[job[h].obj].security
      BY <2>1 DEF StoreForm, CanUpdate
    <3>2. record[job[h].obj] \in Settings
      BY <3>1, PostAt DEF Typed, SettingsFit
    <3>3. file'[db].settings = record[job[h].obj]
      BY <3>1, <3>2, StoreIs
    <3> QED
      BY <3>1, <3>3 DEF InUse
  <2>2. CASE ~(StoreForm(h) /\ CanUpdate)
    <3>1. UNCHANGED <<chosen, unseeded>> /\ (LoadSettings \/ UNCHANGED file)
      BY <2>2 DEF Posting, TakeForm, EditSecurity, EditLayout, CheckLayout, StoreForm, LoadForm,
                  diskVars, historyVars
    <3>2. path \in Files => file'[path].settings.security = file[path].settings.security
      BY <3>1, LoadIs DEF SameSecurity
    <3> QED
      BY <1>1, <3>1, <3>2 DEF SecurityKept, Unseeded
  <2> QED
    BY <2>1, <2>2
<1> QED
  BY <1>1, <1>2, <1>3, RunningKeepsInOrder

LEMMA RestoringKeepsInOrder ==
  ASSUME EventDatabaseAssumption, OneRestore, InOrder, NEW h \in Restorers, Restoring(h)
  PROVE  InOrder'
<1> USE DEF InOrder
<1>1. /\ Typed' /\ stage = "running" /\ UNCHANGED <<stage, firstRun>> /\ ~firstRun
      /\ h \in DOMAIN job /\ \A g \in Restorers : g = h
  BY RestoringKeepsTyped DEF StartFits, OneRestore, Typed, JobsFit, Requests
<1>2. ASSUME UNCHANGED <<path, open, db, chosen, unseeded>>,
             path \in Files => file'[path].settings.security = file[path].settings.security,
             job'[h].step \in {"none", "backup", "close", "load"}
      PROVE  InOrder'
  <2>1. RestoreFits' /\ (open' => db' = path')
    BY <1>1, <1>2 DEF RestoreFits, InUse
  <2>2. path' \in Files /\ ~unseeded' => file'[path'].settings.security = chosen'
    BY <1>1, <1>2 DEF SecurityKept, Unseeded
  <2> QED
    BY <1>1, <2>1, <2>2, RunningKeepsInOrder
<1>3. path \in Files /\ ~unseeded => file[path].settings.security = chosen
  BY <1>1 DEF SecurityKept, Unseeded
<1>4. \A step \in {"backup", "close", "remove", "rename", "open", "load"} : At(h, step) =>
        \A on \in {"close", "remove", "rename", "open", "load"} :
          (GoOn(h, on) => job'[h].step = on) /\ (Done(h) => job'[h].step = "none")
  BY RestoreMovesOn
<1>5. CASE \E upload \in Uploads : TakeUpload(h, upload)
  <2>1. UNCHANGED <<path, file, open, db, chosen, unseeded>> /\ job'[h].step = "backup"
    BY <1>1, <1>5 DEF TakeUpload, Takes, diskVars, processVars, historyVars
  <2> QED
    BY <1>2, <2>1
<1>6. CASE BackUpBeforeRestore(h)
  <2>1. UNCHANGED <<path, file, open, db, chosen, unseeded>> /\ At(h, "backup")
        /\ (GoOn(h, "close") \/ Done(h))
    BY <1>6 DEF BackUpBeforeRestore, Backup, diskVars, processVars, historyVars
  <2> QED
    BY <1>2, <1>4, <2>1
<1>7. CASE CloseDatabase(h)
  <2>1. /\ At(h, "close") /\ (GoOn(h, "remove") \/ Done(h)) /\ open' = FALSE
        /\ UNCHANGED <<path, chosen, unseeded>>
        /\ IF db \in {path, NoFile} THEN UNCHANGED file ELSE Freed(db)
    BY <1>7 DEF CloseDatabase, historyVars
  <2>2. path \in Files => file'[path] = file[path]
    BY <2>1 DEF Freed, Typed, DiskFits
  <2>3. RestoreFits'
    BY <1>1, <1>4, <2>1 DEF RestoreFits
  <2> QED
    BY <1>1, <1>3, <2>1, <2>2, <2>3, RunningKeepsInOrder
<1>8. CASE RemoveFile(h)
  <2>1. At(h, "remove") /\ UNCHANGED <<open, db, chosen, unseeded>>
    BY <1>8 DEF RemoveFile, processVars, historyVars
  <2>2. ~open
    BY <2>1 DEF RestoreFits, At
  <2>3. CASE path' = NoFile /\ GoOn(h, "rename")
    <3>1. RestoreFits'
      BY <1>1, <1>4, <2>1, <2>2, <2>3 DEF RestoreFits
    <3> QED
      BY <1>1, <2>1, <2>2, <2>3, <3>1, RunningKeepsInOrder DEF EventDatabaseAssumption
  <2>4. CASE Done(h) /\ UNCHANGED <<path, file>>
    BY <1>2, <1>4, <2>1, <2>4
  <2> QED
    BY <1>8, <2>3, <2>4 DEF RemoveFile, diskVars
<1>9. CASE RenameUpload(h)
  <2>1. At(h, "rename") /\ UNCHANGED <<open, db>>
    BY <1>9 DEF RenameUpload, processVars
  <2>2. ~open
    BY <2>1 DEF RestoreFits, At
  <2>3. CASE /\ path' \in {f \in Files : Free(f)} /\ GoOn(h, "open")
             /\ file' = [f \in Files |-> IF f = path' THEN job[h].upload
                          ELSE IF f = path /\ ~(open /\ db = f) THEN Blank ELSE file[f]]
             /\ chosen' = job[h].upload.settings.security
    <3>1. RestoreFits'
      BY <1>1, <1>4, <2>1, <2>2, <2>3 DEF RestoreFits
    <3> QED
      BY <1>1, <2>1, <2>2, <2>3, <3>1, RunningKeepsInOrder
  <2>4. CASE Done(h) /\ UNCHANGED <<path, file, chosen, unseeded>>
    BY <1>2, <1>4, <2>1, <2>4
  <2> QED
    BY <1>9, <2>3, <2>4 DEF RenameUpload, diskVars
<1>10. CASE ReopenDatabase(h)
  <2>1. At(h, "open") /\ UNCHANGED <<chosen, unseeded>>
    BY <1>10 DEF ReopenDatabase, historyVars
  <2>2. path \in Files /\ path # NoFile
    BY <2>1 DEF RestoreFits, At, EventDatabaseAssumption
  <2>3. CASE OpenDatabase /\ GoOn(h, "load")
    <3>1. path' = path /\ file' = file /\ open' = TRUE /\ db' = path'
      BY <2>2, <2>3, OpenIs
    <3>2. RestoreFits'
      BY <1>1, <1>4, <2>1, <2>3 DEF RestoreFits
    <3> QED
      BY <1>1, <1>3, <2>1, <3>1, <3>2, RunningKeepsInOrder
  <2>4. CASE Done(h) /\ open' = FALSE /\ UNCHANGED <<path, file>>
    <3>1. RestoreFits'
      BY <1>1, <1>4, <2>1, <2>4 DEF RestoreFits
    <3> QED
      BY <1>1, <1>3, <2>1, <2>4, <3>1, RunningKeepsInOrder
  <2> QED
    BY <1>10, <2>3, <2>4 DEF ReopenDatabase, diskVars
<1>11. CASE LoadUpload(h)
  <2>1. At(h, "load") /\ Done(h) /\ UNCHANGED <<open, db, chosen, unseeded>>
        /\ (LoadSettings \/ UNCHANGED <<path, file>>)
    BY <1>11 DEF LoadUpload, diskVars, processVars, historyVars
  <2>2. path' = path /\ (path \in Files => file'[path].settings.security = file[path].settings.security)
    BY <2>1, LoadIs DEF SameSecurity
  <2> QED
    BY <1>2, <1>4, <2>1, <2>2
<1> QED
  BY <1>5, <1>6, <1>7, <1>8, <1>9, <1>10, <1>11 DEF Restoring

LEMMA ElseKeepsInOrder ==
  ASSUME EventDatabaseAssumption, InOrder,
         \/ SecondPasses \/ UNCHANGED vars
         \/ \E h \in Clearers : Clearing(h)
         \/ \E t \in Teams : CreateTeam(t) \/ DeleteTeam(t)
  PROVE  InOrder'
<1> USE DEF InOrder
<1>1. ASSUME Typed', UNCHANGED <<path, stage, firstRun, open, db, live, record, chosen, unseeded>>,
             \A f \in Files : file'[f].settings = file[f].settings,
             \A g \in Restorers : job'[g] = job[g]
      PROVE  InOrder'
  <2>1. open => path \in Files
    BY DEF InUse, Typed, ProcessFits
  <2>2. InUse' /\ RestoreFits'
    BY <1>1 DEF InUse, RestoreFits
  <2>3. StartFits' /\ SecurityKept'
    BY <1>1, <2>1 DEF StartFits, SecurityKept, Unseeded
  <2> QED
    BY <1>1, <2>2, <2>3
<1>2. CASE SecondPasses \/ UNCHANGED vars
  <2>1. UNCHANGED <<path, stage, firstRun, open, db, live, record, chosen, unseeded, file, job>>
    BY <1>2 DEF SecondPasses, vars, diskVars, processVars, arenaVars, requestVars, historyVars
  <2> QED
    BY <1>1, <1>2, <2>1, SecondKeepsTyped, StutterKeepsTyped
<1>3. ASSUME NEW h \in Clearers, Clearing(h) PROVE InOrder'
  BY <1>1, <1>3, ClearingKeepsTyped
     DEF EventDatabaseAssumption, Requests, processVars, arenaVars, historyVars
<1>4. ASSUME NEW t \in Teams, CreateTeam(t) \/ DeleteTeam(t) PROVE InOrder'
  BY <1>1, <1>4, TeamsKeepTyped DEF processVars, arenaVars, requestVars, historyVars
<1> QED
  BY <1>2, <1>3, <1>4

LEMMA OneRestoreIsInOrder ==
  ASSUME OneRestore
  PROVE  Spec => []InOrder
<1>1. Init => InOrder
  BY EventDatabaseAssumption, InitInOrder
<1>2. InOrder /\ [Next]_vars => InOrder'
  BY EventDatabaseAssumption, StartingKeepsInOrder, StopKeepsInOrder, PostingKeepsInOrder,
     RestoringKeepsInOrder, ElseKeepsInOrder DEF Next
<1> QED
  BY <1>1, <1>2, PTL DEF Spec

(* Network security is what was saved or restored last, or configured for   *)
(* the first run, across restarts and half-done restores, one restore at a  *)
(* time (main, settingsPostHandler, restoreDbHandler).                      *)
THEOREM SecuritySafety ==
  ASSUME OneRestore
  PROVE  Spec => []SecurityAsChosen
<1>1. InOrder => SecurityAsChosen
  BY DEF InOrder, InUse, SecurityKept, Unseeded, SecurityAsChosen, Typed, ProcessFits
<1> QED
  BY <1>1, OneRestoreIsInOrder, PTL

-----------------------------------------------------------------------------
(* What a restore or a clear is about to remove is in a backup, and so is   *)
(* all that is due once the file in use is not the one that the next start  *)
(* opens.                                                                   *)
Replacing == {"close", "remove", "rename"}
AllBackedUp == Due \subseteq BackedUp
NothingLost ==
  /\ RecordsAreKept
  /\ \A h \in Restorers : job[h].step \in Replacing => AllBackedUp
  /\ \A h \in Clearers : job[h].step = "delete" => Due \cap Matches \subseteq BackedUp
  /\ open /\ db # path => AllBackedUp

LEMMA BackedUpIs ==
  \A x : x \in BackedUp <=> x \in saved \/ \E r \in Reasons : x \in recent[r] /\ x # "none"
BY DEF BackedUp, NoBackup
LEMMA InPlaceIs ==
  ASSUME EventDatabaseAssumption, Typed
  PROVE  \A x : x \in InPlace <=> path \in Files /\ x \in file[path].records
BY DEF InPlace, Typed, DiskFits, EventDatabaseAssumption
LEMMA InPlaceNext ==
  ASSUME EventDatabaseAssumption, Typed'
  PROVE  \A x : x \in InPlace' <=> path' \in Files /\ x \in file'[path'].records
BY DEF InPlace, Typed, DiskFits, EventDatabaseAssumption

LEMMA InitNothingLost == ASSUME EventDatabaseAssumption, Init PROVE NothingLost
<1>1. Typed /\ ~open /\ \A h \in Requests : job[h] = Idle
  BY InitTyped DEF Init, Stopped
<1>2. RecordsAreKept
  BY <1>1, InPlaceIs DEF Init, RecordsAreKept, Due
<1> QED
  BY <1>1, <1>2 DEF NothingLost, Requests, Idle, Replacing

(* Nothing more is due, and all that was kept is still kept.                *)
LEMMA NothingMoreIsDue ==
  ASSUME NothingLost, Due' \subseteq Due,
         \A x \in Due' : x \in BackedUp => x \in BackedUp',
         \A x \in Due' : x \in InPlace => x \in InPlace' \/ x \in BackedUp',
         \A h \in Restorers : job'[h].step \in Replacing => job[h].step \in Replacing \/ AllBackedUp',
         \A h \in Clearers : job'[h].step = "delete" => job[h].step = "delete" \/ AllBackedUp',
         open' /\ db' # path' => (open /\ db # path) \/ AllBackedUp'
  PROVE  NothingLost'
<1>1. RecordsAreKept'
  BY DEF NothingLost, RecordsAreKept
<1>2. AllBackedUp => AllBackedUp'
  BY DEF AllBackedUp
<1>3. \A h \in Clearers : job'[h].step = "delete" => (Due \cap Matches \subseteq BackedUp)'
  <2>1. Due \cap Matches \subseteq BackedUp => (Due \cap Matches \subseteq BackedUp)'
    OBVIOUS
  <2> QED
    BY <2>1 DEF NothingLost, AllBackedUp
<1> QED
  BY <1>1, <1>2, <1>3 DEF NothingLost
LEMMA AllIsBackedUp ==
  ASSUME AllBackedUp' PROVE NothingLost'
BY DEF NothingLost, AllBackedUp, RecordsAreKept

(* Steps that change neither backups nor, in the file that counts, records, *)
(* and let no request near them.                                            *)
Critical == Replacing \cup {"delete"}
LEMMA SameRecordsKeepNothingLost ==
  ASSUME EventDatabaseAssumption, Typed, Typed', NothingLost, UNCHANGED <<saved, recent, recordVars>>,
         path \in Files => path' = path /\ file'[path].records = file[path].records,
         \A h \in Restorers \cup Clearers :
           job'[h].step \in Critical => job'[h].step = job[h].step,
         open' /\ db' # path' => open /\ db # path
  PROVE  NothingLost'
<1>1. Due' = Due /\ BackedUp' = BackedUp
  BY DEF Due, BackedUp, recordVars
<1>2. \A x : x \in InPlace => x \in InPlace'
  <2>1. \A x : x \in InPlace => path \in Files /\ x \in file[path].records
    BY InPlaceIs
  <2>2. \A x : path' \in Files /\ x \in file'[path'].records => x \in InPlace'
    BY InPlaceNext
  <2> QED
    BY <2>1, <2>2
<1>3. \A h \in Restorers : job'[h].step \in Replacing => job[h].step \in Replacing
  BY DEF Critical
<1>4. \A h \in Clearers : job'[h].step = "delete" => job[h].step = "delete"
  BY DEF Critical
<1> QED
  BY <1>1, <1>2, <1>3, <1>4, NothingMoreIsDue

LEMMA StartingKeepsNothingLost ==
  ASSUME EventDatabaseAssumption, Typed, NothingLost, Starting PROVE NothingLost'
<1>1. /\ Typed' /\ job' = job /\ UNCHANGED <<saved, recent, recordVars>>
  BY StartingKeepsTyped DEF recordVars
<1>2. /\ path \in Files => path' = path /\ file'[path].records = file[path].records
      /\ open' /\ db' # path' => open /\ db # path
  <2>1. CASE Start
    BY <2>1 DEF Start, diskVars
  <2>2. CASE NewArenaOpens
    BY <2>2, OpenIs DEF NewArenaOpens, EventDatabaseAssumption
  <2>3. CASE NewArenaLoads \/ MainLoads
    BY <2>3, LoadIs DEF NewArenaLoads, MainLoads, SameRecords
  <2>4. CASE Seed
    BY <2>4 DEF Seed, UpdateEventSettings, Typed, DiskFits, Contents
  <2> QED
    BY <2>1, <2>2, <2>3, <2>4 DEF Starting
<1> QED
  BY <1>1, <1>2, SameRecordsKeepNothingLost

LEMMA StopKeepsNothingLost ==
  ASSUME EventDatabaseAssumption, Typed, NothingLost, Stop PROVE NothingLost'
<1>1. /\ Typed' /\ UNCHANGED <<path, file, saved, recent, recordVars>> /\ open' = FALSE
      /\ \A h \in Requests : job'[h] = Idle
  BY StopKeepsTyped DEF recordVars
<1>2. \A h \in Restorers \cup Clearers : job'[h].step \notin Critical
  BY <1>1 DEF Requests, Idle, Critical, Replacing
<1> QED
  BY <1>1, <1>2, SameRecordsKeepNothingLost

LEMMA PostingKeepsNothingLost ==
  ASSUME EventDatabaseAssumption, Typed, NothingLost, NEW h \in Posters, Posting(h)
  PROVE  NothingLost'
<1>1. Typed' /\ Quiet /\ \A g \in Requests : g = h \/ job'[g] = job[g]
  BY PostingKeepsTyped
<1>2. \A g \in Restorers \cup Clearers : job'[g] = job[g]
  BY <1>1 DEF EventDatabaseAssumption, Requests
<1>3. UNCHANGED recordVars
  BY <1>1 DEF Quiet, recordVars
<1> QED
  BY <1>1, <1>2, <1>3, SameRecordsKeepNothingLost DEF Quiet, SameRecords

(* Backups get their last name: what is in one stays so. *)
LEMMA SecondKeepsNothingLost ==
  ASSUME NothingLost, SecondPasses PROVE NothingLost'
<1>1. /\ saved' = saved \cup (UNION {recent[r] : r \in {s \in Reasons : recent[s] # NoBackup}})
      /\ UNCHANGED <<path, file, job, open, db, owed, late, overwritten>>
  BY DEF SecondPasses, diskVars, processVars, requestVars, recordVars
<1>2. \A x : x \in BackedUp => x \in BackedUp'
  <2>1. ASSUME NEW x, x \in BackedUp PROVE x \in saved'
    <3>1. CASE x \in saved
      BY <1>1, <3>1
    <3>2. ASSUME NEW r \in Reasons, x \in recent[r], x # "none" PROVE x \in saved'
      BY <1>1, <3>2 DEF NoBackup
    <3> QED
      BY <2>1, <3>1, <3>2, BackedUpIs
  <2> QED
    BY <2>1 DEF BackedUp
<1>3. Due' = Due /\ InPlace' = InPlace
  BY <1>1 DEF Due, InPlace
<1> QED
  BY <1>1, <1>2, <1>3, NothingMoreIsDue

(* The backup that a restore and a clear begin with: what it writes over is *)
(* in it again or overwritten, and it goes on only with all that is due.    *)
LEMMA CopyKeeps ==
  ASSUME EventDatabaseAssumption, Typed, NEW reason \in Reasons, NEW records \in SUBSET Records,
         Copy(reason, records), UNCHANGED <<saved, owed, late>>
  PROVE  /\ Due' \subseteq Due
         /\ \A x \in Due' : x \in BackedUp => x \in BackedUp'
         /\ \A x \in records : x \in BackedUp'
<1>1. /\ recent'[reason] = records /\ \A r \in Reasons : r # reason => recent'[r] = recent[r]
      /\ overwritten' = overwritten \cup ((recent[reason] \ NoBackup) \ records)
  BY DEF Copy, Typed, DiskFits
<1>2. Due' \subseteq Due
  BY <1>1 DEF Due
<1>3. ASSUME NEW x \in Due', x \in BackedUp PROVE x \in BackedUp'
  <2>1. CASE x \in saved
    BY <2>1 DEF BackedUp
  <2>2. ASSUME NEW r \in Reasons, x \in recent[r], x # "none" PROVE x \in recent'[r]
    <3>1. CASE r # reason
      BY <1>1, <2>2, <3>1
    <3>2. CASE r = reason
      BY <1>1, <1>3, <2>2, <3>2 DEF Due, NoBackup
    <3> QED
      BY <3>1, <3>2
  <2>3. \A r \in Reasons : x \in recent'[r] /\ x # "none" => x \in BackedUp'
    BY DEF BackedUp, NoBackup
  <2> QED
    BY <1>3, <2>1, <2>2, <2>3, BackedUpIs
<1>4. ASSUME NEW x \in records PROVE x \in BackedUp'
  <2>1. x # "none"
    BY DEF EventDatabaseAssumption
  <2> QED
    BY <1>1, <2>1 DEF BackedUp, NoBackup
<1> QED
  BY <1>2, <1>3, <1>4

LEMMA BackupKeepsNothingLost ==
  ASSUME EventDatabaseAssumption, Typed, NothingLost, NEW h \in Requests, NEW reason \in Reasons,
         NEW step \in {"close", "delete"}, Backup(h, reason, step)
  PROVE  /\ Due' \subseteq Due
         /\ \A x \in Due' : x \in BackedUp => x \in BackedUp'
         /\ InPlace' = InPlace /\ UNCHANGED <<path, open, db>>
         /\ AllBackedUp' \/ Done(h)
<1>1. UNCHANGED <<path, file, saved, open, db, owed, late>>
  BY DEF Backup, diskVars, processVars
<1>2. InPlace' = InPlace
  BY <1>1 DEF InPlace
<1>3. CASE open /\ Copy(reason, file[db].records)
  <2>1. db \in Files /\ file[db].records \in SUBSET Records
    BY <1>3 DEF Typed, ProcessFits, DiskFits, Contents
  <2>2. /\ Due' \subseteq Due
        /\ \A x \in Due' : x \in BackedUp => x \in BackedUp'
        /\ \A x \in file[db].records : x \in BackedUp'
    BY <1>1, <1>3, <2>1, CopyKeeps
  <2>3. ASSUME NEW x \in Due' PROVE x \in BackedUp \/ x \in file[db].records
    <3>1. CASE db # path
      BY <1>3, <2>2, <3>1 DEF NothingLost, AllBackedUp
    <3>2. CASE db = path
      BY <2>2, <3>2, InPlaceIs DEF NothingLost, RecordsAreKept
    <3> QED
      BY <3>1, <3>2
  <2>4. AllBackedUp'
    BY <2>2, <2>3 DEF AllBackedUp
  <2> QED
    BY <1>1, <1>2, <2>2, <2>4
<1>4. CASE Done(h) /\ Copy(reason, {})
  <2>1. {} \in SUBSET Records
    OBVIOUS
  <2> QED
    BY <1>1, <1>2, <1>4, <2>1, CopyKeeps
<1>5. CASE Done(h) /\ UNCHANGED <<recent, overwritten>>
  BY <1>1, <1>2, <1>5 DEF Due, BackedUp
<1> QED
  BY <1>3, <1>4, <1>5 DEF Backup

LEMMA RestoringKeepsNothingLost ==
  ASSUME EventDatabaseAssumption, Typed, NothingLost, NEW h \in Restorers, Restoring(h)
  PROVE  NothingLost'
<1>1. /\ Typed' /\ h \in DOMAIN job /\ h \in Requests
      /\ \A g \in Restorers \cup Clearers : g = h \/ job'[g] = job[g]
      /\ h \notin Clearers
  BY RestoringKeepsTyped DEF Typed, JobsFit, Requests, EventDatabaseAssumption
<1>2. ASSUME UNCHANGED <<saved, recent, recordVars>>,
             path \in Files => path' = path /\ file'[path].records = file[path].records,
             job'[h].step \in Replacing => job'[h].step = job[h].step,
             open' /\ db' # path' => open /\ db # path
      PROVE  NothingLost'
  <2>1. job'[h].step # "delete"
    BY <1>1 DEF Typed, JobsFit, RestoreJobs, Idle
  <2> QED
    BY <1>1, <1>2, <2>1, SameRecordsKeepNothingLost DEF Critical
<1>3. \A step \in {"backup", "close", "remove", "rename", "open", "load"} : At(h, step) =>
        \A on \in {"close", "remove", "rename", "open", "load"} :
          (GoOn(h, on) => job'[h].step = on) /\ (Done(h) => job'[h].step = "none")
  BY RestoreMovesOn
<1>4. ASSUME UNCHANGED <<saved, recent, recordVars>>, job[h].step \in Replacing PROVE AllBackedUp'
  BY <1>4 DEF NothingLost, AllBackedUp, Due, BackedUp, recordVars
<1>5. CASE \E upload \in Uploads : TakeUpload(h, upload)
  <2>1. /\ UNCHANGED <<path, file, saved, recent, open, db, recordVars>> /\ job'[h].step = "backup"
    BY <1>1, <1>5 DEF TakeUpload, Takes, diskVars, backupVars, processVars
  <2> QED
    BY <1>2, <2>1 DEF Replacing
<1>6. CASE BackUpBeforeRestore(h)
  <2>1. /\ Due' \subseteq Due /\ \A x \in Due' : x \in BackedUp => x \in BackedUp'
        /\ InPlace' = InPlace /\ UNCHANGED <<path, open, db>>
        /\ AllBackedUp' \/ Done(h)
    BY <1>1, <1>6, BackupKeepsNothingLost DEF BackUpBeforeRestore, Reasons
  <2>2. CASE AllBackedUp'
    BY <2>2, AllIsBackedUp
  <2>3. CASE Done(h)
    <3>1. job'[h].step = "none"
      BY <1>3, <1>6, <2>3 DEF BackUpBeforeRestore, Backup
    <3> QED
      BY <1>1, <2>1, <3>1, NothingMoreIsDue DEF Replacing
  <2> QED
    BY <2>1, <2>2, <2>3
<1>7. CASE CloseDatabase(h) \/ RemoveFile(h) \/ RenameUpload(h)
  <2>1. job[h].step \in Replacing /\ UNCHANGED <<saved, recent, recordVars>>
    BY <1>7 DEF CloseDatabase, RemoveFile, RenameUpload, At, Replacing, backupVars
  <2> QED
    BY <1>4, <2>1, AllIsBackedUp
<1>8. CASE ReopenDatabase(h)
  <2>1. /\ At(h, "open") /\ (GoOn(h, "load") \/ Done(h)) /\ UNCHANGED <<saved, recent, recordVars>>
        /\ OpenDatabase \/ (open' = FALSE /\ UNCHANGED <<path, file>>)
    BY <1>8 DEF ReopenDatabase, diskVars, backupVars
  <2>2. /\ path \in Files => path' = path /\ file' = file
        /\ ~(open' /\ db' # path')
    BY <2>1, OpenIs DEF EventDatabaseAssumption
  <2>3. job'[h].step \notin Replacing
    BY <1>3, <2>1 DEF Replacing
  <2> QED
    BY <1>2, <2>1, <2>2, <2>3
<1>9. CASE LoadUpload(h)
  <2>1. /\ At(h, "load") /\ Done(h) /\ UNCHANGED <<saved, recent, open, db, recordVars>>
        /\ (LoadSettings \/ UNCHANGED <<path, file>>)
    BY <1>9 DEF LoadUpload, diskVars, backupVars, processVars
  <2>2. path' = path /\ (path \in Files => file'[path].records = file[path].records)
    BY <2>1, LoadIs DEF SameRecords
  <2>3. job'[h].step \notin Replacing
    BY <1>3, <2>1 DEF Replacing
  <2> QED
    BY <1>2, <2>1, <2>2, <2>3
<1> QED
  BY <1>5, <1>6, <1>7, <1>8, <1>9 DEF Restoring

(* What clearing deletes is in its backup; restores are not disturbed. *)
LEMMA ClearingKeepsNothingLost ==
  ASSUME EventDatabaseAssumption, Typed, NothingLost, NEW h \in Clearers, Clearing(h)
  PROVE  NothingLost'
<1>1. /\ Typed' /\ UNCHANGED <<path, saved, open, db, owed, late>> /\ h \in DOMAIN job /\ h \in Requests
      /\ \A g \in Restorers \cup Clearers : g = h \/ job'[g] = job[g]
      /\ h \notin Restorers
  BY ClearingKeepsTyped DEF Typed, JobsFit, Requests, EventDatabaseAssumption, processVars
<1>2. CASE TakeClear(h)
  <2>1. job'[h].step = "backup" /\ UNCHANGED <<file, recent, overwritten>>
    BY <1>1, <1>2 DEF TakeClear, Takes, diskVars, backupVars, recordVars
  <2> QED
    BY <1>1, <2>1, NothingMoreIsDue DEF Due, BackedUp, InPlace
<1>3. CASE BackUpBeforeClear(h)
  <2>1. /\ Due' \subseteq Due /\ \A x \in Due' : x \in BackedUp => x \in BackedUp'
        /\ InPlace' = InPlace
        /\ AllBackedUp' \/ Done(h)
    BY <1>1, <1>3, BackupKeepsNothingLost DEF BackUpBeforeClear, Reasons
  <2>2. CASE AllBackedUp'
    BY <2>2, AllIsBackedUp
  <2>3. CASE Done(h)
    <3>1. job'[h].step = "none"
      BY <1>1, <2>3 DEF Done, Idle
    <3> QED
      BY <1>1, <2>1, <3>1, NothingMoreIsDue
  <2> QED
    BY <2>1, <2>2, <2>3
<1>4. CASE DeleteMatch(h)
  <2>1. At(h, "delete") /\ UNCHANGED <<recent, overwritten>>
    BY <1>4 DEF DeleteMatch, backupVars, recordVars
  <2>2. Due' = Due /\ BackedUp' = BackedUp /\ Due \cap Matches \subseteq BackedUp
    BY <1>1, <2>1 DEF NothingLost, At, Due, BackedUp
  <2>3. ASSUME NEW m \in Matches, open, file' = [file EXCEPT ![db].records = @ \ {m}], UNCHANGED job
        PROVE  NothingLost'
    <3>1. path \in Files => file'[path].records \in {file[path].records, file[path].records \ {m}}
      BY <2>3 DEF Typed, DiskFits, ProcessFits, Contents
    <3>2. \A x : x \in InPlace => path \in Files /\ x \in file[path].records
      BY InPlaceIs
    <3>3. \A x : path' \in Files /\ x \in file'[path'].records => x \in InPlace'
      BY <1>1, InPlaceNext
    <3>4. \A x \in Due' : x \in InPlace => x \in InPlace' \/ x \in BackedUp'
      BY <1>1, <2>2, <3>1, <3>2, <3>3
    <3> QED
      BY <1>1, <2>2, <2>3, <3>4, NothingMoreIsDue
  <2>4. CASE Done(h) /\ UNCHANGED <<path, file>>
    <3>1. job'[h].step = "none"
      BY <1>1, <2>4 DEF Done, Idle
    <3>2. InPlace' = InPlace
      BY <2>4 DEF InPlace
    <3> QED
      BY <1>1, <2>2, <3>1, <3>2, NothingMoreIsDue
  <2> QED
    BY <1>4, <2>3, <2>4 DEF DeleteMatch, diskVars, requestVars
<1> QED
  BY <1>2, <1>3, <1>4 DEF Clearing

(* A team that is entered in time is in the file that counts.               *)
LEMMA TeamsKeepNothingLost ==
  ASSUME EventDatabaseAssumption, Typed, NothingLost, NEW t \in Teams, CreateTeam(t) \/ DeleteTeam(t)
  PROVE  NothingLost'
<1>1. Typed' /\ open /\ db \in Files /\ UNCHANGED <<path, saved, recent, job, open, db>>
  BY TeamsKeepTyped DEF CreateTeam, DeleteTeam, Typed, ProcessFits, backupVars, requestVars, processVars
<1>2. BackedUp' = BackedUp
  BY <1>1 DEF BackedUp
<1>3. \A x : x \in InPlace => path \in Files /\ x \in file[path].records
  BY InPlaceIs
<1>4. \A x : path' \in Files /\ x \in file'[path'].records => x \in InPlace'
  BY <1>1, InPlaceNext
<1>5. CASE CreateTeam(t)
  <2>1. /\ db = path => t \in file'[path].records
        /\ path \in Files => file[path].records \subseteq file'[path].records
    BY <1>1, <1>5 DEF CreateTeam, Typed, DiskFits, Contents
  <2>2. \A x : x \in InPlace => x \in InPlace'
    BY <1>1, <1>3, <1>4, <2>1
  <2>3. CASE TooLate
    <3>1. Due' \subseteq Due
      BY <1>5, <2>3 DEF CreateTeam, Due
    <3> QED
      BY <1>1, <1>2, <2>2, <3>1, NothingMoreIsDue
  <2>4. CASE ~TooLate
    <3>1. db = path /\ \A h \in Restorers : job[h].step \notin Replacing
      BY <2>4 DEF TooLate, Replacing
    <3>2. Due' \subseteq Due \cup {t} /\ t \in InPlace' /\ t \notin Matches
      BY <1>1, <1>4, <1>5, <2>1, <3>1 DEF CreateTeam, Due, EventDatabaseAssumption
    <3>3. RecordsAreKept'
      BY <1>2, <2>2, <3>2 DEF NothingLost, RecordsAreKept
    <3>4. \A h \in Clearers : job'[h].step = "delete" => (Due \cap Matches \subseteq BackedUp)'
      BY <1>1, <1>2, <3>2 DEF NothingLost
    <3> QED
      BY <1>1, <3>1, <3>3, <3>4 DEF NothingLost
  <2> QED
    BY <2>3, <2>4
<1>6. CASE DeleteTeam(t)
  <2>1. path \in Files => file[path].records \ {t} \subseteq file'[path].records
    BY <1>1, <1>6 DEF DeleteTeam, Typed, DiskFits, Contents
  <2>2. Due' \subseteq Due /\ t \notin Due'
    BY <1>6 DEF DeleteTeam, Due
  <2>3. \A x \in Due' : x \in InPlace => x \in InPlace'
    BY <1>1, <1>3, <1>4, <2>1, <2>2
  <2> QED
    BY <1>1, <1>2, <2>2, <2>3, NothingMoreIsDue
<1> QED
  BY <1>5, <1>6

(* Every record entered is in the file that the next start opens or in a    *)
(* backup, whatever fails, wherever the program stops and however many      *)
(* restores and clears overlap, but for one entered after the backup of a   *)
(* restore that was still to replace the file, or had replaced the one in   *)
(* use, and one whose backup another of the same second wrote over; for any *)
(* records, uploads, files and number of requests (restoreDbHandler,        *)
(* clearDbHandler, Backup).                                                 *)
THEOREM RecordSafety == Spec => []RecordsAreKept
<1>1. Init => Typed /\ NothingLost
  BY EventDatabaseAssumption, InitTyped, InitNothingLost
<1>2. Typed /\ NothingLost /\ [Next]_vars => (Typed /\ NothingLost)'
  <2> SUFFICES ASSUME Typed, NothingLost, [Next]_vars PROVE (Typed /\ NothingLost)'
    OBVIOUS
  <2>1. Typed'
    BY EventDatabaseAssumption, StepKeepsTyped
  <2>2. CASE UNCHANGED vars
    BY <2>1, <2>2, EventDatabaseAssumption, SameRecordsKeepNothingLost
       DEF vars, diskVars, backupVars, processVars, requestVars
  <2> QED
    BY <2>1, <2>2, EventDatabaseAssumption, StartingKeepsNothingLost, StopKeepsNothingLost,
       SecondKeepsNothingLost, PostingKeepsNothingLost, RestoringKeepsNothingLost,
       ClearingKeepsNothingLost, TeamsKeepNothingLost DEF Next
<1>3. NothingLost => RecordsAreKept
  BY DEF NothingLost
<1> QED
  BY <1>1, <1>2, <1>3, PTL DEF Spec
=============================================================================
