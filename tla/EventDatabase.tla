--------------------------- MODULE EventDatabase ---------------------------
(***************************************************************************)
(* The event database and the settings in it: how a start of the program   *)
(* creates and seeds them (main.go), how the settings page edits, stores   *)
(* and loads them, and how an upload replaces the database file and old    *)
(* matches are cleared (web/setup_settings.go, model/database.go).  The    *)
(* program may stop between any two steps; the disk does not fail it.      *)
(*                                                                         *)
(* The settings are abstracted to the switch of network security, which    *)
(* config.yaml seeds once, and the layout of the Hub LEDs, the only part   *)
(* that is validated.  A file is known by its inode, free again once it    *)
(* has neither the name event.db nor a user.                               *)
(***************************************************************************)
EXTENDS Naturals

CONSTANTS
  Teams, Matches,  \* records that operators enter, and that clearing deletes
  Uploads,         \* database files that may be uploaded
  Posters, Restorers, Clearers,  \* requests to the settings page being handled
  Configured,      \* network_security_enabled in config.yaml
  Files,           \* inodes of database files
  NoFile,
  Structures,      \* identities of EventSettings structures, reused like inodes
  MaxRequests      \* bound on the requests to the settings page

VARIABLES
  path,      \* the file at event.db
  file,      \* what each file holds
  saved,     \* records in backups
  recent,    \* the backup of each kind made within this second
  stage,     \* how far the program has started
  firstRun,
  db, open,  \* arena.Database: its file, none if it is nil, and whether it is open
  live,      \* arena.EventSettings, one of the structures
  record,    \* those structures
  built,     \* network security as the access point's client was built with
  job,       \* requests being handled
  taken,     \* how many there have been
  owed,      \* history: the records that operators entered
  late,      \* history: those entered too late for a restore under way to back up
  overwritten, \* history: records that a backup of the same second wrote over
  chosen,    \* history: network security as configured, saved or restored last
  unseeded,  \* history: the first start ended before it could seed
  stray,     \* history: a form turned away has written into the live structure
  crossed    \* history: forms whose structure another wrote a layout into since their check

diskVars    == <<path, file>>
backupVars  == <<saved, recent>>
processVars == <<stage, firstRun, db, open>>
arenaVars   == <<live, record, built, stray>>
requestVars == <<job, taken>>
recordVars  == <<owed, late, overwritten>>
historyVars == <<chosen, unseeded, crossed>>
vars == <<diskVars, backupVars, processVars, arenaVars, requestVars, recordVars, historyVars>>

Records == Teams \cup Matches
None == [security |-> FALSE, layout |-> "none"]
Settings == [security : BOOLEAN, layout : {"valid", "invalid", "unset"}]
Default == [security |-> FALSE, layout |-> "valid"]
Contents == [records : SUBSET Records, settings : Settings \cup {None}]
Blank == [records |-> {}, settings |-> None]
Reasons == {"pre_restore", "pre_clear"}
NoBackup == {"none"}
Requests == Posters \cup Restorers \cup Clearers
Idle == [step |-> "none"]

ASSUME EventDatabaseAssumption ==
  /\ Uploads \subseteq Contents /\ NoFile \notin Files /\ MaxRequests \in Nat
  /\ Configured \in BOOLEAN
  /\ "none" \notin Records /\ Teams \cap Matches = {}
  /\ Posters \cap Restorers = {} /\ Posters \cap Clearers = {} /\ Restorers \cap Clearers = {}

TypeOK ==
  /\ path \in Files \cup {NoFile} /\ file \in [Files -> Contents]
  /\ saved \subseteq Records
  /\ recent \in [Reasons -> (SUBSET Records) \cup {NoBackup}]
  /\ stage \in {"down", "starting", "loading", "seeding", "reloading", "running"}
  /\ firstRun \in BOOLEAN /\ open \in BOOLEAN /\ db \in Files \cup {NoFile}
  /\ live \in Structures /\ record \in [Structures -> Settings] /\ built \in BOOLEAN /\ stray \in BOOLEAN
  /\ \A h \in Posters : job[h] = Idle \/
       job[h] \in [step : {"security", "layout", "check", "store", "load"},
                   obj : Structures, form : [security : BOOLEAN, layout : {"valid", "invalid"}]]
  /\ \A h \in Restorers : job[h] = Idle \/
       job[h] \in [step : {"backup", "close", "remove", "rename", "open", "load"}, upload : Uploads]
  /\ \A h \in Clearers : job[h] = Idle \/ job[h] \in [step : {"backup", "delete"}]
  /\ owed \subseteq Records /\ late \subseteq Teams /\ overwritten \subseteq Records
  /\ chosen \in BOOLEAN /\ unseeded \in BOOLEAN
  /\ crossed \subseteq Posters

(* The first start on a new field, or a restart after an earlier version of *)
(* the program, whose file may hold matches and no layout.                  *)
Stopped ==
  /\ stage = "down" /\ firstRun = FALSE /\ db = NoFile /\ open = FALSE
  /\ live \in Structures /\ record = [s \in Structures |-> Default]
  /\ built = FALSE /\ stray = FALSE
  /\ job = [h \in Requests |-> Idle]
Init ==
  /\ Stopped
  /\ \/ path = NoFile /\ file = [f \in Files |-> Blank] /\ owed = {} /\ chosen = Configured
     \/ \E on \in BOOLEAN :
          /\ path \in Files /\ owed = Matches /\ chosen = on
          /\ file = [f \in Files |->
               IF f = path THEN [records |-> Matches, settings |-> [security |-> on, layout |-> "unset"]]
               ELSE Blank]
  /\ taken = 0 /\ saved = {} /\ recent = [r \in Reasons |-> NoBackup] /\ unseeded = FALSE
  /\ late = {} /\ overwritten = {} /\ crossed = {}

-----------------------------------------------------------------------------
(* Definitions with a suffix _... are mutations: bugs the runs must catch.  *)

(* model.OpenDatabase creates the file if there is none. *)
Free(f) == f # path /\ f # db
Freed(f) == file' = [file EXCEPT ![f] = Blank]
OpenDatabase ==
  /\ IF path # NoFile THEN UNCHANGED diskVars ELSE path' \in {f \in Files : Free(f)} /\ Freed(path')
  /\ open' = TRUE /\ db' = path'

(* Database.GetEventSettings creates a missing record and fills in a layout *)
(* that is not set; LoadSettings makes a new structure of the settings,     *)
(* which is live from then on, and builds the components from it; one that  *)
(* nobody holds any more is collected.                                      *)
GetEventSettings(settings) ==
  IF settings = None THEN Default
  ELSE [settings EXCEPT !.layout = IF @ = "unset" THEN "valid" ELSE @]
Held(s) == \E h \in Posters : job[h] # Idle /\ job[h].obj = s
LoadSettings ==
  LET settings == GetEventSettings(file[db].settings) IN
  /\ open
  /\ file' = IF file[db].settings = None THEN [file EXCEPT ![db].settings = Default] ELSE file
  /\ live' \in {s \in Structures : s # live /\ ~Held(s)}
  /\ record' = [s \in Structures |-> IF s = live' THEN settings ELSE IF Held(s) THEN record[s] ELSE Default]
  /\ built' = settings.security /\ stray' = FALSE
  /\ UNCHANGED path

(* Database.UpdateEventSettings: there must be a record to update. *)
CanUpdate == open /\ file[db].settings # None
UpdateEventSettings(settings) ==
  /\ file' = [file EXCEPT ![db].settings = settings]
  /\ UNCHANGED path

-----------------------------------------------------------------------------
(* main: a run is the first if there is no file.  NewArena opens the        *)
(* database and loads the settings; main seeds them from config.yaml,       *)
(* stores them and loads them again, and only then serves the pages.        *)
Start ==
  /\ stage = "down" /\ stage' = "starting" /\ firstRun' = (path = NoFile)
  /\ UNCHANGED <<diskVars, backupVars, db, open, arenaVars, requestVars, recordVars, historyVars>>
NewArenaOpens ==
  /\ stage = "starting" /\ stage' = "loading" /\ OpenDatabase
  /\ UNCHANGED <<backupVars, firstRun, arenaVars, requestVars, recordVars, historyVars>>
NewArenaLoads ==
  /\ stage = "loading" /\ stage' = "seeding" /\ LoadSettings
  /\ UNCHANGED <<backupVars, firstRun, db, open, requestVars, recordVars, historyVars>>
Seeded_Always == [record[live] EXCEPT !.security = Configured]
Seeded == [record[live] EXCEPT !.security = IF firstRun THEN Configured ELSE @]
Seed ==
  /\ stage = "seeding" /\ stage' = "reloading"
  /\ record' = [record EXCEPT ![live] = Seeded]
  /\ UpdateEventSettings(Seeded)
  /\ IF firstRun THEN chosen' = Configured /\ unseeded' = FALSE ELSE UNCHANGED <<chosen, unseeded>>
  /\ UNCHANGED <<backupVars, firstRun, db, open, live, built, stray, requestVars, recordVars, crossed>>
MainLoads ==
  /\ stage = "reloading" /\ stage' = "running" /\ firstRun' = FALSE /\ LoadSettings
  /\ UNCHANGED <<backupVars, db, open, requestVars, recordVars, historyVars>>

(* The program may be stopped, or fail, at any time. *)
Stop ==
  /\ stage # "down"
  /\ stage' = "down" /\ firstRun' = FALSE /\ db' = NoFile /\ open' = FALSE
  /\ UNCHANGED live /\ record' = [s \in Structures |-> Default]
  /\ built' = FALSE /\ stray' = FALSE
  /\ job' = [h \in Requests |-> Idle] /\ UNCHANGED taken
  /\ unseeded' = (unseeded \/ (firstRun /\ stage \in {"loading", "seeding"}))
  /\ crossed' = {}
  /\ UNCHANGED <<diskVars, backupVars, recordVars, chosen>>

-----------------------------------------------------------------------------
Takes(h, request) ==
  /\ stage = "running" /\ job[h] = Idle /\ job' = [job EXCEPT ![h] = request]
  /\ taken < MaxRequests /\ taken' = taken + 1
At(h, step) == job[h].step = step
GoOn(h, step) == job' = [job EXCEPT ![h].step = step] /\ UNCHANGED taken
Done(h) == job' = [job EXCEPT ![h] = Idle] /\ UNCHANGED taken

(* settingsPostHandler writes the form into the structure that is live,     *)
(* whoever else does, before it looks at the layout.                        *)
TakeForm(h, form) ==
  /\ Takes(h, [step |-> "security", obj |-> live, form |-> form])
  /\ UNCHANGED <<diskVars, backupVars, processVars, arenaVars, recordVars, historyVars>>
EditSecurity(h) ==
  /\ At(h, "security") /\ GoOn(h, "layout")
  /\ record' = [record EXCEPT ![job[h].obj].security = job[h].form.security]
  /\ UNCHANGED <<diskVars, backupVars, processVars, live, built, stray, recordVars, historyVars>>
EditLayout(h) ==
  /\ At(h, "layout") /\ GoOn(h, "check")
  /\ record' = [record EXCEPT ![job[h].obj].layout = job[h].form.layout]
  /\ crossed' = crossed \cup {g \in Posters : At(g, "store") /\ job[g].obj = job[h].obj}
  /\ UNCHANGED <<diskVars, backupVars, processVars, live, built, stray, recordVars, chosen, unseeded>>
TurnAway(h) == stray' = (stray \/ job[h].obj = live)
CheckLayout_LogsOnly(h) ==
  /\ At(h, "check") /\ GoOn(h, "store")
  /\ UNCHANGED <<diskVars, backupVars, processVars, arenaVars, recordVars, historyVars>>
CheckLayout(h) ==
  /\ At(h, "check")
  /\ IF record[job[h].obj].layout = "invalid" THEN Done(h) /\ TurnAway(h)
     ELSE GoOn(h, "store") /\ UNCHANGED stray
  /\ UNCHANGED <<diskVars, backupVars, processVars, live, record, built, recordVars, historyVars>>
StoreForm(h) ==
  /\ At(h, "store")
  /\ IF CanUpdate
     THEN /\ UpdateEventSettings(record[job[h].obj]) /\ GoOn(h, "load")
          /\ chosen' = record[job[h].obj].security /\ unseeded' = FALSE
          /\ stray' = (stray /\ job[h].obj # live)
     ELSE Done(h) /\ TurnAway(h) /\ UNCHANGED <<diskVars, chosen, unseeded>>
  /\ crossed' = crossed \ {h}
  /\ UNCHANGED <<backupVars, processVars, live, record, built, recordVars>>
LoadForm(h) ==
  /\ At(h, "load") /\ Done(h)
  /\ LoadSettings \/ (~open /\ UNCHANGED <<diskVars, arenaVars>>)
  /\ UNCHANGED <<backupVars, processVars, recordVars, historyVars>>

-----------------------------------------------------------------------------
(* Database.Backup names the copy after the event, the second and the       *)
(* reason, and writes over a copy of that name, be it with nothing.         *)
Copy(reason, records) ==
  /\ recent' = [recent EXCEPT ![reason] = records]
  /\ overwritten' = overwritten \cup ((recent[reason] \ NoBackup) \ records)
Backup(h, reason, step) ==
  /\ At(h, "backup")
  /\ \/ open /\ GoOn(h, step) /\ Copy(reason, file[db].records)
     \/ Done(h) /\ (Copy(reason, {}) \/ UNCHANGED <<recent, overwritten>>)
  /\ UNCHANGED <<diskVars, saved, processVars, arenaVars, owed, late, historyVars>>
SecondPasses ==
  /\ recent' = [r \in Reasons |-> NoBackup]
  /\ saved' = saved \cup UNION {recent[r] : r \in {s \in Reasons : recent[s] # NoBackup}}
  /\ UNCHANGED <<diskVars, processVars, arenaVars, requestVars, recordVars, historyVars>>

(* restoreDbHandler replaces the file by the upload in four steps, each of  *)
(* which may fail and end the request there.  When the last does,           *)
(* arena.Database is nil, and whoever uses it next panics.                  *)
TakeUpload(h, upload) ==
  /\ Takes(h, [step |-> "backup", upload |-> upload])
  /\ UNCHANGED <<diskVars, backupVars, processVars, arenaVars, recordVars, historyVars>>
BackUpBeforeRestore_GoesOn(h) ==
  /\ At(h, "backup") /\ GoOn(h, "close")
  /\ (open /\ Copy("pre_restore", file[db].records)) \/ UNCHANGED <<recent, overwritten>>
  /\ UNCHANGED <<diskVars, saved, processVars, arenaVars, owed, late, historyVars>>
BackUpBeforeRestore(h) == Backup(h, "pre_restore", "close")
CloseDatabase(h) ==
  /\ At(h, "close") /\ open' = FALSE
  /\ IF db = NoFile THEN Done(h) ELSE GoOn(h, "remove")
  /\ IF db \in {path, NoFile} THEN UNCHANGED file ELSE Freed(db)
  /\ UNCHANGED <<path, backupVars, stage, firstRun, db, arenaVars, recordVars, historyVars>>
RemoveFile(h) ==
  /\ At(h, "remove")
  /\ \/ /\ db # NoFile /\ path # NoFile /\ path' = NoFile /\ GoOn(h, "rename")
        /\ IF open /\ db = path THEN UNCHANGED file ELSE Freed(path)
     \/ Done(h) /\ UNCHANGED diskVars
  /\ UNCHANGED <<backupVars, processVars, arenaVars, recordVars, historyVars>>
RenameUpload(h) ==
  /\ At(h, "rename")
  /\ \/ /\ db # NoFile /\ path' \in {f \in Files : Free(f)}
        /\ file' = [f \in Files |-> IF f = path' THEN job[h].upload
                                   ELSE IF f = path /\ ~(open /\ db = f) THEN Blank ELSE file[f]]
        /\ chosen' = job[h].upload.settings.security /\ unseeded' = FALSE
        /\ GoOn(h, "open")
     \/ Done(h) /\ UNCHANGED <<diskVars, chosen, unseeded>>
  /\ UNCHANGED <<backupVars, processVars, arenaVars, recordVars, crossed>>
ReopenDatabase_AsBuilt(h) ==
  /\ At(h, "open") /\ OpenDatabase /\ Done(h)
  /\ UNCHANGED <<backupVars, stage, firstRun, arenaVars, recordVars, historyVars>>
ReopenDatabase(h) ==
  /\ At(h, "open")
  /\ \/ db # NoFile /\ OpenDatabase /\ GoOn(h, "load")
     \/ Done(h) /\ db' = NoFile /\ open' = FALSE /\ UNCHANGED diskVars
  /\ UNCHANGED <<backupVars, stage, firstRun, arenaVars, recordVars, historyVars>>
LoadUpload(h) ==
  /\ At(h, "load") /\ Done(h)
  /\ LoadSettings \/ (~open /\ UNCHANGED <<diskVars, arenaVars>>)
  /\ UNCHANGED <<backupVars, processVars, recordVars, historyVars>>

(* clearDbHandler deletes one match after the other. *)
TakeClear(h) ==
  /\ Takes(h, [step |-> "backup"])
  /\ UNCHANGED <<diskVars, backupVars, processVars, arenaVars, recordVars, historyVars>>
BackUpBeforeClear(h) == Backup(h, "pre_clear", "delete")
DeleteMatch(h) ==
  /\ At(h, "delete")
  /\ \/ \E m \in Matches :
          /\ open /\ m \in file[db].records
          /\ file' = [file EXCEPT ![db].records = @ \ {m}] /\ UNCHANGED <<path, requestVars>>
     \/ (open => file[db].records \cap Matches = {}) /\ Done(h) /\ UNCHANGED diskVars
  /\ UNCHANGED <<backupVars, processVars, arenaVars, recordVars, historyVars>>

(* The page of teams.  A team is entered too late if a restore that has     *)
(* made its backup is still to replace the file, or has replaced the one in *)
(* use.                                                                     *)
TooLate == db # path \/ \E h \in Restorers : job[h].step \in {"close", "remove", "rename"}
CreateTeam(t) ==
  /\ stage = "running" /\ open /\ t \notin file[db].records
  /\ file' = [file EXCEPT ![db].records = @ \cup {t}]
  /\ owed' = owed \cup {t} /\ overwritten' = overwritten \ {t}
  /\ late' = IF TooLate THEN late \cup {t} ELSE late \ {t}
  /\ UNCHANGED <<path, backupVars, processVars, arenaVars, requestVars, historyVars>>
DeleteTeam(t) ==
  /\ stage = "running" /\ open /\ t \in file[db].records
  /\ file' = [file EXCEPT ![db].records = @ \ {t}]
  /\ owed' = owed \ {t} /\ late' = late \ {t} /\ overwritten' = overwritten \ {t}
  /\ UNCHANGED <<path, backupVars, processVars, arenaVars, requestVars, historyVars>>

-----------------------------------------------------------------------------
Starting == Start \/ NewArenaOpens \/ NewArenaLoads \/ Seed \/ MainLoads
Posting(h) ==
  \/ \E on \in BOOLEAN, layout \in {"valid", "invalid"} :
       TakeForm(h, [security |-> on, layout |-> layout])
  \/ EditSecurity(h) \/ EditLayout(h) \/ CheckLayout(h) \/ StoreForm(h) \/ LoadForm(h)
Restoring(h) ==
  \/ \E upload \in Uploads : TakeUpload(h, upload)
  \/ BackUpBeforeRestore(h) \/ CloseDatabase(h) \/ RemoveFile(h)
  \/ RenameUpload(h) \/ ReopenDatabase(h) \/ LoadUpload(h)
Clearing(h) == TakeClear(h) \/ BackUpBeforeClear(h) \/ DeleteMatch(h)
Next ==
  \/ Starting \/ Stop \/ SecondPasses
  \/ \E h \in Posters : Posting(h)
  \/ \E h \in Restorers : Restoring(h)
  \/ \E h \in Clearers : Clearing(h)
  \/ \E t \in Teams : CreateTeam(t) \/ DeleteTeam(t)
Spec == Init /\ [][Next]_vars

-----------------------------------------------------------------------------
(* "Back up the current database": whatever fails, however many restores    *)
(* and clears overlap, and wherever the program stops, every record entered *)
(* is in the file that the next start opens or in a backup, but for two     *)
(* kinds: one entered between the backup of a restore and the end of its    *)
(* file, and one whose backup another of the same second wrote over         *)
(* (restoreDbHandler, clearDbHandler, Database.Backup).                     *)
BackedUp == saved \cup UNION {recent[r] \ NoBackup : r \in Reasons}
InPlace == IF path = NoFile THEN {} ELSE file[path].records
Due == owed \ (late \cup overwritten)
RecordsAreKept == Due \subseteq BackedUp \cup InPlace

(* While the database is open and no settings are about to be loaded, the   *)
(* access point's client was built with network security as it is stored,   *)
(* whatever forms were turned away or overlap a restore; and the live       *)
(* structure, by which setupNetwork, configureTeamEthernet and              *)
(* cycleStationPortsForRenewal decide whether the network is configured at  *)
(* all, says the same, unless a form that is under way, or was turned away  *)
(* since, has written into it: a rejected form does switch network security *)
(* for the next lineup, without being stored (settingsPostHandler,          *)
(* LoadSettings).                                                           *)
NetworkIsAsStored ==
  stage = "running" /\ open /\ (\A h \in Requests : ~At(h, "load")) =>
    /\ built = file[db].settings.security
    /\ record[live].security = file[db].settings.security \/ Held(live) \/ stray

(* "Reject a layout the controller cannot render before it is saved": one   *)
(* is stored only if another form wrote its layout into the structure after *)
(* it was checked (settingsPostHandler).                                    *)
BadLayoutsRejected ==
  [][\A h \in Posters : StoreForm(h) /\ CanUpdate /\ record[job[h].obj].layout = "invalid" =>
       h \in crossed]_vars

(* "The Settings page is authoritative once the field has been set up":     *)
(* network security is what was saved or restored last, or configured for   *)
(* the first run, across restarts and half-done restores; unless the first  *)
(* start was cut short between creating the file and seeding it (main).     *)
SecurityAsChosen ==
  stage = "running" /\ open /\ ~unseeded => file[db].settings.security = chosen
=============================================================================
