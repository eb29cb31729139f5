# Verification of the field controller

This directory holds TLA+ models of the practice-field controller in this repository, the
TLC configurations that model-check them on small instances, and theorems about them that
TLAPS checks for every value of the constants. The reference is the Go source: each
definition is a translation of the lines that `PROJECT.json` ("map") names.

Run everything from this directory: `tlc -workers 2 -config <run>.cfg <module>.tla` for a
run, `tlapm <module>.tla` for the proofs. The runs and the proofs, with what each shows,
are listed below; `PROJECT.json` has the same lists in machine-readable form, the hazards
the properties are aimed at, and for each property a mutation of the code it catches.

## 1. The system

One process on a Raspberry Pi runs practice matches for up to six robots on two alliances.
Its centre is `field.Arena`: a 10 ms loop, `Update`, advances the match, computes whether
robots may run, sends control packets to the driver stations and folds in the stop
buttons. Around it are goroutines that own sockets and hardware, and websocket handlers
that carry out operator commands. Most of the state is protected by `arena.mu`; some of
it, deliberately or not, is not.

### Inventory

| Part | State it keeps | Operations | What is hard |
|---|---|---|---|
| Match state machine (`field/arena.go`) | match state, start time, aborted flag, AUTO winner, game data, per-station team, bypass, e-stop, A-stop, fault | `Update`, `StartMatch`, `AbortMatch`, `ClearMatch`, `ResetField`, `SubstituteTeams`, `ClearFieldEStop` | enable is computed before the stops of the same tick are read; aborts send no packet; toggles take no lock; a clear is several steps |
| Station stops and faults (`arena.go`, `hardware/interfaces.go`) | `EStop`, `AStop`, `EStopFault` of each station | `handlePanelInput`, `handleTeamEStop`, `handleTeamAStop`, `abortMatchForStop` | several inputs of one report act on one station; edges against levels |
| Shutdown (`main.go`) | none of its own | `DisableAll`, a 600 ms wait, exit | unlocked stores while the loop runs |
| Driver station connections (`field/driver_station_connection.go`) | `DsConn` of each station, sockets, `RobotLinked` | TCP accept, read loop, UDP receive, packet send | the goroutines take no lock; look-up, network write, install |
| E-stop panels (`cmd/estop-panel`, `hardware/network_estop_panel.go`) | configuration, GPIO lines, sampler, last sample | sampling, `POST /config`, `GET /poll`, `Poll` | lines belong to one sampler at a time; concurrent requests; stale samples |
| Field e-stop on the controller's GPIO (`hardware/gpio_estop*.go`) | lines, latch | `FieldState`, `ClearLatch` | latched, re-read, replaced by every settings save |
| Wired network (`network/switch.go`, `arena.configureTeamEthernet`) | `synced`, `applied`, status, generation | configure, bounce ports | goroutines queue; sessions fail half way; the object is replaced under them |
| WiFi access point (`network/access_point.go`) | status, lineup remembered, lineup reported | configure, poll, retry | no lock; unordered goroutines; requests of 3 s |
| Team registration and keys (`arena.go`, `web/match_play.go`, `web/setup_teams.go`) | teams and keys in the database, copies in the stations | register, edit | copies that are not refreshed |
| Match clock, sounds, shifts (`arena.go`, `game/`) | start time, sounds played, lighting state | `handleSounds`, `teleopShift`, `Hub.GetCurrentShiftTiming` | two ways of counting the same shifts; rounding |
| Hub LEDs (`field/arena_leds.go`, `led/`) | mode of each Hub, protocol | `updateHubLeds` | a delayed goroutine that looks at nothing before it acts |
| Settings, database file (`web/setup_settings.go`, `arena.LoadSettings`, `model/`, `main.go`) | `EventSettings`, all that is built from it, the file, its backups | seed, save, restore, clear, back up | the live structure is edited before it is validated; a restore is four steps that may each fail; the process may stop between any two |
| PLC (`plc/`) | registers | Modbus loop | never constructed on this field |
| Notifiers (`websocket/`, `field/arena_notifiers.go`) | listener channels and how long each has been full, the write mutex of each page | notify, subscribe, forward, ping, write | slow, closed and vanished pages; messages that cross; a page that subscribes while the state changes |
| Web interface, displays (`web/`, `static/`) | sessions | routing, rendering | |
| Database (`model/`) | rows | CRUD | |
| Match logs, event status (`field/`) | log files | append | |
| Deployment scripts | | | |

The parts meet in four ways: calls with `arena.mu` held (operator commands, the loop);
fields of `AllianceStation` that are atomic or simply shared (toggles, driver station
goroutines); goroutines started for slow work (network, LEDs, pre-load) that come back
later; and HTTP and UDP messages (panels, driver stations, access point).

What makes each part correct, in a sentence: no match runs over a latched stop and no
packet enables a robot that should stand still; a fault is seen and blocks a start; the
last packet of the process disables robots; a station is served by its own team's driver
station; a pressed button is never read as released for longer than a bound; the switch
and the access point end up with the lineup asked for last, without disturbing the others;
lights, sounds and Hubs tell the same story as the clock; a page shows the state of the field
or is known to be gone; no record is lost to a restore or a clear, and the network is configured
by the settings that are stored. Where the code keeps less than that, the property says by how
much, and section 5 says where.

## 2. The modules

| Module | Models | Lines of code it stands for |
|---|---|---|
| `Arena` | `Update` in its steps, all operator commands, stop inputs, toggles, the driver stations as the arena sees them | `field/arena.go`, parts of `web/match_play.go`, `hardware/gpio_estop.go` |
| `Shutdown` | extends `Arena`: the signal, `DisableAll` station by station, the first packet after it | `main.go`, `DisableAll` |
| `StopTracking` | extends `Shutdown` with the last report of each station's own button, the faults that a later input of a report hid, and the e-stops that were toggled | `handlePanelInput`, `toggleEStop` |
| `DriverStations` | listener, readers, UDP, registration, at the steps between which they interleave | `driver_station_connection.go`, `assignTeam` |
| `StopInput` | decoding a double-pole button and its discrepancy window | `hardware/interfaces.go` |
| `EStopPanel` | one panel: GPIO lines, samplers, concurrent `POST /config`, a poll in flight | `cmd/estop-panel`, `network_estop_panel.go` |
| `FieldSwitch` | lineups queued for the switch, sessions that are carried out in part and say so or not, port bounces, settings saves | `network/switch.go`, `configureTeamEthernet` |
| `AccessPoint` | pushes, the monitor, the device, the way of a key from the database to the device | `network/access_point.go`, `setupNetwork`, `SetTeamWpaKeys` |
| `Lineup` | abstract: what a part of the network promises about the lineups it is asked to carry | `setupNetwork` and what it calls |
| `Notifier` | the way of the arena's state to the pages: notifiers, channels, one goroutine and one connection per page | `websocket/`, `arena_notifiers.go`, the loop of `match_play.go` |
| `EventDatabase` | the database file and the settings in it: start, settings form, restore, clear, backups, teams, and the process stopped anywhere | `main.go`, `setup_settings.go`, `setup_teams.go`, `model/` |
| `MatchCues` | the match by its clock: sounds, field lights, Hub LEDs, seconds in control packets | `game/`, `arena_leds.go`, `handleSounds`, `teleopShift` |
| `ArenaProofs`, `PanelProofs`, `DriverStationsProofs`, `FieldSwitchProofs`, `AccessPointProofs`, `NotifierProofs`, `EventDatabaseProofs`, `MatchCuesProofs` | theorems about the module each is named after (`PanelProofs`: `EStopPanel`; `ArenaProofs`: `Shutdown` and `StopTracking` too) | |
| `MC*` | instances for TLC | |

`Shutdown` extends `Arena` and `StopTracking` extends `Shutdown`; `EStopPanel` extends
`StopInput`; `FieldSwitch` and `AccessPoint` each instantiate `Lineup` with a refinement mapping
and are shown to implement it; `ArenaProofs` extends `StopTracking`, and so is about an arena that
may be shut down and whose buttons are recorded. The other modules are coupled by what they assume
of one another:

- `Arena` takes the reports of a panel as any reading, per input, in the order of the
  report. `EStopPanel` says what a report may be (`HeldPressSeen`).
- `Arena` has `Connect` and `Disconnect` as single steps; `DriverStations` has what lies
  between.
- `Arena` abstracts time to "the period is over"; `MatchCues` has the clock, and of the
  commands only what they do to it.
- `FieldSwitch` and `AccessPoint` take any lineup as the next one asked for.
- `Notifier` takes the state a page shows as a version that any step of the arena may raise.
- `EventDatabase` ends where the settings are built into components; what becomes of those is in
  `LoadSettings` of `Arena`, `FieldSwitch`, `AccessPoint` and `MatchCues`.

### Correspondence, module by module

**Arena.** `pc`, `toPoll` and `todo` are the place of the loop inside `Update`:
`TickBegin` (the state switch, packet), `TickClear` and `TickRestore` (the automatic clear
at the end of the dwell), `TickField` (field e-stop), `PollPanel` and `HandleInput` (one
panel, one input), `TickEnd`. `arena.mu` is held for the whole of `Update`, so commands run
when `pc = "idle"`; what takes no lock (toggles, connections, the button itself) runs at any
step. A toggle is a load and a store (`ToggleLoad`, `ToggleStore`); `ClearMatch` restores
the bypasses in a deferred step (`ClearMatchRestore`). `robot[s]` is what the last control
packet told the robot. The panel report that `Poll` makes up for an unreachable panel is
`Faulted(p)`.

**Shutdown, StopTracking.** `DisableNext` is one iteration of `DisableAll`; `PacketTick` is
the first tick with a packet after it. Nothing else changes with the signal: the web server and
its handlers run on for the 600 ms before the exit, and so do toggles, clears, resets and starts
(`RunOn`). `seen`, `hidden`, `toggled` and `undone` are history variables, which decide nothing:
the last report of each station's own button; the stations whose faulty report a later input for
all stations replaced; those whose e-stop a toggle stored in this match; and those whose bypass a
toggle stored after `DisableAll` had, or which a match was started with although it was off.

**DriverStations.** A connection's goroutine is at one of five places; `Accept`, `Install`
and `AcceptFails` are the listener around its network write; `ReadFails`, `Compare`,
`Remove` the end of `handleTcpConnection`; `ReceiveDatagram`, `StoreDatagram` the UDP
listener around its look-up. `crossed` is history: the stations where `Install` has put a
connection that was not of the station's team any more, until they are assigned anew.

**StopInput, EStopPanel.** Time is `Tick`, with `Timeout`, `MaxAge`, `ReadTakes` and
`Window` in ticks. A sampler reads all pins, may stall, and stamps what it read afterwards,
as `sampler.loop` does. `StartPost`, `OpenLine`, `NewSampler`, `Swap`, `CloseOld` are the
stages of `handleConfig`. `Believed` is the age check of `NetworkEStopPanel.Poll`.

**FieldSwitch.** `jobs` are goroutines waiting for `ethernetApplyMutex`, `apply` is the one
that has it; `synced`, `applied`, `status` are per Switch object because `LoadSettings`
makes a new one. A session is carried out for any subset of its stations, whether it reports an
error or not, for `runCommand` takes a read timeout for success and nobody reads the switch's
answers. `missed`, `unopened` and `reported` are history: the stations whose VLAN, and whose
port, the last session about them left as it was although it reported success, and the ports that
a bounce with an error in the log has left shut.

**AccessPoint.** `push[p]` is a call of `ConfigureTeamWifi`: `Begin`, one `StoreTeam` per
station because the array of pointers is stored word by word without a lock, and a request
that is taken or lost. `poll` is the monitor, with an answer that may be on its way while
pushes go on. `lost` is a history variable: the lineup asked for last was dropped because
security was off, or was inside `ConfigureTeamWifi` together with another. `Assign` is what
`assignTeam` does for six stations: those with their team's driver station keep what they hold of
the team, key included. `StoreKey` is one write of a key, by `SetTeamWpaKeys` or the page of teams;
a registration is such writes and then an `Assign`, each with `arena.mu` for itself. `due` is
history: the stations whose WiFi the last push owes the key of the database.

**Lineup.** Five variables: the lineup asked for last, the teams that some request may still take
to each station, what the part carries, whether it says that it has settled, and the stations it
then wrongly takes to be done. For
`FieldSwitch` these are `asked`, the teams of queued and running goroutines, `vlan`, "nothing
queued and the badge of the current Switch object green", and `missed`. For `AccessPoint` they are `asked`, the
teams of pushes under way, of the remembered lineup and of the configuration being applied, what
the radio carries, FALSE and the empty set: `ConfigureTeamWifi` never knows that it has settled, its status is
what the last poll said.

**Notifier.** `call[w]` is a `Notify` between its producer and the notifier's mutex;
`listener[c][t]` is a channel with its entry in the notifier's map and `blockedSince`; `stage`,
`next`, `out` are the place of the page's goroutine in `HandleNotifiers`; `lock` is the queue at
`writeMutex`, shared with the handler that answers the page's commands (`reply`). `Tick` is 10 s,
the ping interval; it passes when everything that needs no time is done, so that a write lasts at
most `WriteTimeout` ticks. A page closes, or vanishes (`Vanish`): what is written to it is buffered
at first, then hangs until the deadline. `taken` and `served` are history of the channel since it
was first found full; they decide nothing.

**EventDatabase.** `stage` is how far `main` and `NewArena` have come; `job[h]` a request between
two of its steps. Files are inodes, so that a handle to a removed file goes on working, and
`EventSettings` structures have identities, because `settingsPostHandler` keeps the pointer it
took. `TakeForm`, `EditSecurity`, `EditLayout`, `CheckLayout`, `StoreForm`, `LoadForm` are the
handler of the form, in the order of its lines, and `TurnAway` its error returns, which leave what
the form wrote in the live structure (`stray`); `BackUpBeforeRestore` to `LoadUpload` those of a
restore, each with its failure, after the last of which `arena.Database` is nil (`db = NoFile`);
`recent` are the backups whose name (event, second, reason) may still be reused. `built` is the
network security the access point's client was made with. `late` and `overwritten` are history:
records entered after the backup of a restore under way, and records whose only backup another of
the same name replaced.

**MatchCues.** `Update(wait, stall, over)` is one tick: `wait` since the last, `stall` in
the panels between the look at the time for sounds and field lights and the look for the
Hubs. Durations are those of the code, in `Sec` units per second.

## 3. What is checked

| Run | Instance | Distinct states | Shows |
|---|---|---|---|
| `arena_station` | `MCArena`, one station with its e-stop and the GPIO field e-stop, an operator who toggles it and picks the AUTO winner, no warmup or pause, fairness | 244 k | no match over a field stop; game data exactly in teleop; packets enable only for the period and station they should; a field stop cannot be cleared under a held button; every match turns around to PreMatch; a latched e-stop reaches the robot; a held field button stops the field for good |
| `arena_stops` | `MCStopTracking`, one station, a panel with its e-stop, its A-stop and last the field e-stop, an operator who toggles e-stop and bypass, warmup and pause, the signal to stop at any time | 1.71 M | a wiring fault stops the field, and blocks the start unless the field e-stop input hid it; no match runs over a stopped station; an A-stop holds through AUTO; the first packet after `DisableAll` disables every robot but those a toggle or a new match has since enabled |
| `ds_arrivals` | `MCDriverStations`, 2 stations, 2 teams, 2 connections, lineups changed at any moment, fairness | 351 k | one station per team, own driver station, own link and no panic but where an arrival has crossed a lineup change; dead connections leave |
| `ds_panic` | the same, about any panic | violation | a nil team is dereferenced (finding) |
| `panel_config` | `MCEStopPanel`, two inputs, one request at a time | 1.47 M | lines are accounted for, the panel reads its configuration or nothing, a held press is seen in time |
| `panel_reopen` | the same, about what the panel reads after a request | violation | a request that could not open its lines leaves a panel that reads nothing (finding) |
| `switch_lineups` | `MCFieldSwitch`, 2 stations, 2 teams, 2 Switch objects, 2 requests | 877 k | a green badge means the last lineup and no team has two VLANs, at the stations that no session passed over in silence; stations that keep their team are not disturbed; a port that is down has a cause; every step is one of `Lineup` |
| `wifi_lineups` | `MCAccessPoint`, 2 stations, 1 team, 2 keys, 2 pushes and the monitor, 2 operations, fairness | 704 k | the access point catches up, with the keys the last push owes it, and is then left alone; every step is one of `Lineup` |
| `match_cues` | `MCMatchCues`, real durations, three settings | 507 k | field lights hand over in the last second of the Hubs' shift and at no other time; Hubs follow the game data; cues in order, once; white ends; seconds shown are right |
| `cues_drift` | the same, default settings only | violation | the cue of a handover sounds while the Hubs are still in the shift before it (finding) |
| `pages_notified` | `MCNotifier`, one page, a status notified again and again and a match load notified once, two callers, fairness | 469 k | the last state announced is shown or on its way; a channel that is given up is one of a page that is written to and reads nothing; in the end the page shows the status, is given up as too slow, or is gone with its goroutine and channels |
| `event_database` | `MCEventDatabase`, one team, one match, two forms, a restore, a clear, 3 requests, stops and starts anywhere | 934 k | no record is lost but a late or overwritten one; the network is configured by what is stored, unless a form is under way or was turned away; network security is what was chosen last; an unrenderable layout is stored only by a form whose checked layout another form has replaced |

Three more configurations are kept to be run by hand. `database_restores.cfg` with
`MCEventDatabase` passes (830 k states): two restores and a clear that overlap. The other two end in
a counterexample that an operator should know of (section 5, "Other behaviour worth knowing"):
`arena_reset.cfg` with `MCArena` and `stops_field_input.cfg` with `MCStopTracking`.

Deadlock is checked in every run but `switch_lineups`, where the bound on requests lets the
field go quiet, and the two of `DriverStations`, where a panic ends the process.

### Bounds, and why they are enough

- **Stations.** Stations interact only through the match (one stop ends it for all), a team
  that moves between two of them, and reports that name all of them. One station is enough for
  what a packet and a report do; two for everything else. `ArenaProofs` removes the bound for
  its safety properties.
- **Clients 1** (`arena_station`, `arena_stops`). Toggles interact by overlapping with the loop
  and with commands; two toggles of one station overlap like one with a command. **Toggling**:
  which of the two a client does, the e-stop alone where the bypass has no part in the property.
- **Teams 1 or 2.** One may move, two may trade places.
- **Panels 1 or 2**, **Presses**, **Durations**: which stop readings a button may give and
  whether there is a warmup or pause, chosen per run so that every branch is taken in one.
- **Ticks 1** (`EStopPanel`): the age limit, timeout and sample time are each one tick, the
  smallest value at which a sample can be fresh, stale and in flight. `PressSafety` holds
  for all values.
- **MaxRequests 2** (`FieldSwitch`): one being applied and one that follows or supersedes it, from
  any subnets that an earlier run left on the switch. Two Switch objects: the current one and one
  goroutines still use. `FieldSwitchProofs` has no bound.
- **MaxOperations 2** (`AccessPoint`): a lineup and what disturbs it (a second lineup, a
  save, a power failure), from any lineup an earlier run left on the device. Pushes,
  requests and polls are not bounded.
- **One page, two notifiers, BufferSize 1** (`Notifier`): pages meet only in a notifier's loop over
  its listeners, which treats each by itself. A buffer of one is full, drops and drains as one of
  five does, in fewer steps. **WriteTimeout 1, Patience 3**: the code's 10 s and 30 s with its
  ping of 10 s for a tick; with a patience of twice the write timeout `BackstopIsForSlowPages`
  fails, so the ratio matters and is kept. **MaxVersion 1 and 2**: one change of the status, two
  match loads, of which the second can overtake the first.
- **MaxRequests 3, one team, one match** (`EventDatabase`): any three of two forms, a restore and a
  clear, in any overlap; starts, stops, failures and team edits are not bounded. Two files are
  enough, because inodes are free again when nobody uses them; four structures, because each form
  may hold one beside the live one and the one being made. A second may pass at any moment or not.
  Two restores at once have a configuration of their own, `database_restores.cfg`.
- **MaxWait = MaxStall = 1** quarter second (`MatchCues`): two panels that time out at
  200 ms each make an update at most half a second late, 0.4 s plus the 10 ms period.
  Longer stalls skip cues; the property does not claim otherwise. **MaxAssessing 2**: a
  match started while the goroutine of an earlier one still sleeps, twice.

### Fairness

- `Arena.FairSpec`: weak fairness of the loop's steps and of the deferred restore: `Run`'s
  ticker calls `Update` for ever and handlers end. Strong fairness of ticks that find the
  period over, and of ticks with a packet due: the clock does not stop, and the ticks find
  a period over from some moment on; the model draws that at random, so it must be drawn
  infinitely often only. Nothing is assumed of operators, buttons or panels.
- `DriverStations.FairSpec`: a read on a closed socket fails, and a goroutine takes its next
  step. Nothing is assumed of driver stations or of the listener.
- `AccessPoint.FairSpec`: goroutines run and requests end (3 s timeouts). Strong fairness of
  polls being answered and of the monitor's request being taken says the device is not
  unreachable for ever; a single push may still be lost always.

- `Notifier.FairSpec`: goroutines run, and a write ends by its deadline. Strong fairness of
  `Refresh` (`Update` notifies with every packet), of forwarding and pinging (`reflect.Select`
  picks among ready channels at random), and of time. No write is taken to succeed and no page to
  read.

`EStopPanel`, `FieldSwitch`, `StopTracking`, `EventDatabase` and `MatchCues` have safety properties
only.

## 4. What is proved

`ArenaProofs`, for any finite or infinite sets of stations, teams, clients and panels, under
`ArenaAssumption` (no team is team 0, a panel's inputs and owned stations are sequences, and
the sets of choices hold what their names say):

- `TypeInvariant`: `Spec => []TypeOK`, one step per action.
- `FieldStopSafety`, `GameDataSafety`, `AbortKnowledge`: from the inductive invariant
  `MatchInv`, the three properties with `WinnerChosen` (from AUTO on there is an AUTO
  winner), which is what makes "game data names the winner" inductive. The argument goes
  through `MatchStep`, a disjunction of the few ways a step can change the match, so that
  each invariant is proved against those and not against every handler.
- `EnableSafety`: only the packet at the start of a tick can enable a robot or change its
  mode (`EveryStepIsRobotStep`), and that packet is of the period its tick has just switched
  to (`EnablingTick`, from `MatchInv` before and after).
- `AStopSafety`, `FieldButtonSafety`: action properties from the type invariant.

The rest of `ArenaProofs` is about the arena with the shutdown and the record of the buttons
(`StopTracking`), under the same assumption:

- `StopSafety`: `StopsEndTheMatch` is inductive with `TypeOK`. Every step is one of `Arena` or a
  store of `DisableAll` (`TrackedStep`); of the arena's steps only a toggle can leave a stopped
  station in a match (`OnlyTogglesStop`), and such a toggle is on record (`ToggleIsOnRecord`).
- `FaultSafety`, `FaultStartSafety`, for any inputs on any panels. The invariant is that a fault
  seen and not hidden is still in `EStopFault`, and no match is in progress over one unless the
  station's e-stop was toggled in it (`FaultIsKept`). A toggle cannot let a match start over a
  fault: it leaves `EStopFault` alone. A healthy reading of an input for all stations can, and
  `hidden` is exactly that; `stops_field_input.cfg` is the counterexample without it.
- `ShutdownSafety`, with every command allowed after the signal. `DisableInv` says of a station
  that `DisableAll` has been at that it is bypassed, or no match has been started since, or it is in
  `undone`, and that a station without a connection has a disabled robot.

`DriverStationsProofs`, for any stations, teams and connections, and lineups changed at any moment:
`StationSafety`, `ServedByOwn`, `LinkSafety`, `PanicNeedsArrival`. The inductive invariant says of
every station that is not in `crossed` that its team is the one of the lineup
(`LineupInEffect`) and its connection was accepted for it and its team (`SlotIsOwn`), and the like
of the UDP listener's look-up (`DatagramIsOwn`). The run `ds_panic` shows that the exemption of
crossed stations cannot be dropped.

`PanelProofs`, for any inputs, samplers, numbers of concurrent `POST /config` requests, and
any `MaxAge`, `Timeout`, `ReadTakes`, `Window`, under `PanelAssumption` and
`WindowAssumption`:

- `LineSafety`, `ConfigSafety`: from `ConfigInv`. A line in use says nothing of what the
  other requests are about to close, so the invariant follows each request through its
  stages (`StageFits`) and says that no two have a hand in the same sampler
  (`OwnSamplers`). The run checks one request; the theorem is about any number.
- `PressSafety`: from `FreshInv`, which bounds the age of a press that has not been seen at
  each place a reading can be: taken and not stamped (`TakenFresh`), stored (`SampleFresh`),
  on its way (`PollFresh`). The bound is the sum of the age limit, timeout and sample time.

`FieldSwitchProofs`, for any stations, teams, Switch objects, goroutines and number of requests,
under `SwitchAssumption`:

- `VlanSafety`, `BadgeSafety`: from one invariant. It follows a session through its steps
  (`HalfWay`: kept stations carry their team, then rebuilt ones carry none, then all carry the
  lineup), says that what a Switch object remembers is what the switch carries (`MemoryIsTrue`),
  all of it but for the stations in `missed`, unless a settings save has replaced it (`NewObjectIsBlank`), and that the lineup asked for last
  is waiting, being applied, or applied (`LatestIsComing`). That no team is on two VLANs needs
  all of it: an incremental session is only safe if the memory it starts from is true.
- `IncrementalRebuild`, `PortsReopened`: an action property from the same invariant, and the
  account of ports by itself.
- `Refinement`: `Spec => CarriesWhatIsAsked`, with one lemma per action of `Lineup`.

`AccessPointProofs`, for any stations, teams, keys and goroutines, under `AccessPointAssumption`:
`TypeInvariant` and `Refinement`: `Spec => WifiFromLineupsAsked`. A push is
only ever of teams that are pending, the monitor remembers word by word what pushes store, and the
radio applies what one of them posted.

`NotifierProofs`, for any pages, notifiers, callers of `Notify`, buffer size and timeouts, under
`NotifierAssumption`: `LatestOnTheWay`. The inductive invariant (`Current`) says that the last
message in a channel that was not full for it is the one offered last, and that, when the channel
is empty, what is being written to the page, or else what it shows, is not older than that one and
not newer than the state. For this the proof has to know that no message is of a state still to
come (`NoneIsAhead`), that who holds or awaits the write mutex has something to write (`LockFits`),
where the page's goroutine is (`StageFits`), and that a channel is empty before it is subscribed
(`NotYetMapped`).

`BackstopSafety` assumes `PatienceIsLonger`, that the patience of a notifier exceeds two write
timeouts (the code's are 30 s and 10 s, and at exactly twice the property fails). A channel that
was full when a message was offered stays full until its page's reader takes a message from it;
the reader may first wait for an answer on the same connection and then finish a write of its own,
each of them within one write timeout. `DelayFits` says at each of these places how long the
channel can have been full, so that a channel full for longer has been served in between: what is
given up is a slow page, and a vanished one leaves by its write first.

`EventDatabaseProofs`, for any teams, matches, uploads, files, settings structures and number of
requests, under `EventDatabaseAssumption`:

- `TypeInvariant`, `NetworkSafety`, `LayoutSafety`, with nothing assumed of how the requests overlap.
  A form about to be stored has the checked layout or is in `crossed` (`CrossedFits`); the security
  that the client was built with, and that the live settings have, is what is stored unless somebody
  is about to load it, holds the structure or was turned away from it (`SettingsSound`).
- `RecordSafety`, with nothing assumed either: two restores may overlap one another and a clear, and
  backups be made within one second. What is due is all that was entered but the `late` and the
  `overwritten` records; once a restore has got past its backup, or the file in use is not the one
  that the next start opens, all of it is in a backup (`NothingLost`).
- `SecuritySafety`, under `OneRestore` (one restore at a time, any number of forms and clears).
  The invariant (`InOrder`) says that an open database is the file at event.db (`InUse`), how far
  a restore has come (`RestoreFits`) and how far a start has (`StartFits`): a first run is one that
  found no file, and what any other start stores again is what it loaded. With two restores the
  server may go on with a file that has no name; section 5.

`MatchCuesProofs`, for any settings, any number of time units in a second and any bounds on waiting
and polling, under `CuesAssumption`:

- `TypeInvariant` (`Typed`: a match can only end if there is room for its Hub goroutine) and
  `WhiteSafety`.
- `HubSafety`: in teleop the game data is that of the AUTO winner (`DataFits`), and no moment lies in
  two shifts (`OneShiftAtATime`), whatever the length of teleop.
- `LightSafety`: the lights are those of the last look at the time (`LightsFit`). `LightTimes` and `ShiftTimes` turn the
  truncated seconds of one and the starts of the other into times since teleop began.
- `SecondsSafety`, under `LoopIsQuick` (`MaxWait + MaxStall < Sec`) and `MatchesFit` (a match is
  shorter than 65536 s, for the 16 bits of a packet): no period is overrun by more than a turn of the
  loop (`ClockFits`).
- `CuesSafety`, under `LoopIsQuick` and `CuesFit` (teleop has at least 131 s, so that it begins
  before its first handover, and warmup and warning together at most 55 s, so that the warning comes
  after the last one). `CuesHeard` says that the sounds played are those whose time has come by the
  last look at the clock and that what was heard is as long a beginning of the sequence as these and
  the handovers passed. One update adds a piece that fits on: each sound is due for a second, so
  none is skipped (`UpdateHeard`); no second sees two handovers, nor the warning before the fourth
  (`KeepStep`); and the pieces join in the order in which one update plays them (`CuesGrow`).

The code justifies these bounds. A loop of 10 ms polls two panels that time out after 200 ms each,
well under a second; the defaults are a teleop of 140 s, a warning of 30 s and no warmup. Settings
outside them are legal, and nothing is proved of them: a teleop of 105 s or less begins after its
first handover, which is never heard, and a warning of more than 55 s sounds among the handovers.

Type correctness is a theorem for `Arena`, `FieldSwitch`, `AccessPoint`, `EventDatabase` and
`MatchCues` (`TypeInvariant`), and part of the invariants of `DriverStations` and `EStopPanel`. The
proofs about `Notifier` carry the types that they need (`Types`).

**Checked by TLC only.** Liveness and `ENABLED` are outside the prover's reach, so
`FieldTurnsAround`, `EStopReachesRobot`, `HeldButtonStopsField`, `DeadConnectionLeaves`, `WifiSettles` and `PagesCatchUp` are shown on their instances
only. Every safety property of a passing run has a theorem, with the assumptions above where it
needs some. No module uses a RECURSIVE operator.

## 5. Findings

Three runs end in a violation of what a comment or a document of the repository says; they are under
"findings" in `PROJECT.json` with the quotations.

1. `ds_panic`: the listener installs a connection without the lock for a station the operator has
   just emptied; the next failed send dereferences a nil team.
2. `panel_reopen`: `POST /config` whose lines are in use stores the configuration and leaves a
   reader that reads nothing. The panel fails closed, but does not re-open.
3. `cues_drift`: `computeLightingState` truncates the seconds left of teleop, so the field lights and
   the shift cue hand over when less than a second of the Hubs' shift is left, in every match.
   docs/upstream-divergences.md 89 and game/match_sounds.go 18 to 21 say that they cannot drift
   apart. `LightsLeadHubs` is the exact lead, checked in `match_cues` and proved.

### Other behaviour worth knowing

Seen while modelling; the properties are stated so that they allow it, and a reader of the
properties should know where.

- `stops_field_input.cfg`: with the field e-stop on a panel, which openGPIO lists last, its healthy
  reading overwrites a station's wiring fault (`Swap` at field/arena.go 1303), and a match starts
  over it, though docs/hardware-wiring.md 67 says that the arena "refuses to start a match until it
  clears". The next report of the faulty button then aborts the match. `KnownFaultBlocksStart` and
  `FaultStopsField` exempt such a fault (`hidden`), in a run whose panel has that input.
- Operators are served for 600 ms after `DisableAll`. A clear that had read the bypasses before it
  stores them back after it, a reset of the field drops them, and a match started then enables the
  robot with its first packet; a toggle stores what it loaded before. `FirstPacketDisables` exempts
  these stations (`undone`) and no others.
- `arena_reset.cfg`: `ResetField` right after an abort closes a connection whose last packet
  enabled the robot; the robot then depends on its own watchdog.
- Two clears, or two restores, of one database within a second have one name for their backups,
  and the second backup overwrites the first with what the first operation left: the records that
  were only there are lost (`overwritten`).
- A team entered while a restore is between its backup and the removal of the old file is in
  neither the backup nor the new file (`late`). Two restores that overlap can leave the
  server writing to a file without a name; what is entered then is lost at the next start and is
  `late` too.
- A restore that fails after the database is closed leaves it closed until the next start. The
  settings in memory go on; every page that reads the database fails. If it is the opening of the new
  file that fails, `arena.Database` is nil and the next use of it panics.
- A first start that ends after `NewArena` created the file and before the settings were seeded is
  not a first start the next time, and config.yaml's `network_security_enabled` is never used.
- Two settings forms at once write into one structure; what is stored may be a mixture, and a
  layout that was not checked (`BadLayoutsRejected` says that this takes two forms).
- A page that is slow but alive may be given up by a notifier for good: nothing subscribes it
  again before it is reloaded. When two `NotifyWithMessage` calls cross, a page may keep showing
  the older match load until the next one; what `Update` notifies heals by itself.
- Read errors of an A-stop look like a released button; the shutdown's 600 ms may be too short for
  a packet when several panels time out. Neither is modelled.
- An operator who toggles a station's e-stop on hides the rising edge of a later press or
  wiring fault, so that neither aborts the match (`wasStopped`; `StopsEndTheMatch` and
  `FaultStopsField` except that station for that match). README.md 859 says that a wiring fault stops the field.
- Removing a panel's address leaves the fault it reported in `EStopFault`.
- Restoring a database reloads all settings without looking at the match state.
- `DisableAll` and `toggleBypass` can overwrite one another (`FirstPacketDisables`
  excepts the station whose bypass a toggle stored last).
- Registering through a race of the listener can put one driver station in two stations,
  and `assignTeam`'s early return keeps it there.
- Early return again: a station with a driver station keeps the copy of its team that it
  has, so a WPA key changed on Match Play is stored but not pushed until the driver station
  goes; the comment at web/match_play.go 107 to 110 says the push carries it. Such a station is
  not in `due`.
- The access point's monitor compares team numbers only: a push lost after a change of key
  is never retried. Two pushes inside `ConfigureTeamWifi` at once may store a mixture of
  their lineups, or the older one, and the monitor then defends it (`lost`).
- A lineup registered while network security is off is never asked for; the switch learns
  of it, and the access point too, at the next registration. A settings form that is turned away
  has still changed the live settings, by which `setupNetwork`, `configureTeamEthernet` and
  `cycleStationPortsForRenewal` decide: network security may be switched on or off for the next
  lineup without being stored, and be another one for the access point's client. `NetworkIsAsStored`
  compares both, and exempts the live settings once a form was turned away (`stray`).
- `runCommand` takes a read timeout for success and nobody looks at what IOS answers, so a session
  that was not carried out ends in a green badge, or leaves ports shut although the comment in
  `CycleStationPorts` (network/switch.go 453) says that is reported loudly. What can be promised is
  about the stations that no such session passed over (`missed`, `unopened`).
- A switch that was power-cycled is not noticed. A failed port bounce leaves ports down
  while the Switch object believes in its state (`DownPortsAccounted`).
- `dsConn.update` skips the link timeout when a send fails.
- `sampler.at` is stamped after the read, so a stalled read looks fresh; `PressSafety`
  counts the read in its bound.
- The shift warning outlasts the cue by the second that the cue is early. With a teleop that is not
  140 s, lights and Hubs differ by the difference.
- The sound table ignores a warmup, and control packets with a warmup show seconds that
  wrap below zero in AUTO.
- A settings save makes sounds unplayed, so that in PostMatch the start cue is played.
- The goroutine of an earlier match may cut the white of a later one short.

## 6. Simplifications

- Reading the GPIO lines of a panel is one step over all inputs (it may stall before it is
  stamped); both lines of a button are opened as one.
- The PLC is the fake one that `NewArena` installs.
- A Telnet session is carried out station by station, for any of its stations. The settings always
  give the switch an address.
- A push the access point accepts is applied whole, in its own time; teams are in the
  database.
- The three seconds before the Hubs are switched off are "some time later".
- The disk does not fail; a stop of the process loses nothing that was written. Transactions of the
  bolt store are one step each.
- The messages of the notifiers are versions; the sounds notifier has no producer and is left out.
- Team numbers are model values; names, log rows, packet layout and IOS commands are not
  modelled.

Not modelled: PLC client, web interface and displays, match logs, event status, scripts. The
reasons are with each in `PROJECT.json`. The first is never run on this field; the others are
rendering or storage of what nothing reads back.

## 7. Plan

Order of work, most important behaviour first. Done: `Arena`, `StopTracking` with `Shutdown`,
`DriverStations`, `StopInput`, `EStopPanel`, `FieldSwitch`, `MatchCues`, `AccessPoint`, `Notifier`,
`EventDatabase`, the abstract `Lineup` with its two refinements, and proofs of the safety properties
of all of them.

Next, models:

1. An abstract specification of a match (periods in order, abort, clear) that both `Arena` and
   `MatchCues` implement.
2. The link timeout of a driver station whose packets cannot be sent (`dsConn.update`).

Next, theorems:

1. `SecuritySafety` with overlapping restores, once the property says which of them counts.
2. The abstract match, as refinements by `Arena` and `MatchCues`.
