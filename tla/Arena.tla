------------------------------- MODULE Arena -------------------------------
(***************************************************************************)
(* The field controller's core: the match state machine, the stop inputs,  *)
(* the bypass switches and the enable bit of the driver station packets    *)
(* (field/arena.go, with the operator commands of web/match_play.go).      *)
(*                                                                         *)
(* Arena.Update runs every 10 ms with arena.mu held and is split here into *)
(* TickBegin, TickField, PollPanel, HandleInput and TickEnd, in the order  *)
(* of the code: the operator's toggles take no lock, so they can run       *)
(* between any two of those steps.  Every handler that takes arena.mu is   *)
(* one action, enabled only while no tick is under way (pc = "idle").      *)
(*                                                                         *)
(* Time is abstracted: a tick finds the current period over or not, and    *)
(* the next driver station packet due or not.  The PLC is left out: the    *)
(* program only ever installs plc.FakePlc, which is never enabled, so the  *)
(* PLC conditions are false and aStopReset is always true.                 *)
(***************************************************************************)
EXTENDS Naturals, Sequences

CONSTANTS
  Stations,    \* AllianceStations' keys
  All,         \* "all", what an input names that stops every station
  Teams,       \* team numbers
  NoTeam,      \* team number 0, a nil Team
  Clients,     \* web socket clients, each handling one message at a time
  Toggling,    \* the toggles these clients may send
  NoOp,        \* a client between two messages
  Panels,      \* 1..n: the configurable panels, in the order Update polls them
  Owned,       \* Owned[p]: the stations panel p is responsible for, in order
  Wired,       \* Wired[p]: the inputs wired to panel p, in the order reported
  Modes,       \* AUTO winner modes an operator may select
  Durations,   \* values the settings may give "WarmupDurationSec > 0", "Pause.. > 0"
  Monitoring,  \* values the settings and the pins may give fieldEStopMonitored
  Presses      \* what the field e-stop's pins may read when they do not read "ok"

Reading == {"ok", "active", "fault"}   \* StopOK, StopActive, StopFault
ButtonReading == {"ok"} \cup Presses

(* One input of a panel report: the station it names, its kind, and whether *)
(* the panel really read it; an input of an unreachable panel is a fault    *)
(* made up by NetworkEStopPanel.faulted.                                    *)
InputSlot == [station : Stations \cup {All}, isAStop : BOOLEAN, live : BOOLEAN]

(* The stations Update folds an input into: an input for "all" names each.  *)
Named(input) == IF input.station = All THEN Stations ELSE {input.station}

ASSUME ArenaAssumption ==
  /\ NoTeam \notin Teams /\ All \notin Stations
  /\ Panels \subseteq Nat
  /\ Owned \in [Panels -> Seq(Stations)]
  /\ Wired \in [Panels -> Seq(InputSlot)]
  /\ Modes \subseteq {"random", "red", "blue"}
  /\ Durations \subseteq BOOLEAN /\ Durations # {}
  /\ Monitoring \subseteq BOOLEAN /\ Monitoring # {}
  /\ Presses \subseteq {"active", "fault"}
  /\ Toggling \subseteq {"toggleBypass", "toggleEStop"}
  /\ NoOp \notin [op : {"toggleBypass", "toggleEStop"}, station : Stations, value : BOOLEAN]

VARIABLES
  matchState,      \* Arena.MatchState
  matchAborted,    \* Arena.matchAborted
  autoWinnerMode,  \* Arena.AutoWinnerMode
  autoWinner,      \* Arena.AutoWinner
  gameData,        \* Arena.GameData, "none" when empty
  warmup, pause,   \* whether game.MatchTiming's warmup, pause last longer than 0 s
  team,            \* AllianceStation.Team
  conn,            \* AllianceStation.DsConn: "none", "ds", or "robot" once RobotLinked
  robot,           \* what the last packet to DsConn allows: "auto", "teleop", "disabled"
  eStop, aStop,    \* AllianceStation.EStop, .AStop
  bypass,          \* AllianceStation.Bypass
  eStopFault,      \* AllianceStation.EStopFault is not FaultNone
  fieldLive,       \* what the field e-stop's pins read now
  latched,         \* GpioFieldEStopPanel.latched, .latchedFault
  monitored,       \* fieldEStopMonitored: a GPIO panel, not the noop one
  fieldEStopActive,
  fieldEStopFault, \* Arena.fieldEStopFault is not FaultNone
  panelsOn,        \* the panels with an address, Arena.EStopPanels
  pc,              \* where the holder of arena.mu is: "idle" when it is free
  saved,           \* clearMatchLocked's bypassed, while it runs
  toPoll,          \* panels this tick has still to poll
  todo,            \* inputs of the last poll still to be folded in
  pending          \* pending[c]: the store that ends client c's toggle

matchVars   == <<matchState, matchAborted, autoWinner, gameData>>
configVars  == <<autoWinnerMode, warmup, pause, monitored, panelsOn>>
linkVars    == <<team, conn, robot>>
stationVars == <<eStop, aStop, bypass, eStopFault>>
fieldVars   == <<latched, fieldEStopActive, fieldEStopFault>>
tickVars    == <<pc, saved, toPoll, todo>>
vars == <<matchVars, configVars, linkVars, stationVars, fieldVars, fieldLive, tickVars, pending>>

MatchStates == {"PreMatch", "StartMatch", "WarmupPeriod", "AutoPeriod",
                "PausePeriod", "TeleopPeriod", "PostMatch"}
Toggles == [op : {"toggleBypass", "toggleEStop"}, station : Stations, value : BOOLEAN]

TypeOK ==
  /\ matchState \in MatchStates
  /\ matchAborted \in BOOLEAN
  /\ autoWinnerMode \in {"random", "red", "blue"}
  /\ autoWinner \in {"none", "red", "blue"}
  /\ gameData \in {"none", "R", "B"}
  /\ warmup \in BOOLEAN /\ pause \in BOOLEAN
  /\ team \in [Stations -> Teams \cup {NoTeam}]
  /\ conn \in [Stations -> {"none", "ds", "robot"}]
  /\ robot \in [Stations -> {"disabled", "auto", "teleop"}]
  /\ eStop \in [Stations -> BOOLEAN] /\ aStop \in [Stations -> BOOLEAN]
  /\ bypass \in [Stations -> BOOLEAN] /\ eStopFault \in [Stations -> BOOLEAN]
  /\ fieldLive \in Reading /\ latched \in Reading
  /\ monitored \in BOOLEAN
  /\ fieldEStopActive \in BOOLEAN /\ fieldEStopFault \in BOOLEAN
  /\ panelsOn \subseteq Panels /\ toPoll \subseteq Panels
  /\ pc \in {"idle", "clearing", "tickClearing", "field", "panels"}
  /\ saved \in [Stations -> BOOLEAN]
  /\ todo \in Seq(InputSlot)
  /\ pending \in [Clients -> Toggles \cup {NoOp}]

InProgress == matchState \in {"StartMatch", "WarmupPeriod", "AutoPeriod",
                              "PausePeriod", "TeleopPeriod"}
MatchTimeZero == matchState \in {"PreMatch", "StartMatch", "PostMatch"}  \* MatchTimeSec() = 0
Enabled(s) == robot[s] \in {"auto", "teleop"}
Locked == pc = "idle"   \* arena.mu can be taken
NoBypass == [s \in Stations |-> FALSE]

(* NewArena and LoadSettings: an empty test match, no panel latched. *)
Init ==
  /\ matchState = "PreMatch" /\ matchAborted = FALSE
  /\ autoWinnerMode = "random" /\ autoWinner = "none" /\ gameData = "none"
  /\ warmup \in Durations /\ pause \in Durations
  /\ team = [s \in Stations |-> NoTeam]
  /\ conn = [s \in Stations |-> "none"]
  /\ robot = [s \in Stations |-> "disabled"]
  /\ eStop = [s \in Stations |-> FALSE] /\ aStop = [s \in Stations |-> FALSE]
  /\ bypass = NoBypass /\ eStopFault = [s \in Stations |-> FALSE]
  /\ fieldLive = "ok" /\ latched = "ok"
  /\ monitored \in Monitoring
  /\ fieldEStopActive = FALSE /\ fieldEStopFault = FALSE
  /\ panelsOn = Panels
  /\ pc = "idle" /\ saved = NoBypass /\ toPoll = {} /\ todo = <<>>
  /\ pending = [c \in Clients |-> NoOp]

-----------------------------------------------------------------------------
(* Definitions with a suffix _... are mutations: bugs the runs must catch.  *)

(* abortMatchLocked *)
Abort_KeepsGameData ==
  matchState' = "PostMatch" /\ matchAborted' = TRUE /\ UNCHANGED <<autoWinner, gameData>>
Abort ==
  /\ matchState' = "PostMatch"
  /\ gameData' = "none"
  /\ matchAborted' = TRUE
  /\ UNCHANGED autoWinner

AbortForStop_NotInPause ==
  IF InProgress /\ matchState # "PausePeriod" THEN Abort ELSE UNCHANGED matchVars

(* abortMatchForStop: a no-op outside a match. *)
AbortForStop == IF InProgress THEN Abort ELSE UNCHANGED matchVars

(* assignAutoWinner's choices, and gameDataForAutoWinner *)
AutoWinners == IF autoWinnerMode = "random" THEN {"red", "blue"} ELSE {autoWinnerMode}
GameDataFor(winner) ==
  CASE winner = "red" -> "R" [] winner = "blue" -> "B" [] OTHER -> "none"

(* The match state part of ResetMatch. *)
ToPreMatch ==
  /\ matchState' = "PreMatch"
  /\ matchAborted' = FALSE
  /\ gameData' = "none"
  /\ UNCHANGED autoWinner

EnterAuto ==
  /\ matchState' = "AutoPeriod"
  /\ autoWinner' \in AutoWinners
  /\ UNCHANGED <<matchAborted, gameData>>

EnterTeleop ==
  /\ matchState' = "TeleopPeriod"
  /\ gameData' = GameDataFor(autoWinner)
  /\ UNCHANGED <<matchAborted, autoWinner>>

Stay == UNCHANGED matchVars

(* clearMatchLocked up to ResetMatch, which drops the bypasses; LoadMatch   *)
(* finds every station assigned already.  Toggles can run in between, until *)
(* RestoreBypass puts the saved bypasses back.                              *)
ClearLocked(then) ==
  /\ ToPreMatch
  /\ saved' = bypass /\ bypass' = NoBypass
  /\ pc' = then
RestoreBypass == bypass' = saved /\ saved' = NoBypass

(* The state machine at the head of Update, but for the end of the dwell.   *)
(* over: the period's time is up.  mode: what the packet of this tick may   *)
(* allow a robot to do.  forced: the packet is sent whether or not it is due.*)
Switch(over, mode, forced) ==
  \/ /\ matchState = "PreMatch" /\ Stay
     /\ mode = "disabled" /\ ~forced
  \/ /\ matchState = "StartMatch" /\ warmup
     /\ matchState' = "WarmupPeriod" /\ gameData' = "none" /\ UNCHANGED <<matchAborted, autoWinner>>
     /\ mode = "disabled" /\ ~forced
  \/ /\ matchState = "StartMatch" /\ ~warmup
     /\ matchState' = "AutoPeriod" /\ gameData' = "none" /\ autoWinner' \in AutoWinners
     /\ UNCHANGED matchAborted
     /\ mode = "auto" /\ forced
  \/ /\ matchState = "WarmupPeriod"
     /\ \/ ~over /\ Stay /\ mode = "disabled" /\ ~forced
        \/ over /\ EnterAuto /\ mode = "auto" /\ forced
  \/ /\ matchState = "AutoPeriod"
     /\ \/ ~over /\ Stay /\ mode = "auto" /\ ~forced
        \/ /\ over /\ pause /\ forced /\ mode = "disabled"
           /\ matchState' = "PausePeriod" /\ UNCHANGED <<matchAborted, autoWinner, gameData>>
        \/ over /\ ~pause /\ EnterTeleop /\ mode = "teleop" /\ forced
  \/ /\ matchState = "PausePeriod"
     /\ \/ ~over /\ Stay /\ mode = "disabled" /\ ~forced
        \/ over /\ EnterTeleop /\ mode = "teleop" /\ forced
  \/ /\ matchState = "TeleopPeriod"
     /\ \/ ~over /\ Stay /\ mode = "teleop" /\ ~forced
        \/ /\ over /\ forced /\ mode = "disabled"
           /\ matchState' = "PostMatch" /\ gameData' = "none" /\ UNCHANGED <<matchAborted, autoWinner>>
  \/ /\ matchState = "PostMatch" /\ ~over /\ Stay
     /\ mode = "disabled" /\ ~forced

(* sendDsPacket: one packet to every station that has a connection. *)
Packet_IgnoresBypass(s, mode) ==
  IF eStop[s] \/ (mode = "auto" /\ aStop[s]) THEN "disabled" ELSE mode
Packet(s, mode) ==
  IF eStop[s] \/ bypass[s] \/ (mode = "auto" /\ aStop[s]) THEN "disabled" ELSE mode
SendDsPacket_SkipsStopped(mode) ==
  robot' = [s \in Stations |-> IF conn[s] = "none" \/ eStop[s] THEN robot[s] ELSE Packet(s, mode)]
SendDsPacket(mode) ==
  robot' = [s \in Stations |-> IF conn[s] = "none" THEN robot[s] ELSE Packet(s, mode)]

(* Update up to and including the packet, or up to the point where it has   *)
(* to clear the match at the end of the dwell.                              *)
TickBegin(over, due) ==
  /\ pc = "idle"
  /\ \E mode \in {"disabled", "auto", "teleop"}, forced \in BOOLEAN :
       /\ Switch(over, mode, forced)
       /\ IF forced \/ due THEN SendDsPacket(mode) ELSE UNCHANGED robot
  /\ pc' = "field"
  /\ UNCHANGED <<configVars, team, conn, stationVars, fieldVars, fieldLive, saved,
                 toPoll, todo, pending>>

TickClear_NotAborted ==
  /\ pc = "idle" /\ matchState = "PostMatch" /\ ~matchAborted
  /\ ClearLocked("tickClearing")
  /\ UNCHANGED <<configVars, linkVars, eStop, aStop, eStopFault, fieldVars, fieldLive,
                 toPoll, todo, pending>>
TickClear ==
  /\ pc = "idle" /\ matchState = "PostMatch"
  /\ ClearLocked("tickClearing")
  /\ UNCHANGED <<configVars, linkVars, eStop, aStop, eStopFault, fieldVars, fieldLive,
                 toPoll, todo, pending>>

TickRestore(due) ==
  /\ pc = "tickClearing"
  /\ RestoreBypass
  /\ IF due THEN SendDsPacket("disabled") ELSE UNCHANGED robot
  /\ pc' = "field"
  /\ UNCHANGED <<matchVars, configVars, team, conn, eStop, aStop, eStopFault, fieldVars,
                 fieldLive, toPoll, todo, pending>>

(* GpioFieldEStopPanel.State: the latch only escalates.  The noop panel     *)
(* always reports StopOK.                                                   *)
FieldState_NotReread == IF monitored THEN latched ELSE "ok"
FieldState ==
  CASE ~monitored -> "ok"
    [] monitored /\ (fieldLive = "fault" \/ (fieldLive = "active" /\ latched = "ok")) -> fieldLive
    [] OTHER -> latched

(* Update's poll of the field e-stop. *)
TickField ==
  /\ pc = "field"
  /\ latched' = FieldState
  /\ fieldEStopFault' = (FieldState = "fault")
  /\ IF FieldState # "ok" /\ ~fieldEStopActive
     THEN /\ fieldEStopActive' = TRUE
          /\ eStop' = [s \in Stations |-> TRUE]
          /\ AbortForStop
     ELSE UNCHANGED <<fieldEStopActive, eStop, matchVars>>
  /\ pc' = "panels" /\ toPoll' = panelsOn
  /\ UNCHANGED <<configVars, linkVars, aStop, bypass, eStopFault, fieldLive, saved, todo, pending>>

(* NetworkEStopPanel.Poll of the next panel, which holds arena.mu for up to *)
(* 200 ms: the inputs it reports or, if it does not answer, answers late,   *)
(* with garbage or with no input at all, a fault for each of its stations.  *)
Faulted(p) == [i \in DOMAIN Owned[p] |->
                 [station |-> Owned[p][i], isAStop |-> FALSE, live |-> FALSE]]
PollPanel(answered) ==
  /\ pc = "panels" /\ todo = <<>>
  /\ \E p \in toPoll :
       /\ \A q \in toPoll : p <= q
       /\ toPoll' = toPoll \ {p}
       /\ todo' = IF answered /\ Wired[p] # <<>> THEN Wired[p] ELSE Faulted(p)
  /\ UNCHANGED <<matchVars, configVars, linkVars, stationVars, fieldVars, fieldLive, pc,
                 saved, pending>>

(* handleTeamEStop with the fault and the abort of handlePanelInput.  An    *)
(* input for "all" stations is folded into each of them.                    *)
EStopInput_FaultIsReleased(who, reading) ==
  /\ eStopFault' = [s \in Stations |-> IF s \in who THEN reading = "fault" ELSE eStopFault[s]]
  /\ eStop' = [s \in Stations |->
                 IF s \notin who THEN eStop[s]
                 ELSE reading = "active" \/ (eStop[s] /\ ~MatchTimeZero)]
  /\ IF reading = "active" /\ \E s \in who : ~eStop[s] THEN AbortForStop ELSE Stay
  /\ UNCHANGED aStop
EStopInput(who, reading) ==
  /\ eStopFault' = [s \in Stations |-> IF s \in who THEN reading = "fault" ELSE eStopFault[s]]
  /\ eStop' = [s \in Stations |->
                 IF s \notin who THEN eStop[s]
                 ELSE reading # "ok" \/ (eStop[s] /\ ~MatchTimeZero)]
  /\ IF reading # "ok" /\ \E s \in who : ~eStop[s] THEN AbortForStop ELSE Stay
  /\ UNCHANGED aStop

(* handleTeamAStop: only StopActive counts, and AUTO keeps the latch. *)
AStopInput_NotHeld(who, reading) ==
  /\ aStop' = [s \in Stations |-> IF s \in who THEN reading = "active" ELSE aStop[s]]
  /\ UNCHANGED <<matchVars, eStop, eStopFault>>
AStopInput(who, reading) ==
  /\ aStop' = [s \in Stations |->
                 IF s \notin who THEN aStop[s]
                 ELSE reading = "active" \/ (aStop[s] /\ matchState = "AutoPeriod")]
  /\ UNCHANGED <<matchVars, eStop, eStopFault>>

(* handlePanelInput on the next input of the report. *)
HandleInput(reading) ==
  /\ pc = "panels" /\ todo # <<>>
  /\ Head(todo).live \/ reading = "fault"
  /\ IF Head(todo).isAStop THEN AStopInput(Named(Head(todo)), reading)
                           ELSE EStopInput(Named(Head(todo)), reading)
  /\ todo' = Tail(todo)
  /\ UNCHANGED <<configVars, linkVars, bypass, fieldVars, fieldLive, pc, saved, toPoll,
                 pending>>

(* The rest of Update (lights, LEDs, PLC) leaves this state alone. *)
TickEnd ==
  /\ pc = "panels" /\ todo = <<>> /\ toPoll = {}
  /\ pc' = "idle"
  /\ UNCHANGED <<matchVars, configVars, linkVars, stationVars, fieldVars, fieldLive,
                 saved, toPoll, todo, pending>>

-----------------------------------------------------------------------------
(* Operator commands that take arena.mu. *)

(* checkCanStartMatch, checkAllianceStationsReady *)
StationReady_IgnoresFault(s) == ~eStop[s] /\ (bypass[s] \/ conn[s] = "robot")
StationReady(s) ==
  /\ ~eStopFault[s] /\ ~eStop[s]
  /\ bypass[s] \/ conn[s] = "robot"
CanStartMatch_NoFieldStop == matchState = "PreMatch" /\ \A s \in Stations : StationReady(s)
CanStartMatch ==
  /\ matchState = "PreMatch"
  /\ ~fieldEStopFault /\ ~fieldEStopActive
  /\ \A s \in Stations : StationReady(s)

StartMatch ==
  /\ Locked /\ CanStartMatch
  /\ matchState' = "StartMatch"
  /\ UNCHANGED <<matchAborted, autoWinner, gameData, configVars, linkVars, stationVars,
                 fieldVars, fieldLive, tickVars, pending>>

AbortMatch ==
  /\ Locked /\ InProgress
  /\ Abort
  /\ UNCHANGED <<configVars, linkVars, stationVars, fieldVars, fieldLive, tickVars, pending>>

(* The command clears the match as the end of the dwell does. *)
ClearMatch ==
  /\ Locked /\ matchState = "PostMatch"
  /\ ClearLocked("clearing")
  /\ UNCHANGED <<configVars, linkVars, eStop, aStop, eStopFault, fieldVars, fieldLive,
                 toPoll, todo, pending>>
ClearMatchRestore ==
  /\ pc = "clearing"
  /\ RestoreBypass
  /\ pc' = "idle"
  /\ UNCHANGED <<matchVars, configVars, linkVars, eStop, aStop, eStopFault, fieldVars,
                 fieldLive, toPoll, todo, pending>>

(* ResetField leaves the field e-stop alone. *)
ResetField ==
  /\ Locked /\ matchState \in {"PreMatch", "PostMatch"}
  /\ ToPreMatch
  /\ team' = [s \in Stations |-> NoTeam]
  /\ conn' = [s \in Stations |-> "none"]
  /\ robot' = [s \in Stations |-> "disabled"]
  /\ eStop' = [s \in Stations |-> FALSE] /\ aStop' = [s \in Stations |-> FALSE]
  /\ bypass' = NoBypass /\ eStopFault' = [s \in Stations |-> FALSE]
  /\ UNCHANGED <<configVars, fieldVars, fieldLive, tickVars, pending>>

(* ClearFieldEStop: Clear() drops the latch if the pins read released, then *)
(* State() reads them again; the button may move between the two reads.     *)
AfterClear_Unconditional == "ok"
AfterClear == IF fieldLive = "ok" THEN "ok" ELSE latched
StateAfterClear(second) ==
  CASE ~monitored -> "ok"
    [] monitored /\ (second = "fault" \/ (second = "active" /\ AfterClear = "ok")) -> second
    [] OTHER -> AfterClear
ClearFieldEStop(second) ==
  /\ Locked
  /\ latched' = StateAfterClear(second)
  /\ fieldEStopFault' = (StateAfterClear(second) = "fault")
  /\ IF StateAfterClear(second) = "ok"
     THEN fieldEStopActive' = FALSE /\ eStop' = [s \in Stations |-> FALSE]
     ELSE UNCHANGED <<fieldEStopActive, eStop>>
  /\ fieldLive' = second
  /\ UNCHANGED <<matchVars, configVars, linkVars, aStop, bypass, eStopFault, tickVars, pending>>

(* validateTeams: no team in two stations. *)
DistinctTeams(new) ==
  \A s, t \in Stations : new[s] = new[t] /\ new[s] # NoTeam => s = t

(* SubstituteTeams, which has no match state guard; assignTeam closes the   *)
(* connection of a station whose team changes.                              *)
SubstituteTeams(new) ==
  /\ Locked /\ DistinctTeams(new)
  /\ team' = new
  /\ conn' = [s \in Stations |-> IF new[s] = team[s] THEN conn[s] ELSE "none"]
  /\ robot' = [s \in Stations |-> IF new[s] = team[s] THEN robot[s] ELSE "disabled"]
  /\ UNCHANGED <<matchVars, configVars, stationVars, fieldVars, fieldLive, tickVars, pending>>

BypassEmptyStations ==
  /\ Locked
  /\ bypass' = [s \in Stations |-> bypass[s] \/ team[s] = NoTeam]
  /\ UNCHANGED <<matchVars, configVars, linkVars, eStop, aStop, eStopFault, fieldVars,
                 fieldLive, tickVars, pending>>

SetAutoWinnerMode(mode) ==
  /\ Locked /\ ~InProgress
  /\ autoWinnerMode' = mode
  /\ UNCHANGED <<matchVars, warmup, pause, monitored, panelsOn, linkVars, stationVars,
                 fieldVars, fieldLive, tickVars, pending>>

(* LoadSettings, on a settings save or a database restore; the restore      *)
(* handler has no match state guard.  The field e-stop panel is rebuilt:    *)
(* a fresh GPIO panel, or the noop one if its pins are unset or cannot be   *)
(* opened.                                                                  *)
LoadSettings ==
  /\ Locked
  /\ warmup' \in Durations /\ pause' \in Durations
  /\ monitored' \in Monitoring
  /\ latched' = "ok"
  /\ panelsOn' \in SUBSET Panels
  /\ UNCHANGED <<matchVars, autoWinnerMode, linkVars, stationVars, fieldEStopActive,
                 fieldEStopFault, fieldLive, tickVars, pending>>

-----------------------------------------------------------------------------
(* Operator toggles: as.Bypass.Store(!as.Bypass.Load()) and the same of     *)
(* EStop, without arena.mu, so that anything can run between load and store.*)
ToggleLoad(c, s) ==
  /\ pending[c] = NoOp
  /\ \E op \in Toggling :
       pending' = [pending EXCEPT ![c] =
         [op |-> op, station |-> s,
          value |-> IF op = "toggleBypass" THEN ~bypass[s] ELSE ~eStop[s]]]
  /\ UNCHANGED <<matchVars, configVars, linkVars, stationVars, fieldVars, fieldLive, tickVars>>

ToggleStore(c) ==
  /\ pending[c] # NoOp
  /\ LET t == pending[c] IN
       \/ t.op = "toggleBypass" /\ bypass' = [bypass EXCEPT ![t.station] = t.value]
          /\ UNCHANGED eStop
       \/ t.op = "toggleEStop" /\ eStop' = [eStop EXCEPT ![t.station] = t.value]
          /\ UNCHANGED bypass
  /\ pending' = [pending EXCEPT ![c] = NoOp]
  /\ UNCHANGED <<matchVars, configVars, linkVars, aStop, eStopFault, fieldVars, fieldLive, tickVars>>

-----------------------------------------------------------------------------
(* The driver stations and the field button. *)

(* listenForDriverStations accepts a registered team's driver station and   *)
(* installs a new connection, in place of any connection the station had.   *)
(* It takes no lock; DriverStations.tla models what happens in between.     *)
Connect(s) ==
  /\ team[s] # NoTeam
  /\ conn' = [conn EXCEPT ![s] = "ds"]
  /\ robot' = [robot EXCEPT ![s] = "disabled"]
  /\ UNCHANGED <<matchVars, configVars, team, stationVars, fieldVars, fieldLive, tickVars, pending>>

(* handleTcpConnection fails, closes the connection and removes it. *)
Disconnect(s) ==
  /\ conn[s] # "none"
  /\ conn' = [conn EXCEPT ![s] = "none"]
  /\ robot' = [robot EXCEPT ![s] = "disabled"]
  /\ UNCHANGED <<matchVars, configVars, team, stationVars, fieldVars, fieldLive, tickVars, pending>>

(* A status datagram sets RobotLinked (listenForDsUdpPackets), a silent     *)
(* second clears it (DriverStationConnection.update).                       *)
RobotLink(s, linked) ==
  /\ conn[s] # "none"
  /\ conn' = [conn EXCEPT ![s] = IF linked THEN "robot" ELSE "ds"]
  /\ UNCHANGED <<matchVars, configVars, team, robot, stationVars, fieldVars, fieldLive, tickVars, pending>>

MoveFieldButton(reading) ==
  /\ fieldLive' = reading
  /\ UNCHANGED <<matchVars, configVars, linkVars, stationVars, fieldVars, tickVars, pending>>

-----------------------------------------------------------------------------
Lineups == [Stations -> Teams \cup {NoTeam}]

Operating ==
  \/ StartMatch \/ AbortMatch \/ ClearMatch \/ ClearMatchRestore
  \/ \E second \in ButtonReading : ClearFieldEStop(second)
  \/ \E new \in Lineups : SubstituteTeams(new)
  \/ BypassEmptyStations
  \/ \E mode \in Modes : SetAutoWinnerMode(mode)
  \/ LoadSettings

Command == Operating \/ ResetField

Toggle == \E c \in Clients : ToggleStore(c) \/ \E s \in Stations : ToggleLoad(c, s)

Environment ==
  \/ \E s \in Stations : Connect(s) \/ Disconnect(s) \/ \E linked \in BOOLEAN : RobotLink(s, linked)
  \/ \E reading \in ButtonReading : MoveFieldButton(reading)

Input == \E reading \in Reading : HandleInput(reading)

(* Every step of Update but the folding of an input. *)
TickStep ==
  \/ \E over, due \in BOOLEAN : TickBegin(over, due)
  \/ TickClear
  \/ \E due \in BOOLEAN : TickRestore(due)
  \/ TickField
  \/ \E answered \in BOOLEAN : PollPanel(answered)
  \/ TickEnd

Next == TickStep \/ Input \/ Command \/ Toggle \/ Environment
Spec == Init /\ [][Next]_vars

(* Run's ticker calls Update for ever, and Update terminates, as every      *)
(* handler does.  Time passes: a period or dwell that is waited out is      *)
(* found over at every tick from then on, and a packet falls due every      *)
(* dsPacketPeriodMs.                                                        *)
Fairness ==
  /\ WF_vars(TickStep) /\ WF_vars(Input) /\ WF_vars(ClearMatchRestore)
  /\ SF_vars(TickClear \/ \E due \in BOOLEAN : TickBegin(TRUE, due))
  /\ SF_vars(\E over \in BOOLEAN : TickBegin(over, TRUE))
FairSpec == Spec /\ Fairness

-----------------------------------------------------------------------------
(* Once the field e-stop has fired no match runs until the stop is cleared: *)
(* the tick that latches it aborts the match and checkCanStartMatch refuses *)
(* the next one, whatever toggles, saved settings and panel reports do in   *)
(* between (Update, checkCanStartMatch, ClearFieldEStop).                   *)
FieldStopHoldsField == fieldEStopActive => ~InProgress

(* Game data exists from the start of teleop to its end or abort, and names *)
(* the AUTO winner chosen when AUTO began (Update's comment on GameData).   *)
GameDataOnlyInTeleop ==
  IF matchState = "TeleopPeriod"
  THEN gameData # "none" /\ gameData = GameDataFor(autoWinner)
  ELSE gameData = "none"

(* A match that ended in an abort is not forgotten before the field is      *)
(* cleared, and the flag never reaches the next match (matchAborted).       *)
AbortKnownUntilCleared == matchAborted => matchState = "PostMatch"

(* A packet enables a robot only for the period under way after the state   *)
(* switch of its own tick, in a match nobody aborted, with no field stop    *)
(* and no stop or bypass of its station (Update, sendDsPacket).             *)
NewlyEnabled(s) == robot'[s] # robot[s] /\ robot'[s] # "disabled"
EnableFitsMatch ==
  [][\A s \in Stations : NewlyEnabled(s) =>
       /\ matchState' = IF robot'[s] = "auto" THEN "AutoPeriod" ELSE "TeleopPeriod"
       /\ ~fieldEStopActive /\ ~matchAborted'
       /\ ~eStop[s] /\ ~bypass[s]]_vars

(* A robot that an A-stop disabled in AUTO stays disabled for the rest of   *)
(* AUTO, though the button is released and other packets follow             *)
(* (handleTeamAStop, sendDsPacket).                                         *)
AStopHoldsThroughAuto ==
  [][\A s \in Stations :
       /\ matchState = "AutoPeriod" /\ matchState' = "AutoPeriod"
       /\ aStop[s] /\ ~Enabled(s)
       => aStop'[s] /\ robot'[s] = "disabled"]_vars

(* An operator cannot release a latched field e-stop while its button is    *)
(* held or its wiring is broken, as long as a GPIO panel watches it: the    *)
(* button reads released when ClearFieldEStop takes its last look, and a    *)
(* panel that latched it saw it released before that look as well.          *)
FieldStopOutlastsButton ==
  [][fieldEStopActive /\ ~fieldEStopActive' /\ monitored
     => fieldLive' = "ok" /\ (latched # "ok" => fieldLive = "ok")]_vars

(* "Robots are stopped before anything is torn down ... rather than leaving *)
(* a robot enabled" (ResetField): a connection that ResetField closes was   *)
(* last sent a packet that disables its robot.                              *)
ResetFindsRobotsDisabled ==
  [][\A s \in Stations : ResetField /\ conn[s] # "none" => ~Enabled(s)]_vars

(* The field turns a match around with no operator: every match that starts *)
(* ends, and its dwell ends in PreMatch (the comment on auto-clearing in    *)
(* Update).                                                                 *)
FieldTurnsAround == InProgress ~> matchState = "PreMatch"

(* A latched e-stop reaches the robot: it is released, or a packet disables *)
(* the robot, though an abort itself sends none (sendDsPacket).             *)
EStopReachesRobot ==
  \A s \in Stations : eStop[s] ~> (~eStop[s] \/ ~Enabled(s))

(* A field e-stop button that is held, or whose wiring stays broken, in the *)
(* end stops the field for good, whatever the operators do.                 *)
HeldButtonStopsField ==
  <>[](monitored /\ fieldLive # "ok") => <>[](~InProgress /\ \A s \in Stations : ~Enabled(s))
=============================================================================
