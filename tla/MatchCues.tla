----------------------------- MODULE MatchCues -----------------------------
(***************************************************************************)
(* What a match is seen and heard by: the sounds, the field lights, the    *)
(* Hub LEDs and the seconds shown to the drivers, all computed by the loop *)
(* from the time since the match began (Arena.Update, field/arena_leds.go, *)
(* game/hub.go, game/match_sounds.go).  The field lights count back from   *)
(* the end of teleop in whole seconds, the Hubs forward from the start of  *)
(* the match, and the sounds have a table of their own.                    *)
(*                                                                         *)
(* Time passes in fractions of a second while the loop waits and while it  *)
(* polls panels, which is after it looked at the time and before it looks  *)
(* again for the Hubs.  What decides who may run is in Arena.tla.          *)
(***************************************************************************)
EXTENDS Integers, Sequences

CONSTANTS
  Sec,          \* units of time in a second
  MaxWait,      \* bound on the units the loop waits between two updates
  MaxStall,     \* bound on the units an update spends polling
  Settings,     \* what the settings may say
  MaxAssessing  \* bound on the Hub goroutines a match may be started over

SettingsType == [warmup : Nat, auto : Nat, pause : Nat, teleop : Nat, warning : Nat,
                 fallback : {"full", "solid", "binary"}, artNet : BOOLEAN]
ASSUME CuesAssumption ==
  /\ Sec \in Nat \ {0} /\ MaxWait \in Nat /\ MaxStall \in Nat /\ MaxAssessing \in Nat
  /\ Settings \subseteq SettingsType

VARIABLES
  matchState, autoWinner, gameData,
  time,       \* units since MatchStartTime when the last update was over, 0 outside a match
  lastTime,   \* LastMatchTimeSec, when it began
  lastState,  \* lastMatchState, "none" before the first update
  settings,   \* EventSettings: game.MatchTiming, the LED fallback and protocol
  played,     \* soundsPlayed, as indices of MatchSounds
  mute,       \* MuteMatchSounds
  lights,     \* lastLightingState: shift and warning
  hub,        \* the mode last given to each alliance's Hub
  assessing,  \* goroutines that will switch the Hubs off
  heard,      \* the cues played since the match was started
  disturbed   \* settings were loaded or cues muted since then; heard is of no use

matchVars == <<matchState, autoWinner, gameData>>
clockVars == <<time, lastTime, lastState>>
soundVars == <<played, mute, heard, disturbed>>
vars == <<matchVars, clockVars, settings, soundVars, lights, hub, assessing>>

Alliances == {"red", "blue"}
InProgress == {"StartMatch", "WarmupPeriod", "AutoPeriod", "PausePeriod", "TeleopPeriod"}
MatchStates == InProgress \cup {"PreMatch", "PostMatch"}

(* game.Shift; an ongoing match that is in no shift is in ShiftCount. *)
ShiftAuto == 0
ShiftTransition == 1
Shift1 == 2
Shift2 == 3
Shift3 == 4
Shift4 == 5
ShiftEndgame == 6
ShiftPostMatch == 7
ShiftCount == 8
Modes == {"off", "solid", "pulse", "advantage", "startup", "white"}
AllOff == [a \in Alliances |-> "off"]

TypeOK ==
  /\ matchState \in MatchStates /\ lastState \in MatchStates \cup {"none"}
  /\ autoWinner \in Alliances \cup {"none"} /\ gameData \in {"none", "R", "B"}
  /\ time \in Nat /\ lastTime \in Nat
  /\ settings \in Settings
  /\ played \subseteq 1 .. 5 /\ mute \in BOOLEAN
  /\ lights \in [shift : 0 .. 8, warning : BOOLEAN]
  /\ hub \in [Alliances -> Modes]
  /\ assessing \in 0 .. MaxAssessing
  /\ heard \in Seq({"start", "end", "resume", "warning", "abort", "shift_change"})
  /\ disturbed \in BOOLEAN

Init ==
  /\ matchState = "PreMatch" /\ autoWinner = "none" /\ gameData = "none"
  /\ time = 0 /\ lastTime = 0 /\ lastState = "none"
  /\ settings \in Settings
  /\ played = {} /\ mute = FALSE
  /\ lights = [shift |-> ShiftAuto, warning |-> FALSE]
  /\ hub = AllOff /\ assessing = 0
  /\ heard = <<>> /\ disturbed = FALSE

-----------------------------------------------------------------------------
(* Definitions with a suffix _... are mutations: bugs the runs must catch.  *)

(* game.MatchTiming's constants, and its durations in units of time.        *)
TransitionShiftDurationSec == 10
ShiftDurationSec == 25
EndgameDurationSec == 30
GetTeleopDurationSec == TransitionShiftDurationSec + 4 * ShiftDurationSec + EndgameDurationSec
AutoEnd == Sec * (settings.warmup + settings.auto)
TeleopStart == AutoEnd + Sec * settings.pause
TeleopEnd == TeleopStart + Sec * settings.teleop

(* The state machine of Update at match time m; over: the dwell has passed. *)
EnterAuto == matchState' = "AutoPeriod" /\ autoWinner' \in Alliances
GameDataFor(winner) == CASE winner = "red" -> "R" [] winner = "blue" -> "B" [] OTHER -> "none"
Enter(state) == matchState' = state /\ UNCHANGED autoWinner
Switch(m, over) ==
  /\ CASE matchState = "StartMatch" -> IF settings.warmup > 0 THEN Enter("WarmupPeriod") ELSE EnterAuto
       [] matchState = "WarmupPeriod" /\ m >= Sec * settings.warmup -> EnterAuto
       [] matchState = "AutoPeriod" /\ m >= AutoEnd ->
            Enter(IF settings.pause > 0 THEN "PausePeriod" ELSE "TeleopPeriod")
       [] matchState = "PausePeriod" /\ m >= TeleopStart -> Enter("TeleopPeriod")
       [] matchState = "TeleopPeriod" /\ m >= TeleopEnd -> Enter("PostMatch")
       [] matchState = "PostMatch" /\ over -> Enter("PreMatch")
       [] OTHER -> Enter(matchState)
  /\ gameData' = IF matchState' # "TeleopPeriod" THEN "none"
                 ELSE IF matchState = "TeleopPeriod" THEN gameData
                 ELSE GameDataFor(autoWinner)

(* handleSounds with the table of UpdateMatchSounds, whose times leave the  *)
(* warmup out: the sounds due at match time m that have not been played.    *)
MatchSounds ==
  LET auto == settings.auto
      teleop == auto + settings.pause IN
  << [name |-> "start",   at |-> 0],
     [name |-> "end",     at |-> auto],
     [name |-> "resume",  at |-> teleop],
     [name |-> "warning", at |-> teleop + settings.teleop - settings.warning],
     [name |-> "end",     at |-> teleop + settings.teleop] >>
DueSounds_Replayed(m) ==
  {i \in 1 .. 5 : LET late == m - Sec * MatchSounds[i].at IN late >= 0 /\ late < Sec}
DueSounds(m) ==
  {i \in 1 .. 5 \ played : LET late == m - Sec * MatchSounds[i].at IN late >= 0 /\ late < Sec}
Name(i, due) == IF i \in due THEN <<MatchSounds[i].name>> ELSE <<>>
Names(due) == Name(1, due) \o Name(2, due) \o Name(3, due) \o Name(4, due) \o Name(5, due)

(* PlaySound *)
Hear(cues, muted) == heard' = IF muted \/ disturbed THEN heard ELSE heard \o cues

(* teleopShift, from the whole seconds that remain of teleop. *)
TeleopShift_Inclusive(remaining) ==
  CASE remaining >= EndgameDurationSec + 4 * ShiftDurationSec -> ShiftTransition
    [] remaining < EndgameDurationSec -> ShiftEndgame
    [] OTHER -> Shift4 - (remaining - EndgameDurationSec) \div ShiftDurationSec
TeleopShift(remaining) ==
  CASE remaining > EndgameDurationSec + 4 * ShiftDurationSec -> ShiftTransition
    [] remaining <= EndgameDurationSec -> ShiftEndgame
    [] OTHER -> Shift4 - (remaining - EndgameDurationSec - 1) \div ShiftDurationSec

ShiftWarning(remaining) ==
  remaining \in (130 .. 132) \cup (105 .. 107) \cup (80 .. 82) \cup (55 .. 57)

(* computeLightingState in a match state, at match time m. *)
LightingState(state, m) ==
  LET remaining == (TeleopEnd - m) \div Sec IN
  CASE state = "AutoPeriod" -> [shift |-> ShiftAuto, warning |-> FALSE]
    [] state = "TeleopPeriod" ->
         [shift |-> TeleopShift(remaining), warning |-> ShiftWarning(remaining)]
    [] state = "PostMatch" -> [shift |-> ShiftPostMatch, warning |-> FALSE]
    [] OTHER -> [shift |-> ShiftCount, warning |-> FALSE]
ShiftChange(new) == new.shift # lights.shift /\ new.shift \in Shift1 .. Shift4

-----------------------------------------------------------------------------
(* Hub.GetCurrentShiftTiming *)
ShiftStart(shift) ==
  CASE shift = ShiftAuto -> 0
    [] shift = ShiftTransition -> TeleopStart
    [] OTHER -> TeleopStart + Sec * (TransitionShiftDurationSec + ShiftDurationSec * (shift - Shift1))
ShiftEnd(shift) ==
  CASE shift = ShiftAuto -> AutoEnd
    [] shift = ShiftEndgame -> TeleopEnd
    [] OTHER -> ShiftStart(shift + 1)
Within(shift, now) == ShiftStart(shift) <= now /\ now < ShiftEnd(shift)
HubShifts(now) == {shift \in ShiftAuto .. ShiftEndgame : Within(shift, now)}

(* Arena.hubs, Hub.IsShiftActive *)
WonAuto(alliance) == (alliance = "red") = (autoWinner = "red")
IsShiftActive_Swapped(alliance, shift) ==
  CASE shift \in {Shift1, Shift3} -> WonAuto(alliance)
    [] shift \in {Shift2, Shift4} -> ~WonAuto(alliance)
    [] OTHER -> TRUE
IsShiftActive(alliance, shift) ==
  CASE shift \in {Shift1, Shift3} -> ~WonAuto(alliance)
    [] shift \in {Shift2, Shift4} -> WonAuto(alliance)
    [] OTHER -> TRUE

(* updateTeleopHubLeds: a Hub about to go dark pulses. *)
HubLightWarningSec == 3
Pulses(alliance, shift) ==
  \/ shift \in {ShiftTransition, Shift2} /\ WonAuto(alliance)
  \/ shift \in {Shift1, Shift3} /\ ~WonAuto(alliance)
  \/ shift = ShiftEndgame
TeleopMode(alliance, shift, now) ==
  LET warn == ShiftEnd(shift) - now <= Sec * HubLightWarningSec IN
  CASE warn /\ Pulses(alliance, shift) -> "pulse"
    [] ~warn /\ shift = ShiftTransition /\ WonAuto(alliance) -> "advantage"
    [] OTHER -> IF IsShiftActive(alliance, shift) THEN "solid" ELSE "off"

(* setHubLedModes with ApplyFallback, for fixtures that cannot show it all. *)
Shown(mode) ==
  CASE settings.fallback # "full" /\ mode \in {"startup", "advantage"} -> "solid"
    [] settings.fallback = "binary" /\ mode = "pulse" -> "solid"
    [] OTHER -> mode
SetHubs(modes) == hub' = [a \in Alliances |-> Shown(modes[a])]

(* updateHubLeds at the time now; the end of a match is white until a       *)
(* goroutine switches the Hubs off.                                         *)
Assess_NoGoroutine == UNCHANGED assessing
Assess == assessing' = assessing + 1
UpdateHubLeds(state, now) ==
  CASE state = "TeleopPeriod" /\ HubShifts(now) # {} ->
         (\E shift \in HubShifts(now) : SetHubs([a \in Alliances |-> TeleopMode(a, shift, now)]))
         /\ UNCHANGED assessing
    [] state \in {"AutoPeriod", "PausePeriod"} ->
         SetHubs([a \in Alliances |-> IF state = "AutoPeriod" THEN "startup" ELSE "solid"])
         /\ UNCHANGED assessing
    [] state = "PostMatch" /\ lastState # "PostMatch" ->
         SetHubs([a \in Alliances |-> "white"]) /\ Assess
    [] OTHER -> UNCHANGED <<hub, assessing>>

SwitchHubsOff ==
  /\ assessing > 0
  /\ assessing' = assessing - 1 /\ SetHubs(AllOff)
  /\ UNCHANGED <<matchVars, clockVars, settings, soundVars, lights>>

(* The seconds of encodeControlPacket, which have 16 bits; they leave the   *)
(* warmup out.                                                              *)
SecondsRemaining_NoPause(state, m) ==
  (CASE state = "PreMatch" -> settings.auto
     [] state \in {"StartMatch", "AutoPeriod"} -> settings.auto - m \div Sec
     [] state = "PausePeriod" -> settings.teleop
     [] state = "TeleopPeriod" -> settings.auto + settings.teleop - m \div Sec
     [] OTHER -> 0) % 65536
SecondsRemaining(state, m) ==
  (CASE state = "PreMatch" -> settings.auto
     [] state \in {"StartMatch", "AutoPeriod"} -> settings.auto - m \div Sec
     [] state = "PausePeriod" -> settings.teleop
     [] state = "TeleopPeriod" ->
          settings.auto + settings.teleop + settings.pause - m \div Sec
     [] OTHER -> 0) % 65536

-----------------------------------------------------------------------------
(* Update *)
Update(wait, stall, over) ==
  LET m == IF matchState \in {"PreMatch", "StartMatch", "PostMatch"} THEN 0 ELSE time + wait
      cleared == matchState = "PostMatch" /\ over
      due == IF matchState' = "PreMatch" THEN {} ELSE DueSounds(m)
      new == LightingState(matchState', m) IN
  /\ Switch(m, over)
  /\ played' = IF cleared THEN {} ELSE played \cup due
  /\ mute' = (mute /\ ~cleared)
  /\ Hear(Names(due) \o (IF ShiftChange(new) THEN <<"shift_change">> ELSE <<>>), mute')
  /\ lights' = new
  /\ UpdateHubLeds(matchState', m + stall)
  /\ time' = IF matchState' \in InProgress THEN m + stall ELSE 0
  /\ lastTime' = m /\ lastState' = matchState'
  /\ UNCHANGED <<settings, disturbed>>

(* Operator commands. *)
StartMatch ==
  /\ matchState = "PreMatch" /\ assessing < MaxAssessing
  /\ matchState' = "StartMatch"
  /\ heard' = <<>> /\ disturbed' = mute
  /\ UNCHANGED <<autoWinner, gameData, clockVars, settings, played, mute, lights, hub, assessing>>

AbortMatch ==
  /\ matchState \in InProgress
  /\ matchState' = "PostMatch" /\ gameData' = "none" /\ time' = 0
  /\ Hear(IF matchState # "WarmupPeriod" THEN <<"abort">> ELSE <<>>, mute)
  /\ UNCHANGED <<autoWinner, lastTime, lastState, settings, played, mute, disturbed, lights, hub,
                 assessing>>

(* ClearMatch and ResetField: ResetMatch, and LoadMatch's new soundsPlayed. *)
ResetMatch ==
  /\ matchState \in {"PreMatch", "PostMatch"}
  /\ matchState' = "PreMatch" /\ gameData' = "none"
  /\ played' = {} /\ mute' = FALSE
  /\ UNCHANGED <<autoWinner, clockVars, settings, heard, disturbed, lights, hub, assessing>>

SetMuteMatchSounds(muted) ==
  /\ mute' = muted
  /\ disturbed' = (disturbed \/ muted) /\ heard' = IF muted THEN <<>> ELSE heard
  /\ UNCHANGED <<matchVars, clockVars, settings, played, lights, hub, assessing>>

(* LoadSettings: UpdateMatchSounds makes sounds that nobody has played, and *)
(* another LED protocol a controller with both Hubs off.                    *)
LoadSettings(new) ==
  /\ settings' = new
  /\ played' = {}
  /\ hub' = IF new.artNet # settings.artNet THEN AllOff ELSE hub
  /\ disturbed' = TRUE /\ heard' = <<>>
  /\ UNCHANGED <<matchVars, clockVars, mute, lights, assessing>>

Next ==
  \/ \E wait \in 0 .. MaxWait, stall \in 0 .. MaxStall, over \in BOOLEAN : Update(wait, stall, over)
  \/ StartMatch \/ AbortMatch \/ ResetMatch
  \/ \E muted \in BOOLEAN : SetMuteMatchSounds(muted)
  \/ \E new \in Settings : LoadSettings(new)
  \/ SwitchHubsOff
Spec == Init /\ [][Next]_vars

-----------------------------------------------------------------------------
(* A match heard from its start to its end, with sounds on and settings     *)
(* left alone, plays the table's cues and the four handovers in this order, *)
(* each of them once, however the loop is slowed by its panels and whether  *)
(* or not there is a warmup (handleSounds, shiftChangeSounds).              *)
Cues == <<"start", "end", "resume", "shift_change", "shift_change", "shift_change",
          "shift_change", "warning", "end">>
CuesInSequence ==
  [][~disturbed' =>
       /\ matchState' \in InProgress => heard' = SubSeq(Cues, 1, Len(heard'))
       /\ matchState = "TeleopPeriod" /\ lastState' = "PostMatch" => heard' = Cues]_vars

(* The field lights are counted back from the end of teleop in truncated    *)
(* seconds, the Hubs from the start of the match.  If teleop has the length *)
(* of its shifts, the lights hand over when less than a second of the Hubs' *)
(* shift is left, neither earlier nor later, and warn in the three seconds  *)
(* before the Hubs' handover (teleopShift, shiftWarning,                    *)
(* Hub.GetCurrentShiftTiming).  The lead is the code's: CueWithHubs is what *)
(* the repository says of it.                                               *)
LightsLeadHubs ==
  ~disturbed /\ matchState = "TeleopPeriod" /\ settings.teleop = GetTeleopDurationSec =>
    /\ \A shift \in HubShifts(lastTime) :
         lights.shift = IF shift < ShiftEndgame /\ ShiftEnd(shift) - lastTime < Sec
                        THEN shift + 1 ELSE shift
    /\ lights.warning = \E shift \in Shift1 .. Shift4 :
                          ShiftStart(shift) - lastTime \in 0 .. Sec * 3 - 1

(* "The cue and the HUB can never drift apart": an update that sounds the   *)
(* cue of a handover finds the Hubs in the shift that the lights announce,  *)
(* in a teleop that has the length of its shifts.  The code does not keep   *)
(* it, for the cue follows the lights (shiftChangeSounds,                   *)
(* Hub.GetCurrentShiftTiming).                                              *)
CueWithHubs ==
  [][settings.teleop = GetTeleopDurationSec /\ heard' = Append(heard, "shift_change")
     => lights'.shift \in HubShifts(time)']_vars

(* The game data sent to the driver stations is "a single character naming  *)
(* the alliance whose HUB goes inactive first in Shift1"                    *)
(* (gameDataForAutoWinner): every update of teleop darkens that Hub in the  *)
(* first and third shift, the other in the second and fourth, and no Hub at *)
(* another time, whatever settings were loaded before it.                   *)
Named(alliance) == gameData = IF alliance = "red" THEN "R" ELSE "B"
Dark(alliance) ==
  HubShifts(time) \cap (IF Named(alliance) THEN {Shift1, Shift3} ELSE {Shift2, Shift4}) # {}
HubsFollowGameData ==
  [][matchState' = "TeleopPeriod" /\ time' # time /\ HubShifts(time)' # {}
     => \A a \in Alliances : (hub'[a] = "off") = Dark(a)']_vars

(* The white of a finished match does not stay: whatever matches, aborts    *)
(* and settings follow, a goroutine that switches the Hubs off is still to  *)
(* come (updateHubLeds).                                                    *)
WhiteIsTemporary == (\E a \in Alliances : hub[a] = "white") => assessing > 0

(* "Remaining number of seconds in match" (encodeControlPacket): without a  *)
(* warmup, what the drivers see in AUTO and TELEOP is what is left of the   *)
(* period, rounded up to the next second, and never wraps.                  *)
SecondsShown ==
  ~disturbed /\ settings.warmup = 0 /\ matchState \in {"AutoPeriod", "TeleopPeriod"} =>
    LET left == (IF matchState = "AutoPeriod" THEN AutoEnd ELSE TeleopEnd) - lastTime IN
    Sec * SecondsRemaining(matchState, lastTime) - left \in 0 .. Sec - 1
=============================================================================
