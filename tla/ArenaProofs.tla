----------------------------- MODULE ArenaProofs -----------------------------
(***************************************************************************)
(* Theorems about the arena for every value of its constants: about Arena, *)
(* and about Arena with the records of StopTracking and Shutdown, for any  *)
(* stations, panels, operators and wiring.                                 *)
(***************************************************************************)
EXTENDS StopTracking, TLAPS

(* A report that a panel makes up is a sequence of inputs.                  *)
LEMMA FaultedType == ASSUME NEW p \in Panels PROVE Faulted(p) \in Seq(InputSlot)
<1>1. Owned[p] \in Seq(Stations)
  BY ArenaAssumption
<1>2. PICK n \in Nat : Owned[p] \in [1..n -> Stations]
  BY <1>1
<1>3. Faulted(p) \in [1..n -> InputSlot]
  BY <1>2 DEF Faulted, InputSlot
<1> QED BY <1>3

(* The state switch of a tick keeps the types of what it assigns.           *)
LEMMA SwitchType ==
  ASSUME TypeOK, NEW over \in BOOLEAN, NEW mode, NEW forced, Switch(over, mode, forced)
  PROVE  /\ matchState' \in MatchStates /\ matchAborted' \in BOOLEAN
         /\ autoWinner' \in {"none", "red", "blue"} /\ gameData' \in {"none", "R", "B"}
BY DEF TypeOK, MatchStates, Switch, Stay, matchVars, EnterAuto, EnterTeleop, AutoWinners, GameDataFor

(* The latch of the field e-stop stays a reading.                           *)
LEMMA FieldStateType == TypeOK => FieldState \in Reading
BY DEF TypeOK, FieldState, Reading

(* A handler that aborts, or may abort, the match keeps the types.          *)
LEMMA AbortType ==
  ASSUME TypeOK, Abort \/ AbortForStop \/ Stay \/ ToPreMatch
  PROVE  /\ matchState' \in MatchStates /\ matchAborted' \in BOOLEAN
         /\ autoWinner' \in {"none", "red", "blue"} /\ gameData' \in {"none", "R", "B"}
BY DEF TypeOK, MatchStates, Abort, AbortForStop, Stay, ToPreMatch, matchVars
(* Folding an input in keeps the stop switches Boolean.                     *)
LEMMA EStopInputType ==
  ASSUME TypeOK, NEW who, NEW reading, EStopInput(who, reading)
  PROVE  eStop' \in [Stations -> BOOLEAN] /\ eStopFault' \in [Stations -> BOOLEAN]
<1>1. eStop' \in [Stations -> BOOLEAN]
  BY Zenon DEF TypeOK, EStopInput
<1>2. eStopFault' \in [Stations -> BOOLEAN]
  BY Zenon DEF TypeOK, EStopInput
<1> QED BY <1>1, <1>2
LEMMA AStopInputType ==
  ASSUME TypeOK, NEW who, NEW reading, AStopInput(who, reading)
  PROVE  aStop' \in [Stations -> BOOLEAN]
BY Zenon DEF TypeOK, AStopInput

(* What a toggle remembers between its load and its store is a toggle.      *)
LEMMA ToggleLoadType ==
  ASSUME TypeOK, NEW c \in Clients, NEW s \in Stations, ToggleLoad(c, s)
  PROVE  pending' \in [Clients -> Toggles \cup {NoOp}]
<1>1. [op |-> "toggleBypass", station |-> s, value |-> ~bypass[s]] \in Toggles
  BY Zenon DEF TypeOK, Toggles
<1>2. [op |-> "toggleEStop", station |-> s, value |-> ~eStop[s]] \in Toggles
  BY Zenon DEF TypeOK, Toggles
<1>3. PICK op \in Toggling :
        pending' = [pending EXCEPT ![c] =
          [op |-> op, station |-> s,
           value |-> IF op = "toggleBypass" THEN ~bypass[s] ELSE ~eStop[s]]]
  BY DEF ToggleLoad
<1>4. CASE op = "toggleBypass"
  <2>1. pending' = [pending EXCEPT ![c] =
          [op |-> "toggleBypass", station |-> s, value |-> ~bypass[s]]]
    BY <1>3, <1>4
  <2> QED BY <1>1, <2>1 DEF TypeOK
<1>5. CASE op = "toggleEStop"
  <2>1. pending' = [pending EXCEPT ![c] =
          [op |-> "toggleEStop", station |-> s, value |-> ~eStop[s]]]
    BY <1>3, <1>5
  <2> QED BY <1>2, <2>1 DEF TypeOK
<1> QED BY <1>4, <1>5, ArenaAssumption

(* No handler leaves the types of its variables.                            *)
LEMMA NextKeepsTypes == TypeOK /\ [Next]_vars => TypeOK'
<1> SUFFICES ASSUME TypeOK, [Next]_vars PROVE TypeOK'
  OBVIOUS
<1> USE DEF configVars, linkVars, stationVars, fieldVars, tickVars
<1>1. ASSUME NEW over \in BOOLEAN, NEW due \in BOOLEAN, TickBegin(over, due) PROVE TypeOK'
  BY <1>1, SwitchType DEF TypeOK, TickBegin, SendDsPacket, Packet
<1>2. CASE TickClear
  BY <1>2, AbortType DEF TypeOK, TickClear, ClearLocked, NoBypass
<1>3. ASSUME NEW due \in BOOLEAN, TickRestore(due) PROVE TypeOK'
  BY <1>3 DEF TypeOK, TickRestore, RestoreBypass, NoBypass, SendDsPacket, Packet, matchVars
<1>4. CASE TickField
  <2>1. /\ matchState' \in MatchStates /\ matchAborted' \in BOOLEAN
        /\ autoWinner' \in {"none", "red", "blue"} /\ gameData' \in {"none", "R", "B"}
    BY <1>4, AbortType DEF TickField, Stay
  <2> QED BY <1>4, <2>1, FieldStateType DEF TypeOK, TickField
<1>5. ASSUME NEW answered \in BOOLEAN, PollPanel(answered) PROVE TypeOK'
  <2>1. PICK p \in toPoll :
            /\ toPoll' = toPoll \ {p}
            /\ todo' = IF answered /\ Wired[p] # <<>> THEN Wired[p] ELSE Faulted(p)
    BY <1>5 DEF PollPanel
  <2>2. p \in Panels /\ toPoll' \subseteq Panels
    BY <2>1 DEF TypeOK
  <2>3. Wired[p] \in Seq(InputSlot) /\ Faulted(p) \in Seq(InputSlot)
    BY <2>2, FaultedType, ArenaAssumption
  <2>4. todo' \in Seq(InputSlot)
    BY <2>1, <2>3
  <2> QED BY <1>5, <2>2, <2>4 DEF TypeOK, PollPanel, matchVars
<1>6. CASE TickEnd
  BY <1>6 DEF TypeOK, TickEnd, matchVars
<1>7. ASSUME NEW reading \in Reading, HandleInput(reading) PROVE TypeOK'
  <2>1. todo' \in Seq(InputSlot)
    BY <1>7 DEF TypeOK, HandleInput
  <2>2. CASE Head(todo).isAStop
    <3>1. aStop' \in [Stations -> BOOLEAN] /\ UNCHANGED <<matchVars, eStop, eStopFault>>
      BY <1>7, <2>2, AStopInputType DEF HandleInput, AStopInput
    <3> QED BY <1>7, <2>1, <3>1 DEF TypeOK, HandleInput, matchVars
  <2>3. CASE ~Head(todo).isAStop
    <3>1. AbortForStop \/ Stay
      BY <1>7, <2>3 DEF HandleInput, EStopInput
    <3>2. /\ matchState' \in MatchStates /\ matchAborted' \in BOOLEAN
          /\ autoWinner' \in {"none", "red", "blue"} /\ gameData' \in {"none", "R", "B"}
      BY <3>1, AbortType
    <3>3. /\ eStop' \in [Stations -> BOOLEAN] /\ eStopFault' \in [Stations -> BOOLEAN]
          /\ UNCHANGED aStop
      BY <1>7, <2>3, EStopInputType DEF HandleInput, EStopInput
    <3> QED BY <1>7, <2>1, <3>2, <3>3 DEF TypeOK, HandleInput
  <2> QED BY <2>2, <2>3
<1>8. CASE StartMatch
  BY <1>8 DEF TypeOK, StartMatch, MatchStates
<1>9. CASE AbortMatch
  BY <1>9, AbortType DEF TypeOK, AbortMatch
<1>10. CASE ClearMatch
  BY <1>10, AbortType DEF TypeOK, ClearMatch, ClearLocked, NoBypass
<1>11. CASE ClearMatchRestore
  BY <1>11 DEF TypeOK, ClearMatchRestore, RestoreBypass, NoBypass, matchVars
<1>12. CASE ResetField
  BY <1>12, AbortType DEF TypeOK, ResetField, NoBypass
<1>13. ASSUME NEW second \in ButtonReading, ClearFieldEStop(second) PROVE TypeOK'
  <2>1. second \in Reading
    BY <1>13, ArenaAssumption DEF ButtonReading, Reading
  <2>2. latched' \in Reading
    BY <1>13, <2>1 DEF TypeOK, ClearFieldEStop, StateAfterClear, AfterClear, Reading
  <2>3. fieldEStopActive' \in BOOLEAN /\ fieldEStopFault' \in BOOLEAN
    BY <1>13 DEF TypeOK, ClearFieldEStop
  <2>4. eStop' \in [Stations -> BOOLEAN]
    BY <1>13 DEF TypeOK, ClearFieldEStop
  <2>5. /\ fieldLive' = second
        /\ UNCHANGED <<matchVars, configVars, linkVars, aStop, bypass, eStopFault,
                       tickVars, pending>>
    BY <1>13 DEF ClearFieldEStop
  <2> QED BY <2>1, <2>2, <2>3, <2>4, <2>5 DEF TypeOK, matchVars
<1>14. ASSUME NEW new \in Lineups, SubstituteTeams(new) PROVE TypeOK'
  BY <1>14 DEF TypeOK, SubstituteTeams, Lineups, matchVars
<1>15. CASE BypassEmptyStations
  BY <1>15 DEF TypeOK, BypassEmptyStations, matchVars
<1>16. ASSUME NEW mode \in Modes, SetAutoWinnerMode(mode) PROVE TypeOK'
  BY <1>16, ArenaAssumption DEF TypeOK, SetAutoWinnerMode, matchVars
<1>17. CASE LoadSettings
  <2>1. warmup' \in BOOLEAN /\ pause' \in BOOLEAN /\ monitored' \in BOOLEAN
    BY <1>17, ArenaAssumption DEF LoadSettings
  <2> QED BY <1>17, <2>1 DEF TypeOK, LoadSettings, Reading, matchVars
<1>18. ASSUME NEW c \in Clients, NEW s \in Stations, ToggleLoad(c, s) PROVE TypeOK'
  <2>1. UNCHANGED <<matchVars, configVars, linkVars, stationVars, fieldVars, fieldLive, tickVars>>
    BY <1>18 DEF ToggleLoad
  <2> QED BY <1>18, <2>1, ToggleLoadType
    DEF TypeOK, matchVars, configVars, linkVars, stationVars, fieldVars, tickVars
<1>19. ASSUME NEW c \in Clients, ToggleStore(c) PROVE TypeOK'
  <2>1. pending[c] \in Toggles
    BY <1>19 DEF TypeOK, ToggleStore
  <2> QED BY <1>19, <2>1 DEF TypeOK, ToggleStore, Toggles, matchVars
<1>20. ASSUME NEW s \in Stations, Connect(s) \/ Disconnect(s) PROVE TypeOK'
  BY <1>20 DEF TypeOK, Connect, Disconnect, matchVars
<1>21. ASSUME NEW s \in Stations, NEW linked \in BOOLEAN, RobotLink(s, linked) PROVE TypeOK'
  BY <1>21 DEF TypeOK, RobotLink, matchVars
<1>22. ASSUME NEW reading \in ButtonReading, MoveFieldButton(reading) PROVE TypeOK'
  BY <1>22, ArenaAssumption DEF TypeOK, MoveFieldButton, ButtonReading, Reading, matchVars
<1>23. CASE UNCHANGED vars
  BY <1>23 DEF TypeOK, vars, matchVars
<1> QED
  BY <1>1, <1>2, <1>3, <1>4, <1>5, <1>6, <1>7, <1>8, <1>9, <1>10, <1>11, <1>12, <1>13, <1>14,
     <1>15, <1>16, <1>17, <1>18, <1>19, <1>20, <1>21, <1>22, <1>23
  DEF Next, TickStep, Input, Command, Operating, Toggle, Environment

LEMMA InitTypes == Init => TypeOK
<1>1. Init => /\ todo \in Seq(InputSlot) /\ monitored \in BOOLEAN
              /\ warmup \in BOOLEAN /\ pause \in BOOLEAN
  BY ArenaAssumption DEF Init
<1> QED BY <1>1 DEF Init, TypeOK, MatchStates, NoBypass, Reading

(* The types hold for any stations, teams, panels and wiring.               *)
THEOREM TypeInvariant == Spec => []TypeOK
BY InitTypes, NextKeepsTypes, PTL DEF Spec
-----------------------------------------------------------------------------
(* The match invariant: the three properties of the match state and, for    *)
(* the game data of teleop, that a winner was chosen when AUTO began.       *)
WinnerChosen ==
  matchState \in {"AutoPeriod", "PausePeriod", "TeleopPeriod"} => autoWinner \in {"red", "blue"}
MatchInv ==
  /\ FieldStopHoldsField /\ GameDataOnlyInTeleop /\ AbortKnownUntilCleared
  /\ WinnerChosen

(* What any step may do to the match state and the field e-stop latch.      *)
MatchStep ==
  \/ UNCHANGED matchVars /\ (fieldEStopActive' => fieldEStopActive)
  \/ UNCHANGED matchVars /\ ~InProgress
  \/ Abort
  \/ ToPreMatch
  \/ /\ ~fieldEStopActive /\ matchState = "PreMatch" /\ matchState' = "StartMatch"
     /\ UNCHANGED <<matchAborted, autoWinner, gameData, fieldEStopActive>>
  \/ /\ \E over \in BOOLEAN, mode \in {"disabled", "auto", "teleop"}, forced \in BOOLEAN :
          Switch(over, mode, forced)
     /\ UNCHANGED fieldEStopActive

LEMMA EveryStepIsMatchStep == TypeOK /\ [Next]_vars => MatchStep
<1> SUFFICES ASSUME TypeOK, [Next]_vars PROVE MatchStep
  OBVIOUS
<1> USE DEF MatchStep
<1>1. ASSUME NEW over \in BOOLEAN, NEW due \in BOOLEAN, TickBegin(over, due) PROVE MatchStep
  BY <1>1 DEF TickBegin, fieldVars
<1>2. CASE TickClear \/ ClearMatch
  BY <1>2 DEF TickClear, ClearMatch, ClearLocked
<1>3. ASSUME NEW due \in BOOLEAN, TickRestore(due) PROVE MatchStep
  BY <1>3 DEF TickRestore, fieldVars
<1>4. CASE TickField
  <2>1. CASE FieldState # "ok" /\ ~fieldEStopActive
    BY <1>4, <2>1 DEF TickField, AbortForStop
  <2>2. CASE ~(FieldState # "ok" /\ ~fieldEStopActive)
    BY <1>4, <2>2 DEF TickField
  <2> QED BY <2>1, <2>2
<1>5. ASSUME NEW answered \in BOOLEAN, PollPanel(answered) PROVE MatchStep
  BY <1>5 DEF PollPanel, fieldVars
<1>6. CASE TickEnd \/ ClearMatchRestore
  BY <1>6 DEF TickEnd, ClearMatchRestore, fieldVars
<1>7. ASSUME NEW reading \in Reading, HandleInput(reading) PROVE MatchStep
  <2>1. UNCHANGED fieldEStopActive
    BY <1>7 DEF HandleInput, fieldVars
  <2>2. AbortForStop \/ UNCHANGED matchVars
    BY <1>7 DEF HandleInput, AStopInput, EStopInput, Stay
  <2> QED BY <2>1, <2>2 DEF AbortForStop
<1>8. CASE StartMatch
  BY <1>8 DEF StartMatch, CanStartMatch, fieldVars
<1>9. CASE AbortMatch \/ ResetField
  BY <1>9 DEF AbortMatch, ResetField
<1>10. ASSUME NEW second \in ButtonReading, ClearFieldEStop(second) PROVE MatchStep
  BY <1>10 DEF ClearFieldEStop
<1>11. ASSUME NEW new \in Lineups, SubstituteTeams(new) PROVE MatchStep
  BY <1>11 DEF SubstituteTeams, fieldVars
<1>12. CASE BypassEmptyStations \/ LoadSettings
  BY <1>12 DEF BypassEmptyStations, LoadSettings, fieldVars
<1>13. ASSUME NEW mode \in Modes, SetAutoWinnerMode(mode) PROVE MatchStep
  BY <1>13 DEF SetAutoWinnerMode, fieldVars
<1>14. ASSUME NEW c \in Clients, ToggleStore(c) \/ \E s \in Stations : ToggleLoad(c, s)
       PROVE MatchStep
  BY <1>14 DEF ToggleStore, ToggleLoad, fieldVars
<1>15. CASE Environment
  BY <1>15 DEF Environment, Connect, Disconnect, RobotLink, MoveFieldButton, fieldVars
<1>16. CASE UNCHANGED vars
  BY <1>16 DEF vars, fieldVars
<1> QED
  BY <1>1, <1>2, <1>3, <1>4, <1>5, <1>6, <1>7, <1>8, <1>9, <1>10, <1>11, <1>12, <1>13, <1>14,
     <1>15, <1>16
  DEF Next, TickStep, Input, Command, Operating, Toggle

LEMMA MatchInvInit == Init => MatchInv
BY DEF Init, MatchInv, FieldStopHoldsField, GameDataOnlyInTeleop, AbortKnownUntilCleared,
       WinnerChosen

LEMMA MatchInvStep == TypeOK /\ MatchInv /\ MatchStep => MatchInv'
<1> SUFFICES ASSUME TypeOK, MatchInv, MatchStep PROVE MatchInv'
  OBVIOUS
<1> USE DEF MatchInv, FieldStopHoldsField, GameDataOnlyInTeleop, AbortKnownUntilCleared,
            WinnerChosen, InProgress
<1>1. CASE UNCHANGED matchVars /\ ((fieldEStopActive' => fieldEStopActive) \/ ~InProgress)
  BY <1>1 DEF matchVars, GameDataFor
<1>2. CASE Abort \/ ToPreMatch
  BY <1>2 DEF Abort, ToPreMatch
<1>3. CASE /\ ~fieldEStopActive /\ matchState = "PreMatch" /\ matchState' = "StartMatch"
           /\ UNCHANGED <<matchAborted, autoWinner, gameData, fieldEStopActive>>
  BY <1>3
<1>4. ASSUME NEW over \in BOOLEAN, NEW mode \in {"disabled", "auto", "teleop"},
             NEW forced \in BOOLEAN, Switch(over, mode, forced), UNCHANGED fieldEStopActive
      PROVE  MatchInv'
  BY <1>4 DEF TypeOK, Switch, Stay, matchVars, EnterAuto, EnterTeleop, AutoWinners, GameDataFor
<1> QED BY <1>1, <1>2, <1>3, <1>4 DEF MatchStep

LEMMA MatchInvariant == Spec => []MatchInv
<1>1. TypeOK /\ MatchInv /\ [Next]_vars => MatchInv'
  BY EveryStepIsMatchStep, MatchInvStep
<1> QED BY <1>1, MatchInvInit, TypeInvariant, PTL DEF Spec

(* Once the field e-stop has latched, no match runs until it is released.   *)
THEOREM FieldStopSafety == Spec => []FieldStopHoldsField
BY MatchInvariant, PTL DEF MatchInv

(* Game data is out exactly in teleop, and names the winner of AUTO.        *)
THEOREM GameDataSafety == Spec => []GameDataOnlyInTeleop
BY MatchInvariant, PTL DEF MatchInv

(* An abort is known until the match is cleared, and no longer.             *)
THEOREM AbortKnowledge == Spec => []AbortKnownUntilCleared
BY MatchInvariant, PTL DEF MatchInv
-----------------------------------------------------------------------------
(* Only the packet of a tick's start can enable a robot or change its mode. *)
RobotStep(s) ==
  \/ robot'[s] = robot[s] \/ robot'[s] = "disabled"
  \/ \E over, due \in BOOLEAN : TickBegin(over, due)

LEMMA EveryStepIsRobotStep ==
  ASSUME TypeOK, [Next]_vars, NEW s \in Stations PROVE RobotStep(s)
<1> USE DEF RobotStep, TypeOK, linkVars
<1>1. CASE TickStep
  <2>1. ASSUME NEW due \in BOOLEAN, TickRestore(due) PROVE RobotStep(s)
    BY <2>1 DEF TickRestore, SendDsPacket, Packet
  <2>2. CASE TickClear \/ TickField \/ TickEnd \/ \E answered \in BOOLEAN : PollPanel(answered)
    BY <2>2 DEF TickClear, TickField, TickEnd, PollPanel
  <2> QED BY <1>1, <2>1, <2>2 DEF TickStep
<1>2. CASE Input
  BY <1>2 DEF Input, HandleInput
<1>3. CASE Command
  BY <1>3 DEF Command, Operating, StartMatch, AbortMatch, ClearMatch, ClearMatchRestore, ResetField,
     ClearFieldEStop, SubstituteTeams, BypassEmptyStations, SetAutoWinnerMode, LoadSettings
<1>4. CASE Toggle
  BY <1>4 DEF Toggle, ToggleLoad, ToggleStore
<1>5. CASE Environment
  BY <1>5 DEF Environment, Connect, Disconnect, RobotLink, MoveFieldButton
<1>6. CASE UNCHANGED vars
  BY <1>6 DEF vars
<1> QED BY <1>1, <1>2, <1>3, <1>4, <1>5, <1>6 DEF Next

(* A packet that enables is a packet of the period its tick switched to.    *)
LEMMA EnablingTick ==
  ASSUME TypeOK, MatchInv, MatchInv', NEW over \in BOOLEAN, NEW due \in BOOLEAN,
         TickBegin(over, due), NEW s \in Stations, NewlyEnabled(s)
  PROVE  /\ matchState' = IF robot'[s] = "auto" THEN "AutoPeriod" ELSE "TeleopPeriod"
         /\ ~fieldEStopActive /\ ~matchAborted'
         /\ ~eStop[s] /\ ~bypass[s]
<1>1. PICK mode \in {"disabled", "auto", "teleop"}, forced \in BOOLEAN :
        /\ Switch(over, mode, forced)
        /\ IF forced \/ due THEN SendDsPacket(mode) ELSE UNCHANGED robot
  BY DEF TickBegin
<1>2. robot'[s] = Packet(s, mode) /\ robot'[s] # "disabled"
  BY <1>1 DEF NewlyEnabled, SendDsPacket, TypeOK
<1>3. robot'[s] = mode /\ mode # "disabled" /\ ~eStop[s] /\ ~bypass[s]
  BY <1>2 DEF Packet
<1>4. /\ matchState' = IF mode = "auto" THEN "AutoPeriod" ELSE "TeleopPeriod"
      /\ InProgress
  BY <1>1, <1>3 DEF Switch, EnterAuto, EnterTeleop, Stay, matchVars, InProgress
<1>5. ~fieldEStopActive /\ ~matchAborted'
  BY <1>4 DEF MatchInv, FieldStopHoldsField, AbortKnownUntilCleared
<1> QED BY <1>3, <1>4, <1>5

(* A packet enables a robot only for the period under way, in a match that  *)
(* is neither aborted nor under a field stop, with its station free.        *)
THEOREM EnableSafety == Spec => EnableFitsMatch
<1>1. TypeOK /\ MatchInv /\ MatchInv' /\ [Next]_vars
      => [\A s \in Stations : NewlyEnabled(s) =>
            /\ matchState' = IF robot'[s] = "auto" THEN "AutoPeriod" ELSE "TeleopPeriod"
            /\ ~fieldEStopActive /\ ~matchAborted'
            /\ ~eStop[s] /\ ~bypass[s]]_vars
  <2> SUFFICES ASSUME TypeOK, MatchInv, MatchInv', [Next]_vars,
                      NEW s \in Stations, NewlyEnabled(s)
               PROVE  /\ matchState' = IF robot'[s] = "auto" THEN "AutoPeriod" ELSE "TeleopPeriod"
                      /\ ~fieldEStopActive /\ ~matchAborted'
                      /\ ~eStop[s] /\ ~bypass[s]
    OBVIOUS
  <2>1. PICK over \in BOOLEAN, due \in BOOLEAN : TickBegin(over, due)
    BY EveryStepIsRobotStep DEF RobotStep, NewlyEnabled
  <2> QED BY <2>1, EnablingTick
<1> QED BY <1>1, TypeInvariant, MatchInvariant, PTL DEF Spec, EnableFitsMatch

(* An A-stop that disabled a robot in AUTO keeps it disabled in AUTO.       *)
THEOREM AStopSafety == Spec => AStopHoldsThroughAuto
<1> DEFINE Held == \A s \in Stations :
               /\ matchState = "AutoPeriod" /\ matchState' = "AutoPeriod"
               /\ aStop[s] /\ ~Enabled(s)
               => aStop'[s] /\ robot'[s] = "disabled"
<1>1. TypeOK /\ [Next]_vars => Held
  <2> SUFFICES ASSUME TypeOK, [Next]_vars, NEW s \in Stations,
                      matchState = "AutoPeriod", matchState' = "AutoPeriod",
                      aStop[s], ~Enabled(s)
               PROVE  aStop'[s] /\ robot'[s] = "disabled"
    OBVIOUS
  <2>1. robot[s] = "disabled"
    BY DEF TypeOK, Enabled
  <2>2. robot'[s] = "disabled"
    <3>1. CASE robot'[s] = robot[s] \/ robot'[s] = "disabled"
      BY <2>1, <3>1
    <3>2. ASSUME NEW over \in BOOLEAN, NEW due \in BOOLEAN, TickBegin(over, due)
          PROVE  robot'[s] = "disabled"
      <4>1. PICK mode \in {"disabled", "auto", "teleop"}, forced \in BOOLEAN :
              /\ Switch(over, mode, forced)
              /\ IF forced \/ due THEN SendDsPacket(mode) ELSE UNCHANGED robot
        BY <3>2 DEF TickBegin
      <4>2. mode = "auto"
        BY <4>1 DEF Switch, EnterTeleop
      <4> QED BY <2>1, <4>1, <4>2 DEF SendDsPacket, Packet, TypeOK
    <3> QED BY <3>1, <3>2, EveryStepIsRobotStep DEF RobotStep
  <2>3. aStop'[s]
    <3> USE DEF stationVars
    <3>1. CASE TickStep
      BY <3>1 DEF TickStep, TickBegin, TickClear, TickRestore, TickField, PollPanel, TickEnd
    <3>2. ASSUME NEW reading \in Reading, HandleInput(reading) PROVE aStop'[s]
      BY <3>2 DEF HandleInput, EStopInput, AStopInput
    <3>3. CASE Command
      BY <3>3 DEF Command, Operating, StartMatch, AbortMatch, ClearMatch, ClearMatchRestore, ResetField,
         ClearFieldEStop, SubstituteTeams, BypassEmptyStations, SetAutoWinnerMode, LoadSettings
    <3>4. CASE Toggle \/ Environment \/ UNCHANGED vars
      BY <3>4 DEF Toggle, ToggleLoad, ToggleStore, Environment, Connect, Disconnect, RobotLink,
         MoveFieldButton, vars
    <3> QED BY <3>1, <3>2, <3>3, <3>4 DEF Next, Input
  <2> QED BY <2>2, <2>3
<1>2. TypeOK /\ [Next]_vars => [Held]_vars
  BY <1>1
<1> QED BY <1>2, TypeInvariant, PTL DEF Spec, AStopHoldsThroughAuto

(* A latched field e-stop outlives the operator's command while the button  *)
(* is held or its wiring is broken.                                         *)
THEOREM FieldButtonSafety == Spec => FieldStopOutlastsButton
<1> DEFINE Outlasts == fieldEStopActive /\ ~fieldEStopActive' /\ monitored
                       => fieldLive' = "ok" /\ (latched # "ok" => fieldLive = "ok")
<1>1. TypeOK /\ [Next]_vars => Outlasts
  <2> SUFFICES ASSUME TypeOK, [Next]_vars, fieldEStopActive, ~fieldEStopActive', monitored
               PROVE  fieldLive' = "ok" /\ (latched # "ok" => fieldLive = "ok")
    OBVIOUS
  <2> USE DEF fieldVars
  <2>1. ASSUME NEW second \in ButtonReading, ClearFieldEStop(second)
        PROVE  fieldLive' = "ok" /\ (latched # "ok" => fieldLive = "ok")
    <3>1. second \in Reading
      BY ArenaAssumption DEF ButtonReading, Reading
    <3> QED BY <2>1, <3>1 DEF ClearFieldEStop, StateAfterClear, AfterClear, TypeOK, Reading
  <2>2. ~TickStep /\ ~Input /\ ~Toggle /\ ~Environment /\ ~UNCHANGED vars
    BY DEF TickStep, TickBegin, TickClear, TickRestore, TickField, PollPanel, TickEnd, Input,
       HandleInput, Toggle, ToggleLoad, ToggleStore, Environment, Connect, Disconnect,
       RobotLink, MoveFieldButton, vars
  <2>3. Command
    BY <2>2 DEF Next
  <2> QED
    BY <2>1, <2>3 DEF Command, Operating, StartMatch, AbortMatch, ClearMatch, ClearMatchRestore,
       ResetField, SubstituteTeams, BypassEmptyStations, SetAutoWinnerMode, LoadSettings
<1>2. TypeOK /\ [Next]_vars => [Outlasts]_vars
  BY <1>1
<1> QED BY <1>2, TypeInvariant, PTL DEF Spec, FieldStopOutlastsButton

(* A step that latches a stop ends the match, and none starts one over a    *)
(* stop, unless it is an operator's toggle.                                 *)
LEMMA OnlyTogglesStop ==
  ASSUME TypeOK, [Next]_vars, ~Toggle,
         NEW s \in Stations, eStop'[s], ~(eStop[s] /\ InProgress)
  PROVE  ~InProgress'
<1> USE DEF stationVars, InProgress
<1>1. eStop[s] => ~InProgress
  OBVIOUS
<1>2. ASSUME UNCHANGED matchVars, UNCHANGED eStop PROVE ~InProgress'
  BY <1>1, <1>2 DEF matchVars
<1>3. ASSUME Abort \/ ToPreMatch PROVE ~InProgress'
  BY <1>3 DEF Abort, ToPreMatch
<1>4. ASSUME AbortForStop PROVE ~InProgress'
  BY <1>3, <1>4 DEF AbortForStop, matchVars
<1>5. ASSUME NEW over \in BOOLEAN, NEW due \in BOOLEAN, TickBegin(over, due)
      PROVE  ~InProgress'
  BY <1>1, <1>5 DEF TickBegin, Switch, Stay, matchVars
<1>6. CASE TickClear \/ ClearMatch \/ AbortMatch \/ ResetField
  BY <1>3, <1>6 DEF TickClear, ClearMatch, ClearLocked, AbortMatch, ResetField
<1>7. CASE TickField
  BY <1>2, <1>4, <1>7 DEF TickField
<1>8. CASE \/ TickEnd \/ ClearMatchRestore \/ BypassEmptyStations \/ LoadSettings
           \/ UNCHANGED vars \/ Environment
           \/ \E due \in BOOLEAN : TickRestore(due)
           \/ \E answered \in BOOLEAN : PollPanel(answered)
           \/ \E new \in Lineups : SubstituteTeams(new)
           \/ \E mode \in Modes : SetAutoWinnerMode(mode)
  BY <1>2, <1>8 DEF TickEnd, ClearMatchRestore, BypassEmptyStations, LoadSettings, vars,
     Environment, Connect, Disconnect, RobotLink, MoveFieldButton, TickRestore, PollPanel,
     SubstituteTeams, SetAutoWinnerMode
<1>9. ASSUME NEW reading \in Reading, HandleInput(reading) PROVE ~InProgress'
  <2>1. CASE Head(todo).isAStop
    BY <1>2, <1>9, <2>1 DEF HandleInput, AStopInput
  <2>2. CASE ~Head(todo).isAStop
    <3>1. EStopInput(Named(Head(todo)), reading)
      BY <1>9, <2>2 DEF HandleInput
    <3>2. CASE eStop[s]
      <4>1. ~InProgress
        BY <1>1, <3>2
      <4> QED BY <3>1, <4>1 DEF EStopInput, AbortForStop, Stay, matchVars
    <3>3. CASE ~eStop[s]
      <4>1. s \in Named(Head(todo)) /\ reading # "ok"
        BY <3>1, <3>3 DEF EStopInput
      <4> QED BY <1>4, <3>1, <3>3, <4>1 DEF EStopInput
    <3> QED BY <3>2, <3>3
  <2> QED BY <2>1, <2>2
<1>10. CASE StartMatch
  BY <1>10 DEF StartMatch, CanStartMatch, StationReady
<1>11. ASSUME NEW second \in ButtonReading, ClearFieldEStop(second) PROVE ~InProgress'
  BY <1>1, <1>11 DEF ClearFieldEStop, matchVars
<1> QED
  BY <1>5, <1>6, <1>7, <1>8, <1>9, <1>10, <1>11 DEF Next, TickStep, Input, Command, Operating

-----------------------------------------------------------------------------
(* A wiring fault stops the field and keeps it stopped, and the first packet*)
(* after DisableAll disables every robot (StopTracking, Shutdown).          *)

-----------------------------------------------------------------------------
(* What any step does to the arena. *)
OtherStep ==
  TickStep \/ Operating \/ Toggle \/ Environment \/ UNCHANGED vars
    \/ \E s \in Stations : DisableNext(s)
LEMMA ShutdownIsOther == ASSUME ShutdownStep PROVE OtherStep
<1> USE DEF OtherStep
<1>1. CASE Signal
  BY <1>1 DEF Signal
<1>2. CASE PacketTick
  BY <1>2 DEF PacketTick, TickStep
<1>3. CASE RunOn
  BY <1>3 DEF RunOn, TickStep, Operating, Toggle
<1> QED
  BY <1>1, <1>2, <1>3 DEF ShutdownStep

LEMMA TrackedStep ==
  ASSUME [TrackedNext]_trackedVars
  PROVE  \/ [Next]_vars
         \/ \E s \in Stations : DisableNext(s)
<1>1. CASE ShutdownStep
  BY <1>1, ShutdownIsOther DEF OtherStep, Next, Command
<1>2. CASE ~ShutdownStep
  BY <1>2 DEF TrackedNext, trackedVars, Next, Input, Command
<1> QED
  BY <1>1, <1>2

LEMMA DisableNextKeeps ==
  ASSUME TypeOK, NEW s \in Stations, DisableNext(s)
  PROVE  TypeOK'
<1>1. bypass' \in [Stations -> BOOLEAN]
  BY DEF TypeOK, DisableNext
<1>2. UNCHANGED <<matchVars, configVars, linkVars, eStop, aStop, eStopFault, fieldVars,
                  fieldLive, tickVars, pending>>
  BY DEF DisableNext
<1> QED
  BY <1>1, <1>2 DEF TypeOK, matchVars, configVars, linkVars, fieldVars, tickVars

LEMMA TrackedTypes == TrackedSpec => []TypeOK
<1>1. TrackedInit => TypeOK
  BY InitTypes DEF TrackedInit, ShutdownInit
<1>2. TypeOK /\ [TrackedNext]_trackedVars => TypeOK'
  BY TrackedStep, DisableNextKeeps, NextKeepsTypes
<1> QED
  BY <1>1, <1>2, PTL DEF TrackedSpec

-----------------------------------------------------------------------------
(* The record of toggles is kept as long as the match, and a toggle that    *)
(* stops a station is on it.                                                *)
LEMMA TogglesAreKept ==
  ASSUME InProgress, [TrackedNext]_trackedVars
  PROVE  toggled \subseteq toggled'
BY DEF TrackedNext, trackedVars, TrackToggles

LEMMA ToggleIsStored ==
  ASSUME TypeOK, NEW c \in Clients, ToggleStore(c)
  PROVE  /\ pending[c] \in Toggles
         /\ pending[c].station \in Stored(pending[c].op)
         /\ \/ /\ pending[c].op = "toggleBypass" /\ UNCHANGED eStop
               /\ \A s \in Stations : s # pending[c].station => bypass'[s] = bypass[s]
            \/ /\ pending[c].op = "toggleEStop" /\ UNCHANGED bypass
               /\ \A s \in Stations : s # pending[c].station => eStop'[s] = eStop[s]
<1>1. pending[c] # NoOp /\ pending[c] \in Toggles
  BY DEF ToggleStore, TypeOK
<1>2. pending'[c] = NoOp /\ pending[c].station \in Stations
  BY <1>1 DEF ToggleStore, TypeOK, Toggles
<1>3. pending[c].station \in Stored(pending[c].op)
  BY <1>1, <1>2 DEF Stored
<1> QED
  BY <1>1, <1>3 DEF ToggleStore, TypeOK

LEMMA ToggleIsOnRecord ==
  ASSUME TypeOK, Toggle, InProgress, [TrackedNext]_trackedVars,
         NEW s \in Stations, ~eStop[s], eStop'[s]
  PROVE  s \in toggled'
<1>1. PICK c \in Clients : ToggleStore(c)
  BY DEF Toggle, ToggleLoad, stationVars
<1>2. s \in Stored("toggleEStop")
  BY <1>1, ToggleIsStored
<1>3. ~UNCHANGED trackedVars
  BY DEF trackedVars, vars, stationVars
<1>4. toggled' = toggled \cup Stored("toggleEStop")
  BY <1>3 DEF TrackedNext, TrackToggles
<1> QED
  BY <1>2, <1>4

LEMMA NextKeepsStops ==
  ASSUME TypeOK, StopsEndTheMatch, [TrackedNext]_trackedVars
  PROVE  StopsEndTheMatch'
<1> SUFFICES ASSUME InProgress', NEW s \in Stations, eStop'[s]
             PROVE  s \in toggled'
  BY DEF StopsEndTheMatch
<1>1. CASE eStop[s] /\ InProgress
  BY <1>1, TogglesAreKept DEF StopsEndTheMatch
<1>2. CASE ~(eStop[s] /\ InProgress)
  <2>1. ~\E t \in Stations : DisableNext(t)
    BY <1>2 DEF DisableNext, matchVars, InProgress
  <2>2. [Next]_vars
    BY <2>1, TrackedStep
  <2>3. Toggle
    BY <1>2, <2>2, OnlyTogglesStop
  <2>4. InProgress /\ ~eStop[s]
    BY <1>2, <2>3 DEF Toggle, ToggleLoad, ToggleStore, matchVars, InProgress
  <2> QED
    BY <2>3, <2>4, ToggleIsOnRecord
<1> QED
  BY <1>1, <1>2

(* A stop latched by anything but a toggle of its station has ended the     *)
(* match, and no match starts over one, whoever toggles what meanwhile.     *)
ArenaInv == TypeOK /\ StopsEndTheMatch
LEMMA ArenaInvariant == TrackedSpec => []ArenaInv
<1>1. TrackedInit => StopsEndTheMatch
  BY DEF TrackedInit, ShutdownInit, Init, StopsEndTheMatch, InProgress
<1>2. TypeOK /\ StopsEndTheMatch /\ [TrackedNext]_trackedVars => StopsEndTheMatch'
  BY NextKeepsStops
<1> QED
  BY <1>1, <1>2, TrackedTypes, PTL DEF TrackedSpec, ArenaInv
THEOREM StopSafety == TrackedSpec => []StopsEndTheMatch
<1>1. ArenaInv => StopsEndTheMatch
  BY DEF ArenaInv
<1> QED
  BY <1>1, ArenaInvariant, PTL

-----------------------------------------------------------------------------
(* A station whose own button last reported a fault that no other input hid *)
(* is marked so, and no match is in progress unless its e-stop was toggled. *)
FaultIsKept ==
  \A s \in Stations : seen[s] = "fault" =>
    s \in hidden \/ (eStopFault[s] /\ (InProgress => s \in toggled))
TrackInv == seen \in [Stations -> Reading] /\ FaultIsKept

LEMMA HandleInputKeeps ==
  ASSUME ArenaInv, TrackInv, NEW reading \in Reading,
         HandleInput(reading), Track(reading), TrackToggles
  PROVE  TrackInv'
<1> DEFINE input == Head(todo)
<1> USE DEF TrackInv, ArenaInv
<1>1. input \in InputSlot
  BY DEF HandleInput, TypeOK
<1>2. CASE input.isAStop
  <2>1. UNCHANGED <<matchVars, eStopFault, seen, hidden>>
    BY <1>2 DEF HandleInput, AStopInput, Track
  <2>2. InProgress' => InProgress /\ toggled \subseteq toggled'
    BY <2>1 DEF InProgress, matchVars, TrackToggles
  <2> QED
    BY <2>1, <2>2 DEF FaultIsKept
<1>3. ASSUME ~input.isAStop
      PROVE  /\ EStopInput(Named(input), reading)
             /\ InProgress' => InProgress /\ toggled \subseteq toggled'
  <2>1. EStopInput(Named(input), reading)
    BY <1>3 DEF HandleInput
  <2> QED
    BY <2>1 DEF EStopInput, AbortForStop, Abort, Stay, InProgress, matchVars, TrackToggles
(* A faulty reading ends the match, unless toggles have stopped its stations.*)
<1>4. ASSUME ~input.isAStop, reading = "fault", InProgress', NEW s \in Named(input), s \in Stations
      PROVE  s \in toggled'
  <2>1. CASE eStop[s]
    BY <1>3, <1>4, <2>1 DEF StopsEndTheMatch
  <2>2. CASE ~eStop[s]
    <3>1. AbortForStop
      BY <1>3, <1>4, <2>2 DEF EStopInput
    <3> QED
      BY <1>4, <3>1 DEF AbortForStop, Abort, InProgress, matchVars
  <2> QED
    BY <2>1, <2>2
<1>5. CASE ~input.isAStop /\ input.station = All
  <2>1. UNCHANGED seen
    BY <1>5 DEF Track
  <2>2. Named(input) = Stations
    BY <1>5 DEF Named
  <2>3. ASSUME NEW s \in Stations, seen'[s] = "fault", s \notin hidden'
        PROVE  eStopFault'[s] /\ (InProgress' => s \in toggled')
    <3>1. reading = "fault"
      BY <1>5, <2>1, <2>3 DEF Track
    <3> QED
      BY <1>3, <1>4, <1>5, <2>2, <3>1 DEF EStopInput
  <2> QED
    BY <2>1, <2>3 DEF FaultIsKept
<1>6. CASE ~input.isAStop /\ input.station # All
  <2>1. PICK t \in Stations : input.station = t
    BY <1>1, <1>6 DEF InputSlot
  <2>2. Named(input) = {t}
    BY <1>6, <2>1 DEF Named
  <2>3. seen' = [seen EXCEPT ![t] = reading] /\ hidden' = hidden \ {t}
    BY <1>6, <2>1 DEF Track
  <2>4. ASSUME NEW s \in Stations, seen'[s] = "fault", s \notin hidden'
        PROVE  eStopFault'[s] /\ (InProgress' => s \in toggled')
    <3>1. CASE s # t
      BY <1>3, <1>6, <2>2, <2>3, <2>4, <3>1 DEF FaultIsKept, EStopInput
    <3>2. CASE s = t
      BY <1>3, <1>4, <1>6, <2>2, <2>3, <2>4, <3>2 DEF EStopInput
    <3> QED
      BY <3>1, <3>2
  <2> QED
    BY <2>3, <2>4 DEF FaultIsKept
<1> QED
  BY <1>2, <1>5, <1>6

(* No other step starts a match over a fault.                               *)
LEMMA NoneStartsOverFault ==
  ASSUME OtherStep, NEW s \in Stations, eStopFault[s], ~InProgress
  PROVE  ~InProgress'
<1>1. ~StartMatch
  BY DEF StartMatch, CanStartMatch, StationReady
<1>2. CASE \E over, due \in BOOLEAN : TickBegin(over, due)
  BY <1>2 DEF TickBegin, Switch, Stay, matchVars, InProgress
<1>3. CASE TickClear \/ TickField \/ AbortMatch \/ ClearMatch
  BY <1>3 DEF TickClear, TickField, AbortMatch, ClearMatch, ClearLocked, AbortForStop,
     Abort, ToPreMatch, matchVars, InProgress
<1>4. CASE UNCHANGED matchVars
  BY <1>4 DEF matchVars, InProgress
<1> QED
  BY <1>1, <1>2, <1>3, <1>4
  DEF OtherStep, TickStep, TickRestore, PollPanel, TickEnd, Operating, ClearMatchRestore,
      ClearFieldEStop, SubstituteTeams, BypassEmptyStations, SetAutoWinnerMode, LoadSettings,
      Toggle, ToggleLoad, ToggleStore, Environment, Connect, Disconnect, RobotLink,
      MoveFieldButton, DisableNext, vars

(* Nor does one forget a fault.                                             *)
LEMMA OthersKeep ==
  ASSUME ArenaInv, TrackInv, UNCHANGED <<seen, hidden>>, OtherStep, TrackToggles
  PROVE  TrackInv'
<1> USE DEF TrackInv, ArenaInv, OtherStep
<1>1. UNCHANGED eStopFault
  BY DEF TickStep, TickBegin, TickClear, TickRestore, TickField, PollPanel, TickEnd,
     Operating, StartMatch, AbortMatch, ClearMatch, ClearMatchRestore, ClearFieldEStop,
     SubstituteTeams, BypassEmptyStations, SetAutoWinnerMode, LoadSettings, Toggle, ToggleLoad,
     ToggleStore, Environment, Connect, Disconnect, RobotLink, MoveFieldButton, DisableNext, vars,
     stationVars
<1>2. ASSUME NEW s \in Stations, seen[s] = "fault", s \notin hidden
      PROVE  InProgress' => s \in toggled'
  <2>1. eStopFault[s] /\ (InProgress => s \in toggled)
    BY <1>2 DEF FaultIsKept
  <2> QED
    BY <2>1, NoneStartsOverFault DEF TrackToggles
<1> QED
  BY <1>1, <1>2 DEF FaultIsKept

LEMMA TrackedNextKeeps ==
  ASSUME ArenaInv, TrackInv, [TrackedNext]_trackedVars
  PROVE  TrackInv'
<1>1. CASE \E reading \in Reading : HandleInput(reading) /\ Track(reading) /\ TrackToggles
  BY <1>1, HandleInputKeeps
<1>2. CASE ResetField /\ seen' = [s \in Stations |-> "ok"]
  BY <1>2 DEF ResetField, TrackInv, FaultIsKept, Reading
<1>3. CASE ShutdownStep /\ UNCHANGED <<seen, hidden>> /\ TrackToggles
  BY <1>3, ShutdownIsOther, OthersKeep
<1>4. CASE UNCHANGED trackedVars
  BY <1>4 DEF trackedVars, vars, stationVars, matchVars, TrackInv, FaultIsKept, InProgress
<1> QED
  BY <1>1, <1>2, <1>3, <1>4 DEF TrackedNext

LEMMA TrackInvariant == TrackedSpec => []TrackInv
<1>1. TrackedInit => TrackInv
  BY DEF TrackedInit, ShutdownInit, Init, TrackInv, FaultIsKept, Reading
<1>2. ArenaInv /\ TrackInv /\ [TrackedNext]_trackedVars => TrackInv'
  BY TrackedNextKeeps
<1> QED
  BY <1>1, <1>2, ArenaInvariant, PTL DEF TrackedSpec

(* "A wiring fault stops the field", whatever inputs the panels have: no    *)
(* match is in progress while the last report of a station's own button is  *)
(* a fault, but over one that an input for all stations hid when the match   *)
(* was started, until the next report, or that a toggle of the station's    *)
(* e-stop in that match hid from the abort.                                 *)
THEOREM FaultSafety == TrackedSpec => []FaultStopsField
<1>1. TrackInv => FaultStopsField
  BY DEF TrackInv, FaultIsKept, FaultStopsField
<1> QED
  BY <1>1, TrackInvariant, PTL

(* No match starts over a fault but a hidden one, whoever else reports and  *)
(* whatever the operators do.                                               *)
THEOREM FaultStartSafety == TrackedSpec => KnownFaultBlocksStart
<1> DEFINE Blocked == matchState = "PreMatch" /\ matchState' = "StartMatch"
                      => \A s \in Stations \ hidden : seen[s] # "fault"
<1>1. TrackInv /\ [TrackedNext]_trackedVars => [Blocked]_trackedVars
  <2> SUFFICES ASSUME TrackInv, TrackedNext,
                      matchState = "PreMatch", matchState' = "StartMatch",
                      NEW s \in Stations \ hidden, seen[s] = "fault"
               PROVE  FALSE
    OBVIOUS
  <2>1. ~InProgress /\ InProgress' /\ eStopFault[s]
    BY DEF InProgress, TrackInv, FaultIsKept
  <2>2. CASE \E reading \in Reading : HandleInput(reading)
    BY <2>2 DEF HandleInput, AStopInput, EStopInput, AbortForStop, Abort, Stay, matchVars
  <2>3. CASE ResetField
    BY <2>3 DEF ResetField, ToPreMatch
  <2>4. CASE ShutdownStep
    BY <2>1, <2>4, ShutdownIsOther, NoneStartsOverFault
  <2> QED
    BY <2>2, <2>3, <2>4 DEF TrackedNext
<1> QED
  BY <1>1, TrackInvariant, PTL DEF TrackedSpec, KnownFaultBlocksStart

-----------------------------------------------------------------------------
(* Once the signal has come, a station that DisableAll has reached stays    *)
(* bypassed unless a toggle stores over it, or the match has been cleared   *)
(* and the next one notes which stations it was started with; and no robot  *)
(* without a connection is enabled.                                         *)
Cleared == matchState = "PreMatch"
DisableInv ==
  /\ shutdown \in {"no", "storing", "waiting", "done"}
  /\ shutdown = "no" => unstored = Stations
  /\ shutdown \in {"waiting", "done"} => unstored = {}
  /\ shutdown # "no" => Cleared \/ \A s \in Stations \ (unstored \cup undone) : bypass[s]
  /\ pc \in {"clearing", "tickClearing"} => Cleared
  /\ \A s \in Stations : conn[s] = "none" => robot[s] = "disabled"

(* The parts of it that the arena's own steps could break. *)
LEMMA UnconnectedStayDisabled ==
  ASSUME TypeOK, DisableInv, [Next]_vars \/ \E s \in Stations : DisableNext(s),
         NEW s \in Stations, conn'[s] = "none"
  PROVE  robot'[s] = "disabled"
<1> USE DEF DisableInv, TypeOK
<1>1. CASE TickStep
  <2>1. UNCHANGED conn
    BY <1>1 DEF TickStep, TickBegin, TickClear, TickRestore, TickField, PollPanel, TickEnd, linkVars
  <2>2. UNCHANGED robot \/ \E mode \in {"disabled", "auto", "teleop"} : SendDsPacket(mode)
    BY <1>1 DEF TickStep, TickBegin, TickClear, TickRestore, TickField, PollPanel, TickEnd, linkVars
  <2> QED
    BY <2>1, <2>2 DEF SendDsPacket
<1>2. CASE Input \/ Toggle \/ UNCHANGED vars \/ \E t \in Stations : DisableNext(t)
  BY <1>2 DEF Input, HandleInput, Toggle, ToggleLoad, ToggleStore, vars, DisableNext, linkVars
<1>3. CASE Command
  BY <1>3 DEF Command, Operating, StartMatch, AbortMatch, ClearMatch, ClearMatchRestore,
     ClearFieldEStop, SubstituteTeams, BypassEmptyStations, SetAutoWinnerMode, LoadSettings,
     ResetField, linkVars
<1>4. CASE Environment
  BY <1>4 DEF Environment, Connect, Disconnect, RobotLink, MoveFieldButton, linkVars
<1> QED
  BY <1>1, <1>2, <1>3, <1>4 DEF Next

LEMMA ClearingIsPreMatch ==
  ASSUME TypeOK, DisableInv, [Next]_vars \/ \E s \in Stations : DisableNext(s),
         pc' \in {"clearing", "tickClearing"}
  PROVE  Cleared'
<1> USE DEF DisableInv, Cleared
<1>1. CASE TickStep
  BY <1>1 DEF TickStep, TickBegin, TickClear, TickRestore, TickField, PollPanel, TickEnd,
     ClearLocked, ToPreMatch
<1>2. CASE Input
  BY <1>2 DEF Input, HandleInput
<1>3. CASE Toggle \/ UNCHANGED vars \/ \E s \in Stations : DisableNext(s)
  BY <1>3 DEF Toggle, ToggleLoad, ToggleStore, vars, DisableNext, tickVars, matchVars
<1>4. CASE Command
  BY <1>4 DEF Command, Operating, StartMatch, AbortMatch, ClearMatch, ClearMatchRestore,
     ClearFieldEStop, SubstituteTeams, BypassEmptyStations, SetAutoWinnerMode, LoadSettings,
     ResetField, ClearLocked, ToPreMatch, tickVars, Locked
<1>5. CASE Environment
  BY <1>5 DEF Environment, Connect, Disconnect, RobotLink, MoveFieldButton, tickVars, matchVars
<1> QED
  BY <1>1, <1>2, <1>3, <1>4, <1>5 DEF Next

(* After the signal a toggle that changes a bypass is on record, and so is a*)
(* station that a match is started with although its bypass is off.         *)
OnRecord == /\ Toggle => Stored("toggleBypass") \subseteq undone'
            /\ Cleared /\ ~Cleared' => \A s \in Stations \ undone' : bypass[s]
LEMMA BypassesStay ==
  ASSUME TypeOK, DisableInv, shutdown # "no", OnRecord,
         TickStep \/ Input \/ Command \/ Environment \/ Toggle
  PROVE  \/ Cleared'
         \/ ~Cleared /\ \A s \in Stations \ undone' : bypass[s] => bypass'[s]
         \/ \A s \in Stations \ undone' : bypass'[s]
<1> USE DEF DisableInv, Cleared
<1>1. CASE Toggle
  <2>1. CASE \E c \in Clients : ToggleStore(c)
    <3>1. PICK c \in Clients : ToggleStore(c)
      BY <2>1
    <3>2. \A s \in Stations \ undone' : bypass'[s] = bypass[s]
      BY <1>1, <3>1, ToggleIsStored DEF OnRecord
    <3> QED
      BY <3>1, <3>2 DEF ToggleStore, matchVars
  <2>2. CASE ~\E c \in Clients : ToggleStore(c)
    BY <1>1, <2>2 DEF Toggle, ToggleLoad, stationVars, matchVars
  <2> QED
    BY <2>1, <2>2
<1>2. CASE \E over, due \in BOOLEAN : TickBegin(over, due)
  BY <1>2 DEF TickBegin, Switch, Stay, matchVars, stationVars
<1>3. CASE TickClear \/ ClearMatchRestore \/ \E due \in BOOLEAN : TickRestore(due)
  BY <1>3 DEF TickClear, ClearMatchRestore, TickRestore, ClearLocked, ToPreMatch, matchVars
<1>4. CASE TickField
  BY <1>4 DEF TickField, AbortForStop, InProgress, matchVars
<1>5. CASE TickEnd \/ Environment \/ \E answered \in BOOLEAN : PollPanel(answered)
  BY <1>5 DEF TickEnd, Environment, PollPanel, Connect, Disconnect, RobotLink, MoveFieldButton,
     stationVars, matchVars
<1>6. CASE Input
  BY <1>6 DEF Input, HandleInput, AStopInput, EStopInput, AbortForStop, Stay, InProgress, matchVars
<1>7. CASE StartMatch
  <2>1. Cleared /\ ~Cleared' /\ UNCHANGED bypass
    BY <1>7 DEF StartMatch, CanStartMatch, stationVars
  <2> QED
    BY <2>1 DEF OnRecord
<1>8. CASE ClearMatch \/ ResetField
  BY <1>8 DEF ClearMatch, ClearLocked, ResetField, ToPreMatch
<1>9. CASE AbortMatch \/ BypassEmptyStations
  BY <1>9 DEF AbortMatch, Abort, InProgress, BypassEmptyStations, stationVars, matchVars, TypeOK
<1>10. CASE Command /\ UNCHANGED <<matchState, bypass>>
  BY <1>10
<1> QED
  BY <1>1, <1>2, <1>3, <1>4, <1>5, <1>6, <1>7, <1>8, <1>9, <1>10
  DEF TickStep, Command, Operating, ClearFieldEStop, SubstituteTeams, SetAutoWinnerMode,
      LoadSettings, stationVars, matchVars

LEMMA DisableInvStep ==
  ASSUME TypeOK, DisableInv, [TrackedNext]_trackedVars
  PROVE  DisableInv'
<1>1. \A s \in Stations : conn'[s] = "none" => robot'[s] = "disabled"
  BY TrackedStep, UnconnectedStayDisabled
<1>2. pc' \in {"clearing", "tickClearing"} => Cleared'
  BY TrackedStep, ClearingIsPreMatch
<1> USE DEF DisableInv
<1>3. CASE Signal
  BY <1>1, <1>2, <1>3 DEF Signal
<1>4. ASSUME NEW s \in Stations, DisableNext(s)
      PROVE  DisableInv'
  <2>1. \A t \in Stations \ (unstored' \cup undone') :
          t = s \/ t \in Stations \ (unstored \cup undone)
    BY <1>4 DEF DisableNext
  <2>2. bypass' = [bypass EXCEPT ![s] = TRUE] /\ (Cleared => Cleared')
    BY <1>4 DEF DisableNext, Cleared, matchVars
  <2>3. \/ shutdown' = "storing"
        \/ shutdown' = "waiting" /\ unstored' = {}
    BY <1>4 DEF DisableNext
  <2>4. Cleared' \/ \A t \in Stations \ (unstored' \cup undone') : bypass'[t]
    BY <1>4, <2>1, <2>2 DEF DisableNext, TypeOK
  <2> QED
    BY <1>1, <1>2, <2>3, <2>4
<1>5. CASE /\ UNCHANGED unstored
           /\ shutdown' \in {shutdown, Served}
           /\ shutdown # "no" => undone \subseteq undone' /\ OnRecord
           /\ TickStep \/ Input \/ Command \/ Environment \/ Toggle
  <2>1. shutdown' # "no" => shutdown # "no" /\ undone \subseteq undone'
    BY <1>5 DEF Served
  <2>2. shutdown # "no" =>
          \/ Cleared'
          \/ ~Cleared /\ \A s \in Stations \ undone' : bypass[s] => bypass'[s]
          \/ \A s \in Stations \ undone' : bypass'[s]
    BY <1>5, BypassesStay
  <2>3. shutdown' # "no" => Cleared' \/ \A s \in Stations \ (unstored' \cup undone') : bypass'[s]
    BY <1>5, <2>1, <2>2
  <2> QED
    BY <1>1, <1>2, <1>5, <2>3 DEF Served
<1>6. CASE UNCHANGED trackedVars
  BY <1>6 DEF trackedVars, shutdownVars, vars, tickVars, matchVars, linkVars, stationVars, Cleared
<1>7. CASE PacketTick
  <2>1. TickStep /\ UNCHANGED <<unstored, undone, pending>> /\ shutdown' = Served
    BY <1>7 DEF PacketTick, TickStep, TickBegin, TickRestore
  <2>2. ~(Cleared /\ ~Cleared')
    BY <1>7 DEF PacketTick, TickBegin, Switch, TickRestore, Stay, matchVars, Cleared
  <2>3. ~\E c \in Clients : pending[c] # NoOp /\ pending'[c] = NoOp
    BY <2>1
  <2>4. OnRecord
    BY <2>2, <2>3 DEF OnRecord, Stored
  <2> QED
    BY <1>5, <2>1, <2>4
<1>8. CASE RunOn
  <2>1. UNCHANGED <<shutdown, unstored>>
    BY <1>8 DEF RunOn
  <2>2. TickStep \/ Environment \/ Command \/ Toggle
    BY <1>8 DEF RunOn, TickStep, Command
  <2>3. shutdown # "no" => undone' = undone \cup Stored("toggleBypass") \cup StartedWith
    BY <1>8 DEF RunOn
  <2>4. Cleared /\ ~Cleared' => StartMatch
    BY <1>8 DEF RunOn, TickStep, TickBegin, Switch, Stay, TickClear, TickRestore, TickField,
       AbortForStop, InProgress, TickEnd, PollPanel, Environment, Connect, Disconnect, RobotLink,
       MoveFieldButton, Operating, AbortMatch, ClearMatch, ClearLocked, ToPreMatch,
       ClearMatchRestore, ClearFieldEStop, SubstituteTeams, BypassEmptyStations,
       SetAutoWinnerMode, LoadSettings, Toggle, ToggleLoad, ToggleStore, matchVars, Cleared
  <2>5. Cleared /\ ~Cleared' => StartedWith = {s \in Stations : ~bypass[s]}
    BY <2>4 DEF StartedWith, StartMatch, CanStartMatch
  <2>6. shutdown # "no" => OnRecord
    BY <2>3, <2>5 DEF OnRecord
  <2> QED
    BY <1>5, <2>1, <2>2, <2>3, <2>6
<1>9. CASE /\ \/ \E reading \in Reading : HandleInput(reading)
              \/ ResetField
           /\ UNCHANGED shutdownVars
  <2>1. Input \/ Command
    BY <1>9 DEF Input, Command
  <2>2. UNCHANGED pending
    BY <1>9 DEF HandleInput, ResetField
  <2>3. ~(Cleared /\ ~Cleared')
    BY <1>9 DEF HandleInput, AStopInput, EStopInput, AbortForStop, Stay, InProgress, ResetField,
       ToPreMatch, matchVars, Cleared
  <2>4. ~\E c \in Clients : pending[c] # NoOp /\ pending'[c] = NoOp
    BY <2>2
  <2>5. OnRecord
    BY <2>3, <2>4 DEF OnRecord, Stored
  <2> QED
    BY <1>5, <1>9, <2>1, <2>5 DEF shutdownVars
<1> QED
  BY <1>3, <1>4, <1>6, <1>7, <1>8, <1>9 DEF TrackedNext, ShutdownStep

(* The packet itself. *)
LEMMA PacketDisables ==
  ASSUME TypeOK, DisableInv, PacketTick, shutdown = "waiting", NEW s \in Stations \ undone
  PROVE  robot'[s] = "disabled"
<1> USE DEF DisableInv, TypeOK
<1>1. Cleared \/ bypass[s]
  OBVIOUS
<1>2. CASE TickRestore(TRUE)
  BY <1>2 DEF TickRestore, SendDsPacket, Packet
<1>3. ASSUME NEW over \in BOOLEAN, NEW due \in BOOLEAN, TickBegin(over, due),
             due \/ robot' # robot
      PROVE  robot'[s] = "disabled"
  <2>1. PICK mode \in {"disabled", "auto", "teleop"}, forced \in BOOLEAN :
          Switch(over, mode, forced) /\ SendDsPacket(mode)
    BY <1>3 DEF TickBegin
  <2>2. Cleared => mode = "disabled"
    BY <2>1 DEF Switch, Cleared
  <2> QED
    BY <1>1, <2>1, <2>2 DEF SendDsPacket, Packet
<1> QED
  BY <1>2, <1>3 DEF PacketTick

(* The first packet after DisableAll leaves no robot enabled, whatever the  *)
(* operators go on doing, but at a station whose bypass a toggle stored     *)
(* after DisableAll did or with which, unbypassed, a match was started.     *)
THEOREM ShutdownSafety == TrackedSpec => FirstPacketDisables
<1> DEFINE First == shutdown = "waiting" /\ shutdown' = "done"
                    => \A s \in Stations \ undone : robot'[s] = "disabled"
<1>1. ArenaInv /\ DisableInv /\ [TrackedNext]_trackedVars => [First]_<<vars, shutdownVars>>
  <2> SUFFICES ASSUME ArenaInv, DisableInv, [TrackedNext]_trackedVars,
                      shutdown = "waiting", shutdown' = "done"
               PROVE  \A s \in Stations \ undone : robot'[s] = "disabled"
    OBVIOUS
  <2>1. PacketTick
    BY DEF TrackedNext, trackedVars, ShutdownStep, Signal, DisableNext, RunOn, shutdownVars
  <2> QED
    BY <2>1, PacketDisables DEF ArenaInv
<1>2. TrackedInit => DisableInv
  BY DEF TrackedInit, ShutdownInit, Init, DisableInv
<1>3. ArenaInv /\ DisableInv /\ [TrackedNext]_trackedVars => DisableInv'
  BY DisableInvStep DEF ArenaInv
<1> QED
  BY <1>1, <1>2, <1>3, ArenaInvariant, PTL DEF TrackedSpec, FirstPacketDisables
=============================================================================
