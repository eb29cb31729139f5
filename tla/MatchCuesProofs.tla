-------------------------- MODULE MatchCuesProofs --------------------------
(***************************************************************************)
(* Proofs about MatchCues, for any settings, and any bounds on what the    *)
(* loop waits and how long its panels hold it up, where a theorem states   *)
(* no other.                                                               *)
(***************************************************************************)
EXTENDS MatchCues, SequenceTheorems, TLAPS

(* The match time that an update computes from, and an update at that time. *)
Still == {"PreMatch", "StartMatch", "PostMatch"}
Moment(wait) == IF matchState \in Still THEN 0 ELSE time + wait
UpdateAt(m, stall, over) ==
  LET cleared == matchState = "PostMatch" /\ over
      due == IF matchState' = "PreMatch" THEN {} ELSE DueSounds(m)
      new == LightingState(matchState', m) IN
  /\ Switch(m, over)
  /\ played' = IF cleared THEN {} ELSE played \cup due
  /\ mute' = (mute /\ ~cleared)
  /\ Hear(Names(due) \o (IF ShiftChange(new) THEN <<"shift_change">> ELSE <<>>), mute')
  /\ lights' = new
  /\ UpdateHubLeds(matchState', m + stall)
  /\ time' = IF matchState' \in InProgress THEN m + stall ELSE 0
  /\ lastTime' = m /\ lastState' = matchState'
  /\ UNCHANGED <<settings, disturbed>>

LEMMA UpdateIsAtMoment ==
  ASSUME NEW wait, NEW stall, NEW over, Update(wait, stall, over)
  PROVE  UpdateAt(Moment(wait), stall, over)
BY DEF Update, UpdateAt, Moment, Still

(* What the state machine of Update does.                                   *)
Into(state) == matchState' = state /\ autoWinner' = autoWinner
SwitchStep(m, over) ==
  \/ /\ matchState = "PreMatch" /\ Into("PreMatch") /\ gameData' = "none"
  \/ /\ matchState = "StartMatch" /\ gameData' = "none"
     /\ \/ settings.warmup > 0 /\ Into("WarmupPeriod")
        \/ ~(settings.warmup > 0) /\ EnterAuto
  \/ /\ matchState = "WarmupPeriod" /\ gameData' = "none"
     /\ \/ ~(m >= Sec * settings.warmup) /\ Into("WarmupPeriod")
        \/ m >= Sec * settings.warmup /\ EnterAuto
  \/ /\ matchState = "AutoPeriod"
     /\ \/ ~(m >= AutoEnd) /\ Into("AutoPeriod") /\ gameData' = "none"
        \/ m >= AutoEnd /\ settings.pause > 0 /\ Into("PausePeriod") /\ gameData' = "none"
        \/ /\ m >= AutoEnd /\ ~(settings.pause > 0) /\ Into("TeleopPeriod")
           /\ gameData' = GameDataFor(autoWinner)
  \/ /\ matchState = "PausePeriod"
     /\ \/ ~(m >= TeleopStart) /\ Into("PausePeriod") /\ gameData' = "none"
        \/ m >= TeleopStart /\ Into("TeleopPeriod") /\ gameData' = GameDataFor(autoWinner)
  \/ /\ matchState = "TeleopPeriod"
     /\ \/ ~(m >= TeleopEnd) /\ Into("TeleopPeriod") /\ gameData' = gameData
        \/ m >= TeleopEnd /\ Into("PostMatch") /\ gameData' = "none"
  \/ /\ matchState = "PostMatch" /\ gameData' = "none"
     /\ \/ ~over /\ Into("PostMatch")
        \/ over /\ Into("PreMatch")
LEMMA SwitchIs ==
  ASSUME matchState \in MatchStates, NEW m \in Nat, NEW over \in BOOLEAN, Switch(m, over)
  PROVE  SwitchStep(m, over)
<1>0. gameData' = IF matchState' # "TeleopPeriod" THEN "none"
                  ELSE IF matchState = "TeleopPeriod" THEN gameData
                  ELSE GameDataFor(autoWinner)
  BY DEF Switch
<1>1. CASE matchState = "PreMatch"
  BY <1>1 DEF Switch, SwitchStep, Into, Enter, EnterAuto
<1>2. CASE matchState = "StartMatch"
  BY <1>2 DEF Switch, SwitchStep, Into, Enter, EnterAuto
<1>3. CASE matchState = "WarmupPeriod"
  BY <1>3 DEF Switch, SwitchStep, Into, Enter, EnterAuto
<1>4. CASE matchState = "AutoPeriod"
  <2>1. CASE ~(m >= AutoEnd)
    BY <1>4, <2>1 DEF Switch, SwitchStep, Into, Enter, EnterAuto
  <2>2. CASE m >= AutoEnd /\ settings.pause > 0
    BY <1>4, <2>2 DEF Switch, SwitchStep, Into, Enter, EnterAuto
  <2>3. CASE m >= AutoEnd /\ ~(settings.pause > 0)
    BY <1>4, <2>3 DEF Switch, SwitchStep, Into, Enter, EnterAuto
  <2> QED
    BY <2>1, <2>2, <2>3
<1>5. CASE matchState = "PausePeriod"
  BY <1>5 DEF Switch, SwitchStep, Into, Enter, EnterAuto
<1>6. CASE matchState = "TeleopPeriod"
  <2>1. CASE ~(m >= TeleopEnd)
    <3>1. Into("TeleopPeriod")
      BY <1>6, <2>1 DEF Switch, Into, Enter
    <3>2. gameData' = gameData
      BY <1>0, <1>6, <3>1 DEF Into
    <3> QED
      BY <1>6, <2>1, <3>1, <3>2 DEF SwitchStep
  <2>2. CASE m >= TeleopEnd
    <3>1. Into("PostMatch")
      BY <1>6, <2>2 DEF Switch, Into, Enter
    <3>2. gameData' = "none"
      <4>1. matchState' # "TeleopPeriod"
        BY <3>1 DEF Into
      <4> QED
        BY <1>0, <4>1
    <3> QED
      BY <1>6, <2>2, <3>1, <3>2 DEF SwitchStep
  <2> QED
    BY <2>1, <2>2
<1>7. CASE matchState = "PostMatch"
  BY <1>7 DEF Switch, SwitchStep, Into, Enter, EnterAuto
<1> QED
  BY <1>1, <1>2, <1>3, <1>4, <1>5, <1>6, <1>7 DEF MatchStates, InProgress

-----------------------------------------------------------------------------
(* Types.  A goroutine is started when a match that was in progress is over,*)
(* so there is room for it while a match is.                                *)
Ending == matchState \in InProgress \/ (matchState = "PostMatch" /\ lastState # "PostMatch")
Typed == TypeOK /\ (Ending => assessing < MaxAssessing)

Sounds == {"start", "end", "resume", "warning", "abort", "shift_change"}
SettingTypes(s) ==
  /\ s.warmup \in Nat /\ s.auto \in Nat /\ s.pause \in Nat /\ s.teleop \in Nat /\ s.warning \in Nat
LEMMA SettingsFit == ASSUME TypeOK PROVE SettingTypes(settings)
BY CuesAssumption DEF TypeOK, SettingsType, SettingTypes

LEMMA TimesAreWhole ==
  ASSUME TypeOK
  PROVE  /\ AutoEnd \in Nat /\ TeleopStart \in Nat /\ TeleopEnd \in Nat
         /\ AutoEnd <= TeleopStart /\ TeleopStart <= TeleopEnd
<1>1. Sec \in Nat /\ \A x \in Nat : Sec * x \in Nat
  BY CuesAssumption
<1>2. AutoEnd \in Nat /\ Sec * settings.pause \in Nat /\ Sec * settings.teleop \in Nat
  BY <1>1, SettingsFit DEF SettingTypes, AutoEnd
<1> QED
  BY <1>2 DEF TeleopStart, TeleopEnd

LEMMA NamesAreSounds ==
  ASSUME NEW due PROVE Names(due) \in Seq(Sounds)
<1>1. /\ MatchSounds[1].name = "start" /\ MatchSounds[2].name = "end" /\ MatchSounds[3].name = "resume"
      /\ MatchSounds[4].name = "warning" /\ MatchSounds[5].name = "end"
  BY DEF MatchSounds
<1>2. \A x \in Sounds : <<x>> \in Seq(Sounds)
  OBVIOUS
<1>3. \A i \in 1 .. 5 : Name(i, due) \in Seq(Sounds)
  <2>1. ASSUME NEW i \in 1 .. 5 PROVE Name(i, due) \in Seq(Sounds)
    <3>1. MatchSounds[i].name \in Sounds
      BY <1>1 DEF Sounds
    <3>2. <<MatchSounds[i].name>> \in Seq(Sounds) /\ <<>> \in Seq(Sounds)
      BY <1>2, <3>1, EmptySeq
    <3> QED
      BY <3>2 DEF Name
  <2> QED
    BY <2>1
<1>4. \A s, t \in Seq(Sounds) : s \o t \in Seq(Sounds)
  BY ConcatProperties
<1>5. Name(1, due) \o Name(2, due) \in Seq(Sounds)
  BY <1>3, <1>4
<1>6. Name(1, due) \o Name(2, due) \o Name(3, due) \in Seq(Sounds)
  BY <1>3, <1>4, <1>5
<1>7. Name(1, due) \o Name(2, due) \o Name(3, due) \o Name(4, due) \in Seq(Sounds)
  BY <1>3, <1>4, <1>6
<1> QED
  BY <1>3, <1>4, <1>7 DEF Names

LEMMA ShiftsFit ==
  ASSUME NEW remaining \in Int
  PROVE  TeleopShift(remaining) \in ShiftTransition .. ShiftEndgame
BY DEF TeleopShift, ShiftTransition, ShiftEndgame, Shift4, EndgameDurationSec, ShiftDurationSec

LEMMA LightsAreTyped ==
  ASSUME TypeOK, NEW state \in MatchStates, NEW m \in Nat
  PROVE  LightingState(state, m) \in [shift : 0 .. 8, warning : BOOLEAN]
<1>1. (TeleopEnd - m) \div Sec \in Int
  BY TimesAreWhole, CuesAssumption
<1>2. TeleopShift((TeleopEnd - m) \div Sec) \in 0 .. 8
  BY <1>1, ShiftsFit DEF ShiftTransition, ShiftEndgame
<1> QED
  BY <1>2 DEF LightingState, ShiftAuto, ShiftPostMatch, ShiftCount, ShiftWarning

LEMMA HubsAreTyped ==
  ASSUME NEW modes \in [Alliances -> Modes], SetHubs(modes)
  PROVE  /\ hub' \in [Alliances -> Modes]
         /\ \A a \in Alliances : /\ hub'[a] = "white" => modes[a] = "white"
                                 /\ hub'[a] = "off" <=> modes[a] = "off"
<1>1. hub' = [a \in Alliances |-> Shown(modes[a])]
  BY DEF SetHubs
<1>2. ASSUME NEW a \in Alliances
      PROVE  /\ Shown(modes[a]) \in Modes
             /\ Shown(modes[a]) = "white" => modes[a] = "white"
             /\ Shown(modes[a]) = "off" <=> modes[a] = "off"
  <2>1. modes[a] \in Modes
    OBVIOUS
  <2> QED
    BY <2>1 DEF Shown, Modes
<1> QED
  BY <1>1, <1>2

(* The Hubs are white only after an update that started a goroutine to      *)
(* switch them off.                                                         *)
LEMMA LedsAreTyped ==
  ASSUME TypeOK, NEW state \in MatchStates, NEW now \in Nat, UpdateHubLeds(state, now)
  PROVE  /\ hub' \in [Alliances -> Modes]
         /\ \/ /\ state = "PostMatch" /\ lastState # "PostMatch" /\ assessing' = assessing + 1
            \/ /\ assessing' = assessing
               /\ hub' = hub \/ \A a \in Alliances : hub'[a] # "white"
<1>1. CASE state = "TeleopPeriod" /\ HubShifts(now) # {}
  <2>1. PICK shift \in HubShifts(now) : SetHubs([a \in Alliances |-> TeleopMode(a, shift, now)])
    BY <1>1 DEF UpdateHubLeds
  <2>2. \A a \in Alliances : TeleopMode(a, shift, now) \in Modes \ {"white"}
    BY DEF TeleopMode, Modes
  <2> DEFINE modes == [a \in Alliances |-> TeleopMode(a, shift, now)]
  <2>3. modes \in [Alliances -> Modes] /\ \A a \in Alliances : modes[a] # "white"
    BY <2>2
  <2>4. assessing' = assessing
    BY <1>1 DEF UpdateHubLeds
  <2> HIDE DEF modes
  <2> QED
    BY <2>1, <2>3, <2>4, HubsAreTyped DEF modes
<1>2. CASE state \in {"AutoPeriod", "PausePeriod"}
  <2> DEFINE modes == [a \in Alliances |-> IF state = "AutoPeriod" THEN "startup" ELSE "solid"]
  <2>1. SetHubs(modes) /\ assessing' = assessing
    BY <1>2 DEF UpdateHubLeds
  <2>2. modes \in [Alliances -> Modes] /\ \A a \in Alliances : modes[a] # "white"
    BY DEF Modes
  <2> HIDE DEF modes
  <2> QED
    BY <2>1, <2>2, HubsAreTyped
<1>3. CASE state = "PostMatch" /\ lastState # "PostMatch"
  <2> DEFINE modes == [a \in Alliances |-> "white"]
  <2>1. SetHubs(modes) /\ assessing' = assessing + 1
    BY <1>3 DEF UpdateHubLeds, Assess
  <2>2. modes \in [Alliances -> Modes]
    BY DEF Modes
  <2> HIDE DEF modes
  <2> QED
    BY <1>3, <2>1, <2>2, HubsAreTyped
<1>4. CASE /\ ~(state = "TeleopPeriod" /\ HubShifts(now) # {})
           /\ state \notin {"AutoPeriod", "PausePeriod"}
           /\ ~(state = "PostMatch" /\ lastState # "PostMatch")
  <2>1. hub' = hub /\ assessing' = assessing
    BY <1>4 DEF UpdateHubLeds
  <2> QED
    BY <2>1 DEF TypeOK
<1> QED
  BY <1>1, <1>2, <1>3, <1>4

LEMMA UpdateKeepsTyped ==
  ASSUME Typed, NEW wait \in 0 .. MaxWait, NEW stall \in 0 .. MaxStall, NEW over \in BOOLEAN,
         Update(wait, stall, over)
  PROVE  Typed' /\ (WhiteIsTemporary => WhiteIsTemporary')
<1> DEFINE m == Moment(wait)
<1> USE DEF Typed
<1>1. UpdateAt(m, stall, over) /\ m \in Nat /\ m + stall \in Nat
  BY UpdateIsAtMoment, CuesAssumption DEF Moment, TypeOK
<1> HIDE DEF m
<1>2. Switch(m, over) /\ matchState \in MatchStates
  BY <1>1 DEF UpdateAt, TypeOK
<1>3. SwitchStep(m, over)
  BY <1>1, <1>2, SwitchIs
<1>4. /\ matchState' \in MatchStates
      /\ autoWinner' \in Alliances \cup {"none"} /\ gameData' \in {"none", "R", "B"}
      /\ matchState' \in InProgress \cup {"PostMatch"} =>
           matchState \in InProgress \/ (matchState = "PostMatch" /\ matchState' = "PostMatch")
  BY <1>3 DEF SwitchStep, Into, EnterAuto, GameDataFor, TypeOK, MatchStates, InProgress
<1>5. /\ lastTime' = m /\ lastState' = matchState' /\ time' \in Nat
      /\ UNCHANGED <<settings, disturbed>>
  BY <1>1 DEF UpdateAt
<1>6. mute' \in BOOLEAN /\ played' \subseteq 1 .. 5
  BY <1>1 DEF UpdateAt, TypeOK, DueSounds
<1>7. lights' \in [shift : 0 .. 8, warning : BOOLEAN]
  BY <1>1, <1>4, LightsAreTyped DEF UpdateAt
<1>8. heard' \in Seq(Sounds)
  <2> DEFINE due == IF matchState' = "PreMatch" THEN {} ELSE DueSounds(m)
  <2> DEFINE shift == IF ShiftChange(LightingState(matchState', m)) THEN <<"shift_change">> ELSE <<>>
  <2>1. Hear(Names(due) \o shift, mute')
    BY <1>1 DEF UpdateAt
  <2>2. shift \in Seq(Sounds)
    <3>1. "shift_change" \in Sounds
      BY DEF Sounds
    <3>2. <<"shift_change">> \in Seq(Sounds)
      BY <3>1
    <3> QED
      BY <3>2, EmptySeq
  <2>3. Names(due) \in Seq(Sounds)
    BY NamesAreSounds
  <2> HIDE DEF due, shift
  <2>4. Names(due) \o shift \in Seq(Sounds)
    BY <2>2, <2>3, ConcatProperties
  <2> DEFINE cues == Names(due) \o shift
  <2>5. heard \in Seq(Sounds)
    BY DEF TypeOK, Sounds
  <2>6. heard' = heard \/ heard' = heard \o cues
    BY <2>1 DEF Hear
  <2> HIDE DEF cues
  <2>7. cues \in Seq(Sounds)
    BY <2>4 DEF cues
  <2> QED
    BY <2>5, <2>6, <2>7, ConcatProperties
<1>9. UpdateHubLeds(matchState', m + stall)
  BY <1>1 DEF UpdateAt
<1>10. /\ hub' \in [Alliances -> Modes]
       /\ \/ /\ matchState' = "PostMatch" /\ lastState # "PostMatch" /\ assessing' = assessing + 1
          \/ /\ assessing' = assessing
             /\ hub' = hub \/ \A a \in Alliances : hub'[a] # "white"
  BY <1>1, <1>4, <1>9, LedsAreTyped
<1>11. assessing \in 0 .. MaxAssessing
  BY DEF TypeOK
<1>12. assessing' \in 0 .. MaxAssessing /\ (Ending' => assessing' < MaxAssessing)
  <2>1. CASE matchState' = "PostMatch" /\ lastState # "PostMatch" /\ assessing' = assessing + 1
    <3>1. Ending /\ ~Ending'
      BY <1>4, <1>5, <2>1 DEF Ending, InProgress
    <3> QED
      BY <1>11, <2>1, <3>1, CuesAssumption
  <2>2. CASE assessing' = assessing
    <3>1. Ending' => Ending
      BY <1>4, <1>5 DEF Ending, InProgress
    <3> QED
      BY <1>11, <2>2, <3>1
  <2> QED
    BY <1>10, <2>1, <2>2
<1>13. Typed'
  <2>1. lastState' \in MatchStates \cup {"none"} /\ lastTime' \in Nat /\ settings' \in Settings
        /\ disturbed' \in BOOLEAN
    BY <1>1, <1>4, <1>5 DEF TypeOK
  <2>2. TypeOK'
    BY <1>4, <1>5, <1>6, <1>7, <1>8, <1>10, <1>12, <2>1 DEF TypeOK, Sounds
  <2> QED
    BY <1>12, <2>2
<1>14. WhiteIsTemporary => WhiteIsTemporary'
  BY <1>10, <1>11 DEF WhiteIsTemporary
<1> QED
  BY <1>13, <1>14

LEMMA InitTyped == Init => Typed /\ WhiteIsTemporary
<1> SUFFICES ASSUME Init PROVE Typed /\ WhiteIsTemporary
  OBVIOUS
<1>1. TypeOK
  <2>1. /\ AllOff \in [Alliances -> Modes] /\ <<>> \in Seq(Sounds)
        /\ [shift |-> ShiftAuto, warning |-> FALSE] \in [shift : 0 .. 8, warning : BOOLEAN]
    BY EmptySeq DEF AllOff, Modes, ShiftAuto
  <2>2. /\ matchState \in MatchStates /\ lastState \in MatchStates \cup {"none"}
        /\ autoWinner \in Alliances \cup {"none"} /\ gameData \in {"none", "R", "B"}
        /\ time \in Nat /\ lastTime \in Nat /\ settings \in Settings
    BY DEF Init, MatchStates
  <2>3. /\ played \subseteq 1 .. 5 /\ mute \in BOOLEAN /\ disturbed \in BOOLEAN
        /\ assessing = 0
    BY DEF Init
  <2>5. 0 \in 0 .. MaxAssessing
    BY CuesAssumption
  <2>4. /\ lights \in [shift : 0 .. 8, warning : BOOLEAN] /\ hub \in [Alliances -> Modes]
        /\ heard \in Seq(Sounds)
    BY <2>1 DEF Init
  <2> QED
    BY <2>2, <2>3, <2>4, <2>5 DEF TypeOK, Sounds
<1>2. ~Ending
  BY DEF Init, Ending, InProgress
<1>3. WhiteIsTemporary
  BY DEF Init, WhiteIsTemporary, AllOff
<1> QED
  BY <1>1, <1>2, <1>3 DEF Typed

LEMMA NextKeepsTyped ==
  ASSUME Typed, [Next]_vars
  PROVE  Typed' /\ (WhiteIsTemporary => WhiteIsTemporary')
<1> USE DEF Typed, TypeOK
<1>0. "off" \in Modes /\ Shown("off") = "off" /\ AllOff \in [Alliances -> Modes]
      /\ \A a \in Alliances : AllOff[a] = "off"
  BY DEF Modes, Shown, AllOff
<1>1. ASSUME NEW wait \in 0 .. MaxWait, NEW stall \in 0 .. MaxStall, NEW over \in BOOLEAN,
             Update(wait, stall, over)
      PROVE  Typed' /\ (WhiteIsTemporary => WhiteIsTemporary')
  BY <1>1, UpdateKeepsTyped
<1>2. CASE StartMatch
  <2>1. UNCHANGED <<hub, assessing>> /\ assessing < MaxAssessing
    BY <1>2 DEF StartMatch
  <2> QED
    BY <1>2, <2>1, EmptySeq DEF StartMatch, MatchStates, InProgress, clockVars, WhiteIsTemporary
<1>3. CASE AbortMatch
  <2>1. UNCHANGED <<hub, assessing>> /\ Ending
    BY <1>3 DEF AbortMatch, Ending
  <2>2. heard' \in Seq(Sounds)
    <3>1. "abort" \in Sounds
      BY DEF Sounds
    <3>2. <<"abort">> \in Seq(Sounds) /\ <<>> \in Seq(Sounds) /\ heard \in Seq(Sounds)
      BY <3>1, EmptySeq DEF Sounds
    <3>3. heard' = heard \/ heard' = heard \o <<"abort">> \/ heard' = heard \o <<>>
      BY <1>3 DEF AbortMatch, Hear
    <3> QED
      BY <3>2, <3>3, ConcatProperties
  <2> QED
    BY <1>3, <2>1, <2>2 DEF AbortMatch, MatchStates, WhiteIsTemporary, Sounds
<1>4. CASE ResetMatch
  <2>1. UNCHANGED <<hub, assessing>> /\ ~Ending'
    BY <1>4 DEF ResetMatch, Ending, InProgress
  <2> QED
    BY <1>4, <2>1 DEF ResetMatch, MatchStates, clockVars, WhiteIsTemporary
<1>5. ASSUME NEW muted \in BOOLEAN, SetMuteMatchSounds(muted)
      PROVE  Typed' /\ (WhiteIsTemporary => WhiteIsTemporary')
  <2>1. UNCHANGED <<hub, assessing>> /\ (Ending' <=> Ending)
    BY <1>5 DEF SetMuteMatchSounds, Ending, InProgress, matchVars, clockVars
  <2> QED
    BY <1>5, <2>1, EmptySeq DEF SetMuteMatchSounds, matchVars, clockVars, WhiteIsTemporary
<1>6. ASSUME NEW new \in Settings, LoadSettings(new)
      PROVE  Typed' /\ (WhiteIsTemporary => WhiteIsTemporary')
  <2>1. UNCHANGED assessing /\ (Ending' <=> Ending)
    BY <1>6 DEF LoadSettings, Ending, InProgress, matchVars, clockVars
  <2>2. /\ hub' \in [Alliances -> Modes]
        /\ hub' = hub \/ \A a \in Alliances : hub'[a] # "white"
    BY <1>0, <1>6 DEF LoadSettings
  <2> QED
    BY <1>6, <2>1, <2>2, EmptySeq DEF LoadSettings, matchVars, clockVars, WhiteIsTemporary
<1>7. CASE SwitchHubsOff
  <2>1. assessing' = assessing - 1 /\ assessing > 0 /\ assessing' \in 0 .. MaxAssessing
    BY <1>7, CuesAssumption DEF SwitchHubsOff
  <2>2. hub' \in [Alliances -> Modes] /\ \A a \in Alliances : hub'[a] # "white"
    BY <1>0, <1>7, HubsAreTyped DEF SwitchHubsOff
  <2>3. Ending' <=> Ending
    BY <1>7 DEF SwitchHubsOff, Ending, InProgress, matchVars, clockVars
  <2>4. Ending' => assessing' < MaxAssessing
    BY <2>1, <2>3, CuesAssumption
  <2>5. TypeOK'
    BY <1>7, <2>1, <2>2 DEF SwitchHubsOff, matchVars, clockVars, soundVars
  <2> QED
    BY <2>2, <2>4, <2>5 DEF WhiteIsTemporary
<1>8. CASE UNCHANGED vars
  <2>1. Ending' <=> Ending
    BY <1>8 DEF vars, Ending, InProgress, matchVars, clockVars
  <2> QED
    BY <1>8, <2>1 DEF vars, matchVars, clockVars, soundVars, WhiteIsTemporary
<1> QED
  BY <1>1, <1>2, <1>3, <1>4, <1>5, <1>6, <1>7, <1>8 DEF Next

(* The clock, the cues, the lights and the Hubs are of their types, and no  *)
(* more goroutines are started than the bound allows matches over them.     *)
THEOREM TypeInvariant == Spec => []TypeOK
<1>1. Typed => TypeOK
  BY DEF Typed
<1> QED
  BY <1>1, InitTyped, NextKeepsTyped, PTL DEF Spec

LEMMA AlwaysTyped == Spec => []Typed
BY InitTyped, NextKeepsTyped, PTL DEF Spec

(* A goroutine that switches the Hubs off is to come as long as one is      *)
(* white, for any settings loaded at any time (updateHubLeds).              *)
THEOREM WhiteSafety == Spec => []WhiteIsTemporary
<1>1. Init => WhiteIsTemporary
  BY InitTyped
<1>2. Typed /\ WhiteIsTemporary /\ [Next]_vars => WhiteIsTemporary'
  BY NextKeepsTyped
<1> QED
  BY <1>1, <1>2, AlwaysTyped, PTL DEF Spec

-----------------------------------------------------------------------------
(* The Hubs.  From the start of AUTO there is a winner, and in teleop the   *)
(* game data names it.                                                      *)
Played == {"AutoPeriod", "PausePeriod", "TeleopPeriod"}
DataFits ==
  /\ matchState \in Played => autoWinner \in Alliances
  /\ matchState = "TeleopPeriod" => gameData = GameDataFor(autoWinner)

LEMMA NextKeepsDataFits ==
  ASSUME Typed, DataFits, [Next]_vars
  PROVE  DataFits'
<1> USE DEF DataFits, Played
<1>1. ASSUME NEW wait \in 0 .. MaxWait, NEW stall \in 0 .. MaxStall, NEW over \in BOOLEAN,
             Update(wait, stall, over)
      PROVE  DataFits'
  <2> DEFINE m == Moment(wait)
  <2>1. Switch(m, over) /\ m \in Nat
    BY <1>1, UpdateIsAtMoment, CuesAssumption DEF UpdateAt, Moment, Typed, TypeOK
  <2> HIDE DEF m
  <2>2. SwitchStep(m, over)
    BY <2>1, SwitchIs DEF Typed, TypeOK
  <2> QED
    BY <2>2 DEF SwitchStep, Into, EnterAuto
<1>2. CASE StartMatch \/ AbortMatch \/ ResetMatch
  BY <1>2 DEF StartMatch, AbortMatch, ResetMatch
<1>3. CASE UNCHANGED matchVars
  BY <1>3 DEF matchVars
<1>4. ASSUME NEW muted, SetMuteMatchSounds(muted) PROVE DataFits'
  BY <1>3, <1>4 DEF SetMuteMatchSounds
<1>5. ASSUME NEW new, LoadSettings(new) PROVE DataFits'
  BY <1>3, <1>5 DEF LoadSettings
<1>6. CASE SwitchHubsOff
  BY <1>3, <1>6 DEF SwitchHubsOff
<1>7. CASE UNCHANGED vars
  BY <1>3, <1>7 DEF vars
<1> QED
  BY <1>1, <1>2, <1>4, <1>5, <1>6, <1>7 DEF Next

LEMMA DataAlwaysFits == Spec => [](Typed /\ DataFits)
<1>1. Init => DataFits
  BY DEF Init, DataFits, Played
<1>2. Typed /\ DataFits /\ [Next]_vars => DataFits'
  BY NextKeepsDataFits
<1> QED
  BY <1>1, <1>2, AlwaysTyped, PTL DEF Spec

(* The shifts follow each other, whatever the settings.                     *)
LEMMA ShiftTimes ==
  ASSUME TypeOK
  PROVE  /\ ShiftStart(0) = 0 /\ ShiftEnd(0) = AutoEnd
         /\ ShiftStart(1) = TeleopStart /\ ShiftEnd(1) = TeleopStart + Sec * 10
         /\ ShiftStart(2) = TeleopStart + Sec * 10 /\ ShiftEnd(2) = TeleopStart + Sec * 35
         /\ ShiftStart(3) = TeleopStart + Sec * 35 /\ ShiftEnd(3) = TeleopStart + Sec * 60
         /\ ShiftStart(4) = TeleopStart + Sec * 60 /\ ShiftEnd(4) = TeleopStart + Sec * 85
         /\ ShiftStart(5) = TeleopStart + Sec * 85 /\ ShiftEnd(5) = TeleopStart + Sec * 110
         /\ ShiftStart(6) = TeleopStart + Sec * 110 /\ ShiftEnd(6) = TeleopEnd
<1> USE DEF ShiftAuto, ShiftTransition, Shift1, ShiftEndgame, TransitionShiftDurationSec, ShiftDurationSec
<1>1. /\ ShiftStart(0) = 0 /\ ShiftStart(1) = TeleopStart
      /\ ShiftStart(2) = TeleopStart + Sec * 10 /\ ShiftStart(3) = TeleopStart + Sec * 35
      /\ ShiftStart(4) = TeleopStart + Sec * 60 /\ ShiftStart(5) = TeleopStart + Sec * 85
      /\ ShiftStart(6) = TeleopStart + Sec * 110
  BY DEF ShiftStart
<1> QED
  BY <1>1 DEF ShiftEnd

LEMMA OneShiftAtATime ==
  ASSUME TypeOK, NEW now \in Nat, NEW s \in HubShifts(now), NEW t \in HubShifts(now)
  PROVE  s = t
<1>1. s \in 0 .. 6 /\ t \in 0 .. 6 /\ Within(s, now) /\ Within(t, now)
  BY DEF HubShifts, ShiftAuto, ShiftEndgame
<1>2. /\ Sec \in Nat \ {0} /\ AutoEnd \in Nat /\ TeleopStart \in Nat /\ AutoEnd <= TeleopStart
      /\ TeleopEnd \in Nat
  BY TimesAreWhole, CuesAssumption
<1>3. \A i \in 0 .. 6, j \in 0 .. 6 : i < j => ShiftEnd(i) <= ShiftStart(j)
  BY <1>2, ShiftTimes
<1>4. /\ \A i \in 0 .. 6 : ShiftStart(i) \in Nat /\ ShiftEnd(i) \in Nat
  BY <1>2, ShiftTimes
<1> QED
  BY <1>1, <1>3, <1>4 DEF Within

(* Only a Hub that is active pulses or shows that its alliance won AUTO.    *)
LEMMA DarkIsInactive ==
  ASSUME NEW a \in Alliances, NEW shift \in 0 .. 6, NEW now
  PROVE  TeleopMode(a, shift, now) = "off" <=> ~IsShiftActive(a, shift)
<1> USE DEF ShiftTransition, Shift1, Shift2, Shift3, Shift4, ShiftEndgame
<1>1. ASSUME Pulses(a, shift) PROVE IsShiftActive(a, shift)
  BY <1>1 DEF Pulses, IsShiftActive
<1>2. IsShiftActive(a, ShiftTransition)
  BY DEF IsShiftActive
<1> QED
  BY <1>1, <1>2 DEF TeleopMode

LEMMA StepFollowsGameData ==
  ASSUME Typed, DataFits, Typed', DataFits', [Next]_vars,
         matchState' = "TeleopPeriod", time' # time, HubShifts(time)' # {}, NEW a \in Alliances
  PROVE  (hub'[a] = "off") = Dark(a)'
<1>1. PICK wait \in 0 .. MaxWait, stall \in 0 .. MaxStall, over \in BOOLEAN : Update(wait, stall, over)
  BY DEF Next, vars, StartMatch, AbortMatch, ResetMatch, SetMuteMatchSounds, LoadSettings, SwitchHubsOff,
         clockVars, InProgress
<1> DEFINE now == Moment(wait) + stall
<1>2. UpdateHubLeds("TeleopPeriod", now) /\ time' = now /\ settings' = settings
  BY <1>1, UpdateIsAtMoment DEF UpdateAt, InProgress
<1> HIDE DEF now
<1>3. HubShifts(time)' = HubShifts(now)
  BY <1>2 DEF HubShifts, Within, ShiftStart, ShiftEnd, AutoEnd, TeleopStart, TeleopEnd
<1>4. now \in Nat
  BY <1>2 DEF Typed, TypeOK
<1>5. PICK shift \in HubShifts(now) : SetHubs([b \in Alliances |-> TeleopMode(b, shift, now)])
  BY <1>2, <1>3 DEF UpdateHubLeds
<1>6. shift \in 0 .. 6
  BY DEF HubShifts, ShiftAuto, ShiftEndgame
<1>7. hub'[a] = "off" <=> TeleopMode(a, shift, now) = "off"
  <2> DEFINE modes == [b \in Alliances |-> TeleopMode(b, shift, now)]
  <2>1. \A b \in Alliances : TeleopMode(b, shift, now) \in Modes
    BY DEF TeleopMode, Modes
  <2>2. modes \in [Alliances -> Modes] /\ modes[a] = TeleopMode(a, shift, now) /\ SetHubs(modes)
    BY <1>5, <2>1
  <2> HIDE DEF modes
  <2> QED
    BY <2>2, HubsAreTyped
<1>8. hub'[a] = "off" <=> ~IsShiftActive(a, shift)
  BY <1>6, <1>7, DarkIsInactive
<1>9. /\ autoWinner' = autoWinner /\ autoWinner' \in Alliances /\ gameData' = GameDataFor(autoWinner')
  <2> DEFINE m == Moment(wait)
  <2>1. Switch(m, over) /\ m \in Nat
    BY <1>1, UpdateIsAtMoment, CuesAssumption DEF UpdateAt, Moment, Typed, TypeOK
  <2> HIDE DEF m
  <2>2. SwitchStep(m, over)
    BY <2>1, SwitchIs DEF Typed, TypeOK
  <2> QED
    BY <2>2 DEF SwitchStep, Into, EnterAuto, DataFits, Played
<1>10. ~IsShiftActive(a, shift) <=>
         shift \in IF Named(a)' THEN {Shift1, Shift3} ELSE {Shift2, Shift4}
  <2>1. Named(a)' <=> WonAuto(a)
    BY <1>9 DEF Named, GameDataFor, WonAuto, Alliances
  <2> QED
    BY <1>6, <2>1 DEF IsShiftActive, Shift1, Shift2, Shift3, Shift4
<1>11. HubShifts(now) = {shift}
  BY <1>4, OneShiftAtATime DEF Typed
<1>12. Dark(a)' <=> shift \in IF Named(a)' THEN {Shift1, Shift3} ELSE {Shift2, Shift4}
  BY <1>3, <1>11 DEF Dark
<1>13. Dark(a)' \in BOOLEAN
  BY DEF Dark
<1> QED
  BY <1>8, <1>10, <1>12, <1>13

(* The dark Hub of every update of teleop is the one that the game data     *)
(* names, whatever the settings and whenever they are loaded                *)
(* (gameDataForAutoWinner, updateTeleopHubLeds, Hub.IsShiftActive).         *)
THEOREM HubSafety == Spec => HubsFollowGameData
<1> DEFINE A ==
      matchState' = "TeleopPeriod" /\ time' # time /\ HubShifts(time)' # {}
      => \A a \in Alliances : (hub'[a] = "off") = Dark(a)'
<1>1. Typed /\ DataFits /\ Typed' /\ DataFits' /\ [Next]_vars => [A]_vars
  BY StepFollowsGameData
<1> QED
  BY <1>1, DataAlwaysFits, PTL DEF Spec, HubsFollowGameData

-----------------------------------------------------------------------------
(* The seconds shown.  The loop comes round within a second, and a match    *)
(* has fewer seconds than 16 bits can count.                                *)
LoopIsQuick == MaxWait + MaxStall < Sec
MatchesFit == \A s \in Settings : s.auto + s.pause + s.teleop < 65536

LEMMA WholeSeconds ==
  ASSUME NEW m \in Nat
  PROVE  m \div Sec \in Nat /\ Sec * (m \div Sec) <= m /\ m < Sec * (m \div Sec) + Sec
BY CuesAssumption

LEMMA MoreTakesLonger ==
  ASSUME NEW x \in Nat, NEW y \in Nat
  PROVE  /\ Sec * x \in Nat /\ Sec * (x + y) = Sec * x + Sec * y
         /\ x < y => Sec * x + Sec <= Sec * y
         /\ x <= y => Sec * x <= Sec * y
<1>1. Sec \in Nat
  BY CuesAssumption
<1>2. \A a, b, c \in Nat : /\ a * b \in Nat /\ a * (b + c) = a * b + a * c
                           /\ b < c => a * b + a <= a * c
                           /\ b <= c => a * b <= a * c
  OBVIOUS
<1> QED
  BY <1>1, <1>2

LEMMA SecondsAreRight ==
  ASSUME NEW total \in Nat, NEW m \in Nat, total < 65536, m < Sec * total + Sec
  PROVE  Sec * ((total - m \div Sec) % 65536) - (Sec * total - m) \in 0 .. Sec - 1
<1> DEFINE passed == m \div Sec
<1>1. passed \in Nat /\ Sec * passed <= m /\ m < Sec * passed + Sec
  BY WholeSeconds
<1> HIDE DEF passed
<1>2. passed <= total
  <2>1. ASSUME total < passed PROVE FALSE
    <3>1. Sec * total + Sec <= Sec * passed
      BY <1>1, <2>1, MoreTakesLonger
    <3>2. Sec * total \in Nat /\ Sec * passed \in Nat /\ Sec \in Nat
      BY <1>1, MoreTakesLonger, CuesAssumption
    <3> QED
      BY <1>1, <3>1, <3>2
  <2> QED
    BY <1>1, <2>1
<1> DEFINE rest == total - passed
<1>3. rest \in Nat /\ rest < 65536 /\ total = passed + rest
  BY <1>1, <1>2
<1> HIDE DEF rest
<1>4. rest % 65536 = rest
  BY <1>3
<1>5. Sec * total = Sec * passed + Sec * rest
  BY <1>1, <1>3, MoreTakesLonger
<1>6. Sec * passed \in Nat /\ Sec * rest \in Nat /\ Sec \in Nat
  BY <1>1, <1>3, MoreTakesLonger, CuesAssumption
<1>7. Sec * rest - (Sec * total - m) \in 0 .. Sec - 1
  BY <1>1, <1>5, <1>6
<1> QED
  BY <1>4, <1>7 DEF passed, rest

(* Without a warmup, how late an update can find its period.                *)
ClockFits ==
  ~disturbed =>
    /\ matchState = "WarmupPeriod" => settings.warmup > 0
    /\ matchState \in Played => time - lastTime \in 0 .. MaxStall
    /\ settings.warmup = 0 =>
         /\ matchState = "AutoPeriod" => lastTime <= AutoEnd
         /\ matchState = "PausePeriod" => lastTime <= TeleopStart
         /\ matchState = "TeleopPeriod" => lastTime < TeleopEnd + Sec

LEMMA NextKeepsClock ==
  ASSUME LoopIsQuick, Typed, ClockFits, [Next]_vars
  PROVE  ClockFits'
<1> USE DEF ClockFits, Played
<1>1. ASSUME NEW wait \in 0 .. MaxWait, NEW stall \in 0 .. MaxStall, NEW over \in BOOLEAN,
             Update(wait, stall, over), ~disturbed
      PROVE  ClockFits'
  <2> DEFINE m == Moment(wait)
  <2>1. /\ Switch(m, over) /\ m \in Nat /\ lastTime' = m
        /\ matchState' \in InProgress => time' = m + stall
        /\ matchState \in Played \cup {"WarmupPeriod"} => m = time + wait
        /\ matchState = "StartMatch" => m = 0
    <3>1. UpdateAt(m, stall, over)
      BY <1>1, UpdateIsAtMoment
    <3>2. matchState \in MatchStates /\ time \in Nat /\ wait \in Nat
      BY CuesAssumption DEF Typed, TypeOK
    <3>3. /\ m = IF matchState \in Still THEN 0 ELSE time + wait
          /\ m \in Nat
      BY <3>2 DEF Moment
    <3> HIDE DEF m
    <3>4. Switch(m, over) /\ lastTime' = m /\ (matchState' \in InProgress => time' = m + stall)
      BY <3>1 DEF UpdateAt
    <3> QED
      BY <3>3, <3>4 DEF Still
  <2> HIDE DEF m
  <2>2. SwitchStep(m, over)
    BY <2>1, SwitchIs DEF Typed, TypeOK
  <2>3. /\ settings' = settings /\ AutoEnd' = AutoEnd /\ TeleopStart' = TeleopStart
        /\ TeleopEnd' = TeleopEnd /\ disturbed' = disturbed
    BY <1>1 DEF Update, AutoEnd, TeleopStart, TeleopEnd
  <2>4. /\ AutoEnd \in Nat /\ TeleopStart \in Nat /\ TeleopEnd \in Nat
        /\ AutoEnd <= TeleopStart /\ TeleopStart <= TeleopEnd
    BY TimesAreWhole DEF Typed
  <2>5. settings.pause > 0 => AutoEnd + Sec <= TeleopStart
    <3>1. settings.pause \in Nat /\ Sec \in Nat
      BY SettingsFit, CuesAssumption DEF SettingTypes, Typed
    <3>2. settings.pause > 0 => Sec * 0 + Sec <= Sec * settings.pause
      BY <3>1, MoreTakesLonger
    <3>3. Sec * 0 = 0 /\ Sec * settings.pause \in Nat
      BY <3>1, MoreTakesLonger
    <3> QED
      BY <2>4, <3>1, <3>2, <3>3 DEF TeleopStart
  <2>6. time \in Nat /\ lastTime \in Nat /\ Sec \in Nat /\ MaxWait \in Nat /\ MaxStall \in Nat
    BY CuesAssumption DEF Typed, TypeOK
  <2>7. matchState' = "WarmupPeriod" => settings.warmup > 0
    BY <1>1, <2>2 DEF SwitchStep, Into, EnterAuto
  <2>8. matchState' \in Played => time' - lastTime' \in 0 .. MaxStall
    BY <2>1, <2>6 DEF InProgress
  <2>9. ASSUME settings.warmup = 0, matchState' = "AutoPeriod" PROVE m <= AutoEnd
    <3>1. matchState = "StartMatch" \/ (matchState = "AutoPeriod" /\ ~(m >= AutoEnd))
      BY <1>1, <2>2, <2>9 DEF SwitchStep, Into, EnterAuto
    <3> QED
      BY <2>1, <2>4, <3>1
  <2>10. ASSUME settings.warmup = 0, matchState' = "PausePeriod" PROVE m <= TeleopStart
    <3>1. \/ matchState = "AutoPeriod" /\ settings.pause > 0
          \/ matchState = "PausePeriod" /\ ~(m >= TeleopStart)
      BY <2>2, <2>10 DEF SwitchStep, Into, EnterAuto
    <3>2. CASE matchState = "AutoPeriod" /\ settings.pause > 0
      <4>1. m = time + wait /\ time - lastTime \in 0 .. MaxStall /\ lastTime <= AutoEnd
        BY <1>1, <2>1, <2>10, <3>2
      <4> QED
        BY <2>4, <2>5, <2>6, <3>2, <4>1 DEF LoopIsQuick
    <3> QED
      BY <2>1, <2>4, <3>1, <3>2
  <2>11. ASSUME settings.warmup = 0, matchState' = "TeleopPeriod" PROVE m < TeleopEnd + Sec
    <3>1. matchState \in Played
      BY <2>2, <2>11 DEF SwitchStep, Into, EnterAuto
    <3>2. m = time + wait /\ time - lastTime \in 0 .. MaxStall
      BY <1>1, <2>1, <3>1
    <3>3. CASE matchState \in {"AutoPeriod", "PausePeriod"}
      <4>1. lastTime <= TeleopStart
        BY <1>1, <2>4, <2>6, <2>11, <3>3
      <4> QED
        BY <2>4, <2>6, <3>2, <4>1 DEF LoopIsQuick
    <3>4. CASE matchState = "TeleopPeriod"
      <4>1. ~(m >= TeleopEnd)
        BY <2>2, <2>11, <3>4 DEF SwitchStep, Into
      <4> QED
        BY <2>1, <2>4, <2>6, <4>1
    <3> QED
      BY <3>1, <3>3, <3>4
  <2> QED
    BY <2>1, <2>3, <2>7, <2>8, <2>9, <2>10, <2>11
<1>2. CASE disturbed'
  BY <1>2
<1>3. CASE matchState' \in {"PreMatch", "StartMatch", "PostMatch"}
  BY <1>3
<1>4. CASE UNCHANGED <<matchState, time, lastTime, settings, disturbed>>
  BY <1>4 DEF AutoEnd, TeleopStart, TeleopEnd
<1>5. ASSUME NEW wait \in 0 .. MaxWait, NEW stall \in 0 .. MaxStall, NEW over \in BOOLEAN,
             Update(wait, stall, over)
      PROVE  ClockFits'
  BY <1>1, <1>2, <1>5 DEF Update, Typed, TypeOK
<1>6. CASE StartMatch \/ AbortMatch \/ ResetMatch
  BY <1>3, <1>6 DEF StartMatch, AbortMatch, ResetMatch
<1>7. ASSUME NEW muted \in BOOLEAN, SetMuteMatchSounds(muted) PROVE ClockFits'
  BY <1>2, <1>4, <1>7 DEF SetMuteMatchSounds, matchVars, clockVars, Typed, TypeOK
<1>8. ASSUME NEW new, LoadSettings(new) PROVE ClockFits'
  BY <1>2, <1>8 DEF LoadSettings
<1>9. CASE SwitchHubsOff
  BY <1>4, <1>9 DEF SwitchHubsOff, matchVars, clockVars, soundVars
<1>10. CASE UNCHANGED vars
  BY <1>4, <1>10 DEF vars, matchVars, clockVars, soundVars
<1> QED
  BY <1>5, <1>6, <1>7, <1>8, <1>9, <1>10 DEF Next

(* Without a warmup the drivers see what is left of the period, rounded up  *)
(* to the second, for any durations that 16 bits can count and any loop     *)
(* that comes round within a second (encodeControlPacket).                  *)
THEOREM SecondsSafety == ASSUME LoopIsQuick, MatchesFit PROVE Spec => []SecondsShown
<1>1. Init => ClockFits
  BY DEF Init, ClockFits, Played
<1>2. Typed /\ ClockFits /\ [Next]_vars => ClockFits'
  BY NextKeepsClock
<1>3. Typed /\ ClockFits => SecondsShown
  <2> SUFFICES ASSUME Typed, ClockFits, ~disturbed, settings.warmup = 0,
                      matchState \in {"AutoPeriod", "TeleopPeriod"}
               PROVE  Sec * SecondsRemaining(matchState, lastTime)
                        - ((IF matchState = "AutoPeriod" THEN AutoEnd ELSE TeleopEnd) - lastTime)
                        \in 0 .. Sec - 1
    BY DEF SecondsShown
  <2>1. SettingTypes(settings) /\ lastTime \in Nat /\ settings \in Settings
    BY SettingsFit DEF Typed, TypeOK
  <2>2. settings.auto + settings.pause + settings.teleop < 65536
    BY <2>1 DEF MatchesFit
  <2>3. AutoEnd = Sec * settings.auto
    BY <2>1 DEF AutoEnd, SettingTypes
  <2>4. TeleopEnd = Sec * (settings.auto + settings.teleop + settings.pause)
    <3>1. \A a, b, c \in Nat : Sec * a + Sec * b + Sec * c = Sec * (a + c + b)
      BY MoreTakesLonger, CuesAssumption
    <3> QED
      BY <2>1, <2>3, <3>1 DEF TeleopEnd, TeleopStart, SettingTypes
  <2>5. CASE matchState = "AutoPeriod"
    <3>1. SecondsRemaining(matchState, lastTime) = (settings.auto - lastTime \div Sec) % 65536
      BY <2>5 DEF SecondsRemaining
    <3>2. lastTime < Sec * settings.auto + Sec /\ settings.auto \in Nat /\ settings.auto < 65536
      <4>1. lastTime <= AutoEnd /\ Sec * settings.auto \in Nat
        BY <2>1, <2>5, MoreTakesLonger DEF ClockFits, SettingTypes
      <4> QED
        BY <2>1, <2>2, <2>3, <4>1, CuesAssumption DEF SettingTypes
    <3> QED
      BY <2>1, <2>3, <2>5, <3>1, <3>2, SecondsAreRight
  <2>6. CASE matchState = "TeleopPeriod"
    <3>1. PICK total \in Nat : total = settings.auto + settings.teleop + settings.pause
      BY <2>1 DEF SettingTypes
    <3>2. total < 65536 /\ TeleopEnd = Sec * total
      BY <2>1, <2>2, <2>4, <3>1 DEF SettingTypes
    <3>3. lastTime < Sec * total + Sec
      BY <2>6, <3>2 DEF ClockFits
    <3>4. Sec * ((total - lastTime \div Sec) % 65536) - (Sec * total - lastTime) \in 0 .. Sec - 1
      BY <2>1, <3>2, <3>3, SecondsAreRight
    <3>5. SecondsRemaining("TeleopPeriod", lastTime)
            = (settings.auto + settings.teleop + settings.pause - lastTime \div Sec) % 65536
      BY DEF SecondsRemaining
    <3>6. SecondsRemaining("TeleopPeriod", lastTime) = (total - lastTime \div Sec) % 65536
      <4>1. /\ lastTime \div Sec \in Nat /\ settings.auto \in Nat /\ settings.teleop \in Nat
            /\ settings.pause \in Nat
        BY <2>1, WholeSeconds DEF SettingTypes
      <4>2. settings.auto + settings.teleop + settings.pause - lastTime \div Sec
              = total - lastTime \div Sec
        BY <3>1, <4>1
      <4> QED
        BY <3>5, <4>2
    <3> QED
      BY <2>6, <3>2, <3>4, <3>6
  <2> QED
    BY <2>5, <2>6
<1> QED
  BY <1>1, <1>2, <1>3, AlwaysTyped, PTL DEF Spec

-----------------------------------------------------------------------------
(* The lights are those of the time when the update began.                  *)
LightsFit ==
  ~disturbed /\ matchState = "TeleopPeriod" =>
    /\ lights = LightingState("TeleopPeriod", lastTime)
    /\ lastTime >= TeleopStart /\ time - lastTime \in 0 .. MaxStall

LEMMA NextKeepsLights ==
  ASSUME Typed, LightsFit, [Next]_vars
  PROVE  LightsFit'
<1> USE DEF LightsFit
<1>1. ASSUME NEW wait \in 0 .. MaxWait, NEW stall \in 0 .. MaxStall, NEW over \in BOOLEAN,
             Update(wait, stall, over), ~disturbed, matchState' = "TeleopPeriod"
      PROVE  LightsFit'
  <2>1. PICK m : m = Moment(wait) /\ UpdateAt(m, stall, over)
    BY <1>1, UpdateIsAtMoment
  <2>2. matchState \in MatchStates /\ time \in Nat /\ wait \in Nat /\ lastTime \in Nat
    BY CuesAssumption DEF Typed, TypeOK
  <2>3. /\ m = IF matchState \in Still THEN 0 ELSE time + wait
        /\ m \in Nat
    BY <2>1, <2>2 DEF Moment
  <2>4. /\ Switch(m, over) /\ lastTime' = m /\ time' = m + stall
        /\ lights' = LightingState("TeleopPeriod", m) /\ settings' = settings
    BY <1>1, <2>1 DEF UpdateAt, InProgress
  <2>5. SwitchStep(m, over)
    BY <2>2, <2>3, <2>4, SwitchIs
  <2>6. TeleopStart' = TeleopStart /\ TeleopEnd' = TeleopEnd
        /\ LightingState("TeleopPeriod", lastTime)' = LightingState("TeleopPeriod", m)
    BY <2>3, <2>4 DEF TeleopStart, TeleopEnd, AutoEnd, LightingState
  <2>7. m >= TeleopStart
    <3>1. CASE matchState = "AutoPeriod"
      <4>1. m >= AutoEnd /\ ~(settings.pause > 0)
        BY <1>1, <2>5, <3>1 DEF SwitchStep, Into, EnterAuto
      <4>2. settings.pause = 0
        BY <4>1, SettingsFit DEF SettingTypes, Typed
      <4>3. TeleopStart = AutoEnd
        BY <4>2, TimesAreWhole, CuesAssumption DEF TeleopStart, Typed
      <4> QED
        BY <4>1, <4>3
    <3>2. CASE matchState = "PausePeriod"
      BY <1>1, <2>5, <3>2 DEF SwitchStep, Into
    <3>3. CASE matchState = "TeleopPeriod"
      <4>1. m = time + wait /\ lastTime >= TeleopStart /\ time - lastTime \in 0 .. MaxStall
        BY <1>1, <2>3, <3>3 DEF Still
      <4> QED
        BY <2>2, <4>1, TimesAreWhole DEF Typed
    <3> QED
      BY <1>1, <2>5, <3>1, <3>2, <3>3 DEF SwitchStep, Into, EnterAuto
  <2>8. time' - lastTime' \in 0 .. MaxStall
    BY <2>3, <2>4, CuesAssumption
  <2> QED
    BY <2>4, <2>6, <2>7, <2>8
<1>2. CASE disturbed' \/ matchState' # "TeleopPeriod"
  BY <1>2
<1>3. CASE UNCHANGED <<matchState, time, lastTime, settings, disturbed, lights>>
  BY <1>3 DEF TeleopStart, TeleopEnd, AutoEnd, LightingState
<1>4. ASSUME NEW wait \in 0 .. MaxWait, NEW stall \in 0 .. MaxStall, NEW over \in BOOLEAN,
             Update(wait, stall, over)
      PROVE  LightsFit'
  BY <1>1, <1>2, <1>4 DEF Update, Typed, TypeOK
<1>5. CASE StartMatch \/ AbortMatch \/ ResetMatch
  BY <1>2, <1>5 DEF StartMatch, AbortMatch, ResetMatch
<1>6. ASSUME NEW muted \in BOOLEAN, SetMuteMatchSounds(muted) PROVE LightsFit'
  BY <1>2, <1>3, <1>6 DEF SetMuteMatchSounds, matchVars, clockVars, Typed, TypeOK
<1>7. ASSUME NEW new, LoadSettings(new) PROVE LightsFit'
  BY <1>2, <1>7 DEF LoadSettings
<1>8. CASE SwitchHubsOff
  BY <1>3, <1>8 DEF SwitchHubsOff, matchVars, clockVars, soundVars
<1>9. CASE UNCHANGED vars
  BY <1>3, <1>9 DEF vars, matchVars, clockVars, soundVars
<1> QED
  BY <1>4, <1>5, <1>6, <1>7, <1>8, <1>9 DEF Next

LEMMA AtLeast ==
  ASSUME NEW n \in Int, NEW k \in Int
  PROVE  n \div Sec >= k <=> Sec * k <= n
<1> DEFINE q == n \div Sec
<1>1. Sec \in Nat \ {0} /\ q \in Int /\ Sec * q <= n /\ n < Sec * q + Sec
  BY CuesAssumption
<1> HIDE DEF q
<1>2. \A a \in Nat, b, c \in Int : /\ a * b \in Int
                                   /\ b <= c => a * b <= a * c
                                   /\ b < c => a * b + a <= a * c
  OBVIOUS
<1>3. Sec * k \in Int /\ Sec * q \in Int
  BY <1>1, <1>2
<1>4. ASSUME q >= k PROVE Sec * k <= n
  BY <1>1, <1>2, <1>3, <1>4
<1>5. ASSUME ~(q >= k) PROVE ~(Sec * k <= n)
  <2>1. q < k
    BY <1>1, <1>5
  <2>2. Sec * q + Sec <= Sec * k
    BY <1>1, <1>2, <2>1
  <2> QED
    BY <1>1, <1>3, <2>2
<1> QED
  BY <1>4, <1>5 DEF q

(* When the lights of a teleop of full length change, counted from its start.*)
LEMMA LightTimes ==
  ASSUME Typed, settings.teleop = 140, NEW m \in Nat, NEW x \in Nat, m = TeleopStart + x
  PROVE  /\ LightingState("TeleopPeriod", m).shift =
               IF x <= Sec * 9 THEN 1 ELSE IF x <= Sec * 34 THEN 2 ELSE IF x <= Sec * 59 THEN 3
               ELSE IF x <= Sec * 84 THEN 4 ELSE IF x <= Sec * 109 THEN 5 ELSE 6
         /\ LightingState("TeleopPeriod", m).warning \in BOOLEAN
         /\ LightingState("TeleopPeriod", m).warning <=>
               \/ Sec * 7 < x /\ x <= Sec * 10
               \/ Sec * 32 < x /\ x <= Sec * 35
               \/ Sec * 57 < x /\ x <= Sec * 60
               \/ Sec * 82 < x /\ x <= Sec * 85
<1> DEFINE r == (TeleopEnd - m) \div Sec
<1>1. Sec \in Nat \ {0} /\ TeleopStart \in Nat /\ TeleopEnd = TeleopStart + Sec * 140
  BY TimesAreWhole, CuesAssumption DEF TeleopEnd, Typed
<1>2. TeleopEnd - m = Sec * 140 - x /\ TeleopEnd - m \in Int
  BY <1>1
<1>3. ASSUME NEW k \in Int PROVE r >= k <=> Sec * k <= Sec * 140 - x
  BY <1>2, AtLeast
<1>4. r \in Int
  BY <1>1, <1>2
<1>5. LightingState("TeleopPeriod", m) = [shift |-> TeleopShift(r), warning |-> ShiftWarning(r)]
  BY DEF LightingState
<1> HIDE DEF r
<1>6. /\ r >= 131 <=> x <= Sec * 9
      /\ r >= 106 <=> x <= Sec * 34
      /\ r >= 81 <=> x <= Sec * 59
      /\ r >= 56 <=> x <= Sec * 84
      /\ r >= 31 <=> x <= Sec * 109
  BY <1>1, <1>3
<1>7. /\ r >= 130 <=> x <= Sec * 10
      /\ r >= 133 <=> x <= Sec * 7
      /\ r >= 105 <=> x <= Sec * 35
      /\ r >= 108 <=> x <= Sec * 32
      /\ r >= 80 <=> x <= Sec * 60
      /\ r >= 83 <=> x <= Sec * 57
      /\ r >= 55 <=> x <= Sec * 85
      /\ r >= 58 <=> x <= Sec * 82
  BY <1>1, <1>3
<1>8. TeleopShift(r) = IF r >= 131 THEN 1 ELSE IF r >= 106 THEN 2 ELSE IF r >= 81 THEN 3
                       ELSE IF r >= 56 THEN 4 ELSE IF r >= 31 THEN 5 ELSE 6
  BY <1>4 DEF TeleopShift, ShiftTransition, ShiftEndgame, Shift4, EndgameDurationSec, ShiftDurationSec
<1>9. ShiftWarning(r) <=> \/ r >= 130 /\ ~(r >= 133)
                          \/ r >= 105 /\ ~(r >= 108)
                          \/ r >= 80 /\ ~(r >= 83)
                          \/ r >= 55 /\ ~(r >= 58)
  BY <1>4 DEF ShiftWarning
<1>10. /\ LightingState("TeleopPeriod", m).shift = TeleopShift(r)
       /\ LightingState("TeleopPeriod", m).warning = ShiftWarning(r)
  BY <1>5
<1>11. LightingState("TeleopPeriod", m).shift =
         IF x <= Sec * 9 THEN 1 ELSE IF x <= Sec * 34 THEN 2 ELSE IF x <= Sec * 59 THEN 3
         ELSE IF x <= Sec * 84 THEN 4 ELSE IF x <= Sec * 109 THEN 5 ELSE 6
  BY <1>6, <1>8, <1>10
<1>12. LightingState("TeleopPeriod", m).warning \in BOOLEAN
  BY LightsAreTyped DEF Typed, MatchStates, InProgress
<1>13. LightingState("TeleopPeriod", m).warning <=> ShiftWarning(r)
  BY <1>10
<1>14. Sec \in Nat /\ x \in Nat /\ Sec * 7 \in Nat /\ Sec * 10 \in Nat /\ Sec * 32 \in Nat
       /\ Sec * 35 \in Nat /\ Sec * 57 \in Nat /\ Sec * 60 \in Nat /\ Sec * 82 \in Nat
       /\ Sec * 85 \in Nat
  BY <1>1
<1>15. LightingState("TeleopPeriod", m).warning <=>
         \/ Sec * 7 < x /\ x <= Sec * 10
         \/ Sec * 32 < x /\ x <= Sec * 35
         \/ Sec * 57 < x /\ x <= Sec * 60
         \/ Sec * 82 < x /\ x <= Sec * 85
  BY <1>7, <1>9, <1>13, <1>14
<1> QED
  BY <1>11, <1>12, <1>15

(* The Hubs' shifts, counted from the start of teleop.                      *)
LEMMA LightsAgree ==
  ASSUME Typed, LightsFit
  PROVE  LightsLeadHubs
<1>0. GetTeleopDurationSec = 140
  BY DEF GetTeleopDurationSec, TransitionShiftDurationSec, ShiftDurationSec, EndgameDurationSec
<1> SUFFICES ASSUME ~disturbed, matchState = "TeleopPeriod", settings.teleop = 140
             PROVE  /\ \A shift \in HubShifts(lastTime) :
                         lights.shift = IF shift < ShiftEndgame /\ ShiftEnd(shift) - lastTime < Sec
                                        THEN shift + 1 ELSE shift
                    /\ lights.warning = \E shift \in Shift1 .. Shift4 :
                                          ShiftStart(shift) - lastTime \in 0 .. Sec * 3 - 1
  BY <1>0, Zenon DEF LightsLeadHubs
<1>1. /\ Sec \in Nat \ {0}
      /\ TeleopStart \in Nat /\ AutoEnd \in Nat /\ AutoEnd <= TeleopStart
      /\ TeleopEnd = TeleopStart + Sec * 140
      /\ lastTime \in Nat
  BY TimesAreWhole, CuesAssumption DEF TeleopEnd, Typed, TypeOK
<1>2. lights = LightingState("TeleopPeriod", lastTime) /\ lastTime >= TeleopStart
  BY DEF LightsFit
<1>3. PICK x \in Nat : lastTime = TeleopStart + x
  <2>1. lastTime - TeleopStart \in Nat /\ lastTime = TeleopStart + (lastTime - TeleopStart)
    BY <1>1, <1>2
  <2> QED
    BY <2>1
<1>4. /\ lights.shift =
           IF x <= Sec * 9 THEN 1 ELSE IF x <= Sec * 34 THEN 2 ELSE IF x <= Sec * 59 THEN 3
           ELSE IF x <= Sec * 84 THEN 4 ELSE IF x <= Sec * 109 THEN 5 ELSE 6
      /\ lights.warning \in BOOLEAN
      /\ lights.warning <=>
           \/ Sec * 7 < x /\ x <= Sec * 10
           \/ Sec * 32 < x /\ x <= Sec * 35
           \/ Sec * 57 < x /\ x <= Sec * 60
           \/ Sec * 82 < x /\ x <= Sec * 85
  BY <1>1, <1>2, <1>3, LightTimes
<1>6. ShiftStart(1) = TeleopStart /\ ShiftStart(2) = TeleopStart + Sec * 10
      /\ ShiftStart(3) = TeleopStart + Sec * 35 /\ ShiftStart(4) = TeleopStart + Sec * 60
      /\ ShiftStart(5) = TeleopStart + Sec * 85 /\ ShiftStart(6) = TeleopStart + Sec * 110
  BY DEF ShiftStart, ShiftAuto, ShiftTransition, Shift1, TransitionShiftDurationSec, ShiftDurationSec
<1>7. ShiftEnd(0) = AutoEnd /\ ShiftEnd(1) = ShiftStart(2) /\ ShiftEnd(2) = ShiftStart(3)
      /\ ShiftEnd(3) = ShiftStart(4) /\ ShiftEnd(4) = ShiftStart(5) /\ ShiftEnd(5) = ShiftStart(6)
      /\ ShiftEnd(6) = TeleopEnd
  BY DEF ShiftEnd, ShiftAuto, ShiftEndgame
<1>8. ASSUME NEW shift \in HubShifts(lastTime)
      PROVE  lights.shift = IF shift < ShiftEndgame /\ ShiftEnd(shift) - lastTime < Sec
                            THEN shift + 1 ELSE shift
  <2>1. shift \in 0 .. 6 /\ ShiftStart(shift) <= lastTime /\ lastTime < ShiftEnd(shift)
    BY <1>8 DEF HubShifts, Within, ShiftAuto, ShiftEndgame
  <2>2. shift # 0
    BY <1>1, <1>3, <1>7, <2>1
  <2>3. CASE shift = 1
    BY <1>1, <1>3, <1>4, <1>6, <1>7, <2>1, <2>3 DEF ShiftEndgame
  <2>4. CASE shift = 2
    BY <1>1, <1>3, <1>4, <1>6, <1>7, <2>1, <2>4 DEF ShiftEndgame
  <2>5. CASE shift = 3
    BY <1>1, <1>3, <1>4, <1>6, <1>7, <2>1, <2>5 DEF ShiftEndgame
  <2>6. CASE shift = 4
    BY <1>1, <1>3, <1>4, <1>6, <1>7, <2>1, <2>6 DEF ShiftEndgame
  <2>7. CASE shift = 5
    BY <1>1, <1>3, <1>4, <1>6, <1>7, <2>1, <2>7 DEF ShiftEndgame
  <2>8. CASE shift = 6
    BY <1>1, <1>3, <1>4, <1>6, <1>7, <2>1, <2>8 DEF ShiftEndgame
  <2> QED
    BY <2>1, <2>2, <2>3, <2>4, <2>5, <2>6, <2>7, <2>8
<1>9. lights.warning <=> \E shift \in 2 .. 5 : ShiftStart(shift) - lastTime \in 0 .. Sec * 3 - 1
  <2>1. /\ ShiftStart(2) - lastTime \in 0 .. Sec * 3 - 1 <=> Sec * 7 < x /\ x <= Sec * 10
        /\ ShiftStart(3) - lastTime \in 0 .. Sec * 3 - 1 <=> Sec * 32 < x /\ x <= Sec * 35
        /\ ShiftStart(4) - lastTime \in 0 .. Sec * 3 - 1 <=> Sec * 57 < x /\ x <= Sec * 60
        /\ ShiftStart(5) - lastTime \in 0 .. Sec * 3 - 1 <=> Sec * 82 < x /\ x <= Sec * 85
    BY <1>1, <1>3, <1>6
  <2>2. (\E shift \in 2 .. 5 : ShiftStart(shift) - lastTime \in 0 .. Sec * 3 - 1)
        <=> \/ ShiftStart(2) - lastTime \in 0 .. Sec * 3 - 1
            \/ ShiftStart(3) - lastTime \in 0 .. Sec * 3 - 1
            \/ ShiftStart(4) - lastTime \in 0 .. Sec * 3 - 1
            \/ ShiftStart(5) - lastTime \in 0 .. Sec * 3 - 1
    <3>1. \A shift : shift \in 2 .. 5
                      <=> shift = 2 \/ shift = 3 \/ shift = 4 \/ shift = 5
      OBVIOUS
    <3> QED
      BY <3>1, Zenon
  <2> QED
    BY <1>4, <2>1, <2>2
<1>10. lights.warning = \E shift \in Shift1 .. Shift4 :
                          ShiftStart(shift) - lastTime \in 0 .. Sec * 3 - 1
  BY <1>4, <1>9, Zenon DEF Shift1, Shift4
<1> QED
  BY <1>8, <1>10

LEMMA InitLights == Init => LightsFit
BY DEF Init, LightsFit

(* In a teleop of the length of its shifts the field lights hand over when  *)
(* less than a second of the Hubs' shift is left, for every length of a     *)
(* second, and warn in the three seconds before the Hubs hand over          *)
(* (computeLightingState, Hub.GetCurrentShiftTiming).                       *)
THEOREM LightSafety == Spec => []LightsLeadHubs
<1>1. Typed /\ LightsFit /\ [Next]_vars => LightsFit'
  BY NextKeepsLights
<1>2. Typed /\ LightsFit => LightsLeadHubs
  BY LightsAgree
<1> QED
  BY <1>1, <1>2, InitLights, AlwaysTyped, PTL DEF Spec

-----------------------------------------------------------------------------
(* The cues.  Every shift has its time if teleop is as long as the first of *)
(* them need, and the warning is of the endgame if it and the warmup, which *)
(* the table of sounds leaves out, are shorter than the last of them.       *)
CuesFit == \A s \in Settings : s.teleop >= 131 /\ s.warmup + s.warning <= 55
At(i) == Sec * MatchSounds[i].at
Handovers(shift) == IF shift \in 2 .. 5 THEN shift - 1 ELSE IF shift = 6 THEN 4 ELSE 0

LEMMA Distribute ==
  ASSUME NEW x \in Int, NEW y \in Int
  PROVE  /\ Sec * x \in Int /\ Sec * (x + y) = Sec * x + Sec * y
         /\ Sec * (x - y) = Sec * x - Sec * y
         /\ x <= y => Sec * x <= Sec * y
<1>1. \A a \in Nat, b, c \in Int : /\ a * b \in Int /\ a * (b + c) = a * b + a * c
                                   /\ a * (b - c) = a * b - a * c
                                   /\ b <= c => a * b <= a * c
  OBVIOUS
<1> QED
  BY <1>1, CuesAssumption

LEMMA SoundTimes ==
  ASSUME Typed, CuesFit
  PROVE  /\ \A i \in 1 .. 5 : At(i) \in Int
         /\ At(1) = 0 /\ At(2) + Sec * settings.warmup = AutoEnd
         /\ At(3) + Sec * settings.warmup = TeleopStart
         /\ At(1) <= At(2) /\ At(2) <= At(3) /\ At(3) <= At(4) /\ At(4) <= At(5)
         /\ TeleopEnd - Sec * 55 <= At(4)
         /\ At(5) <= TeleopEnd /\ TeleopStart + Sec * 131 <= TeleopEnd
         /\ At(3) + Sec * 131 <= TeleopEnd
         /\ Sec * settings.warmup \in Nat /\ Sec * settings.warmup <= AutoEnd
<1>1. /\ settings.warmup \in Nat /\ settings.auto \in Nat /\ settings.pause \in Nat
      /\ settings.teleop \in Nat /\ settings.warning \in Nat
      /\ settings.teleop >= 131 /\ settings.warmup + settings.warning <= 55
  BY SettingsFit DEF Typed, TypeOK, SettingTypes, CuesFit
<1>2. /\ MatchSounds[1].at = 0 /\ MatchSounds[2].at = settings.auto
      /\ MatchSounds[3].at = settings.auto + settings.pause
      /\ MatchSounds[4].at = ((settings.auto + settings.pause) + settings.teleop) - settings.warning
      /\ MatchSounds[5].at = (settings.auto + settings.pause) + settings.teleop
  BY <1>1 DEF MatchSounds
<1>3. PICK W, T, N \in Nat, X \in Nat, Y \in Nat :
        /\ W = settings.warmup /\ T = settings.teleop /\ N = settings.warning
        /\ X = settings.auto /\ Y = settings.pause
  BY <1>1
<1>4. /\ Sec * 0 = 0 /\ Sec * 55 \in Int /\ Sec * 131 \in Int
      /\ Sec * W \in Int /\ Sec * T \in Int /\ Sec * N \in Int /\ Sec * X \in Int
      /\ Sec * Y \in Int
  BY Distribute, CuesAssumption
<1>5. /\ Sec * (X + Y) = Sec * X + Sec * Y
      /\ Sec * (W + X) = Sec * W + Sec * X
      /\ Sec * (W + N) = Sec * W + Sec * N
  BY Distribute
<1>6. Sec * ((X + Y) + T) = (Sec * X + Sec * Y) + Sec * T
  <2>1. X + Y \in Int
    OBVIOUS
  <2>2. Sec * ((X + Y) + T) = Sec * (X + Y) + Sec * T
    BY <2>1, Distribute
  <2> QED
    BY <1>5, <2>2
<1>7. Sec * (((X + Y) + T) - N) = ((Sec * X + Sec * Y) + Sec * T) - Sec * N
  <2>1. (X + Y) + T \in Int
    OBVIOUS
  <2>2. Sec * (((X + Y) + T) - N) = Sec * ((X + Y) + T) - Sec * N
    BY <2>1, Distribute
  <2> QED
    BY <1>6, <2>2
<1>8. Sec * 131 <= Sec * T /\ Sec * (W + N) <= Sec * 55 /\ 0 <= Sec * W /\ 0 <= Sec * N
      /\ 0 <= Sec * X /\ 0 <= Sec * Y
  <2>1. Sec * 131 <= Sec * T
    <3>1. 131 \in Int /\ T \in Int /\ 131 <= T
      BY <1>1, <1>3
    <3> QED
      BY <3>1, Distribute
  <2>2. Sec * (W + N) <= Sec * 55
    <3>1. W + N \in Int /\ W + N <= 55
      BY <1>1, <1>3
    <3> QED
      BY <3>1, Distribute
  <2>3. Sec * 0 <= Sec * W /\ Sec * 0 <= Sec * N /\ Sec * 0 <= Sec * X
        /\ Sec * 0 <= Sec * Y
    BY Distribute
  <2> QED
    BY <1>4, <2>1, <2>2, <2>3
<1>9. AutoEnd = Sec * W + Sec * X /\ TeleopStart = Sec * W + Sec * X + Sec * Y
      /\ TeleopEnd = Sec * W + Sec * X + Sec * Y + Sec * T
  BY <1>3, <1>5 DEF AutoEnd, TeleopStart, TeleopEnd
<1>10. /\ At(1) = 0 /\ At(2) = Sec * X /\ At(3) = Sec * X + Sec * Y
       /\ At(4) = ((Sec * X + Sec * Y) + Sec * T) - Sec * N
       /\ At(5) = (Sec * X + Sec * Y) + Sec * T
  BY <1>2, <1>3, <1>4, <1>5, <1>6, <1>7 DEF At
<1>11. PICK w, t, n, a, p, h, e \in Int :
         /\ w = Sec * W /\ t = Sec * T /\ n = Sec * N /\ a = Sec * X /\ p = Sec * Y
         /\ h = Sec * 131 /\ e = Sec * 55
  BY <1>4
<1>12. h <= t /\ w + n <= e /\ 0 <= w /\ 0 <= n /\ 0 <= a /\ 0 <= p /\ e <= h
  BY <1>5, <1>8, <1>11, CuesAssumption
<1>13. \A i \in 1 .. 5 : At(i) \in Int
  <2>1. At(1) \in Int /\ At(2) \in Int /\ At(3) \in Int /\ At(4) \in Int /\ At(5) \in Int
    BY <1>10, <1>11
  <2>2. \A i \in 1 .. 5 : i = 1 \/ i = 2 \/ i = 3 \/ i = 4 \/ i = 5
    OBVIOUS
  <2> QED
    BY <2>1, <2>2
<1>14. /\ At(1) = 0 /\ At(2) = a /\ At(3) = a + p /\ At(4) = a + p + t - n /\ At(5) = a + p + t
       /\ AutoEnd = w + a /\ TeleopStart = w + a + p /\ TeleopEnd = w + a + p + t
  BY <1>9, <1>10, <1>11
<1>15. Sec * settings.warmup = w
  BY <1>3, <1>11
<1> QED
  BY <1>11, <1>12, <1>13, <1>14, <1>15

Passed(rest) ==
  IF Sec * 131 <= rest THEN 0 ELSE IF Sec * 106 <= rest THEN 1 ELSE IF Sec * 81 <= rest THEN 2
  ELSE IF Sec * 56 <= rest THEN 3 ELSE 4
LEMMA HandoverTimes ==
  ASSUME Typed, NEW m \in Nat
  PROVE  /\ Handovers(LightingState("TeleopPeriod", m).shift) = Passed(TeleopEnd - m)
         /\ LightingState("TeleopPeriod", m).shift \in 1 .. 6
         /\ LightingState("TeleopPeriod", m).shift = 6 <=> TeleopEnd - m < Sec * 31
<1> DEFINE r == (TeleopEnd - m) \div Sec
<1>1. TeleopEnd - m \in Int /\ r \in Int
  BY TimesAreWhole, CuesAssumption DEF Typed
<1>2. LightingState("TeleopPeriod", m).shift = TeleopShift(r)
  BY DEF LightingState
<1>3. ASSUME NEW k \in Int PROVE r >= k <=> Sec * k <= TeleopEnd - m
  BY <1>1, AtLeast
<1> HIDE DEF r
<1>4. /\ r >= 131 <=> Sec * 131 <= TeleopEnd - m
      /\ r >= 106 <=> Sec * 106 <= TeleopEnd - m
      /\ r >= 81 <=> Sec * 81 <= TeleopEnd - m
      /\ r >= 56 <=> Sec * 56 <= TeleopEnd - m
      /\ r >= 31 <=> Sec * 31 <= TeleopEnd - m
  BY <1>3
<1>5. TeleopShift(r) = IF r >= 131 THEN 1 ELSE IF r >= 106 THEN 2 ELSE IF r >= 81 THEN 3
                       ELSE IF r >= 56 THEN 4 ELSE IF r >= 31 THEN 5 ELSE 6
  BY <1>1 DEF TeleopShift, ShiftTransition, ShiftEndgame, Shift4, EndgameDurationSec,
              ShiftDurationSec
<1> QED
  BY <1>1, <1>2, <1>4, <1>5, CuesAssumption DEF Handovers, Passed

(* Sounds and handovers, one at a time.                                     *)
Cue(b, name) == IF b THEN <<name>> ELSE <<>>
LEMMA NextCue ==
  ASSUME NEW n \in 0 .. 9, NEW b \in BOOLEAN, NEW name, b => n < 9 /\ Cues[n + 1] = name
  PROVE  /\ SubSeq(Cues, 1, n) \o Cue(b, name) = SubSeq(Cues, 1, IF b THEN n + 1 ELSE n)
         /\ SubSeq(Cues, 1, n) \in Seq(Sounds)
<1>1. Cues \in Seq(Sounds) /\ Len(Cues) = 9
  BY DEF Cues, Sounds
<1>2. SubSeq(Cues, 1, n) \in Seq(Sounds)
  <2>1. ASSUME NEW i \in 1 .. n PROVE Cues[i] \in Sounds
    <3>1. i \in 1 .. Len(Cues)
      BY <1>1
    <3> HIDE DEF Cues
    <3> QED
      BY <1>1, <3>1, ElementOfSeq
  <2> QED
    BY <2>1, SubSeqProperties
<1>3. CASE b
  <2>1. n + 1 \in 1 .. Len(Cues) /\ 1 \in 1 .. n + 1 /\ (n + 1) - 1 = n
    BY <1>1, <1>3
  <2>2. SubSeq(Cues, 1, n + 1) = SubSeq(Cues, 1, (n + 1) - 1) \o <<Cues[n + 1]>>
    <3>1. 1 \in 1 .. Len(Cues) /\ n + 1 \in 1 .. Len(Cues)
      BY <1>1, <2>1
    <3> HIDE DEF Cues
    <3> QED
      BY <1>1, <3>1, SubSeqRecursiveSecond
  <2> QED
    BY <1>2, <1>3, <2>1, <2>2 DEF Cue
<1>4. CASE ~b
  BY <1>2, <1>4, ConcatEmptySeq DEF Cue
<1> QED
  BY <1>3, <1>4

One(i, ps) == IF i \in ps THEN 1 ELSE 0
Counted(ps, c) == One(1, ps) + One(2, ps) + One(3, ps) + c + One(4, ps) + One(5, ps)
InOrder(ps) == \A i, j \in 1 .. 5 : i < j /\ j \in ps => i \in ps

LEMMA Joined ==
  ASSUME NEW x \in Seq(Sounds), NEW y \in Seq(Sounds)
  PROVE  x \o y \in Seq(Sounds)
BY ConcatProperties

LEMMA Associative ==
  ASSUME NEW x \in Seq(Sounds), NEW y \in Seq(Sounds), NEW z \in Seq(Sounds)
  PROVE  (x \o y) \o z = x \o (y \o z)
BY ConcatAssociative

Growing(ps, qs, c, d) ==
  /\ InOrder(ps) /\ InOrder(qs) /\ ps \subseteq qs
  /\ c \in 0 .. 4 /\ d \in 0 .. 4 /\ (d = c \/ d = c + 1)
  /\ c > 0 => 3 \in ps
  /\ d > 0 => 3 \in qs
  /\ 4 \in qs => c = 4
HeardAt(ps, c) == SubSeq(Cues, 1, Counted(ps, c))
NewCues(ps, qs, c, d) == Names(qs \ ps) \o (IF d # c THEN <<"shift_change">> ELSE <<>>)
LEMMA CuesGrow ==
  ASSUME NEW ps, NEW qs, NEW c, NEW d, Growing(ps, qs, c, d)
  PROVE  HeardAt(ps, c) \o NewCues(ps, qs, c, d) = HeardAt(qs, d)
<1> DEFINE new(i) == i \in qs \ ps
           S(n) == SubSeq(Cues, 1, n)
           n0 == Counted(ps, c)
           n1 == IF new(1) THEN n0 + 1 ELSE n0
           n2 == IF new(2) THEN n1 + 1 ELSE n1
           n3 == IF new(3) THEN n2 + 1 ELSE n2
           n4 == IF new(4) THEN n3 + 1 ELSE n3
           n5 == IF new(5) THEN n4 + 1 ELSE n4
           n6 == IF d # c THEN n5 + 1 ELSE n5
<1> USE DEF Growing
<1>1. ASSUME NEW i \in 1 .. 5
      PROVE  /\ One(i, ps) \in 0 .. 1 /\ One(i, qs) \in 0 .. 1 /\ One(i, ps) <= One(i, qs)
             /\ new(i) <=> One(i, qs) = One(i, ps) + 1
             /\ ~new(i) <=> One(i, qs) = One(i, ps)
  BY DEF One
<1>2. /\ One(2, ps) <= One(1, ps) /\ One(2, qs) <= One(1, qs)
      /\ One(3, ps) <= One(2, ps) /\ One(3, qs) <= One(2, qs)
      /\ One(4, ps) <= One(3, ps) /\ One(4, qs) <= One(3, qs)
      /\ One(5, ps) <= One(4, ps) /\ One(5, qs) <= One(4, qs)
  <2>1. /\ (2 \in ps => 1 \in ps) /\ (2 \in qs => 1 \in qs)
        /\ (3 \in ps => 2 \in ps) /\ (3 \in qs => 2 \in qs)
        /\ (4 \in ps => 3 \in ps) /\ (4 \in qs => 3 \in qs)
        /\ (5 \in ps => 4 \in ps) /\ (5 \in qs => 4 \in qs)
    BY DEF InOrder
  <2> QED
    BY <2>1 DEF One
<1>3. /\ c > 0 => One(3, ps) = 1
      /\ d > 0 => One(3, qs) = 1
      /\ One(4, qs) = 1 => c = 4
  BY DEF One
<1>4. PICK p1, p2, p3, p4, p5 \in 0 .. 1 :
        /\ p1 = One(1, ps) /\ p2 = One(2, ps) /\ p3 = One(3, ps) /\ p4 = One(4, ps)
        /\ p5 = One(5, ps)
  BY <1>1
<1>5. PICK q1, q2, q3, q4, q5 \in 0 .. 1 :
        /\ q1 = One(1, qs) /\ q2 = One(2, qs) /\ q3 = One(3, qs) /\ q4 = One(4, qs)
        /\ q5 = One(5, qs)
  BY <1>1
<1> HIDE DEF new
<1>6. /\ p1 <= q1 /\ p2 <= q2 /\ p3 <= q3 /\ p4 <= q4 /\ p5 <= q5
      /\ p2 <= p1 /\ p3 <= p2 /\ p4 <= p3 /\ p5 <= p4
      /\ q2 <= q1 /\ q3 <= q2 /\ q4 <= q3 /\ q5 <= q4
      /\ new(1) <=> q1 = p1 + 1
      /\ new(2) <=> q2 = p2 + 1
      /\ new(3) <=> q3 = p3 + 1
      /\ new(4) <=> q4 = p4 + 1
      /\ new(5) <=> q5 = p5 + 1
      /\ c > 0 => p3 = 1
      /\ d > 0 => q3 = 1
      /\ q4 = 1 => c = 4
  BY <1>1, <1>2, <1>3, <1>4, <1>5
<1>7. n0 = p1 + p2 + p3 + c + p4 + p5 /\ Counted(qs, d) = q1 + q2 + q3 + d + q4 + q5
  BY <1>4, <1>5 DEF Counted
<1> HIDE DEF n0
<1>8. /\ n1 = q1 + p2 + p3 + c + p4 + p5
      /\ n2 = q1 + q2 + p3 + c + p4 + p5
      /\ n3 = q1 + q2 + q3 + c + p4 + p5
      /\ n4 = q1 + q2 + q3 + c + q4 + p5
      /\ n5 = q1 + q2 + q3 + c + q4 + q5
      /\ n6 = q1 + q2 + q3 + d + q4 + q5
  <2>1. n1 = q1 + p2 + p3 + c + p4 + p5
    BY <1>6, <1>7
  <2> HIDE DEF n1
  <2>2. n2 = q1 + q2 + p3 + c + p4 + p5
    BY <1>6, <2>1
  <2> HIDE DEF n2
  <2>3. n3 = q1 + q2 + q3 + c + p4 + p5
    BY <1>6, <2>2
  <2> HIDE DEF n3
  <2>4. n4 = q1 + q2 + q3 + c + q4 + p5
    BY <1>6, <2>3
  <2> HIDE DEF n4
  <2>5. n5 = q1 + q2 + q3 + c + q4 + q5
    BY <1>6, <2>4
  <2> HIDE DEF n5
  <2>6. n6 = q1 + q2 + q3 + d + q4 + q5
    BY <1>6, <2>5
  <2> QED
    BY <2>1, <2>2, <2>3, <2>4, <2>5, <2>6
<1>9. /\ Cues[1] = "start" /\ Cues[2] = "end" /\ Cues[3] = "resume" /\ Cues[8] = "warning"
      /\ Cues[9] = "end" /\ \A i \in 4 .. 7 : Cues[i] = "shift_change"
  BY DEF Cues
<1>10. S(n0) \o Cue(new(1), "start") = S(n1)
  <2>1. n0 \in 0 .. 9 /\ (new(1) => n0 < 9 /\ Cues[n0 + 1] = "start")
    BY <1>6, <1>7, <1>9
  <2>2. new(1) \in BOOLEAN
    BY DEF new
  <2> QED
    BY <1>9, <2>1, <2>2, NextCue
<1>11. S(n1) \o Cue(new(2), "end") = S(n2)
  <2>1. n1 \in 0 .. 9 /\ (new(2) => n1 = 1)
    BY <1>6, <1>8
  <2>2. new(2) \in BOOLEAN
    BY DEF new
  <2> HIDE DEF n1
  <2> QED
    BY <1>9, <2>1, <2>2, NextCue
<1>12. S(n2) \o Cue(new(3), "resume") = S(n3)
  <2>1. n2 \in 0 .. 9 /\ (new(3) => n2 = 2)
    BY <1>6, <1>8
  <2>2. new(3) \in BOOLEAN
    BY DEF new
  <2> HIDE DEF n2
  <2> QED
    BY <1>9, <2>1, <2>2, NextCue
<1>13. S(n3) \o Cue(new(4), "warning") = S(n4)
  <2>1. n3 \in 0 .. 9 /\ (new(4) => n3 = 7)
    BY <1>6, <1>8
  <2>2. new(4) \in BOOLEAN
    BY DEF new
  <2> HIDE DEF n3
  <2> QED
    BY <1>9, <2>1, <2>2, NextCue
<1>14. S(n4) \o Cue(new(5), "end") = S(n5)
  <2>1. n4 \in 0 .. 9 /\ (new(5) => n4 = 8)
    BY <1>6, <1>8
  <2>2. new(5) \in BOOLEAN
    BY DEF new
  <2> HIDE DEF n4
  <2> QED
    BY <1>9, <2>1, <2>2, NextCue
<1>15. S(n5) \o Cue(d # c, "shift_change") = S(n6)
  <2>1. n5 \in 0 .. 9 /\ (d # c => n5 < 9 /\ n5 + 1 \in 4 .. 7)
    BY <1>6, <1>8
  <2>2. (d # c) \in BOOLEAN
    OBVIOUS
  <2> HIDE DEF n5
  <2>3. d # c => n5 < 9 /\ Cues[n5 + 1] = "shift_change"
    BY <1>9, <2>1
  <2> QED
    BY <2>1, <2>2, <2>3, NextCue
<1>16. n0 \in 0 .. 9
  BY <1>6, <1>7
<1> DEFINE C1 == Cue(new(1), "start")
           C2 == Cue(new(2), "end")
           C3 == Cue(new(3), "resume")
           C4 == Cue(new(4), "warning")
           C5 == Cue(new(5), "end")
           C6 == Cue(d # c, "shift_change")
<1>17. Names(qs \ ps) = C1 \o C2 \o C3 \o C4 \o C5
  <2>1. /\ MatchSounds[1].name = "start" /\ MatchSounds[2].name = "end"
        /\ MatchSounds[3].name = "resume" /\ MatchSounds[4].name = "warning"
        /\ MatchSounds[5].name = "end"
    BY DEF MatchSounds
  <2> QED
    BY <2>1 DEF Names, Name, Cue, new
<1>18. ASSUME NEW b, NEW name \in Sounds PROVE Cue(b, name) \in Seq(Sounds)
  <2>1. <<name>> \in Seq(Sounds) /\ <<>> \in Seq(Sounds)
    BY EmptySeq
  <2> QED
    BY <2>1 DEF Cue
<1>19. (((((S(n0) \o C1) \o C2) \o C3) \o C4) \o C5) \o C6
         = S(n0) \o (((((C1 \o C2) \o C3) \o C4) \o C5) \o C6)
  <2>1. /\ "start" \in Sounds /\ "end" \in Sounds /\ "resume" \in Sounds
        /\ "warning" \in Sounds /\ "shift_change" \in Sounds
    BY DEF Sounds
  <2>2. S(n0) \in Seq(Sounds)
    BY <1>16, NextCue, Zenon
  <2>3. C1 \in Seq(Sounds)
    BY <1>18, <2>1
  <2>4. C2 \in Seq(Sounds)
    BY <1>18, <2>1
  <2>5. C3 \in Seq(Sounds)
    BY <1>18, <2>1
  <2>6. C4 \in Seq(Sounds)
    BY <1>18, <2>1
  <2>7. C5 \in Seq(Sounds)
    BY <1>18, <2>1
  <2>8. C6 \in Seq(Sounds)
    BY <1>18, <2>1
  <2> DEFINE B2 == C1 \o C2
             B3 == B2 \o C3
             B4 == B3 \o C4
             B5 == B4 \o C5
  <2> HIDE DEF C1, C2, C3, C4, C5, C6, S, n0
  <2>9. B2 \in Seq(Sounds) /\ (S(n0) \o C1) \o C2 = S(n0) \o B2
    BY <2>2, <2>3, <2>4, Joined, Associative, Zenon
  <2>10. B2 \in Seq(Sounds)
    BY <2>9
  <2> HIDE DEF B2
  <2>11. B3 \in Seq(Sounds) /\ (S(n0) \o B2) \o C3 = S(n0) \o B3
    BY <2>2, <2>10, <2>5, Joined, Associative, Zenon
  <2>12. B3 \in Seq(Sounds)
    BY <2>11
  <2> HIDE DEF B3
  <2>13. B4 \in Seq(Sounds) /\ (S(n0) \o B3) \o C4 = S(n0) \o B4
    BY <2>2, <2>12, <2>6, Joined, Associative, Zenon
  <2>14. B4 \in Seq(Sounds)
    BY <2>13
  <2> HIDE DEF B4
  <2>15. B5 \in Seq(Sounds) /\ (S(n0) \o B4) \o C5 = S(n0) \o B5
    BY <2>2, <2>14, <2>7, Joined, Associative, Zenon
  <2>16. B5 \in Seq(Sounds)
    BY <2>15
  <2> HIDE DEF B5
  <2>17. (S(n0) \o B5) \o C6 = S(n0) \o (B5 \o C6)
    BY <2>2, <2>16, <2>8, Associative, Zenon
  <2> QED
    BY <2>9, <2>11, <2>13, <2>15, <2>17 DEF B2, B3, B4, B5
<1> HIDE DEF C1, C2, C3, C4, C5, C6, S, n1, n2, n3, n4, n5, n6
<1>20. (((((S(n0) \o C1) \o C2) \o C3) \o C4) \o C5) \o C6 = S(n6)
  BY <1>10, <1>11, <1>12, <1>13, <1>14, <1>15 DEF C1, C2, C3, C4, C5, C6
<1>21. n6 = Counted(qs, d)
  BY <1>7, <1>8
<1> QED
  BY <1>17, <1>19, <1>20, <1>21 DEF S, n0, C6, Cue, HeardAt, NewCues

(* Sounds and handovers keep step while the loop comes round in a second:   *)
(* c handovers have passed at time l, d of them at time m.                  *)
InStep(l, m, c, d) ==
  /\ l \in Nat /\ m \in Nat /\ l <= m /\ m < l + Sec
  /\ \/ c = 0 /\ d = 0 /\ m < TeleopStart + Sec * 3
     \/ c = 0 /\ d = Passed(TeleopEnd - m) /\ m < TeleopStart + Sec * 3
     \/ c = Passed(TeleopEnd - l) /\ d = Passed(TeleopEnd - m) /\ l < TeleopEnd
     \/ c = Passed(TeleopEnd - l) /\ d = c /\ m >= TeleopEnd
LEMMA KeepStep ==
  ASSUME Typed, CuesFit, NEW l, NEW m, NEW c, NEW d, InStep(l, m, c, d)
  PROVE  /\ c \in 0 .. 4 /\ d \in 0 .. 4 /\ (d = c \/ d = c + 1)
         /\ c > 0 => At(3) <= l
         /\ d > 0 => At(3) <= m
         /\ At(4) <= m => c = 4
<1> USE DEF InStep
<1>1. /\ At(3) \in Int /\ At(4) \in Int /\ TeleopEnd - Sec * 55 <= At(4)
      /\ TeleopStart + Sec * 131 <= TeleopEnd /\ At(3) + Sec * 131 <= TeleopEnd
  BY SoundTimes
<1>2. Sec \in Nat \ {0} /\ TeleopEnd \in Nat /\ TeleopStart \in Nat
  BY TimesAreWhole, CuesAssumption DEF Typed
<1>3. CASE c = 0 /\ d = 0 /\ m < TeleopStart + Sec * 3
  BY <1>1, <1>2, <1>3
<1>4. CASE c = 0 /\ d = Passed(TeleopEnd - m) /\ m < TeleopStart + Sec * 3
  BY <1>1, <1>2, <1>4 DEF Passed
<1>5. CASE c = Passed(TeleopEnd - l) /\ d = Passed(TeleopEnd - m) /\ l < TeleopEnd
  BY <1>1, <1>2, <1>5 DEF Passed
<1>6. CASE c = Passed(TeleopEnd - l) /\ d = c /\ m >= TeleopEnd
  BY <1>1, <1>2, <1>6 DEF Passed
<1> QED
  BY <1>3, <1>4, <1>5, <1>6

(* What has been heard of a match, and when the loop has looked at the time.*)
Running == {"WarmupPeriod"} \cup Played
CueTimes ==
  /\ matchState = "WarmupPeriod" => lastTime < Sec * settings.warmup
  /\ matchState = "AutoPeriod" => lastTime < AutoEnd + Sec
  /\ matchState = "PausePeriod" => lastTime < TeleopStart + Sec * 2
  /\ matchState = "TeleopPeriod" => lastTime < TeleopEnd
CuesHeard ==
  /\ matchState \in Running => lastState = matchState
  /\ matchState = "PreMatch" => played = {}
  /\ ~disturbed /\ matchState \in InProgress => ~mute
  /\ ~disturbed /\ matchState = "StartMatch" => played = {} /\ heard = <<>>
  /\ ~disturbed /\ matchState \in Running =>
       /\ time - lastTime \in 0 .. MaxStall
       /\ CueTimes
       /\ lights = LightingState(matchState, lastTime)
       /\ played = {i \in 1 .. 5 : At(i) <= lastTime}
       /\ heard = SubSeq(Cues, 1, Counted(played, Handovers(lights.shift)))

LEMMA InitHeard == Init => CuesHeard
BY DEF Init, CuesHeard, Running, Played, InProgress

(* An update at time m after one at time l, for what has been heard then:   *)
(* c handovers have passed before, d after it.                              *)
LEMMA UpdateHeard ==
  ASSUME Typed, CuesFit, NEW l \in Nat, NEW m \in Nat, NEW stall, NEW over, UpdateAt(m, stall, over),
         NEW c, NEW d, InStep(l, m, c, d),
         played = {i \in 1 .. 5 : At(i) <= l} \/ (played = {} /\ c = 0 /\ m = 0),
         heard = SubSeq(Cues, 1, Counted(played, c)),
         matchState # "PostMatch" /\ matchState' # "PreMatch", ~disturbed, ~mute,
         ShiftChange(LightingState(matchState', m)) <=> d # c
  PROVE  /\ played' = {i \in 1 .. 5 : At(i) <= m}
         /\ heard' = SubSeq(Cues, 1, Counted(played', d))
<1> DEFINE qs == {i \in 1 .. 5 : At(i) <= m}
<1>1. /\ \A i \in 1 .. 5 : At(i) \in Int
      /\ At(1) = 0 /\ At(1) <= At(2) /\ At(2) <= At(3) /\ At(3) <= At(4) /\ At(4) <= At(5)
  BY SoundTimes
<1>2. /\ c \in 0 .. 4 /\ d \in 0 .. 4 /\ (d = c \/ d = c + 1)
      /\ c > 0 => At(3) <= l
      /\ d > 0 => At(3) <= m
      /\ At(4) <= m => c = 4
  BY KeepStep
<1> USE DEF InStep
<1>3. \A i, j \in 1 .. 5 : i < j => At(i) <= At(j)
  <2>1. At(1) \in Int /\ At(2) \in Int /\ At(3) \in Int /\ At(4) \in Int /\ At(5) \in Int
    BY <1>1
  <2>2. \A i \in 1 .. 5 : i = 1 \/ i = 2 \/ i = 3 \/ i = 4 \/ i = 5
    OBVIOUS
  <2>3. ASSUME NEW i \in 1 .. 5, NEW j \in 1 .. 5, i < j PROVE At(i) <= At(j)
    <3> HIDE DEF At
    <3>1. CASE j = 1
      BY <2>3, <3>1
    <3>2. CASE j = 2
      BY <1>1, <2>1, <2>2, <2>3, <3>2
    <3>3. CASE j = 3
      BY <1>1, <2>1, <2>2, <2>3, <3>3
    <3>4. CASE j = 4
      BY <1>1, <2>1, <2>2, <2>3, <3>4
    <3>5. CASE j = 5
      BY <1>1, <2>1, <2>2, <2>3, <3>5
    <3> QED
      BY <2>2, <3>1, <3>2, <3>3, <3>4, <3>5
  <2> QED
    BY <2>3
<1>4. DueSounds(m) = qs \ played
  <2>1. ASSUME NEW i \in 1 .. 5, i \notin played
        PROVE  (m - At(i) >= 0 /\ m - At(i) < Sec) <=> At(i) <= m
    <3>1. At(i) \in Int /\ Sec \in Nat \ {0}
      BY <1>1, CuesAssumption
    <3>2. CASE played = {k \in 1 .. 5 : At(k) <= l}
      <4>1. ~(At(i) <= l)
        BY <2>1, <3>2
      <4> QED
        BY <3>1, <4>1
    <3>3. CASE m = 0
      <4>1. At(i) >= 0
        <5>1. i = 1 \/ 1 < i
          OBVIOUS
        <5>2. At(1) <= At(i)
          BY <1>1, <1>3, <3>1, <5>1
        <5> QED
          BY <1>1, <3>1, <5>2
      <4> QED
        BY <3>1, <3>3, <4>1
    <3> QED
      BY <3>2, <3>3
  <2>2. DueSounds(m) = {i \in 1 .. 5 \ played : m - At(i) >= 0 /\ m - At(i) < Sec}
    BY DEF DueSounds, At
  <2> QED
    BY <2>1, <2>2
<1>5. played \subseteq qs
  <2>1. ASSUME NEW i \in played PROVE i \in qs
    <3>1. i \in 1 .. 5 /\ At(i) <= l /\ At(i) \in Int
      BY <1>1, <2>1
    <3> QED
      BY <3>1
  <2> QED
    BY <2>1
<1>6. InOrder(qs)
  <2>1. ASSUME NEW i \in 1 .. 5, NEW j \in 1 .. 5, i < j, At(j) <= m PROVE At(i) <= m
    <3>1. At(i) \in Int /\ At(j) \in Int /\ At(i) <= At(j)
      BY <1>1, <1>3, <2>1
    <3> QED
      BY <2>1, <3>1
  <2> QED
    BY <2>1 DEF InOrder
<1>7. InOrder(played)
  <2>1. ASSUME NEW i \in 1 .. 5, NEW j \in 1 .. 5, i < j, At(j) <= l PROVE At(i) <= l
    <3>1. At(i) \in Int /\ At(j) \in Int /\ At(i) <= At(j)
      BY <1>1, <1>3, <2>1
    <3> QED
      BY <2>1, <3>1
  <2> QED
    BY <2>1 DEF InOrder
<1>8. /\ c > 0 => 3 \in played
      /\ d > 0 => 3 \in qs
      /\ 4 \in qs => c = 4
  BY <1>2
<1>9. /\ played' = played \cup DueSounds(m)
      /\ heard' = heard \o (Names(DueSounds(m)) \o (IF d # c THEN <<"shift_change">> ELSE <<>>))
  <2>1. /\ played' = played \cup DueSounds(m)
        /\ ~mute'
        /\ Hear(Names(DueSounds(m)) \o (IF ShiftChange(LightingState(matchState', m))
                                        THEN <<"shift_change">> ELSE <<>>), mute')
    BY DEF UpdateAt
  <2>2. heard' = heard \o (Names(DueSounds(m)) \o (IF ShiftChange(LightingState(matchState', m))
                                                   THEN <<"shift_change">> ELSE <<>>))
    BY <2>1 DEF Hear
  <2> QED
    BY <2>1, <2>2
<1>10. played' = qs
  BY <1>4, <1>5, <1>9
<1> HIDE DEF qs
<1>11. HeardAt(played, c) \o NewCues(played, qs, c, d) = HeardAt(qs, d)
  <2>1. Growing(played, qs, c, d)
    BY <1>2, <1>5, <1>6, <1>7, <1>8 DEF Growing
  <2> QED
    BY <2>1, CuesGrow
<1>12. heard' = HeardAt(played, c) \o NewCues(played, qs, c, d)
  BY <1>4, <1>9 DEF HeardAt, NewCues
<1>13. heard' = SubSeq(Cues, 1, Counted(qs, d))
  BY <1>11, <1>12 DEF HeardAt
<1> QED
  BY <1>10, <1>13 DEF qs

(* The loop in a match that is heard.                                       *)
LEMMA HeardStep ==
  ASSUME LoopIsQuick, CuesFit, Typed, CuesHeard, ~disturbed, matchState \in InProgress,
         NEW wait \in 0 .. MaxWait, NEW stall \in 0 .. MaxStall, NEW over \in BOOLEAN,
         Update(wait, stall, over)
  PROVE  /\ CuesHeard'
         /\ matchState' \in Running \cup {"PostMatch"}
         /\ matchState' \in Running => heard' = SubSeq(Cues, 1, Counted(played, Handovers(lights.shift)))'
         /\ matchState = "TeleopPeriod" /\ matchState' = "PostMatch" => heard' = Cues
<1>1. PICK m : m = Moment(wait) /\ UpdateAt(m, stall, over)
  BY UpdateIsAtMoment
<1>2. /\ matchState \in MatchStates /\ time \in Nat /\ wait \in Nat /\ stall \in Nat
      /\ lastTime \in Nat /\ Sec \in Nat \ {0} /\ MaxWait \in Nat /\ MaxStall \in Nat
      /\ MaxWait + MaxStall < Sec
  BY CuesAssumption DEF Typed, TypeOK, LoopIsQuick
<1>3. /\ matchState = "StartMatch" => m = 0
      /\ matchState \in Running => m = time + wait
      /\ m \in Nat
  BY <1>1, <1>2 DEF Moment, Still, Running, Played
<1>4. matchState \in Running \cup {"StartMatch"}
  BY DEF InProgress, Running, Played
<1>5. SwitchStep(m, over)
  BY <1>1, <1>2, <1>3, SwitchIs DEF UpdateAt
<1>6. /\ settings' = settings /\ disturbed' = disturbed /\ lastTime' = m /\ lastState' = matchState'
      /\ lights' = LightingState(matchState', m) /\ ~mute /\ ~mute'
      /\ matchState' \in InProgress => time' = m + stall
  BY <1>1, <1>4 DEF UpdateAt, CuesHeard
<1>7. /\ AutoEnd' = AutoEnd /\ TeleopStart' = TeleopStart /\ TeleopEnd' = TeleopEnd
      /\ \A i \in 1 .. 5 : At(i)' = At(i)
      /\ LightingState(matchState, lastTime)' = lights'
  BY <1>6 DEF AutoEnd, TeleopStart, TeleopEnd, At, MatchSounds, LightingState
<1>8. /\ AutoEnd \in Nat /\ TeleopStart \in Nat /\ TeleopEnd \in Nat /\ AutoEnd <= TeleopStart
      /\ TeleopStart + Sec * 131 <= TeleopEnd
      /\ Sec * settings.warmup \in Nat /\ Sec * settings.warmup <= AutoEnd
  BY TimesAreWhole, SoundTimes DEF Typed
<1>9. matchState \in Running => lastTime <= m /\ m < lastTime + Sec
  <2>1. matchState \in Running => time - lastTime \in 0 .. MaxStall
    BY DEF CuesHeard
  <2> QED
    BY <1>2, <1>3, <2>1
<1>10. \/ matchState' \in Running \ {"TeleopPeriod"} /\ matchState # "TeleopPeriod"
       \/ matchState' = "TeleopPeriod" /\ matchState \in {"AutoPeriod", "PausePeriod"}
       \/ matchState' = "TeleopPeriod" /\ matchState = "TeleopPeriod" /\ ~(m >= TeleopEnd)
       \/ matchState' = "PostMatch" /\ matchState = "TeleopPeriod" /\ m >= TeleopEnd
  BY <1>4, <1>5 DEF SwitchStep, Into, EnterAuto, Running, Played
<1>11. /\ matchState' = "WarmupPeriod" => m < Sec * settings.warmup
       /\ matchState' = "AutoPeriod" => m < AutoEnd + Sec
       /\ matchState' = "PausePeriod" => m < TeleopStart + Sec * 2
       /\ matchState' = "TeleopPeriod" /\ matchState # "TeleopPeriod" => m < TeleopStart + Sec * 3
  <2> USE DEF SwitchStep, Into, EnterAuto
  <2>1. CueTimes \/ matchState = "StartMatch"
    BY <1>4 DEF CuesHeard
  <2>2. CASE matchState = "StartMatch"
    <3>1. m = 0
      BY <1>3, <2>2
    <3>2. settings.warmup > 0 => 0 < Sec * settings.warmup
      <4>1. settings.warmup \in Nat
        BY SettingsFit DEF SettingTypes, Typed
      <4> QED
        BY <1>2, <4>1
    <3>3. matchState' = "WarmupPeriod" => settings.warmup > 0
      BY <1>5, <2>2
    <3>4. matchState' \in {"WarmupPeriod", "AutoPeriod"}
      BY <1>5, <2>2
    <3> QED
      BY <1>2, <1>8, <2>2, <3>1, <3>2, <3>3, <3>4
  <2>3. CASE matchState = "WarmupPeriod"
    <3>1. lastTime < Sec * settings.warmup /\ m < lastTime + Sec
      BY <1>9, <2>1, <2>3 DEF CueTimes, Running
    <3>2. \/ matchState' = "WarmupPeriod" /\ ~(m >= Sec * settings.warmup)
          \/ matchState' = "AutoPeriod"
      BY <1>5, <2>3
    <3> QED
      BY <1>2, <1>3, <1>8, <3>1, <3>2
  <2>4. CASE matchState = "AutoPeriod"
    <3>1. lastTime < AutoEnd + Sec /\ m < lastTime + Sec
      BY <1>9, <2>1, <2>4 DEF CueTimes, Running, Played
    <3>2. \/ matchState' = "AutoPeriod" /\ ~(m >= AutoEnd)
          \/ matchState' \in {"PausePeriod", "TeleopPeriod"}
      BY <1>5, <2>4
    <3> QED
      BY <1>2, <1>3, <1>8, <3>1, <3>2
  <2>5. CASE matchState = "PausePeriod"
    <3>1. lastTime < TeleopStart + Sec * 2 /\ m < lastTime + Sec
      BY <1>9, <2>1, <2>5 DEF CueTimes, Running, Played
    <3>2. \/ matchState' = "PausePeriod" /\ ~(m >= TeleopStart)
          \/ matchState' = "TeleopPeriod"
      BY <1>5, <2>5
    <3> QED
      BY <1>2, <1>3, <1>8, <3>1, <3>2
  <2>6. CASE matchState = "TeleopPeriod"
    <3>1. matchState' \in {"TeleopPeriod", "PostMatch"}
      BY <1>5, <2>6
    <3> QED
      BY <2>6, <3>1
  <2> QED
    BY <1>4, <2>2, <2>3, <2>4, <2>5, <2>6 DEF Running, Played
<1>12. matchState' = "TeleopPeriod" => m < TeleopEnd
  <2>1. matchState' = "TeleopPeriod" /\ matchState # "TeleopPeriod" => m < TeleopEnd
    BY <1>2, <1>3, <1>8, <1>11
  <2>2. matchState' = "TeleopPeriod" /\ matchState = "TeleopPeriod" => m < TeleopEnd
    BY <1>3, <1>8, <1>10
  <2> QED
    BY <2>1, <2>2
<1> DEFINE l == IF matchState = "StartMatch" THEN 0 ELSE lastTime
           c == IF matchState = "StartMatch" THEN 0 ELSE Handovers(lights.shift)
           d == IF matchState' = "PostMatch" THEN c ELSE Handovers(lights'.shift)
<1>13. /\ l \in Nat /\ l <= m /\ m < l + Sec
  BY <1>2, <1>3, <1>4, <1>9
<1>14. matchState \in Running => lights = LightingState(matchState, lastTime)
  BY DEF CuesHeard
<1>15. ASSUME NEW state \in Running, state # "TeleopPeriod", NEW n
       PROVE  LightingState(state, n).shift \in {0, 8}
  BY <1>15 DEF LightingState, Running, Played, ShiftAuto, ShiftCount
<1>16. matchState # "TeleopPeriod" => c = 0
  BY <1>4, <1>14, <1>15 DEF Handovers
<1>17. matchState = "TeleopPeriod" => c = Passed(TeleopEnd - l) /\ lights.shift \in 1 .. 6
                                        /\ (lights.shift = 6 <=> TeleopEnd - l < Sec * 31)
  BY <1>2, <1>14, HandoverTimes DEF Running, Played
<1>18. matchState' \in Running \ {"TeleopPeriod"} => d = 0 /\ lights'.shift \in {0, 8}
  BY <1>6, <1>15 DEF Handovers, Running, Played
<1>19. matchState' = "TeleopPeriod" => d = Passed(TeleopEnd - m) /\ lights'.shift \in 1 .. 6
                                        /\ (lights'.shift = 6 <=> TeleopEnd - m < Sec * 31)
  BY <1>3, <1>6, HandoverTimes
<1>20. InStep(l, m, c, d)
  <2> USE <1>3, <1>13 DEF InStep
  <2>1. CASE matchState' \in Running \ {"TeleopPeriod"} /\ matchState # "TeleopPeriod"
    <3>1. m < TeleopStart + Sec * 3
      BY <1>2, <1>3, <1>8, <1>11, <2>1 DEF Running, Played
    <3> QED
      BY <1>16, <1>18, <2>1, <3>1
  <2>2. CASE matchState' = "TeleopPeriod" /\ matchState \in {"AutoPeriod", "PausePeriod"}
    BY <1>11, <1>16, <1>19, <2>2
  <2>3. CASE matchState' = "TeleopPeriod" /\ matchState = "TeleopPeriod" /\ ~(m >= TeleopEnd)
    <3>1. l < TeleopEnd
      BY <1>3, <1>8, <1>13, <2>3
    <3> QED
      BY <1>17, <1>19, <2>3, <3>1
  <2>4. CASE matchState' = "PostMatch" /\ matchState = "TeleopPeriod" /\ m >= TeleopEnd
    BY <1>17, <2>4
  <2> QED
    BY <1>10, <2>1, <2>2, <2>3, <2>4
<1>21. /\ c \in 0 .. 4 /\ d \in 0 .. 4 /\ (d = c \/ d = c + 1)
       /\ At(4) <= m => c = 4
  <2> HIDE DEF l, c, d
  <2> QED
    BY <1>20, KeepStep
<1>22. ShiftChange(LightingState(matchState', m)) <=> d # c
  <2>1. ShiftChange(LightingState(matchState', m))
        <=> lights'.shift # lights.shift /\ lights'.shift \in 2 .. 5
    BY <1>6 DEF ShiftChange, Shift1, Shift4
  <2>2. CASE matchState' \in Running \ {"TeleopPeriod"} /\ matchState # "TeleopPeriod"
    BY <1>16, <1>18, <2>1, <2>2
  <2>3. CASE matchState' = "TeleopPeriod" /\ matchState \in {"AutoPeriod", "PausePeriod"}
    <3>1. lights.shift \in {0, 8} /\ c = 0
      BY <1>14, <1>15, <1>16, <2>3 DEF Running, Played
    <3>2. d = Handovers(lights'.shift) /\ lights'.shift \in 1 .. 6
      BY <1>19, <2>3
    <3> QED
      BY <1>21, <2>1, <3>1, <3>2 DEF Handovers
  <2>4. CASE matchState' = "TeleopPeriod" /\ matchState = "TeleopPeriod"
    <3>1. lights.shift \in 1 .. 6 /\ c = Handovers(lights.shift)
      BY <1>17, <2>4
    <3>2. d = Handovers(lights'.shift) /\ lights'.shift \in 1 .. 6
      BY <1>19, <2>4
    <3>3. d = c \/ d = c + 1
      BY <1>21
    <3> HIDE DEF c, d, l
    <3>4. PICK old \in 1 .. 6, new \in 1 .. 6 : old = lights.shift /\ new = lights'.shift
      BY <3>1, <3>2
    <3>5. /\ c = IF old = 1 THEN 0 ELSE IF old = 6 THEN 4 ELSE old - 1
          /\ d = IF new = 1 THEN 0 ELSE IF new = 6 THEN 4 ELSE new - 1
      BY <3>1, <3>2, <3>4 DEF Handovers
    <3>6. (old = 6 => new = 6) /\ (new = 6 => c = 4)
      BY <1>2, <1>3, <1>8, <1>13, <1>17, <1>19, <2>4, <3>4 DEF Passed
    <3>7. (new # old /\ new \in 2 .. 5) <=> d # c
      BY <3>3, <3>5, <3>6
    <3> QED
      BY <2>1, <3>4, <3>7
  <2>5. CASE matchState' = "PostMatch" /\ matchState = "TeleopPeriod"
    <3>1. lights'.shift = 7
      BY <1>6, <2>5 DEF LightingState, ShiftPostMatch
    <3> QED
      BY <2>1, <2>5, <3>1
  <2> QED
    BY <1>10, <2>2, <2>3, <2>4, <2>5
<1>23. played = {i \in 1 .. 5 : At(i) <= l} \/ (played = {} /\ c = 0 /\ m = 0)
  BY <1>3, <1>4 DEF CuesHeard
<1>24. heard = SubSeq(Cues, 1, Counted(played, c))
  <2>1. CASE matchState = "StartMatch"
    <3>1. heard = <<>> /\ played = {} /\ c = 0
      BY <2>1 DEF CuesHeard
    <3>2. Counted(played, c) = 0
      BY <3>1 DEF Counted, One
    <3>3. SubSeq(Cues, 1, 0) = <<>>
      BY SubSeqEmpty
    <3> QED
      BY <3>1, <3>2, <3>3
  <2>2. CASE matchState \in Running
    BY <2>2 DEF CuesHeard, Running, Played
  <2> QED
    BY <1>4, <2>1, <2>2
<1> HIDE DEF l, c
<1>25. matchState # "PostMatch" /\ matchState' # "PreMatch"
  BY <1>4, <1>10 DEF Running, Played
<1>27. played' = {i \in 1 .. 5 : At(i) <= m} /\ heard' = SubSeq(Cues, 1, Counted(played', d))
  <2>1. UpdateAt(m, stall, over) /\ m \in Nat /\ l \in Nat /\ ~mute
    BY <1>1, <1>3, <1>6, <1>13
  <2> HIDE DEF d
  <2> QED
    BY <1>20, <1>22, <1>23, <1>24, <1>25, <2>1, UpdateHeard
<1>28. played' = {i \in 1 .. 5 : At(i) <= lastTime}'
  BY <1>6, <1>7, <1>27
<1>29. matchState' \in Running => heard' = SubSeq(Cues, 1, Counted(played, Handovers(lights.shift)))'
  BY <1>27 DEF Running, Played, Counted, One
<1>30. matchState = "TeleopPeriod" /\ matchState' = "PostMatch" => heard' = Cues
  <2> SUFFICES ASSUME matchState = "TeleopPeriod", matchState' = "PostMatch" PROVE heard' = Cues
    OBVIOUS
  <2>1. m >= TeleopEnd /\ d = c
    BY <1>10
  <2>2. /\ At(1) \in Int /\ At(2) \in Int /\ At(3) \in Int /\ At(4) \in Int /\ At(5) \in Int
        /\ At(1) <= At(2) /\ At(2) <= At(3) /\ At(3) <= At(4) /\ At(4) <= At(5)
        /\ At(5) <= TeleopEnd
    BY SoundTimes
  <2>3. 1 \in played' /\ 2 \in played' /\ 3 \in played' /\ 4 \in played' /\ 5 \in played'
    <3>1. m \in Nat /\ TeleopEnd \in Nat /\ TeleopEnd <= m
      BY <1>3, <1>8, <2>1
    <3>2. At(1) <= m /\ At(2) <= m /\ At(3) <= m /\ At(4) <= m /\ At(5) <= m
      <4> HIDE DEF At
      <4> QED
        BY <2>2, <3>1
    <3> HIDE DEF At
    <3> QED
      BY <1>27, <3>2
  <2>4. c = 4
    <3>1. At(4) <= m
      BY <1>3, <1>8, <2>1, <2>2
    <3> QED
      BY <1>21, <3>1
  <2>5. Counted(played', d) = 9
    BY <2>1, <2>3, <2>4 DEF Counted, One
  <2>6. Cues \in Seq(Sounds) /\ Len(Cues) = 9
    BY DEF Cues, Sounds
  <2>7. SubSeq(Cues, 1, 9) = Cues
    <3> HIDE DEF Cues
    <3> QED
      BY <2>6, SubSeqFull
  <2> QED
    BY <1>27, <2>5, <2>7
<1>31. CuesHeard'
  <2>1. CASE matchState' = "PostMatch"
    BY <2>1 DEF CuesHeard, Running, Played, InProgress
  <2>2. CASE matchState' \in Running
    <3>1. (time - lastTime \in 0 .. MaxStall)'
      BY <1>2, <1>3, <1>6, <2>2 DEF Running, Played, InProgress
    <3>2. CueTimes'
      BY <1>6, <1>7, <1>11, <1>12 DEF CueTimes
    <3>3. matchState' # "PreMatch" /\ matchState' # "StartMatch"
      BY <2>2 DEF Running, Played
    <3>4. lights' = LightingState(matchState, lastTime)'
      BY <1>7
    <3> QED
      BY <1>6, <1>28, <1>29, <2>2, <3>1, <3>2, <3>3, <3>4 DEF CuesHeard
  <2> QED
    BY <1>10, <2>1, <2>2 DEF Running, Played
<1> QED
  BY <1>10, <1>29, <1>30, <1>31 DEF Running, Played

LEMMA NextKeepsHeard ==
  ASSUME LoopIsQuick, CuesFit, Typed, CuesHeard, [Next]_vars
  PROVE  CuesHeard'
<1> USE DEF Running, Played, InProgress
<1>1. ASSUME NEW wait \in 0 .. MaxWait, NEW stall \in 0 .. MaxStall, NEW over \in BOOLEAN,
             Update(wait, stall, over)
      PROVE  CuesHeard'
  <2>1. CASE ~disturbed /\ matchState \in InProgress
    BY <1>1, <2>1, HeardStep
  <2>2. CASE disturbed \/ matchState \notin InProgress
    <3>1. PICK m : m = Moment(wait) /\ UpdateAt(m, stall, over)
      BY <1>1, UpdateIsAtMoment
    <3>2. /\ matchState \in MatchStates /\ time \in Nat /\ wait \in Nat
      BY CuesAssumption DEF Typed, TypeOK
    <3>3. m \in Nat
      BY <3>1, <3>2 DEF Moment
    <3>4. SwitchStep(m, over)
      BY <3>1, <3>2, <3>3, SwitchIs DEF UpdateAt
    <3>5. /\ disturbed' = disturbed /\ lastState' = matchState'
          /\ played' = IF matchState = "PostMatch" /\ over THEN {}
                       ELSE played \cup (IF matchState' = "PreMatch" THEN {} ELSE DueSounds(m))
      BY <3>1 DEF UpdateAt
    <3>6. matchState' = "PreMatch" =>
            matchState = "PreMatch" \/ (matchState = "PostMatch" /\ over)
      BY <3>4 DEF SwitchStep, Into, EnterAuto
    <3>7. matchState' = "PreMatch" => played' = {}
      BY <3>5, <3>6 DEF CuesHeard
    <3>8. disturbed' \/ matchState' \notin InProgress
      <4>1. CASE disturbed
        BY <3>5, <4>1
      <4>2. CASE matchState \notin InProgress
        <5>1. matchState \in {"PreMatch", "PostMatch"}
          BY <3>2, <4>2 DEF MatchStates
        <5> QED
          BY <3>4, <5>1 DEF SwitchStep, Into
      <4> QED
        BY <2>2, <4>1, <4>2
    <3>9. CASE disturbed'
      BY <3>5, <3>7, <3>9 DEF CuesHeard
    <3>10. CASE matchState' \notin InProgress
      BY <3>5, <3>7, <3>10 DEF CuesHeard
    <3> QED
      BY <3>8, <3>9, <3>10
  <2> QED
    BY <2>1, <2>2
<1>2. CASE StartMatch
  BY <1>2 DEF StartMatch, CuesHeard, Typed, TypeOK
<1>3. CASE AbortMatch \/ ResetMatch
  BY <1>3 DEF AbortMatch, ResetMatch, CuesHeard
<1>4. CASE UNCHANGED <<matchState, time, lastTime, lastState, settings, played, mute, lights,
                       heard, disturbed>>
  BY <1>4 DEF CuesHeard, CueTimes, LightingState, AutoEnd, TeleopStart, TeleopEnd, At, MatchSounds
<1>5. ASSUME NEW muted \in BOOLEAN, SetMuteMatchSounds(muted) PROVE CuesHeard'
  <2>1. UNCHANGED <<matchState, time, lastTime, lastState, settings, played, lights>>
        /\ mute' = muted
    BY <1>5 DEF SetMuteMatchSounds, matchVars, clockVars
  <2>2. CASE muted = TRUE
    <3>1. disturbed' = TRUE
      BY <1>5, <2>2, Zenon DEF SetMuteMatchSounds
    <3> QED
      BY <2>1, <3>1 DEF CuesHeard
  <2>3. CASE muted = FALSE
    <3>1. UNCHANGED <<heard, disturbed>>
      BY <1>5, <2>3, Zenon DEF SetMuteMatchSounds, Typed, TypeOK
    <3>2. ~mute'
      BY <2>1, <2>3
    <3> QED
      BY <2>1, <3>1, <3>2 DEF CuesHeard, CueTimes, LightingState, AutoEnd, TeleopStart, TeleopEnd,
                              At, MatchSounds
  <2> QED
    BY <1>5, <2>2, <2>3
<1>6. ASSUME NEW new, LoadSettings(new) PROVE CuesHeard'
  BY <1>6 DEF LoadSettings, CuesHeard, matchVars, clockVars
<1>7. CASE SwitchHubsOff
  BY <1>4, <1>7 DEF SwitchHubsOff, matchVars, clockVars, soundVars
<1>8. CASE UNCHANGED vars
  BY <1>4, <1>8 DEF vars, matchVars, clockVars, soundVars
<1> QED
  BY <1>1, <1>2, <1>3, <1>5, <1>6, <1>7, <1>8 DEF Next

(* What has been heard is a beginning of the cues, of a length that fits.   *)
LEMMA CuesBegin ==
  ASSUME NEW n \in 0 .. 9
  PROVE  SubSeq(Cues, 1, n) = SubSeq(Cues, 1, Len(SubSeq(Cues, 1, n)))
<1>1. Len(SubSeq(Cues, 1, n)) = n
  <2>1. Cues \in Seq(Sounds) /\ Len(Cues) = 9
    BY DEF Cues, Sounds
  <2>2. 1 \in 1 .. Len(Cues) + 1 /\ n \in 1 - 1 .. Len(Cues)
    BY <2>1
  <2> HIDE DEF Cues
  <2> QED
    BY <2>1, <2>2, SubSeqProperties
<1> QED
  BY <1>1
LEMMA HeardBegins ==
  ASSUME CuesHeard, ~disturbed, matchState \in InProgress, lights \in [shift : 0 .. 8, warning : BOOLEAN]
  PROVE  heard = SubSeq(Cues, 1, Len(heard))
<1> USE DEF Running, Played, InProgress
<1>1. CASE matchState = "StartMatch"
  <2>1. heard = <<>>
    BY <1>1 DEF CuesHeard
  <2>2. Len(heard) = 0 /\ SubSeq(Cues, 1, 0) = <<>>
    BY <2>1, SubSeqEmpty
  <2> QED
    BY <2>1, <2>2
<1>2. CASE matchState \in Running
  <2> DEFINE n == Counted(played, Handovers(lights.shift))
  <2>1. heard = SubSeq(Cues, 1, n)
    BY <1>2 DEF CuesHeard
  <2>2. n \in 0 .. 9
    <3>1. lights.shift \in 0 .. 8
      OBVIOUS
    <3>2. Handovers(lights.shift) \in 0 .. 4
      BY <3>1 DEF Handovers
    <3>3. \A i \in 1 .. 5 : One(i, played) \in 0 .. 1
      BY DEF One
    <3> QED
      BY <3>2, <3>3 DEF Counted
  <2> HIDE DEF n
  <2> QED
    BY <2>1, <2>2, CuesBegin
<1> QED
  BY <1>1, <1>2

LEMMA StepInSequence ==
  ASSUME LoopIsQuick, CuesFit, Typed, CuesHeard, Typed', CuesHeard', [Next]_vars, ~disturbed'
  PROVE  /\ matchState' \in InProgress => heard' = SubSeq(Cues, 1, Len(heard'))
         /\ matchState = "TeleopPeriod" /\ lastState' = "PostMatch" => heard' = Cues
<1>1. matchState' \in InProgress => heard' = SubSeq(Cues, 1, Len(heard'))
  <2>1. (CuesHeard /\ ~disturbed /\ matchState \in InProgress
           /\ lights \in [shift : 0 .. 8, warning : BOOLEAN]
         => heard = SubSeq(Cues, 1, Len(heard)))'
    BY HeardBegins, PTL
  <2>2. (lights \in [shift : 0 .. 8, warning : BOOLEAN])'
    BY DEF Typed, TypeOK
  <2> QED
    BY <2>1, <2>2
<1>2. ASSUME matchState = "TeleopPeriod", lastState' = "PostMatch" PROVE heard' = Cues
  <2>1. lastState = "TeleopPeriod" \/ disturbed
    BY <1>2 DEF CuesHeard, Running, Played
  <2>2. ASSUME NEW wait \in 0 .. MaxWait, NEW stall \in 0 .. MaxStall, NEW over \in BOOLEAN,
               Update(wait, stall, over)
        PROVE  heard' = Cues
    <3>1. matchState' = "PostMatch" /\ ~disturbed
      BY <1>2, <2>2 DEF Update
    <3> QED
      BY <1>2, <2>2, <3>1, HeardStep DEF InProgress
  <2>3. lastState = "TeleopPeriod"
    BY <1>2 DEF CuesHeard, Running, Played
  <2>4. lastState' # lastState
    BY <1>2, <2>3
  <2> QED
    BY <1>2, <2>2, <2>4 DEF Next, vars, StartMatch, AbortMatch, ResetMatch, SetMuteMatchSounds,
                            LoadSettings, SwitchHubsOff, clockVars
<1> QED
  BY <1>1, <1>2

(* A match heard from its start to its end, with settings left alone, plays *)
(* the table's cues and the four handovers in their order and each of them  *)
(* once, if the loop comes round in a second and the settings leave every   *)
(* shift its time and the warning to the endgame (handleSounds,             *)
(* shiftChangeSounds).                                                      *)
THEOREM CuesSafety == ASSUME LoopIsQuick, CuesFit PROVE Spec => CuesInSequence
<1> DEFINE A == ~disturbed' =>
       /\ matchState' \in InProgress => heard' = SubSeq(Cues, 1, Len(heard'))
       /\ matchState = "TeleopPeriod" /\ lastState' = "PostMatch" => heard' = Cues
<1>1. Typed /\ CuesHeard /\ [Next]_vars => CuesHeard'
  BY NextKeepsHeard
<1>2. Typed /\ CuesHeard /\ Typed' /\ CuesHeard' /\ [Next]_vars => [A]_vars
  BY StepInSequence
<1> QED
  BY <1>1, <1>2, InitHeard, AlwaysTyped, PTL DEF Spec, CuesInSequence
=============================================================================
