------------------------- MODULE AccessPointProofs -------------------------
(***************************************************************************)
(* Proofs about AccessPoint, for any stations, teams, keys and goroutines: *)
(* its types, and that the WiFi is a part of the network as Lineup         *)
(* describes them.                                                         *)
(***************************************************************************)
EXTENDS AccessPoint, TLAPS

Callers == Pushers \cup {monitor}
Calls == [step : {"new", "storing", "posting"}, teams : Lineups, left : SUBSET Stations]

-----------------------------------------------------------------------------
(* The types.  A push is the only change of a lineup that a goroutine sees. *)
LEMMA PushKeepsCalls ==
  ASSUME push \in [Callers -> {Idle} \cup Calls], NEW p \in Callers, NEW teams \in Lineups,
         Push(p, teams)
  PROVE  push' \in [Callers -> {Idle} \cup Calls]
<1>1. [step |-> "new", teams |-> teams, left |-> Stations] \in Calls
  BY DEF Calls
<1> QED
  BY <1>1 DEF Push

AskTyped == asked \in TeamLists /\ lost \in BOOLEAN /\ due \subseteq Stations
LEMMA SetUpNetworkKeepsTypes ==
  ASSUME TypeOK, NEW lineup \in Lineups, NEW kept, SetUpNetwork(lineup, kept)
  PROVE  push' \in [Callers -> {Idle} \cup Calls] /\ AskTyped'
<1> USE DEF TypeOK, Callers, Calls, AskTyped
<1>1. CASE ~enabled /\ UNCHANGED <<askVars, push>>
  BY <1>1 DEF askVars
<1>2. CASE ~(~enabled /\ UNCHANGED <<askVars, push>>)
  <2> DEFINE q == CHOOSE p \in Pushers : push[p] = Idle
  <2>1. q \in Pushers
    BY <1>2 DEF SetUpNetwork
  <2>2. Push(q, lineup) /\ asked' = TeamsOf(lineup) /\ lost' = SomeInside /\ due' \subseteq Stations
    BY <1>2 DEF SetUpNetwork
  <2>3. SomeInside \in BOOLEAN
    BY DEF SomeInside
  <2>4. push' \in [Callers -> {Idle} \cup Calls]
    BY <2>1, <2>2, PushKeepsCalls
  <2>5. TeamsOf(lineup) \in TeamLists
    BY DEF TeamsOf, TeamLists, Lineups, Entries
  <2> QED
    BY <2>2, <2>3, <2>4, <2>5
<1> QED
  BY <1>1, <1>2

LEMMA LineupIsTyped ==
  ASSUME keys \in [Teams -> Keys], NEW teams \in TeamLists
  PROVE  Lineup(teams) \in Lineups
<1>1. \A i \in Stations : Entry(teams[i]) \in Entries
  BY DEF Entry, Entries, Empty, TeamLists
<1> QED
  BY <1>1 DEF Lineup, Lineups

LEMMA AssignedIsTyped ==
  ASSUME TypeOK, NEW teams \in TeamLists, NEW linked \in SUBSET Stations
  PROVE  Assigned(teams, linked) \in Lineups
<1>1. \A i \in Stations : Entry(teams[i]) \in Entries
  BY DEF Entry, Entries, Empty, TeamLists, TypeOK
<1> QED
  BY <1>1 DEF Assigned, TypeOK, Lineups

LEMMA InitTypes == Init => TypeOK
<1> SUFFICES ASSUME Init PROVE TypeOK
  OBVIOUS
<1>1. NoLineup \in Lineups /\ TeamsOf(NoLineup) \in TeamLists
  BY DEF NoLineup, Lineups, Empty, Entries, TeamsOf, TeamLists
<1>2. keys \in [Teams -> Keys] /\ operations \in 0 .. MaxOperations
  BY AccessPointAssumption DEF Init
<1>3. push \in [Callers -> {Idle} \cup Calls]
  BY DEF Init, Callers
<1>4. radio \in [status : {"CONFIGURING", "ACTIVE"}, teams : Lineups, target : Lineups]
  BY <1>2, LineupIsTyped DEF Init
<1> QED
  BY <1>1, <1>2, <1>3, <1>4 DEF Init, TypeOK, Callers, Calls

LEMMA OperatorKeepsTypes ==
  ASSUME TypeOK, Operator
  PROVE  TypeOK'
<1> USE DEF Operate
<1>1. Operate => operations' \in 0 .. MaxOperations
  BY AccessPointAssumption DEF TypeOK
<1>2. ASSUME NEW teams \in TeamLists, PreLoad(teams)
      PROVE  TypeOK'
  <2>1. Lineup(teams) \in Lineups
    BY LineupIsTyped DEF TypeOK
  <2>2. push' \in [Callers -> {Idle} \cup Calls] /\ AskTyped'
    BY <1>2, <2>1, SetUpNetworkKeepsTypes DEF PreLoad
  <2> QED
    BY <1>1, <1>2, <2>2 DEF PreLoad, TypeOK, AskTyped, arenaVars, apVars, Callers, Calls
<1>3. ASSUME NEW teams \in TeamLists, NEW linked \in SUBSET Stations, Assign(teams, linked)
      PROVE  TypeOK'
  <2>1. Assigned(teams, linked) \in Lineups
    BY AssignedIsTyped
  <2>2. station' \in Lineups
    <3>1. CASE station' = Assigned(teams, linked)
      BY <2>1, <3>1
    <3>2. ASSUME NEW done, NEW emptied,
                 station' = [i \in Stations |->
                   IF i \in emptied THEN Empty
                   ELSE IF i \in done THEN Assigned(teams, linked)[i] ELSE station[i]]
          PROVE  station' \in Lineups
      <4>1. Empty \in Entries
        BY DEF Empty, Entries
      <4>2. \A i \in Stations : Assigned(teams, linked)[i] \in Entries /\ station[i] \in Entries
        BY <2>1 DEF TypeOK, Lineups
      <4> QED
        BY <3>2, <4>1, <4>2 DEF Lineups
    <3> QED
      BY <1>3, <3>1, <3>2 DEF Assign
  <2>3. push' \in [Callers -> {Idle} \cup Calls] /\ AskTyped'
    BY <1>3, <2>2, SetUpNetworkKeepsTypes DEF Assign, AskTyped, askVars, TypeOK, Callers, Calls
  <2> QED
    BY <1>1, <1>3, <2>2, <2>3 DEF Assign, TypeOK, AskTyped, apVars, Callers, Calls
<1>4. ASSUME NEW t \in Teams, NEW key \in Keys, StoreKey(t, key)
      PROVE  TypeOK'
  BY <1>4 DEF StoreKey, TypeOK, apVars
<1>5. ASSUME NEW on \in BOOLEAN, WriteSettings(on)
      PROVE  TypeOK'
  BY <1>1, <1>5 DEF WriteSettings, TypeOK, askVars, apVars
<1>6. ASSUME NEW on \in BOOLEAN, LoadSettings(on)
      PROVE  TypeOK'
  BY <1>1, <1>6 DEF LoadSettings, SetSettings, TypeOK, askVars
<1> QED
  BY <1>2, <1>3, <1>4, <1>5, <1>6 DEF Operator

LEMMA PushingKeepsTypes ==
  ASSUME TypeOK, NEW p \in Callers, Pushing(p)
  PROVE  TypeOK'
<1> USE DEF TypeOK, Callers, Calls
<1>1. CASE Begin(p)
  <2>1. push[p] \in Calls
    BY <1>1 DEF Begin, Idle
  <2>2. push' \in [Callers -> {Idle} \cup Calls]
    BY <1>1, <2>1 DEF Begin
  <2>3. lost' \in BOOLEAN /\ due' \subseteq Stations
    BY <1>1 DEF Begin
  <2> QED
    BY <1>1, <2>2, <2>3 DEF Begin, arenaVars
<1>2. CASE \E i \in Stations : StoreTeam(p, i)
  <2>1. PICK i \in Stations : StoreTeam(p, i)
    BY <1>2
  <2>2. push[p] \in Calls
    BY <2>1 DEF StoreTeam, Idle
  <2>3. push' \in [Callers -> {Idle} \cup Calls]
    BY <2>1, <2>2 DEF StoreTeam
  <2>4. last' \in Lineups
    BY <2>1, <2>2 DEF StoreTeam, Lineups
  <2> QED
    BY <2>1, <2>3, <2>4 DEF StoreTeam, arenaVars, askVars
<1>3. CASE PostTaken(p)
  <2>1. push[p] \in Calls
    BY <1>3 DEF PostTaken, PostDone, Idle
  <2>2. radio' \in [status : {"CONFIGURING", "ACTIVE"}, teams : Lineups, target : Lineups]
    BY <1>3, <2>1 DEF PostTaken
  <2> QED
    BY <1>3, <2>2 DEF PostTaken, PostDone, arenaVars, askVars, apVars
<1>4. CASE PostLost(p)
  BY <1>4 DEF PostLost, PostDone, arenaVars, askVars, apVars
<1> QED
  BY <1>1, <1>2, <1>3, <1>4 DEF Pushing

LEMMA MonitoringKeepsTypes ==
  ASSUME TypeOK, Monitoring
  PROVE  TypeOK'
<1> USE DEF TypeOK, arenaVars, askVars, apVars
<1>1. CASE PollFails \/ PollSkipped
  BY <1>1 DEF PollFails, PollSkipped
<1>2. CASE PollAnswered
  BY <1>2 DEF PollAnswered, TeamsOf, TeamLists, Lineups, Entries
<1>3. CASE TakeAnswer
  <2>1. poll \in [step : {"answered"}, status : {"CONFIGURING", "ACTIVE"}, teams : TeamLists]
    BY <1>3 DEF TakeAnswer, Asleep
  <2>2. seen' \in TeamLists
    BY <1>3, <2>1 DEF TakeAnswer, Reported, TeamLists
  <2> QED
    BY <1>3, <2>1, <2>2 DEF TakeAnswer
<1>4. CASE Check
  <2>1. push' \in [Callers -> {Idle} \cup Calls] /\ lost' \in BOOLEAN /\ due' \subseteq Stations
    BY <1>4, PushKeepsCalls DEF Check, SomeInside, Callers, Calls
  <2> QED
    BY <1>4, <2>1 DEF Check, Callers, Calls
<1> QED
  BY <1>1, <1>2, <1>3, <1>4 DEF Monitoring

LEMMA NextKeepsTypes ==
  ASSUME TypeOK, [Next]_vars
  PROVE  TypeOK'
<1>1. CASE RadioApplies
  BY <1>1 DEF RadioApplies, TypeOK, arenaVars, askVars, apVars
<1>2. CASE RadioRestarts
  <2>1. NoLineup \in Lineups
    BY DEF NoLineup, Lineups, Empty, Entries
  <2> QED
    BY <1>2, <2>1, AccessPointAssumption
       DEF RadioRestarts, Operate, TypeOK, arenaVars, askVars, apVars
<1>3. CASE UNCHANGED vars
  BY <1>3 DEF vars, TypeOK, arenaVars, askVars, apVars
<1> QED
  BY <1>1, <1>2, <1>3, OperatorKeepsTypes, PushingKeepsTypes, MonitoringKeepsTypes
     DEF Next, Callers

(* The types hold for any stations, teams, keys and goroutines. *)
THEOREM TypeInvariant == Spec => []TypeOK
BY InitTypes, NextKeepsTypes, PTL DEF Spec

-----------------------------------------------------------------------------
(* The refinement.  What Lineup calls pending. *)
Waiting == [i \in Stations |-> Pending(i) \ {NoTeam}]
WaitingTyped == Waiting \in [Stations -> SUBSET Teams]
Carried == TeamsOf(radio.teams)

LEMMA PendingIsTyped == TypeOK => WaitingTyped
<1> SUFFICES ASSUME TypeOK, NEW i \in Stations PROVE Pending(i) \ {NoTeam} \subseteq Teams
  BY DEF Waiting, WaitingTyped
<1>1. \A p \in Callers : push[p] # Idle => push[p].teams \in Lineups
  BY DEF TypeOK, Callers
<1>2. last \in Lineups /\ radio.target \in Lineups
  BY DEF TypeOK
<1> QED
  BY <1>1, <1>2 DEF Pending, Lineups, Entries, Callers

LEMMA After == TypeOK' => WaitingTyped'
BY PendingIsTyped, PTL

(* A step that asks for nothing and takes a station's WiFi to no team but   *)
(* one that was pending for it.                                             *)
LEMMA QuietStep ==
  ASSUME TypeOK, TypeOK', UNCHANGED asked,
         \A i \in Stations : Pending(i)' \subseteq Pending(i) \cup {NoTeam},
         \A i \in Stations : Carried'[i] \in {Carried[i], NoTeam} \cup Pending(i)
  PROVE  Wifi!Next
<1>1. WaitingTyped /\ WaitingTyped'
  BY PendingIsTyped, After
<1>2. \A i \in Stations : Waiting'[i] \subseteq Waiting[i]
  BY DEF Waiting
<1>3. Wifi!Forget
  BY <1>1, <1>2 DEF Wifi!Forget, Waiting, WaitingTyped
<1>4. Carried' \in Wifi!Lineups
  BY DEF TypeOK, Lineups, Entries, TeamsOf, Wifi!Lineups, Carried
<1>5. \A i \in Stations : Carried'[i] \in {Carried[i], NoTeam} \cup Waiting[i]
  BY DEF Waiting
<1> QED
  BY <1>3, <1>4, <1>5 DEF Wifi!Next, Wifi!Put, Waiting, Carried

(* A lineup is asked for, or nothing is without network security. *)
LEMMA SetUpNetworkIsAsk ==
  ASSUME TypeOK, NEW teams \in Lineups, NEW kept, SetUpNetwork(teams, kept),
         UNCHANGED <<last, radio>>
  PROVE  Wifi!Next \/ UNCHANGED Wifi!vars
<1>1. CASE ~enabled /\ UNCHANGED <<askVars, push>>
  BY <1>1 DEF askVars, Wifi!vars, Pending
<1>2. CASE ~(~enabled /\ UNCHANGED <<askVars, push>>)
  <2> DEFINE q == CHOOSE p \in Pushers : push[p] = Idle
             call == [step |-> "new", teams |-> teams, left |-> Stations]
  <2>1. q \in Pushers /\ push[q] = Idle
    BY <1>2 DEF SetUpNetwork
  <2>2. push' = [push EXCEPT ![q] = call] /\ asked' = TeamsOf(teams)
    BY <1>2 DEF SetUpNetwork, Push
  <2>3. call # Idle /\ call.teams = teams
    BY DEF Idle
  <2> HIDE DEF call, q
  <2>4. /\ push'[q] = call
        /\ \A p \in Callers : p # q => push'[p] = push[p]
    BY <2>1, <2>2 DEF TypeOK, Callers
  <2>5. ASSUME NEW i \in Stations PROVE Pending(i)' = Pending(i) \cup {teams[i].team}
    <3>1. {push'[p].teams[i].team : p \in {r \in Callers : push'[r] # Idle}} =
            {push[p].teams[i].team : p \in {r \in Callers : push[r] # Idle}} \cup {teams[i].team}
      BY <2>1, <2>3, <2>4 DEF Callers
    <3> QED
      BY <3>1 DEF Pending, Callers
  <2>6. Waiting' = [i \in Stations |-> Waiting[i] \cup ({TeamsOf(teams)[i]} \ {NoTeam})]
    BY <2>5 DEF Waiting, TeamsOf
  <2>7. TeamsOf(teams) \in Wifi!Lineups
    BY DEF Lineups, Entries, TeamsOf, Wifi!Lineups
  <2> QED
    BY <2>2, <2>6, <2>7 DEF Wifi!Next, Wifi!Ask, Waiting
<1> QED
  BY <1>1, <1>2

LEMMA PushingForgets ==
  ASSUME TypeOK, NEW p \in Callers, Pushing(p), NEW i \in Stations
  PROVE  Pending(i)' \subseteq Pending(i)
<1> USE DEF Callers
<1>1. push[p] \in Calls /\ push[p] # Idle
  BY DEF Pushing, Begin, StoreTeam, PostTaken, PostLost, PostDone, Idle, TypeOK, Calls
<1>2. push[p].teams[i].team \in Pending(i)
  BY <1>1 DEF Pending
<1>3. \A q \in Callers : push'[q] # Idle =>
        push[q] # Idle /\ push'[q].teams = push[q].teams
  <2>1. push'[p] = Idle \/ push'[p].teams = push[p].teams
    <3>1. CASE Begin(p)
      BY <1>1, <3>1 DEF Begin, TypeOK, Calls
    <3>2. CASE \E j \in Stations : StoreTeam(p, j)
      BY <1>1, <3>2 DEF StoreTeam, TypeOK, Calls
    <3>3. CASE PostTaken(p) \/ PostLost(p)
      BY <3>3 DEF PostTaken, PostLost, PostDone, TypeOK
    <3> QED
      BY <3>1, <3>2, <3>3 DEF Pushing
  <2>2. \A q \in Callers : q # p => push'[q] = push[q]
    BY DEF Pushing, Begin, StoreTeam, PostTaken, PostLost, PostDone, TypeOK
  <2> QED
    BY <1>1, <2>1, <2>2
<1>4. last'[i] \in {last[i], push[p].teams[i]}
  <2>1. CASE \E j \in Stations : StoreTeam(p, j)
    <3>1. PICK j \in Stations : last' = [last EXCEPT ![j] = push[p].teams[j]]
      BY <2>1 DEF StoreTeam
    <3> QED
      BY <3>1 DEF TypeOK, Lineups
  <2>2. CASE Begin(p) \/ PostTaken(p) \/ PostLost(p)
    BY <2>2 DEF Begin, PostTaken, PostLost, PostDone, apVars
  <2> QED
    BY <2>1, <2>2 DEF Pushing
<1>5. radio'.target[i] \in {radio.target[i], push[p].teams[i]}
  <2>1. CASE PostTaken(p)
    <3>1. radio'.target = push[p].teams
      BY <2>1 DEF PostTaken, TypeOK
    <3> QED
      BY <3>1
  <2>2. CASE ~PostTaken(p)
    BY <2>2 DEF Pushing, Begin, StoreTeam, PostLost, PostDone
  <2> QED
    BY <2>1, <2>2
<1> QED
  BY <1>2, <1>3, <1>4, <1>5 DEF Pending

LEMMA MonitoringForgets ==
  ASSUME TypeOK, Monitoring, NEW i \in Stations
  PROVE  Pending(i)' \subseteq Pending(i)
<1> USE DEF Callers
<1>1. CASE PollFails \/ PollAnswered \/ PollSkipped \/ TakeAnswer
  BY <1>1 DEF PollFails, PollAnswered, PollSkipped, TakeAnswer, Pending, apVars
<1>2. CASE Check
  <2>1. UNCHANGED <<last, radio>>
    BY <1>2 DEF Check, apVars
  <2>2. \A q \in Callers : push'[q] # Idle =>
          push'[q] = push[q] \/ push'[q].teams = last
    BY <1>2 DEF Check, Push, TypeOK
  <2> QED
    BY <2>1, <2>2 DEF Pending
<1> QED
  BY <1>1, <1>2 DEF Monitoring

LEMMA StepsAreLineupSteps ==
  ASSUME TypeOK, TypeOK', [Next]_vars
  PROVE  [Wifi!Next]_(Wifi!vars)
<1>1. CASE Operator
  <2>1. ASSUME NEW teams \in TeamLists, PreLoad(teams)
        PROVE  Wifi!Next \/ UNCHANGED Wifi!vars
    <3>1. Lineup(teams) \in Lineups
      BY LineupIsTyped DEF TypeOK
    <3> QED
      BY <2>1, <3>1, SetUpNetworkIsAsk DEF PreLoad, apVars
  <2>2. ASSUME NEW teams \in TeamLists, NEW linked \in SUBSET Stations, Assign(teams, linked)
        PROVE  Wifi!Next \/ UNCHANGED Wifi!vars
    <3>1. CASE UNCHANGED <<askVars, push>>
      BY <2>2, <3>1 DEF Assign, askVars, apVars, Wifi!vars, Pending
    <3>2. station' \in Lineups
      BY DEF TypeOK
    <3> QED
      BY <2>2, <3>1, <3>2, SetUpNetworkIsAsk DEF Assign, apVars
  <2>3. CASE \E t \in Teams, key \in Keys : StoreKey(t, key)
    BY <2>3 DEF StoreKey, apVars, Wifi!vars, Pending
  <2>4. CASE \E on \in BOOLEAN : WriteSettings(on) \/ LoadSettings(on)
    BY <2>4 DEF WriteSettings, LoadSettings, SetSettings, askVars, apVars, Wifi!vars, Pending
  <2> QED
    BY <1>1, <2>1, <2>2, <2>3, <2>4 DEF Operator
<1>2. CASE Monitoring
  <2>1. UNCHANGED <<asked, radio>>
    BY <1>2 DEF Monitoring, PollFails, PollAnswered, PollSkipped, TakeAnswer, Check, askVars
  <2> QED
    BY <1>2, <2>1, MonitoringForgets, QuietStep DEF Carried
<1>3. CASE \E p \in Callers : Pushing(p)
  <2>1. asked' = asked /\ Carried' = Carried
    BY <1>3 DEF Pushing, Begin, StoreTeam, PostTaken, PostLost, PostDone, askVars, TypeOK, Carried
  <2> QED
    BY <1>3, <2>1, PushingForgets, QuietStep DEF Carried
<1>4. CASE RadioApplies
  <2>1. radio' = [radio EXCEPT !.status = "ACTIVE", !.teams = radio.target]
        /\ UNCHANGED <<asked, last, push>>
    BY <1>4 DEF RadioApplies, askVars, apVars
  <2>2. radio'.teams = radio.target /\ radio'.target = radio.target
    BY <2>1 DEF TypeOK
  <2>3. \A i \in Stations : Pending(i)' = Pending(i) /\ radio.target[i].team \in Pending(i)
    BY <2>1, <2>2 DEF Pending
  <2> QED
    BY <2>1, <2>2, <2>3, QuietStep DEF Carried, TeamsOf
<1>5. CASE RadioRestarts
  <2>1. radio' = [status |-> "ACTIVE", teams |-> NoLineup, target |-> NoLineup]
        /\ UNCHANGED <<asked, last, push>>
    BY <1>5 DEF RadioRestarts, askVars, apVars
  <2>2. \A i \in Stations : radio'.teams[i].team = NoTeam /\ radio'.target[i].team = NoTeam
    BY <2>1 DEF NoLineup, Empty
  <2>3. \A i \in Stations : Pending(i)' \subseteq Pending(i) \cup {NoTeam}
    BY <2>1, <2>2 DEF Pending
  <2> QED
    BY <2>1, <2>2, <2>3, QuietStep DEF Carried, TeamsOf
<1>6. CASE UNCHANGED vars
  BY <1>6 DEF vars, askVars, apVars, Wifi!vars, Pending
<1> QED
  BY <1>1, <1>2, <1>3, <1>4, <1>5, <1>6 DEF Next, Callers

(* The access point does what Lineup promises, though nothing guards its    *)
(* structure: whatever is lost, overtaken or mixed, no station's WiFi is    *)
(* for a team that it was not asked to be for.                              *)
THEOREM Refinement == Spec => WifiFromLineupsAsked
<1>1. Init => Wifi!Init
  <2> SUFFICES ASSUME Init PROVE Wifi!Init
    OBVIOUS
  <2>1. WaitingTyped /\ TypeOK
    BY InitTypes, PendingIsTyped
  <2>2. Carried \in Wifi!Lineups
    BY <2>1 DEF TypeOK, Lineups, Entries, TeamsOf, Carried, Wifi!Lineups
  <2>3. ASSUME NEW i \in Stations PROVE Waiting[i] \subseteq {Carried[i]}
    <3>1. {p \in Callers : push[p] # Idle} = {}
      BY DEF Init, Callers
    <3>2. last[i].team = NoTeam /\ radio.target = radio.teams
      BY DEF Init, NoLineup, Empty
    <3> QED
      BY <3>1, <3>2 DEF Waiting, Pending, Carried, TeamsOf, Callers
  <2>4. asked = [i \in Stations |-> NoTeam]
    BY DEF Init, NoLineup, TeamsOf, Empty
  <2> QED
    BY <2>1, <2>2, <2>3, <2>4 DEF Wifi!Init, Carried, Waiting, WaitingTyped
<1> QED
  BY <1>1, TypeInvariant, StepsAreLineupSteps, PTL DEF Spec, Wifi!Spec, WifiFromLineupsAsked
=============================================================================
