---------------------------- MODULE AccessPoint ----------------------------
(***************************************************************************)
(* The teams' WiFi: whoever changes the lineup has a goroutine push it to  *)
(* the access point (arena.setupNetwork, network/access_point.go), and a   *)
(* monitor that polls it once a second pushes the lineup it remembers      *)
(* again when the access point reports another.  The AccessPoint structure *)
(* has no lock: its lineup of six pointers is stored one after the other   *)
(* while others read and store it.                                         *)
(*                                                                         *)
(* A lineup has the team of each station with the WPA key that it had in   *)
(* the database when it was read; the access point reports the teams and   *)
(* keeps their keys to itself.  The history variables lost and due         *)
(* constrain no step and serve the properties.                             *)
(***************************************************************************)
EXTENDS Naturals

CONSTANTS
  Stations,      \* alliance stations
  Teams,         \* numbers of the teams in the database
  NoTeam,        \* team number 0
  Keys,          \* WPA keys
  QuickAddKey,   \* the key that a new team is given
  NoKey,         \* the key of an empty station
  Pushers,       \* identities of goroutines that push a lineup
  monitor,       \* identity of AccessPoint.Run
  MaxOperations  \* bound on what the operators, and the mains, do to the field

ASSUME AccessPointAssumption ==
  /\ NoTeam \notin Teams /\ NoKey \notin Keys /\ monitor \notin Pushers
  /\ QuickAddKey \in Keys /\ MaxOperations \in Nat

VARIABLES
  enabled,    \* EventSettings.NetworkSecurityEnabled
  keys,       \* the key of each team in the database
  station,    \* Team of each AllianceStation, as read when it was assigned
  asked,      \* the lineup pushed last
  lost,       \* that push was dropped, or was inside ConfigureTeamWifi with another
  due,        \* stations that it owes the key of the database
  apEnabled, apStatus,  \* networkSecurityEnabled and Status of the AccessPoint
  last,       \* lastConfiguredTeams
  seen,       \* the team in each TeamWifiStatus
  push,       \* push[p]: a call of ConfigureTeamWifi
  poll,       \* the monitor between two of its sleeps
  radio,      \* the access point itself
  operations

arenaVars == <<enabled, keys, station>>
askVars   == <<asked, lost, due>>
apVars    == <<apEnabled, apStatus, last, seen>>
vars == <<arenaVars, askVars, apVars, push, poll, radio, operations>>

Entries == [team : Teams, key : Keys] \cup {[team |-> NoTeam, key |-> NoKey]}
Empty == [team |-> NoTeam, key |-> NoKey]
Lineups == [Stations -> Entries]
NoLineup == [i \in Stations |-> Empty]
TeamLists == [Stations -> Teams \cup {NoTeam}]
Entry(team) == IF team = NoTeam THEN Empty ELSE [team |-> team, key |-> keys[team]]
Lineup(teams) == [i \in Stations |-> Entry(teams[i])]
TeamsOf(lineup) == [i \in Stations |-> lineup[i].team]
Distinct(teams) == \A i, j \in Stations : teams[i] = teams[j] /\ teams[i] # NoTeam => i = j
Idle == [step |-> "none"]
Asleep == [step |-> "sleep"]

TypeOK ==
  /\ enabled \in BOOLEAN /\ apEnabled \in BOOLEAN
  /\ lost \in BOOLEAN /\ due \subseteq Stations
  /\ keys \in [Teams -> Keys]
  /\ station \in Lineups /\ asked \in TeamLists
  /\ apStatus \in {"UNKNOWN", "CONFIGURING", "ACTIVE", "ERROR"}
  /\ last \in Lineups /\ seen \in TeamLists
  /\ push \in [Pushers \cup {monitor} -> {Idle} \cup
       [step : {"new", "storing", "posting"}, teams : Lineups, left : SUBSET Stations]]
  /\ poll \in {Asleep, [step |-> "check"]} \/
       poll \in [step : {"answered"}, status : {"CONFIGURING", "ACTIVE"}, teams : TeamLists]
  /\ radio \in [status : {"CONFIGURING", "ACTIVE"}, teams : Lineups, target : Lineups]
  /\ operations \in 0 .. MaxOperations

(* The teams were added from Match Play; the access point may still carry   *)
(* the lineup of an earlier run, with the keys of the database.             *)
Init ==
  /\ enabled \in BOOLEAN /\ apEnabled = enabled
  /\ keys = [t \in Teams |-> QuickAddKey]
  /\ station = NoLineup
  /\ asked = TeamsOf(NoLineup) /\ lost = FALSE /\ due = {}
  /\ apStatus = "UNKNOWN" /\ last = NoLineup /\ seen = TeamsOf(NoLineup)
  /\ push = [p \in Pushers \cup {monitor} |-> Idle] /\ poll = Asleep
  /\ \E teams \in TeamLists :
       /\ Distinct(teams)
       /\ radio = [status |-> "ACTIVE", teams |-> Lineup(teams), target |-> Lineup(teams)]
  /\ operations = 0

Operate == operations < MaxOperations /\ operations' = operations + 1

-----------------------------------------------------------------------------
(* Definitions with a suffix _... are mutations: bugs the runs must catch.  *)

(* Between reading its arguments and storing them a push can be overtaken.  *)
Inside(p) == push[p].step \in {"new", "storing"}
SomeInside == \E p \in Pushers \cup {monitor} : Inside(p)

(* setupNetwork: with network security the push is left to a goroutine.     *)
Push(p, lineup) ==
  push' = [push EXCEPT ![p] = [step |-> "new", teams |-> lineup, left |-> Stations]]
SetUpNetwork(lineup, kept) ==
  \/ ~enabled /\ UNCHANGED <<askVars, push>>
  \/ /\ enabled
     /\ \E p \in Pushers : push[p] = Idle
     /\ Push(CHOOSE p \in Pushers : push[p] = Idle, lineup)
     /\ asked' = TeamsOf(lineup) /\ lost' = SomeInside
     /\ due' = {i \in Stations \ kept : /\ lineup[i] # Empty
                                        /\ \A p \in Pushers \cup {monitor} : push[p] = Idle}

(* assignTeam keeps what a linked station, one with a driver station, holds *)
(* of the same team, and reads the database for every other.                *)
Kept_SameTeam(teams, linked) == {i \in Stations : station[i].team = teams[i]}
Kept(teams, linked) == {i \in linked : station[i].team = teams[i]}
Assigned(teams, linked) ==
  [i \in Stations |-> IF i \in Kept(teams, linked) THEN station[i] ELSE Entry(teams[i])]

(* SubstituteTeams, loading a match, a clear and the field reset assign a   *)
(* lineup and push it; a read of the database that fails ends it half way,  *)
(* with the station of the failure empty if it was linked to another team.  *)
(* Any occupied station may be linked.                                      *)
Assign(teams, linked) ==
  /\ Operate /\ Distinct(teams) /\ \A i \in linked : station[i] # Empty
  /\ \/ /\ station' = Assigned(teams, linked)
        /\ SetUpNetwork(station', {i \in linked : station[i].team = teams[i]})
     \/ /\ \E done, emptied \in SUBSET Stations :
             /\ emptied \subseteq linked \ Kept(teams, linked)
             /\ station' = [i \in Stations |->
                  IF i \in emptied THEN Empty
                  ELSE IF i \in done THEN Assigned(teams, linked)[i] ELSE station[i]]
        /\ UNCHANGED <<askVars, push>>
  /\ UNCHANGED <<enabled, keys, apVars, poll, radio>>

(* preLoadNextMatch pushes the teams of another match, and assigns nothing. *)
PreLoad(teams) ==
  /\ Operate /\ Distinct(teams)
  /\ SetUpNetwork(Lineup(teams), {})
  /\ UNCHANGED <<arenaVars, apVars, poll, radio>>

(* A key is written to the database by the page of teams or by              *)
(* SetTeamWpaKeys: a registration stores the keys that were typed, some of  *)
(* them if one fails, before it substitutes the teams, which may fail, and  *)
(* lets go of the arena's mutex in between.  Bound: it happens after an     *)
(* operation and before another.                                            *)
StoreKey(t, key) ==
  /\ operations \in 1 .. MaxOperations - 1 /\ key # keys[t]
  /\ keys' = [keys EXCEPT ![t] = key]
  /\ due' = {i \in due : asked[i] # t}
  /\ UNCHANGED <<enabled, station, asked, lost, apVars, push, poll, radio, operations>>

(* A rejected settings form leaves its switch in EventSettings only; a saved*)
(* one, or a restored database, reaches the access point (SetSettings).     *)
WriteSettings(on) ==
  /\ Operate
  /\ enabled' = on /\ on # enabled
  /\ UNCHANGED <<keys, station, askVars, apVars, push, poll, radio>>
SetSettings(on) ==
  apEnabled' = on /\ apStatus' = "UNKNOWN" /\ UNCHANGED <<last, seen>>
LoadSettings(on) ==
  /\ Operate
  /\ enabled' = on /\ SetSettings(on)
  /\ UNCHANGED <<keys, station, askVars, push, poll, radio>>

-----------------------------------------------------------------------------
(* ConfigureTeamWifi: nothing without network security; otherwise the badge *)
(* and the lineup to compare with change, and a request goes out.           *)
Begin(p) ==
  /\ push[p].step = "new"
  /\ IF apEnabled
     THEN /\ push' = [push EXCEPT ![p].step = "storing"]
          /\ apStatus' = "CONFIGURING" /\ UNCHANGED <<lost, due>>
     ELSE /\ push' = [push EXCEPT ![p] = Idle]
          /\ IF p = monitor THEN UNCHANGED <<lost, due>> ELSE lost' = TRUE /\ due' = {}
          /\ UNCHANGED apStatus
  /\ UNCHANGED <<arenaVars, asked, apEnabled, last, seen, poll, radio, operations>>

StoreTeam(p, i) ==
  /\ push[p].step = "storing" /\ i \in push[p].left
  /\ last' = [last EXCEPT ![i] = push[p].teams[i]]
  /\ push' = [push EXCEPT ![p].left = @ \ {i},
                          ![p].step = IF push[p].left = {i} THEN "posting" ELSE "storing"]
  /\ UNCHANGED <<arenaVars, askVars, apEnabled, apStatus, seen, poll, radio, operations>>

(* The access point takes the configuration, whatever of the answer arrives *)
(* within the three seconds, or it does not.                                *)
PostDone(p) ==
  /\ push[p].step = "posting"
  /\ push' = [push EXCEPT ![p] = Idle]
  /\ UNCHANGED <<arenaVars, asked, lost, apVars, poll, operations>>
PostTaken(p) ==
  /\ PostDone(p) /\ UNCHANGED due
  /\ radio' = [radio EXCEPT !.target = push[p].teams, !.status = "CONFIGURING"]
PostLost(p) ==
  PostDone(p) /\ due' = (IF p = monitor THEN due ELSE {}) /\ UNCHANGED radio

-----------------------------------------------------------------------------
(* updateMonitoring: a request that fails is an error, an answer is on its  *)
(* way for up to three seconds, and nothing is asked without security.      *)
Awake == poll = Asleep /\ push[monitor] = Idle
PollFails ==
  /\ Awake /\ apEnabled /\ apStatus' = "ERROR"
  /\ UNCHANGED <<arenaVars, askVars, apEnabled, last, seen, push, poll, radio, operations>>
PollAnswered ==
  /\ Awake /\ apEnabled
  /\ poll' = [step |-> "answered", status |-> radio.status, teams |-> TeamsOf(radio.teams)]
  /\ UNCHANGED <<arenaVars, askVars, apVars, push, radio, operations>>
PollSkipped ==
  /\ Awake /\ ~apEnabled
  /\ poll' = [step |-> "check"]
  /\ UNCHANGED <<arenaVars, askVars, apVars, push, radio, operations>>

(* updateTeamWifiStatus: a station the answer leaves out has no team.       *)
Reported(i) == poll.teams[i]
TakeAnswer ==
  /\ poll.step = "answered"
  /\ apStatus' = poll.status /\ seen' = [i \in Stations |-> Reported(i)]
  /\ poll' = [step |-> "check"]
  /\ UNCHANGED <<arenaVars, askVars, apEnabled, last, push, radio, operations>>

(* statusMatchesLastConfiguration, and the retry that Run makes of it. *)
Matches_Occupied(lineup) == \A i \in Stations : lineup[i] # Empty => lineup[i].team = seen[i]
Matches(lineup) == \A i \in Stations : lineup[i].team = seen[i]
Check_WhatIsSeen ==
  /\ poll.step = "check"
  /\ poll' = Asleep
  /\ IF apStatus = "ACTIVE" /\ ~Matches(last)
     THEN /\ Push(monitor, Lineup(seen)) /\ lost' = (lost \/ SomeInside)
          /\ due' = IF SomeInside THEN {} ELSE due
     ELSE UNCHANGED <<push, lost, due>>
  /\ UNCHANGED <<arenaVars, asked, apVars, radio, operations>>
Check ==
  /\ poll.step = "check"
  /\ poll' = Asleep
  /\ IF apStatus = "ACTIVE" /\ ~Matches(last)
     THEN /\ Push(monitor, last) /\ lost' = (lost \/ SomeInside)
          /\ due' = IF SomeInside THEN {} ELSE due
     ELSE UNCHANGED <<push, lost, due>>
  /\ UNCHANGED <<arenaVars, asked, apVars, radio, operations>>

-----------------------------------------------------------------------------
(* The access point applies a configuration in its own time, and forgets it *)
(* when its power fails.                                                    *)
RadioApplies ==
  /\ radio.status = "CONFIGURING"
  /\ radio' = [radio EXCEPT !.status = "ACTIVE", !.teams = radio.target]
  /\ UNCHANGED <<arenaVars, askVars, apVars, push, poll, operations>>
RadioRestarts ==
  /\ Operate
  /\ radio' = [status |-> "ACTIVE", teams |-> NoLineup, target |-> NoLineup]
  /\ UNCHANGED <<arenaVars, askVars, apVars, push, poll>>

-----------------------------------------------------------------------------
Operator ==
  \/ \E teams \in TeamLists : PreLoad(teams) \/ \E linked \in SUBSET Stations : Assign(teams, linked)
  \/ \E t \in Teams, key \in Keys : StoreKey(t, key)
  \/ \E on \in BOOLEAN : WriteSettings(on) \/ LoadSettings(on)
Pushing(p) == Begin(p) \/ (\E i \in Stations : StoreTeam(p, i)) \/ PostTaken(p) \/ PostLost(p)
Monitoring == PollFails \/ PollAnswered \/ PollSkipped \/ TakeAnswer \/ Check
Next ==
  \/ Operator \/ Monitoring \/ RadioApplies \/ RadioRestarts
  \/ \E p \in Pushers \cup {monitor} : Pushing(p)
Spec == Init /\ [][Next]_vars

(* Goroutines run and requests end; an access point that is up answers some *)
(* poll and takes some retry in the end.                                    *)
Fairness ==
  /\ WF_vars(TakeAnswer \/ Check \/ PollSkipped) /\ WF_vars(RadioApplies)
  /\ \A p \in Pushers \cup {monitor} : WF_vars(Pushing(p))
  /\ SF_vars(PollAnswered) /\ SF_vars(PostTaken(monitor))
FairSpec == Spec /\ Fairness

-----------------------------------------------------------------------------
(* The teams that may still reach a station: of the pushes under way, of    *)
(* the lineup that the monitor remembers and of the one that the access     *)
(* point is applying.                                                       *)
Pending(i) ==
  {push[p].teams[i].team : p \in {q \in Pushers \cup {monitor} : push[q] # Idle}}
    \cup {last[i].team, radio.target[i].team}

(* The access point is a part of the network as Lineup describes them, with *)
(* no moment of which it is known that it has settled: pushes that overtake *)
(* one another and a lineup stored while it is read may mix two lineups,    *)
(* but put no team on a station's WiFi that none of them had there.         *)
Wifi == INSTANCE Lineup WITH
  pending <- [i \in Stations |-> Pending(i) \ {NoTeam}],
  carried <- TeamsOf(radio.teams),
  settled <- FALSE,
  unsure <- {}
WifiFromLineupsAsked == Wifi!Spec

(* The monitor makes up for pushes that fail, requests that overtake one    *)
(* another and a power failure: in the end the access point carries the     *)
(* teams asked for last, unless their push was dropped or shared            *)
(* ConfigureTeamWifi with another; and even then the monitor comes to rest  *)
(* and does not take every robot off its WiFi again and again (Run,         *)
(* statusMatchesLastConfiguration, updateTeamWifiStatus).                   *)
(* "The network configuration it triggers carries the new keys": the WiFi   *)
(* of a station has the key of the database for as long as the last push    *)
(* owes it.  It owes none where the team was connected, and kept the key it *)
(* had, nor where the key is stored after it; and as the comparison is of   *)
(* teams only, a push whose request failed or was overtaken is not made up  *)
(* for and owes nothing any more (registerTeams, assignTeam).               *)
WifiSettles ==
  <>[]apEnabled =>
    <>[](/\ push[monitor].step \notin {"storing", "posting"}
         /\ lost \/ TeamsOf(radio.teams) = asked
         /\ \A i \in due : radio.teams[i] = Entry(asked[i]))
=============================================================================
