---------------------------- MODULE FieldSwitch ----------------------------
(***************************************************************************)
(* The wired team network: the arena asks for a lineup, goroutines apply   *)
(* it to the Catalyst switch over Telnet (arena.configureTeamEthernet,     *)
(* network/switch.go), clearing a match bounces the driver station ports,  *)
(* and every settings save replaces the Switch object.                     *)
(*                                                                         *)
(* A Telnet session may be carried out for any of its stations, whether it *)
(* reports success or an error: a read timeout counts as success and what  *)
(* the switch answers is not looked at (runCommand).  What a session that  *)
(* reported success left undone is kept in the history variables missed    *)
(* and unopened, and what one that failed left in reported: they constrain *)
(* no step and serve the properties.  The VLANs are abstracted to the team *)
(* whose subnet they carry, and the settings always give the switch an     *)
(* address.                                                                *)
(***************************************************************************)
EXTENDS Naturals

CONSTANTS
  Stations,    \* alliance stations, each with a VLAN and a switch port
  Teams,       \* team numbers
  NoTeam,      \* team number 0
  Switches,    \* identities of Switch objects, reused once nobody has them
  Bouncers,    \* identities of goroutines in CycleStationPorts
  MaxRequests  \* bound on the number of lineups asked for

ASSUME SwitchAssumption == NoTeam \notin Teams /\ MaxRequests \in Nat

VARIABLES
  enabled,   \* EventSettings.NetworkSecurityEnabled
  asked,     \* the lineup asked for last
  gen,       \* ethernetConfigGeneration
  jobs,      \* goroutines that wait for ethernetApplyMutex
  apply,     \* the goroutine that has it
  current,   \* arena.teamNetwork
  status, synced, applied,  \* of each Switch object
  bounce,    \* bounce[b]: a goroutine in CycleStationPorts
  vlan,      \* the team whose subnet each station's VLAN carries
  up,        \* whether each station's port is up
  missed,    \* whose VLAN the last session about it left as it was, unnoticed
  unopened,  \* whose port the last reopening left as it was, unnoticed
  reported   \* whose port a bounce that logged an error has left shut

requestVars == <<asked, gen, jobs>>
objectVars  == <<status, synced, applied>>
vlanVars == <<vlan, missed>>
portVars == <<up, unopened, reported>>
vars == <<enabled, requestVars, apply, current, objectVars, bounce, vlanVars, portVars>>

Lineups == [Stations -> Teams \cup {NoTeam}]
NoLineup == [i \in Stations |-> NoTeam]
Jobs == [gen : 1 .. MaxRequests, teams : Lineups]
Steps == {"waiting", "baseline", "remove", "add", "settle"}
NoApply == [step |-> "none"]
NoBounce == [step |-> "none"]

TypeOK ==
  /\ enabled \in BOOLEAN
  /\ asked \in Lineups /\ gen \in 0 .. MaxRequests
  /\ jobs \subseteq Jobs
  /\ apply = NoApply \/ apply \in [step : Steps, teams : Lineups, sw : Switches]
  /\ current \in Switches
  /\ status \in [Switches -> {"UNKNOWN", "CONFIGURING", "ACTIVE", "ERROR"}]
  /\ synced \in [Switches -> BOOLEAN]
  /\ applied \in [Switches -> Lineups]
  /\ bounce \in [Bouncers -> {NoBounce} \cup
       [step : {"waiting", "down"}, sw : Switches, stations : SUBSET Stations]]
  /\ vlan \in Lineups /\ up \in [Stations -> BOOLEAN]
  /\ missed \subseteq Stations /\ unopened \subseteq Stations /\ reported \subseteq Stations

(* The switch may have any team's subnets left from an earlier run, but     *)
(* never one twice.                                                         *)
Distinct(teams) == \A i, j \in Stations : teams[i] = teams[j] /\ teams[i] # NoTeam => i = j
Init ==
  /\ enabled \in BOOLEAN
  /\ asked = NoLineup /\ gen = 0 /\ jobs = {}
  /\ apply = NoApply
  /\ current \in Switches
  /\ status = [s \in Switches |-> "UNKNOWN"]
  /\ synced = [s \in Switches |-> FALSE]
  /\ applied = [s \in Switches |-> NoLineup]
  /\ bounce = [b \in Bouncers |-> NoBounce]
  /\ vlan \in {teams \in Lineups : Distinct(teams)}
  /\ up = [i \in Stations |-> TRUE]
  /\ missed = {} /\ unopened = {} /\ reported = {}

-----------------------------------------------------------------------------
(* Definitions with a suffix _... are mutations: bugs the runs must catch.  *)

(* configureTeamEthernet, on behalf of whoever changes the lineup: nothing  *)
(* without network security, and otherwise a goroutine of its own.          *)
Enqueue(g, teams) ==
  gen' = g /\ jobs' = jobs \cup {[gen |-> g, teams |-> teams]} /\ asked' = teams
Request(teams) ==
  IF enabled THEN Enqueue(gen + 1, teams) ELSE UNCHANGED <<asked, gen, jobs>>

(* setupNetwork: registration, loading a match, the field reset, preloading *)
(* the next match and Run ask for a lineup.  What is registered while       *)
(* network security is off is never asked for, so any lineup may be next;   *)
(* validateTeams keeps a team from being in it twice.                       *)
SetUpNetwork(teams) ==
  /\ gen < MaxRequests /\ Distinct(teams)
  /\ Request(teams)
  /\ UNCHANGED <<enabled, apply, current, objectVars, bounce, vlanVars, portVars>>

(* Clearing a match bounces the ports of the stations that have a team and  *)
(* asks for their lineup again.                                             *)
Occupied(teams) == {i \in Stations : teams[i] # NoTeam}
ClearMatch(b, teams) ==
  /\ gen < MaxRequests /\ Distinct(teams) /\ bounce[b] = NoBounce
  /\ bounce' =
       IF enabled /\ Occupied(teams) # {}
       THEN [bounce EXCEPT ![b] = [step |-> "waiting", sw |-> current, stations |-> Occupied(teams)]]
       ELSE bounce
  /\ Request(teams)
  /\ UNCHANGED <<enabled, apply, current, objectVars, vlanVars, portVars>>

(* A settings form is written into the live EventSettings before it is      *)
(* checked, so a rejected form leaves the switch on or off; a saved one, or *)
(* a restored database, ends in LoadSettings and a Switch object that knows *)
(* nothing of the switch.                                                   *)
WriteSettings(on) ==
  /\ enabled' = on
  /\ UNCHANGED <<requestVars, apply, current, objectVars, bounce, vlanVars, portVars>>
InUse(s) ==
  \/ s = current
  \/ apply # NoApply /\ apply.sw = s
  \/ \E b \in Bouncers : bounce[b] # NoBounce /\ bounce[b].sw = s
LoadSettings(s, on) ==
  /\ ~InUse(s)
  /\ enabled' = on
  /\ current' = s
  /\ status' = [status EXCEPT ![s] = "UNKNOWN"]
  /\ synced' = [synced EXCEPT ![s] = FALSE]
  /\ applied' = [applied EXCEPT ![s] = NoLineup]
  /\ UNCHANGED <<requestVars, apply, bounce, vlanVars, portVars>>

-----------------------------------------------------------------------------
(* A goroutine gets ethernetApplyMutex.  Superseded, it leaves; otherwise   *)
(* it calls ConfigureTeamEthernet of the Switch object there is now.        *)
TakeApply_Superseded(job) ==
  /\ apply = NoApply
  /\ jobs' = jobs \ {job}
  /\ apply' = [step |-> "waiting", teams |-> job.teams, sw |-> current]
  /\ UNCHANGED <<enabled, asked, gen, current, objectVars, bounce, vlanVars, portVars>>
TakeApply(job) ==
  /\ apply = NoApply
  /\ jobs' = jobs \ {job}
  /\ apply' = IF job.gen = gen
              THEN [step |-> "waiting", teams |-> job.teams, sw |-> current]
              ELSE NoApply
  /\ UNCHANGED <<enabled, asked, gen, current, objectVars, bounce, vlanVars, portVars>>

(* Switch.mutex: a Switch object configures or bounces, never both.         *)
Bouncing(s) == \E b \in Bouncers : bounce[b].step = "down" /\ bounce[b].sw = s
Configuring(s) == apply.step \in {"baseline", "remove", "add", "settle"} /\ apply.sw = s
Become(s, st) == status' = [status EXCEPT ![s] = st]

(* ConfigureTeamEthernet has nothing to do, or starts.                      *)
Begin ==
  LET s == apply.sw IN
  /\ apply.step = "waiting" /\ ~Bouncing(s)
  /\ IF synced[s] /\ applied[s] = apply.teams
     THEN Become(s, "ACTIVE") /\ apply' = NoApply
     ELSE /\ Become(s, "CONFIGURING")
          /\ apply' = [apply EXCEPT !.step = IF synced[s] THEN "remove" ELSE "baseline"]
  /\ UNCHANGED <<enabled, requestVars, current, synced, applied, bounce, vlanVars, portVars>>

Rebuild_All == Stations
Rebuild_Occupied ==
  {i \in Stations : /\ apply.teams[i] # NoTeam
                    /\ ~synced[apply.sw] \/ apply.teams[i] # applied[apply.sw][i]}
Rebuild == {i \in Stations : ~synced[apply.sw] \/ apply.teams[i] # applied[apply.sw][i]}

(* fail: the switch is left half configured. *)
Fail ==
  /\ Become(apply.sw, "ERROR")
  /\ synced' = [synced EXCEPT ![apply.sw] = FALSE]
  /\ apply' = NoApply
  /\ UNCHANGED applied
GoOn(step) == apply' = [apply EXCEPT !.step = step] /\ UNCHANGED objectVars

(* What a session did for the stations it reached, and whom one that        *)
(* reported success did not reach.                                          *)
Reach(done, teams) ==
  vlan' = [i \in Stations |-> IF i \in done THEN teams[i] ELSE vlan[i]]
Reported(about, done) == missed' = (missed \ done) \cup (about \ done)
Open(done) == up' = [i \in Stations |-> up[i] \/ i \in done]

(* applyBaseline opens every driver station port. *)
Baseline ==
  /\ apply.step = "baseline"
  /\ GoOn("remove") \/ Fail
  /\ \E done \in SUBSET Stations :
       Open(done) /\ unopened' = unopened \ done /\ reported' = reported \ done
  /\ UNCHANGED <<enabled, requestVars, current, bounce, vlanVars>>

RemoveVlans ==
  /\ apply.step = "remove"
  /\ \E done \in SUBSET Rebuild :
       /\ Reach(done, NoLineup)
       /\ (Reported(Rebuild, done) /\ GoOn("add")) \/ (missed' = missed \ done /\ Fail)
  /\ UNCHANGED <<enabled, requestVars, current, bounce, portVars>>

(* No command is sent if the stations to rebuild are to stay empty.         *)
Added == {i \in Rebuild : apply.teams[i] # NoTeam}
AddVlans ==
  /\ apply.step = "add"
  /\ \E done \in SUBSET Added :
       /\ Reach(done, apply.teams)
       /\ \/ Reported(Added, done) /\ GoOn("settle")
          \/ Added # {} /\ missed' = missed \ done /\ Fail
  /\ UNCHANGED <<enabled, requestVars, current, bounce, portVars>>

(* After the backoff the configuration is taken to be the switch's.         *)
Settle_Asked ==
  /\ apply.step = "settle"
  /\ applied' = [applied EXCEPT ![apply.sw] = asked]
  /\ synced' = [synced EXCEPT ![apply.sw] = TRUE]
  /\ Become(apply.sw, "ACTIVE")
  /\ apply' = NoApply
  /\ UNCHANGED <<enabled, requestVars, current, bounce, vlanVars, portVars>>
Settle ==
  /\ apply.step = "settle"
  /\ applied' = [applied EXCEPT ![apply.sw] = apply.teams]
  /\ synced' = [synced EXCEPT ![apply.sw] = TRUE]
  /\ Become(apply.sw, "ACTIVE")
  /\ apply' = NoApply
  /\ UNCHANGED <<enabled, requestVars, current, bounce, vlanVars, portVars>>

-----------------------------------------------------------------------------
(* CycleStationPorts: one shutdown and, after a pause, one reopening of the *)
(* same ports.  An error at either ends it.                                 *)
BounceEnds(b) == bounce' = [bounce EXCEPT ![b] = NoBounce]
ShutPorts(b) ==
  /\ bounce[b].step = "waiting" /\ ~Configuring(bounce[b].sw) /\ ~Bouncing(bounce[b].sw)
  /\ \E done \in SUBSET bounce[b].stations :
       /\ up' = [i \in Stations |-> up[i] /\ i \notin done]
       /\ \/ bounce' = [bounce EXCEPT ![b].step = "down"] /\ UNCHANGED reported
          \/ BounceEnds(b) /\ reported' = reported \cup done
  /\ UNCHANGED <<enabled, requestVars, apply, current, objectVars, vlanVars, unopened>>
ReopenPorts_Occupied(b) ==
  /\ bounce[b].step = "down"
  /\ Open(Occupied(asked))
  /\ BounceEnds(b)
  /\ UNCHANGED <<enabled, requestVars, apply, current, objectVars, vlanVars, unopened, reported>>
ReopenPorts(b) ==
  LET ports == bounce[b].stations IN
  /\ bounce[b].step = "down"
  /\ \E done \in SUBSET ports :
       /\ Open(done)
       /\ \/ unopened' = (unopened \ done) \cup (ports \ done) /\ reported' = reported \ done
          \/ unopened' = unopened \ done /\ reported' = (reported \ done) \cup (ports \ done)
  /\ BounceEnds(b)
  /\ UNCHANGED <<enabled, requestVars, apply, current, objectVars, vlanVars>>

-----------------------------------------------------------------------------
Operator ==
  \/ \E teams \in Lineups :
       SetUpNetwork(teams) \/ \E b \in Bouncers : ClearMatch(b, teams)
  \/ \E on \in BOOLEAN : WriteSettings(on) \/ \E s \in Switches : LoadSettings(s, on)
Applying ==
  \/ \E job \in jobs : TakeApply(job)
  \/ Begin \/ Baseline \/ RemoveVlans \/ AddVlans \/ Settle
BounceStep(b) == ShutPorts(b) \/ ReopenPorts(b)

Next == Operator \/ Applying \/ \E b \in Bouncers : BounceStep(b)
Spec == Init /\ [][Next]_vars

-----------------------------------------------------------------------------
Quiet == jobs = {} /\ apply = NoApply

(* The teams that a goroutine may still take to a station. *)
Pending(i) ==
  {job.teams[i] : job \in jobs} \cup (IF apply = NoApply THEN {} ELSE {apply.teams[i]})

(* The switch is a part of the network as Lineup describes them, settled    *)
(* when nothing is queued and its badge is green: a goroutine takes no team *)
(* to a station but its own lineup's, and none touches the VLANs of a       *)
(* switch that has settled (configureTeamEthernet, ConfigureTeamEthernet).  *)
Network == INSTANCE Lineup WITH
  pending <- [i \in Stations |-> Pending(i) \ {NoTeam}],
  carried <- vlan,
  unsure <- missed,
  settled <- Quiet /\ status[current] = "ACTIVE"
CarriesWhatIsAsked == Network!Spec

(* A green badge tells the truth about every station but those that a       *)
(* session with a green end left as they were: once nothing is queued the   *)
(* switch carries the lineup that was asked for last there, whatever was    *)
(* superseded, failed or saved on the way (configureTeamEthernet,           *)
(* Switch.ConfigureTeamEthernet).                                           *)
Carries(teams) == \A i \in Stations \ missed : vlan[i] = teams[i]
ActiveMeansLatest == Quiet /\ status[current] = "ACTIVE" => Carries(asked)

(* No team's subnet is on two VLANs, though teams trade places and sessions *)
(* fail half way: IOS would refuse the second.  Only a session that passed  *)
(* over a station in silence can leave its old subnet in the way.           *)
OneVlanPerTeam ==
  \A i, j \in Stations \ missed : vlan[i] = vlan[j] /\ vlan[i] # NoTeam => i = j

(* "Incremental rebuild keeps a registration change from disturbing the     *)
(* stations that did not change" as long as the switch's state is known:    *)
(* a subnet on its way to the same team stays up (rebuild).                 *)
OthersUndisturbed ==
  [][\A i \in Stations \ missed :
       vlan'[i] # vlan[i] /\ synced[apply.sw] => vlan[i] # apply.teams[i]]_vars

(* A port is down only while a bounce holds it down, or since an error that *)
(* was logged, or since a reopening or a baseline that reported success and *)
(* passed over it (CycleStationPorts, applyBaseline).                       *)
DownPortsAccounted ==
  \A i \in Stations : up[i] \/ i \in reported \/ i \in unopened
    \/ \E b \in Bouncers : bounce[b].step = "down" /\ i \in bounce[b].stations
=============================================================================
