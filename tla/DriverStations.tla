--------------------------- MODULE DriverStations ---------------------------
(***************************************************************************)
(* Who is connected to which alliance station: registration of teams       *)
(* (assignTeam under arena.mu) against the driver station goroutines of    *)
(* field/driver_station_connection.go, which take no lock.  The TCP        *)
(* listener looks a team's station up, writes to the network and only then *)
(* installs the connection; a connection's own goroutine closes it and     *)
(* removes it from its station in two steps; the UDP listener finds the    *)
(* connection a status datagram is for and then updates it.                *)
(***************************************************************************)
EXTENDS Naturals, FiniteSets

CONSTANTS
  Stations, Teams, NoTeam,
  Conns,         \* connection identities, reused once their goroutine is gone
  NoConn

ASSUME DriverStationsAssumption == NoTeam \notin Teams /\ NoConn \notin Conns

VARIABLES
  lineup,     \* CurrentMatch.Red1 .. Blue3
  team,       \* AllianceStation.Team
  slot,       \* AllianceStation.DsConn
  owner,      \* dsConn.TeamId
  station,    \* dsConn.AllianceStation
  at,         \* where the goroutine of a connection is, see Places
  open,       \* connections whose sockets are not closed
  accepting,  \* the connection listenForDriverStations is about to install
  linked,     \* RobotLinked: the team whose datagram set it, or NoTeam
  datagram,   \* [conn, team] the UDP listener has looked up and not stored yet
  crashed,    \* the process has panicked
  crossed     \* history: the stations where the listener installed a connection that
              \* was not of the station's team any more, not assigned anew since

connVars == <<owner, station, at, open>>
linkVars == <<linked, datagram>>
vars == <<lineup, team, slot, connVars, accepting, linkVars, crashed, crossed>>

(* free: unused.  accepted: by the listener.  reading: in readTaggedTcp-    *)
(* Packet.  comparing, removing: the read failed and the sockets are closed,*)
(* but its station may still hold it.                                       *)
Places == {"free", "accepted", "reading", "comparing", "removing"}
Lineups == [Stations -> Teams \cup {NoTeam}]
Idle == [conn |-> NoConn, team |-> NoTeam]

TypeOK ==
  /\ lineup \in Lineups /\ team \in Lineups
  /\ slot \in [Stations -> Conns \cup {NoConn}]
  /\ owner \in [Conns -> Teams \cup {NoTeam}]
  /\ station \in [Conns -> Stations]
  /\ at \in [Conns -> Places]
  /\ open \subseteq Conns
  /\ accepting \in Conns \cup {NoConn}
  /\ linked \in [Conns -> Teams \cup {NoTeam}]
  /\ datagram \in [conn : Conns, team : Teams] \cup {Idle}
  /\ crashed \in BOOLEAN /\ crossed \subseteq Stations

Init ==
  /\ lineup = [s \in Stations |-> NoTeam] /\ team = lineup
  /\ slot = [s \in Stations |-> NoConn]
  /\ owner = [c \in Conns |-> NoTeam]
  /\ station \in [Conns -> Stations] /\ \A c, d \in Conns : station[c] = station[d]
  /\ at = [c \in Conns |-> "free"] /\ open = {}
  /\ accepting = NoConn
  /\ linked = [c \in Conns |-> NoTeam] /\ datagram = Idle
  /\ crashed = FALSE /\ crossed = {}

-----------------------------------------------------------------------------
(* Definitions with a suffix _... are mutations: bugs the runs must catch.  *)

(* The TCP listener accepts a driver station of team t, and looks up where  *)
(* it is registered.  An unregistered team is turned away: no state changes.*)
Accept(t, c) ==
  /\ ~crashed /\ accepting = NoConn /\ at[c] = "free" /\ datagram.conn # c
  /\ \E s \in Stations :
       /\ team[s] = t
       /\ station' = [station EXCEPT ![c] = s]
  /\ owner' = [owner EXCEPT ![c] = t]
  /\ at' = [at EXCEPT ![c] = "accepted"]
  /\ open' = open \cup {c}
  /\ linked' = [linked EXCEPT ![c] = NoTeam]
  /\ accepting' = c
  /\ UNCHANGED <<lineup, team, slot, datagram, crashed, crossed>>

(* The assignment packet cannot be written, or the UDP socket not opened.   *)
AcceptFails ==
  /\ ~crashed /\ accepting # NoConn
  /\ at' = [at EXCEPT ![accepting] = "free"] /\ open' = open \ {accepting}
  /\ accepting' = NoConn
  /\ UNCHANGED <<lineup, team, slot, owner, station, linkVars, crashed, crossed>>

(* It replaces whatever connection the station has, without closing it, and *)
(* whatever team the operator has put there since the listener looked.      *)
Install ==
  /\ ~crashed /\ accepting # NoConn
  /\ slot' = [slot EXCEPT ![station[accepting]] = accepting]
  /\ at' = [at EXCEPT ![accepting] = "reading"]
  /\ crossed' = IF team[station[accepting]] = owner[accepting] THEN crossed
                ELSE crossed \cup {station[accepting]}
  /\ accepting' = NoConn
  /\ UNCHANGED <<lineup, team, owner, station, open, linkVars, crashed>>

(* handleTcpConnection: the read fails because the driver station is gone   *)
(* or silent for driverStationTcpLinkTimeoutSec, or the arena closed it.    *)
ReadFails(c) ==
  /\ ~crashed /\ at[c] = "reading"
  /\ open' = open \ {c}
  /\ at' = [at EXCEPT ![c] = "comparing"]
  /\ UNCHANGED <<lineup, team, slot, owner, station, accepting, linkVars, crashed, crossed>>

Compare_Gone(c) ==
  /\ ~crashed /\ at[c] = "comparing"
  /\ at' = [at EXCEPT ![c] = "free"]
  /\ UNCHANGED <<lineup, team, slot, owner, station, open, accepting, linkVars, crashed, crossed>>
Compare(c) ==
  /\ ~crashed /\ at[c] = "comparing"
  /\ at' = [at EXCEPT ![c] = IF slot[station[c]] = c THEN "removing" ELSE "free"]
  /\ UNCHANGED <<lineup, team, slot, owner, station, open, accepting, linkVars, crashed, crossed>>

Remove(c) ==
  /\ ~crashed /\ at[c] = "removing"
  /\ slot' = [slot EXCEPT ![station[c]] = NoConn]
  /\ at' = [at EXCEPT ![c] = "free"]
  /\ UNCHANGED <<lineup, team, owner, station, open, accepting, linkVars, crashed, crossed>>

-----------------------------------------------------------------------------
(* assignTeam for every station: a station whose connection is of the team  *)
(* asked for is left as it is; any other connection is closed.              *)
Assigned_AnyTeam(new, s) == slot[s] # NoConn
Assigned(new, s) == slot[s] # NoConn /\ owner[slot[s]] = new[s]
Assign_KeepsConn(new) ==
  /\ team' = [s \in Stations |-> IF Assigned(new, s) THEN team[s] ELSE new[s]]
  /\ open' = open \ {slot[s] : s \in {r \in Stations : ~Assigned(new, r)}}
  /\ crossed' = {s \in crossed : Assigned(new, s)}
  /\ UNCHANGED <<slot, owner, station, at, accepting, linkVars, crashed>>
Assign(new) ==
  /\ team' = [s \in Stations |-> IF Assigned(new, s) THEN team[s] ELSE new[s]]
  /\ open' = open \ {slot[s] : s \in {r \in Stations : ~Assigned(new, r)}}
  /\ slot' = [s \in Stations |-> IF Assigned(new, s) THEN slot[s] ELSE NoConn]
  /\ crossed' = {s \in crossed : Assigned(new, s)}
  /\ UNCHANGED <<owner, station, at, accepting, linkVars, crashed>>

(* validateTeams *)
Distinct(new) == \A s, r \in Stations : new[s] = new[r] /\ new[s] # NoTeam => s = r

SubstituteTeams_Unvalidated(new) == ~crashed /\ Assign(new) /\ lineup' = new
SubstituteTeams(new) == ~crashed /\ Distinct(new) /\ Assign(new) /\ lineup' = new

(* clearMatchLocked loads the lineup again. *)
ClearMatch == ~crashed /\ Assign(lineup) /\ UNCHANGED lineup

ResetField ==
  /\ ~crashed
  /\ open' = open \ {slot[s] : s \in Stations}
  /\ slot' = [s \in Stations |-> NoConn]
  /\ team' = [s \in Stations |-> NoTeam] /\ lineup' = team'
  /\ crossed' = {}
  /\ UNCHANGED <<owner, station, at, accepting, linkVars, crashed>>

(* sendDsPacket: a write fails on a closed connection, and may fail on any  *)
(* other; the log line for it reads Team.Id.  A connection that was written *)
(* to loses its link if it got no datagram for driverStationUdpLinkTimeoutSec,*)
(* which it may always find.                                                *)
Served == {slot[s] : s \in Stations} \ {NoConn}
SendDsPacket(failing, silent) ==
  /\ ~crashed
  /\ crashed' = \E s \in Stations : slot[s] \in failing /\ team[s] = NoTeam
  /\ linked' = [c \in Conns |-> IF c \in silent \ failing THEN NoTeam ELSE linked[c]]
  /\ UNCHANGED <<lineup, team, slot, connVars, accepting, datagram, crossed>>
FailingSets == {failing \in SUBSET Served : Served \ open \subseteq failing}

(* listenForDsUdpPackets: a status datagram of team t's driver station.     *)
ReceiveDatagram_AnyStation(t) ==
  /\ ~crashed /\ datagram = Idle
  /\ \E s \in Stations : slot[s] # NoConn /\ datagram' = [conn |-> slot[s], team |-> t]
  /\ UNCHANGED <<lineup, team, slot, connVars, accepting, linked, crashed, crossed>>
ReceiveDatagram(t) ==
  /\ ~crashed /\ datagram = Idle
  /\ \E s \in Stations : /\ team[s] = t /\ slot[s] # NoConn
                         /\ datagram' = [conn |-> slot[s], team |-> t]
  /\ UNCHANGED <<lineup, team, slot, connVars, accepting, linked, crashed, crossed>>

StoreDatagram(robotLinked) ==
  /\ ~crashed /\ datagram # Idle
  /\ linked' = [linked EXCEPT ![datagram.conn] = IF robotLinked THEN datagram.team ELSE NoTeam]
  /\ datagram' = Idle
  /\ UNCHANGED <<lineup, team, slot, connVars, accepting, crashed, crossed>>

-----------------------------------------------------------------------------
Listener == (\E t \in Teams, c \in Conns : Accept(t, c)) \/ AcceptFails \/ Install
Reader == \E c \in Conns : ReadFails(c) \/ Compare(c) \/ Remove(c)
Operator == (\E new \in Lineups : SubstituteTeams(new)) \/ ClearMatch \/ ResetField
Packets == \E failing \in FailingSets, silent \in SUBSET Served : SendDsPacket(failing, silent)
Udp ==
  \/ \E t \in Teams : ReceiveDatagram(t)
  \/ \E robotLinked \in BOOLEAN : StoreDatagram(robotLinked)

Next == Listener \/ Reader \/ Operator \/ Packets \/ Udp
Spec == Init /\ [][Next]_vars

(* A read on a closed socket fails at once, and goroutines run on.          *)
Fairness ==
  \A c \in Conns :
    /\ WF_vars(ReadFails(c) /\ c \notin open)
    /\ WF_vars(Compare(c)) /\ WF_vars(Remove(c))
FairSpec == Spec /\ Fairness
-----------------------------------------------------------------------------
(* "sendDsPacket reading Team.Id while assignTeam sets Team to nil panics   *)
(* the process outright" (the comment on Arena.mu, which is to prevent it): *)
(* no packet is sent over a broken connection of a station without a team.  *)
NoPanic == ~crashed

(* What is left of it: the process panics only over a station that was       *)
(* emptied while a driver station of its team was arriving (sendDsPacket,   *)
(* listenForDriverStations).                                                *)
PanicNeedsCrossing == crashed => \E s \in crossed : team[s] = NoTeam /\ slot[s] # NoConn

(* "Two driver stations would contend for a single station's connection"    *)
(* (validateTeams): no team is registered in two stations, until an arrival *)
(* crosses a lineup change; assignTeam then goes by the connection, and may *)
(* leave a station with the team it had.                                    *)
OneStationPerTeam ==
  \A s, r \in Stations \ crossed : team[s] = team[r] /\ team[s] # NoTeam => s = r

(* A station is served by its own team's driver station, and is registered  *)
(* for the team the operator put there, unless an arrival crossed a lineup  *)
(* change there (assignTeam, listenForDriverStations).                      *)
OwnDriverStation ==
  \A s \in Stations \ crossed :
    team[s] = lineup[s] /\ (slot[s] # NoConn => owner[slot[s]] = team[s])

(* A robot counts as linked only by a datagram of its own team's driver     *)
(* station, whatever reconnections and lineup changes came between the look *)
(* and the store, unless an arrival crossed a lineup change at its station  *)
(* (listenForDsUdpPackets).                                                 *)
LinkIsOwn ==
  \A s \in Stations \ crossed :
    slot[s] # NoConn => linked[slot[s]] \in {NoTeam, owner[slot[s]]}

(* A connection whose sockets are closed leaves its station, whatever the   *)
(* lineup and other arrivals do meanwhile, while the process lives          *)
(* (handleTcpConnection, assignTeam).                                       *)
DeadConnectionLeaves ==
  \A c \in Conns : (\E s \in Stations : slot[s] = c /\ c \notin open)
                  ~> crashed \/ \A s \in Stations : slot[s] = c => c \in open
=============================================================================
