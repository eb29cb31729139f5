----------------------- MODULE DriverStationsProofs ------------------------
(***************************************************************************)
(* Proofs about DriverStations, for any stations, teams and connections.   *)
(* Everything interleaves.  What is proved is about the stations where no  *)
(* arrival has crossed a lineup change since the last assignment: the gap  *)
(* between looking a team's station up and installing its connection is    *)
(* the only one in this code through which a team, a connection or a robot *)
(* link gets where it does not belong.                                     *)
(***************************************************************************)
EXTENDS DriverStations, TLAPS

(* The operator's lineup has no team twice, and is in effect.               *)
LineupInEffect == Distinct(lineup) /\ \A s \in Stations \ crossed : team[s] = lineup[s]

(* A connection in use is its team's. *)
OwnersAreTeams == \A c \in Conns : at[c] # "free" => owner[c] \in Teams

(* A station's connection was installed there, for the team it still has.   *)
SlotIsOwn ==
  \A s \in Stations : slot[s] # NoConn =>
    /\ station[slot[s]] = s /\ at[slot[s]] \notin {"free", "accepted"}
    /\ s \notin crossed => owner[slot[s]] = team[s]

(* What the listener is about to install has had no datagram. *)
AcceptIsFresh ==
  accepting # NoConn =>
    at[accepting] = "accepted" /\ linked[accepting] = NoTeam /\ datagram.conn # accepting

(* What the UDP listener found is still so, if it still serves a station. *)
DatagramIsOwn ==
  datagram # Idle =>
    \A s \in Stations \ crossed :
      slot[s] = datagram.conn => owner[slot[s]] = datagram.team

IInv ==
  /\ TypeOK
  /\ LineupInEffect /\ OwnersAreTeams /\ SlotIsOwn
  /\ AcceptIsFresh /\ DatagramIsOwn
  /\ LinkIsOwn /\ PanicNeedsCrossing

-----------------------------------------------------------------------------
LEMMA InitIInv == Init => IInv
<1> USE DriverStationsAssumption DEF Init, Idle
<1> SUFFICES ASSUME Init PROVE IInv
  OBVIOUS
<1>1. TypeOK
  BY DEF TypeOK, Lineups, Places
<1> QED
  BY <1>1 DEF IInv, LineupInEffect, Distinct, OwnersAreTeams, SlotIsOwn, AcceptIsFresh,
              DatagramIsOwn, LinkIsOwn, PanicNeedsCrossing

(* The listener looks a station up.                                         *)
LEMMA AcceptKeepsIInv ==
  ASSUME IInv, NEW t \in Teams, NEW c \in Conns, Accept(t, c)
  PROVE  IInv'
<1> USE DriverStationsAssumption DEF IInv, Accept
<1>1. TypeOK'
  BY DEF TypeOK, Places
<1>2. LineupInEffect' /\ PanicNeedsCrossing'
  BY DEF TypeOK, LineupInEffect, PanicNeedsCrossing, Distinct
<1>3. OwnersAreTeams'
  BY DEF TypeOK, OwnersAreTeams, SlotIsOwn
<1>4. SlotIsOwn'
  BY DEF TypeOK, SlotIsOwn, AcceptIsFresh, LineupInEffect
<1>5. AcceptIsFresh'
  BY DEF TypeOK, AcceptIsFresh, SlotIsOwn
<1>6. DatagramIsOwn'
  BY DEF TypeOK, DatagramIsOwn, SlotIsOwn, Idle
<1>7. LinkIsOwn'
  BY DEF TypeOK, LinkIsOwn, DatagramIsOwn, SlotIsOwn, Idle
<1> QED
  BY <1>1, <1>2, <1>3, <1>4, <1>5, <1>6, <1>7

(* It gives the connection up.                                              *)
LEMMA AcceptFailsKeepsIInv ==
  ASSUME IInv, AcceptFails
  PROVE  IInv'
<1> USE DriverStationsAssumption DEF IInv, AcceptFails, linkVars
<1>0. \A c \in Conns : at'[c] = at[c] \/ at'[c] = "free"
  BY DEF TypeOK
<1>1. TypeOK'
  BY DEF TypeOK, Places
<1>2. LineupInEffect' /\ PanicNeedsCrossing'
  BY DEF TypeOK, LineupInEffect, PanicNeedsCrossing, Distinct
<1>3. OwnersAreTeams'
  BY <1>0 DEF OwnersAreTeams
<1>4. SlotIsOwn'
  BY DEF TypeOK, SlotIsOwn, AcceptIsFresh, LineupInEffect
<1>5. AcceptIsFresh'
  BY DEF TypeOK, AcceptIsFresh, SlotIsOwn
<1>6. DatagramIsOwn'
  BY DEF TypeOK, DatagramIsOwn, SlotIsOwn, Idle
<1>7. LinkIsOwn'
  BY <1>0 DEF LinkIsOwn
<1> QED
  BY <1>1, <1>2, <1>3, <1>4, <1>5, <1>6, <1>7

(* It installs the connection.                                              *)
LEMMA InstallKeepsIInv ==
  ASSUME IInv, Install
  PROVE  IInv'
<1> USE DriverStationsAssumption DEF IInv, Install, linkVars
<1>1. TypeOK'
  BY DEF TypeOK, Places
<1>2. LineupInEffect' /\ PanicNeedsCrossing'
  BY DEF TypeOK, LineupInEffect, PanicNeedsCrossing, Distinct
<1>3. OwnersAreTeams'
  BY DEF TypeOK, OwnersAreTeams, AcceptIsFresh
<1>4. SlotIsOwn'
  BY DEF TypeOK, SlotIsOwn, AcceptIsFresh, LineupInEffect
<1>5. AcceptIsFresh'
  BY DEF TypeOK, AcceptIsFresh, SlotIsOwn
<1>6. DatagramIsOwn'
  BY DEF TypeOK, DatagramIsOwn, AcceptIsFresh, SlotIsOwn, Idle
<1>7. LinkIsOwn'
  BY DEF TypeOK, LinkIsOwn, AcceptIsFresh
<1> QED
  BY <1>1, <1>2, <1>3, <1>4, <1>5, <1>6, <1>7

(* A connection's goroutine ends.                                           *)
LEMMA ReadFailsKeepsIInv ==
  ASSUME IInv, NEW c \in Conns, ReadFails(c)
  PROVE  IInv'
<1> USE DriverStationsAssumption DEF IInv, ReadFails, linkVars
<1>1. TypeOK'
  BY DEF TypeOK, Places
<1>2. LineupInEffect' /\ PanicNeedsCrossing'
  BY DEF TypeOK, LineupInEffect, PanicNeedsCrossing, Distinct
<1>3. OwnersAreTeams'
  BY DEF TypeOK, OwnersAreTeams, SlotIsOwn
<1>4. SlotIsOwn'
  BY DEF TypeOK, SlotIsOwn, AcceptIsFresh, LineupInEffect
<1>5. AcceptIsFresh'
  BY DEF TypeOK, AcceptIsFresh, SlotIsOwn
<1>6. DatagramIsOwn'
  BY DEF TypeOK, DatagramIsOwn, SlotIsOwn, Idle
<1>7. LinkIsOwn'
  BY DEF TypeOK, LinkIsOwn, DatagramIsOwn, SlotIsOwn, Idle
<1> QED
  BY <1>1, <1>2, <1>3, <1>4, <1>5, <1>6, <1>7

(* It looks whether its station still holds it.                             *)
LEMMA CompareKeepsIInv ==
  ASSUME IInv, NEW c \in Conns, Compare(c)
  PROVE  IInv'
<1> USE DriverStationsAssumption DEF IInv, Compare, linkVars
<1>1. TypeOK'
  BY DEF TypeOK, Places
<1>2. LineupInEffect' /\ PanicNeedsCrossing'
  BY DEF TypeOK, LineupInEffect, PanicNeedsCrossing, Distinct
<1>3. OwnersAreTeams'
  BY DEF TypeOK, OwnersAreTeams, SlotIsOwn
<1>4. SlotIsOwn'
  BY DEF TypeOK, SlotIsOwn, AcceptIsFresh, LineupInEffect
<1>5. AcceptIsFresh'
  BY DEF TypeOK, AcceptIsFresh, SlotIsOwn
<1>6. DatagramIsOwn'
  BY DEF TypeOK, DatagramIsOwn, SlotIsOwn, Idle
<1>7. LinkIsOwn'
  BY DEF TypeOK, LinkIsOwn, DatagramIsOwn, SlotIsOwn, Idle
<1> QED
  BY <1>1, <1>2, <1>3, <1>4, <1>5, <1>6, <1>7

(* It empties its station, whoever is there by now.                         *)
LEMMA RemoveKeepsIInv ==
  ASSUME IInv, NEW c \in Conns, Remove(c)
  PROVE  IInv'
<1> USE DriverStationsAssumption DEF IInv, Remove, linkVars
<1>1. TypeOK'
  BY DEF TypeOK, Places
<1>2. LineupInEffect' /\ PanicNeedsCrossing'
  BY DEF TypeOK, LineupInEffect, PanicNeedsCrossing, Distinct
<1>3. OwnersAreTeams'
  BY DEF TypeOK, OwnersAreTeams, SlotIsOwn
<1>4. SlotIsOwn'
  BY DEF TypeOK, SlotIsOwn, AcceptIsFresh, LineupInEffect
<1>5. AcceptIsFresh'
  BY DEF TypeOK, AcceptIsFresh, SlotIsOwn
<1>6. DatagramIsOwn'
  BY DEF TypeOK, DatagramIsOwn, SlotIsOwn, Idle
<1>7. LinkIsOwn'
  BY DEF TypeOK, LinkIsOwn, DatagramIsOwn, SlotIsOwn, Idle
<1> QED
  BY <1>1, <1>2, <1>3, <1>4, <1>5, <1>6, <1>7

(* The loop sends its packets.                                              *)
LEMMA SendDsPacketKeepsIInv ==
  ASSUME IInv, NEW failing \in FailingSets, NEW silent \in SUBSET Served, SendDsPacket(failing, silent)
  PROVE  IInv'
<1> USE DriverStationsAssumption DEF IInv, SendDsPacket, FailingSets, Served, connVars
<1>1. TypeOK'
  BY DEF TypeOK, Places
<1>2. LineupInEffect' /\ PanicNeedsCrossing'
  <2>1. ASSUME NEW s \in Stations, slot[s] \in failing, team[s] = NoTeam
        PROVE  s \in crossed /\ slot[s] # NoConn
    BY <2>1 DEF TypeOK, SlotIsOwn, OwnersAreTeams
  <2> QED
    BY <2>1 DEF LineupInEffect, PanicNeedsCrossing
<1>3. OwnersAreTeams'
  BY DEF TypeOK, OwnersAreTeams, SlotIsOwn
<1>4. SlotIsOwn'
  BY DEF TypeOK, SlotIsOwn, AcceptIsFresh, LineupInEffect
<1>5. AcceptIsFresh'
  BY DEF TypeOK, AcceptIsFresh, SlotIsOwn
<1>6. DatagramIsOwn'
  BY DEF TypeOK, DatagramIsOwn, SlotIsOwn, Idle
<1>7. LinkIsOwn'
  BY DEF TypeOK, LinkIsOwn, DatagramIsOwn, SlotIsOwn, Idle
<1> QED
  BY <1>1, <1>2, <1>3, <1>4, <1>5, <1>6, <1>7

(* The UDP listener looks a team up.                                        *)
LEMMA ReceiveDatagramKeepsIInv ==
  ASSUME IInv, NEW t \in Teams, ReceiveDatagram(t)
  PROVE  IInv'
<1> USE DriverStationsAssumption DEF IInv, ReceiveDatagram, connVars
<1>1. TypeOK'
  BY DEF TypeOK, Places
<1>2. LineupInEffect' /\ PanicNeedsCrossing'
  BY DEF TypeOK, LineupInEffect, PanicNeedsCrossing, Distinct
<1>3. OwnersAreTeams'
  BY DEF TypeOK, OwnersAreTeams, SlotIsOwn
<1>4. SlotIsOwn'
  BY DEF TypeOK, SlotIsOwn, AcceptIsFresh, LineupInEffect
<1>5. AcceptIsFresh'
  BY DEF TypeOK, AcceptIsFresh, SlotIsOwn
<1>6. DatagramIsOwn'
  BY DEF TypeOK, DatagramIsOwn, SlotIsOwn, Idle
<1>7. LinkIsOwn'
  BY DEF TypeOK, LinkIsOwn, DatagramIsOwn, SlotIsOwn, Idle
<1> QED
  BY <1>1, <1>2, <1>3, <1>4, <1>5, <1>6, <1>7

(* It updates the connection it found.                                      *)
LEMMA StoreDatagramKeepsIInv ==
  ASSUME IInv, NEW robotLinked \in BOOLEAN, StoreDatagram(robotLinked)
  PROVE  IInv'
<1> USE DriverStationsAssumption DEF IInv, StoreDatagram, connVars
<1>1. TypeOK'
  BY DEF TypeOK, Places
<1>2. LineupInEffect' /\ PanicNeedsCrossing'
  BY DEF TypeOK, LineupInEffect, PanicNeedsCrossing, Distinct
<1>3. OwnersAreTeams'
  BY DEF TypeOK, OwnersAreTeams, SlotIsOwn
<1>4. SlotIsOwn'
  BY DEF TypeOK, SlotIsOwn, AcceptIsFresh, LineupInEffect
<1>5. AcceptIsFresh'
  BY DEF TypeOK, AcceptIsFresh, SlotIsOwn, Idle
<1>6. DatagramIsOwn'
  BY DEF TypeOK, DatagramIsOwn, SlotIsOwn, Idle
<1>7. LinkIsOwn'
  BY DEF TypeOK, LinkIsOwn, DatagramIsOwn, SlotIsOwn, Idle
<1> QED
  BY <1>1, <1>2, <1>3, <1>4, <1>5, <1>6, <1>7

(* A lineup is assigned; a station that is skipped for its connection was   *)
(* crossed, and stays so, or has the team asked for already.                *)
LEMMA AssignKeepsIInv ==
  ASSUME IInv, NEW new \in Lineups, Distinct(new), Assign(new), lineup' = new, ~crashed
  PROVE  IInv'
<1> USE DriverStationsAssumption DEF IInv, Assign, linkVars
<1>1. \A s \in Stations \ crossed' : team'[s] = new[s]
  BY DEF Assigned, SlotIsOwn
<1>2. \A s \in Stations : slot'[s] # NoConn => slot'[s] = slot[s] /\ Assigned(new, s)
  OBVIOUS
<1>3. \A s \in Stations \ crossed' : slot'[s] # NoConn => s \notin crossed
  BY <1>2
<1>4. TypeOK'
  BY DEF TypeOK, Lineups
<1>5. LineupInEffect' /\ PanicNeedsCrossing'
  BY <1>1 DEF LineupInEffect, PanicNeedsCrossing, Distinct
<1>6. SlotIsOwn'
  BY <1>1, <1>2, <1>3 DEF SlotIsOwn, Assigned
<1>7. DatagramIsOwn'
  <2>1. datagram # Idle => datagram.conn # NoConn
    BY DEF TypeOK, Idle
  <2> QED
    BY <1>2, <1>3, <2>1 DEF DatagramIsOwn
<1>8. LinkIsOwn'
  BY <1>2, <1>3 DEF LinkIsOwn
<1> QED
  BY <1>4, <1>5, <1>6, <1>7, <1>8 DEF OwnersAreTeams, AcceptIsFresh

LEMMA ResetFieldKeepsIInv ==
  ASSUME IInv, ResetField
  PROVE  IInv'
<1> USE DriverStationsAssumption DEF IInv, ResetField, linkVars
<1>1. TypeOK'
  BY DEF TypeOK, Lineups
<1>2. LineupInEffect' /\ PanicNeedsCrossing' /\ SlotIsOwn' /\ LinkIsOwn'
  BY DEF LineupInEffect, PanicNeedsCrossing, Distinct, SlotIsOwn, LinkIsOwn
<1>3. DatagramIsOwn'
  BY DEF TypeOK, Idle, DatagramIsOwn
<1> QED
  BY <1>1, <1>2, <1>3 DEF OwnersAreTeams, AcceptIsFresh

LEMMA NextKeepsIInv ==
  ASSUME IInv, [Next]_vars
  PROVE  IInv'
<1>1. CASE Listener
  BY <1>1, AcceptKeepsIInv, AcceptFailsKeepsIInv, InstallKeepsIInv DEF Listener
<1>2. CASE Reader
  BY <1>2, ReadFailsKeepsIInv, CompareKeepsIInv, RemoveKeepsIInv DEF Reader
<1>3. CASE Operator
  <2>1. lineup \in Lineups /\ Distinct(lineup)
    BY DEF IInv, TypeOK, LineupInEffect
  <2> QED
    BY <1>3, <2>1, AssignKeepsIInv, ResetFieldKeepsIInv
       DEF Operator, SubstituteTeams, ClearMatch
<1>4. CASE Packets
  BY <1>4, SendDsPacketKeepsIInv DEF Packets
<1>5. CASE Udp
  BY <1>5, ReceiveDatagramKeepsIInv, StoreDatagramKeepsIInv DEF Udp
<1>6. CASE UNCHANGED vars
  BY <1>6 DEF vars, connVars, linkVars, IInv, TypeOK, LineupInEffect, Distinct, OwnersAreTeams,
              SlotIsOwn, AcceptIsFresh, DatagramIsOwn, LinkIsOwn, PanicNeedsCrossing
<1> QED
  BY <1>1, <1>2, <1>3, <1>4, <1>5, <1>6 DEF Next

-----------------------------------------------------------------------------
LEMMA Invariance == Spec => []IInv
<1>1. IInv /\ [Next]_vars => IInv'
  BY NextKeepsIInv
<1> QED
  BY <1>1, InitIInv, PTL DEF Spec

(* Registering keeps a team in one station, but for the stations where an   *)
(* arrival has crossed it (validateTeams, assignTeam).                      *)
THEOREM StationSafety == Spec => []OneStationPerTeam
<1>1. IInv => OneStationPerTeam
  BY DEF IInv, LineupInEffect, Distinct, OneStationPerTeam
<1> QED
  BY <1>1, Invariance, PTL

(* Only an arrival that crosses a lineup change puts another team's driver  *)
(* station, or a team the operator did not ask for, in a station.           *)
THEOREM ServedByOwn == Spec => []OwnDriverStation
<1>1. IInv => OwnDriverStation
  BY DEF IInv, LineupInEffect, SlotIsOwn, OwnDriverStation
<1> QED
  BY <1>1, Invariance, PTL

(* A datagram that is looked up and stored late links no other team's robot,*)
(* whoever reconnects and whatever is assigned in between.                  *)
THEOREM LinkSafety == Spec => []LinkIsOwn
<1>1. IInv => LinkIsOwn
  BY DEF IInv
<1> QED
  BY <1>1, Invariance, PTL

(* The log line of a failed send misses its team only in a station that was *)
(* emptied while a driver station of its team was arriving, which the run   *)
(* ds_panic shows.                                                          *)
THEOREM PanicNeedsArrival == Spec => []PanicNeedsCrossing
<1>1. IInv => PanicNeedsCrossing
  BY DEF IInv
<1> QED
  BY <1>1, Invariance, PTL
=============================================================================
