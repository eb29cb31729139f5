------------------------------- MODULE Lineup -------------------------------
(***************************************************************************)
(* What a part of the field network promises about the lineups it is asked *)
(* to carry, whatever fails on the way (arena.setupNetwork and the devices *)
(* behind it): it takes no team to a station but one it was asked to take  *)
(* there and has not forgotten since, it may take stations off, and when   *)
(* it says that it has settled it carries the lineup asked for last, but   *)
(* for stations that it wrongly takes to be done, and stays as it is until *)
(* something is asked of it again or its state is no longer known.         *)
(***************************************************************************)
EXTENDS Naturals

CONSTANTS Stations, Teams, NoTeam

VARIABLES
  asked,    \* the lineup asked for last
  pending,  \* the teams that some request may still take to each station
  carried,  \* the team that each station's network is for
  settled,  \* the part says that it is done
  unsure    \* stations that it takes to be done and may not be

vars == <<asked, pending, carried, settled, unsure>>

Lineups == [Stations -> Teams \cup {NoTeam}]

Init ==
  /\ asked = [i \in Stations |-> NoTeam]
  /\ carried \in Lineups
  /\ pending \in [Stations -> SUBSET Teams]
  /\ \A i \in Stations : pending[i] \subseteq {carried[i]}
  /\ settled = FALSE /\ unsure = {}

Ask(teams) ==
  /\ asked' = teams
  /\ pending' = [i \in Stations |-> pending[i] \cup ({teams[i]} \ {NoTeam})]
  /\ settled' = FALSE
  /\ UNCHANGED <<carried, unsure>>

(* Requests are superseded, fail or are done with. *)
Forget ==
  /\ pending' \in [Stations -> SUBSET Teams]
  /\ \A i \in Stations : pending'[i] \subseteq pending[i]
  /\ UNCHANGED asked

Put ==
  /\ ~settled /\ ~settled'
  /\ carried' \in Lineups
  /\ \A i \in Stations : carried'[i] \in {carried[i], NoTeam} \cup pending[i]
  /\ unsure' \subseteq {i \in Stations : carried'[i] = carried[i]}
  /\ Forget

Settle ==
  /\ settled' /\ \A i \in Stations \ unsure : carried[i] = asked[i]
  /\ Forget /\ UNCHANGED <<carried, unsure>>

(* What is known of the part's state is lost, or it starts over. *)
Disturb ==
  /\ ~settled'
  /\ Forget /\ UNCHANGED <<carried, unsure>>

Next == (\E teams \in Lineups : Ask(teams)) \/ Put \/ Settle \/ Disturb
Spec == Init /\ [][Next]_vars

(* A part that has settled carries the lineup asked for last. *)
SettledCarriesAsked == settled => \A i \in Stations \ unsure : carried[i] = asked[i]
=============================================================================
