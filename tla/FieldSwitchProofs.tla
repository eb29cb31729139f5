------------------------- MODULE FieldSwitchProofs -------------------------
(***************************************************************************)
(* Proofs about FieldSwitch, for any stations, teams, Switch objects and   *)
(* goroutines: its types, that no team is ever on two VLANs, that a green  *)
(* badge with nothing queued means the lineup asked for last, and that the *)
(* switch does what Lineup promises.                                       *)
(***************************************************************************)
EXTENDS FieldSwitch, TLAPS

(* A goroutine's lineup is the one asked for last if its generation is, and *)
(* no lineup has a team twice.                                              *)
JobsAreRequests ==
  \A job \in jobs : /\ job.gen <= gen
                    /\ job.gen = gen => job.teams = asked
                    /\ Distinct(job.teams)
ApplyIsDistinct == apply # NoApply => Distinct(apply.teams)

(* A Switch object that a settings save has put in the place of the one in  *)
(* use knows nothing and shows it.                                          *)
NewObjectIsBlank ==
  apply # NoApply /\ apply.sw # current => ~synced[current] /\ status[current] = "UNKNOWN"

(* What a Switch object in use remembers is what the switch carries where   *)
(* no session was missed.                                                   *)
MemoryIsTrue ==
  /\ apply = NoApply /\ synced[current] => Carries(applied[current])
  /\ apply.step \in {"waiting", "remove"} /\ synced[apply.sw] => Carries(applied[apply.sw])

(* The types of what a session changes. *)
SwitchTyped ==
  /\ vlan \in Lineups /\ up \in [Stations -> BOOLEAN]
  /\ missed \subseteq Stations /\ unopened \subseteq Stations /\ reported \subseteq Stations

(* How far a configuration has come. *)
StationsKept == \A i \in Stations \ (Rebuild \cup missed) : vlan[i] = apply.teams[i]
HalfWay ==
  /\ apply.step = "baseline" => ~synced[apply.sw]
  /\ apply.step \in {"remove", "add"} => StationsKept
  /\ apply.step = "add" => \A i \in Rebuild \ missed : vlan[i] = NoTeam
  /\ apply.step = "settle" => Carries(apply.teams)

(* The lineup asked for last is still to come, being applied or applied. *)
LatestWaits == \E job \in jobs : job.gen = gen
LatestIsComing ==
  /\ apply # NoApply => LatestWaits \/ apply.teams = asked
  /\ apply = NoApply /\ status[current] = "ACTIVE" => LatestWaits \/ Carries(asked)

IInv ==
  /\ TypeOK
  /\ JobsAreRequests /\ ApplyIsDistinct
  /\ NewObjectIsBlank /\ MemoryIsTrue /\ HalfWay
  /\ LatestIsComing
  /\ OneVlanPerTeam

-----------------------------------------------------------------------------
(* Initially no goroutine has been started and no Switch object knows       *)
(* anything (NewSwitch).                                                    *)
LEMMA InitIInv == Init => IInv
<1> SUFFICES ASSUME Init PROVE IInv
  OBVIOUS
<1> USE SwitchAssumption DEF Init
<1>1. TypeOK
  <2>1. NoLineup \in Lineups
    BY DEF NoLineup, Lineups
  <2>2. status \in [Switches -> {"UNKNOWN", "CONFIGURING", "ACTIVE", "ERROR"}]
    OBVIOUS
  <2>3. synced \in [Switches -> BOOLEAN] /\ up \in [Stations -> BOOLEAN]
    OBVIOUS
  <2>4. applied \in [Switches -> Lineups]
    BY <2>1
  <2>5. bounce \in [Bouncers -> {NoBounce} \cup
          [step : {"waiting", "down"}, sw : Switches, stations : SUBSET Stations]]
    OBVIOUS
  <2>6. enabled \in BOOLEAN /\ asked \in Lineups /\ gen \in 0 .. MaxRequests /\ vlan \in Lineups
    BY <2>1
  <2>7. jobs \subseteq Jobs /\ apply = NoApply /\ current \in Switches
    OBVIOUS
  <2>8. missed \subseteq Stations /\ unopened \subseteq Stations /\ reported \subseteq Stations
    OBVIOUS
  <2> QED
    BY <2>2, <2>3, <2>4, <2>5, <2>6, <2>7, <2>8, Zenon DEF TypeOK
<1>2. JobsAreRequests /\ ApplyIsDistinct /\ NewObjectIsBlank
  BY DEF JobsAreRequests, ApplyIsDistinct, NewObjectIsBlank
<1>3. MemoryIsTrue /\ HalfWay /\ LatestIsComing
  BY DEF MemoryIsTrue, Carries, HalfWay, LatestIsComing, NoApply
<1>4. OneVlanPerTeam
  BY DEF OneVlanPerTeam, Distinct
<1> QED
  BY <1>1, <1>2, <1>3, <1>4 DEF IInv

(* The goroutine that has ethernetApplyMutex, by the step it is at.         *)
LEMMA ApplyShape ==
  ASSUME TypeOK, apply.step # "none"
  PROVE  /\ apply \in [step : Steps, teams : Lineups, sw : Switches]
         /\ apply.step \in Steps /\ apply.teams \in Lineups /\ apply.sw \in Switches
         /\ apply # NoApply
BY DEF TypeOK, NoApply

(* What does not touch a lineup, a Switch object or a VLAN keeps all parts  *)
(* of the invariant but the types.                                          *)
LEMMA CoreUnchanged ==
  ASSUME IInv, UNCHANGED <<requestVars, apply, current, objectVars, vlanVars>>
  PROVE  /\ JobsAreRequests' /\ ApplyIsDistinct' /\ NewObjectIsBlank'
         /\ MemoryIsTrue' /\ HalfWay' /\ LatestIsComing' /\ OneVlanPerTeam'
<1> USE DEF IInv, requestVars, objectVars, vlanVars
<1>1. JobsAreRequests' /\ ApplyIsDistinct' /\ NewObjectIsBlank'
  BY DEF JobsAreRequests, ApplyIsDistinct, NewObjectIsBlank
<1>2. MemoryIsTrue' /\ HalfWay'
  BY DEF MemoryIsTrue, Carries, HalfWay, StationsKept, Rebuild
<1>3. LatestIsComing' /\ OneVlanPerTeam'
  BY DEF LatestIsComing, LatestWaits, Carries, OneVlanPerTeam
<1> QED
  BY <1>1, <1>2, <1>3

(* A lineup is asked for. *)
LEMMA RequestKeepsIInv ==
  ASSUME IInv, gen < MaxRequests, NEW teams \in Lineups, Distinct(teams), Request(teams),
         bounce' \in [Bouncers -> {NoBounce} \cup
           [step : {"waiting", "down"}, sw : Switches, stations : SUBSET Stations]],
         UNCHANGED <<enabled, apply, current, objectVars, vlanVars, portVars>>
  PROVE  IInv'
<1> USE DEF IInv, objectVars, vlanVars, portVars
<1>1. CASE ~enabled
  <2>1. UNCHANGED <<requestVars, apply, current, objectVars, vlanVars>>
    BY <1>1 DEF Request, requestVars
  <2>2. TypeOK'
    BY <2>1 DEF TypeOK, requestVars
  <2> QED
    BY <2>1, <2>2, CoreUnchanged
<1>2. CASE enabled
  <2> DEFINE job == [gen |-> gen + 1, teams |-> teams]
  <2>1. gen' = gen + 1 /\ jobs' = jobs \cup {job} /\ asked' = teams
    BY <1>2 DEF Request, Enqueue
  <2>2. gen \in 0 .. MaxRequests /\ MaxRequests \in Nat /\ gen' \in 1 .. MaxRequests
    BY <2>1, SwitchAssumption DEF TypeOK
  <2>3. job \in Jobs
    BY <2>1, <2>2 DEF Jobs
  <2>4. TypeOK'
    BY <2>1, <2>2, <2>3 DEF TypeOK
  <2>5. \A j \in jobs : j.gen \in Nat
    BY DEF TypeOK, Jobs
  <2>6. JobsAreRequests'
    BY <2>1, <2>2, <2>5 DEF JobsAreRequests, Distinct
  <2>7. LatestWaits'
    <3>1. job \in jobs' /\ job.gen = gen'
      BY <2>1
    <3> QED
      BY <3>1 DEF LatestWaits
  <2>8. ApplyIsDistinct' /\ NewObjectIsBlank' /\ LatestIsComing'
    BY <2>7 DEF ApplyIsDistinct, NewObjectIsBlank, LatestIsComing
  <2>9. MemoryIsTrue' /\ HalfWay' /\ OneVlanPerTeam'
    BY DEF MemoryIsTrue, Carries, HalfWay, StationsKept, Rebuild, OneVlanPerTeam
  <2> QED
    BY <2>4, <2>6, <2>8, <2>9
<1> QED
  BY <1>1, <1>2

LEMMA ClearMatchKeepsIInv ==
  ASSUME IInv, NEW b \in Bouncers, NEW teams \in Lineups, ClearMatch(b, teams)
  PROVE  IInv'
<1>1. bounce' \in [Bouncers -> {NoBounce} \cup
        [step : {"waiting", "down"}, sw : Switches, stations : SUBSET Stations]]
  BY DEF ClearMatch, Occupied, IInv, TypeOK
<1> QED
  BY <1>1, RequestKeepsIInv DEF ClearMatch

(* The operator's other actions. *)
LEMMA LoadSettingsKeepsIInv ==
  ASSUME IInv, NEW s \in Switches, NEW on \in BOOLEAN, LoadSettings(s, on)
  PROVE  IInv'
<1> USE DEF IInv, LoadSettings, requestVars, vlanVars, portVars
<1>1. s # current /\ (apply # NoApply => apply.sw # s)
  BY DEF InUse
<1>2. TypeOK'
  BY DEF TypeOK, Lineups, NoLineup
<1>3. status'[s] = "UNKNOWN" /\ synced'[s] = FALSE
  BY DEF TypeOK
<1>4. \A x \in Switches : x # s =>
        status'[x] = status[x] /\ synced'[x] = synced[x] /\ applied'[x] = applied[x]
  BY DEF TypeOK
<1>5. apply.step # "none" => apply.sw \in Switches /\ apply.sw # s
  BY <1>1, ApplyShape
<1>6. JobsAreRequests' /\ ApplyIsDistinct' /\ OneVlanPerTeam'
  BY DEF JobsAreRequests, ApplyIsDistinct, OneVlanPerTeam, Distinct
<1>7. NewObjectIsBlank'
  BY <1>3 DEF NewObjectIsBlank
<1>8. MemoryIsTrue'
  BY <1>3, <1>4, <1>5 DEF MemoryIsTrue, Carries
<1>9. apply.step # "none" => Rebuild' = Rebuild
  BY <1>4, <1>5 DEF Rebuild
<1>10. HalfWay'
  BY <1>4, <1>5, <1>9 DEF HalfWay, StationsKept, Carries
<1>11. LatestIsComing'
  BY <1>3 DEF LatestIsComing, LatestWaits
<1> QED
  BY <1>2, <1>6, <1>7, <1>8, <1>10, <1>11

LEMMA WriteSettingsKeepsIInv ==
  ASSUME IInv, NEW on \in BOOLEAN, WriteSettings(on)
  PROVE  IInv'
<1>1. TypeOK'
  BY DEF WriteSettings, IInv, TypeOK, requestVars, objectVars, vlanVars, portVars
<1> QED
  BY <1>1, CoreUnchanged DEF WriteSettings, IInv

LEMMA BounceKeepsIInv ==
  ASSUME IInv, NEW b \in Bouncers, BounceStep(b)
  PROVE  IInv'
<1>1. UNCHANGED <<requestVars, apply, current, objectVars, vlanVars>>
  BY DEF BounceStep, ShutPorts, ReopenPorts
<1>2. bounce[b] # NoBounce
  BY DEF BounceStep, ShutPorts, ReopenPorts, NoBounce
<1>3. SwitchTyped' /\ UNCHANGED enabled
  <2>1. bounce[b].stations \subseteq Stations
    BY <1>2 DEF IInv, TypeOK
  <2> QED
    BY <2>1 DEF BounceStep, ShutPorts, ReopenPorts, Open, vlanVars, SwitchTyped, IInv, TypeOK
<1>4. bounce' \in [Bouncers -> {NoBounce} \cup
        [step : {"waiting", "down"}, sw : Switches, stations : SUBSET Stations]]
  <2>1. bounce[b] \in [step : {"waiting", "down"}, sw : Switches, stations : SUBSET Stations]
    BY <1>2 DEF IInv, TypeOK
  <2>2. bounce' = [bounce EXCEPT ![b] = NoBounce] \/ bounce' = [bounce EXCEPT ![b].step = "down"]
    BY DEF BounceStep, ShutPorts, ReopenPorts, BounceEnds
  <2> QED
    BY <2>1, <2>2 DEF IInv, TypeOK
<1>5. TypeOK'
  BY <1>1, <1>3, <1>4 DEF IInv, TypeOK, requestVars, objectVars, SwitchTyped
<1> QED
  BY <1>1, <1>5, CoreUnchanged DEF IInv
-----------------------------------------------------------------------------
(* A goroutine gets ethernetApplyMutex: superseded, it was not the one for  *)
(* the lineup asked for last.                                               *)
LEMMA TakeApplyKeepsIInv ==
  ASSUME IInv, NEW job \in jobs, TakeApply(job)
  PROVE  IInv'
<1> USE DEF IInv, TakeApply, objectVars, vlanVars, portVars
<1>1. job \in Jobs /\ job.teams \in Lineups
  BY DEF TypeOK, Jobs
<1>2. job.gen = gen => job.teams = asked
  BY DEF JobsAreRequests
<1>3. JobsAreRequests'
  BY DEF JobsAreRequests, Distinct
<1>4. OneVlanPerTeam'
  BY DEF OneVlanPerTeam
<1>5. CASE job.gen = gen
  <2>1. apply' = [step |-> "waiting", teams |-> job.teams, sw |-> current]
    BY <1>5
  <2>2. apply' \in [step : Steps, teams : Lineups, sw : Switches]
    BY <1>1, <2>1 DEF TypeOK, Steps
  <2>3. TypeOK'
    BY <2>2 DEF TypeOK
  <2>4. ApplyIsDistinct'
    BY <2>1 DEF ApplyIsDistinct, JobsAreRequests, Distinct
  <2>5. apply' # NoApply
    BY <2>1 DEF NoApply
  <2>6. NewObjectIsBlank' /\ MemoryIsTrue' /\ HalfWay'
    BY <2>1, <2>5 DEF NewObjectIsBlank, MemoryIsTrue, Carries, HalfWay
  <2>7. LatestIsComing'
    BY <1>2, <1>5, <2>1, <2>5 DEF LatestIsComing
  <2> QED
    BY <1>3, <1>4, <2>3, <2>4, <2>6, <2>7
<1>6. CASE job.gen # gen
  <2>1. apply' = NoApply
    BY <1>6
  <2>2. TypeOK'
    BY <2>1 DEF TypeOK
  <2>3. ApplyIsDistinct' /\ NewObjectIsBlank'
    BY <2>1 DEF ApplyIsDistinct, NewObjectIsBlank
  <2>4. MemoryIsTrue' /\ HalfWay'
    BY <2>1 DEF MemoryIsTrue, Carries, HalfWay, NoApply
  <2>5. LatestWaits => LatestWaits'
    BY <1>6 DEF LatestWaits
  <2>6. LatestIsComing'
    BY <2>1, <2>5 DEF LatestIsComing, Carries
  <2> QED
    BY <1>3, <1>4, <2>2, <2>3, <2>4, <2>6
<1> QED
  BY <1>5, <1>6

(* Both of them fail: the badge goes red, and a settings save may have left *)
(* another Switch object, which is blank, in the place of the one at work.  *)
LEMMA FailKeepsIInv ==
  ASSUME IInv, apply.step # "none", Fail,
         SwitchTyped', OneVlanPerTeam',
         UNCHANGED <<enabled, requestVars, current, bounce>>
  PROVE  /\ IInv'
         /\ status'[current] # "ACTIVE"
<1> USE DEF IInv, requestVars, vlanVars, portVars
<1>1. apply.sw \in Switches /\ apply # NoApply
  BY ApplyShape
<1>2. /\ status' = [status EXCEPT ![apply.sw] = "ERROR"]
      /\ synced' = [synced EXCEPT ![apply.sw] = FALSE]
      /\ apply' = NoApply /\ applied' = applied
  BY DEF Fail, Become
<1>3. TypeOK'
  BY <1>1, <1>2 DEF TypeOK, SwitchTyped
<1>4. ~synced'[current] /\ status'[current] # "ACTIVE"
  <2>1. CASE apply.sw = current
    BY <1>1, <1>2, <2>1 DEF TypeOK
  <2>2. CASE apply.sw # current
    BY <1>1, <1>2, <2>2 DEF TypeOK, NewObjectIsBlank
  <2> QED
    BY <2>1, <2>2
<1>5. JobsAreRequests' /\ ApplyIsDistinct' /\ NewObjectIsBlank' /\ OneVlanPerTeam'
  BY <1>2 DEF JobsAreRequests, ApplyIsDistinct, NewObjectIsBlank, OneVlanPerTeam
<1>6. MemoryIsTrue' /\ HalfWay'
  BY <1>2, <1>4 DEF MemoryIsTrue, Carries, HalfWay, NoApply
<1>7. LatestIsComing'
  BY <1>2, <1>4 DEF LatestIsComing
<1> QED
  BY <1>3, <1>4, <1>5, <1>6, <1>7

LEMMA BeginKeepsIInv ==
  ASSUME IInv, Begin
  PROVE  IInv'
<1> USE DEF IInv, requestVars, vlanVars, portVars
<1> DEFINE s == apply.sw
<1>1. apply \in [step : Steps, teams : Lineups, sw : Switches] /\ s \in Switches /\ apply # NoApply
  BY ApplyShape DEF Begin
<1>2. apply.step = "waiting" /\ UNCHANGED <<asked, gen, jobs, current, synced, applied, vlan, missed>>
  BY DEF Begin, vlanVars
<1>3. JobsAreRequests' /\ OneVlanPerTeam'
  BY <1>2 DEF JobsAreRequests, OneVlanPerTeam
<1>4. LatestWaits' = LatestWaits
  BY <1>2 DEF LatestWaits
<1>5. CASE synced[s] /\ applied[s] = apply.teams
  <2>1. status' = [status EXCEPT ![s] = "ACTIVE"] /\ apply' = NoApply
    BY <1>5 DEF Begin, Become
  <2>2. TypeOK'
    BY <1>1, <2>1 DEF Begin, TypeOK
  <2>3. ApplyIsDistinct' /\ NewObjectIsBlank'
    BY <2>1 DEF ApplyIsDistinct, NewObjectIsBlank
  <2>4. Carries(apply.teams)
    BY <1>2, <1>5 DEF MemoryIsTrue, Carries
  <2>5. synced[current] => s = current
    BY <1>1 DEF NewObjectIsBlank
  <2>6. MemoryIsTrue' /\ HalfWay'
    BY <1>2, <1>5, <2>1, <2>4, <2>5 DEF MemoryIsTrue, Carries, HalfWay, NoApply
  <2>7. LatestIsComing'
    BY <1>1, <1>2, <1>4, <2>1, <2>4 DEF LatestIsComing, Carries
  <2> QED
    BY <1>3, <2>2, <2>3, <2>6, <2>7
<1>6. CASE ~(synced[s] /\ applied[s] = apply.teams)
  <2>1. /\ status' = [status EXCEPT ![s] = "CONFIGURING"]
        /\ apply' = [apply EXCEPT !.step = IF synced[s] THEN "remove" ELSE "baseline"]
    BY <1>6 DEF Begin, Become
  <2>2. apply' \in [step : Steps, teams : Lineups, sw : Switches] /\ apply' # NoApply
    BY <1>1, <2>1 DEF Steps, NoApply
  <2>3. /\ apply'.teams = apply.teams /\ apply'.sw = s
        /\ apply'.step = IF synced[s] THEN "remove" ELSE "baseline"
    BY <1>1, <2>1
  <2>4. TypeOK'
    BY <1>1, <2>1, <2>2 DEF Begin, TypeOK
  <2>5. ApplyIsDistinct' /\ LatestIsComing'
    BY <1>1, <1>2, <1>4, <2>2, <2>3 DEF ApplyIsDistinct, LatestIsComing, Distinct
  <2>6. NewObjectIsBlank'
    BY <1>1, <1>2, <2>1, <2>3 DEF NewObjectIsBlank, TypeOK
  <2>7. MemoryIsTrue'
    BY <1>2, <2>2, <2>3 DEF MemoryIsTrue, Carries
  <2>8. synced[s] => \A i \in Stations \ (Rebuild \cup missed) : vlan[i] = apply.teams[i]
    BY <1>2 DEF MemoryIsTrue, Carries, Rebuild
  <2>9. Rebuild' = Rebuild
    BY <1>2, <2>3 DEF Rebuild
  <2>10. HalfWay'
    BY <1>2, <2>3, <2>8, <2>9 DEF HalfWay, StationsKept
  <2> QED
    BY <1>3, <2>4, <2>5, <2>6, <2>7, <2>10
<1> QED
  BY <1>5, <1>6

(* A session succeeds, and the configuration goes on.                       *)
LEMMA GoOnKeepsIInv ==
  ASSUME IInv, apply.step \in {"baseline", "remove", "add"},
         NEW step \in {"remove", "add", "settle"}, GoOn(step),
         step = "remove" => apply.step = "baseline",
         SwitchTyped', OneVlanPerTeam', HalfWay',
         UNCHANGED <<enabled, requestVars, current, bounce>>
  PROVE  IInv'
<1> USE DEF IInv, requestVars, vlanVars, portVars
<1>1. apply \in [step : Steps, teams : Lineups, sw : Switches] /\ apply # NoApply
  BY ApplyShape
<1>2. /\ apply' = [apply EXCEPT !.step = step]
      /\ UNCHANGED <<status, synced, applied>>
  BY DEF GoOn, objectVars
<1>3. apply' \in [step : Steps, teams : Lineups, sw : Switches] /\ apply' # NoApply
  BY <1>1, <1>2 DEF Steps, NoApply
<1>4. apply'.teams = apply.teams /\ apply'.sw = apply.sw /\ apply'.step = step
  BY <1>1, <1>2
<1>5. TypeOK'
  BY <1>2, <1>3 DEF TypeOK, SwitchTyped
<1>6. JobsAreRequests' /\ ApplyIsDistinct' /\ OneVlanPerTeam'
  BY <1>1, <1>4 DEF JobsAreRequests, ApplyIsDistinct, OneVlanPerTeam
<1>7. NewObjectIsBlank' /\ MemoryIsTrue'
  BY <1>1, <1>2, <1>3, <1>4 DEF NewObjectIsBlank, MemoryIsTrue, Carries, HalfWay
<1>8. LatestIsComing'
  BY <1>1, <1>3, <1>4 DEF LatestIsComing, LatestWaits
<1> QED
  BY <1>5, <1>6, <1>7, <1>8

(* The sessions of a configuration. *)
LEMMA BaselineKeepsIInv ==
  ASSUME IInv, Baseline
  PROVE  IInv'
<1> USE DEF IInv
<1>1. apply.step = "baseline" /\ SwitchTyped' /\ OneVlanPerTeam'
  BY DEF Baseline, Open, TypeOK, SwitchTyped, OneVlanPerTeam, vlanVars
<1>2. UNCHANGED <<enabled, requestVars, current, bounce>>
  BY DEF Baseline
<1>3. CASE GoOn("remove")
  <2>1. apply \in [step : Steps, teams : Lineups, sw : Switches]
    BY <1>1, ApplyShape
  <2>2. apply'.step = "remove" /\ apply'.sw = apply.sw /\ UNCHANGED <<synced, applied>>
    BY <1>3, <2>1 DEF GoOn, objectVars
  <2>3. Rebuild' = Stations
    BY <1>1, <2>2 DEF HalfWay, Rebuild
  <2>4. HalfWay'
    BY <2>2, <2>3 DEF HalfWay, StationsKept
  <2> QED
    BY <1>1, <1>2, <1>3, <2>4, GoOnKeepsIInv
<1>4. CASE Fail
  BY <1>1, <1>2, <1>4, FailKeepsIInv
<1> QED
  BY <1>3, <1>4 DEF Baseline

LEMMA RemoveVlansKeepsIInv ==
  ASSUME IInv, RemoveVlans
  PROVE  IInv'
<1> USE DEF IInv
<1>1. apply \in [step : Steps, teams : Lineups, sw : Switches] /\ apply.step = "remove"
  BY ApplyShape DEF RemoveVlans
<1>2. PICK done \in SUBSET Rebuild :
        /\ vlan' = [i \in Stations |-> IF i \in done THEN NoTeam ELSE vlan[i]]
        /\ \/ missed' = (missed \ done) \cup (Rebuild \ done) /\ GoOn("add")
           \/ missed' = missed \ done /\ Fail
  BY DEF RemoveVlans, Reach, NoLineup, Reported, Rebuild
<1>3. SwitchTyped'
  BY <1>2 DEF RemoveVlans, TypeOK, SwitchTyped, Lineups, Rebuild, portVars
<1>4. \A i \in Stations \ missed' : vlan'[i] = NoTeam \/ (i \notin missed /\ vlan'[i] = vlan[i])
  BY <1>2
<1>5. OneVlanPerTeam' /\ UNCHANGED <<enabled, requestVars, current, bounce>>
  BY <1>4 DEF RemoveVlans, OneVlanPerTeam
<1>6. CASE missed' = (missed \ done) \cup (Rebuild \ done) /\ GoOn("add")
  <2>1. apply'.step = "add" /\ apply'.sw = apply.sw /\ apply'.teams = apply.teams
    BY <1>1, <1>6 DEF GoOn
  <2>2. Rebuild' = Rebuild
    BY <2>1, <1>6 DEF Rebuild, GoOn, objectVars
  <2>3. StationsKept'
    BY <1>1, <1>2, <1>6, <2>1, <2>2 DEF HalfWay, StationsKept
  <2>4. \A i \in Rebuild' \ missed' : vlan'[i] = NoTeam
    BY <1>2, <1>6, <2>2 DEF Rebuild
  <2>5. HalfWay'
    BY <2>1, <2>3, <2>4 DEF HalfWay
  <2> QED
    BY <1>1, <1>3, <1>5, <1>6, <2>5, GoOnKeepsIInv
<1>7. CASE Fail
  BY <1>1, <1>3, <1>5, <1>7, FailKeepsIInv
<1> QED
  BY <1>2, <1>6, <1>7

(* Stations still without a team and stations of the lineup being applied   *)
(* are all there are when VLANs are added.                                  *)
LEMMA AddVlansKeepsIInv ==
  ASSUME IInv, AddVlans
  PROVE  IInv'
<1> USE DEF IInv
<1>1. apply \in [step : Steps, teams : Lineups, sw : Switches] /\ apply.step = "add"
  BY ApplyShape DEF AddVlans
<1>2. PICK done \in SUBSET Added :
        /\ vlan' = [i \in Stations |-> IF i \in done THEN apply.teams[i] ELSE vlan[i]]
        /\ \/ missed' = (missed \ done) \cup (Added \ done) /\ GoOn("settle")
           \/ missed' = missed \ done /\ Fail
  BY DEF AddVlans, Reach, Reported, Added
<1>3. SwitchTyped'
  BY <1>1, <1>2 DEF AddVlans, TypeOK, SwitchTyped, Lineups, Added, Rebuild, portVars
<1>4. \A i \in Stations \ missed' : vlan'[i] \in {NoTeam, apply.teams[i]}
  BY <1>1, <1>2 DEF HalfWay, StationsKept
<1>5. Distinct(apply.teams)
  BY <1>1 DEF ApplyIsDistinct, NoApply
<1>6. OneVlanPerTeam' /\ UNCHANGED <<enabled, requestVars, current, bounce>>
  BY <1>4, <1>5 DEF AddVlans, OneVlanPerTeam, Distinct
<1>8. CASE missed' = (missed \ done) \cup (Added \ done) /\ GoOn("settle")
  <2>1. apply'.step = "settle" /\ apply'.sw = apply.sw /\ apply'.teams = apply.teams
    BY <1>1, <1>8 DEF GoOn
  <2>2. \A i \in Stations \ missed' : vlan'[i] = apply.teams[i]
    BY <1>1, <1>2, <1>8 DEF HalfWay, StationsKept, Added
  <2>3. HalfWay'
    BY <2>1, <2>2 DEF HalfWay, Carries
  <2> QED
    BY <1>1, <1>3, <1>6, <1>8, <2>3, GoOnKeepsIInv
<1>9. CASE Fail
  BY <1>1, <1>3, <1>6, <1>9, FailKeepsIInv
<1> QED
  BY <1>2, <1>8, <1>9

(* The Switch object remembers what the switch carries by now. *)
LEMMA SettleKeepsIInv ==
  ASSUME IInv, Settle
  PROVE  IInv'
<1> USE DEF IInv, requestVars, vlanVars, portVars
<1> DEFINE s == apply.sw
<1>1. apply.step = "settle" /\ apply.teams \in Lineups /\ s \in Switches /\ apply # NoApply
  BY ApplyShape DEF Settle
<1>2. /\ applied' = [applied EXCEPT ![s] = apply.teams]
      /\ synced' = [synced EXCEPT ![s] = TRUE]
      /\ status' = [status EXCEPT ![s] = "ACTIVE"]
      /\ apply' = NoApply
      /\ UNCHANGED <<enabled, asked, gen, jobs, current, bounce, vlanVars, portVars>>
  BY DEF Settle, Become
<1>3. Carries(apply.teams)
  BY <1>1 DEF HalfWay
<1>4. TypeOK'
  BY <1>1, <1>2 DEF TypeOK
<1>5. JobsAreRequests' /\ ApplyIsDistinct' /\ NewObjectIsBlank' /\ OneVlanPerTeam'
  BY <1>2 DEF JobsAreRequests, ApplyIsDistinct, NewObjectIsBlank, OneVlanPerTeam
<1>6. synced'[current] => Carries(applied'[current])
  <2>1. CASE s = current
    BY <1>1, <1>2, <1>3, <2>1 DEF TypeOK
  <2>2. CASE s # current
    BY <1>1, <1>2, <2>2 DEF TypeOK, NewObjectIsBlank
  <2> QED
    BY <2>1, <2>2
<1>7. MemoryIsTrue' /\ HalfWay'
  BY <1>2, <1>6 DEF MemoryIsTrue, Carries, HalfWay, NoApply
<1>8. LatestIsComing'
  BY <1>1, <1>2, <1>3 DEF LatestIsComing, Carries, LatestWaits
<1> QED
  BY <1>4, <1>5, <1>7, <1>8

-----------------------------------------------------------------------------
LEMMA NextKeepsIInv ==
  ASSUME IInv, [Next]_vars
  PROVE  IInv'
<1>1. CASE \E teams \in Lineups : SetUpNetwork(teams)
  BY <1>1, RequestKeepsIInv DEF SetUpNetwork, IInv, TypeOK
<1>2. CASE \E teams \in Lineups, b \in Bouncers : ClearMatch(b, teams)
  BY <1>2, ClearMatchKeepsIInv
<1>3. CASE \E on \in BOOLEAN : WriteSettings(on) \/ \E s \in Switches : LoadSettings(s, on)
  BY <1>3, WriteSettingsKeepsIInv, LoadSettingsKeepsIInv
<1>4. CASE \E job \in jobs : TakeApply(job)
  BY <1>4, TakeApplyKeepsIInv
<1>5. CASE Begin \/ Baseline \/ RemoveVlans \/ AddVlans \/ Settle
  BY <1>5, BeginKeepsIInv, BaselineKeepsIInv, RemoveVlansKeepsIInv, AddVlansKeepsIInv, SettleKeepsIInv
<1>6. CASE \E b \in Bouncers : BounceStep(b)
  BY <1>6, BounceKeepsIInv
<1>7. CASE UNCHANGED vars
  <2>1. UNCHANGED <<requestVars, apply, current, objectVars, vlanVars>>
    BY <1>7 DEF vars
  <2>2. TypeOK'
    BY <1>7 DEF vars, IInv, TypeOK, requestVars, objectVars, vlanVars, portVars
  <2> QED
    BY <2>1, <2>2, CoreUnchanged DEF IInv
<1> QED
  BY <1>1, <1>2, <1>3, <1>4, <1>5, <1>6, <1>7 DEF Next, Operator, Applying

(* The invariant holds in every run of the network. *)
THEOREM Invariance == Spec => []IInv
BY InitIInv, NextKeepsIInv, PTL DEF Spec

(* The types, for every station, team and Switch object.                    *)
THEOREM TypeInvariant == Spec => []TypeOK
<1>1. IInv => TypeOK
  BY DEF IInv
<1> QED
  BY <1>1, Invariance, PTL

(* No team's subnet is on two VLANs of stations that every session reached  *)
(* or failed to reach with an error, whatever sessions fail and however     *)
(* teams trade places (Switch.ConfigureTeamEthernet).                       *)
THEOREM VlanSafety == Spec => []OneVlanPerTeam
<1>1. IInv => OneVlanPerTeam
  BY DEF IInv
<1> QED
  BY <1>1, Invariance, PTL

(* With nothing queued a green badge means the lineup asked for last, but   *)
(* for the stations that a session reporting success has passed over in     *)
(* silence, whatever was superseded, failed or saved on the way.            *)
LEMMA QuietCarriesAsked == IInv => ActiveMeansLatest
BY DEF IInv, LatestIsComing, LatestWaits, ActiveMeansLatest, Quiet
THEOREM BadgeSafety == Spec => []ActiveMeansLatest
BY QuietCarriesAsked, Invariance, PTL

(* A station whose subnet stays with its team is left alone as long as the  *)
(* switch's state is known and no session has passed over it in silence     *)
(* (Switch.rebuild).                                                        *)
LEMMA StepLeavesOthersAlone ==
  ASSUME IInv, [Next]_vars, NEW i \in Stations \ missed, vlan'[i] # vlan[i], synced[apply.sw]
  PROVE  vlan[i] # apply.teams[i]
<1>1. RemoveVlans \/ AddVlans
  BY DEF vars, vlanVars, Next, Operator, Applying, SetUpNetwork, ClearMatch, WriteSettings,
         LoadSettings, TakeApply, Begin, Baseline, Settle, BounceStep, ShutPorts, ReopenPorts
<1>2. vlan \in Lineups
  BY DEF IInv, TypeOK
<1>3. CASE RemoveVlans
  <2>1. vlan[i] = applied[apply.sw][i]
    BY <1>3 DEF RemoveVlans, IInv, MemoryIsTrue, Carries
  <2>2. i \in Rebuild
    BY <1>3, <1>2 DEF RemoveVlans, Reach, Lineups
  <2> QED
    BY <2>1, <2>2 DEF Rebuild
<1>4. CASE AddVlans
  <2>1. i \in Rebuild /\ apply.teams[i] # NoTeam
    BY <1>4, <1>2 DEF AddVlans, Reach, Added, Lineups
  <2>2. vlan[i] = NoTeam
    BY <1>4, <2>1 DEF AddVlans, IInv, HalfWay
  <2> QED
    BY <2>1, <2>2
<1> QED
  BY <1>1, <1>3, <1>4

(* So no incremental session disturbs a station that did not change.        *)
THEOREM IncrementalRebuild == Spec => OthersUndisturbed
<1> DEFINE A == \A i \in Stations \ missed :
                  vlan'[i] # vlan[i] /\ synced[apply.sw] => vlan[i] # apply.teams[i]
<1>1. IInv /\ [Next]_vars => [A]_vars
  BY StepLeavesOthersAlone
<1> QED
  BY <1>1, Invariance, PTL DEF Spec, OthersUndisturbed

(* A port is down only while a bounce holds it down, or since an error that *)
(* was logged, or since a reopening passed over it in silence: a bounce     *)
(* reopens the ports it shut, and no other step shuts one                   *)
(* (Switch.CycleStationPorts).                                              *)
Held(i) == \E b \in Bouncers : bounce[b].step = "down" /\ i \in bounce[b].stations

LEMMA ShutPortsAccounted ==
  ASSUME TypeOK, DownPortsAccounted, NEW b \in Bouncers, ShutPorts(b)
  PROVE  DownPortsAccounted'
<1> DEFINE ports == bounce[b].stations
<1>1. PICK done \in SUBSET ports :
        /\ up' = [i \in Stations |-> up[i] /\ i \notin done]
        /\ \/ bounce' = [bounce EXCEPT ![b].step = "down"] /\ UNCHANGED reported
           \/ bounce' = [bounce EXCEPT ![b] = NoBounce] /\ reported' = reported \cup done
  BY DEF ShutPorts, BounceEnds
<1>2. bounce[b] # NoBounce /\ bounce[b].step = "waiting" /\ UNCHANGED unopened
  BY DEF ShutPorts, NoBounce
<1>3. \A i \in Stations : Held(i) => Held(i)'
  <2>1. \A c \in Bouncers : c # b => bounce'[c] = bounce[c]
    BY <1>1 DEF TypeOK
  <2> QED
    BY <1>2, <2>1 DEF Held
<1>4. \A i \in done : Held(i)' \/ i \in reported'
  <2>1. CASE bounce' = [bounce EXCEPT ![b].step = "down"]
    <3>1. bounce'[b].step = "down" /\ bounce'[b].stations = ports
      BY <1>2, <2>1 DEF TypeOK
    <3> QED
      BY <3>1 DEF Held
  <2>2. CASE reported' = reported \cup done
    BY <2>2
  <2> QED
    BY <1>1, <2>1, <2>2
<1>5. reported \subseteq reported'
  BY <1>1
<1>6. \A i \in Stations : up[i] \/ i \in reported \/ i \in unopened \/ Held(i)
  BY DEF DownPortsAccounted, Held
<1>7. \A i \in Stations : up'[i] \/ i \in reported' \/ i \in unopened' \/ Held(i)'
  <2> TAKE i \in Stations
  <2>1. up'[i] <=> up[i] /\ i \notin done
    BY <1>1
  <2> QED
    BY <2>1, <1>2, <1>3, <1>4, <1>5, <1>6, Zenon
<1> QED
  BY <1>7 DEF DownPortsAccounted, Held

LEMMA ReopenPortsAccounted ==
  ASSUME TypeOK, DownPortsAccounted, NEW b \in Bouncers, ReopenPorts(b)
  PROVE  DownPortsAccounted'
<1> DEFINE ports == bounce[b].stations
<1>1. PICK done \in SUBSET ports :
        /\ up' = [i \in Stations |-> up[i] \/ i \in done]
        /\ \/ unopened' = (unopened \ done) \cup (ports \ done) /\ reported' = reported \ done
           \/ unopened' = unopened \ done /\ reported' = (reported \ done) \cup (ports \ done)
  BY DEF ReopenPorts, Open
<1>2. \A c \in Bouncers : c # b => bounce'[c] = bounce[c]
  BY DEF ReopenPorts, BounceEnds, TypeOK
<1>3. ASSUME NEW i \in Stations
      PROVE  up'[i] \/ i \in reported' \/ i \in unopened'
               \/ \E c \in Bouncers : bounce'[c].step = "down" /\ i \in bounce'[c].stations
  <2>1. CASE i \in done
    BY <1>1, <2>1
  <2>2. CASE i \in ports \ done
    BY <1>1, <2>2
  <2>3. CASE i \notin ports
    <3>1. up'[i] <=> up[i]
      BY <1>1, <2>3
    <3>2. (i \in reported' <=> i \in reported) /\ (i \in unopened' <=> i \in unopened)
      BY <1>1, <2>3
    <3>3. CASE \E c \in Bouncers : bounce[c].step = "down" /\ i \in bounce[c].stations
      BY <1>2, <2>3, <3>3
    <3>4. CASE up[i] \/ i \in reported \/ i \in unopened
      BY <3>1, <3>2, <3>4
    <3> QED
      BY <3>3, <3>4 DEF DownPortsAccounted
  <2> QED
    BY <2>1, <2>2, <2>3
<1> QED
  BY <1>3 DEF DownPortsAccounted

LEMMA NextKeepsPortsAccounted ==
  ASSUME TypeOK, DownPortsAccounted, [Next]_vars
  PROVE  DownPortsAccounted'
<1>1. CASE \E teams \in Lineups, b \in Bouncers : ClearMatch(b, teams)
  <2>1. PICK teams \in Lineups, b \in Bouncers : ClearMatch(b, teams)
    BY <1>1
  <2>2. \A c \in Bouncers : bounce[c].step = "down" => bounce'[c] = bounce[c]
    BY <2>1 DEF ClearMatch, NoBounce, TypeOK
  <2> QED
    BY <2>1, <2>2 DEF ClearMatch, portVars, DownPortsAccounted
<1>2. CASE Baseline
  <2>1. PICK done \in SUBSET Stations :
          Open(done) /\ unopened' = unopened \ done /\ reported' = reported \ done
    BY <1>2 DEF Baseline
  <2> QED
    BY <1>2, <2>1 DEF Baseline, Open, DownPortsAccounted
<1>3. CASE UNCHANGED <<bounce, portVars>>
  BY <1>3 DEF portVars, DownPortsAccounted
<1>4. CASE \E b \in Bouncers : BounceStep(b)
  BY <1>4, ShutPortsAccounted, ReopenPortsAccounted DEF BounceStep
<1> QED
  BY <1>1, <1>2, <1>3, <1>4
     DEF Next, Operator, Applying, SetUpNetwork, WriteSettings, LoadSettings, TakeApply, Begin,
         RemoveVlans, AddVlans, Settle, vars

(* Every port that is down is accounted for by a bounce under way, an error *)
(* in the log or a session that ended in silence.                           *)
THEOREM PortsReopened == Spec => []DownPortsAccounted
<1>1. Init => DownPortsAccounted
  BY DEF Init, DownPortsAccounted
<1>2. TypeOK /\ DownPortsAccounted /\ [Next]_vars => DownPortsAccounted'
  BY NextKeepsPortsAccounted
<1> QED
  BY <1>1, <1>2, TypeInvariant, PTL DEF Spec

-----------------------------------------------------------------------------
(* The refinement.  What Lineup calls pending and settled. *)
Waiting == [i \in Stations |-> Pending(i) \ {NoTeam}]
Settled == Quiet /\ status[current] = "ACTIVE"

WaitingTyped == Waiting \in [Stations -> SUBSET Teams]
LEMMA PendingIsTyped == IInv => WaitingTyped
<1> SUFFICES ASSUME TypeOK, NEW i \in Stations PROVE Pending(i) \ {NoTeam} \subseteq Teams
  BY DEF Waiting, WaitingTyped, IInv
<1>1. \A job \in jobs : job.teams \in Lineups
  BY DEF TypeOK, Jobs
<1>2. apply # NoApply => apply.teams \in Lineups
  BY DEF TypeOK
<1> QED
  BY <1>1, <1>2 DEF Pending, Lineups

(* Both facts of the state a step leads to. *)
LEMMA After ==
  IInv' => ActiveMeansLatest' /\ WaitingTyped'
BY QuietCarriesAsked, PendingIsTyped, PTL

(* A step that takes no team anywhere and asks for nothing: if it leaves    *)
(* the network settled the lineup is the one asked for.                     *)
LEMMA QuietStep ==
  ASSUME IInv, IInv', UNCHANGED <<asked, vlanVars>>,
         \A i \in Stations : Pending(i)' \subseteq Pending(i)
  PROVE  Network!Next
<1>1. Waiting \in [Stations -> SUBSET Teams] /\ Waiting' \in [Stations -> SUBSET Teams]
  BY PendingIsTyped, After DEF WaitingTyped
<1>2. \A i \in Stations : Waiting'[i] \subseteq Waiting[i]
  BY DEF Waiting
<1>3. Network!Forget
  BY <1>1, <1>2 DEF Network!Forget, Waiting
<1>4. CASE Settled'
  <2>1. \A i \in Stations \ missed : vlan[i] = asked[i]
    BY <1>4, After DEF ActiveMeansLatest, Settled, Carries, vlanVars
  <2> QED
    BY <1>3, <1>4, <2>1 DEF Network!Next, Network!Settle, Settled, vlanVars
<1>5. CASE ~Settled'
  BY <1>3, <1>5 DEF Network!Next, Network!Disturb, Settled, vlanVars
<1> QED
  BY <1>4, <1>5

(* A session that takes stations off or takes teams to stations. *)
LEMMA SessionStep ==
  ASSUME IInv, IInv', apply.step \in {"remove", "add"},
         (\E step \in {"add", "settle"} : GoOn(step)) \/ (Fail /\ status'[current] # "ACTIVE"),
         UNCHANGED <<requestVars, current>>,
         \A i \in Stations : vlan'[i] \in {vlan[i], NoTeam, apply.teams[i]},
         missed' \subseteq {i \in Stations : vlan'[i] = vlan[i]}
  PROVE  Network!Next
<1>1. apply \in [step : Steps, teams : Lineups, sw : Switches] /\ apply # NoApply
  BY ApplyShape DEF IInv
<1>2. apply' = NoApply \/ (apply' # NoApply /\ apply'.teams = apply.teams)
  BY <1>1 DEF GoOn, Fail, NoApply
<1>3. ~Settled
  BY <1>1 DEF Settled, Quiet
<1>4. ~Settled'
  <2>1. CASE Fail /\ status'[current] # "ACTIVE"
    BY <2>1 DEF Settled, requestVars
  <2>2. CASE \E step \in {"add", "settle"} : GoOn(step)
    BY <1>1, <2>2 DEF GoOn, Settled, Quiet, NoApply
  <2> QED
    BY <2>1, <2>2
<1>5. \A i \in Stations : Pending(i)' \subseteq Pending(i)
  BY <1>1, <1>2 DEF Pending, requestVars
<1>6. Waiting \in [Stations -> SUBSET Teams] /\ Waiting' \in [Stations -> SUBSET Teams]
  BY PendingIsTyped, After DEF WaitingTyped
<1>7. Network!Forget
  BY <1>5, <1>6 DEF Network!Forget, Waiting, requestVars
<1>8. \A i \in Stations : vlan'[i] \in {vlan[i], NoTeam} \cup Waiting[i]
  BY <1>1 DEF Pending, Waiting
<1>9. vlan' \in Network!Lineups
  BY DEF IInv, TypeOK, Lineups, Network!Lineups
<1> QED
  BY <1>3, <1>4, <1>7, <1>8, <1>9 DEF Network!Next, Network!Put, Waiting, Settled

(* A lineup is asked for. *)
LEMMA RequestStep ==
  ASSUME IInv, NEW teams \in Lineups, Request(teams), UNCHANGED <<apply, current, status, vlanVars>>
  PROVE  Network!Next \/ UNCHANGED Network!vars
<1>1. CASE ~enabled
  BY <1>1 DEF Request, vlanVars, Network!vars, Pending, Quiet
<1>2. CASE enabled
  <2> DEFINE job == [gen |-> gen + 1, teams |-> teams]
  <2>1. jobs' = jobs \cup {job} /\ asked' = teams
    BY <1>2 DEF Request, Enqueue
  <2>2. ASSUME NEW i \in Stations PROVE Pending(i)' = Pending(i) \cup {teams[i]}
    <3>1. job.teams = teams
      OBVIOUS
    <3> HIDE DEF job
    <3>2. {j.teams[i] : j \in jobs'} = {j.teams[i] : j \in jobs} \cup {teams[i]}
      BY <2>1, <3>1
    <3> QED
      BY <3>2 DEF Pending
  <2>3. Waiting' = [i \in Stations |-> Waiting[i] \cup ({teams[i]} \ {NoTeam})]
    BY <2>2 DEF Waiting
  <2>4. ~Settled'
    BY <2>1 DEF Settled, Quiet
  <2>5. teams \in Network!Lineups
    BY DEF Lineups, Network!Lineups
  <2> QED
    BY <2>1, <2>3, <2>4, <2>5 DEF Network!Next, Network!Ask, Waiting, Settled, vlanVars
<1> QED
  BY <1>1, <1>2

LEMMA StepsAreLineupSteps ==
  ASSUME IInv, IInv', [Next]_vars
  PROVE  [Network!Next]_(Network!vars)
<1>1. CASE \E teams \in Lineups : SetUpNetwork(teams) \/ \E b \in Bouncers : ClearMatch(b, teams)
  BY <1>1, RequestStep DEF SetUpNetwork, ClearMatch, objectVars
<1>2. CASE \E on \in BOOLEAN : WriteSettings(on) \/ \E s \in Switches : LoadSettings(s, on)
  BY <1>2, QuietStep DEF WriteSettings, LoadSettings, requestVars, Pending
<1>3. CASE \E job \in jobs : TakeApply(job)
  <2>1. PICK job \in jobs : TakeApply(job)
    BY <1>3
  <2>2. ASSUME NEW i \in Stations PROVE Pending(i)' \subseteq Pending(i)
    <3>1. {j.teams[i] : j \in jobs'} \subseteq {j.teams[i] : j \in jobs}
      BY <2>1 DEF TakeApply
    <3>2. apply' = NoApply \/ apply'.teams[i] = job.teams[i]
      BY <2>1 DEF TakeApply
    <3> QED
      BY <2>1, <3>1, <3>2 DEF Pending
  <2> QED
    BY <2>1, <2>2, QuietStep DEF TakeApply
<1>4. CASE Begin \/ Baseline \/ Settle
  <2>1. apply \in [step : Steps, teams : Lineups, sw : Switches] /\ apply # NoApply
    BY <1>4, ApplyShape DEF Begin, Baseline, Settle, IInv
  <2>2. apply' = NoApply \/ (apply' # NoApply /\ apply'.teams = apply.teams)
    BY <1>4, <2>1 DEF Begin, Baseline, Settle, GoOn, Fail, NoApply
  <2>3. UNCHANGED <<asked, jobs, vlanVars>>
    BY <1>4 DEF Begin, Baseline, Settle, requestVars
  <2>4. \A i \in Stations : Pending(i)' \subseteq Pending(i)
    BY <2>1, <2>2, <2>3 DEF Pending
  <2> QED
    BY <2>3, <2>4, QuietStep
<1>5. CASE RemoveVlans
  <2>1. UNCHANGED <<enabled, requestVars, current, bounce>> /\ SwitchTyped'
    BY <1>5 DEF RemoveVlans, IInv, TypeOK, SwitchTyped, portVars
  <2>2. PICK done \in SUBSET Stations :
          /\ vlan' = [i \in Stations |-> IF i \in done THEN NoTeam ELSE vlan[i]]
          /\ missed' \subseteq (missed \cup Stations) \ done
    BY <1>5 DEF RemoveVlans, Reach, Reported, NoLineup, Rebuild
  <2>3. missed' \subseteq {i \in Stations : vlan'[i] = vlan[i]}
    BY <2>2 DEF IInv, TypeOK
  <2>4. Fail => status'[current] # "ACTIVE"
    BY <1>5, <2>1, FailKeepsIInv DEF RemoveVlans, IInv
  <2> QED
    BY <1>5, <2>1, <2>2, <2>3, <2>4, SessionStep DEF RemoveVlans
<1>6. CASE AddVlans
  <2>1. UNCHANGED <<enabled, requestVars, current, bounce>> /\ SwitchTyped'
    BY <1>6 DEF AddVlans, IInv, TypeOK, SwitchTyped, portVars
  <2>2. PICK done \in SUBSET Stations :
          /\ vlan' = [i \in Stations |-> IF i \in done THEN apply.teams[i] ELSE vlan[i]]
          /\ missed' \subseteq (missed \cup Stations) \ done
    BY <1>6 DEF AddVlans, Reach, Reported, Added, Rebuild
  <2>3. missed' \subseteq {i \in Stations : vlan'[i] = vlan[i]}
    BY <2>2 DEF IInv, TypeOK
  <2>4. Fail => status'[current] # "ACTIVE"
    BY <1>6, <2>1, FailKeepsIInv DEF AddVlans, IInv
  <2> QED
    BY <1>6, <2>1, <2>2, <2>3, <2>4, SessionStep DEF AddVlans
<1>7. CASE \E b \in Bouncers : BounceStep(b)
  BY <1>7, QuietStep DEF BounceStep, ShutPorts, ReopenPorts, requestVars, Pending
<1>8. CASE UNCHANGED vars
  BY <1>8 DEF vars, requestVars, objectVars, vlanVars, Network!vars, Pending, Quiet
<1> QED
  BY <1>1, <1>2, <1>3, <1>4, <1>5, <1>6, <1>7, <1>8 DEF Next, Operator, Applying

(* The switch does what Lineup promises: it takes no team to a station but  *)
(* one asked for there, and a green badge with nothing queued says that it  *)
(* carries the lineup asked for last, where no session passed over a        *)
(* station in silence, and will be left alone.                              *)
THEOREM Refinement == Spec => CarriesWhatIsAsked
<1>1. Init => Network!Init
  <2> SUFFICES ASSUME Init PROVE Network!Init
    OBVIOUS
  <2>1. IInv
    BY InitIInv
  <2>2. Waiting = [i \in Stations |-> {}]
    BY DEF Init, Waiting, Pending
  <2>3. status[current] # "ACTIVE"
    BY DEF Init
  <2> QED
    BY <2>2, <2>3 DEF Init, Network!Init, Network!Lineups, Lineups, NoLineup, Waiting
<1> QED
  BY <1>1, Invariance, StepsAreLineupSteps, PTL DEF Spec, Network!Spec, CarriesWhatIsAsked
=============================================================================
