----------------------------- MODULE EStopPanel -----------------------------
(***************************************************************************)
(* A panel Pi and the controller that polls it: the sampler goroutines of  *)
(* cmd/estop-panel and the GPIO lines they hold, POST /config, which       *)
(* replaces the sampler while polls go on, and NetworkEStopPanel.Poll,     *)
(* which believes an answer only if its sample is young.                   *)
(*                                                                         *)
(* Time passes in ticks.  A sampler may miss any number of them between    *)
(* two samples, and as many as ReadTakes between reading the pins and      *)
(* stamping what it read; contacts may move at any time, and a poll is     *)
(* given up after Timeout ticks.                                           *)
(***************************************************************************)
EXTENDS StopInput, FiniteSets

CONSTANTS
  Inputs,    \* the dual-channel stop inputs, each with lines of its own
  Owned,     \* those that are a station's e-stop; the field e-stop is not
  Contacts,  \* Contacts[i]: what the pins of input i may show
  Configs,   \* the sets of inputs a configuration may wire
  Samplers,  \* sampler identities, reused once closed
  None,
  Posts,     \* concurrent POST /config requests
  MaxAge,    \* maxSnapshotAge, in ticks
  Timeout,   \* the controller's HTTP client timeout, in ticks
  ReadTakes  \* ticks a sampler may spend in sample()

ASSUME PanelAssumption ==
  /\ Contacts \in [Inputs -> SUBSET Pins]
  /\ Owned \subseteq Inputs /\ Configs \subseteq SUBSET Inputs /\ None \notin Samplers
  /\ MaxAge \in Nat /\ Timeout \in Nat /\ ReadTakes \in Nat

VARIABLES
  pins,      \* what the lines of each input read now
  downFor,   \* ticks for which the input has not read released, up to DownBound
  holder,    \* the sampler whose reader has requested the input's lines
  state,     \* "free", "opening" in openGPIO, "first" sample, "running", "closing"
  reads,     \* the inputs s' reader has opened; none for noopReader
  since,     \* since[s][i]: the filter of input i in s' reader
  taken,     \* what sample() has read and not stored yet, and for how long
  sample,    \* sampler.inputs: a reading for each input in reads[s]
  age,       \* ticks since sampler.at, up to MaxAge + 1
  cfg,       \* cfg.Pins
  smpl,      \* the sampler polls are answered from
  post,      \* what each POST is doing
  poll       \* the controller's poll and, once answered or returned, its inputs

panelVars == <<holder, state, reads, since, taken, sample, age, cfg, smpl, post>>
vars == <<pins, downFor, panelVars, poll>>

DownBound == MaxAge + Timeout + ReadTakes + 1
Empty == [i \in {} |-> "ok"]
Reports == UNION {[S -> Readings] : S \in SUBSET Inputs}
NotReading == [on |-> FALSE, wait |-> 0, inputs |-> Empty]
NoPost == [at |-> "idle", want |-> {}, new |-> None]
NoPoll == [at |-> "idle", wait |-> 0, age |-> 0, inputs |-> Empty]
Up(n, bound) == IF n = bound THEN n ELSE n + 1

TypeOK ==
  /\ pins \in [Inputs -> Pins] /\ downFor \in [Inputs -> 0 .. DownBound]
  /\ holder \in [Inputs -> Samplers \cup {None}]
  /\ state \in [Samplers -> {"free", "opening", "first", "running", "closing"}]
  /\ reads \in [Samplers -> SUBSET Inputs]
  /\ since \in [Samplers -> [Inputs -> Since]]
  /\ taken \in [Samplers -> [on : BOOLEAN, wait : 0 .. ReadTakes, inputs : Reports]]
  /\ \A s \in Samplers : sample[s] \in Reports /\ DOMAIN sample[s] \subseteq reads[s]
  /\ age \in [Samplers -> 0 .. MaxAge + 1]
  /\ cfg \in Configs /\ smpl \in Samplers /\ state[smpl] = "running"
  /\ \A p \in Posts : post[p] = NoPost \/
       post[p] \in [at : {"opening", "opened", "swapping", "closing"}, want : Configs, new : Samplers]
  /\ poll \in [at : {"idle", "asked", "answered", "returned"}, wait : 0 .. Timeout,
               age : 0 .. MaxAge + 1, inputs : Reports]

(* The panel has opened the lines of its configuration. *)
Init ==
  /\ pins = [i \in Inputs |-> Released] /\ downFor = [i \in Inputs |-> 0]
  /\ cfg \in Configs
  /\ smpl \in Samplers
  /\ holder = [i \in Inputs |-> IF i \in cfg THEN smpl ELSE None]
  /\ state = [s \in Samplers |-> IF s = smpl THEN "running" ELSE "free"]
  /\ reads = [s \in Samplers |-> IF s = smpl THEN cfg ELSE {}]
  /\ since = [s \in Samplers |-> [i \in Inputs |-> Restarted]]
  /\ taken = [s \in Samplers |-> NotReading]
  /\ sample = [s \in Samplers |-> IF s = smpl THEN [i \in cfg |-> "ok"] ELSE Empty]
  /\ age = [s \in Samplers |-> 0]
  /\ post = [p \in Posts |-> NoPost]
  /\ poll = NoPoll

-----------------------------------------------------------------------------
(* Definitions with a suffix _... are mutations: bugs the runs must catch.  *)

MoveContacts(i, new) ==
  /\ new # pins[i]
  /\ pins' = [pins EXCEPT ![i] = new]
  /\ downFor' = [downFor EXCEPT ![i] = IF new = Released THEN 0 ELSE downFor[i]]
  /\ UNCHANGED <<panelVars, poll>>

Tick ==
  /\ poll.at \in {"asked", "answered"} => poll.wait < Timeout
  /\ poll.at # "returned"
  /\ \A s \in Samplers : taken[s].on => taken[s].wait < ReadTakes
  /\ downFor' = [i \in Inputs |-> IF pins[i] = Released THEN 0 ELSE Up(downFor[i], DownBound)]
  /\ since' = [s \in Samplers |-> [i \in Inputs |-> Later(since[s][i])]]
  /\ age' = [s \in Samplers |-> IF state[s] = "running" THEN Up(age[s], MaxAge + 1) ELSE age[s]]
  /\ poll' = IF poll.at = "idle" THEN poll ELSE [poll EXCEPT !.wait = @ + 1]
  /\ taken' = [s \in Samplers |->
                IF taken[s].on THEN [taken[s] EXCEPT !.wait = @ + 1] ELSE taken[s]]
  /\ UNCHANGED <<pins, holder, state, reads, sample, cfg, smpl, post>>

(* sample(): the reader decodes every input it has opened; the time is      *)
(* taken, and the sample stored, when it has read them all.                 *)
ReadPins(s) ==
  /\ state[s] \in {"first", "running"} /\ ~taken[s].on
  /\ since' = [since EXCEPT ![s] = [i \in Inputs |->
                 IF i \in reads[s] THEN SinceAfter(pins[i], since[s][i]) ELSE since[s][i]]]
  /\ taken' = [taken EXCEPT ![s] = [on |-> TRUE, wait |-> 0,
                 inputs |-> [i \in reads[s] |-> ReadingOf(pins[i], since[s][i])]]]
  /\ UNCHANGED <<pins, downFor, holder, state, reads, sample, age, cfg, smpl, post, poll>>
StoreSample(s) ==
  /\ taken[s].on
  /\ taken' = [taken EXCEPT ![s] = NotReading]
  /\ IF state[s] = "closing" THEN UNCHANGED <<sample, age>>
     ELSE /\ sample' = [sample EXCEPT ![s] = taken[s].inputs]
          /\ age' = [age EXCEPT ![s] = 0]
  /\ state' = [state EXCEPT ![s] = IF @ = "first" THEN "running" ELSE @]
  /\ UNCHANGED <<pins, downFor, holder, reads, since, cfg, smpl, post, poll>>

-----------------------------------------------------------------------------
(* POST /config.  The new lines are requested while the old reader still    *)
(* has its own.                                                             *)
StartPost(p, want, s) ==
  /\ post[p] = NoPost /\ state[s] = "free"
  /\ post' = [post EXCEPT ![p] = [at |-> "opening", want |-> want, new |-> s]]
  /\ state' = [state EXCEPT ![s] = "opening"]
  /\ UNCHANGED <<pins, downFor, holder, reads, since, taken, sample, age, cfg, smpl, poll>>

(* The kernel gives a line to one requester at a time: openGPIO takes the   *)
(* next line, or closes those it has, and the request goes on with a        *)
(* noopReader.                                                              *)
OpenLine_KeepsLines(p) ==
  LET s == post[p].new IN
  /\ post[p].at = "opening"
  /\ \E i \in post[p].want \ reads[s] :
       IF holder[i] = None
       THEN /\ holder' = [holder EXCEPT ![i] = s]
            /\ reads' = [reads EXCEPT ![s] = @ \cup {i}]
            /\ UNCHANGED post
       ELSE /\ post' = [post EXCEPT ![p].at = "opened"]
            /\ UNCHANGED <<holder, reads>>
  /\ UNCHANGED <<pins, downFor, state, since, taken, sample, age, cfg, smpl, poll>>
OpenLine(p) ==
  LET s == post[p].new IN
  /\ post[p].at = "opening"
  /\ \E i \in post[p].want \ reads[s] :
       IF holder[i] = None
       THEN /\ holder' = [holder EXCEPT ![i] = s]
            /\ reads' = [reads EXCEPT ![s] = @ \cup {i}]
            /\ UNCHANGED post
       ELSE /\ holder' = [j \in Inputs |-> IF holder[j] = s THEN None ELSE holder[j]]
            /\ reads' = [reads EXCEPT ![s] = {}]
            /\ post' = [post EXCEPT ![p].at = "opened"]
  /\ UNCHANGED <<pins, downFor, state, since, taken, sample, age, cfg, smpl, poll>>

(* newSampler takes one sample at once, before the handler goes on.         *)
NewSampler(p) ==
  /\ \/ post[p].at = "opened"
     \/ post[p].at = "opening" /\ reads[post[p].new] = post[p].want
  /\ state' = [state EXCEPT ![post[p].new] = "first"]
  /\ post' = [post EXCEPT ![p].at = "swapping"]
  /\ UNCHANGED <<pins, downFor, holder, reads, since, taken, sample, age, cfg, smpl, poll>>

(* The sampler and the configuration are replaced together, under mu.       *)
(* Nobody reads what the old sampler still samples.                         *)
Retire(s) ==
  /\ sample' = [sample EXCEPT ![s] = Empty]
  /\ since' = [since EXCEPT ![s] = [i \in Inputs |-> Restarted]]
  /\ age' = [age EXCEPT ![s] = 0]
Swap(p) ==
  /\ post[p].at = "swapping" /\ state[post[p].new] = "running"
  /\ smpl' = post[p].new /\ cfg' = post[p].want
  /\ state' = [state EXCEPT ![smpl] = "closing"]
  /\ post' = [post EXCEPT ![p].at = "closing", ![p].new = smpl]
  /\ Retire(smpl)
  /\ UNCHANGED <<pins, downFor, holder, reads, taken, poll>>

(* old.Close, once the old sampler's goroutine is done. *)
CloseOld_KeepsLines(p) ==
  /\ post[p].at = "closing" /\ ~taken[post[p].new].on
  /\ state' = [state EXCEPT ![post[p].new] = "free"]
  /\ reads' = [reads EXCEPT ![post[p].new] = {}]
  /\ post' = [post EXCEPT ![p] = NoPost]
  /\ UNCHANGED <<pins, downFor, holder, since, taken, sample, age, cfg, smpl, poll>>
CloseOld(p) ==
  LET s == post[p].new IN
  /\ post[p].at = "closing" /\ ~taken[s].on
  /\ holder' = [i \in Inputs |-> IF holder[i] = s THEN None ELSE holder[i]]
  /\ state' = [state EXCEPT ![s] = "free"]
  /\ reads' = [reads EXCEPT ![s] = {}]
  /\ post' = [post EXCEPT ![p] = NoPost]
  /\ UNCHANGED <<pins, downFor, since, taken, sample, age, cfg, smpl, poll>>

-----------------------------------------------------------------------------
(* The controller's poll, and the panel's answer to it from memory.         *)
Ask ==
  /\ poll.at = "idle" /\ poll' = [NoPoll EXCEPT !.at = "asked"]
  /\ UNCHANGED <<pins, downFor, panelVars>>

(* handlePoll: the sample is as old as the panel says it is now. *)
Answer ==
  /\ poll.at = "asked"
  /\ poll' = [poll EXCEPT !.at = "answered", !.age = age[smpl], !.inputs = sample[smpl]]
  /\ UNCHANGED <<pins, downFor, panelVars>>

Faulted == [i \in Owned |-> "fault"]
Believed_AnyAge(answer) == IF answer.inputs = Empty THEN Faulted ELSE answer.inputs
Believed(answer) ==
  IF answer.age > MaxAge \/ answer.inputs = Empty THEN Faulted ELSE answer.inputs
Return(inputs) == poll' = [NoPoll EXCEPT !.at = "returned", !.inputs = inputs]
Receive ==
  /\ poll.at = "answered" /\ Return(Believed(poll))
  /\ UNCHANGED <<pins, downFor, panelVars>>

(* No connection, no answer in time, another status, or garbage. *)
PollFails ==
  /\ poll.at \in {"asked", "answered"} /\ Return(Faulted)
  /\ UNCHANGED <<pins, downFor, panelVars>>

(* Update folds what Poll returned into the stations (Arena.tla). *)
Fold ==
  /\ poll.at = "returned" /\ poll' = NoPoll
  /\ UNCHANGED <<pins, downFor, panelVars>>

-----------------------------------------------------------------------------
Configure ==
  \E p \in Posts :
    \/ \E want \in Configs, s \in Samplers : StartPost(p, want, s)
    \/ OpenLine(p) \/ NewSampler(p) \/ Swap(p) \/ CloseOld(p)
Sampling == \E s \in Samplers : ReadPins(s) \/ StoreSample(s)
Buttons == \E i \in Inputs : \E new \in Contacts[i] : MoveContacts(i, new)
Polling == Ask \/ Answer \/ Receive \/ PollFails \/ Fold

Next == Buttons \/ Tick \/ Sampling \/ Configure \/ Polling
Spec == Init /\ [][Next]_vars
-----------------------------------------------------------------------------
(* "Poll() fails closed": no answer, however it was delayed, reports a      *)
(* button released that has been pressed or broken for longer than a sample *)
(* may be old and an answer may take, through stalled samplers and changes  *)
(* of configuration (NetworkEStopPanel.Poll, sampler.snapshot).             *)
HeldPressSeen ==
  poll.at = "returned" =>
    \A i \in DOMAIN poll.inputs : downFor[i] = DownBound => poll.inputs[i] # "ok"

(* A GPIO line that is requested belongs to a sampler that is in use and    *)
(* reads it: concurrent changes of configuration leak no line (openGPIO,    *)
(* handleConfig, sampler.Close).                                            *)
LinesAccounted ==
  \A i \in Inputs : holder[i] # None => state[holder[i]] # "free" /\ i \in reads[holder[i]]

(* The panel reads every input of its configuration or, if it could not     *)
(* open them all, none, so that it is believed to be faulty (handleConfig). *)
ReaderFitsConfig == reads[smpl] \in {cfg, {}}

(* "POST /config replaces the full config, re-opens GPIO": the panel reads  *)
(* the inputs of its configuration when no request is under way.            *)
ReopenedInputsRead == (\A p \in Posts : post[p] = NoPost) => reads[smpl] = cfg
=============================================================================
