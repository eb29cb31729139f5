---------------------------- MODULE PanelProofs ----------------------------
(***************************************************************************)
(* What EStopPanel's lines and configuration satisfy for any number of     *)
(* inputs, samplers and concurrent POST /config requests; the runs check   *)
(* it with one request.                                                    *)
(***************************************************************************)
EXTENDS EStopPanel, TLAPS

Underway == [at : {"opening", "opened", "swapping", "closing"}, want : Configs, new : Samplers]

ConfigTypes ==
  /\ holder \in [Inputs -> Samplers \cup {None}]
  /\ state \in [Samplers -> {"free", "opening", "first", "running", "closing"}]
  /\ reads \in [Samplers -> SUBSET Inputs]
  /\ cfg \in Configs /\ smpl \in Samplers
  /\ post \in [Posts -> {NoPost} \cup Underway]

(* The stage of a request, of its sampler and of the lines the sampler has. *)
StageFits(p) ==
  LET s == post[p].new IN
  post[p] # NoPost =>
    /\ s # smpl
    /\ post[p].at \in {"opening", "opened"} => state[s] = "opening"
    /\ post[p].at = "swapping" => state[s] \in {"first", "running"}
    /\ post[p].at = "closing" => state[s] = "closing"
    /\ post[p].at \in {"opened", "swapping"} => reads[s] \in {post[p].want, {}}

(* No two requests have a hand in the same sampler. *)
OwnSamplers ==
  \A p, q \in Posts : post[p] # NoPost /\ post[q] # NoPost /\ post[p].new = post[q].new => p = q

ConfigInv ==
  /\ ConfigTypes
  /\ state[smpl] = "running"
  /\ \A p \in Posts : StageFits(p)
  /\ OwnSamplers
  /\ LinesAccounted
  /\ ReaderFitsConfig

(* Configs holds sets of inputs only, and None is no sampler. *)
LEMMA ConfigFacts == Configs \subseteq SUBSET Inputs /\ None \notin Samplers
BY PanelAssumption DEF PanelAssumption

(* NoPost is not a request under way. *)
LEMMA NoPostFact == NoPost \notin Underway /\ \A u \in Underway :
  /\ u.at \in {"opening", "opened", "swapping", "closing"} /\ u.want \in Configs /\ u.new \in Samplers
BY DEF NoPost, Underway

(* The panel starts with the lines of its configuration and no request.     *)
LEMMA ConfigInit == Init => ConfigInv
<1> SUFFICES ASSUME Init PROVE ConfigInv
  OBVIOUS
<1> USE ConfigFacts
<1>1. ConfigTypes
  BY DEF Init, ConfigTypes
<1>2. state[smpl] = "running"
  BY DEF Init
<1>3. \A p \in Posts : post[p] = NoPost
  BY DEF Init
<1>4. LinesAccounted
  BY <1>2 DEF Init, LinesAccounted
<1>5. ReaderFitsConfig
  BY DEF Init, ReaderFitsConfig
<1> QED
  BY <1>1, <1>2, <1>3, <1>4, <1>5 DEF ConfigInv, StageFits, OwnSamplers

(* A step that leaves lines, stages and configuration alone. *)
LEMMA ConfigStutters ==
  ASSUME ConfigInv, UNCHANGED <<holder, state, reads, cfg, smpl, post>>
  PROVE  ConfigInv'
BY DEF ConfigInv, ConfigTypes, StageFits, OwnSamplers, LinesAccounted, ReaderFitsConfig

(* A sample is stored. *)
LEMMA StoreKeeps ==
  ASSUME ConfigInv, NEW s \in Samplers, StoreSample(s)
  PROVE  ConfigInv'
<1> USE ConfigFacts, NoPostFact DEF ConfigInv, StoreSample
<1>1. state' \in [Samplers -> {"free", "opening", "first", "running", "closing"}]
  BY DEF ConfigTypes
<1>2. \A t \in Samplers : state'[t] = state[t] \/ (state[t] = "first" /\ state'[t] = "running")
  BY DEF ConfigTypes
<1>3. ConfigTypes'
  BY <1>1 DEF ConfigTypes
<1>4. ASSUME NEW p \in Posts PROVE StageFits(p)'
  <2>1. CASE post[p] = NoPost
    BY <2>1 DEF StageFits
  <2>2. CASE post[p] # NoPost
    <3>1. post[p] \in Underway /\ post[p].new \in Samplers
      BY <2>2 DEF ConfigTypes
    <3> QED
      BY <1>2, <2>2, <3>1 DEF StageFits
  <2> QED
    BY <2>1, <2>2
<1>5. state'[smpl'] = "running"
  BY <1>2 DEF ConfigTypes
<1>6. LinesAccounted'
  <2> SUFFICES ASSUME NEW i \in Inputs, holder[i] # None
               PROVE  state'[holder[i]] # "free" /\ i \in reads[holder[i]]
    BY DEF LinesAccounted
  <2>1. holder[i] \in Samplers
    BY DEF ConfigTypes
  <2> QED
    BY <1>2, <2>1 DEF LinesAccounted
<1> QED
  BY <1>3, <1>4, <1>5, <1>6 DEF OwnSamplers, ReaderFitsConfig

(* A request starts with a sampler nobody uses. *)
LEMMA StartKeeps ==
  ASSUME ConfigInv, NEW p \in Posts, NEW want \in Configs, NEW s \in Samplers,
         StartPost(p, want, s)
  PROVE  ConfigInv'
<1> USE ConfigFacts, NoPostFact DEF ConfigInv, StartPost
<1> DEFINE u == [at |-> "opening", want |-> want, new |-> s]
<1>0. u \in Underway /\ u # NoPost /\ u.at = "opening" /\ u.new = s
  BY DEF Underway
<1>1. ConfigTypes'
  BY <1>0 DEF ConfigTypes
<1>2. /\ post'[p] = u
      /\ \A q \in Posts : q # p => post'[q] = post[q]
      /\ state'[s] = "opening"
      /\ \A t \in Samplers : t # s => state'[t] = state[t]
  BY DEF ConfigTypes
<1>3. s # smpl /\ state'[smpl'] = "running"
  BY <1>2 DEF ConfigTypes
<1>4. ASSUME NEW q \in Posts, q # p, post[q] # NoPost
      PROVE  post[q].new # s /\ post[q].new \in Samplers
  BY <1>4 DEF StageFits, ConfigTypes
<1>5. ASSUME NEW q \in Posts PROVE StageFits(q)'
  BY <1>0, <1>2, <1>3, <1>4 DEF StageFits
<1>6. OwnSamplers'
  BY <1>0, <1>2, <1>4 DEF OwnSamplers
<1>7. LinesAccounted'
  BY <1>2 DEF LinesAccounted, ConfigTypes
<1> QED
  BY <1>1, <1>3, <1>5, <1>6, <1>7 DEF ReaderFitsConfig

(* The next line is opened, or those that were are closed.                  *)
LEMMA OpenKeeps ==
  ASSUME ConfigInv, NEW p \in Posts, OpenLine(p)
  PROVE  ConfigInv'
<1> USE ConfigFacts, NoPostFact DEF ConfigInv
<1> DEFINE s == post[p].new
<1>1. post[p] # NoPost /\ post[p] \in Underway /\ s \in Samplers
  BY DEF OpenLine, NoPost, ConfigTypes
<1>2. s # smpl /\ state[s] = "opening" /\ post[p].want \in SUBSET Inputs
  BY <1>1 DEF OpenLine, StageFits
<1>3. ASSUME NEW q \in Posts, q # p, post[q] # NoPost
      PROVE  post[q].new # s /\ post[q].new \in Samplers
  BY <1>1, <1>3 DEF OwnSamplers, ConfigTypes
<1>4. PICK i \in post[p].want \ reads[s] :
        IF holder[i] = None
        THEN /\ holder' = [holder EXCEPT ![i] = s]
             /\ reads' = [reads EXCEPT ![s] = @ \cup {i}]
             /\ UNCHANGED post
        ELSE /\ holder' = [j \in Inputs |-> IF holder[j] = s THEN None ELSE holder[j]]
             /\ reads' = [reads EXCEPT ![s] = {}]
             /\ post' = [post EXCEPT ![p].at = "opened"]
  BY DEF OpenLine
<1>5. UNCHANGED <<state, cfg, smpl>>
  BY DEF OpenLine
<1>6. i \in Inputs
  BY <1>2
<1>7. CASE holder[i] = None
  <2>1. /\ holder' \in [Inputs -> Samplers \cup {None}] /\ holder'[i] = s
        /\ \A j \in Inputs : j # i => holder'[j] = holder[j]
        /\ reads' \in [Samplers -> SUBSET Inputs] /\ reads'[s] = reads[s] \cup {i}
        /\ \A t \in Samplers : t # s => reads'[t] = reads[t]
        /\ post' = post
    BY <1>1, <1>4, <1>6, <1>7 DEF ConfigTypes
  <2>2. ConfigTypes'
    BY <1>5, <2>1 DEF ConfigTypes
  <2>3. ASSUME NEW q \in Posts PROVE StageFits(q)'
    <3>1. CASE q = p
      BY <1>1, <1>2, <1>5, <2>1, <3>1 DEF StageFits, OpenLine
    <3>2. CASE q # p
      BY <1>3, <1>5, <2>1, <3>2 DEF StageFits
    <3> QED
      BY <3>1, <3>2
  <2>4. LinesAccounted'
    <3> SUFFICES ASSUME NEW j \in Inputs, holder'[j] # None
                 PROVE  state[holder'[j]] # "free" /\ j \in reads'[holder'[j]]
      BY <1>5 DEF LinesAccounted
    <3>1. CASE j = i
      BY <1>2, <2>1, <3>1
    <3>2. CASE j # i
      <4>1. holder'[j] = holder[j] /\ holder[j] \in Samplers /\ j \in reads[holder[j]]
        BY <2>1, <3>2 DEF LinesAccounted, ConfigTypes
      <4>2. state[holder[j]] # "free"
        BY <2>1, <3>2 DEF LinesAccounted
      <4>3. CASE holder[j] = s
        BY <2>1, <4>1, <4>2, <4>3
      <4>4. CASE holder[j] # s
        BY <2>1, <4>1, <4>2, <4>4
      <4> QED
        BY <4>3, <4>4
    <3> QED
      BY <3>1, <3>2
  <2>5. ReaderFitsConfig'
    BY <1>2, <1>5, <2>1 DEF ReaderFitsConfig, ConfigTypes
  <2> QED
    BY <1>5, <2>1, <2>2, <2>3, <2>4, <2>5 DEF OwnSamplers
<1>8. CASE holder[i] # None
  <2>1. /\ holder' \in [Inputs -> Samplers \cup {None}]
        /\ \A j \in Inputs : holder'[j] = IF holder[j] = s THEN None ELSE holder[j]
        /\ reads' \in [Samplers -> SUBSET Inputs] /\ reads'[s] = {}
        /\ \A t \in Samplers : t # s => reads'[t] = reads[t]
    BY <1>1, <1>4, <1>8 DEF ConfigTypes
  <2>2. /\ post'[p] = [post[p] EXCEPT !.at = "opened"]
        /\ \A q \in Posts : q # p => post'[q] = post[q]
    BY <1>4, <1>8 DEF ConfigTypes
  <2>3. /\ post'[p] \in Underway /\ post'[p].at = "opened"
        /\ post'[p].new = s /\ post'[p].want = post[p].want
    BY <1>1, <2>2 DEF Underway
  <2>4. post' \in [Posts -> {NoPost} \cup Underway]
    BY <1>4, <1>8, <2>2, <2>3 DEF ConfigTypes
  <2>5. ConfigTypes'
    BY <1>5, <2>1, <2>4 DEF ConfigTypes
  <2>6. ASSUME NEW q \in Posts PROVE StageFits(q)'
    <3>1. CASE q = p
      BY <1>2, <1>5, <2>1, <2>3, <3>1 DEF StageFits
    <3>2. CASE q # p
      BY <1>3, <1>5, <2>1, <2>2, <3>2 DEF StageFits
    <3> QED
      BY <3>1, <3>2
  <2>7. OwnSamplers'
    <3>1. \A q \in Posts : post'[q] # NoPost => post[q] # NoPost /\ post'[q].new = post[q].new
      BY <1>1, <2>2, <2>3
    <3> QED
      BY <3>1 DEF OwnSamplers
  <2>8. LinesAccounted'
    BY <1>5, <2>1 DEF LinesAccounted, ConfigTypes
  <2>9. ReaderFitsConfig'
    BY <1>2, <1>5, <2>1 DEF ReaderFitsConfig, ConfigTypes
  <2> QED
    BY <1>5, <2>5, <2>6, <2>7, <2>8, <2>9
<1> QED
  BY <1>7, <1>8

(* newSampler starts over what was opened.                                  *)
LEMMA NewSamplerKeeps ==
  ASSUME ConfigInv, NEW p \in Posts, NewSampler(p)
  PROVE  ConfigInv'
<1> USE ConfigFacts, NoPostFact DEF ConfigInv
<1> DEFINE s == post[p].new
<1>1. post[p] # NoPost /\ post[p] \in Underway /\ s \in Samplers
  BY DEF NewSampler, NoPost, ConfigTypes
<1>2. s # smpl /\ reads[s] \in {post[p].want, {}}
  BY <1>1 DEF NewSampler, StageFits
<1>3. ASSUME NEW q \in Posts, q # p, post[q] # NoPost
      PROVE  post[q].new # s /\ post[q].new \in Samplers
  BY <1>1, <1>3 DEF OwnSamplers, ConfigTypes
<1>4. /\ state' \in [Samplers -> {"free", "opening", "first", "running", "closing"}]
      /\ state'[s] = "first" /\ \A t \in Samplers : t # s => state'[t] = state[t]
      /\ UNCHANGED <<holder, reads, cfg, smpl>>
  BY <1>1 DEF NewSampler, ConfigTypes
<1>5. /\ post'[p] = [post[p] EXCEPT !.at = "swapping"]
      /\ \A q \in Posts : q # p => post'[q] = post[q]
  BY DEF NewSampler, ConfigTypes
<1>6. /\ post'[p] \in Underway /\ post'[p].at = "swapping"
      /\ post'[p].new = s /\ post'[p].want = post[p].want
  BY <1>1, <1>5 DEF Underway
<1>7. ConfigTypes'
  BY <1>4, <1>5, <1>6 DEF ConfigTypes, NewSampler
<1>8. ASSUME NEW q \in Posts PROVE StageFits(q)'
  <2>1. CASE q = p
    BY <1>2, <1>4, <1>6, <2>1 DEF StageFits
  <2>2. CASE q # p
    BY <1>3, <1>4, <1>5, <2>2 DEF StageFits
  <2> QED
    BY <2>1, <2>2
<1>9. OwnSamplers'
  <2>1. \A q \in Posts : post'[q] # NoPost => post[q] # NoPost /\ post'[q].new = post[q].new
    BY <1>1, <1>5, <1>6
  <2> QED
    BY <2>1 DEF OwnSamplers
<1>10. LinesAccounted'
  <2> SUFFICES ASSUME NEW i \in Inputs, holder[i] # None
               PROVE  state'[holder[i]] # "free" /\ i \in reads[holder[i]]
    BY <1>4 DEF LinesAccounted
  <2>1. holder[i] \in Samplers
    BY DEF ConfigTypes
  <2> QED
    BY <1>4, <2>1 DEF LinesAccounted
<1> QED
  BY <1>2, <1>4, <1>7, <1>8, <1>9, <1>10 DEF ReaderFitsConfig, ConfigTypes

(* The new sampler replaces the old one, which the request takes over.      *)
LEMMA SwapKeeps ==
  ASSUME ConfigInv, NEW p \in Posts, Swap(p)
  PROVE  ConfigInv'
<1> USE ConfigFacts, NoPostFact DEF ConfigInv
<1> DEFINE s == post[p].new
<1>1. post[p] # NoPost /\ post[p] \in Underway /\ s \in Samplers
  BY DEF Swap, NoPost, ConfigTypes
<1>2. s # smpl /\ state[s] = "running" /\ reads[s] \in {post[p].want, {}} /\ smpl \in Samplers
  BY <1>1 DEF Swap, StageFits, ConfigTypes
<1>3. ASSUME NEW q \in Posts, q # p, post[q] # NoPost
      PROVE  post[q].new # s /\ post[q].new # smpl /\ post[q].new \in Samplers
  BY <1>1, <1>3 DEF OwnSamplers, ConfigTypes, StageFits
<1>4. /\ state' \in [Samplers -> {"free", "opening", "first", "running", "closing"}]
      /\ state'[smpl] = "closing" /\ \A t \in Samplers : t # smpl => state'[t] = state[t]
      /\ smpl' = s /\ cfg' = post[p].want /\ UNCHANGED <<holder, reads>>
  BY <1>2 DEF Swap, ConfigTypes
<1>5. /\ post'[p] = [post[p] EXCEPT !.at = "closing", !.new = smpl]
      /\ \A q \in Posts : q # p => post'[q] = post[q]
  BY DEF Swap, ConfigTypes
<1>6. post'[p] \in Underway /\ post'[p].at = "closing" /\ post'[p].new = smpl
  BY <1>1, <1>2, <1>5 DEF Underway
<1>7. ConfigTypes'
  BY <1>1, <1>4, <1>5, <1>6 DEF ConfigTypes, Swap
<1>8. ASSUME NEW q \in Posts PROVE StageFits(q)'
  <2>1. CASE q = p
    BY <1>2, <1>4, <1>6, <2>1 DEF StageFits
  <2>2. CASE q # p
    BY <1>3, <1>4, <1>5, <2>2 DEF StageFits
  <2> QED
    BY <2>1, <2>2
<1>9. OwnSamplers'
  <2> SUFFICES ASSUME NEW q \in Posts, NEW r \in Posts, post'[q] # NoPost, post'[r] # NoPost,
                      post'[q].new = post'[r].new
               PROVE  q = r
    BY DEF OwnSamplers
  <2>1. CASE q = p \/ r = p
    BY <1>3, <1>5, <1>6, <2>1
  <2>2. CASE q # p /\ r # p
    BY <1>5, <2>2 DEF OwnSamplers
  <2> QED
    BY <2>1, <2>2
<1>10. LinesAccounted'
  <2> SUFFICES ASSUME NEW i \in Inputs, holder[i] # None
               PROVE  state'[holder[i]] # "free" /\ i \in reads[holder[i]]
    BY <1>4 DEF LinesAccounted
  <2>1. holder[i] \in Samplers
    BY DEF ConfigTypes
  <2> QED
    BY <1>4, <2>1 DEF LinesAccounted
<1>11. ReaderFitsConfig'
  BY <1>2, <1>4 DEF ReaderFitsConfig
<1>12. state'[smpl'] = "running"
  BY <1>1, <1>2, <1>4
<1> QED
  BY <1>7, <1>8, <1>9, <1>10, <1>11, <1>12

(* The old sampler's lines are released.                                    *)
LEMMA CloseKeeps ==
  ASSUME ConfigInv, NEW p \in Posts, CloseOld(p)
  PROVE  ConfigInv'
<1> USE ConfigFacts, NoPostFact DEF ConfigInv
<1> DEFINE s == post[p].new
<1>1. post[p] # NoPost /\ post[p] \in Underway /\ s \in Samplers /\ s # smpl
  BY DEF CloseOld, NoPost, ConfigTypes, StageFits
<1>2. ASSUME NEW q \in Posts, q # p, post[q] # NoPost
      PROVE  post[q].new # s /\ post[q].new \in Samplers
  BY <1>1, <1>2 DEF OwnSamplers, ConfigTypes
<1>3. /\ holder' \in [Inputs -> Samplers \cup {None}]
      /\ \A i \in Inputs : holder'[i] = IF holder[i] = s THEN None ELSE holder[i]
      /\ state' \in [Samplers -> {"free", "opening", "first", "running", "closing"}]
      /\ \A t \in Samplers : t # s => state'[t] = state[t]
      /\ reads' \in [Samplers -> SUBSET Inputs]
      /\ \A t \in Samplers : t # s => reads'[t] = reads[t]
      /\ UNCHANGED <<cfg, smpl>>
  BY <1>1 DEF CloseOld, ConfigTypes
<1>4. /\ post' \in [Posts -> {NoPost} \cup Underway] /\ post'[p] = NoPost
      /\ \A q \in Posts : q # p => post'[q] = post[q]
  BY DEF CloseOld, ConfigTypes
<1>5. ConfigTypes'
  BY <1>3, <1>4 DEF ConfigTypes
<1>6. ASSUME NEW q \in Posts PROVE StageFits(q)'
  <2>1. CASE post'[q] = NoPost
    BY <2>1 DEF StageFits
  <2>2. CASE post'[q] # NoPost
    <3>1. q # p /\ post'[q] = post[q] /\ post[q].new \in Samplers /\ post[q].new # s
      BY <1>2, <1>4, <2>2
    <3> QED
      BY <1>3, <3>1 DEF StageFits
  <2> QED
    BY <2>1, <2>2
<1>7. OwnSamplers'
  BY <1>4 DEF OwnSamplers
<1>8. LinesAccounted'
  BY <1>3 DEF LinesAccounted, ConfigTypes
<1>9. state'[smpl'] = "running" /\ ReaderFitsConfig'
  BY <1>1, <1>3 DEF ReaderFitsConfig, ConfigTypes
<1> QED
  BY <1>5, <1>6, <1>7, <1>8, <1>9

(* Every step keeps the invariant.                                          *)
LEMMA ConfigStep == ConfigInv /\ [Next]_vars => ConfigInv'
<1> SUFFICES ASSUME ConfigInv, [Next]_vars PROVE ConfigInv'
  OBVIOUS
<1>1. CASE UNCHANGED vars
  BY <1>1, ConfigStutters DEF vars, panelVars
<1>2. CASE Buttons
  BY <1>2, ConfigStutters DEF Buttons, MoveContacts, panelVars
<1>3. CASE Tick
  BY <1>3, ConfigStutters DEF Tick
<1>4. CASE Sampling
  BY <1>4, ConfigStutters, StoreKeeps DEF Sampling, ReadPins
<1>5. CASE Configure
  BY <1>5, StartKeeps, OpenKeeps, NewSamplerKeeps, SwapKeeps, CloseKeeps DEF Configure
<1>6. CASE Polling
  BY <1>6, ConfigStutters DEF Polling, Ask, Answer, Receive, PollFails, Fold, panelVars
<1> QED
  BY <1>1, <1>2, <1>3, <1>4, <1>5, <1>6 DEF Next

(* The configuration invariant holds in every reachable state.              *)
LEMMA ConfigAlways == Spec => []ConfigInv
BY ConfigInit, ConfigStep, PTL DEF Spec

(* However many requests change the configuration at once, a GPIO line that *)
(* is requested belongs to a sampler in use that reads it: none is leaked   *)
(* (openGPIO, handleConfig, sampler.Close).                                 *)
THEOREM LineSafety == Spec => []LinesAccounted
<1>1. ConfigInv => LinesAccounted
  BY DEF ConfigInv
<1> QED
  BY <1>1, ConfigAlways, PTL

(* However many requests change the configuration at once, the panel reads  *)
(* every input of the configuration it reports, or none (handleConfig).     *)
THEOREM ConfigSafety == Spec => []ReaderFitsConfig
<1>1. ConfigInv => ReaderFitsConfig
  BY DEF ConfigInv
<1> QED
  BY <1>1, ConfigAlways, PTL

-----------------------------------------------------------------------------
(* How old what the panel says may be.  OkSince(r, n): no input that r      *)
(* reports released has been away from that for more than n ticks.          *)
OkSince(report, n) ==
  \A i \in Inputs : i \in DOMAIN report /\ report[i] = "ok" => downFor[i] <= n

FreshTypes ==
  /\ downFor \in [Inputs -> Nat]
  /\ taken \in [Samplers -> [on : BOOLEAN, wait : 0 .. ReadTakes, inputs : Reports]]
  /\ sample \in [Samplers -> Reports]
  /\ age \in [Samplers -> 0 .. MaxAge + 1]
  /\ poll \in [at : {"idle", "asked", "answered", "returned"}, wait : 0 .. Timeout,
               age : 0 .. MaxAge + 1, inputs : Reports]

TakenFresh(s) == taken[s].on => OkSince(taken[s].inputs, taken[s].wait)
SampleFresh(s) ==
  state[s] = "running" /\ age[s] <= MaxAge => OkSince(sample[s], age[s] + ReadTakes)
PollFresh ==
  /\ poll.at = "answered" /\ poll.age <= MaxAge
       => OkSince(poll.inputs, poll.age + ReadTakes + poll.wait)
  /\ poll.at = "returned" => OkSince(poll.inputs, MaxAge + ReadTakes + Timeout)

FreshInv ==
  /\ FreshTypes
  /\ \A i \in Inputs : pins[i] = Released => downFor[i] = 0
  /\ \A s \in Samplers : TakenFresh(s) /\ SampleFresh(s)
  /\ PollFresh

(* The clock's bounds. *)
LEMMA ClockFacts == MaxAge \in Nat /\ Timeout \in Nat /\ ReadTakes \in Nat /\ Owned \subseteq Inputs
BY PanelAssumption DEF PanelAssumption

(* Reports are functions to readings. *)
LEMMA ReportFacts ==
  /\ \A S \in SUBSET Inputs : \A f \in [S -> Readings] : f \in Reports
  /\ Empty \in Reports /\ DOMAIN Empty = {}
  /\ Faulted \in Reports /\ \A i \in Owned : Faulted[i] = "fault"
  /\ DOMAIN Faulted = Owned
<1>1. \A S \in SUBSET Inputs : \A f \in [S -> Readings] : f \in Reports
  BY DEF Reports
<1>2. Empty \in [{} -> Readings] /\ DOMAIN Empty = {}
  BY DEF Empty, Readings
<1>3. Faulted \in [Owned -> Readings]
  BY DEF Faulted, Readings
<1>4. {} \in SUBSET Inputs /\ Owned \in SUBSET Inputs
  BY ClockFacts
<1> QED
  BY <1>1, <1>2, <1>3, <1>4 DEF Faulted

(* The filter reports a released button only if the pins read released now. *)
LEMMA ReadingFacts ==
  ASSUME NEW pin, NEW t
  PROVE  ReadingOf(pin, t) \in Readings /\ (ReadingOf(pin, t) = "ok" => pin = Released)
BY DEF ReadingOf, DecodeChannels, Readings, Released, Unreadable

(* Everything is fresh at the start. *)
LEMMA FreshInit == Init => FreshInv
<1> SUFFICES ASSUME Init PROVE FreshInv
  OBVIOUS
<1> USE ClockFacts, ReportFacts, ConfigFacts DEF Init
<1>1. cfg \in SUBSET Inputs /\ [i \in cfg |-> "ok"] \in [cfg -> Readings]
  BY DEF Readings
<1>2. [i \in cfg |-> "ok"] \in Reports
  BY <1>1
<1>3. NotReading \in [on : BOOLEAN, wait : 0 .. ReadTakes, inputs : Reports]
  BY DEF NotReading
<1>4. NoPoll \in [at : {"idle", "asked", "answered", "returned"}, wait : 0 .. Timeout,
                  age : 0 .. MaxAge + 1, inputs : Reports]
  BY DEF NoPoll
<1>5. FreshTypes
  BY <1>2, <1>3, <1>4 DEF FreshTypes
<1>6. \A s \in Samplers : TakenFresh(s) /\ SampleFresh(s)
  BY DEF TakenFresh, SampleFresh, NotReading, OkSince
<1>7. PollFresh
  BY DEF PollFresh, NoPoll
<1> QED
  BY <1>5, <1>6, <1>7 DEF FreshInv

(* Contacts move, time stands still. *)
LEMMA MoveFresh ==
  ASSUME FreshInv, NEW i \in Inputs, NEW new, MoveContacts(i, new)
  PROVE  FreshInv'
<1> USE ClockFacts DEF FreshInv, MoveContacts, panelVars
<1>1. /\ downFor' \in [Inputs -> Nat]
      /\ \A j \in Inputs : downFor'[j] <= downFor[j]
  BY DEF FreshTypes
<1>2. \A j \in Inputs : pins'[j] = Released => downFor'[j] = 0
  BY DEF FreshTypes
<1>3. FreshTypes'
  BY <1>1 DEF FreshTypes
<1>4. ASSUME NEW report, NEW n \in Int, OkSince(report, n) PROVE OkSince(report, n)'
  BY <1>1, <1>4 DEF OkSince, FreshTypes
<1> QED
  BY <1>2, <1>3, <1>4 DEF TakenFresh, SampleFresh, PollFresh, FreshTypes

(* A wait that goes on changes nothing else. *)
LEMMA WaitFacts ==
  /\ \A r \in [on : BOOLEAN, wait : 0 .. ReadTakes, inputs : Reports] : r.wait < ReadTakes =>
       LET q == [r EXCEPT !.wait = r.wait + 1] IN
       /\ q \in [on : BOOLEAN, wait : 0 .. ReadTakes, inputs : Reports]
       /\ q.on = r.on /\ q.inputs = r.inputs /\ q.wait = r.wait + 1
  /\ \A r \in [at : {"idle", "asked", "answered", "returned"}, wait : 0 .. Timeout,
               age : 0 .. MaxAge + 1, inputs : Reports] : r.wait < Timeout =>
       LET q == [r EXCEPT !.wait = r.wait + 1] IN
       /\ q \in [at : {"idle", "asked", "answered", "returned"}, wait : 0 .. Timeout,
                 age : 0 .. MaxAge + 1, inputs : Reports]
       /\ q.at = r.at /\ q.age = r.age /\ q.inputs = r.inputs /\ q.wait = r.wait + 1
BY ClockFacts

(* Time passes for the buttons and for what was read of them alike.         *)
LEMMA TickFresh ==
  ASSUME FreshInv, Tick
  PROVE  FreshInv'
<1> USE ClockFacts DEF FreshInv, Tick
<1>1. /\ downFor' \in [Inputs -> Nat]
      /\ \A i \in Inputs : downFor'[i] <= downFor[i] + 1 /\ (pins'[i] = Released => downFor'[i] = 0)
  BY DEF FreshTypes, Up
<1>2. ASSUME NEW report, NEW n \in Int, OkSince(report, n) PROVE OkSince(report, n + 1)'
  BY <1>1, <1>2 DEF OkSince, FreshTypes
<1>3. ASSUME NEW s \in Samplers
      PROVE  /\ taken'[s] \in [on : BOOLEAN, wait : 0 .. ReadTakes, inputs : Reports]
             /\ taken'[s].on = taken[s].on /\ taken'[s].inputs = taken[s].inputs
             /\ taken[s].on => taken'[s].wait = taken[s].wait + 1
  <2>1. taken[s] \in [on : BOOLEAN, wait : 0 .. ReadTakes, inputs : Reports]
    BY DEF FreshTypes
  <2>2. CASE taken[s].on
    <3>1. taken'[s] = [taken[s] EXCEPT !.wait = taken[s].wait + 1] /\ taken[s].wait < ReadTakes
      BY <2>2
    <3> QED
      BY <2>1, <3>1, WaitFacts
  <2>3. CASE ~taken[s].on
    <3>1. taken'[s] = taken[s]
      BY <2>3
    <3> QED
      BY <2>1, <2>3, <3>1
  <2> QED
    BY <2>2, <2>3
<1>4. /\ poll' \in [at : {"idle", "asked", "answered", "returned"}, wait : 0 .. Timeout,
                   age : 0 .. MaxAge + 1, inputs : Reports]
      /\ poll'.at = poll.at /\ poll'.age = poll.age /\ poll'.inputs = poll.inputs
      /\ poll.at = "answered" => poll'.wait = poll.wait + 1
  <2>1. poll \in [at : {"idle", "asked", "answered", "returned"}, wait : 0 .. Timeout,
                 age : 0 .. MaxAge + 1, inputs : Reports]
    BY DEF FreshTypes
  <2>2. CASE poll.at = "idle"
    <3>1. poll' = poll
      BY <2>2
    <3> QED
      BY <2>1, <2>2, <3>1
  <2>3. CASE poll.at # "idle"
    <3>1. poll' = [poll EXCEPT !.wait = poll.wait + 1]
      BY <2>3
    <3>2. poll.at \in {"asked", "answered"}
      BY <2>1, <2>3
    <3>3. poll.wait < Timeout
      BY <3>2
    <3> QED
      BY <2>1, <3>1, <3>3, WaitFacts
  <2> QED
    BY <2>2, <2>3
<1>5. ASSUME NEW s \in Samplers
      PROVE  /\ age'[s] \in 0 .. MaxAge + 1
             /\ state[s] = "running" /\ age'[s] <= MaxAge
                  => age[s] <= MaxAge /\ age'[s] = age[s] + 1
  <2>1. age[s] \in 0 .. MaxAge + 1
    BY DEF FreshTypes
  <2>2. age'[s] = IF state[s] = "running" THEN Up(age[s], MaxAge + 1) ELSE age[s]
    OBVIOUS
  <2> QED
    BY ONLY <2>1, <2>2, ClockFacts DEF Up
<1>6. age' \in [Samplers -> 0 .. MaxAge + 1]
  BY <1>5
<1>7. taken' \in [Samplers -> [on : BOOLEAN, wait : 0 .. ReadTakes, inputs : Reports]]
  BY <1>3
<1>8. FreshTypes'
  BY <1>1, <1>4, <1>6, <1>7 DEF FreshTypes
<1>9. ASSUME NEW s \in Samplers PROVE TakenFresh(s)'
  <2> SUFFICES ASSUME taken'[s].on, NEW i \in Inputs, i \in DOMAIN taken'[s].inputs,
                      taken'[s].inputs[i] = "ok"
               PROVE  downFor'[i] <= taken'[s].wait
    BY DEF TakenFresh, OkSince
  <2>0. /\ taken[s].on /\ i \in DOMAIN taken[s].inputs /\ taken[s].inputs[i] = "ok"
        /\ taken'[s].wait = taken[s].wait + 1
    BY <1>3
  <2>1. downFor[i] <= taken[s].wait
    BY <2>0 DEF TakenFresh, OkSince
  <2>2. downFor'[i] <= downFor[i] + 1 /\ downFor[i] \in Nat /\ downFor'[i] \in Nat /\ taken[s].wait \in Nat
    BY <1>1 DEF FreshTypes
  <2> QED
    BY ONLY <2>0, <2>1, <2>2
<1>10. ASSUME NEW s \in Samplers PROVE SampleFresh(s)'
  <2>0. UNCHANGED <<state, sample>>
    OBVIOUS
  <2> SUFFICES ASSUME state[s] = "running", age'[s] <= MaxAge, NEW i \in Inputs,
                      i \in DOMAIN sample[s], sample[s][i] = "ok"
               PROVE  downFor'[i] <= age'[s] + ReadTakes
    BY <2>0 DEF SampleFresh, OkSince
  <2>1. age[s] <= MaxAge /\ age'[s] = age[s] + 1 /\ age[s] \in Nat
    BY <1>5 DEF FreshTypes
  <2>2. downFor[i] <= age[s] + ReadTakes
    BY <2>1 DEF SampleFresh, OkSince
  <2>3. downFor'[i] <= downFor[i] + 1 /\ downFor[i] \in Nat /\ downFor'[i] \in Nat
    BY <1>1 DEF FreshTypes
  <2> QED
    BY ONLY <2>1, <2>2, <2>3, ClockFacts
<1>11. PollFresh'
  BY <1>1, <1>4 DEF PollFresh, OkSince, FreshTypes
<1> QED
  BY <1>1, <1>8, <1>9, <1>10, <1>11

(* A sampler reads its pins as they are now. *)
LEMMA ReadFresh ==
  ASSUME ConfigInv, FreshInv, NEW s \in Samplers, ReadPins(s)
  PROVE  FreshInv'
<1> USE ClockFacts, ReportFacts DEF FreshInv, ReadPins
<1> DEFINE report == [i \in reads[s] |-> ReadingOf(pins[i], since[s][i])]
<1>1. reads[s] \in SUBSET Inputs
  BY DEF ConfigInv, ConfigTypes
<1>2. report \in Reports
  <2>1. report \in [reads[s] -> Readings]
    BY ReadingFacts
  <2> QED
    BY <1>1, <2>1
<1>3. OkSince(report, 0)
  <2> SUFFICES ASSUME NEW i \in Inputs, i \in reads[s], report[i] = "ok" PROVE downFor[i] <= 0
    BY DEF OkSince
  <2>1. pins[i] = Released
    BY ReadingFacts
  <2> QED
    BY <2>1 DEF FreshTypes
<1>4. /\ taken'[s].on /\ taken'[s].wait = 0 /\ taken'[s].inputs = report
      /\ \A t \in Samplers : t # s => taken'[t] = taken[t]
      /\ taken' \in [Samplers -> [on : BOOLEAN, wait : 0 .. ReadTakes, inputs : Reports]]
  <2>1. taken' = [taken EXCEPT ![s] = [on |-> TRUE, wait |-> 0, inputs |-> report]]
    OBVIOUS
  <2> HIDE DEF report
  <2>2. [on |-> TRUE, wait |-> 0, inputs |-> report] \in
          [on : BOOLEAN, wait : 0 .. ReadTakes, inputs : Reports]
    BY <1>2
  <2>3. taken \in [Samplers -> [on : BOOLEAN, wait : 0 .. ReadTakes, inputs : Reports]]
    BY DEF FreshTypes
  <2>4. s \in Samplers
    OBVIOUS
  <2> QED
    BY ONLY <2>1, <2>2, <2>3, <2>4
<1>5. UNCHANGED <<pins, downFor, state, sample, age, poll>>
  OBVIOUS
<1>6. FreshTypes'
  BY <1>4, <1>5 DEF FreshTypes
<1>7. ASSUME NEW t \in Samplers PROVE TakenFresh(t)' /\ SampleFresh(t)'
  <2>1. CASE t = s
    BY <1>3, <1>4, <1>5, <2>1 DEF TakenFresh, SampleFresh, OkSince
  <2>2. CASE t # s
    BY <1>4, <1>5, <2>2 DEF TakenFresh, SampleFresh, OkSince
  <2> QED
    BY <2>1, <2>2
<1>8. PollFresh'
  BY <1>5 DEF PollFresh, OkSince
<1> QED
  BY <1>5, <1>6, <1>7, <1>8

(* A sample is stamped at most ReadTakes ticks after its pins were read.    *)
LEMMA StoreFresh ==
  ASSUME FreshInv, ConfigInv, NEW s \in Samplers, StoreSample(s)
  PROVE  FreshInv'
<1> USE ClockFacts, ReportFacts DEF FreshInv, StoreSample
<1>1. taken[s] \in [on : BOOLEAN, wait : 0 .. ReadTakes, inputs : Reports] /\ taken[s].on
  BY DEF FreshTypes
<1>2. OkSince(taken[s].inputs, taken[s].wait) /\ taken[s].wait <= ReadTakes /\ taken[s].wait \in Nat
  BY <1>1 DEF TakenFresh
<1>3. OkSince(taken[s].inputs, 0 + ReadTakes)
  BY <1>2 DEF OkSince, FreshTypes
<1>4. /\ taken' \in [Samplers -> [on : BOOLEAN, wait : 0 .. ReadTakes, inputs : Reports]]
      /\ ~taken'[s].on /\ \A t \in Samplers : t # s => taken'[t] = taken[t]
  BY DEF FreshTypes, NotReading
<1>5. /\ sample' \in [Samplers -> Reports] /\ age' \in [Samplers -> 0 .. MaxAge + 1]
      /\ \A t \in Samplers : t # s => sample'[t] = sample[t] /\ age'[t] = age[t] /\ state'[t] = state[t]
      /\ UNCHANGED <<pins, downFor, poll>>
  <2>1. taken[s].inputs \in Reports /\ 0 \in 0 .. MaxAge + 1
    BY <1>1
  <2>2. sample' \in [Samplers -> Reports] /\ \A t \in Samplers : t # s => sample'[t] = sample[t]
    BY <2>1 DEF FreshTypes
  <2>3. age' \in [Samplers -> 0 .. MaxAge + 1] /\ \A t \in Samplers : t # s => age'[t] = age[t]
    BY <2>1 DEF FreshTypes
  <2>4. \A t \in Samplers : t # s => state'[t] = state[t]
    BY DEF ConfigInv, ConfigTypes
  <2> QED
    BY <2>2, <2>3, <2>4
<1>6. state'[s] = "running" => sample'[s] = taken[s].inputs /\ age'[s] = 0
  BY DEF FreshTypes, ConfigInv, ConfigTypes
<1>7. FreshTypes'
  BY <1>4, <1>5 DEF FreshTypes
<1>8. ASSUME NEW t \in Samplers PROVE TakenFresh(t)' /\ SampleFresh(t)'
  <2>1. CASE t = s
    BY <1>3, <1>4, <1>5, <1>6, <2>1 DEF TakenFresh, SampleFresh, OkSince
  <2>2. CASE t # s
    BY <1>4, <1>5, <2>2 DEF TakenFresh, SampleFresh, OkSince
  <2> QED
    BY <2>1, <2>2
<1>9. PollFresh'
  BY <1>5 DEF PollFresh, OkSince
<1> QED
  BY <1>5, <1>7, <1>8, <1>9

(* The stages of a request leave every sample as fresh as it was. *)
LEMMA ConfigureFresh ==
  ASSUME FreshInv, ConfigInv, Configure
  PROVE  FreshInv'
<1> USE ClockFacts, ReportFacts, NoPostFact DEF FreshInv
<1>1. UNCHANGED <<pins, downFor, taken, poll>>
  BY DEF Configure, StartPost, OpenLine, NewSampler, Swap, CloseOld
<1>2. /\ sample' \in [Samplers -> Reports] /\ age' \in [Samplers -> 0 .. MaxAge + 1]
      /\ \A s \in Samplers : state'[s] = "running" =>
           state[s] = "running" /\ sample'[s] = sample[s] /\ age'[s] = age[s]
  <2> USE DEF ConfigInv, ConfigTypes, FreshTypes
  <2>1. ASSUME NEW p \in Posts, NEW want \in Configs, NEW s \in Samplers, StartPost(p, want, s)
        PROVE  <1>2
    BY <2>1 DEF StartPost
  <2>2. ASSUME NEW p \in Posts, OpenLine(p) PROVE <1>2
    BY <2>2 DEF OpenLine
  <2>3. ASSUME NEW p \in Posts, NewSampler(p) PROVE <1>2
    BY <2>3 DEF NewSampler
  <2>4. ASSUME NEW p \in Posts, Swap(p) PROVE <1>2
    BY <2>4 DEF Swap, Retire
  <2>5. ASSUME NEW p \in Posts, CloseOld(p) PROVE <1>2
    BY <2>5 DEF CloseOld
  <2> QED
    BY <2>1, <2>2, <2>3, <2>4, <2>5 DEF Configure
<1>3. FreshTypes'
  BY <1>1, <1>2 DEF FreshTypes
<1>4. ASSUME NEW s \in Samplers PROVE TakenFresh(s)' /\ SampleFresh(s)'
  BY <1>1, <1>2 DEF TakenFresh, SampleFresh, OkSince
<1>5. PollFresh'
  BY <1>1 DEF PollFresh, OkSince
<1> QED
  BY <1>1, <1>3, <1>4, <1>5

(* An answer is as old as it says, and waits no longer than Timeout.        *)
LEMMA PollingFresh ==
  ASSUME FreshInv, ConfigInv, Polling
  PROVE  FreshInv'
<1> USE ClockFacts, ReportFacts DEF FreshInv
<1>1. UNCHANGED <<pins, downFor, state, taken, sample, age>>
  BY DEF Polling, Ask, Answer, Receive, PollFails, Fold, panelVars
<1>2. \A s \in Samplers : TakenFresh(s)' /\ SampleFresh(s)'
  BY <1>1 DEF TakenFresh, SampleFresh, OkSince
<1> DEFINE Polls == [at : {"idle", "asked", "answered", "returned"}, wait : 0 .. Timeout,
                     age : 0 .. MaxAge + 1, inputs : Reports]
<1>3. poll \in Polls /\ poll.inputs \in Reports
  BY DEF FreshTypes
<1>4. SUFFICES poll' \in Polls /\ PollFresh'
  BY <1>1, <1>2 DEF FreshTypes
<1>5. CASE Ask \/ Fold
  <2>1. /\ [NoPoll EXCEPT !.at = "asked"] \in Polls /\ NoPoll \in Polls
        /\ [NoPoll EXCEPT !.at = "asked"].at = "asked" /\ NoPoll.at = "idle"
    BY DEF NoPoll
  <2> QED
    BY <1>5, <2>1 DEF Ask, Fold, PollFresh
<1>6. CASE Answer
  <2>1. /\ poll'.at = "answered" /\ poll'.wait = poll.wait
        /\ poll'.age = age[smpl] /\ poll'.inputs = sample[smpl]
    BY <1>3, <1>6 DEF Answer
  <2>2. smpl \in Samplers /\ state[smpl] = "running" /\ sample[smpl] \in Reports
        /\ age[smpl] \in 0 .. MaxAge + 1
    BY DEF ConfigInv, ConfigTypes, FreshTypes
  <2>3. poll' \in Polls
    BY <1>3, <1>6, <2>2 DEF Answer
  <2>4. poll.wait \in Nat
    BY <1>3
  <2>5. ASSUME age[smpl] <= MaxAge
        PROVE  OkSince(sample[smpl], age[smpl] + ReadTakes + poll.wait)
    <3>1. OkSince(sample[smpl], age[smpl] + ReadTakes)
      BY <2>2, <2>5 DEF SampleFresh
    <3> QED
      BY <2>2, <2>4, <3>1 DEF OkSince, FreshTypes
  <2> QED
    BY <1>1, <2>1, <2>3, <2>5 DEF PollFresh, OkSince
<1>7. ASSUME NEW inputs \in Reports, Return(inputs), OkSince(inputs, MaxAge + ReadTakes + Timeout)
      PROVE  poll' \in Polls /\ PollFresh'
  <2>1. poll' = [at |-> "returned", wait |-> 0, age |-> 0, inputs |-> inputs]
    BY <1>7 DEF Return, NoPoll
  <2>2. poll' \in Polls /\ poll'.at = "returned" /\ poll'.inputs = inputs
    BY ONLY <2>1, <1>7, ClockFacts
  <2> QED
    BY <1>1, <1>7, <2>2 DEF PollFresh, OkSince
<1>8. OkSince(Faulted, MaxAge + ReadTakes + Timeout)
  BY DEF OkSince
<1>9. CASE Receive
  <2>1. CASE poll.age > MaxAge \/ poll.inputs = Empty
    BY <1>7, <1>8, <1>9, <2>1 DEF Receive, Believed
  <2>2. CASE ~(poll.age > MaxAge \/ poll.inputs = Empty)
    <3>1. OkSince(poll.inputs, poll.age + ReadTakes + poll.wait) /\ poll.age <= MaxAge
      BY <1>3, <1>9, <2>2 DEF Receive, PollFresh
    <3>2. OkSince(poll.inputs, MaxAge + ReadTakes + Timeout)
      BY <1>3, <3>1 DEF OkSince, FreshTypes
    <3> QED
      BY <1>3, <1>7, <1>9, <2>2, <3>2 DEF Receive, Believed
  <2> QED
    BY <2>1, <2>2
<1>10. CASE PollFails
  BY <1>7, <1>8, <1>10 DEF PollFails
<1> QED
  BY <1>5, <1>6, <1>9, <1>10 DEF Polling

(* Every step keeps what is known of the past. *)
LEMMA FreshStep == ConfigInv /\ FreshInv /\ [Next]_vars => FreshInv'
<1> SUFFICES ASSUME ConfigInv, FreshInv, [Next]_vars PROVE FreshInv'
  OBVIOUS
<1>1. CASE UNCHANGED vars
  BY <1>1 DEF vars, panelVars, FreshInv, FreshTypes, TakenFresh, SampleFresh, PollFresh, OkSince
<1>2. CASE Buttons
  BY <1>2, MoveFresh DEF Buttons
<1>3. CASE Tick
  BY <1>3, TickFresh
<1>4. CASE Sampling
  BY <1>4, ReadFresh, StoreFresh DEF Sampling
<1>5. CASE Configure
  BY <1>5, ConfigureFresh
<1>6. CASE Polling
  BY <1>6, PollingFresh
<1> QED
  BY <1>1, <1>2, <1>3, <1>4, <1>5, <1>6 DEF Next

(* Whatever the age limit, the timeout, the filter's window and the number  *)
(* of samplers and requests, no answer the controller believes reports a    *)
(* button released that has been away from it for MaxAge + Timeout +        *)
(* ReadTakes ticks and one more (NetworkEStopPanel.Poll, sampler.snapshot). *)
THEOREM PressSafety == Spec => []HeldPressSeen
<1>1. ConfigInv /\ FreshInv => HeldPressSeen
  <2> SUFFICES ASSUME ConfigInv, FreshInv, poll.at = "returned", NEW i \in DOMAIN poll.inputs,
                      downFor[i] = DownBound, poll.inputs[i] = "ok"
               PROVE  FALSE
    BY DEF HeldPressSeen
  <2>1. poll.inputs \in Reports
    BY DEF FreshInv, FreshTypes
  <2>2. i \in Inputs
    BY <2>1 DEF Reports
  <2>3. downFor[i] <= MaxAge + ReadTakes + Timeout
    BY <2>2 DEF FreshInv, PollFresh, OkSince
  <2> QED
    BY <2>3, ClockFacts DEF DownBound
<1>2. Spec => []FreshInv
  BY FreshInit, FreshStep, ConfigAlways, PTL DEF Spec
<1> QED
  BY <1>1, <1>2, ConfigAlways, PTL
=============================================================================
