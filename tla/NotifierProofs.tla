--------------------------- MODULE NotifierProofs ---------------------------
(***************************************************************************)
(* Proofs about Notifier, for any pages, notifiers, callers of Notify and  *)
(* size of the buffers: a page that keeps up has the last state announced  *)
(* before its eyes or on its way (IInv); and, for any timeouts of which    *)
(* the notifier's is more than twice that of a write, no channel is given  *)
(* up but one of a page that is still written to, and from which nothing   *)
(* was read since it was first found full (BackstopFits).                  *)
(***************************************************************************)
EXTENDS Notifier, SequenceTheorems, TLAPS

Listeners ==
  [mapped : BOOLEAN, open : BOOLEAN, queue : Seq(Nat), blocked : Nat \cup {Keeping},
   taken : BOOLEAN, served : BOOLEAN]
Bodies == [topic : Int, body : Int]
Types ==
  /\ version \in [Topics -> Nat] /\ last \in [Topics -> Nat]
  /\ call \in [Callers -> [topic : Topics, body : Nat] \cup {Nothing}]
  /\ listener \in [Clients -> [Topics -> Listeners]]
  /\ link \in [Clients -> {"up", "lost", "full", "closed"}]
  /\ stage \in [Clients -> {"listen", "boot", "serve", "left"}]
  /\ next \in [Clients -> Nat \ {0}]
  /\ out \in [Clients -> Bodies] /\ reply \in [Clients -> Bodies]
  /\ shown \in [Clients -> [Topics -> Int]]
  /\ DOMAIN lock = Clients

(* No message is of a state that is still to come. *)
NoneIsAhead ==
  /\ \A t \in Topics : last[t] <= version[t]
  /\ \A w \in Callers : call[w] # Nothing => call[w].body <= version[call[w].topic]

(* What has the write mutex of a page, or waits for it, has something to    *)
(* write.                                                                   *)
Queued(l, writing, answering) ==
  \/ ~writing /\ ~answering /\ l = <<>>
  \/ writing /\ ~answering /\ l = <<"out">>
  \/ ~writing /\ answering /\ l = <<"reply">>
  \/ writing /\ answering /\ l \in {<<"out", "reply">>, <<"reply", "out">>}
LockFits == \A c \in Clients : Queued(lock[c], out[c] # Nothing, reply[c] # Nothing)

(* How far a page's goroutine has come. *)
StageFits ==
  \A c \in Clients :
    /\ stage[c] \in {"listen", "boot"} => next[c] \in Topics
    /\ stage[c] = "listen" => out[c] = Nothing
    /\ stage[c] = "boot" /\ out[c] # Nothing => out[c].topic = next[c]
    /\ stage[c] = "serve" => next[c] > Notifiers
    /\ stage[c] = "left" => link[c] = "closed"
    /\ reply[c] # Nothing => reply[c].topic \in Answered
NotYet(c, t) == next[c] < t \/ (next[c] = t /\ stage[c] = "listen")
NotYetMapped ==
  \A c \in Clients, t \in Topics : NotYet(c, t) /\ stage[c] # "left" =>
    ~listener[c][t].mapped /\ listener[c][t].queue = <<>>

Kept == Topics \ Answered
Keeps(c, t) ==
  /\ listener[c][t].mapped /\ listener[c][t].open /\ listener[c][t].blocked = Keeping
  /\ link[c] = "up"

(* The last message in a channel that was not full for it is the one        *)
(* offered last; when the channel is empty, what is written to the page or  *)
(* else what it shows is that message, or the state when it subscribed.     *)
Recent(t, body) == last[t] <= body /\ body <= version[t]
Current(c, t) ==
  LET queue == listener[c][t].queue IN
  Keeps(c, t) =>
    /\ queue # <<>> => queue[Len(queue)] = last[t]
    /\ queue = <<>> /\ out[c].topic = t => Recent(t, out[c].body)
    /\ queue = <<>> /\ out[c].topic # t /\ next[c] > t => Recent(t, shown[c][t])

IInv ==
  /\ Types /\ NoneIsAhead /\ LockFits /\ StageFits /\ NotYetMapped
  /\ \A c \in Clients, t \in Kept : Current(c, t)

-----------------------------------------------------------------------------
LEMMA NothingIsTyped ==
  /\ Nothing \in Bodies /\ Ping \in Bodies /\ Nothing # Ping
  /\ Nothing.topic = 0 /\ Ping.topic = -1
  /\ \A t \in Int, b \in Int : [topic |-> t, body |-> b] \in Bodies
BY DEF Nothing, Ping, Bodies

LEMMA InitIInv == Init => IInv
<1> SUFFICES ASSUME Init PROVE IInv
  OBVIOUS
<1> USE NotifierAssumption, NothingIsTyped DEF Init
<1>1. NoListener \in Listeners /\ ~NoListener.mapped /\ NoListener.queue = <<>>
  BY DEF NoListener, Listeners, Keeping
<1>2. Types
  BY <1>1 DEF Types, Topics
<1>3. NoneIsAhead
  BY DEF NoneIsAhead, Topics
<1>4. LockFits /\ StageFits
  BY DEF LockFits, StageFits, Queued, Topics
<1>5. NotYetMapped /\ \A c \in Clients, t \in Kept : Current(c, t)
  BY <1>1 DEF NotYetMapped, Current, Keeps, Kept
<1> QED
  BY <1>2, <1>3, <1>4, <1>5 DEF IInv

(* The queue at the write mutex. *)
Writers == {"out", "reply"}
LEMMA ShortSequences ==
  ASSUME NEW x \in Writers, NEW y \in Writers
  PROVE  /\ Append(<<>>, x) = <<x>> /\ Append(<<x>>, y) = <<x, y>>
         /\ Head(<<x>>) = x /\ Tail(<<x>>) = <<>>
         /\ Head(<<x, y>>) = x /\ Tail(<<x, y>>) = <<y>>
<1>1. Append(<<>>, x) = <<x>> /\ Append(<<x>>, y) = <<x, y>>
  <2>1. /\ Append(<<>>, x) \in Seq(Writers) /\ Len(Append(<<>>, x)) = 1 /\ Append(<<>>, x)[1] = x
        /\ <<x>> \in Seq(Writers) /\ Len(<<x>>) = 1 /\ <<x>>[1] = x
    BY AppendProperties, EmptySeq
  <2>2. Append(<<>>, x) = <<x>>
    BY <2>1, SeqEqual
  <2>3. /\ Append(<<x>>, y) \in Seq(Writers) /\ Len(Append(<<x>>, y)) = 2
        /\ Append(<<x>>, y)[1] = x /\ Append(<<x>>, y)[2] = y
    BY <2>1, AppendProperties
  <2>4. /\ <<x, y>> \in Seq(Writers) /\ Len(<<x, y>>) = 2 /\ <<x, y>>[1] = x /\ <<x, y>>[2] = y
    OBVIOUS
  <2>5. \A i \in 1 .. 2 : Append(<<x>>, y)[i] = <<x, y>>[i]
    BY <2>3, <2>4
  <2>6. Append(<<x>>, y) = <<x, y>>
    BY <2>3, <2>4, <2>5, SeqEqual
  <2> QED
    BY <2>2, <2>6
<1>2. Head(<<x>>) = x /\ Head(<<x, y>>) = x
  OBVIOUS
<1>3. <<x>> \in Seq(Writers) /\ <<x, y>> \in Seq(Writers) /\ <<y>> \in Seq(Writers)
  OBVIOUS
<1>4. Len(<<x>>) = 1 /\ Len(<<x, y>>) = 2 /\ Len(<<y>>) = 1 /\ <<x>> # <<>> /\ <<x, y>> # <<>>
  OBVIOUS
<1>5. Tail(<<x>>) = <<>>
  <2>1. Tail(<<x>>) \in Seq(Writers) /\ Len(Tail(<<x>>)) = 0
    BY <1>3, <1>4, HeadTailProperties
  <2> QED
    BY <2>1, EmptySeq
<1>6. Tail(<<x, y>>) = <<y>>
  <2>1. /\ Tail(<<x, y>>) \in Seq(Writers) /\ Len(Tail(<<x, y>>)) = 1
        /\ \A i \in 1 .. 1 : Tail(<<x, y>>)[i] = <<x, y>>[i + 1]
    BY <1>3, <1>4, HeadTailProperties
  <2>2. Tail(<<x, y>>)[1] = <<x, y>>[2] /\ <<x, y>>[2] = y /\ <<y>>[1] = y
    BY <2>1
  <2>3. \A i \in 1 .. Len(Tail(<<x, y>>)) : Tail(<<x, y>>)[i] = <<y>>[i]
    BY <2>1, <2>2
  <2> QED
    BY <1>3, <1>4, <2>1, <2>3, SeqEqual
<1> QED
  BY <1>1, <1>2, <1>5, <1>6
LEMMA LockGrows ==
  ASSUME NEW l, NEW a \in BOOLEAN, NEW b \in BOOLEAN, Queued(l, a, b)
  PROVE  /\ ~a => Queued(Append(l, "out"), TRUE, b)
         /\ ~b => Queued(Append(l, "reply"), a, TRUE)
<1>1. "out" \in Writers /\ "reply" \in Writers
  BY DEF Writers
<1>2. ~a => Queued(Append(l, "out"), TRUE, b)
  BY <1>1, ShortSequences DEF Queued
<1>3. ~b => Queued(Append(l, "reply"), a, TRUE)
  BY <1>1, ShortSequences DEF Queued
<1> QED
  BY <1>2, <1>3
LEMMA LockShrinks ==
  ASSUME NEW l, NEW a \in BOOLEAN, NEW b \in BOOLEAN, Queued(l, a, b), l # <<>>
  PROVE  /\ Head(l) \in {"out", "reply"}
         /\ Head(l) = "out" => a /\ Queued(Tail(l), FALSE, b)
         /\ Head(l) = "reply" => b /\ Queued(Tail(l), a, FALSE)
<1>1. "out" \in Writers /\ "reply" \in Writers /\ "out" # "reply"
  BY DEF Writers
<1>2. CASE l = <<"out">> /\ a /\ ~b
  BY <1>1, <1>2, ShortSequences DEF Queued
<1>3. CASE l = <<"reply">> /\ ~a /\ b
  BY <1>1, <1>3, ShortSequences DEF Queued
<1>4. CASE l = <<"out", "reply">> /\ a /\ b
  BY <1>1, <1>4, ShortSequences DEF Queued
<1>5. CASE l = <<"reply", "out">> /\ a /\ b
  BY <1>1, <1>5, ShortSequences DEF Queued
<1> QED
  BY <1>2, <1>3, <1>4, <1>5 DEF Queued
(* What is said of a page and a notifier goes on for as long as the channel,*)
(* the message to the page and what it shows stay as they are.              *)
LEMMA Undisturbed ==
  ASSUME Types, Types', NEW c \in Clients, NEW t \in Kept, Current(c, t),
         Keeps(c, t)' => Keeps(c, t) /\ listener'[c][t].queue = listener[c][t].queue,
         out'[c] = out[c] \/ (out[c].topic # t /\ out'[c].topic # t), next'[c] = next[c],
         shown'[c][t] = shown[c][t], last'[t] = last[t], version'[t] >= version[t]
  PROVE  Current(c, t)'
<1>1. t \in Topics
  BY DEF Kept
<1>2. version[t] \in Nat /\ version'[t] \in Nat /\ last[t] \in Nat
  BY <1>1 DEF Types
<1>3. out[c].body \in Int /\ shown[c][t] \in Int
  BY <1>1 DEF Types, Bodies
<1> QED
  BY <1>2, <1>3 DEF Current, Recent
-----------------------------------------------------------------------------
(* What changes no channel, no connection and nothing that is written keeps *)
(* all parts of the invariant but the types and the order of the versions.  *)
LEMMA PagesUnchanged ==
  ASSUME IInv, Types', UNCHANGED <<listener, link, stage, next, out, reply, lock, shown, last>>,
         \A t \in Topics : version'[t] >= version[t]
  PROVE  LockFits' /\ StageFits' /\ NotYetMapped' /\ \A c \in Clients, t \in Kept : Current(c, t)'
<1> USE DEF IInv
<1>1. LockFits' /\ StageFits'
  BY DEF LockFits, StageFits
<1>2. NotYetMapped'
  BY DEF NotYetMapped, NotYet
<1>3. ASSUME NEW c \in Clients, NEW t \in Kept PROVE Current(c, t)'
  <2>1. t \in Topics
    BY DEF Kept
  <2> QED
    BY <2>1, Undisturbed DEF Keeps
<1> QED
  BY <1>1, <1>2, <1>3

LEMMA ChangeRaises ==
  ASSUME Types, NEW t \in Topics, Change(t)
  PROVE  /\ version' \in [Topics -> Nat] /\ version'[t] = version[t] + 1
         /\ \A u \in Topics : version'[u] >= version[u]
BY DEF Types, Change

LEMMA NotifyBegins ==
  ASSUME IInv, NEW w \in Callers, NEW t \in Topics,
         call' = [call EXCEPT ![w] = [topic |-> t, body |-> version'[t]]],
         version' \in [Topics -> Nat], \A u \in Topics : version'[u] >= version[u],
         UNCHANGED <<last, listener, link, readerVars, reply, writeVars, shown>>
  PROVE  IInv'
<1> USE DEF IInv, Types, readerVars, writeVars
<1>1. Types'
  OBVIOUS
<1>2. NoneIsAhead'
  <2>1. \A u \in Topics : last'[u] <= version'[u]
    BY DEF NoneIsAhead
  <2>2. ASSUME NEW v \in Callers, call'[v] # Nothing PROVE call'[v].body <= version'[call'[v].topic]
    <3>1. CASE v = w
      BY <3>1
    <3>2. CASE v # w
      <4>1. call'[v] = call[v] /\ call[v].topic \in Topics /\ call[v].body \in Nat
        BY <2>2, <3>2
      <4> QED
        BY <4>1, <2>2 DEF NoneIsAhead
    <3> QED
      BY <3>1, <3>2
  <2> QED
    BY <2>1, <2>2 DEF NoneIsAhead
<1> QED
  BY <1>1, <1>2, PagesUnchanged

LEMMA ChangeKeepsIInv ==
  ASSUME IInv, NEW t \in Topics, Change(t),
         UNCHANGED <<last, call, listener, link, readerVars, reply, writeVars, shown>>
  PROVE  IInv'
<1> USE ChangeRaises DEF IInv
<1>1. Types'
  BY DEF Types, readerVars, writeVars
<1>2. NoneIsAhead'
  <2>1. \A u \in Topics : last'[u] <= version'[u]
    BY DEF NoneIsAhead, Types
  <2>2. ASSUME NEW v \in Callers, call'[v] # Nothing PROVE call'[v].body <= version'[call'[v].topic]
    <3>1. call'[v] = call[v] /\ call[v].topic \in Topics /\ call[v].body \in Nat
      BY <2>2 DEF Types
    <3> QED
      BY <3>1, <2>2 DEF NoneIsAhead, Types
  <2> QED
    BY <2>1, <2>2 DEF NoneIsAhead
<1> QED
  BY <1>1, <1>2, PagesUnchanged DEF readerVars, writeVars
(* A message is offered to all channels: it becomes the last of those that  *)
(* are not full.                                                            *)
LEMMA OfferedIs ==
  ASSUME NEW l \in Listeners, NEW body \in Nat
  PROVE  /\ Offered(l, body) \in Listeners
         /\ Offered(l, body).mapped => l.mapped
         /\ Offered(l, body).open = l.open
         /\ ~l.mapped => Offered(l, body) = l
         /\ Offered(l, body).mapped /\ Offered(l, body).open /\ Offered(l, body).blocked = Keeping =>
              LET queue == Offered(l, body).queue IN queue # <<>> /\ queue[Len(queue)] = body
<1> USE NotifierAssumption
<1>1. Accepted(l, body) \in Listeners
  BY AppendProperties DEF Accepted, Listeners, Keeping
<1>2. LET queue == Accepted(l, body).queue IN queue # <<>> /\ queue[Len(queue)] = body
  <2>1. l.queue \in Seq(Nat)
    BY DEF Listeners
  <2>2. Accepted(l, body).queue = Append(l.queue, body)
    BY DEF Accepted, Listeners
  <2>3. /\ Len(Append(l.queue, body)) = Len(l.queue) + 1 /\ Len(l.queue) \in Nat
        /\ Append(l.queue, body)[Len(l.queue) + 1] = body
    BY <2>1, AppendProperties, LenProperties
  <2>4. Append(l.queue, body) # <<>>
    <3>1. Len(<<>>) = 0
      OBVIOUS
    <3>2. Len(Append(l.queue, body)) # 0
      BY <2>3
    <3> QED
      BY <3>1, <3>2
  <2> QED
    BY <2>2, <2>3, <2>4
<1>3. Accepted(l, body).mapped = l.mapped /\ Accepted(l, body).open = l.open
  BY DEF Accepted, Listeners
<1>4. Refused(l) \in Listeners /\ Refused(l).blocked # Keeping /\ Refused(l).open = l.open
  <2> DEFINE spell == IF l.blocked = Keeping THEN [l EXCEPT !.blocked = 0] ELSE l
  <2>1. spell \in Listeners /\ spell.blocked \in Nat /\ spell.open = l.open
    BY DEF Listeners, Keeping
  <2>2. Refused(l) = [spell EXCEPT !.mapped = spell.blocked < Patience]
    BY DEF Refused
  <2> HIDE DEF spell
  <2>3. (spell.blocked < Patience) \in BOOLEAN
    BY <2>1
  <2>4. Refused(l) \in Listeners
    BY <2>1, <2>2, <2>3 DEF Listeners
  <2>5. Refused(l).blocked = spell.blocked /\ Refused(l).open = spell.open
    BY <2>1, <2>2 DEF Listeners
  <2> QED
    BY <2>1, <2>4, <2>5 DEF Keeping
<1>5. Reaped(l) \in Listeners /\ ~Reaped(l).mapped /\ Reaped(l).open = l.open
  BY DEF Reaped, Listeners
<1> QED
  BY <1>1, <1>2, <1>3, <1>4, <1>5 DEF Offered

LEMMA NotifyKeepsIInv ==
  ASSUME IInv, NEW w \in Callers, NotifyWithMessage(w)
  PROVE  IInv'
<1> DEFINE topic == call[w].topic
           body == call[w].body
<1> USE DEF IInv
<1>1. topic \in Topics /\ body \in Nat /\ body <= version[topic]
  BY DEF NotifyWithMessage, Types, NoneIsAhead
<1>2. /\ last' = [last EXCEPT ![topic] = body] /\ call' = [call EXCEPT ![w] = Nothing]
      /\ UNCHANGED <<version, link, readerVars, reply, writeVars, shown>>
  BY DEF NotifyWithMessage
<1>3. ASSUME NEW c \in Clients, NEW t \in Topics
      PROVE  /\ listener[c][t] \in Listeners
             /\ listener'[c][t] = IF t = topic THEN Offered(listener[c][t], body) ELSE listener[c][t]
  BY <1>1 DEF NotifyWithMessage, Types
<1>4. ASSUME NEW c \in Clients, NEW t \in Topics
      PROVE  listener'[c][t] \in Listeners /\ (~listener[c][t].mapped => listener'[c][t] = listener[c][t])
  BY <1>1, <1>3, OfferedIs
<1>5. Types'
  <2>1. listener' \in [Clients -> [Topics -> Listeners]]
    <3>1. listener' = [c \in Clients |-> [listener[c] EXCEPT ![topic] = Offered(@, body)]]
      BY DEF NotifyWithMessage
    <3>2. ASSUME NEW c \in Clients PROVE listener'[c] \in [Topics -> Listeners]
      BY <3>1, <1>1, <1>4 DEF Types
    <3> QED
      BY <3>1, <3>2
  <2> QED
    BY <1>1, <1>2, <2>1 DEF Types, readerVars, writeVars
<1>6. NoneIsAhead'
  BY <1>1, <1>2 DEF NoneIsAhead, Types
<1>7. LockFits' /\ StageFits'
  BY <1>2 DEF LockFits, StageFits, readerVars, writeVars
<1>8. NotYetMapped'
  BY <1>2, <1>4 DEF NotYetMapped, NotYet, readerVars
<1>9. ASSUME NEW c \in Clients, NEW t \in Kept PROVE Current(c, t)'
  <2>1. t \in Topics
    BY DEF Kept
  <2>2. CASE t = topic
    <3>1. Keeps(c, t)' => LET queue == listener'[c][t].queue IN queue # <<>> /\ queue[Len(queue)] = body
      BY <1>1, <1>3, <2>1, <2>2, OfferedIs DEF Keeps
    <3>2. last'[t] = body
      BY <1>1, <1>2, <2>2 DEF Types
    <3> QED
      BY <3>1, <3>2 DEF Current
  <2>3. CASE t # topic
    <3>1. listener'[c][t] = listener[c][t] /\ last'[t] = last[t]
      BY <1>2, <1>3, <2>1, <2>3 DEF Types
    <3>2. /\ Keeps(c, t)' => Keeps(c, t) /\ listener'[c][t].queue = listener[c][t].queue
          /\ out'[c] = out[c] /\ next'[c] = next[c] /\ shown'[c][t] = shown[c][t]
      BY <1>2, <3>1 DEF Keeps, readerVars
    <3>3. version'[t] = version[t] /\ version[t] \in Nat /\ Current(c, t)
      BY <1>2, <2>1 DEF Types
    <3> QED
      BY <1>5, <3>1, <3>2, <3>3, Undisturbed
  <2> QED
    BY <2>2, <2>3
<1> QED
  BY <1>5, <1>6, <1>7, <1>8, <1>9
-----------------------------------------------------------------------------
(* A page subscribes to its next notifier, whose channel is empty.          *)
LEMMA ListenKeepsIInv ==
  ASSUME IInv, NEW c \in Clients, Listen(c)
  PROVE  IInv'
<1> USE DEF IInv
<1>1. /\ stage[c] = "listen" /\ stage' = [stage EXCEPT ![c] = "boot"] /\ next[c] \in Topics
      /\ out[c] = Nothing
      /\ UNCHANGED <<topicVars, call, link, next, out, reply, writeVars, shown>>
  BY DEF Listen, StageFits
<1>2. ASSUME NEW d \in Clients, NEW t \in Topics
      PROVE  /\ listener[d][t] \in Listeners /\ listener'[d][t] \in Listeners
             /\ d # c \/ t # next[c] => listener'[d][t] = listener[d][t]
             /\ listener'[d][t].queue = listener[d][t].queue
  <2>1. listener[d][t] \in Listeners
    BY DEF Types
  <2>2. /\ listener' = [listener EXCEPT ![c] = [listener[c] EXCEPT ![next[c]] =
                           [listener[c][next[c]] EXCEPT !.mapped = TRUE]]]
        /\ listener \in [Clients -> [Topics -> Listeners]]
    BY DEF Listen, Subscribed, Types
  <2>3. CASE d = c /\ t = next[c]
    <3>1. listener'[d][t] = [listener[d][t] EXCEPT !.mapped = TRUE]
      BY <1>1, <2>2, <2>3
    <3> QED
      BY <2>1, <2>3, <3>1 DEF Listeners
  <2>4. CASE ~(d = c /\ t = next[c])
    <3>1. listener'[d][t] = listener[d][t]
      BY <1>1, <2>2, <2>4
    <3> QED
      BY <2>1, <2>4, <3>1
  <2> QED
    BY <2>3, <2>4
<1>3. Types'
  <2>1. listener' \in [Clients -> [Topics -> Listeners]]
    BY <1>1, <1>2 DEF Listen, Subscribed, Types
  <2> QED
    BY <1>1, <2>1 DEF Types, topicVars, writeVars
<1>4. NoneIsAhead' /\ LockFits'
  BY <1>1 DEF NoneIsAhead, LockFits, topicVars, writeVars
<1>7. StageFits'
  BY <1>1 DEF StageFits, Types
<1>5. NotYetMapped'
  <2> SUFFICES ASSUME NEW d \in Clients, NEW t \in Topics, NotYet(d, t)', stage'[d] # "left"
               PROVE  ~listener'[d][t].mapped /\ listener'[d][t].queue = <<>>
    BY DEF NotYetMapped
  <2>1. next[d] \in Nat /\ t \in Nat
    BY DEF Types, Topics
  <2>2. NotYet(d, t) /\ stage[d] # "left" /\ (d # c \/ t # next[c])
    BY <1>1, <2>1 DEF NotYet, Types
  <2> QED
    BY <1>2, <2>2 DEF NotYetMapped
<1>6. ASSUME NEW d \in Clients, NEW t \in Kept PROVE Current(d, t)'
  <2>1. t \in Topics
    BY DEF Kept
  <2>2. CASE d = c /\ t = next[c]
    <3>1. listener'[c][t].queue = <<>>
      BY <1>1, <1>2, <2>1, <2>2 DEF NotYetMapped, NotYet
    <3>2. out'[c].topic # t /\ ~(next'[c] > t)
      BY <1>1, <2>1, <2>2, NothingIsTyped DEF Topics
    <3> QED
      BY <2>2, <3>1, <3>2 DEF Current
  <2>3. CASE ~(d = c /\ t = next[c])
    <3>1. listener'[d][t] = listener[d][t]
      BY <1>2, <2>1, <2>3
    <3>2. /\ Keeps(d, t)' => Keeps(d, t) /\ listener'[d][t].queue = listener[d][t].queue
          /\ out'[d] = out[d] /\ next'[d] = next[d] /\ shown'[d][t] = shown[d][t]
      BY <1>1, <3>1 DEF Keeps
    <3>3. version'[t] = version[t] /\ version[t] \in Nat /\ last'[t] = last[t] /\ Current(d, t)
      BY <1>1, <2>1 DEF Types, topicVars
    <3> QED
      BY <1>3, <3>2, <3>3, Undisturbed
  <2> QED
    BY <2>2, <2>3
<1> QED
  BY <1>3, <1>4, <1>7, <1>5, <1>6

(* Its goroutine writes the state of the notifier it has just subscribed to,*)
(* or a ping.                                                               *)
LEMMA SendKeeps ==
  ASSUME IInv, NEW c \in Clients, NEW message \in Bodies, message # Nothing, Send(c, message),
         out[c] = Nothing, stage[c] \in {"boot", "serve"},
         stage[c] = "boot" => message.topic = next[c],
         UNCHANGED <<topicVars, call, link, stage, next, reply, elapsed, shown>>
  PROVE  /\ listener' \in [Clients -> [Topics -> Listeners]] => Types'
         /\ NoneIsAhead' /\ LockFits' /\ StageFits'
<1> USE DEF IInv
<1>1. out' = [out EXCEPT ![c] = message] /\ lock' = [lock EXCEPT ![c] = Append(@, "out")]
  BY DEF Send, Write
<1>2. listener' \in [Clients -> [Topics -> Listeners]] => Types'
  BY <1>1 DEF Types, topicVars
<1>3. NoneIsAhead' /\ StageFits'
  BY <1>1 DEF NoneIsAhead, StageFits, Types, topicVars
<1>4. LockFits'
  <2>1. Queued(Append(lock[c], "out"), TRUE, reply[c] # Nothing)
    <3>1. Queued(lock[c], FALSE, reply[c] # Nothing)
      BY DEF LockFits
    <3> QED
      BY <3>1, LockGrows
  <2>2. ASSUME NEW d \in Clients PROVE Queued(lock'[d], out'[d] # Nothing, reply'[d] # Nothing)
    <3>1. CASE d = c
      <4>1. lock'[d] = Append(lock[c], "out") /\ (out'[d] # Nothing) = TRUE /\ reply'[d] = reply[c]
        BY <1>1, <3>1 DEF Types
      <4> QED
        BY <2>1, <4>1
    <3>2. CASE d # c
      BY <1>1, <3>2 DEF LockFits, Types
    <3> QED
      BY <3>1, <3>2
  <2> QED
    BY <2>2 DEF LockFits
<1> QED
  BY <1>2, <1>3, <1>4

LEMMA BootstrapKeepsIInv ==
  ASSUME IInv, NEW c \in Clients, Bootstrap(c)
  PROVE  IInv'
<1> USE DEF IInv
<1> DEFINE message == [topic |-> next[c], body |-> version[next[c]]]
<1>1. /\ next[c] \in Topics /\ message \in Bodies /\ message # Nothing
      /\ Send(c, message) /\ stage[c] = "boot" /\ out[c] = Nothing
      /\ UNCHANGED <<topicVars, call, link, stage, next, reply, elapsed, shown>>
  <2>1. next[c] \in Topics
    BY DEF Bootstrap, StageFits
  <2>2. version[next[c]] \in Int /\ next[c] \in Int /\ next[c] # 0
    BY <2>1 DEF Types, Topics
  <2> QED
    BY <2>1, <2>2, NothingIsTyped DEF Bootstrap
<1>2. UNCHANGED listener /\ out' = [out EXCEPT ![c] = message]
  BY DEF Bootstrap, Send
<1> HIDE DEF message
<1>3. Types' /\ NoneIsAhead' /\ LockFits' /\ StageFits'
  <2>1. listener' \in [Clients -> [Topics -> Listeners]]
    BY <1>2 DEF Types
  <2>2. message.topic = next[c]
    BY DEF message
  <2> QED
    BY <1>1, <2>1, <2>2, SendKeeps
<1>4. NotYetMapped'
  BY <1>1, <1>2 DEF NotYetMapped, NotYet
<1>5. ASSUME NEW d \in Clients, NEW t \in Kept PROVE Current(d, t)'
  <2>1. t \in Topics /\ last'[t] = last[t] /\ version'[t] = version[t] /\ version[t] \in Nat
    BY <1>1 DEF Kept, Types, topicVars
  <2>2. CASE d = c /\ t = next[c]
    <3>1. out'[c].topic = t /\ out'[c].body = version[t]
      BY <1>2, <2>2 DEF message, Types
    <3>2. listener'[c][t] = listener[c][t] /\ Keeps(c, t)' = Keeps(c, t)
      BY <1>1, <1>2 DEF Keeps
    <3>3. last[t] <= version[t]
      BY <2>1 DEF NoneIsAhead
    <3> QED
      BY <2>1, <2>2, <3>1, <3>2, <3>3 DEF Current, Recent
  <2>3. CASE ~(d = c /\ t = next[c])
    <3>1. out'[d] = out[d] \/ (out[d].topic # t /\ out'[d].topic # t)
      BY <1>1, <1>2, <2>1, <2>3, NothingIsTyped DEF message, Types, Topics
    <3>2. /\ Keeps(d, t)' => Keeps(d, t) /\ listener'[d][t].queue = listener[d][t].queue
          /\ next'[d] = next[d] /\ shown'[d][t] = shown[d][t]
      BY <1>1, <1>2 DEF Keeps
    <3> QED
      BY <1>3, <2>1, <3>1, <3>2, Undisturbed
  <2> QED
    BY <2>2, <2>3
<1> QED
  BY <1>3, <1>4, <1>5

LEMMA PingKeepsIInv ==
  ASSUME IInv, NEW c \in Clients, PingClient(c)
  PROVE  IInv'
<1> USE DEF IInv
<1>1. /\ Ping \in Bodies /\ Ping # Nothing /\ Send(c, Ping) /\ stage[c] = "serve" /\ out[c] = Nothing
      /\ UNCHANGED <<topicVars, call, link, stage, next, reply, elapsed, shown, listener>>
      /\ out' = [out EXCEPT ![c] = Ping]
  BY NothingIsTyped DEF PingClient, Waiting, Send
<1>2. Types' /\ NoneIsAhead' /\ LockFits' /\ StageFits'
  BY <1>1, SendKeeps DEF Types
<1>3. NotYetMapped'
  BY <1>1 DEF NotYetMapped, NotYet
<1>4. ASSUME NEW d \in Clients, NEW t \in Kept PROVE Current(d, t)'
  <2>1. t \in Topics /\ last'[t] = last[t] /\ version'[t] = version[t] /\ version[t] \in Nat
    BY <1>1 DEF Kept, Types, topicVars
  <2>2. out'[d] = out[d] \/ (out[d].topic # t /\ out'[d].topic # t)
    BY <1>1, <2>1, NothingIsTyped DEF Types, Topics
  <2>3. /\ Keeps(d, t)' => Keeps(d, t) /\ listener'[d][t].queue = listener[d][t].queue
        /\ next'[d] = next[d] /\ shown'[d][t] = shown[d][t]
    BY <1>1 DEF Keeps
  <2> QED
    BY <1>2, <2>1, <2>2, <2>3, Undisturbed
<1> QED
  BY <1>2, <1>3, <1>4
(* It forwards the first message of a channel.                              *)
LEMMA ForwardKeepsIInv ==
  ASSUME IInv, NEW c \in Clients, NEW u \in Topics, Forward(c, u)
  PROVE  IInv'
<1> USE DEF IInv
<1> DEFINE l == listener[c][u]
           message == [topic |-> u, body |-> Head(l.queue)]
<1>1. /\ l \in Listeners /\ l.queue \in Seq(Nat) /\ l.queue # <<>>
      /\ stage[c] = "serve" /\ out[c] = Nothing
      /\ Send(c, message)
      /\ UNCHANGED <<topicVars, call, link, stage, next, reply, elapsed, shown>>
  BY DEF Forward, Waiting, Types, Listeners
<1>2. /\ Head(l.queue) \in Nat /\ Tail(l.queue) \in Seq(Nat) /\ Len(Tail(l.queue)) = Len(l.queue) - 1
      /\ Len(l.queue) \in Nat \ {0} /\ Head(l.queue) = l.queue[1]
      /\ \A i \in 1 .. Len(Tail(l.queue)) : Tail(l.queue)[i] = l.queue[i + 1]
  BY <1>1, HeadTailProperties, EmptySeq
<1>3. message \in Bodies /\ message # Nothing /\ out' = [out EXCEPT ![c] = message]
  BY <1>1, <1>2, NothingIsTyped DEF Send, Topics
<1>4. ASSUME NEW d \in Clients, NEW t \in Topics
      PROVE  /\ listener[d][t] \in Listeners /\ listener'[d][t] \in Listeners
             /\ d # c \/ t # u => listener'[d][t] = listener[d][t]
             /\ listener'[d][t].mapped = listener[d][t].mapped
             /\ listener'[d][t].open = listener[d][t].open
             /\ listener'[d][t].blocked = listener[d][t].blocked
             /\ d = c /\ t = u => listener'[d][t].queue = Tail(l.queue)
  <2>1. listener[d][t] \in Listeners
    BY DEF Types
  <2>2. /\ listener' = [listener EXCEPT ![c] = [listener[c] EXCEPT ![u] =
                           [l EXCEPT !.queue = Tail(@), !.taken = l.blocked # Keeping]]]
        /\ listener \in [Clients -> [Topics -> Listeners]]
    BY DEF Forward, Types
  <2>3. CASE d = c /\ t = u
    <3>1. listener'[d][t] = [l EXCEPT !.queue = Tail(@), !.taken = l.blocked # Keeping]
      BY <2>2, <2>3
    <3> QED
      BY <1>1, <1>2, <2>1, <2>3, <3>1 DEF Listeners
  <2>4. CASE ~(d = c /\ t = u)
    <3>1. listener'[d][t] = listener[d][t]
      BY <2>2, <2>4
    <3> QED
      BY <2>1, <2>4, <3>1
  <2> QED
    BY <2>3, <2>4
<1> HIDE DEF message, l
<1>5. Types' /\ NoneIsAhead' /\ LockFits' /\ StageFits'
  <2>1. listener' \in [Clients -> [Topics -> Listeners]]
    BY <1>4 DEF Forward, Types
  <2> QED
    BY <1>1, <1>3, <2>1, SendKeeps
<1>6. NotYetMapped'
  <2> SUFFICES ASSUME NEW d \in Clients, NEW t \in Topics, NotYet(d, t)', stage'[d] # "left"
               PROVE  ~listener'[d][t].mapped /\ listener'[d][t].queue = <<>>
    BY DEF NotYetMapped
  <2>1. NotYet(d, t) /\ stage[d] # "left" /\ listener[d][t].queue = <<>>
    BY <1>1 DEF NotYet, NotYetMapped
  <2>2. d # c \/ t # u
    BY <1>1, <2>1 DEF l
  <2> QED
    BY <1>4, <2>1, <2>2 DEF NotYetMapped
<1>7. ASSUME NEW d \in Clients, NEW t \in Kept PROVE Current(d, t)'
  <2>1. t \in Topics /\ last'[t] = last[t] /\ version'[t] = version[t] /\ version[t] \in Nat
        /\ last[t] \in Nat /\ last[t] <= version[t]
    BY <1>1 DEF Kept, Types, topicVars, NoneIsAhead
  <2>2. Keeps(d, t)' => Keeps(d, t)
    BY <1>1, <1>4, <2>1 DEF Keeps
  <2>3. CASE d = c /\ t = u
    <3>1. out'[d].topic = t /\ out'[d].body = l.queue[1] /\ listener'[d][t].queue = Tail(l.queue)
      BY <1>2, <1>3, <1>4, <2>1, <2>3 DEF message, Types
    <3>2. Keeps(d, t)' => l.queue[Len(l.queue)] = last[t]
      BY <1>1, <2>2, <2>3 DEF Current, l
    <3>3. Tail(l.queue) = <<>> => Len(l.queue) = 1
      <4>1. Tail(l.queue) = <<>> => Len(Tail(l.queue)) = Len(<<>>)
        OBVIOUS
      <4>2. Len(<<>>) = 0
        BY EmptySeq
      <4> QED
        BY <1>2, <4>1, <4>2
    <3>4. Tail(l.queue) # <<>> => Len(Tail(l.queue)) >= 1
      BY <1>2, EmptySeq
    <3>5. Keeps(d, t)' /\ Tail(l.queue) # <<>> => Tail(l.queue)[Len(Tail(l.queue))] = last[t]
      BY <1>2, <3>2, <3>4
    <3> QED
      BY <2>1, <3>1, <3>2, <3>3, <3>5 DEF Current, Recent
  <2>4. CASE ~(d = c /\ t = u)
    <3>1. listener'[d][t] = listener[d][t]
      BY <1>4, <2>1, <2>4
    <3>2. out'[d] = out[d] \/ (out[d].topic # t /\ out'[d].topic # t)
      BY <1>1, <1>3, <2>1, <2>4, NothingIsTyped DEF message, Types, Topics
    <3>3. next'[d] = next[d] /\ shown'[d][t] = shown[d][t] /\ version'[t] >= version[t]
      BY <1>1, <2>1
    <3> QED
      BY <1>5, <2>1, <2>2, <3>1, <3>2, <3>3, Undisturbed
  <2> QED
    BY <2>3, <2>4
<1> QED
  BY <1>5, <1>6, <1>7

(* Its command changes the state and waits to be answered.                  *)
LEMMA CommandKeepsIInv ==
  ASSUME IInv, NEW c \in Clients, NEW u \in Answered, Command(c, u)
  PROVE  IInv'
<1> USE DEF IInv
<1> DEFINE answer == [topic |-> u, body |-> version'[u]]
<1>1. /\ u \in Topics /\ Change(u) /\ reply[c] = Nothing
      /\ reply' = [reply EXCEPT ![c] = answer]
      /\ lock' = [lock EXCEPT ![c] = Append(@, "reply")]
      /\ UNCHANGED <<last, call, listener, link, readerVars, elapsed, shown>>
  BY NotifierAssumption DEF Command, Write, Topics
<1>2. /\ version' \in [Topics -> Nat]
      /\ \A t \in Topics : version'[t] >= version[t]
  BY <1>1, ChangeRaises
<1>3. answer \in Bodies /\ answer # Nothing /\ answer.topic = u
  BY <1>1, <1>2, NothingIsTyped DEF Topics
<1> HIDE DEF answer
<1>4. Types'
  BY <1>1, <1>2, <1>3 DEF Types, readerVars
<1>5. NoneIsAhead'
  <2>1. ASSUME NEW v \in Callers, call'[v] # Nothing PROVE call'[v].body <= version'[call'[v].topic]
    <3>1. call'[v] = call[v] /\ call[v].topic \in Topics /\ call[v].body \in Nat
      BY <1>1, <2>1 DEF Types
    <3> QED
      BY <1>2, <2>1, <3>1 DEF NoneIsAhead, Types
  <2>2. \A t \in Topics : last'[t] <= version'[t]
    BY <1>1, <1>2 DEF NoneIsAhead, Types
  <2> QED
    BY <2>1, <2>2 DEF NoneIsAhead
<1>6. LockFits'
  <2>1. Queued(Append(lock[c], "reply"), out[c] # Nothing, TRUE)
    <3>1. Queued(lock[c], out[c] # Nothing, FALSE)
      BY <1>1 DEF LockFits
    <3> QED
      BY <3>1, LockGrows
  <2>2. ASSUME NEW d \in Clients PROVE Queued(lock'[d], out'[d] # Nothing, reply'[d] # Nothing)
    <3>1. CASE d = c
      <4>1. lock'[d] = Append(lock[c], "reply") /\ (reply'[d] # Nothing) = TRUE /\ out'[d] = out[c]
        BY <1>1, <1>3, <3>1 DEF Types, readerVars
      <4> QED
        BY <2>1, <4>1
    <3>2. CASE d # c
      BY <1>1, <3>2 DEF LockFits, Types, readerVars
    <3> QED
      BY <3>1, <3>2
  <2> QED
    BY <2>2 DEF LockFits
<1>7. StageFits'
  BY <1>1, <1>3 DEF StageFits, Types, readerVars
<1>8. NotYetMapped'
  BY <1>1 DEF NotYetMapped, NotYet, readerVars
<1>9. ASSUME NEW d \in Clients, NEW t \in Kept PROVE Current(d, t)'
  <2>1. t \in Topics
    BY DEF Kept
  <2>2. /\ Keeps(d, t)' => Keeps(d, t) /\ listener'[d][t].queue = listener[d][t].queue
        /\ out'[d] = out[d] /\ next'[d] = next[d] /\ shown'[d][t] = shown[d][t]
    BY <1>1 DEF Keeps, readerVars
  <2>3. last'[t] = last[t] /\ version'[t] >= version[t]
    BY <1>1, <1>2, <2>1
  <2> QED
    BY <1>4, <2>2, <2>3, Undisturbed
<1> QED
  BY <1>4, <1>5, <1>6, <1>7, <1>8, <1>9
-----------------------------------------------------------------------------
(* Whoever has the write mutex is done with it.                             *)
LEMMA ReleaseKeepsLock ==
  ASSUME Types, LockFits, NEW c \in Clients, lock[c] # <<>>, Released(c),
         \A d \in Clients \ {c} : out'[d] = out[d] /\ reply'[d] = reply[d],
         \/ Head(lock[c]) = "out" /\ out'[c] = Nothing /\ reply'[c] = reply[c]
         \/ Head(lock[c]) = "reply" /\ reply'[c] = Nothing /\ out'[c] = out[c]
  PROVE  LockFits' /\ DOMAIN lock' = Clients
<1>1. lock' = [lock EXCEPT ![c] = Tail(@)] /\ DOMAIN lock = Clients
  BY DEF Released, Types
<1>2. Queued(Tail(lock[c]), out'[c] # Nothing, reply'[c] # Nothing)
  <2>1. Queued(lock[c], out[c] # Nothing, reply[c] # Nothing)
    BY DEF LockFits
  <2>2. CASE Head(lock[c]) = "out" /\ out'[c] = Nothing /\ reply'[c] = reply[c]
    <3>1. Queued(Tail(lock[c]), FALSE, reply[c] # Nothing)
      BY <2>1, <2>2, LockShrinks
    <3> QED
      BY <2>2, <3>1
  <2>3. CASE Head(lock[c]) = "reply" /\ reply'[c] = Nothing /\ out'[c] = out[c]
    <3>1. Queued(Tail(lock[c]), out[c] # Nothing, FALSE)
      BY <2>1, <2>3, LockShrinks
    <3> QED
      BY <2>3, <3>1
  <2> QED
    BY <2>2, <2>3
<1> QED
  BY <1>1, <1>2 DEF LockFits

(* What is written has something to say, and the reader's progress leaves   *)
(* its channels as they are.                                                *)
LEMMA WrittenIs ==
  ASSUME IInv, NEW c \in Clients, lock[c] # <<>>, Written(c)
  PROVE  /\ \A d \in Clients \ {c} : /\ out'[d] = out[d] /\ reply'[d] = reply[d]
                                     /\ stage'[d] = stage[d] /\ next'[d] = next[d]
         /\ \/ /\ Head(lock[c]) = "out" /\ out[c] # Nothing
               /\ out'[c] = Nothing /\ reply'[c] = reply[c]
               /\ next'[c] = IF stage[c] = "boot" THEN next[c] + 1 ELSE next[c]
               /\ stage'[c] = IF next'[c] > Notifiers THEN "serve" ELSE "listen"
               /\ stage[c] # "listen"
            \/ /\ Head(lock[c]) = "reply" /\ reply[c] # Nothing
               /\ reply'[c] = Nothing /\ out'[c] = out[c]
               /\ next'[c] = next[c] /\ stage'[c] = stage[c]
         /\ stage' \in [Clients -> {"listen", "boot", "serve", "left"}]
         /\ next' \in [Clients -> Nat \ {0}]
         /\ out' \in [Clients -> Bodies] /\ reply' \in [Clients -> Bodies]
         /\ listener' \in [Clients -> [Topics -> Listeners]]
         /\ \A d \in Clients, t \in Topics :
              /\ listener'[d][t].mapped = listener[d][t].mapped
              /\ listener'[d][t].open = listener[d][t].open
              /\ listener'[d][t].blocked = listener[d][t].blocked
              /\ listener'[d][t].queue = listener[d][t].queue
<1> USE DEF IInv
<1>1. Queued(lock[c], out[c] # Nothing, reply[c] # Nothing)
  BY DEF LockFits
<1>2. /\ Head(lock[c]) = "out" => out[c] # Nothing
      /\ Head(lock[c]) = "reply" => reply[c] # Nothing
  BY <1>1, LockShrinks
<1>3. CASE Head(lock[c]) = "reply" /\ reply' = [reply EXCEPT ![c] = Nothing] /\ UNCHANGED <<readerVars, listener>>
  BY <1>2, <1>3, NothingIsTyped DEF Types, readerVars
<1>4. CASE /\ Head(lock[c]) = "out"
           /\ out' = [out EXCEPT ![c] = Nothing]
           /\ next' = [next EXCEPT ![c] = IF stage[c] = "boot" THEN @ + 1 ELSE @]
           /\ stage' = [stage EXCEPT ![c] = IF next'[c] > Notifiers THEN "serve" ELSE "listen"]
           /\ listener' = [listener EXCEPT ![c] = [t \in Topics |-> Progress(c, @[t])]]
           /\ UNCHANGED reply
  <2>1. /\ \A d \in Clients \ {c} : /\ out'[d] = out[d] /\ reply'[d] = reply[d]
                                    /\ stage'[d] = stage[d] /\ next'[d] = next[d]
        /\ out'[c] = Nothing /\ reply'[c] = reply[c]
        /\ next'[c] = IF stage[c] = "boot" THEN next[c] + 1 ELSE next[c]
        /\ stage'[c] = IF next'[c] > Notifiers THEN "serve" ELSE "listen"
    BY <1>4 DEF Types
  <2>2. /\ stage' \in [Clients -> {"listen", "boot", "serve", "left"}]
        /\ next' \in [Clients -> Nat \ {0}]
        /\ out' \in [Clients -> Bodies] /\ reply' \in [Clients -> Bodies]
    BY <1>4, NothingIsTyped DEF Types
  <2>3. stage[c] # "listen"
    BY <1>2, <1>4 DEF StageFits
  <2>4. ASSUME NEW d \in Clients, NEW t \in Topics
        PROVE  /\ listener'[d][t] \in Listeners
               /\ listener'[d][t].mapped = listener[d][t].mapped
               /\ listener'[d][t].open = listener[d][t].open
               /\ listener'[d][t].blocked = listener[d][t].blocked
               /\ listener'[d][t].queue = listener[d][t].queue
    <3>1. listener[d][t] \in Listeners
      BY DEF Types
    <3>2. CASE d = c
      <4>1. listener'[d][t] = [listener[d][t] EXCEPT !.served = listener[d][t].blocked # Keeping]
        BY <1>4, <3>2 DEF Progress, Types
      <4> QED
        BY <3>1, <4>1 DEF Listeners
    <3>3. CASE d # c
      <4>1. listener'[d] = listener[d]
        BY <1>4, <3>3 DEF Types
      <4> QED
        BY <3>1, <4>1
    <3> QED
      BY <3>2, <3>3
  <2>5. listener' \in [Clients -> [Topics -> Listeners]]
    <3>1. listener' = [d \in Clients |-> IF d = c THEN [t \in Topics |-> Progress(c, listener[c][t])]
                                         ELSE listener[d]]
      BY <1>4 DEF Types
    <3>2. ASSUME NEW d \in Clients PROVE listener'[d] \in [Topics -> Listeners]
      <4>1. CASE d = c
        <5>1. listener'[d] = [t \in Topics |-> Progress(c, listener[c][t])]
          BY <3>1, <4>1
        <5> QED
          BY <2>4, <5>1
      <4>2. CASE d # c
        BY <3>1, <4>2 DEF Types
      <4> QED
        BY <4>1, <4>2
    <3> QED
      BY <3>1, <3>2
  <2> QED
    BY <1>2, <1>4, <2>1, <2>2, <2>3, <2>4, <2>5
<1> QED
  BY <1>3, <1>4 DEF Written
(* After a write that went through, the page's goroutine is where it should *)
(* be.                                                                      *)
LEMMA WrittenKeeps ==
  ASSUME IInv, NEW c \in Clients, lock[c] # <<>>, link[c] # "closed", Written(c), Released(c),
         UNCHANGED <<topicVars, call>>,
         link' \in [Clients -> {"up", "lost", "full", "closed"}],
         \A d \in Clients \ {c} : link'[d] = link[d],
         shown' \in [Clients -> [Topics -> Int]]
  PROVE  Types' /\ NoneIsAhead' /\ LockFits' /\ StageFits' /\ NotYetMapped'
<1> USE DEF IInv
<1>1. LockFits' /\ DOMAIN lock' = Clients
  BY WrittenIs, ReleaseKeepsLock
<1>2. Types'
  BY <1>1, WrittenIs DEF Types, topicVars
<1>3. NoneIsAhead'
  BY DEF NoneIsAhead, topicVars
<1>4. next[c] \in Nat \ {0} /\ Notifiers \in Nat /\ stage[c] \in {"boot", "serve", "listen"}
  BY NotifierAssumption DEF Types, StageFits
<1>5. StageFits'
  <2> SUFFICES ASSUME NEW d \in Clients
               PROVE  /\ stage'[d] \in {"listen", "boot"} => next'[d] \in Topics
                      /\ stage'[d] = "listen" => out'[d] = Nothing
                      /\ stage'[d] = "boot" /\ out'[d] # Nothing => out'[d].topic = next'[d]
                      /\ stage'[d] = "serve" => next'[d] > Notifiers
                      /\ stage'[d] = "left" => link'[d] = "closed"
                      /\ reply'[d] # Nothing => reply'[d].topic \in Answered
    BY DEF StageFits
  <2>1. CASE d # c
    <3>1. out'[d] = out[d] /\ reply'[d] = reply[d] /\ stage'[d] = stage[d] /\ next'[d] = next[d]
      BY <2>1, WrittenIs
    <3> QED
      BY <2>1, <3>1 DEF StageFits
  <2>2. CASE d = c /\ stage'[c] = stage[c] /\ next'[c] = next[c] /\ reply'[c] = Nothing /\ out'[c] = out[c]
    BY <1>4, <2>2 DEF StageFits
  <2>3. CASE /\ d = c /\ out'[c] = Nothing /\ reply'[c] = reply[c]
             /\ next'[c] = IF stage[c] = "boot" THEN next[c] + 1 ELSE next[c]
             /\ stage'[c] = IF next'[c] > Notifiers THEN "serve" ELSE "listen"
    BY <1>4, <2>3 DEF StageFits, Topics
  <2> QED
    BY <2>1, <2>2, <2>3, WrittenIs
<1>6. NotYetMapped'
  <2> SUFFICES ASSUME NEW d \in Clients, NEW t \in Topics, NotYet(d, t)', stage'[d] # "left"
               PROVE  ~listener'[d][t].mapped /\ listener'[d][t].queue = <<>>
    BY DEF NotYetMapped
  <2>1. t \in Nat /\ t <= Notifiers
    BY NotifierAssumption DEF Topics
  <2>2. NotYet(d, t) /\ stage[d] # "left"
    <3>1. CASE d # c
      BY <3>1, WrittenIs DEF NotYet
    <3>2. CASE d = c /\ stage'[c] = stage[c] /\ next'[c] = next[c]
      BY <3>2 DEF NotYet
    <3>3. CASE /\ d = c
               /\ next'[c] = IF stage[c] = "boot" THEN next[c] + 1 ELSE next[c]
               /\ stage'[c] = IF next'[c] > Notifiers THEN "serve" ELSE "listen"
               /\ stage[c] # "listen"
      BY <1>4, <2>1, <3>3 DEF NotYet, StageFits
    <3> QED
      BY <3>1, <3>2, <3>3, WrittenIs
  <2>3. listener'[d][t].mapped = listener[d][t].mapped /\ listener'[d][t].queue = listener[d][t].queue
    BY WrittenIs
  <2> QED
    BY <2>2, <2>3 DEF NotYetMapped
<1> QED
  BY <1>1, <1>2, <1>3, <1>5, <1>6

LEMMA ReachesKeepsIInv ==
  ASSUME IInv, NEW c \in Clients, WriteReachesPage(c)
  PROVE  IInv'
<1> USE DEF IInv
<1>1. /\ lock[c] # <<>> /\ link[c] # "closed" /\ Written(c) /\ Released(c)
      /\ UNCHANGED <<topicVars, call, link>>
  BY DEF WriteReachesPage
<1>2. /\ Message(c) \in Bodies
      /\ Message(c) = IF Head(lock[c]) = "out" THEN out[c] ELSE reply[c]
  BY DEF Message, Types
<1>3. /\ shown' \in [Clients -> [Topics -> Int]]
      /\ \A d \in Clients, t \in Topics :
           shown'[d][t] = IF d = c /\ Message(c).topic = t THEN Message(c).body ELSE shown[d][t]
  BY <1>2 DEF WriteReachesPage, Types, Bodies
<1>4. Types' /\ NoneIsAhead' /\ LockFits' /\ StageFits' /\ NotYetMapped'
  BY <1>1, <1>3, WrittenKeeps DEF Types
<1>5. ASSUME NEW d \in Clients, NEW t \in Kept PROVE Current(d, t)'
  <2>1. t \in Topics /\ t \notin Answered /\ last'[t] = last[t] /\ version'[t] = version[t]
        /\ version[t] \in Nat
    BY <1>1 DEF Kept, Types, topicVars
  <2>2. /\ Keeps(d, t)' = Keeps(d, t) /\ listener'[d][t].queue = listener[d][t].queue
    BY <1>1, <2>1, WrittenIs DEF Keeps
  <2>3. CASE d # c
    <3>1. out'[d] = out[d] /\ next'[d] = next[d] /\ shown'[d][t] = shown[d][t]
      BY <1>1, <1>3, <2>1, <2>3, WrittenIs
    <3> QED
      BY <1>4, <2>1, <2>2, <3>1, Undisturbed
  <2>4. CASE d = c /\ Head(lock[c]) = "reply" /\ reply[c] # Nothing /\ out'[c] = out[c] /\ next'[c] = next[c]
    <3>1. Message(c).topic # t
      BY <1>2, <2>1, <2>4 DEF StageFits
    <3>2. shown'[d][t] = shown[d][t]
      BY <1>3, <2>1, <3>1
    <3> QED
      BY <1>4, <2>1, <2>2, <2>4, <3>2, Undisturbed
  <2>5. CASE /\ d = c /\ Head(lock[c]) = "out" /\ out[c] # Nothing
             /\ out'[c] = Nothing
             /\ next'[c] = IF stage[c] = "boot" THEN next[c] + 1 ELSE next[c]
             /\ stage[c] # "listen"
    <3>1. Message(c) = out[c] /\ out'[c].topic # t
      BY <1>2, <2>1, <2>5, NothingIsTyped DEF Topics
    <3>2. CASE out[c].topic = t
      <4>1. shown'[c][t] = out[c].body
        BY <1>3, <2>1, <3>1, <3>2
      <4> QED
        BY <2>1, <2>2, <2>5, <3>1, <3>2, <4>1 DEF Current, Recent
    <3>3. CASE out[c].topic # t
      <4>1. shown'[c][t] = shown[c][t]
        BY <1>3, <2>1, <3>1, <3>3
      <4>2. next'[c] > t => next[c] > t
        <5>1. stage[c] = "boot" => next[c] # t
          BY <2>5, <3>3 DEF StageFits
        <5>2. next[c] \in Nat /\ t \in Nat
          BY <2>1 DEF Types, Topics
        <5> QED
          BY <2>5, <5>1, <5>2
      <4> QED
        BY <2>1, <2>2, <2>5, <3>1, <3>3, <4>1, <4>2 DEF Current, Recent
    <3> QED
      BY <3>2, <3>3
  <2> QED
    BY <1>1, <2>3, <2>4, <2>5, WrittenIs
<1> QED
  BY <1>4, <1>5

(* What is written to a page that is gone, or not written, changes nothing  *)
(* for those that are there.                                                *)
LEMMA GoneIsUndisturbed ==
  ASSUME IInv, Types', NEW c \in Clients, link'[c] # "up",
         UNCHANGED <<last, version, shown>>,
         \A d \in Clients \ {c} :
           /\ link'[d] = link[d] /\ out'[d] = out[d] /\ next'[d] = next[d]
           /\ listener'[d] = listener[d]
  PROVE  \A d \in Clients, t \in Kept : Current(d, t)'
<1> USE DEF IInv
<1> SUFFICES ASSUME NEW d \in Clients, NEW t \in Kept PROVE Current(d, t)'
  OBVIOUS
<1>1. CASE d = c
  BY <1>1 DEF Current, Keeps
<1>2. CASE d # c
  <2>1. version[t] \in Nat
    BY DEF Kept, Types
  <2>2. Keeps(d, t)' => Keeps(d, t) /\ listener'[d][t].queue = listener[d][t].queue
    BY <1>2 DEF Keeps
  <2>3. out'[d] = out[d] /\ next'[d] = next[d] /\ shown'[d][t] = shown[d][t] /\ version'[t] >= version[t]
    BY <1>2, <2>1
  <2> QED
    BY <2>2, <2>3, Undisturbed
<1> QED
  BY <1>1, <1>2

LEMMA BufferedKeepsIInv ==
  ASSUME IInv, NEW c \in Clients, WriteIsBuffered(c)
  PROVE  IInv'
<1> USE DEF IInv
<1>1. /\ lock[c] # <<>> /\ link[c] = "lost" /\ link' = [link EXCEPT ![c] = "full"]
      /\ Written(c) /\ Released(c) /\ UNCHANGED <<topicVars, call, shown>>
  BY DEF WriteIsBuffered
<1>2. /\ link' \in [Clients -> {"up", "lost", "full", "closed"}]
      /\ \A d \in Clients \ {c} : link'[d] = link[d]
      /\ link'[c] = "full" /\ shown' \in [Clients -> [Topics -> Int]]
  BY <1>1 DEF Types
<1>3. Types' /\ NoneIsAhead' /\ LockFits' /\ StageFits' /\ NotYetMapped'
  BY <1>1, <1>2, WrittenKeeps
<1>4. \A d \in Clients \ {c} : listener'[d] = listener[d]
  BY <1>1 DEF Written, Types, readerVars
<1>5. \A d \in Clients \ {c} : out'[d] = out[d] /\ next'[d] = next[d]
  BY <1>1, WrittenIs
<1> QED
  BY <1>1, <1>2, <1>3, <1>4, <1>5, GoneIsUndisturbed DEF topicVars
(* A write that fails ends the goroutine, or the command it answers.        *)
LEMMA FailsKeepsIInv ==
  ASSUME IInv, NEW c \in Clients, WriteFails(c)
  PROVE  IInv'
<1> USE DEF IInv
<1>1. /\ lock[c] # <<>> /\ link' = [link EXCEPT ![c] = "closed"] /\ Released(c)
      /\ UNCHANGED <<topicVars, call, shown, next>>
  BY DEF WriteFails, Leave, readerVars
<1>2. CASE Head(lock[c]) = "out" /\ Leave(c)
  <2>1. /\ stage' = [stage EXCEPT ![c] = "left"] /\ out' = [out EXCEPT ![c] = Nothing]
        /\ listener' = [listener EXCEPT ![c] = [t \in Topics |-> Closed(listener[c][t])]]
        /\ UNCHANGED <<next, reply>>
    BY <1>2 DEF Leave
  <2>2. ASSUME NEW t \in Topics PROVE Closed(listener[c][t]) \in Listeners
    <3>1. listener[c][t].mapped \in BOOLEAN
      BY DEF Types, Listeners
    <3>2. NoListener \in Listeners
      BY EmptySeq DEF NoListener, Listeners, Keeping
    <3>3. [NoListener EXCEPT !.mapped = listener[c][t].mapped] \in Listeners
      BY <3>1, <3>2 DEF Listeners
    <3>4. Closed(listener[c][t]) = [[NoListener EXCEPT !.mapped = listener[c][t].mapped] EXCEPT !.open = FALSE]
      BY DEF Closed
    <3> QED
      BY <3>3, <3>4 DEF Listeners
  <2>3. listener' \in [Clients -> [Topics -> Listeners]]
    BY <2>1, <2>2 DEF Types
  <2>4. LockFits' /\ DOMAIN lock' = Clients
    BY <1>1, <1>2, <2>1, ReleaseKeepsLock DEF Types
  <2>5. Types'
    BY <1>1, <2>1, <2>3, <2>4, NothingIsTyped DEF Types, topicVars
  <2>6. NoneIsAhead' /\ StageFits'
    BY <1>1, <2>1 DEF NoneIsAhead, StageFits, Types, topicVars
  <2>7. NotYetMapped'
    BY <1>1, <2>1 DEF NotYetMapped, NotYet, Types
  <2>8. \A d \in Clients \ {c} :
          /\ link'[d] = link[d] /\ out'[d] = out[d] /\ next'[d] = next[d] /\ listener'[d] = listener[d]
    BY <1>1, <2>1 DEF Types
  <2>9. link'[c] # "up"
    BY <1>1 DEF Types
  <2> QED
    BY <1>1, <2>4, <2>5, <2>6, <2>7, <2>8, <2>9, GoneIsUndisturbed DEF topicVars
<1>3. CASE /\ Head(lock[c]) = "reply" /\ reply' = [reply EXCEPT ![c] = Nothing]
           /\ UNCHANGED <<readerVars, listener>>
  <2>1. LockFits' /\ DOMAIN lock' = Clients
    BY <1>1, <1>3, ReleaseKeepsLock DEF Types, readerVars
  <2>2. Types'
    BY <1>1, <1>3, <2>1, NothingIsTyped DEF Types, topicVars, readerVars
  <2>3. NoneIsAhead' /\ StageFits'
    BY <1>1, <1>3 DEF NoneIsAhead, StageFits, Types, topicVars, readerVars
  <2>4. NotYetMapped'
    BY <1>1, <1>3 DEF NotYetMapped, NotYet, readerVars
  <2>5. \A d \in Clients \ {c} :
          /\ link'[d] = link[d] /\ out'[d] = out[d] /\ next'[d] = next[d] /\ listener'[d] = listener[d]
    BY <1>1, <1>3 DEF Types, readerVars
  <2>6. link'[c] # "up"
    BY <1>1 DEF Types
  <2> QED
    BY <1>1, <2>1, <2>2, <2>3, <2>4, <2>5, <2>6, GoneIsUndisturbed DEF topicVars
<1> QED
  BY <1>2, <1>3 DEF WriteFails

LEMMA PageGoesKeepsIInv ==
  ASSUME IInv, NEW c \in Clients, ClosePage(c) \/ Vanish(c)
  PROVE  IInv'
<1> USE DEF IInv
<1>1. /\ stage[c] # "left" /\ \E state \in {"closed", "lost"} : link' = [link EXCEPT ![c] = state]
      /\ UNCHANGED <<topicVars, call, listener, readerVars, reply, writeVars, shown>>
  BY DEF ClosePage, Vanish, Served
<1>2. Types' /\ NoneIsAhead' /\ LockFits' /\ StageFits' /\ NotYetMapped'
  BY <1>1 DEF Types, NoneIsAhead, LockFits, StageFits, NotYetMapped, NotYet,
     topicVars, readerVars, writeVars
<1>3. link'[c] # "up" /\ \A d \in Clients \ {c} : link'[d] = link[d]
  BY <1>1 DEF Types
<1> QED
  BY <1>1, <1>2, <1>3, GoneIsUndisturbed DEF topicVars, readerVars

(* Time makes no full channel one that is not.                              *)
LEMMA TickKeepsIInv ==
  ASSUME IInv, Tick
  PROVE  IInv'
<1> USE DEF IInv
<1>1. /\ listener' = [c \in Clients |-> [t \in Topics |-> Aged(listener[c][t])]]
      /\ UNCHANGED <<topicVars, call, link, readerVars, reply, lock, shown>>
  BY DEF Tick
<1>2. ASSUME NEW c \in Clients, NEW t \in Topics
      PROVE  /\ listener'[c][t] \in Listeners
             /\ listener'[c][t].mapped = listener[c][t].mapped
             /\ listener'[c][t].open = listener[c][t].open
             /\ listener'[c][t].queue = listener[c][t].queue
             /\ listener'[c][t].blocked = Keeping => listener[c][t].blocked = Keeping
  <2> DEFINE l == listener[c][t]
  <2>1. l \in Listeners /\ listener'[c][t] = Aged(l)
    BY <1>1 DEF Types
  <2>2. CASE l.blocked \in {Keeping, Patience}
    <3>1. Aged(l) = [l EXCEPT !.blocked = l.blocked]
      BY <2>1, <2>2 DEF Aged, Listeners
    <3> QED
      BY <2>1, <2>2, <3>1 DEF Listeners
  <2>3. CASE l.blocked \notin {Keeping, Patience}
    <3>1. Aged(l) = [l EXCEPT !.blocked = l.blocked + 1] /\ l.blocked \in Nat
      BY <2>1, <2>3 DEF Aged, Listeners
    <3> QED
      BY <2>1, <3>1 DEF Listeners, Keeping
  <2> QED
    BY <2>2, <2>3
<1>3. Types'
  <2>1. listener' \in [Clients -> [Topics -> Listeners]]
    BY <1>1, <1>2
  <2> QED
    BY <1>1, <2>1 DEF Types, topicVars, readerVars
<1>4. NoneIsAhead' /\ LockFits' /\ StageFits'
  BY <1>1 DEF NoneIsAhead, LockFits, StageFits, topicVars, readerVars
<1>5. NotYetMapped'
  BY <1>1, <1>2 DEF NotYetMapped, NotYet, readerVars
<1>6. ASSUME NEW c \in Clients, NEW t \in Kept PROVE Current(c, t)'
  <2>1. t \in Topics /\ version[t] \in Nat /\ version'[t] = version[t] /\ last'[t] = last[t]
    BY <1>1 DEF Kept, Types, topicVars
  <2>2. Keeps(c, t)' => Keeps(c, t) /\ listener'[c][t].queue = listener[c][t].queue
    BY <1>1, <1>2, <2>1 DEF Keeps
  <2>3. out'[c] = out[c] /\ next'[c] = next[c] /\ shown'[c][t] = shown[c][t]
    BY <1>1 DEF readerVars
  <2> QED
    BY <1>3, <2>1, <2>2, <2>3, Undisturbed
<1> QED
  BY <1>3, <1>4, <1>5, <1>6

-----------------------------------------------------------------------------
LEMMA NextKeepsIInv ==
  ASSUME IInv, [Next]_vars
  PROVE  IInv'
<1>1. ASSUME NEW t \in Periodic, ChangeQuietly(t) PROVE IInv'
  BY <1>1, NotifierAssumption, ChangeKeepsIInv DEF ChangeQuietly, Topics
<1>2. ASSUME NEW t \in Periodic, Refresh(t) PROVE IInv'
  <2>1. t \in Topics /\ mainLoop \in Callers
    BY NotifierAssumption DEF Topics
  <2>2. version' = version /\ version \in [Topics -> Nat]
    BY <1>2 DEF Refresh, topicVars, IInv, Types
  <2>3. call' = [call EXCEPT ![mainLoop] = [topic |-> t, body |-> version'[t]]]
    BY <1>2, <2>2 DEF Refresh
  <2>4. \A u \in Topics : version'[u] >= version[u]
    BY <2>2
  <2> QED
    BY <1>2, <2>1, <2>2, <2>3, <2>4, NotifyBegins DEF Refresh, topicVars
<1>3. ASSUME NEW w \in Callers, NEW t \in Topics \ Periodic, Announce(w, t) PROVE IInv'
  <2>1. /\ version' \in [Topics -> Nat] /\ \A u \in Topics : version'[u] >= version[u]
    BY <1>3, ChangeRaises DEF Announce, IInv
  <2> QED
    BY <1>3, <2>1, NotifyBegins DEF Announce
<1>4. ASSUME NEW w \in Callers, NotifyWithMessage(w) PROVE IInv'
  BY <1>4, NotifyKeepsIInv
<1>5. ASSUME NEW c \in Clients, Handling(c) PROVE IInv'
  BY <1>5, ListenKeepsIInv, BootstrapKeepsIInv, PingKeepsIInv, ForwardKeepsIInv DEF Handling
<1>6. ASSUME NEW c \in Clients, Writing(c) PROVE IInv'
  BY <1>6, ReachesKeepsIInv, BufferedKeepsIInv, FailsKeepsIInv DEF Writing
<1>7. ASSUME NEW c \in Clients, Page(c) PROVE IInv'
  BY <1>7, PageGoesKeepsIInv, CommandKeepsIInv DEF Page
<1>8. CASE Tick
  BY <1>8, TickKeepsIInv
<1>9. CASE UNCHANGED vars
  <2>1. UNCHANGED <<version, last, call, listener, link, stage, next, out, reply, lock, shown>>
    BY <1>9 DEF vars, topicVars, readerVars, writeVars
  <2>2. Types' /\ NoneIsAhead' /\ LockFits' /\ StageFits' /\ NotYetMapped'
    BY <2>1 DEF IInv, Types, NoneIsAhead, LockFits, StageFits, NotYetMapped, NotYet
  <2>3. \A c \in Clients, t \in Kept : Current(c, t)'
    BY <2>1 DEF IInv, Current, Keeps, Recent
  <2> QED
    BY <2>2, <2>3 DEF IInv
<1> QED
  BY <1>1, <1>2, <1>3, <1>4, <1>5, <1>6, <1>7, <1>8, <1>9 DEF Next, Notifying

LEMMA Invariance == Spec => []IInv
BY InitIInv, NextKeepsIInv, PTL DEF Spec

(* A page has the last state announced before its eyes or on its way, unless*)
(* its channel was full for the last message, for any number of pages,      *)
(* notifiers and callers and any size of the buffers (HandleNotifiers,      *)
(* notifyListener).                                                         *)
THEOREM LatestOnTheWay == Spec => []LatestIsComing
<1>1. IInv => LatestIsComing
  <2> SUFFICES ASSUME IInv, NEW c \in Clients, NEW t \in Kept,
                      Subscription(c, t), link[c] = "up", listener[c][t].blocked = Keeping,
                      last[t] = version[t]
               PROVE  Coming(c, t) = version[t]
    BY DEF LatestIsComing, Kept
  <2>1. t \in Topics /\ version[t] \in Nat /\ out[c].body \in Int /\ shown[c][t] \in Int
    BY DEF Kept, IInv, Types, Bodies
  <2>2. Keeps(c, t) /\ next[c] > t /\ Current(c, t)
    BY DEF Subscription, Keeps, IInv
  <2> QED
    BY <2>1, <2>2 DEF Current, Coming, Recent
<1> QED
  BY <1>1, Invariance, PTL

-----------------------------------------------------------------------------
(* The backstop.  A channel found full stays full until its page's reader   *)
(* takes a message from it, and what the reader was writing then ends       *)
(* within one write timeout, after the answer before it within another: the *)
(* channel is not given up before, if the patience is longer than both.     *)
PatienceIsLonger == Patience > 2 * WriteTimeout

FullFits(l) ==
  /\ Len(l.queue) <= BufferSize
  /\ l.taken => Len(l.queue) < BufferSize
  /\ l.blocked # Keeping /\ ~l.taken => Len(l.queue) = BufferSize
(* A channel that was full for the last message, and since has seen its     *)
(* reader neither take a message nor end a write.                           *)
Suspect(l) == l.open /\ l.blocked # Keeping /\ ~l.taken /\ ~l.served
DelayFits(l, writing, queue, since) ==
  Suspect(l) =>
    /\ ~writing => l.blocked = 0
    /\ queue = <<"reply", "out">> => l.blocked <= since
    /\ queue # <<>> /\ Head(queue) = "out" => l.blocked <= WriteTimeout + since
Patient(c, t) ==
  /\ FullFits(listener[c][t])
  /\ stage[c] = "left" => ~listener[c][t].open
  /\ DelayFits(listener[c][t], out[c] # Nothing, lock[c], elapsed[c])
BackstopFits ==
  /\ elapsed \in [Clients -> 0 .. WriteTimeout]
  /\ \A c \in Clients, t \in Topics : Patient(c, t)
LEMMA EmptyIsShort == Len(<<>>) = 0 /\ \A s \in Seq(Nat) : s = <<>> <=> Len(s) = 0
  BY EmptySeq

LEMMA InitBackstopFits == Init => BackstopFits
<1> SUFFICES ASSUME Init PROVE BackstopFits
  OBVIOUS
<1>1. elapsed \in [Clients -> 0 .. WriteTimeout]
  BY NotifierAssumption DEF Init
<1>2. ASSUME NEW c \in Clients, NEW t \in Topics PROVE Patient(c, t)
  <2>1. listener[c][t] = NoListener /\ stage[c] = "listen"
    BY DEF Init
  <2>2. FullFits(NoListener) /\ ~Suspect(NoListener)
    BY NotifierAssumption, EmptyIsShort DEF FullFits, Suspect, NoListener, Keeping
  <2> QED
    BY <2>1, <2>2 DEF Patient, DelayFits
<1> QED
  BY <1>1, <1>2 DEF BackstopFits

(* A page nothing is done to. *)
LEMMA PatientUnchanged ==
  ASSUME NEW c \in Clients, NEW t \in Topics, Patient(c, t), listener'[c][t] = listener[c][t],
         stage'[c] = stage[c], out'[c] = out[c], lock'[c] = lock[c], elapsed'[c] = elapsed[c]
  PROVE  Patient(c, t)'
  BY DEF Patient

(* Only a full channel from which nothing was taken is given up, and not    *)
(* for a message that finds it full at first.                               *)
LEMMA OfferedIsPatient ==
  ASSUME NEW l \in Listeners, NEW body \in Nat, FullFits(l)
  PROVE  LET m == Offered(l, body) IN
         /\ FullFits(m) /\ m.open = l.open
         /\ Suspect(m) => m.blocked = 0 \/ (Suspect(l) /\ m.blocked = l.blocked)
         /\ l.mapped /\ l.open /\ ~m.mapped => ~l.taken /\ l.blocked \in Nat /\ l.blocked >= Patience
<1> USE NotifierAssumption
<1>0. l.queue \in Seq(Nat) /\ Len(l.queue) \in Nat /\ l.blocked \in Nat \cup {Keeping}
      /\ l.mapped \in BOOLEAN /\ l.open \in BOOLEAN /\ l.taken \in BOOLEAN
  BY LenProperties DEF Listeners
<1>1. CASE ~l.mapped
  BY <1>1 DEF Offered
<1>2. CASE l.mapped /\ ~l.open
  <2>1. Offered(l, body) = Reaped(l)
    BY <1>2 DEF Offered
  <2> QED
    BY <1>2, <2>1 DEF Reaped, Listeners, FullFits, Suspect
<1>3. CASE l.mapped /\ l.open /\ Len(l.queue) < BufferSize
  <2>1. Offered(l, body) = Accepted(l, body)
    BY <1>3 DEF Offered
  <2>2. /\ Accepted(l, body).queue = Append(l.queue, body) /\ Accepted(l, body).mapped
        /\ Accepted(l, body).open = l.open /\ Accepted(l, body).blocked = Keeping
        /\ Accepted(l, body).taken = FALSE
    BY <1>3 DEF Accepted, Listeners
  <2>3. Len(Append(l.queue, body)) = Len(l.queue) + 1
    BY <1>0, AppendProperties
  <2> QED
    BY <1>0, <1>3, <2>1, <2>2, <2>3 DEF FullFits, Suspect
<1>4. CASE l.mapped /\ l.open /\ ~(Len(l.queue) < BufferSize)
  <2> DEFINE spell == IF l.blocked = Keeping THEN [l EXCEPT !.blocked = 0] ELSE l
  <2>1. Offered(l, body) = [spell EXCEPT !.mapped = spell.blocked < Patience]
    BY <1>4 DEF Offered, Refused
  <2>2. /\ spell \in Listeners /\ spell.queue = l.queue /\ spell.open = l.open
        /\ spell.taken = l.taken /\ spell.served = l.served
        /\ spell.blocked = IF l.blocked = Keeping THEN 0 ELSE l.blocked
    BY <1>0 DEF Listeners, Keeping
  <2> HIDE DEF spell
  <2>3. /\ Offered(l, body).queue = l.queue /\ Offered(l, body).open = l.open
        /\ Offered(l, body).taken = l.taken /\ Offered(l, body).served = l.served
        /\ Offered(l, body).blocked = spell.blocked
        /\ Offered(l, body).mapped = (spell.blocked < Patience)
    BY <2>1, <2>2 DEF Listeners
  <2>4. Len(l.queue) = BufferSize /\ ~l.taken
    BY <1>0, <1>4 DEF FullFits
  <2>5. FullFits(Offered(l, body))
    BY <1>0, <2>3, <2>4 DEF FullFits
  <2>6. Suspect(Offered(l, body)) =>
          Offered(l, body).blocked = 0 \/ (Suspect(l) /\ Offered(l, body).blocked = l.blocked)
    BY <2>2, <2>3, <2>4 DEF Suspect
  <2>7. ASSUME ~Offered(l, body).mapped PROVE l.blocked \in Nat /\ l.blocked >= Patience
    <3>1. ~(spell.blocked < Patience)
      BY <2>3, <2>7
    <3>2. CASE l.blocked = Keeping
      BY <2>2, <3>1, <3>2
    <3>3. CASE l.blocked # Keeping
      <4>1. spell.blocked = l.blocked /\ l.blocked \in Nat
        BY <1>0, <2>2, <3>3
      <4> QED
        BY <3>1, <4>1
    <3> QED
      BY <3>2, <3>3
  <2> QED
    BY <2>3, <2>4, <2>5, <2>6, <2>7
<1> QED
  BY <1>1, <1>2, <1>3, <1>4

LEMMA NotifyKeepsBackstop ==
  ASSUME IInv, BackstopFits, NEW w \in Callers, NotifyWithMessage(w)
  PROVE  BackstopFits'
<1> USE DEF IInv
<1>1. call[w].topic \in Topics /\ call[w].body \in Nat
      /\ UNCHANGED <<stage, out, lock, elapsed>>
  BY DEF NotifyWithMessage, Types, readerVars, writeVars
<1>2. ASSUME NEW c \in Clients, NEW t \in Topics PROVE Patient(c, t)'
  <2>1. /\ listener[c][t] \in Listeners /\ Patient(c, t) /\ elapsed[c] \in 0 .. WriteTimeout
        /\ listener'[c][t] = IF t = call[w].topic THEN Offered(listener[c][t], call[w].body)
                                                  ELSE listener[c][t]
    BY <1>1 DEF NotifyWithMessage, Types, BackstopFits
  <2>2. CASE t = call[w].topic
    <3>1. listener'[c][t] = Offered(listener[c][t], call[w].body)
      BY <2>1, <2>2
    <3>2. /\ FullFits(listener'[c][t]) /\ listener'[c][t].open = listener[c][t].open
          /\ Suspect(listener'[c][t]) =>
               \/ listener'[c][t].blocked = 0
               \/ Suspect(listener[c][t]) /\ listener'[c][t].blocked = listener[c][t].blocked
      BY <1>1, <2>1, <3>1, OfferedIsPatient DEF Patient
    <3>3. 0 <= elapsed[c] /\ 0 <= WriteTimeout + elapsed[c]
      BY <2>1, NotifierAssumption
    <3> QED
      BY <1>1, <2>1, <3>2, <3>3 DEF Patient, DelayFits
  <2>3. CASE t # call[w].topic
    BY <1>1, <2>1, <2>3, PatientUnchanged
  <2> QED
    BY <2>2, <2>3
<1> QED
  BY <1>1, <1>2 DEF BackstopFits

LEMMA ListenKeepsBackstop ==
  ASSUME IInv, BackstopFits, NEW c \in Clients, Listen(c)
  PROVE  BackstopFits'
<1> USE DEF IInv
<1>1. /\ stage[c] = "listen" /\ stage' = [stage EXCEPT ![c] = "boot"] /\ next[c] \in Topics
      /\ UNCHANGED <<out, lock, elapsed>>
      /\ listener' = [listener EXCEPT ![c] = [listener[c] EXCEPT ![next[c]] =
                         [listener[c][next[c]] EXCEPT !.mapped = TRUE]]]
  BY DEF Listen, StageFits, writeVars, Subscribed
<1>2. ASSUME NEW d \in Clients, NEW t \in Topics PROVE Patient(d, t)'
  <2>1. listener[d][t] \in Listeners /\ Patient(d, t)
    BY DEF Types, BackstopFits
  <2>2. /\ listener'[d][t].open = listener[d][t].open /\ listener'[d][t].queue = listener[d][t].queue
        /\ listener'[d][t].blocked = listener[d][t].blocked
        /\ listener'[d][t].taken = listener[d][t].taken
        /\ listener'[d][t].served = listener[d][t].served
    <3>1. CASE d = c /\ t = next[c]
      <4>1. listener'[d][t] = [listener[d][t] EXCEPT !.mapped = TRUE]
        BY <1>1, <3>1 DEF Types
      <4> QED
        BY <2>1, <4>1 DEF Listeners
    <3>2. CASE ~(d = c /\ t = next[c])
      <4>1. listener'[d][t] = listener[d][t]
        BY <1>1, <3>2 DEF Types
      <4> QED
        BY <4>1
    <3> QED
      BY <3>1, <3>2
  <2>3. stage'[d] = "left" => stage[d] = "left"
    BY <1>1 DEF Types
  <2> QED
    BY <1>1, <2>1, <2>2, <2>3 DEF Patient, FullFits, DelayFits, Suspect
<1> QED
  BY <1>1, <1>2 DEF BackstopFits

(* The reader takes up something to write: no channel of its page has been  *)
(* full for a time, but those it takes from.                                *)
LEMMA SendKeepsBackstop ==
  ASSUME IInv, BackstopFits, NEW c \in Clients, NEW message \in Bodies, Send(c, message),
         out[c] = Nothing, UNCHANGED <<stage, elapsed>>,
         \A d \in Clients, t \in Topics :
           /\ d # c => listener'[d][t] = listener[d][t]
           /\ FullFits(listener'[d][t]) /\ listener'[d][t].open = listener[d][t].open
           /\ Suspect(listener'[d][t]) =>
                Suspect(listener[d][t]) /\ listener'[d][t].blocked = listener[d][t].blocked
  PROVE  BackstopFits'
<1> USE DEF IInv
<1>1. out' = [out EXCEPT ![c] = message] /\ lock' = [lock EXCEPT ![c] = Append(@, "out")]
  BY DEF Send, Write
<1>2. ASSUME NEW d \in Clients, NEW t \in Topics PROVE Patient(d, t)'
  <2>1. Patient(d, t) /\ elapsed'[d] = elapsed[d] /\ elapsed[d] \in 0 .. WriteTimeout
        /\ stage'[d] = stage[d]
    BY DEF BackstopFits
  <2>2. CASE d # c
    <3>1. out'[d] = out[d] /\ lock'[d] = lock[d]
      BY <1>1, <2>2 DEF Types
    <3> QED
      BY <2>1, <2>2, <3>1, PatientUnchanged
  <2>3. CASE d = c
    <3>1. Suspect(listener'[d][t]) => listener'[d][t].blocked = 0
      BY <2>1, <2>3 DEF Patient, DelayFits
    <3>2. 0 <= elapsed[d] /\ 0 <= WriteTimeout + elapsed[d]
      BY <2>1, NotifierAssumption
    <3>3. DelayFits(listener'[d][t], out'[d] # Nothing, lock'[d], elapsed'[d])
      BY <2>1, <3>1, <3>2 DEF DelayFits
    <3> QED
      BY <2>1, <3>3 DEF Patient
  <2> QED
    BY <2>2, <2>3
<1> QED
  BY <1>2 DEF BackstopFits

LEMMA HandlingKeepsBackstop ==
  ASSUME IInv, BackstopFits, NEW c \in Clients, Handling(c)
  PROVE  BackstopFits'
<1> USE DEF IInv
<1>1. CASE Listen(c)
  BY <1>1, ListenKeepsBackstop
<1>2. \A d \in Clients, t \in Topics : FullFits(listener[d][t])
  BY DEF BackstopFits, Patient
<1>3. CASE Bootstrap(c)
  <2>1. next[c] \in Topics
    BY <1>3 DEF Bootstrap, StageFits
  <2>2. [topic |-> next[c], body |-> version[next[c]]] \in Bodies
    BY <2>1, NothingIsTyped DEF Types, Topics
  <2> QED
    BY <1>2, <1>3, <2>2, SendKeepsBackstop DEF Bootstrap
<1>4. CASE PingClient(c)
  BY <1>2, <1>4, NothingIsTyped, SendKeepsBackstop DEF PingClient, Waiting
<1>5. ASSUME NEW u \in Topics, Forward(c, u) PROVE BackstopFits'
  <2> DEFINE l == listener[c][u]
  <2>1. /\ l \in Listeners /\ l.queue \in Seq(Nat) /\ l.queue # <<>> /\ FullFits(l)
        /\ out[c] = Nothing /\ Send(c, [topic |-> u, body |-> Head(l.queue)])
        /\ UNCHANGED <<stage, elapsed>>
        /\ listener' = [listener EXCEPT ![c] = [listener[c] EXCEPT ![u] =
                           [l EXCEPT !.queue = Tail(@), !.taken = l.blocked # Keeping]]]
    BY <1>2, <1>5 DEF Forward, Waiting, Types, Listeners
  <2>2. /\ Head(l.queue) \in Nat /\ Len(Tail(l.queue)) = Len(l.queue) - 1
        /\ Len(l.queue) \in Nat \ {0}
    BY <2>1, HeadTailProperties, EmptySeq
  <2>3. [topic |-> u, body |-> Head(l.queue)] \in Bodies
    BY <2>2, NothingIsTyped DEF Topics
  <2>4. ASSUME NEW d \in Clients, NEW t \in Topics
        PROVE  /\ d # c => listener'[d][t] = listener[d][t]
               /\ FullFits(listener'[d][t]) /\ listener'[d][t].open = listener[d][t].open
               /\ Suspect(listener'[d][t]) =>
                    Suspect(listener[d][t]) /\ listener'[d][t].blocked = listener[d][t].blocked
    <3>1. CASE d = c /\ t = u
      <4>1. listener'[d][t] = [l EXCEPT !.queue = Tail(@), !.taken = l.blocked # Keeping]
        BY <2>1, <3>1 DEF Types
      <4>2. l \in Listeners /\ l = listener[d][t]
        BY <2>1, <3>1
      <4> HIDE DEF l
      <4>3. /\ listener'[d][t].queue = Tail(l.queue) /\ listener'[d][t].open = l.open
            /\ listener'[d][t].taken = (l.blocked # Keeping)
            /\ listener'[d][t].blocked = l.blocked
        BY <4>1, <4>2 DEF Listeners
      <4>4. Len(l.queue) <= BufferSize
        BY <2>1 DEF FullFits
      <4>5. FullFits(listener'[d][t])
        <5>1. Len(listener'[d][t].queue) < BufferSize /\ Len(listener'[d][t].queue) <= BufferSize
          BY <2>2, <4>3, <4>4, NotifierAssumption
        <5>2. ~(listener'[d][t].blocked # Keeping /\ ~listener'[d][t].taken)
          BY <4>3
        <5> QED
          BY <5>1, <5>2 DEF FullFits
      <4>6. ~Suspect(listener'[d][t])
        BY <4>3 DEF Suspect
      <4> QED
        BY <3>1, <4>2, <4>3, <4>5, <4>6
    <3>2. CASE ~(d = c /\ t = u)
      <4>1. listener'[d][t] = listener[d][t]
        BY <2>1, <3>2 DEF Types
      <4> QED
        BY <1>2, <4>1
    <3> QED
      BY <3>1, <3>2
  <2> HIDE DEF l
  <2> QED
    BY <2>1, <2>3, <2>4, SendKeepsBackstop
<1> QED
  BY <1>1, <1>3, <1>4, <1>5 DEF Handling


LEMMA ListenersAreTyped ==
  ASSUME Types, NEW c \in Clients, NEW t \in Topics
  PROVE  /\ listener[c][t] \in Listeners /\ listener[c][t].blocked \in Nat \cup {-1}
         /\ listener[c][t].open \in BOOLEAN /\ listener[c][t].served \in BOOLEAN
         /\ listener[c][t].taken \in BOOLEAN
  BY DEF Types, Listeners, Keeping

(* A command of the page waits for the write mutex, if the reader has it.   *)
LEMMA CommandKeepsBackstop ==
  ASSUME IInv, BackstopFits, NEW c \in Clients, NEW u \in Answered, Command(c, u)
  PROVE  BackstopFits'
<1> USE DEF IInv
<1>1. /\ reply[c] = Nothing /\ lock' = [lock EXCEPT ![c] = Append(@, "reply")]
      /\ UNCHANGED <<listener, stage, out, elapsed>>
  BY DEF Command, Write, readerVars
<1>2. ASSUME NEW d \in Clients, NEW t \in Topics PROVE Patient(d, t)'
  <2>1. Patient(d, t)
    BY DEF BackstopFits
  <2>2. CASE d # c
    <3>1. lock'[d] = lock[d]
      BY <1>1, <2>2 DEF Types
    <3> QED
      BY <1>1, <2>1, <3>1, PatientUnchanged
  <2>3. CASE d = c
    <3>1. lock'[d] = Append(lock[d], "reply")
      BY <1>1, <2>3 DEF Types
    <3>2. "out" \in Writers /\ "reply" \in Writers
      BY DEF Writers
    <3>3. CASE lock[d] = <<>>
      <4>1. lock'[d] = <<"reply">>
        BY <3>1, <3>2, <3>3, ShortSequences
      <4>2. lock'[d] # <<"reply", "out">> /\ Head(lock'[d]) # "out"
        BY <3>2, <4>1, ShortSequences
      <4> QED
        BY <1>1, <2>1, <4>2 DEF Patient, DelayFits
    <3>4. CASE lock[d] = <<"out">>
      <4>1. lock'[d] = <<"out", "reply">>
        BY <3>1, <3>2, <3>4, ShortSequences
      <4>2. lock'[d] # <<"reply", "out">> /\ Head(lock[d]) = "out" /\ lock[d] # <<>>
        BY <3>2, <3>4, <4>1, ShortSequences
      <4> QED
        BY <1>1, <2>1, <4>2 DEF Patient, DelayFits
    <3>5. Queued(lock[d], out[d] # Nothing, FALSE)
      BY <1>1, <2>3 DEF LockFits
    <3> QED
      BY <3>3, <3>4, <3>5 DEF Queued
  <2> QED
    BY <2>2, <2>3
<1> QED
  BY <1>1, <1>2 DEF BackstopFits

(* Whoever writes is done within the write timeout; the reader then goes on *)
(* to its channels, and a command leaves the mutex to it.                   *)
LEMMA ReplyIsDone ==
  ASSUME NEW c \in Clients, NEW t \in Topics, Types, LockFits, Patient(c, t),
         elapsed[c] \in 0 .. WriteTimeout, lock[c] # <<>>, Head(lock[c]) = "reply",
         listener'[c][t] = listener[c][t], out'[c] = out[c], stage'[c] = stage[c],
         lock'[c] = Tail(lock[c]), elapsed'[c] = 0
  PROVE  Patient(c, t)'
<1>1. Queued(lock[c], out[c] # Nothing, reply[c] # Nothing)
  BY DEF LockFits
<1>2. "out" \in Writers /\ "reply" \in Writers /\ "out" # "reply"
  BY DEF Writers
<1>3. CASE lock[c] = <<"reply">> /\ out[c] = Nothing
  <2>1. lock'[c] = <<>>
    BY <1>2, <1>3, ShortSequences
  <2>2. <<>> # <<"reply", "out">>
    OBVIOUS
  <2> QED
    BY <1>3, <2>1, <2>2 DEF Patient, DelayFits
<1>4. CASE lock[c] = <<"reply", "out">> /\ out[c] # Nothing
  <2>1. lock'[c] = <<"out">> /\ lock'[c] # <<"reply", "out">>
    BY <1>2, <1>4, ShortSequences
  <2>2. Suspect(listener'[c][t]) => listener'[c][t].blocked <= elapsed[c]
    BY <1>4 DEF Patient, DelayFits
  <2>3. ASSUME Suspect(listener'[c][t]) PROVE listener'[c][t].blocked <= WriteTimeout + elapsed'[c]
    BY <2>2, <2>3, NotifierAssumption, ListenersAreTyped
  <2> QED
    BY <1>4, <2>1, <2>3 DEF Patient, DelayFits
<1> QED
  BY <1>1, <1>2, <1>3, <1>4, ShortSequences DEF Queued

LEMMA WrittenKeepsBackstop ==
  ASSUME IInv, BackstopFits, NEW c \in Clients, lock[c] # <<>>, Written(c), Released(c)
  PROVE  BackstopFits'
<1> USE DEF IInv
<1>1. /\ lock' = [lock EXCEPT ![c] = Tail(@)] /\ elapsed' = [elapsed EXCEPT ![c] = 0]
      /\ lock'[c] = Tail(lock[c])
  BY DEF Released, Types
<1>2. elapsed' \in [Clients -> 0 .. WriteTimeout] /\ elapsed'[c] = 0 /\ elapsed[c] \in 0 .. WriteTimeout
  BY <1>1, NotifierAssumption DEF BackstopFits
<1>3. ASSUME NEW d \in Clients, NEW t \in Topics PROVE Patient(d, t)'
  <2>1. Patient(d, t) /\ listener[d][t] \in Listeners
    BY DEF BackstopFits, Types
  <2>2. CASE d # c
    <3>1. listener'[d] = listener[d] /\ out'[d] = out[d] /\ stage'[d] = stage[d]
      BY <2>2, WrittenIs DEF Written, Types, readerVars
    <3>2. lock'[d] = lock[d] /\ elapsed'[d] = elapsed[d]
      BY <1>1, <2>2 DEF Types, BackstopFits
    <3> QED
      BY <2>1, <3>1, <3>2, PatientUnchanged
  <2>3. CASE d = c /\ Head(lock[c]) = "reply" /\ UNCHANGED <<readerVars, listener>>
    BY <1>1, <1>2, <2>1, <2>3, ReplyIsDone DEF readerVars
  <2>4. CASE /\ d = c
             /\ stage' = [stage EXCEPT ![c] = IF next'[c] > Notifiers THEN "serve" ELSE "listen"]
             /\ listener' = [listener EXCEPT ![c] = [u \in Topics |-> Progress(c, @[u])]]
    <3>1. /\ stage'[d] # "left"
          /\ listener'[d][t] = [listener[d][t] EXCEPT !.served = listener[d][t].blocked # Keeping]
      BY <2>4 DEF Types, Progress
    <3>2. /\ listener'[d][t].open = listener[d][t].open /\ listener'[d][t].queue = listener[d][t].queue
          /\ listener'[d][t].blocked = listener[d][t].blocked
          /\ listener'[d][t].taken = listener[d][t].taken
          /\ listener'[d][t].served = (listener[d][t].blocked # Keeping)
      BY <2>1, <3>1 DEF Listeners
    <3>3. ~Suspect(listener'[d][t])
      BY <3>2 DEF Suspect
    <3>4. FullFits(listener'[d][t])
      BY <2>1, <3>2 DEF FullFits, Patient
    <3> QED
      BY <3>1, <3>3, <3>4 DEF Patient, DelayFits
  <2> QED
    BY <2>2, <2>3, <2>4 DEF Written
<1> QED
  BY <1>2, <1>3 DEF BackstopFits

LEMMA FailsKeepsBackstop ==
  ASSUME IInv, BackstopFits, NEW c \in Clients, WriteFails(c)
  PROVE  BackstopFits'
<1> USE DEF IInv
<1>1. /\ lock[c] # <<>> /\ lock' = [lock EXCEPT ![c] = Tail(@)]
      /\ elapsed' = [elapsed EXCEPT ![c] = 0] /\ lock'[c] = Tail(lock[c])
  BY DEF WriteFails, Released, Types
<1>2. elapsed' \in [Clients -> 0 .. WriteTimeout] /\ elapsed'[c] = 0 /\ elapsed[c] \in 0 .. WriteTimeout
  BY <1>1, NotifierAssumption DEF BackstopFits
<1>3. ASSUME NEW d \in Clients, NEW t \in Topics PROVE Patient(d, t)'
  <2>1. Patient(d, t) /\ listener[d][t] \in Listeners
    BY DEF BackstopFits, Types
  <2>2. CASE d # c
    <3>1. listener'[d] = listener[d] /\ out'[d] = out[d] /\ stage'[d] = stage[d]
      BY <2>2 DEF WriteFails, Leave, Types, readerVars
    <3>2. lock'[d] = lock[d] /\ elapsed'[d] = elapsed[d]
      BY <1>1, <2>2 DEF Types, BackstopFits
    <3> QED
      BY <2>1, <3>1, <3>2, PatientUnchanged
  <2>3. CASE d = c /\ Head(lock[c]) = "reply" /\ UNCHANGED <<readerVars, listener>>
    BY <1>1, <1>2, <2>1, <2>3, ReplyIsDone DEF readerVars
  <2>4. CASE d = c /\ Leave(c)
    <3>1. listener'[d][t] = Closed(listener[d][t])
      BY <2>4 DEF Leave, Types
    <3>2. /\ ~listener'[d][t].open /\ listener'[d][t].queue = <<>>
          /\ listener'[d][t].blocked = Keeping /\ ~listener'[d][t].taken
      BY <3>1 DEF Closed, NoListener
    <3>3. FullFits(listener'[d][t])
      BY <3>2, EmptyIsShort, NotifierAssumption DEF FullFits
    <3> QED
      BY <3>2, <3>3 DEF Patient, DelayFits, Suspect
  <2> QED
    BY <2>2, <2>3, <2>4 DEF WriteFails
<1> QED
  BY <1>2, <1>3 DEF BackstopFits

(* Time passes for a full channel only while its page is written to.        *)
LEMMA TickKeepsBackstop ==
  ASSUME IInv, BackstopFits, Tick
  PROVE  BackstopFits'
<1> USE DEF IInv
<1>1. /\ \A c \in Clients : ~Busy(c)
      /\ elapsed' = [c \in Clients |->
           IF lock[c] = <<>> \/ elapsed[c] = WriteTimeout THEN elapsed[c] ELSE elapsed[c] + 1]
      /\ UNCHANGED <<out, lock, stage>>
      /\ \A c \in Clients, t \in Topics : listener'[c][t] = Aged(listener[c][t])
  BY DEF Tick, readerVars
<1>2. elapsed' \in [Clients -> 0 .. WriteTimeout]
  BY <1>1, NotifierAssumption DEF BackstopFits
<1>3. ASSUME NEW c \in Clients, NEW t \in Topics PROVE Patient(c, t)'
  <2>1. Patient(c, t) /\ FullFits(listener[c][t]) /\ elapsed[c] \in 0 .. WriteTimeout
    BY DEF BackstopFits, Patient
  <2>2. /\ listener[c][t] \in Listeners /\ listener[c][t].blocked \in Nat \cup {-1}
        /\ listener[c][t].queue \in Seq(Nat)
    BY ListenersAreTyped DEF Listeners
  <2>3. /\ listener'[c][t].open = listener[c][t].open /\ listener'[c][t].queue = listener[c][t].queue
        /\ listener'[c][t].taken = listener[c][t].taken
        /\ listener'[c][t].served = listener[c][t].served
        /\ listener'[c][t].blocked = IF listener[c][t].blocked \in {Keeping, Patience}
                                     THEN listener[c][t].blocked ELSE listener[c][t].blocked + 1
    <3>1. listener'[c][t] = Aged(listener[c][t])
      BY <1>1
    <3>2. CASE listener[c][t].blocked \in {Keeping, Patience}
      <4>1. Aged(listener[c][t]) = [listener[c][t] EXCEPT !.blocked = listener[c][t].blocked]
        BY <2>2, <3>2 DEF Aged, Listeners
      <4> QED
        BY <2>2, <3>1, <3>2, <4>1 DEF Listeners
    <3>3. CASE listener[c][t].blocked \notin {Keeping, Patience}
      <4>1. Aged(listener[c][t]) = [listener[c][t] EXCEPT !.blocked = listener[c][t].blocked + 1]
        BY <2>2, <3>3 DEF Aged, Listeners
      <4> QED
        BY <2>2, <3>1, <3>3, <4>1 DEF Listeners
    <3> QED
      BY <3>2, <3>3
  <2>4. /\ listener'[c][t].blocked = Keeping <=> listener[c][t].blocked = Keeping
        /\ listener'[c][t].blocked <= listener[c][t].blocked + 1
    BY <2>2, <2>3 DEF Keeping
  <2>5. FullFits(listener'[c][t])
    BY <2>1, <2>3, <2>4 DEF FullFits
  <2>6. ASSUME Suspect(listener'[c][t])
        PROVE  Suspect(listener[c][t]) /\ out[c] # Nothing /\ elapsed'[c] = elapsed[c] + 1
    <3>1. Suspect(listener[c][t])
      BY <2>3, <2>4, <2>6 DEF Suspect
    <3>2. Len(listener[c][t].queue) = BufferSize
      BY <2>1, <3>1 DEF FullFits, Suspect
    <3>3. listener[c][t].queue # <<>>
      BY <3>2, EmptyIsShort, NotifierAssumption
    <3>4. stage[c] # "left"
      BY <2>1, <3>1 DEF Patient, Suspect
    <3>5. out[c] # Nothing
      <4>1. stage[c] \in {"listen", "boot", "serve", "left"}
        BY DEF Types
      <4>2. stage[c] # "listen" /\ ~(stage[c] = "boot" /\ out[c] = Nothing)
        BY <1>1 DEF Busy
      <4>3. ~Waiting(c)
        BY <1>1, <3>3 DEF Busy
      <4> QED
        BY <3>4, <4>1, <4>2, <4>3 DEF Waiting
    <3>6. lock[c] # <<>>
      <4>1. <<"out">> # <<>> /\ <<"out", "reply">> # <<>> /\ <<"reply", "out">> # <<>>
        OBVIOUS
      <4> QED
        BY <3>5, <4>1 DEF LockFits, Queued
    <3>7. elapsed[c] # WriteTimeout
      BY <1>1, <3>6 DEF Busy, MustFail
    <3> QED
      BY <1>1, <3>1, <3>5, <3>6, <3>7
  <2>7. DelayFits(listener'[c][t], out'[c] # Nothing, lock'[c], elapsed'[c])
    <3> SUFFICES ASSUME Suspect(listener'[c][t])
                 PROVE  /\ lock[c] = <<"reply", "out">> => listener'[c][t].blocked <= elapsed'[c]
                        /\ lock[c] # <<>> /\ Head(lock[c]) = "out" =>
                             listener'[c][t].blocked <= WriteTimeout + elapsed'[c]
      BY <1>1, <2>6 DEF DelayFits
    <3>1. /\ lock[c] = <<"reply", "out">> => listener[c][t].blocked <= elapsed[c]
          /\ lock[c] # <<>> /\ Head(lock[c]) = "out" => listener[c][t].blocked <= WriteTimeout + elapsed[c]
      BY <2>1, <2>6 DEF Patient, DelayFits
    <3>2. elapsed'[c] = elapsed[c] + 1 /\ listener[c][t].blocked \in Nat
      BY <2>2, <2>6 DEF Suspect, Keeping
    <3>3. listener'[c][t].blocked \in Nat /\ elapsed[c] \in Nat /\ WriteTimeout \in Nat
      BY <2>1, <2>3, <3>2, NotifierAssumption
    <3>4. ASSUME listener[c][t].blocked <= elapsed[c] PROVE listener'[c][t].blocked <= elapsed'[c]
      BY <2>2, <2>4, <3>2, <3>3, <3>4
    <3>5. ASSUME listener[c][t].blocked <= WriteTimeout + elapsed[c]
          PROVE  listener'[c][t].blocked <= WriteTimeout + elapsed'[c]
      BY <2>2, <2>4, <3>2, <3>3, <3>5
    <3> QED
      BY <3>1, <3>4, <3>5
  <2> QED
    BY <1>1, <2>1, <2>3, <2>5, <2>7 DEF Patient
<1> QED
  BY <1>2, <1>3 DEF BackstopFits

LEMMA NextKeepsBackstop ==
  ASSUME IInv, BackstopFits, [Next]_vars
  PROVE  BackstopFits'
<1>1. CASE UNCHANGED <<listener, stage, out, lock, elapsed>>
  BY <1>1, PatientUnchanged DEF BackstopFits
<1>2. ASSUME NEW t \in Periodic, ChangeQuietly(t) \/ Refresh(t) PROVE BackstopFits'
  BY <1>1, <1>2 DEF ChangeQuietly, Refresh, readerVars, writeVars
<1>3. ASSUME NEW w \in Callers, Notifying(w) PROVE BackstopFits'
  <2>1. ASSUME NEW t \in Topics, Announce(w, t) PROVE BackstopFits'
    BY <1>1, <2>1 DEF Announce, readerVars, writeVars
  <2> QED
    BY <1>3, <2>1, NotifyKeepsBackstop DEF Notifying
<1>4. ASSUME NEW c \in Clients, Handling(c) PROVE BackstopFits'
  BY <1>4, HandlingKeepsBackstop
<1>5. ASSUME NEW c \in Clients, Writing(c) PROVE BackstopFits'
  BY <1>5, WrittenKeepsBackstop, FailsKeepsBackstop DEF Writing, WriteReachesPage, WriteIsBuffered
<1>6. ASSUME NEW c \in Clients, Page(c) PROVE BackstopFits'
  <2>1. ASSUME ClosePage(c) \/ Vanish(c) PROVE BackstopFits'
    BY <1>1, <2>1 DEF ClosePage, Vanish, readerVars, writeVars
  <2> QED
    BY <1>6, <2>1, CommandKeepsBackstop DEF Page
<1>7. CASE Tick
  BY <1>7, TickKeepsBackstop
<1>8. CASE UNCHANGED vars
  BY <1>1, <1>8 DEF vars, readerVars, writeVars
<1> QED
  BY <1>2, <1>3, <1>4, <1>5, <1>6, <1>7, <1>8 DEF Next

(* Only a message that is offered makes a notifier forget a channel.        *)
LEMMA OnlyOffersGiveUp ==
  ASSUME IInv, [Next]_vars, NEW c \in Clients, NEW t \in Topics, listener[c][t].mapped
  PROVE  listener'[c][t].mapped \/ \E w \in Callers : NotifyWithMessage(w)
<1> USE DEF IInv
<1>0. listener[c][t] \in Listeners /\ DOMAIN listener = Clients /\ DOMAIN listener[c] = Topics
  BY DEF Types
<1>1. CASE UNCHANGED listener
  BY <1>1
<1>2. ASSUME NEW d \in Clients, Handling(d) PROVE listener'[c][t].mapped
  <2>1. CASE Listen(d)
    <3>1. listener' = [listener EXCEPT ![d] = [listener[d] EXCEPT ![next[d]] =
                         [listener[d][next[d]] EXCEPT !.mapped = TRUE]]]
      BY <2>1 DEF Listen, Subscribed
    <3>2. \/ listener'[c][t] = listener[c][t]
          \/ listener'[c][t] = [listener[c][t] EXCEPT !.mapped = TRUE]
      BY <1>0, <3>1 DEF Types
    <3> QED
      BY <1>0, <3>2 DEF Listeners
  <2>2. CASE Bootstrap(d) \/ PingClient(d)
    BY <1>1, <2>2 DEF Bootstrap, PingClient
  <2>3. ASSUME NEW u \in Topics, Forward(d, u) PROVE listener'[c][t].mapped
    <3> DEFINE l == listener[d][u]
    <3> DEFINE m == [l EXCEPT !.queue = Tail(@), !.taken = l.blocked # Keeping]
    <3>1. listener' = [listener EXCEPT ![d] = [listener[d] EXCEPT ![u] = m]]
      BY <2>3 DEF Forward
    <3>2. l \in Listeners
      BY DEF Types
    <3>3. m.mapped = l.mapped
      BY <3>2 DEF Listeners
    <3> HIDE DEF m
    <3>4. listener'[c][t] = listener[c][t] \/ (l = listener[c][t] /\ listener'[c][t] = m)
      BY <1>0, <3>1 DEF Types
    <3> QED
      BY <3>3, <3>4
  <2> QED
    BY <1>2, <2>1, <2>2, <2>3 DEF Handling
<1>3. ASSUME NEW d \in Clients, Writing(d) PROVE listener'[c][t].mapped
  <2>1. CASE WriteReachesPage(d) \/ WriteIsBuffered(d)
    BY <2>1, WrittenIs DEF WriteReachesPage, WriteIsBuffered
  <2>2. CASE WriteFails(d) /\ Leave(d)
    <3>1. listener'[c][t] = listener[c][t] \/ listener'[c][t] = Closed(listener[c][t])
      BY <1>0, <2>2 DEF Leave, Types
    <3> QED
      BY <3>1 DEF Closed, NoListener
  <2>3. CASE WriteFails(d) /\ UNCHANGED listener
    BY <1>1, <2>3
  <2> QED
    BY <1>3, <2>1, <2>2, <2>3 DEF Writing, WriteFails
<1>4. CASE Tick
  <2>1. listener'[c][t] = Aged(listener[c][t])
    BY <1>4 DEF Tick
  <2> QED
    BY <1>0, <2>1 DEF Aged, Listeners
<1>5. CASE ~(\E w \in Callers : NotifyWithMessage(w)) /\ ~Tick
           /\ ~(\E d \in Clients : Handling(d) \/ Writing(d))
  <2>1. ASSUME NEW u \in Periodic, ChangeQuietly(u) \/ Refresh(u) PROVE UNCHANGED listener
    BY <2>1 DEF ChangeQuietly, Refresh
  <2>2. ASSUME NEW w \in Callers, NEW u \in Topics, Announce(w, u) PROVE UNCHANGED listener
    BY <2>2 DEF Announce
  <2>3. ASSUME NEW d \in Clients, Page(d) PROVE UNCHANGED listener
    BY <2>3 DEF Page, ClosePage, Vanish, Command
  <2>4. CASE UNCHANGED vars
    BY <2>4 DEF vars
  <2> QED
    BY <1>1, <1>5, <2>1, <2>2, <2>3, <2>4 DEF Next, Notifying
<1> QED
  BY <1>2, <1>3, <1>4, <1>5

(* A channel is given up only if nothing was read from it since it was first*)
(* found full and its page's reader ended a write meanwhile: a page that    *)
(* vanished is not what the backstop is for, if its patience outlasts the   *)
(* two writes it can have to wait for (notifyListener, Websocket.Write).    *)
THEOREM BackstopSafety == ASSUME PatienceIsLonger PROVE Spec => BackstopIsForSlowPages
<1> DEFINE A ==
      \A c \in Clients, t \in Topics :
        /\ listener[c][t].mapped /\ listener[c][t].open /\ ~listener'[c][t].mapped
        => ~listener[c][t].taken /\ listener[c][t].served
<1>1. Init => IInv /\ BackstopFits
  BY InitIInv, InitBackstopFits
<1>2. IInv /\ BackstopFits /\ [Next]_vars => (IInv /\ BackstopFits)'
  BY NextKeepsIInv, NextKeepsBackstop
<1>3. IInv /\ BackstopFits /\ [Next]_vars => [A]_vars
  <2> SUFFICES ASSUME IInv, BackstopFits, [Next]_vars, NEW c \in Clients, NEW t \in Topics,
                      listener[c][t].mapped, listener[c][t].open, ~listener'[c][t].mapped
               PROVE  ~listener[c][t].taken /\ listener[c][t].served
    OBVIOUS
  <2>1. PICK w \in Callers : NotifyWithMessage(w)
    BY OnlyOffersGiveUp
  <2>2. /\ call[w].topic \in Topics /\ call[w].body \in Nat /\ listener[c][t] \in Listeners
        /\ FullFits(listener[c][t]) /\ Patient(c, t) /\ elapsed[c] \in 0 .. WriteTimeout
    BY <2>1 DEF NotifyWithMessage, IInv, Types, BackstopFits, Patient
  <2>3. listener'[c][t] = IF t = call[w].topic THEN Offered(listener[c][t], call[w].body)
                                               ELSE listener[c][t]
    BY <2>1, <2>2 DEF NotifyWithMessage, IInv, Types
  <2>4. listener'[c][t] = Offered(listener[c][t], call[w].body)
    BY <2>3
  <2>5. ~listener[c][t].taken /\ listener[c][t].blocked \in Nat /\ listener[c][t].blocked >= Patience
    BY <2>2, <2>4, OfferedIsPatient
  <2>6. ASSUME ~listener[c][t].served PROVE FALSE
    <3>1. Suspect(listener[c][t])
      BY <2>5, <2>6 DEF Suspect, Keeping
    <3>2. DelayFits(listener[c][t], out[c] # Nothing, lock[c], elapsed[c])
      BY <2>2 DEF Patient
    <3>3. Queued(lock[c], out[c] # Nothing, reply[c] # Nothing)
      BY DEF IInv, LockFits
    <3>4. "out" \in Writers /\ "reply" \in Writers
      BY DEF Writers
    <3>5. out[c] # Nothing
      BY <2>5, <3>1, <3>2, NotifierAssumption DEF DelayFits
    <3>6. lock[c] = <<"reply", "out">> \/ (lock[c] # <<>> /\ Head(lock[c]) = "out")
      BY <3>3, <3>4, <3>5, ShortSequences DEF Queued
    <3>7. listener[c][t].blocked <= elapsed[c] \/ listener[c][t].blocked <= WriteTimeout + elapsed[c]
      BY <3>1, <3>2, <3>6 DEF DelayFits
    <3> QED
      BY <2>2, <2>5, <3>7, NotifierAssumption DEF PatienceIsLonger
  <2> QED
    BY <2>5, <2>6
<1> QED
  BY <1>1, <1>2, <1>3, PTL DEF Spec, BackstopIsForSlowPages
=============================================================================
