------------------------------ MODULE Notifier ------------------------------
(***************************************************************************)
(* How the arena's state reaches the web pages (websocket/notifier.go,     *)
(* websocket/websocket.go).  A notifier makes a message of the state it    *)
(* shows and offers it to the channel of every page; a goroutine per page  *)
(* forwards what its channels hold over the websocket, on which the page's *)
(* commands are answered as well.                                          *)
(*                                                                         *)
(* The state a notifier shows is abstracted to a version.  Notifier t is   *)
(* the t-th that HandleNotifiers subscribes a page to; those without a     *)
(* producer (sounds) are left out.  Steps of the program take no time: a   *)
(* tick, the length of a ping interval, passes while writes last.          *)
(***************************************************************************)
EXTENDS Integers, Sequences

CONSTANTS
  Clients,      \* web pages
  Notifiers,    \* how many notifiers a page subscribes to
  Periodic,     \* those that Update notifies again and again
  Answered,     \* those whose message also answers a command
  Callers,      \* goroutines that call Notify
  mainLoop,     \* the one that runs Update
  BufferSize,   \* notifyBufferSize
  WriteTimeout, \* writeTimeout, in ticks
  Patience,     \* listenerBlockedTimeout, in ticks
  MaxVersion    \* bounds on the changes to what each notifier shows

ASSUME NotifierAssumption ==
  /\ Notifiers \in Nat \ {0} /\ MaxVersion \in [1 .. Notifiers -> Nat] /\ mainLoop \in Callers
  /\ Periodic \subseteq 1 .. Notifiers /\ Answered \subseteq 1 .. Notifiers
  /\ BufferSize \in Nat \ {0} /\ WriteTimeout \in Nat \ {0} /\ Patience \in Nat \ {0}

VARIABLES
  version,   \* the state that each notifier shows
  last,      \* the version in the last message it offered
  call,      \* a Notify between its producer and the notifier's mutex
  listener,  \* listener[c][t]: a channel and its entry in the notifier's map
  link,      \* the connection to each page
  stage,     \* where HandleNotifiers is
  next,      \* the notifier it subscribes to
  out,       \* what it writes
  reply,     \* what the page's command handler writes
  lock,      \* who has writeMutex, and who waits for it
  elapsed,   \* how long the write under way has lasted
  shown      \* what the page shows

topicVars  == <<version, last>>
readerVars == <<stage, next, out>>
writeVars  == <<lock, elapsed>>
vars == <<topicVars, call, listener, link, readerVars, reply, writeVars, shown>>

Topics == 1 .. Notifiers
Versions == UNION {0 .. MaxVersion[t] : t \in Topics}
Nothing == [topic |-> 0, body |-> 0]
Ping == [topic |-> -1, body |-> 0]
Messages == [topic : Topics, body : Versions]
Keeping == -1                        \* blockedSince is zero
NoListener ==
  [mapped |-> FALSE, open |-> TRUE, queue |-> <<>>, blocked |-> Keeping,
   taken |-> FALSE, served |-> FALSE]

TypeOK ==
  /\ version \in [Topics -> Versions] /\ last \in [Topics -> Versions]
  /\ call \in [Callers -> Messages \cup {Nothing}]
  /\ \A c \in Clients, t \in Topics :
       /\ listener[c][t] \in
            [mapped : BOOLEAN, open : BOOLEAN, queue : Seq(Versions), blocked : Keeping .. Patience,
             taken : BOOLEAN, served : BOOLEAN]
       /\ Len(listener[c][t].queue) <= BufferSize
  /\ link \in [Clients -> {"up", "lost", "full", "closed"}]
  /\ stage \in [Clients -> {"listen", "boot", "serve", "left"}]
  /\ next \in [Clients -> 1 .. Notifiers + 1]
  /\ out \in [Clients -> Messages \cup {Nothing, Ping}]
  /\ reply \in [Clients -> Messages \cup {Nothing}]
  /\ lock \in [Clients -> {<<>>, <<"out">>, <<"reply">>, <<"out", "reply">>, <<"reply", "out">>}]
  /\ elapsed \in [Clients -> 0 .. WriteTimeout]
  /\ shown \in [Clients -> [Topics -> Versions \cup {-1}]]

Init ==
  /\ version = [t \in Topics |-> 0] /\ last = version
  /\ call = [w \in Callers |-> Nothing]
  /\ listener = [c \in Clients |-> [t \in Topics |-> NoListener]]
  /\ link = [c \in Clients |-> "up"] /\ stage = [c \in Clients |-> "listen"]
  /\ next = [c \in Clients |-> 1] /\ out = [c \in Clients |-> Nothing]
  /\ reply = out /\ lock = [c \in Clients |-> <<>>] /\ elapsed = [c \in Clients |-> 0]
  /\ shown = [c \in Clients |-> [t \in Topics |-> -1]]

-----------------------------------------------------------------------------
(* Definitions with a suffix _... are mutations: bugs the runs must catch.  *)

(* Notify: the message is made before the notifier's mutex is taken, and    *)
(* the arena's lock is not held by every caller.                            *)
Change(t) ==
  /\ version[t] < MaxVersion[t]
  /\ version' = [version EXCEPT ![t] = @ + 1]
Announce(w, t) ==
  /\ call[w] = Nothing /\ Change(t)
  /\ call' = [call EXCEPT ![w] = [topic |-> t, body |-> version'[t]]]
  /\ UNCHANGED <<last, listener, link, readerVars, reply, writeVars, shown>>

(* What Update notifies changes on its own; the message goes out with every *)
(* packet to the driver stations, changed or not.                           *)
ChangeQuietly(t) ==
  /\ Change(t)
  /\ UNCHANGED <<last, call, listener, link, readerVars, reply, writeVars, shown>>
Refresh_OnChange(t) ==
  /\ call[mainLoop] = Nothing /\ last[t] # version[t]
  /\ call' = [call EXCEPT ![mainLoop] = [topic |-> t, body |-> version[t]]]
  /\ UNCHANGED <<topicVars, listener, link, readerVars, reply, writeVars, shown>>
Refresh(t) ==
  /\ call[mainLoop] = Nothing
  /\ call' = [call EXCEPT ![mainLoop] = [topic |-> t, body |-> version[t]]]
  /\ UNCHANGED <<topicVars, listener, link, readerVars, reply, writeVars, shown>>

(* notifyListener: a closed channel is reaped; a full one loses the message *)
(* and, once it has been full for long, its place among the listeners.      *)
Accepted(l, body) ==
  [l EXCEPT !.queue = Append(@, body),
            !.blocked = Keeping, !.taken = FALSE, !.served = FALSE]
Refused(l) ==
  LET spell == IF l.blocked = Keeping
               THEN [l EXCEPT !.blocked = 0] ELSE l
  IN  [spell EXCEPT !.mapped = spell.blocked < Patience]
Reaped(l) == [l EXCEPT !.mapped = FALSE]
Offered(l, body) ==
  IF ~l.mapped THEN l
  ELSE IF ~l.open THEN Reaped(l)
  ELSE IF Len(l.queue) < BufferSize THEN Accepted(l, body)
  ELSE Refused(l)

NotifyWithMessage(w) ==
  LET t == call[w].topic IN
  /\ call[w] # Nothing
  /\ call' = [call EXCEPT ![w] = Nothing]
  /\ last' = [last EXCEPT ![t] = call[w].body]
  /\ listener' = [c \in Clients |-> [listener[c] EXCEPT ![t] = Offered(@, call[w].body)]]
  /\ UNCHANGED <<version, link, readerVars, reply, writeVars, shown>>

-----------------------------------------------------------------------------
(* HandleNotifiers subscribes to one notifier after the other and writes    *)
(* the state each shows by then.                                            *)
Write(c, who) == lock' = [lock EXCEPT ![c] = Append(@, who)]
Send(c, message) == out' = [out EXCEPT ![c] = message] /\ Write(c, "out")

Subscribed(c) == [listener EXCEPT ![c][next[c]].mapped = TRUE]
Listen(c) ==
  /\ stage[c] = "listen"
  /\ stage' = [stage EXCEPT ![c] = "boot"]
  /\ listener' = Subscribed(c)
  /\ UNCHANGED <<topicVars, call, link, next, out, reply, writeVars, shown>>
Bootstrap(c) ==
  /\ stage[c] = "boot" /\ out[c] = Nothing
  /\ Send(c, [topic |-> next[c], body |-> version[next[c]]])
  /\ UNCHANGED <<topicVars, call, listener, link, stage, next, reply, elapsed, shown>>

(* It then forwards from whichever channel has a message, and pings. *)
Waiting(c) == stage[c] = "serve" /\ out[c] = Nothing
Forward(c, t) ==
  LET l == listener[c][t] IN
  /\ Waiting(c) /\ l.queue # <<>>
  /\ Send(c, [topic |-> t, body |-> Head(l.queue)])
  /\ listener' = [listener EXCEPT ![c][t] = [l EXCEPT !.queue = Tail(@), !.taken = l.blocked # Keeping]]
  /\ UNCHANGED <<topicVars, call, link, stage, next, reply, elapsed, shown>>
PingClient(c) ==
  /\ Waiting(c) /\ Send(c, Ping)
  /\ UNCHANGED <<topicVars, call, listener, link, stage, next, reply, elapsed, shown>>

(* A command of the page changes the state and is answered with it. *)
Command(c, t) ==
  /\ stage[c] # "left" /\ link[c] = "up" /\ reply[c] = Nothing
  /\ Change(t)
  /\ reply' = [reply EXCEPT ![c] = [topic |-> t, body |-> version'[t]]]
  /\ Write(c, "reply")
  /\ UNCHANGED <<last, call, listener, link, readerVars, elapsed, shown>>

-----------------------------------------------------------------------------
(* Websocket.Write: whoever has writeMutex writes until the deadline.  What *)
(* is sent to a page that vanished goes to the buffers on the way, at first.*)
Message(c) == IF Head(lock[c]) = "out" THEN out[c] ELSE reply[c]
Released(c) ==
  /\ lock' = [lock EXCEPT ![c] = Tail(@)]
  /\ elapsed' = [elapsed EXCEPT ![c] = 0]

(* The goroutine goes on to its next notifier, or back to its channels. *)
Progress_Drains(c, l) ==
  [l EXCEPT !.served = l.blocked # Keeping, !.queue = IF stage[c] = "boot" THEN <<>> ELSE @]
Progress(c, l) == [l EXCEPT !.served = l.blocked # Keeping]
Written(c) ==
  \/ /\ Head(lock[c]) = "reply"
     /\ reply' = [reply EXCEPT ![c] = Nothing]
     /\ UNCHANGED <<readerVars, listener>>
  \/ /\ Head(lock[c]) = "out"
     /\ out' = [out EXCEPT ![c] = Nothing]
     /\ next' = [next EXCEPT ![c] = IF stage[c] = "boot" THEN @ + 1 ELSE @]
     /\ stage' = [stage EXCEPT ![c] = IF next'[c] > Notifiers THEN "serve" ELSE "listen"]
     /\ listener' = [listener EXCEPT ![c] = [t \in Topics |-> Progress(c, @[t])]]
     /\ UNCHANGED reply
WriteReachesPage(c) ==
  /\ lock[c] # <<>> /\ link[c] = "up"
  /\ shown' = [shown EXCEPT ![c] =
                 [t \in Topics |-> IF Message(c).topic = t THEN Message(c).body ELSE @[t]]]
  /\ Written(c) /\ Released(c)
  /\ UNCHANGED <<topicVars, call, link>>
WriteIsBuffered(c) ==
  /\ lock[c] # <<>> /\ link[c] = "lost"
  /\ link' = [link EXCEPT ![c] = "full"]
  /\ Written(c) /\ Released(c)
  /\ UNCHANGED <<topicVars, call, shown>>

(* A write that fails ends the goroutine, which closes its channels.  The   *)
(* connection fails every write after it.                                   *)
Closed(l) == [NoListener EXCEPT !.mapped = l.mapped, !.open = FALSE]
Leave(c) ==
  /\ stage' = [stage EXCEPT ![c] = "left"]
  /\ out' = [out EXCEPT ![c] = Nothing]
  /\ listener' = [listener EXCEPT ![c] = [t \in Topics |-> Closed(@[t])]]
  /\ UNCHANGED <<next, reply>>
MustFail_Never(c) == link[c] = "closed"
MustFail(c) == link[c] = "closed" \/ elapsed[c] = WriteTimeout
WriteFails(c) ==
  /\ lock[c] # <<>> /\ MustFail(c)
  /\ link' = [link EXCEPT ![c] = "closed"]
  /\ \/ Head(lock[c]) = "out" /\ Leave(c)
     \/ Head(lock[c]) = "reply" /\ reply' = [reply EXCEPT ![c] = Nothing] /\ UNCHANGED <<readerVars, listener>>
  /\ Released(c)
  /\ UNCHANGED <<topicVars, call, shown>>

-----------------------------------------------------------------------------
(* A page is closed, or vanishes and leaves the connection half open. *)
Served(c) == stage[c] # "left" /\ link[c] = "up"
ClosePage(c) ==
  /\ Served(c) /\ link' = [link EXCEPT ![c] = "closed"]
  /\ UNCHANGED <<topicVars, call, listener, readerVars, reply, writeVars, shown>>
Vanish(c) ==
  /\ Served(c) /\ link' = [link EXCEPT ![c] = "lost"]
  /\ UNCHANGED <<topicVars, call, listener, readerVars, reply, writeVars, shown>>

(* Time passes when every goroutine waits for a write, a message or a ping. *)
Busy(c) ==
  \/ stage[c] = "listen" \/ (stage[c] = "boot" /\ out[c] = Nothing)
  \/ Waiting(c) /\ \E t \in Topics : listener[c][t].queue # <<>>
  \/ lock[c] # <<>> /\ MustFail(c)
Aged(l) == [l EXCEPT !.blocked = IF @ \in {Keeping, Patience} THEN @ ELSE @ + 1]
Tick ==
  /\ \A w \in Callers : call[w] = Nothing
  /\ \A c \in Clients : ~Busy(c)
  /\ elapsed' = [c \in Clients |->
       IF lock[c] = <<>> \/ elapsed[c] = WriteTimeout THEN elapsed[c] ELSE elapsed[c] + 1]
  /\ listener' = [c \in Clients |-> [t \in Topics |-> Aged(listener[c][t])]]
  /\ UNCHANGED <<topicVars, call, link, readerVars, reply, lock, shown>>

-----------------------------------------------------------------------------
Handling(c) ==
  \/ Listen(c) \/ Bootstrap(c) \/ PingClient(c)
  \/ \E t \in Topics : Forward(c, t)
Writing(c) == WriteReachesPage(c) \/ WriteIsBuffered(c) \/ WriteFails(c)
Page(c) == ClosePage(c) \/ Vanish(c) \/ \E t \in Answered : Command(c, t)
Notifying(w) ==
  \/ \E t \in Topics \ Periodic : Announce(w, t)
  \/ NotifyWithMessage(w)
Next ==
  \/ \E t \in Periodic : ChangeQuietly(t) \/ Refresh(t)
  \/ \E w \in Callers : Notifying(w)
  \/ \E c \in Clients : Handling(c) \/ Writing(c) \/ Page(c)
  \/ Tick
Spec == Init /\ [][Next]_vars

(* Goroutines run, reflect.Select picks among ready channels at random and  *)
(* time passes; no write is taken to end before its deadline.               *)
Fairness ==
  /\ \A w \in Callers : WF_vars(NotifyWithMessage(w))
  /\ \A t \in Periodic : SF_vars(Refresh(t))
  /\ \A c \in Clients :
       /\ WF_vars(Listen(c) \/ Bootstrap(c) \/ Writing(c)) /\ SF_vars(PingClient(c))
       /\ \A t \in Periodic : SF_vars(Forward(c, t))
  /\ SF_vars(Tick)
FairSpec == Spec /\ Fairness

-----------------------------------------------------------------------------
Subscription(c, t) == listener[c][t].mapped /\ listener[c][t].open /\ next[c] > t
Coming(c, t) ==
  LET queue == listener[c][t].queue IN
  IF queue # <<>> THEN queue[Len(queue)]
  ELSE IF out[c].topic = t THEN out[c].body ELSE shown[c][t]

(* A page that subscribed while the state changed, or reads it late, has    *)
(* the last state announced before its eyes or on its way, unless its       *)
(* channel was full for the last message (HandleNotifiers, notifyListener). *)
LatestIsComing ==
  \A c \in Clients, t \in Topics \ Answered :
    /\ Subscription(c, t) /\ link[c] = "up" /\ listener[c][t].blocked = Keeping
    /\ \A w \in Callers : call[w].topic # t
    /\ last[t] = version[t]
    => Coming(c, t) = version[t]

(* "The reader is not coming back", and "the write deadline bounds directly"*)
(* how long it can hang: nothing was read from a channel that is given up   *)
(* since it was first found full, and its page is still written to, for one *)
(* that vanished is gone before (notifyListener, Websocket.Write).          *)
BackstopIsForSlowPages ==
  [][\A c \in Clients, t \in Topics :
       /\ listener[c][t].mapped /\ listener[c][t].open /\ ~listener'[c][t].mapped
       => ~listener[c][t].taken /\ listener[c][t].served]_vars

(* A page comes to show a state that is notified again and again, whatever  *)
(* was lost or overtaken on the way, unless it is too slow for it; and of a *)
(* page that is gone the goroutine ends and the channel is forgotten        *)
(* (Update, HandleNotifiers, Websocket.Write, notifyListener).              *)
PagesCatchUp ==
  \A c \in Clients, t \in Periodic :
    <>[](\/ link[c] = "up" /\ (shown[c][t] = version[t] \/ ~listener[c][t].mapped)
         \/ stage[c] = "left" /\ ~listener[c][t].mapped)
=============================================================================
