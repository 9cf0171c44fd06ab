------------------------------- MODULE Session -------------------------------
(***************************************************************************)
(* The bridge with its audience: ModBridge, the commands that go straight  *)
(* to _send, minebot/bridge/observer.py (ObserverServer), which shows      *)
(* every wire message to any number of watching clients, and the order in  *)
(* which run_bot (minebot/main.py) tears the two down.                     *)
(*                                                                         *)
(* broadcast() starts one _send_one task per connected watcher and returns *)
(* at once; the tasks of one watcher start in that order and then wait for *)
(* its connection's send lock, which is first come first served.           *)
(***************************************************************************)
EXTENDS ModBridge, FiniteSets

CONSTANTS
    Watchers,   \* observer clients
    MaxOrders   \* bound: commands sent without the chat queue

ASSUME SessionAssumption == MaxOrders \in Nat

VARIABLES
    orders,     \* number of those commands so far
    feed,       \* history: what broadcast() was given, in order
    watch,      \* Watchers -> "away" | "joined" (in _connections) | "closing"
    since,      \* history: length of the feed when the watcher joined
    outbox,     \* Watchers -> messages of its unfinished _send_one tasks
    seen,       \* Watchers -> messages that reached it
    stuck,      \* the watchers that do not read: their send never returns
    observer    \* ObserverServer: "up" | "closing" | "closed"

audience == <<watch, since, outbox, seen, stuck, observer>>
sessionVars == <<vars, orders, feed, audience>>

Received(c, k) == [direction |-> "received", from |-> c, what |-> k]
SentChat(m) == [direction |-> "sent", from |-> None, what |-> m]
SentOrder == [direction |-> "sent", from |-> None, what |-> 0]

SessionInit ==
    /\ Init
    /\ orders = 0
    /\ feed = <<>>
    /\ watch = [w \in Watchers |-> "away"]
    /\ since = [w \in Watchers |-> 0]
    /\ outbox = [w \in Watchers |-> <<>>]
    /\ seen = [w \in Watchers |-> <<>>]
    /\ stuck = {}
    /\ observer = "up"

-----------------------------------------------------------------------------

Served == {w \in Watchers : watch[w] = "joined"}

\* Mutant: broadcast() awaits the sends, so a stuck watcher holds it up.
MayBroadcastAwaiting == \A w \in Watchers : watch[w] = "joined" => w \notin stuck
MayBroadcast == TRUE

Broadcast(messages) ==
    /\ MayBroadcast
    /\ feed' = feed \o messages
    /\ outbox' = [w \in Watchers |->
                    IF w \in Served THEN outbox[w] \o messages ELSE outbox[w]]
    /\ UNCHANGED <<watch, since, seen, stuck, observer>>

\* _parse_event shows what it accepts.
Reads ==
    /\ ReadEvent
    /\ Broadcast([i \in DOMAIN Parse(Head(inbox[last])) |->
                    Received(last, Parse(Head(inbox[last]))[i])])
    /\ UNCHANGED orders

\* Mutant: _send shows only what it can hand to a connection.
ShownIfConnected(message) == IF connection = None THEN <<>> ELSE <<message>>
Shown(message) == <<message>>

\* _send shows the message before it looks whether there is a connection.
Drains ==
    /\ DrainDrops \/ DrainWrites \/ DrainRaises
    /\ Broadcast(Shown(SentChat(Head(queue))))
    /\ UNCHANGED orders

\* send_follow, send_goto, send_query, send_console_command and the others: the
\* frame, the drop and the exception alike leave the bridge as it was.
SendOrder ==
    /\ closer = "up"
    /\ orders < MaxOrders
    /\ orders' = orders + 1
    /\ Broadcast(Shown(SentOrder))
    /\ UNCHANGED vars

\* Every other step of the bridge.
Unwatched ==
    /\ \/ OnConnection
       \/ \E c \in Conn : ModSends(c) \/ LinkDrops(c) \/ HandlerReturns(c)
       \/ WakeUp \/ EndOfConnection \/ SendChat \/ FlushEnds \/ PauseEnds
       \/ Close \/ CloseConnection \/ CloseServer \/ ServerClosed
    /\ UNCHANGED <<orders, feed, audience>>

-----------------------------------------------------------------------------

Joins(w) ==
    /\ observer = "up"
    /\ watch[w] = "away"
    /\ watch' = [watch EXCEPT ![w] = "joined"]
    /\ since' = [since EXCEPT ![w] = Len(feed)]
    /\ UNCHANGED <<vars, orders, feed, outbox, seen, stuck, observer>>

\* A browser tab that stops reading fills its connection's write buffer.
StopsReading(w) ==
    /\ watch[w] = "joined"
    /\ stuck' = stuck \cup {w}
    /\ UNCHANGED <<vars, orders, feed, watch, since, outbox, seen, observer>>

\* The oldest _send_one of a watcher that reads.
SendOne(w) ==
    /\ watch[w] = "joined"
    /\ w \notin stuck
    /\ outbox[w] # <<>>
    /\ seen' = [seen EXCEPT ![w] = Append(@, Head(outbox[w]))]
    /\ outbox' = [outbox EXCEPT ![w] = Tail(@)]
    /\ UNCHANGED <<vars, orders, feed, watch, since, stuck, observer>>

\* Its _send_one tasks fail, each in its own `except Exception'; what it had
\* been shown is forgotten here.
Closing(ws) ==
    /\ watch' = [w \in Watchers |-> IF w \in ws THEN "closing" ELSE watch[w]]
    /\ since' = [w \in Watchers |-> IF w \in ws THEN 0 ELSE since[w]]
    /\ outbox' = [w \in Watchers |-> IF w \in ws THEN <<>> ELSE outbox[w]]
    /\ seen' = [w \in Watchers |-> IF w \in ws THEN <<>> ELSE seen[w]]
    /\ stuck' = stuck \ ws

\* The client goes, or the keepalive gives it up.
Leaves(w) ==
    /\ watch[w] = "joined"
    /\ Closing({w})
    /\ UNCHANGED <<vars, orders, feed, observer>>

\* Its handler's finally.  The client may come back.
WatcherGone(w) ==
    /\ watch[w] = "closing"
    /\ watch' = [watch EXCEPT ![w] = "away"]
    /\ UNCHANGED <<vars, orders, feed, since, outbox, seen, stuck, observer>>

\* run_bot closes the observer when the bridge's close() has returned; a
\* close() that raised leaves it as it is.
CloseObserver ==
    /\ closer = "done"
    /\ observer = "up"
    /\ observer' = "closing"
    /\ Closing({w \in Watchers : watch[w] = "joined"})
    /\ UNCHANGED <<vars, orders, feed>>

ObserverClosed ==
    /\ observer = "closing"
    /\ \A w \in Watchers : watch[w] # "closing"
    /\ observer' = "closed"
    /\ UNCHANGED <<vars, orders, feed, watch, since, outbox, seen, stuck>>

SessionNext ==
    \/ Reads \/ Drains \/ SendOrder \/ Unwatched
    \/ \E w \in Watchers :
         Joins(w) \/ StopsReading(w) \/ SendOne(w) \/ Leaves(w) \/ WatcherGone(w)
    \/ CloseObserver \/ ObserverClosed

SessionSafety == SessionInit /\ [][SessionNext]_sessionVars

\* The scheduling of ModBridge, and an event loop that runs every _send_one
\* whose watcher reads.  Nothing makes a watcher read.
SessionSpec ==
    /\ SessionSafety
    /\ WF_sessionVars(Reads)
    /\ WF_sessionVars(Drains)
    /\ Scheduling
    /\ \A w \in Watchers : WF_sessionVars(SendOne(w)) /\ WF_sessionVars(WatcherGone(w))
    /\ WF_sessionVars(CloseObserver)
    /\ WF_sessionVars(ObserverClosed)

-----------------------------------------------------------------------------

Message == {Received(c, k) : c \in Conn, k \in Nat} \cup {SentChat(m) : m \in Nat}

SessionTypeOK ==
    /\ TypeOK
    /\ orders \in 0..MaxOrders
    /\ feed \in Seq(Message)
    /\ watch \in [Watchers -> {"away", "joined", "closing"}]
    /\ since \in [Watchers -> Nat]
    /\ outbox \in [Watchers -> Seq(Message)]
    /\ seen \in [Watchers -> Seq(Message)]
    /\ stuck \subseteq Watchers
    /\ observer \in {"up", "closing", "closed"}

\* A watcher is shown the feed from the moment it joined.
ShownInFull ==
    \A w \in Watchers :
        watch[w] = "joined" => seen[w] \o outbox[w] = SubSeq(feed, since[w] + 1, Len(feed))

\* Where the feed shows what events() yields of a connection, what has left the
\* chat queue, and the commands that never enter it.
FromMod(c) == {i \in DOMAIN feed : feed[i].direction = "received" /\ feed[i].from = c}
Chats == {i \in DOMAIN feed : feed[i].direction = "sent" /\ feed[i] # SentOrder}
Orders == {i \in DOMAIN feed : feed[i] = SentOrder}

\* Messages of one source are numbered: shown in order, and none twice.
InOrder(places) == \A i, j \in places : i < j => feed[i].what < feed[j].what
Numbers(places) == {feed[i].what : i \in places}

\* The feed is the traffic: of every connection exactly what events() yields,
\* and every chat message that has left the queue, each in its order; and a
\* watcher is shown all of it from the moment it joined, in order, whoever else
\* joins, leaves or hangs meanwhile.
WatchersSeeTheTraffic ==
    /\ \A c \in Conn :
         /\ InOrder(FromMod(c))
         /\ Numbers(FromMod(c)) = {yielded[c][k] : k \in DOMAIN yielded[c]}
    /\ InOrder(Chats)
    /\ Numbers(Chats) = 1..(posted - Len(queue))
    /\ Cardinality(Orders) = orders
    /\ ShownInFull

\* broadcast() may never hold up "real command dispatch or event processing":
\* whatever the watchers do, what the mod sends is read and what is queued is
\* sent, and a watcher that reads is served beside one that hangs.
StuckHoldsUpNobody ==
    /\ \A c \in Conn :
         (last = c /\ inbox[c] # <<>>) ~> (inbox[c] = <<>> \/ reader = "stopped")
    /\ ChatKeepsFlowing
    /\ \A w \in Watchers :
         (outbox[w] # <<>>) ~> (outbox[w] = <<>> \/ w \in stuck)
=============================================================================
