------------------------------ MODULE ModBridge ------------------------------
(***************************************************************************)
(* minebot/bridge/client.py: the WebSocket server minebot-mod connects to. *)
(* Three coroutines share `_connection' and `_connected':                  *)
(*   - one _on_connection handler per accepted connection,                 *)
(*   - events(), which iterates one connection after another,              *)
(*   - _drain_chat_queue, which sends one queued chat message at a time;   *)
(* and close() tears all of it down.  A coroutine runs without             *)
(* interruption between two awaits that really suspend, so an action is    *)
(* what runs between two suspensions.                                      *)
(*                                                                         *)
(* Connections are numbered in the order their handlers start; None is 0.  *)
(***************************************************************************)
EXTENDS Integers, Sequences

CONSTANTS
    MaxConn,    \* bound: connections the mod ever opens
    MaxEvents,  \* bounds: messages the mod sends over each connection
    MaxChat,    \* bound: calls of send_chat
    Malformed   \* numbers of the messages _parse_event ignores

ASSUME BoundsAssumption ==
    /\ MaxConn \in Nat
    /\ MaxEvents \in [1..MaxConn -> Nat]
    /\ MaxChat \in Nat
    /\ Malformed \subseteq Nat

None == 0
Conn == 1..MaxConn

VARIABLES
    \* the transport (the websockets library and the mod behind it)
    opened,      \* number of connections accepted so far
    link,        \* Conn -> "unborn" | "open" | "closed" | "gone" (handler returned)
    inbox,       \* Conn -> messages received and not yet iterated
    sent,        \* Conn -> number of messages the mod has sent
    \* ModBridge
    connection,  \* self._connection
    connected,   \* self._connected.is_set()
    queue,       \* self._chat_queue
    posted,      \* number of send_chat calls so far
    drain,       \* _drain_chat_queue: "ready" | "flushing" | "pausing" | "dead" | "cancelled"
    flushing,    \* the connection the drain's send is suspended in
    wire,        \* chat messages handed to a connection, in order
    \* events()
    reader,      \* "waiting" | "reading" | "asleep" | "stopped"
    last,        \* last_connection
    visited,     \* history: the connections iterated, in order
    yielded,     \* history: Conn -> events yielded
    \* close()
    closer       \* "up" | "cancelling" | "closing" | "stopping" | "done" | "raised"

transport == <<opened, link, inbox, sent>>
chat == <<queue, posted, drain, flushing, wire>>
events == <<reader, last, visited, yielded>>
vars == <<transport, connection, connected, chat, events, closer>>

TypeOK ==
    /\ opened \in 0..MaxConn
    /\ link \in [Conn -> {"unborn", "open", "closed", "gone"}]
    /\ inbox \in [Conn -> Seq(Nat)]
    /\ sent \in [Conn -> Nat]
    /\ connection \in Conn \cup {None}
    /\ connected \in BOOLEAN
    /\ queue \in Seq(Nat)
    /\ posted \in 0..MaxChat
    /\ drain \in {"ready", "flushing", "pausing", "dead", "cancelled"}
    /\ flushing \in Conn \cup {None}
    /\ wire \in Seq(Nat)
    /\ reader \in {"waiting", "reading", "asleep", "stopped"}
    /\ last \in Conn \cup {None}
    /\ visited \in Seq(Conn)
    /\ yielded \in [Conn -> Seq(Nat)]
    /\ closer \in {"up", "cancelling", "closing", "stopping", "done", "raised"}

\* The state connect() leaves once the server listens and the drain task is
\* started: connect(), and then events(), waits for `_connected'.
Init ==
    /\ opened = 0
    /\ link = [c \in Conn |-> "unborn"]
    /\ inbox = [c \in Conn |-> <<>>]
    /\ sent = [c \in Conn |-> 0]
    /\ connection = None
    /\ connected = FALSE
    /\ queue = <<>>
    /\ posted = 0
    /\ drain = "ready"
    /\ flushing = None
    /\ wire = <<>>
    /\ reader = "waiting"
    /\ last = None
    /\ visited = <<>>
    /\ yielded = [c \in Conn |-> <<>>]
    /\ closer = "up"

-----------------------------------------------------------------------------
(* The reader's loop in events().                                          *)

StartReading(c) ==
    /\ reader' = "reading"
    /\ last' = c
    /\ visited' = Append(visited, c)

\* Mutant: the guard against reading the same connection again is missing.
NothingNewUnguarded == connection = None
NothingNew == connection = None \/ connection = last

\* Top of the loop: `_connected.wait()' returns at once when the event is set;
\* with no new connection to read the loop sleeps and looks again.
LookAgain ==
    \/ /\ ~connected
       /\ reader' = "waiting"
       /\ UNCHANGED <<last, visited>>
    \/ /\ connected
       /\ NothingNew
       /\ reader' = "asleep"
       /\ UNCHANGED <<last, visited>>
    \/ /\ connected
       /\ ~NothingNew
       /\ StartReading(connection)

WakeUp ==
    /\ reader = "asleep"
    /\ LookAgain
    /\ UNCHANGED <<transport, connection, connected, chat, yielded, closer>>

\* Mutant: `if event is not None' is missing, and None is yielded.
ParseUnchecked(raw) == IF raw \in Malformed THEN <<-1>> ELSE <<raw>>
\* The mod sends JSON objects, whole or spoiled, with or without a type; any other
\* JSON value would make data.pop raise: one of the ways RunLoop's reader crashes.
Parse(raw) == IF raw \in Malformed THEN <<>> ELSE <<raw>>

ReadEvent ==
    /\ reader = "reading"
    /\ inbox[last] # <<>>
    /\ inbox' = [inbox EXCEPT ![last] = Tail(@)]
    /\ yielded' = [yielded EXCEPT ![last] = @ \o Parse(Head(inbox[last]))]
    /\ UNCHANGED <<opened, link, sent, connection, connected, chat,
                   reader, last, visited, closer>>

\* Mutant: the reader turns to a newer connection before it has read what the
\* old one still holds.
ExhaustedOrReplaced == link[last] # "open" /\ (inbox[last] = <<>> \/ connection # last)
\* The iteration ends when the connection is closed and its buffer is empty,
\* normally or by the ConnectionClosed that events() catches.
Exhausted == link[last] # "open" /\ inbox[last] = <<>>

EndOfConnection ==
    /\ reader = "reading"
    /\ Exhausted
    /\ LookAgain
    /\ UNCHANGED <<transport, connection, connected, chat, yielded, closer>>

-----------------------------------------------------------------------------
(* _on_connection, and the transport under it.                             *)

\* Handlers start while the server listens.  A reader waiting for `_connected'
\* is resumed before the loop handles any further I/O.
OnConnection ==
    LET c == opened + 1 IN
    /\ opened < MaxConn
    /\ closer \in {"up", "cancelling", "closing"}
    /\ opened' = c
    /\ link' = [link EXCEPT ![c] = "open"]
    /\ connection' = c
    /\ connected' = TRUE
    /\ IF reader = "waiting"
       THEN StartReading(c)
       ELSE UNCHANGED <<reader, last, visited>>
    /\ UNCHANGED <<inbox, sent, chat, yielded, closer>>

ModSends(c) ==
    /\ link[c] = "open"
    /\ sent[c] < MaxEvents[c]
    /\ sent' = [sent EXCEPT ![c] = @ + 1]
    /\ inbox' = [inbox EXCEPT ![c] = Append(@, sent[c] + 1)]
    /\ UNCHANGED <<opened, link, connection, connected, chat, events, closer>>

LinkDrops(c) ==
    /\ link[c] = "open"
    /\ link' = [link EXCEPT ![c] = "closed"]
    /\ UNCHANGED <<opened, inbox, sent, connection, connected, chat, events, closer>>

\* Mutant: the handler's finally clears whatever connection is stored.
IsCurrentUnchecked(c) == TRUE
IsCurrent(c) == connection = c

\* The finally's `_connected.clear()'.
ConnectedAfter == FALSE

\* wait_closed() returns some time after the link closed; then the finally runs.
HandlerReturns(c) ==
    /\ link[c] = "closed"
    /\ link' = [link EXCEPT ![c] = "gone"]
    /\ IF IsCurrent(c)
       THEN connection' = None /\ connected' = ConnectedAfter
       ELSE UNCHANGED <<connection, connected>>
    /\ UNCHANGED <<opened, inbox, sent, chat, events, closer>>

-----------------------------------------------------------------------------
(* send_chat and _drain_chat_queue.                                        *)

Reachable == connection # None /\ link[connection] = "open"

SendChat ==
    /\ closer = "up"
    /\ posted < MaxChat
    /\ posted' = posted + 1
    /\ queue' = Append(queue, posted + 1)
    /\ UNCHANGED <<transport, connection, connected, drain, flushing, wire, events, closer>>


\* Mutant: the drain does not sleep between two messages.
AfterSendUnspaced == "ready"
AfterSend == "pausing"

\* get() returns and _send runs up to connection.send() with no suspension.
TakeChat ==
    /\ drain = "ready"
    /\ queue # <<>>
    /\ queue' = Tail(queue)

\* Mutant: a message that finds no connection is put back, at the end.
KeptOnDropRequeued == Append(Tail(queue), Head(queue))
KeptOnDrop == Tail(queue)

\* _send with no connection logs a warning and returns.
DrainDrops ==
    /\ drain = "ready"
    /\ queue # <<>>
    /\ connection = None
    /\ queue' = KeptOnDrop
    /\ drain' = AfterSend
    /\ UNCHANGED <<transport, connection, connected, posted, flushing, wire, events, closer>>

\* connection.send() writes the frame; it suspends when the write buffer is full.
DrainWrites ==
    /\ TakeChat
    /\ Reachable
    /\ wire' = Append(wire, Head(queue))
    /\ \/ drain' = AfterSend /\ UNCHANGED flushing
       \/ drain' = "flushing" /\ flushing' = connection
    /\ UNCHANGED <<transport, connection, connected, posted, events, closer>>

\* connection.send() on a closed connection whose handler has not yet cleared
\* it raises ConnectionClosed; nothing in the drain catches it.
DrainRaises ==
    /\ TakeChat
    /\ connection # None
    /\ ~Reachable
    /\ drain' = "dead"
    /\ UNCHANGED <<transport, connection, connected, posted, flushing, wire, events, closer>>

\* The suspended send returns, or raises when the connection is lost meanwhile.
FlushEnds ==
    /\ drain = "flushing"
    /\ flushing' = None
    /\ \/ drain' = AfterSend
       \/ link[flushing] # "open" /\ drain' = "dead"
    /\ UNCHANGED <<transport, connection, connected, queue, posted, wire, events, closer>>

PauseEnds ==
    /\ drain = "pausing"
    /\ drain' = "ready"
    /\ UNCHANGED <<transport, connection, connected, queue, posted, flushing, wire,
                   events, closer>>

-----------------------------------------------------------------------------
(* close(), which run_bot calls once run() has ended and its reader task   *)
(* is cancelled.                                                           *)

\* The drain task is cancelled and awaited; awaiting a dead one raises its
\* exception out of close(), which stops there.
Close ==
    /\ closer = "up"
    /\ reader' = "stopped"
    /\ flushing' = None
    /\ IF drain = "dead"
       THEN closer' = "raised" /\ UNCHANGED drain
       ELSE closer' = "cancelling" /\ drain' = "cancelled"
    /\ UNCHANGED <<transport, connection, connected, queue, posted, wire, last,
                   visited, yielded>>

CloseConnection ==
    /\ closer = "cancelling"
    /\ link' = [c \in Conn |->
                  IF c = connection /\ link[c] = "open" THEN "closed" ELSE link[c]]
    /\ closer' = "closing"
    /\ UNCHANGED <<opened, inbox, sent, connection, connected, chat, events>>

\* Mutant: only `_connection' is closed, never the server.
LinksKept == link
LinksClosed == [c \in Conn |-> IF link[c] = "open" THEN "closed" ELSE link[c]]

\* server.close() stops listening and closes every connection...
CloseServer ==
    /\ closer = "closing"
    /\ link' = LinksClosed
    /\ closer' = "stopping"
    /\ UNCHANGED <<opened, inbox, sent, connection, connected, chat, events>>

\* Mutant: close() does not await server.wait_closed().
HandlersDoneUnchecked == TRUE
HandlersDone == \A c \in Conn : link[c] \in {"unborn", "gone"}

\* ...and wait_closed() returns when every handler has.
ServerClosed ==
    /\ closer = "stopping"
    /\ HandlersDone
    /\ closer' = "done"
    /\ UNCHANGED <<transport, connection, connected, chat, events>>

-----------------------------------------------------------------------------

Next ==
    \/ OnConnection
    \/ \E c \in Conn : ModSends(c) \/ LinkDrops(c) \/ HandlerReturns(c)
    \/ WakeUp \/ ReadEvent \/ EndOfConnection
    \/ SendChat
    \/ DrainDrops \/ DrainWrites \/ DrainRaises \/ FlushEnds \/ PauseEnds
    \/ Close \/ CloseConnection \/ CloseServer \/ ServerClosed

Safety == Init /\ [][Next]_vars

\* The event loop keeps running every coroutine that is ready.  A connection
\* that was replaced ends: the mod holds one at a time, and the server's
\* keepalive pings close one whose peer is gone.
Scheduling ==
    /\ WF_vars(WakeUp)
    /\ WF_vars(EndOfConnection)
    /\ WF_vars(FlushEnds)
    /\ WF_vars(PauseEnds)
    /\ WF_vars(CloseConnection)
    /\ WF_vars(CloseServer)
    /\ WF_vars(ServerClosed)
    /\ \A c \in Conn : WF_vars(HandlerReturns(c))
    /\ \A c \in Conn : WF_vars(c < opened /\ LinkDrops(c))

Fairness ==
    /\ Scheduling
    /\ WF_vars(ReadEvent)
    /\ WF_vars(DrainDrops \/ DrainWrites \/ DrainRaises)

Spec == Safety /\ Fairness

-----------------------------------------------------------------------------
(* What a reader of the code relies on.                                    *)

\* `_connection' is the newest connection until that one's own handler has
\* returned, and None from then on: the cleanup of an older connection never
\* wipes a newer one.  `_connected' is set exactly while there is one.
NewestConnectionKnown ==
    LET alive == opened > 0 /\ link[opened] \in {"open", "closed"} IN
    /\ connection = IF alive THEN opened ELSE None
    /\ connected = alive

\* events() never iterates a connection a second time, and never goes back to
\* an older one: the busy loop on a closed connection its docstring describes.
VisitsForward ==
    \A i, j \in DOMAIN visited : i < j => visited[i] < visited[j]

\* How many messages of a connection the reader has taken.
Taken(c) == sent[c] - Len(inbox[c])

\* What a connection still buffers is the rest of what the mod sent over it, and
\* what was yielded of it is every well-formed message before, once and in order.
ReadInOrder ==
    \A c \in Conn :
        /\ \A k \in DOMAIN inbox[c] : inbox[c][k] = Taken(c) + k
        /\ \A i, j \in DOMAIN yielded[c] : i < j => yielded[c][i] < yielded[c][j]
        /\ {yielded[c][i] : i \in DOMAIN yielded[c]} = 1..Taken(c) \ Malformed

\* A connection the reader has left holds nothing more.
LeftEmpty == \A i \in DOMAIN visited : i < Len(visited) => inbox[visited[i]] = <<>>

\* The reader loses, repeats and reorders nothing of a connection it turns to, and
\* leaves it only when it holds nothing more.
VisitedReadInFull == ReadInOrder /\ LeftEmpty

\* Once close() has returned no handler runs, no connection is open, nothing is
\* stored as the current connection and the drain task is gone.
ClosedForGood ==
    closer = "done" =>
        /\ \A c \in Conn : link[c] \in {"unborn", "gone"}
        /\ connection = None /\ ~connected
        /\ drain = "cancelled"

\* Queued chat is sent as ChatChannel says: in order, at most once, spaced
\* apart, and lost only while the mod cannot be reached.
Channel == INSTANCE ChatChannel WITH
    Message <- 1..MaxChat,
    pending <- queue,
    rested <- drain \notin {"flushing", "pausing", "dead"},
    up <- Reachable

ChatIsAChannel == Channel!Spec

\* A connection that stays the newest and open gets read, whatever the reader
\* was doing when it was accepted.
NewConnectionRead ==
    \A c \in Conn :
        (opened = c /\ link[c] = "open")
            ~> (last = c \/ link[c] # "open" \/ opened > c \/ reader = "stopped")

\* Every queued message leaves the queue, unless the drain task has died or the
\* bridge is being closed.
ChatKeepsFlowing ==
    \A m \in 1..MaxChat :
        (posted >= m) ~> (m \notin {queue[i] : i \in DOMAIN queue}
                            \/ drain \in {"dead", "cancelled"})

\* close() returns, or raises at its first await.
CloseCompletes == (closer # "up") ~> (closer \in {"done", "raised"})

\* The docstring of _drain_chat_queue: it sends "forever, until cancelled".
DrainsUntilCancelled == drain # "dead"

\* The docstring of events(): it "yields every event the mod sends".  A message
\* is stranded when its connection is finished without the reader, still
\* running, having turned to it.
NoEventStranded ==
    closer = "up" =>
        \A c \in Conn : link[c] = "gone" /\ last # c => inbox[c] = <<>>
=============================================================================
