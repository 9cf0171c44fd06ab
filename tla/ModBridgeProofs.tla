--------------------------- MODULE ModBridgeProofs ---------------------------
(***************************************************************************)
(* Theorems about ModBridge, for any number of connections, messages and   *)
(* chat sends.                                                             *)
(***************************************************************************)
EXTENDS ModBridge, TLAPS

-----------------------------------------------------------------------------
(* The inductive invariant behind the two safety theorems.  Besides the    *)
(* types it says which connections have been accepted, that the reader is  *)
(* on the last connection it visited, and that it visited them in order.   *)

Accepted == \A c \in Conn : link[c] = "unborn" <=> c > opened

ReaderPlaced ==
    /\ visited = <<>> => last = None
    /\ visited # <<>> => last = visited[Len(visited)]
    /\ last <= opened
    /\ reader = "reading" => last # None

IInv ==
    /\ TypeOK
    /\ Accepted
    /\ NewestConnectionKnown
    /\ ReaderPlaced
    /\ VisitsForward

\* Appending a number beyond the last one keeps a sequence increasing.
LEMMA AppendIncreasing ==
    ASSUME NEW S, S \subseteq Nat, NEW s \in Seq(S), NEW c \in S,
           \A i, j \in DOMAIN s : i < j => s[i] < s[j],
           s # <<>> => s[Len(s)] < c
    PROVE  \A i, j \in DOMAIN Append(s, c) : i < j => Append(s, c)[i] < Append(s, c)[j]
<1>1. Len(Append(s, c)) = Len(s) + 1 /\ Append(s, c) \in Seq(S)
  OBVIOUS
<1>2. SUFFICES ASSUME NEW i \in 1..Len(s) + 1, NEW j \in 1..Len(s) + 1, i < j
               PROVE  Append(s, c)[i] < Append(s, c)[j]
  BY <1>1
<1>3. Append(s, c)[i] = s[i] /\ i \in 1..Len(s) /\ s[i] \in Nat
  <2>1. Len(s) \in Nat
    OBVIOUS
  <2>2. i \in 1..Len(s)
    BY <1>2, <2>1
  <2>3. Append(s, c)[i] = s[i]
    BY <2>2
  <2>4. s[i] \in S
    BY <2>2
  <2>. QED
    BY <2>2, <2>3, <2>4
<1>4. CASE j \in 1..Len(s)
  BY <1>2, <1>3, <1>4
<1>5. CASE j = Len(s) + 1
  <2>1. Append(s, c)[j] = c
    BY <1>5
  <2>2. s # <<>> /\ Len(s) \in 1..Len(s)
    BY <1>3
  <2>3. s[Len(s)] \in Nat /\ s[Len(s)] < c
    <3>1. s[Len(s)] \in S
      BY <2>2
    <3>. QED
      BY <2>2, <3>1
  <2>4. i = Len(s) \/ s[i] < s[Len(s)]
    BY <1>3, <2>2
  <2>. QED
    BY <1>3, <2>1, <2>3, <2>4
<1>. QED
  BY <1>2, <1>4, <1>5

-----------------------------------------------------------------------------
(* Every step keeps the invariant: first the types...                      *)

LEMMA InitIInv == Init => IInv
<1>1. SUFFICES ASSUME Init PROVE IInv
  OBVIOUS
<1>. USE <1>1, BoundsAssumption DEF Init
<1>2. TypeOK
  <2>1. inbox \in [Conn -> Seq(Nat)] /\ yielded \in [Conn -> Seq(Nat)]
        /\ link \in [Conn -> {"unborn", "open", "closed", "gone"}]
        /\ sent \in [Conn -> Nat]
    OBVIOUS
  <2>2. opened \in 0..MaxConn /\ posted \in 0..MaxChat
    OBVIOUS
  <2>3. <<>> \in Seq(Nat) /\ <<>> \in Seq(Conn)
    OBVIOUS
  <2>. QED
    BY <2>1, <2>2, <2>3 DEF TypeOK
<1>3. Accepted
  BY DEF Accepted, Conn
<1>4. NewestConnectionKnown
  <2>1. ~(opened > 0)
    OBVIOUS
  <2>. QED
    BY <2>1 DEF NewestConnectionKnown
<1>5. ReaderPlaced
  BY DEF ReaderPlaced, None
<1>6. VisitsForward
  BY DEF VisitsForward
<1>. QED
  BY <1>2, <1>3, <1>4, <1>5, <1>6 DEF IInv

\* The parts of TypeOK, by the groups of variables that actions leave alone.
TransportTyped ==
    /\ opened \in 0..MaxConn
    /\ link \in [Conn -> {"unborn", "open", "closed", "gone"}]
    /\ inbox \in [Conn -> Seq(Nat)]
    /\ sent \in [Conn -> Nat]
ConnectionTyped ==
    /\ connection \in Conn \cup {None}
    /\ connected \in BOOLEAN
ChatTyped ==
    /\ queue \in Seq(Nat)
    /\ posted \in 0..MaxChat
    /\ drain \in {"ready", "flushing", "pausing", "dead", "cancelled"}
    /\ flushing \in Conn \cup {None}
    /\ wire \in Seq(Nat)
EventsTyped ==
    /\ reader \in {"waiting", "reading", "asleep", "stopped"}
    /\ last \in Conn \cup {None}
    /\ visited \in Seq(Conn)
    /\ yielded \in [Conn -> Seq(Nat)]
CloserTyped == closer \in {"up", "cancelling", "closing", "stopping", "done", "raised"}

LEMMA TypeParts ==
    TypeOK <=> TransportTyped /\ ConnectionTyped /\ ChatTyped /\ EventsTyped /\ CloserTyped
  BY DEF TypeOK, TransportTyped, ConnectionTyped, ChatTyped, EventsTyped, CloserTyped

LEMMA TypePartsPrimed ==
    ASSUME TransportTyped', ConnectionTyped', ChatTyped', EventsTyped', CloserTyped'
    PROVE  TypeOK'
  BY DEF TypeOK, TransportTyped, ConnectionTyped, ChatTyped, EventsTyped, CloserTyped

\* What an action leaves alone stays typed.
LEMMA TypesKept ==
    ASSUME TypeOK
    PROVE  /\ UNCHANGED transport => TransportTyped'
           /\ UNCHANGED <<connection, connected>> => ConnectionTyped'
           /\ UNCHANGED chat => ChatTyped'
           /\ UNCHANGED events => EventsTyped'
           /\ UNCHANGED closer => CloserTyped'
<1>1. TransportTyped /\ ConnectionTyped /\ ChatTyped /\ EventsTyped /\ CloserTyped
  BY TypeParts
<1>2. UNCHANGED transport => TransportTyped'
  BY <1>1 DEF transport, TransportTyped
<1>3. UNCHANGED <<connection, connected>> => ConnectionTyped'
  BY <1>1 DEF ConnectionTyped
<1>4. UNCHANGED chat => ChatTyped'
  BY <1>1 DEF chat, ChatTyped
<1>5. UNCHANGED events => EventsTyped'
  BY <1>1 DEF events, EventsTyped
<1>6. UNCHANGED closer => CloserTyped'
  BY <1>1 DEF CloserTyped
<1>. QED
  BY <1>2, <1>3, <1>4, <1>5, <1>6

\* An action that changes nothing of the transport but some links.
LEMMA LinksTyped ==
    ASSUME TypeOK, UNCHANGED <<opened, inbox, sent>>,
           link' \in [Conn -> {"unborn", "open", "closed", "gone"}]
    PROVE  TransportTyped'
  BY DEF TypeOK, TransportTyped

\* The three ways round the reader's loop keep the reader's variables typed.
LEMMA LookAgainTypes ==
    ASSUME TypeOK, LookAgain, UNCHANGED yielded
    PROVE  EventsTyped'
<1>0. EventsTyped /\ ConnectionTyped
  BY TypeParts
<1>1. CASE ~connected
  BY <1>0, <1>1 DEF EventsTyped, LookAgain
<1>2. CASE connected /\ NothingNew
  BY <1>0, <1>2 DEF EventsTyped, LookAgain
<1>3. CASE connected /\ ~NothingNew
  <2>1. connection \in Conn
    BY <1>0, <1>3 DEF ConnectionTyped, NothingNew
  <2>2. StartReading(connection)
    BY <1>3 DEF LookAgain
  <2>3. Append(visited, connection) \in Seq(Conn)
    BY <1>0, <2>1 DEF EventsTyped
  <2>. QED
    BY <1>0, <2>1, <2>2, <2>3 DEF EventsTyped, StartReading
<1>. QED
  BY <1>1, <1>2, <1>3

\* The drain task takes a message off a queue of messages.
LEMMA TakeChatTypes ==
    ASSUME TypeOK, TakeChat
    PROVE  Head(queue) \in Nat /\ queue' \in Seq(Nat)
<1>1. queue \in Seq(Nat) /\ queue # <<>> /\ queue' = Tail(queue)
  BY DEF TypeOK, TakeChat
<1>. QED
  BY <1>1

LEMMA NextTypes ==
    ASSUME IInv, [Next]_vars
    PROVE  TypeOK'
<1>0. TypeOK /\ ReaderPlaced /\ TransportTyped /\ ConnectionTyped /\ ChatTyped /\ EventsTyped
  BY TypeParts DEF IInv
<1>. USE <1>0
<1>1. CASE OnConnection
  <2>1. opened' = opened + 1 /\ opened + 1 \in Conn
    BY <1>1, BoundsAssumption DEF OnConnection, TransportTyped, Conn
  <2>2. EventsTyped'
    <3>1. CASE reader = "waiting"
      <4>1. StartReading(opened + 1) /\ UNCHANGED yielded
        BY <1>1, <3>1 DEF OnConnection
      <4>2. Append(visited, opened + 1) \in Seq(Conn)
        BY <2>1 DEF EventsTyped
      <4>. QED
        BY <2>1, <4>1, <4>2 DEF StartReading, EventsTyped
    <3>2. CASE reader # "waiting"
      <4>1. UNCHANGED events
        BY <1>1, <3>2 DEF OnConnection, events
      <4>. QED
        BY <4>1, TypesKept
    <3>. QED
      BY <3>1, <3>2
  <2>3. link' \in [Conn -> {"unborn", "open", "closed", "gone"}]
    BY <1>1 DEF OnConnection, TransportTyped
  <2>4. opened' \in 0..MaxConn /\ UNCHANGED <<inbox, sent>>
    BY <1>1, <2>1, BoundsAssumption DEF OnConnection, Conn
  <2>5. TransportTyped'
    BY <2>3, <2>4 DEF TransportTyped
  <2>6. ConnectionTyped'
    BY <1>1, <2>1 DEF OnConnection, ConnectionTyped
  <2>7. UNCHANGED chat /\ UNCHANGED closer
    BY <1>1 DEF OnConnection
  <2>. QED
    BY <2>2, <2>5, <2>6, <2>7, TypesKept, TypePartsPrimed
<1>2. ASSUME NEW c \in Conn, ModSends(c)
      PROVE  TypeOK'
  <2>1. sent[c] + 1 \in Nat /\ inbox[c] \in Seq(Nat)
    <3>1. sent[c] \in Nat /\ inbox[c] \in Seq(Nat)
      BY <1>2 DEF ModSends, TransportTyped
    <3>. QED
      BY <3>1, BoundsAssumption
  <2>2. Append(inbox[c], sent[c] + 1) \in Seq(Nat)
    BY <2>1
  <2>3. sent' \in [Conn -> Nat] /\ inbox' \in [Conn -> Seq(Nat)]
    BY <1>2, <2>1, <2>2 DEF ModSends, TransportTyped
  <2>4. UNCHANGED <<opened, link>>
    BY <1>2 DEF ModSends
  <2>5. TransportTyped'
    BY <2>3, <2>4 DEF TransportTyped
  <2>6. UNCHANGED <<connection, connected>> /\ UNCHANGED chat /\ UNCHANGED events
        /\ UNCHANGED closer
    BY <1>2 DEF ModSends
  <2>. QED
    BY <2>5, <2>6, TypesKept, TypePartsPrimed
<1>3. ASSUME NEW c \in Conn, LinkDrops(c)
      PROVE  TypeOK'
  <2>1. link' \in [Conn -> {"unborn", "open", "closed", "gone"}]
    BY <1>3 DEF LinkDrops, TransportTyped
  <2>2. UNCHANGED <<opened, inbox, sent>> /\ UNCHANGED <<connection, connected>>
        /\ UNCHANGED chat /\ UNCHANGED events /\ UNCHANGED closer
    BY <1>3 DEF LinkDrops
  <2>. QED
    BY <2>1, <2>2, LinksTyped, TypesKept, TypePartsPrimed
<1>4. ASSUME NEW c \in Conn, HandlerReturns(c)
      PROVE  TypeOK'
  <2>1. link' \in [Conn -> {"unborn", "open", "closed", "gone"}]
    BY <1>4 DEF HandlerReturns, TransportTyped
  <2>2. ConnectionTyped'
    BY <1>4 DEF HandlerReturns, ConnectedAfter, ConnectionTyped
  <2>3. UNCHANGED <<opened, inbox, sent>> /\ UNCHANGED chat /\ UNCHANGED events
        /\ UNCHANGED closer
    BY <1>4 DEF HandlerReturns
  <2>. QED
    BY <2>1, <2>2, <2>3, LinksTyped, TypesKept, TypePartsPrimed
<1>5. CASE WakeUp
  <2>1. LookAgain /\ UNCHANGED yielded /\ UNCHANGED transport /\ UNCHANGED chat
        /\ UNCHANGED <<connection, connected>> /\ UNCHANGED closer
    BY <1>5 DEF WakeUp
  <2>. QED
    BY <2>1, LookAgainTypes, TypesKept, TypePartsPrimed
<1>6. CASE ReadEvent
  <2>0. last \in Conn
    BY <1>6 DEF ReadEvent, EventsTyped, ReaderPlaced
  <2>1. inbox[last] \in Seq(Nat) /\ inbox[last] # <<>>
    BY <1>6, <2>0 DEF ReadEvent, TransportTyped
  <2>2. Tail(inbox[last]) \in Seq(Nat) /\ Head(inbox[last]) \in Nat
    BY <2>1
  <2>3. Parse(Head(inbox[last])) \in Seq(Nat)
    BY <2>2 DEF Parse
  <2>4. yielded[last] \o Parse(Head(inbox[last])) \in Seq(Nat)
    BY <2>0, <2>3 DEF EventsTyped
  <2>5. inbox' \in [Conn -> Seq(Nat)] /\ yielded' \in [Conn -> Seq(Nat)]
    BY <1>6, <2>0, <2>2, <2>4 DEF ReadEvent, TransportTyped, EventsTyped
  <2>6. UNCHANGED <<opened, link, sent>> /\ UNCHANGED <<reader, last, visited>>
    BY <1>6 DEF ReadEvent
  <2>7. TransportTyped' /\ EventsTyped'
    BY <2>5, <2>6 DEF TransportTyped, EventsTyped
  <2>8. UNCHANGED <<connection, connected>> /\ UNCHANGED chat /\ UNCHANGED closer
    BY <1>6 DEF ReadEvent
  <2>. QED
    BY <2>7, <2>8, TypesKept, TypePartsPrimed
<1>7. CASE EndOfConnection
  <2>1. LookAgain /\ UNCHANGED yielded /\ UNCHANGED transport /\ UNCHANGED chat
        /\ UNCHANGED <<connection, connected>> /\ UNCHANGED closer
    BY <1>7 DEF EndOfConnection
  <2>. QED
    BY <2>1, LookAgainTypes, TypesKept, TypePartsPrimed
<1>8. CASE SendChat
  <2>1. posted + 1 \in 0..MaxChat
    BY <1>8, BoundsAssumption DEF SendChat, ChatTyped
  <2>2. Append(queue, posted + 1) \in Seq(Nat)
    BY <2>1 DEF ChatTyped
  <2>3. posted' = posted + 1 /\ queue' = Append(queue, posted + 1)
        /\ UNCHANGED <<drain, flushing, wire>>
    BY <1>8 DEF SendChat
  <2>4. ChatTyped'
    BY <2>1, <2>2, <2>3 DEF ChatTyped
  <2>5. UNCHANGED transport /\ UNCHANGED <<connection, connected>> /\ UNCHANGED events
        /\ UNCHANGED closer
    BY <1>8 DEF SendChat
  <2>. QED
    BY <2>4, <2>5, TypesKept, TypePartsPrimed
<1>9. CASE DrainDrops
  <2>1. TakeChat
    BY <1>9 DEF DrainDrops, KeptOnDrop, TakeChat
  <2>2. queue' \in Seq(Nat)
    BY <2>1, TakeChatTypes
  <2>3. ChatTyped'
    BY <1>9, <2>2 DEF DrainDrops, AfterSend, ChatTyped
  <2>4. UNCHANGED transport /\ UNCHANGED <<connection, connected>> /\ UNCHANGED events
        /\ UNCHANGED closer
    BY <1>9 DEF DrainDrops
  <2>. QED
    BY <2>3, <2>4, TypesKept, TypePartsPrimed
<1>10. CASE DrainWrites
  <2>1. TakeChat
    BY <1>10 DEF DrainWrites
  <2>2. Head(queue) \in Nat /\ queue' \in Seq(Nat)
    BY <2>1, TakeChatTypes
  <2>3. wire' = Append(wire, Head(queue)) /\ UNCHANGED posted
    BY <1>10 DEF DrainWrites
  <2>4. wire' \in Seq(Nat)
    BY <2>2, <2>3 DEF ChatTyped
  <2>5. drain' \in {"pausing", "flushing"} /\ flushing' \in Conn \cup {None}
    BY <1>10 DEF DrainWrites, AfterSend, ChatTyped, ConnectionTyped
  <2>6. ChatTyped'
    BY <2>2, <2>3, <2>4, <2>5 DEF ChatTyped
  <2>7. UNCHANGED transport /\ UNCHANGED <<connection, connected>> /\ UNCHANGED events
        /\ UNCHANGED closer
    BY <1>10 DEF DrainWrites
  <2>. QED
    BY <2>6, <2>7, TypesKept, TypePartsPrimed
<1>11. CASE DrainRaises
  <2>1. TakeChat
    BY <1>11 DEF DrainRaises
  <2>2. queue' \in Seq(Nat)
    BY <2>1, TakeChatTypes
  <2>3. ChatTyped'
    BY <1>11, <2>2 DEF DrainRaises, ChatTyped
  <2>4. UNCHANGED transport /\ UNCHANGED <<connection, connected>> /\ UNCHANGED events
        /\ UNCHANGED closer
    BY <1>11 DEF DrainRaises
  <2>. QED
    BY <2>3, <2>4, TypesKept, TypePartsPrimed
<1>12. CASE FlushEnds
  <2>1. ChatTyped'
    BY <1>12 DEF FlushEnds, AfterSend, ChatTyped
  <2>2. UNCHANGED transport /\ UNCHANGED <<connection, connected>> /\ UNCHANGED events
        /\ UNCHANGED closer
    BY <1>12 DEF FlushEnds
  <2>. QED
    BY <2>1, <2>2, TypesKept, TypePartsPrimed
<1>13. CASE PauseEnds
  <2>1. ChatTyped'
    BY <1>13 DEF PauseEnds, ChatTyped
  <2>2. UNCHANGED transport /\ UNCHANGED <<connection, connected>> /\ UNCHANGED events
        /\ UNCHANGED closer
    BY <1>13 DEF PauseEnds
  <2>. QED
    BY <2>1, <2>2, TypesKept, TypePartsPrimed
<1>14. CASE Close
  <2>1. ChatTyped'
    BY <1>14 DEF Close, ChatTyped
  <2>2. EventsTyped'
    BY <1>14 DEF Close, EventsTyped
  <2>3. CloserTyped'
    BY <1>14 DEF Close, CloserTyped
  <2>4. UNCHANGED transport /\ UNCHANGED <<connection, connected>>
    BY <1>14 DEF Close
  <2>. QED
    BY <2>1, <2>2, <2>3, <2>4, TypesKept, TypePartsPrimed
<1>15. CASE CloseConnection
  <2>1. link' \in [Conn -> {"unborn", "open", "closed", "gone"}]
    BY <1>15 DEF CloseConnection, TransportTyped
  <2>2. CloserTyped'
    BY <1>15 DEF CloseConnection, CloserTyped
  <2>3. UNCHANGED <<opened, inbox, sent>> /\ UNCHANGED <<connection, connected>>
        /\ UNCHANGED chat /\ UNCHANGED events
    BY <1>15 DEF CloseConnection
  <2>. QED
    BY <2>1, <2>2, <2>3, LinksTyped, TypesKept, TypePartsPrimed
<1>16. CASE CloseServer
  <2>1. link' \in [Conn -> {"unborn", "open", "closed", "gone"}]
    BY <1>16 DEF CloseServer, LinksClosed, TransportTyped
  <2>2. CloserTyped'
    BY <1>16 DEF CloseServer, CloserTyped
  <2>3. UNCHANGED <<opened, inbox, sent>> /\ UNCHANGED <<connection, connected>>
        /\ UNCHANGED chat /\ UNCHANGED events
    BY <1>16 DEF CloseServer
  <2>. QED
    BY <2>1, <2>2, <2>3, LinksTyped, TypesKept, TypePartsPrimed
<1>17. CASE ServerClosed
  <2>1. CloserTyped'
    BY <1>17 DEF ServerClosed, CloserTyped
  <2>2. UNCHANGED transport /\ UNCHANGED <<connection, connected>> /\ UNCHANGED chat
        /\ UNCHANGED events
    BY <1>17 DEF ServerClosed
  <2>. QED
    BY <2>1, <2>2, TypesKept, TypePartsPrimed
<1>18. CASE UNCHANGED vars
  <2>1. UNCHANGED transport /\ UNCHANGED <<connection, connected>> /\ UNCHANGED chat
        /\ UNCHANGED events /\ UNCHANGED closer
    BY <1>18 DEF vars
  <2>. QED
    BY <2>1, TypesKept, TypePartsPrimed
<1>. QED
  BY <1>1, <1>2, <1>3, <1>4, <1>5, <1>6, <1>7, <1>8, <1>9, <1>10, <1>11, <1>12,
     <1>13, <1>14, <1>15, <1>16, <1>17, <1>18 DEF Next

-----------------------------------------------------------------------------
(* ...then what it says about connections and about the reader.            *)

\* A reader that turns to a connection it has not reached yet stays in order.
LEMMA StartReadingInOrder ==
    ASSUME TypeOK, ReaderPlaced, VisitsForward,
           NEW c \in Conn, last < c, c <= opened', StartReading(c)
    PROVE  ReaderPlaced' /\ VisitsForward'
<1>1. visited \in Seq(Conn) /\ Conn \subseteq Nat /\ visited' = Append(visited, c)
  BY DEF TypeOK, StartReading, Conn
<1>2. visited # <<>> => visited[Len(visited)] < c
  BY DEF ReaderPlaced
<1>3. VisitsForward'
  BY <1>1, <1>2, AppendIncreasing DEF VisitsForward
<1>4. visited' # <<>> /\ visited'[Len(visited')] = c
  BY <1>1
<1>5. c # None
  BY DEF Conn, None
<1>. QED
  BY <1>3, <1>4, <1>5 DEF ReaderPlaced, StartReading

\* Looking for a new connection finds only one beyond the last.
LEMMA LookAgainInOrder ==
    ASSUME IInv, LookAgain, UNCHANGED opened
    PROVE  ReaderPlaced' /\ VisitsForward'
<1>. USE DEF IInv
<1>1. CASE ~(connected /\ ~NothingNew)
  BY <1>1 DEF LookAgain, ReaderPlaced, VisitsForward
<1>2. CASE connected /\ ~NothingNew
  <2>1. connection \in Conn /\ connection = opened
    BY <1>2 DEF TypeOK, NothingNew, NewestConnectionKnown
  <2>2. last \in Nat /\ last <= opened /\ opened \in Nat /\ last # connection
    BY <1>2 DEF TypeOK, ReaderPlaced, NothingNew, Conn, None
  <2>3. StartReading(connection)
    BY <1>2 DEF LookAgain
  <2>. QED
    BY <2>1, <2>2, <2>3, StartReadingInOrder
<1>. QED
  BY <1>1, <1>2

\* Steps that only close links, and leave the rest to the handlers.
OnlyClosesLinks ==
    /\ UNCHANGED <<opened, connection, connected, reader, last, visited>>
    /\ link' \in [Conn -> {"unborn", "open", "closed", "gone"}]
    /\ \A c \in Conn : link'[c] = link[c] \/ (link[c] = "open" /\ link'[c] = "closed")

LEMMA ClosingLinks ==
    ASSUME IInv, OnlyClosesLinks
    PROVE  (Accepted /\ NewestConnectionKnown /\ ReaderPlaced /\ VisitsForward)'
<1>. USE DEF OnlyClosesLinks
<1>1. Accepted'
  BY DEF IInv, Accepted
<1>2. opened > 0 => opened \in Conn
  BY BoundsAssumption DEF IInv, TypeOK, Conn
<1>3. NewestConnectionKnown'
  BY <1>2 DEF IInv, NewestConnectionKnown
<1>4. ReaderPlaced' /\ VisitsForward'
  BY DEF IInv, ReaderPlaced, VisitsForward
<1>. QED
  BY <1>1, <1>3, <1>4

\* Steps that touch neither a link nor a connection nor the reader's place.
LEMMA NothingMoves ==
    ASSUME IInv, UNCHANGED <<opened, link, connection, connected, last, visited>>,
           reader' = reader \/ reader' = "stopped"
    PROVE  (Accepted /\ NewestConnectionKnown /\ ReaderPlaced /\ VisitsForward)'
  BY DEF IInv, Accepted, NewestConnectionKnown, ReaderPlaced, VisitsForward

LEMMA NextInOrder ==
    ASSUME IInv, [Next]_vars
    PROVE  (Accepted /\ NewestConnectionKnown /\ ReaderPlaced /\ VisitsForward)'
<1>. USE DEF IInv
<1>1. CASE OnConnection
  <2>1. opened + 1 \in Conn /\ opened \in Nat /\ opened' = opened + 1
    BY <1>1, BoundsAssumption DEF OnConnection, TypeOK, Conn
  <2>2. /\ link' = [link EXCEPT ![opened + 1] = "open"]
        /\ link \in [Conn -> {"unborn", "open", "closed", "gone"}]
    BY <1>1 DEF OnConnection, TypeOK
  <2>3. Accepted'
    BY <2>1, <2>2 DEF Accepted, Conn
  <2>4. NewestConnectionKnown'
    <3>1. connection' = opened' /\ connected' = TRUE /\ opened' > 0
      BY <1>1, <2>1 DEF OnConnection
    <3>2. link'[opened'] = "open"
      BY <2>1, <2>2
    <3>. QED
      BY <3>1, <3>2 DEF NewestConnectionKnown
  <2>5. last \in Nat /\ last <= opened
    BY DEF TypeOK, Conn, None, ReaderPlaced
  <2>6. CASE reader = "waiting"
    <3>1. StartReading(opened + 1)
      BY <1>1, <2>6 DEF OnConnection
    <3>2. last < opened + 1 /\ opened + 1 <= opened'
      BY <2>1, <2>5
    <3>. QED
      BY <2>1, <2>3, <2>4, <3>1, <3>2, StartReadingInOrder
  <2>7. CASE reader # "waiting"
    <3>1. UNCHANGED <<reader, last, visited>>
      BY <1>1, <2>7 DEF OnConnection
    <3>2. ReaderPlaced' /\ VisitsForward'
      BY <2>1, <2>5, <3>1 DEF ReaderPlaced, VisitsForward
    <3>. QED
      BY <2>3, <2>4, <3>2
  <2>. QED
    BY <2>6, <2>7
<1>2. ASSUME NEW c \in Conn, ModSends(c)
      PROVE  (Accepted /\ NewestConnectionKnown /\ ReaderPlaced /\ VisitsForward)'
  BY <1>2, NothingMoves DEF ModSends, events
<1>3. ASSUME NEW c \in Conn, LinkDrops(c)
      PROVE  (Accepted /\ NewestConnectionKnown /\ ReaderPlaced /\ VisitsForward)'
  <2>1. OnlyClosesLinks
    BY <1>3 DEF LinkDrops, OnlyClosesLinks, events, TypeOK
  <2>. QED
    BY <2>1, ClosingLinks
<1>4. ASSUME NEW c \in Conn, HandlerReturns(c)
      PROVE  (Accepted /\ NewestConnectionKnown /\ ReaderPlaced /\ VisitsForward)'
  <2>1. link' = [link EXCEPT ![c] = "gone"] /\ link[c] = "closed"
        /\ UNCHANGED <<opened, reader, last, visited>>
    BY <1>4 DEF HandlerReturns, events
  <2>2. link \in [Conn -> {"unborn", "open", "closed", "gone"}] /\ opened \in 0..MaxConn
    BY DEF TypeOK
  <2>3. Accepted'
    BY <2>1, <2>2 DEF Accepted
  <2>4. c <= opened /\ c \in Nat /\ c # None
    BY <2>1, <2>2 DEF Accepted, Conn, None
  <2>5. NewestConnectionKnown'
    <3>1. CASE c = opened
      <4>1. connection = c /\ IsCurrent(c)
        BY <2>1, <2>4, <3>1 DEF NewestConnectionKnown, IsCurrent, None
      <4>2. connection' = None /\ connected' = FALSE
        BY <1>4, <4>1 DEF HandlerReturns, ConnectedAfter
      <4>3. link'[opened'] = "gone"
        BY <2>1, <2>2, <3>1
      <4>. QED
        BY <4>2, <4>3 DEF NewestConnectionKnown
    <3>2. CASE c # opened
      <4>1. ~IsCurrent(c)
        BY <2>4, <3>2 DEF NewestConnectionKnown, IsCurrent
      <4>2. UNCHANGED <<connection, connected>>
        BY <1>4, <4>1 DEF HandlerReturns
      <4>3. link'[opened'] = link[opened]
        BY <2>1, <2>2, <3>2
      <4>. QED
        BY <2>1, <4>2, <4>3 DEF NewestConnectionKnown
    <3>. QED
      BY <3>1, <3>2
  <2>6. ReaderPlaced' /\ VisitsForward'
    BY <2>1 DEF ReaderPlaced, VisitsForward
  <2>. QED
    BY <2>3, <2>5, <2>6
<1>5. CASE WakeUp \/ EndOfConnection
  <2>1. LookAgain /\ UNCHANGED <<opened, link, connection, connected>>
    BY <1>5 DEF WakeUp, EndOfConnection, transport
  <2>2. Accepted' /\ NewestConnectionKnown'
    BY <2>1 DEF Accepted, NewestConnectionKnown
  <2>. QED
    BY <2>1, <2>2, LookAgainInOrder
<1>6. CASE ReadEvent
  BY <1>6, NothingMoves DEF ReadEvent
<1>7. CASE SendChat \/ DrainDrops \/ DrainWrites \/ DrainRaises \/ FlushEnds \/ PauseEnds
  BY <1>7, NothingMoves DEF SendChat, DrainDrops, DrainWrites, DrainRaises, FlushEnds,
     PauseEnds, transport, events
<1>8. CASE Close
  BY <1>8, NothingMoves DEF Close, transport
<1>9. CASE CloseConnection
  <2>1. OnlyClosesLinks
    BY <1>9 DEF CloseConnection, OnlyClosesLinks, events, TypeOK
  <2>. QED
    BY <2>1, ClosingLinks
<1>10. CASE CloseServer
  <2>1. OnlyClosesLinks
    BY <1>10 DEF CloseServer, LinksClosed, OnlyClosesLinks, events, TypeOK
  <2>. QED
    BY <2>1, ClosingLinks
<1>11. CASE ServerClosed
  BY <1>11, NothingMoves DEF ServerClosed, transport, events
<1>12. CASE UNCHANGED vars
  BY <1>12, NothingMoves DEF vars, transport, events
<1>. QED
  BY <1>1, <1>2, <1>3, <1>4, <1>5, <1>6, <1>7, <1>8, <1>9, <1>10, <1>11, <1>12 DEF Next

LEMMA Invariance == Safety => []IInv
<1>1. IInv /\ [Next]_vars => IInv'
  BY NextTypes, NextInOrder DEF IInv
<1>. QED
  BY <1>1, InitIInv, PTL DEF Safety

-----------------------------------------------------------------------------

\* The variables of ModBridge keep their types.
THEOREM TypeCorrect == Safety => []TypeOK
  BY Invariance, PTL DEF IInv

\* The cleanup of a connection's handler never wipes a newer connection, and
\* `_connected' tells whether there is one (_on_connection's identity check).
THEOREM NewestAlwaysKnown == Safety => []NewestConnectionKnown
  BY Invariance, PTL DEF IInv

\* events() iterates every connection at most once, and newer ones later: the
\* busy loop its docstring describes cannot come back.
THEOREM NeverReadTwice == Safety => []VisitsForward
  BY Invariance, PTL DEF IInv

-----------------------------------------------------------------------------
(* The chat queue implements ChatChannel.  Each step of the bridge is a    *)
(* step of the channel, or one that leaves the channel's variables alone.  *)

Rested == drain \notin {"flushing", "pausing", "dead"}

\* Steps that change no chat variable may change whether the mod is reachable.
LEMMA ChatUntouched ==
    ASSUME UNCHANGED <<queue, wire>>, Rested' = Rested
    PROVE  [Channel!Next]_(Channel!vars)
<1>1. Reachable' \in BOOLEAN
  BY DEF Reachable
<1>2. Channel!ReachabilityChanges
  BY <1>1 DEF Channel!ReachabilityChanges, Rested
<1>. QED
  BY <1>2 DEF Channel!Next

\* Steps that end a pause, or a suspended send that is cancelled.
LEMMA ChatRests ==
    ASSUME UNCHANGED <<queue, wire, link, connection>>, ~Rested, Rested'
    PROVE  [Channel!Next]_(Channel!vars)
<1>1. Reachable' = Reachable
  BY DEF Reachable
<1>2. Channel!Rest
  BY <1>1 DEF Channel!Rest, Rested
<1>. QED
  BY <1>2 DEF Channel!Next

LEMMA ChannelStep ==
    ASSUME TypeOK, [Next]_vars
    PROVE  [Channel!Next]_(Channel!vars)
<1>1. CASE SendChat
  <2>1. posted + 1 \in 1..MaxChat
    BY <1>1, BoundsAssumption DEF SendChat, TypeOK
  <2>2. Reachable' = Reachable
    BY <1>1 DEF SendChat, transport, Reachable
  <2>3. Channel!Put(posted + 1)
    BY <1>1, <2>2 DEF SendChat, Channel!Put
  <2>. QED
    BY <2>1, <2>3 DEF Channel!Next
<1>2. CASE DrainDrops
  <2>1. Channel!Take /\ ~Reachable /\ UNCHANGED wire
    BY <1>2 DEF DrainDrops, KeptOnDrop, AfterSend, transport, Reachable, Channel!Take
  <2>. QED
    BY <2>1 DEF Channel!Next, Channel!Lose
<1>3. CASE DrainWrites
  <2>1. drain = "ready" /\ drain' \in {"flushing", "pausing"}
    BY <1>3 DEF DrainWrites, TakeChat, AfterSend
  <2>2. Reachable' = Reachable
    BY <1>3 DEF DrainWrites, transport, Reachable
  <2>3. Channel!Take
    BY <1>3, <2>1, <2>2 DEF DrainWrites, TakeChat, Channel!Take
  <2>4. Channel!Deliver
    BY <1>3, <2>3 DEF DrainWrites, Channel!Deliver
  <2>. QED
    BY <2>4 DEF Channel!Next
<1>4. CASE DrainRaises
  <2>1. Channel!Take /\ ~Reachable /\ UNCHANGED wire
    BY <1>4 DEF DrainRaises, TakeChat, transport, Reachable, Channel!Take
  <2>. QED
    BY <2>1 DEF Channel!Next, Channel!Lose
<1>5. CASE FlushEnds
  BY <1>5, ChatUntouched DEF FlushEnds, AfterSend, Rested
<1>6. CASE PauseEnds
  BY <1>6, ChatRests DEF PauseEnds, transport, Rested
<1>7. CASE Close
  <2>1. UNCHANGED <<queue, wire, link, connection>>
    BY <1>7 DEF Close, transport
  <2>2. CASE drain = "dead"
    BY <1>7, <2>1, <2>2, ChatUntouched DEF Close, Rested
  <2>3. CASE drain \in {"flushing", "pausing"}
    BY <1>7, <2>1, <2>3, ChatRests DEF Close, Rested
  <2>4. CASE drain \in {"ready", "cancelled"}
    BY <1>7, <2>1, <2>4, ChatUntouched DEF Close, Rested
  <2>. QED
    BY <2>2, <2>3, <2>4 DEF TypeOK
<1>8. CASE UNCHANGED chat
  BY <1>8, ChatUntouched DEF chat, Rested
<1>9. UNCHANGED chat \/ SendChat \/ DrainDrops \/ DrainWrites \/ DrainRaises
        \/ FlushEnds \/ PauseEnds \/ Close
  BY DEF Next, vars, OnConnection, ModSends, LinkDrops, HandlerReturns, WakeUp,
     ReadEvent, EndOfConnection, CloseConnection, CloseServer, ServerClosed
<1>. QED
  BY <1>1, <1>2, <1>3, <1>4, <1>5, <1>6, <1>7, <1>8, <1>9

\* Queued chat reaches the mod in the order it was queued, each message at most
\* once, with a pause between two, and is lost only while the mod is away.
THEOREM ChatImplementsChannel == Safety => ChatIsAChannel
<1>1. Init => Channel!Init
  <2>1. SUFFICES ASSUME Init PROVE Channel!Init
    OBVIOUS
  <2>2. Reachable = FALSE
    BY <2>1 DEF Init, Reachable
  <2>. QED
    BY <2>1, <2>2 DEF Init, Channel!Init
<1>2. TypeOK /\ [Next]_vars => [Channel!Next]_(Channel!vars)
  BY ChannelStep
<1>. QED
  BY <1>1, <1>2, TypeCorrect, PTL DEF Safety, ChatIsAChannel, Channel!Spec

-----------------------------------------------------------------------------
(* What the reader leaves, and what close() leaves.                        *)

\* A connection that will never hold a message again.
Finished(c) == link[c] \in {"closed", "gone"} /\ inbox[c] = <<>>
StaysFinished(c) == link'[c] \in {"closed", "gone"} /\ inbox'[c] = <<>>

LeftInv ==
    /\ \A i \in DOMAIN visited : i < Len(visited) => Finished(visited[i])
    /\ reader \in {"waiting", "asleep"} /\ last # None => Finished(last)

ClosingInv ==
    /\ closer \in {"cancelling", "closing", "stopping", "done"} => drain = "cancelled"
    /\ closer = "done" => \A c \in Conn : link[c] \in {"unborn", "gone"}

LEMMA FinishedForGood ==
    ASSUME IInv, [Next]_vars, NEW c \in Conn, Finished(c)
    PROVE  StaysFinished(c)
<1>0. /\ link \in [Conn -> {"unborn", "open", "closed", "gone"}]
      /\ inbox \in [Conn -> Seq(Nat)] /\ Accepted /\ opened \in Nat
      /\ reader = "reading" => last \in Conn
  BY BoundsAssumption DEF IInv, TypeOK, ReaderPlaced
<1>. USE <1>0 DEF Finished, StaysFinished
<1>1. CASE OnConnection
  <2>1. c # opened + 1
    BY DEF Accepted
  <2>. QED
    BY <1>1, <2>1 DEF OnConnection
<1>2. CASE \E d \in Conn : ModSends(d) \/ LinkDrops(d) \/ HandlerReturns(d)
  BY <1>2 DEF ModSends, LinkDrops, HandlerReturns
<1>3. CASE ReadEvent
  BY <1>3 DEF ReadEvent
<1>4. CASE WakeUp \/ EndOfConnection \/ SendChat \/ DrainDrops \/ DrainWrites \/ DrainRaises
           \/ FlushEnds \/ PauseEnds \/ Close \/ ServerClosed \/ UNCHANGED vars
  BY <1>4 DEF WakeUp, EndOfConnection, SendChat, DrainDrops, DrainWrites, DrainRaises,
              FlushEnds, PauseEnds, Close, ServerClosed, transport, vars
<1>5. CASE CloseConnection \/ CloseServer
  BY <1>5 DEF CloseConnection, CloseServer, LinksClosed
<1>. QED
  BY <1>1, <1>2, <1>3, <1>4, <1>5 DEF Next

\* Where the loop of events() goes from a connection that is finished.
LEMMA LookAgainLeft ==
    ASSUME IInv, LeftInv, [Next]_vars, last # None => Finished(last),
           \/ LookAgain
           \/ reader = "waiting" /\ StartReading(opened + 1) /\ opened + 1 \in Conn
    PROVE  LeftInv'
<1>1. /\ visited \in Seq(Conn) /\ last \in Conn \cup {None} /\ connection \in Conn \cup {None}
      /\ visited = <<>> => last = None
      /\ visited # <<>> => last = visited[Len(visited)]
  BY DEF IInv, TypeOK, ReaderPlaced
<1>2. last # None => StaysFinished(last)
  BY <1>1, FinishedForGood
<1>3. \A i \in DOMAIN visited : i < Len(visited) => StaysFinished(visited[i])
  <2>1. \A i \in DOMAIN visited : visited[i] \in Conn
    BY <1>1
  <2>. QED
    BY <2>1, FinishedForGood DEF LeftInv
<1>4. CASE UNCHANGED <<last, visited>>
  BY <1>2, <1>3, <1>4 DEF LeftInv, Finished, StaysFinished
<1>5. CASE \E c \in Conn : StartReading(c)
  <2>1. PICK c \in Conn : reader' = "reading" /\ visited' = Append(visited, c)
    BY <1>5 DEF StartReading
  <2>2. /\ Len(visited') = Len(visited) + 1 /\ DOMAIN visited' = 1..(Len(visited) + 1)
        /\ \A i \in 1..Len(visited) : visited'[i] = visited[i]
        /\ Len(visited) \in Nat
    BY <1>1, <2>1
  <2>3. ASSUME NEW i \in 1..Len(visited) PROVE StaysFinished(visited[i])
    <3>1. CASE i < Len(visited)
      BY <1>1, <1>3, <3>1
    <3>2. CASE i = Len(visited)
      <4>1. visited # <<>> /\ last = visited[i] /\ visited[i] \in Conn
        BY <1>1, <2>2, <3>2
      <4>2. last # None
        BY <4>1 DEF Conn, None
      <4>. QED
        BY <1>2, <4>1, <4>2
    <3>. QED
      BY <2>2, <3>1, <3>2
  <2>4. \A i \in DOMAIN visited' : i < Len(visited') => i \in 1..Len(visited)
    BY <2>2
  <2>. QED
    BY <2>1, <2>2, <2>3, <2>4 DEF LeftInv, Finished, StaysFinished
<1>6. \/ UNCHANGED <<last, visited>> \/ \E c \in Conn : StartReading(c)
  <2>1. LookAgain /\ connected /\ ~NothingNew => connection \in Conn
    BY <1>1 DEF NothingNew
  <2>. QED
    BY <2>1 DEF LookAgain
<1>. QED
  BY <1>4, <1>5, <1>6

LEMMA NextLeft ==
    ASSUME IInv, LeftInv, [Next]_vars
    PROVE  LeftInv'
<1>0. visited \in Seq(Conn) /\ last \in Conn \cup {None}
  BY DEF IInv, TypeOK
<1>1. ASSUME UNCHANGED <<last, visited>>,
             reader' \in {"waiting", "asleep"} => reader' = reader
      PROVE  LeftInv'
  <2>1. \A i \in DOMAIN visited : visited[i] \in Conn
    BY <1>0
  <2>. QED
    BY <1>0, <1>1, <2>1, FinishedForGood DEF LeftInv, Finished, StaysFinished
<1>2. CASE OnConnection
  <2>1. opened + 1 \in Conn
    BY <1>2, BoundsAssumption DEF OnConnection, IInv, TypeOK, Conn
  <2>2. CASE reader = "waiting"
    BY <1>2, <2>1, <2>2, LookAgainLeft DEF OnConnection, LeftInv
  <2>3. CASE reader # "waiting"
    BY <1>1, <1>2, <2>3 DEF OnConnection
  <2>. QED
    BY <2>2, <2>3
<1>3. CASE WakeUp
  BY <1>3, LookAgainLeft DEF WakeUp, LeftInv
<1>4. CASE EndOfConnection
  <2>1. last # None => link[last] # "open" /\ inbox[last] = <<>> /\ link[last] # "unborn"
    <3>1. reader = "reading" /\ Exhausted
      BY <1>4 DEF EndOfConnection
    <3>2. last \in Conn /\ last <= opened /\ last \in Nat /\ opened \in Nat
      BY <1>0, <3>1, BoundsAssumption DEF IInv, TypeOK, ReaderPlaced, Conn
    <3>. QED
      BY <3>1, <3>2 DEF Exhausted, IInv, Accepted
  <2>2. last # None => Finished(last)
    BY <1>0, <2>1 DEF Finished, IInv, TypeOK
  <2>. QED
    BY <1>4, <2>2, LookAgainLeft DEF EndOfConnection
<1>5. CASE \E d \in Conn : ModSends(d) \/ LinkDrops(d) \/ HandlerReturns(d)
  BY <1>1, <1>5 DEF ModSends, LinkDrops, HandlerReturns, events
<1>6. CASE ReadEvent \/ SendChat \/ DrainDrops \/ DrainWrites \/ DrainRaises
           \/ FlushEnds \/ PauseEnds \/ Close \/ CloseConnection \/ CloseServer \/ ServerClosed
           \/ UNCHANGED vars
  BY <1>1, <1>6 DEF ReadEvent, SendChat, DrainDrops, DrainWrites, DrainRaises, FlushEnds,
                    PauseEnds, Close, CloseConnection, CloseServer, ServerClosed, events, vars
<1>. QED
  BY <1>2, <1>3, <1>4, <1>5, <1>6 DEF Next

LEMMA NextClosing ==
    ASSUME IInv, ClosingInv, [Next]_vars
    PROVE  ClosingInv'
<1>0. link \in [Conn -> {"unborn", "open", "closed", "gone"}]
  BY DEF IInv, TypeOK
<1>. USE <1>0 DEF ClosingInv
<1>1. CASE OnConnection
  BY <1>1 DEF OnConnection, chat
<1>2. CASE \E d \in Conn : ModSends(d) \/ LinkDrops(d) \/ HandlerReturns(d)
  BY <1>2 DEF ModSends, LinkDrops, HandlerReturns, chat
<1>3. CASE WakeUp \/ EndOfConnection \/ ReadEvent \/ SendChat \/ UNCHANGED vars
  BY <1>3 DEF WakeUp, EndOfConnection, ReadEvent, SendChat, chat, transport, vars
<1>4. CASE DrainDrops \/ DrainWrites \/ DrainRaises \/ FlushEnds \/ PauseEnds
  BY <1>4 DEF DrainDrops, DrainWrites, DrainRaises, TakeChat, FlushEnds, PauseEnds, transport
<1>5. CASE Close
  BY <1>5 DEF Close
<1>6. CASE CloseConnection \/ CloseServer
  BY <1>6 DEF CloseConnection, CloseServer, chat
<1>7. CASE ServerClosed
  BY <1>7 DEF ServerClosed, HandlersDone, chat, transport
<1>. QED
  BY <1>1, <1>2, <1>3, <1>4, <1>5, <1>6, <1>7 DEF Next

\* events() turns to another connection only when the one it leaves is closed and
\* holds nothing more, and nothing can reach that one afterwards.
THEOREM NothingLeftBehind == Safety => []LeftEmpty
<1>1. Init => LeftInv
  BY DEF Init, LeftInv
<1>2. IInv /\ LeftInv /\ [Next]_vars => LeftInv'
  BY NextLeft
<1>3. IInv /\ LeftInv => LeftEmpty
  BY DEF LeftInv, LeftEmpty, Finished
<1>. QED
  BY Invariance, <1>1, <1>2, <1>3, PTL DEF Safety

-----------------------------------------------------------------------------
(* What the reader takes of a connection.                                  *)

ReadInv == ReadInOrder /\ \A c \in Conn : Len(inbox[c]) <= sent[c]

\* A message that is sent goes behind the others.
LEMMA SentBehind ==
    ASSUME TypeOK, ReadInv, NEW c \in Conn, ModSends(c)
    PROVE  ReadInv'
<1>1. /\ inbox \in [Conn -> Seq(Nat)] /\ sent \in [Conn -> Nat]
      /\ yielded \in [Conn -> Seq(Nat)]
  BY DEF TypeOK
<1>2. yielded' = yielded
  BY DEF ModSends, events
<1>3. \A d \in Conn \ {c} : inbox'[d] = inbox[d] /\ sent'[d] = sent[d]
  BY <1>1 DEF ModSends
<1>. DEFINE s == inbox[c]
            n == sent[c]
<1>4. sent'[c] = n + 1 /\ inbox'[c] = Append(s, n + 1)
  BY <1>1 DEF ModSends
<1>5. /\ s \in Seq(Nat) /\ n \in Nat /\ Len(s) <= n
      /\ \A k \in DOMAIN s : s[k] = (n - Len(s)) + k
  BY <1>1 DEF ReadInv, ReadInOrder, Taken
<1>. HIDE DEF s, n
<1>6. /\ Len(Append(s, n + 1)) = Len(s) + 1 /\ Len(s) \in Nat
      /\ DOMAIN s = 1..Len(s) /\ DOMAIN Append(s, n + 1) = 1..(Len(s) + 1)
      /\ \A k \in 1..Len(s) : Append(s, n + 1)[k] = s[k]
      /\ Append(s, n + 1)[Len(s) + 1] = n + 1
  BY <1>5
<1>7. (n + 1) - (Len(s) + 1) = n - Len(s) /\ n + 1 = (n - Len(s)) + (Len(s) + 1)
  BY <1>5, <1>6
<1>8. \A k \in DOMAIN Append(s, n + 1) : Append(s, n + 1)[k] = (n - Len(s)) + k
  <2>1. \A k \in 1..(Len(s) + 1) : k \in 1..Len(s) \/ k = Len(s) + 1
    BY <1>6
  <2>. QED
    BY <1>5, <1>6, <1>7, <2>1
<1>9. /\ Taken(c)' = n - Len(s) /\ Taken(c) = n - Len(s)
      /\ Len(inbox'[c]) <= sent'[c]
  BY <1>4, <1>5, <1>6, <1>7 DEF Taken, s, n
<1>10. \A d \in Conn : Taken(d)' = Taken(d)
  BY <1>3, <1>9 DEF Taken
<1>. QED
  BY <1>2, <1>3, <1>4, <1>8, <1>9, <1>10 DEF ReadInv, ReadInOrder

\* The oldest one is taken, and yielded if it is well-formed.
LEMMA TakenInOrder ==
    ASSUME TypeOK, ReaderPlaced, ReadInv, ReadEvent
    PROVE  ReadInv'
<1>1. /\ inbox \in [Conn -> Seq(Nat)] /\ sent \in [Conn -> Nat]
      /\ yielded \in [Conn -> Seq(Nat)] /\ last \in Conn /\ inbox[last] # <<>>
  BY DEF TypeOK, ReaderPlaced, ReadEvent
<1>2. sent' = sent /\ last' = last
  BY DEF ReadEvent
<1>3. \A d \in Conn \ {last} : inbox'[d] = inbox[d] /\ yielded'[d] = yielded[d]
  BY <1>1 DEF ReadEvent
<1>. DEFINE s == inbox[last]
            y == yielded[last]
            n == sent[last]
            r == n - Len(s)
<1>4. inbox'[last] = Tail(s) /\ yielded'[last] = y \o Parse(Head(s))
  BY <1>1 DEF ReadEvent
<1>5. /\ s \in Seq(Nat) /\ s # <<>> /\ n \in Nat /\ Len(s) <= n /\ y \in Seq(Nat)
      /\ \A k \in DOMAIN s : s[k] = r + k
      /\ \A i, j \in DOMAIN y : i < j => y[i] < y[j]
      /\ {y[i] : i \in DOMAIN y} = 1..r \ Malformed
  BY <1>1 DEF ReadInv, ReadInOrder, Taken
<1>. HIDE DEF s, y, n
<1>6. /\ Len(s) \in Nat \ {0} /\ Len(Tail(s)) = Len(s) - 1
      /\ DOMAIN s = 1..Len(s) /\ DOMAIN Tail(s) = 1..(Len(s) - 1)
      /\ \A k \in 1..(Len(s) - 1) : Tail(s)[k] = s[k + 1]
      /\ Head(s) = s[1]
  BY <1>5
<1>7. r \in Nat /\ Head(s) = r + 1 /\ n - Len(Tail(s)) = r + 1
  <2>1. 1 \in DOMAIN s
    BY <1>6
  <2>2. s[1] = r + 1
    BY <1>5, <2>1
  <2>3. r \in Nat
    <3>. HIDE DEF r
    <3>1. \A a, b \in Nat : b <= a => a - b \in Nat
      OBVIOUS
    <3>. QED
      BY <1>5, <1>6, <3>1 DEF r
  <2>4. \A a, b \in Nat : a - (b - 1) = (a - b) + 1
    OBVIOUS
  <2>. QED
    BY <1>5, <1>6, <2>2, <2>3, <2>4
<1>8. \A k \in DOMAIN Tail(s) : Tail(s)[k] = (r + 1) + k
  <2>. SUFFICES ASSUME NEW k \in 1..(Len(s) - 1) PROVE Tail(s)[k] = (r + 1) + k
    BY <1>6
  <2>1. k + 1 \in DOMAIN s /\ r + (k + 1) = (r + 1) + k
    BY <1>6, <1>7
  <2>. QED
    BY <1>5, <1>6, <2>1
<1>. HIDE DEF r
<1>9. /\ \A i, j \in DOMAIN yielded'[last] : i < j => yielded'[last][i] < yielded'[last][j]
      /\ {yielded'[last][i] : i \in DOMAIN yielded'[last]} = 1..(r + 1) \ Malformed
  <2>1. CASE r + 1 \in Malformed
    <3>1. yielded'[last] = y
      <4>1. Parse(Head(s)) = <<>>
        BY <1>7, <2>1 DEF Parse
      <4>2. y \o <<>> = y
        BY <1>5
      <4>. QED
        BY <1>4, <4>1, <4>2
    <3>2. 1..(r + 1) \ Malformed = 1..r \ Malformed
      BY <1>7, <2>1
    <3>. QED
      BY <1>5, <3>1, <3>2
  <2>2. CASE r + 1 \notin Malformed
    <3>1. yielded'[last] = Append(y, r + 1)
      <4>1. Parse(Head(s)) = <<r + 1>>
        BY <1>7, <2>2 DEF Parse
      <4>2. y \o <<r + 1>> = Append(y, r + 1)
        BY <1>5, <1>7
      <4>. QED
        BY <1>4, <4>1, <4>2
    <3>2. y # <<>> => y[Len(y)] < r + 1
      <4>1. y # <<>> => Len(y) \in DOMAIN y
        BY <1>5
      <4>2. y # <<>> => y[Len(y)] \in 1..r
        BY <1>5, <4>1
      <4>. QED
        BY <1>7, <4>2
    <3>3. \A i, j \in DOMAIN Append(y, r + 1) :
             i < j => Append(y, r + 1)[i] < Append(y, r + 1)[j]
      <4>1. r + 1 \in Nat /\ Nat \subseteq Nat
        BY <1>7
      <4>. QED
        BY <1>5, <3>2, <4>1, AppendIncreasing
    <3>4. /\ DOMAIN Append(y, r + 1) = DOMAIN y \cup {Len(y) + 1}
          /\ \A i \in DOMAIN y : Append(y, r + 1)[i] = y[i]
          /\ Append(y, r + 1)[Len(y) + 1] = r + 1
      BY <1>5, <1>7
    <3>5. {Append(y, r + 1)[i] : i \in DOMAIN Append(y, r + 1)}
            = {y[i] : i \in DOMAIN y} \cup {r + 1}
      BY <3>4
    <3>6. 1..(r + 1) \ Malformed = (1..r \ Malformed) \cup {r + 1}
      BY <1>7, <2>2
    <3>7. {Append(y, r + 1)[i] : i \in DOMAIN Append(y, r + 1)} = 1..(r + 1) \ Malformed
      BY <1>5, <3>5, <3>6
    <3>. HIDE DEF y, r
    <3>. QED
      BY <3>1, <3>3, <3>7, Zenon
  <2>. QED
    BY <2>1, <2>2
<1>10. /\ sent'[last] - Len(inbox'[last]) = r + 1
       /\ Len(inbox'[last]) <= sent'[last]
       /\ \A k \in DOMAIN inbox'[last] : inbox'[last][k] = (r + 1) + k
  <2>1. sent'[last] = n
    BY <1>2 DEF n
  <2>2. Len(Tail(s)) <= n
    BY <1>5, <1>6
  <2>. QED
    BY <1>4, <1>7, <1>8, <2>1, <2>2
<1>11. ASSUME NEW d \in Conn
       PROVE  /\ Len(inbox'[d]) <= sent'[d]
              /\ \A k \in DOMAIN inbox'[d] : inbox'[d][k] = (sent'[d] - Len(inbox'[d])) + k
              /\ \A i, j \in DOMAIN yielded'[d] : i < j => yielded'[d][i] < yielded'[d][j]
              /\ {yielded'[d][i] : i \in DOMAIN yielded'[d]}
                    = 1..(sent'[d] - Len(inbox'[d])) \ Malformed
  <2>1. CASE d = last
    BY <1>9, <1>10, <2>1
  <2>2. CASE d # last
    BY <1>2, <1>3, <2>2 DEF ReadInv, ReadInOrder, Taken
  <2>. QED
    BY <2>1, <2>2
<1>. QED
  BY <1>11 DEF ReadInv, ReadInOrder, Taken

LEMMA InitReads == Init => ReadInv
  BY DEF Init, ReadInv, ReadInOrder, Taken

LEMMA NextReads ==
    ASSUME IInv, ReadInv, [Next]_vars
    PROVE  ReadInv'
<1>1. CASE UNCHANGED <<inbox, sent, yielded>>
  BY <1>1 DEF ReadInv, ReadInOrder, Taken
<1>2. CASE ReadEvent
  BY <1>2, TakenInOrder DEF IInv
<1>3. CASE \E c \in Conn : ModSends(c)
  BY <1>3, SentBehind DEF IInv
<1>4. CASE OnConnection \/ \E c \in Conn : LinkDrops(c) \/ HandlerReturns(c)
  BY <1>1, <1>4 DEF OnConnection, LinkDrops, HandlerReturns, events
<1>5. CASE WakeUp \/ EndOfConnection \/ SendChat \/ UNCHANGED vars
  BY <1>1, <1>5 DEF WakeUp, EndOfConnection, SendChat, transport, events, vars
<1>6. CASE DrainDrops \/ DrainWrites \/ DrainRaises \/ FlushEnds \/ PauseEnds
  BY <1>1, <1>6 DEF DrainDrops, DrainWrites, DrainRaises, FlushEnds, PauseEnds, transport, events
<1>7. CASE Close \/ CloseConnection \/ CloseServer \/ ServerClosed
  BY <1>1, <1>7 DEF Close, CloseConnection, CloseServer, ServerClosed, transport, events
<1>. QED
  BY <1>2, <1>3, <1>4, <1>5, <1>6, <1>7 DEF Next

\* events() takes the messages of a connection in the order the mod sent them,
\* yields each well-formed one once, and turns to another connection only when the
\* one it leaves is closed and holds nothing more.
THEOREM NothingLost == Safety => []VisitedReadInFull
<1>1. Init => ReadInv
  BY InitReads
<1>2. IInv /\ ReadInv /\ [Next]_vars => ReadInv'
  BY NextReads
<1>3. ReadInv => ReadInOrder
  BY DEF ReadInv
<1>. QED
  BY Invariance, NothingLeftBehind, <1>1, <1>2, <1>3, PTL DEF Safety, VisitedReadInFull

\* When close() has returned no handler runs, no connection is stored or open, and
\* the drain task is gone, whoever connected or dropped meanwhile.
THEOREM ClosesForGood == Safety => []ClosedForGood
<1>1. Init => ClosingInv
  BY DEF Init, ClosingInv
<1>2. IInv /\ ClosingInv /\ [Next]_vars => ClosingInv'
  BY NextClosing
<1>3. ASSUME IInv, ClosingInv, closer = "done"
      PROVE  /\ \A c \in Conn : link[c] \in {"unborn", "gone"}
             /\ connection = None /\ ~connected
             /\ drain = "cancelled"
  <2>1. opened > 0 => opened \in Conn
    BY <1>3, BoundsAssumption DEF IInv, TypeOK, Conn
  <2>. QED
    BY <1>3, <2>1 DEF IInv, ClosingInv, NewestConnectionKnown
<1>4. IInv /\ ClosingInv => ClosedForGood
  BY <1>3 DEF ClosedForGood
<1>. QED
  BY Invariance, <1>1, <1>2, <1>4, PTL DEF Safety
==============================================================================
