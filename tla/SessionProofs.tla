----------------------------- MODULE SessionProofs -----------------------------
(***************************************************************************)
(* Theorems about Session, for any number of watchers: the bridge with its *)
(* audience is the bridge of ModBridge, and every watcher is shown the     *)
(* feed.                                                                   *)
(***************************************************************************)
EXTENDS Session, ModBridgeProofs, SequenceTheorems, FiniteSetTheorems

-----------------------------------------------------------------------------
(* The audience takes no part in what the bridge does.                     *)

LEMMA SessionStep == [SessionNext]_sessionVars => [Next]_vars
<1>. USE DEF sessionVars
<1>1. Reads => Next
  BY DEF Reads, Next
<1>2. Drains => Next
  BY DEF Drains, Next
<1>3. SendOrder => UNCHANGED vars
  BY DEF SendOrder
<1>4. Unwatched => Next
  BY DEF Unwatched, Next
<1>5. ASSUME NEW w \in Watchers,
             Joins(w) \/ StopsReading(w) \/ SendOne(w) \/ Leaves(w) \/ WatcherGone(w)
      PROVE  UNCHANGED vars
  BY <1>5 DEF Joins, StopsReading, SendOne, Leaves, WatcherGone
<1>6. CloseObserver \/ ObserverClosed => UNCHANGED vars
  BY DEF CloseObserver, ObserverClosed
<1>. QED
  BY <1>1, <1>2, <1>3, <1>4, <1>5, <1>6 DEF SessionNext

\* Watchers that join, hang, leave or come back, and broadcast() itself, change
\* nothing of what the bridge does: all that is proved of it holds in a session.
THEOREM AudienceChangesNothing == SessionSafety => Safety
<1>1. SessionInit => Init
  BY DEF SessionInit
<1>. QED
  BY <1>1, SessionStep, PTL DEF SessionSafety, Safety

-----------------------------------------------------------------------------
(* What a watcher is shown.                                                *)

SessionTyped ==
    /\ orders \in 0..MaxOrders
    /\ feed \in Seq(Message)
    /\ watch \in [Watchers -> {"away", "joined", "closing"}]
    /\ since \in [Watchers -> Nat]
    /\ outbox \in [Watchers -> Seq(Message)]
    /\ seen \in [Watchers -> Seq(Message)]
    /\ stuck \subseteq Watchers
    /\ observer \in {"up", "closing", "closed"}

\* A watcher that is not connected has nothing left to be shown, and one that is
\* joined when the feed was no longer than it is.
Bookkeeping ==
    \A w \in Watchers :
        /\ watch[w] # "joined" => outbox[w] = <<>> /\ seen[w] = <<>>
        /\ watch[w] = "joined" => since[w] <= Len(feed)

AudienceInv == SessionTyped /\ Bookkeeping /\ ShownInFull

\* The feed grows, and what is left to show with it.
ShowsFrom(f, k, s, o) == k <= Len(f) /\ s \o o = SubSeq(f, k + 1, Len(f))

LEMMA FeedGrows ==
    ASSUME NEW S, NEW f \in Seq(S), NEW m \in Seq(S), NEW s \in Seq(S), NEW o \in Seq(S),
           NEW k \in Nat, ShowsFrom(f, k, s, o)
    PROVE  ShowsFrom(f \o m, k, s, o \o m)
<1>. SUFFICES ASSUME k <= Len(f), s \o o = SubSeq(f, k + 1, Len(f))
              PROVE  /\ k <= Len(f \o m)
                     /\ s \o (o \o m) = SubSeq(f \o m, k + 1, Len(f \o m))
  BY DEF ShowsFrom
<1>1. /\ f \o m \in Seq(S) /\ Len(f \o m) = Len(f) + Len(m)
      /\ Len(f) \in Nat /\ Len(m) \in Nat
      /\ \A i \in 1..(Len(f) + Len(m)) : (f \o m)[i] = IF i <= Len(f) THEN f[i] ELSE m[i - Len(f)]
  BY ConcatProperties
<1>2. s \o (o \o m) = (s \o o) \o m
  <2>1. ASSUME NEW a \in Seq(S), NEW b \in Seq(S), NEW c \in Seq(S)
        PROVE  (a \o b) \o c = a \o (b \o c)
    OBVIOUS
  <2>. QED
    BY <2>1, Zenon
<1>. DEFINE r == SubSeq(f, k + 1, Len(f))
            t == SubSeq(f \o m, k + 1, Len(f \o m))
<1>3. /\ r \in Seq(S) /\ Len(r) = Len(f) - k
      /\ \A i \in 1..(Len(f) - k) : r[i] = f[k + i]
  <2>1. /\ \A i \in (k + 1)..Len(f) : f[i] \in S
        /\ k + 1 \in Int /\ Len(f) \in Int
    BY <1>1
  <2>2. /\ SubSeq(f, k + 1, Len(f)) \in Seq(S)
        /\ Len(SubSeq(f, k + 1, Len(f))) = IF k + 1 <= Len(f) THEN Len(f) - (k + 1) + 1 ELSE 0
        /\ \A i \in 1..(Len(f) - (k + 1) + 1) : SubSeq(f, k + 1, Len(f))[i] = f[(k + 1) + i - 1]
    BY <2>1, SubSeqProperties
  <2>. QED
    BY <1>1, <2>2
<1>4. /\ t \in Seq(S) /\ Len(t) = Len(f) + Len(m) - k
      /\ \A i \in 1..(Len(f) + Len(m) - k) : t[i] = (f \o m)[k + i]
  <2>1. /\ \A i \in (k + 1)..Len(f \o m) : (f \o m)[i] \in S
        /\ k + 1 \in Int /\ Len(f \o m) \in Int
    BY <1>1
  <2>2. /\ t \in Seq(S)
        /\ Len(t) = IF k + 1 <= Len(f \o m) THEN Len(f \o m) - (k + 1) + 1 ELSE 0
        /\ \A i \in 1..(Len(f \o m) - (k + 1) + 1) : t[i] = (f \o m)[(k + 1) + i - 1]
    BY <2>1, SubSeqProperties
  <2>3. /\ Len(f \o m) = Len(f) + Len(m)
        /\ k + 1 <= Len(f) + Len(m) + 1
        /\ Len(f) + Len(m) - (k + 1) + 1 = Len(f) + Len(m) - k
    BY <1>1
  <2>4. Len(t) = Len(f) + Len(m) - k
    <3>. HIDE DEF t
    <3>1. CASE k + 1 <= Len(f) + Len(m)
      BY <2>2, <2>3, <3>1
    <3>2. CASE ~(k + 1 <= Len(f) + Len(m))
      <4>1. Len(f) + Len(m) = k
        BY <1>1, <2>3, <3>2
      <4>. QED
        BY <1>1, <2>2, <2>3, <3>2, <4>1
    <3>. QED
      BY <3>1, <3>2
  <2>5. \A i \in 1..(Len(f) + Len(m) - k) : t[i] = (f \o m)[k + i]
    <3>. HIDE DEF t
    <3>. SUFFICES ASSUME NEW i \in 1..(Len(f) + Len(m) - k) PROVE t[i] = (f \o m)[k + i]
      OBVIOUS
    <3>1. (k + 1) + i - 1 = k + i /\ i \in 1..(Len(f \o m) - (k + 1) + 1)
      BY <1>1, <2>3
    <3>. QED
      BY <2>2, <3>1
  <2>. QED
    BY <2>2, <2>4, <2>5
<1>. HIDE DEF r, t
<1>5. /\ r \o m \in Seq(S) /\ Len(r \o m) = Len(r) + Len(m)
      /\ \A i \in 1..(Len(r) + Len(m)) : (r \o m)[i] = IF i <= Len(r) THEN r[i] ELSE m[i - Len(r)]
  BY <1>3, ConcatProperties
<1>6. \A i \in 1..Len(r \o m) : (r \o m)[i] = t[i]
  <2>. SUFFICES ASSUME NEW i \in 1..Len(r \o m) PROVE (r \o m)[i] = t[i]
    OBVIOUS
  <2>. DEFINE n == Len(f)
              l == Len(m)
  <2>1. /\ n \in Nat /\ l \in Nat /\ Len(r) = n - k /\ Len(r \o m) = n + l - k
        /\ i \in 1..(n + l - k) /\ k + i \in 1..(n + l)
    BY <1>1, <1>3, <1>5
  <2>2. t[i] = IF k + i <= n THEN f[k + i] ELSE m[(k + i) - n]
    BY <1>1, <1>4, <2>1
  <2>3. (r \o m)[i] = IF i <= n - k THEN r[i] ELSE m[i - (n - k)]
    BY <1>5, <2>1
  <2>. HIDE DEF n, l
  <2>4. CASE i <= n - k
    <3>1. i \in 1..(n - k) /\ k + i <= n
      BY <2>1, <2>4
    <3>2. r[i] = f[k + i]
      BY <1>3, <3>1 DEF n
    <3>. QED
      BY <2>2, <2>3, <2>4, <3>1, <3>2
  <2>5. CASE ~(i <= n - k)
    <3>1. ~(k + i <= n) /\ (k + i) - n = i - (n - k)
      BY <2>1, <2>5
    <3>. QED
      BY <2>2, <2>3, <2>5, <3>1
  <2>. QED
    BY <2>4, <2>5
<1>7. r \o m = t
  <2>1. Len(r \o m) = Len(t)
    BY <1>1, <1>3, <1>4, <1>5
  <2>. QED
    BY <1>4, <1>5, <1>6, <2>1, SeqEqual
<1>8. k <= Len(f \o m)
  BY <1>1
<1>9. s \o o = r /\ t = SubSeq(f \o m, k + 1, Len(f \o m))
  BY DEF r, t
<1>. QED
  BY <1>2, <1>7, <1>8, <1>9

\* What the steps of the bridge may show.
LEMMA ShownIsMessage ==
    ASSUME TypeOK
    PROVE  /\ \A m \in Nat : Shown(SentChat(m)) \in Seq(Message)
           /\ Shown(SentOrder) \in Seq(Message)
           /\ ReaderPlaced /\ ReadEvent =>
                [i \in DOMAIN Parse(Head(inbox[last])) |->
                    Received(last, Parse(Head(inbox[last]))[i])] \in Seq(Message)
<1>1. \A m \in Nat : SentChat(m) \in Message
  BY DEF Message
<1>2. SentOrder \in Message
  <2>1. SentOrder = SentChat(0)
    BY DEF SentOrder, SentChat
  <2>. QED
    BY <1>1, <2>1
<1>3. \A x \in Message : Shown(x) \in Seq(Message)
  BY DEF Shown
<1>4. ASSUME ReaderPlaced, ReadEvent
      PROVE  [i \in DOMAIN Parse(Head(inbox[last])) |->
                Received(last, Parse(Head(inbox[last]))[i])] \in Seq(Message)
  <2>. DEFINE raw == Head(inbox[last])
  <2>1. last \in Conn
    BY <1>4 DEF TypeOK, ReaderPlaced, ReadEvent
  <2>2. inbox[last] \in Seq(Nat) /\ inbox[last] # <<>>
    BY <1>4, <2>1 DEF TypeOK, ReadEvent
  <2>3. raw \in Nat
    BY <2>2
  <2>4. Received(last, raw) \in Message
    BY <2>1, <2>3 DEF Message
  <2>. HIDE DEF raw
  <2>5. CASE raw \in Malformed
    <3>1. Parse(raw) = <<>>
      BY <2>5 DEF Parse
    <3>2. [i \in DOMAIN Parse(raw) |-> Received(last, Parse(raw)[i])] = <<>>
      BY <3>1
    <3>. QED
      BY <3>2 DEF raw
  <2>6. CASE raw \notin Malformed
    <3>1. Parse(raw) = <<raw>>
      BY <2>6 DEF Parse
    <3>2. [i \in DOMAIN Parse(raw) |-> Received(last, Parse(raw)[i])]
            = <<Received(last, raw)>>
      BY <3>1
    <3>3. <<Received(last, raw)>> \in Seq(Message)
      BY <2>4
    <3>. QED
      BY <3>2, <3>3 DEF raw
  <2>. QED
    BY <2>5, <2>6
<1>. QED
  BY <1>1, <1>2, <1>3, <1>4

\* What a broadcast does to the feed and to every watcher.
LEMMA BroadcastKeeps ==
    ASSUME AudienceInv, NEW m \in Seq(Message), Broadcast(m), orders' \in 0..MaxOrders
    PROVE  AudienceInv'
<1>. USE DEF AudienceInv, SessionTyped, Broadcast
<1>1. feed' = feed \o m /\ feed' \in Seq(Message)
  OBVIOUS
<1>2. \A w \in Watchers : outbox'[w] = IF watch[w] = "joined" THEN outbox[w] \o m ELSE outbox[w]
  BY DEF Served
<1>3. UNCHANGED <<watch, since, seen, stuck, observer>>
  OBVIOUS
<1>4. outbox' \in [Watchers -> Seq(Message)]
  <2>1. \A w \in Watchers : outbox[w] \in Seq(Message) /\ outbox[w] \o m \in Seq(Message)
    OBVIOUS
  <2>. QED
    BY <2>1
<1>5. SessionTyped'
  BY <1>1, <1>3, <1>4
<1>6. ASSUME NEW w \in Watchers, watch[w] = "joined"
      PROVE  /\ since[w] <= Len(feed')
             /\ seen[w] \o outbox'[w] = SubSeq(feed', since[w] + 1, Len(feed'))
  <2>1. /\ since[w] \in Nat /\ seen[w] \in Seq(Message) /\ outbox[w] \in Seq(Message)
        /\ feed \in Seq(Message) /\ since[w] <= Len(feed)
    BY <1>6 DEF Bookkeeping
  <2>2. seen[w] \o outbox[w] = SubSeq(feed, since[w] + 1, Len(feed))
    BY <1>6 DEF ShownInFull
  <2>3. /\ since[w] <= Len(feed \o m)
        /\ seen[w] \o (outbox[w] \o m) = SubSeq(feed \o m, since[w] + 1, Len(feed \o m))
    <3>. HIDE DEF AudienceInv, SessionTyped, Broadcast
    <3>1. ShowsFrom(feed, since[w], seen[w], outbox[w])
      BY <2>1, <2>2 DEF ShowsFrom
    <3>2. ShowsFrom(feed \o m, since[w], seen[w], outbox[w] \o m)
      BY <2>1, <3>1, FeedGrows
    <3>. QED
      BY <3>2 DEF ShowsFrom
  <2>. QED
    BY <1>1, <1>2, <1>6, <2>3
<1>7. Bookkeeping'
  BY <1>2, <1>3, <1>6 DEF Bookkeeping
<1>8. ShownInFull'
  BY <1>3, <1>6 DEF ShownInFull
<1>. QED
  BY <1>5, <1>7, <1>8

-----------------------------------------------------------------------------
(* Every step of a session keeps the audience's books.                     *)

\* A step that leaves the feed alone, and one watcher's books.
LEMMA OneWatcher ==
    ASSUME AudienceInv, NEW w \in Watchers, UNCHANGED <<orders, feed, observer>>,
           NEW wa \in {"away", "joined", "closing"}, NEW si \in Nat,
           NEW ou \in Seq(Message), NEW se \in Seq(Message), stuck' \subseteq Watchers,
           watch' = [watch EXCEPT ![w] = wa], since' = [since EXCEPT ![w] = si],
           outbox' = [outbox EXCEPT ![w] = ou], seen' = [seen EXCEPT ![w] = se],
           wa # "joined" => ou = <<>> /\ se = <<>>,
           wa = "joined" => ShowsFrom(feed, si, se, ou)
    PROVE  AudienceInv'
<1>. USE DEF AudienceInv, SessionTyped
<1>1. SessionTyped'
  OBVIOUS
<1>2. /\ watch'[w] = wa /\ since'[w] = si /\ outbox'[w] = ou /\ seen'[w] = se
      /\ \A x \in Watchers \ {w} : /\ watch'[x] = watch[x] /\ since'[x] = since[x]
                                   /\ outbox'[x] = outbox[x] /\ seen'[x] = seen[x]
  OBVIOUS
<1>3. wa = "joined" => si <= Len(feed) /\ se \o ou = SubSeq(feed, si + 1, Len(feed))
  BY DEF ShowsFrom
<1>4. Bookkeeping'
  BY <1>2, <1>3 DEF Bookkeeping
<1>5. ShownInFull'
  BY <1>2, <1>3 DEF ShownInFull
<1>. QED
  BY <1>1, <1>4, <1>5

LEMMA JoinsKeeps ==
    ASSUME AudienceInv, NEW w \in Watchers, Joins(w)
    PROVE  AudienceInv'
<1>1. /\ watch \in [Watchers -> {"away", "joined", "closing"}]
      /\ outbox \in [Watchers -> Seq(Message)] /\ seen \in [Watchers -> Seq(Message)]
      /\ feed \in Seq(Message) /\ stuck \subseteq Watchers
  BY DEF AudienceInv, SessionTyped
<1>2. Len(feed) \in Nat
  BY <1>1
<1>3. outbox[w] = <<>> /\ seen[w] = <<>>
  BY DEF AudienceInv, Bookkeeping, Joins
<1>4. ShowsFrom(feed, Len(feed), <<>>, <<>>)
  <2>1. SubSeq(feed, Len(feed) + 1, Len(feed)) = <<>>
    BY <1>2, SubSeqEmpty
  <2>2. <<>> \o <<>> = <<>>
    OBVIOUS
  <2>. QED
    BY <1>2, <2>1, <2>2 DEF ShowsFrom
<1>5. /\ outbox' = [outbox EXCEPT ![w] = <<>>] /\ seen' = [seen EXCEPT ![w] = <<>>]
      /\ watch' = [watch EXCEPT ![w] = "joined"] /\ since' = [since EXCEPT ![w] = Len(feed)]
      /\ stuck' \subseteq Watchers /\ UNCHANGED <<orders, feed, observer>>
  BY <1>1, <1>3 DEF Joins
<1>6. <<>> \in Seq(Message)
  OBVIOUS
<1>. QED
  BY <1>2, <1>4, <1>5, <1>6, OneWatcher

LEMMA SendOneKeeps ==
    ASSUME AudienceInv, NEW w \in Watchers, SendOne(w)
    PROVE  AudienceInv'
<1>1. /\ watch \in [Watchers -> {"away", "joined", "closing"}] /\ since \in [Watchers -> Nat]
      /\ outbox \in [Watchers -> Seq(Message)] /\ seen \in [Watchers -> Seq(Message)]
      /\ feed \in Seq(Message) /\ stuck \subseteq Watchers
  BY DEF AudienceInv, SessionTyped
<1>2. /\ watch[w] = "joined" /\ outbox[w] # <<>>
      /\ seen' = [seen EXCEPT ![w] = Append(seen[w], Head(outbox[w]))]
      /\ outbox' = [outbox EXCEPT ![w] = Tail(outbox[w])]
      /\ watch' = watch /\ since' = since /\ stuck' = stuck
      /\ UNCHANGED <<orders, feed, observer>>
  BY <1>1 DEF SendOne
<1>. DEFINE o == outbox[w]
            s == seen[w]
<1>3. o \in Seq(Message) /\ s \in Seq(Message) /\ o # <<>> /\ since[w] \in Nat
  BY <1>1, <1>2
<1>4. /\ since[w] <= Len(feed)
      /\ s \o o = SubSeq(feed, since[w] + 1, Len(feed))
  BY <1>2 DEF AudienceInv, Bookkeeping, ShownInFull
<1>. HIDE DEF o, s
<1>5. /\ Append(s, Head(o)) \in Seq(Message) /\ Tail(o) \in Seq(Message)
      /\ Append(s, Head(o)) \o Tail(o) = s \o o
  BY <1>3
<1>6. ShowsFrom(feed, since[w], Append(s, Head(o)), Tail(o))
  BY <1>4, <1>5 DEF ShowsFrom
<1>7. /\ watch' = [watch EXCEPT ![w] = "joined"] /\ since' = [since EXCEPT ![w] = since[w]]
      /\ seen' = [seen EXCEPT ![w] = Append(s, Head(o))]
      /\ outbox' = [outbox EXCEPT ![w] = Tail(o)]
      /\ stuck' \subseteq Watchers
  BY <1>1, <1>2 DEF o, s
<1>. QED
  BY <1>2, <1>3, <1>5, <1>6, <1>7, OneWatcher

LEMMA ClosingKeeps ==
    ASSUME AudienceInv, NEW ws \in SUBSET Watchers, Closing(ws), UNCHANGED <<orders, feed>>,
           observer' \in {"up", "closing", "closed"}
    PROVE  AudienceInv'
<1>. USE DEF AudienceInv, SessionTyped, Closing
<1>1. SessionTyped'
  OBVIOUS
<1>2. \A w \in ws : watch'[w] # "joined" /\ outbox'[w] = <<>> /\ seen'[w] = <<>>
  OBVIOUS
<1>3. \A w \in Watchers \ ws :
         /\ watch'[w] = watch[w] /\ since'[w] = since[w]
         /\ outbox'[w] = outbox[w] /\ seen'[w] = seen[w]
  OBVIOUS
<1>4. Bookkeeping'
  BY <1>2, <1>3 DEF Bookkeeping
<1>5. ShownInFull'
  BY <1>2, <1>3 DEF ShownInFull
<1>. QED
  BY <1>1, <1>4, <1>5

\* What no watcher's books depend on may change.
LEMMA BooksUntouched ==
    ASSUME AudienceInv, UNCHANGED <<orders, feed, since, outbox, seen>>,
           watch' \in [Watchers -> {"away", "joined", "closing"}],
           \A w \in Watchers : watch'[w] = "joined" <=> watch[w] = "joined",
           stuck' \subseteq Watchers, observer' \in {"up", "closing", "closed"}
    PROVE  AudienceInv'
<1>1. SessionTyped'
  BY DEF AudienceInv, SessionTyped
<1>2. Bookkeeping'
  BY DEF AudienceInv, Bookkeeping
<1>3. ShownInFull'
  BY DEF AudienceInv, ShownInFull
<1>. QED
  BY <1>1, <1>2, <1>3 DEF AudienceInv

LEMMA BridgeStepKeeps ==
    ASSUME IInv, AudienceInv, Reads \/ Drains \/ SendOrder \/ Unwatched
    PROVE  AudienceInv'
<1>0. TypeOK /\ ReaderPlaced /\ orders \in 0..MaxOrders
  BY DEF IInv, AudienceInv, SessionTyped
<1>1. CASE Reads
  <2>1. [i \in DOMAIN Parse(Head(inbox[last])) |->
           Received(last, Parse(Head(inbox[last]))[i])] \in Seq(Message)
    BY <1>0, <1>1, ShownIsMessage DEF Reads
  <2>2. orders' \in 0..MaxOrders
    BY <1>0, <1>1 DEF Reads
  <2>. QED
    BY <1>1, <2>1, <2>2, BroadcastKeeps DEF Reads
<1>2. CASE Drains
  <2>1. queue # <<>>
    BY <1>2 DEF Drains, DrainDrops, DrainWrites, DrainRaises, TakeChat
  <2>2. Head(queue) \in Nat
    <3>1. queue \in Seq(Nat)
      BY <1>0 DEF TypeOK
    <3>. QED
      BY <2>1, <3>1
  <2>3. Shown(SentChat(Head(queue))) \in Seq(Message)
    BY <1>0, <2>2, ShownIsMessage
  <2>4. orders' \in 0..MaxOrders
    BY <1>0, <1>2 DEF Drains
  <2>. QED
    BY <1>2, <2>3, <2>4, BroadcastKeeps DEF Drains
<1>3. CASE SendOrder
  <2>1. Shown(SentOrder) \in Seq(Message)
    BY <1>0, ShownIsMessage
  <2>2. orders' \in 0..MaxOrders
    BY <1>0, <1>3, SessionAssumption DEF SendOrder
  <2>. QED
    BY <1>3, <2>1, <2>2, BroadcastKeeps DEF SendOrder
<1>4. CASE Unwatched
  <2>1. UNCHANGED <<orders, feed, watch, since, outbox, seen, stuck, observer>>
    BY <1>4 DEF Unwatched, audience
  <2>. QED
    BY <2>1, BooksUntouched DEF AudienceInv, SessionTyped
<1>. QED
  BY <1>1, <1>2, <1>3, <1>4

LEMMA AudienceStep ==
    ASSUME IInv, AudienceInv, [SessionNext]_sessionVars
    PROVE  AudienceInv'
<1>0. /\ watch \in [Watchers -> {"away", "joined", "closing"}]
      /\ stuck \subseteq Watchers /\ observer \in {"up", "closing", "closed"}
  BY DEF AudienceInv, SessionTyped
<1>1. CASE Reads \/ Drains \/ SendOrder \/ Unwatched
  BY <1>1, BridgeStepKeeps
<1>2. ASSUME NEW w \in Watchers, Joins(w)
      PROVE  AudienceInv'
  BY <1>2, JoinsKeeps
<1>3. ASSUME NEW w \in Watchers, SendOne(w)
      PROVE  AudienceInv'
  BY <1>3, SendOneKeeps
<1>4. ASSUME NEW w \in Watchers, Leaves(w)
      PROVE  AudienceInv'
  <2>1. {w} \in SUBSET Watchers
    OBVIOUS
  <2>2. Closing({w}) /\ UNCHANGED <<orders, feed>> /\ observer' \in {"up", "closing", "closed"}
    BY <1>0, <1>4 DEF Leaves
  <2>. QED
    BY <2>1, <2>2, ClosingKeeps
<1>5. ASSUME NEW w \in Watchers, StopsReading(w) \/ WatcherGone(w)
      PROVE  AudienceInv'
  <2>1. /\ UNCHANGED <<orders, feed, since, outbox, seen, observer>>
        /\ stuck' \subseteq Watchers
        /\ watch' \in [Watchers -> {"away", "joined", "closing"}]
        /\ \A x \in Watchers : watch'[x] = "joined" <=> watch[x] = "joined"
    BY <1>0, <1>5 DEF StopsReading, WatcherGone
  <2>. QED
    BY <1>0, <2>1, BooksUntouched
<1>6. CASE CloseObserver
  <2>1. /\ Closing({w \in Watchers : watch[w] = "joined"}) /\ UNCHANGED <<orders, feed>>
        /\ observer' \in {"up", "closing", "closed"}
        /\ {w \in Watchers : watch[w] = "joined"} \in SUBSET Watchers
    BY <1>6 DEF CloseObserver
  <2>. QED
    BY <2>1, ClosingKeeps
<1>7. CASE ObserverClosed
  <2>1. /\ UNCHANGED <<orders, feed, watch, since, outbox, seen, stuck>>
        /\ observer' \in {"up", "closing", "closed"}
    BY <1>7 DEF ObserverClosed
  <2>. QED
    BY <1>0, <2>1, BooksUntouched
<1>8. CASE UNCHANGED sessionVars
  <2>1. UNCHANGED <<orders, feed, watch, since, outbox, seen, stuck, observer>>
    BY <1>8 DEF sessionVars, audience
  <2>. QED
    BY <1>0, <2>1, BooksUntouched
<1>. QED
  BY <1>1, <1>2, <1>3, <1>4, <1>5, <1>6, <1>7, <1>8 DEF SessionNext

LEMMA AudienceInit == SessionInit => AudienceInv
<1>1. SUFFICES ASSUME SessionInit PROVE AudienceInv
  OBVIOUS
<1>2. SessionTyped
  <2>1. <<>> \in Seq(Message)
    OBVIOUS
  <2>. QED
    BY <1>1, <2>1, SessionAssumption DEF SessionInit, SessionTyped
<1>3. Bookkeeping /\ ShownInFull
  BY <1>1 DEF SessionInit, Bookkeeping, ShownInFull
<1>. QED
  BY <1>2, <1>3 DEF AudienceInv

LEMMA AudienceInvariance == SessionSafety => []AudienceInv
<1>1. SessionSafety => []IInv
  BY AudienceChangesNothing, Invariance
<1>. QED
  BY <1>1, AudienceInit, AudienceStep, PTL DEF SessionSafety

\* The types of a session.
THEOREM SessionTypeCorrect == SessionSafety => []SessionTypeOK
<1>1. SessionSafety => []TypeOK
  BY AudienceChangesNothing, TypeCorrect
<1>2. TypeOK /\ AudienceInv => SessionTypeOK
  BY DEF AudienceInv, SessionTyped, SessionTypeOK
<1>. QED
  BY <1>1, <1>2, AudienceInvariance, PTL

\* broadcast() and the _send_one tasks lose, repeat and reorder nothing: a watcher
\* that is connected has been or will be sent every message since it joined.
THEOREM WatchersServed == SessionSafety => []ShownInFull
  BY AudienceInvariance, PTL DEF AudienceInv

-----------------------------------------------------------------------------
(* The feed is the traffic.  What is shown of a source is what has been    *)
(* taken of it, and the next one shown is the next one taken.              *)

\* The queue holds the latest chat messages, in order.
QueueNumbered ==
    /\ Len(queue) <= posted
    /\ \A k \in DOMAIN queue : queue[k] = (posted - Len(queue)) + k

ModShown ==
    \A c \in Conn : InOrder(FromMod(c)) /\ Numbers(FromMod(c)) = 1..Taken(c) \ Malformed
ChatShown == InOrder(Chats) /\ Numbers(Chats) = 1..(posted - Len(queue))
OrdersShown == IsFiniteSet(Orders) /\ Cardinality(Orders) = orders

TrafficInv == QueueNumbered /\ ModShown /\ ChatShown /\ OrdersShown

\* The sources a message of the feed may be of.
Of(f, c) == f.direction = "received" /\ f.from = c
IsChat(f) == f.direction = "sent" /\ f # SentOrder

\* One more message is shown.
LEMMA ShownNext ==
    ASSUME NEW x, feed \in Seq(Message), feed' = Append(feed, x)
    PROVE  /\ \A c \in Conn : FromMod(c)' = FromMod(c) \cup
                                 (IF Of(x, c) THEN {Len(feed) + 1} ELSE {})
           /\ Chats' = Chats \cup (IF IsChat(x) THEN {Len(feed) + 1} ELSE {})
           /\ Orders' = Orders \cup (IF x = SentOrder THEN {Len(feed) + 1} ELSE {})
           /\ \A i \in DOMAIN feed : feed'[i] = feed[i]
           /\ feed'[Len(feed) + 1] = x
           /\ Len(feed) + 1 \notin DOMAIN feed
<1>1. /\ DOMAIN feed' = DOMAIN feed \cup {Len(feed) + 1}
      /\ \A i \in DOMAIN feed : feed'[i] = feed[i]
      /\ feed'[Len(feed) + 1] = x
      /\ Len(feed) + 1 \notin DOMAIN feed
  OBVIOUS
<1>. DEFINE n == Len(feed) + 1
<1>. HIDE DEF n
<1>2. ASSUME NEW c \in Conn
      PROVE  FromMod(c)' = FromMod(c) \cup (IF Of(x, c) THEN {n} ELSE {})
  BY <1>1 DEF FromMod, Of, n
<1>3. Chats' = Chats \cup (IF IsChat(x) THEN {n} ELSE {})
  BY <1>1 DEF Chats, IsChat, SentOrder, n
<1>4. Orders' = Orders \cup (IF x = SentOrder THEN {n} ELSE {})
  BY <1>1 DEF Orders, SentOrder, n
<1>. QED
  BY <1>1, <1>2, <1>3, <1>4 DEF n

\* The places of one source, which may gain one at the end that shows the number
\* after all shown before.
LEMMA PlacesGrow ==
    ASSUME NEW x, NEW r \in Nat, NEW P, NEW Q, NEW N,
           feed \in Seq(Message), feed' = Append(feed, x),
           P \subseteq DOMAIN feed, InOrder(P), Numbers(P) = N, N \subseteq 1..r,
           Q = P \cup {Len(feed) + 1}, x.what = r + 1
    PROVE  /\ \A i, j \in Q : i < j => feed'[i].what < feed'[j].what
           /\ {feed'[i].what : i \in Q} = N \cup {r + 1}
<1>. DEFINE n == Len(feed) + 1
<1>1. /\ \A i \in P : feed'[i] = feed[i]
      /\ feed'[n] = x /\ Len(feed) \in Nat
      /\ \A i \in P : i \in Nat /\ i < n
  OBVIOUS
<1>2. \A i \in P : feed[i].what \in 1..r
  BY DEF Numbers
<1>. HIDE DEF n
<1>3. ASSUME NEW i \in Q, NEW j \in Q, i < j
      PROVE  feed'[i].what < feed'[j].what
  <2>1. i \in P
    BY <1>1, <1>3 DEF n
  <2>2. CASE j \in P
    BY <1>1, <2>1, <2>2, <1>3 DEF InOrder
  <2>3. CASE j = n
    <3>1. feed'[i].what \in 1..r /\ feed'[j].what = r + 1
      BY <1>1, <1>2, <2>1, <2>3
    <3>. QED
      BY <3>1
  <2>. QED
    BY <2>2, <2>3 DEF n
<1>4. {feed'[i].what : i \in Q} = {feed[i].what : i \in P} \cup {x.what}
  BY <1>1 DEF n
<1>. QED
  BY <1>3, <1>4 DEF Numbers

LEMMA PlacesStay ==
    ASSUME NEW x, NEW P, feed \in Seq(Message), feed' = Append(feed, x),
           P \subseteq DOMAIN feed, InOrder(P)
    PROVE  /\ \A i, j \in P : i < j => feed'[i].what < feed'[j].what
           /\ {feed'[i].what : i \in P} = Numbers(P)
<1>1. \A i \in P : feed'[i] = feed[i]
  OBVIOUS
<1>. QED
  BY <1>1 DEF InOrder, Numbers


\* The steps of the bridge that neither take a message of the mod nor one of the
\* chat queue.
LEMMA NothingTaken ==
    ASSUME TypeOK, QueueNumbered, UNCHANGED vars \/ Unwatched
    PROVE  /\ QueueNumbered' /\ posted' - Len(queue') = posted - Len(queue)
           /\ \A c \in Conn : Taken(c)' = Taken(c)
<1>. USE DEF QueueNumbered
<1>1. CASE UNCHANGED <<queue, posted, inbox, sent>>
  BY <1>1 DEF Taken
<1>2. CASE SendChat
  <2>1. queue \in Seq(Nat) /\ posted \in Nat /\ queue' = Append(queue, posted + 1)
        /\ posted' = posted + 1
    BY <1>2, BoundsAssumption DEF SendChat, TypeOK
  <2>2. /\ Len(queue') = Len(queue) + 1 /\ DOMAIN queue' = DOMAIN queue \cup {Len(queue) + 1}
        /\ \A k \in DOMAIN queue : queue'[k] = queue[k]
        /\ queue'[Len(queue) + 1] = posted + 1 /\ Len(queue) \in Nat
    BY <2>1
  <2>3. posted' - Len(queue') = posted - Len(queue) /\ Len(queue') <= posted'
    BY <2>1, <2>2
  <2>4. \A k \in DOMAIN queue' : queue'[k] = (posted - Len(queue)) + k
    BY <2>1, <2>2
  <2>5. \A c \in Conn : Taken(c)' = Taken(c)
    BY <1>2 DEF SendChat, transport, Taken
  <2>. QED
    BY <2>3, <2>4, <2>5
<1>3. ASSUME NEW c \in Conn, ModSends(c)
      PROVE  UNCHANGED <<queue, posted>> /\ \A d \in Conn : Taken(d)' = Taken(d)
  <2>1. /\ inbox \in [Conn -> Seq(Nat)] /\ sent \in [Conn -> Nat]
        /\ inbox' = [inbox EXCEPT ![c] = Append(@, sent[c] + 1)]
        /\ sent' = [sent EXCEPT ![c] = @ + 1]
        /\ UNCHANGED <<queue, posted>>
    BY <1>3 DEF ModSends, TypeOK, chat
  <2>2. Taken(c)' = Taken(c)
    <3>. DEFINE s == inbox[c]
                n == sent[c]
    <3>1. s \in Seq(Nat) /\ n \in Nat /\ inbox'[c] = Append(s, n + 1) /\ sent'[c] = n + 1
      BY <2>1
    <3>. HIDE DEF s, n
    <3>2. Len(Append(s, n + 1)) = Len(s) + 1 /\ Len(s) \in Nat
      BY <3>1
    <3>3. (n + 1) - (Len(s) + 1) = n - Len(s)
      BY <3>1, <3>2
    <3>. QED
      BY <3>1, <3>2, <3>3 DEF Taken, s, n
  <2>3. \A d \in Conn \ {c} : inbox'[d] = inbox[d] /\ sent'[d] = sent[d]
    BY <2>1
  <2>. QED
    BY <2>1, <2>2, <2>3 DEF Taken
<1>4. CASE OnConnection \/ \E c \in Conn : LinkDrops(c) \/ HandlerReturns(c)
  BY <1>1, <1>4 DEF OnConnection, LinkDrops, HandlerReturns, chat
<1>5. CASE WakeUp \/ EndOfConnection \/ UNCHANGED vars
  BY <1>1, <1>5 DEF WakeUp, EndOfConnection, transport, chat, vars
<1>6. CASE FlushEnds \/ PauseEnds
  BY <1>1, <1>6 DEF FlushEnds, PauseEnds, transport
<1>7. CASE Close \/ CloseConnection \/ CloseServer \/ ServerClosed
  BY <1>1, <1>7 DEF Close, CloseConnection, CloseServer, ServerClosed, transport, chat
<1>. QED
  BY <1>2, <1>3, <1>4, <1>5, <1>6, <1>7 DEF Unwatched

LEMMA NothingShown ==
    ASSUME TypeOK, TrafficInv, UNCHANGED <<orders, feed>>, UNCHANGED vars \/ Unwatched
    PROVE  TrafficInv'
<1>1. /\ QueueNumbered' /\ posted' - Len(queue') = posted - Len(queue)
      /\ \A c \in Conn : Taken(c)' = Taken(c)
  BY NothingTaken DEF TrafficInv
<1>2. ModShown'
  BY <1>1 DEF TrafficInv, ModShown, FromMod, InOrder, Numbers
<1>3. ChatShown'
  BY <1>1 DEF TrafficInv, ChatShown, Chats, InOrder, Numbers
<1>4. OrdersShown'
  BY DEF TrafficInv, OrdersShown, Orders
<1>. QED
  BY <1>1, <1>2, <1>3, <1>4 DEF TrafficInv

\* A command that is not queued is shown, and nothing of the two others.
LEMMA OrderShown ==
    ASSUME TypeOK, SessionTyped, TrafficInv, SendOrder
    PROVE  TrafficInv'
<1>1. /\ feed \in Seq(Message) /\ feed' = Append(feed, SentOrder)
      /\ orders \in Nat /\ orders' = orders + 1 /\ UNCHANGED vars
  BY DEF SendOrder, Broadcast, Shown, SessionTyped
<1>2. ~IsChat(SentOrder) /\ \A c \in Conn : ~Of(SentOrder, c)
  BY DEF IsChat, Of, SentOrder
<1>3. /\ \A c \in Conn : FromMod(c)' = FromMod(c)
      /\ Chats' = Chats /\ Orders' = Orders \cup {Len(feed) + 1}
      /\ Len(feed) + 1 \notin Orders
  BY <1>1, <1>2, ShownNext DEF Orders
<1>4. /\ QueueNumbered' /\ posted' - Len(queue') = posted - Len(queue)
      /\ \A c \in Conn : Taken(c)' = Taken(c)
  BY <1>1, NothingTaken DEF TrafficInv
<1>5. ModShown'
  <2>. SUFFICES ASSUME NEW c \in Conn
                PROVE  InOrder(FromMod(c))' /\ Numbers(FromMod(c))' = Numbers(FromMod(c))
    BY <1>4 DEF TrafficInv, ModShown
  <2>1. FromMod(c) \subseteq DOMAIN feed /\ InOrder(FromMod(c))
    BY DEF FromMod, TrafficInv, ModShown
  <2>. QED
    BY <1>1, <1>3, <2>1, PlacesStay DEF InOrder, Numbers
<1>6. ChatShown'
  <2>1. Chats \subseteq DOMAIN feed /\ InOrder(Chats)
    BY DEF Chats, TrafficInv, ChatShown
  <2>2. InOrder(Chats)' /\ Numbers(Chats)' = Numbers(Chats)
    BY <1>1, <1>3, <2>1, PlacesStay DEF InOrder, Numbers
  <2>. QED
    BY <1>4, <2>2 DEF TrafficInv, ChatShown
<1>7. OrdersShown'
  BY <1>1, <1>3, FS_AddElement DEF TrafficInv, OrdersShown
<1>. QED
  BY <1>4, <1>5, <1>6, <1>7 DEF TrafficInv

\* What the drain task takes off the queue is shown, whether it can be sent or not.
LEMMA ChatMessageShown ==
    ASSUME TypeOK, SessionTyped, TrafficInv, Drains
    PROVE  TrafficInv'
<1>. DEFINE r == posted - Len(queue)
            x == SentChat(Head(queue))
<1>1. /\ feed \in Seq(Message) /\ feed' = Append(feed, x)
      /\ queue # <<>> /\ queue' = Tail(queue) /\ posted' = posted
      /\ inbox' = inbox /\ sent' = sent /\ orders' = orders
  BY DEF Drains, DrainDrops, DrainWrites, DrainRaises, TakeChat, KeptOnDrop,
         Broadcast, Shown, SessionTyped, transport
<1>2. queue \in Seq(Nat) /\ posted \in Nat /\ Len(queue) <= posted
      /\ \A k \in DOMAIN queue : queue[k] = r + k
  BY BoundsAssumption DEF TypeOK, TrafficInv, QueueNumbered
<1>3. /\ Len(queue) \in Nat \ {0} /\ Len(queue') = Len(queue) - 1
      /\ DOMAIN queue = 1..Len(queue) /\ DOMAIN queue' = 1..(Len(queue) - 1)
      /\ \A k \in 1..(Len(queue) - 1) : queue'[k] = queue[k + 1]
      /\ Head(queue) = queue[1]
  BY <1>1, <1>2
<1>4. r \in Nat /\ posted' - Len(queue') = r + 1 /\ Len(queue') <= posted'
  BY <1>1, <1>2, <1>3
<1>5. Head(queue) = r + 1
  BY <1>2, <1>3
<1>6. \A k \in DOMAIN queue' : queue'[k] = (r + 1) + k
  <2>. SUFFICES ASSUME NEW k \in 1..(Len(queue) - 1) PROVE queue'[k] = (r + 1) + k
    BY <1>3
  <2>. HIDE DEF r
  <2>1. k + 1 \in DOMAIN queue /\ r + (k + 1) = (r + 1) + k
    BY <1>3, <1>4
  <2>. QED
    BY <1>2, <1>3, <2>1
<1>7. QueueNumbered'
  BY <1>4, <1>6 DEF QueueNumbered
<1>8. x.what = r + 1 /\ x # SentOrder /\ IsChat(x) /\ \A c \in Conn : ~Of(x, c)
  <2>1. x.what = r + 1 /\ x.direction = "sent"
    BY <1>5 DEF SentChat
  <2>2. SentOrder.what = 0
    BY DEF SentOrder
  <2>. HIDE DEF x
  <2>. QED
    BY <1>4, <2>1, <2>2 DEF IsChat, Of
<1>. HIDE DEF x, r
<1>9. /\ \A c \in Conn : FromMod(c)' = FromMod(c)
      /\ Chats' = Chats \cup {Len(feed) + 1} /\ Orders' = Orders
  BY <1>1, <1>8, ShownNext
<1>10. ModShown'
  <2>. SUFFICES ASSUME NEW c \in Conn
                PROVE  /\ InOrder(FromMod(c))' /\ Numbers(FromMod(c))' = Numbers(FromMod(c))
                       /\ Taken(c)' = Taken(c)
    BY DEF TrafficInv, ModShown
  <2>1. FromMod(c) \subseteq DOMAIN feed /\ InOrder(FromMod(c))
    BY DEF FromMod, TrafficInv, ModShown
  <2>2. Taken(c)' = Taken(c)
    BY <1>1 DEF Taken
  <2>. QED
    BY <1>1, <1>9, <2>1, <2>2, PlacesStay DEF InOrder, Numbers
<1>11. ChatShown'
  <2>1. Chats \subseteq DOMAIN feed /\ InOrder(Chats) /\ Numbers(Chats) = 1..r
    BY DEF Chats, TrafficInv, ChatShown, r
  <2>2. InOrder(Chats)' /\ Numbers(Chats)' = 1..r \cup {r + 1}
    BY <1>1, <1>4, <1>8, <1>9, <2>1, PlacesGrow DEF InOrder, Numbers
  <2>3. 1..r \cup {r + 1} = 1..(r + 1)
    BY <1>4
  <2>. QED
    BY <1>4, <2>2, <2>3 DEF ChatShown
<1>12. OrdersShown'
  BY <1>1, <1>9 DEF TrafficInv, OrdersShown
<1>. QED
  BY <1>7, <1>10, <1>11, <1>12 DEF TrafficInv

\* What events() takes of a connection is shown if it can be parsed.
LEMMA EventShown ==
    ASSUME TypeOK, ReaderPlaced, ReadInv, SessionTyped, TrafficInv, Reads
    PROVE  TrafficInv'
<1>1. /\ inbox \in [Conn -> Seq(Nat)] /\ sent \in [Conn -> Nat] /\ last \in Conn
      /\ inbox[last] # <<>> /\ inbox' = [inbox EXCEPT ![last] = Tail(@)] /\ sent' = sent
      /\ feed \in Seq(Message) /\ queue' = queue /\ posted' = posted /\ orders' = orders
  BY DEF Reads, ReadEvent, TypeOK, ReaderPlaced, SessionTyped, chat
<1>2. PICK l \in Conn : l = last
  BY <1>1
<1>. DEFINE s == inbox[l]
            r == sent[l] - Len(s)
            x == Received(l, r + 1)
<1>3. /\ s \in Seq(Nat) /\ s # <<>> /\ sent[l] \in Nat /\ Len(s) <= sent[l]
      /\ \A k \in DOMAIN s : s[k] = r + k
  BY <1>1, <1>2 DEF ReadInv, ReadInOrder, Taken
<1>4. Taken(l) = r /\ r \in Nat /\ Head(s) = r + 1
  <2>1. Len(s) \in Nat \ {0} /\ 1 \in DOMAIN s /\ Head(s) = s[1]
    BY <1>3
  <2>2. s[1] = r + 1
    BY <1>3, <2>1
  <2>. QED
    BY <1>3, <2>1, <2>2 DEF Taken
<1>5. Taken(l)' = r + 1
  <2>1. Len(Tail(s)) = Len(s) - 1 /\ Len(s) \in Nat /\ inbox'[l] = Tail(s)
    BY <1>1, <1>2, <1>3
  <2>2. Taken(l)' = sent[l] - (Len(s) - 1)
    BY <1>1, <2>1 DEF Taken
  <2>3. sent[l] - (Len(s) - 1) = (sent[l] - Len(s)) + 1
    BY <1>3, <2>1
  <2>. QED
    BY <2>2, <2>3
<1>6. \A c \in Conn \ {l} : Taken(c)' = Taken(c)
  BY <1>1, <1>2 DEF Taken
<1>7. QueueNumbered' /\ posted' - Len(queue') = posted - Len(queue)
  BY <1>1 DEF TrafficInv, QueueNumbered
<1>8. feed' = feed \o [i \in DOMAIN Parse(Head(s)) |-> Received(l, Parse(Head(s))[i])]
  BY <1>2 DEF Reads, Broadcast
<1>. HIDE DEF s, r
<1>9. CASE r + 1 \in Malformed
  <2>1. feed' = feed
    <3>1. Parse(Head(s)) = <<>>
      BY <1>4, <1>9 DEF Parse
    <3>2. [i \in DOMAIN <<>> |-> Received(l, <<>>[i])] = <<>>
      OBVIOUS
    <3>3. feed \o <<>> = feed
      BY <1>1
    <3>. QED
      BY <1>8, <3>1, <3>2, <3>3
  <2>2. 1..(r + 1) \ Malformed = 1..r \ Malformed
    BY <1>4, <1>9
  <2>3. ModShown'
    <3>. SUFFICES ASSUME NEW c \in Conn PROVE 1..Taken(c)' \ Malformed = 1..Taken(c) \ Malformed
      BY <2>1 DEF TrafficInv, ModShown, FromMod, InOrder, Numbers
    <3>. QED
      BY <1>4, <1>5, <1>6, <2>2
  <2>4. ChatShown' /\ OrdersShown'
    BY <1>1, <2>1 DEF TrafficInv, ChatShown, Chats, InOrder, Numbers, OrdersShown, Orders
  <2>. QED
    BY <1>7, <2>3, <2>4 DEF TrafficInv
<1>10. CASE r + 1 \notin Malformed
  <2>1. feed' = Append(feed, x)
    <3>1. Parse(Head(s)) = <<r + 1>>
      BY <1>4, <1>10 DEF Parse
    <3>2. [i \in DOMAIN <<r + 1>> |-> Received(l, <<r + 1>>[i])] = <<x>>
      OBVIOUS
    <3>3. feed \o <<x>> = Append(feed, x)
      BY <1>1
    <3>. QED
      BY <1>8, <3>1, <3>2, <3>3
  <2>2. /\ x.what = r + 1 /\ Of(x, l) /\ ~IsChat(x) /\ x # SentOrder
        /\ \A c \in Conn \ {l} : ~Of(x, c)
    <3>1. x.what = r + 1 /\ x.direction = "received" /\ x.from = l
      BY DEF Received
    <3>2. SentOrder.direction = "sent"
      BY DEF SentOrder
    <3>. HIDE DEF x
    <3>. QED
      BY <3>1, <3>2 DEF Of, IsChat
  <2>. HIDE DEF x
  <2>3. /\ FromMod(l)' = FromMod(l) \cup {Len(feed) + 1}
        /\ \A c \in Conn \ {l} : FromMod(c)' = FromMod(c)
        /\ Chats' = Chats /\ Orders' = Orders
    <3>1. /\ \A c \in Conn : FromMod(c)' = FromMod(c) \cup
                               (IF Of(x, c) THEN {Len(feed) + 1} ELSE {})
          /\ Chats' = Chats \cup (IF IsChat(x) THEN {Len(feed) + 1} ELSE {})
          /\ Orders' = Orders \cup (IF x = SentOrder THEN {Len(feed) + 1} ELSE {})
      BY <1>1, <2>1, ShownNext
    <3>. QED
      BY <2>2, <3>1
  <2>4. InOrder(FromMod(l))' /\ Numbers(FromMod(l))' = 1..Taken(l)' \ Malformed
    <3>. DEFINE N == 1..r \ Malformed
    <3>1. /\ FromMod(l) \subseteq DOMAIN feed /\ InOrder(FromMod(l))
          /\ Numbers(FromMod(l)) = N /\ N \subseteq 1..r
      BY <1>4 DEF FromMod, TrafficInv, ModShown
    <3>2. N \cup {r + 1} = 1..(r + 1) \ Malformed
      BY <1>4, <1>10
    <3>. HIDE DEF N
    <3>3. FromMod(l)' = FromMod(l) \cup {Len(feed) + 1}
      BY <2>3
    <3>4. /\ \A i, j \in FromMod(l)' : i < j => feed'[i].what < feed'[j].what
          /\ {feed'[i].what : i \in FromMod(l)'} = N \cup {r + 1}
      BY <1>1, <1>4, <2>1, <2>2, <3>1, <3>3, PlacesGrow
    <3>5. InOrder(FromMod(l))' /\ Numbers(FromMod(l))' = N \cup {r + 1}
      BY <3>4 DEF InOrder, Numbers
    <3>. QED
      BY <1>5, <3>5, <3>2
  <2>5. ASSUME NEW c \in Conn, c # l
        PROVE  InOrder(FromMod(c))' /\ Numbers(FromMod(c))' = 1..Taken(c)' \ Malformed
    <3>1. FromMod(c) \subseteq DOMAIN feed /\ InOrder(FromMod(c))
      BY DEF FromMod, TrafficInv, ModShown
    <3>2. InOrder(FromMod(c))' /\ Numbers(FromMod(c))' = Numbers(FromMod(c))
      BY <1>1, <2>1, <2>3, <2>5, <3>1, PlacesStay DEF InOrder, Numbers
    <3>. QED
      BY <1>6, <2>5, <3>2 DEF TrafficInv, ModShown
  <2>6. ModShown'
    BY <2>4, <2>5 DEF ModShown
  <2>7. ChatShown'
    <3>1. Chats \subseteq DOMAIN feed /\ InOrder(Chats)
      BY DEF Chats, TrafficInv, ChatShown
    <3>2. InOrder(Chats)' /\ Numbers(Chats)' = Numbers(Chats)
      BY <1>1, <2>1, <2>3, <3>1, PlacesStay DEF InOrder, Numbers
    <3>. QED
      BY <1>7, <3>2 DEF TrafficInv, ChatShown
  <2>8. OrdersShown'
    BY <1>1, <2>3 DEF TrafficInv, OrdersShown
  <2>. QED
    BY <1>7, <2>6, <2>7, <2>8 DEF TrafficInv
<1>. QED
  BY <1>9, <1>10

LEMMA TrafficStep ==
    ASSUME IInv, ReadInv, AudienceInv, TrafficInv, [SessionNext]_sessionVars
    PROVE  TrafficInv'
<1>0. TypeOK /\ ReaderPlaced /\ SessionTyped
  BY DEF IInv, AudienceInv
<1>1. CASE Reads \/ Drains \/ SendOrder
  BY <1>0, <1>1, EventShown, ChatMessageShown, OrderShown
<1>2. CASE Unwatched \/ UNCHANGED sessionVars
  BY <1>0, <1>2, NothingShown DEF Unwatched, sessionVars
<1>3. CASE \/ \E w \in Watchers :
                Joins(w) \/ StopsReading(w) \/ SendOne(w) \/ Leaves(w) \/ WatcherGone(w)
           \/ CloseObserver \/ ObserverClosed
  <2>1. UNCHANGED vars /\ UNCHANGED <<orders, feed>>
    BY <1>3 DEF Joins, StopsReading, SendOne, Leaves, WatcherGone, CloseObserver, ObserverClosed
  <2>. QED
    BY <1>0, <2>1, NothingShown
<1>. QED
  BY <1>1, <1>2, <1>3 DEF SessionNext

LEMMA TrafficInit == SessionInit => TrafficInv
<1>. SUFFICES ASSUME SessionInit PROVE TrafficInv
  OBVIOUS
<1>1. /\ feed = <<>> /\ orders = 0 /\ queue = <<>> /\ posted = 0
      /\ \A c \in Conn : inbox[c] = <<>> /\ sent[c] = 0
  BY DEF SessionInit, Init
<1>2. Chats = {} /\ Orders = {} /\ \A c \in Conn : FromMod(c) = {} /\ Taken(c) = 0
  BY <1>1 DEF Chats, Orders, FromMod, Taken
<1>3. OrdersShown
  BY <1>1, <1>2, FS_EmptySet DEF OrdersShown
<1>. QED
  BY <1>1, <1>2, <1>3 DEF TrafficInv, QueueNumbered, ModShown, ChatShown, InOrder, Numbers

\* What the watchers are shown is the traffic: every message events() yields and
\* every chat message that has left the queue, in order and once, whoever joins,
\* leaves or hangs meanwhile.
THEOREM TrafficIsShown == SessionSafety => []WatchersSeeTheTraffic
<1>1. SessionSafety => []IInv
  BY AudienceChangesNothing, Invariance
<1>2. SessionInit => ReadInv
  BY InitReads DEF SessionInit
<1>3. IInv /\ ReadInv /\ [SessionNext]_sessionVars => ReadInv'
  BY SessionStep, NextReads
<1>4. ReadInv /\ AudienceInv /\ TrafficInv => WatchersSeeTheTraffic
  BY DEF ReadInv, ReadInOrder, AudienceInv, TrafficInv, ModShown, ChatShown, OrdersShown,
         WatchersSeeTheTraffic
<1>. QED
  BY <1>1, <1>2, <1>3, <1>4, AudienceInvariance, TrafficInit, TrafficStep, PTL DEF SessionSafety
==============================================================================
