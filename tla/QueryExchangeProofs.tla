-------------------------- MODULE QueryExchangeProofs --------------------------
(***************************************************************************)
(* Theorems about QueryExchange, for any number of callers and queries.    *)
(***************************************************************************)
EXTENDS QueryExchange, TLAPS

-----------------------------------------------------------------------------
(* The inductive invariant.                                                *)

\* A caller at work has a query.
Asking == \A c \in Caller : pc[c] # "idle" => query[c] # None

\* A query that has met no other is alone on its way.
Alone == \A q \in Query \ shared : q \in UnderWay => UnderWay \subseteq {q}

\* So the reply that its caller finds can only be its own.
OwnValue ==
    \A c \in Caller :
        pc[c] = "waiting" /\ Resolved(c) /\ query[c] \notin shared => value[query[c]] = query[c]

\* Callers number their queries apart.
Numbered ==
    /\ \A c \in Caller : query[c] <= asked
    /\ \A c, d \in Caller : query[c] # None /\ query[c] = query[d] => c = d

\* A future holds the first reply since its caller began to wait, and while it is the
\* stored one it has missed none.
HoldsNext ==
    \A c \in Caller :
        pc[c] = "waiting" /\ (Resolved(c) \/ (slot = query[c] /\ ~cancelled))
            => value[query[c]] = next[c]

IInv == TypeOK /\ Asking /\ Alone /\ OwnValue /\ AloneGetsOwnReply /\ Numbered /\ HoldsNext

-----------------------------------------------------------------------------
(* The elements of a queue.                                                *)

LEMMA QueueElements ==
    ASSUME NEW S, NEW s \in Seq(S)
    PROVE  /\ Elements(<<>>) = {}
           /\ Elements(s) \subseteq S
           /\ \A x \in S : Append(s, x) \in Seq(S) /\ Elements(Append(s, x)) = Elements(s) \cup {x}
           /\ s # <<>> => /\ Head(s) \in S /\ Head(s) \in Elements(s)
                          /\ Tail(s) \in Seq(S) /\ Elements(Tail(s)) \subseteq Elements(s)
<1>1. Elements(<<>>) = {}
  BY DEF Elements
<1>2. Elements(s) \subseteq S
  BY DEF Elements
<1>3. ASSUME NEW x \in S
      PROVE  Append(s, x) \in Seq(S) /\ Elements(Append(s, x)) = Elements(s) \cup {x}
  <2>1. /\ Append(s, x) \in Seq(S) /\ DOMAIN Append(s, x) = DOMAIN s \cup {Len(s) + 1}
        /\ \A i \in DOMAIN s : Append(s, x)[i] = s[i]
        /\ Append(s, x)[Len(s) + 1] = x
    OBVIOUS
  <2>. QED
    BY <2>1 DEF Elements
<1>4. ASSUME s # <<>>
      PROVE  /\ Head(s) \in S /\ Head(s) \in Elements(s)
             /\ Tail(s) \in Seq(S) /\ Elements(Tail(s)) \subseteq Elements(s)
  <2>1. /\ 1 \in DOMAIN s /\ Head(s) = s[1] /\ Tail(s) \in Seq(S)
        /\ \A i \in DOMAIN Tail(s) : i + 1 \in DOMAIN s /\ Tail(s)[i] = s[i + 1]
    BY <1>4
  <2>. QED
    BY <2>1 DEF Elements
<1>. QED
  BY <1>1, <1>2, <1>3, <1>4

-----------------------------------------------------------------------------
(* Types, and what is under way.                                           *)

NetTyped == asked \in 0..MaxQueries /\ requests \in Seq(Query) /\ replies \in Seq(Query)
SlotTyped ==
    /\ slot \in Query \cup {None}
    /\ value \in [Query -> Query \cup {None}]
    /\ cancelled \in BOOLEAN
    /\ cancelled => slot # None /\ value[slot] = None
CallersTyped ==
    /\ pc \in [Caller -> {"idle", "sending", "waiting"}]
    /\ query \in [Caller -> Query \cup {None}]
    /\ answer \in [Query -> Query \cup {None}]
HistoryTyped == shared \subseteq Query /\ next \in [Caller -> Query \cup {None}]

LEMMA TypeParts == TypeOK <=> NetTyped /\ SlotTyped /\ CallersTyped /\ HistoryTyped
  BY DEF TypeOK, NetTyped, SlotTyped, CallersTyped, HistoryTyped

LEMMA TypePartsPrimed ==
    ASSUME NetTyped', SlotTyped', CallersTyped', HistoryTyped'
    PROVE  TypeOK'
  BY DEF TypeOK, NetTyped, SlotTyped, CallersTyped, HistoryTyped

\* What a step leaves alone stays typed.
LEMMA TypesKept ==
    ASSUME TypeOK
    PROVE  /\ UNCHANGED <<asked, requests, replies>> => NetTyped'
           /\ UNCHANGED <<slot, value, cancelled>> => SlotTyped'
           /\ UNCHANGED <<pc, query, answer>> => CallersTyped'
           /\ UNCHANGED <<shared, next>> => HistoryTyped'
<1>1. NetTyped /\ SlotTyped /\ CallersTyped /\ HistoryTyped
  BY TypeParts
<1>2. UNCHANGED <<asked, requests, replies>> => NetTyped'
  BY <1>1 DEF NetTyped
<1>3. UNCHANGED <<slot, value, cancelled>> => SlotTyped'
  <2>1. SUFFICES ASSUME slot' = slot, value' = value, cancelled' = cancelled PROVE SlotTyped'
    OBVIOUS
  <2>. QED
    BY <1>1, <2>1, Zenon DEF SlotTyped
<1>4. UNCHANGED <<pc, query, answer>> => CallersTyped'
  BY <1>1 DEF CallersTyped
<1>5. UNCHANGED <<shared, next>> => HistoryTyped'
  BY <1>1 DEF HistoryTyped
<1>. QED
  BY <1>2, <1>3, <1>4, <1>5

LEMMA QueryIsNotNone == None \notin Query /\ \A q \in Query : q # None
  BY MaxQueriesAssumption DEF Query, None

\* The query of a caller at work is under way, and so is a reply.
LEMMA CallerUnderWay ==
    ASSUME NEW c \in Caller, pc[c] # "idle"
    PROVE  query[c] \in UnderWay
  BY DEF UnderWay

\* wait_for_next.
LEMMA WaitsTypes ==
    ASSUME TypeOK, NEW c \in Caller, NEW q \in Query, Waits(c, q)
    PROVE  /\ SlotTyped'
           /\ pc' = [pc EXCEPT ![c] = "waiting"]
           /\ slot' = q /\ value' = [value EXCEPT ![q] = None]
           /\ next' = [next EXCEPT ![c] = None]
           /\ next' \in [Caller -> Query \cup {None}]
<1>1. /\ slot' = q /\ value' = [value EXCEPT ![q] = None] /\ cancelled' = FALSE
      /\ pc' = [pc EXCEPT ![c] = "waiting"] /\ next' = [next EXCEPT ![c] = None]
  BY Zenon DEF Waits, FreshFuture
<1>2. slot' \in Query \cup {None} /\ value' \in [Query -> Query \cup {None}]
  BY <1>1 DEF TypeOK
<1>3. cancelled' \in BOOLEAN /\ ~cancelled'
  BY <1>1, Zenon
<1>4. SlotTyped'
  BY <1>2, <1>3, Zenon DEF SlotTyped
<1>5. next' \in [Caller -> Query \cup {None}]
  BY <1>1 DEF TypeOK
<1>. QED
  BY <1>1, <1>4, <1>5, Zenon

\* Whoever begins to wait has missed no reply, and nobody else's future is touched.
LEMMA WaitsHolds ==
    ASSUME IInv, NEW c \in Caller, NEW q \in Query, Waits(c, q),
           query' = [query EXCEPT ![c] = q],
           \A d \in Caller : query[d] = q => d = c
    PROVE  HoldsNext'
<1>1. /\ TypeOK
      /\ pc' = [pc EXCEPT ![c] = "waiting"]
      /\ slot' = q /\ value' = [value EXCEPT ![q] = None]
      /\ next' = [next EXCEPT ![c] = None]
  BY WaitsTypes DEF IInv
<1>2. ASSUME NEW d \in Caller, pc'[d] = "waiting",
             Resolved(d)' \/ (slot' = query'[d] /\ ~cancelled')
      PROVE  value'[query'[d]] = next'[d]
  <2>1. CASE d = c
    <3>1. query'[d] = q /\ next'[d] = None
      BY <1>1, <2>1 DEF TypeOK
    <3>2. value'[q] = None
      BY <1>1 DEF TypeOK
    <3>. QED
      BY <3>1, <3>2
  <2>2. CASE d # c
    <3>1. pc[d] = "waiting" /\ query'[d] = query[d] /\ next'[d] = next[d] /\ query[d] # q
      BY <1>1, <1>2, <2>2 DEF TypeOK
    <3>2. query[d] \in Query
      BY <3>1 DEF IInv, Asking, TypeOK
    <3>3. value'[query[d]] = value[query[d]]
      BY <1>1, <3>1, <3>2 DEF TypeOK
    <3>4. Resolved(d)
      BY <1>1, <1>2, <3>1, <3>3 DEF Resolved
    <3>. QED
      BY <3>1, <3>3, <3>4 DEF IInv, HoldsNext
  <2>. QED
    BY <2>1, <2>2
<1>. QED
  BY <1>2 DEF HoldsNext

\* What is under way when nobody new asks.
LEMMA FewerUnderWay ==
    ASSUME IInv, UnderWay' \subseteq UnderWay, shared' = shared
    PROVE  Alone'
<1>1. Query' = Query
  BY DEF Query
<1>. QED
  BY <1>1 DEF IInv, Alone

LEMMA CallersLeave ==
    ASSUME UNCHANGED query,
           \A c \in Caller : pc[c] = "idle" => pc'[c] = "idle",
           \A x : x \in Elements(requests') \cup Elements(replies')
                    => x \in Elements(requests) \cup Elements(replies)
    PROVE  UnderWay' \subseteq UnderWay
  BY DEF UnderWay, Elements

-----------------------------------------------------------------------------
(* The steps.                                                              *)

\* The mod and the network: no caller moves.
LEMMA NetKeeps ==
    ASSUME IInv, ModReplies \/ Lost
    PROVE  IInv'
<1>0. TypeOK /\ NetTyped /\ CallersTyped /\ HistoryTyped
  BY TypeParts DEF IInv
<1>1. UNCHANGED <<asked, slot, value, cancelled, pc, query, answer, shared, next>>
  BY DEF ModReplies, Lost
<1>2. /\ requests' \in Seq(Query) /\ replies' \in Seq(Query)
      /\ Elements(requests') \cup Elements(replies') \subseteq Elements(requests) \cup Elements(replies)
  <2>1. CASE ModReplies
    <3>1. /\ requests # <<>>
          /\ replies' = Append(replies, Head(requests)) /\ requests' = Tail(requests)
      BY <2>1 DEF ModReplies
    <3>2. /\ Head(requests) \in Query /\ Head(requests) \in Elements(requests)
          /\ Tail(requests) \in Seq(Query) /\ Elements(Tail(requests)) \subseteq Elements(requests)
      BY <1>0, <3>1, QueueElements DEF NetTyped
    <3>3. /\ Append(replies, Head(requests)) \in Seq(Query)
          /\ Elements(Append(replies, Head(requests))) = Elements(replies) \cup {Head(requests)}
      BY <1>0, <3>2, QueueElements DEF NetTyped
    <3>. QED
      BY <3>1, <3>2, <3>3
  <2>2. CASE Lost
    <3>1. requests' = <<>> /\ (replies' = <<>> \/ replies' = replies)
      BY <2>2 DEF Lost
    <3>2. <<>> \in Seq(Query) /\ Elements(<<>>) = {}
      BY <1>0, QueueElements DEF NetTyped
    <3>. QED
      BY <1>0, <3>1, <3>2 DEF NetTyped
  <2>. QED
    BY <2>1, <2>2
<1>3. TypeOK'
  <2>1. NetTyped'
    BY <1>0, <1>1, <1>2 DEF NetTyped
  <2>. QED
    BY <1>0, <1>1, <2>1, TypesKept, TypePartsPrimed
<1>4. Alone'
  <2>1. UnderWay' \subseteq UnderWay
    BY <1>1, <1>2, CallersLeave
  <2>. QED
    BY <1>1, <2>1, FewerUnderWay
<1>5. Asking' /\ OwnValue' /\ AloneGetsOwnReply' /\ Numbered' /\ HoldsNext'
  BY <1>1, Zenon DEF IInv, Asking, OwnValue, Resolved, AloneGetsOwnReply, Numbered, HoldsNext, Query
<1>. QED
  BY <1>3, <1>4, <1>5 DEF IInv

LEMMA ReplyKeeps ==
    ASSUME IInv, ReplyArrives
    PROVE  IInv'
<1>0. TypeOK /\ NetTyped /\ SlotTyped /\ CallersTyped /\ HistoryTyped
  BY TypeParts DEF IInv
<1>1. /\ UNCHANGED <<asked, requests, slot, cancelled, pc, query, answer, shared>>
      /\ replies # <<>> /\ replies' = Tail(replies)
      /\ next' = [c \in Caller |->
                    IF pc[c] = "waiting" /\ next[c] = None THEN Head(replies) ELSE next[c]]
  BY DEF ReplyArrives
<1>2. /\ ~AcceptsResult => value' = value
      /\ AcceptsResult => value' = [value EXCEPT ![slot] = Head(replies)]
  BY DEF ReplyArrives
<1>3. AcceptsResult <=> slot # None /\ value[slot] = None /\ ~cancelled
  BY Zenon DEF AcceptsResult
<1>4. /\ Head(replies) \in Query /\ Head(replies) \in Elements(replies) /\ Head(replies) # None
      /\ Tail(replies) \in Seq(Query) /\ Elements(Tail(replies)) \subseteq Elements(replies)
  BY <1>0, <1>1, QueueElements, QueryIsNotNone DEF NetTyped
<1>5. TypeOK'
  <2>1. NetTyped' /\ CallersTyped'
    BY <1>0, <1>1, <1>4 DEF NetTyped, CallersTyped
  <2>2. HistoryTyped'
    BY <1>0, <1>1, <1>4 DEF HistoryTyped
  <2>3. SlotTyped'
    <3>1. CASE ~AcceptsResult
      BY <1>0, <1>1, <1>2, <3>1, Zenon DEF SlotTyped
    <3>2. CASE AcceptsResult
      <4>1. value' \in [Query -> Query \cup {None}]
        BY <1>0, <1>2, <1>4, <3>2 DEF SlotTyped
      <4>2. ~cancelled' /\ cancelled' \in BOOLEAN /\ slot' \in Query \cup {None}
        BY <1>0, <1>1, <1>3, <3>2, Zenon DEF SlotTyped
      <4>. QED
        BY <4>1, <4>2, Zenon DEF SlotTyped
    <3>. QED
      BY <3>1, <3>2
  <2>. QED
    BY <2>1, <2>2, <2>3, TypePartsPrimed
<1>6. Alone'
  <2>1. UnderWay' \subseteq UnderWay
    BY <1>1, <1>4, CallersLeave
  <2>. QED
    BY <1>1, <2>1, FewerUnderWay
<1>7. ASSUME NEW c \in Caller, pc[c] = "waiting"
      PROVE  /\ query[c] \in Query
             /\ \/ value'[query[c]] = value[query[c]]
                \/ AcceptsResult /\ slot = query[c] /\ value'[query[c]] = Head(replies)
  <2>1. query[c] \in Query
    BY <1>0, <1>7 DEF CallersTyped, IInv, Asking
  <2>. QED
    BY <1>0, <1>2, <2>1 DEF SlotTyped
<1>8. ASSUME NEW c \in Caller, pc'[c] = "waiting", Resolved(c)', query'[c] \notin shared'
      PROVE  value'[query'[c]] = query'[c]
  <2>1. pc[c] = "waiting" /\ query'[c] = query[c] /\ query[c] \notin shared
    BY <1>1, <1>8
  <2>2. CASE value'[query[c]] = value[query[c]]
    BY <1>8, <2>1, <2>2 DEF IInv, OwnValue, Resolved
  <2>3. CASE value'[query[c]] = Head(replies)
    <3>1. query[c] \in UnderWay /\ Head(replies) \in UnderWay
      BY <1>4, <2>1 DEF UnderWay
    <3>2. UnderWay \subseteq {query[c]}
      BY <1>7, <2>1, <3>1 DEF IInv, Alone
    <3>. QED
      BY <2>1, <2>3, <3>1, <3>2
  <2>. QED
    BY <1>7, <2>1, <2>2, <2>3
<1>9. OwnValue'
  BY <1>8 DEF OwnValue
<1>10. Asking' /\ AloneGetsOwnReply' /\ Numbered'
  BY <1>1 DEF IInv, Asking, AloneGetsOwnReply, Numbered, Query
<1>11. ASSUME NEW c \in Caller, pc'[c] = "waiting",
              Resolved(c)' \/ (slot' = query'[c] /\ ~cancelled')
       PROVE  value'[query'[c]] = next'[c]
  <2>1. /\ pc[c] = "waiting" /\ query'[c] = query[c]
        /\ next'[c] = IF next[c] = None THEN Head(replies) ELSE next[c]
    BY <1>1, <1>11
  <2>2. CASE AcceptsResult /\ slot = query[c]
    <3>1. value'[query[c]] = Head(replies)
      BY <1>0, <1>2, <1>7, <2>1, <2>2 DEF SlotTyped
    <3>2. value[query[c]] = None /\ ~cancelled
      BY <1>3, <2>2, Zenon
    <3>3. next[c] = None
      BY <2>1, <2>2, <3>2 DEF IInv, HoldsNext
    <3>. QED
      BY <2>1, <3>1, <3>3
  <2>3. CASE ~(AcceptsResult /\ slot = query[c])
    <3>1. value'[query[c]] = value[query[c]]
      BY <1>7, <2>1, <2>3
    <3>2. Resolved(c)
      <4>1. CASE Resolved(c)'
        BY <2>1, <3>1, <4>1 DEF Resolved
      <4>2. CASE slot' = query'[c] /\ ~cancelled'
        <5>1. slot = query[c] /\ ~cancelled /\ slot # None
          BY <1>1, <1>7, <2>1, <4>2, QueryIsNotNone
        <5>2. value[slot] # None
          BY <1>3, <2>3, <5>1, Zenon
        <5>. QED
          BY <5>1, <5>2 DEF Resolved
      <4>. QED
        BY <1>11, <4>1, <4>2
    <3>3. value[query[c]] = next[c] /\ next[c] # None
      BY <2>1, <3>2 DEF IInv, HoldsNext, Resolved
    <3>. QED
      BY <2>1, <3>1, <3>3
  <2>. QED
    BY <2>2, <2>3
<1>12. HoldsNext'
  BY <1>11 DEF HoldsNext
<1>. QED
  BY <1>5, <1>6, <1>9, <1>10, <1>12 DEF IInv

\* A caller that leaves: with its reply, or cancelling its future.
LEMMA LeaverKeeps ==
    ASSUME IInv, NEW c \in Caller, pc[c] # "idle", Answered(c) \/ Abandons(c)
    PROVE  IInv'
<1>0. TypeOK /\ NetTyped /\ SlotTyped /\ CallersTyped /\ HistoryTyped
  BY TypeParts DEF IInv
<1>1. /\ UNCHANGED <<asked, requests, replies, slot, value, query, shared, next>>
      /\ pc' = [pc EXCEPT ![c] = "idle"]
  BY DEF Answered, Abandons, Done
<1>2. \/ answer' = answer
      \/ /\ pc[c] = "waiting" /\ Resolved(c)
         /\ answer' = [answer EXCEPT ![query[c]] = value[query[c]]]
  BY DEF Answered, Abandons
<1>3. query[c] \in Query
  BY <1>0 DEF CallersTyped, IInv, Asking
<1>4. TypeOK'
  <2>1. NetTyped' /\ HistoryTyped'
    BY <1>0, <1>1, TypesKept
  <2>2. CallersTyped'
    BY <1>0, <1>1, <1>2, <1>3 DEF CallersTyped, SlotTyped
  <2>3. cancelled' = cancelled \/ (slot = query[c] /\ value[slot] = None /\ cancelled' = TRUE)
    BY <1>0 DEF Answered, Abandons, LeavesFuture, SlotTyped
  <2>4. SlotTyped'
    <3>1. CASE cancelled' = cancelled
      BY <1>0, <1>1, <3>1, Zenon DEF SlotTyped
    <3>2. CASE slot = query[c] /\ value[slot] = None /\ cancelled' = TRUE
      BY <1>0, <1>1, <1>3, <3>2, QueryIsNotNone DEF SlotTyped
    <3>. QED
      BY <2>3, <3>1, <3>2
  <2>. QED
    BY <2>1, <2>2, <2>4, TypePartsPrimed
<1>5. \A d \in Caller : pc'[d] # "idle" => pc'[d] = pc[d] /\ d # c
  BY <1>0, <1>1 DEF CallersTyped
<1>6. Alone'
  <2>1. UnderWay' \subseteq UnderWay
    BY <1>0, <1>1, CallersLeave DEF CallersTyped
  <2>. QED
    BY <1>1, <2>1, FewerUnderWay
<1>7. Asking' /\ OwnValue' /\ Numbered' /\ HoldsNext'
  <2>1. Asking' /\ OwnValue' /\ Numbered'
    BY <1>1, <1>5 DEF IInv, Asking, OwnValue, Resolved, Numbered
  <2>2. cancelled => cancelled'
    BY Zenon DEF Answered, Abandons
  <2>3. HoldsNext'
    BY <1>1, <1>5, <2>2 DEF IInv, HoldsNext, Resolved
  <2>. QED
    BY <2>1, <2>3
<1>8. AloneGetsOwnReply'
  <2>1. query[c] \notin shared /\ answer' # answer => value[query[c]] = query[c]
    BY <1>2 DEF IInv, OwnValue
  <2>. QED
    BY <1>0, <1>1, <1>2, <1>3, <2>1 DEF IInv, AloneGetsOwnReply, CallersTyped, Query
<1>. QED
  BY <1>4, <1>6, <1>7, <1>8 DEF IInv

LEMMA SendEndsKeeps ==
    ASSUME IInv, NEW c \in Caller, SendEnds(c)
    PROVE  IInv'
<1>0. TypeOK /\ NetTyped /\ SlotTyped /\ CallersTyped /\ HistoryTyped
  BY TypeParts DEF IInv
<1>1. /\ UNCHANGED <<asked, requests, replies, query, answer, shared>>
      /\ pc[c] = "sending"
      /\ \/ Waits(c, query[c])
         \/ pc' = [pc EXCEPT ![c] = "idle"] /\ UNCHANGED <<slot, value, cancelled, next>>
  BY DEF SendEnds
<1>2. query[c] \in Query
  BY <1>0, <1>1 DEF CallersTyped, IInv, Asking
<1>3. SlotTyped' /\ HistoryTyped'
  <2>1. CASE Waits(c, query[c])
    BY <1>0, <1>1, <1>2, <2>1, WaitsTypes DEF HistoryTyped
  <2>2. CASE UNCHANGED <<slot, value, cancelled, next>>
    BY <1>0, <1>1, <2>2, TypesKept
  <2>. QED
    BY <1>1, <2>1, <2>2
<1>4. \A d \in Caller : d # c => pc'[d] = pc[d]
  BY <1>0, <1>1, <1>2, WaitsTypes DEF CallersTyped
<1>5. TypeOK'
  <2>1. CallersTyped'
    BY <1>0, <1>1, <1>2, WaitsTypes DEF CallersTyped
  <2>. QED
    BY <1>0, <1>1, <1>3, <2>1, TypesKept, TypePartsPrimed
<1>6. Alone'
  <2>1. \A d \in Caller : pc[d] = "idle" => pc'[d] = "idle"
    BY <1>1, <1>4
  <2>2. UnderWay' \subseteq UnderWay
    BY <1>1, <2>1, CallersLeave
  <2>. QED
    BY <1>1, <2>2, FewerUnderWay
<1>7. Asking' /\ Numbered'
  BY <1>1, <1>4 DEF IInv, Asking, Numbered
<1>8. OwnValue' /\ HoldsNext'
  <2>1. CASE Waits(c, query[c])
    <3>1. value' = [value EXCEPT ![query[c]] = None]
      BY <1>0, <1>2, <2>1, WaitsTypes
    <3>2. OwnValue'
      BY <1>0, <1>1, <1>2, <1>4, <3>1 DEF IInv, OwnValue, Resolved, SlotTyped
    <3>3. query' = [query EXCEPT ![c] = query[c]]
      BY <1>0, <1>1 DEF CallersTyped
    <3>4. \A d \in Caller : query[d] = query[c] => d = c
      BY <1>2, QueryIsNotNone DEF IInv, Numbered
    <3>. QED
      BY <1>2, <2>1, <3>2, <3>3, <3>4, WaitsHolds
  <2>2. CASE pc' = [pc EXCEPT ![c] = "idle"] /\ UNCHANGED <<slot, value, cancelled, next>>
    <3>1. \A d \in Caller : pc'[d] = "waiting" => pc[d] = "waiting"
      BY <1>0, <2>2 DEF CallersTyped
    <3>. QED
      BY <1>1, <2>2, <3>1, Zenon DEF IInv, OwnValue, HoldsNext, Resolved
  <2>. QED
    BY <1>1, <2>1, <2>2
<1>9. AloneGetsOwnReply'
  BY <1>1 DEF IInv, AloneGetsOwnReply, Query
<1>. QED
  BY <1>5, <1>6, <1>7, <1>8, <1>9 DEF IInv

\* A new query joins those under way, and from then on none of them is alone.
LEMMA AskKeeps ==
    ASSUME IInv, NEW c \in Caller, Ask(c)
    PROVE  IInv'
<1>0. TypeOK /\ NetTyped /\ SlotTyped /\ CallersTyped /\ HistoryTyped
  BY TypeParts DEF IInv
<1>. DEFINE q == asked + 1
<1>1. q \in Query /\ q \in 0..MaxQueries /\ q # None
  <2>1. asked \in 0..MaxQueries /\ asked < MaxQueries
    BY <1>0 DEF Ask, NetTyped
  <2>. QED
    BY <2>1, MaxQueriesAssumption DEF Query, None
<1>2. /\ pc[c] = "idle" /\ asked' = q
      /\ query' = [query EXCEPT ![c] = q]
      /\ requests' = requests \/ requests' = Append(requests, q)
      /\ shared' = IF UnderWay = {} THEN shared ELSE shared \cup UnderWay \cup {q}
      /\ UNCHANGED <<replies, answer>>
  BY DEF Ask
<1>3. \/ Waits(c, q)
      \/ pc' = [pc EXCEPT ![c] = "sending"] /\ UNCHANGED <<slot, value, cancelled, next>>
  BY DEF Ask
<1>. HIDE DEF q
<1>4. requests' \in Seq(Query) /\ Elements(requests') \subseteq Elements(requests) \cup {q}
  <2>1. requests \in Seq(Query)
    BY <1>0 DEF NetTyped
  <2>2. /\ Append(requests, q) \in Seq(Query)
        /\ Elements(Append(requests, q)) = Elements(requests) \cup {q}
    BY <1>1, <2>1, QueueElements
  <2>. QED
    BY <1>2, <2>1, <2>2
<1>5. UnderWay \subseteq Query
  <2>1. \A d \in Caller : pc[d] # "idle" => query[d] \in Query
    BY <1>0 DEF CallersTyped, IInv, Asking
  <2>2. Elements(requests) \subseteq Query /\ Elements(replies) \subseteq Query
    BY <1>0, QueueElements DEF NetTyped
  <2>. QED
    BY <2>1, <2>2 DEF UnderWay
<1>6. TypeOK'
  <2>1. NetTyped'
    BY <1>0, <1>1, <1>2, <1>4 DEF NetTyped
  <2>2. SlotTyped' /\ next' \in [Caller -> Query \cup {None}]
    <3>1. CASE Waits(c, q)
      BY <1>0, <1>1, <3>1, WaitsTypes
    <3>2. CASE UNCHANGED <<slot, value, cancelled, next>>
      BY <1>0, <3>2, TypesKept DEF HistoryTyped
    <3>. QED
      BY <1>3, <3>1, <3>2
  <2>3. CallersTyped'
    BY <1>0, <1>1, <1>2, <1>3, WaitsTypes DEF CallersTyped
  <2>4. shared' \subseteq Query
    BY <1>0, <1>1, <1>2, <1>5 DEF HistoryTyped
  <2>5. HistoryTyped'
    BY <2>2, <2>4 DEF HistoryTyped
  <2>. QED
    BY <2>1, <2>2, <2>3, <2>5, TypePartsPrimed
<1>20. \A d \in Caller : d # c => pc'[d] = pc[d] /\ query'[d] = query[d]
  BY <1>0, <1>1, <1>2, <1>3, WaitsTypes DEF CallersTyped
<1>21. pc'[c] # "idle" /\ query'[c] = q
  BY <1>0, <1>1, <1>2, <1>3, WaitsTypes DEF CallersTyped
<1>7. UnderWay' \subseteq UnderWay \cup {q}
  <2>1. \A d \in Caller : pc'[d] # "idle" => query'[d] = q \/ (pc[d] # "idle" /\ query'[d] = query[d])
    BY <1>20, <1>21
  <2>. QED
    BY <1>2, <1>4, <2>1 DEF UnderWay
<1>8. Alone'
  <2>1. CASE UnderWay = {}
    BY <1>2, <1>7, <2>1 DEF Alone
  <2>2. CASE UnderWay # {}
    BY <1>2, <1>7, <2>2 DEF Alone
  <2>. QED
    BY <2>1, <2>2
<1>9. Asking' /\ Numbered'
  <2>1. \A d \in Caller : query[d] <= asked /\ query[d] # q
    <3>1. asked \in Nat /\ \A d \in Caller : query[d] \in Nat
      BY <1>0, MaxQueriesAssumption DEF NetTyped, CallersTyped, Query, None
    <3>2. \A d \in Caller : query[d] <= asked
      BY DEF IInv, Numbered
    <3>3. q = asked + 1
      BY DEF q
    <3>4. \A m, n \in Nat : m <= n => m # n + 1
      OBVIOUS
    <3>. QED
      BY <3>1, <3>2, <3>3, <3>4
  <2>2. \A d \in Caller : query'[d] <= asked'
    <3>1. asked \in Nat /\ q = asked + 1 /\ \A d \in Caller : query[d] \in Nat
      BY <1>0, MaxQueriesAssumption DEF NetTyped, CallersTyped, Query, None, q
    <3>. QED
      BY <1>2, <1>20, <1>21, <2>1, <3>1
  <2>. QED
    BY <1>1, <1>20, <1>21, <2>1, <2>2 DEF IInv, Asking, Numbered
<1>10. OwnValue' /\ HoldsNext'
  <2>1. CASE Waits(c, q)
    <3>1. value' = [value EXCEPT ![q] = None]
      BY <1>0, <1>1, <2>1, WaitsTypes
    <3>2. shared \subseteq shared'
      BY <1>2
    <3>3. value'[q] = None /\ \A x \in Query : x # q => value'[x] = value[x]
      BY <1>0, <1>1, <3>1 DEF SlotTyped
    <3>4. \A d \in Caller : d # c /\ pc[d] = "waiting" => query[d] \in Query
      BY <1>0 DEF CallersTyped, IInv, Asking
    <3>5. OwnValue'
      BY <1>20, <1>21, <3>2, <3>3, <3>4 DEF IInv, OwnValue, Resolved
    <3>6. \A d \in Caller : query[d] = q => d = c
      <4>1. \A d \in Caller : query[d] \in Nat /\ asked \in Nat
        BY <1>0, MaxQueriesAssumption DEF NetTyped, CallersTyped, Query, None
      <4>. QED
        BY <4>1 DEF IInv, Numbered, q
    <3>. QED
      BY <1>1, <1>2, <2>1, <3>5, <3>6, WaitsHolds
  <2>2. CASE pc' = [pc EXCEPT ![c] = "sending"] /\ UNCHANGED <<slot, value, cancelled, next>>
    <3>1. \A d \in Caller : pc'[d] = "waiting" => pc[d] = "waiting" /\ query'[d] = query[d]
      BY <1>0, <1>2, <2>2 DEF CallersTyped
    <3>2. shared \subseteq shared'
      BY <1>2
    <3>. QED
      BY <2>2, <3>1, <3>2 DEF IInv, OwnValue, HoldsNext, Resolved
  <2>. QED
    BY <1>3, <2>1, <2>2
<1>11. AloneGetsOwnReply'
  <2>1. shared \subseteq shared'
    BY <1>2
  <2>. QED
    BY <1>2, <2>1 DEF IInv, AloneGetsOwnReply, Query
<1>. QED
  BY <1>6, <1>8, <1>9, <1>10, <1>11 DEF IInv

-----------------------------------------------------------------------------
(* The theorems.                                                           *)

LEMMA InitIInv == Init => IInv
<1>. SUFFICES ASSUME Init PROVE IInv
  OBVIOUS
<1>. USE MaxQueriesAssumption DEF Init
<1>1. TypeOK
  <2>1. NetTyped
    BY DEF NetTyped
  <2>2. SlotTyped
    <3>1. cancelled \in BOOLEAN /\ ~cancelled
      BY Zenon
    <3>2. slot \in Query \cup {None} /\ value \in [Query -> Query \cup {None}]
      OBVIOUS
    <3>. QED
      BY <3>1, <3>2, Zenon DEF SlotTyped
  <2>3. CallersTyped
    BY DEF CallersTyped
  <2>4. HistoryTyped
    BY DEF HistoryTyped
  <2>. QED
    BY <2>1, <2>2, <2>3, <2>4, TypeParts
<1>2. UnderWay = {}
  BY DEF UnderWay, Elements
<1>3. Asking /\ Alone /\ OwnValue /\ HoldsNext
  BY <1>2 DEF Asking, Alone, OwnValue, HoldsNext
<1>4. AloneGetsOwnReply /\ Numbered
  BY DEF AloneGetsOwnReply, Numbered, None
<1>. QED
  BY <1>1, <1>3, <1>4 DEF IInv

\* Every step of every caller, of the connection and of the reader.
LEMMA NextIInv ==
    ASSUME IInv, [Next]_vars
    PROVE  IInv'
<1>1. ASSUME NEW c \in Caller, Answered(c) \/ TimesOut(c) \/ Superseded(c) PROVE IInv'
  <2>1. pc[c] # "idle" /\ (Answered(c) \/ Abandons(c))
    BY <1>1 DEF Answered, TimesOut, MayTimeOut, Superseded
  <2>. QED
    BY <2>1, LeaverKeeps
<1>2. ASSUME UNCHANGED vars PROVE IInv'
  <2>1. /\ TypeOK /\ UNCHANGED <<asked, requests, replies>> /\ UNCHANGED <<slot, value, cancelled>>
        /\ UNCHANGED <<pc, query, answer>> /\ UNCHANGED <<shared, next>>
    BY <1>2 DEF vars, IInv
  <2>2. TypeOK'
    BY <2>1, TypesKept, TypePartsPrimed
  <2>3. UnderWay' = UnderWay
    BY <2>1 DEF UnderWay, Elements
  <2>. QED
    BY <2>1, <2>2, <2>3, Zenon DEF IInv, Asking, Alone, OwnValue, Resolved, AloneGetsOwnReply,
                                   Numbered, HoldsNext, Query
<1>. QED
  BY <1>1, <1>2, AskKeeps, SendEndsKeeps, NetKeeps, ReplyKeeps DEF Next

LEMMA Invariance == Safety => []IInv
<1>1. IInv /\ [Next]_vars => IInv'
  BY NextIInv
<1>. QED
  BY InitIInv, <1>1, PTL DEF Safety

\* The queues, the one future and the callers stay well-formed whatever is lost,
\* times out or is superseded; a cancelled future never holds a value.
THEOREM TypeCorrect == Safety => []TypeOK
  BY Invariance, PTL DEF IInv

\* A query that met no other exchange gets its own reply or none, although replies
\* say nothing of the query they answer and the one future is shared by all.
THEOREM OwnReplyWhenAlone == Safety => []AloneGetsOwnReply
  BY Invariance, PTL DEF IInv

\* A caller is given the very next reply after it began to wait: a later reply
\* never takes its place, nor does a later caller's future.
THEOREM GivenTheNextReply == Safety => VeryNextReply
<1>. DEFINE Given ==
                \A q \in Query : answer'[q] # answer[q] =>
                    \E c \in Caller : query[c] = q /\ answer'[q] = next[c]
<1>1. ASSUME IInv, [Next]_vars, NEW q \in Query, answer'[q] # answer[q]
      PROVE  \E c \in Caller : query[c] = q /\ answer'[q] = next[c]
  <2>1. PICK c \in Caller : Answered(c)
    BY <1>1, Zenon DEF Next, vars, Ask, SendEnds, TimesOut, Superseded, Abandons, ModReplies,
                       ReplyArrives, Lost
  <2>2. /\ pc[c] = "waiting" /\ Resolved(c)
        /\ answer' = [answer EXCEPT ![query[c]] = value[query[c]]]
    BY <2>1 DEF Answered
  <2>3. answer \in [Query -> Query \cup {None}]
    BY <1>1 DEF IInv, TypeOK
  <2>4. q = query[c] /\ answer'[q] = value[query[c]]
    BY <1>1, <2>2, <2>3
  <2>5. value[query[c]] = next[c]
    BY <1>1, <2>2 DEF IInv, HoldsNext
  <2>. QED
    BY <2>4, <2>5
<1>2. IInv /\ [Next]_vars => [Given]_vars
  BY <1>1
<1>. HIDE DEF Given
<1>3. Safety => [][Given]_vars
  BY <1>2, Invariance, PTL DEF Safety
<1>. QED
  BY <1>3 DEF Given, VeryNextReply
==============================================================================
