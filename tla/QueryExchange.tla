---------------------------- MODULE QueryExchange ----------------------------
(***************************************************************************)
(* The question-and-answer exchange with the mod: bridge/query.py and its  *)
(* callers, bot/query.py and the query helpers of testing/actions.py.  A   *)
(* caller awaits send_query, then awaits wait_for_next, which stores a     *)
(* fresh future in the tracker's only slot and awaits that future, even    *)
(* when a later caller has stored its own by then; the reader resolves     *)
(* whatever future is stored when a query_result arrives.  Replies carry   *)
(* no identity.  Two callers are at work at once when a superseded command *)
(* is still in its finally while the command that replaced it has started. *)
(***************************************************************************)
EXTENDS Naturals, Sequences

CONSTANTS
    Caller,         \* the command tasks that query
    MaxQueries      \* bound: queries asked in all

ASSUME MaxQueriesAssumption == MaxQueries \in Nat

None == 0
Query == 1..MaxQueries

VARIABLES
    asked,      \* number of queries asked so far; queries are numbered
    requests,   \* queries on their way to the mod
    replies,    \* replies on their way back, each the query it answers
    slot,       \* _next_result: the query whose future it is, None at first
    value,      \* Query -> the reply its future holds, None while it holds none
    cancelled,  \* the stored future was cancelled, by a timeout or with its caller
    pc,         \* Caller -> "idle" | "sending" | "waiting"
    query,      \* Caller -> the query it is asking
    answer,     \* history: Query -> the reply its caller was given
    shared,     \* history: queries that were not the only one under way
    next        \* history: Caller -> the first reply to come since it began to wait

vars == <<asked, requests, replies, slot, value, cancelled, pc, query, answer, shared, next>>

TypeOK ==
    /\ asked \in 0..MaxQueries
    /\ requests \in Seq(Query)
    /\ replies \in Seq(Query)
    /\ slot \in Query \cup {None}
    /\ value \in [Query -> Query \cup {None}]
    /\ cancelled \in BOOLEAN
    /\ cancelled => slot # None /\ value[slot] = None
    /\ pc \in [Caller -> {"idle", "sending", "waiting"}]
    /\ query \in [Caller -> Query \cup {None}]
    /\ answer \in [Query -> Query \cup {None}]
    /\ shared \subseteq Query
    /\ next \in [Caller -> Query \cup {None}]

Init ==
    /\ asked = 0
    /\ requests = <<>>
    /\ replies = <<>>
    /\ slot = None
    /\ value = [q \in Query |-> None]
    /\ cancelled = FALSE
    /\ pc = [c \in Caller |-> "idle"]
    /\ query = [c \in Caller |-> None]
    /\ answer = [q \in Query |-> None]
    /\ shared = {}
    /\ next = [c \in Caller |-> None]

-----------------------------------------------------------------------------

Elements(s) == {s[i] : i \in DOMAIN s}

\* Queries somebody is asking, or whose request or reply is still travelling.
UnderWay ==
    {query[c] : c \in {d \in Caller : pc[d] # "idle"}} \cup Elements(requests) \cup Elements(replies)

\* Mutant: a future that is already there is waited on instead of replaced.
FreshFutureKept(q) ==
    /\ slot' = q
    /\ value' = [value EXCEPT ![q] = IF slot = None THEN None ELSE value[slot]]
    /\ UNCHANGED cancelled
\* wait_for_next stores a new future, whatever the slot held.
FreshFuture(q) == slot' = q /\ value' = [value EXCEPT ![q] = None] /\ cancelled' = FALSE

\* The caller waits for its query.
Waits(c, q) ==
    /\ pc' = [pc EXCEPT ![c] = "waiting"]
    /\ next' = [next EXCEPT ![c] = None]
    /\ FreshFuture(q)

\* send_query(arg): the request is written, and the send may suspend; without a
\* connection it is dropped, and the caller waits all the same.
Ask(c) ==
    LET q == asked + 1
        others == UnderWay
    IN
    /\ pc[c] = "idle"
    /\ asked < MaxQueries
    /\ asked' = q
    /\ query' = [query EXCEPT ![c] = q]
    /\ requests' \in {requests, Append(requests, q)}
    /\ shared' = IF others = {} THEN shared ELSE shared \cup others \cup {q}
    /\ \/ Waits(c, q)
       \/ /\ requests' # requests
          /\ pc' = [pc EXCEPT ![c] = "sending"]
          /\ UNCHANGED <<slot, value, cancelled, next>>
    /\ UNCHANGED <<replies, answer>>

\* The suspended send returns and the caller goes on to wait_for_next, or it
\* raises because the connection was lost.
SendEnds(c) ==
    /\ pc[c] = "sending"
    /\ \/ Waits(c, query[c])
       \/ pc' = [pc EXCEPT ![c] = "idle"] /\ UNCHANGED <<slot, value, cancelled, next>>
    /\ UNCHANGED <<asked, requests, replies, query, answer, shared>>

\* The mod answers the requests in the order they reach it.
ModReplies ==
    /\ requests # <<>>
    /\ replies' = Append(replies, Head(requests))
    /\ requests' = Tail(requests)
    /\ UNCHANGED <<asked, slot, value, cancelled, pc, query, answer, shared, next>>

\* The connection is lost with what it carried.
Lost ==
    /\ requests \o replies # <<>>
    /\ requests' = <<>>
    /\ replies' \in {<<>>, replies}
    /\ UNCHANGED <<asked, slot, value, cancelled, pc, query, answer, shared, next>>

\* Mutant: every query_result replaces what the future holds.
AcceptsResultUnchecked == slot # None
\* There is a future, and it is not done.
AcceptsResult == slot # None /\ value[slot] = None /\ ~cancelled

\* QueryResultTracker.handle_event, called by the reader.
ReplyArrives ==
    /\ replies # <<>>
    /\ replies' = Tail(replies)
    /\ value' = IF AcceptsResult THEN [value EXCEPT ![slot] = Head(replies)] ELSE value
    /\ next' = [c \in Caller |->
                  IF pc[c] = "waiting" /\ next[c] = None THEN Head(replies) ELSE next[c]]
    /\ UNCHANGED <<asked, requests, slot, cancelled, pc, query, answer, shared>>

Done(c) == pc' = [pc EXCEPT ![c] = "idle"]

\* The future the caller awaits has its result.
Resolved(c) == value[query[c]] # None

Answered(c) ==
    /\ pc[c] = "waiting"
    /\ Resolved(c)
    /\ Done(c)
    /\ answer' = [answer EXCEPT ![query[c]] = value[query[c]]]
    /\ UNCHANGED <<asked, requests, replies, slot, value, cancelled, query, shared, next>>

\* Mutant: no timeout bounds the wait.
MayTimeOutNever(c) == FALSE
MayTimeOut(c) == pc[c] = "waiting"

\* Mutant: whatever future is stored gets cancelled.
LeavesFutureAny(c) == slot # None
\* The future the caller created is still the stored one, and has no result.
LeavesFuture(c) == slot = query[c] /\ value[slot] = None

\* The caller leaves; its future, when not resolved yet, is cancelled with it.
Abandons(c) ==
    /\ Done(c)
    /\ cancelled' = (cancelled \/ LeavesFuture(c))
    /\ UNCHANGED <<asked, requests, replies, slot, value, query, answer, shared, next>>

\* The timer may fire when the future is resolved and the caller not yet resumed.
TimesOut(c) == MayTimeOut(c) /\ Abandons(c)

\* A newer command supersedes the caller.
Superseded(c) == pc[c] # "idle" /\ Abandons(c)

Next ==
    \/ \E c \in Caller : Ask(c) \/ SendEnds(c) \/ Answered(c) \/ TimesOut(c) \/ Superseded(c)
    \/ ModReplies \/ ReplyArrives \/ Lost

Safety == Init /\ [][Next]_vars

\* Timers fire, a suspended send ends (the keepalive closes a dead peer), and a
\* resolved caller is resumed.
Fairness == \A c \in Caller : WF_vars(SendEnds(c)) /\ WF_vars(Answered(c) \/ TimesOut(c))

Spec == Safety /\ Fairness

-----------------------------------------------------------------------------

\* A query during which nothing else was under way gets its own reply or none:
\* never a result left over from an earlier exchange.
AloneGetsOwnReply ==
    \A q \in Query \ shared : answer[q] \in {None, q}

\* A caller is given the very next reply after it began to wait, whatever arrives
\* before it is resumed and whoever starts to wait in the meantime (query.py:26-31).
VeryNextReply ==
    [][\A q \in Query : answer'[q] # answer[q] =>
            \E c \in Caller : query[c] = q /\ answer'[q] = next[c]]_vars

\* Every query ends: with a reply, a timeout or an error.
QueriesEnd == \A c \in Caller : pc[c] # "idle" ~> pc[c] = "idle"

\* The comment on _next_result: a query never reads a reply that is stale, from
\* an earlier query.
NeverStale == \A q \in Query : answer[q] # None => answer[q] >= q
=============================================================================
