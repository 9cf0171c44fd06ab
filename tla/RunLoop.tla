------------------------------- MODULE RunLoop -------------------------------
(***************************************************************************)
(* minebot/bot/run_loop.py with what it drives: ActionRegistry, the        *)
(* movement and combat controllers, SelfDefenseTrigger and                 *)
(* PlayerIntentionController.  One reader task queues the mod's events,    *)
(* run() takes them off the queue; a chat command becomes a task of its    *)
(* own that the next one cancels; a hostile hit starts a defend task that  *)
(* nobody tracks.                                                          *)
(*                                                                         *)
(* An action is what runs between two suspensions.  The event loop's ready *)
(* queue is FIFO: a task that was created takes its first step before      *)
(* run(), resumed through several callbacks, takes another event.          *)
(*                                                                         *)
(* Every send takes the mutex of the connection (the websockets library's, *)
(* a FIFO lock) and keeps it while it drains, so a send may suspend before *)
(* it has written anything: behind another task's, the chat drain's or a   *)
(* keepalive ping.                                                         *)
(***************************************************************************)
EXTENDS Naturals, Sequences

CONSTANTS
    MaxEvents,      \* bound: events the mod sends
    Traffic,        \* bound: the queued events that occur among them
    OwnLines        \* bound: the commands that lines of the bot's own hold

\* Commands a player types: !defend of another player, and bare !defend, which is
\* of the bot itself.  "kill" stands for the orders that touch no intention and no
\* standing goal, "query" for a command that waits for the mod; "runtest" waits
\* likewise, and then its test's setup resets the mod.
Commands == {"follow", "stop", "defend", "defend self", "kill", "query", "runtest"}
\* A line of chat: a command, or noise that names none -- a word to another player,
\* a misspelt command.
Lines == Commands \cup {"noise"}
\* Events that are queued: a player's line, the bot's own line echoed by the server,
\* a system message, a hostile hit, and what only gets logged or announced.
Queued == Lines \cup {"own", "system", "hit", "death"}

ASSUME BoundsAssumption ==
    /\ MaxEvents \in Nat
    /\ Traffic \subseteq Queued
    /\ OwnLines \subseteq Commands

Task == 1..MaxEvents
None == 0
Other == MaxEvents + 1      \* a sender that is no task of run()'s: chat drain, keepalive

VARIABLES
    reader,     \* _read_events: "running" | "ended" | "crashed"
    read,       \* number of events read so far
    queue,      \* events read and not yet processed
    processed,  \* number of events run() has taken off the queue
    run,        \* run(): "looping" | "finishing" (waits for the last command) | "over"
                \*        | "interrupted"
    current,    \* current_command_task
    kind,       \* Task -> what the task runs
    status,     \* Task -> "none" | "created" | "queued" (waits for the mutex) |
                \*         "sending" | "waiting" | "answered" | "cancelled" | "done"
    ownName,    \* SelfPositionTracker.own_name is known
    intention,  \* PlayerIntentionController.current
    link,       \* "up" | "closing" (closed, not cleared) | "down"
    holder,     \* who has the connection's mutex and drains
    line,       \* the tasks that wait for that mutex
    ahead,      \* Task -> those of the line that came before it
    modGoal,    \* the standing goal the mod was last given
    ordered,    \* history: the task that last set the intention
    lost,       \* history: a standing order was lost since one of `ordered' was sent
    replaced,   \* history: a test's setup reset the mod, the intention standing
    newest,     \* history: the task of the last line a player typed
    echoed      \* history: an own line was dispatched, own_name being unknown

tasks == <<current, kind, status>>
goal == <<intention, ordered>>
mutex == <<holder, line, ahead>>
given == <<modGoal, replaced>>
mod == <<link, mutex, given, lost>>
vars == <<reader, read, queue, processed, run, tasks, ownName, goal, mod, newest, echoed>>

Kinds == Lines \cup {"none", "autodefend", "reset"}
Statuses == {"none", "created", "queued", "sending", "waiting", "answered",
             "cancelled", "done"}

TypeOK ==
    /\ reader \in {"running", "ended", "crashed"}
    /\ read \in 0..MaxEvents
    /\ queue \in Seq(Queued)
    /\ processed \in 0..MaxEvents
    /\ run \in {"looping", "finishing", "over", "interrupted"}
    /\ current \in Task \cup {None}
    /\ kind \in [Task -> Kinds]
    /\ status \in [Task -> Statuses]
    /\ ownName \in BOOLEAN
    /\ intention \in {"IDLE", "FOLLOW", "DEFEND"}
    /\ link \in {"up", "closing", "down"}
    /\ holder \in Task \cup {None, Other}
    /\ line \subseteq Task
    /\ ahead \in [Task -> SUBSET Task]
    /\ modGoal \in {"IDLE", "FOLLOW", "DEFEND other", "DEFEND self"}
    /\ ordered \in Task \cup {None}
    /\ lost \in BOOLEAN
    /\ replaced \in BOOLEAN
    /\ newest \in Task \cup {None}
    /\ echoed \in BOOLEAN

Init ==
    /\ reader = "running"
    /\ read = 0
    /\ queue = <<>>
    /\ processed = 0
    /\ run = "looping"
    /\ current = None
    /\ kind = [t \in Task |-> "none"]
    /\ status = [t \in Task |-> "none"]
    /\ ownName = FALSE
    /\ intention = "IDLE"
    /\ link = "up"
    /\ holder = None
    /\ line = {}
    /\ ahead = [t \in Task |-> {}]
    /\ modGoal = "IDLE"
    /\ ordered = None
    /\ lost = FALSE
    /\ replaced = FALSE
    /\ newest = None
    /\ echoed = FALSE

-----------------------------------------------------------------------------
(* _read_events: trackers and query replies are handled on the spot, the   *)
(* rest is queued.                                                         *)

ReaderGets ==
    /\ reader = "running"
    /\ read < MaxEvents
    /\ read' = read + 1

ReadQueued(e) ==
    /\ ReaderGets
    /\ queue' = Append(queue, e)
    /\ UNCHANGED <<reader, processed, run, tasks, ownName, goal, mod, newest, echoed>>

\* Every position event carries the account's own name.
ReadPosition ==
    /\ ReaderGets
    /\ ownName' = TRUE
    /\ UNCHANGED <<reader, queue, processed, run, tasks, goal, mod, newest, echoed>>

\* A query_result resolves the wait of the command that is running.
ReadReply ==
    /\ ReaderGets
    /\ current # None
    /\ status[current] = "waiting"
    /\ status' = [status EXCEPT ![current] = "answered"]
    /\ UNCHANGED <<reader, queue, processed, run, current, kind, ownName, goal,
                   mod, newest, echoed>>

\* The event stream ends (the fake bridges of the tests), or a handler raises.
ReaderStops ==
    /\ reader = "running"
    /\ reader' \in {"ended", "crashed"}
    /\ UNCHANGED <<read, queue, processed, run, tasks, ownName, goal, mod,
                   newest, echoed>>

-----------------------------------------------------------------------------
(* run() takes an event.                                                   *)

Live(t) == status[t] \in {"created", "queued", "sending", "waiting", "answered"}

\* The standing orders, of commands and of the self-defence.
Standing == {"follow", "stop", "defend", "defend self", "autodefend"}

LeavesLine(S) ==
    /\ line' = line \ S
    /\ ahead' = [t \in Task |-> IF t \in S THEN {} ELSE ahead[t] \ S]

\* Mutant: the superseded command is left running.
CancelCurrentForgotten == status
\* current_command_task.cancel(), unless it is done.
CancelCurrent ==
    [t \in Task |-> IF t = current /\ Live(t) THEN "cancelled" ELSE status[t]]

\* A task cancelled in line for the mutex leaves it, its order unsent.
OrderCut ==
    /\ LeavesLine({current})
    /\ lost' = (lost \/ \E t \in line : t = current /\ kind[t] \in Standing)
    /\ UNCHANGED <<link, holder, given>>

\* Tasks are named after the event they are started for.
NewTask == processed + 1

\* ensure_future(_handle_chat(...)), which becomes the tracked command.
Dispatch(k) ==
    /\ status' = [CancelCurrent EXCEPT ![NewTask] = "created"]
    /\ OrderCut
    /\ kind' = [kind EXCEPT ![NewTask] = k]
    /\ current' = NewTask

\* The guards on system messages and on own messages.
Ignored(e) == e = "system" \/ (e = "own" /\ ownName)

\* A line of the bot's own, heard before its name is known, may hold a command:
\* "something went wrong running !follow", or what !help says of one.
InOwnLine == OwnLines \cup {"noise"}

\* The running command is cancelled before the line is even parsed.
ProcessChat(e) ==
    /\ e \in Lines \cup {"own", "system"}
    /\ UNCHANGED goal
    /\ \/ Ignored(e) /\ UNCHANGED <<tasks, mod, newest, echoed>>
       \/ e \in Lines /\ Dispatch(e) /\ newest' = NewTask /\ UNCHANGED echoed
       \/ /\ e = "own" /\ ~Ignored(e)
          /\ \E k \in InOwnLine : Dispatch(k)
          /\ echoed' = TRUE
          /\ UNCHANGED newest

\* Mutant: every hostile hit triggers, defending or not.
TriggersAlways == TRUE
Triggers == intention # "DEFEND"

\* SelfDefenseTrigger.handle_event starts CombatController.defend(sender=None).
ProcessHit(e) ==
    /\ e = "hit"
    /\ IF Triggers
       THEN /\ status' = [status EXCEPT ![NewTask] = "created"]
            /\ kind' = [kind EXCEPT ![NewTask] = "autodefend"]
            /\ UNCHANGED current
       ELSE UNCHANGED tasks
    /\ UNCHANGED <<goal, mod, newest, echoed>>

\* hello, health, respawn are logged; death and item_broken enqueue a chat line.
ProcessOther(e) ==
    /\ e = "death"
    /\ UNCHANGED <<tasks, goal, mod, newest, echoed>>

\* Mutant: the command is awaited in the loop instead of in its own task.
LoopFreeInline == \A t \in Task : t = current => ~Live(t)
LoopFree == TRUE

NoTaskCreated == \A t \in Task : status[t] # "created"

ProcessEvent ==
    /\ run = "looping"
    /\ NoTaskCreated
    /\ LoopFree
    /\ queue # <<>>
    /\ queue' = Tail(queue)
    /\ processed' = processed + 1
    /\ LET e == Head(queue) IN ProcessChat(e) \/ ProcessHit(e) \/ ProcessOther(e)
    /\ UNCHANGED <<reader, read, run, ownName>>

-----------------------------------------------------------------------------
(* run() ends.                                                             *)

\* Mutant: run() stops as soon as the reader has.
StreamEndedEarly == reader # "running"
StreamEnded == reader # "running" /\ queue = <<>>

\* run() looks at the end of the stream whenever it is back at its top.
EndOfStream ==
    /\ run = "looping"
    /\ NoTaskCreated
    /\ LoopFree
    /\ StreamEnded
    /\ run' = IF current = None THEN "over" ELSE "finishing"
    /\ UNCHANGED <<reader, read, queue, processed, tasks, ownName, goal, mod,
                   newest, echoed>>

LastCommandDone ==
    /\ run = "finishing"
    /\ status[current] = "done"
    /\ run' = "over"
    /\ UNCHANGED <<reader, read, queue, processed, tasks, ownName, goal, mod,
                   newest, echoed>>

\* The finally of run().
OnExit == CancelCurrent

\* run() itself is cancelled (Ctrl-C): its finally cancels reader and command.
Interrupted ==
    /\ run \in {"looping", "finishing"}
    /\ run' = "interrupted"
    /\ reader' = IF reader = "running" THEN "ended" ELSE reader
    /\ status' = OnExit
    /\ OrderCut
    /\ UNCHANGED <<read, queue, processed, current, kind, ownName, goal, newest, echoed>>

-----------------------------------------------------------------------------
(* The tasks: _handle_chat running a registered handler, or defend().      *)

GoalOf(k) ==
    IF k = "follow" THEN "FOLLOW"
    ELSE IF k = "defend" THEN "DEFEND other"
    ELSE IF k \in {"defend self", "autodefend"} THEN "DEFEND self" ELSE "IDLE"

\* Mutant: the intention is stored with its target.
IntentionWithTarget(k) == GoalOf(k)
IntentionOf(k) == IF k \in {"follow", "stop"} THEN GoalOf(k) ELSE "DEFEND"

\* Mutant: the intention is set by commands alone, not by the self-defence.
SetsIntentionByCommand(k) == k \in Standing \ {"autodefend"}
SetsIntention(k) == k \in Standing

\* Where the task is once its send has returned: a query waits for the reply.
AfterSend(k) == IF k \in {"query", "runtest"} THEN "waiting" ELSE "done"

Becomes(t, s) == status' = [status EXCEPT ![t] = s]

\* The mutex is the task's: it writes, and may suspend in the drain.
Writes(t, k) ==
    /\ \/ Becomes(t, "sending") /\ holder' = t
       \/ Becomes(t, AfterSend(k)) /\ UNCHANGED holder
    /\ modGoal' = IF k \in Standing \cup {"reset"} THEN GoalOf(k) ELSE modGoal
    /\ lost' = (lost /\ ordered' # t)
    /\ replaced' = IF k = "reset" THEN replaced \/ intention # "IDLE"
                   ELSE replaced /\ k \notin Standing

\* bridge._send: takes the connection's mutex or gets in line for it, drops the
\* order when there is no connection, raises when that is closed and not cleared.
Send(t, k) ==
    /\ UNCHANGED link
    /\ \/ /\ link = "up" /\ holder = None /\ line = {}
          /\ Writes(t, k)
          /\ UNCHANGED <<line, ahead>>
       \/ /\ link = "up" /\ ~(holder = None /\ line = {})
          /\ Becomes(t, "queued")
          /\ line' = line \cup {t}
          /\ ahead' = [ahead EXCEPT ![t] = line]
          /\ UNCHANGED <<holder, given, lost>>
       \/ /\ link # "up"
          /\ Becomes(t, IF link = "down" THEN AfterSend(k) ELSE "done")
          /\ lost' = (lost \/ k \in Standing)
          /\ UNCHANGED <<mutex, given>>

\* The first step runs up to the send: set_intention, then bridge._send.
FirstStep(t) ==
    /\ status[t] = "created"
    /\ kind[t] # "noise"
    /\ intention' = IF SetsIntention(kind[t]) THEN IntentionOf(kind[t]) ELSE intention
    /\ ordered' = IF SetsIntention(kind[t]) THEN t ELSE ordered
    /\ Send(t, kind[t])
    /\ UNCHANGED <<reader, read, queue, processed, run, current, kind, ownName, newest, echoed>>

\* A line with no known command: no handler, at most a reply in the chat queue.
NothingToRun(t) ==
    /\ status[t] = "created"
    /\ kind[t] = "noise"
    /\ Becomes(t, "done")
    /\ UNCHANGED <<reader, read, queue, processed, run, current, kind, ownName,
                   goal, mod, newest, echoed>>

\* The first in line gets the mutex.
GetsTurn(t) ==
    /\ status[t] = "queued"
    /\ t \in line /\ ahead[t] = {} /\ holder = None
    /\ UNCHANGED goal
    /\ Writes(t, kind[t])
    /\ LeavesLine({t})
    /\ UNCHANGED <<reader, read, queue, processed, run, current, kind, ownName, link,
                   newest, echoed>>

\* The connection closed while the task was in line: its send raises, and the
\* registry turns the exception into a reply.
LosesTurn(t) ==
    /\ status[t] = "queued"
    /\ t \notin line
    /\ Becomes(t, "done")
    /\ UNCHANGED <<reader, read, queue, processed, run, current, kind, ownName,
                   goal, mod, newest, echoed>>

Released(t) == IF holder = t THEN None ELSE holder

\* A suspended send returns, or raises because its connection was lost.
SendEnds(t) ==
    /\ status[t] = "sending"
    /\ \/ Becomes(t, AfterSend(kind[t]))
       \/ holder # t /\ Becomes(t, "done")
    /\ holder' = Released(t)
    /\ UNCHANGED <<reader, read, queue, processed, run, current, kind, ownName, goal,
                   link, line, ahead, given, lost, newest, echoed>>

\* A wait ends with the reply.
TakesReply(t) ==
    /\ status[t] = "answered"
    /\ kind[t] # "runtest"
    /\ Becomes(t, "done")
    /\ UNCHANGED <<reader, read, queue, processed, run, current, kind, ownName,
                   goal, mod, newest, echoed>>

\* The setup of a test sends the mod a stop of its own, past the intention.
ResetToIdle(t) ==
    /\ status[t] = "answered"
    /\ kind[t] = "runtest"
    /\ kind' = [kind EXCEPT ![t] = "reset"]
    /\ UNCHANGED goal
    /\ Send(t, "reset")
    /\ UNCHANGED <<reader, read, queue, processed, run, current, ownName, newest, echoed>>

TimesOut(t) ==
    /\ status[t] = "waiting"
    /\ Becomes(t, "done")
    /\ UNCHANGED <<reader, read, queue, processed, run, current, kind, ownName,
                   goal, mod, newest, echoed>>

\* CancelledError passes through dispatch_chat's `except Exception' and gives up the
\* mutex on its way.  What a finally of the handler goes on to do is in TestRuns.
Unwind(t) ==
    /\ status[t] = "cancelled"
    /\ Becomes(t, "done")
    /\ holder' = Released(t)
    /\ UNCHANGED <<reader, read, queue, processed, run, current, kind, ownName, goal,
                   link, line, ahead, given, lost, newest, echoed>>

\* The chat drain or a keepalive ping has the mutex for a while.
OthersSend ==
    /\ \/ link = "up" /\ holder = None /\ holder' = Other
       \/ holder = Other /\ holder' = None
    /\ UNCHANGED <<reader, read, queue, processed, run, tasks, ownName, goal,
                   link, line, ahead, given, lost, newest, echoed>>

\* The connection as ModBridge models it; with it goes the mutex.
LinkChanges ==
    /\ \/ /\ link = "up" /\ link' = "closing"
          /\ holder' = None
          /\ LeavesLine(line)
          /\ lost' = (lost \/ \E t \in line : kind[t] \in Standing)
       \/ /\ link = "closing" /\ link' \in {"down", "up"}
          /\ UNCHANGED <<mutex, lost>>
       \/ /\ link = "down" /\ link' = "up"
          /\ UNCHANGED <<mutex, lost>>
    /\ UNCHANGED <<reader, read, queue, processed, run, tasks, ownName, goal, given,
                   newest, echoed>>

-----------------------------------------------------------------------------

Next ==
    \/ \E e \in Traffic : ReadQueued(e)
    \/ ReadPosition \/ ReadReply \/ ReaderStops
    \/ ProcessEvent
    \/ EndOfStream \/ LastCommandDone \/ Interrupted
    \/ \E t \in Task : \/ FirstStep(t) \/ NothingToRun(t) \/ GetsTurn(t) \/ LosesTurn(t)
                       \/ SendEnds(t) \/ TakesReply(t) \/ ResetToIdle(t)
                       \/ TimesOut(t) \/ Unwind(t)
    \/ OthersSend \/ LinkChanges

Safety == Init /\ [][Next]_vars

\* The event loop runs what is ready.  Nothing says a command ever finishes.
Fairness ==
    /\ WF_vars(ProcessEvent)
    /\ WF_vars(EndOfStream)
    /\ WF_vars(\E t \in Task : FirstStep(t) \/ NothingToRun(t))

Spec == Safety /\ Fairness

-----------------------------------------------------------------------------

\* The newest line wins, and only it: no task of a chat line but the tracked one
\* goes on, and until an own line was taken for a player's the tracked one is that
\* of the last line a player typed, a command or not, which nothing but the end of
\* run() cancels -- no system message, no hit, and no line of the bot's own.
NewestLineWins ==
    /\ \A t \in Task : kind[t] # "autodefend" /\ Live(t) => t = current
    /\ ~echoed =>
         /\ current = newest
         /\ newest # None /\ run # "interrupted"
              => status[newest] # "cancelled"

\* Self-defence never takes the mod off a player it was told to defend: with no
\* standing order lost, only a player's bare !defend does, whatever waited for the
\* mutex when the hit came.
DefenceKeepsItsPlayer ==
    [][modGoal = "DEFEND other" /\ modGoal' = "DEFEND self" /\ ~lost
         => \E t \in Task : kind[t] = "defend self" /\ status'[t] # status[t]]_vars

\* The intention that matches the mod's standing goal.
Matching == IF modGoal \in {"IDLE", "FOLLOW"} THEN modGoal ELSE "DEFEND"

\* The order of the intention is still in line for the mutex.
Pending == ordered \in line

\* The intention agrees with the last standing goal the mod was given, unless its
\* order is still in line, one was lost -- dropped, cancelled or closed in line, its
\* send raised -- or a test reset the mod since: orders reach the mod in the order
\* in which they set the intention.
InSyncUnlessLost == lost \/ replaced \/ Pending \/ intention = Matching

\* run() never ends on its own while an event that was read is unprocessed or
\* the last command is unfinished; interrupted, it leaves no command running.
EndsInOrder ==
    [][/\ run # "over" /\ run' = "over" =>
            queue = <<>> /\ reader # "running" /\ (current = None \/ status[current] = "done")
       /\ run' = "interrupted" => current = None \/ ~Live(current)']_vars

\* Whatever the commands are waiting for, every event that is read gets processed.
EventsGetProcessed == (queue # <<>>) ~> (queue = <<>> \/ run = "interrupted")

\* The docstring of player_intention.py: reading the intention "is always in sync
\* with whatever was last actually sent to the mod" -- once it is not in line any more.
IntentionInSync == Pending \/ intention = Matching

\* The docstring of self_defense.py: follow, stop and defend set the intention "as
\* part of the very call that also sends the real wire command", so the pairing
\* "can't drift" -- as long as nothing is dropped, closed or cancelled on the way.
PairingHolds == lost \/ Pending \/ intention = Matching

\* The comment in run(): an in-flight command is waited out on a graceful end of
\* the stream, and cancelled when the reader crashes.
CrashIsNotWaitedOut == ~(run = "finishing" /\ reader = "crashed" /\ Live(current))
=============================================================================
