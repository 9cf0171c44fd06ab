------------------------------- MODULE Arrival -------------------------------
(***************************************************************************)
(* Where a test starts and when its goto is over: reset_to_idle, teleport, *)
(* query_position, wait_for_position and goto of testing/actions.py, put   *)
(* together by the setups and teardowns of testing/tests.py.               *)
(*                                                                         *)
(* A teleport is confirmed by asking the mod; goto watches the positions   *)
(* the mod broadcasts.  Orders travel to the mod in order, and so do its   *)
(* broadcasts and replies back, but a teleport lands only some time after  *)
(* it was ordered, and a change of position is broadcast some time after   *)
(* it happened, at the latest before the next one.                         *)
(***************************************************************************)
EXTENDS Naturals, Sequences

CONSTANTS
    Kinds,      \* the kinds of test that are run, of "goto" and "schematic"
    MaxTests,   \* bound: tests run
    MaxAsked,   \* bound: position queries
    MaxLosses   \* bound: sends dropped, connections lost

\* Of the constants; an instance assumes it.
BoundsAssumption ==
    /\ Kinds \subseteq {"goto", "schematic"}
    /\ MaxTests \in Nat /\ MaxAsked \in Nat /\ MaxLosses \in Nat

Unknown == "unknown"
Places == {"origin", "target", "holding", "start", "end", "between"}

\* setup_goto teleports to ORIGIN, a schematic's setup to HOLDING and, when it is
\* placed, to the start marker.  No marker of the fixtures is at ORIGIN.
Stops(kind) == IF kind = "goto" THEN <<"origin">> ELSE <<"holding", "start">>
Goal(kind) == IF kind = "goto" THEN "target" ELSE "end"

VARIABLES
    \* the mod and the game
    place,      \* where the bot is
    heading,    \* where a goto sends it, Unknown when it stands idle
    landing,    \* teleports ordered and not yet executed by the server
    reported,   \* the last position the mod broadcast
    orders,     \* sent to the mod, not yet handled
    wire,       \* broadcasts and replies sent by the mod, not yet read
    \* the backend
    shown,      \* SelfPositionTracker.current
    pc,         \* where the test is suspended
    kind,       \* the test that runs
    stop,       \* its setup's teleport, as an index of Stops(kind)
    answer,     \* the reply the pending query got
    tests, asked, losses,   \* counters
    result,     \* of the last test: "none" | "passed" | "failed"
    \* history
    reached,    \* the bot was at the goal since the setup was done
    foreign,    \* the setup took the reply to an older query for its own
    moving,     \* the order to stop was lost
    abandoned   \* a teleport timed out or was cancelled before it was confirmed

game == <<place, heading, landing, reported>>
net == <<orders, wire, asked, losses>>
test == <<pc, kind, stop, answer, tests, result>>
history == <<reached, foreign, moving, abandoned>>
vars == <<game, net, shown, test, history>>

Order == [to : {"idle", "teleport", "goto"}, at : Places] \cup [to : {"query"}, id : 1..MaxAsked]
Report == [id : 0..MaxAsked, at : Places]   \* a broadcast has no query: id 0

TypeOK ==
    /\ place \in Places /\ reported \in Places
    /\ heading \in Places \cup {Unknown}
    /\ landing \in Seq(Places)
    /\ orders \in Seq(Order) /\ wire \in Seq(Report)
    /\ shown \in Places \cup {Unknown}
    /\ pc \in {"over", "resetting", "teleporting", "asking", "waiting", "ready", "walking",
               "nudging", "clearing"}
    /\ kind \in {"goto", "schematic"}
    /\ stop \in 1..2
    /\ answer \in Places \cup {Unknown}
    /\ tests \in 0..MaxTests /\ asked \in 0..MaxAsked /\ losses \in 0..MaxLosses
    /\ result \in {"none", "passed", "failed"}
    /\ {reached, foreign, moving, abandoned} \subseteq BOOLEAN

\* A world that was just joined: no position has been broadcast yet.
Init ==
    /\ place = "between" /\ heading = Unknown /\ landing = <<>> /\ reported = "between"
    /\ orders = <<>> /\ wire = <<[id |-> 0, at |-> "between"]>>
    /\ asked = 0 /\ losses = 0
    /\ shown = Unknown
    /\ pc = "over" /\ kind = "goto" /\ stop = 1 /\ answer = Unknown /\ tests = 0 /\ result = "none"
    /\ reached = FALSE /\ foreign = FALSE /\ moving = FALSE /\ abandoned = FALSE

-----------------------------------------------------------------------------
(* The mod and the game.                                                   *)

\* Every tick ends with a broadcast, unless the bot is where it was last reported.
Settled == place = reported

ModHandles ==
    /\ orders # <<>>
    /\ orders' = Tail(orders)
    /\ LET o == Head(orders) IN
          \/ /\ o.to \in {"idle", "goto"}
             /\ heading' = IF o.to = "goto" THEN o.at ELSE Unknown
             /\ UNCHANGED <<landing, wire>>
          \/ /\ o.to = "teleport"
             /\ landing' = Append(landing, o.at)
             /\ UNCHANGED <<heading, wire>>
          \/ /\ o.to = "query"
             /\ wire' = Append(wire, [id |-> o.id, at |-> place])
             /\ UNCHANGED <<heading, landing>>
    /\ UNCHANGED <<place, reported, asked, losses, shown, test, history>>

Moves(to) ==
    /\ Settled
    /\ place' = to
    /\ reached' = (reached \/ to = Goal(kind))
    /\ UNCHANGED <<reported, net, shown, test, foreign, moving, abandoned>>

TeleportLands ==
    /\ landing # <<>>
    /\ landing' = Tail(landing)
    /\ Moves(Head(landing))
    /\ UNCHANGED heading

BotWalks ==
    /\ heading # Unknown
    /\ place # heading
    /\ Moves(IF place = "between" THEN heading ELSE "between")
    /\ UNCHANGED <<heading, landing>>

ModBroadcasts ==
    /\ ~Settled
    /\ reported' = place
    /\ wire' = Append(wire, [id |-> 0, at |-> place])
    /\ UNCHANGED <<place, heading, landing, orders, asked, losses, shown, test, history>>

\* The connection is lost with everything under way on it.
ConnectionLost ==
    /\ losses < MaxLosses
    /\ losses' = losses + 1
    /\ orders' = <<>> /\ wire' = <<>>
    /\ moving' = (moving \/ \E i \in DOMAIN orders : orders[i].to = "idle")
    /\ UNCHANGED <<game, asked, shown, test, reached, foreign, abandoned>>

-----------------------------------------------------------------------------
(* The reader.  A reply is what the next query waits for, if any does.     *)

ReadPosition ==
    /\ wire # <<>> /\ Head(wire).id = 0
    /\ shown' = Head(wire).at
    /\ wire' = Tail(wire)
    /\ UNCHANGED <<game, orders, asked, losses, test, history>>

ReadReply ==
    /\ wire # <<>> /\ Head(wire).id # 0
    /\ wire' = Tail(wire)
    /\ LET taken == pc = "waiting" /\ answer = Unknown IN
          /\ answer' = IF taken THEN Head(wire).at ELSE answer
          /\ foreign' = (foreign \/ (taken /\ Head(wire).id # asked))
    /\ UNCHANGED <<game, orders, asked, losses, shown, pc, kind, stop, tests, result,
                   reached, moving, abandoned>>

-----------------------------------------------------------------------------
(* The test.                                                               *)

Delivered(o) == orders' = Append(orders, o) /\ UNCHANGED losses
Dropped == losses < MaxLosses /\ losses' = losses + 1 /\ UNCHANGED orders
Send(o) == Delivered(o) \/ Dropped

Begin(k) ==
    /\ pc = "over"
    /\ tests < MaxTests
    /\ tests' = tests + 1
    /\ kind' = k /\ stop' = 1 /\ pc' = "resetting" /\ result' = "none"
    /\ foreign' = FALSE
    /\ UNCHANGED <<game, net, shown, answer, reached, moving, abandoned>>

\* Mutant: a test's setup does not reset the mod first.
ResetsFirstNever == FALSE
ResetsFirst == TRUE

\* reset_to_idle: one send, nothing waits for it.
ResetToIdle ==
    /\ pc = "resetting"
    /\ pc' = "teleporting"
    /\ IF ResetsFirst
       THEN \/ Delivered([to |-> "idle", at |-> "between"]) /\ moving' = FALSE
            \/ Dropped /\ moving' = TRUE
       ELSE UNCHANGED <<orders, losses, moving>>
    /\ UNCHANGED <<game, wire, asked, shown, kind, stop, answer, tests, result,
                   reached, foreign, abandoned>>

SendTeleport ==
    /\ pc = "teleporting"
    /\ pc' = "asking"
    /\ Send([to |-> "teleport", at |-> Stops(kind)[stop]])
    /\ UNCHANGED <<game, wire, asked, shown, kind, stop, answer, tests, result, history>>

AskPosition ==
    /\ pc = "asking"
    /\ asked < MaxAsked
    /\ asked' = asked + 1
    /\ answer' = Unknown
    /\ pc' = "waiting"
    /\ Send([to |-> "query", id |-> asked + 1])
    /\ UNCHANGED <<game, wire, shown, kind, stop, tests, result, history>>

\* The position teleport compares with where it sent the bot.
Seen == answer

\* The poll read another position, or its query timed out: it asks again.
AskAgain ==
    /\ pc = "waiting"
    /\ Seen # Stops(kind)[stop]
    /\ pc' = "asking"
    /\ UNCHANGED <<game, net, shown, kind, stop, answer, tests, result, history>>

\* The bot is where it was sent: the schematic is placed, or the setup is done.
Confirmed ==
    /\ pc = "waiting"
    /\ Seen = Stops(kind)[stop]
    /\ IF stop < Len(Stops(kind))
       THEN pc' = "teleporting" /\ stop' = stop + 1 /\ UNCHANGED reached
       ELSE pc' = "ready" /\ reached' = FALSE /\ UNCHANGED stop
    /\ UNCHANGED <<game, net, shown, kind, answer, tests, result, foreign, moving, abandoned>>

\* wait_for_position returned, and goto sends its order.
SendGoto ==
    /\ pc = "ready"
    /\ shown # Unknown
    /\ pc' = "walking"
    /\ Send([to |-> "goto", at |-> Goal(kind)])
    /\ UNCHANGED <<game, wire, asked, shown, kind, stop, answer, tests, result, history>>

AfterTest == IF kind = "schematic" THEN "nudging" ELSE "over"

\* A poll finds the bot at the goal.
Arrive ==
    /\ pc = "walking"
    /\ shown = Goal(kind)
    /\ result' = "passed"
    /\ pc' = AfterTest
    /\ UNCHANGED <<game, net, shown, kind, stop, answer, tests, history>>

\* A timeout fails the test, a newer command cancels it without its teardown.
GiveUp ==
    /\ pc \in {"asking", "waiting", "ready", "walking"}
    /\ \/ result' = "failed" /\ pc' = AfterTest
       \/ pc' = "over" /\ UNCHANGED result
    /\ abandoned' = (abandoned \/ pc \in {"asking", "waiting"})
    /\ UNCHANGED <<game, net, shown, kind, stop, answer, tests, reached, foreign, moving>>

\* A schematic's teardown: stop, and before and after clearing a teleport to
\* HOLDING that nobody waits for.
Nudge ==
    /\ pc = "nudging"
    /\ pc' = "clearing"
    /\ \/ /\ orders' = orders \o <<[to |-> "idle", at |-> "between"],
                                   [to |-> "teleport", at |-> "holding"]>>
          /\ UNCHANGED losses
       \/ Dropped
    /\ UNCHANGED <<game, wire, asked, shown, kind, stop, answer, tests, result, history>>

NudgeAgain ==
    /\ pc = "clearing"
    /\ pc' = "over"
    /\ Send([to |-> "teleport", at |-> "holding"])
    /\ UNCHANGED <<game, wire, asked, shown, kind, stop, answer, tests, result, history>>

-----------------------------------------------------------------------------

Next ==
    \/ ModHandles \/ TeleportLands \/ BotWalks \/ ModBroadcasts \/ ConnectionLost
    \/ ReadPosition \/ ReadReply
    \/ \E k \in Kinds : Begin(k)
    \/ ResetToIdle \/ SendTeleport \/ AskPosition \/ AskAgain \/ Confirmed
    \/ SendGoto \/ Arrive \/ GiveUp \/ Nudge \/ NudgeAgain

Spec == Init /\ [][Next]_vars

-----------------------------------------------------------------------------

\* The comment at the top of tests.py: a test "starts from the exact same known
\* spot, regardless of what ran before it" -- a goto still going on, teleports of
\* an earlier teardown still to land.  It does, unless the order to stop was lost,
\* a teleport was given up while it was under way, or a late reply was mistaken
\* for the setup's own.
StartsWhereItSays ==
    pc = "ready" /\ ~moving /\ ~abandoned /\ ~foreign => place = Stops(kind)[stop]

\* The docstring of goto: it "waits for the bot's live (x, z)" to come close to the
\* target.  A walk that passed led the bot to the goal.
PassedMeansReached == result = "passed" => reached
=============================================================================
