------------------------------- MODULE TestRuns -------------------------------
(***************************************************************************)
(* !runtest: testing/runner.py with the primitives of testing/actions.py   *)
(* and the setups and teardowns of testing/tests.py.  A run saves the      *)
(* gamemode, switches to survival, runs its tests one after another and    *)
(* restores the gamemode in a finally.  A command typed meanwhile cancels  *)
(* it: the CancelledError passes through every `except Exception', and the *)
(* awaits of the finally go on next to the command that replaced it.       *)
(*                                                                         *)
(* A query returns a mode the mod has had since it was asked, or fails;    *)
(* what replies two runs may take from each other is QueryExchange's.      *)
(***************************************************************************)
EXTENDS Naturals, Sequences

CONSTANTS
    MaxRuns,    \* bound: !runtest commands typed
    Tests       \* the number of registered tests

ASSUME BoundsAssumption == MaxRuns \in Nat /\ Tests \in Nat

Run == 1..MaxRuns
Test == 1..Tests
None == 0
Mode == {"creative", "survival"}
Unknown == "unknown"

VARIABLES
    \* the game
    mode,       \* the bot's gamemode
    changes,    \* gamemode commands under way to the server
    blocks,     \* tests whose blocks stand in the one footprint all share
    \* the command tasks
    current,    \* the run that is the current command, None when another is
    told,       \* runs cancelled whose CancelledError is not delivered yet
    pc,         \* Run -> where the task is suspended
    answer,     \* Run -> the reply to its gamemode query
    saved,      \* Run -> original_gamemode
    last,       \* Run -> it runs the tests 1..last; none for an unknown name
    stops,      \* Run -> stop_on_first_failure
    test,       \* Run -> the test it is at
    failed,     \* Run -> setup or func of that test raised
    \* history
    replay,     \* Run -> the verdicts of the replays written
    said,       \* Run -> the verdicts sent to chat
    restored,   \* runs that sent their restoring command
    before,     \* Run -> the mode when it was typed
    shared,     \* runs that were not alone, or found a change under way
    unclean,    \* why blocks may be left: a teardown "failed", a run was "cut"
    dropped     \* a gamemode command was dropped for want of a connection

game == <<mode, changes, blocks>>
history == <<replay, said, restored, before, shared, unclean, dropped>>
vars == <<game, current, told, pc, answer, saved, last, stops, test, failed, history>>

TypeOK ==
    /\ mode \in Mode
    /\ changes \in Seq(Mode)
    /\ blocks \subseteq Test
    /\ current \in Run \cup {None}
    /\ told \subseteq Run
    /\ pc \in [Run -> {"none", "created", "saving", "switching", "setup", "testing",
                       "teardown", "cleared", "restoring", "over"}]
    /\ answer \in [Run -> Mode \cup {Unknown}]
    /\ saved \in [Run -> Mode \cup {Unknown}]
    /\ last \in [Run -> 0..Tests]
    /\ stops \in [Run -> BOOLEAN]
    /\ test \in [Run -> 0..Tests]
    /\ failed \in [Run -> BOOLEAN]
    /\ replay \in [Run -> Seq(BOOLEAN)]
    /\ said \in [Run -> Seq(BOOLEAN)]
    /\ restored \subseteq Run
    /\ before \in [Run -> Mode]
    /\ shared \subseteq Run
    /\ unclean \subseteq {"failed", "cut"}
    /\ dropped \in BOOLEAN

Init ==
    /\ mode = "creative"
    /\ changes = <<>>
    /\ blocks = {}
    /\ current = None
    /\ told = {}
    /\ pc = [r \in Run |-> "none"]
    /\ answer = [r \in Run |-> Unknown]
    /\ saved = [r \in Run |-> Unknown]
    /\ last = [r \in Run |-> 0]
    /\ stops = [r \in Run |-> TRUE]
    /\ test = [r \in Run |-> 0]
    /\ failed = [r \in Run |-> FALSE]
    /\ replay = [r \in Run |-> <<>>]
    /\ said = [r \in Run |-> <<>>]
    /\ restored = {}
    /\ before = [r \in Run |-> mode]
    /\ shared = {}
    /\ unclean = {}
    /\ dropped = FALSE

-----------------------------------------------------------------------------
(* The player, and the command dispatch of the run loop.                   *)

Typed == {r \in Run : pc[r] # "none"}
AtWork == {r \in Typed : pc[r] # "over"}

\* Mutant: the run that is superseded is not cancelled.
ToldForgotten == told
\* current_command_task.cancel(), unless it is done.
Told == told \cup ({current} \cap AtWork)

\* !runtest [name] [stop_on_first_failure]
TypeRun(r) ==
    /\ pc[r] = "none"
    /\ \A q \in Run : q < r => pc[q] # "none"
    /\ told' = Told
    /\ current' = r
    /\ pc' = [pc EXCEPT ![r] = "created"]
    /\ \E n \in 0..Tests : last' = [last EXCEPT ![r] = n]
    /\ \E b \in BOOLEAN : stops' = [stops EXCEPT ![r] = b]
    /\ before' = [before EXCEPT ![r] = mode]
    /\ shared' = IF AtWork = {} /\ changes = <<>> THEN shared ELSE shared \cup AtWork \cup {r}
    /\ UNCHANGED <<game, answer, saved, test, failed, replay, said, restored, unclean, dropped>>

TypeOther ==
    /\ current # None
    /\ told' = Told
    /\ current' = None
    /\ UNCHANGED <<game, pc, answer, saved, last, stops, test, failed, history>>

-----------------------------------------------------------------------------
(* Gamemode: query("gamemode") and wait_for_gamemode.                      *)

Awake(r, where) == r \notin told /\ pc[r] = where

\* send_gamemode(m): fire and forget; without a connection it is dropped.
SendGamemode(m) ==
    \/ changes' = Append(changes, m) /\ UNCHANGED dropped
    \/ dropped' = TRUE /\ UNCHANGED changes

\* The server executes the command some time after it was sent.
ModeLands ==
    /\ changes # <<>>
    /\ mode' = Head(changes)
    /\ changes' = Tail(changes)
    /\ UNCHANGED <<blocks, current, told, pc, answer, saved, last, stops, test, failed, history>>

AskMode(r) ==
    /\ Awake(r, "created")
    /\ pc' = [pc EXCEPT ![r] = "saving"]
    /\ UNCHANGED <<game, current, told, answer, saved, last, stops, test, failed, history>>

Querying == {r \in Run : pc[r] \in {"saving", "switching", "restoring"}}

\* A cancellation is delivered in a few turns of the event loop, before an answer
\* has come over the network.
ModAnswers(r) ==
    /\ told = {}
    /\ r \in Querying
    /\ answer[r] = Unknown
    /\ answer' = [answer EXCEPT ![r] = mode]
    /\ UNCHANGED <<game, current, told, pc, saved, last, stops, test, failed, history>>

SwitchToSurvival(r) ==
    /\ Awake(r, "saving")
    /\ answer[r] # Unknown
    /\ saved' = [saved EXCEPT ![r] = answer[r]]
    /\ answer' = [answer EXCEPT ![r] = Unknown]
    /\ pc' = [pc EXCEPT ![r] = "switching"]
    /\ SendGamemode("survival")
    /\ UNCHANGED <<mode, blocks, current, told, last, stops, test, failed,
                   replay, said, restored, before, shared, unclean>>

\* The mode the poll of wait_for_gamemode waits for.
Awaited(r) == IF pc[r] = "switching" THEN "survival" ELSE saved[r]

\* The poll read another mode: it sleeps and asks again.
PollAgain(r) ==
    /\ r \in Querying \ told
    /\ pc[r] # "saving"
    /\ answer[r] \in Mode \ {Awaited(r)}
    /\ answer' = [answer EXCEPT ![r] = Unknown]
    /\ UNCHANGED <<game, current, told, pc, saved, last, stops, test, failed, history>>

\* Mutant: the poll has no timeout.
GivesUpNever(r) == r \in Querying /\ pc[r] = "saving"
GivesUp(r) == r \in Querying

\* A query times out or its send raises.  In "restoring" that is swallowed; in
\* "saving" and "switching", before the try, it ends the run.
GiveUp(r) ==
    /\ r \notin told
    /\ GivesUp(r)
    /\ pc' = [pc EXCEPT ![r] = "over"]
    /\ UNCHANGED <<game, current, told, answer, saved, last, stops, test, failed, history>>

-----------------------------------------------------------------------------
(* The tests of a run.                                                     *)

\* Mutant: the gamemode is restored in an `except Exception' and after the loop.
RestoresUnlessCut(r) == r \notin told
Restores(r) == TRUE

\* The finally of TestRunner.run, up to its first wait.
StartRestoring(r) ==
    /\ pc' = [pc EXCEPT ![r] = "restoring"]
    /\ answer' = [answer EXCEPT ![r] = Unknown]
    /\ IF Restores(r)
       THEN restored' = restored \cup {r} /\ SendGamemode(saved[r])
       ELSE UNCHANGED <<restored, changes, dropped>>
    /\ UNCHANGED <<test, failed>>

\* The for loop has a next test, the one it is at having passed or not.
AnotherTest(r, passed) == test[r] < last[r] /\ (passed \/ ~stops[r])

NextTest(r, passed) ==
    IF AnotherTest(r, passed)
    THEN /\ pc' = [pc EXCEPT ![r] = "setup"]
         /\ test' = [test EXCEPT ![r] = @ + 1]
         /\ failed' = [failed EXCEPT ![r] = FALSE]
         /\ answer' = [answer EXCEPT ![r] = Unknown]
         /\ UNCHANGED <<changes, restored, dropped>>
    ELSE StartRestoring(r)

\* Mutant: wait_for_gamemode returns on any answer.
ConfirmedByAny(r) == answer[r] # Unknown
Confirmed(r) == answer[r] = Awaited(r)

SurvivalConfirmed(r) ==
    /\ Awake(r, "switching")
    /\ Confirmed(r)
    /\ NextTest(r, TRUE)
    /\ UNCHANGED <<mode, blocks, current, told, saved, last, stops,
                   replay, said, before, shared, unclean>>

\* The ground once a setup has ended, however it ended: its schematic stands, or
\* its /fill was dropped or never reached.
Placed(r) == IF pc[r] = "setup" THEN {blocks, blocks \cup {test[r]}} ELSE {blocks}

SetupDone(r) ==
    /\ Awake(r, "setup")
    /\ pc' = [pc EXCEPT ![r] = "testing"]
    /\ blocks' \in Placed(r)
    /\ UNCHANGED <<mode, changes, current, told, answer, saved, last, stops, test, failed, history>>

\* Mutant: the teardown runs only after a test that passed.
AfterMainOnlyPassed(r, passed) == IF passed THEN "teardown" ELSE "cleared"
AfterMain(r, passed) == "teardown"

\* func returns, or setup or func raises or runs into timeout_seconds.
MainEnds(r) ==
    /\ r \notin told
    /\ \E passed \in BOOLEAN :
          /\ pc[r] = "testing" \/ (pc[r] = "setup" /\ ~passed)
          /\ failed' = [failed EXCEPT ![r] = ~passed]
          /\ pc' = [pc EXCEPT ![r] = AfterMain(r, passed)]
    /\ blocks' \in Placed(r)
    /\ UNCHANGED <<mode, changes, current, told, answer, saved, last, stops, test, history>>

\* clear_schematic: one /fill with air, which a lost connection drops.
Clear(r) ==
    /\ Awake(r, "teardown")
    /\ pc' = [pc EXCEPT ![r] = "cleared"]
    /\ \/ blocks' = blocks \ {test[r]} /\ UNCHANGED unclean
       \/ unclean' = unclean \cup {"failed"} /\ UNCHANGED blocks
    /\ UNCHANGED <<mode, changes, current, told, answer, saved, last, stops, test, failed,
                   replay, said, restored, before, shared, dropped>>

\* Mutant: the replay is not told of an exception the teardown raised.
ReplayPassedMainOnly(r, cleaned) == ~failed[r]
\* exc, in run_test_case...
ReplayPassed(r, cleaned) == ~failed[r] /\ cleaned
\* ...and in _run_one, which catches what run_test_case raises.
ChatPassed(r, cleaned) == ~failed[r] /\ cleaned

\* The teardown returned or raised: the replay is written, the outcome is queued
\* as a chat line and the run goes on to the next test.
TestEnds(r) ==
    /\ r \notin told
    /\ \E cleaned \in BOOLEAN :
          /\ pc[r] = "cleared" \/ (pc[r] = "teardown" /\ ~cleaned)
          /\ replay' = [replay EXCEPT ![r] = Append(@, ReplayPassed(r, cleaned))]
          /\ said' = [said EXCEPT ![r] = Append(@, ChatPassed(r, cleaned))]
          /\ NextTest(r, ChatPassed(r, cleaned))
    /\ unclean' = IF pc[r] = "teardown" THEN unclean \cup {"failed"} ELSE unclean
    /\ UNCHANGED <<mode, blocks, current, told, saved, last, stops, before, shared>>

\* wait_for_gamemode(original) returned.
RestoreConfirmed(r) ==
    /\ Awake(r, "restoring")
    /\ Confirmed(r)
    /\ pc' = [pc EXCEPT ![r] = "over"]
    /\ UNCHANGED <<game, current, told, answer, saved, last, stops, test, failed, history>>

-----------------------------------------------------------------------------
(* CancelledError is delivered.                                            *)

InTest(r) == pc[r] \in {"setup", "testing", "teardown", "cleared"}

\* In a test: no teardown runs, the finally of run_test_case writes the replay
\* with no exception recorded, and the finally of run() starts to restore.
UnwindTest(r) ==
    /\ r \in told
    /\ InTest(r)
    /\ told' = told \ {r}
    /\ replay' = [replay EXCEPT ![r] = Append(@, TRUE)]
    /\ unclean' = IF pc[r] = "cleared" THEN unclean ELSE unclean \cup {"cut"}
    /\ blocks' \in Placed(r)
    /\ StartRestoring(r)
    /\ UNCHANGED <<mode, current, saved, last, stops, said, before, shared>>

\* Before the try, or in the finally: the run is over.
UnwindOutside(r) ==
    /\ r \in told
    /\ ~InTest(r)
    /\ told' = told \ {r}
    /\ pc' = [pc EXCEPT ![r] = "over"]
    /\ UNCHANGED <<game, current, answer, saved, last, stops, test, failed, history>>

-----------------------------------------------------------------------------

Next ==
    \/ \E r \in Run :
          \/ TypeRun(r) \/ AskMode(r) \/ ModAnswers(r) \/ SwitchToSurvival(r)
          \/ PollAgain(r) \/ GiveUp(r) \/ SurvivalConfirmed(r) \/ SetupDone(r)
          \/ MainEnds(r) \/ Clear(r) \/ TestEnds(r) \/ RestoreConfirmed(r)
          \/ UnwindTest(r) \/ UnwindOutside(r)
    \/ TypeOther
    \/ ModeLands

Safety == Init /\ [][Next]_vars

\* A ready task runs, and every await of a run is bounded by a timeout.
Fairness ==
    \A r \in Run :
        /\ WF_vars(AskMode(r))
        /\ WF_vars(GiveUp(r))
        /\ WF_vars(MainEnds(r))
        /\ WF_vars(TestEnds(r))
        /\ WF_vars(UnwindTest(r) \/ UnwindOutside(r))

Spec == Safety /\ Fairness

-----------------------------------------------------------------------------

\* Two runs never drive the bot at once: a run that is in a test while another
\* is has been told to stop.
OneTestAtATime ==
    \A q, r \in Run : q # r /\ InTest(q) /\ InTest(r) => q \in told \/ r \in told

\* A run that was alone drives the bot in survival, whatever the delay between
\* a gamemode command and its effect.
AloneInSurvival ==
    \A r \in Run \ shared : InTest(r) => mode = "survival"

\* When the last run was alone and got past its switch, the gamemode comes back
\* to what it was, however the tests went and even if the run was cancelled.
ModeComesBack ==
    \A r \in Run \ shared :
        pc[r] = "over" /\ Typed = 1..r /\ (test[r] > 0 \/ r \in restored) /\ changes = <<>> /\ ~dropped
            => mode = before[r]

\* A test starts on clear ground unless a teardown failed or a run was cut short.
ClearGround ==
    \A r \in Run : pc[r] = "setup" /\ unclean = {} => blocks = {}

\* The replay of a test gives the verdict the chat line gives.
ReplayAgreesWithChat ==
    \A r \in Run : \A i \in DOMAIN said[r] : replay[r][i] = said[r][i]

\* Every !runtest ends, whatever the mod answers.
RunsEnd == \A r \in Run : pc[r] = "created" ~> pc[r] = "over"

\* The comment in TestRunner.run: gamemode is saved, switched and restored "around
\* the WHOLE run".
ModeAlwaysComesBack ==
    AtWork = {} /\ changes = <<>> /\ ~dropped => mode = "creative"

\* The same comment, of what is saved: the mode a run is to restore is the
\* player's, even when the run it replaced has sent that mode back and still
\* waits to see it confirmed.
SavesPlayersMode ==
    \A q, r \in Run :
        r = q + 1 /\ Typed = 1..r /\ saved[q] = "creative" /\ pc[q] = "restoring" /\ ~dropped
            => saved[r] \in {Unknown, "creative"}

\* The comment on SCHEMATIC_ANCHOR_X: teardown "always fully clears its footprint
\* before the NEXT test's setup ever places anything".
AlwaysClearGround ==
    \A r \in Run : pc[r] = "setup" /\ "failed" \notin unclean => blocks = {}

\* The docstring of _classify_outcome: a replay's verdict and the run's cannot
\* drift apart; a replay that says "passed" is of a test that passed.
PassedReplaysPassed ==
    \A r \in Run : \A i \in DOMAIN replay[r] :
        replay[r][i] => i \in DOMAIN said[r] /\ said[r][i]
=============================================================================
