# Verification of minebot-backend

TLA+ models of the Python backend in `src/minebot`, the TLC runs that check
them on small instances, and TLAPS proofs that hold for every value of the
constants. `PROJECT.json` lists the components, the runs, one mutant per checked
property, the source lines each definition stands for, the hazards, the findings
and the theorems.

    tlc -workers 2 -config MC_ModBridge.cfg MC_ModBridge.tla
    tlapm ModBridgeProofs.tla

## The system

The backend is one asyncio process that drives one Minecraft client mod over a
WebSocket. There are no threads: two coroutines interleave exactly at their
`await`s, and the models have one action per stretch of code between two awaits.

| Component | State | Operations | Talks to |
|---|---|---|---|
| `bridge/client.py` ModBridge | `_connection`, `_connected`, chat queue, drain task | `connect`, `_on_connection`, `events`, `_send`, `send_*`, `_drain_chat_queue`, `close` | the mod; every sender; the run loop reads `events()` |
| `bot/run_loop.py` | event queue, reader task, `current_command_task` | `_read_events`, `run`, `_dispatch_chat_command`, `_handle_chat` | trackers (called), commands (tasks), self-defence (called) |
| `bot/movement.py`, `combat.py`, `player_intention.py`, `self_defense.py` | the intention | follow, stop, defend, the trigger on damage | ModBridge |
| `bridge/query.py`, `bot/query.py` | one future, `_next_result` | `wait_for_next`, `handle_event` | the reader resolves, commands wait |
| `testing/runner.py`, `bot/testing.py` | locals of a run; the world | `TestRunner.run`, `run_test_case` | a command task like any other; queries; replay files |
| `testing/actions.py` | locals of a primitive, listeners | goto and its variants, `count_jumps`, `query`, `wait_for_gamemode`, `place_schematic`, `clear_schematic` | ModBridge, position tracker, query tracker |
| `bridge/entities.py`, `inventory.py`, `self_position.py` | mirrors of what the mod reports | `handle_event`, lookups, listeners | fed by the reader; read by commands |
| `bot/inventory.py`, `inventory_announcer.py` | none of their own | `give`; one chat line per gain | inventory tracker, ModBridge |
| `actions/*`, `llm/*` | the registry, fixed at start-up | `parse_command`, `execute`, `call`, `should_trigger_llm`, the controller's turn | the run loop hands in a line; handlers are called, replies go to ModBridge |
| `bridge/observer.py` | watching connections | `broadcast`, `_send_one`, joining and leaving, `close` | shown every message by ModBridge; closed by `main.py` after it |
| `testing/litematic.py` | none | reads a schematic | the test setup |
| `testing/tests.py` | the registered tests | shared setups and teardowns | the primitives |
| `bot/help.py`, `testing/replay.py`, `config.py`, `main.py`, ... | little or none | formatting, files, wiring | |

What is hard here, and what correctness means for each part:

* **Bridge.** A mod that reconnects creates a second connection while the handler
  of the first has not returned. The stored connection must be the newest, the
  reader must come to it, must never re-read a finished one, and must lose
  nothing of a connection it reads. Chat goes out in order and spaced apart.
* **Run loop.** Any line a player types, ordinary chat included, cancels the
  command before it at whichever await that stands, before it is even parsed; a
  system message, a hit or a line of the bot's own must not. Replies must be read
  while a command waits for them; the end of the stream must not drop what is queued.
* **Intention.** Set in Python, sent to the mod: two copies of one fact. In between
  the send may wait for the connection's mutex behind other senders, and be cancelled
  there.
* **Queries.** Replies have no identity, and one future serves every caller.
* **Test runs.** A run cancelled at any await still has a gamemode to restore, a
  footprint to clear and a replay to write, next to the run that replaced it.
* **Trackers.** Mirrors fed by events that omit fields, overlap, or get lost.
* **Schematics.** Bit widths, word borders, run merging, the far corner.
* **A line of chat.** Words that start like something else, several commands in a
  line, calls that fail one by one, a reply whatever happens.
* **Audience.** Any number of clients watch the traffic; none may hold it up.
* **Where a test starts.** Teleports land late and positions are reported late.

## Modules

| Module | Models | Correspondence |
|---|---|---|
| `ChatChannel` | abstract: what the chat queue promises | `pending`, `wire`; a message may be lost only while the mod is not `up` |
| `ModBridge` | client.py | `connection`, `connected`, `queue` are the attributes of the same name; `drain`, `reader`, `closer` say at which await the three coroutines stand; `link`, `inbox`, `sent` are the transport; `visited`, `yielded` are histories |
| `Session` | `ModBridge` with observer.py, the commands that bypass the chat queue, and the teardown order of main.py | `watch`, `outbox` are a watcher's connection and its unfinished `_send_one` tasks; `feed`, `seen`, `since` are histories |
| `RunLoop` | run_loop.py, the standing orders, self-defence, the awaits of `!query` and `!runtest` | `kind` and `status` of every command task; `holder`, `line`, `ahead` are the mutex of the connection, which every send takes before it writes; `modGoal` is what the mod was last told |
| `Commands` | parser.py, registry.py, trigger.py, controller.py, `_handle_chat` | a line is a sequence of atoms; `phase` is the step its handling is at |
| `QueryExchange` | query.py, `actions.query` | `slot` is the future in the tracker's one slot, `value` what the future of each query holds: a caller awaits its own, in the slot or not; `pc` is where each caller waits |
| `TestRuns` | runner.py, `wait_for_gamemode`, the shared setup and teardown | `pc[r]` is where `!runtest` number r is suspended; `mode`, `changes`, `blocks` are the game |
| `Arrival` | `reset_to_idle`, `teleport`, `query_position`, `wait_for_position`, `goto`, put together by the setups of tests.py | `pc` is where the test is suspended; `orders`, `wire`, `landing`, `reported` are what is under way |
| `Walk` | self_position.py, the walking primitives | positions in space, in a unit that makes coordinates and radius whole; `Crosses` is `_segment_hits_sphere` with squared distances; listeners called per broadcast |
| `Entities` | entities.py | `by_id`, `name_to_id` |
| `Inventory` | inventory.py (both), inventory_announcer.py | `by_slot`, `previous`, `current`, `seen_first` |
| `BlockStates` | `_bits_per_entry`, `_unpack_block_states` | `ReadEntry` is one turn of the loop |
| `Schematic` | `from_file`'s choice of blocks, `_fill_runs`, `place_schematic`, `clear_schematic` | `runs` are the /fill commands left to send |
| `ModBridgeProofs`, `SessionProofs`, `RunLoopProofs`, `TestRunsProofs`, `QueryExchangeProofs`, `EntitiesProofs` | theorems about the module each is named after | |
| `RequestsProofs`, `WorldProofs` | theorems about the parts of `MC_Requests` and of `MC_World` | a theorem of another module is taken over through an instance of it |
| `MC_ModBridge`, `MC_Session`, `MC_RunLoop` | small instances | |
| `MC_Requests` | what a line of chat sets off: `QueryExchange`, `Commands`, `TestRuns`, `Schematic`, `BlockStates` | `about` says which |
| `MC_World` | what watches and moves the bot: `TestRuns`, `Entities`, `Inventory`, `Walk`, `Arrival` | `about` says which |

The parts of `MC_Requests` and of `MC_World` share no variable. A behaviour
exercises one of them while the others stand still: an interleaving of
independent parts violates a property of one part only if that part alone does.

`Session` composes two components: every step of `ModBridge` is one of its own,
and those that send or receive also broadcast. `Arrival` composes the position
tracker, the query exchange and the setups: orders and broadcasts share the wire,
so a reply can overtake the broadcast of the very teleport it confirms.

`QueryExchange` and `TestRuns` look at two sides of a superseded `!runtest`.
`QueryExchange` has two callers because the `finally` of a cancelled run still
queries while the next command runs. `TestRuns` answers a gamemode query with the
mode of the moment, or never: that a late or another caller's reply may be taken
for it is the subject of `QueryExchange` and not repeated there.

## Runs

| Run | Question | Bounds | Why they are enough |
|---|---|---|---|
| `bridge` | connections, reading, chat, closing; the refinement of `ChatChannel` | 3 connections, 2 messages on the second (one malformed) and 1 on the others, 2 chat lines | an old, a current and a skipped connection; a message behind another on the connection that both replaces and is replaced; one line waiting behind another |
| `bridge_drain_dies` | finding 1 | 1 connection, 1 chat line, no messages | |
| `session` | what watchers see, and that none holds anything up | 1 connection, 1 message, 1 chat line, 1 direct command, 2 watchers | one watcher that hangs beside one that reads, one that joins late or comes back; a message of each origin, in every order |
| `loop` | supersession, intention, self-defence, end, progress | 3 events of every kind that is queued, every command but `!kill` (one send, as a query begins with); an own line holds `!follow` or no command | the property that needs most takes an order, a hit and a newer order; two orders in line for the mutex behind a third sender |
| `loop_intention_off` | finding 2 | 2 events | |
| `requests` | a line of chat; a `!runtest` ends; schematics; queries | lines of up to 4 atoms, `!query` with up to 4 more, 3 plans of a provider; 1 run of 2 tests; 3x1x2 cells, 2 orientations of one block; words of 8 bits, 5 entries, palettes to 5; 4 queries, 2 callers | a word that is cut, a quote that is not closed, two commands in a line; a test that fails before another; rows that merge, break and end; entries of 2 and 3 bits straddle an 8-bit word; a late reply, its victim, and the victim's own reply to the next |
| `names_split` | finding 6 | the same lines, the other parts idle | |
| `query_stale` | finding 3 | 1 caller, 2 queries | |
| `world` | mirrors, listeners, `!give`; where a test starts; two runs | 6 entity events, 3 ids, 2 players; 3 snapshots, 2 slots, 2 items; 1 walk of 4 position samples, in the air or not, at 5 spots before, behind, above, beside and inside a waypoint's sphere; 2 tests of either kind, 3 position queries, 1 loss; 2 runs, 1 test each | a respawn takes four entity events; a gain, an unrelated change and a `!give`; an excursion with a landing, a way through the sphere between two samples and one past it; a test in the place the one before it left; a run that supersedes another at each of its awaits |
| `tests_cut_short`, `tests_replay` | findings 4 and 5 | 2 runs, 1 run, 1 test each | |
| `stale_arrival` | finding 7 | 2 goto tests, 2 queries, nothing lost | |

Every property of a passing run has a mutant in `PROJECT.json`: the definition a
plausible bug would change, with which TLC finds the property violated. The
mutated forms stand before the definitions they change, marked `Mutant`.

`CHECK_DEADLOCK FALSE` is set everywhere: inputs are bounded, and the system ends
(after `close()`, at the end of the stream, when the last test is over).

### Fairness

Liveness is checked only where the scheduling justifies it.

* `ModBridge`: the event loop resumes every ready coroutine (weak fairness on the
  reader, the drain task, `close()` and each handler), and a connection that has
  been replaced ends, because the mod holds one at a time and the server's
  keepalive closes a dead peer. No fairness on the mod sending, on the newest
  connection dropping, or on `close()` being called.
* `Session`: the same, and each `_send_one` of a watcher that reads and each
  handler of a watcher that is gone runs. Nothing makes a watcher join, leave or
  read, and one that hangs may hang for ever.
* `RunLoop`: the loop's own steps and the first step of a task, which the event
  loop runs since they are ready. Nothing says that a sender ever gives up the mutex
  or that a command finishes, so `EventsGetProcessed` holds though commands hang.
* `QueryExchange`: a suspended send ends, a timer fires. Not that the mod answers.
* `TestRuns`: timers, and the steps of the task. Not that the mod answers.

## What is proved

Every safety invariant and every action property that a passing run checks is a
theorem, checked by `tlapm` to the last leaf in eight modules, for every value of
the constants: any number of connections, messages, watchers, events, commands,
runs, tests, queries, callers, players, slots, positions anywhere in space; lines of
any length, any registered actions and plans; any size of a schematic, any width of
a word. What stays with TLC is liveness.

The proofs rest only on the assumptions the modules state on their constants. The
bounds are naturals. In `Entities` (`NamesAssumption`), each id belongs to one name,
and `Nobody` is neither a name nor an id. In `Inventory`, there are finitely many
slots and no item is the empty one. In `Schematic`, no side has length zero. In
`BlockStates`, a word has at least two bits and can tell all entries of a palette
apart: 64 bits in the code, and an entry that was wider than a word would lie in
three of them, which `_unpack_block_states` does not read. In `MC_Requests`
(`PartsAssumption`), lines are sequences of atoms, an action takes a natural number
of parameters, a plan is a sequence of names, and neither air nor a marker is a
blockstate that gets placed. `Safety` and `MCSafety`
are specifications without their fairness.

Almost none of the properties is inductive. What each argument needs besides:

* **`ModBridgeProofs`**: `TypeCorrect`, `NewestAlwaysKnown`
  (`NewestConnectionKnown`), `NeverReadTwice` (`VisitsForward`). A handler
  returning for an older connection preserves the first because `IsCurrent`
  compares identities, an arriving connection because of `Accepted`: a connection
  is unborn exactly when its number is above `opened`. `VisitsForward` needs
  `ReaderPlaced`: the last connection visited is `last`, and any other the reader
  can find is newer. `NothingLost` (`VisitedReadInFull`) adds that a connection
  which is closed and empty stays so, and that what a connection buffers is the
  rest of what was sent over it (`ReadInv`), so the oldest one buffered is the next
  one after those taken; `ClosesForGood` (`ClosedForGood`) adds what
  each stage of `close()` has achieved. `ChatImplementsChannel` is the refinement
  `Safety => ChatIsAChannel`: each action maps to one of `ChatChannel` or leaves
  its variables alone.
* **`SessionProofs`**: `AudienceChangesNothing`, `SessionSafety => Safety`: every
  step of a session is a step of the bridge or none, so the theorems above hold
  with any audience. `SessionTypeCorrect`, and `WatchersServed` (`ShownInFull`, the
  last conjunct of `WatchersSeeTheTraffic`): what a watcher was sent and what is
  left for it are the feed from where it joined. It needs `Bookkeeping`: a watcher
  that is gone has an empty account, one that is joined did so within the feed.
  `TrafficIsShown` (`WatchersSeeTheTraffic`) adds what the feed holds of each
  origin (`TrafficInv`): of a connection the messages yielded, of the chat the
  lines that left the queue, which are the lowest numbers posted
  (`QueueNumbered`), and as many commands as were sent. It uses the
  order in which the bridge reads (`ReadInOrder`), which any audience leaves as it is.
* **`RunLoopProofs`**: `TypeCorrect`, `NewestWins` (`NewestLineWins`),
  `IntentionFollows` (`InSyncUnlessLost`), `DefenceKept`
  (`DefenceKeepsItsPlayer`), `RunEndsInOrder` (`EndsInOrder`). The invariant says
  that tasks are named after processed events (`Counted`), that at most one waits
  for its first step, and that a self-defence among them was started under an
  intention that still stands (`FirstStepsOneByOne`). About the mutex it says that
  its line is one line (`LineInOrder`), that the order of the intention is the last
  standing order in it, or has left it and then none is left unless one was lost
  (`OrderedIsLast`), and that a self-defence in line finds no player defended when
  its turn comes (`DefenceWaits`).
* **`TestRunsProofs`**: `TypeCorrect`, `RunsTakeTurns` (`OneTestAtATime`),
  `TestsInSurvival` (`AloneInSurvival`), `ModeIsRestored` (`ModeComesBack`),
  `GroundIsCleared` (`ClearGround`), `VerdictsAgree` (`ReplayAgreesWithChat`). The
  turns need `Supersession`: while a run has not heard that it was told to stop,
  the one that replaced it has no answer to go on with. The gamemode needs
  `Modes`: for the newest run, if alone, what it may rely on at each await, and
  that every other run is over by then. The ground needs that standing blocks are
  those of the test somebody is in; a setup may have placed its blocks before it
  failed, was cut short or lost the connection.
* **`QueryExchangeProofs`**: `TypeCorrect`, `OwnReplyWhenAlone`
  (`AloneGetsOwnReply`), `GivenTheNextReply` (`VeryNextReply`). A query that has
  met no other is alone on its way, in the requests, the replies and the future.
  Queries are numbered as they are asked, so no two callers ask the same one
  (`Numbered`), and a future that is resolved holds the first reply since its caller
  began to wait, while the one in the slot is still open if none has come
  (`HoldsNext`).
* **`EntitiesProofs`**: `TypeCorrect` (a name never points to a forgotten
  entity, even after a loss; it needs that the two maps agree),
  `PlayersAreMirrored` (`MirrorsPlayers`), `PlayersAreFound`
  (`FoundUnlessOverlapped`). Both say something only once every event has been
  handled; the invariant `Ahead` says that the events on their way lead from what
  the tracker knows to what the mod has sent (`Leads`, by a witness for every
  position in the queue), and what find_by_name will give then.

* **`WorldProofs`**, over `MC_World`. `PlayersAreMirrored` and `PlayersAreFound`
  are those of `EntitiesProofs`, by instance. `WaypointsAreNoticed`
  (`HitsArePasses`): the test by projection and clamping finds a segment exactly when
  some point of it, among those that divide it into as many parts as its squared
  length, is within the radius (`CrossesIfPasses`; the nearest point is among them,
  `NearestOfMany`), and the last position seen is where the next segment starts.
  `JumpsAreCounted` (`JumpsAreExcursions`): the counter's two heights
  are those of the excursion that is open (`AloftSince`), and a landing closes
  exactly one. `TestsStartWhereTheySay` (`StartsWhereItSays`) is about places that
  flow: from the orders to the mod, to the server, to where the bot stands, to the
  wire. `Behind` says, for every stage of a setup, which places of an earlier test
  can no longer follow the one that was ordered (`NoneAfter`), `Confirming` that
  the reply to the latest query finds no order left before it. `GainsAreAnnounced`
  (`AnnouncesGains`) and `GivesWhatWasPicked` (`GivesOnlyPickups`): the totals
  per item are sums over the slots, and a sum does not depend on the order
  in which it is taken; what the tracker remembers is the last two snapshots
  (`Compared`). `PartsAreTyped` (`TypesOK`).
* **`RequestsProofs`**, over `MC_Requests`. `CallsAreAnswered`
  (`EveryCallAnswered`): at each phase of a line, what was said answers the
  outcomes so far (`CallsInv`). `WordsAreTheArguments` (`BindsTheWords`):
  `findall` and a player see the same words when all are plain.
  From the end of the text towards its start, what is found from a place on is one
  argument for each word from there on (`ArgsAreWords`); the step is that the token
  which starts where a word starts also ends there (`PlainWordsAreTokens`).
  `ScenariosArePlaced` (`PlacedAsDrawn`) and `ScenariosAreCleared`
  (`ClearedForTheNext`): the runs that `_fill_runs` folds a row into are drawn as
  the grid is and cover its blocks (`RowIsDrawn`, `FillRunsAreDrawn`); while runs
  are left, a cell that is not yet as drawn is empty and covered by one of them
  (`PlacingInv`). `IndicesReadBack` (`ReadsBack`): the packed grid is a string of
  bits, and shifts, masks and the join of two words are equations about the values
  its stretches spell (`ValuesSplit`, `ValuesDivide`); an entry lies in one word or
  in two neighbours (`EntryLiesIn`). `PartsAreTyped` (`TypesOK`), with
  `TestRunsProofs` by instance.

TLC checked the invariants of `TestRuns` and `QueryExchange` on small instances
before they were proved.

Folds, sums and recursive functions are reasoned about without the library's
induction theorems, which take an operator as a parameter. In their place stand
three statements about sets, proved once: a set of subsets of a finite set that
holds a set whenever it holds all smaller ones is the whole powerset
(`SubsetInduction`, from the well-foundedness of the strict subsets); the same for
`0..n` (`UpToInduction`) and for the naturals (`NatInductionOnSets`). That a
recursively defined function exists follows by extending its initial parts
(`FoldExists`, `SumsExist`, `RecursionExists`, `ArgsAreFound`).

Only model-checked is all liveness, which is out of the prover's reach:
`NewConnectionRead`, `ChatKeepsFlowing`, `CloseCompletes`, `StuckHoldsUpNobody`,
`EventsGetProcessed`, `QueriesEnd`, `RunsEnd`.

## Findings

Seven runs expect a violation: each states what a comment or docstring of the
source says and shows that the code does otherwise. In short (details and
quotations in `PROJECT.json`):

1. One raising `send` kills the chat drain task for good (client.py:338).
2. `PlayerIntention` can name an order the mod was never given (movement.py:52).
3. A late query reply answers the next query (query.py:48).
4. A superseded `!runtest` skips its teardown (runner.py:172).
5. The replay of a test that was cut short says "passed" (runner.py:182).
6. A name that starts with a digit, `true` or `false` is split (parser.py:23).
7. `goto` can arrive on the position of the test before it (actions.py:107).

The modules state further claims of comments that the code does not keep, each
refuted by TLC when listed in a cfg of the module. They belong to no standing run:
`NoEventStranded` (client.py:128; an unread connection that is replaced),
`CrashIsNotWaitedOut` (run_loop.py:101-106), `PairingHolds` (self_defense.py:15-18;
`reset_to_idle` goes past the controller, with nothing dropped and nothing in line),
`ModeAlwaysComesBack` and `SavesPlayersMode` (runner.py:257), `NeverMeansNever`
(actions.py:297-304), `GainFromTheGround` (actions.py:348) and `GivesLastPickup`
(bot/inventory.py:45-47).

## Not modelled

* The mod and the game, beyond what the backend's code assumes of them: they are
  external actions that send, answer, lose, delay. In particular the entity events
  of a respawn may come in either order. A message of the mod is a JSON object, or is
  spoiled; another JSON value would make `data.pop` raise in the reader
  (client.py:164), which `RunLoop` has among the ways the reader may crash.
* What cannot happen between two `await`s: `set_result` never raises
  InvalidStateError, as the guard before it (query.py:37) is evaluated in the same
  stretch.
* A bound on the suspended sends to a watcher that hangs: the code has none. Checked
  is that nothing waits for them.
* The NBT reader, replay frames, config, logging, timing, the wording of help,
  the version check, the schematic importer: formatting and I/O, without state
  that changes once the bot runs.
* The HTTP call of the LLM controller and the listing of replays: external.
* `assert_state` and `assert_jumps_done`: they compare what was returned.
* Entity ids that are used again after a server restart.
* A resynchronisation of the entity tracker after a lost connection: the code has
  none, so there is nothing to check.

## What is left

1. `RunLoop` fed by `Session`: a reconnect that meets a running command. Each is
   checked with the other as an environment that may do anything, which is weaker
   only for properties that relate a command to the connection it was sent on.
2. The claims of comments that the code keeps only in part (`NoEventStranded`,
   `PairingHolds`, ...) with the conditions under which it does, as theorems.
