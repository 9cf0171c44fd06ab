------------------------------ MODULE Schematic ------------------------------
(***************************************************************************)
(* A test's scenario on its way into the world and out again: what         *)
(* Schematic.from_file makes of a grid of palette indices, _fill_runs,     *)
(* place_schematic and clear_schematic of testing/actions.py.  /fill is    *)
(* Minecraft's; it skips the cell the bot stands in.                       *)
(***************************************************************************)
EXTENDS Naturals, Sequences, SequencesExt

CONSTANTS
    SizeX, SizeY, SizeZ,    \* bound: the grid's size
    Placeable,              \* blockstates that get placed, properties included
    Name(_)                 \* the block name of a blockstate, without properties

\* Of the constants; an instance assumes it.
SizeAssumption == SizeX \in Nat \ {0} /\ SizeY \in Nat \ {0} /\ SizeZ \in Nat \ {0}

Air == "air"
Wool == "wool"      \* any of the marker colours
Palette == Placeable \cup {Air, Wool}

\* Cells of the bounding box, (0, 0, 0)-based whatever the sign of the file's Size.
Cell == [x : 0..(SizeX - 1), y : 0..(SizeY - 1), z : 0..(SizeZ - 1)]
Outside == [x |-> SizeX, y |-> 0, z |-> 0]

VARIABLES
    grid,       \* what the author built: the entries of the block-state container
    runs,       \* the runs that are still to be sent as /fill commands
    world,      \* the bounding box in the world
    bot,        \* the cell the bot stands in, Outside when it is out of the way
    step        \* "placing" | "placed" | "cleared"

vars == <<grid, runs, world, bot, step>>

TypeOK ==
    /\ grid \in [0..(SizeX * SizeY * SizeZ - 1) -> Palette]
    /\ \A i \in DOMAIN runs : runs[i].x1 <= runs[i].x2 /\ runs[i].block \in Placeable
    /\ world \in [Cell -> Placeable \cup {Air}]
    /\ bot \in Cell \cup {Outside}
    /\ step \in {"placing", "placed", "cleared"}

-----------------------------------------------------------------------------
(* from_file                                                               *)

\* The container stores the grid layer by layer, each layer row by row.
Entry(c) == grid[c.y * SizeX * SizeZ + c.z * SizeX + c.x]

Blocks == {c \in Cell : Entry(c) \notin {Air, Wool}}

-----------------------------------------------------------------------------
(* _fill_runs: one (y, z) row at a time, each folded from left to right.   *)

Row(y, z) == [i \in 1..SizeX |-> [x |-> i - 1, y |-> y, z |-> z]]

Single(c) == [x1 |-> c.x, x2 |-> c.x, y |-> c.y, z |-> c.z, block |-> Entry(c)]

\* Mutant: cells of the same name are merged, whatever their properties.
ExtendsByName(run, c) == Name(run.block) = Name(Entry(c)) /\ c.x = run.x2 + 1
Extends(run, c) == run.block = Entry(c) /\ c.x = run.x2 + 1

\* The cells that are no block are passed over: by_row does not hold them.
AddCell(found, c) ==
    IF c \notin Blocks THEN found
    ELSE IF found # <<>> /\ Extends(Last(found), c)
    THEN [found EXCEPT ![Len(found)].x2 = c.x]
    ELSE Append(found, Single(c))

RunsOfRow(y, z) == FoldLeft(AddCell, <<>>, Row(y, z))

FillRuns ==
    LET Layer(y) == FoldLeft(LAMBDA s, z : s \o RunsOfRow(y, z), <<>>, [i \in 1..SizeZ |-> i - 1])
    IN  FoldLeft(LAMBDA s, y : s \o Layer(y), <<>>, [i \in 1..SizeY |-> i - 1])

-----------------------------------------------------------------------------

Init ==
    /\ grid \in [0..(SizeX * SizeY * SizeZ - 1) -> Palette]
    /\ runs = FillRuns
    /\ world = [c \in Cell |-> Air]
    /\ bot = Outside
    /\ step = "placing"

\* External: /fill over a box, which leaves the bot's own cell as it is.
Filled(box, block) == [c \in Cell |-> IF c \in box \ {bot} THEN block ELSE world[c]]

RunBox(r) == {c \in Cell : c.x \in r.x1..r.x2 /\ c.y = r.y /\ c.z = r.z}

\* place_schematic sends a command per run; the setup has moved the bot away.
PlaceRun ==
    /\ step = "placing"
    /\ runs # <<>>
    /\ world' = Filled(RunBox(Head(runs)), Head(runs).block)
    /\ runs' = Tail(runs)
    /\ UNCHANGED <<grid, bot, step>>

Placed ==
    /\ step = "placing"
    /\ runs = <<>>
    /\ step' = "placed"
    /\ UNCHANGED <<grid, runs, world, bot>>

\* The bot walks the scenario, or was carried back out of it.
BotMoves ==
    /\ step = "placed"
    /\ bot' \in Cell \cup {Outside}
    /\ UNCHANGED <<grid, runs, world, step>>

\* Mutant: the far corner is one short.
FarCornerShort == [x |-> SizeX - 2, y |-> SizeY - 1, z |-> SizeZ - 1]
FarCorner == [x |-> SizeX - 1, y |-> SizeY - 1, z |-> SizeZ - 1]

\* clear_schematic: one /fill with air from the anchor to the far corner.
Clear ==
    /\ step \in {"placing", "placed"}
    /\ world' = Filled({c \in Cell : c.x <= FarCorner.x /\ c.y <= FarCorner.y /\ c.z <= FarCorner.z}, Air)
    /\ step' = "cleared"
    /\ UNCHANGED <<grid, runs, bot>>

Next == PlaceRun \/ Placed \/ BotMoves \/ Clear

Spec == Init /\ [][Next]_vars

-----------------------------------------------------------------------------

\* The placed world is the scenario as drawn: every block where it was drawn and
\* with the properties it was drawn with, markers and air left empty.
PlacedAsDrawn ==
    step = "placed" => \A c \in Cell : world[c] = IF Entry(c) \in Placeable THEN Entry(c) ELSE Air

\* Clearing leaves nothing but what stands in the bot's own cell, at whatever
\* point of the placing or of the test it happens.
ClearedForTheNext ==
    step = "cleared" => \A c \in Cell : world[c] # Air => c = bot
=============================================================================
