----------------------------- MODULE MC_Requests -----------------------------
(* Small instances of what a player's line of chat sets off: what becomes of  *)
(* the line itself, one !runtest of two tests, the two halves of a test's     *)
(* schematic on its way into the world, and the queries of a running command  *)
(* next to those in the finally of the one it superseded.  They share no      *)
(* variable, so a behaviour is about one of them (about) while the others     *)
(* stay as they were.                                                         *)
EXTENDS QueryExchange, TLC

CONSTANTS
    newer, older, MaxRuns, Tests,
    SizeX, SizeY, SizeZ, WordBits, MaxPalette, Count,
    Lines, Actions, Plans, BotName, Placeable

VARIABLES
    about,      \* "line" | "run" | "placing" | "reading" | "queries"
    line, phase, plan, reply, bound, outcomes, answers,
    mode, changes, blocks, current, told, at, mode_answer, saved, last, stops, test,
    failed, replay, said, restored, before, not_alone, unclean, dropped,
    grid, runs, world, bot, step,
    palette, entries, long_array, indices

chat == <<line, phase, plan, reply, bound, outcomes, answers>>
testing == <<mode, changes, blocks, current, told, at, mode_answer, saved, last, stops,
             test, failed, replay, said, restored, before, not_alone, unclean, dropped>>
placing == <<grid, runs, world, bot, step>>
reading == <<palette, entries, long_array, indices>>

Callers == {newer, older}

MCActions ==
    [name \in {<<"follow">>, <<"query">>} |->
        IF name = <<"follow">> THEN [needs |-> 0, takes |-> 1] ELSE [needs |-> 1, takes |-> 4]]
UpTo(n, atoms) == UNION {[1..k -> atoms] : k \in 0..n}
MCLines ==
    {<<"!", "query", " ">> \o args :
        args \in UpTo(4, {"!", " ", "\"", "4", "true", "nan", "steve"})}
        \cup UpTo(4, {"!", " ", "follow", "query", "4", "minebot"})
\* The null provider's plan, a call, and a call of no action between two others.
MCPlans == {<<>>, << <<"follow">> >>, << <<"query">>, <<"fly">>, <<"follow">> >>}
MCPlaceable == {"stairs N", "stairs S"}
MCName(block) == "stairs"

C == INSTANCE Commands WITH said <- answers
T == INSTANCE TestRuns WITH pc <- at, answer <- mode_answer, shared <- not_alone
S == INSTANCE Schematic WITH Name <- MCName
B == INSTANCE BlockStates WITH result <- indices

\* Lines are made of atoms, an action declares how many parameters it has, and what
\* gets placed is neither air nor a marker.
ASSUME PartsAssumption ==
    /\ T!BoundsAssumption /\ S!SizeAssumption /\ B!BoundsAssumption
    /\ Lines \subseteq Seq(STRING)
    /\ \A name \in DOMAIN Actions : Actions[name].takes \in Nat
    /\ \A p \in Plans : p \in Seq(Seq(STRING))
    /\ S!Air \notin Placeable /\ S!Wool \notin Placeable

\* A part that a behaviour is not about starts in one of its initial states.
MCInit ==
    /\ about \in {"line", "run", "placing", "reading", "queries"}
    /\ about # "line" => line = <<>>
    /\ about # "placing" => grid = [i \in 0..(SizeX * SizeY * SizeZ - 1) |-> S!Air]
    /\ about # "reading" => palette = 1 /\ entries = [i \in 0..(Count - 1) |-> 0]
    /\ C!Init /\ T!Init /\ S!Init /\ B!Init /\ Init

MCNext ==
    /\ UNCHANGED about
    /\ \/ about = "line" /\ C!Next /\ UNCHANGED <<testing, placing, reading, vars>>
       \/ about = "run" /\ T!Next /\ UNCHANGED <<chat, placing, reading, vars>>
       \/ about = "placing" /\ S!Next /\ UNCHANGED <<chat, testing, reading, vars>>
       \/ about = "reading" /\ B!Next /\ UNCHANGED <<chat, testing, placing, vars>>
       \/ about = "queries" /\ Next /\ UNCHANGED <<chat, testing, placing, reading>>

MCSafety == MCInit /\ [][MCNext]_<<about, chat, testing, placing, reading, vars>>
MCSpec == MCSafety /\ T!Fairness /\ Fairness

\* Each part is well-formed.
TypesOK ==
    /\ about = "line" => C!TypeOK
    /\ about = "run" => T!TypeOK
    /\ about = "placing" => S!TypeOK
    /\ about = "reading" => B!TypeOK
    /\ about = "queries" => TypeOK

\* The properties of a line of chat.
BindsTheWords == about = "line" => C!BindsTheWords
EveryCallAnswered == about = "line" => C!EveryCallAnswered
NamesStayWhole == C!NamesStayWhole

\* The property of a run of the tests.
RunsEnd == T!RunsEnd

\* The properties of a schematic.
PlacedAsDrawn == about = "placing" => S!PlacedAsDrawn
ClearedForTheNext == about = "placing" => S!ClearedForTheNext
ReadsBack == about = "reading" => B!ReadsBack
=============================================================================
