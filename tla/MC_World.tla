------------------------------ MODULE MC_World ------------------------------
(* Small instances of what watches and moves the bot: the three trackers the *)
(* reader feeds, each with its listeners; where a test starts and arrives;   *)
(* and two overlapping runs of a test.  They share no variable, so a         *)
(* behaviour is about one of them (about) while the others stay as they were. *)
EXTENDS TestRuns, TLC

CONSTANTS
    steve, alex, nobody, Id, MaxEntityEvents,
    Slot, Item, MaxCount, MaxSnapshots, empty,
    Spots, Target, Tolerance, Centre, Radius, MinGain, MaxSamples, MaxWalks,
    Kinds, MaxTests, MaxAsked, MaxLosses

VARIABLES
    about,  \* "entities" | "inventory" | "walk" | "arrival" | "runs"
    seen, sent, events, emitted, by_id, name_to_id, overlap, lost,
    by_slot, inv_previous, inv_current, seen_first, announced, given, received,
    position, listeners, walk, outcome, walks, prev, hits,
    jumps, was_on_ground, liftoff_y, max_y, counting, tagging, trail,
    place, heading, landing, reported, orders, wire, shown, at, kind, stop, reply,
    tests, asked, losses, result, reached, foreign, moving, abandoned

players == <<seen, sent, events, emitted, by_id, name_to_id, overlap, lost>>
stacks == <<by_slot, inv_previous, inv_current, seen_first, announced, given, received>>
walking == <<position, listeners, walk, outcome, walks, prev, hits, jumps,
             was_on_ground, liftoff_y, max_y, counting, tagging, trail>>
arriving == <<place, heading, landing, reported, orders, wire, shown, at, kind, stop, reply,
              tests, asked, losses, result, reached, foreign, moving, abandoned>>

\* In half blocks: before a waypoint, behind it, above it, beside it and in its sphere.
MCSpots ==
    {[x |-> 1, y |-> 0, z |-> 1], [x |-> 5, y |-> 0, z |-> 1], [x |-> 3, y |-> 4, z |-> 1],
     [x |-> 3, y |-> 0, z |-> 4], [x |-> 3, y |-> 1, z |-> 1]}
MCTarget == [x |-> 5, y |-> 0, z |-> 1]
MCCentre == [x |-> 3, y |-> 1, z |-> 1]
MCNameOf == 1 :> steve @@ 2 :> steve @@ 3 :> alex

E == INSTANCE Entities WITH NameOf <- MCNameOf, Nobody <- nobody, MaxEvents <- MaxEntityEvents
I == INSTANCE Inventory WITH
        previous <- inv_previous, current <- inv_current, said <- announced, Nothing <- empty
W == INSTANCE Walk WITH current <- position
A == INSTANCE Arrival WITH pc <- at, answer <- reply

ASSUME PartsAssumption ==
    /\ E!NamesAssumption /\ W!WalkAssumption /\ A!BoundsAssumption
    /\ I!NothingAssumption /\ I!BoundsAssumption

\* A part that a behaviour is not about starts in one of its initial states.
MCInit ==
    /\ about \in {"entities", "inventory", "walk", "arrival", "runs"}
    /\ about # "walk" => position = W!Position(Target, TRUE)
    /\ E!Init /\ I!Init /\ W!Init /\ A!Init /\ Init

MCNext ==
    /\ UNCHANGED about
    /\ \/ about = "entities" /\ E!Next /\ UNCHANGED <<stacks, walking, arriving, vars>>
       \/ about = "inventory" /\ I!Next /\ UNCHANGED <<players, walking, arriving, vars>>
       \/ about = "walk" /\ W!Next /\ UNCHANGED <<players, stacks, arriving, vars>>
       \/ about = "arrival" /\ A!Next /\ UNCHANGED <<players, stacks, walking, vars>>
       \/ about = "runs" /\ Next /\ UNCHANGED <<players, stacks, walking, arriving>>

MCSpec ==
    MCInit /\ [][MCNext]_<<about, players, stacks, walking, arriving, vars>>

\* Each part is well-formed.
TypesOK ==
    /\ about = "entities" => E!TypeOK
    /\ about = "inventory" => I!TypeOK
    /\ about = "walk" => W!TypeOK
    /\ about = "arrival" => A!TypeOK
    /\ about = "runs" => TypeOK

\* The properties of the entity tracker.
MirrorsPlayers == about = "entities" => E!MirrorsPlayers
FoundUnlessOverlapped == about = "entities" => E!FoundUnlessOverlapped

\* The properties of the inventory tracker and its readers.
AnnouncesGains == about = "inventory" => I!AnnouncesGains
GivesOnlyPickups == I!GivesOnlyPickups

\* The properties of a walk and its listeners.
HitsArePasses == about = "walk" => W!HitsArePasses
JumpsAreExcursions == about = "walk" => W!JumpsAreExcursions

\* The property of a test's start.
StartsWhereItSays == about = "arrival" => A!StartsWhereItSays
=============================================================================
