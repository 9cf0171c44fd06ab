--------------------------------- MODULE Walk ---------------------------------
(***************************************************************************)
(* Tests watch the bot walk: goto, goto_with_waypoints,                    *)
(* assert_goto_never_arrives and count_jumps of testing/actions.py, on top *)
(* of SelfPositionTracker.  Arrival is polled from the tracker's latest    *)
(* position; waypoints and jumps are taken from every position, by         *)
(* listeners registered for the length of the walk.                        *)
(*                                                                         *)
(* A position is a spot in space and on_ground.  Coordinates are counted   *)
(* in a unit that makes them, the waypoint's block centre and its radius   *)
(* whole numbers, so distances are compared by their squares, exactly.     *)
(***************************************************************************)
EXTENDS Integers, Sequences, FiniteSets, FiniteSetsExt

CONSTANTS
    Spots,          \* where the bot can be when a position is broadcast
    Target,         \* the target of every goto
    Tolerance,      \* distance_tolerance
    Centre,         \* the centre of the waypoint's block
    Radius,         \* WAYPOINT_RADIUS
    MinGain,        \* JUMP_MIN_HEIGHT_GAIN
    MaxSamples,     \* bound: positions broadcast during one walk
    MaxWalks        \* bound: walks

Point == [x : Int, y : Nat, z : Int]

\* Of the constants; an instance assumes it.
WalkAssumption ==
    /\ Spots \subseteq Point /\ Target \in Point /\ Centre \in Point
    /\ Tolerance \in Nat /\ Radius \in Nat
    /\ MinGain \in Nat \ {0}
    /\ MaxSamples \in Nat /\ MaxWalks \in Nat

Position(p, ground) == [x |-> p.x, y |-> p.y, z |-> p.z, ground |-> ground]
Positions == {Position(p, ground) : p \in Spots, ground \in BOOLEAN}
None == [x |-> 0, y |-> -1, z |-> 0, ground |-> FALSE]
NoHeight == -1

VARIABLES
    current,    \* SelfPositionTracker._position
    listeners,  \* SelfPositionTracker._listeners: "waypoints", "jumps"
    walk,       \* "idle" | "goto" | "never" (assert_goto_never_arrives)
    outcome,    \* of the last walk: "none" | "passed" | "failed"
    walks,      \* walks begun
    prev,       \* prev_pos
    hits,       \* path_hits of the waypoint
    jumps, was_on_ground, liftoff_y, max_y,     \* locals of count_jumps
    counting,   \* history: this walk's jumps are (or were) counted
    tagging,    \* history: this walk's waypoint hits are (or were) counted
    trail       \* history: the positions broadcast during the walk

counters == <<jumps, was_on_ground, liftoff_y, max_y>>
vars == <<current, listeners, walk, outcome, walks, prev, hits, counters,
          counting, tagging, trail>>

TypeOK ==
    /\ current \in Positions
    /\ listeners \in SUBSET {"waypoints", "jumps"}
    /\ walk \in {"idle", "goto", "never"}
    /\ outcome \in {"none", "passed", "failed"}
    /\ walks \in 0..MaxWalks
    /\ prev \in Positions \union {None}
    /\ hits \in 0..MaxSamples
    /\ jumps \in 0..MaxSamples
    /\ was_on_ground \in BOOLEAN
    /\ liftoff_y \in {NoHeight} \union Nat
    /\ max_y \in {NoHeight} \union Nat
    /\ max_y >= liftoff_y /\ (max_y = NoHeight <=> liftoff_y = NoHeight)
    /\ trail \in Seq(Positions) /\ Len(trail) <= MaxSamples
    /\ counting \in BOOLEAN /\ tagging \in BOOLEAN

\* The tracker knows a position before the first walk is begun.
Init ==
    /\ current \in Positions
    /\ listeners = {}
    /\ walk = "idle"
    /\ outcome = "none"
    /\ walks = 0
    /\ prev = None
    /\ hits = 0
    /\ jumps = 0 /\ was_on_ground = TRUE
    /\ liftoff_y = NoHeight /\ max_y = NoHeight
    /\ counting = FALSE /\ tagging = FALSE
    /\ trail = <<>>

-----------------------------------------------------------------------------
(* The listeners.                                                          *)

Minus(p, q) == [x |-> p.x - q.x, y |-> p.y - q.y, z |-> p.z - q.z]
\* Mutant: heights are left out.
DotFlat(p, q) == p.x * q.x + p.z * q.z
Dot(p, q) == p.x * q.x + p.y * q.y + p.z * q.z

\* _segment_hits_sphere: the point of the segment that is nearest to the centre is
\* its start, its end, or where the centre projects to.
Crosses(start, end) ==
    LET seg == Minus(end, start)
        to_center == Minus(Centre, start)
        to_end == Minus(Centre, end)
        length == Dot(seg, seg)
        t == Dot(to_center, seg)
    IN  \/ t <= 0 /\ Dot(to_center, to_center) <= Radius * Radius
        \/ t > 0 /\ t >= length /\ Dot(to_end, to_end) <= Radius * Radius
        \/ /\ t > 0 /\ t < length
           /\ Dot(to_center, to_center) * length - t * t <= Radius * Radius * length

TagWaypoint(pos) ==
    /\ hits' = hits + (IF Crosses(IF prev = None THEN pos ELSE prev, pos) THEN 1 ELSE 0)
    /\ prev' = pos

\* The excursion that ends with this landing rose.
IsJump == liftoff_y # NoHeight /\ max_y - liftoff_y >= MinGain

\* Mutant: the maximum is left alone.
HighestFirst(pos) == max_y
Highest(pos) == Max({max_y, pos.y})

\* The three branches of count_jumps' listener, and none of them.
CountJump(pos) ==
    /\ was_on_ground' = pos.ground
    /\ \/ /\ was_on_ground /\ ~pos.ground
          /\ liftoff_y' = pos.y
          /\ max_y' = pos.y
          /\ UNCHANGED jumps
       \/ /\ ~was_on_ground /\ ~pos.ground
          /\ max_y' = Highest(pos)
          /\ UNCHANGED <<jumps, liftoff_y>>
       \/ /\ ~was_on_ground /\ pos.ground
          /\ jumps' = jumps + (IF IsJump THEN 1 ELSE 0)
          /\ liftoff_y' = NoHeight
          /\ max_y' = NoHeight
       \/ /\ was_on_ground /\ pos.ground
          /\ UNCHANGED <<jumps, liftoff_y, max_y>>

\* The mod broadcasts a position, after the bot has moved or looked elsewhere;
\* handle_event stores it and calls the listeners.
Broadcast ==
    /\ \E pos \in Positions :
          /\ current' = pos
          /\ trail' = IF walk = "idle" THEN trail ELSE Append(trail, pos)
          /\ IF "waypoints" \in listeners
             THEN TagWaypoint(pos) ELSE UNCHANGED <<hits, prev>>
          /\ IF "jumps" \in listeners
             THEN CountJump(pos) ELSE UNCHANGED counters
    /\ Len(trail) < MaxSamples
    /\ UNCHANGED <<listeners, walk, outcome, walks, counting, tagging>>

-----------------------------------------------------------------------------
(* The walks.                                                              *)

\* goto or assert_goto_never_arrives, alone or inside goto_with_waypoints,
\* count_jumps or both.
BeginWalk(kind, watched) ==
    /\ walk = "idle"
    /\ walks < MaxWalks
    /\ kind = "never" => "waypoints" \notin watched
    /\ walk' = kind
    /\ outcome' = "none"
    /\ walks' = walks + 1
    /\ listeners' = listeners \union watched
    /\ prev' = None /\ hits' = 0
    /\ jumps' = 0 /\ was_on_ground' = TRUE
    /\ liftoff_y' = NoHeight /\ max_y' = NoHeight
    /\ counting' = ("jumps" \in watched) /\ tagging' = ("waypoints" \in watched)
    /\ trail' = <<>>
    /\ UNCHANGED current

\* remove_listener, however the walk ended.
ListeningAfter == {}

EndWalk(result) ==
    /\ walk' = "idle"
    /\ outcome' = result
    /\ listeners' = ListeningAfter
    /\ UNCHANGED <<current, walks, prev, hits, counters, counting, tagging, trail>>

\* goto compares x and z, assert_goto_never_arrives the height too.
Arrived(pos) ==
    LET away == Minus(pos, Target)
    IN  away.x * away.x + away.z * away.z + (IF walk = "never" THEN away.y * away.y ELSE 0)
            <= Tolerance * Tolerance

\* A poll that finds the bot at the target.
PollArrived ==
    /\ walk # "idle"
    /\ Arrived(current)
    /\ EndWalk(IF walk = "goto" THEN "passed" ELSE "failed")

\* A timeout, or for goto the cancellation of the test.
TimesOut ==
    /\ walk # "idle"
    /\ EndWalk(IF walk = "goto" THEN "failed" ELSE "passed")

Next ==
    \/ Broadcast
    \/ \E kind \in {"goto", "never"}, watched \in SUBSET {"waypoints", "jumps"} :
          BeginWalk(kind, watched)
    \/ PollArrived
    \/ TimesOut

Spec == Init /\ [][Next]_vars

-----------------------------------------------------------------------------
(* Properties.                                                             *)

\* Some point of the way between two positions is within the radius of the centre.
\* It is enough to look where the way divides into as many equal parts as its squared
\* length: the point nearest to the centre is among them.
PassesBy(start, end) ==
    LET seg == Minus(end, start)
        off == Minus(start, Centre)
        parts == Max({1, Dot(seg, seg)})
        Away(k, i) == parts * off[i] + k * seg[i]
    IN  \E k \in 0..parts :
            Away(k, "x") * Away(k, "x") + Away(k, "y") * Away(k, "y") + Away(k, "z") * Away(k, "z")
                <= Radius * Radius * parts * parts

\* The broadcasts of a trail whose way from the one before, in its own walk, led past
\* the centre.
Passes(t) == {i \in DOMAIN t : PassesBy(t[IF i = 1 THEN 1 ELSE i - 1], t[i])}

\* The hits of a waypoint are the broadcasts whose way passed through the sphere
\* around its centre: between two samples counts, above or beside does not, and
\* what was broadcast before the walk or after it does not (actions.py:136-189).
HitsArePasses == tagging => hits = Cardinality(Passes(trail))

\* The excursions of a trail: [i, j] such that the positions i..j are in the air,
\* and the one after them, the landing, and the one before them are not.
Excursions(t) ==
    {e \in (DOMAIN t) \X (DOMAIN t) :
        /\ e[1] <= e[2] /\ e[2] < Len(t)
        /\ \A k \in e[1]..e[2] : ~t[k].ground
        /\ t[e[2] + 1].ground
        /\ e[1] = 1 \/ t[e[1] - 1].ground}

Rise(t, e) == Max({t[k].y : k \in e[1]..e[2]}) - t[e[1]].y

\* The walk's jumps are the excursions of its trail that rose by MinGain from
\* their first position in the air: of this walk and no other.
JumpsAreExcursions ==
    counting => jumps = Cardinality({e \in Excursions(trail) : Rise(trail, e) >= MinGain})

\* The docstring of assert_goto_never_arrives: it fails "if the bot ever gets that
\* close" to the target during the window.
NeverMeansNever ==
    [][walk = "never" /\ outcome' = "passed"
          => \A i \in DOMAIN trail : ~Arrived(trail[i])]_vars

\* The comment on JUMP_MIN_HEIGHT_GAIN: the gain is taken "above the y where the bot
\* last left the ground", the height of the position before the excursion.
RiseFromGround(t, e) == Max({t[k].y : k \in e[1]..e[2]}) - t[e[1] - 1].y
GainFromTheGround ==
    counting /\ trail # <<>> /\ trail[1].ground
        => jumps = Cardinality({e \in Excursions(trail) : RiseFromGround(trail, e) >= MinGain})
=============================================================================
