----------------------------- MODULE WorldProofs -----------------------------
(***************************************************************************)
(* Proofs about the trackers the reader feeds and about a test's start, as *)
(* MC_World puts them side by side: for all values of its constants, the   *)
(* walks with their two listeners, the entity tracker (what EntitiesProofs *)
(* proves, by instance), the arrival of a test, and the inventory with its *)
(* announcer.                                                              *)
(***************************************************************************)
EXTENDS MC_World, TestRunsProofs, FiniteSetTheorems, SequenceTheorems, TLAPS

LEMMA SameCardinality ==
    ASSUME NEW S
    PROVE  W!Cardinality(S) = Cardinality(S)
  BY DEF W!Cardinality, Cardinality

LEMMA MaxIs ==
    ASSUME NEW S, NEW m \in S, S \subseteq Int, \A n \in S : m >= n
    PROVE  W!Max(S) = m
  <1>1. \A k \in S : (\A n \in S : k >= n) => k = m
    <2> SUFFICES ASSUME NEW k \in S, \A n \in S : k >= n
                 PROVE  k = m
      OBVIOUS
    <2>1. k >= m /\ m >= k /\ k \in Int /\ m \in Int
      OBVIOUS
    <2> QED  BY <2>1
  <1>2. W!Max(S) \in S /\ \A n \in S : W!Max(S) >= n
    BY DEF W!Max
  <1> QED  BY <1>1, <1>2

LEMMA MaxOfTwo ==
    ASSUME NEW m \in Int, NEW n \in Int
    PROVE  W!Max({m, n}) = IF m >= n THEN m ELSE n
  <1>1. CASE m >= n
    <2>1. \A k \in {m, n} : m >= k
      BY <1>1
    <2> QED  BY <1>1, <2>1, MaxIs
  <1>2. CASE ~(m >= n)
    <2>1. \A k \in {m, n} : n >= k
      BY <1>2
    <2> QED  BY <1>2, <2>1, MaxIs
  <1> QED  BY <1>1, <1>2

-----------------------------------------------------------------------------
(* The sphere check of a waypoint.                                         *)

LEMMA Divides ==
    ASSUME NEW n \in Nat \ {0}, NEW a \in Int, NEW b \in Int
    PROVE  n * a <= n * b <=> a <= b
  <1>1. a <= b => n * a <= n * b
    <2>1. ASSUME a <= b PROVE n * a <= n * b
      <3>1. PICK d \in Nat : b = a + d
        BY <2>1
      <3>2. n * b = n * a + n * d /\ n * d >= 0 /\ n * a \in Int
        BY <3>1
      <3> QED  BY <3>2
    <2> QED  BY <2>1
  <1>2. b < a => n * b < n * a
    <2>1. ASSUME b < a PROVE n * b < n * a
      <3>1. PICK d \in Nat \ {0} : a = b + d
        BY <2>1
      <3>2. n * a = n * b + n * d /\ n * d > 0 /\ n * b \in Int
        BY <3>1
      <3> QED  BY <3>2
    <2> QED  BY <2>1
  <1>3. n * a \in Int /\ n * b \in Int
    OBVIOUS
  <1> QED  BY <1>1, <1>2, <1>3

\* Of the points that divide a way of squared length `length' in that many parts, one is
\* the nearest to a centre at squared distance d from the start.
LEMMA NearestOfMany ==
    ASSUME NEW length \in Nat \ {0}, NEW t \in Int, NEW d \in Int, NEW r \in Int
    PROVE  (\E k \in 0..length :
                length * length * d - 2 * length * k * t + k * k * length <= r * length * length)
            <=> \/ t <= 0 /\ d <= r
                \/ t > 0 /\ t >= length /\ d - 2 * t + length <= r
                \/ t > 0 /\ t < length /\ d * length - t * t <= r * length
  <1> DEFINE At(k) == length * d - 2 * k * t + k * k
  <1>1. ASSUME NEW k \in 0..length
        PROVE  length * length * d - 2 * length * k * t + k * k * length <= r * length * length
                <=> At(k) <= r * length
    <2>1. length * length * d - 2 * length * k * t + k * k * length = length * At(k)
      OBVIOUS
    <2>2. r * length * length = length * (r * length)
      OBVIOUS
    <2>3. At(k) \in Int /\ r * length \in Int
      OBVIOUS
    <2> HIDE DEF At
    <2> QED  BY <2>1, <2>2, <2>3, Divides
  <1>2. CASE t <= 0
    <2>1. At(0) = length * d /\ length * d \in Int
      OBVIOUS
    <2>2. ASSUME NEW k \in 0..length PROVE At(k) >= At(0)
      <3>1. k * t <= 0 /\ k * t \in Int /\ k * k >= 0 /\ k * k \in Int
        BY <1>2
      <3>2. At(k) = length * d - 2 * (k * t) + k * k
        OBVIOUS
      <3> HIDE DEF At
      <3> QED  BY <2>1, <3>1, <3>2
    <2>3. At(0) <= r * length <=> d <= r
      <3>1. r * length = length * r
        OBVIOUS
      <3> QED  BY <2>1, <3>1, Divides
    <2>4. \A k \in 0..length : At(k) \in Int
      OBVIOUS
    <2>5. r * length \in Int
      OBVIOUS
    <2> HIDE DEF At
    <2>6. (\E k \in 0..length : At(k) <= r * length) <=> d <= r
      BY <2>1, <2>2, <2>3, <2>4, <2>5
    <2> QED  BY <1>1, <1>2, <2>6
  <1>3. CASE t > 0 /\ t >= length
    <2>1. At(length) = length * (d - 2 * t + length)
      OBVIOUS
    <2>2. ASSUME NEW k \in 0..length PROVE At(k) >= At(length)
      <3>1. At(k) - At(length) = (length - k) * (2 * t - length - k)
        OBVIOUS
      <3>2. (length - k) * (2 * t - length - k) >= 0
        <4>1. length - k \in Nat /\ 2 * t - length - k \in Nat
          BY <1>3
        <4> QED  BY <4>1
      <3>3. At(k) \in Int /\ At(length) \in Int
        OBVIOUS
      <3> HIDE DEF At
      <3> QED  BY <3>1, <3>2, <3>3
    <2>3. At(length) <= r * length <=> d - 2 * t + length <= r
      <3>1. r * length = length * r /\ d - 2 * t + length \in Int
        OBVIOUS
      <3> QED  BY <2>1, <3>1, Divides
    <2>4. \A k \in 0..length : At(k) \in Int
      OBVIOUS
    <2>5. r * length \in Int
      OBVIOUS
    <2> HIDE DEF At
    <2>6. (\E k \in 0..length : At(k) <= r * length) <=> d - 2 * t + length <= r
      BY <2>2, <2>3, <2>4, <2>5
    <2> QED  BY <1>1, <1>3, <2>6
  <1>4. CASE t > 0 /\ t < length
    <2>1. At(t) = d * length - t * t
      OBVIOUS
    <2>2. ASSUME NEW k \in 0..length PROVE At(k) >= At(t)
      <3>1. At(k) - At(t) = (k - t) * (k - t)
        OBVIOUS
      <3>2. (k - t) * (k - t) >= 0
        <4>1. \A m \in Int : m * m >= 0
          OBVIOUS
        <4> QED  BY <4>1
      <3>3. At(k) \in Int /\ At(t) \in Int
        OBVIOUS
      <3> HIDE DEF At
      <3> QED  BY <3>1, <3>2, <3>3
    <2>4. \A k \in 0..length : At(k) \in Int
      OBVIOUS
    <2>5. r * length \in Int /\ t \in 0..length
      BY <1>4
    <2> HIDE DEF At
    <2>6. (\E k \in 0..length : At(k) <= r * length) <=> d * length - t * t <= r * length
      BY <2>1, <2>2, <2>4, <2>5
    <2> QED  BY <1>1, <1>4, <2>6
  <1> QED  BY <1>2, <1>3, <1>4
\* The squares of the sphere check: how far the start is from the centre, how long the
\* way is, and how far along it the centre lies.
LEMMA Squares ==
    ASSUME NEW ax \in Int, NEW ay \in Int, NEW az \in Int,
           NEW bx \in Int, NEW by \in Int, NEW bz \in Int
    PROVE  LET d == ax * ax + ay * ay + az * az
               length == bx * bx + by * by + bz * bz
               t == (0 - ax) * bx + (0 - ay) * by + (0 - az) * bz
           IN  /\ d \in Int /\ length \in Nat /\ t \in Int
               /\ length = 0 => t = 0
               /\ (0 - ax) * (0 - ax) + (0 - ay) * (0 - ay) + (0 - az) * (0 - az) = d
               /\ (0 - ax - bx) * (0 - ax - bx) + (0 - ay - by) * (0 - ay - by)
                     + (0 - az - bz) * (0 - az - bz) = d - 2 * t + length
               /\ \A n, k \in Int :
                     (n * ax + k * bx) * (n * ax + k * bx) + (n * ay + k * by) * (n * ay + k * by)
                        + (n * az + k * bz) * (n * az + k * bz)
                     = n * n * d - 2 * n * k * t + k * k * length
  <1> DEFINE d == ax * ax + ay * ay + az * az
             length == bx * bx + by * by + bz * bz
             t == (0 - ax) * bx + (0 - ay) * by + (0 - az) * bz
  <1>1. \A m \in Int : m * m \in Nat /\ (m * m = 0 => m = 0)
    OBVIOUS
  <1>2. d \in Int /\ length \in Nat /\ t \in Int
    <2>1. bx * bx \in Nat /\ by * by \in Nat /\ bz * bz \in Nat
      BY <1>1
    <2> QED  BY <2>1
  <1>3. length = 0 => t = 0
    <2>1. bx * bx \in Nat /\ by * by \in Nat /\ bz * bz \in Nat
      BY <1>1
    <2>2. length = 0 => bx = 0 /\ by = 0 /\ bz = 0
      BY <1>1, <2>1
    <2> QED  BY <2>2
  <1>4. (0 - ax) * (0 - ax) + (0 - ay) * (0 - ay) + (0 - az) * (0 - az) = d
    OBVIOUS
  <1>5. (0 - ax - bx) * (0 - ax - bx) + (0 - ay - by) * (0 - ay - by)
          + (0 - az - bz) * (0 - az - bz) = d - 2 * t + length
    OBVIOUS
  <1>6. ASSUME NEW n \in Int, NEW k \in Int
        PROVE  (n * ax + k * bx) * (n * ax + k * bx) + (n * ay + k * by) * (n * ay + k * by)
                 + (n * az + k * bz) * (n * az + k * bz)
               = n * n * d - 2 * n * k * t + k * k * length
    OBVIOUS
  <1> QED  BY <1>2, <1>3, <1>4, <1>5, <1>6

\* The three cases of _segment_hits_sphere find the nearest point of the way.
LEMMA CrossesIfPasses ==
    ASSUME W!WalkAssumption, NEW start \in W!Positions, NEW end \in W!Positions
    PROVE  W!Crosses(start, end) <=> W!PassesBy(start, end)
  <1> DEFINE ax == start.x - Centre.x  ay == start.y - Centre.y  az == start.z - Centre.z
             bx == end.x - start.x     by == end.y - start.y     bz == end.z - start.z
             d == ax * ax + ay * ay + az * az
             length == bx * bx + by * by + bz * bz
             t == (0 - ax) * bx + (0 - ay) * by + (0 - az) * bz
             r == Radius * Radius
  <1>1. /\ start.x \in Int /\ start.y \in Int /\ start.z \in Int
        /\ end.x \in Int /\ end.y \in Int /\ end.z \in Int
        /\ Centre.x \in Int /\ Centre.y \in Int /\ Centre.z \in Int /\ Radius \in Int
    BY DEF W!WalkAssumption, W!Positions, W!Position, W!Point
  <1>2. /\ ax \in Int /\ ay \in Int /\ az \in Int
        /\ bx \in Int /\ by \in Int /\ bz \in Int /\ r \in Int
    BY <1>1
  <1>3. /\ Centre.x - start.x = 0 - ax /\ Centre.y - start.y = 0 - ay /\ Centre.z - start.z = 0 - az
        /\ Centre.x - end.x = 0 - ax - bx /\ Centre.y - end.y = 0 - ay - by
        /\ Centre.z - end.z = 0 - az - bz
    BY <1>1
  <1>4. W!Minus(Centre, start) = [x |-> 0 - ax, y |-> 0 - ay, z |-> 0 - az]
    BY <1>3 DEF W!Minus
  <1>5. W!Minus(Centre, end) = [x |-> 0 - ax - bx, y |-> 0 - ay - by, z |-> 0 - az - bz]
    BY <1>3 DEF W!Minus
  <1>6. /\ W!Minus(end, start) = [x |-> bx, y |-> by, z |-> bz]
        /\ W!Minus(start, Centre) = [x |-> ax, y |-> ay, z |-> az]
    BY DEF W!Minus
  <1> HIDE DEF ax, ay, az, bx, by, bz, r
  <1>7. /\ d \in Int /\ length \in Nat /\ t \in Int
        /\ length = 0 => t = 0
        /\ (0 - ax) * (0 - ax) + (0 - ay) * (0 - ay) + (0 - az) * (0 - az) = d
        /\ (0 - ax - bx) * (0 - ax - bx) + (0 - ay - by) * (0 - ay - by)
              + (0 - az - bz) * (0 - az - bz) = d - 2 * t + length
        /\ \A n, k \in Int :
              (n * ax + k * bx) * (n * ax + k * bx) + (n * ay + k * by) * (n * ay + k * by)
                 + (n * az + k * bz) * (n * az + k * bz)
              = n * n * d - 2 * n * k * t + k * k * length
    BY <1>2, Squares
  <1>8. /\ W!Dot(W!Minus(end, start), W!Minus(end, start)) = length
        /\ W!Dot(W!Minus(Centre, start), W!Minus(end, start)) = t
    BY <1>4, <1>6 DEF W!Dot
  <1>9. /\ W!Dot(W!Minus(Centre, start), W!Minus(Centre, start)) = d
        /\ W!Dot(W!Minus(Centre, end), W!Minus(Centre, end)) = d - 2 * t + length
    BY <1>4, <1>5, <1>7 DEF W!Dot
  <1>10. W!Crosses(start, end)
            <=> \/ t <= 0 /\ d <= r
                \/ t > 0 /\ t >= length /\ d - 2 * t + length <= r
                \/ t > 0 /\ t < length /\ d * length - t * t <= r * length
    BY <1>8, <1>9, Zenon DEF W!Crosses, r
  <1> HIDE DEF d, length, t
  <1> DEFINE parts == IF length = 0 THEN 1 ELSE length
  <1>11. W!Max({1, length}) = parts /\ parts \in Nat \ {0}
    <2>1. length \in Nat /\ length \in Int /\ 1 \in Int
      BY <1>7
    <2>2. W!Max({1, length}) = IF 1 >= length THEN 1 ELSE length
      BY <2>1, MaxOfTwo
    <2> QED  BY <2>1, <2>2
  <1>12. W!PassesBy(start, end)
            <=> \E k \in 0..parts :
                  (parts * ax + k * bx) * (parts * ax + k * bx)
                    + (parts * ay + k * by) * (parts * ay + k * by)
                    + (parts * az + k * bz) * (parts * az + k * bz)
                  <= r * parts * parts
    <2> HIDE DEF parts
    <2>1. /\ W!Minus(end, start)["x"] = bx /\ W!Minus(end, start)["y"] = by
          /\ W!Minus(end, start)["z"] = bz
          /\ W!Minus(start, Centre)["x"] = ax /\ W!Minus(start, Centre)["y"] = ay
          /\ W!Minus(start, Centre)["z"] = az
      BY <1>6
    <2> QED  BY <1>8, <1>11, <2>1, Zenon DEF W!PassesBy, r
  <1>13. W!PassesBy(start, end)
            <=> \E k \in 0..parts :
                  parts * parts * d - 2 * parts * k * t + k * k * length <= r * parts * parts
    <2> HIDE DEF parts
    <2>1. ASSUME NEW k \in 0..parts
          PROVE  (parts * ax + k * bx) * (parts * ax + k * bx)
                   + (parts * ay + k * by) * (parts * ay + k * by)
                   + (parts * az + k * bz) * (parts * az + k * bz)
                 = parts * parts * d - 2 * parts * k * t + k * k * length
      <3>1. k \in Int /\ parts \in Int
        BY <1>11
      <3> QED  BY <1>7, <3>1, Zenon
    <2> QED  BY <1>12, <2>1, Zenon
  <1>14. CASE length = 0
    <2>1. parts = 1 /\ t = 0 /\ d \in Int /\ r \in Int
      BY <1>2, <1>7, <1>14
    <2>2. W!PassesBy(start, end) <=> d <= r
      BY <1>13, <1>14, <2>1
    <2> QED  BY <1>10, <2>1, <2>2
  <1>15. CASE length # 0
    <2>1. parts = length /\ length \in Nat \ {0}
      BY <1>7, <1>15
    <2>2. W!PassesBy(start, end)
            <=> \E k \in 0..length :
                  length * length * d - 2 * length * k * t + k * k * length
                    <= r * length * length
      BY <1>13, <2>1, Zenon
    <2>3. d \in Int /\ t \in Int /\ r \in Int
      BY <1>2, <1>7
    <2> QED  BY <1>10, <2>1, <2>2, <2>3, NearestOfMany, Zenon
  <1> QED  BY <1>14, <1>15

-----------------------------------------------------------------------------
(* A walk and its listeners.                                               *)

LEMMA PositionTypes ==
    ASSUME W!WalkAssumption
    PROVE  \A p \in W!Positions : /\ p.x \in Int /\ p.y \in Nat /\ p.z \in Int
                                  /\ p.ground \in BOOLEAN
  BY DEF W!WalkAssumption, W!Positions, W!Position, W!Point

\* Listeners are registered for exactly the length of a walk.
Listening ==
    /\ walk = "idle" => listeners = {}
    /\ walk # "idle" =>
          /\ tagging <=> "waypoints" \in listeners
          /\ counting <=> "jumps" \in listeners

\* No position counts twice.
CountsBounded == hits <= Len(trail) /\ jumps <= Len(trail)

\* The segments end at the last position, and each that passed by has counted.
Tagged ==
    tagging =>
        /\ walk # "idle" => prev = IF trail = <<>> THEN W!None ELSE trail[Len(trail)]
        /\ hits = Cardinality(W!Passes(trail))

\* In the air since position s of the trail: count_jumps' liftoff_y is its height,
\* max_y the greatest one since.
AloftSince(s) ==
    /\ \A k \in s..Len(trail) : ~trail[k].ground /\ trail[k].y <= max_y
    /\ s = 1 \/ trail[s - 1].ground
    /\ liftoff_y = trail[s].y
    /\ \E k \in s..Len(trail) : max_y = trail[k].y
Landed == trail = <<>> \/ trail[Len(trail)].ground
\* The excursions that count, as JumpsAreExcursions has them.
Risen(t) == {e \in W!Excursions(t) : W!Rise(t, e) >= MinGain}
Counted ==
    counting =>
        /\ jumps = Cardinality(Risen(trail))
        /\ walk # "idle" =>
              IF was_on_ground
              THEN Landed /\ liftoff_y = W!NoHeight /\ max_y = W!NoHeight
              ELSE \E s \in 1..Len(trail) : AloftSince(s)

WalkSide ==
    /\ W!TypeOK
    /\ Listening
    /\ CountsBounded
    /\ counting /\ walk # "idle" => (was_on_ground <=> liftoff_y = W!NoHeight)
WalkInv == WalkSide /\ Tagged /\ Counted

LEMMA WalkInit == W!WalkAssumption /\ W!Init => WalkInv
  <1> SUFFICES ASSUME W!WalkAssumption, W!Init PROVE WalkInv
    OBVIOUS
  <1> USE DEF W!Init, W!WalkAssumption
  <1>1. W!TypeOK
    <2>1. trail \in Seq(W!Positions) /\ Len(trail) = 0
      OBVIOUS
    <2>2. max_y >= liftoff_y
      BY DEF W!NoHeight
    <2>3. hits \in 0..MaxSamples /\ jumps \in 0..MaxSamples /\ walks \in 0..MaxWalks
      OBVIOUS
    <2>4. /\ was_on_ground \in BOOLEAN /\ counting \in BOOLEAN /\ tagging \in BOOLEAN
          /\ listeners \in SUBSET {"waypoints", "jumps"}
      OBVIOUS
    <2> QED  BY <2>1, <2>2, <2>3, <2>4 DEF W!TypeOK
  <1>2. Listening /\ CountsBounded /\ Tagged
    BY DEF Listening, CountsBounded, Tagged
  <1>3. Counted
    BY DEF Counted
  <1> QED  BY <1>1, <1>2, <1>3 DEF WalkInv, WalkSide

LEMMA SideBroadcast ==
    ASSUME W!WalkAssumption, WalkSide, W!Broadcast
    PROVE  WalkSide'
  <1> USE DEF WalkSide, W!Broadcast
  <1>1. position' \in W!Positions /\ trail' \in Seq(W!Positions) /\ Len(trail') <= MaxSamples
    BY DEF W!TypeOK, W!WalkAssumption
  <1>2. /\ hits' \in 0..MaxSamples /\ hits' <= Len(trail')
        /\ prev' \in W!Positions \union {W!None}
    BY DEF W!TypeOK, W!WalkAssumption, Listening, CountsBounded, W!TagWaypoint
  <1>3. /\ jumps' \in 0..MaxSamples /\ jumps' <= Len(trail')
        /\ was_on_ground' \in BOOLEAN
        /\ liftoff_y' \in {W!NoHeight} \union Nat
        /\ max_y' \in {W!NoHeight} \union Nat
        /\ max_y' >= liftoff_y' /\ (max_y' = W!NoHeight <=> liftoff_y' = W!NoHeight)
        /\ counting' /\ walk' # "idle" => (was_on_ground' <=> liftoff_y' = W!NoHeight)
    <2>1. CASE "jumps" \notin listeners
      <3>1. UNCHANGED <<jumps, was_on_ground, liftoff_y, max_y, counting, walk>>
        BY <2>1 DEF W!counters
      <3> QED  BY <1>1, <3>1 DEF W!TypeOK, CountsBounded
    <2>2. CASE "jumps" \in listeners
      <3>1. walk # "idle" /\ Len(trail') = Len(trail) + 1
        BY <2>2 DEF Listening, W!TypeOK
      <3> DEFINE pos == position'
      <3>2. pos \in W!Positions /\ W!CountJump(pos)
        BY <1>1, <2>2
      <3>3. pos.y \in Nat /\ pos.ground \in BOOLEAN
        BY <1>1, PositionTypes
      <3> HIDE DEF pos
      <3>4. W!Highest(pos) = IF max_y >= pos.y THEN max_y ELSE pos.y
        BY <3>3, MaxOfTwo DEF W!Highest, W!TypeOK, W!NoHeight
      <3>5. jumps' \in 0..MaxSamples /\ jumps' <= Len(trail')
        BY <1>1, <3>1, <3>2 DEF W!CountJump, CountsBounded, W!TypeOK, W!WalkAssumption
      <3>6. was_on_ground' = pos.ground
        BY <3>2 DEF W!CountJump
      <3>7. /\ liftoff_y' \in {W!NoHeight} \union Nat
            /\ max_y' \in {W!NoHeight} \union Nat
            /\ max_y' >= liftoff_y' /\ (max_y' = W!NoHeight <=> liftoff_y' = W!NoHeight)
            /\ was_on_ground' <=> liftoff_y' = W!NoHeight
        <4>1. was_on_ground <=> liftoff_y = W!NoHeight
          BY <2>2, <3>1 DEF Listening
        <4>2. /\ liftoff_y \in {W!NoHeight} \union Nat
              /\ max_y \in {W!NoHeight} \union Nat
              /\ max_y >= liftoff_y /\ (max_y = W!NoHeight <=> liftoff_y = W!NoHeight)
              /\ was_on_ground \in BOOLEAN
          BY DEF W!TypeOK, W!WalkAssumption
        <4>3. CASE was_on_ground /\ ~pos.ground
          BY <3>2, <3>3, <4>1, <4>2, <4>3 DEF W!CountJump, W!NoHeight
        <4>4. CASE ~was_on_ground /\ ~pos.ground
          BY <3>2, <3>3, <3>4, <4>1, <4>2, <4>4 DEF W!CountJump, W!NoHeight
        <4>5. CASE ~was_on_ground /\ pos.ground
          BY <3>2, <3>3, <4>1, <4>2, <4>5 DEF W!CountJump, W!NoHeight
        <4>6. CASE was_on_ground /\ pos.ground
          BY <3>2, <3>3, <4>1, <4>2, <4>6 DEF W!CountJump, W!NoHeight
        <4> QED  BY <3>3, <4>2, <4>3, <4>4, <4>5, <4>6
      <3> QED  BY <3>3, <3>5, <3>6, <3>7
    <2> QED  BY <2>1, <2>2
  <1>4. Listening'
    BY DEF Listening
  <1>5. UNCHANGED <<walk, outcome, walks, counting, tagging, listeners>>
    OBVIOUS
  <1> QED  BY <1>1, <1>2, <1>3, <1>4, <1>5 DEF W!TypeOK, CountsBounded

\* A broadcast adds itself to the passes of a trail, or nothing.
LEMMA PassesGrow ==
    ASSUME NEW t \in Seq(W!Positions), NEW pos \in W!Positions
    PROVE  /\ W!Passes(t) \subseteq 1..Len(t) /\ IsFiniteSet(W!Passes(t))
           /\ W!Passes(Append(t, pos))
                = IF W!PassesBy(IF t = <<>> THEN pos ELSE t[Len(t)], pos)
                  THEN W!Passes(t) \cup {Len(t) + 1} ELSE W!Passes(t)
  <1> DEFINE u == Append(t, pos)
             From(v, i) == v[IF i = 1 THEN 1 ELSE i - 1]
  <1>1. Len(t) \in Nat /\ DOMAIN t = 1..Len(t) /\ (t = <<>> <=> Len(t) = 0)
    OBVIOUS
  <1>2. W!Passes(t) \subseteq 1..Len(t) /\ IsFiniteSet(W!Passes(t))
    <2>1. W!Passes(t) \subseteq 1..Len(t)
      BY <1>1 DEF W!Passes
    <2>2. IsFiniteSet(1..Len(t))
      BY <1>1, FS_Interval
    <2> QED  BY <2>1, <2>2, FS_Subset
  <1>3. DOMAIN u = 1..(Len(t) + 1) /\ u[Len(t) + 1] = pos /\ \A i \in 1..Len(t) : u[i] = t[i]
    OBVIOUS
  <1> HIDE DEF u
  <1>4. \A i \in 1..Len(t) : From(u, i) = From(t, i)
    BY <1>1, <1>3
  <1>5. From(u, Len(t) + 1) = IF t = <<>> THEN pos ELSE t[Len(t)]
    BY <1>1, <1>3
  <1>6. /\ W!Passes(u) = {i \in DOMAIN u : W!PassesBy(From(u, i), u[i])}
        /\ W!Passes(t) = {i \in DOMAIN t : W!PassesBy(From(t, i), t[i])}
    BY DEF W!Passes
  <1> HIDE DEF From
  <1>7. W!Passes(u) = IF W!PassesBy(From(u, Len(t) + 1), pos)
                      THEN W!Passes(t) \cup {Len(t) + 1} ELSE W!Passes(t)
    BY <1>1, <1>3, <1>4, <1>6
  <1> QED  BY <1>2, <1>5, <1>7 DEF u

LEMMA TaggedBroadcast ==
    ASSUME W!WalkAssumption, WalkSide, Tagged, W!Broadcast
    PROVE  Tagged'
  <1> SUFFICES ASSUME tagging' PROVE Tagged'
    BY DEF Tagged
  <1>1. CASE walk = "idle"
    <2>1. tagging /\ walk' = "idle" /\ UNCHANGED <<hits, trail>>
      BY <1>1 DEF WalkSide, Listening, W!Broadcast
    <2> QED  BY <2>1 DEF Tagged
  <1>2. CASE walk # "idle"
    <2> DEFINE pos == position'
               start == IF trail = <<>> THEN pos ELSE trail[Len(trail)]
    <2>1. /\ tagging /\ "waypoints" \in listeners
          /\ trail' = Append(trail, pos) /\ walk' = walk
          /\ W!TagWaypoint(pos)
      BY <1>2 DEF WalkSide, Listening, W!Broadcast
    <2>2. pos \in W!Positions /\ trail \in Seq(W!Positions)
      BY DEF WalkSide, W!TypeOK, W!Broadcast
    <2> HIDE DEF pos
    <2>3. trail' # <<>> /\ prev' = trail'[Len(trail')]
      BY <2>1, <2>2 DEF W!TagWaypoint
    <2>4. start \in W!Positions /\ (IF prev = W!None THEN pos ELSE prev) = start
      <3>1. prev = IF trail = <<>> THEN W!None ELSE trail[Len(trail)]
        BY <1>2, <2>1 DEF Tagged
      <3>2. trail # <<>> => trail[Len(trail)] \in W!Positions
        BY <2>2
      <3>3. \A p \in W!Positions : p # W!None
        BY DEF W!Positions, W!Position, W!None, W!WalkAssumption, W!Point
      <3> QED  BY <2>2, <3>1, <3>2, <3>3
    <2> HIDE DEF start
    <2>5. hits' = hits + (IF W!PassesBy(start, pos) THEN 1 ELSE 0)
      BY <2>1, <2>2, <2>4, CrossesIfPasses DEF W!TagWaypoint
    <2>6. hits = Cardinality(W!Passes(trail))
      BY <2>1 DEF Tagged
    <2>7. /\ W!Passes(trail) \subseteq 1..Len(trail) /\ IsFiniteSet(W!Passes(trail))
          /\ W!Passes(trail') = IF W!PassesBy(start, pos)
                                THEN W!Passes(trail) \cup {Len(trail) + 1} ELSE W!Passes(trail)
      BY <2>1, <2>2, PassesGrow DEF start
    <2>8. Len(trail) + 1 \notin W!Passes(trail)
      <3>1. Len(trail) \in Nat
        BY <2>2
      <3> QED  BY <2>7, <3>1
    <2>9. hits' = Cardinality(W!Passes(trail'))
      <3>1. CASE W!PassesBy(start, pos)
        BY <2>5, <2>6, <2>7, <2>8, <3>1, FS_AddElement
      <3>2. CASE ~W!PassesBy(start, pos)
        <4>1. hits \in Nat
          BY DEF WalkSide, W!TypeOK
        <4> QED  BY <2>5, <2>6, <2>7, <3>2, <4>1
      <3> QED  BY <3>1, <3>2
    <2> QED  BY <2>1, <2>3, <2>9 DEF Tagged
  <1> QED  BY <1>1, <1>2

\* What an excursion of a trail is, and that there are finitely many.
LEMMA ExcursionIs ==
    ASSUME NEW t \in Seq(W!Positions)
    PROVE  /\ \A e : e \in W!Excursions(t) <=>
                 /\ e = <<e[1], e[2]>>
                 /\ e[1] \in 1..Len(t) /\ e[2] \in e[1]..(Len(t) - 1)
                 /\ \A k \in e[1]..e[2] : ~t[k].ground
                 /\ t[e[2] + 1].ground
                 /\ e[1] = 1 \/ t[e[1] - 1].ground
           /\ IsFiniteSet(W!Excursions(t))
  <1>1. DOMAIN t = 1..Len(t) /\ Len(t) \in Nat
    OBVIOUS
  <1>2. \A e : e \in (DOMAIN t) \X (DOMAIN t)
                 <=> e = <<e[1], e[2]>> /\ e[1] \in 1..Len(t) /\ e[2] \in 1..Len(t)
    BY <1>1
  <1>3. IsFiniteSet((DOMAIN t) \X (DOMAIN t))
    <2>1. IsFiniteSet(DOMAIN t)
      BY <1>1, FS_Interval
    <2> QED  BY <2>1, FS_Product
  <1>4. W!Excursions(t) \subseteq (DOMAIN t) \X (DOMAIN t)
    BY DEF W!Excursions
  <1> QED  BY <1>1, <1>2, <1>3, <1>4, FS_Subset DEF W!Excursions

\* A position that is broadcast changes no excursion already over.
LEMMA ExcursionsStay ==
    ASSUME NEW t \in Seq(W!Positions), NEW pos \in W!Positions,
           NEW e \in W!Excursions(t)
    PROVE  /\ e \in W!Excursions(Append(t, pos))
           /\ W!Rise(Append(t, pos), e) = W!Rise(t, e)
  <1> DEFINE u == Append(t, pos)
  <1>1. u \in Seq(W!Positions) /\ Len(u) = Len(t) + 1 /\ \A k \in 1..Len(t) : u[k] = t[k]
    OBVIOUS
  <1>2. /\ e = <<e[1], e[2]>>
        /\ e[1] \in 1..Len(t) /\ e[2] \in e[1]..(Len(t) - 1)
        /\ \A k \in e[1]..e[2] : ~t[k].ground
        /\ t[e[2] + 1].ground
        /\ e[1] = 1 \/ t[e[1] - 1].ground
    BY ExcursionIs
  <1>3. e[1]..e[2] \subseteq 1..Len(t) /\ e[2] + 1 \in 1..Len(t)
    BY <1>2
  <1>4. e[1] # 1 => e[1] - 1 \in 1..Len(t)
    BY <1>2
  <1> HIDE DEF u
  <1>5. e \in W!Excursions(u)
    <2>1. e[1] \in 1..Len(u) /\ e[2] \in e[1]..(Len(u) - 1)
      BY <1>1, <1>2
    <2>2. \A k \in e[1]..e[2] : ~u[k].ground
      BY <1>1, <1>2, <1>3
    <2>3. u[e[2] + 1].ground /\ (e[1] = 1 \/ u[e[1] - 1].ground)
      BY <1>1, <1>2, <1>3, <1>4
    <2> QED  BY <1>1, <1>2, <2>1, <2>2, <2>3, ExcursionIs
  <1>6. W!Rise(u, e) = W!Rise(t, e)
    <2>1. {u[k].y : k \in e[1]..e[2]} = {t[k].y : k \in e[1]..e[2]}
      BY <1>1, <1>3
    <2>2. u[e[1]] = t[e[1]]
      BY <1>1, <1>2
    <2> QED  BY <2>1, <2>2 DEF W!Rise
  <1> QED  BY <1>5, <1>6 DEF u

\* It makes at most one new one, which it ends by landing.
LEMMA ExcursionsGrow ==
    ASSUME NEW t \in Seq(W!Positions), NEW pos \in W!Positions,
           NEW e \in W!Excursions(Append(t, pos)), e \notin W!Excursions(t)
    PROVE  /\ e = <<e[1], Len(t)>> /\ e[1] \in 1..Len(t)
           /\ pos.ground
           /\ \A k \in e[1]..Len(t) : ~t[k].ground
           /\ e[1] = 1 \/ t[e[1] - 1].ground
  <1> DEFINE u == Append(t, pos)
  <1>1. /\ u \in Seq(W!Positions) /\ Len(u) = Len(t) + 1 /\ \A k \in 1..Len(t) : u[k] = t[k]
        /\ u[Len(t) + 1] = pos
    OBVIOUS
  <1> HIDE DEF u
  <1>2. /\ e = <<e[1], e[2]>>
        /\ e[1] \in 1..Len(u) /\ e[2] \in e[1]..(Len(u) - 1)
        /\ \A k \in e[1]..e[2] : ~u[k].ground
        /\ u[e[2] + 1].ground
        /\ e[1] = 1 \/ u[e[1] - 1].ground
    BY <1>1, ExcursionIs DEF u
  <1>3. /\ e[1] \in 1..Len(t) /\ e[2] \in e[1]..Len(t)
        /\ \A k \in e[1]..e[2] : k \in 1..Len(t)
        /\ e[1] # 1 => e[1] - 1 \in 1..Len(t)
    BY <1>1, <1>2
  <1>4. /\ \A k \in e[1]..e[2] : ~t[k].ground
        /\ e[1] = 1 \/ t[e[1] - 1].ground
    BY <1>1, <1>2, <1>3
  <1>5. e[2] = Len(t)
    <2> SUFFICES ASSUME e[2] # Len(t) PROVE FALSE
      OBVIOUS
    <2>1. e[2] \in e[1]..(Len(t) - 1) /\ e[2] + 1 \in 1..Len(t)
      BY <1>3
    <2>2. t[e[2] + 1].ground
      BY <1>1, <1>2, <2>1
    <2> QED  BY <1>2, <1>3, <1>4, <2>1, <2>2, ExcursionIs
  <1> QED  BY <1>1, <1>2, <1>3, <1>4, <1>5

\* Landing ends the excursion the bot was on.
LEMMA ExcursionEnds ==
    ASSUME NEW t \in Seq(W!Positions), NEW pos \in W!Positions, pos.ground,
           NEW s \in 1..Len(t),
           \A k \in s..Len(t) : ~t[k].ground,
           s = 1 \/ t[s - 1].ground
    PROVE  /\ <<s, Len(t)>> \in W!Excursions(Append(t, pos))
           /\ <<s, Len(t)>> \notin W!Excursions(t)
           /\ W!Excursions(Append(t, pos)) = W!Excursions(t) \cup {<<s, Len(t)>>}
  <1> DEFINE u == Append(t, pos)  d == <<s, Len(t)>>
  <1>1. /\ u \in Seq(W!Positions) /\ Len(u) = Len(t) + 1 /\ \A k \in 1..Len(t) : u[k] = t[k]
        /\ u[Len(t) + 1] = pos /\ Len(t) \in Nat
    OBVIOUS
  <1>2. d[1] = s /\ d[2] = Len(t)
    OBVIOUS
  <1> HIDE DEF u, d
  <1>3. d \in W!Excursions(u)
    <2>1. d = <<d[1], d[2]>> /\ d[1] \in 1..Len(u) /\ d[2] \in d[1]..(Len(u) - 1)
      BY <1>1, <1>2 DEF d
    <2>2. \A k \in d[1]..d[2] : ~u[k].ground
      BY <1>1, <1>2
    <2>3. u[d[2] + 1].ground /\ (d[1] = 1 \/ u[d[1] - 1].ground)
      BY <1>1, <1>2
    <2> QED  BY <1>1, <2>1, <2>2, <2>3, ExcursionIs
  <1>4. d \notin W!Excursions(t)
    BY <1>1, <1>2, ExcursionIs
  <1>5. \A e \in W!Excursions(u) : e \in W!Excursions(t) \/ e = d
    <2> SUFFICES ASSUME NEW e \in W!Excursions(u), e \notin W!Excursions(t)
                 PROVE  e = d
      OBVIOUS
    <2>1. /\ e = <<e[1], Len(t)>> /\ e[1] \in 1..Len(t)
          /\ \A k \in e[1]..Len(t) : ~t[k].ground
          /\ e[1] = 1 \/ t[e[1] - 1].ground
      BY ExcursionsGrow DEF u
    <2>2. ~(e[1] < s)
      <3> SUFFICES ASSUME e[1] < s PROVE FALSE
        OBVIOUS
      <3>1. s - 1 \in e[1]..Len(t) /\ s # 1
        BY <1>1, <2>1
      <3> QED  BY <2>1, <3>1
    <2>3. ~(s < e[1])
      <3> SUFFICES ASSUME s < e[1] PROVE FALSE
        OBVIOUS
      <3>1. e[1] - 1 \in s..Len(t) /\ e[1] # 1
        BY <1>1, <2>1
      <3> QED  BY <2>1, <3>1
    <2> QED  BY <2>1, <2>2, <2>3 DEF d
  <1>6. \A e \in W!Excursions(t) : e \in W!Excursions(u)
    BY ExcursionsStay DEF u
  <1> QED  BY <1>3, <1>4, <1>5, <1>6 DEF u, d

LEMMA CountedBroadcast ==
    ASSUME W!WalkAssumption, WalkSide, Counted, W!Broadcast
    PROVE  Counted'
  <1> SUFFICES ASSUME counting' PROVE Counted'
    BY DEF Counted
  <1>1. CASE walk = "idle"
    <2>1. counting /\ walk' = "idle" /\ UNCHANGED <<trail, jumps>>
      BY <1>1 DEF WalkSide, Listening, W!Broadcast, W!counters
    <2> QED  BY <2>1 DEF Counted
  <1>2. CASE walk # "idle"
    <2> DEFINE pos == position'
    <2>1. /\ counting /\ "jumps" \in listeners
          /\ trail' = Append(trail, pos) /\ walk' = walk
          /\ W!CountJump(pos)
      BY <1>2 DEF WalkSide, Listening, W!Broadcast
    <2>2. /\ trail \in Seq(W!Positions) /\ pos \in W!Positions
          /\ pos.y \in Nat /\ pos.ground \in BOOLEAN
          /\ jumps \in Nat /\ MinGain \in Nat /\ was_on_ground \in BOOLEAN
      BY PositionTypes DEF WalkSide, W!TypeOK, W!Broadcast, W!WalkAssumption
    <2>3. \A i \in 1..Len(trail) : trail[i].y \in Nat
      <3>1. \A p \in W!Positions : p.y \in Nat
        BY PositionTypes
      <3> QED  BY <2>2, <3>1
    <2>4. /\ trail' \in Seq(W!Positions) /\ Len(trail') = Len(trail) + 1
          /\ \A i \in 1..Len(trail) : trail'[i] = trail[i]
          /\ trail'[Len(trail')] = pos /\ Len(trail) \in Nat
      BY <2>1, <2>2
    <2>5. jumps = Cardinality(Risen(trail))
      BY <2>1 DEF Counted
    <2>6. IsFiniteSet(Risen(trail))
      BY <2>2, ExcursionIs, FS_Subset DEF Risen
    <2>7. \A e \in W!Excursions(trail) : W!Rise(trail', e) = W!Rise(trail, e)
      BY <2>1, <2>2, ExcursionsStay
    <2> HIDE DEF pos
    <2>8. ASSUME W!Excursions(trail') = W!Excursions(trail), jumps' = jumps
          PROVE  jumps' = Cardinality(Risen(trail'))
      <3>1. Risen(trail') = Risen(trail)
        BY <2>7, <2>8 DEF Risen
      <3> QED  BY <2>5, <2>8, <3>1
    <2>9. CASE was_on_ground
      <3>1. Landed /\ liftoff_y = W!NoHeight /\ max_y = W!NoHeight
        BY <1>2, <2>1, <2>9 DEF Counted
      <3>2. \A e \in W!Excursions(trail') : e \in W!Excursions(trail)
        <4> SUFFICES ASSUME NEW e \in W!Excursions(trail'), e \notin W!Excursions(trail)
                     PROVE  FALSE
          OBVIOUS
        <4>1. e[1] \in 1..Len(trail) /\ \A k \in e[1]..Len(trail) : ~trail[k].ground
          BY <2>1, <2>2, ExcursionsGrow
        <4>2. ~trail[Len(trail)].ground /\ trail # <<>>
          BY <2>2, <4>1
        <4> QED  BY <3>1, <4>2 DEF Landed
      <3>3. W!Excursions(trail') = W!Excursions(trail)
        BY <2>1, <2>2, <3>2, ExcursionsStay
      <3>4. CASE ~pos.ground
        <4>1. jumps' = jumps /\ liftoff_y' = pos.y /\ max_y' = pos.y /\ was_on_ground' = FALSE
          BY <2>1, <2>2, <2>9, <3>4 DEF W!CountJump
        <4> PICK s \in 1..Len(trail') : s = Len(trail')
          BY <2>4
        <4>2. s = 1 \/ trail'[s - 1].ground
          BY <2>2, <2>4, <3>1 DEF Landed
        <4>3. AloftSince(s)'
          BY <2>2, <2>4, <3>4, <4>1, <4>2 DEF AloftSince
        <4> QED  BY <2>4, <2>8, <3>3, <4>1, <4>3 DEF Counted
      <3>5. CASE pos.ground
        <4>1. UNCHANGED <<jumps, liftoff_y, max_y>> /\ was_on_ground' = pos.ground
          BY <2>1, <2>2, <2>9, <3>5 DEF W!CountJump
        <4>2. Landed'
          BY <2>4, <3>5 DEF Landed
        <4> QED  BY <2>8, <3>1, <3>3, <3>5, <4>1, <4>2 DEF Counted
      <3> QED  BY <3>4, <3>5
    <2>10. CASE ~was_on_ground
      <3>1. PICK s \in 1..Len(trail) : AloftSince(s)
        BY <1>2, <2>1, <2>10 DEF Counted
      <3>2. CASE ~pos.ground
        <4>1. /\ UNCHANGED <<jumps, liftoff_y>> /\ was_on_ground' = FALSE
              /\ max_y' = W!Highest(pos)
          BY <2>1, <2>2, <2>10, <3>2 DEF W!CountJump
        <4>2. max_y \in Nat /\ liftoff_y \in Nat
          BY <2>3, <3>1 DEF AloftSince
        <4>3. max_y' = IF max_y >= pos.y THEN max_y ELSE pos.y
          BY <2>2, <4>1, <4>2, MaxOfTwo DEF W!Highest
        <4>4. AloftSince(s)'
          <5>1. \A k \in s..Len(trail') : ~trail'[k].ground /\ trail'[k].y <= max_y'
            <6> SUFFICES ASSUME NEW k \in s..Len(trail')
                         PROVE  ~trail'[k].ground /\ trail'[k].y <= max_y'
              OBVIOUS
            <6>1. CASE k = Len(trail')
              BY <2>2, <2>4, <3>2, <4>2, <4>3, <6>1
            <6>2. CASE k # Len(trail')
              <7>1. k \in s..Len(trail) /\ k \in 1..Len(trail)
                BY <2>4, <6>2
              <7>2. ~trail[k].ground /\ trail[k].y <= max_y /\ trail[k].y \in Nat
                BY <2>3, <3>1, <7>1 DEF AloftSince
              <7> QED  BY <2>2, <2>4, <4>2, <4>3, <7>1, <7>2
            <6> QED  BY <6>1, <6>2
          <5>2. s = 1 \/ trail'[s - 1].ground
            BY <2>4, <3>1 DEF AloftSince
          <5>3. liftoff_y' = trail'[s].y
            BY <2>4, <3>1, <4>1 DEF AloftSince
          <5>4. \E k \in s..Len(trail') : max_y' = trail'[k].y
            <6>1. CASE max_y >= pos.y
              <7>1. PICK k \in s..Len(trail) : max_y = trail[k].y
                BY <3>1 DEF AloftSince
              <7>2. k \in s..Len(trail') /\ k \in 1..Len(trail)
                BY <2>4
              <7> QED  BY <2>4, <4>3, <6>1, <7>1, <7>2
            <6>2. CASE ~(max_y >= pos.y)
              BY <2>4, <4>3, <6>2
            <6> QED  BY <6>1, <6>2
          <5> QED  BY <5>1, <5>2, <5>3, <5>4 DEF AloftSince
        <4>5. W!Excursions(trail') = W!Excursions(trail)
          <5>1. \A e \in W!Excursions(trail') : e \in W!Excursions(trail)
            BY <2>1, <2>2, <3>2, ExcursionsGrow
          <5> QED  BY <2>1, <2>2, <5>1, ExcursionsStay
        <4>6. s \in 1..Len(trail')
          BY <2>4
        <4> QED  BY <2>8, <4>1, <4>4, <4>5, <4>6 DEF Counted
      <3>3. CASE pos.ground
        <4>1. /\ jumps' = jumps + (IF W!IsJump THEN 1 ELSE 0)
              /\ liftoff_y' = W!NoHeight /\ max_y' = W!NoHeight /\ was_on_ground' = TRUE
          BY <2>1, <2>2, <2>10, <3>3 DEF W!CountJump
        <4> DEFINE d == <<s, Len(trail)>>
        <4>2. /\ W!Excursions(trail') = W!Excursions(trail) \cup {d}
              /\ d \notin W!Excursions(trail)
          BY <2>1, <2>2, <3>1, <3>3, ExcursionEnds DEF AloftSince
        <4>3. W!Rise(trail', d) = max_y - liftoff_y
          <5> DEFINE S == {trail'[k].y : k \in s..Len(trail)}
          <5>1. \A k \in s..Len(trail) : k \in 1..Len(trail) /\ trail'[k] = trail[k]
            BY <2>4
          <5>2. S \subseteq Int /\ max_y \in S /\ \A n \in S : max_y >= n
            BY <2>3, <3>1, <5>1 DEF AloftSince
          <5>3. W!Max(S) = max_y
            BY <5>2, MaxIs
          <5>4. trail'[s].y = liftoff_y
            BY <2>4, <3>1 DEF AloftSince
          <5>5. d[1] = s /\ d[2] = Len(trail)
            OBVIOUS
          <5> HIDE DEF d
          <5> QED  BY <5>3, <5>4, <5>5 DEF W!Rise
        <4>4. W!IsJump <=> W!Rise(trail', d) >= MinGain
          BY <2>3, <3>1, <4>3 DEF W!IsJump, W!NoHeight, AloftSince
        <4> HIDE DEF d
        <4>5. Risen(trail') = IF W!IsJump THEN Risen(trail) \cup {d} ELSE Risen(trail)
          BY <2>7, <4>2, <4>4 DEF Risen
        <4>6. d \notin Risen(trail)
          BY <4>2 DEF Risen
        <4>7. Cardinality(Risen(trail')) = jumps'
          <5>1. CASE W!IsJump
            <6>1. Cardinality(Risen(trail) \cup {d}) = Cardinality(Risen(trail)) + 1
              BY <2>6, <4>6, FS_AddElement
            <6> QED  BY <2>5, <4>1, <4>5, <5>1, <6>1
          <5>2. CASE ~W!IsJump
            BY <2>2, <2>5, <4>1, <4>5, <5>2
          <5> QED  BY <5>1, <5>2
        <4>8. Landed'
          BY <2>4, <3>3 DEF Landed
        <4> QED  BY <4>1, <4>7, <4>8 DEF Counted
      <3> QED  BY <3>2, <3>3
    <2> QED  BY <2>2, <2>9, <2>10
  <1> QED  BY <1>1, <1>2

LEMMA WalkBegun ==
    ASSUME W!WalkAssumption, WalkSide,
           NEW k \in {"goto", "never"}, NEW watched \in SUBSET {"waypoints", "jumps"},
           W!BeginWalk(k, watched)
    PROVE  WalkInv'
  <1> USE DEF W!BeginWalk
  <1>1. walk = "idle" /\ listeners = {} /\ listeners' = watched
    BY DEF WalkSide, Listening
  <1>2. /\ trail' = <<>> /\ trail' \in Seq(W!Positions) /\ Len(trail') = 0
        /\ hits' = 0 /\ jumps' = 0 /\ prev' = W!None /\ was_on_ground' = TRUE
        /\ liftoff_y' = W!NoHeight /\ max_y' = W!NoHeight /\ walk' = k
        /\ tagging' = ("waypoints" \in watched) /\ counting' = ("jumps" \in watched)
    OBVIOUS
  <1>3. W!TypeOK'
    <2>1. walks' \in 0..MaxWalks /\ position' \in W!Positions
      BY DEF WalkSide, W!TypeOK, W!WalkAssumption
    <2>2. max_y' >= liftoff_y'
      BY <1>2 DEF W!NoHeight
    <2>3. hits' \in 0..MaxSamples /\ jumps' \in 0..MaxSamples /\ Len(trail') <= MaxSamples
      BY <1>2 DEF W!WalkAssumption
    <2>4. was_on_ground' \in BOOLEAN /\ counting' \in BOOLEAN /\ tagging' \in BOOLEAN
      BY <1>2
    <2>5. walk' \in {"goto", "never"} /\ outcome' = "none"
      OBVIOUS
    <2> HIDE DEF W!BeginWalk
    <2> QED  BY <1>1, <1>2, <2>1, <2>2, <2>3, <2>4, <2>5 DEF W!TypeOK
  <1>4. Listening' /\ CountsBounded' /\ Tagged'
    <2>1. Listening' /\ CountsBounded'
      <3>1. /\ tagging' <=> "waypoints" \in listeners'
            /\ counting' <=> "jumps" \in listeners'
            /\ walk' # "idle"
        BY <1>1, <1>2
      <3>2. CountsBounded'
        BY <1>2 DEF CountsBounded
      <3> QED  BY <3>1, <3>2 DEF Listening
    <2>2. W!Passes(trail') = {}
      BY <1>2 DEF W!Passes
    <2> QED  BY <1>2, <2>1, <2>2, FS_EmptySet DEF Tagged
  <1>5. (counting /\ walk # "idle" => (was_on_ground <=> liftoff_y = W!NoHeight))'
    BY <1>2
  <1>6. Risen(trail') = {}
    <2>1. \A e \in W!Excursions(trail') : e[1] \in 1..Len(trail')
      BY <1>2, ExcursionIs
    <2> QED  BY <1>2, <2>1 DEF Risen
  <1>7. Counted'
    BY <1>2, <1>6, FS_EmptySet DEF Counted, Landed
  <1> QED  BY <1>3, <1>4, <1>5, <1>7 DEF WalkInv, WalkSide

LEMMA WalkEnded ==
    ASSUME WalkInv, NEW r \in {"passed", "failed"}, W!EndWalk(r)
    PROVE  WalkInv'
  <1>1. /\ walk' = "idle" /\ outcome' = r /\ listeners' = {}
        /\ UNCHANGED <<position, walks, prev, hits, jumps, was_on_ground, liftoff_y, max_y,
                       counting, tagging, trail>>
    BY DEF W!EndWalk, W!ListeningAfter, W!counters
  <1>2. W!TypeOK'
    BY <1>1 DEF WalkInv, WalkSide, W!TypeOK
  <1>3. Listening' /\ CountsBounded'
    BY <1>1 DEF WalkInv, WalkSide, Listening, CountsBounded
  <1>4. Tagged' /\ Counted'
    BY <1>1 DEF WalkInv, Tagged, Counted
  <1> QED  BY <1>1, <1>2, <1>3, <1>4 DEF WalkInv, WalkSide

LEMMA WalkStep ==
    ASSUME W!WalkAssumption, WalkInv, W!Next
    PROVE  WalkInv'
  <1>1. CASE W!Broadcast
    BY <1>1, SideBroadcast, TaggedBroadcast, CountedBroadcast DEF WalkInv
  <1>2. CASE \E k \in {"goto", "never"}, watched \in SUBSET {"waypoints", "jumps"} :
                W!BeginWalk(k, watched)
    BY <1>2, WalkBegun DEF WalkInv
  <1>3. CASE W!PollArrived
    BY <1>3, WalkEnded DEF W!PollArrived
  <1>4. CASE W!TimesOut
    BY <1>4, WalkEnded DEF W!TimesOut
  <1> QED  BY <1>1, <1>2, <1>3, <1>4 DEF W!Next

LEMMA WalkIsWatched ==
    ASSUME W!WalkAssumption, WalkInv
    PROVE  W!TypeOK /\ W!HitsArePasses /\ W!JumpsAreExcursions
  <1>1. W!HitsArePasses
    BY SameCardinality DEF WalkInv, Tagged, W!HitsArePasses
  <1>2. W!JumpsAreExcursions
    <2>1. counting => jumps = Cardinality(Risen(trail))
      BY DEF WalkInv, Counted
    <2>2. Risen(trail) = {e \in W!Excursions(trail) : W!Rise(trail, e) >= MinGain}
      BY DEF Risen
    <2> HIDE DEF Risen
    <2> QED  BY <2>1, <2>2, SameCardinality DEF W!JumpsAreExcursions
  <1> QED  BY <1>1, <1>2 DEF WalkInv, WalkSide

WalkOK == about = "walk" => WalkInv

LEMMA WalkHolds == MCSpec => []WalkOK
  <1>1. W!WalkAssumption
    BY PartsAssumption
  <1>2. MCInit => WalkOK
    BY <1>1, WalkInit DEF MCInit, WalkOK
  <1>3. WalkOK /\ [MCNext]_<<about, players, stacks, walking, arriving, vars>> => WalkOK'
    <2> SUFFICES ASSUME WalkOK, [MCNext]_<<about, players, stacks, walking, arriving, vars>>,
                        about' = "walk"
                 PROVE  WalkInv'
      BY DEF WalkOK
    <2>1. CASE MCNext
      BY <1>1, <2>1, WalkStep DEF MCNext, WalkOK
    <2>2. CASE UNCHANGED <<about, players, stacks, walking, arriving, vars>>
      <3>1. /\ about' = about
            /\ UNCHANGED <<position, listeners, walk, outcome, walks, prev, hits, jumps,
                           was_on_ground, liftoff_y, max_y, counting, tagging, trail>>
        BY <2>2 DEF walking
      <3> QED
        BY <3>1 DEF WalkOK, WalkInv, WalkSide, W!TypeOK, Listening, CountsBounded, Tagged,
                    Counted, Landed, AloftSince
    <2> QED  BY <2>1, <2>2
  <1> QED  BY <1>2, <1>3, PTL DEF MCSpec

\* A waypoint's hits are the samples of its walk that the bot reached by a way through
\* the sphere around the waypoint, wherever the samples, the waypoint and its radius
\* are: goto_with_waypoints' listener and the three cases of _segment_hits_sphere.
THEOREM WaypointsAreNoticed == MCSpec => []HitsArePasses
  <1>1. WalkOK => HitsArePasses
    BY PartsAssumption, WalkIsWatched DEF WalkOK, HitsArePasses
  <1> QED  BY <1>1, WalkHolds, PTL

\* The jump counter agrees with the samples it was fed: it counts the stretches off
\* the ground that rose high enough, each once and when it ends.
THEOREM JumpsAreCounted == MCSpec => []JumpsAreExcursions
  <1>1. WalkOK => JumpsAreExcursions
    BY PartsAssumption, WalkIsWatched DEF WalkOK, JumpsAreExcursions
  <1> QED  BY <1>1, WalkHolds, PTL

-----------------------------------------------------------------------------
(* The entity tracker.  What EntitiesProofs proves of Entities holds of the *)
(* part of MC_World that instantiates it.                                  *)

EP == INSTANCE EntitiesProofs WITH
        NameOf <- MCNameOf, Nobody <- nobody, MaxEvents <- MaxEntityEvents

LEMMA SameNames == E!NamesAssumption => EP!NamesAssumption
  BY DEF E!NamesAssumption, EP!NamesAssumption, E!Name, EP!Name, E!Range, EP!Range

LEMMA SameInit == E!Init => EP!Init
  BY DEF E!Init, EP!Init, E!Nothing, EP!Nothing

LEMMA SameNext == E!Next => EP!Next
  <1>1. E!WorldChanges <=> EP!WorldChanges
    BY DEF E!WorldChanges, EP!WorldChanges, E!tracker, EP!tracker
  <1>2. E!LosesEvents <=> EP!LosesEvents
    BY DEF E!LosesEvents, EP!LosesEvents, E!mod, EP!mod, E!tracker, EP!tracker
  <1>3. ASSUME NEW i \in Id
        PROVE  /\ E!EmitsAdd(i) <=> EP!EmitsAdd(i)
               /\ E!EmitsRemove(i) <=> EP!EmitsRemove(i)
               /\ E!EmitsMove(i) <=> EP!EmitsMove(i)
    BY DEF E!EmitsAdd, EP!EmitsAdd, E!EmitsRemove, EP!EmitsRemove, E!EmitsMove, EP!EmitsMove,
           E!Emit, EP!Emit, E!tracker, EP!tracker
  <1>4. E!HandleRemove <=> EP!HandleRemove
    BY DEF E!HandleRemove, EP!HandleRemove, E!mod, EP!mod, E!ForgetName, EP!ForgetName,
           E!Without, EP!Without, E!Restrict, EP!Restrict
  <1>5. E!HandleChange <=> EP!HandleChange
    BY DEF E!HandleChange, EP!HandleChange, E!mod, EP!mod, E!With, EP!With,
           E!NameAfter, EP!NameAfter
  <1> QED  BY <1>1, <1>2, <1>3, <1>4, <1>5 DEF E!Next, EP!Next

LEMMA SameProperties ==
    /\ EP!TypeOK => E!TypeOK
    /\ EP!MirrorsPlayers => E!MirrorsPlayers
    /\ EP!FoundUnlessOverlapped => E!FoundUnlessOverlapped
  <1>1. EP!TypeOK => E!TypeOK
     BY DEF EP!TypeOK, E!TypeOK, EP!Event, E!Event, EP!Partial, E!Partial, EP!Name, E!Name,
            E!Range, EP!Range
  <1>2. EP!MirrorsPlayers => E!MirrorsPlayers
     BY DEF EP!MirrorsPlayers, E!MirrorsPlayers, EP!UpToDate, E!UpToDate
  <1>3. EP!FoundUnlessOverlapped => E!FoundUnlessOverlapped
     BY DEF EP!FoundUnlessOverlapped, E!FoundUnlessOverlapped, EP!UpToDate, E!UpToDate,
            EP!FindByName, E!FindByName
  <1> QED  BY <1>1, <1>2, <1>3

EntitiesOK == about = "entities" => EP!TypeInv /\ EP!Ahead

LEMMA EntitiesHold == MCSpec => []EntitiesOK
  <1>1. EP!NamesAssumption
    BY PartsAssumption, SameNames
  <1>2. MCInit => EntitiesOK
    BY <1>1, SameInit, EP!InitTypes, EP!InitAhead DEF MCInit, EntitiesOK
  <1>3. EntitiesOK /\ [MCNext]_<<about, players, stacks, walking, arriving, vars>> => EntitiesOK'
    <2> SUFFICES ASSUME EntitiesOK,
                        [MCNext]_<<about, players, stacks, walking, arriving, vars>>,
                        about' = "entities"
                 PROVE  (EP!TypeInv /\ EP!Ahead)'
      BY DEF EntitiesOK
    <2>1. about = "entities" /\ (EP!Next \/ UNCHANGED players)
      BY SameNext DEF MCNext
    <2>2. [EP!Next]_(EP!vars)
      BY <2>1 DEF players, EP!vars, EP!mod, EP!tracker
    <2>3. EP!TypeInv /\ EP!Ahead
      BY <2>1 DEF EntitiesOK
    <2> QED  BY <1>1, <2>2, <2>3, EP!NextTypes, EP!NextAhead
  <1> QED  BY <1>2, <1>3, PTL DEF MCSpec

\* Once the tracker has handled every event of a connection that lost none, it
\* knows exactly the players in sight, by their own names.
THEOREM PlayersAreMirrored == MCSpec => []MirrorsPlayers
  <1>1. EntitiesOK => MirrorsPlayers
    BY EP!AheadMirrors, SameProperties DEF EntitiesOK, MirrorsPlayers
  <1> QED  BY <1>1, EntitiesHold, PTL

\* find_player finds a player in sight once the events have been handled, except
\* after a respawn whose events came new entity first, until that entity moves.
THEOREM PlayersAreFound == MCSpec => []FoundUnlessOverlapped
  <1>1. EntitiesOK => FoundUnlessOverlapped
    BY EP!AheadFinds, SameProperties DEF EntitiesOK, FoundUnlessOverlapped
  <1> QED  BY <1>1, EntitiesHold, PTL

-----------------------------------------------------------------------------
(* Where a test starts.  Positions flow: a teleport is ordered, then lands, *)
(* then the bot is there, then a broadcast or a reply says so.             *)

StopPlaces == {"origin", "holding", "start"}
Here == A!Stops(kind)[stop]

ProperOrder ==
    [to : {"idle"}, at : {"between"}] \cup [to : {"teleport"}, at : StopPlaces]
        \cup [to : {"goto"}, at : {"target", "end"}] \cup [to : {"query"}, id : 1..MaxAsked]

\* Only setups and teardowns teleport, and only goto makes the bot walk.
FlowTyped ==
    /\ place \in A!Places /\ reported \in A!Places /\ shown \in A!Places \cup {A!Unknown}
    /\ heading \in {A!Unknown, "target", "end"}
    /\ landing \in Seq(StopPlaces) /\ orders \in Seq(ProperOrder) /\ wire \in Seq(A!Report)
    /\ asked \in 0..MaxAsked /\ losses \in 0..MaxLosses

\* The stop a setup is at; it is the last one when the setup is done.
SetupTyped ==
    /\ at \in {"over", "resetting", "teleporting", "asking", "waiting", "ready", "walking",
               "nudging", "clearing"}
    /\ kind \in {"goto", "schematic"} /\ stop \in 1..2 /\ stop <= Len(A!Stops(kind))
    /\ reply \in A!Places \cup {A!Unknown}
    /\ tests \in 0..MaxTests /\ result \in {"none", "passed", "failed"}
    /\ reached \in BOOLEAN /\ foreign \in BOOLEAN /\ moving \in BOOLEAN /\ abandoned \in BOOLEAN
    /\ at = "resetting" => stop = 1
    /\ at \in {"ready", "walking"} => stop = Len(A!Stops(kind))
    /\ at = "nudging" /\ ~abandoned => stop = Len(A!Stops(kind))
    /\ at \in {"nudging", "clearing"} => kind = "schematic"
    /\ at = "waiting" => asked > 0
ArrivalTyped == FlowTyped /\ SetupTyped

\* None of the places B is still to be read, to land or to be handled.
NoneToLand(B) == \A i \in DOMAIN landing : landing[i] \notin B
NoneToHandle(B) == \A i \in DOMAIN orders : orders[i].to = "teleport" => orders[i].at \notin B
NoneOf(B) ==
    /\ \A i \in DOMAIN wire : wire[i].at \notin B
    /\ place \notin B
    /\ NoneToLand(B) /\ NoneToHandle(B)

\* None of the places B follows the place a: once a is read, none of B is left.
NoneAfter(a, B) ==
    /\ \A i \in DOMAIN wire : wire[i].at = a =>
          /\ \A j \in (i + 1)..Len(wire) : wire[j].at \notin B
          /\ place \notin B /\ NoneToLand(B) /\ NoneToHandle(B)
    /\ place = a => NoneToLand(B) /\ NoneToHandle(B)
    /\ \A i \in DOMAIN landing : landing[i] = a =>
          /\ \A j \in (i + 1)..Len(landing) : landing[j] \notin B
          /\ NoneToHandle(B)
    /\ \A i \in DOMAIN orders : orders[i].to = "teleport" /\ orders[i].at = a =>
          \A j \in (i + 1)..Len(orders) : orders[j].to = "teleport" => orders[j].at \notin B

\* What a test may still meet of the teleports before its own.  "origin" and
\* "start" are never behind a later "holding": only goto tests, which no test
\* overtakes, go to "origin".
Behind ==
    /\ \A a \in StopPlaces : Here = a =>
          /\ at \in {"resetting", "asking", "waiting"} => NoneAfter(a, StopPlaces \ {a})
          /\ at = "teleporting" /\ stop = 1 => NoneAfter(a, StopPlaces \ {a})
          /\ at = "waiting" /\ reply = a => NoneOf(StopPlaces \ {a})
          /\ at \in {"ready", "walking", "nudging"} => NoneOf(StopPlaces \ {a})
    /\ at = "teleporting" /\ stop = 2 => NoneOf({"origin", "start"})
    /\ at = "over" /\ kind = "goto" => NoneOf({"holding", "start"})
    /\ at \in {"clearing", "over"} /\ kind = "schematic" =>
          NoneOf({"origin"}) /\ NoneAfter("holding", {"start"})

\* The bot stands, or will once the mod has handled the orders under way.
Stopping ==
    \/ heading = A!Unknown /\ \A i \in DOMAIN orders : orders[i].to # "goto"
    \/ \E i \in DOMAIN orders :
          orders[i].to = "idle" /\ \A j \in (i + 1)..Len(orders) : orders[j].to # "goto"
Stands ==
    at \in {"teleporting", "asking", "waiting", "ready"} /\ ~moving => Stopping

\* The latest query is the last order; no reply is to a later one.
Numbered ==
    /\ \A i \in DOMAIN orders : orders[i].to = "query" =>
          orders[i].id <= asked /\ (at = "waiting" /\ orders[i].id = asked => i = Len(orders))
    /\ \A i \in DOMAIN wire : wire[i].id <= asked

\* The reply to the latest query comes when all orders are handled, and what it
\* says holds on: nothing is left that could move the bot away.
Answered(i) == i \in DOMAIN wire /\ wire[i].id = asked
Confirming ==
    /\ at = "waiting" /\ ((reply # A!Unknown /\ ~foreign) \/ \E i \in DOMAIN wire : Answered(i))
          => orders = <<>>
    /\ at = "waiting" /\ reply = Here /\ ~foreign /\ ~moving => place = Here
    /\ at = "waiting" /\ ~moving =>
          \A i \in DOMAIN wire : Answered(i) /\ wire[i].at = Here => place = Here
    /\ at = "ready" /\ ~foreign => orders = <<>> /\ (~moving => place = Here)

ArrivalInv ==
    /\ ArrivalTyped
    /\ Stands
    /\ Numbered
    /\ ~abandoned => Behind /\ Confirming

LEMMA TailIs ==
    ASSUME NEW S, NEW s \in Seq(S), s # <<>>
    PROVE  /\ Head(s) = s[1] /\ s[1] \in S /\ 1 \in DOMAIN s
           /\ Tail(s) \in Seq(S) /\ Len(Tail(s)) = Len(s) - 1
           /\ DOMAIN Tail(s) = 1..(Len(s) - 1) /\ DOMAIN s = 1..Len(s) /\ Len(s) \in Nat \ {0}
           /\ \A i \in DOMAIN Tail(s) : i + 1 \in DOMAIN s /\ Tail(s)[i] = s[i + 1]
  OBVIOUS

LEMMA AppendIs ==
    ASSUME NEW S, NEW s \in Seq(S), NEW x \in S
    PROVE  /\ Append(s, x) \in Seq(S) /\ Len(Append(s, x)) = Len(s) + 1
           /\ DOMAIN Append(s, x) = 1..(Len(s) + 1) /\ DOMAIN s = 1..Len(s) /\ Len(s) \in Nat
           /\ Append(s, x)[Len(s) + 1] = x
           /\ \A i \in DOMAIN s : Append(s, x)[i] = s[i]
  OBVIOUS

LEMMA OrdersTyped ==
    /\ ProperOrder \subseteq A!Order
    /\ \A o \in ProperOrder :
          /\ o.to \in {"idle", "teleport", "goto", "query"}
          /\ o.to = "teleport" => o.at \in StopPlaces
          /\ o.to = "goto" => o.at \in {"target", "end"}
          /\ o.to = "query" => o.id \in 1..MaxAsked
    /\ [to |-> "idle", at |-> "between"] \in ProperOrder
    /\ \A a \in StopPlaces : [to |-> "teleport", at |-> a] \in ProperOrder
    /\ \A a \in {"target", "end"} : [to |-> "goto", at |-> a] \in ProperOrder
    /\ \A n \in 1..MaxAsked : [to |-> "query", id |-> n] \in ProperOrder
  <1>1. ProperOrder \subseteq A!Order
    BY DEF ProperOrder, A!Order, StopPlaces, A!Places
  <1> QED  BY <1>1 DEF ProperOrder

\* The places of the setups and of the goals.
LEMMA PlacesAre ==
    /\ \A k \in {"goto", "schematic"} :
          /\ A!Goal(k) \in {"target", "end"}
          /\ Len(A!Stops(k)) \in 1..2 /\ (Len(A!Stops(k)) = 2 <=> k = "schematic")
          /\ \A i \in 1..2 : i <= Len(A!Stops(k)) => A!Stops(k)[i] \in StopPlaces
    /\ A!Stops("goto")[1] = "origin"
    /\ A!Stops("schematic")[1] = "holding" /\ A!Stops("schematic")[2] = "start"
    /\ StopPlaces \subseteq A!Places /\ {"target", "end", "between"} \subseteq A!Places
    /\ A!Unknown \notin A!Places
  BY DEF A!Goal, A!Stops, StopPlaces, A!Places, A!Unknown

LEMMA HereIs == ArrivalTyped => Here \in StopPlaces
  BY PlacesAre DEF ArrivalTyped, SetupTyped, Here

LEMMA ArrivalTypesOK == ArrivalTyped => A!TypeOK
  <1> SUFFICES ASSUME ArrivalTyped PROVE A!TypeOK
    OBVIOUS
  <1> USE DEF ArrivalTyped, FlowTyped, SetupTyped
  <1>1. landing \in Seq(A!Places)
    BY PlacesAre
  <1>2. orders \in Seq(A!Order)
    BY OrdersTyped
  <1>3. heading \in A!Places \cup {A!Unknown}
    BY PlacesAre
  <1>4. {reached, foreign, moving, abandoned} \subseteq BOOLEAN
    OBVIOUS
  <1> QED  BY <1>1, <1>2, <1>3, <1>4 DEF A!TypeOK

LEMMA ArrivalInit == A!BoundsAssumption /\ A!Init => ArrivalInv
  <1> SUFFICES ASSUME A!BoundsAssumption, A!Init PROVE ArrivalInv
    OBVIOUS
  <1> USE DEF A!Init, A!BoundsAssumption
  <1>1. FlowTyped
    <2>1. wire \in Seq(A!Report)
      BY DEF A!Report, A!Places
    <2>2. landing \in Seq(StopPlaces) /\ orders \in Seq(ProperOrder)
      OBVIOUS
    <2>3. asked \in 0..MaxAsked /\ losses \in 0..MaxLosses
      OBVIOUS
    <2> QED  BY <2>1, <2>2, <2>3, PlacesAre DEF FlowTyped
  <1>2. SetupTyped
    <2>1. tests \in 0..MaxTests /\ stop <= Len(A!Stops(kind))
      BY PlacesAre
    <2>2. /\ reached \in BOOLEAN /\ foreign \in BOOLEAN
          /\ moving \in BOOLEAN /\ abandoned \in BOOLEAN
      OBVIOUS
    <2>3. at = "over" /\ kind = "goto" /\ stop = 1 /\ reply = A!Unknown /\ result = "none"
      OBVIOUS
    <2> HIDE DEF A!Init
    <2> QED  BY <2>1, <2>2, <2>3 DEF SetupTyped
  <1>3. Stands /\ Numbered
    BY DEF Stands, Numbered
  <1>4. Behind /\ Confirming
    BY DEF Behind, Confirming, NoneOf, NoneAfter, NoneToLand, NoneToHandle
  <1> QED  BY <1>1, <1>2, <1>3, <1>4 DEF ArrivalInv, ArrivalTyped

LEMMA SendTyped ==
    ASSUME A!BoundsAssumption, FlowTyped, NEW o \in ProperOrder, A!Send(o)
    PROVE  orders' \in Seq(ProperOrder) /\ losses' \in 0..MaxLosses
  <1>1. CASE A!Delivered(o)
    BY <1>1, AppendIs DEF FlowTyped, A!Delivered
  <1>2. CASE A!Dropped
    BY <1>2 DEF FlowTyped, A!Dropped, A!BoundsAssumption
  <1> QED  BY <1>1, <1>2 DEF A!Send

LEMMA ArrivalTypes ==
    ASSUME A!BoundsAssumption, ArrivalTyped, A!Next
    PROVE  ArrivalTyped'
  <1> USE DEF ArrivalTyped, A!game, A!net, A!test, A!history, A!BoundsAssumption
  <1>1. CASE A!ModHandles
    <2>1. FlowTyped'
      <3> DEFINE o == Head(orders)
      <3>1. orders # <<>> /\ orders' = Tail(orders)
        BY <1>1 DEF A!ModHandles
      <3>2. o \in ProperOrder /\ orders' \in Seq(ProperOrder)
        BY <3>1, TailIs DEF FlowTyped
      <3>3. UNCHANGED <<place, reported, shown, asked, losses>>
        BY <1>1 DEF A!ModHandles
      <3>4. CASE o.to \in {"idle", "goto"}
        BY <1>1, <3>2, <3>3, <3>4, OrdersTyped DEF A!ModHandles, FlowTyped
      <3>5. CASE o.to = "teleport"
        <4>1. landing' = Append(landing, o.at) /\ o.at \in StopPlaces
          BY <1>1, <3>2, <3>5, OrdersTyped DEF A!ModHandles
        <4>2. UNCHANGED <<heading, wire>>
          BY <1>1, <3>5 DEF A!ModHandles
        <4> QED  BY <3>2, <3>3, <4>1, <4>2, AppendIs DEF FlowTyped
      <3>6. CASE o.to = "query"
        <4>1. wire' = Append(wire, [id |-> o.id, at |-> place]) /\ o.id \in 1..MaxAsked
          BY <1>1, <3>2, <3>6, OrdersTyped DEF A!ModHandles
        <4>2. [id |-> o.id, at |-> place] \in A!Report
          BY <4>1 DEF A!Report, FlowTyped
        <4>3. UNCHANGED <<heading, landing>>
          BY <1>1, <3>6 DEF A!ModHandles
        <4> QED  BY <3>2, <3>3, <4>1, <4>2, <4>3, AppendIs DEF FlowTyped
      <3> QED  BY <3>2, <3>4, <3>5, <3>6, OrdersTyped
    <2>2. SetupTyped'
      BY <1>1, PlacesAre DEF SetupTyped, A!ModHandles
    <2> QED  BY <2>1, <2>2
  <1>2. CASE A!TeleportLands
    <2>1. FlowTyped'
      BY <1>2, PlacesAre, OrdersTyped, TailIs DEF FlowTyped, A!TeleportLands, A!Moves
    <2>2. SetupTyped'
      BY <1>2, PlacesAre DEF SetupTyped, A!TeleportLands, A!Moves
    <2> QED  BY <2>1, <2>2
  <1>3. CASE A!BotWalks
    <2>1. FlowTyped'
      BY <1>3, PlacesAre, OrdersTyped, TailIs DEF FlowTyped, A!BotWalks, A!Moves
    <2>2. SetupTyped'
      BY <1>3, PlacesAre DEF SetupTyped, A!BotWalks, A!Moves
    <2> QED  BY <2>1, <2>2
  <1>4. CASE A!ModBroadcasts
    <2>1. FlowTyped'
      <3>1. [id |-> 0, at |-> place] \in A!Report
        BY DEF FlowTyped, A!Report
      <3> QED  BY <1>4, <3>1, AppendIs DEF FlowTyped, A!ModBroadcasts
    <2>2. SetupTyped'
      BY <1>4, PlacesAre DEF SetupTyped, A!ModBroadcasts
    <2> QED  BY <2>1, <2>2
  <1>5. CASE A!ConnectionLost
    <2>1. FlowTyped'
      BY <1>5, PlacesAre, OrdersTyped, TailIs DEF FlowTyped, A!ConnectionLost
    <2>2. SetupTyped'
      BY <1>5, PlacesAre DEF SetupTyped, A!ConnectionLost
    <2> QED  BY <2>1, <2>2
  <1>6. CASE A!ReadPosition
    <2>1. FlowTyped'
      <3>1. wire # <<>> /\ wire' = Tail(wire) /\ shown' = Head(wire).at
        BY <1>6 DEF A!ReadPosition
      <3>2. wire' \in Seq(A!Report) /\ Head(wire) \in A!Report
        BY <3>1, TailIs DEF FlowTyped
      <3>3. shown' \in A!Places
        BY <3>1, <3>2 DEF A!Report
      <3> QED  BY <1>6, <3>2, <3>3 DEF FlowTyped, A!ReadPosition
    <2>2. SetupTyped'
      BY <1>6, PlacesAre DEF SetupTyped, A!ReadPosition
    <2> QED  BY <2>1, <2>2
  <1>7. CASE A!ReadReply
    <2>1. FlowTyped'
      BY <1>7, PlacesAre, OrdersTyped, TailIs DEF FlowTyped, A!ReadReply
    <2>2. SetupTyped'
      <3>1. UNCHANGED <<at, kind, stop, tests, result, reached, moving, abandoned, asked>>
        BY <1>7 DEF A!ReadReply
      <3>2. Head(wire) \in A!Report
        BY <1>7, TailIs DEF A!ReadReply, FlowTyped
      <3>3. reply' \in A!Places \cup {A!Unknown}
        BY <1>7, <3>2 DEF A!ReadReply, A!Report, SetupTyped
      <3>4. foreign' \in BOOLEAN
        BY <1>7 DEF A!ReadReply, SetupTyped
      <3> QED  BY <3>1, <3>3, <3>4 DEF SetupTyped
    <2> QED  BY <2>1, <2>2
  <1>8. ASSUME NEW k \in Kinds, A!Begin(k) PROVE ArrivalTyped'
    <2>1. FlowTyped'
      BY <1>8, PlacesAre, OrdersTyped, TailIs DEF FlowTyped, A!Begin
    <2>2. SetupTyped'
      <3>1. at' = "resetting" /\ kind' = k /\ stop' = 1 /\ result' = "none" /\ foreign' = FALSE
        BY <1>8 DEF A!Begin
      <3>2. tests' \in 0..MaxTests
        BY <1>8 DEF A!Begin, SetupTyped
      <3>3. kind' \in {"goto", "schematic"} /\ stop' \in 1..2 /\ stop' <= Len(A!Stops(kind'))
        BY <3>1, PlacesAre
      <3>4. UNCHANGED <<reply, reached, moving, abandoned>>
        BY <1>8 DEF A!Begin
      <3> HIDE DEF A!BoundsAssumption
      <3> QED  BY <3>1, <3>2, <3>3, <3>4 DEF SetupTyped
    <2> QED  BY <2>1, <2>2
  <1>9. CASE A!ResetToIdle
    <2>1. FlowTyped'
      <3>1. [to |-> "idle", at |-> "between"] \in ProperOrder
        BY OrdersTyped
      <3>2. A!Send([to |-> "idle", at |-> "between"])
        BY <1>9 DEF A!ResetToIdle, A!Send, A!ResetsFirst
      <3>3. UNCHANGED <<place, reported, shown, heading, landing, wire, asked>>
        BY <1>9 DEF A!ResetToIdle
      <3> QED  BY <3>1, <3>2, <3>3, SendTyped DEF FlowTyped
    <2>2. SetupTyped'
      BY <1>9, PlacesAre DEF SetupTyped, A!ResetToIdle, A!Delivered, A!Dropped
    <2> QED  BY <2>1, <2>2
  <1>10. CASE A!SendTeleport
    <2>1. FlowTyped'
      <3>1. [to |-> "teleport", at |-> A!Stops(kind)[stop]] \in ProperOrder
        BY PlacesAre, OrdersTyped DEF SetupTyped
      <3>2. A!Send([to |-> "teleport", at |-> A!Stops(kind)[stop]])
        BY <1>10 DEF A!SendTeleport, A!Send
      <3>3. UNCHANGED <<place, reported, shown, heading, landing, wire, asked>>
        BY <1>10 DEF A!SendTeleport
      <3> QED  BY <3>1, <3>2, <3>3, SendTyped DEF FlowTyped
    <2>2. SetupTyped'
      BY <1>10, PlacesAre DEF SetupTyped, A!SendTeleport, A!Send, A!Delivered, A!Dropped
    <2> QED  BY <2>1, <2>2
  <1>11. CASE A!AskPosition
    <2>1. FlowTyped'
      <3>1. [to |-> "query", id |-> asked + 1] \in ProperOrder
        BY <1>11, OrdersTyped DEF A!AskPosition, FlowTyped
      <3>2. A!Send([to |-> "query", id |-> asked + 1])
        BY <1>11 DEF A!AskPosition, A!Send
      <3>3. UNCHANGED <<place, reported, shown, heading, landing, wire>>
        BY <1>11 DEF A!AskPosition
      <3>4. asked' \in 0..MaxAsked
        BY <1>11 DEF A!AskPosition, FlowTyped
      <3> QED  BY <3>1, <3>2, <3>3, <3>4, SendTyped DEF FlowTyped
    <2>2. SetupTyped'
      <3>1. asked' > 0 /\ reply' = A!Unknown /\ at' = "waiting"
        BY <1>11 DEF A!AskPosition, FlowTyped
      <3>2. UNCHANGED <<kind, stop, tests, result, reached, foreign, moving, abandoned>>
        BY <1>11 DEF A!AskPosition
      <3> QED  BY <3>1, <3>2 DEF SetupTyped
    <2> QED  BY <2>1, <2>2
  <1>12. CASE A!AskAgain
    <2>1. FlowTyped'
      BY <1>12, PlacesAre, OrdersTyped, TailIs DEF FlowTyped, A!AskAgain
    <2>2. SetupTyped'
      BY <1>12, PlacesAre DEF SetupTyped, A!AskAgain
    <2> QED  BY <2>1, <2>2
  <1>13. CASE A!Confirmed
    <2>1. FlowTyped'
      BY <1>13, PlacesAre, OrdersTyped, TailIs DEF FlowTyped, A!Confirmed
    <2>2. SetupTyped'
      <3>1. UNCHANGED <<kind, reply, tests, result, foreign, moving, abandoned>>
        BY <1>13 DEF A!Confirmed
      <3>2. CASE stop < Len(A!Stops(kind))
        <4>1. at' = "teleporting" /\ stop' = stop + 1 /\ UNCHANGED reached
          BY <1>13, <3>2 DEF A!Confirmed
        <4>2. stop' \in 1..2 /\ stop' <= Len(A!Stops(kind))
          <5>1. Len(A!Stops(kind)) \in 1..2 /\ stop \in 1..2
            BY PlacesAre DEF SetupTyped
          <5>2. PICK n \in 1..2 : n = Len(A!Stops(kind))
            BY <5>1
          <5>3. stop < n /\ stop' = stop + 1
            BY <3>2, <4>1, <5>2
          <5> QED  BY <5>1, <5>2, <5>3
        <4> QED  BY <3>1, <4>1, <4>2 DEF SetupTyped
      <3>3. CASE ~(stop < Len(A!Stops(kind)))
        <4>1. at' = "ready" /\ reached' = FALSE /\ UNCHANGED stop
          BY <1>13, <3>3 DEF A!Confirmed
        <4>2. stop = Len(A!Stops(kind))
          BY <3>3, PlacesAre DEF SetupTyped
        <4> QED  BY <3>1, <4>1, <4>2 DEF SetupTyped
      <3> QED  BY <3>2, <3>3
    <2> QED  BY <2>1, <2>2
  <1>14. CASE A!SendGoto
    <2>1. FlowTyped'
      <3>1. [to |-> "goto", at |-> A!Goal(kind)] \in ProperOrder
        BY PlacesAre, OrdersTyped DEF SetupTyped
      <3>2. A!Send([to |-> "goto", at |-> A!Goal(kind)])
        BY <1>14 DEF A!SendGoto, A!Send
      <3>3. UNCHANGED <<place, reported, shown, heading, landing, wire, asked>>
        BY <1>14 DEF A!SendGoto
      <3> QED  BY <3>1, <3>2, <3>3, SendTyped DEF FlowTyped
    <2>2. SetupTyped'
      BY <1>14, PlacesAre DEF SetupTyped, A!SendGoto, A!Send, A!Delivered, A!Dropped
    <2> QED  BY <2>1, <2>2
  <1>15. CASE A!Arrive
    <2>1. FlowTyped'
      BY <1>15, PlacesAre, OrdersTyped, TailIs DEF FlowTyped, A!Arrive, A!AfterTest
    <2>2. SetupTyped'
      BY <1>15, PlacesAre DEF SetupTyped, A!Arrive, A!AfterTest
    <2> QED  BY <2>1, <2>2
  <1>16. CASE A!GiveUp
    <2>1. FlowTyped'
      BY <1>16, PlacesAre, OrdersTyped, TailIs DEF FlowTyped, A!GiveUp, A!AfterTest
    <2>2. SetupTyped'
      BY <1>16, PlacesAre DEF SetupTyped, A!GiveUp, A!AfterTest
    <2> QED  BY <2>1, <2>2
  <1>17. CASE A!Nudge
    <2>1. FlowTyped'
      <3> DEFINE idle == [to |-> "idle", at |-> "between"]
                 back == [to |-> "teleport", at |-> "holding"]
      <3>1. idle \in ProperOrder /\ back \in ProperOrder
        BY OrdersTyped DEF StopPlaces
      <3>2. UNCHANGED <<place, reported, shown, heading, landing, wire, asked>>
        BY <1>17 DEF A!Nudge
      <3>3. \/ orders' = orders \o <<idle, back>> /\ UNCHANGED losses
            \/ A!Dropped
        BY <1>17 DEF A!Nudge
      <3> HIDE DEF idle, back
      <3>4. orders' \in Seq(ProperOrder) /\ losses' \in 0..MaxLosses
        <4>1. CASE orders' = orders \o <<idle, back>> /\ UNCHANGED losses
          <5>1. <<idle, back>> \in Seq(ProperOrder)
            BY <3>1
          <5> QED  BY <4>1, <5>1 DEF FlowTyped
        <4>2. CASE A!Dropped
          BY <4>2 DEF FlowTyped, A!Dropped
        <4> QED  BY <3>3, <4>1, <4>2
      <3> QED  BY <3>2, <3>4 DEF FlowTyped
    <2>2. SetupTyped'
      BY <1>17, PlacesAre DEF SetupTyped, A!Nudge, A!Dropped
    <2> QED  BY <2>1, <2>2
  <1>18. CASE A!NudgeAgain
    <2>1. FlowTyped'
      <3>1. [to |-> "teleport", at |-> "holding"] \in ProperOrder
        BY OrdersTyped DEF StopPlaces
      <3>2. A!Send([to |-> "teleport", at |-> "holding"])
        BY <1>18 DEF A!NudgeAgain, A!Send
      <3>3. UNCHANGED <<place, reported, shown, heading, landing, wire, asked>>
        BY <1>18 DEF A!NudgeAgain
      <3> QED  BY <3>1, <3>2, <3>3, SendTyped DEF FlowTyped
    <2>2. SetupTyped'
      BY <1>18, PlacesAre DEF SetupTyped, A!NudgeAgain, A!Send, A!Delivered, A!Dropped
    <2> QED  BY <2>1, <2>2
  <1> QED  BY <1>1, <1>2, <1>3, <1>4, <1>5, <1>6, <1>7, <1>8, <1>9, <1>10, <1>11, <1>12, <1>13, <1>14, <1>15, <1>16, <1>17, <1>18 DEF A!Next

\* A broadcast or a reply says what is ahead of all that is still to land.
LEMMA Said ==
    ASSUME NEW a \in StopPlaces, NEW B \in SUBSET StopPlaces, a \notin B,
           UNCHANGED <<place, landing>>,
           DOMAIN wire' = 1..(Len(wire) + 1), DOMAIN wire = 1..Len(wire),
           Len(wire) \in Nat, Len(wire') = Len(wire) + 1, wire'[Len(wire) + 1].at = place,
           \A i \in DOMAIN wire : wire'[i] = wire[i],
           NoneToHandle(B) => NoneToHandle(B)',
           \A i \in DOMAIN orders' : orders'[i].to = "teleport" /\ orders'[i].at = a =>
               \A j \in (i + 1)..Len(orders') :
                   NoneAfter(a, B) /\ orders'[j].to = "teleport" => orders'[j].at \notin B
    PROVE  /\ NoneAfter(a, B) => NoneAfter(a, B)'
           /\ NoneOf(B) => NoneOf(B)'
  <1>1. NoneToLand(B)' <=> NoneToLand(B)
    BY DEF NoneToLand
  <1>2. NoneOf(B) => NoneOf(B)'
    BY <1>1 DEF NoneOf
  <1>3. ASSUME NoneAfter(a, B) PROVE NoneAfter(a, B)'
    <2>1. place = a => NoneToLand(B) /\ NoneToHandle(B)
      BY <1>3 DEF NoneAfter
    <2>2. \A i \in DOMAIN wire : wire[i].at = a =>
             /\ \A j \in (i + 1)..Len(wire) : wire[j].at \notin B
             /\ place \notin B /\ NoneToLand(B) /\ NoneToHandle(B)
      BY <1>3 DEF NoneAfter
    <2>3. \A i \in DOMAIN wire' : wire'[i].at = a =>
             /\ \A j \in (i + 1)..Len(wire') : wire'[j].at \notin B
             /\ place' \notin B /\ NoneToLand(B)' /\ NoneToHandle(B)'
      BY <1>1, <2>1, <2>2
    <2>4. \A i \in DOMAIN landing' : landing'[i] = a =>
             /\ \A j \in (i + 1)..Len(landing') : landing'[j] \notin B
             /\ NoneToHandle(B)'
      BY <1>3 DEF NoneAfter
    <2>5. \A i \in DOMAIN orders' : orders'[i].to = "teleport" /\ orders'[i].at = a =>
             \A j \in (i + 1)..Len(orders') : orders'[j].to = "teleport" => orders'[j].at \notin B
      BY <1>3
    <2> QED  BY <1>1, <2>1, <2>3, <2>4, <2>5 DEF NoneAfter
  <1> QED  BY <1>2, <1>3

\* The mod, the game and the reader take positions on in order: what follows a
\* place, and what is there at all, stays so.
LEMMA PositionsFlow ==
    ASSUME A!BoundsAssumption, FlowTyped,
           NEW a \in StopPlaces, NEW B \in SUBSET StopPlaces, a \notin B,
           \/ A!ModHandles \/ A!TeleportLands \/ A!BotWalks \/ A!ModBroadcasts
           \/ A!ConnectionLost \/ A!ReadPosition \/ A!ReadReply
    PROVE  /\ NoneAfter(a, B) => NoneAfter(a, B)'
           /\ NoneOf(B) => NoneOf(B)'
  <1> USE DEF A!game, A!net, A!test, A!history
  <1>1. CASE A!ModHandles
    <2> DEFINE o == Head(orders)
    <2>1. /\ orders # <<>> /\ orders' = Tail(orders) /\ UNCHANGED place
          /\ o = orders[1] /\ o \in ProperOrder
      BY <1>1, TailIs DEF A!ModHandles, FlowTyped
    <2>2. /\ DOMAIN orders' = 1..(Len(orders) - 1) /\ DOMAIN orders = 1..Len(orders)
          /\ Len(orders) \in Nat \ {0} /\ Len(orders') = Len(orders) - 1
          /\ \A i \in DOMAIN orders' : orders'[i] = orders[i + 1]
      BY <2>1, TailIs DEF FlowTyped
    <2>3. CASE o.to \in {"idle", "goto"}
      <3>1. UNCHANGED <<landing, wire>>
        BY <1>1, <2>3 DEF A!ModHandles
      <3> HIDE DEF o
      <3>2. NoneToHandle(B) => NoneToHandle(B)'
        BY <2>2 DEF NoneToHandle
      <3>3. NoneToLand(B) => NoneToLand(B)'
        BY <3>1 DEF NoneToLand
      <3> QED  BY <2>1, <2>2, <3>1, <3>2, <3>3 DEF NoneAfter, NoneOf
    <2>4. CASE o.to = "teleport"
      <3>1. landing' = Append(landing, o.at) /\ o.at \in StopPlaces /\ UNCHANGED wire
        BY <1>1, <2>1, <2>4, OrdersTyped DEF A!ModHandles
      <3> HIDE DEF o
      <3>2. /\ DOMAIN landing' = 1..(Len(landing) + 1) /\ DOMAIN landing = 1..Len(landing)
            /\ Len(landing) \in Nat /\ Len(landing') = Len(landing) + 1
            /\ landing'[Len(landing) + 1] = o.at
            /\ \A i \in DOMAIN landing : landing'[i] = landing[i]
        BY <3>1, AppendIs DEF FlowTyped
      <3>3. NoneToHandle(B) => NoneToHandle(B)' /\ o.at \notin B
        BY <2>1, <2>2, <2>4 DEF NoneToHandle
      <3>4. NoneToLand(B) /\ o.at \notin B => NoneToLand(B)'
        BY <3>2 DEF NoneToLand
      <3>5. NoneOf(B) => NoneOf(B)'
        BY <2>1, <3>1, <3>3, <3>4 DEF NoneOf
      <3>6. ASSUME NoneAfter(a, B) PROVE NoneAfter(a, B)'
        <4>1. \A i \in DOMAIN wire' : wire'[i].at = a =>
                 /\ \A j \in (i + 1)..Len(wire') : wire'[j].at \notin B
                 /\ place' \notin B /\ NoneToLand(B)' /\ NoneToHandle(B)'
          BY <2>1, <3>1, <3>3, <3>4, <3>6 DEF NoneAfter
        <4>2. place' = a => NoneToLand(B)' /\ NoneToHandle(B)'
          BY <2>1, <3>3, <3>4, <3>6 DEF NoneAfter
        <4>3. o.at = a => NoneToHandle(B)'
          BY <2>1, <2>2, <2>4, <3>6 DEF NoneAfter, NoneToHandle
        <4>4. \A i \in DOMAIN landing' : landing'[i] = a =>
                 /\ \A j \in (i + 1)..Len(landing') : landing'[j] \notin B
                 /\ NoneToHandle(B)'
          BY <3>2, <3>3, <3>6, <4>3 DEF NoneAfter
        <4>5. \A i \in DOMAIN orders' : orders'[i].to = "teleport" /\ orders'[i].at = a =>
                 \A j \in (i + 1)..Len(orders') :
                     orders'[j].to = "teleport" => orders'[j].at \notin B
          BY <2>2, <3>6 DEF NoneAfter
        <4> QED  BY <4>1, <4>2, <4>4, <4>5 DEF NoneAfter
      <3> QED  BY <3>5, <3>6
    <2>5. CASE o.to = "query"
      <3> DEFINE r == [id |-> o.id, at |-> place]
      <3>1. wire' = Append(wire, r) /\ r \in A!Report /\ UNCHANGED landing
        BY <1>1, <2>1, <2>5, OrdersTyped DEF A!ModHandles, FlowTyped, A!Report
      <3>2. NoneToHandle(B) => NoneToHandle(B)'
        BY <2>2 DEF NoneToHandle
      <3>3. /\ DOMAIN wire' = 1..(Len(wire) + 1) /\ DOMAIN wire = 1..Len(wire)
            /\ Len(wire) \in Nat /\ Len(wire') = Len(wire) + 1
            /\ wire'[Len(wire) + 1].at = place
            /\ \A i \in DOMAIN wire : wire'[i] = wire[i]
        BY <3>1, AppendIs DEF FlowTyped
      <3>4. \A i \in DOMAIN orders' : orders'[i].to = "teleport" /\ orders'[i].at = a =>
               \A j \in (i + 1)..Len(orders') :
                   NoneAfter(a, B) /\ orders'[j].to = "teleport" => orders'[j].at \notin B
        BY <2>2 DEF NoneAfter
      <3> HIDE DEF r, o
      <3> QED  BY <2>1, <3>1, <3>2, <3>3, <3>4, Said
    <2> QED  BY <2>1, <2>3, <2>4, <2>5, OrdersTyped
  <1>2. CASE A!TeleportLands
    <2>1. /\ landing # <<>> /\ landing' = Tail(landing) /\ place' = landing[1]
          /\ UNCHANGED <<orders, wire>>
      BY <1>2, TailIs DEF A!TeleportLands, A!Moves, FlowTyped
    <2>2. /\ DOMAIN landing' = 1..(Len(landing) - 1) /\ DOMAIN landing = 1..Len(landing)
          /\ Len(landing) \in Nat \ {0} /\ Len(landing') = Len(landing) - 1
          /\ \A i \in DOMAIN landing' : landing'[i] = landing[i + 1]
      BY <2>1, TailIs DEF FlowTyped
    <2>3. NoneToHandle(B)' <=> NoneToHandle(B)
      BY <2>1 DEF NoneToHandle
    <2>4. NoneToLand(B) => NoneToLand(B)' /\ place' \notin B
      BY <2>1, <2>2 DEF NoneToLand
    <2>5. NoneAfter(a, B) /\ place' = a => NoneToLand(B)'
      <3>1. 1 \in DOMAIN landing /\ \A i \in DOMAIN landing' : i + 1 \in (1 + 1)..Len(landing)
        BY <2>2
      <3> QED  BY <2>1, <2>2, <3>1 DEF NoneAfter, NoneToLand
    <2>6. NoneAfter(a, B) /\ place' = a => NoneToHandle(B)'
      <3>1. 1 \in DOMAIN landing
        BY <2>2
      <3>2. NoneAfter(a, B) /\ landing[1] = a => NoneToHandle(B)
        BY <3>1 DEF NoneAfter
      <3> QED  BY <2>1, <2>3, <3>2
    <2>7. NoneOf(B) => NoneOf(B)'
      BY <2>1, <2>3, <2>4 DEF NoneOf
    <2>8. ASSUME NoneAfter(a, B) PROVE NoneAfter(a, B)'
      <3>1. \A i \in DOMAIN wire' : wire'[i].at = a =>
               /\ \A j \in (i + 1)..Len(wire') : wire'[j].at \notin B
               /\ place' \notin B /\ NoneToLand(B)' /\ NoneToHandle(B)'
        BY <2>1, <2>3, <2>4, <2>8 DEF NoneAfter
      <3>2. place' = a => NoneToLand(B)' /\ NoneToHandle(B)'
        BY <2>5, <2>6, <2>8
      <3>3. \A i \in DOMAIN landing' : landing'[i] = a =>
               /\ \A j \in (i + 1)..Len(landing') : landing'[j] \notin B
               /\ NoneToHandle(B)'
        BY <2>2, <2>3, <2>8 DEF NoneAfter
      <3>4. \A i \in DOMAIN orders' : orders'[i].to = "teleport" /\ orders'[i].at = a =>
               \A j \in (i + 1)..Len(orders') :
                   orders'[j].to = "teleport" => orders'[j].at \notin B
        BY <2>1, <2>8 DEF NoneAfter
      <3> QED  BY <3>1, <3>2, <3>3, <3>4 DEF NoneAfter
    <2> QED  BY <2>7, <2>8
  <1>3. CASE A!BotWalks
    <2>1. place' \in {"target", "end", "between"} /\ UNCHANGED <<landing, orders, wire>>
      BY <1>3 DEF A!BotWalks, A!Moves, FlowTyped
    <2>2. place' \notin B /\ place' # a
      BY <2>1 DEF StopPlaces
    <2> QED  BY <2>1, <2>2 DEF NoneAfter, NoneOf, NoneToLand, NoneToHandle
  <1>4. CASE A!ModBroadcasts
    <2>1. /\ wire' = Append(wire, [id |-> 0, at |-> place])
          /\ UNCHANGED <<place, landing, orders>>
      BY <1>4 DEF A!ModBroadcasts
    <2>9. [id |-> 0, at |-> place] \in A!Report
      <3>1. 0 \in 0..MaxAsked /\ place \in A!Places
        BY DEF FlowTyped, A!BoundsAssumption
      <3> QED  BY <3>1 DEF A!Report
    <2>2. /\ DOMAIN wire' = 1..(Len(wire) + 1) /\ DOMAIN wire = 1..Len(wire)
          /\ Len(wire) \in Nat /\ Len(wire') = Len(wire) + 1
          /\ wire'[Len(wire) + 1].at = place
          /\ \A i \in DOMAIN wire : wire'[i] = wire[i]
      BY <2>9, <2>1, AppendIs DEF FlowTyped
    <2>3. /\ NoneToHandle(B) => NoneToHandle(B)'
          /\ \A i \in DOMAIN orders' : orders'[i].to = "teleport" /\ orders'[i].at = a =>
               \A j \in (i + 1)..Len(orders') :
                   NoneAfter(a, B) /\ orders'[j].to = "teleport" => orders'[j].at \notin B
      BY <2>1 DEF NoneToHandle, NoneAfter
    <2> QED  BY <2>1, <2>2, <2>3, Said
  <1>5. CASE A!ConnectionLost
    <2>1. wire' = <<>> /\ orders' = <<>> /\ UNCHANGED <<place, landing>>
      BY <1>5 DEF A!ConnectionLost
    <2> QED  BY <2>1 DEF NoneAfter, NoneOf, NoneToLand, NoneToHandle
  <1>6. CASE A!ReadPosition \/ A!ReadReply
    <2>1. wire # <<>> /\ wire' = Tail(wire) /\ UNCHANGED <<place, landing, orders>>
      BY <1>6 DEF A!ReadPosition, A!ReadReply
    <2>2. /\ DOMAIN wire' = 1..(Len(wire) - 1) /\ DOMAIN wire = 1..Len(wire)
          /\ Len(wire) \in Nat \ {0} /\ Len(wire') = Len(wire) - 1
          /\ \A i \in DOMAIN wire' : wire'[i] = wire[i + 1]
      BY <2>1, TailIs DEF FlowTyped
    <2>3. NoneToHandle(B)' = NoneToHandle(B) /\ NoneToLand(B)' = NoneToLand(B)
      BY <2>1 DEF NoneToHandle, NoneToLand
    <2> QED  BY <2>1, <2>2, <2>3 DEF NoneAfter, NoneOf
  <1> QED  BY <1>1, <1>2, <1>3, <1>4, <1>5, <1>6

\* An order is behind all that is under way.
LEMMA OrdersFlow ==
    ASSUME FlowTyped, NEW a \in StopPlaces, NEW B \in SUBSET StopPlaces, NEW s \in Seq(ProperOrder),
           \A i \in DOMAIN s : s[i].to = "teleport" => s[i].at \notin B,
           orders' = orders \o s, UNCHANGED <<place, landing, wire>>
    PROVE  /\ NoneAfter(a, B) => NoneAfter(a, B)'
           /\ NoneOf(B) => NoneOf(B)'
  <1>1. /\ DOMAIN orders' = 1..(Len(orders) + Len(s)) /\ DOMAIN orders = 1..Len(orders)
        /\ DOMAIN s = 1..Len(s) /\ Len(orders) \in Nat /\ Len(s) \in Nat
        /\ Len(orders') = Len(orders) + Len(s)
        /\ \A i \in DOMAIN orders' :
              orders'[i] = IF i <= Len(orders) THEN orders[i] ELSE s[i - Len(orders)]
        /\ \A i \in DOMAIN orders' : i > Len(orders) => i - Len(orders) \in DOMAIN s
    BY DEF FlowTyped
  <1>2. \A i \in DOMAIN orders' : i > Len(orders) =>
           (orders'[i].to = "teleport" => orders'[i].at \notin B)
    BY <1>1
  <1>3. NoneToHandle(B) => NoneToHandle(B)'
    BY <1>1, <1>2 DEF NoneToHandle
  <1>4. NoneToLand(B) => NoneToLand(B)'
    BY DEF NoneToLand
  <1>5. ASSUME NoneAfter(a, B) PROVE NoneAfter(a, B)'
    <2>1. \A i \in DOMAIN orders' : orders'[i].to = "teleport" /\ orders'[i].at = a =>
             \A j \in (i + 1)..Len(orders') : orders'[j].to = "teleport" => orders'[j].at \notin B
      <3> SUFFICES ASSUME NEW i \in DOMAIN orders', orders'[i].to = "teleport",
                          orders'[i].at = a, NEW j \in (i + 1)..Len(orders'),
                          orders'[j].to = "teleport"
                   PROVE  orders'[j].at \notin B
        OBVIOUS
      <3>1. CASE j > Len(orders)
        BY <1>1, <1>2, <3>1
      <3>2. CASE j <= Len(orders)
        <4>1. /\ i \in DOMAIN orders /\ j \in (i + 1)..Len(orders)
              /\ orders'[i] = orders[i] /\ orders'[j] = orders[j]
          BY <1>1, <3>2
        <4> QED  BY <1>5, <4>1 DEF NoneAfter
      <3> QED  BY <1>1, <3>1, <3>2
    <2>2. \A i \in DOMAIN wire' : wire'[i].at = a =>
             /\ \A j \in (i + 1)..Len(wire') : wire'[j].at \notin B
             /\ place' \notin B /\ NoneToLand(B)' /\ NoneToHandle(B)'
      BY <1>3, <1>4, <1>5 DEF NoneAfter
    <2>3. place' = a => NoneToLand(B)' /\ NoneToHandle(B)'
      BY <1>3, <1>4, <1>5 DEF NoneAfter
    <2>4. \A i \in DOMAIN landing' : landing'[i] = a =>
             /\ \A j \in (i + 1)..Len(landing') : landing'[j] \notin B
             /\ NoneToHandle(B)'
      BY <1>3, <1>5 DEF NoneAfter
    <2> QED  BY <2>1, <2>2, <2>3, <2>4 DEF NoneAfter
  <1> QED  BY <1>3, <1>4, <1>5 DEF NoneOf

\* What the reader takes is ahead of all the rest.
LEMMA ReadingFlows ==
    ASSUME FlowTyped, NEW a \in StopPlaces, NEW B \in SUBSET StopPlaces, NoneAfter(a, B),
           wire # <<>>, Head(wire).at = a, wire' = Tail(wire), UNCHANGED <<place, landing, orders>>
    PROVE  NoneOf(B)'
  <1>1. /\ DOMAIN wire' = 1..(Len(wire) - 1) /\ DOMAIN wire = 1..Len(wire) /\ 1 \in DOMAIN wire
        /\ Len(wire) \in Nat \ {0} /\ Head(wire) = wire[1]
        /\ \A i \in DOMAIN wire' : wire'[i] = wire[i + 1]
    BY TailIs DEF FlowTyped
  <1>2. /\ \A j \in (1 + 1)..Len(wire) : wire[j].at \notin B
        /\ place \notin B /\ NoneToLand(B) /\ NoneToHandle(B)
    BY <1>1 DEF NoneAfter
  <1>3. \A i \in DOMAIN wire' : wire'[i].at \notin B
    BY <1>1, <1>2
  <1> QED  BY <1>2, <1>3 DEF NoneOf, NoneToLand, NoneToHandle

\* Nothing follows what is not there, and the fewer places the easier.
LEMMA NoneOfNone ==
    ASSUME NEW a, NEW B, NEW C
    PROVE  /\ NoneOf(C) /\ a \in C => NoneAfter(a, B)
           /\ NoneOf(C) /\ B \subseteq C => NoneAfter(a, B) /\ NoneOf(B)
           /\ NoneOf(B) /\ NoneOf(C) => NoneOf(B \cup C)
           /\ NoneAfter(a, B) /\ NoneAfter(a, C) => NoneAfter(a, B \cup C)
  <1>1. NoneOf(C) /\ a \in C => NoneAfter(a, B)
    BY DEF NoneOf, NoneAfter, NoneToLand, NoneToHandle
  <1>2. NoneOf(C) /\ B \subseteq C => NoneAfter(a, B) /\ NoneOf(B)
    BY DEF NoneOf, NoneAfter, NoneToLand, NoneToHandle
  <1>3. NoneOf(B) /\ NoneOf(C) => NoneOf(B \cup C)
    BY DEF NoneOf, NoneToLand, NoneToHandle
  <1>4. NoneAfter(a, B) /\ NoneAfter(a, C) => NoneAfter(a, B \cup C)
    BY DEF NoneAfter, NoneToLand, NoneToHandle
  <1> QED  BY <1>1, <1>2, <1>3, <1>4

LEMMA BehindFlows ==
    ASSUME A!BoundsAssumption, ArrivalTyped, Behind,
           \/ A!ModHandles \/ A!TeleportLands \/ A!BotWalks \/ A!ModBroadcasts
           \/ A!ConnectionLost \/ A!ReadPosition \/ A!ReadReply
    PROVE  Behind'
  <1>1. UNCHANGED <<at, kind, stop, abandoned>> /\ Here' = Here
    BY DEF A!ModHandles, A!TeleportLands, A!BotWalks, A!Moves, A!ModBroadcasts, A!ConnectionLost,
           A!ReadPosition, A!ReadReply, A!game, A!net, A!test, A!history, Here
  <1>2. \A a \in StopPlaces :
           \A B \in SUBSET StopPlaces :
               /\ a \notin B => (NoneAfter(a, B) => NoneAfter(a, B)')
               /\ a \notin B => (NoneOf(B) => NoneOf(B)')
    BY PositionsFlow DEF ArrivalTyped
  <1>3. ASSUME NEW a \in StopPlaces, Here' = a
        PROVE  /\ at' \in {"resetting", "asking", "waiting"} => NoneAfter(a, StopPlaces \ {a})'
               /\ at' = "teleporting" /\ stop' = 1 => NoneAfter(a, StopPlaces \ {a})'
               /\ at' = "waiting" /\ reply' = a => NoneOf(StopPlaces \ {a})'
               /\ at' \in {"ready", "walking", "nudging"} => NoneOf(StopPlaces \ {a})'
    <2> DEFINE B == StopPlaces \ {a}
    <2>1. B \in SUBSET StopPlaces /\ a \notin B
      OBVIOUS
    <2>2. /\ NoneAfter(a, B) => NoneAfter(a, B)'
          /\ NoneOf(B) => NoneOf(B)'
      BY <1>2, <2>1
    <2>3. /\ at \in {"resetting", "asking", "waiting"} => NoneAfter(a, B)
          /\ at = "teleporting" /\ stop = 1 => NoneAfter(a, B)
          /\ at = "waiting" /\ reply = a => NoneOf(B)
          /\ at \in {"ready", "walking", "nudging"} => NoneOf(B)
      BY <1>1, <1>3 DEF Behind
    <2>4. at' = "waiting" /\ reply' = a => NoneOf(B)'
      <3>1. CASE reply' = reply
        BY <1>1, <2>2, <2>3, <3>1
      <3>2. CASE reply' # reply
        <4>1. /\ wire # <<>> /\ wire' = Tail(wire) /\ UNCHANGED <<place, landing, orders>>
              /\ at = "waiting" /\ reply' = Head(wire).at
          BY <3>2 DEF A!ModHandles, A!TeleportLands, A!BotWalks, A!Moves, A!ModBroadcasts,
                      A!ConnectionLost, A!ReadPosition, A!ReadReply, A!game, A!net, A!test, A!history
        <4> HIDE DEF B
        <4> QED  BY <2>1, <2>3, <4>1, ReadingFlows DEF ArrivalTyped
      <3> QED  BY <3>1, <3>2
    <2> HIDE DEF B
    <2>5. /\ at' \in {"resetting", "asking", "waiting"} => NoneAfter(a, B)'
          /\ at' = "teleporting" /\ stop' = 1 => NoneAfter(a, B)'
          /\ at' \in {"ready", "walking", "nudging"} => NoneOf(B)'
      BY <1>1, <2>2, <2>3
    <2> QED  BY <2>4, <2>5 DEF B
  <1>4. at' = "teleporting" /\ stop' = 2 => NoneOf({"origin", "start"})'
    <2>1. NoneOf({"origin", "start"}) => NoneOf({"origin", "start"})'
      BY <1>2 DEF StopPlaces
    <2> QED  BY <1>1, <2>1 DEF Behind
  <1>5. at' = "over" /\ kind' = "goto" => NoneOf({"holding", "start"})'
    <2>1. NoneOf({"holding", "start"}) => NoneOf({"holding", "start"})'
      BY <1>2 DEF StopPlaces
    <2> QED  BY <1>1, <2>1 DEF Behind
  <1>6. at' \in {"clearing", "over"} /\ kind' = "schematic" =>
           NoneOf({"origin"})' /\ NoneAfter("holding", {"start"})'
    <2>1. NoneOf({"origin"}) => NoneOf({"origin"})'
      BY <1>2 DEF StopPlaces
    <2>2. NoneAfter("holding", {"start"}) => NoneAfter("holding", {"start"})'
      BY <1>2 DEF StopPlaces
    <2> QED  BY <1>1, <2>1, <2>2 DEF Behind
  <1> QED  BY <1>3, <1>4, <1>5, <1>6 DEF Behind

LEMMA SendFlows ==
    ASSUME FlowTyped, NEW a \in StopPlaces, NEW B \in SUBSET StopPlaces, NEW o \in ProperOrder,
           o.to = "teleport" => o.at \notin B,
           A!Send(o), UNCHANGED <<place, landing, wire>>
    PROVE  /\ NoneAfter(a, B) => NoneAfter(a, B)'
           /\ NoneOf(B) => NoneOf(B)'
  <1>1. CASE A!Delivered(o)
    <2>1. orders' = orders \o <<o>> /\ <<o>> \in Seq(ProperOrder)
      BY <1>1 DEF A!Delivered, FlowTyped
    <2>2. \A i \in DOMAIN <<o>> : <<o>>[i] = o
      OBVIOUS
    <2> QED  BY <2>1, <2>2, OrdersFlow
  <1>2. CASE A!Dropped
    BY <1>2 DEF A!Dropped, NoneAfter, NoneOf, NoneToLand, NoneToHandle
  <1> QED  BY <1>1, <1>2 DEF A!Send

LEMMA NothingFlows ==
    ASSUME UNCHANGED <<place, landing, wire, orders>>, NEW a, NEW B
    PROVE  /\ NoneAfter(a, B) => NoneAfter(a, B)'
           /\ NoneOf(B) => NoneOf(B)'
  BY DEF NoneAfter, NoneOf, NoneToLand, NoneToHandle

\* Where a setup is.
LEMMA HereWhen ==
    ASSUME SetupTyped
    PROVE  /\ Here \in StopPlaces
           /\ kind = "goto" => stop = 1 /\ Here = "origin"
           /\ kind = "schematic" /\ stop = 1 => Here = "holding"
           /\ kind = "schematic" /\ stop = 2 => Here = "start"
           /\ kind = "schematic" /\ stop = Len(A!Stops(kind)) => stop = 2
  <1>1. Len(A!Stops(kind)) \in 1..2 /\ (Len(A!Stops(kind)) = 2 <=> kind = "schematic")
    BY PlacesAre DEF SetupTyped
  <1>2. kind = "goto" => stop = 1
    BY <1>1 DEF SetupTyped
  <1>3. kind = "schematic" /\ stop = Len(A!Stops(kind)) => stop = 2
    BY <1>1
  <1>4. Here \in StopPlaces
    BY PlacesAre DEF SetupTyped, Here
  <1> QED  BY <1>2, <1>3, <1>4, PlacesAre DEF SetupTyped, Here

\* A test brings back no place that an earlier one left behind.
LEMMA BehindMoves ==
    ASSUME A!BoundsAssumption, ArrivalTyped, Behind, ~abandoned',
           \/ \E k \in Kinds : A!Begin(k)
           \/ A!ResetToIdle \/ A!SendTeleport \/ A!AskPosition \/ A!AskAgain \/ A!Confirmed
           \/ A!SendGoto \/ A!Arrive \/ A!GiveUp \/ A!Nudge \/ A!NudgeAgain
    PROVE  Behind'
  <1> USE DEF ArrivalTyped, A!game, A!net, A!test, A!history
  <1> DEFINE Others == StopPlaces \ {Here}
  <1>1. CASE \E k \in Kinds : A!Begin(k)
    <2>1. PICK k \in {"goto", "schematic"} : A!Begin(k)
      BY <1>1 DEF A!BoundsAssumption
    <2>2. /\ at = "over" /\ at' = "resetting" /\ kind' = k /\ stop' = 1
          /\ UNCHANGED <<place, landing, wire, orders>>
      BY <2>1 DEF A!Begin
    <2>3. /\ k = "goto" => Here' = "origin"
          /\ k = "schematic" => Here' = "holding"
      BY <2>2, PlacesAre DEF Here
    <2>4. \/ kind = "goto" /\ NoneOf({"holding", "start"})
          \/ kind = "schematic" /\ NoneOf({"origin"}) /\ NoneAfter("holding", {"start"})
      BY <2>2 DEF Behind, SetupTyped
    <2>5. /\ k = "goto" => NoneAfter("origin", StopPlaces \ {"origin"})
          /\ k = "schematic" => NoneAfter("holding", StopPlaces \ {"holding"})
      <3>1. CASE kind = "goto"
        <4>1. NoneOf({"holding", "start"})
          BY <2>4, <3>1
        <4>2. StopPlaces \ {"origin"} \subseteq {"holding", "start"}
          BY DEF StopPlaces
        <4> QED  BY <4>1, <4>2, NoneOfNone
      <3>2. CASE kind = "schematic"
        <4>1. NoneOf({"origin"}) /\ NoneAfter("holding", {"start"})
          BY <2>4, <3>2
        <4>2. StopPlaces \ {"holding"} = {"origin"} \cup {"start"}
          BY DEF StopPlaces
        <4>3. NoneAfter("origin", StopPlaces \ {"origin"}) /\ NoneAfter("holding", {"origin"})
          BY <4>1, NoneOfNone
        <4> QED  BY <4>1, <4>2, <4>3, NoneOfNone
      <3> QED  BY <2>4, <3>1, <3>2
    <2>6. /\ k = "goto" => NoneAfter("origin", StopPlaces \ {"origin"})'
          /\ k = "schematic" => NoneAfter("holding", StopPlaces \ {"holding"})'
      BY <2>2, <2>5, NothingFlows
    <2> QED  BY <2>2, <2>3, <2>6 DEF Behind
  <1>2. CASE A!ResetToIdle
    <2> DEFINE o == [to |-> "idle", at |-> "between"]
    <2>1. /\ at = "resetting" /\ at' = "teleporting" /\ UNCHANGED <<place, landing, wire>>
          /\ Here' = Here /\ A!Send(o) /\ o \in ProperOrder /\ o.to # "teleport"
          /\ stop' = stop
      BY <1>2, OrdersTyped DEF A!ResetToIdle, A!ResetsFirst, A!Send, Here
    <2>2. stop = 1
      BY <2>1 DEF SetupTyped
    <2> HIDE DEF o
    <2>3. ASSUME NEW a \in StopPlaces, Here = a PROVE NoneAfter(a, StopPlaces \ {a})'
      <3>1. NoneAfter(a, StopPlaces \ {a})
        BY <2>1, <2>3 DEF Behind
      <3> QED  BY <2>1, <3>1, SendFlows
    <2> QED  BY <2>1, <2>2, <2>3 DEF Behind
  <1>3. CASE A!SendTeleport
    <2> DEFINE o == [to |-> "teleport", at |-> Here]
    <2>1. /\ at = "teleporting" /\ at' = "asking" /\ UNCHANGED <<place, landing, wire>>
          /\ Here' = Here /\ A!Send(o)
      BY <1>3 DEF A!SendTeleport, Here
    <2>2. o \in ProperOrder /\ o.at = Here
      BY OrdersTyped, HereWhen
    <2> HIDE DEF o
    <2>3. ASSUME NEW a \in StopPlaces, Here = a PROVE NoneAfter(a, StopPlaces \ {a})'
      <3>1. CASE stop = 1
        <4>1. NoneAfter(a, StopPlaces \ {a})
          BY <2>1, <2>3, <3>1 DEF Behind
        <4> QED  BY <2>1, <2>2, <2>3, <4>1, SendFlows
      <3>2. CASE stop = 2
        <4>1. NoneOf({"origin", "start"}) /\ a = "start"
          BY <2>1, <2>3, <3>2, HereWhen DEF Behind, SetupTyped
        <4>2. NoneAfter(a, StopPlaces \ {a})
          BY <4>1, NoneOfNone
        <4> QED  BY <2>1, <2>2, <2>3, <4>2, SendFlows
      <3> QED  BY <3>1, <3>2 DEF SetupTyped
    <2> QED  BY <2>1, <2>3 DEF Behind
  <1>4. CASE A!AskPosition
    <2> DEFINE o == [to |-> "query", id |-> asked + 1]
    <2>1. /\ at = "asking" /\ at' = "waiting" /\ UNCHANGED <<place, landing, wire>>
          /\ Here' = Here /\ A!Send(o) /\ reply' = A!Unknown /\ o.to # "teleport"
      BY <1>4 DEF A!AskPosition, Here
    <2>2. o \in ProperOrder
      <3>1. asked + 1 \in 1..MaxAsked
        BY <1>4 DEF A!AskPosition, FlowTyped, A!BoundsAssumption
      <3> QED  BY <3>1, OrdersTyped
    <2> HIDE DEF o
    <2>3. ASSUME NEW a \in StopPlaces, Here = a PROVE NoneAfter(a, StopPlaces \ {a})'
      <3>1. NoneAfter(a, StopPlaces \ {a})
        BY <2>1, <2>3 DEF Behind
      <3> QED  BY <2>1, <2>2, <3>1, SendFlows
    <2>4. \A a \in StopPlaces : reply' # a
      BY <2>1, PlacesAre
    <2> QED  BY <2>1, <2>3, <2>4 DEF Behind
  <1>5. CASE A!AskAgain
    <2>1. /\ at = "waiting" /\ at' = "asking" /\ UNCHANGED <<place, landing, wire, orders>>
          /\ Here' = Here
      BY <1>5 DEF A!AskAgain, Here
    <2>2. ASSUME NEW a \in StopPlaces, Here = a PROVE NoneAfter(a, StopPlaces \ {a})'
      <3>1. NoneAfter(a, StopPlaces \ {a})
        BY <2>1, <2>2 DEF Behind
      <3> QED  BY <2>1, <3>1, NothingFlows
    <2> QED  BY <2>1, <2>2 DEF Behind
  <1>6. CASE A!Confirmed
    <2>1. /\ at = "waiting" /\ reply = Here /\ kind' = kind
          /\ UNCHANGED <<place, landing, wire, orders>>
      BY <1>6 DEF A!Confirmed, A!Seen, Here
    <2>2. NoneOf(Others)
      BY <2>1, HereWhen DEF Behind
    <2>3. CASE stop < Len(A!Stops(kind))
      <3>1. at' = "teleporting" /\ stop' = stop + 1
        BY <1>6, <2>3 DEF A!Confirmed
      <3>2. stop = 1 /\ kind = "schematic"
        <4>1. Len(A!Stops(kind)) \in 1..2 /\ (Len(A!Stops(kind)) = 2 <=> kind = "schematic")
          BY PlacesAre DEF SetupTyped
        <4>2. PICK n \in 1..2 : n = Len(A!Stops(kind))
          BY <4>1
        <4>3. stop \in 1..2 /\ stop < n
          BY <2>3, <4>2 DEF SetupTyped
        <4> QED  BY <4>1, <4>2, <4>3
      <3>3. Others = {"origin", "start"}
        BY <3>2, HereWhen DEF StopPlaces
      <3>4. NoneOf({"origin", "start"})'
        BY <2>1, <2>2, <3>3, NothingFlows
      <3>5. stop' = 2
        BY <3>1, <3>2
      <3> QED  BY <3>1, <3>4, <3>5 DEF Behind
    <2>4. CASE ~(stop < Len(A!Stops(kind)))
      <3>1. at' = "ready" /\ Here' = Here
        BY <1>6, <2>1, <2>4 DEF A!Confirmed, Here
      <3>2. ASSUME NEW a \in StopPlaces, Here = a PROVE NoneOf(StopPlaces \ {a})'
        BY <2>1, <2>2, <3>2, NothingFlows
      <3> QED  BY <3>1, <3>2 DEF Behind
    <2> QED  BY <2>3, <2>4
  <1>7. CASE A!SendGoto
    <2> DEFINE o == [to |-> "goto", at |-> A!Goal(kind)]
    <2>1. /\ at = "ready" /\ at' = "walking" /\ UNCHANGED <<place, landing, wire>>
          /\ Here' = Here /\ A!Send(o) /\ o.to # "teleport"
      BY <1>7 DEF A!SendGoto, Here
    <2>2. o \in ProperOrder
      BY OrdersTyped, PlacesAre DEF SetupTyped
    <2> HIDE DEF o
    <2>3. ASSUME NEW a \in StopPlaces, Here = a PROVE NoneOf(StopPlaces \ {a})'
      <3>1. NoneOf(StopPlaces \ {a})
        BY <2>1, <2>3 DEF Behind
      <3> QED  BY <2>1, <2>2, <3>1, SendFlows
    <2> QED  BY <2>1, <2>3 DEF Behind
  <1>8. CASE A!Arrive \/ A!GiveUp
    <2>1. /\ at \in {"ready", "walking"} /\ UNCHANGED <<place, landing, wire, orders>>
          /\ kind' = kind /\ stop' = stop /\ Here' = Here
          /\ at' = "over" \/ (at' = "nudging" /\ kind = "schematic")
      BY <1>8 DEF A!Arrive, A!GiveUp, A!AfterTest, SetupTyped, Here
    <2>2. ASSUME NEW a \in StopPlaces, Here = a PROVE NoneOf(StopPlaces \ {a})
      BY <2>1, <2>2 DEF Behind
    <2>3. CASE at' = "over"
      <3>1. CASE kind = "goto"
        <4>1. NoneOf(StopPlaces \ {"origin"})
          BY <2>2, <3>1, HereWhen
        <4>2. NoneOf({"holding", "start"})'
          <5>1. StopPlaces \ {"origin"} = {"holding", "start"}
            BY DEF StopPlaces
          <5> QED  BY <2>1, <4>1, <5>1, NothingFlows
        <4> QED  BY <2>1, <2>3, <3>1, <4>2 DEF Behind
      <3>2. CASE kind = "schematic"
        <4>1. Here = "start"
          BY <2>1, <3>2, HereWhen DEF SetupTyped
        <4>2. NoneOf({"origin", "holding"})
          <5>1. StopPlaces \ {"start"} = {"origin", "holding"}
            BY DEF StopPlaces
          <5> QED  BY <2>2, <4>1, <5>1, HereWhen
        <4>3. NoneOf({"origin"}) /\ NoneAfter("holding", {"start"})
          BY <4>2, NoneOfNone
        <4>4. NoneOf({"origin"})' /\ NoneAfter("holding", {"start"})'
          BY <2>1, <4>3, NothingFlows
        <4> QED  BY <2>1, <2>3, <3>2, <4>4 DEF Behind
      <3> QED  BY <3>1, <3>2 DEF SetupTyped
    <2>4. CASE at' = "nudging"
      <3>1. ASSUME NEW a \in StopPlaces, Here = a PROVE NoneOf(StopPlaces \ {a})'
        BY <2>1, <2>2, <3>1, NothingFlows
      <3> QED  BY <2>1, <2>4, <3>1 DEF Behind
    <2> QED  BY <2>1, <2>3, <2>4
  <1>9. CASE A!Nudge
    <2> DEFINE idle == [to |-> "idle", at |-> "between"]
               back == [to |-> "teleport", at |-> "holding"]
    <2>1. /\ at = "nudging" /\ at' = "clearing" /\ kind' = kind /\ stop' = stop
          /\ UNCHANGED <<place, landing, wire>> /\ ~abandoned
          /\ orders' = orders \o <<idle, back>> \/ orders' = orders
      BY <1>9 DEF A!Nudge, A!Dropped
    <2>2. kind = "schematic" /\ Here = "start"
      BY <2>1, HereWhen DEF SetupTyped
    <2>3. NoneOf({"origin", "holding"})
      <3>1. StopPlaces \ {"start"} = {"origin", "holding"} /\ "start" \in StopPlaces
        BY DEF StopPlaces
      <3> QED  BY <2>1, <2>2, <3>1 DEF Behind
    <2>4. NoneOf({"origin"}) /\ NoneAfter("holding", {"start"})
      BY <2>3, NoneOfNone
    <2>5. idle \in ProperOrder /\ back \in ProperOrder /\ idle.to # "teleport" /\ back.at = "holding"
      BY OrdersTyped DEF StopPlaces
    <2> HIDE DEF idle, back
    <2>6. NoneOf({"origin"})' /\ NoneAfter("holding", {"start"})'
      <3>1. CASE orders' = orders \o <<idle, back>>
        <4> DEFINE s == <<idle, back>>
        <4>1. s \in Seq(ProperOrder) /\ \A i \in DOMAIN s : s[i] = idle \/ s[i] = back
          BY <2>5
        <4>2. orders' = orders \o s
          BY <3>1
        <4>3. \A i \in DOMAIN s : s[i].to = "teleport" => s[i].at \notin {"origin"} /\ s[i].at \notin {"start"}
          BY <2>5, <4>1
        <4>4. "holding" \in StopPlaces /\ {"origin"} \in SUBSET StopPlaces /\ {"start"} \in SUBSET StopPlaces
          BY DEF StopPlaces
        <4> HIDE DEF s
        <4> QED  BY <2>1, <2>4, <4>1, <4>2, <4>3, <4>4, OrdersFlow
      <3>2. CASE orders' = orders
        BY <2>1, <2>4, <3>2, NothingFlows
      <3> QED  BY <2>1, <3>1, <3>2
    <2> QED  BY <2>1, <2>2, <2>6 DEF Behind
  <1>10. CASE A!NudgeAgain
    <2> DEFINE o == [to |-> "teleport", at |-> "holding"]
    <2>1. /\ at = "clearing" /\ at' = "over" /\ kind' = kind
          /\ UNCHANGED <<place, landing, wire>> /\ A!Send(o) /\ o.at = "holding"
      BY <1>10 DEF A!NudgeAgain
    <2>2. kind = "schematic"
      BY <2>1 DEF SetupTyped
    <2>3. NoneOf({"origin"}) /\ NoneAfter("holding", {"start"})
      BY <2>1, <2>2 DEF Behind
    <2>4. o \in ProperOrder
      BY OrdersTyped DEF StopPlaces
    <2>5. "holding" \in StopPlaces /\ {"origin"} \in SUBSET StopPlaces /\ {"start"} \in SUBSET StopPlaces
      BY DEF StopPlaces
    <2> HIDE DEF o
    <2>6. NoneOf({"origin"})' /\ NoneAfter("holding", {"start"})'
      BY <2>1, <2>3, <2>4, <2>5, SendFlows
    <2> QED  BY <2>1, <2>2, <2>6 DEF Behind
  <1> QED
    BY <1>1, <1>2, <1>3, <1>4, <1>5, <1>6, <1>7, <1>8, <1>9, <1>10

\* An order to stop that is under way is handled or its loss is noted.
LEMMA StandsStep ==
    ASSUME A!BoundsAssumption, ArrivalTyped, Stands, A!Next
    PROVE  Stands'
  <1> USE DEF ArrivalTyped, A!game, A!net, A!test, A!history
  <1> SUFFICES ASSUME at' \in {"teleporting", "asking", "waiting", "ready"}, ~moving'
               PROVE  Stopping'
    BY DEF Stands
  <1>1. CASE A!ModHandles
    <2> DEFINE o == Head(orders)
    <2>1. /\ orders # <<>> /\ orders' = Tail(orders) /\ o = orders[1] /\ o \in ProperOrder
          /\ DOMAIN orders' = 1..(Len(orders) - 1) /\ DOMAIN orders = 1..Len(orders)
          /\ Len(orders) \in Nat \ {0} /\ Len(orders') = Len(orders) - 1
          /\ \A i \in DOMAIN orders' : orders'[i] = orders[i + 1]
      BY <1>1, TailIs DEF A!ModHandles, FlowTyped
    <2>2. Stopping
      BY <1>1 DEF A!ModHandles, Stands
    <2>3. /\ o.to = "idle" => heading' = A!Unknown
          /\ o.to \in {"teleport", "query"} => heading' = heading
      BY <1>1 DEF A!ModHandles
    <2> HIDE DEF o
    <2>4. CASE heading = A!Unknown /\ \A i \in DOMAIN orders : orders[i].to # "goto"
      <3>1. heading' = A!Unknown
        BY <2>1, <2>3, <2>4, OrdersTyped
      <3> QED  BY <2>1, <2>4, <3>1 DEF Stopping
    <2>5. ASSUME NEW i \in DOMAIN orders, orders[i].to = "idle",
                 \A j \in (i + 1)..Len(orders) : orders[j].to # "goto"
          PROVE  Stopping'
      <3>1. CASE i = 1
        <4>1. \A j \in DOMAIN orders' : orders'[j].to # "goto"
          BY <2>1, <2>5, <3>1
        <4> QED  BY <2>1, <2>3, <2>5, <3>1, <4>1 DEF Stopping
      <3>2. CASE i # 1
        <4>1. i - 1 \in DOMAIN orders' /\ orders'[i - 1].to = "idle"
          BY <2>1, <2>5, <3>2
        <4>2. \A j \in ((i - 1) + 1)..Len(orders') : orders'[j].to # "goto"
          BY <2>1, <2>5
        <4> QED  BY <4>1, <4>2 DEF Stopping
      <3> QED  BY <3>1, <3>2
    <2> QED  BY <2>2, <2>4, <2>5 DEF Stopping
  <1>2. CASE A!ConnectionLost
    <2>1. /\ at' = at /\ heading' = heading /\ orders' = <<>> /\ ~moving
          /\ \A i \in DOMAIN orders : orders[i].to # "idle"
      BY <1>2 DEF A!ConnectionLost
    <2> QED  BY <2>1 DEF Stopping, Stands
  <1>3. CASE A!ResetToIdle
    <2>1. orders' = Append(orders, [to |-> "idle", at |-> "between"])
      BY <1>3 DEF A!ResetToIdle, A!ResetsFirst, A!Delivered
    <2>2. /\ Len(orders) + 1 \in DOMAIN orders' /\ orders'[Len(orders) + 1].to = "idle"
          /\ Len(orders') = Len(orders) + 1 /\ Len(orders) \in Nat
      BY <2>1 DEF FlowTyped
    <2>3. \A j \in ((Len(orders) + 1) + 1)..Len(orders') : orders'[j].to # "goto"
      BY <2>2
    <2> QED  BY <2>2, <2>3 DEF Stopping
  <1>4. ASSUME NEW o \in ProperOrder, o.to # "goto", A!Send(o), UNCHANGED heading, Stopping
        PROVE  Stopping'
    <2>1. CASE A!Dropped
      BY <1>4, <2>1 DEF A!Dropped, Stopping
    <2>2. CASE A!Delivered(o)
      <3>1. /\ DOMAIN orders' = 1..(Len(orders) + 1) /\ DOMAIN orders = 1..Len(orders)
            /\ Len(orders) \in Nat /\ Len(orders') = Len(orders) + 1
            /\ orders'[Len(orders) + 1] = o
            /\ \A i \in DOMAIN orders : orders'[i] = orders[i]
        BY <1>4, <2>2, AppendIs DEF A!Delivered, FlowTyped
      <3>2. CASE heading = A!Unknown /\ \A i \in DOMAIN orders : orders[i].to # "goto"
        BY <1>4, <3>1, <3>2 DEF Stopping
      <3>3. ASSUME NEW i \in DOMAIN orders, orders[i].to = "idle",
                   \A j \in (i + 1)..Len(orders) : orders[j].to # "goto"
            PROVE  Stopping'
        <4>1. i \in DOMAIN orders' /\ orders'[i].to = "idle"
          BY <3>1, <3>3
        <4>2. \A j \in (i + 1)..Len(orders') : orders'[j].to # "goto"
          BY <1>4, <3>1, <3>3
        <4> QED  BY <4>1, <4>2 DEF Stopping
      <3> QED  BY <1>4, <3>2, <3>3 DEF Stopping
    <2> QED  BY <1>4, <2>1, <2>2 DEF A!Send
  <1>5. CASE A!SendTeleport
    <2>1. /\ A!Send([to |-> "teleport", at |-> Here]) /\ UNCHANGED heading /\ Stopping
      BY <1>5 DEF A!SendTeleport, Here, Stands
    <2>2. [to |-> "teleport", at |-> Here] \in ProperOrder
      BY OrdersTyped, HereWhen
    <2> QED  BY <1>4, <2>1, <2>2
  <1>6. CASE A!AskPosition
    <2>1. /\ A!Send([to |-> "query", id |-> asked + 1]) /\ UNCHANGED heading /\ Stopping
      BY <1>6 DEF A!AskPosition, Stands
    <2>2. asked + 1 \in 1..MaxAsked
      BY <1>6 DEF A!AskPosition, FlowTyped, A!BoundsAssumption
    <2>3. [to |-> "query", id |-> asked + 1] \in ProperOrder
      BY <2>2, OrdersTyped
    <2> QED  BY <1>4, <2>1, <2>3
  <1>7. CASE A!TeleportLands \/ A!ModBroadcasts \/ A!ReadPosition \/ A!ReadReply
             \/ A!AskAgain \/ A!Confirmed
    <2>1. UNCHANGED <<heading, orders>> /\ Stopping
      BY <1>7 DEF A!TeleportLands, A!Moves, A!ModBroadcasts, A!ReadPosition, A!ReadReply,
                  A!AskAgain, A!Confirmed, Stands
    <2> QED  BY <2>1 DEF Stopping
  <1>8. CASE A!BotWalks
    <2>1. UNCHANGED <<heading, orders>> /\ Stopping
      BY <1>8 DEF A!BotWalks, A!Moves, Stands
    <2> QED  BY <2>1 DEF Stopping
  <1>9. ~(\/ \E k \in Kinds : A!Begin(k)
          \/ A!SendGoto \/ A!Arrive \/ A!GiveUp \/ A!Nudge \/ A!NudgeAgain)
    BY DEF A!Begin, A!SendGoto, A!Arrive, A!GiveUp, A!AfterTest, A!Nudge, A!NudgeAgain
  <1> QED
    BY <1>1, <1>2, <1>3, <1>5, <1>6, <1>7, <1>8, <1>9 DEF A!Next

LEMMA NumberedStep ==
    ASSUME A!BoundsAssumption, ArrivalTyped, Numbered, A!Next
    PROVE  Numbered'
  <1> USE DEF ArrivalTyped, A!game, A!net, A!test, A!history
  <1>1. asked \in Nat
    BY DEF FlowTyped
  <1>2. CASE A!ModHandles
    <2> DEFINE o == Head(orders)
    <2>1. /\ orders # <<>> /\ orders' = Tail(orders) /\ o = orders[1] /\ o \in ProperOrder
          /\ DOMAIN orders' = 1..(Len(orders) - 1) /\ DOMAIN orders = 1..Len(orders)
          /\ Len(orders) \in Nat \ {0} /\ Len(orders') = Len(orders) - 1 /\ 1 \in DOMAIN orders
          /\ \A i \in DOMAIN orders' : i + 1 \in DOMAIN orders /\ orders'[i] = orders[i + 1]
          /\ UNCHANGED <<at, asked>>
      BY <1>2, TailIs DEF A!ModHandles, FlowTyped
    <2>2. \A i \in DOMAIN orders' : orders'[i].to = "query" =>
             orders'[i].id <= asked' /\ (at' = "waiting" /\ orders'[i].id = asked' => i = Len(orders'))
      BY <2>1 DEF Numbered
    <2>3. wire' = wire \/ (o.to = "query" /\ wire' = Append(wire, [id |-> o.id, at |-> place])
                           /\ o.id \in 1..MaxAsked)
      BY <1>2, <2>1, OrdersTyped DEF A!ModHandles
    <2>4. o.to = "query" => o.id <= asked
      BY <2>1 DEF Numbered
    <2>5. [id |-> o.id, at |-> place] \in A!Report \/ o.to # "query"
      BY <2>3, <2>1, OrdersTyped DEF A!Report, FlowTyped
    <2> HIDE DEF o
    <2>6. \A i \in DOMAIN wire' : wire'[i].id <= asked'
      <3>1. CASE wire' = wire
        BY <2>1, <3>1 DEF Numbered
      <3>2. CASE wire' # wire
        <4> DEFINE r == [id |-> o.id, at |-> place]
        <4>1. wire' = Append(wire, r) /\ r \in A!Report /\ r.id <= asked
          BY <2>3, <2>4, <2>5, <3>2
        <4> HIDE DEF r
        <4>2. /\ DOMAIN wire' = 1..(Len(wire) + 1) /\ DOMAIN wire = 1..Len(wire)
              /\ Len(wire) \in Nat /\ wire'[Len(wire) + 1] = r
              /\ \A i \in DOMAIN wire : wire'[i] = wire[i]
          BY <4>1, AppendIs DEF FlowTyped
        <4> QED  BY <2>1, <4>1, <4>2 DEF Numbered
      <3> QED  BY <3>1, <3>2
    <2> QED  BY <2>2, <2>6 DEF Numbered
  <1>3. CASE A!ModBroadcasts
    <2>1. /\ wire' = Append(wire, [id |-> 0, at |-> place]) /\ UNCHANGED <<at, asked, orders>>
      BY <1>3 DEF A!ModBroadcasts
    <2>2. [id |-> 0, at |-> place] \in A!Report
      BY DEF FlowTyped, A!Report, A!BoundsAssumption
    <2>3. \A i \in DOMAIN wire' : wire'[i].id <= asked'
      BY <1>1, <2>1, <2>2, AppendIs DEF Numbered, FlowTyped
    <2> QED  BY <2>1, <2>3 DEF Numbered
  <1>4. CASE A!ConnectionLost
    <2>1. wire' = <<>> /\ orders' = <<>>
      BY <1>4 DEF A!ConnectionLost
    <2> QED  BY <2>1 DEF Numbered
  <1>5. CASE A!ReadPosition \/ A!ReadReply
    <2>1. wire # <<>> /\ wire' = Tail(wire) /\ UNCHANGED <<at, asked, orders>>
      BY <1>5 DEF A!ReadPosition, A!ReadReply
    <2>2. \A i \in DOMAIN wire' : i + 1 \in DOMAIN wire /\ wire'[i] = wire[i + 1]
      BY <2>1, TailIs DEF FlowTyped
    <2> QED  BY <2>1, <2>2 DEF Numbered
  <1>6. CASE A!AskPosition
    <2> DEFINE o == [to |-> "query", id |-> asked + 1]
    <2>1. asked' = asked + 1 /\ asked < MaxAsked /\ A!Send(o) /\ UNCHANGED wire
      BY <1>6 DEF A!AskPosition
    <2>2. o \in ProperOrder /\ o.id = asked + 1
      <3>1. asked + 1 \in 1..MaxAsked
        BY <2>1 DEF FlowTyped, A!BoundsAssumption
      <3> QED  BY <3>1, OrdersTyped
    <2> HIDE DEF o
    <2>3. \A i \in DOMAIN wire' : wire'[i].id <= asked'
      <3>1. \A i \in DOMAIN wire : wire[i].id \in Int
        <4>1. \A r \in A!Report : r.id \in Int
          BY DEF A!Report
        <4> QED  BY <4>1 DEF FlowTyped
      <3> QED  BY <1>1, <2>1, <3>1 DEF Numbered
    <2>4. \A i \in DOMAIN orders : orders[i].to = "query" => orders[i].id \in Int /\ orders[i].id <= asked
      BY OrdersTyped DEF FlowTyped, Numbered
    <2>5. CASE A!Dropped
      BY <1>1, <2>1, <2>3, <2>4, <2>5 DEF A!Dropped, Numbered
    <2>6. CASE A!Delivered(o)
      <3>1. /\ DOMAIN orders' = 1..(Len(orders) + 1) /\ DOMAIN orders = 1..Len(orders)
            /\ Len(orders) \in Nat /\ Len(orders') = Len(orders) + 1
            /\ orders'[Len(orders) + 1] = o
            /\ \A i \in DOMAIN orders : orders'[i] = orders[i]
        BY <2>2, <2>6, AppendIs DEF A!Delivered, FlowTyped
      <3> QED  BY <1>1, <2>1, <2>2, <2>3, <2>4, <3>1 DEF Numbered
    <2> QED  BY <2>1, <2>5, <2>6 DEF A!Send
  <1>7. ASSUME NEW s \in Seq(ProperOrder), \A i \in DOMAIN s : s[i].to # "query",
               orders' = orders \o s, UNCHANGED <<wire, asked>>, at' # "waiting"
        PROVE  Numbered'
    <2>1. \A i \in DOMAIN orders' : \/ i \in DOMAIN orders /\ orders'[i] = orders[i]
                                    \/ orders'[i].to # "query"
      <3>1. /\ DOMAIN orders' = 1..(Len(orders) + Len(s)) /\ DOMAIN orders = 1..Len(orders)
            /\ DOMAIN s = 1..Len(s) /\ Len(orders) \in Nat /\ Len(s) \in Nat
            /\ \A i \in DOMAIN orders' :
                  orders'[i] = IF i <= Len(orders) THEN orders[i] ELSE s[i - Len(orders)]
        BY <1>7 DEF FlowTyped
      <3> QED  BY <1>7, <3>1
    <2> QED  BY <1>7, <2>1 DEF Numbered
  <1>8. ASSUME NEW o \in ProperOrder, o.to # "query", A!Send(o), UNCHANGED <<wire, asked>>,
               at' # "waiting"
        PROVE  Numbered'
    <2>1. CASE A!Delivered(o)
      <3>1. orders' = orders \o <<o>> /\ <<o>> \in Seq(ProperOrder)
        BY <1>8, <2>1 DEF A!Delivered, FlowTyped
      <3>2. \A i \in DOMAIN <<o>> : <<o>>[i] = o
        OBVIOUS
      <3> QED  BY <1>7, <1>8, <3>1, <3>2
    <2>2. CASE A!Dropped
      BY <1>8, <2>2 DEF A!Dropped, Numbered
    <2> QED  BY <1>8, <2>1, <2>2 DEF A!Send
  <1>9. CASE A!ResetToIdle
    BY <1>8, <1>9, OrdersTyped DEF A!ResetToIdle, A!ResetsFirst, A!Send
  <1>10. CASE A!SendTeleport
    BY <1>8, <1>10, OrdersTyped, HereWhen DEF A!SendTeleport, Here
  <1>11. CASE A!SendGoto
    BY <1>8, <1>11, OrdersTyped, PlacesAre DEF A!SendGoto, SetupTyped
  <1>12. CASE A!NudgeAgain
    BY <1>8, <1>12, OrdersTyped DEF A!NudgeAgain, StopPlaces
  <1>13. CASE A!Nudge
    <2> DEFINE idle == [to |-> "idle", at |-> "between"]
               back == [to |-> "teleport", at |-> "holding"]
    <2>1. /\ UNCHANGED <<wire, asked>> /\ at' # "waiting"
          /\ orders' = orders \o <<idle, back>> \/ orders' = orders
      BY <1>13 DEF A!Nudge, A!Dropped
    <2>2. idle \in ProperOrder /\ back \in ProperOrder /\ idle.to # "query" /\ back.to # "query"
      BY OrdersTyped DEF StopPlaces
    <2> HIDE DEF idle, back
    <2>3. CASE orders' = orders \o <<idle, back>>
      <3> DEFINE s == <<idle, back>>
      <3>1. s \in Seq(ProperOrder) /\ \A i \in DOMAIN s : s[i].to # "query"
        BY <2>2
      <3> QED  BY <1>7, <2>1, <2>3, <3>1
    <2>4. CASE orders' = orders
      BY <2>1, <2>4 DEF Numbered
    <2> QED  BY <2>1, <2>3, <2>4
  <1>14. CASE A!TeleportLands \/ A!BotWalks
    BY <1>14 DEF A!TeleportLands, A!BotWalks, A!Moves, Numbered
  <1>15. CASE (\E k \in Kinds : A!Begin(k)) \/ A!AskAgain \/ A!Confirmed \/ A!Arrive \/ A!GiveUp
    BY <1>15 DEF A!Begin, A!AskAgain, A!Confirmed, A!Arrive, A!GiveUp, A!AfterTest, Numbered
  <1> QED
    BY <1>2, <1>3, <1>4, <1>5, <1>6, <1>9, <1>10, <1>11, <1>12, <1>13, <1>14, <1>15 DEF A!Next

\* With nothing else under way, no step of the game takes the bot away.
LEMMA StaysHere ==
    ASSUME ArrivalTyped, Stands, at \in {"waiting", "ready"}, ~moving, orders = <<>>,
           NoneToLand(StopPlaces \ {Here}), place = Here,
           A!TeleportLands \/ A!BotWalks
    PROVE  place' = Here
  <1>1. heading = A!Unknown
    BY DEF Stands, Stopping
  <1>2. ~A!BotWalks
    BY <1>1 DEF A!BotWalks
  <1>3. landing # <<>> /\ place' = landing[1] /\ 1 \in DOMAIN landing /\ landing[1] \in StopPlaces
    BY <1>2, TailIs DEF A!TeleportLands, A!Moves, ArrivalTyped, FlowTyped
  <1> QED  BY <1>3 DEF NoneToLand

LEMMA ConfirmingStep ==
    ASSUME A!BoundsAssumption, ArrivalTyped, Stands, Numbered, Behind, Confirming,
           ~abandoned', A!Next
    PROVE  Confirming'
  <1> USE DEF ArrivalTyped, A!game, A!net, A!test, A!history
  <1>1. Here \in StopPlaces /\ Here # A!Unknown
    BY HereWhen, PlacesAre
  <1>2. CASE A!ModHandles
    <2> DEFINE o == Head(orders)
    <2>1. /\ orders # <<>> /\ orders' = Tail(orders) /\ o = orders[1] /\ o \in ProperOrder
          /\ 1 \in DOMAIN orders /\ Len(orders) \in Nat \ {0}
          /\ UNCHANGED <<place, at, kind, stop, reply, foreign, moving, asked>> /\ Here' = Here
      BY <1>2, TailIs DEF A!ModHandles, FlowTyped, Here
    <2>2. at = "ready" => foreign
      BY <2>1 DEF Confirming
    <2>3. at = "waiting" => ~(reply # A!Unknown /\ ~foreign) /\ \A i \in DOMAIN wire : ~Answered(i)
      BY <2>1 DEF Confirming
    <2>4. CASE o.to # "query"
      <3>1. wire' = wire
        BY <1>2, <2>4 DEF A!ModHandles
      <3> QED  BY <1>1, <2>1, <2>2, <2>3, <3>1 DEF Confirming, Answered
    <2>5. CASE o.to = "query"
      <3> DEFINE r == [id |-> o.id, at |-> place]
      <3>1. wire' = Append(wire, r) /\ r.id = o.id /\ r.at = place
        BY <1>2, <2>5 DEF A!ModHandles
      <3>2. r \in A!Report
        BY <2>1, <2>5, OrdersTyped DEF A!Report, FlowTyped
      <3>3. at = "waiting" /\ o.id = asked => orders' = <<>>
        <4>1. at = "waiting" /\ o.id = asked => Len(orders) = 1
          BY <2>1, <2>5 DEF Numbered
        <4> QED  BY <2>1, <4>1 DEF FlowTyped
      <3> HIDE DEF r, o
      <3>4. /\ DOMAIN wire' = 1..(Len(wire) + 1) /\ DOMAIN wire = 1..Len(wire)
            /\ Len(wire) \in Nat /\ wire'[Len(wire) + 1] = r
            /\ \A i \in DOMAIN wire : wire'[i] = wire[i]
        BY <3>1, <3>2, AppendIs DEF FlowTyped
      <3>5. at = "waiting" => \A i \in DOMAIN wire' :
               wire'[i].id = asked => o.id = asked /\ wire'[i].at = place
        BY <2>3, <3>1, <3>4 DEF Answered
      <3> QED  BY <1>1, <2>1, <2>2, <2>3, <3>3, <3>5 DEF Confirming, Answered
    <2> QED  BY <2>4, <2>5
  <1>3. CASE A!TeleportLands \/ A!BotWalks
    <2>1. /\ UNCHANGED <<orders, wire, at, kind, stop, reply, foreign, moving, asked>>
          /\ Here' = Here
      BY <1>3 DEF A!TeleportLands, A!BotWalks, A!Moves, Here
    <2>2. ASSUME at \in {"waiting", "ready"}, ~moving, orders = <<>>, place = Here,
                 NoneToLand(StopPlaces \ {Here})
          PROVE  place' = Here
      BY <1>3, <2>2, StaysHere
    <2>3. ASSUME at = "waiting", reply = Here, ~foreign, ~moving PROVE place' = Here
      <3>1. orders = <<>> /\ place = Here
        BY <1>1, <2>3 DEF Confirming
      <3>2. NoneToLand(StopPlaces \ {Here})
        BY <1>1, <2>3 DEF Behind, NoneOf
      <3> QED  BY <2>2, <2>3, <3>1, <3>2
    <2>4. ASSUME at = "waiting", ~moving, NEW i \in DOMAIN wire, Answered(i), wire[i].at = Here
          PROVE  place' = Here
      <3>1. orders = <<>> /\ place = Here
        BY <2>4 DEF Confirming
      <3>2. NoneToLand(StopPlaces \ {Here})
        BY <1>1, <2>4 DEF Behind, NoneAfter
      <3> QED  BY <2>2, <2>4, <3>1, <3>2
    <2>5. ASSUME at = "ready", ~foreign, ~moving PROVE place' = Here
      <3>1. orders = <<>> /\ place = Here
        BY <2>5 DEF Confirming
      <3>2. NoneToLand(StopPlaces \ {Here})
        BY <1>1, <2>5 DEF Behind, NoneOf
      <3> QED  BY <2>2, <2>5, <3>1, <3>2
    <2> QED  BY <2>1, <2>3, <2>4, <2>5 DEF Confirming, Answered
  <1>4. CASE A!ModBroadcasts
    <2> DEFINE r == [id |-> 0, at |-> place]
    <2>1. /\ wire' = Append(wire, r) /\ r.id = 0
          /\ UNCHANGED <<place, orders, at, kind, stop, reply, foreign, moving, asked>>
          /\ Here' = Here
      BY <1>4 DEF A!ModBroadcasts, Here
    <2>2. r \in A!Report
      BY DEF FlowTyped, A!Report, A!BoundsAssumption
    <2> HIDE DEF r
    <2>3. at = "waiting" => asked # 0
      BY DEF SetupTyped, FlowTyped
    <2>4. /\ DOMAIN wire' = 1..(Len(wire) + 1) /\ DOMAIN wire = 1..Len(wire)
          /\ Len(wire) \in Nat /\ wire'[Len(wire) + 1] = r
          /\ \A i \in DOMAIN wire : wire'[i] = wire[i]
      BY <2>1, <2>2, AppendIs DEF FlowTyped
    <2>5. at = "waiting" => \A i \in DOMAIN wire' :
             wire'[i].id = asked => i \in DOMAIN wire /\ wire'[i] = wire[i]
      BY <2>1, <2>3, <2>4
    <2> QED  BY <2>1, <2>5 DEF Confirming, Answered
  <1>5. CASE A!ConnectionLost
    <2>1. /\ wire' = <<>> /\ orders' = <<>>
          /\ UNCHANGED <<place, at, kind, stop, reply, foreign>> /\ Here' = Here
      BY <1>5 DEF A!ConnectionLost, Here
    <2>2. ~moving' => ~moving
      BY <1>5 DEF A!ConnectionLost
    <2> QED  BY <1>1, <2>1, <2>2 DEF Confirming, Answered
  <1>6. CASE A!ReadPosition \/ A!ReadReply
    <2>1. /\ wire # <<>> /\ wire' = Tail(wire) /\ UNCHANGED <<place, orders, at, kind, stop, moving, asked>>
          /\ Here' = Here
      BY <1>6 DEF A!ReadPosition, A!ReadReply, Here
    <2>2. /\ Head(wire) = wire[1] /\ 1 \in DOMAIN wire /\ wire[1] \in A!Report
          /\ \A i \in DOMAIN wire' : i + 1 \in DOMAIN wire /\ wire'[i] = wire[i + 1]
      BY <2>1, TailIs DEF FlowTyped
    <2>3. \A i \in DOMAIN wire' : Answered(i)' => Answered(i + 1)
      BY <2>1, <2>2 DEF Answered
    <2>4. CASE reply' = reply /\ foreign' = foreign
      BY <2>1, <2>2, <2>3, <2>4 DEF Confirming
    <2>5. CASE ~(reply' = reply /\ foreign' = foreign)
      <3>1. /\ at = "waiting" /\ reply' = wire[1].at
            /\ foreign' = (foreign \/ wire[1].id # asked)
        BY <1>6, <2>2, <2>5 DEF A!ReadPosition, A!ReadReply, SetupTyped
      <3>2. ~foreign' => Answered(1)
        BY <2>2, <3>1 DEF Answered
      <3> QED  BY <1>1, <2>1, <2>2, <2>3, <3>1, <3>2 DEF Confirming
    <2> QED  BY <2>4, <2>5
  <1>7. CASE A!AskPosition
    <2>1. /\ asked' = asked + 1 /\ asked \in Nat /\ reply' = A!Unknown /\ at' = "waiting"
          /\ wire' = wire /\ Here' = Here
      BY <1>7 DEF A!AskPosition, Here, FlowTyped
    <2>2. \A i \in DOMAIN wire' : ~Answered(i)'
      BY <2>1 DEF Answered, Numbered
    <2> QED  BY <1>1, <2>1, <2>2 DEF Confirming
  <1>8. CASE A!Confirmed
    <2>1. CASE stop < Len(A!Stops(kind))
      <3>1. at' = "teleporting"
        BY <1>8, <2>1 DEF A!Confirmed
      <3> QED  BY <3>1 DEF Confirming
    <2>2. CASE ~(stop < Len(A!Stops(kind)))
      <3>1. /\ at = "waiting" /\ reply = Here /\ at' = "ready"
            /\ UNCHANGED <<place, orders, kind, stop, foreign, moving>> /\ Here' = Here
        BY <1>8, <2>2 DEF A!Confirmed, A!Seen, Here
      <3> QED  BY <1>1, <3>1 DEF Confirming
    <2> QED  BY <2>1, <2>2
  <1>9. CASE \/ \E k \in Kinds : A!Begin(k)
             \/ A!ResetToIdle \/ A!SendTeleport \/ A!AskAgain \/ A!SendGoto \/ A!Arrive
             \/ A!GiveUp \/ A!Nudge \/ A!NudgeAgain
    <2>1. at' \notin {"waiting", "ready"}
      BY <1>9 DEF A!Begin, A!ResetToIdle, A!SendTeleport, A!AskAgain, A!SendGoto, A!Arrive,
                  A!GiveUp, A!AfterTest, A!Nudge, A!NudgeAgain
    <2> QED  BY <2>1 DEF Confirming
  <1> QED
    BY <1>2, <1>3, <1>4, <1>5, <1>6, <1>7, <1>8, <1>9 DEF A!Next

LEMMA ArrivalStep ==
    ASSUME A!BoundsAssumption, ArrivalInv, A!Next
    PROVE  ArrivalInv'
  <1>1. ArrivalTyped /\ Stands /\ Numbered /\ (~abandoned => Behind /\ Confirming)
    BY DEF ArrivalInv
  <1>2. ArrivalTyped' /\ Stands' /\ Numbered'
    BY <1>1, ArrivalTypes, StandsStep, NumberedStep
  <1>3. ASSUME ~abandoned' PROVE Behind' /\ Confirming'
    <2>1. ~abandoned
      BY <1>3 DEF A!Next, A!ModHandles, A!TeleportLands, A!BotWalks, A!Moves, A!ModBroadcasts,
                  A!ConnectionLost, A!ReadPosition, A!ReadReply, A!Begin, A!ResetToIdle,
                  A!SendTeleport, A!AskPosition, A!AskAgain, A!Confirmed, A!SendGoto, A!Arrive,
                  A!GiveUp, A!Nudge, A!NudgeAgain, A!game, A!net, A!test, A!history
    <2>2. Confirming'
      BY <1>1, <1>3, <2>1, ConfirmingStep
    <2>3. Behind'
      BY <1>1, <1>3, <2>1, BehindFlows, BehindMoves DEF A!Next
    <2> QED  BY <2>2, <2>3
  <1> QED  BY <1>2, <1>3 DEF ArrivalInv

ArrivalOK == about = "arrival" => ArrivalInv

LEMMA ArrivalHolds == MCSpec => []ArrivalOK
  <1>1. A!BoundsAssumption
    BY PartsAssumption
  <1>2. MCInit => ArrivalOK
    BY <1>1, ArrivalInit DEF MCInit, ArrivalOK
  <1>3. ArrivalOK /\ [MCNext]_<<about, players, stacks, walking, arriving, vars>> => ArrivalOK'
    <2> SUFFICES ASSUME ArrivalOK, [MCNext]_<<about, players, stacks, walking, arriving, vars>>,
                        about' = "arrival"
                 PROVE  ArrivalInv'
      BY DEF ArrivalOK
    <2>1. CASE MCNext
      BY <1>1, <2>1, ArrivalStep DEF MCNext, ArrivalOK
    <2>2. CASE UNCHANGED <<about, players, stacks, walking, arriving, vars>>
      <3>1. /\ about' = about
            /\ UNCHANGED <<place, heading, landing, reported, orders, wire, shown, at, kind, stop,
                           reply, tests, asked, losses, result, reached, foreign, moving, abandoned>>
        BY <2>2 DEF arriving
      <3>2. ArrivalInv
        BY <3>1 DEF ArrivalOK
      <3> QED
        BY <3>1, <3>2 DEF ArrivalInv, ArrivalTyped, FlowTyped, SetupTyped, Stands, Stopping,
                          Numbered, Behind, Here, NoneAfter, NoneOf, NoneToLand, NoneToHandle,
                          Confirming, Answered
    <2> QED  BY <2>1, <2>2
  <1> QED  BY <1>2, <1>3, PTL DEF MCSpec

\* A test starts where its setup sent the bot, whatever earlier tests ordered the
\* mod to do: a position that confirms the teleport came after all the older ones,
\* and the order to stop before it.
THEOREM TestsStartWhereTheySay == MCSpec => []StartsWhereItSays
  <1>1. ArrivalOK => StartsWhereItSays
    BY DEF ArrivalOK, ArrivalInv, Confirming, Here, StartsWhereItSays, A!StartsWhereItSays
  <1> QED  BY <1>1, ArrivalHolds, PTL

-----------------------------------------------------------------------------
(* Sums over finite sets.                                                 *)

\* Induction over the subsets of a finite set, for a set of subsets.
LEMMA SubsetInduction ==
    ASSUME NEW S, IsFiniteSet(S), NEW T \in SUBSET SUBSET S, {} \in T,
           \A U \in SUBSET S : U # {} /\ (\A V \in SUBSET U : V # U => V \in T) => U \in T
    PROVE  T = SUBSET S
  <1> SUFFICES ASSUME T # SUBSET S
               PROVE  FALSE
    OBVIOUS
  <1> DEFINE Rest == (SUBSET S) \ T
  <1>1. IsWellFoundedOn(StrictSubsetOrdering(S), SUBSET S)
    <2>1. IsWellFoundedOn(StrictSubsetOrdering(S), FiniteSubsetsOf(S))
      BY FS_StrictSubsetOrderingWellFounded
    <2>2. FiniteSubsetsOf(S) = SUBSET S
      BY FS_FiniteSubsetsOfFinite
    <2> QED  BY <2>1, <2>2, Zenon
  <1>2. Rest # {} /\ Rest \subseteq SUBSET S
    OBVIOUS
  <1>3. PICK U \in Rest : \A V \in Rest : <<V, U>> \notin StrictSubsetOrdering(S)
    <2> HIDE DEF Rest
    <2>1. \A R : IsWellFoundedOn(R, SUBSET S) => \E x \in Rest : \A y \in Rest : ~ (<<y, x>> \in R)
      BY <1>2, WFMin
    <2> QED  BY <1>1, <2>1, Zenon
  <1>4. \A V \in SUBSET U : V # U => V \in T
    BY <1>3 DEF StrictSubsetOrdering
  <1> QED  BY <1>3, <1>4

\* What a sum over S is: MapThenSumSet of the weights w goes through the subsets
\* by the recursive function it, taking out one element after the other.
Pick(s) == CHOOSE x \in s : TRUE
Adds(it, w, S) ==
    it = [s \in SUBSET S |-> IF s = {} THEN 0 ELSE w[Pick(s)] + it[s \ {Pick(s)}]]

LEMMA PickIn == \A s : s # {} => Pick(s) \in s
  BY DEF Pick

LEMMA OneLess ==
    ASSUME NEW S, IsFiniteSet(S), NEW U \in SUBSET S, NEW x \in U
    PROVE  /\ Cardinality(U) \in Nat
           /\ Cardinality(U \ {x}) = Cardinality(U) - 1
           /\ Cardinality(U \ {x}) \in Nat
  <1>1. IsFiniteSet(U)
    BY FS_Subset
  <1>2. IsFiniteSet(U \ {x})
    BY <1>1, FS_Subset
  <1>3. Cardinality(U) \in Nat /\ Cardinality(U \ {x}) \in Nat
    BY <1>1, <1>2, FS_CardinalityType
  <1>4. Cardinality(U \ {x}) = Cardinality(U) - 1
    BY <1>1, FS_RemoveElement
  <1> QED  BY <1>3, <1>4

\* There is such a function.  It is built from the small subsets to the large
\* ones, of at most n elements.
UpTo(S, n) == {s \in SUBSET S : Cardinality(s) <= n}
AddsUpTo(it, w, S, n) ==
    it = [s \in UpTo(S, n) |-> IF s = {} THEN 0 ELSE w[Pick(s)] + it[s \ {Pick(s)}]]

LEMMA SumsExist ==
    ASSUME NEW S, IsFiniteSet(S), NEW w
    PROVE  \E it : Adds(it, w, S)
  <1> DEFINE T == {U \in SUBSET S : \E it : AddsUpTo(it, w, S, Cardinality(U))}
  <1>1. \A s \in SUBSET S : Cardinality(s) \in Nat /\ (Cardinality(s) = 0 <=> s = {})
    BY FS_Subset, FS_CardinalityType, FS_EmptySet
  <1>2. {} \in T
    <2>1. AddsUpTo([s \in {{}} |-> 0], w, S, Cardinality({}))
      <3>1. UpTo(S, Cardinality({})) = {{}}
        BY <1>1 DEF UpTo
      <3> QED  BY <3>1 DEF AddsUpTo
    <2> QED  BY <2>1
  <1>3. ASSUME NEW U \in SUBSET S, U # {}, \A V \in SUBSET U : V # U => V \in T
        PROVE  U \in T
    <2> DEFINE n == Cardinality(U)
               x == Pick(U)
    <2>1. x \in U
      BY <1>3, PickIn
    <2>2. n \in Nat /\ Cardinality(U \ {x}) = n - 1
      BY <2>1, OneLess
    <2>3. PICK g : AddsUpTo(g, w, S, n - 1)
      BY <1>3, <2>1, <2>2
    <2> DEFINE f == [s \in UpTo(S, n) |->
                        IF s \in UpTo(S, n - 1) THEN g[s] ELSE w[Pick(s)] + g[s \ {Pick(s)}]]
    <2> HIDE DEF n, x
    <2>4. \A s \in UpTo(S, n) : s # {} => s \ {Pick(s)} \in UpTo(S, n - 1)
      BY <2>2, OneLess, PickIn DEF UpTo
    <2>5. UpTo(S, n - 1) \subseteq UpTo(S, n)
      BY <1>1, <2>2 DEF UpTo
    <2>6. ASSUME NEW s \in UpTo(S, n)
          PROVE  f[s] = IF s = {} THEN 0 ELSE w[Pick(s)] + f[s \ {Pick(s)}]
      <3>1. CASE s \in UpTo(S, n - 1)
        <4>1. f[s] = g[s]
          BY <3>1
        <4>2. g[s] = IF s = {} THEN 0 ELSE w[Pick(s)] + g[s \ {Pick(s)}]
          BY <2>3, <3>1 DEF AddsUpTo
        <4>3. s # {} => f[s \ {Pick(s)}] = g[s \ {Pick(s)}]
          BY <2>4, <2>5
        <4> QED  BY <4>1, <4>2, <4>3
      <3>2. CASE s \notin UpTo(S, n - 1)
        <4>1. s # {}
          BY <1>1, <2>2, <2>6, <3>2, OneLess, <2>1 DEF UpTo
        <4>2. f[s] = w[Pick(s)] + g[s \ {Pick(s)}]
          BY <3>2
        <4>3. f[s \ {Pick(s)}] = g[s \ {Pick(s)}]
          BY <2>4, <2>5, <4>1
        <4> QED  BY <4>1, <4>2, <4>3
      <3> QED  BY <3>1, <3>2
    <2>7. AddsUpTo(f, w, S, n)
      BY <2>6 DEF AddsUpTo
    <2> QED  BY <2>7 DEF n
  <1>4. T = SUBSET S
    <2> HIDE DEF T
    <2>1. T \subseteq SUBSET S
      BY DEF T
    <2> QED  BY <1>2, <1>3, <2>1, SubsetInduction
  <1>5. PICK it : AddsUpTo(it, w, S, Cardinality(S))
    BY <1>4
  <1>6. UpTo(S, Cardinality(S)) = SUBSET S
    BY FS_Subset DEF UpTo
  <1> QED  BY <1>5, <1>6 DEF AddsUpTo, Adds
\* A sum of natural numbers is one, and at most the largest of them for each.
LEMMA SumsAreBounded ==
    ASSUME NEW S, IsFiniteSet(S), NEW most \in Nat, NEW w \in [S -> 0..most],
           NEW it, Adds(it, w, S)
    PROVE  \A U \in SUBSET S : it[U] \in Nat /\ it[U] <= most * Cardinality(U)
  <1> DEFINE T == {U \in SUBSET S : it[U] \in Nat /\ it[U] <= most * Cardinality(U)}
  <1>1. {} \in T
    BY FS_EmptySet DEF Adds
  <1>2. ASSUME NEW U \in SUBSET S, U # {}, \A V \in SUBSET U : V # U => V \in T
        PROVE  U \in T
    <2> DEFINE x == Pick(U)
               c == Cardinality(U)
    <2>1. x \in U
      BY <1>2, PickIn
    <2>2. /\ it[U] = w[x] + it[U \ {x}]
          /\ w[x] \in 0..most
      BY <1>2, <2>1 DEF Adds
    <2>3. it[U \ {x}] \in Nat /\ it[U \ {x}] <= most * Cardinality(U \ {x})
      BY <1>2, <2>1
    <2>4. c \in Nat /\ Cardinality(U \ {x}) = c - 1
      BY <2>1, OneLess
    <2> HIDE DEF c, x
    <2>5. most * c = most * (c - 1) + most
      BY <2>4
    <2>6. it[U] \in Nat /\ it[U] <= most * c
      <3>1. most * (c - 1) \in Int /\ most * c \in Int
        BY <2>4
      <3> QED  BY <2>2, <2>3, <2>4, <2>5, <3>1
    <2> QED  BY <2>6 DEF c
  <1>3. T = SUBSET S
    <2> HIDE DEF T
    <2>1. T \subseteq SUBSET S
      BY DEF T
    <2> QED  BY <1>1, <1>2, <2>1, SubsetInduction
  <1> QED  BY <1>3

\* A sum does not depend on the order it is taken in.
LEMMA AnyFirst ==
    ASSUME NEW S, IsFiniteSet(S), NEW w \in [S -> Nat], NEW it, Adds(it, w, S),
           \A U \in SUBSET S : it[U] \in Nat
    PROVE  \A U \in SUBSET S : \A x \in U : it[U] = w[x] + it[U \ {x}]
  <1> DEFINE T == {U \in SUBSET S : \A x \in U : it[U] = w[x] + it[U \ {x}]}
  <1>1. {} \in T
    OBVIOUS
  <1>2. ASSUME NEW U \in SUBSET S, U # {}, \A V \in SUBSET U : V # U => V \in T
        PROVE  U \in T
    <2> SUFFICES ASSUME NEW x \in U
                 PROVE  it[U] = w[x] + it[U \ {x}]
      OBVIOUS
    <2> DEFINE y == Pick(U)
    <2>1. y \in U
      BY <1>2, PickIn
    <2>2. it[U] = w[y] + it[U \ {y}]
      BY <1>2 DEF Adds
    <2> HIDE DEF y
    <2>3. CASE x = y
      BY <2>2, <2>3
    <2>4. CASE x # y
      <3>1. it[U \ {y}] = w[x] + it[(U \ {y}) \ {x}]
        BY <1>2, <2>1, <2>4
      <3>2. it[U \ {x}] = w[y] + it[(U \ {x}) \ {y}]
        BY <1>2, <2>1, <2>4
      <3>3. (U \ {y}) \ {x} = (U \ {x}) \ {y}
        OBVIOUS
      <3>4. w[x] \in Nat /\ w[y] \in Nat /\ it[(U \ {x}) \ {y}] \in Nat
        BY <2>1
      <3>5. it[U] = w[y] + (w[x] + it[(U \ {x}) \ {y}])
        BY <2>2, <3>1, <3>3
      <3> QED  BY <3>2, <3>4, <3>5
    <2> QED  BY <2>3, <2>4
  <1>3. T = SUBSET S
    <2> HIDE DEF T
    <2>1. T \subseteq SUBSET S
      BY DEF T
    <2> QED  BY <1>1, <1>2, <2>1, SubsetInduction
  <1> QED  BY <1>3

-----------------------------------------------------------------------------
(* The inventory.  The chat hears of a snapshot what the tracker computed    *)
(* from it and the one before; the invariant says what it still remembers.  *)

\* The sum over the slots that hold an item, which the tracker takes, is the sum
\* over all slots of what they hold of it, which the properties speak of.
LEMMA HeldIs ==
    ASSUME NEW slots \in I!Inventories, NEW i \in Item
    PROVE  /\ I!Held(slots, i) = I!TotalsByItem(slots)[i]
           /\ I!Held(slots, i) \in 0..I!Most
  <1> DEFINE having == {s \in Slot : slots[s].item = i}
             some == [s \in having |-> slots[s].count]
             all == [s \in Slot |-> IF slots[s].item = i THEN slots[s].count ELSE 0]
  <1>1. IsFiniteSet(Slot) /\ MaxCount \in Nat /\ i # empty
    BY PartsAssumption DEF I!NothingAssumption, I!BoundsAssumption, I!IsFiniteSet, IsFiniteSet
  <1>2. \A s \in Slot : slots[s].item = i => slots[s].count \in 0..MaxCount
    BY <1>1 DEF I!Inventories, I!Stacks
  <1>3. IsFiniteSet(having) /\ having \subseteq Slot
    BY <1>1, FS_Subset
  <1>4. PICK it : Adds(it, some, having) /\ I!TotalsByItem(slots)[i] = it[having]
    <2>1. \E it : Adds(it, some, having)
      BY <1>3, SumsExist
    <2>2. some \in [having -> Nat] /\ \A s \in having : some[s] = slots[s].count
      BY <1>2
    <2> DEFINE jt == CHOOSE jt : jt = [s \in SUBSET having |->
                          IF s = {} THEN 0 ELSE slots[Pick(s)].count + jt[s \ {Pick(s)}]]
    <2>3. I!TotalsByItem(slots)[i] = jt[having]
      BY DEF I!TotalsByItem, I!MapThenSumSet, I!MapThenFoldSet, Pick
    <2>4. Adds(jt, some, having)
      <3> HIDE DEF having, some
      <3>1. \A f : [s \in SUBSET having |-> IF s = {} THEN 0 ELSE some[Pick(s)] + f[s \ {Pick(s)}]]
               = [s \in SUBSET having |-> IF s = {} THEN 0 ELSE slots[Pick(s)].count + f[s \ {Pick(s)}]]
        BY <2>2, PickIn
      <3> QED  BY <2>1, <3>1 DEF Adds
    <2> QED  BY <2>3, <2>4
  <1>5. PICK jt : Adds(jt, all, Slot) /\ I!Held(slots, i) = jt[Slot]
    <2>1. \E jt : Adds(jt, all, Slot)
      BY <1>1, SumsExist
    <2> DEFINE jt == CHOOSE jt : jt = [s \in SUBSET Slot |->
                          IF s = {} THEN 0
                          ELSE (IF slots[Pick(s)].item = i THEN slots[Pick(s)].count ELSE 0)
                               + jt[s \ {Pick(s)}]]
    <2>2. I!Held(slots, i) = jt[Slot]
      BY DEF I!Held, I!MapThenSumSet, I!MapThenFoldSet, Pick
    <2>3. Adds(jt, all, Slot)
      <3>1. \A f : [s \in SUBSET Slot |-> IF s = {} THEN 0 ELSE all[Pick(s)] + f[s \ {Pick(s)}]]
               = [s \in SUBSET Slot |->
                    IF s = {} THEN 0
                    ELSE (IF slots[Pick(s)].item = i THEN slots[Pick(s)].count ELSE 0)
                         + f[s \ {Pick(s)}]]
        BY PickIn
      <3> QED  BY <2>1, <3>1 DEF Adds
    <2> QED  BY <2>2, <2>3
  <1>6. all \in [Slot -> 0..MaxCount]
    BY <1>1, <1>2
  <1> HIDE DEF all, some
  <1>7. \A U \in SUBSET Slot : jt[U] \in Nat /\ jt[U] <= MaxCount * Cardinality(U)
    BY <1>1, <1>5, <1>6, SumsAreBounded
  <1>8. \A U \in SUBSET Slot : \A x \in U : jt[U] = all[x] + jt[U \ {x}]
    <2>1. all \in [Slot -> Nat]
      BY <1>6
    <2>2. \A U \in SUBSET Slot : jt[U] \in Nat
      BY <1>7
    <2>3. Adds(jt, all, Slot)
      BY <1>5
    <2>4. IsFiniteSet(Slot)
      BY <1>1
    <2> HIDE DEF having
    <2> SUFFICES ASSUME NEW U \in SUBSET Slot, NEW x \in U
                 PROVE  jt[U] = all[x] + jt[U \ {x}]
      OBVIOUS
    <2> QED  BY <2>1, <2>2, <2>3, <2>4, AnyFirst, SMT
  <1>9. it[having] = jt[having]
    <2> DEFINE T == {U \in SUBSET having : it[U] = jt[U]}
    <2>1. {} \in T
      BY <1>4, <1>5, <1>3 DEF Adds
    <2>2. ASSUME NEW U \in SUBSET having, U # {}, \A V \in SUBSET U : V # U => V \in T
          PROVE  U \in T
      <3>1. Pick(U) \in U
        BY <2>2, PickIn
      <3>2. some[Pick(U)] = all[Pick(U)]
        BY <3>1 DEF some, all
      <3>3. it[U \ {Pick(U)}] = jt[U \ {Pick(U)}]
        BY <2>2, <3>1
      <3>4. it[U] = some[Pick(U)] + it[U \ {Pick(U)}]
        BY <1>4, <2>2 DEF Adds
      <3>5. jt[U] = all[Pick(U)] + jt[U \ {Pick(U)}]
        BY <1>3, <1>5, <2>2 DEF Adds
      <3> QED  BY <3>2, <3>3, <3>4, <3>5
    <2>3. T = SUBSET having
      <3> HIDE DEF T
      <3>1. T \subseteq SUBSET having
        BY DEF T
      <3> QED  BY <1>3, <2>1, <2>2, <3>1, SubsetInduction
    <2> QED  BY <2>3
  <1>10. jt[Slot] = jt[having]
    <2> DEFINE T == {U \in SUBSET Slot : jt[U] = jt[U \cap having]}
    <2>1. {} \in T
      OBVIOUS
    <2>2. ASSUME NEW U \in SUBSET Slot, U # {}, \A V \in SUBSET U : V # U => V \in T
          PROVE  U \in T
      <3>1. CASE U \subseteq having
        BY <3>1
      <3>2. CASE \E x \in U : x \notin having
        <4>1. PICK x \in U : x \notin having
          BY <3>2
        <4>2. all[x] = 0 /\ jt[U] = all[x] + jt[U \ {x}] /\ jt[U \ {x}] \in Nat
          BY <1>7, <1>8, <4>1 DEF all
        <4>3. jt[U \ {x}] = jt[(U \ {x}) \cap having]
          BY <2>2
        <4>4. (U \ {x}) \cap having = U \cap having
          BY <4>1
        <4>5. jt[U] = jt[U \ {x}]
          BY <4>2
        <4> QED  BY <4>3, <4>4, <4>5
      <3> QED  BY <3>1, <3>2
    <2>3. T = SUBSET Slot
      <3> HIDE DEF T
      <3>1. T \subseteq SUBSET Slot
        BY DEF T
      <3> QED  BY <1>1, <2>1, <2>2, <3>1, SubsetInduction
    <2>4. Slot \cap having = having
      BY <1>3
    <2> QED  BY <2>3, <2>4
  <1>11. jt[Slot] \in 0..I!Most
    <2>1. jt[Slot] \in Nat /\ jt[Slot] <= MaxCount * Cardinality(Slot)
      BY <1>7
    <2>2. I!Cardinality(Slot) = Cardinality(Slot)
      BY DEF I!Cardinality, Cardinality
    <2>3. MaxCount * Cardinality(Slot) \in Int
      BY <1>1, FS_CardinalityType
    <2>4. I!Most = MaxCount * Cardinality(Slot)
      BY <2>2 DEF I!Most
    <2> QED  BY <2>1, <2>3, <2>4
  <1> QED  BY <1>4, <1>5, <1>9, <1>10, <1>11
\* The totals of a snapshot are what its slots hold.
LEMMA TotalsAre ==
    ASSUME NEW slots \in I!Inventories
    PROVE  /\ I!TotalsByItem(slots) \in I!Totals
           /\ \A i \in Item : I!TotalsByItem(slots)[i] = I!Held(slots, i)
  <1>1. \A i \in Item : /\ I!TotalsByItem(slots)[i] = I!Held(slots, i)
                        /\ I!TotalsByItem(slots)[i] \in 0..I!Most
    BY HeldIs
  <1>2. I!TotalsByItem(slots) = [i \in Item |-> I!TotalsByItem(slots)[i]]
    BY DEF I!TotalsByItem
  <1>3. I!TotalsByItem(slots) \in [Item -> 0..I!Most]
    BY <1>1, <1>2
  <1> QED  BY <1>1, <1>3 DEF I!Totals

\* What the tracker compares: the last snapshot with the one before.
Compared ==
    /\ seen_first <=> Len(received) # 0
    /\ seen_first => inv_current = I!TotalsByItem(received[Len(received)])
    /\ \A i \in I!Gained(inv_previous, inv_current) :
            Len(received) # 0 /\ i \in I!PickedAt(Len(received))

StacksInv == I!TypeOK /\ Compared /\ I!AnnouncesGains

LEMMA StacksInit == I!Init => StacksInv
  <1> SUFFICES ASSUME I!Init
               PROVE  StacksInv
    OBVIOUS
  <1>1. IsFiniteSet(Slot) /\ MaxCount \in Nat
    BY PartsAssumption DEF I!BoundsAssumption, I!IsFiniteSet, IsFiniteSet
  <1>2. I!Most \in Nat
    <2>1. I!Cardinality(Slot) = Cardinality(Slot)
      BY DEF I!Cardinality, Cardinality
    <2> QED  BY <1>1, <2>1, FS_CardinalityType DEF I!Most
  <1>3. I!TypeOK
    <2>1. by_slot \in I!Inventories
      BY DEF I!Init, I!Inventories, I!Stacks
    <2>2. inv_previous \in I!Totals /\ inv_current \in I!Totals
      BY <1>2 DEF I!Init, I!Totals
    <2>3. announced \in Seq(SUBSET (Item \X (1..I!Most))) /\ received \in Seq(I!Inventories)
      BY DEF I!Init
    <2> QED  BY <2>1, <2>2, <2>3 DEF I!Init, I!TypeOK
  <1>4. Compared
    <2>1. I!Gained(inv_previous, inv_current) = {}
      <3>1. \A i \in Item : inv_previous[i] = 0 /\ inv_current[i] = 0
        BY DEF I!Init
      <3> QED  BY <3>1 DEF I!Gained
    <2>2. seen_first = FALSE /\ Len(received) = 0
      BY DEF I!Init
    <2> QED  BY <2>1, <2>2 DEF Compared
  <1>5. I!AnnouncesGains
    BY DEF I!Init, I!AnnouncesGains
  <1> QED  BY <1>3, <1>4, <1>5 DEF StacksInv

LEMMA StacksStep == StacksInv /\ I!Next => StacksInv'
  <1> SUFFICES ASSUME StacksInv, I!Next
               PROVE  StacksInv'
    OBVIOUS
  <1> USE DEF StacksInv
  <1>1. CASE I!ReceiveSnapshot
    <2>1. PICK slots \in I!Inventories : I!Receive(slots)
      BY <1>1 DEF I!ReceiveSnapshot
    <2>0. PICK n \in Nat : n = Len(received)
      BY DEF I!TypeOK
    <2> DEFINE totals == I!TotalsByItem(slots)
    <2>2. /\ totals \in I!Totals
          /\ \A i \in Item : totals[i] = I!Held(slots, i)
      BY TotalsAre
    <2>3. /\ by_slot' = slots /\ inv_previous' = (IF seen_first THEN inv_current ELSE totals)
          /\ inv_current' = totals /\ seen_first' = TRUE
          /\ announced' = Append(announced,
                {<<i, inv_current'[i]>> : i \in I!Gained(inv_previous', inv_current')})
          /\ received' = Append(received, slots)
          /\ given' = given
      BY <2>1 DEF I!Receive, I!Baseline
    <2>4. /\ received \in Seq(I!Inventories) /\ n \in Nat
          /\ Len(received') = n + 1 /\ received'[n + 1] = slots /\ received' # <<>>
          /\ \A k \in 1..n : received'[k] = received[k]
          /\ received' \in Seq(I!Inventories)
      BY <2>0, <2>3 DEF I!TypeOK
    <2> HIDE DEF totals
    <2>5. \A i \in Item : totals[i] \in Nat /\ inv_previous'[i] \in Nat
      BY <2>2, <2>3 DEF I!Totals, I!TypeOK
    <2>6. n # 0 => \A i \in Item : inv_current[i] = I!Held(received[n], i)
      <3>1. n # 0 => received[n] \in I!Inventories
        BY <2>0, <2>4
      <3> QED  BY <2>0, <3>1, TotalsAre DEF Compared
    <2>7. I!Gained(inv_previous', inv_current') = I!PickedAt(n + 1)'
      <3>1. CASE n = 0
        <4>1. ~seen_first
          BY <2>0, <3>1, <2>4 DEF Compared
        <4>2. inv_previous' = inv_current'
          BY <4>1, <2>3
        <4>3. I!Gained(inv_previous', inv_current') = {}
          BY <4>2, <2>5, <2>3 DEF I!Gained
        <4>4. I!PickedAt(n + 1)' = {}
          BY <3>1 DEF I!PickedAt
        <4> QED  BY <4>3, <4>4
      <3>2. CASE n # 0
        <4>1. seen_first
          BY <2>0, <3>2, <2>4 DEF Compared
        <4>2. n + 1 > 1 /\ (n + 1) - 1 = n /\ n \in 1..n
          BY <3>2, <2>4
        <4>3. received'[(n + 1) - 1] = received[n]
          BY <4>2, <2>4
        <4>4. \A i \in Item : /\ inv_previous'[i] = I!Held(received'[(n + 1) - 1], i)
                              /\ inv_current'[i] = I!Held(received'[n + 1], i)
          BY <4>1, <4>3, <2>2, <2>3, <2>4, <2>6, <3>2
        <4> QED  BY <4>2, <4>4 DEF I!Gained, I!PickedAt
      <3> QED  BY <3>1, <3>2
    <2>8. \A k \in 1..n : I!PickedAt(k)' = I!PickedAt(k)
      BY <2>4 DEF I!PickedAt
    <2>9. \A i \in I!PickedAt(n + 1)' : i \in Item /\ inv_current'[i] = I!Held(slots, i)
      BY <2>2, <2>3 DEF I!PickedAt
    <2>10. Compared'
      <3>1. Len(received') # 0 /\ seen_first' = TRUE
        BY <2>3, <2>4
      <3>2. inv_current' = I!TotalsByItem(received'[Len(received')])
        BY <2>3, <2>4 DEF totals
      <3>3. I!Gained(inv_previous', inv_current') = I!PickedAt(Len(received))'
        BY <2>4, <2>7 DEF I!PickedAt
      <3> QED  BY <3>1, <3>2, <3>3 DEF Compared
    <2>11. I!TypeOK'
      <3>1. \A i \in I!Gained(inv_previous', inv_current') :
                i \in Item /\ inv_current'[i] \in 1..I!Most
        BY <2>2, <2>3, <2>5 DEF I!Gained, I!Totals
      <3>2. {<<i, inv_current'[i]>> : i \in I!Gained(inv_previous', inv_current')}
                \in SUBSET (Item \X (1..I!Most))
        BY <3>1
      <3>3. announced' \in Seq(SUBSET (Item \X (1..I!Most)))
        BY <3>2, <2>3 DEF I!TypeOK
      <3>4. inv_previous' \in I!Totals /\ inv_current' \in I!Totals
        BY <2>2, <2>3 DEF I!TypeOK
      <3> QED  BY <2>1, <2>3, <2>4, <3>3, <3>4 DEF I!TypeOK
    <2>12. I!AnnouncesGains'
      <3>1. Len(announced) = n
        BY <2>0 DEF I!AnnouncesGains
      <3>2. /\ Len(announced') = n + 1
            /\ \A k \in 1..n : announced'[k] = announced[k]
            /\ announced'[n + 1] = {<<i, inv_current'[i]>> :
                                        i \in I!Gained(inv_previous', inv_current')}
        BY <3>1, <2>3, <2>4 DEF I!TypeOK
      <3>3. announced'[n + 1] = {<<i, I!Held(slots, i)>> : i \in I!PickedAt(n + 1)'}
        BY <3>2, <2>7, <2>9
      <3>4. ASSUME NEW k \in 1..(n + 1)
            PROVE  announced'[k] = {<<i, I!Held(received'[k], i)>> : i \in I!PickedAt(k)'}
        <4>1. CASE k = n + 1
          <5>1. received'[k] = slots
            BY <4>1, <2>4
          <5> QED  BY <4>1, <5>1, <3>3
        <4>2. CASE k # n + 1
          <5>1. k \in 1..n
            BY <4>2, <2>4
          <5>2. announced[k] = {<<i, I!Held(received[k], i)>> : i \in I!PickedAt(k)}
            BY <2>0, <5>1 DEF I!AnnouncesGains
          <5> QED  BY <5>1, <5>2, <3>2, <2>4, <2>8
        <4> QED  BY <4>1, <4>2
      <3> QED  BY <3>2, <3>4, <2>4 DEF I!AnnouncesGains
    <2> QED  BY <2>10, <2>11, <2>12
  <1>2. CASE I!Give
    <2>1. /\ UNCHANGED <<by_slot, inv_previous, inv_current, seen_first, announced, received>>
          /\ given' \in Item \cup {empty}
      BY <1>2 DEF I!Give, I!tracker, I!LastGained, I!Gained
    <2> QED  BY <2>1 DEF I!TypeOK, Compared, I!AnnouncesGains, I!PickedAt
  <1> QED  BY <1>1, <1>2 DEF I!Next

LEMMA StacksHold == MCSpec => []StacksInv
  <1>1. MCInit => StacksInv
    BY StacksInit DEF MCInit
  <1>2. StacksInv /\ UNCHANGED stacks => StacksInv'
    BY DEF stacks, StacksInv, I!TypeOK, Compared, I!AnnouncesGains, I!PickedAt
  <1>3. StacksInv /\ [MCNext]_<<about, players, stacks, walking, arriving, vars>> => StacksInv'
    BY <1>2, StacksStep DEF MCNext
  <1> QED  BY <1>1, <1>3, PTL DEF MCSpec

\* The chat hears of every gain and of nothing else: the announcement of each
\* snapshot names the items that the bot holds more of than at the one before,
\* with the sum of their stacks, however the stacks were moved or split.
THEOREM GainsAreAnnounced == MCSpec => []AnnouncesGains
  <1>1. StacksInv => AnnouncesGains
    BY DEF StacksInv, AnnouncesGains
  <1> QED  BY <1>1, StacksHold, PTL

\* A bare !give only ever goes for an item that was picked up and is still held.
THEOREM GivesWhatWasPicked == MCSpec => GivesOnlyPickups
  <1>1. ASSUME StacksInv, I!Give, given' # empty
        PROVE  /\ inv_current[given'] > 0
               /\ \E n \in 1..Len(received) : given' \in I!PickedAt(n)
    <2>1. given' \in I!Gained(inv_previous, inv_current)
      BY <1>1 DEF I!Give, I!LastGained
    <2>2. inv_current[given'] > 0
      BY <1>1, <2>1 DEF StacksInv, I!TypeOK, I!Totals, I!Gained
    <2>3. Len(received) # 0 /\ given' \in I!PickedAt(Len(received))
      BY <1>1, <2>1 DEF StacksInv, Compared
    <2>4. Len(received) \in 1..Len(received)
      BY <1>1, <2>3 DEF StacksInv, I!TypeOK
    <2> QED  BY <2>2, <2>3, <2>4
  <1>2. I!ReceiveSnapshot => UNCHANGED given
    BY DEF I!ReceiveSnapshot, I!Receive
  <1>3. MCNext => I!Next \/ UNCHANGED given
    BY DEF MCNext, stacks
  <1>4. StacksInv /\ [MCNext]_<<about, players, stacks, walking, arriving, vars>>
        => [given' # given /\ given' # empty =>
                /\ inv_current[given'] > 0
                /\ \E n \in 1..Len(received) : given' \in I!PickedAt(n)]_(I!vars)
    BY <1>1, <1>2, <1>3 DEF I!Next, stacks
  <1> QED  BY <1>4, StacksHold, PTL DEF MCSpec, GivesOnlyPickups, I!GivesOnlyPickups

-----------------------------------------------------------------------------
(* Types.                                                                  *)

RunsOK == about = "runs" => IInv

LEMMA RunsHold == MCSpec => []RunsOK
  <1>1. MCInit => RunsOK
    BY InitIInv DEF MCInit, RunsOK
  <1>2. RunsOK /\ [MCNext]_<<about, players, stacks, walking, arriving, vars>> => RunsOK'
    <2> SUFFICES ASSUME RunsOK, [MCNext]_<<about, players, stacks, walking, arriving, vars>>,
                        about' = "runs"
                 PROVE  IInv'
      BY DEF RunsOK
    <2>1. about = "runs" /\ IInv /\ [Next]_vars
      BY DEF RunsOK, MCNext
    <2> QED
      BY <2>1, NextTypes, NextSupersedes, NextVerdicts, NextPrepared, NextGround, NextModes
         DEF IInv
  <1> QED  BY <1>1, <1>2, PTL DEF MCSpec

\* Each of the parts keeps its types, whatever the part it shares a module with.
THEOREM PartsAreTyped == MCSpec => []TypesOK
  <1>1. EntitiesOK => (about = "entities" => E!TypeOK)
    BY SameProperties, EP!TypeInvTypes DEF EntitiesOK
  <1>2. StacksInv => I!TypeOK
    BY DEF StacksInv
  <1>3. WalkOK => (about = "walk" => W!TypeOK)
    BY PartsAssumption, WalkIsWatched DEF WalkOK
  <1>4. ArrivalOK => (about = "arrival" => A!TypeOK)
    BY ArrivalTypesOK DEF ArrivalOK, ArrivalInv
  <1>5. RunsOK => (about = "runs" => TypeOK)
    BY DEF RunsOK, IInv
  <1>6. EntitiesOK /\ StacksInv /\ WalkOK /\ ArrivalOK /\ RunsOK => TypesOK
    BY <1>1, <1>2, <1>3, <1>4, <1>5 DEF TypesOK
  <1> QED  BY <1>6, EntitiesHold, StacksHold, WalkHolds, ArrivalHolds, RunsHold, PTL
=============================================================================
