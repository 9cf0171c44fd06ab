------------------------------ MODULE Inventory ------------------------------
(***************************************************************************)
(* InventoryTracker of bridge/inventory.py, InventoryAnnouncer of          *)
(* bot/inventory_announcer.py and the choice of the item in give() of      *)
(* bot/inventory.py.  The mod sends the whole inventory whenever it        *)
(* changed; the tracker compares the totals of the last two snapshots, and *)
(* the announcer tells the chat of every item that grew.  A snapshot may   *)
(* be any inventory: everything can happen between two of them, and the    *)
(* ones a lost connection swallows are simply not received.                *)
(***************************************************************************)
EXTENDS Naturals, Sequences, FiniteSets, FiniteSetsExt

CONSTANTS
    Slot, Item,     \* inventory slots, item ids
    MaxCount,       \* bound: items in a slot
    MaxSnapshots,   \* bound: snapshots received
    Nothing         \* an empty slot, and a give() that has nothing to give

\* Of the constants; an instance assumes them.
NothingAssumption == Nothing \notin Item
BoundsAssumption == IsFiniteSet(Slot) /\ MaxCount \in Nat

VARIABLES
    by_slot,            \* _by_slot
    previous, current,  \* _previous, _current: totals by item
    seen_first,         \* _seen_first_snapshot
    said,               \* the announcements: a set of <<item, total>> per snapshot
    given,              \* the item the last give() without an item went for
    received            \* history: the snapshots received

tracker == <<by_slot, previous, current, seen_first>>
vars == <<tracker, said, given, received>>

Stacks == [item : Item, count : 1..MaxCount] \cup {[item |-> Nothing, count |-> 0]}
Inventories == [Slot -> Stacks]
Most == MaxCount * Cardinality(Slot)
Totals == [Item -> 0..Most]

\* The state is well-formed: totals never exceed what the slots can hold.
TypeOK ==
    /\ by_slot \in Inventories
    /\ previous \in Totals
    /\ current \in Totals
    /\ seen_first \in BOOLEAN
    /\ said \in Seq(SUBSET (Item \X (1..Most)))
    /\ given \in Item \cup {Nothing}
    /\ received \in Seq(Inventories)

Init ==
    /\ by_slot = [s \in Slot |-> [item |-> Nothing, count |-> 0]]
    /\ previous = [i \in Item |-> 0]
    /\ current = [i \in Item |-> 0]
    /\ seen_first = FALSE
    /\ said = <<>>
    /\ given = Nothing
    /\ received = <<>>

-----------------------------------------------------------------------------

\* _totals_by_item; an item that is not in the dict counts 0.
TotalsByItem(slots) ==
    [i \in Item |-> MapThenSumSet(LAMBDA s : slots[s].count,
                                  {s \in Slot : slots[s].item = i})]

\* Mutant: the first snapshot is compared with the empty inventory.
BaselineEmpty(totals) == current
\* What a snapshot is compared with: the one before, or itself if it is the first.
Baseline(totals) == IF seen_first THEN current ELSE totals

\* gained_items()
Gained(before, after) == {i \in Item : after[i] > before[i]}

\* handle_event, the announcer's listener included.
Receive(slots) ==
    LET totals == TotalsByItem(slots) IN
    /\ by_slot' = slots
    /\ previous' = Baseline(totals)
    /\ current' = totals
    /\ seen_first' = TRUE
    /\ said' = Append(said, {<<i, current'[i]>> : i \in Gained(previous', current')})
    /\ received' = Append(received, slots)
    /\ UNCHANGED given

ReceiveSnapshot == Len(received) < MaxSnapshots /\ \E slots \in Inventories : Receive(slots)

\* Mutant: anything the bot carries will do.
LastGainedAny == {i \in Item : current[i] > 0}
\* last_gained_item: any of the gained items, the order is the dict's.
LastGained == Gained(previous, current)

\* give() without an item.
Give ==
    /\ IF LastGained = {} THEN given' = Nothing ELSE given' \in LastGained
    /\ UNCHANGED <<tracker, said, received>>

Next == ReceiveSnapshot \/ Give

Spec == Init /\ [][Next]_vars

-----------------------------------------------------------------------------

Held(slots, i) == MapThenSumSet(LAMBDA s : IF slots[s].item = i THEN slots[s].count ELSE 0, Slot)
PickedAt(n) ==
    {i \in Item : n > 1 /\ Held(received[n], i) > Held(received[n - 1], i)}

\* The chat hears of a snapshot exactly the items the bot holds more of than at
\* the snapshot before, each with what it holds now: moving a stack, splitting it
\* or the first snapshot after the start is not a gain
\* (bridge/inventory.py:88-125, bot/inventory_announcer.py:28-34).
AnnouncesGains ==
    /\ Len(said) = Len(received)
    /\ \A n \in 1..Len(received) :
        said[n] = {<<i, Held(received[n], i)>> : i \in PickedAt(n)}

\* A bare !give goes for an item that was picked up at some time and is still
\* held, never for one the bot merely carried from the start
\* (bot/inventory.py:66, bridge/inventory.py:147).
GivesOnlyPickups ==
    [][given' # given /\ given' # Nothing =>
        /\ current[given'] > 0
        /\ \E n \in 1..Len(received) : given' \in PickedAt(n)]_vars

\* The claim of bot/inventory.py:45-47 and 82-83: without an item, !give gives back
\* what the bot most recently picked up, as long as it still carries it.  The two
\* snapshots the tracker compares forget it at the next unrelated change.
GivesLastPickup ==
    [][\A n \in 1..Len(received) :
        /\ given' # given
        /\ PickedAt(n) # {}
        /\ \A m \in (n + 1)..Len(received) : PickedAt(m) = {}
        /\ \A i \in PickedAt(n) : current[i] > 0
        => given' \in PickedAt(n)]_vars
=============================================================================
