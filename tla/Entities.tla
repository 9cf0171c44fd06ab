------------------------------- MODULE Entities -------------------------------
(***************************************************************************)
(* EntityTracker of bridge/entities.py, which !kill asks for the entity id *)
(* behind a player's name.  It mirrors the mod's list of the players in    *)
(* sight: every tick the mod compares that list with what it has sent and  *)
(* sends an `entity' event per difference, in an order the tracker does    *)
(* not know.  A player who respawns is a new entity with the same name.    *)
(***************************************************************************)
EXTENDS Naturals, Sequences, FiniteSets, Functions

CONSTANTS
    Id,             \* entity ids
    NameOf,         \* Id -> the player an id belongs to; an id is used for one only
    Nobody,         \* a name that is left out, and a lookup that finds nothing
    MaxEvents       \* bound: entity events

Name == Range(NameOf)
\* Of the constants; an instance assumes it.
NamesAssumption ==
    /\ DOMAIN NameOf = Id
    /\ Nobody \notin Name \cup Id
    /\ MaxEvents \in Nat

VARIABLES
    \* the mod
    seen,       \* ids of the players in sight
    sent,       \* the ids the tracker has been told of
    events,     \* entity events on their way to the tracker
    emitted,    \* number of events so far
    \* EntityTracker
    by_id,      \* _by_id, an id's name
    name_to_id, \* _name_to_id
    \* history
    overlap,    \* names whose older entity was removed after the newer was added
    lost        \* events were lost with a connection

mod == <<seen, sent, emitted>>
tracker == <<by_id, name_to_id>>
vars == <<mod, events, tracker, overlap, lost>>

Event == [action : {"add", "move", "remove"}, id : Id, name : Name \cup {Nobody}]
Partial(D, R) == UNION {[S -> R] : S \in SUBSET D}

TypeOK ==
    /\ seen \subseteq Id /\ sent \subseteq Id
    /\ events \in Seq(Event)
    /\ emitted \in 0..MaxEvents
    /\ by_id \in Partial(Id, Name \cup {Nobody})
    /\ name_to_id \in Partial(Name, Id)
    /\ Range(name_to_id) \subseteq DOMAIN by_id
    /\ overlap \subseteq Name
    /\ lost \in BOOLEAN

Nothing == [i \in {} |-> Nobody]

Init ==
    /\ seen = {} /\ sent = {}
    /\ events = <<>> /\ emitted = 0
    /\ by_id = Nothing /\ name_to_id = Nothing
    /\ overlap = {} /\ lost = FALSE

-----------------------------------------------------------------------------
(* External: minebot-mod and the world.                                    *)

\* Players come, go and respawn between two ticks.
WorldChanges ==
    /\ seen = sent
    /\ \E ids \in SUBSET Id :
          /\ \A i, j \in ids : NameOf[i] = NameOf[j] => i = j
          /\ seen' = ids
    /\ UNCHANGED <<sent, events, emitted, tracker, overlap, lost>>

Emit(e) ==
    /\ emitted < MaxEvents
    /\ emitted' = emitted + 1
    /\ events' = Append(events, e)

\* The differences of a tick; only an `add' has a name.
EmitsAdd(i) ==
    /\ i \in seen \ sent
    /\ Emit([action |-> "add", id |-> i, name |-> NameOf[i]])
    /\ sent' = sent \cup {i}
    /\ UNCHANGED <<seen, tracker, overlap, lost>>

EmitsRemove(i) ==
    /\ i \in sent \ seen
    /\ Emit([action |-> "remove", id |-> i, name |-> Nobody])
    /\ sent' = sent \ {i}
    /\ overlap' = IF NameOf[i] \in {NameOf[j] : j \in sent'} THEN overlap \cup {NameOf[i]} ELSE overlap
    /\ UNCHANGED <<seen, tracker, lost>>

EmitsMove(i) ==
    /\ i \in seen \cap sent
    /\ Emit([action |-> "move", id |-> i, name |-> Nobody])
    /\ overlap' = IF \A j \in sent : NameOf[j] = NameOf[i] => j = i
                  THEN overlap \ {NameOf[i]} ELSE overlap
    /\ UNCHANGED <<seen, sent, tracker, lost>>

LosesEvents ==
    /\ events # <<>>
    /\ events' = <<>>
    /\ lost' = TRUE
    /\ UNCHANGED <<mod, tracker, overlap>>

-----------------------------------------------------------------------------
(* EntityTracker.handle_event                                              *)

Without(f, x) == Restrict(f, DOMAIN f \ {x})
With(f, x, y) == [z \in DOMAIN f \cup {x} |-> IF z = x THEN y ELSE f[z]]

\* Mutant: the name is kept when its entity is removed.
ForgetNameKept(i) == name_to_id
\* The name goes with the entity, whichever entity it points to.
ForgetName(i) ==
    IF i \in DOMAIN by_id /\ by_id[i] # Nobody THEN Without(name_to_id, by_id[i]) ELSE name_to_id

HandleRemove ==
    /\ events # <<>>
    /\ Head(events).action = "remove"
    /\ LET i == Head(events).id IN
       /\ by_id' = Without(by_id, i)
       /\ name_to_id' = ForgetName(i)
    /\ events' = Tail(events)
    /\ UNCHANGED <<mod, overlap, lost>>

\* Mutant: a name that is left out overwrites the one that is known.
NameAfterOverwritten(e) == e.name
NameAfter(e) == IF e.name = Nobody /\ e.id \in DOMAIN by_id THEN by_id[e.id] ELSE e.name

HandleChange ==
    /\ events # <<>>
    /\ Head(events).action # "remove"
    /\ LET e == Head(events)
           name == NameAfter(e)
       IN  /\ by_id' = With(by_id, e.id, name)
           /\ name_to_id' = IF name = Nobody THEN name_to_id ELSE With(name_to_id, name, e.id)
    /\ events' = Tail(events)
    /\ UNCHANGED <<mod, overlap, lost>>

\* find_by_name
FindByName(n) ==
    IF n \in DOMAIN name_to_id /\ name_to_id[n] \in DOMAIN by_id THEN name_to_id[n] ELSE Nobody

Next ==
    \/ WorldChanges \/ LosesEvents
    \/ \E i \in Id : EmitsAdd(i) \/ EmitsRemove(i) \/ EmitsMove(i)
    \/ HandleRemove \/ HandleChange

Spec == Init /\ [][Next]_vars

-----------------------------------------------------------------------------

\* The tracker has heard all there is to hear.
UpToDate == events = <<>> /\ seen = sent /\ ~lost

\* The tracker mirrors the players in sight and who they are, names left out of
\* moves included.
MirrorsPlayers == UpToDate => by_id = [i \in seen |-> NameOf[i]]

\* A player in sight is found by name, except after a respawn whose events came new
\* entity first, and then until that entity moves.
FoundUnlessOverlapped ==
    UpToDate => \A i \in seen : NameOf[i] \notin overlap => FindByName(NameOf[i]) = i
=============================================================================
