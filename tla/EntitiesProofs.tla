---------------------------- MODULE EntitiesProofs ----------------------------
(***************************************************************************)
(* Theorems about Entities, for any number of players, entities and        *)
(* events: what the tracker knows of the players in sight.                 *)
(*                                                                         *)
(* The tracker lags behind the mod by the events on their way, so neither  *)
(* MirrorsPlayers nor FoundUnlessOverlapped is inductive: the invariant    *)
(* looks ahead to what the tracker will know once it has handled them.     *)
(***************************************************************************)
EXTENDS Entities, TLAPS

-----------------------------------------------------------------------------
(* Types.  That a name points to a known entity rests on NamesPointBack.   *)

Named ==
    \A k \in DOMAIN events :
        events[k].name = IF events[k].action = "add" THEN NameOf[events[k].id] ELSE Nobody

KnownNames == \A i \in DOMAIN by_id : by_id[i] \in {NameOf[i], Nobody}

NamesPointBack ==
    \A n \in DOMAIN name_to_id :
        name_to_id[n] \in DOMAIN by_id /\ by_id[name_to_id[n]] = n /\ n # Nobody

ModTyped ==
    /\ seen \subseteq Id /\ sent \subseteq Id
    /\ events \in Seq(Event)
    /\ emitted \in 0..MaxEvents
    /\ overlap \subseteq Name
    /\ lost \in BOOLEAN

TrackerTyped ==
    /\ by_id \in Partial(Id, Name \cup {Nobody})
    /\ name_to_id \in Partial(Name, Id)

TypeInv == ModTyped /\ TrackerTyped /\ Named /\ KnownNames /\ NamesPointBack

LEMMA PartialIs ==
    ASSUME NEW D, NEW R, NEW f
    PROVE  f \in Partial(D, R) <=>
             /\ f = [x \in DOMAIN f |-> f[x]]
             /\ DOMAIN f \subseteq D
             /\ \A x \in DOMAIN f : f[x] \in R
<1>1. ASSUME f \in Partial(D, R)
      PROVE  /\ f = [x \in DOMAIN f |-> f[x]]
             /\ DOMAIN f \subseteq D
             /\ \A x \in DOMAIN f : f[x] \in R
  <2>1. PICK S \in SUBSET D : f \in [S -> R]
    BY <1>1 DEF Partial
  <2>. QED
    BY <2>1
<1>2. ASSUME f = [x \in DOMAIN f |-> f[x]], DOMAIN f \subseteq D,
             \A x \in DOMAIN f : f[x] \in R
      PROVE  f \in Partial(D, R)
  <2>1. f \in [DOMAIN f -> R]
    BY <1>2
  <2>. QED
    BY <1>2, <2>1 DEF Partial
<1>. QED
  BY <1>1, <1>2

LEMMA InitTypes == NamesAssumption /\ Init => TypeInv
<1>1. SUFFICES ASSUME NamesAssumption, Init PROVE TypeInv
  OBVIOUS
<1>. USE <1>1 DEF Init
<1>2. ModTyped
  <2>1. emitted \in 0..MaxEvents
    BY DEF NamesAssumption
  <2>2. events \in Seq(Event)
    OBVIOUS
  <2>3. lost \in BOOLEAN /\ seen \subseteq Id /\ sent \subseteq Id /\ overlap \subseteq Name
    BY Zenon
  <2>. QED
    BY <2>1, <2>2, <2>3, Zenon DEF ModTyped
<1>3. DOMAIN Nothing = {} /\ Nothing = [x \in DOMAIN Nothing |-> Nothing[x]]
  BY DEF Nothing
<1>4. TrackerTyped
  BY <1>3, PartialIs DEF TrackerTyped
<1>5. Named /\ KnownNames /\ NamesPointBack
  BY <1>3 DEF Named, KnownNames, NamesPointBack
<1>. QED
  BY <1>2, <1>4, <1>5 DEF TypeInv

\* The mod sends events it has named.
LEMMA EmitTypes ==
    ASSUME NamesAssumption, ModTyped, Named, NEW e \in Event, Emit(e),
           e.name = IF e.action = "add" THEN NameOf[e.id] ELSE Nobody
    PROVE  events' \in Seq(Event) /\ emitted' \in 0..MaxEvents /\ Named'
<1>1. events \in Seq(Event) /\ events' = Append(events, e) /\ events' \in Seq(Event)
  BY DEF ModTyped, Emit
<1>2. emitted' \in 0..MaxEvents
  BY DEF ModTyped, Emit, NamesAssumption
<1>3. /\ Len(events') = Len(events) + 1 /\ Len(events) \in Nat
      /\ DOMAIN events' = 1..(Len(events) + 1) /\ DOMAIN events = 1..Len(events)
      /\ events'[Len(events) + 1] = e
      /\ \A k \in 1..Len(events) : events'[k] = events[k]
  BY <1>1
<1>4. \A k \in 1..(Len(events) + 1) : k \in 1..Len(events) \/ k = Len(events) + 1
  BY <1>3
<1>5. Named'
  BY <1>3, <1>4 DEF Named
<1>. QED
  BY <1>1, <1>2, <1>5

\* The tracker takes the oldest event.
LEMMA TakeTypes ==
    ASSUME ModTyped, Named, events # <<>>, events' = Tail(events)
    PROVE  /\ Head(events) \in Event
           /\ Head(events).name = IF Head(events).action = "add"
                                  THEN NameOf[Head(events).id] ELSE Nobody
           /\ events' \in Seq(Event) /\ Named'
<1>1. events \in Seq(Event)
  BY DEF ModTyped
<1>2. /\ Len(events) \in Nat \ {0} /\ DOMAIN events = 1..Len(events)
      /\ Head(events) = events[1] /\ Head(events) \in Event
      /\ events' \in Seq(Event) /\ Len(events') = Len(events) - 1
      /\ DOMAIN events' = 1..(Len(events) - 1)
      /\ \A k \in 1..(Len(events) - 1) : events'[k] = events[k + 1]
  BY <1>1
<1>3. 1 \in DOMAIN events /\ \A k \in 1..(Len(events) - 1) : k + 1 \in DOMAIN events
  BY <1>2
<1>4. Named'
  BY <1>2, <1>3 DEF Named
<1>. QED
  BY <1>2, <1>3, <1>4 DEF Named

LEMMA RemoveTypes ==
    ASSUME TypeInv, HandleRemove
    PROVE  TrackerTyped' /\ KnownNames' /\ NamesPointBack'
<1>. DEFINE i == Head(events).id
<1>1. /\ by_id = [x \in DOMAIN by_id |-> by_id[x]] /\ DOMAIN by_id \subseteq Id
      /\ \A x \in DOMAIN by_id : by_id[x] \in Name \cup {Nobody}
      /\ DOMAIN name_to_id \subseteq Name
      /\ name_to_id = [x \in DOMAIN name_to_id |-> name_to_id[x]]
      /\ \A n \in DOMAIN name_to_id : name_to_id[n] \in Id
  BY PartialIs DEF TypeInv, TrackerTyped
<1>2. by_id' = Without(by_id, i) /\ name_to_id' = ForgetName(i)
  BY DEF HandleRemove
<1>. HIDE DEF i
<1>3. /\ by_id' = [x \in DOMAIN by_id' |-> by_id'[x]]
      /\ DOMAIN by_id' = DOMAIN by_id \ {i} /\ \A x \in DOMAIN by_id' : by_id'[x] = by_id[x]
  BY <1>2 DEF Without, Restrict
<1>4. /\ name_to_id' = [x \in DOMAIN name_to_id' |-> name_to_id'[x]]
      /\ DOMAIN name_to_id' \subseteq DOMAIN name_to_id
      /\ \A n \in DOMAIN name_to_id' : name_to_id'[n] = name_to_id[n]
      /\ \A n \in DOMAIN name_to_id' : i \in DOMAIN by_id /\ by_id[i] # Nobody => n # by_id[i]
  <2>1. CASE i \in DOMAIN by_id /\ by_id[i] # Nobody
    BY <1>2, <2>1 DEF ForgetName, Without, Restrict
  <2>2. CASE ~(i \in DOMAIN by_id /\ by_id[i] # Nobody)
    BY <1>1, <1>2, <2>2 DEF ForgetName
  <2>. QED
    BY <2>1, <2>2
<1>5. TrackerTyped'
  <2>1. by_id' \in Partial(Id, Name \cup {Nobody})
    BY <1>1, <1>3, PartialIs
  <2>2. name_to_id' \in Partial(Name, Id)
    BY <1>1, <1>4, PartialIs
  <2>. QED
    BY <2>1, <2>2 DEF TrackerTyped
<1>6. KnownNames'
  BY <1>3 DEF TypeInv, KnownNames
<1>7. NamesPointBack'
  BY <1>3, <1>4 DEF TypeInv, NamesPointBack
<1>. QED
  BY <1>5, <1>6, <1>7

LEMMA ChangeTypes ==
    ASSUME NamesAssumption, TypeInv, HandleChange
    PROVE  TrackerTyped' /\ KnownNames' /\ NamesPointBack'
<1>. DEFINE i == Head(events).id
            n == NameAfter(Head(events))
<1>1. /\ by_id = [x \in DOMAIN by_id |-> by_id[x]] /\ DOMAIN by_id \subseteq Id
      /\ \A x \in DOMAIN by_id : by_id[x] \in Name \cup {Nobody}
      /\ DOMAIN name_to_id \subseteq Name
      /\ name_to_id = [x \in DOMAIN name_to_id |-> name_to_id[x]]
      /\ \A x \in DOMAIN name_to_id : name_to_id[x] \in Id
  BY PartialIs DEF TypeInv, TrackerTyped
<1>2. /\ by_id' = With(by_id, i, n)
      /\ name_to_id' = IF n = Nobody THEN name_to_id ELSE With(name_to_id, n, i)
  BY DEF HandleChange
<1>3. /\ i \in Id /\ n \in {NameOf[i], Nobody} /\ NameOf[i] \in Name
      /\ i \in DOMAIN by_id => by_id[i] = n \/ (by_id[i] = Nobody /\ n = NameOf[i])
  <2>1. /\ Head(events) \in Event
        /\ Head(events).name = IF Head(events).action = "add" THEN NameOf[i] ELSE Nobody
    BY TakeTypes DEF TypeInv, HandleChange
  <2>2. i \in Id
    BY <2>1 DEF Event
  <2>3. NameOf[i] \in Name
    BY <2>2 DEF NamesAssumption, Name, Range
  <2>4. i \in DOMAIN by_id => by_id[i] \in {NameOf[i], Nobody}
    BY DEF TypeInv, KnownNames
  <2>. QED
    BY <2>1, <2>2, <2>3, <2>4 DEF NameAfter
<1>. HIDE DEF i, n
<1>4. /\ by_id' = [x \in DOMAIN by_id' |-> by_id'[x]]
      /\ DOMAIN by_id' = DOMAIN by_id \cup {i} /\ by_id'[i] = n
      /\ \A x \in DOMAIN by_id \ {i} : by_id'[x] = by_id[x]
  BY <1>2 DEF With
<1>5. CASE n = Nobody
  <2>1. name_to_id' = name_to_id
    BY <1>2, <1>5
  <2>2. KnownNames'
    BY <1>3, <1>4 DEF TypeInv, KnownNames
  <2>3. NamesPointBack'
    BY <1>3, <1>4, <1>5, <2>1 DEF TypeInv, NamesPointBack
  <2>4. by_id' \in Partial(Id, Name \cup {Nobody})
    BY <1>1, <1>3, <1>4, PartialIs
  <2>. QED
    BY <2>1, <2>2, <2>3, <2>4 DEF TypeInv, TrackerTyped
<1>6. CASE n # Nobody
  <2>1. /\ name_to_id' = [x \in DOMAIN name_to_id' |-> name_to_id'[x]]
        /\ DOMAIN name_to_id' = DOMAIN name_to_id \cup {n} /\ name_to_id'[n] = i
        /\ \A x \in DOMAIN name_to_id \ {n} : name_to_id'[x] = name_to_id[x]
    <3>1. name_to_id' = With(name_to_id, n, i)
      BY <1>2, <1>6
    <3>. QED
      BY <3>1 DEF With
  <2>2. KnownNames'
    BY <1>3, <1>4 DEF TypeInv, KnownNames
  <2>3. NamesPointBack'
    <3>. SUFFICES ASSUME NEW x \in DOMAIN name_to_id'
                  PROVE  name_to_id'[x] \in DOMAIN by_id' /\ by_id'[name_to_id'[x]] = x /\ x # Nobody
      BY DEF NamesPointBack
    <3>1. CASE x = n
      BY <1>4, <1>6, <2>1, <3>1
    <3>2. CASE x # n
      <4>1. /\ x \in DOMAIN name_to_id /\ name_to_id'[x] = name_to_id[x]
            /\ name_to_id[x] \in DOMAIN by_id /\ by_id[name_to_id[x]] = x /\ x # Nobody
        BY <2>1, <3>2 DEF TypeInv, NamesPointBack
      <4>2. name_to_id[x] # i
        BY <1>3, <3>2, <4>1
      <4>. QED
        BY <1>4, <4>1, <4>2
    <3>. QED
      BY <3>1, <3>2
  <2>4. by_id' \in Partial(Id, Name \cup {Nobody})
    BY <1>1, <1>3, <1>4, PartialIs
  <2>5. name_to_id' \in Partial(Name, Id)
    BY <1>1, <1>3, <1>6, <2>1, PartialIs
  <2>. QED
    BY <2>2, <2>3, <2>4, <2>5 DEF TrackerTyped
<1>. QED
  BY <1>5, <1>6

LEMMA NextTypes ==
    ASSUME NamesAssumption, TypeInv, [Next]_vars
    PROVE  TypeInv'
<1>0. /\ ModTyped /\ TrackerTyped /\ Named /\ KnownNames /\ NamesPointBack
      /\ seen \subseteq Id /\ sent \subseteq Id /\ overlap \subseteq Name
  BY DEF TypeInv, ModTyped
<1>1. \A i \in Id : NameOf[i] \in Name
  BY DEF NamesAssumption, Name, Range
<1>2. ASSUME UNCHANGED <<by_id, name_to_id>>
      PROVE  TrackerTyped' /\ KnownNames' /\ NamesPointBack'
  BY <1>0, <1>2 DEF TrackerTyped, KnownNames, NamesPointBack
<1>3. CASE WorldChanges
  <2>1. seen' \subseteq Id
    BY <1>3 DEF WorldChanges
  <2>2. UNCHANGED <<sent, events, emitted, by_id, name_to_id, overlap, lost>>
    BY <1>3 DEF WorldChanges, tracker
  <2>. QED
    BY <1>0, <1>2, <2>1, <2>2 DEF TypeInv, ModTyped, Named
<1>4. CASE LosesEvents
  <2>1. /\ UNCHANGED <<seen, sent, emitted, by_id, name_to_id, overlap>>
        /\ events' = <<>> /\ lost' = TRUE
    BY <1>4 DEF LosesEvents, mod, tracker
  <2>2. ModTyped'
    <3>1. events' \in Seq(Event)
      BY <2>1
    <3>2. lost' \in BOOLEAN
      BY <2>1, Zenon
    <3>3. /\ seen' \subseteq Id /\ sent' \subseteq Id /\ emitted' \in 0..MaxEvents
          /\ overlap' \subseteq Name
      BY <1>0, <2>1 DEF ModTyped
    <3>. QED
      BY <3>1, <3>2, <3>3, Zenon DEF ModTyped
  <2>3. Named'
    BY <2>1 DEF Named
  <2>. QED
    BY <1>2, <2>1, <2>2, <2>3 DEF TypeInv
<1>5. ASSUME NEW i \in Id, EmitsAdd(i) \/ EmitsRemove(i) \/ EmitsMove(i)
      PROVE  TypeInv'
  <2>1. /\ UNCHANGED <<seen, by_id, name_to_id, lost>>
        /\ sent' \subseteq Id /\ overlap' \subseteq Name
    BY <1>0, <1>1, <1>5 DEF EmitsAdd, EmitsRemove, EmitsMove, tracker
  <2>2. events' \in Seq(Event) /\ emitted' \in 0..MaxEvents /\ Named'
    <3>1. ASSUME NEW a \in {"add", "move", "remove"}, NEW n \in Name \cup {Nobody},
                 n = IF a = "add" THEN NameOf[i] ELSE Nobody,
                 Emit([action |-> a, id |-> i, name |-> n])
          PROVE  events' \in Seq(Event) /\ emitted' \in 0..MaxEvents /\ Named'
      <4>. DEFINE e == [action |-> a, id |-> i, name |-> n]
      <4>1. e \in Event /\ e.action = a /\ e.id = i /\ e.name = n
        BY DEF Event
      <4>2. Emit(e)
        BY <3>1
      <4>. HIDE DEF e
      <4>. QED
        BY <1>0, <3>1, <4>1, <4>2, EmitTypes
    <3>2. CASE EmitsAdd(i)
      BY <1>1, <3>1, <3>2 DEF EmitsAdd
    <3>3. CASE EmitsRemove(i)
      BY <3>1, <3>3 DEF EmitsRemove
    <3>4. CASE EmitsMove(i)
      BY <3>1, <3>4 DEF EmitsMove
    <3>. QED
      BY <1>5, <3>2, <3>3, <3>4
  <2>3. ModTyped'
    BY <1>0, <2>1, <2>2 DEF ModTyped
  <2>. QED
    BY <1>2, <2>1, <2>2, <2>3 DEF TypeInv
<1>6. CASE HandleRemove \/ HandleChange
  <2>1. UNCHANGED <<seen, sent, emitted, overlap, lost>> /\ events # <<>> /\ events' = Tail(events)
    BY <1>6 DEF HandleRemove, HandleChange, mod
  <2>2. events' \in Seq(Event) /\ Named'
    BY <1>0, <2>1, TakeTypes
  <2>3. ModTyped'
    BY <1>0, <2>1, <2>2 DEF ModTyped
  <2>4. TrackerTyped' /\ KnownNames' /\ NamesPointBack'
    BY <1>6, RemoveTypes, ChangeTypes
  <2>. QED
    BY <2>2, <2>3, <2>4 DEF TypeInv
<1>7. CASE UNCHANGED vars
  BY <1>0, <1>2, <1>7 DEF vars, mod, tracker, TypeInv, ModTyped, Named
<1>. QED
  BY <1>3, <1>4, <1>5, <1>6, <1>7 DEF Next

LEMMA TypeInvTypes == TypeInv => TypeOK
  BY DEF TypeInv, ModTyped, TrackerTyped, NamesPointBack, TypeOK, Range

\* The tracker's two maps stay maps of names and ids, and a name never points to an
\* entity the tracker has forgotten: whatever events are lost, handle_event keeps
\* _name_to_id inside _by_id.
THEOREM TypeCorrect ==
    ASSUME NamesAssumption
    PROVE  Spec => []TypeOK
<1>1. Init => TypeInv
  BY InitTypes
<1>2. TypeInv /\ [Next]_vars => TypeInv'
  BY NextTypes
<1>. QED
  BY <1>1, <1>2, TypeInvTypes, PTL DEF Spec

-----------------------------------------------------------------------------
(* Looking ahead.  Handled one after the other, events lead from the ids   *)
(* and the names the tracker knows to those it will know.                  *)

IdsAfter(e, ids) == IF e.action = "remove" THEN ids \ {e.id} ELSE ids \cup {e.id}

NamesAfter(e, ids, names) ==
    IF e.action # "remove" THEN With(names, NameOf[e.id], e.id)
    ELSE IF e.id \in ids THEN Without(names, NameOf[e.id]) ELSE names

Follows(s, K, N) ==
    \A k \in 1..Len(s) :
        /\ K[k] = IdsAfter(s[k], K[k - 1])
        /\ N[k] = NamesAfter(s[k], K[k - 1], N[k - 1])
        /\ s[k].action = "move" => s[k].id \in K[k - 1]

Leads(s, ids, names, ids2, names2) ==
    \E K, N :
        /\ Follows(s, K, N)
        /\ K[0] = ids /\ N[0] = names
        /\ K[Len(s)] = ids2 /\ N[Len(s)] = names2

\* A player all of whose other entities are gone is found, unless its name was
\* taken away with one of them.
FoundIn(names) ==
    \A i \in sent :
        (\A j \in sent : NameOf[j] = NameOf[i] => j = i) /\ NameOf[i] \notin overlap
            => NameOf[i] \in DOMAIN names /\ names[NameOf[i]] = i

Ahead ==
    /\ \A i, j \in seen : NameOf[i] = NameOf[j] => i = j
    /\ ~lost => /\ \A i \in DOMAIN by_id : by_id[i] = NameOf[i]
                /\ \E names : Leads(events, DOMAIN by_id, name_to_id, sent, names) /\ FoundIn(names)

LEMMA NothingLeads ==
    ASSUME NEW ids, NEW names
    PROVE  Leads(<<>>, ids, names, ids, names)
<1>. DEFINE K == [k \in {0} |-> ids]
            N == [k \in {0} |-> names]
<1>1. Len(<<>>) = 0 /\ K[0] = ids /\ N[0] = names
  OBVIOUS
<1>2. Follows(<<>>, K, N)
  BY <1>1 DEF Follows
<1>. QED
  BY <1>1, <1>2 DEF Leads

LEMMA LeadsNowhere ==
    ASSUME NEW ids, NEW names, NEW ids2, NEW names2, Leads(<<>>, ids, names, ids2, names2)
    PROVE  ids2 = ids /\ names2 = names
  BY Len(<<>>) = 0 DEF Leads

LEMMA LeadsFurther ==
    ASSUME NEW S, NEW s \in Seq(S), NEW e \in S,
           NEW ids, NEW names, NEW ids2, NEW names2, Leads(s, ids, names, ids2, names2),
           e.action = "move" => e.id \in ids2
    PROVE  Leads(Append(s, e), ids, names, IdsAfter(e, ids2), NamesAfter(e, ids2, names2))
<1>1. PICK K, N : /\ Follows(s, K, N)
                  /\ K[0] = ids /\ N[0] = names
                  /\ K[Len(s)] = ids2 /\ N[Len(s)] = names2
  BY DEF Leads
<1>. DEFINE n == Len(s)
            t == Append(s, e)
            K2 == [k \in 0..(n + 1) |-> IF k = n + 1 THEN IdsAfter(e, ids2) ELSE K[k]]
            N2 == [k \in 0..(n + 1) |-> IF k = n + 1 THEN NamesAfter(e, ids2, names2) ELSE N[k]]
<1>2. n \in Nat /\ Len(t) = n + 1 /\ t[n + 1] = e /\ \A k \in 1..n : t[k] = s[k]
  OBVIOUS
<1>3. /\ K2[n + 1] = IdsAfter(e, ids2) /\ N2[n + 1] = NamesAfter(e, ids2, names2)
      /\ \A k \in 0..n : K2[k] = K[k] /\ N2[k] = N[k]
  BY <1>2
<1>4. K[n] = ids2 /\ N[n] = names2 /\ K[0] = ids /\ N[0] = names
  BY <1>1
<1>5. \A k \in 1..n :
        /\ K[k] = IdsAfter(s[k], K[k - 1])
        /\ N[k] = NamesAfter(s[k], K[k - 1], N[k - 1])
        /\ s[k].action = "move" => s[k].id \in K[k - 1]
  BY <1>1 DEF Follows
<1>. HIDE DEF n, t, K2, N2
<1>6. Follows(t, K2, N2)
  <2>. SUFFICES ASSUME NEW k \in 1..(n + 1)
                PROVE  /\ K2[k] = IdsAfter(t[k], K2[k - 1])
                       /\ N2[k] = NamesAfter(t[k], K2[k - 1], N2[k - 1])
                       /\ t[k].action = "move" => t[k].id \in K2[k - 1]
    BY <1>2 DEF Follows
  <2>1. CASE k = n + 1
    <3>1. k - 1 = n /\ n \in 0..n
      BY <1>2, <2>1
    <3>2. K2[k - 1] = ids2 /\ N2[k - 1] = names2 /\ t[k] = e
      BY <1>2, <1>3, <1>4, <2>1, <3>1
    <3>. QED
      BY <1>3, <2>1, <3>2
  <2>2. CASE k # n + 1
    <3>1. k \in 1..n /\ k \in 0..n /\ k - 1 \in 0..n
      BY <1>2, <2>2
    <3>2. K2[k] = K[k] /\ N2[k] = N[k] /\ K2[k - 1] = K[k - 1] /\ N2[k - 1] = N[k - 1] /\ t[k] = s[k]
      BY <1>2, <1>3, <3>1
    <3>. QED
      BY <1>5, <3>1, <3>2
  <2>. QED
    BY <2>1, <2>2
<1>7. K2[0] = ids /\ N2[0] = names
  BY <1>2, <1>3, <1>4
<1>8. Leads(t, ids, names, IdsAfter(e, ids2), NamesAfter(e, ids2, names2))
  BY <1>2, <1>3, <1>6, <1>7 DEF Leads
<1>. QED
  BY <1>8 DEF t

LEMMA LeadsOn ==
    ASSUME NEW S, NEW s \in Seq(S), s # <<>>,
           NEW ids, NEW names, NEW ids2, NEW names2, Leads(s, ids, names, ids2, names2)
    PROVE  /\ Head(s).action = "move" => Head(s).id \in ids
           /\ Leads(Tail(s), IdsAfter(Head(s), ids), NamesAfter(Head(s), ids, names), ids2, names2)
<1>1. PICK K, N : /\ Follows(s, K, N)
                  /\ K[0] = ids /\ N[0] = names
                  /\ K[Len(s)] = ids2 /\ N[Len(s)] = names2
  BY DEF Leads
<1>. DEFINE n == Len(s)
            t == Tail(s)
            K2 == [k \in 0..(n - 1) |-> K[k + 1]]
            N2 == [k \in 0..(n - 1) |-> N[k + 1]]
<1>2. /\ n \in Nat \ {0} /\ Len(t) = n - 1 /\ Head(s) = s[1]
      /\ \A k \in 1..(n - 1) : t[k] = s[k + 1]
  OBVIOUS
<1>3. \A k \in 0..(n - 1) : K2[k] = K[k + 1] /\ N2[k] = N[k + 1]
  OBVIOUS
<1>4. K[n] = ids2 /\ N[n] = names2 /\ K[0] = ids /\ N[0] = names
  BY <1>1
<1>5. \A k \in 1..n :
        /\ K[k] = IdsAfter(s[k], K[k - 1])
        /\ N[k] = NamesAfter(s[k], K[k - 1], N[k - 1])
        /\ s[k].action = "move" => s[k].id \in K[k - 1]
  BY <1>1 DEF Follows
<1>. HIDE DEF n, t, K2, N2
<1>6. Follows(t, K2, N2)
  <2>. SUFFICES ASSUME NEW k \in 1..(n - 1)
                PROVE  /\ K2[k] = IdsAfter(t[k], K2[k - 1])
                       /\ N2[k] = NamesAfter(t[k], K2[k - 1], N2[k - 1])
                       /\ t[k].action = "move" => t[k].id \in K2[k - 1]
    BY <1>2 DEF Follows
  <2>1. /\ k \in 0..(n - 1) /\ k - 1 \in 0..(n - 1) /\ k + 1 \in 1..n
        /\ (k - 1) + 1 = k /\ (k + 1) - 1 = k
    BY <1>2
  <2>2. /\ K2[k] = K[k + 1] /\ N2[k] = N[k + 1] /\ K2[k - 1] = K[k] /\ N2[k - 1] = N[k]
        /\ t[k] = s[k + 1]
    BY <1>2, <1>3, <2>1
  <2>3. /\ K[k + 1] = IdsAfter(s[k + 1], K[k])
        /\ N[k + 1] = NamesAfter(s[k + 1], K[k], N[k])
        /\ s[k + 1].action = "move" => s[k + 1].id \in K[k]
    BY <1>5, <2>1
  <2>. QED
    BY <2>2, <2>3
<1>7. /\ K2[0] = IdsAfter(Head(s), ids) /\ N2[0] = NamesAfter(Head(s), ids, names)
      /\ Head(s).action = "move" => Head(s).id \in ids
  <2>1. 0 \in 0..(n - 1) /\ 0 + 1 = 1 /\ 1 \in 1..n /\ 1 - 1 = 0
    BY <1>2
  <2>2. K2[0] = K[1] /\ N2[0] = N[1]
    BY <1>3, <2>1
  <2>3. /\ K[1] = IdsAfter(s[1], K[0]) /\ N[1] = NamesAfter(s[1], K[0], N[0])
        /\ s[1].action = "move" => s[1].id \in K[0]
    BY <1>5, <2>1
  <2>. QED
    BY <1>2, <1>4, <2>2, <2>3
<1>8. K2[Len(t)] = ids2 /\ N2[Len(t)] = names2
  <2>1. n - 1 \in 0..(n - 1) /\ (n - 1) + 1 = n
    BY <1>2
  <2>. QED
    BY <1>2, <1>3, <1>4, <2>1
<1>9. Leads(t, IdsAfter(Head(s), ids), NamesAfter(Head(s), ids, names), ids2, names2)
  BY <1>6, <1>7, <1>8 DEF Leads
<1>. QED
  BY <1>7, <1>9 DEF t

\* A step that leaves the events and the tracker as they are.
LEMMA NothingHandled ==
    ASSUME Ahead, UNCHANGED <<sent, events, by_id, name_to_id, overlap, lost>>,
           \A i, j \in seen' : NameOf[i] = NameOf[j] => i = j
    PROVE  Ahead'
  BY DEF Ahead, FoundIn

LEMMA EmitLooksAhead ==
    ASSUME NamesAssumption, ModTyped, ~lost, NEW e \in Event, Emit(e),
           UNCHANGED <<by_id, name_to_id>>,
           NEW names, Leads(events, DOMAIN by_id, name_to_id, sent, names),
           e.action = "move" => e.id \in sent
    PROVE  Leads(events', DOMAIN by_id', name_to_id', IdsAfter(e, sent), NamesAfter(e, sent, names))
<1>1. events \in Seq(Event) /\ events' = Append(events, e)
  BY DEF ModTyped, Emit
<1>2. Leads(Append(events, e), DOMAIN by_id, name_to_id,
            IdsAfter(e, sent), NamesAfter(e, sent, names))
  BY <1>1, LeadsFurther
<1>. QED
  BY <1>1, <1>2

LEMMA EmitAhead ==
    ASSUME NamesAssumption, TypeInv, Ahead, NEW i \in Id,
           EmitsAdd(i) \/ EmitsRemove(i) \/ EmitsMove(i)
    PROVE  Ahead'
<1>1. /\ UNCHANGED <<seen, by_id, name_to_id, lost>>
      /\ \A x, y \in seen : NameOf[x] = NameOf[y] => x = y
  BY DEF EmitsAdd, EmitsRemove, EmitsMove, tracker, Ahead
<1>2. CASE lost
  BY <1>1, <1>2 DEF Ahead
<1>3. CASE ~lost
  <2>1. PICK names : Leads(events, DOMAIN by_id, name_to_id, sent, names) /\ FoundIn(names)
    BY <1>3 DEF Ahead
  <2>2. NameOf[i] \in Name
    BY DEF NamesAssumption, Name, Range
  <2>3. ModTyped
    BY DEF TypeInv
  <2>4. CASE EmitsAdd(i)
    <3>. DEFINE e == [action |-> "add", id |-> i, name |-> NameOf[i]]
    <3>1. e \in Event /\ e.action = "add" /\ e.id = i
      BY <2>2 DEF Event
    <3>2. Emit(e) /\ sent' = sent \cup {i} /\ overlap' = overlap
      BY <2>4 DEF EmitsAdd
    <3>. HIDE DEF e
    <3>3. Leads(events', DOMAIN by_id', name_to_id', sent', With(names, NameOf[i], i))
      <4>1. Leads(events', DOMAIN by_id', name_to_id', IdsAfter(e, sent), NamesAfter(e, sent, names))
        BY <1>1, <1>3, <2>1, <2>3, <3>1, <3>2, EmitLooksAhead
      <4>2. IdsAfter(e, sent) = sent' /\ NamesAfter(e, sent, names) = With(names, NameOf[i], i)
        BY <3>1, <3>2 DEF IdsAfter, NamesAfter
      <4>. QED
        BY <4>1, <4>2
    <3>4. FoundIn(With(names, NameOf[i], i))'
      BY <2>1, <3>2 DEF FoundIn, With
    <3>. QED
      BY <1>1, <3>3, <3>4 DEF Ahead
  <2>5. CASE EmitsMove(i)
    <3>. DEFINE e == [action |-> "move", id |-> i, name |-> Nobody]
    <3>1. e \in Event /\ e.action = "move" /\ e.id = i
      BY DEF Event
    <3>2. Emit(e) /\ i \in sent /\ sent' = sent
      BY <2>5 DEF EmitsMove
    <3>. HIDE DEF e
    <3>3. Leads(events', DOMAIN by_id', name_to_id', sent', With(names, NameOf[i], i))
      <4>1. Leads(events', DOMAIN by_id', name_to_id', IdsAfter(e, sent), NamesAfter(e, sent, names))
        BY <1>1, <1>3, <2>1, <2>3, <3>1, <3>2, EmitLooksAhead
      <4>2. IdsAfter(e, sent) = sent' /\ NamesAfter(e, sent, names) = With(names, NameOf[i], i)
        BY <3>1, <3>2 DEF IdsAfter, NamesAfter
      <4>. QED
        BY <4>1, <4>2
    <3>4. \A j \in sent : NameOf[j] # NameOf[i] => (NameOf[j] \in overlap' <=> NameOf[j] \in overlap)
      BY <2>5 DEF EmitsMove
    <3>5. FoundIn(With(names, NameOf[i], i))'
      BY <2>1, <3>2, <3>4 DEF FoundIn, With
    <3>. QED
      BY <1>1, <3>3, <3>5 DEF Ahead
  <2>6. CASE EmitsRemove(i)
    <3>. DEFINE e == [action |-> "remove", id |-> i, name |-> Nobody]
    <3>1. e \in Event /\ e.action = "remove" /\ e.id = i
      BY DEF Event
    <3>2. Emit(e) /\ i \in sent /\ sent' = sent \ {i}
      BY <2>6 DEF EmitsRemove
    <3>. HIDE DEF e
    <3>3. Leads(events', DOMAIN by_id', name_to_id', sent', Without(names, NameOf[i]))
      <4>1. Leads(events', DOMAIN by_id', name_to_id', IdsAfter(e, sent), NamesAfter(e, sent, names))
        BY <1>1, <1>3, <2>1, <2>3, <3>1, <3>2, EmitLooksAhead
      <4>2. IdsAfter(e, sent) = sent' /\ NamesAfter(e, sent, names) = Without(names, NameOf[i])
        BY <3>1, <3>2 DEF IdsAfter, NamesAfter
      <4>. QED
        BY <4>1, <4>2
    <3>4. /\ overlap \subseteq overlap'
          /\ \A j \in sent' : NameOf[j] = NameOf[i] => NameOf[i] \in overlap'
      BY <2>6 DEF EmitsRemove
    <3>5. \A j \in sent' : NameOf[j] # NameOf[i] =>
             /\ NameOf[j] \in DOMAIN names => NameOf[j] \in DOMAIN Without(names, NameOf[i])
             /\ NameOf[j] \in DOMAIN names =>
                  Without(names, NameOf[i])[NameOf[j]] = names[NameOf[j]]
      BY DEF Without, Restrict
    <3>6. FoundIn(Without(names, NameOf[i]))'
      BY <2>1, <3>2, <3>4, <3>5 DEF FoundIn
    <3>. QED
      BY <1>1, <3>3, <3>6 DEF Ahead
  <2>. QED
    BY <2>4, <2>5, <2>6
<1>. QED
  BY <1>2, <1>3

LEMMA HandleAhead ==
    ASSUME NamesAssumption, TypeInv, Ahead, HandleRemove \/ HandleChange
    PROVE  Ahead'
<1>1. /\ UNCHANGED <<seen, sent, overlap, lost>> /\ events # <<>> /\ events' = Tail(events)
      /\ events \in Seq(Event)
      /\ \A x, y \in seen : NameOf[x] = NameOf[y] => x = y
  BY DEF HandleRemove, HandleChange, mod, Ahead, TypeInv, ModTyped
<1>2. CASE lost
  BY <1>1, <1>2 DEF Ahead
<1>3. CASE ~lost
  <2>. DEFINE e == Head(events)
              i == e.id
  <2>1. PICK names : Leads(events, DOMAIN by_id, name_to_id, sent, names) /\ FoundIn(names)
    BY <1>3 DEF Ahead
  <2>2. /\ e.action = "move" => i \in DOMAIN by_id
        /\ Leads(Tail(events), IdsAfter(e, DOMAIN by_id),
                 NamesAfter(e, DOMAIN by_id, name_to_id), sent, names)
    BY <1>1, <2>1, LeadsOn
  <2>3. \A x \in DOMAIN by_id : by_id[x] = NameOf[x]
    BY <1>3 DEF Ahead
  <2>4. /\ e \in Event /\ e.name = IF e.action = "add" THEN NameOf[i] ELSE Nobody
        /\ i \in Id /\ NameOf[i] \in Name /\ NameOf[i] # Nobody
    <3>1. e \in Event /\ e.name = IF e.action = "add" THEN NameOf[i] ELSE Nobody
      BY <1>1, TakeTypes DEF TypeInv
    <3>2. i \in Id
      BY <3>1 DEF Event
    <3>. QED
      BY <3>1, <3>2 DEF NamesAssumption, Name, Range
  <2>5. /\ DOMAIN by_id' = IdsAfter(e, DOMAIN by_id)
        /\ name_to_id' = NamesAfter(e, DOMAIN by_id, name_to_id)
        /\ \A x \in DOMAIN by_id' : by_id'[x] = NameOf[x]
    <3>1. CASE HandleRemove
      <4>1. e.action = "remove" /\ by_id' = Without(by_id, i) /\ name_to_id' = ForgetName(i)
        BY <3>1 DEF HandleRemove
      <4>2. DOMAIN by_id' = DOMAIN by_id \ {i} /\ \A x \in DOMAIN by_id' : by_id'[x] = by_id[x]
        BY <4>1 DEF Without, Restrict
      <4>3. ForgetName(i) = NamesAfter(e, DOMAIN by_id, name_to_id)
        BY <2>3, <2>4, <4>1 DEF ForgetName, NamesAfter
      <4>. QED
        BY <2>3, <4>1, <4>2, <4>3 DEF IdsAfter
    <3>2. CASE HandleChange
      <4>1. /\ e.action # "remove"
            /\ by_id' = With(by_id, i, NameAfter(e))
            /\ name_to_id' = IF NameAfter(e) = Nobody THEN name_to_id
                             ELSE With(name_to_id, NameAfter(e), i)
        BY <3>2 DEF HandleChange
      <4>2. NameAfter(e) = NameOf[i]
        <5>1. CASE e.action = "add"
          BY <2>4, <5>1 DEF NameAfter
        <5>2. CASE e.action = "move"
          BY <2>2, <2>3, <2>4, <5>2 DEF NameAfter
        <5>3. e.action = "add" \/ e.action = "move"
          BY <2>4, <4>1 DEF Event
        <5>. QED
          BY <5>1, <5>2, <5>3
      <4>3. by_id' = With(by_id, i, NameOf[i]) /\ name_to_id' = With(name_to_id, NameOf[i], i)
        BY <2>4, <4>1, <4>2
      <4>4. /\ DOMAIN by_id' = DOMAIN by_id \cup {i} /\ by_id'[i] = NameOf[i]
            /\ \A x \in DOMAIN by_id \ {i} : by_id'[x] = by_id[x]
        BY <4>3 DEF With
      <4>. QED
        BY <2>3, <4>1, <4>3, <4>4 DEF IdsAfter, NamesAfter
    <3>. QED
      BY <3>1, <3>2
  <2>6. FoundIn(names)'
    BY <1>1, <2>1 DEF FoundIn
  <2>7. Leads(events', DOMAIN by_id', name_to_id', sent', names)
    BY <1>1, <2>2, <2>5
  <2>. QED
    BY <1>1, <2>5, <2>6, <2>7 DEF Ahead
<1>. QED
  BY <1>2, <1>3

LEMMA NextAhead ==
    ASSUME NamesAssumption, TypeInv, Ahead, [Next]_vars
    PROVE  Ahead'
<1>0. \A i, j \in seen : NameOf[i] = NameOf[j] => i = j
  BY DEF Ahead
<1>1. CASE WorldChanges
  BY <1>1, NothingHandled DEF WorldChanges, tracker
<1>2. CASE LosesEvents
  BY <1>0, <1>2 DEF LosesEvents, mod, Ahead
<1>3. CASE \E i \in Id : EmitsAdd(i) \/ EmitsRemove(i) \/ EmitsMove(i)
  BY <1>3, EmitAhead
<1>4. CASE HandleRemove \/ HandleChange
  BY <1>4, HandleAhead
<1>5. CASE UNCHANGED vars
  BY <1>0, <1>5, NothingHandled DEF vars, mod, tracker
<1>. QED
  BY <1>1, <1>2, <1>3, <1>4, <1>5 DEF Next

LEMMA InitAhead == Init => Ahead
<1>1. SUFFICES ASSUME Init PROVE Ahead
  OBVIOUS
<1>2. /\ seen = {} /\ sent = {} /\ events = <<>> /\ DOMAIN by_id = {} /\ name_to_id = Nothing
  BY <1>1 DEF Init, Nothing
<1>3. Leads(events, DOMAIN by_id, name_to_id, sent, Nothing)
  BY <1>2, NothingLeads
<1>4. FoundIn(Nothing)
  BY <1>2 DEF FoundIn
<1>. QED
  BY <1>2, <1>3, <1>4 DEF Ahead

LEMMA Invariance ==
    ASSUME NamesAssumption
    PROVE  Spec => [](TypeInv /\ Ahead)
<1>1. Init => TypeInv /\ Ahead
  BY InitTypes, InitAhead
<1>2. TypeInv /\ Ahead /\ [Next]_vars => (TypeInv /\ Ahead)'
  BY NextTypes, NextAhead
<1>. QED
  BY <1>1, <1>2, PTL DEF Spec

LEMMA AheadMirrors == TypeInv /\ Ahead => MirrorsPlayers
<1>1. SUFFICES ASSUME TypeInv, Ahead, UpToDate
               PROVE  by_id = [i \in seen |-> NameOf[i]]
  BY DEF MirrorsPlayers
<1>2. PICK names : Leads(events, DOMAIN by_id, name_to_id, sent, names)
  BY <1>1 DEF Ahead, UpToDate
<1>3. DOMAIN by_id = seen
  BY <1>1, <1>2, LeadsNowhere DEF UpToDate
<1>4. by_id = [i \in DOMAIN by_id |-> by_id[i]]
  BY <1>1, PartialIs DEF TypeInv, TrackerTyped
<1>. QED
  BY <1>1, <1>3, <1>4 DEF Ahead, UpToDate

LEMMA AheadFinds == TypeInv /\ Ahead => FoundUnlessOverlapped
<1>1. SUFFICES ASSUME TypeInv, Ahead, UpToDate, NEW i \in seen, NameOf[i] \notin overlap
               PROVE  FindByName(NameOf[i]) = i
  BY DEF FoundUnlessOverlapped
<1>2. PICK names : Leads(events, DOMAIN by_id, name_to_id, sent, names) /\ FoundIn(names)
  BY <1>1 DEF Ahead, UpToDate
<1>3. names = name_to_id /\ DOMAIN by_id = sent /\ seen = sent
  BY <1>1, <1>2, LeadsNowhere DEF UpToDate
<1>4. \A j \in sent : NameOf[j] = NameOf[i] => j = i
  BY <1>1, <1>3 DEF Ahead
<1>5. NameOf[i] \in DOMAIN name_to_id /\ name_to_id[NameOf[i]] = i /\ i \in DOMAIN by_id
  BY <1>1, <1>2, <1>3, <1>4 DEF FoundIn
<1>. QED
  BY <1>5 DEF FindByName

\* Once the tracker has handled every event of a connection that lost none, it
\* knows exactly the players in sight, by their own names, though a `move' names
\* nobody: handle_event never confuses two of them.
THEOREM PlayersAreMirrored ==
    ASSUME NamesAssumption
    PROVE  Spec => []MirrorsPlayers
  BY Invariance, AheadMirrors, PTL

\* And it finds each of them by name, respawned or not, unless the old entity was
\* removed after the new one was added and that one has not moved since.
THEOREM PlayersAreFound ==
    ASSUME NamesAssumption
    PROVE  Spec => []FoundUnlessOverlapped
  BY Invariance, AheadFinds, PTL
===============================================================================
