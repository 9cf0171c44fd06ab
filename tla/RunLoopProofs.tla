----------------------------- MODULE RunLoopProofs -----------------------------
(***************************************************************************)
(* Theorems about RunLoop, for any number and mixture of events.           *)
(***************************************************************************)
EXTENDS RunLoop, TLAPS

-----------------------------------------------------------------------------
(* The inductive invariant.  Tasks are named after processed events, so a  *)
(* new one is never one that exists; at most one task waits for its first  *)
(* step, and a self-defence among them was started under an intention that *)
(* is still the current one.  The order of the intention is behind every   *)
(* other standing order in line for the mutex, or gone from it: sent, and  *)
(* then no standing order is left in line, or lost.                        *)

Counted ==
    /\ processed + Len(queue) <= read
    /\ current <= processed /\ newest <= processed
    /\ \A t \in Task : t > processed => status[t] = "none"

\* The first half of NewestLineWins.
OnlyTrackedLives ==
    \A t \in Task : kind[t] # "autodefend" /\ Live(t) => t = current

\* Its second half.
TrackedIsNewest ==
    ~echoed =>
        /\ current = newest
        /\ newest # None /\ run # "interrupted"
             => status[newest] # "cancelled"

FirstStepsOneByOne ==
    /\ \A s, t \in Task : status[s] = "created" /\ status[t] = "created" => s = t
    /\ \A t \in Task : status[t] = "created" /\ kind[t] = "autodefend" => intention # "DEFEND"

ReplacedByIdle == replaced => modGoal = "IDLE"

FinishingLast ==
    /\ run = "finishing" => queue = <<>> /\ reader # "running" /\ current # None
    /\ run = "interrupted" => current = None \/ ~Live(current)

\* The line for the mutex is one: of two that wait, one came first.
LineInOrder ==
    /\ \A t \in line : status[t] = "queued" /\ ahead[t] \subseteq line
    /\ \A s, t \in line : s = t \/ s \in ahead[t] \/ t \in ahead[s]

OrderedIsLast ==
    /\ ordered # None => /\ kind[ordered] \in Standing /\ status[ordered] # "none"
                         /\ intention = IntentionOf(kind[ordered])
    /\ Pending => \A t \in line : kind[t] \in Standing => t = ordered \/ t \in ahead[ordered]
    /\ ~Pending /\ ~lost => \A t \in line : kind[t] \notin Standing

\* A self-defence in line finds the mod defending no player when its turn comes: none
\* is defended, or a follow or stop between the defend and it is still to be sent.
NoDefenceBefore(t) ==
    \/ modGoal # "DEFEND other" /\ \A d \in ahead[t] : kind[d] # "defend"
    \/ \E s \in ahead[t] : /\ kind[s] \in {"follow", "stop"}
                           /\ \A d \in ahead[t] : kind[d] = "defend" => d \in ahead[s]
DefenceWaits == ~lost => \A t \in line : kind[t] = "autodefend" => NoDefenceBefore(t)

\* What the line and the mod have to do with the intention.
Orderly == LineInOrder /\ OrderedIsLast /\ DefenceWaits /\ ReplacedByIdle /\ InSyncUnlessLost

IInv ==
    /\ TypeOK
    /\ Counted
    /\ OnlyTrackedLives
    /\ TrackedIsNewest
    /\ FirstStepsOneByOne
    /\ FinishingLast
    /\ Orderly

\* The parts of TypeOK.
LoopTyped ==
    /\ reader \in {"running", "ended", "crashed"}
    /\ read \in 0..MaxEvents
    /\ queue \in Seq(Queued)
    /\ processed \in 0..MaxEvents
    /\ run \in {"looping", "finishing", "over", "interrupted"}
TasksTyped ==
    /\ current \in Task \cup {None}
    /\ kind \in [Task -> Kinds]
    /\ status \in [Task -> Statuses]
    /\ newest \in Task \cup {None}
OwnTyped == ownName \in BOOLEAN /\ echoed \in BOOLEAN
ModTyped ==
    /\ intention \in {"IDLE", "FOLLOW", "DEFEND"}
    /\ ordered \in Task \cup {None}
    /\ link \in {"up", "closing", "down"}
    /\ holder \in Task \cup {None, Other}
    /\ line \subseteq Task
    /\ ahead \in [Task -> SUBSET Task]
    /\ modGoal \in {"IDLE", "FOLLOW", "DEFEND other", "DEFEND self"}
    /\ lost \in BOOLEAN
    /\ replaced \in BOOLEAN

LEMMA TypeParts == TypeOK <=> LoopTyped /\ TasksTyped /\ OwnTyped /\ ModTyped
  BY DEF TypeOK, LoopTyped, TasksTyped, OwnTyped, ModTyped

LEMMA TypePartsPrimed ==
    ASSUME LoopTyped', TasksTyped', OwnTyped', ModTyped'
    PROVE  TypeOK'
  BY DEF TypeOK, LoopTyped, TasksTyped, OwnTyped, ModTyped

\* What a step leaves alone stays typed.
LEMMA TypesKept ==
    ASSUME TypeOK
    PROVE  /\ UNCHANGED <<reader, read, queue, processed, run>> => LoopTyped'
           /\ UNCHANGED <<tasks, newest>> => TasksTyped'
           /\ UNCHANGED <<ownName, echoed>> => OwnTyped'
           /\ UNCHANGED <<goal, mod>> => ModTyped'
<1>1. LoopTyped /\ TasksTyped /\ OwnTyped /\ ModTyped
  BY TypeParts
<1>2. UNCHANGED <<reader, read, queue, processed, run>> => LoopTyped'
  BY <1>1 DEF LoopTyped
<1>3. UNCHANGED <<tasks, newest>> => TasksTyped'
  BY <1>1 DEF TasksTyped, tasks
<1>4. UNCHANGED <<ownName, echoed>> => OwnTyped'
  BY <1>1 DEF OwnTyped
<1>5. UNCHANGED <<goal, mod>> => ModTyped'
  BY <1>1 DEF ModTyped, goal, mod, mutex, given
<1>. QED
  BY <1>2, <1>3, <1>4, <1>5

\* Arithmetic over the counters.
LEMMA Numbers ==
    ASSUME TypeOK
    PROVE  /\ MaxEvents \in Nat /\ read \in Nat /\ processed \in Nat /\ Len(queue) \in Nat
           /\ read \in 0..MaxEvents /\ read <= read
           /\ current \in Nat /\ newest \in Nat
<1>1. MaxEvents \in Nat
  BY BoundsAssumption
<1>2. read \in 0..MaxEvents /\ processed \in 0..MaxEvents /\ queue \in Seq(Queued)
      /\ current \in Task \cup {None} /\ newest \in Task \cup {None}
  BY DEF TypeOK
<1>. QED
  BY <1>1, <1>2 DEF Task, None

LEMMA InitIInv == Init => IInv
<1>. SUFFICES ASSUME Init PROVE IInv
  OBVIOUS
<1>. USE BoundsAssumption DEF Init
<1>1. TypeOK
  <2>1. LoopTyped
    BY DEF LoopTyped
  <2>2. TasksTyped
    BY DEF TasksTyped, Kinds, Statuses
  <2>3. OwnTyped
    BY DEF OwnTyped
  <2>4. ModTyped
    BY DEF ModTyped
  <2>. QED
    BY <2>1, <2>2, <2>3, <2>4, TypeParts
<1>2. Counted /\ OnlyTrackedLives /\ TrackedIsNewest
  BY DEF Counted, OnlyTrackedLives, TrackedIsNewest, Live, None, Task
<1>3. FirstStepsOneByOne /\ FinishingLast
  BY DEF FirstStepsOneByOne, FinishingLast
<1>4. Orderly
  BY DEF Orderly, LineInOrder, OrderedIsLast, DefenceWaits, ReplacedByIdle, InSyncUnlessLost,
     Matching, Pending
<1>. QED
  BY <1>1, <1>2, <1>3, <1>4 DEF IInv

-----------------------------------------------------------------------------
(* The line, the mod and the intention.                                    *)

\* A step that leaves them alone, and the tasks of the line in it.
LEMMA OrderlyKept ==
    ASSUME TypeOK, Orderly, UNCHANGED <<goal, line, ahead, given, lost>>,
           \A t \in Task : status[t] # "none" => kind'[t] = kind[t] /\ status'[t] # "none",
           \A t \in line : status'[t] = status[t]
    PROVE  Orderly'
<1>1. line \subseteq Task /\ ordered \in Task \cup {None} /\ ahead \in [Task -> SUBSET Task]
  BY DEF TypeOK
<1>2. UNCHANGED <<intention, ordered, line, ahead, modGoal, replaced, lost>>
  BY DEF goal, given
<1>3. \A t \in line : kind'[t] = kind[t] /\ ahead[t] \subseteq line
  BY <1>1 DEF Orderly, LineInOrder
<1>4. LineInOrder'
  BY <1>2 DEF Orderly, LineInOrder
<1>5. OrderedIsLast'
  BY <1>1, <1>2, <1>3 DEF Orderly, OrderedIsLast, Pending
<1>6. DefenceWaits'
  <2>. SUFFICES ASSUME ~lost', NEW t \in line', kind'[t] = "autodefend"
                PROVE  NoDefenceBefore(t)'
    BY DEF DefenceWaits
  <2>1. t \in line /\ kind[t] = "autodefend" /\ NoDefenceBefore(t)
    BY <1>2, <1>3 DEF Orderly, DefenceWaits
  <2>2. \A d \in ahead[t] : kind'[d] = kind[d]
    BY <1>3, <2>1
  <2>. QED
    BY <1>2, <2>1, <2>2 DEF NoDefenceBefore
<1>7. ReplacedByIdle' /\ InSyncUnlessLost'
  BY <1>2 DEF Orderly, ReplacedByIdle, InSyncUnlessLost, Matching, Pending
<1>. QED
  BY <1>4, <1>5, <1>6, <1>7 DEF Orderly

LEMMA StandingStill ==
    ASSUME TypeOK, Orderly, UNCHANGED <<tasks, goal, mod>>
    PROVE  Orderly'
  BY OrderlyKept DEF tasks, mod, mutex

\* Some leave the line, and the standing orders among them are lost.
LEMMA LeaversKeepOrder ==
    ASSUME TypeOK, Orderly, NEW S \in SUBSET Task, LeavesLine(S), UNCHANGED <<goal, given>>,
           lost' = (lost \/ \E t \in line : t \in S /\ kind[t] \in Standing),
           \A t \in Task : status[t] # "none" => kind'[t] = kind[t] /\ status'[t] # "none",
           \A t \in line \ S : status'[t] = status[t]
    PROVE  /\ Orderly'
           /\ line' \subseteq Task /\ ahead' \in [Task -> SUBSET Task] /\ lost' \in BOOLEAN
<1>1. line \subseteq Task /\ ordered \in Task \cup {None} /\ ahead \in [Task -> SUBSET Task]
      /\ lost \in BOOLEAN
  BY DEF TypeOK
<1>2. UNCHANGED <<intention, ordered, modGoal, replaced>>
  BY DEF goal, given
<1>3. /\ line' = line \ S /\ line' \subseteq Task
      /\ \A t \in line' : t \in line /\ t \in Task /\ t \notin S /\ ahead'[t] = ahead[t] \ S
  BY <1>1 DEF LeavesLine
<1>4. \A t \in line' : kind'[t] = kind[t] /\ status'[t] = "queued" /\ ahead[t] \subseteq line
  BY <1>1, <1>3 DEF Orderly, LineInOrder
<1>5. LineInOrder'
  <2>1. \A t \in line' : status'[t] = "queued" /\ ahead'[t] \subseteq line'
    BY <1>3, <1>4
  <2>2. \A s, t \in line' : s = t \/ s \in ahead'[t] \/ t \in ahead'[s]
    BY <1>3 DEF Orderly, LineInOrder
  <2>. QED
    BY <2>1, <2>2 DEF LineInOrder
<1>6. ~lost' => ~lost /\ \A t \in line : t \in S => kind[t] \notin Standing
  OBVIOUS
<1>7. OrderedIsLast'
  <2>1. ordered' # None => /\ kind'[ordered'] \in Standing /\ status'[ordered'] # "none"
                           /\ intention' = IntentionOf(kind'[ordered'])
    BY <1>1, <1>2 DEF Orderly, OrderedIsLast
  <2>2. Pending' => \A t \in line' : kind'[t] \in Standing => t = ordered' \/ t \in ahead'[ordered']
    BY <1>2, <1>3, <1>4 DEF Orderly, OrderedIsLast, Pending
  <2>3. ~Pending' /\ ~lost' => \A t \in line' : kind'[t] \notin Standing
    <3>1. ~Pending' /\ ~lost' => ~Pending
      BY <1>1, <1>2, <1>3, <1>6 DEF Orderly, OrderedIsLast, Pending, LineInOrder, None, Task
    <3>. QED
      BY <1>3, <1>4, <1>6, <3>1 DEF Orderly, OrderedIsLast
  <2>. QED
    BY <2>1, <2>2, <2>3 DEF OrderedIsLast
<1>8. DefenceWaits'
  <2>. SUFFICES ASSUME ~lost', NEW t \in line', kind'[t] = "autodefend"
                PROVE  NoDefenceBefore(t)'
    BY DEF DefenceWaits
  <2>1. /\ t \in line /\ kind[t] = "autodefend" /\ ahead'[t] = ahead[t] \ S
        /\ ahead[t] \subseteq line /\ ahead'[t] \subseteq line'
    BY <1>3, <1>4
  <2>2. NoDefenceBefore(t)
    BY <1>6, <2>1 DEF Orderly, DefenceWaits
  <2>3. CASE modGoal # "DEFEND other" /\ \A d \in ahead[t] : kind[d] # "defend"
    BY <1>2, <1>4, <2>1, <2>3 DEF NoDefenceBefore
  <2>4. CASE \E s \in ahead[t] : /\ kind[s] \in {"follow", "stop"}
                                 /\ \A d \in ahead[t] : kind[d] = "defend" => d \in ahead[s]
    <3>1. PICK s \in ahead[t] : /\ kind[s] \in {"follow", "stop"}
                                /\ \A d \in ahead[t] : kind[d] = "defend" => d \in ahead[s]
      BY <2>4
    <3>2. s \in line' /\ s \in ahead'[t] /\ kind'[s] = kind[s] /\ ahead'[s] = ahead[s] \ S
      BY <1>3, <1>4, <1>6, <2>1, <3>1 DEF Standing
    <3>3. \A d \in ahead'[t] : kind'[d] = kind[d] /\ (kind'[d] = "defend" => d \in ahead'[s])
      BY <1>4, <2>1, <3>1, <3>2
    <3>. QED
      BY <3>1, <3>2, <3>3 DEF NoDefenceBefore
  <2>. QED
    BY <2>2, <2>3, <2>4 DEF NoDefenceBefore
<1>9. ReplacedByIdle'
  BY <1>2 DEF Orderly, ReplacedByIdle
<1>10. InSyncUnlessLost'
  <2>1. ~lost' => ~lost /\ (Pending => Pending')
    BY <1>1, <1>2, <1>3, <1>6 DEF Orderly, OrderedIsLast, Pending, None, Task
  <2>. QED
    BY <1>2, <2>1 DEF Orderly, InSyncUnlessLost, Matching
<1>11. ahead' \in [Task -> SUBSET Task]
  BY <1>1 DEF LeavesLine
<1>. QED
  BY <1>1, <1>3, <1>5, <1>7, <1>8, <1>9, <1>10, <1>11 DEF Orderly

LEMMA NoneIsNoTask == \A t \in Task : t # None
  BY DEF None, Task

\* A task sends: its first step, or the reset of a test.
SendStep(t, k) ==
    /\ Send(t, k)
    /\ intention' = IF k \in Standing THEN IntentionOf(k) ELSE intention
    /\ ordered' = IF k \in Standing THEN t ELSE ordered
    /\ kind'[t] = k
    /\ \A u \in Task \ {t} : kind'[u] = kind[u]

LEMMA SendKeepsOrder ==
    ASSUME TypeOK, Orderly, NEW t \in Task, NEW k \in Kinds, SendStep(t, k),
           status[t] \notin {"none", "queued"}, k \notin Standing => kind[t] \notin Standing,
           k = "autodefend" => intention # "DEFEND"
    PROVE  Orderly' /\ ModTyped'
<1>1. /\ line \subseteq Task /\ ordered \in Task \cup {None} /\ ahead \in [Task -> SUBSET Task]
      /\ lost \in BOOLEAN /\ replaced \in BOOLEAN /\ status \in [Task -> Statuses]
      /\ holder \in Task \cup {None, Other} /\ link \in {"up", "closing", "down"}
      /\ intention \in {"IDLE", "FOLLOW", "DEFEND"}
      /\ modGoal \in {"IDLE", "FOLLOW", "DEFEND other", "DEFEND self"}
  BY DEF TypeOK
<1>2. /\ t \notin line
      /\ \A u \in line : u # t /\ kind'[u] = kind[u] /\ ahead[u] \subseteq line
  BY <1>1 DEF Orderly, LineInOrder, SendStep
<1>3. /\ link' = link
      /\ intention' = IF k \in Standing THEN IntentionOf(k) ELSE intention
      /\ ordered' = IF k \in Standing THEN t ELSE ordered
      /\ k \notin Standing => ordered # t
  <2>1. k \notin Standing => ordered # t
    BY NoneIsNoTask DEF Orderly, OrderedIsLast
  <2>. QED
    BY <2>1 DEF SendStep, Send
<1>4. /\ \A u \in Task \ {t} : status'[u] = status[u]
      /\ status'[t] # "none"
  BY <1>1 DEF SendStep, Send, Writes, Becomes, AfterSend
<1>5. ordered' # None => /\ kind'[ordered'] \in Standing /\ status'[ordered'] # "none"
                         /\ intention' = IntentionOf(kind'[ordered'])
  BY <1>1, <1>3, <1>4 DEF SendStep, Orderly, OrderedIsLast
<1>6. intention' \in {"IDLE", "FOLLOW", "DEFEND"} /\ ordered' \in Task \cup {None}
  BY <1>1, <1>3 DEF IntentionOf, GoalOf
<1>7. CASE line = {} /\ Writes(t, k) /\ UNCHANGED <<line, ahead>>
  <2>1. /\ modGoal' = IF k \in Standing \cup {"reset"} THEN GoalOf(k) ELSE modGoal
        /\ lost' = (lost /\ ordered' # t)
        /\ replaced' = IF k = "reset" THEN replaced \/ intention # "IDLE"
                       ELSE replaced /\ k \notin Standing
        /\ holder' \in {t, holder}
    BY <1>7 DEF Writes
  <2>2. LineInOrder' /\ OrderedIsLast' /\ DefenceWaits'
    BY <1>5, <1>7 DEF LineInOrder, OrderedIsLast, DefenceWaits, Pending
  <2>3. ReplacedByIdle'
    BY <2>1 DEF Orderly, ReplacedByIdle, GoalOf, Standing
  <2>4. InSyncUnlessLost'
    <3>1. CASE k \in Standing
      BY <1>3, <2>1, <3>1 DEF InSyncUnlessLost, Matching, IntentionOf, GoalOf, Standing
    <3>2. CASE k = "reset"
      <4>1. k \notin Standing /\ modGoal' = "IDLE" /\ intention' = intention
        BY <1>3, <2>1, <3>2 DEF Standing, GoalOf
      <4>. QED
        BY <2>1, <3>2, <4>1 DEF InSyncUnlessLost, Matching
    <3>3. CASE k \notin Standing \cup {"reset"}
      <4>1. ~Pending /\ UNCHANGED <<modGoal, intention>> /\ (lost => lost') /\ (replaced => replaced')
        BY <1>3, <1>7, <2>1, <3>3 DEF Pending
      <4>. QED
        BY <4>1 DEF Orderly, InSyncUnlessLost, Matching
    <3>. QED
      BY <3>1, <3>2, <3>3
  <2>5. ModTyped'
    <3>1. modGoal' \in {"IDLE", "FOLLOW", "DEFEND other", "DEFEND self"}
      BY <1>1, <2>1 DEF GoalOf
    <3>2. lost' \in BOOLEAN /\ replaced' \in BOOLEAN
      BY <2>1, Zenon
    <3>3. /\ holder' \in Task \cup {None, Other} /\ line' \subseteq Task
          /\ ahead' \in [Task -> SUBSET Task] /\ link' \in {"up", "closing", "down"}
      BY <1>1, <1>3, <1>7, <2>1
    <3>. QED
      BY <1>6, <3>1, <3>2, <3>3 DEF ModTyped
  <2>. QED
    BY <2>2, <2>3, <2>4, <2>5 DEF Orderly
<1>8. CASE /\ Becomes(t, "queued") /\ line' = line \cup {t} /\ ahead' = [ahead EXCEPT ![t] = line]
           /\ UNCHANGED <<holder, given, lost>>
  <2>1. /\ UNCHANGED <<modGoal, replaced, lost, holder>>
        /\ \A u \in line : ahead'[u] = ahead[u]
        /\ ahead'[t] = line /\ status'[t] = "queued" /\ kind'[t] = k
    BY <1>1, <1>2, <1>8 DEF given, Becomes, SendStep
  <2>2. LineInOrder'
    <3>1. \A u \in line' : status'[u] = "queued" /\ ahead'[u] \subseteq line'
      <4>1. \A u \in line : status'[u] = "queued" /\ ahead'[u] \subseteq line'
        BY <1>1, <1>2, <1>4, <1>8, <2>1 DEF Orderly, LineInOrder
      <4>2. ahead'[t] \subseteq line' /\ status'[t] = "queued"
        BY <1>8, <2>1
      <4>. QED
        BY <1>8, <4>1, <4>2
    <3>2. \A u, v \in line' : u = v \/ u \in ahead'[v] \/ v \in ahead'[u]
      BY <1>8, <2>1 DEF Orderly, LineInOrder
    <3>. QED
      BY <3>1, <3>2 DEF LineInOrder
  <2>3. OrderedIsLast'
    <3>1. CASE k \in Standing
      BY <1>3, <1>5, <1>8, <2>1, <3>1 DEF OrderedIsLast, Pending
    <3>2. CASE k \notin Standing
      <4>1. ordered' = ordered /\ (Pending' <=> Pending)
        BY <1>3, <1>8, <3>2 DEF Pending
      <4>2. \A u \in line' : kind'[u] \in Standing => u \in line /\ kind[u] \in Standing
        BY <1>2, <1>8, <2>1, <3>2
      <4>3. Pending' => \A u \in line' : kind'[u] \in Standing => u = ordered' \/ u \in ahead'[ordered']
        BY <2>1, <4>1, <4>2 DEF Orderly, OrderedIsLast, Pending
      <4>4. ~Pending' /\ ~lost' => \A u \in line' : kind'[u] \notin Standing
        BY <2>1, <4>1, <4>2 DEF Orderly, OrderedIsLast
      <4>. QED
        BY <1>5, <4>3, <4>4 DEF OrderedIsLast
    <3>. QED
      BY <3>1, <3>2
  <2>4. DefenceWaits'
    <3>. SUFFICES ASSUME ~lost', NEW u \in line', kind'[u] = "autodefend"
                  PROVE  NoDefenceBefore(u)'
      BY DEF DefenceWaits
    <3>1. CASE u \in line
      <4>1. NoDefenceBefore(u) /\ ahead'[u] = ahead[u] /\ modGoal' = modGoal
        BY <1>2, <2>1, <3>1 DEF Orderly, DefenceWaits
      <4>2. \A d \in ahead[u] : kind'[d] = kind[d] /\ ahead'[d] = ahead[d]
        BY <1>2, <2>1, <3>1
      <4>. QED
        BY <4>1, <4>2 DEF NoDefenceBefore
    <3>2. CASE u = t
      <4>1. ahead'[u] = line /\ k = "autodefend" /\ intention # "DEFEND" /\ ~lost
        BY <2>1, <3>2
      <4>2. CASE Pending
        <5>1. ordered \in line /\ kind[ordered] \in {"follow", "stop"}
          <6>1. ordered \in line /\ ordered # None
            BY <1>1, <4>2, NoneIsNoTask DEF Pending
          <6>. QED
            BY <4>1, <6>1 DEF Orderly, OrderedIsLast, IntentionOf
        <5>2. \A d \in line : kind'[d] = "defend" => d \in ahead'[ordered]
          <6>1. \A d \in line : kind[d] = "defend" => d # ordered /\ kind[d] \in Standing
            BY <5>1 DEF Standing
          <6>. QED
            BY <1>2, <2>1, <4>2, <5>1, <6>1 DEF Orderly, OrderedIsLast
        <5>. QED
          BY <1>2, <4>1, <5>1, <5>2 DEF NoDefenceBefore
      <4>3. CASE ~Pending
        <5>1. \A d \in line : kind'[d] # "defend"
          BY <1>2, <4>1, <4>3 DEF Orderly, OrderedIsLast, Standing
        <5>2. modGoal # "DEFEND other"
          BY <4>1, <4>3 DEF Orderly, InSyncUnlessLost, ReplacedByIdle, Matching
        <5>. QED
          BY <2>1, <4>1, <5>1, <5>2 DEF NoDefenceBefore
      <4>. QED
        BY <4>2, <4>3
    <3>. QED
      BY <1>8, <3>1, <3>2
  <2>5. ReplacedByIdle'
    BY <2>1 DEF Orderly, ReplacedByIdle
  <2>6. InSyncUnlessLost'
    <3>1. CASE k \in Standing
      BY <1>3, <1>8, <3>1 DEF InSyncUnlessLost, Pending
    <3>2. CASE k \notin Standing
      BY <1>3, <1>8, <2>1, <3>2 DEF Orderly, InSyncUnlessLost, Pending, Matching
    <3>. QED
      BY <3>1, <3>2
  <2>7. ModTyped'
    BY <1>1, <1>3, <1>6, <1>8, <2>1 DEF ModTyped
  <2>. QED
    BY <2>2, <2>3, <2>4, <2>5, <2>6, <2>7 DEF Orderly
<1>9. CASE lost' = (lost \/ k \in Standing) /\ UNCHANGED <<mutex, given>>
  <2>1. UNCHANGED <<line, ahead, holder, modGoal, replaced>> /\ (~lost' => ~lost /\ k \notin Standing)
    BY <1>9 DEF mutex, given
  <2>2. LineInOrder'
    BY <1>1, <1>2, <1>4, <2>1 DEF Orderly, LineInOrder
  <2>3. OrderedIsLast'
    <3>1. CASE k \in Standing
      BY <1>2, <1>3, <1>5, <2>1, <3>1 DEF OrderedIsLast, Pending
    <3>2. CASE k \notin Standing
      BY <1>2, <1>3, <1>5, <2>1, <3>2 DEF Orderly, OrderedIsLast, Pending
    <3>. QED
      BY <3>1, <3>2
  <2>4. DefenceWaits'
    <3>. SUFFICES ASSUME ~lost', NEW u \in line', kind'[u] = "autodefend"
                  PROVE  NoDefenceBefore(u)'
      BY DEF DefenceWaits
    <3>1. u \in line /\ NoDefenceBefore(u)
      BY <1>2, <2>1 DEF Orderly, DefenceWaits
    <3>2. \A d \in ahead[u] : kind'[d] = kind[d]
      BY <1>2, <3>1
    <3>. QED
      BY <2>1, <3>1, <3>2 DEF NoDefenceBefore
  <2>5. ReplacedByIdle' /\ InSyncUnlessLost'
    BY <1>3, <2>1 DEF Orderly, ReplacedByIdle, InSyncUnlessLost, Pending, Matching
  <2>6. ModTyped'
    <3>1. lost' \in BOOLEAN
      BY <1>9
    <3>. QED
      BY <1>1, <1>3, <1>6, <2>1, <3>1 DEF ModTyped
  <2>. QED
    BY <2>2, <2>3, <2>4, <2>5, <2>6 DEF Orderly
<1>. QED
  BY <1>7, <1>8, <1>9 DEF SendStep, Send

\* The first in line writes.
LEMMA TurnKeepsOrder ==
    ASSUME TypeOK, Orderly, NEW t \in line, ahead[t] = {}, Writes(t, kind[t]), LeavesLine({t}),
           UNCHANGED <<goal, kind, link>>
    PROVE  Orderly' /\ ModTyped'
<1>1. /\ line \subseteq Task /\ ordered \in Task \cup {None} /\ ahead \in [Task -> SUBSET Task]
      /\ lost \in BOOLEAN /\ replaced \in BOOLEAN /\ status \in [Task -> Statuses]
      /\ holder \in Task \cup {None, Other} /\ link \in {"up", "closing", "down"}
      /\ intention \in {"IDLE", "FOLLOW", "DEFEND"} /\ kind[t] \in Kinds /\ t \in Task
      /\ modGoal \in {"IDLE", "FOLLOW", "DEFEND other", "DEFEND self"}
  BY DEF TypeOK
<1>2. /\ UNCHANGED <<intention, ordered, kind, link>>
      /\ modGoal' = IF kind[t] \in Standing \cup {"reset"} THEN GoalOf(kind[t]) ELSE modGoal
      /\ lost' = (lost /\ ordered # t)
      /\ replaced' = IF kind[t] = "reset" THEN replaced \/ intention # "IDLE"
                     ELSE replaced /\ kind[t] \notin Standing
      /\ holder' \in {t, holder}
  BY DEF Writes, goal
<1>3. /\ line' = line \ {t}
      /\ \A u \in line' : ahead'[u] = ahead[u] \ {t}
  BY <1>1 DEF LeavesLine
<1>4. /\ \A u \in line' : t \in ahead[u] /\ ahead[u] \subseteq line /\ u \in line /\ u # t
      /\ \A u \in Task \ {t} : status'[u] = status[u]
      /\ status'[t] # "none"
  BY <1>1, <1>3 DEF Orderly, LineInOrder, Writes, Becomes, AfterSend
<1>5. LineInOrder'
  <2>1. \A u \in line' : status'[u] = "queued" /\ ahead'[u] \subseteq line'
    <3>1. \A u \in line' : status[u] = "queued" /\ u \in Task \ {t}
      BY <1>1, <1>4 DEF Orderly, LineInOrder
    <3>. QED
      BY <1>3, <1>4, <3>1
  <2>2. \A u, v \in line' : u = v \/ u \in ahead'[v] \/ v \in ahead'[u]
    BY <1>3, <1>4 DEF Orderly, LineInOrder
  <2>. QED
    BY <2>1, <2>2 DEF LineInOrder
<1>6. t = ordered => \A u \in line' : kind[u] \notin Standing
  BY <1>4 DEF Orderly, OrderedIsLast, Pending
<1>7. OrderedIsLast'
  <2>1. ordered' # None => /\ kind'[ordered'] \in Standing /\ status'[ordered'] # "none"
                           /\ intention' = IntentionOf(kind'[ordered'])
    BY <1>1, <1>2, <1>4 DEF Orderly, OrderedIsLast
  <2>2. Pending' => \A u \in line' : kind'[u] \in Standing => u = ordered' \/ u \in ahead'[ordered']
    BY <1>2, <1>3, <1>4 DEF Orderly, OrderedIsLast, Pending
  <2>3. ~Pending' /\ ~lost' => \A u \in line' : kind'[u] \notin Standing
    BY <1>2, <1>3, <1>4, <1>6 DEF Orderly, OrderedIsLast, Pending
  <2>. QED
    BY <2>1, <2>2, <2>3 DEF OrderedIsLast
<1>8. DefenceWaits'
  <2>. SUFFICES ASSUME ~lost', NEW u \in line', kind'[u] = "autodefend"
                PROVE  NoDefenceBefore(u)'
    BY DEF DefenceWaits
  <2>1. kind[u] = "autodefend" /\ u \in line /\ u # t /\ t # ordered /\ ~lost
    BY <1>2, <1>4, <1>6 DEF Standing
  <2>2. NoDefenceBefore(u) /\ t \in ahead[u] /\ ahead'[u] = ahead[u] \ {t} /\ ahead[u] \subseteq line
    BY <1>3, <1>4, <2>1 DEF Orderly, DefenceWaits
  <2>3. ASSUME kind[t] # "defend", modGoal # "DEFEND other" \/ kind[t] \in {"follow", "stop"},
               \A d \in ahead[u] : kind[d] # "defend"
        PROVE  NoDefenceBefore(u)'
    <3>1. modGoal' # "DEFEND other"
      BY <1>2, <2>3 DEF GoalOf, Standing
    <3>. QED
      BY <1>2, <2>2, <2>3, <3>1 DEF NoDefenceBefore
  <2>4. CASE modGoal # "DEFEND other" /\ \A d \in ahead[u] : kind[d] # "defend"
    BY <2>2, <2>3, <2>4
  <2>5. CASE \E s \in ahead[u] : /\ kind[s] \in {"follow", "stop"}
                                 /\ \A d \in ahead[u] : kind[d] = "defend" => d \in ahead[s]
    <3>1. PICK s \in ahead[u] : /\ kind[s] \in {"follow", "stop"}
                                /\ \A d \in ahead[u] : kind[d] = "defend" => d \in ahead[s]
      BY <2>5
    <3>2. CASE s = t
      BY <2>3, <3>1, <3>2
    <3>3. CASE s # t
      <4>1. s \in ahead'[u] /\ s \in line' /\ ahead'[s] = ahead[s] \ {t}
        BY <1>3, <2>2, <3>3
      <4>2. \A d \in ahead'[u] : kind'[d] = "defend" => d \in ahead'[s]
        BY <1>2, <2>2, <3>1, <4>1
      <4>. QED
        BY <1>2, <3>1, <4>1, <4>2 DEF NoDefenceBefore
    <3>. QED
      BY <3>2, <3>3
  <2>. QED
    BY <2>2, <2>4, <2>5 DEF NoDefenceBefore
<1>9. ReplacedByIdle'
  BY <1>2 DEF Orderly, ReplacedByIdle, GoalOf, Standing
<1>10. InSyncUnlessLost'
  <2>1. CASE t = ordered
    <3>1. kind[t] \in Standing /\ intention = IntentionOf(kind[t])
      BY <1>1, <2>1, NoneIsNoTask DEF Orderly, OrderedIsLast
    <3>. QED
      BY <1>2, <3>1 DEF InSyncUnlessLost, Matching, IntentionOf, GoalOf, Standing
  <2>2. CASE t # ordered
    <3>1. (Pending' <=> Pending) /\ (lost' <=> lost)
      BY <1>2, <1>3, <2>2 DEF Pending
    <3>2. CASE lost \/ Pending
      BY <3>1, <3>2 DEF InSyncUnlessLost
    <3>3. CASE ~lost /\ ~Pending
      <4>1. kind[t] \notin Standing
        BY <3>3 DEF Orderly, OrderedIsLast
      <4>2. CASE kind[t] = "reset"
        <5>1. modGoal' = "IDLE" /\ (replaced' \/ intention = "IDLE")
          BY <1>2, <4>1, <4>2 DEF GoalOf
        <5>. QED
          BY <1>2, <5>1 DEF InSyncUnlessLost, Matching
      <4>3. CASE kind[t] # "reset"
        <5>1. modGoal' = modGoal /\ (replaced => replaced')
          BY <1>2, <4>1, <4>3
        <5>. QED
          BY <1>2, <3>3, <5>1 DEF Orderly, InSyncUnlessLost, Matching
      <4>. QED
        BY <4>2, <4>3
    <3>. QED
      BY <3>2, <3>3
  <2>. QED
    BY <2>1, <2>2
<1>11. ModTyped'
  <2>1. modGoal' \in {"IDLE", "FOLLOW", "DEFEND other", "DEFEND self"}
    BY <1>1, <1>2 DEF GoalOf
  <2>2. lost' \in BOOLEAN /\ replaced' \in BOOLEAN
    BY <1>2, Zenon
  <2>3. line' \subseteq Task /\ ahead' \in [Task -> SUBSET Task]
    BY <1>1, <1>3 DEF LeavesLine
  <2>4. /\ holder' \in Task \cup {None, Other} /\ link' \in {"up", "closing", "down"}
        /\ intention' \in {"IDLE", "FOLLOW", "DEFEND"} /\ ordered' \in Task \cup {None}
    BY <1>1, <1>2
  <2>. QED
    BY <2>1, <2>2, <2>3, <2>4 DEF ModTyped
<1>. QED
  BY <1>5, <1>7, <1>8, <1>9, <1>10, <1>11 DEF Orderly

-----------------------------------------------------------------------------
(* The steps of the reader and of run() that start no task.                *)

LEMMA ReaderKeeps ==
    ASSUME IInv, \/ \E e \in Traffic : ReadQueued(e)
                 \/ ReadPosition \/ ReaderStops
    PROVE  IInv'
<1>. USE DEF IInv
<1>1. UNCHANGED <<processed, run, current, kind, status, goal, mod, newest, echoed>>
  BY DEF ReadQueued, ReadPosition, ReaderStops, tasks
<1>2. reader' \in {"running", "ended", "crashed"} /\ (reader # "running" => reader' # "running")
  BY DEF ReadQueued, ReadPosition, ReaderStops, TypeOK
<1>3. /\ queue' \in Seq(Queued)
      /\ read' \in 0..MaxEvents
      /\ ownName' \in BOOLEAN
      /\ processed + Len(queue') <= read'
      /\ reader # "running" => queue' = queue
  <2>1. CASE \E e \in Traffic : ReadQueued(e)
    <3>1. PICK e \in Traffic : ReadQueued(e)
      BY <2>1
    <3>2. e \in Queued /\ queue \in Seq(Queued) /\ ownName \in BOOLEAN
      BY BoundsAssumption DEF TypeOK
    <3>3. queue' \in Seq(Queued) /\ Len(queue') = Len(queue) + 1
      BY <3>1, <3>2 DEF ReadQueued
    <3>4. read < MaxEvents /\ read' = read + 1
      BY <3>1 DEF ReadQueued, ReaderGets
    <3>5. read \in 0..MaxEvents /\ processed \in 0..MaxEvents /\ processed + Len(queue) <= read
      BY DEF TypeOK, Counted
    <3>6. read' \in 0..MaxEvents /\ processed + Len(queue') <= read'
      BY <3>2, <3>3, <3>4, <3>5, BoundsAssumption
    <3>7. ownName' \in BOOLEAN /\ reader = "running"
      BY <3>1, <3>2 DEF ReadQueued, ReaderGets
    <3>. QED
      BY <3>3, <3>6, <3>7
  <2>2. CASE ReadPosition
    <3>1. queue \in Seq(Queued) /\ read < MaxEvents /\ read' = read + 1 /\ queue' = queue
          /\ ownName' = TRUE
      BY <2>2 DEF ReadPosition, ReaderGets, TypeOK
    <3>2. read \in 0..MaxEvents /\ processed \in 0..MaxEvents /\ processed + Len(queue) <= read
      BY DEF TypeOK, Counted
    <3>3. Len(queue) \in Nat
      BY <3>1
    <3>. QED
      BY <3>1, <3>2, <3>3, BoundsAssumption
  <2>3. CASE ReaderStops
    BY <2>3 DEF ReaderStops, TypeOK, Counted
  <2>. QED
    BY <2>1, <2>2, <2>3
<1>4. TypeOK'
  <2>1. LoopTyped'
    BY <1>1, <1>2, <1>3 DEF LoopTyped, TypeOK
  <2>2. TasksTyped' /\ ModTyped'
    BY <1>1, TypesKept DEF tasks
  <2>3. OwnTyped'
    BY <1>1, <1>3 DEF OwnTyped, TypeOK
  <2>. QED
    BY <2>1, <2>2, <2>3, TypePartsPrimed
<1>5. Counted' /\ OnlyTrackedLives' /\ TrackedIsNewest' /\ FirstStepsOneByOne'
  BY <1>1, <1>3 DEF Counted, OnlyTrackedLives, TrackedIsNewest, FirstStepsOneByOne, Live, goal
<1>6. FinishingLast'
  BY <1>1, <1>2, <1>3 DEF FinishingLast, Live
<1>7. Orderly'
  BY <1>1, StandingStill DEF tasks
<1>. QED
  BY <1>4, <1>5, <1>6, <1>7

LEMMA RunEndsKeeps ==
    ASSUME IInv, EndOfStream \/ LastCommandDone
    PROVE  IInv'
<1>. USE DEF IInv
<1>1. UNCHANGED <<reader, read, queue, processed, tasks, ownName, goal, mod, newest, echoed>>
  BY DEF EndOfStream, LastCommandDone
<1>2. /\ run' \in {"looping", "finishing", "over", "interrupted"}
      /\ run' = "finishing" /\ run # "finishing" =>
            queue = <<>> /\ reader # "running" /\ current # None
      /\ run = "interrupted" <=> run' = "interrupted"
  BY DEF EndOfStream, StreamEnded, LastCommandDone, TypeOK
<1>3. TypeOK'
  <2>1. LoopTyped'
    BY <1>1, <1>2, TypeParts DEF LoopTyped
  <2>. QED
    BY <1>1, <2>1, TypesKept, TypePartsPrimed
<1>4. Counted' /\ OnlyTrackedLives' /\ TrackedIsNewest' /\ FirstStepsOneByOne'
  BY <1>1, <1>2 DEF Counted, OnlyTrackedLives, TrackedIsNewest, FirstStepsOneByOne, Live, tasks,
     goal
<1>5. FinishingLast'
  BY <1>1, <1>2 DEF FinishingLast, tasks, Live
<1>6. Orderly'
  BY <1>1, StandingStill
<1>. QED
  BY <1>3, <1>4, <1>5, <1>6

\* The connection comes and goes; with it goes the line.
LEMMA LinkKeeps ==
    ASSUME IInv, LinkChanges
    PROVE  IInv'
<1>. USE DEF IInv
<1>1. UNCHANGED <<reader, read, queue, processed, run, tasks, ownName, goal, given, newest, echoed>>
  BY DEF LinkChanges
<1>2. Counted' /\ OnlyTrackedLives' /\ TrackedIsNewest' /\ FirstStepsOneByOne' /\ FinishingLast'
  BY <1>1 DEF Counted, OnlyTrackedLives, TrackedIsNewest, FirstStepsOneByOne, FinishingLast, Live,
     tasks, goal
<1>3. link' \in {"up", "closing", "down"}
  BY DEF LinkChanges
<1>4. CASE UNCHANGED <<mutex, lost>>
  <2>1. ModTyped'
    BY <1>1, <1>3, <1>4, TypeParts DEF ModTyped, mutex, given, goal
  <2>2. Orderly'
    BY <1>1, <1>4, OrderlyKept DEF tasks, mutex
  <2>. QED
    BY <1>1, <1>2, <2>1, <2>2, TypesKept, TypePartsPrimed
<1>5. CASE /\ holder' = None /\ LeavesLine(line)
           /\ lost' = (lost \/ \E t \in line : kind[t] \in Standing)
  <2>1. line \in SUBSET Task
    BY DEF TypeOK
  <2>2. lost' = (lost \/ \E t \in line : t \in line /\ kind[t] \in Standing)
    BY <1>5
  <2>3. Orderly' /\ line' \subseteq Task /\ ahead' \in [Task -> SUBSET Task] /\ lost' \in BOOLEAN
    BY <1>1, <1>5, <2>1, <2>2, LeaversKeepOrder DEF tasks
  <2>4. ModTyped'
    BY <1>1, <1>3, <1>5, <2>3, TypeParts DEF ModTyped, given, goal
  <2>. QED
    BY <1>1, <1>2, <2>3, <2>4, TypesKept, TypePartsPrimed
<1>. QED
  BY <1>4, <1>5 DEF LinkChanges

LEMMA OthersKeep ==
    ASSUME IInv, OthersSend
    PROVE  IInv'
<1>. USE DEF IInv
<1>1. /\ UNCHANGED <<reader, read, queue, processed, run, tasks, ownName, goal, link, line, ahead,
                     given, lost, newest, echoed>>
      /\ holder' \in {None, Other}
  BY DEF OthersSend
<1>2. Counted' /\ OnlyTrackedLives' /\ TrackedIsNewest' /\ FirstStepsOneByOne' /\ FinishingLast'
  BY <1>1 DEF Counted, OnlyTrackedLives, TrackedIsNewest, FirstStepsOneByOne, FinishingLast, Live,
     tasks, goal
<1>3. ModTyped'
  BY <1>1, TypeParts DEF ModTyped, given, goal
<1>4. Orderly'
  BY <1>1, OrderlyKept DEF tasks
<1>. QED
  BY <1>1, <1>2, <1>3, <1>4, TypesKept, TypePartsPrimed

\* Cancelling the tracked task, what the superseding line and the finally of run()
\* do to the tasks there are.
LEMMA CancelCurrentFacts ==
    ASSUME TypeOK, OnlyTrackedLives
    PROVE  /\ CancelCurrent \in [Task -> Statuses]
           /\ \A t \in Task :
                 /\ kind[t] # "autodefend" =>
                        CancelCurrent[t] \notin {"created", "queued", "sending", "waiting", "answered"}
                 /\ CancelCurrent[t] = "created" => status[t] = "created"
                 /\ status[t] = "none" <=> CancelCurrent[t] = "none"
                 /\ t # current => CancelCurrent[t] = status[t]
  BY DEF CancelCurrent, TypeOK, OnlyTrackedLives, Live, Statuses

\* The task that is cancelled leaves the line; nothing is done to the others.
LEMMA OrderCutKeepsOrder ==
    ASSUME TypeOK, Orderly, OnlyTrackedLives, OrderCut, UNCHANGED goal,
           \A t \in Task : status[t] # "none" => kind'[t] = kind[t] /\ status'[t] = CancelCurrent[t]
    PROVE  Orderly' /\ ModTyped'
<1>1. /\ LeavesLine({current})
      /\ lost' = (lost \/ \E t \in line : t = current /\ kind[t] \in Standing)
      /\ UNCHANGED <<link, holder, given>>
  BY DEF OrderCut
<1>2. \A t \in Task : status[t] # "none" => kind'[t] = kind[t] /\ status'[t] # "none"
  BY CancelCurrentFacts
<1>3. \A t \in line : t \in Task /\ status[t] # "none"
  BY DEF Orderly, LineInOrder, TypeOK
<1>4. \A t \in line \ {current} : status'[t] = status[t]
  BY <1>3, CancelCurrentFacts
<1>5. Orderly' /\ line' \subseteq Task /\ ahead' \in [Task -> SUBSET Task] /\ lost' \in BOOLEAN
  <2>1. CASE current \in Task
    <3>1. lost' = (lost \/ \E t \in line : t \in {current} /\ kind[t] \in Standing)
      BY <1>1
    <3>. QED
      BY <1>1, <1>2, <1>4, <2>1, <3>1, LeaversKeepOrder
  <2>2. CASE current = None
    <3>1. /\ line \subseteq Task /\ ahead \in [Task -> SUBSET Task] /\ lost \in BOOLEAN
          /\ \A t \in Task : t # current
      BY <2>2, NoneIsNoTask DEF TypeOK
    <3>2. line' = line /\ lost' = lost
      BY <1>1, <3>1 DEF LeavesLine
    <3>3. ahead' = ahead
      <4>1. ahead' = [t \in Task |-> IF t \in {current} THEN {} ELSE ahead[t] \ {current}]
        BY <1>1 DEF LeavesLine
      <4>2. \A t \in Task : ahead[t] \ {current} = ahead[t] /\ t \notin {current}
        BY <3>1
      <4>. QED
        BY <3>1, <4>1, <4>2
    <3>. QED
      BY <1>1, <1>2, <1>4, <3>1, <3>2, <3>3, OrderlyKept
  <2>. QED
    BY <2>1, <2>2 DEF TypeOK
<1>6. ModTyped'
  BY <1>1, <1>5, TypeParts DEF ModTyped, given, goal
<1>. QED
  BY <1>5, <1>6

LEMMA InterruptedKeeps ==
    ASSUME IInv, Interrupted
    PROVE  IInv'
<1>. USE DEF IInv
<1>1. UNCHANGED <<read, queue, processed, current, kind, ownName, goal, newest, echoed>>
  BY DEF Interrupted
<1>2. /\ status' = CancelCurrent /\ OrderCut
      /\ run' = "interrupted" /\ reader' \in {"running", "ended", "crashed"}
  BY DEF Interrupted, OnExit, TypeOK
<1>3. Orderly' /\ ModTyped'
  BY <1>1, <1>2, OrderCutKeepsOrder
<1>4. TypeOK'
  <2>1. LoopTyped' /\ OwnTyped'
    BY <1>1, <1>2 DEF LoopTyped, OwnTyped, TypeOK
  <2>2. TasksTyped'
    BY <1>1, <1>2, CancelCurrentFacts DEF TasksTyped, TypeOK
  <2>. QED
    BY <1>3, <2>1, <2>2, TypePartsPrimed
<1>5. Counted'
  BY <1>1, <1>2, CancelCurrentFacts DEF Counted
<1>6. OnlyTrackedLives' /\ TrackedIsNewest'
  BY <1>1, <1>2, CancelCurrentFacts DEF OnlyTrackedLives, TrackedIsNewest, Live
<1>7. FirstStepsOneByOne'
  BY <1>1, <1>2, CancelCurrentFacts DEF FirstStepsOneByOne, goal
<1>8. FinishingLast'
  <2>1. current \in Task =>
          CancelCurrent[current] \notin {"created", "queued", "sending", "waiting", "answered"}
    BY DEF CancelCurrent, Live
  <2>. QED
    BY <1>1, <1>2, <2>1 DEF FinishingLast, Live, TypeOK
<1>. QED
  BY <1>3, <1>4, <1>5, <1>6, <1>7, <1>8

-----------------------------------------------------------------------------
(* The steps of a task: it goes on or ends, and none begins.               *)

TaskStep(t) ==
    /\ UNCHANGED <<reader, queue, processed, run, current, ownName, newest, echoed>>
    /\ \A u \in Task \ {t} : kind'[u] = kind[u]
    /\ kind' \in [Task -> Kinds]
    /\ kind'[t] = kind[t] \/ (kind[t] = "runtest" /\ kind'[t] = "reset")
    /\ \E s \in {"queued", "sending", "waiting", "answered", "done"} :
          Becomes(t, s) /\ (s # "done" => Live(t))
    /\ status[t] # "none"

\* What becomes of the tasks does not depend on what their steps do to the mod.
LEMMA TaskStepKeeps ==
    ASSUME IInv, NEW t \in Task, TaskStep(t), read <= read', read' \in 0..MaxEvents
    PROVE  /\ LoopTyped' /\ TasksTyped' /\ OwnTyped'
           /\ Counted' /\ OnlyTrackedLives' /\ TrackedIsNewest' /\ FinishingLast'
           /\ \A s \in Task : status'[s] = "created" => status[s] = "created" /\ s # t
           /\ \A s \in Task \ {t} : status'[s] = status[s] /\ kind'[s] = kind[s]
           /\ status'[t] # "none"
<1>1. TypeOK /\ Counted /\ OnlyTrackedLives /\ TrackedIsNewest /\ FinishingLast
  BY DEF IInv
<1>2. PICK s \in {"queued", "sending", "waiting", "answered", "done"} :
          /\ status' = [status EXCEPT ![t] = s]
          /\ s # "done" => Live(t)
  BY DEF TaskStep, Becomes
<1>3. UNCHANGED <<reader, queue, processed, run, current, ownName, newest, echoed>>
  BY DEF TaskStep
<1>4. /\ status \in [Task -> Statuses]
      /\ \A u \in Task : status'[u] = IF u = t THEN s ELSE status[u]
      /\ \A u \in Task : kind'[u] = "autodefend" <=> kind[u] = "autodefend"
  BY <1>1, <1>2 DEF TypeOK, TaskStep
<1>5. LoopTyped' /\ TasksTyped' /\ OwnTyped'
  <2>1. status' \in [Task -> Statuses]
    BY <1>2, <1>4 DEF Statuses
  <2>2. kind' \in [Task -> Kinds]
    BY DEF TaskStep
  <2>. QED
    BY <1>1, <1>3, <2>1, <2>2, TypeParts DEF LoopTyped, TasksTyped, OwnTyped
<1>6. Counted'
  <2>1. status[t] # "none"
    BY DEF TaskStep
  <2>2. \A u \in Task : u > processed => u # t /\ status[u] = "none"
    BY <1>1, <2>1 DEF Counted
  <2>3. Len(queue) \in Nat /\ processed \in Nat /\ read \in Nat /\ read' \in Nat
    BY <1>1, Numbers
  <2>4. processed' + Len(queue') <= read'
    BY <1>1, <1>3, <2>3 DEF Counted
  <2>. QED
    BY <1>1, <1>3, <1>4, <2>2, <2>4 DEF Counted
<1>7. OnlyTrackedLives'
  BY <1>1, <1>2, <1>3, <1>4 DEF OnlyTrackedLives, Live
<1>8. TrackedIsNewest'
  BY <1>1, <1>2, <1>3, <1>4 DEF TrackedIsNewest, TypeOK
<1>9. FinishingLast'
  <2>1. current \in Task /\ ~Live(current) => ~Live(current)'
    BY <1>2, <1>3, <1>4 DEF Live
  <2>. QED
    BY <1>1, <1>3, <2>1 DEF FinishingLast, TypeOK
<1>. QED
  BY <1>2, <1>4, <1>5, <1>6, <1>7, <1>8, <1>9 DEF TaskStep

\* The steps that leave line, mod and intention alone, but for who has the mutex.
LEMMA QuietTaskStepKeeps ==
    ASSUME IInv, NEW t \in Task, TaskStep(t), read <= read', read' \in 0..MaxEvents,
           UNCHANGED <<kind, goal, link, line, ahead, given, lost>>, t \notin line,
           holder' \in {holder, None}
    PROVE  IInv'
<1>1. ModTyped'
  BY TypeParts DEF ModTyped, IInv, given, goal
<1>2. TypeOK'
  BY <1>1, TaskStepKeeps, TypePartsPrimed
<1>3. FirstStepsOneByOne'
  BY TaskStepKeeps DEF IInv, FirstStepsOneByOne, goal
<1>4. Orderly'
  <2>1. \A u \in Task : status[u] # "none" => kind'[u] = kind[u] /\ status'[u] # "none"
    BY TaskStepKeeps
  <2>2. \A u \in line : status'[u] = status[u]
    BY TaskStepKeeps DEF IInv, TypeOK
  <2>. QED
    BY <2>1, <2>2, OrderlyKept DEF IInv
<1>. QED
  BY <1>2, <1>3, <1>4, TaskStepKeeps DEF IInv

LEMMA QuietTasksKeep ==
    ASSUME IInv, \/ ReadReply
                 \/ \E t \in Task : \/ NothingToRun(t) \/ LosesTurn(t) \/ SendEnds(t)
                                    \/ TakesReply(t) \/ TimesOut(t) \/ Unwind(t)
    PROVE  IInv'
<1>. USE DEF Live
<1>1. kind \in [Task -> Kinds] /\ \A t \in line : status[t] = "queued"
  BY DEF IInv, TypeOK, Orderly, LineInOrder
<1>2. CASE ReadReply
  <2>1. current \in Task /\ TaskStep(current) /\ current \notin line
    BY <1>1, <1>2 DEF ReadReply, TaskStep, Becomes, IInv, TypeOK, None
  <2>2. read <= read' /\ read' \in 0..MaxEvents /\ UNCHANGED <<kind, goal, mod>>
    BY <1>2, Numbers DEF ReadReply, ReaderGets, IInv
  <2>3. UNCHANGED <<link, line, ahead, given, lost, holder>>
    BY <2>2 DEF mod, mutex
  <2>. QED
    BY <2>1, <2>2, <2>3, QuietTaskStepKeeps
<1>3. CASE \E t \in Task : \/ NothingToRun(t) \/ LosesTurn(t) \/ SendEnds(t)
                          \/ TakesReply(t) \/ TimesOut(t) \/ Unwind(t)
  <2>1. PICK t \in Task : \/ NothingToRun(t) \/ LosesTurn(t) \/ SendEnds(t)
                         \/ TakesReply(t) \/ TimesOut(t) \/ Unwind(t)
    BY <1>3
  <2>2. TaskStep(t) /\ t \notin line
    BY <1>1, <2>1 DEF NothingToRun, LosesTurn, SendEnds, TakesReply, TimesOut, Unwind, TaskStep,
       AfterSend, Becomes
  <2>3. UNCHANGED <<read, kind, goal, link, line, ahead, given, lost>> /\ holder' \in {holder, None}
    BY <2>1 DEF NothingToRun, LosesTurn, SendEnds, TakesReply, TimesOut, Unwind, Released, mod, mutex
  <2>4. read <= read' /\ read' \in 0..MaxEvents
    BY <2>3, Numbers DEF IInv
  <2>. QED
    BY <2>2, <2>3, <2>4, QuietTaskStepKeeps
<1>. QED
  BY <1>2, <1>3

\* The order of the mod's goal and the intention, when a task sends.
LEMMA SendsKeep ==
    ASSUME IInv, NEW t \in Task, FirstStep(t) \/ ResetToIdle(t)
    PROVE  IInv'
<1>1. TypeOK /\ FirstStepsOneByOne /\ Orderly
  BY DEF IInv
<1>2. PICK k \in Kinds : /\ Send(t, k) /\ kind'[t] = k
                         /\ k = kind[t] \/ (kind[t] = "runtest" /\ k = "reset")
                         /\ \A u \in Task \ {t} : kind'[u] = kind[u]
                         /\ kind' \in [Task -> Kinds]
                         /\ k = "autodefend" => intention # "DEFEND"
                         /\ intention' = (IF k \in Standing THEN IntentionOf(k) ELSE intention)
                         /\ ordered' = (IF k \in Standing THEN t ELSE ordered)
  <2>1. CASE FirstStep(t)
    <3>1. kind[t] \in Kinds /\ kind \in [Task -> Kinds]
      BY <1>1 DEF TypeOK
    <3>. QED
      BY <1>1, <2>1, <3>1 DEF FirstStep, SetsIntention, FirstStepsOneByOne
  <2>2. CASE ResetToIdle(t)
    <3>1. "reset" \in Kinds /\ "reset" \notin Standing
      BY DEF Kinds, Standing
    <3>2. /\ kind' \in [Task -> Kinds] /\ kind'[t] = "reset"
          /\ \A u \in Task \ {t} : kind'[u] = kind[u]
      BY <1>1, <2>2, <3>1 DEF ResetToIdle, TypeOK
    <3>. QED
      BY <2>2, <3>1, <3>2 DEF ResetToIdle, goal
  <2>. QED
    BY <2>1, <2>2
<1>3. status[t] \in {"created", "answered"} /\ Live(t)
  BY DEF FirstStep, ResetToIdle, Live
<1>4. TaskStep(t) /\ read' = read
  <2>1. UNCHANGED <<reader, read, queue, processed, run, current, ownName, newest, echoed>>
    BY DEF FirstStep, ResetToIdle
  <2>2. \E s \in {"queued", "sending", "waiting", "answered", "done"} : Becomes(t, s)
    BY <1>2 DEF Send, Writes, AfterSend
  <2>. QED
    BY <1>2, <1>3, <2>1, <2>2 DEF TaskStep
<1>5. read <= read' /\ read' \in 0..MaxEvents
  BY <1>4, Numbers DEF IInv
<1>6. Orderly' /\ ModTyped'
  <2>1. SendStep(t, k)
    BY <1>2 DEF SendStep
  <2>2. k \notin Standing => kind[t] \notin Standing
    BY <1>2 DEF Standing
  <2>. QED
    BY <1>1, <1>2, <1>3, <2>1, <2>2, SendKeepsOrder
<1>7. FirstStepsOneByOne'
  <2>1. CASE FirstStep(t)
    <3>1. \A s \in Task : status'[s] # "created"
      BY <1>1, <1>4, <1>5, <2>1, TaskStepKeeps DEF FirstStep, FirstStepsOneByOne
    <3>. QED
      BY <3>1 DEF FirstStepsOneByOne
  <2>2. CASE ResetToIdle(t)
    <3>1. intention' = intention
      BY <2>2 DEF ResetToIdle, goal
    <3>. QED
      BY <1>1, <1>4, <1>5, <3>1, TaskStepKeeps DEF FirstStepsOneByOne
  <2>. QED
    BY <2>1, <2>2
<1>8. TypeOK'
  BY <1>4, <1>5, <1>6, TaskStepKeeps, TypePartsPrimed
<1>. QED
  BY <1>4, <1>5, <1>6, <1>7, <1>8, TaskStepKeeps DEF IInv

\* ... and when it is the turn of one that waited.
LEMMA TurnKeeps ==
    ASSUME IInv, NEW t \in Task, GetsTurn(t)
    PROVE  IInv'
<1>1. /\ status[t] = "queued" /\ t \in line /\ ahead[t] = {} /\ Writes(t, kind[t])
      /\ LeavesLine({t})
      /\ UNCHANGED <<reader, read, queue, processed, run, current, kind, ownName, goal, link,
                     newest, echoed>>
  BY DEF GetsTurn
<1>2. TaskStep(t)
  <2>1. \E s \in {"queued", "sending", "waiting", "answered", "done"} : Becomes(t, s)
    BY <1>1 DEF Writes, AfterSend
  <2>. QED
    BY <1>1, <2>1 DEF TaskStep, Live, IInv, TypeOK
<1>3. read <= read' /\ read' \in 0..MaxEvents
  BY <1>1, Numbers DEF IInv
<1>4. Orderly' /\ ModTyped'
  BY <1>1, TurnKeepsOrder DEF IInv
<1>5. FirstStepsOneByOne'
  BY <1>1, <1>2, <1>3, TaskStepKeeps DEF IInv, FirstStepsOneByOne, goal
<1>6. TypeOK'
  BY <1>2, <1>3, <1>4, TaskStepKeeps, TypePartsPrimed
<1>. QED
  BY <1>2, <1>3, <1>4, <1>5, <1>6, TaskStepKeeps DEF IInv

-----------------------------------------------------------------------------
(* run() takes an event: a new task, and with a command the end of the     *)
(* tracked one.                                                            *)

LEMMA NewTaskIsNew ==
    ASSUME IInv, ProcessEvent
    PROVE  /\ NewTask \in Task /\ NewTask # None
           /\ status[NewTask] = "none"
           /\ NewTask > processed /\ NewTask # current /\ NewTask # newest
           /\ processed' = NewTask /\ processed' \in 0..MaxEvents
           /\ Head(queue) \in Queued /\ queue' \in Seq(Queued)
           /\ processed' + Len(queue') <= read
<1>1. queue \in Seq(Queued) /\ queue # <<>> /\ queue' = Tail(queue) /\ processed' = processed + 1
  BY DEF IInv, TypeOK, ProcessEvent
<1>2. Head(queue) \in Queued /\ queue' \in Seq(Queued) /\ Len(queue') = Len(queue) - 1
      /\ Len(queue) >= 1
  BY <1>1
<1>3. /\ MaxEvents \in Nat /\ read \in Nat /\ processed \in Nat /\ Len(queue) \in Nat
      /\ read <= MaxEvents /\ current \in Nat /\ newest \in Nat
  BY Numbers DEF IInv
<1>4. processed + Len(queue) <= read /\ current <= processed /\ newest <= processed
  BY DEF IInv, Counted
<1>5. NewTask \in Task /\ NewTask # None /\ NewTask > processed
  BY <1>2, <1>3, <1>4 DEF NewTask, Task, None
<1>6. status[NewTask] = "none"
  BY <1>5 DEF IInv, Counted
<1>7. /\ NewTask # current /\ NewTask # newest
      /\ processed' = NewTask /\ processed' \in 0..MaxEvents
      /\ processed' + Len(queue') <= read
  BY <1>1, <1>2, <1>3, <1>4 DEF NewTask
<1>. QED
  BY <1>2, <1>5, <1>6, <1>7

\* Every task is as it was, or cancelled when it was the tracked one, except for
\* one that has just been created.
TaskStarts(k) ==
    /\ kind' = [kind EXCEPT ![NewTask] = k]
    /\ \/ /\ status' = [CancelCurrent EXCEPT ![NewTask] = "created"] /\ current' = NewTask
          /\ OrderCut
       \/ /\ status' = [status EXCEPT ![NewTask] = "created"] /\ current' = current
          /\ UNCHANGED mod
          /\ k = "autodefend" /\ intention # "DEFEND"

LEMMA StartKeeps ==
    ASSUME IInv, ProcessEvent,
           NEW k \in Lines \cup {"autodefend"}, TaskStarts(k),
           UNCHANGED <<reader, read, run, ownName, goal>>,
           newest' \in {newest, NewTask}, echoed' \in BOOLEAN,
           ~echoed' => /\ current' = newest'
                       /\ newest' = NewTask \/ UNCHANGED <<newest, echoed>>,
           k = "autodefend" => current' = current
    PROVE  IInv'
<1>1. /\ NewTask \in Task /\ NewTask # None /\ status[NewTask] = "none"
      /\ NewTask > processed /\ NewTask # current /\ NewTask # newest
      /\ processed' = NewTask /\ processed' \in 0..MaxEvents
      /\ queue' \in Seq(Queued) /\ processed' + Len(queue') <= read
  BY NewTaskIsNew
<1>2. TypeOK /\ OnlyTrackedLives /\ TrackedIsNewest /\ FirstStepsOneByOne /\ NoTaskCreated
  BY DEF IInv, ProcessEvent
<1>0. Orderly' /\ ModTyped'
  <2>1. \A t \in Task : status[t] # "none" => t # NewTask /\ kind'[t] = kind[t]
    BY <1>1, <1>2 DEF TaskStarts, TypeOK
  <2>2. CASE OrderCut /\ status' = [CancelCurrent EXCEPT ![NewTask] = "created"]
    <3>1. \A t \in Task : status[t] # "none" => status'[t] = CancelCurrent[t]
      BY <1>2, <2>1, <2>2, CancelCurrentFacts
    <3>. QED
      BY <1>2, <2>1, <2>2, <3>1, OrderCutKeepsOrder DEF IInv
  <2>3. CASE UNCHANGED mod /\ status' = [status EXCEPT ![NewTask] = "created"]
    <3>1. UNCHANGED <<line, ahead, given, lost>>
      BY <2>3 DEF mod, mutex
    <3>2. \A t \in Task : status[t] # "none" => status'[t] = status[t]
      BY <1>2, <2>1, <2>3 DEF TypeOK
    <3>3. \A t \in line : t \in Task /\ status[t] # "none"
      BY DEF IInv, Orderly, LineInOrder, TypeOK
    <3>4. Orderly'
      BY <1>2, <2>1, <3>1, <3>2, <3>3, OrderlyKept DEF IInv
    <3>. QED
      BY <1>2, <2>3, <3>4, TypesKept
  <2>. QED
    BY <2>2, <2>3 DEF TaskStarts
<1>3. \A t \in Task \ {NewTask} :
        /\ kind'[t] = kind[t]
        /\ status'[t] = IF current' = NewTask THEN CancelCurrent[t] ELSE status[t]
  BY <1>1, <1>2, CancelCurrentFacts DEF TaskStarts, TypeOK
<1>4. status'[NewTask] = "created" /\ kind'[NewTask] = k
  BY <1>1, <1>2, CancelCurrentFacts DEF TaskStarts, TypeOK
<1>5. TypeOK'
  <2>1. LoopTyped'
    BY <1>1, <1>2 DEF LoopTyped, TypeOK
  <2>2. kind' \in [Task -> Kinds] /\ status' \in [Task -> Statuses]
    BY <1>2, CancelCurrentFacts DEF TaskStarts, TypeOK, Kinds, Statuses
  <2>3. current' \in Task \cup {None} /\ newest' \in Task \cup {None}
    BY <1>1, <1>2 DEF TaskStarts, TypeOK
  <2>4. OwnTyped'
    BY <1>2 DEF OwnTyped, TypeOK
  <2>. QED
    BY <1>0, <2>1, <2>2, <2>3, <2>4, TypePartsPrimed DEF TasksTyped
<1>6. Counted'
  <2>1. current' <= processed' /\ newest' <= processed'
    <3>1. current <= processed /\ newest <= processed
      BY DEF IInv, Counted
    <3>2. processed \in Nat /\ current \in Nat /\ newest \in Nat
      BY Numbers DEF IInv
    <3>3. NewTask = processed + 1
      BY DEF NewTask
    <3>. QED
      BY <1>1, <3>1, <3>2, <3>3 DEF TaskStarts
  <2>2. \A t \in Task : t > processed' => t > processed /\ t # NewTask
    <3>1. processed \in Nat /\ MaxEvents \in Nat
      BY Numbers DEF IInv
    <3>. QED
      BY <1>1, <3>1 DEF NewTask, Task
  <2>3. \A t \in Task : t > processed' => status'[t] = "none"
    BY <1>2, <1>3, <2>2, CancelCurrentFacts DEF IInv, Counted
  <2>. QED
    BY <1>1, <2>1, <2>3 DEF Counted
<1>7. OnlyTrackedLives'
  <2>1. CASE current' = NewTask
    BY <1>2, <1>3, <2>1, CancelCurrentFacts DEF OnlyTrackedLives, Live
  <2>2. CASE current' = current /\ k = "autodefend"
    BY <1>1, <1>2, <1>3, <1>4, <2>2 DEF OnlyTrackedLives, Live
  <2>. QED
    BY <2>1, <2>2 DEF TaskStarts
<1>8. TrackedIsNewest'
  <2>1. SUFFICES ASSUME ~echoed'
                 PROVE  /\ current' = newest'
                        /\ newest' # None /\ run' # "interrupted"
                             => status'[newest'] # "cancelled"
    BY DEF TrackedIsNewest
  <2>2. CASE newest' = NewTask
    BY <1>4, <2>1, <2>2
  <2>3. CASE newest' = newest /\ ~echoed
    <3>1. current' # NewTask /\ (newest # None => newest \in Task \ {NewTask})
      BY <1>1, <1>2, <2>1, <2>3 DEF TypeOK
    <3>. QED
      BY <1>2, <1>3, <2>1, <2>3, <3>1 DEF TrackedIsNewest
  <2>. QED
    BY <2>1, <2>2, <2>3
<1>9. FirstStepsOneByOne'
  <2>1. \A t \in Task : status'[t] = "created" => t = NewTask
    BY <1>2, <1>3, CancelCurrentFacts DEF NoTaskCreated
  <2>2. k = "autodefend" => intention' # "DEFEND"
    BY <1>1 DEF TaskStarts, goal
  <2>. QED
    BY <1>4, <2>1, <2>2 DEF FirstStepsOneByOne
<1>10. FinishingLast'
  BY DEF FinishingLast, ProcessEvent
<1>. QED
  BY <1>0, <1>5, <1>6, <1>7, <1>8, <1>9, <1>10 DEF IInv

LEMMA NothingStartsKeeps ==
    ASSUME IInv, ProcessEvent, UNCHANGED <<tasks, goal, mod, newest, echoed>>
    PROVE  IInv'
<1>1. UNCHANGED <<reader, read, run, ownName>>
  BY DEF ProcessEvent
<1>2. /\ NewTask > processed /\ processed' = NewTask /\ processed' \in 0..MaxEvents
      /\ queue' \in Seq(Queued) /\ processed' + Len(queue') <= read
  BY NewTaskIsNew
<1>3. TypeOK'
  <2>1. LoopTyped'
    BY <1>1, <1>2 DEF LoopTyped, IInv, TypeOK
  <2>2. TasksTyped' /\ ModTyped' /\ OwnTyped'
    BY <1>1, TypesKept DEF IInv
  <2>. QED
    BY <2>1, <2>2, TypePartsPrimed
<1>4. Counted'
  <2>1. processed \in Nat /\ current \in Nat /\ newest \in Nat /\ processed' = processed + 1
        /\ MaxEvents \in Nat
    BY Numbers DEF IInv, ProcessEvent
  <2>2. current' <= processed' /\ newest' <= processed'
    BY <2>1 DEF IInv, Counted, tasks
  <2>3. \A t \in Task : t > processed' => t > processed
    BY <2>1 DEF Task
  <2>. QED
    BY <1>1, <1>2, <2>2, <2>3 DEF IInv, Counted, tasks
<1>5. OnlyTrackedLives' /\ TrackedIsNewest' /\ FirstStepsOneByOne'
  BY <1>1 DEF IInv, OnlyTrackedLives, TrackedIsNewest, FirstStepsOneByOne, Live, tasks, goal
<1>6. FinishingLast'
  BY DEF FinishingLast, ProcessEvent
<1>7. Orderly'
  BY StandingStill DEF IInv
<1>. QED
  BY <1>3, <1>4, <1>5, <1>6, <1>7 DEF IInv

LEMMA ProcessEventKeeps ==
    ASSUME IInv, ProcessEvent
    PROVE  IInv'
<1>1. PICK e \in Queued : ProcessChat(e) \/ ProcessHit(e) \/ ProcessOther(e)
  BY NewTaskIsNew DEF ProcessEvent
<1>2. UNCHANGED <<reader, read, run, ownName>>
  BY DEF ProcessEvent
<1>3. echoed \in BOOLEAN /\ (~echoed => current = newest)
  BY DEF IInv, TypeOK, TrackedIsNewest
<1>4. CASE ProcessChat(e)
  <2>1. UNCHANGED goal
    BY <1>4 DEF ProcessChat
  <2>2. CASE UNCHANGED <<tasks, mod, newest, echoed>>
    BY <2>1, <2>2, NothingStartsKeeps
  <2>3. CASE e \in Lines /\ Dispatch(e) /\ newest' = NewTask /\ UNCHANGED echoed
    <3>1. TaskStarts(e) /\ current' = NewTask /\ e # "autodefend"
      BY <2>3 DEF Dispatch, TaskStarts, Lines, Commands
    <3>. QED
      BY <1>2, <1>3, <2>1, <2>3, <3>1, StartKeeps
  <2>4. CASE \E k \in InOwnLine : Dispatch(k) /\ echoed' = TRUE /\ UNCHANGED newest
    <3>1. PICK k \in InOwnLine : Dispatch(k) /\ echoed' = TRUE /\ UNCHANGED newest
      BY <2>4
    <3>2. k \in Lines /\ k # "autodefend"
      BY BoundsAssumption DEF InOwnLine, Lines, Commands
    <3>3. TaskStarts(k)
      BY <3>1 DEF Dispatch, TaskStarts
    <3>. QED
      BY <1>2, <2>1, <3>1, <3>2, <3>3, StartKeeps
  <2>. QED
    BY <1>4, <2>2, <2>3, <2>4 DEF ProcessChat
<1>5. CASE ProcessHit(e)
  <2>1. UNCHANGED <<goal, mod, newest, echoed>>
    BY <1>5 DEF ProcessHit
  <2>2. CASE Triggers
    <3>1. TaskStarts("autodefend") /\ current' = current
      BY <1>5, <2>2 DEF ProcessHit, Triggers, TaskStarts
    <3>. QED
      BY <1>2, <1>3, <2>1, <3>1, StartKeeps
  <2>3. CASE ~Triggers
    BY <1>5, <2>1, <2>3, NothingStartsKeeps DEF ProcessHit
  <2>. QED
    BY <2>2, <2>3
<1>6. CASE ProcessOther(e)
  BY <1>6, NothingStartsKeeps DEF ProcessOther
<1>. QED
  BY <1>1, <1>4, <1>5, <1>6

LEMMA StutterKeeps == IInv /\ UNCHANGED vars => IInv'
<1>. SUFFICES ASSUME IInv, UNCHANGED vars PROVE IInv'
  OBVIOUS
<1>1. UNCHANGED <<reader, read, queue, processed, run, tasks, ownName, goal, mod, newest, echoed>>
  BY DEF vars
<1>2. TypeOK'
  BY <1>1, TypesKept, TypePartsPrimed DEF IInv
<1>3. Counted' /\ OnlyTrackedLives' /\ TrackedIsNewest' /\ FirstStepsOneByOne'
  BY <1>1 DEF IInv, Counted, OnlyTrackedLives, TrackedIsNewest, FirstStepsOneByOne, Live, tasks,
     goal
<1>4. FinishingLast'
  BY <1>1 DEF IInv, FinishingLast, Live, tasks
<1>5. Orderly'
  BY <1>1, StandingStill DEF IInv
<1>. QED
  BY <1>2, <1>3, <1>4, <1>5 DEF IInv

LEMMA Invariance == Safety => []IInv
<1>1. IInv /\ [Next]_vars => IInv'
  BY ReaderKeeps, RunEndsKeeps, LinkKeeps, OthersKeep, InterruptedKeeps, QuietTasksKeep,
     SendsKeep, TurnKeeps, ProcessEventKeeps, StutterKeeps DEF Next
<1>. QED
  BY <1>1, InitIInv, PTL DEF Safety

-----------------------------------------------------------------------------

\* The variables of RunLoop keep their types: the intention is one of the three
\* values of PlayerIntention, and no task is started twice.
THEOREM TypeCorrect == Safety => []TypeOK
  BY Invariance, PTL DEF IInv

\* _dispatch_chat_command: whatever is read, timed out, dropped or cancelled in
\* between, the only task of a chat line that goes on is the newest line's.
THEOREM NewestWins == Safety => []NewestLineWins
<1>1. IInv => NewestLineWins
  BY DEF IInv, OnlyTrackedLives, TrackedIsNewest, NewestLineWins
<1>. QED
  BY <1>1, Invariance, PTL

\* PlayerIntentionController and the mod agree, unless the order is still in line for
\* the mutex, one was lost, or a test reset the mod behind the controller's back.
THEOREM IntentionFollows == Safety => []InSyncUnlessLost
<1>1. IInv => InSyncUnlessLost
  BY DEF IInv, Orderly
<1>. QED
  BY <1>1, Invariance, PTL

\* A self-defence that writes, at once or when its turn comes, finds the mod defending
\* no player.
LEMMA DefenceStep ==
    ASSUME IInv, Next, modGoal = "DEFEND other", modGoal' = "DEFEND self", ~lost
    PROVE  \E t \in Task : kind[t] = "defend self" /\ status'[t] # status[t]
<1>1. TypeOK /\ Orderly
  BY DEF IInv
<1>2. PICK t \in Task, k \in Kinds : /\ Writes(t, k) /\ status[t] \in {"created", "queued", "answered"}
                                     /\ FirstStep(t) \/ ResetToIdle(t) \/ GetsTurn(t)
                                     /\ ResetToIdle(t) => k = "reset"
                                     /\ ~ResetToIdle(t) => k = kind[t]
  <2>1. PICK t \in Task : FirstStep(t) \/ ResetToIdle(t) \/ GetsTurn(t)
    BY DEF Next, mod, given, ReadQueued, ReadPosition, ReadReply, ReaderStops,
       ProcessEvent, ProcessChat, Dispatch, OrderCut, ProcessHit, ProcessOther, EndOfStream,
       LastCommandDone, Interrupted, NothingToRun, LosesTurn, SendEnds, TakesReply, TimesOut,
       Unwind, OthersSend, LinkChanges
  <2>2. kind[t] \in Kinds /\ "reset" \in Kinds
    BY <1>1 DEF TypeOK, Kinds
  <2>3. CASE FirstStep(t) \/ GetsTurn(t)
    <3>1. Writes(t, kind[t])
      BY <2>3 DEF FirstStep, GetsTurn, Send, given
    <3>2. ~ResetToIdle(t) /\ status[t] \in {"created", "queued", "answered"}
      BY <2>3 DEF FirstStep, GetsTurn, ResetToIdle
    <3>. QED
      BY <2>2, <2>3, <3>1, <3>2
  <2>4. CASE ResetToIdle(t)
    <3>1. Writes(t, "reset") /\ status[t] \in {"created", "queued", "answered"}
      BY <2>4 DEF ResetToIdle, Send, given
    <3>. QED
      BY <2>2, <2>4, <3>1
  <2>. QED
    BY <2>1, <2>3, <2>4
<1>3. k \in {"defend self", "autodefend"}
  BY <1>2 DEF Writes, GoalOf
<1>4. k = kind[t] /\ (FirstStep(t) \/ GetsTurn(t))
  BY <1>2, <1>3
<1>5. k # "autodefend"
  <2>. SUFFICES ASSUME k = "autodefend" PROVE FALSE
    OBVIOUS
  <2>1. CASE FirstStep(t)
    <3>1. line = {} /\ intention # "DEFEND"
      BY <1>2, <1>4, <2>1 DEF FirstStep, Send, given, IInv, FirstStepsOneByOne
    <3>. QED
      BY <1>1, <3>1 DEF Orderly, InSyncUnlessLost, ReplacedByIdle, Matching, Pending
  <2>2. CASE GetsTurn(t)
    <3>1. t \in line /\ ahead[t] = {}
      BY <2>2 DEF GetsTurn
    <3>. QED
      BY <1>1, <1>4, <3>1 DEF Orderly, DefenceWaits, NoDefenceBefore
  <2>. QED
    BY <1>4, <2>1, <2>2
<1>6. status'[t] # status[t]
  BY <1>1, <1>2 DEF TypeOK, Writes, Becomes, AfterSend
<1>. QED
  BY <1>3, <1>4, <1>5, <1>6

\* SelfDefenseTrigger: whatever waited for the mutex when the hit came, it takes the mod
\* off a player only when an order before it was lost.
THEOREM DefenceKept == Safety => DefenceKeepsItsPlayer
<1>1. IInv /\ [Next]_vars =>
        [modGoal = "DEFEND other" /\ modGoal' = "DEFEND self" /\ ~lost
           => \E t \in Task : kind[t] = "defend self" /\ status'[t] # status[t]]_vars
  BY DefenceStep
<1>. QED
  BY <1>1, Invariance, PTL DEF Safety, DefenceKeepsItsPlayer

\* run() returns only when every event is processed and the last command is done,
\* and when it is interrupted its finally leaves no command running.
THEOREM RunEndsInOrder == Safety => EndsInOrder
<1>1. IInv /\ IInv' /\ [Next]_vars =>
        [/\ run # "over" /\ run' = "over" =>
               queue = <<>> /\ reader # "running"
                 /\ (current = None \/ status[current] = "done")
         /\ run' = "interrupted" => current = None \/ ~Live(current)']_vars
  <2>. SUFFICES ASSUME IInv, IInv', Next
                PROVE  /\ run # "over" /\ run' = "over" =>
                            queue = <<>> /\ reader # "running"
                              /\ (current = None \/ status[current] = "done")
                       /\ run' = "interrupted" => current = None \/ ~Live(current)'
    OBVIOUS
  <2>1. ASSUME run # "over", run' = "over"
        PROVE  queue = <<>> /\ reader # "running" /\ (current = None \/ status[current] = "done")
    <3>1. EndOfStream \/ LastCommandDone
      BY <2>1 DEF Next, ReadQueued, ReadPosition, ReadReply, ReaderStops, ProcessEvent, Interrupted,
         FirstStep, NothingToRun, GetsTurn, LosesTurn, SendEnds, TakesReply, ResetToIdle, TimesOut,
         Unwind, OthersSend, LinkChanges
    <3>. QED
      BY <2>1, <3>1 DEF EndOfStream, StreamEnded, LastCommandDone, IInv, FinishingLast
  <2>2. ASSUME run' = "interrupted"
        PROVE  current = None \/ ~Live(current)'
    <3>1. current' = None \/ ~Live(current)'
      BY <2>2 DEF IInv, FinishingLast
    <3>2. current' = current
      BY <2>2 DEF Next, ReadQueued, ReadPosition, ReadReply, ReaderStops, ProcessEvent, Interrupted,
         FirstStep, NothingToRun, GetsTurn, LosesTurn, SendEnds, TakesReply, ResetToIdle, TimesOut,
         Unwind, OthersSend, LinkChanges,
         EndOfStream, LastCommandDone, tasks
    <3>. QED
      BY <3>1, <3>2
  <2>. QED
    BY <2>1, <2>2
<1>. QED
  BY <1>1, Invariance, PTL DEF Safety, EndsInOrder
=============================================================================
