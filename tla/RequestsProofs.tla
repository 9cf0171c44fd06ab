--------------------------- MODULE RequestsProofs ---------------------------
(***************************************************************************)
(* Proofs about what a line of chat sets off, as MC_Requests puts the      *)
(* parts side by side: that a command's words become its arguments, that   *)
(* every action a line leads to is answered, that a schematic of any size  *)
(* is read back as it was packed, placed as it was drawn and cleared, and  *)
(* that every part keeps its types.                                        *)
(***************************************************************************)
EXTENDS MC_Requests, QueryExchangeProofs, FiniteSetTheorems, SequenceTheorems, TLAPS

sub == <<about, chat, testing, placing, reading, vars>>

-----------------------------------------------------------------------------
(* A line of chat: the messages sent so far answer the outcomes so far.    *)

Outcome == {"message", "silent", "raised", "unknown"}

\* What is said.
Words == {"message", "something went wrong", "no such action", "unknown command", "reply"}

Message(o) == CASE o = "message" -> "message"
                [] o = "raised"  -> "something went wrong"
                [] o = "unknown" -> "no such action"

Heard(o) == {i \in DOMAIN o : o[i] # "silent"}
Nth(o, i) == Cardinality({j \in Heard(o) : j <= i})

SaidFor(o, a) ==
    /\ Len(a) = Cardinality(Heard(o))
    /\ \A i \in Heard(o) : a[Nth(o, i)] = Message(o[i])

LEMMA HeardIsFinite ==
    ASSUME NEW o \in Seq(Outcome)
    PROVE  /\ IsFiniteSet(Heard(o)) /\ Cardinality(Heard(o)) \in Nat
           /\ \A i \in Heard(o) : Nth(o, i) \in 1..Cardinality(Heard(o))
  <1>1. IsFiniteSet(Heard(o))
    <2>1. Heard(o) \subseteq 1..Len(o) /\ Len(o) \in Nat
      BY DEF Heard
    <2>2. IsFiniteSet(1..Len(o))
      BY <2>1, FS_Interval
    <2> QED  BY <2>1, <2>2, FS_Subset
  <1>2. ASSUME NEW i \in Heard(o)
        PROVE  Nth(o, i) \in 1..Cardinality(Heard(o))
    <2> DEFINE upTo == {j \in Heard(o) : j <= i}
    <2>1. upTo \subseteq Heard(o) /\ i \in upTo
      BY DEF Heard
    <2> HIDE DEF upTo
    <2>2. IsFiniteSet(upTo) /\ Cardinality(upTo) <= Cardinality(Heard(o))
      BY <1>1, <2>1, FS_Subset
    <2>3. Cardinality(upTo) \in Nat /\ Cardinality(upTo) # 0
      BY <2>1, <2>2, FS_CardinalityType, FS_EmptySet
    <2> QED  BY <1>1, <2>2, <2>3, FS_CardinalityType DEF Nth, upTo
  <1> QED  BY <1>1, <1>2, FS_CardinalityType

\* An outcome without a message leaves what was said an answer to all of them.
LEMMA SilentIsAnswered ==
    ASSUME NEW o \in Seq(Outcome), NEW a, SaidFor(o, a)
    PROVE  SaidFor(Append(o, "silent"), a)
  <1> DEFINE p == Append(o, "silent")
  <1>1. Len(o) \in Nat /\ DOMAIN p = 1..(Len(o) + 1) /\ DOMAIN o = 1..Len(o)
        /\ p[Len(o) + 1] = "silent" /\ \A i \in 1..Len(o) : p[i] = o[i]
    OBVIOUS
  <1> HIDE DEF p
  <1>2. Heard(p) = Heard(o)
    BY <1>1 DEF Heard
  <1>3. \A i \in Heard(o) : Nth(p, i) = Nth(o, i) /\ p[i] = o[i]
    BY <1>1, <1>2 DEF Nth, Heard
  <1> QED  BY <1>2, <1>3 DEF SaidFor, p

\* An outcome and its message keep what was said an answer to all of them.
LEMMA MessageAnswers ==
    ASSUME NEW o \in Seq(Outcome), NEW a \in Seq(Words), SaidFor(o, a),
           NEW e \in Outcome, e # "silent", NEW m \in Words, m = Message(e)
    PROVE  SaidFor(Append(o, e), Append(a, m))
  <1> DEFINE p == Append(o, e)
             b == Append(a, m)
             n == Len(o) + 1
             k == Cardinality(Heard(o))
  <1>1. n \in Nat \ {0} /\ DOMAIN p = 1..n /\ DOMAIN o = 1..(n - 1)
        /\ p[n] = e /\ \A i \in 1..(n - 1) : p[i] = o[i]
    OBVIOUS
  <1>2. IsFiniteSet(Heard(o)) /\ k \in Nat /\ Len(a) = k
        /\ \A i \in Heard(o) : Nth(o, i) \in 1..k
    BY HeardIsFinite DEF SaidFor
  <1>3. Len(b) = k + 1 /\ b[k + 1] = m /\ \A i \in 1..k : b[i] = a[i]
    BY <1>2
  <1> HIDE DEF p, b, n, k
  <1>4. Heard(p) = Heard(o) \cup {n} /\ n \notin Heard(o)
    <2>1. \A i \in 1..(n - 1) : i \in 1..n /\ i # n
      BY <1>1
    <2>2. \A i \in 1..n : i = n \/ i \in 1..(n - 1)
      BY <1>1
    <2>3. n \in 1..n /\ e # "silent"
      BY <1>1
    <2> QED  BY <1>1, <2>1, <2>2, <2>3 DEF Heard
  <1>5. Cardinality(Heard(p)) = k + 1
    BY <1>2, <1>4, FS_AddElement DEF k
  <1>6. ASSUME NEW i \in Heard(o)
        PROVE  b[Nth(p, i)] = Message(p[i])
    <2>1. i \in 1..(n - 1) /\ p[i] = o[i]
      BY <1>1 DEF Heard
    <2>2. Nth(p, i) = Nth(o, i)
      <3>1. {j \in Heard(p) : j <= i} = {j \in Heard(o) : j <= i}
        BY <1>1, <1>4, <2>1
      <3> QED  BY <3>1 DEF Nth
    <2> QED  BY <1>2, <1>3, <2>1, <2>2 DEF SaidFor
  <1>7. b[Nth(p, n)] = Message(p[n])
    <2>1. {j \in Heard(p) : j <= n} = Heard(p)
      BY <1>1 DEF Heard
    <2> QED  BY <1>1, <1>3, <1>5, <2>1 DEF Nth
  <1>8. Len(b) = Cardinality(Heard(p))
    BY <1>3, <1>5
  <1> QED  BY <1>4, <1>6, <1>7, <1>8 DEF SaidFor, p, b
\* The words a provider may plan are sequences.
LEMMA PlansAreSequences == \A p \in Plans : Len(p) \in Nat
  BY PartsAssumption

\* What has been said when a line is still being dealt with, and at its end.
CallsInv ==
    /\ outcomes \in Seq(Outcome) /\ answers \in Seq(Words)
    /\ Len(plan) \in Nat
    /\ phase \in {"heard", "asking"} =>
            outcomes = <<>> /\ answers = <<>> /\ Len(plan) = 0 /\ reply = FALSE
    /\ phase = "asking" => ~C!IsCommand /\ ~C!StartsWithBang
    /\ phase = "running" /\ C!IsCommand =>
            outcomes = <<>> /\ answers = <<>> /\ reply = FALSE
    /\ phase = "calling" \/ (phase = "running" /\ ~C!IsCommand) =>
            /\ ~C!IsCommand /\ ~C!StartsWithBang
            /\ SaidFor(outcomes, answers)
            /\ Len(outcomes) <= Len(plan)
            /\ phase = "running" => Len(outcomes) < Len(plan)
    /\ C!EveryCallAnswered

LEMMA SameCardinality == \A U : C!Cardinality(U) = Cardinality(U)
  BY DEF C!Cardinality, Cardinality

\* How a line that was dealt with ends: outcomes o, messages a, of n calls.
LastWord(says, bang) ==
    IF says THEN <<"reply">> ELSE IF bang THEN <<"unknown command">> ELSE <<>>
Ended(o, a, n, word) ==
    /\ Len(o) = n
    /\ Len(a) = Cardinality(Heard(o)) + Len(word)
    /\ \A i \in Heard(o) : a[Nth(o, i)] = Message(o[i])
    /\ word # <<>> => a[Len(a)] = word[1]

LEMMA AnsweredIs ==
    C!EveryCallAnswered <=>
        /\ phase = "done" => Ended(outcomes, answers, IF C!IsCommand THEN 1 ELSE Len(plan),
                                   LastWord(reply, C!StartsWithBang /\ ~C!IsCommand))
        /\ phase = "failed" => outcomes = <<>>
  BY SameCardinality DEF C!EveryCallAnswered, Ended, LastWord, Heard, Nth, Message

LEMMA AnsweredIsPrimed ==
    C!EveryCallAnswered' <=>
        /\ phase' = "done" => Ended(outcomes', answers', IF C!IsCommand' THEN 1 ELSE Len(plan'),
                                    LastWord(reply', C!StartsWithBang' /\ ~C!IsCommand'))
        /\ phase' = "failed" => outcomes' = <<>>
  BY SameCardinality DEF C!EveryCallAnswered, Ended, LastWord, Heard, Nth, Message

LEMMA SaidIsEnded ==
    ASSUME NEW o, NEW a, SaidFor(o, a), NEW n, Len(o) = n, Cardinality(Heard(o)) \in Nat
    PROVE  Ended(o, a, n, <<>>)
  BY DEF Ended, SaidFor

LEMMA WordIsEnded ==
    ASSUME NEW o \in Seq(Outcome), NEW a \in Seq(Words), SaidFor(o, a), NEW n, Len(o) = n,
           NEW w \in Words
    PROVE  Ended(o, Append(a, w), n, <<w>>)
  <1>1. Cardinality(Heard(o)) \in Nat /\ \A i \in Heard(o) : Nth(o, i) \in 1..Cardinality(Heard(o))
    BY HeardIsFinite
  <1>2. Len(a) = Cardinality(Heard(o))
    BY DEF SaidFor
  <1> DEFINE b == Append(a, w)
  <1>3. Len(b) = Len(a) + 1 /\ b[Len(a) + 1] = w /\ \A i \in 1..Len(a) : b[i] = a[i]
    OBVIOUS
  <1>4. Len(<<w>>) = 1 /\ <<w>>[1] = w
    OBVIOUS
  <1> HIDE DEF b
  <1>5. \A i \in Heard(o) : b[Nth(o, i)] = Message(o[i])
    BY <1>1, <1>2, <1>3 DEF SaidFor
  <1> QED  BY <1>1, <1>2, <1>3, <1>4, <1>5 DEF Ended, b

LEMMA NothingSaid == SaidFor(<<>>, <<>>)
  <1>1. Heard(<<>>) = {}
    BY DEF Heard
  <1> QED  BY <1>1, FS_EmptySet DEF SaidFor

LEMMA CallsInit == C!Init => CallsInv
  <1> SUFFICES ASSUME C!Init
               PROVE  CallsInv
    OBVIOUS
  <1>1. outcomes = <<>> /\ answers = <<>> /\ plan = <<>> /\ phase = "heard" /\ reply = FALSE
    BY DEF C!Init
  <1>2. C!EveryCallAnswered
    BY <1>1, AnsweredIs
  <1> QED  BY <1>1, <1>2 DEF CallsInv

LEMMA CallsStep == CallsInv /\ C!Next => CallsInv'
  <1> SUFFICES ASSUME CallsInv, C!Next
               PROVE  CallsInv'
    OBVIOUS
  <1>0. /\ line' = line
        /\ C!IsCommand' <=> C!IsCommand
        /\ C!StartsWithBang' <=> C!StartsWithBang
    <2>1. line' = line
      BY DEF C!Next, C!DispatchChat, C!UnknownCommand, C!AskProvider, C!ProviderAnswers,
             C!ProviderRaises, C!CallTool, C!Reply, C!HandlerReturns, C!HandlerRaises,
             C!Superseded
    <2> QED  BY <2>1 DEF C!IsCommand, C!StartsWithBang
  <1>a. ASSUME NEW e \in Outcome, e # "silent", SaidFor(outcomes, answers),
               outcomes' = Append(outcomes, e), answers' = Append(answers, Message(e))
        PROVE  /\ outcomes' \in Seq(Outcome) /\ answers' \in Seq(Words)
               /\ SaidFor(outcomes', answers')
               /\ Len(outcomes') = Len(outcomes) + 1
    <2>1. Message(e) \in Words
      BY <1>a DEF Outcome, Message, Words
    <2> QED  BY <1>a, <2>1, MessageAnswers DEF CallsInv
  <1>b. ASSUME SaidFor(outcomes, answers), C!Ends("silent"), answers' = answers
        PROVE  /\ outcomes' \in Seq(Outcome) /\ answers' \in Seq(Words)
               /\ SaidFor(outcomes', answers')
               /\ Len(outcomes') = Len(outcomes) + 1
    BY <1>b, SilentIsAnswered DEF C!Ends, CallsInv, Outcome
  <1>c. \A o \in Seq(Outcome) : Cardinality(Heard(o)) \in Nat
    BY HeardIsFinite
  <1>d. ASSUME phase' \notin {"done", "failed"}
        PROVE  C!EveryCallAnswered'
    BY <1>d, AnsweredIsPrimed
  <1>1. CASE C!DispatchChat
    <2>1. /\ phase = "heard" /\ C!IsCommand /\ plan' = plan /\ reply' = reply
          /\ outcomes = <<>> /\ answers = <<>> /\ Len(plan) = 0 /\ reply = FALSE
      BY <1>1 DEF C!DispatchChat, CallsInv
    <2>2. CASE phase' = "running" /\ UNCHANGED <<outcomes, answers>>
      BY <1>0, <1>d, <2>1, <2>2 DEF CallsInv
    <2>3. CASE phase' = "done" /\ C!Ends("raised") /\ C!Says("something went wrong")
      <3>1. /\ outcomes' \in Seq(Outcome) /\ answers' \in Seq(Words)
            /\ SaidFor(outcomes', answers') /\ Len(outcomes') = 1
        <4>1. SaidFor(outcomes, answers) /\ Len(outcomes) = 0
          BY <2>1, NothingSaid
        <4>2. /\ "raised" \in Outcome /\ outcomes' = Append(outcomes, "raised")
              /\ answers' = Append(answers, Message("raised"))
          BY <2>3 DEF Message, Outcome, C!Ends, C!Says
        <4>3. "raised" # "silent"
          OBVIOUS
        <4>4. Len(outcomes') = Len(outcomes) + 1 /\ outcomes' \in Seq(Outcome)
              /\ answers' \in Seq(Words) /\ SaidFor(outcomes', answers')
          BY <1>a, <4>1, <4>2, <4>3
        <4> QED  BY <4>1, <4>4
      <3>2. Ended(outcomes', answers', 1, <<>>)
        BY <1>c, <3>1, SaidIsEnded
      <3>3. C!EveryCallAnswered'
        BY <1>0, <2>1, <2>3, <3>2, AnsweredIsPrimed DEF LastWord
      <3> QED  BY <1>0, <2>1, <2>3, <3>1, <3>3 DEF CallsInv
    <2> QED  BY <1>1, <2>2, <2>3 DEF C!DispatchChat
  <1>2. CASE C!UnknownCommand
    <2>1. /\ phase = "heard" /\ ~C!IsCommand /\ C!StartsWithBang /\ phase' = "done"
          /\ UNCHANGED <<plan, reply, outcomes>> /\ answers' = Append(answers, "unknown command")
          /\ outcomes = <<>> /\ answers = <<>> /\ Len(plan) = 0 /\ reply = FALSE
      BY <1>2 DEF C!UnknownCommand, C!Says, CallsInv
    <2>2. Ended(outcomes', answers', 0, <<"unknown command">>)
      <3>1. SaidFor(outcomes, answers) /\ Len(outcomes) = 0 /\ "unknown command" \in Words
        BY <2>1, NothingSaid DEF Words
      <3> QED  BY <2>1, <3>1, WordIsEnded DEF CallsInv
    <2>3. C!EveryCallAnswered'
      BY <1>0, <2>1, <2>2, AnsweredIsPrimed DEF LastWord
    <2>4. answers' \in Seq(Words)
      <3>1. "unknown command" \in Words
        BY DEF Words
      <3>2. answers \in Seq(Words) /\ answers' = Append(answers, "unknown command")
        BY <2>1 DEF CallsInv
      <3> QED  BY <3>1, <3>2, AppendProperties
    <2> QED  BY <1>0, <2>1, <2>3, <2>4 DEF CallsInv
  <1>3. CASE C!AskProvider
    <2>1. /\ phase = "heard" /\ ~C!IsCommand /\ ~C!StartsWithBang /\ phase' \in {"asking", "done"}
          /\ UNCHANGED <<plan, reply, outcomes, answers>>
          /\ outcomes = <<>> /\ answers = <<>> /\ Len(plan) = 0 /\ reply = FALSE
      BY <1>3 DEF C!AskProvider, CallsInv
    <2>2. Ended(outcomes', answers', 0, <<>>)
      <3>1. SaidFor(outcomes, answers) /\ Len(outcomes) = 0 /\ Cardinality(Heard(outcomes)) \in Nat
        BY <1>c, <2>1, NothingSaid DEF CallsInv
      <3> QED  BY <2>1, <3>1, SaidIsEnded
    <2>3. C!EveryCallAnswered'
      BY <1>0, <2>1, <2>2, AnsweredIsPrimed DEF LastWord
    <2> QED  BY <1>0, <2>1, <2>3 DEF CallsInv
  <1>4. CASE C!ProviderAnswers
    <2>1. /\ phase = "asking" /\ ~C!IsCommand /\ ~C!StartsWithBang /\ phase' = "calling"
          /\ plan' \in Plans /\ UNCHANGED <<outcomes, answers>>
          /\ outcomes = <<>> /\ answers = <<>>
      BY <1>4 DEF C!ProviderAnswers, CallsInv
    <2>2. Len(plan') \in Nat
      BY <2>1, PlansAreSequences
    <2> QED  BY <1>0, <1>d, <2>1, <2>2, NothingSaid DEF CallsInv
  <1>5. CASE C!ProviderRaises
    <2>1. /\ phase = "asking" /\ phase' = "failed" /\ UNCHANGED <<plan, reply, outcomes, answers>>
          /\ outcomes = <<>>
      BY <1>5 DEF C!ProviderRaises, CallsInv
    <2>2. C!EveryCallAnswered'
      BY <2>1, AnsweredIsPrimed
    <2> QED  BY <1>0, <2>1, <2>2 DEF CallsInv
  <1>6. CASE C!CallTool
    <2>1. /\ phase = "calling" /\ ~C!IsCommand /\ ~C!StartsWithBang
          /\ UNCHANGED <<plan, reply>> /\ SaidFor(outcomes, answers)
          /\ Len(outcomes) + 1 <= Len(plan)
      <3>1. Len(outcomes) + 1 \in DOMAIN plan
        BY <1>6 DEF C!CallTool
      <3>2. Len(outcomes) + 1 <= Len(plan)
        BY <3>1 DEF CallsInv
      <3> QED  BY <1>6, <3>2 DEF C!CallTool, CallsInv
    <2>2. CASE phase' = "running" /\ UNCHANGED <<outcomes, answers>>
      BY <1>0, <1>d, <2>1, <2>2 DEF CallsInv
    <2>3. CASE C!Ends("unknown") /\ C!Says("no such action") /\ UNCHANGED phase
      <3>1. /\ outcomes' \in Seq(Outcome) /\ answers' \in Seq(Words)
            /\ SaidFor(outcomes', answers') /\ Len(outcomes') = Len(outcomes) + 1
        BY <1>a, <2>1, <2>3 DEF Outcome, Message, C!Ends, C!Says
      <3> QED  BY <1>0, <1>d, <2>1, <2>3, <3>1 DEF CallsInv
    <2> QED  BY <1>6, <2>2, <2>3 DEF C!CallTool
  <1>7. CASE C!Reply
    <2>1. /\ phase = "calling" /\ ~C!IsCommand /\ ~C!StartsWithBang /\ phase' = "done"
          /\ UNCHANGED <<plan, reply, outcomes>> /\ SaidFor(outcomes, answers)
          /\ Len(outcomes) = Len(plan)
          /\ outcomes \in Seq(Outcome) /\ answers \in Seq(Words)
      BY <1>7 DEF C!Reply, CallsInv
    <2>2. CASE reply
      <3>1. answers' = Append(answers, "reply")
        BY <1>7, <2>2 DEF C!Reply, C!Says
      <3>2. Ended(outcomes', answers', Len(plan'), <<"reply">>)
        BY <2>1, <3>1, WordIsEnded DEF Words
      <3>3. C!EveryCallAnswered'
        BY <1>0, <2>1, <2>2, <3>2, AnsweredIsPrimed DEF LastWord
      <3>4. answers' \in Seq(Words)
        <4>1. "reply" \in Words
          BY DEF Words
        <4> QED  BY <2>1, <3>1, <4>1
      <3> QED  BY <1>0, <2>1, <3>3, <3>4 DEF CallsInv
    <2>3. CASE ~reply
      <3>1. answers' = answers
        BY <1>7, <2>3 DEF C!Reply
      <3>2. Ended(outcomes', answers', Len(plan'), <<>>)
        BY <1>c, <2>1, <3>1, SaidIsEnded
      <3>3. C!EveryCallAnswered'
        BY <1>0, <2>1, <2>3, <3>2, AnsweredIsPrimed DEF LastWord
      <3> QED  BY <1>0, <2>1, <3>1, <3>3 DEF CallsInv
    <2> QED  BY <2>2, <2>3
  <1>8. ASSUME phase = "running", phase' = (IF C!IsCommand THEN "done" ELSE "calling"),
               UNCHANGED <<plan, reply>>,
               \/ C!Ends("silent") /\ answers' = answers
               \/ \E e \in Outcome \ {"silent"} :
                    outcomes' = Append(outcomes, e) /\ answers' = Append(answers, Message(e))
        PROVE  CallsInv'
    <2>1. /\ SaidFor(outcomes, answers)
          /\ C!IsCommand => Len(outcomes) = 0 /\ reply = FALSE
          /\ ~C!IsCommand => ~C!StartsWithBang /\ Len(outcomes) < Len(plan)
      BY <1>8, NothingSaid DEF CallsInv
    <2>2. /\ outcomes' \in Seq(Outcome) /\ answers' \in Seq(Words)
          /\ SaidFor(outcomes', answers') /\ Len(outcomes') = Len(outcomes) + 1
      BY <1>8, <1>a, <1>b, <2>1
    <2>3. CASE C!IsCommand
      <3>1. Len(outcomes') = 1
        BY <2>1, <2>2, <2>3
      <3>2. Ended(outcomes', answers', 1, <<>>)
        BY <1>c, <2>2, <3>1, SaidIsEnded
      <3>3. C!EveryCallAnswered'
        BY <1>0, <1>8, <2>1, <2>3, <3>2, AnsweredIsPrimed DEF LastWord
      <3> QED  BY <1>0, <1>8, <2>2, <2>3, <3>3 DEF CallsInv
    <2>4. CASE ~C!IsCommand
      BY <1>0, <1>8, <1>d, <2>1, <2>2, <2>4 DEF CallsInv
    <2> QED  BY <2>3, <2>4
  <1>9. CASE C!HandlerReturns
    BY <1>8, <1>9 DEF C!Ends, C!Says, C!HandlerReturns, C!AfterHandler, Outcome, Message
  <1>10. CASE C!HandlerRaises
    BY <1>8, <1>10 DEF C!Ends, C!Says, C!HandlerRaises, C!AfterRaise, C!AfterHandler, Outcome, Message
  <1>11. CASE C!Superseded
    <2>1. phase' = "superseded" /\ UNCHANGED <<plan, reply, outcomes, answers>>
      BY <1>11 DEF C!Superseded
    <2> QED  BY <1>d, <2>1 DEF CallsInv
  <1> QED  BY <1>1, <1>2, <1>3, <1>4, <1>5, <1>6, <1>7, <1>9, <1>10, <1>11 DEF C!Next

CallsOK == about = "line" => CallsInv

LEMMA CallsHold == MCSafety => []CallsOK
  <1>1. MCInit => CallsOK
    BY CallsInit DEF MCInit, CallsOK
  <1>2. CallsOK /\ [MCNext]_sub => CallsOK'
    <2> SUFFICES ASSUME CallsOK, [MCNext]_sub, about' = "line"
                 PROVE  CallsInv'
      BY DEF CallsOK
    <2>1. about = "line" /\ CallsInv
      BY DEF CallsOK, MCNext, sub
    <2>2. CASE C!Next
      BY <2>1, <2>2, CallsStep
    <2>3. CASE UNCHANGED chat
      BY <2>1, <2>3 DEF chat, CallsInv, SaidFor, C!EveryCallAnswered, C!IsCommand, C!StartsWithBang
    <2> QED  BY <2>1, <2>2, <2>3 DEF MCNext, sub, chat
  <1> QED  BY <1>1, <1>2, PTL DEF MCSafety, sub

\* Once a line has been handled, every action it led to -- the one command, or
\* every call of the LLM's plan -- has had its word in chat, in the order in which
\* they ran and whether it returned, raised or did not exist, and the provider's
\* own reply, if any, came last.
THEOREM CallsAreAnswered == MCSafety => []EveryCallAnswered
  <1>1. CallsOK => EveryCallAnswered
    BY DEF CallsOK, CallsInv, EveryCallAnswered
  <1> QED  BY <1>1, CallsHold, PTL

-----------------------------------------------------------------------------
(* Induction over the subsets of a finite set, and folds over 1..n, which is *)
(* what the community modules make of a fold over a sequence.                *)
LEMMA SubsetInduction ==
    ASSUME NEW U, IsFiniteSet(U), NEW W \in SUBSET SUBSET U, {} \in W,
           \A V \in SUBSET U : V # {} /\ (\A X \in SUBSET V : X # V => X \in W) => V \in W
    PROVE  W = SUBSET U
  <1> SUFFICES ASSUME W # SUBSET U
               PROVE  FALSE
    OBVIOUS
  <1> DEFINE Rest == (SUBSET U) \ W
  <1>1. IsWellFoundedOn(StrictSubsetOrdering(U), SUBSET U)
    <2>1. IsWellFoundedOn(StrictSubsetOrdering(U), FiniteSubsetsOf(U))
      BY FS_StrictSubsetOrderingWellFounded
    <2>2. FiniteSubsetsOf(U) = SUBSET U
      BY FS_FiniteSubsetsOfFinite
    <2> QED  BY <2>1, <2>2, Zenon
  <1>2. Rest # {} /\ Rest \subseteq SUBSET U
    OBVIOUS
  <1>3. PICK V \in Rest : \A X \in Rest : <<X, V>> \notin StrictSubsetOrdering(U)
    <2> HIDE DEF Rest
    <2>1. \A R : IsWellFoundedOn(R, SUBSET U)
                    => \E x \in Rest : \A y \in Rest : ~ (<<y, x>> \in R)
      BY <1>2, WFMin
    <2> QED  BY <1>1, <2>1, Zenon
  <1>4. \A X \in SUBSET V : X # V => X \in W
    BY <1>3 DEF StrictSubsetOrdering
  <1> QED  BY <1>3, <1>4

\* Induction up to a natural number.
LEMMA UpToInduction ==
    ASSUME NEW n \in Nat, NEW W \in SUBSET (0..n), 0 \in W,
           \A k \in 1..n : k - 1 \in W => k \in W
    PROVE  W = 0..n
  <1> DEFINE U == {V \in SUBSET (1..n) : \A k \in 0..n : V = 1..k => k \in W}
  <1>1. IsFiniteSet(1..n)
    BY FS_Interval
  <1>2. {} \in U
    <2>1. \A k \in 0..n : {} = 1..k => k = 0
      OBVIOUS
    <2> QED  BY <2>1
  <1>3. ASSUME NEW V \in SUBSET (1..n), V # {}, \A X \in SUBSET V : X # V => X \in U
        PROVE  V \in U
    <2> SUFFICES ASSUME NEW k \in 0..n, V = 1..k
                 PROVE  k \in W
      OBVIOUS
    <2>1. k \in 1..n
      BY <1>3
    <2>2. 1..(k - 1) \in SUBSET V /\ 1..(k - 1) # V
      <3>1. k \in V /\ k \notin 1..(k - 1)
        BY <2>1
      <3>2. \A i \in 1..(k - 1) : i \in 1..k
        BY <2>1
      <3> QED  BY <3>1, <3>2
    <2>3. 1..(k - 1) \in U
      BY <1>3, <2>2
    <2>4. k - 1 \in 0..n
      BY <2>1
    <2> HIDE DEF U
    <2>5. k - 1 \in W
      BY <2>3, <2>4 DEF U
    <2> QED  BY <2>1, <2>5
  <1>4. U = SUBSET (1..n)
    <2> HIDE DEF U
    <2>1. U \subseteq SUBSET (1..n)
      BY DEF U
    <2> QED  BY <1>1, <1>2, <1>3, <2>1, SubsetInduction
  <1>5. \A k \in 0..n : 1..k \in SUBSET (1..n)
    OBVIOUS
  <1> QED  BY <1>4, <1>5

Top(s) == CHOOSE x \in s : \A y \in s : x >= y

LEMMA TopIs ==
    ASSUME NEW n \in Nat
    PROVE  /\ \A s \in SUBSET (1..n) : s # {} => Top(s) \in s
           /\ \A k \in 1..n : Top(1..k) = k
  <1>1. IsFiniteSet(1..n)
    BY FS_Interval
  <1> DEFINE W == {s \in SUBSET (1..n) : s # {} => \E x \in s : \A y \in s : x >= y}
  <1>2. {} \in W
    OBVIOUS
  <1>3. ASSUME NEW V \in SUBSET (1..n), V # {}, \A X \in SUBSET V : X # V => X \in W
        PROVE  V \in W
    <2>1. PICK v \in V : TRUE
      BY <1>3
    <2>2. V \ {v} \in W
      BY <1>3, <2>1
    <2>3. CASE V \ {v} = {}
      <3>1. \A y \in V : y = v
        BY <2>3
      <3>2. \A y \in V : v >= y
        BY <3>1
      <3> QED  BY <3>2
    <2>4. CASE V \ {v} # {}
      <3>1. PICK x \in V \ {v} : \A y \in V \ {v} : x >= y
        BY <2>2, <2>4
      <3>2. CASE x >= v
        BY <3>1, <3>2
      <3>3. CASE ~(x >= v)
        <4>1. \A y \in V : v >= y
          BY <3>1, <3>3
        <4> QED  BY <4>1
      <3> QED  BY <3>2, <3>3
    <2> QED  BY <2>3, <2>4
  <1>4. W = SUBSET (1..n)
    <2> HIDE DEF W
    <2>1. W \subseteq SUBSET (1..n)
      BY DEF W
    <2> QED  BY <1>1, <1>2, <1>3, <2>1, SubsetInduction
  <1>5. ASSUME NEW k \in 1..n
        PROVE  Top(1..k) = k
    <2>1. k \in 1..k /\ \A y \in 1..k : k >= y
      OBVIOUS
    <2>2. Top(1..k) \in 1..k /\ \A y \in 1..k : Top(1..k) >= y
      BY <2>1 DEF Top
    <2>3. Top(1..k) >= k
      BY <2>1, <2>2
    <2> QED  BY <2>2, <2>3
  <1>6. \A s \in SUBSET (1..n) : s # {} => Top(s) \in s
    BY <1>4 DEF Top
  <1> QED  BY <1>5, <1>6

\* A fold over 1..n, through the subsets of 1..n, by the step G over the values V.
Small(n, k) == {s \in SUBSET (1..n) : Cardinality(s) <= k}
FoldsUpTo(it, n, base, G, k) ==
    it = [s \in Small(n, k) |-> IF s = {} THEN base ELSE G[<<Top(s), it[s \ {Top(s)}]>>]]
Folds(it, n, base, G) ==
    it = [s \in SUBSET (1..n) |-> IF s = {} THEN base ELSE G[<<Top(s), it[s \ {Top(s)}]>>]]

LEMMA FoldExists ==
    ASSUME NEW n \in Nat, NEW V, NEW base \in V, NEW G \in [(1..n) \X V -> V]
    PROVE  \E it \in [SUBSET (1..n) -> V] : Folds(it, n, base, G)
  <1> DEFINE W == {k \in 0..n : \E it \in [Small(n, k) -> V] : FoldsUpTo(it, n, base, G, k)}
  <1>1. \A s \in SUBSET (1..n) :
            /\ IsFiniteSet(s) /\ Cardinality(s) \in Nat /\ Cardinality(s) <= n
            /\ Cardinality(s) = 0 <=> s = {}
            /\ \A x \in s : Cardinality(s \ {x}) = Cardinality(s) - 1
    <2>1. IsFiniteSet(1..n) /\ Cardinality(1..n) = n
      BY FS_Interval
    <2>2. \A s \in SUBSET (1..n) : IsFiniteSet(s) /\ Cardinality(s) <= n
      <3> SUFFICES ASSUME NEW s \in SUBSET (1..n)
                   PROVE  IsFiniteSet(s) /\ Cardinality(s) <= n
        OBVIOUS
      <3>1. IsFiniteSet(s) /\ Cardinality(s) <= Cardinality(1..n)
        BY <2>1, FS_Subset
      <3> QED  BY <2>1, <3>1
    <2> QED  BY <2>2, FS_CardinalityType, FS_EmptySet, FS_RemoveElement
  <1>2. 0 \in W
    <2>1. Small(n, 0) = {{}}
      BY <1>1 DEF Small
    <2> DEFINE f == [s \in {{}} |-> base]
    <2>2. f \in [Small(n, 0) -> V] /\ FoldsUpTo(f, n, base, G, 0)
      BY <2>1 DEF FoldsUpTo
    <2> HIDE DEF f
    <2> QED  BY <2>2
  <1>3. ASSUME NEW k \in 1..n, k - 1 \in W
        PROVE  k \in W
    <2>1. PICK g \in [Small(n, k - 1) -> V] : FoldsUpTo(g, n, base, G, k - 1)
      BY <1>3
    <2> DEFINE f == [s \in Small(n, k) |->
                        IF s \in Small(n, k - 1) THEN g[s] ELSE G[<<Top(s), g[s \ {Top(s)}]>>]]
    <2>2. \A s \in Small(n, k) : s # {} => /\ Top(s) \in s /\ Top(s) \in 1..n
                                           /\ s \ {Top(s)} \in Small(n, k - 1)
      <3> SUFFICES ASSUME NEW s \in Small(n, k), s # {}
                   PROVE  /\ Top(s) \in s /\ Top(s) \in 1..n
                          /\ s \ {Top(s)} \in Small(n, k - 1)
        OBVIOUS
      <3>1. s \in SUBSET (1..n) /\ Cardinality(s) <= k
        BY DEF Small
      <3>2. Top(s) \in s
        BY <3>1, TopIs
      <3>3. Cardinality(s \ {Top(s)}) = Cardinality(s) - 1 /\ Cardinality(s) \in Nat
        BY <1>1, <3>1, <3>2
      <3>4. s \ {Top(s)} \in SUBSET (1..n) /\ Cardinality(s \ {Top(s)}) <= k - 1
        <4>1. s \ {Top(s)} \in SUBSET (1..n)
          BY <3>1
        <4>2. \A i, j \in Nat : j = i - 1 /\ i <= k => j <= k - 1
          OBVIOUS
        <4>3. Cardinality(s \ {Top(s)}) \in Nat
          BY <1>1, <4>1
        <4>4. Cardinality(s \ {Top(s)}) <= k - 1
          BY <3>1, <3>3, <4>2, <4>3
        <4> QED  BY <4>1, <4>4
      <3>5. Top(s) \in 1..n
        BY <3>1, <3>2
      <3> QED  BY <3>2, <3>4, <3>5 DEF Small
    <2>3. Small(n, k - 1) \subseteq Small(n, k)
      BY <1>1 DEF Small
    <2>4. ASSUME NEW s \in Small(n, k)
          PROVE  /\ f[s] = IF s = {} THEN base ELSE G[<<Top(s), f[s \ {Top(s)}]>>]
                 /\ f[s] \in V
      <3>1. s # {} => f[s \ {Top(s)}] = g[s \ {Top(s)}] /\ f[s \ {Top(s)}] \in V
        BY <2>2, <2>3
      <3>2. CASE s \in Small(n, k - 1)
        <4>1. f[s] = g[s] /\ g[s] \in V
          BY <3>2
        <4>2. g[s] = IF s = {} THEN base ELSE G[<<Top(s), g[s \ {Top(s)}]>>]
          BY <2>1, <3>2 DEF FoldsUpTo
        <4> QED  BY <3>1, <4>1, <4>2
      <3>3. CASE s \notin Small(n, k - 1)
        <4>1. s # {}
          BY <1>1, <1>3, <3>3 DEF Small
        <4>2. f[s] = G[<<Top(s), g[s \ {Top(s)}]>>]
          BY <3>3
        <4>3. f[s] \in V
          BY <2>2, <3>1, <4>1, <4>2
        <4> QED  BY <3>1, <4>1, <4>2, <4>3
      <3> QED  BY <3>2, <3>3
    <2>5. f \in [Small(n, k) -> V] /\ FoldsUpTo(f, n, base, G, k)
      BY <2>4 DEF FoldsUpTo
    <2> HIDE DEF f
    <2> QED  BY <2>5
  <1>4. W = 0..n
    <2> HIDE DEF W
    <2>1. W \in SUBSET (0..n)
      BY DEF W
    <2> QED  BY <1>2, <1>3, <2>1, UpToInduction
  <1>5. n \in 0..n
    OBVIOUS
  <1>6. PICK it \in [Small(n, n) -> V] : FoldsUpTo(it, n, base, G, n)
    BY <1>4, <1>5
  <1>7. Small(n, n) = SUBSET (1..n)
    BY <1>1 DEF Small
  <1> QED  BY <1>6, <1>7 DEF FoldsUpTo, Folds

\* From one prefix of 1..n to the next.
LEMMA PrefixStep ==
    ASSUME NEW n \in Nat, NEW k \in 1..n
    PROVE  /\ 1..k \in SUBSET (1..n) /\ 1..k # {} /\ Top(1..k) = k
           /\ (1..k) \ {k} = 1..(k - 1)
  <1>1. \A i \in 1..k : i # k => i \in 1..(k - 1)
    OBVIOUS
  <1>2. \A i \in 1..(k - 1) : i \in 1..k /\ i # k
    OBVIOUS
  <1>3. k \in 1..k
    OBVIOUS
  <1>4. \A i \in 1..k : i \in 1..n
    OBVIOUS
  <1> QED  BY <1>1, <1>2, <1>3, <1>4, TopIs

-----------------------------------------------------------------------------
(* The runs of a schematic.                                                *)

Run == [x1 : Nat, x2 : Nat, y : Nat, z : Nat, block : Placeable]
Grids == [0..(SizeX * SizeY * SizeZ - 1) -> S!Palette]

LEMMA SizesAre == SizeX \in Nat \ {0} /\ SizeY \in Nat \ {0} /\ SizeZ \in Nat \ {0}
  BY PartsAssumption DEF S!SizeAssumption

\* Every cell has its entry, and what is neither air nor a marker gets placed.
LEMMA EntriesAre ==
    ASSUME grid \in Grids, NEW c \in S!Cell
    PROVE  S!Entry(c) \in S!Palette /\ (c \in S!Blocks <=> S!Entry(c) \in Placeable)
  <1> DEFINE xz == SizeX * SizeZ
             row == c.z * SizeX + c.x
             cell == c.y * xz + row
  <1>1. /\ SizeX \in Nat \ {0} /\ SizeY \in Nat \ {0} /\ SizeZ \in Nat \ {0}
        /\ c.x \in 0..(SizeX - 1) /\ c.y \in 0..(SizeY - 1) /\ c.z \in 0..(SizeZ - 1)
    BY SizesAre DEF S!Cell
  <1>2. row \in 0..(xz - 1) /\ xz \in Nat
    <2>1. c.z * SizeX <= (SizeZ - 1) * SizeX /\ c.z * SizeX \in Nat
      BY <1>1
    <2>2. (SizeZ - 1) * SizeX = xz - SizeX
      BY <1>1
    <2>3. xz \in Nat
      BY <1>1
    <2> QED  BY <1>1, <2>1, <2>2, <2>3
  <1>3. cell \in 0..(SizeX * SizeY * SizeZ - 1)
    <2> HIDE DEF xz, row
    <2>1. c.y * xz <= (SizeY - 1) * xz /\ c.y * xz \in Nat
      BY <1>1, <1>2
    <2>2. (SizeY - 1) * xz = SizeY * xz - xz
      BY <1>1, <1>2
    <2>3. SizeY * xz \in Nat
      BY <1>1, <1>2
    <2>4. SizeY * xz = SizeX * SizeY * SizeZ
      BY <1>1 DEF xz
    <2>5. cell \in 0..(SizeY * xz - 1)
      BY <1>2, <2>1, <2>2, <2>3
    <2> QED  BY <2>4, <2>5
  <1>4. S!Entry(c) = grid[cell]
    <2>1. c.y * SizeX * SizeZ = c.y * xz
      BY <1>1
    <2>2. c.y * SizeX * SizeZ + c.z * SizeX + c.x = cell
      BY <1>1, <1>2, <2>1
    <2> QED  BY <2>2 DEF S!Entry
  <1>5. S!Entry(c) \in S!Palette
    <2> HIDE DEF cell
    <2> QED  BY <1>3, <1>4 DEF Grids
  <1> QED  BY <1>5, PartsAssumption DEF S!Blocks, S!Palette

LEMMA AddCellTypes ==
    ASSUME grid \in Grids, NEW found \in Seq(Run), NEW c \in S!Cell
    PROVE  S!AddCell(found, c) \in Seq(Run)
  <1>1. CASE c \notin S!Blocks
    BY <1>1 DEF S!AddCell
  <1>2. CASE c \in S!Blocks /\ found # <<>> /\ S!Extends(S!Last(found), c)
    <2>1. Len(found) \in DOMAIN found /\ found[Len(found)] \in Run /\ c.x \in Nat
      BY <1>2, SizesAre DEF S!Cell
    <2>2. [found[Len(found)] EXCEPT !.x2 = c.x] \in Run
      BY <2>1 DEF Run
    <2>3. [found EXCEPT ![Len(found)].x2 = c.x] \in Seq(Run)
      BY <2>1, <2>2, ExceptSeq
    <2> QED  BY <1>2, <2>3 DEF S!AddCell
  <1>3. CASE c \in S!Blocks /\ ~(found # <<>> /\ S!Extends(S!Last(found), c))
    <2>1. S!Single(c) \in Run
      BY <1>3, SizesAre, EntriesAre DEF S!Single, Run, S!Cell
    <2> QED  BY <1>3, <2>1 DEF S!AddCell
  <1> QED  BY <1>1, <1>2, <1>3

\* The runs of a row are built from left to right.
LEMMA RowIsFolded ==
    ASSUME grid \in Grids, NEW y \in 0..(SizeY - 1), NEW z \in 0..(SizeZ - 1)
    PROVE  \E f : /\ f[0] = <<>> /\ f[SizeX] = S!RunsOfRow(y, z)
                  /\ \A k \in 1..SizeX :
                        f[k] = S!AddCell(f[k - 1], [x |-> k - 1, y |-> y, z |-> z])
  <1> DEFINE V == Seq(Run)
             cell(k) == [x |-> k - 1, y |-> y, z |-> z]
             G == [p \in (1..SizeX) \X V |-> S!AddCell(p[2], cell(p[1]))]
             jt == CHOOSE jt : jt = [s \in SUBSET (1..SizeX) |->
                        IF s = {} THEN <<>> ELSE S!AddCell(jt[s \ {Top(s)}], S!Row(y, z)[Top(s)])]
  <1>1. SizeX \in Nat
    BY SizesAre
  <1>2. \A k \in 1..SizeX : S!Row(y, z)[k] = cell(k) /\ cell(k) \in S!Cell
    BY <1>1 DEF S!Row, S!Cell
  <1>3. DOMAIN S!Row(y, z) = 1..SizeX
    BY DEF S!Row
  <1>4. S!RunsOfRow(y, z) = jt[1..SizeX]
    BY <1>3 DEF S!RunsOfRow, S!FoldLeft, S!MapThenFoldSet, S!Max, Top
  <1>5. G \in [(1..SizeX) \X V -> V]
    BY <1>2, AddCellTypes
  <1>6. PICK it \in [SUBSET (1..SizeX) -> V] : Folds(it, SizeX, <<>>, G)
    <2>1. <<>> \in V
      OBVIOUS
    <2> HIDE DEF G, V
    <2> QED  BY <1>1, <1>5, <2>1, FoldExists
  <1>7. it = [s \in SUBSET (1..SizeX) |->
                IF s = {} THEN <<>> ELSE S!AddCell(it[s \ {Top(s)}], S!Row(y, z)[Top(s)])]
    <2>1. ASSUME NEW s \in SUBSET (1..SizeX), s # {}
          PROVE  G[<<Top(s), it[s \ {Top(s)}]>>]
                    = S!AddCell(it[s \ {Top(s)}], S!Row(y, z)[Top(s)])
      <3>1. Top(s) \in 1..SizeX /\ it[s \ {Top(s)}] \in V
        BY <1>1, <1>6, <2>1, TopIs
      <3> HIDE DEF V
      <3> QED  BY <1>2, <3>1
    <2> HIDE DEF G
    <2> QED  BY <1>6, <2>1 DEF Folds
  <1>8. jt = [s \in SUBSET (1..SizeX) |->
                IF s = {} THEN <<>> ELSE S!AddCell(jt[s \ {Top(s)}], S!Row(y, z)[Top(s)])]
    BY <1>7
  <1> HIDE DEF jt
  <1> DEFINE f == [k \in 0..SizeX |-> jt[1..k]]
  <1>9. f[0] = <<>>
    <2>1. 1..0 = {}
      OBVIOUS
    <2> QED  BY <1>1, <1>8, <2>1
  <1>10. ASSUME NEW k \in 1..SizeX
         PROVE  f[k] = S!AddCell(f[k - 1], cell(k))
    <2>1. /\ 1..k \in SUBSET (1..SizeX) /\ 1..k # {} /\ Top(1..k) = k
          /\ (1..k) \ {k} = 1..(k - 1)
      BY <1>1, PrefixStep
    <2>2. f[k] = jt[1..k] /\ f[k - 1] = jt[1..(k - 1)]
      BY <1>1
    <2>3. jt[1..k] = S!AddCell(jt[(1..k) \ {k}], S!Row(y, z)[k])
      BY <1>8, <2>1
    <2> QED  BY <1>2, <2>1, <2>2, <2>3
  <1>11. f[SizeX] = S!RunsOfRow(y, z)
    BY <1>1, <1>4
  <1> HIDE DEF f
  <1> QED  BY <1>9, <1>10, <1>11

\* A run that covers nothing but blocks of its own state, and the cells that the
\* runs of a sequence cover.
Drawn(r) == r.x1 <= r.x2 /\ \A c \in S!RunBox(r) : S!Entry(c) = r.block
DrawnRuns(s) == s \in Seq(Run) /\ \A i \in DOMAIN s : Drawn(s[i])
Covered(s) == {c \in S!Cell : \E i \in DOMAIN s : c \in S!RunBox(s[i])}

LEMMA RowIsDrawn ==
    ASSUME grid \in Grids, NEW y \in 0..(SizeY - 1), NEW z \in 0..(SizeZ - 1)
    PROVE  /\ DrawnRuns(S!RunsOfRow(y, z))
           /\ \A c \in S!Blocks : c.y = y /\ c.z = z => c \in Covered(S!RunsOfRow(y, z))
  <1>1. PICK f : /\ f[0] = <<>> /\ f[SizeX] = S!RunsOfRow(y, z)
                 /\ \A k \in 1..SizeX :
                        f[k] = S!AddCell(f[k - 1], [x |-> k - 1, y |-> y, z |-> z])
    BY RowIsFolded
  <1> DEFINE OfRow(s) == \A i \in DOMAIN s : s[i].y = y /\ s[i].z = z
             Before(k) == {c \in S!Blocks : c.y = y /\ c.z = z /\ c.x < k}
             W == {k \in 0..SizeX : DrawnRuns(f[k]) /\ OfRow(f[k]) /\ Before(k) \subseteq Covered(f[k])}
  <1>2. SizeX \in Nat
    BY SizesAre
  <1>3. 0 \in W
    <2>1. Before(0) = {}
      BY DEF S!Blocks, S!Cell
    <2>2. f[0] \in Seq(Run) /\ DOMAIN f[0] = {}
      BY <1>1
    <2> HIDE DEF Before
    <2> QED  BY <1>2, <2>1, <2>2 DEF DrawnRuns
  <1>4. ASSUME NEW k \in 1..SizeX, k - 1 \in W
        PROVE  k \in W
    <2> DEFINE s == f[k - 1]
               c == [x |-> k - 1, y |-> y, z |-> z]
               n == Len(s)
    <2>1. /\ f[k] = S!AddCell(s, c) /\ c \in S!Cell /\ c.x = k - 1 /\ c.y = y /\ c.z = z
      BY <1>1, <1>2 DEF S!Cell
    <2>2. s \in Seq(Run) /\ (\A i \in DOMAIN s : Drawn(s[i])) /\ OfRow(s)
          /\ Before(k - 1) \subseteq Covered(s)
      BY <1>4 DEF DrawnRuns
    <2>3. \A d \in Before(k) : d \in Before(k - 1) \/ d = c
      <3> SUFFICES ASSUME NEW d \in Before(k), d.x # k - 1
                   PROVE  d \in Before(k - 1)
        BY <2>1 DEF S!Blocks, S!Cell
      <3>1. d.x \in Nat /\ d.x < k
        BY <1>2 DEF S!Blocks, S!Cell
      <3> QED  BY <3>1
    <2> HIDE DEF s, c, Before
    <2>4. CASE c \notin S!Blocks
      <3>1. f[k] = s
        BY <2>1, <2>4 DEF S!AddCell
      <3>2. Before(k) \subseteq Before(k - 1)
        BY <2>3, <2>4 DEF Before
      <3> QED  BY <2>2, <3>1, <3>2 DEF DrawnRuns
    <2>5. CASE c \in S!Blocks /\ s # <<>> /\ S!Extends(S!Last(s), c)
      <3>1. n \in DOMAIN s /\ n \in Nat /\ DOMAIN s = 1..n /\ s[n] \in Run
        BY <2>2, <2>5
      <3> DEFINE wider == [s[n] EXCEPT !.x2 = c.x]
      <3>2. f[k] = [s EXCEPT ![n] = wider]
        BY <2>1, <2>5 DEF S!AddCell
      <3>3. /\ wider \in Run /\ wider.y = y /\ wider.z = z /\ wider.block = s[n].block
            /\ wider.x1 = s[n].x1 /\ wider.x2 = k - 1
        <4>1. c.x \in Nat
          BY <2>1, SizesAre DEF S!Cell
        <4>2. /\ wider \in Run /\ wider.y = s[n].y /\ wider.z = s[n].z
              /\ wider.block = s[n].block /\ wider.x1 = s[n].x1 /\ wider.x2 = c.x
          BY <3>1, <4>1 DEF Run
        <4>3. s[n].y = y /\ s[n].z = z
          BY <2>2, <3>1
        <4> QED  BY <2>1, <4>2, <4>3
      <3>4. s[n].block = S!Entry(c) /\ k - 1 = s[n].x2 + 1 /\ s[n].x1 <= s[n].x2
            /\ s[n].x1 \in Nat /\ s[n].x2 \in Nat /\ s[n].y = y /\ s[n].z = z
        BY <2>1, <2>2, <2>5, <3>1 DEF S!Extends, S!Last, Drawn, Run
      <3> HIDE DEF wider, n
      <3>5. S!RunBox(wider) = S!RunBox(s[n]) \cup {c}
        <4>1. \A d \in S!Cell : d.x \in Nat /\ (d.y = y /\ d.z = z /\ d.x = k - 1 => d = c)
          BY <2>1, <1>2 DEF S!Cell
        <4>2. \A i \in Nat : i \in s[n].x1..(k - 1) <=> i \in s[n].x1..s[n].x2 \/ i = k - 1
          BY <3>4
        <4> QED  BY <2>1, <3>3, <3>4, <4>1, <4>2 DEF S!RunBox
      <3>6. Drawn(wider)
        BY <2>2, <3>1, <3>3, <3>4, <3>5 DEF Drawn
      <3>7. /\ f[k] \in Seq(Run) /\ DOMAIN f[k] = DOMAIN s /\ f[k][n] = wider
            /\ \A i \in DOMAIN s : i # n => f[k][i] = s[i]
        BY <2>2, <3>1, <3>2, <3>3, ExceptSeq
      <3>8. DrawnRuns(f[k]) /\ OfRow(f[k])
        BY <2>2, <3>3, <3>6, <3>7 DEF DrawnRuns
      <3>9. Covered(s) \subseteq Covered(f[k])
        BY <3>5, <3>7 DEF Covered
      <3>10. c \in Covered(f[k])
        BY <2>1, <3>1, <3>5, <3>7 DEF Covered
      <3> QED  BY <2>2, <2>3, <3>8, <3>9, <3>10
    <2>6. CASE c \in S!Blocks /\ ~(s # <<>> /\ S!Extends(S!Last(s), c))
      <3> DEFINE single == S!Single(c)
      <3>1. f[k] = Append(s, single)
        BY <2>1, <2>6 DEF S!AddCell
      <3>2. /\ single \in Run /\ single.y = y /\ single.z = z
            /\ S!RunBox(single) = {c} /\ Drawn(single)
        <4>1. single \in Run
          BY <2>6, SizesAre, EntriesAre DEF S!Single, Run, S!Cell, S!Blocks
        <4>2. single.x1 = k - 1 /\ single.x2 = k - 1 /\ single.y = y /\ single.z = z
              /\ single.block = S!Entry(c)
          BY <2>1 DEF S!Single
        <4>3. S!RunBox(single) = {c}
          <5>1. \A d \in S!Cell : d.x \in Nat /\ (d.y = y /\ d.z = z /\ d.x = k - 1 => d = c)
            BY <2>1, <1>2 DEF S!Cell
          <5>2. \A i \in Nat : i \in (k - 1)..(k - 1) <=> i = k - 1
            OBVIOUS
          <5> QED  BY <2>1, <4>2, <5>1, <5>2 DEF S!RunBox
        <4> QED  BY <4>1, <4>2, <4>3 DEF Drawn
      <3> HIDE DEF single
      <3>3. /\ f[k] \in Seq(Run) /\ DOMAIN f[k] = 1..(n + 1) /\ DOMAIN s = 1..n /\ n \in Nat
            /\ f[k][n + 1] = single /\ \A i \in 1..n : f[k][i] = s[i]
        BY <2>2, <3>1, <3>2
      <3> HIDE DEF n
      <3>4. \A i \in 1..(n + 1) : i \in 1..n \/ i = n + 1
        BY <3>3
      <3>5. DrawnRuns(f[k]) /\ OfRow(f[k])
        BY <2>2, <3>2, <3>3, <3>4 DEF DrawnRuns
      <3>6. \A i \in 1..n : i \in 1..(n + 1)
        BY <3>3
      <3>7. Covered(s) \subseteq Covered(f[k])
        BY <3>3, <3>6 DEF Covered
      <3>8. n + 1 \in 1..(n + 1)
        BY <3>3
      <3>9. c \in Covered(f[k])
        BY <2>1, <3>2, <3>3, <3>8 DEF Covered
      <3> QED  BY <2>2, <2>3, <3>5, <3>7, <3>9
    <2> QED  BY <2>4, <2>5, <2>6
  <1>5. W = 0..SizeX
    <2> HIDE DEF W
    <2>1. W \in SUBSET (0..SizeX)
      BY DEF W
    <2> QED  BY <1>2, <1>3, <1>4, <2>1, UpToInduction
  <1>6. SizeX \in W
    BY <1>2, <1>5
  <1>7. \A c \in S!Blocks : c.x < SizeX
    BY SizesAre DEF S!Blocks, S!Cell
  <1> QED  BY <1>1, <1>6, <1>7

\* Sequences of runs put one after the other.
Concats(it, n, R) ==
    it = [s \in SUBSET (1..n) |-> IF s = {} THEN <<>> ELSE it[s \ {Top(s)}] \o R[Top(s)]]

LEMMA ConcatExists ==
    ASSUME NEW n \in Nat, NEW R \in [1..n -> Seq(Run)]
    PROVE  \E it : Concats(it, n, R)
  <1> DEFINE V == Seq(Run)
             G == [p \in (1..n) \X V |-> p[2] \o R[p[1]]]
  <1>1. G \in [(1..n) \X V -> V]
    OBVIOUS
  <1>2. PICK it \in [SUBSET (1..n) -> V] : Folds(it, n, <<>>, G)
    <2>1. <<>> \in V
      OBVIOUS
    <2> HIDE DEF G, V
    <2> QED  BY <1>1, <2>1, FoldExists
  <1>3. ASSUME NEW s \in SUBSET (1..n), s # {}
        PROVE  G[<<Top(s), it[s \ {Top(s)}]>>] = it[s \ {Top(s)}] \o R[Top(s)]
    <2>1. Top(s) \in 1..n /\ it[s \ {Top(s)}] \in V
      BY <1>2, <1>3, TopIs
    <2> HIDE DEF V
    <2> QED  BY <2>1
  <1> HIDE DEF G, V
  <1>4. it = [s \in SUBSET (1..n) |->
                IF s = {} THEN <<>> ELSE G[<<Top(s), it[s \ {Top(s)}]>>]]
    BY <1>2 DEF Folds
  <1> DEFINE H == [s \in SUBSET (1..n) |->
                     IF s = {} THEN <<>> ELSE it[s \ {Top(s)}] \o R[Top(s)]]
  <1>5. \A s \in SUBSET (1..n) : it[s] = H[s]
    <2>1. ASSUME NEW s \in SUBSET (1..n)
          PROVE  it[s] = IF s = {} THEN <<>> ELSE it[s \ {Top(s)}] \o R[Top(s)]
      <3>1. it[s] = IF s = {} THEN <<>> ELSE G[<<Top(s), it[s \ {Top(s)}]>>]
        BY <1>4
      <3> QED  BY <1>3, <3>1
    <2> QED  BY <2>1
  <1>6. it = H
    BY <1>2, <1>5
  <1>7. Concats(it, n, R)
    BY <1>6 DEF Concats
  <1> QED  BY <1>7

LEMMA ConcatIsDrawn ==
    ASSUME NEW n \in Nat, NEW R, \A k \in 1..n : DrawnRuns(R[k]), NEW it, Concats(it, n, R)
    PROVE  DrawnRuns(it[1..n]) /\ \A k \in 1..n : Covered(R[k]) \subseteq Covered(it[1..n])
  <1> DEFINE W == {k \in 0..n : /\ DrawnRuns(it[1..k])
                                /\ \A i \in 1..k : Covered(R[i]) \subseteq Covered(it[1..k])}
  <1>1. 0 \in W
    <2>1. 1..0 = {}
      OBVIOUS
    <2>2. it[1..0] = <<>>
      BY <2>1 DEF Concats
    <2>3. DrawnRuns(it[1..0])
      BY <2>2 DEF DrawnRuns
    <2> QED  BY <2>1, <2>3
  <1>2. ASSUME NEW k \in 1..n, k - 1 \in W
        PROVE  k \in W
    <2> DEFINE a == it[1..(k - 1)]
               b == R[k]
    <2>1. it[1..k] = a \o b
      <3>1. 1..k \in SUBSET (1..n) /\ 1..k # {} /\ Top(1..k) = k /\ (1..k) \ {k} = 1..(k - 1)
        BY PrefixStep
      <3>2. it[1..k] = it[(1..k) \ {Top(1..k)}] \o R[Top(1..k)]
        BY <3>1 DEF Concats
      <3> QED  BY <3>1, <3>2
    <2>2. /\ DrawnRuns(a) /\ DrawnRuns(b)
          /\ \A i \in 1..(k - 1) : Covered(R[i]) \subseteq Covered(a)
      BY <1>2
    <2> HIDE DEF a, b
    <2>3. /\ a \o b \in Seq(Run) /\ Len(a) \in Nat /\ Len(b) \in Nat
          /\ DOMAIN a = 1..Len(a) /\ DOMAIN b = 1..Len(b)
          /\ DOMAIN (a \o b) = 1..(Len(a) + Len(b))
          /\ \A i \in 1..(Len(a) + Len(b)) :
                (a \o b)[i] = IF i <= Len(a) THEN a[i] ELSE b[i - Len(a)]
      BY <2>2, ConcatProperties DEF DrawnRuns
    <2> DEFINE ab == a \o b
    <2> HIDE DEF ab
    <2>4. \A i \in 1..Len(a) : i \in DOMAIN ab /\ ab[i] = a[i]
      BY <2>3 DEF ab
    <2>5. \A i \in 1..Len(b) : i + Len(a) \in DOMAIN ab /\ ab[i + Len(a)] = b[i]
      BY <2>3 DEF ab
    <2>6. \A i \in DOMAIN ab :
            (i \in DOMAIN a /\ ab[i] = a[i])
                \/ (i - Len(a) \in DOMAIN b /\ ab[i] = b[i - Len(a)])
      <3> SUFFICES ASSUME NEW i \in 1..(Len(a) + Len(b)), ~(i <= Len(a))
                   PROVE  i - Len(a) \in 1..Len(b)
        BY <2>3 DEF ab
      <3> QED  BY <2>3
    <2>7. DrawnRuns(ab)
      BY <2>2, <2>3, <2>6 DEF DrawnRuns, ab
    <2>8. Covered(a) \subseteq Covered(ab)
      BY <2>3, <2>4 DEF Covered
    <2>9. Covered(b) \subseteq Covered(ab)
      BY <2>3, <2>5 DEF Covered
    <2>10. \A i \in 1..k : i \in 1..(k - 1) \/ i = k
      OBVIOUS
    <2>11. \A i \in 1..k : Covered(R[i]) \subseteq Covered(ab)
      BY <2>2, <2>8, <2>9, <2>10 DEF b
    <2>12. it[1..k] = ab
      BY <2>1 DEF ab
    <2> HIDE DEF ab
    <2>13. DrawnRuns(it[1..k])
      BY <2>7, <2>12
    <2>14. \A i \in 1..k : Covered(R[i]) \subseteq Covered(it[1..k])
      BY <2>11, <2>12
    <2>15. k \in 0..n
      OBVIOUS
    <2> QED  BY <2>13, <2>14, <2>15
  <1>3. W = 0..n
    <2> HIDE DEF W
    <2>1. W \in SUBSET (0..n)
      BY DEF W
    <2> QED  BY <1>1, <1>2, <2>1, UpToInduction
  <1>4. n \in W
    BY <1>3
  <1> QED  BY <1>4

\* _fill_runs covers every block and nothing else.
LEMMA FillRunsAreDrawn ==
    ASSUME grid \in Grids
    PROVE  DrawnRuns(S!FillRuns) /\ S!Blocks \subseteq Covered(S!FillRuns)
  <1> DEFINE zs == [i \in 1..SizeZ |-> i - 1]
             ys == [i \in 1..SizeY |-> i - 1]
             layer(y) == CHOOSE it : it = [s \in SUBSET DOMAIN zs |->
                            IF s = {} THEN <<>>
                            ELSE it[s \ {Top(s)}] \o S!RunsOfRow(y, zs[Top(s)])]
             all == CHOOSE it : it = [s \in SUBSET DOMAIN ys |->
                            IF s = {} THEN <<>>
                            ELSE it[s \ {Top(s)}] \o layer(ys[Top(s)])[DOMAIN zs]]
  <1>1. S!FillRuns = all[DOMAIN ys]
    BY DEF S!FillRuns, S!FoldLeft, S!MapThenFoldSet, S!Max, Top
  <1>2. SizeY \in Nat /\ SizeZ \in Nat
    BY SizesAre
  <1>a. DOMAIN zs = 1..SizeZ /\ DOMAIN ys = 1..SizeY
    OBVIOUS
  <1>b. \A k \in 1..SizeZ : zs[k] = k - 1
    OBVIOUS
  <1>c. \A k \in 1..SizeY : ys[k] = k - 1
    OBVIOUS
  <1> HIDE DEF zs, ys
  <1>3. ASSUME NEW y \in 0..(SizeY - 1)
        PROVE  /\ DrawnRuns(layer(y)[1..SizeZ])
               /\ \A c \in S!Blocks : c.y = y => c \in Covered(layer(y)[1..SizeZ])
    <2> DEFINE R == [k \in 1..SizeZ |-> S!RunsOfRow(y, k - 1)]
    <2>1. ASSUME NEW k \in 1..SizeZ
          PROVE  /\ R[k] = S!RunsOfRow(y, zs[k]) /\ DrawnRuns(R[k])
                 /\ \A c \in S!Blocks : c.y = y /\ c.z = k - 1 => c \in Covered(R[k])
      <3>1. k - 1 \in 0..(SizeZ - 1) /\ R[k] = S!RunsOfRow(y, k - 1)
        BY <1>2
      <3> HIDE DEF R
      <3> QED  BY <1>b, <3>1, RowIsDrawn
    <2>2. R \in [1..SizeZ -> Seq(Run)]
      BY <2>1 DEF DrawnRuns
    <2> HIDE DEF R
    <2>3. PICK it : Concats(it, SizeZ, R)
      BY <1>2, <2>2, ConcatExists
    <2>4. \A jt : [s \in SUBSET (1..SizeZ) |-> IF s = {} THEN <<>> ELSE jt[s \ {Top(s)}] \o R[Top(s)]]
                = [s \in SUBSET (1..SizeZ) |-> IF s = {} THEN <<>>
                        ELSE jt[s \ {Top(s)}] \o S!RunsOfRow(y, zs[Top(s)])]
      <3>1. \A s \in SUBSET (1..SizeZ) : s # {} => R[Top(s)] = S!RunsOfRow(y, zs[Top(s)])
        BY <1>2, <2>1, TopIs
      <3> QED  BY <3>1
    <2>a. it = [s \in SUBSET DOMAIN zs |-> IF s = {} THEN <<>>
                        ELSE it[s \ {Top(s)}] \o S!RunsOfRow(y, zs[Top(s)])]
      BY <1>a, <2>3, <2>4 DEF Concats
    <2>b. layer(y) = [s \in SUBSET DOMAIN zs |-> IF s = {} THEN <<>>
                        ELSE layer(y)[s \ {Top(s)}] \o S!RunsOfRow(y, zs[Top(s)])]
      BY <2>a
    <2> HIDE DEF layer
    <2>5. Concats(layer(y), SizeZ, R)
      BY <1>a, <2>b, <2>4 DEF Concats
    <2>6. /\ DrawnRuns(layer(y)[1..SizeZ])
          /\ \A k \in 1..SizeZ : Covered(R[k]) \subseteq Covered(layer(y)[1..SizeZ])
      BY <1>2, <2>1, <2>5, ConcatIsDrawn
    <2>7. \A c \in S!Blocks : c.z + 1 \in 1..SizeZ /\ c.z = (c.z + 1) - 1
      BY SizesAre DEF S!Blocks, S!Cell
    <2> QED  BY <2>1, <2>6, <2>7
  <1> HIDE DEF layer
  <1> DEFINE R == [k \in 1..SizeY |-> layer(k - 1)[1..SizeZ]]
  <1>4. ASSUME NEW k \in 1..SizeY
        PROVE  /\ R[k] = layer(ys[k])[1..SizeZ] /\ DrawnRuns(R[k])
               /\ \A c \in S!Blocks : c.y = k - 1 => c \in Covered(R[k])
    <2>1. k - 1 \in 0..(SizeY - 1) /\ R[k] = layer(k - 1)[1..SizeZ]
      BY <1>2
    <2> HIDE DEF R
    <2> QED  BY <1>3, <1>c, <2>1
  <1>5. R \in [1..SizeY -> Seq(Run)]
    BY <1>4 DEF DrawnRuns
  <1> HIDE DEF R
  <1>6. PICK it : Concats(it, SizeY, R)
    BY <1>2, <1>5, ConcatExists
  <1>7. \A jt : [s \in SUBSET (1..SizeY) |-> IF s = {} THEN <<>> ELSE jt[s \ {Top(s)}] \o R[Top(s)]]
              = [s \in SUBSET (1..SizeY) |-> IF s = {} THEN <<>>
                    ELSE jt[s \ {Top(s)}] \o layer(ys[Top(s)])[DOMAIN zs]]
    <2>1. \A s \in SUBSET (1..SizeY) : s # {} => Top(s) \in 1..SizeY
      BY <1>2, TopIs
    <2>2. \A k \in 1..SizeY : R[k] = layer(ys[k])[DOMAIN zs]
      BY <1>4, <1>a
    <2>3. \A s \in SUBSET (1..SizeY) : s # {} => R[Top(s)] = layer(ys[Top(s)])[DOMAIN zs]
      BY <2>1, <2>2
    <2> QED  BY <2>3
  <1>8. Concats(all, SizeY, R)
    <2>1. it = [s \in SUBSET DOMAIN ys |-> IF s = {} THEN <<>>
                    ELSE it[s \ {Top(s)}] \o layer(ys[Top(s)])[DOMAIN zs]]
      BY <1>a, <1>6, <1>7 DEF Concats
    <2>2. all = [s \in SUBSET DOMAIN ys |-> IF s = {} THEN <<>>
                    ELSE all[s \ {Top(s)}] \o layer(ys[Top(s)])[DOMAIN zs]]
      BY <2>1
    <2> HIDE DEF all
    <2> QED  BY <1>a, <1>7, <2>2 DEF Concats
  <1> HIDE DEF all
  <1>9. /\ DrawnRuns(all[1..SizeY])
        /\ \A k \in 1..SizeY : Covered(R[k]) \subseteq Covered(all[1..SizeY])
    BY <1>2, <1>4, <1>8, ConcatIsDrawn
  <1>10. \A c \in S!Blocks : c.y + 1 \in 1..SizeY /\ c.y = (c.y + 1) - 1
    BY SizesAre DEF S!Blocks, S!Cell
  <1> QED  BY <1>1, <1>a, <1>4, <1>9, <1>10

-----------------------------------------------------------------------------
(* A schematic on its way into the world.                                  *)

Target(c) == IF S!Entry(c) \in Placeable THEN S!Entry(c) ELSE S!Air

\* While runs are still to be sent, a cell that is not yet as drawn is empty and
\* one of them covers it.
PlacingInv ==
    /\ grid \in Grids
    /\ DrawnRuns(runs)
    /\ world \in [S!Cell -> Placeable \cup {S!Air}]
    /\ step \in {"placing", "placed", "cleared"}
    /\ step = "placing" =>
        /\ bot = S!Outside
        /\ \A c \in S!Cell : world[c] = Target(c) \/ (world[c] = S!Air /\ c \in Covered(runs))
    /\ S!PlacedAsDrawn
    /\ S!ClearedForTheNext

LEMMA PlacingInit == S!Init => PlacingInv
  <1> SUFFICES ASSUME S!Init
               PROVE  PlacingInv
    OBVIOUS
  <1>1. grid \in Grids
    BY DEF S!Init, Grids
  <1>2. /\ runs = S!FillRuns /\ world = [c \in S!Cell |-> S!Air]
        /\ bot = S!Outside /\ step = "placing"
    BY DEF S!Init
  <1>3. DrawnRuns(runs) /\ S!Blocks \subseteq Covered(runs)
    BY <1>1, <1>2, FillRunsAreDrawn
  <1>4. ASSUME NEW c \in S!Cell
        PROVE  world[c] = Target(c) \/ (world[c] = S!Air /\ c \in Covered(runs))
    <2>1. c \in S!Blocks <=> S!Entry(c) \in Placeable
      BY <1>1, EntriesAre
    <2> QED  BY <1>2, <1>3, <2>1 DEF Target
  <1> QED  BY <1>1, <1>2, <1>3, <1>4 DEF PlacingInv, S!PlacedAsDrawn, S!ClearedForTheNext

LEMMA PlacingStep == PlacingInv /\ S!Next => PlacingInv'
  <1> SUFFICES ASSUME PlacingInv, S!Next
               PROVE  PlacingInv'
    OBVIOUS
  <1>a. grid' = grid
    BY DEF S!Next, S!PlaceRun, S!Placed, S!BotMoves, S!Clear
  <1>b. \A c : S!Entry(c)' = S!Entry(c) /\ Target(c)' = Target(c)
    BY <1>a DEF S!Entry, Target
  <1>c. \A s : DrawnRuns(s)' = DrawnRuns(s)
    BY <1>a DEF DrawnRuns, Drawn, S!Entry
  <1>d. S!Outside \notin S!Cell
    BY SizesAre DEF S!Outside, S!Cell
  <1>1. CASE S!PlaceRun
    <2> DEFINE r == Head(runs)
    <2>1. /\ step = "placing" /\ runs # <<>> /\ runs' = Tail(runs) /\ UNCHANGED <<bot, step>>
          /\ world' = S!Filled(S!RunBox(r), r.block)
      BY <1>1 DEF S!PlaceRun
    <2>2. runs \in Seq(Run) /\ r \in Run /\ Drawn(r)
      BY <2>1 DEF PlacingInv, DrawnRuns
    <2>3. Tail(runs) \in Seq(Run) /\ \A i \in DOMAIN Tail(runs) :
                i + 1 \in DOMAIN runs /\ Tail(runs)[i] = runs[i + 1]
      BY <2>1, <2>2
    <2>4. \A i \in DOMAIN runs : runs[i] = r \/ (i - 1 \in DOMAIN Tail(runs) /\ Tail(runs)[i - 1] = runs[i])
      BY <2>1, <2>2
    <2>5. DrawnRuns(Tail(runs))
      BY <2>3 DEF PlacingInv, DrawnRuns
    <2>6. \A c \in Covered(runs) : c \in S!RunBox(r) \/ c \in Covered(Tail(runs))
      BY <2>4 DEF Covered
    <2>7. r.block \in Placeable /\ \A c \in S!RunBox(r) : c \in S!Cell /\ S!Entry(c) = r.block
      BY <2>2 DEF Run, Drawn, S!RunBox
    <2>8. world' = [c \in S!Cell |-> IF c \in S!RunBox(r) THEN r.block ELSE world[c]]
      <3>1. bot \notin S!Cell
        BY <1>d, <2>1 DEF PlacingInv
      <3> QED  BY <2>1, <2>7, <3>1 DEF S!Filled
    <2> HIDE DEF r
    <2>9. world' \in [S!Cell -> Placeable \cup {S!Air}]
      BY <2>7, <2>8 DEF PlacingInv
    <2>10. ASSUME NEW c \in S!Cell
           PROVE  world'[c] = Target(c) \/ (world'[c] = S!Air /\ c \in Covered(Tail(runs)))
      <3>1. CASE c \in S!RunBox(r)
        BY <2>7, <2>8, <3>1 DEF Target
      <3>2. CASE c \notin S!RunBox(r)
        BY <2>1, <2>6, <2>8, <3>2 DEF PlacingInv
      <3> QED  BY <3>1, <3>2
    <2>11. \A c \in S!Cell :
              world'[c] = Target(c)' \/ (world'[c] = S!Air /\ c \in Covered(runs'))
      BY <1>b, <2>1, <2>10
    <2>12. DrawnRuns(runs)'
      BY <1>a, <2>1, <2>5 DEF DrawnRuns, Drawn, S!Entry
    <2> QED  BY <1>a, <2>1, <2>9, <2>11, <2>12
             DEF PlacingInv, Grids, Covered, S!PlacedAsDrawn, S!ClearedForTheNext
  <1>2. CASE S!Placed
    <2>1. step = "placing" /\ runs = <<>> /\ step' = "placed" /\ UNCHANGED <<runs, world, bot>>
      BY <1>2 DEF S!Placed
    <2>2. Covered(runs) = {}
      BY <2>1 DEF Covered
    <2>3. \A c \in S!Cell : world[c] = Target(c)
      BY <2>1, <2>2 DEF PlacingInv
    <2>4. DrawnRuns(runs)'
      BY <1>c, <2>1 DEF PlacingInv
    <2> QED  BY <1>a, <1>b, <2>1, <2>3, <2>4
             DEF PlacingInv, Grids, Target, S!PlacedAsDrawn, S!ClearedForTheNext
  <1>3. CASE S!BotMoves
    <2>1. step = "placed" /\ UNCHANGED <<runs, world, step>>
      BY <1>3 DEF S!BotMoves
    <2>2. DrawnRuns(runs)'
      BY <1>c, <2>1 DEF PlacingInv
    <2> QED  BY <1>a, <1>b, <2>1, <2>2
             DEF PlacingInv, Grids, S!PlacedAsDrawn, S!ClearedForTheNext
  <1>4. CASE S!Clear
    <2> DEFINE box == {c \in S!Cell : c.x <= S!FarCorner.x /\ c.y <= S!FarCorner.y
                                        /\ c.z <= S!FarCorner.z}
    <2>1. step' = "cleared" /\ UNCHANGED <<runs, bot>> /\ world' = S!Filled(box, S!Air)
      BY <1>4 DEF S!Clear
    <2>2. box = S!Cell
      <3>1. S!FarCorner.x = SizeX - 1 /\ S!FarCorner.y = SizeY - 1 /\ S!FarCorner.z = SizeZ - 1
        BY DEF S!FarCorner
      <3>2. \A c \in S!Cell : c.x <= SizeX - 1 /\ c.y <= SizeY - 1 /\ c.z <= SizeZ - 1
        BY SizesAre DEF S!Cell
      <3> QED  BY <3>1, <3>2
    <2> HIDE DEF box
    <2>3. world' = [c \in S!Cell |-> IF c \in S!Cell \ {bot} THEN S!Air ELSE world[c]]
      BY <2>1, <2>2 DEF S!Filled
    <2>4. world' \in [S!Cell -> Placeable \cup {S!Air}]
      BY <2>3 DEF PlacingInv
    <2>5. \A c \in S!Cell : world'[c] # S!Air => c = bot'
      BY <2>1, <2>3
    <2>6. DrawnRuns(runs)'
      BY <1>c, <2>1 DEF PlacingInv
    <2> QED  BY <1>a, <2>1, <2>4, <2>5, <2>6
             DEF PlacingInv, Grids, S!PlacedAsDrawn, S!ClearedForTheNext
  <1> QED  BY <1>1, <1>2, <1>3, <1>4 DEF S!Next

LEMMA PlacingHolds == MCSafety => []PlacingInv
  <1>1. MCInit => PlacingInv
    BY PlacingInit DEF MCInit
  <1>2. PlacingInv /\ [MCNext]_sub => PlacingInv'
    <2> SUFFICES ASSUME PlacingInv, [MCNext]_sub
                 PROVE  PlacingInv'
      OBVIOUS
    <2>1. CASE S!Next
      BY <2>1, PlacingStep
    <2>2. CASE UNCHANGED placing
      BY <2>2 DEF placing, PlacingInv, Grids, DrawnRuns, Drawn, Covered, Target, S!Entry,
                  S!PlacedAsDrawn, S!ClearedForTheNext
    <2> QED  BY <2>1, <2>2 DEF MCNext, sub, placing
  <1> QED  BY <1>1, <1>2, PTL DEF MCSafety, sub

\* Whatever the size of the scenario and whatever the author drew, the runs that
\* _fill_runs makes of it place every block where it was drawn and with its own
\* properties, and nothing where there was air or a marker.
THEOREM ScenariosArePlaced == MCSafety => []PlacedAsDrawn
  <1>1. PlacingInv => PlacedAsDrawn
    BY DEF PlacingInv, PlacedAsDrawn
  <1> QED  BY <1>1, PlacingHolds, PTL

\* Whenever clear_schematic runs, half-way through the placing or after the bot
\* walked the scenario, its one /fill leaves no block of the bounding box behind
\* but one in the bot's own cell.
THEOREM ScenariosAreCleared == MCSafety => []ClearedForTheNext
  <1>1. PlacingInv => ClearedForTheNext
    BY DEF PlacingInv, ClearedForTheNext
  <1> QED  BY <1>1, PlacingHolds, PTL

-----------------------------------------------------------------------------
(* Powers of two, division and the recursion that both are used in.        *)

LEMMA NatInductionOnSets ==
    ASSUME NEW W \in SUBSET Nat, 0 \in W, \A n \in Nat : n \in W => n + 1 \in W
    PROVE  W = Nat
  <1> SUFFICES ASSUME NEW n \in Nat
               PROVE  n \in W
    OBVIOUS
  <1> DEFINE V == W \cap (0..n)
  <1>1. \A k \in 1..n : k - 1 \in V => k \in V
    <2> SUFFICES ASSUME NEW k \in 1..n, k - 1 \in V
                 PROVE  k \in V
      OBVIOUS
    <2>1. k - 1 \in Nat /\ k - 1 \in W /\ (k - 1) + 1 = k
      OBVIOUS
    <2>2. k \in W
      BY <2>1
    <2> QED  BY <2>2
  <1>2. V = 0..n
    <2>1. V \in SUBSET (0..n) /\ 0 \in V
      OBVIOUS
    <2> HIDE DEF V
    <2> QED  BY <1>1, <2>1, UpToInduction
  <1> QED  BY <1>2

\* A function of the naturals may be defined by recursion from n - 1 to n.
Recurs(g, base, G) == g = [n \in Nat |-> IF n = 0 THEN base ELSE G[<<n, g[n - 1]>>]]

LEMMA RecursionExists ==
    ASSUME NEW V, NEW base \in V, NEW G \in [Nat \X V -> V]
    PROVE  \E g \in [Nat -> V] : Recurs(g, base, G)
  <1> DEFINE UpTo1(h, n) == /\ h \in [0..n -> V] /\ h[0] = base
                            /\ \A k \in 1..n : h[k] = G[<<k, h[k - 1]>>]
             W == {n \in Nat : \E h : UpTo1(h, n)}
  <1>1. 0 \in W
    <2> DEFINE h == [k \in 0..0 |-> base]
    <2>1. UpTo1(h, 0)
      OBVIOUS
    <2> HIDE DEF h, UpTo1
    <2> QED  BY <2>1
  <1>2. ASSUME NEW n \in Nat, n \in W
        PROVE  n + 1 \in W
    <2>1. PICK h : UpTo1(h, n)
      BY <1>2
    <2> DEFINE f == [k \in 0..(n + 1) |-> IF k \in 0..n THEN h[k] ELSE G[<<n + 1, h[n]>>]]
    <2>2. h[n] \in V /\ G[<<n + 1, h[n]>>] \in V
      BY <2>1
    <2>3. \A k \in 0..(n + 1) : k \in 0..n \/ k = n + 1
      OBVIOUS
    <2>4. f \in [0..(n + 1) -> V]
      BY <2>1, <2>2
    <2>5. \A k \in 0..n : f[k] = h[k]
      OBVIOUS
    <2>6. f[n + 1] = G[<<n + 1, h[n]>>]
      OBVIOUS
    <2> HIDE DEF f
    <2>7. ASSUME NEW k \in 1..(n + 1)
          PROVE  f[k] = G[<<k, f[k - 1]>>]
      <3>1. CASE k = n + 1
        BY <2>5, <2>6, <3>1
      <3>2. CASE k # n + 1
        <4>1. k \in 1..n /\ k \in 0..n /\ k - 1 \in 0..n
          BY <3>2
        <4> QED  BY <2>1, <2>5, <4>1
      <3> QED  BY <3>1, <3>2
    <2>8. UpTo1(f, n + 1)
      BY <2>1, <2>4, <2>5, <2>7
    <2> HIDE DEF UpTo1
    <2> QED  BY <2>8
  <1>3. W = Nat
    <2> HIDE DEF W
    <2>1. W \in SUBSET Nat
      BY DEF W
    <2> QED  BY <1>1, <1>2, <2>1, NatInductionOnSets
  <1>4. ASSUME NEW n \in Nat, NEW h, NEW f, UpTo1(h, n), UpTo1(f, n + 1)
        PROVE  f[n] = h[n]
    <2> DEFINE U == {k \in 0..n : f[k] = h[k]}
    <2>1. 0 \in U
      BY <1>4
    <2>2. ASSUME NEW k \in 1..n, k - 1 \in U
          PROVE  k \in U
      <3>1. k \in 0..n /\ k \in 1..(n + 1)
        OBVIOUS
      <3>2. h[k] = G[<<k, h[k - 1]>>] /\ f[k] = G[<<k, f[k - 1]>>]
        BY <1>4, <3>1
      <3>3. f[k - 1] = h[k - 1]
        BY <2>2
      <3> QED  BY <3>1, <3>2, <3>3
    <2>3. U = 0..n
      <3> HIDE DEF U, UpTo1
      <3>1. U \in SUBSET (0..n)
        BY DEF U
      <3> QED  BY <2>1, <2>2, <3>1, UpToInduction
    <2> QED  BY <2>3
  <1> DEFINE at1(n) == CHOOSE h : UpTo1(h, n)
             g == [n \in Nat |-> at1(n)[n]]
  <1>5. \A n \in Nat : UpTo1(at1(n), n)
    <2> HIDE DEF UpTo1
    <2> QED  BY <1>3
  <1> HIDE DEF at1
  <1>6. g \in [Nat -> V]
    BY <1>5
  <1>7. g[0] = base
    BY <1>5
  <1>8. ASSUME NEW n \in Nat
        PROVE  g[n + 1] = G[<<n + 1, g[n]>>]
    <2>1. UpTo1(at1(n), n) /\ UpTo1(at1(n + 1), n + 1)
      BY <1>5
    <2>2. at1(n + 1)[n] = at1(n)[n]
      <3> HIDE DEF UpTo1
      <3> QED  BY <1>4, <2>1
    <2>3. n + 1 \in 1..(n + 1) /\ (n + 1) - 1 = n
      OBVIOUS
    <2>4. at1(n + 1)[n + 1] = G[<<n + 1, at1(n + 1)[n]>>]
      BY <2>1, <2>3
    <2> QED  BY <2>2, <2>4
  <1> HIDE DEF g
  <1>9. ASSUME NEW n \in Nat, n # 0
        PROVE  g[n] = G[<<n, g[n - 1]>>]
    <2>1. n - 1 \in Nat /\ (n - 1) + 1 = n
      BY <1>9
    <2> QED  BY <1>8, <2>1
  <1> QED  BY <1>6, <1>7, <1>9 DEF Recurs

LEMMA PowersAre ==
    /\ B!TwoTo \in [Nat -> Nat \ {0}]
    /\ B!TwoTo[0] = 1
    /\ \A n \in Nat : B!TwoTo[n + 1] = 2 * B!TwoTo[n]
  <1> DEFINE G == [p \in Nat \X (Nat \ {0}) |-> 2 * p[2]]
             V == Nat \ {0}
  <1>1. G \in [Nat \X V -> V] /\ 1 \in V
    OBVIOUS
  <1>2. PICK g \in [Nat -> V] : Recurs(g, 1, G)
    <2> HIDE DEF G, V
    <2> QED  BY <1>1, RecursionExists
  <1>3. \A n \in Nat : n # 0 => n - 1 \in Nat
    OBVIOUS
  <1>4. \A n \in Nat : n # 0 => G[<<n, g[n - 1]>>] = 2 * g[n - 1]
    BY <1>2, <1>3
  <1>5. g = [n \in Nat |-> IF n = 0 THEN 1 ELSE 2 * g[n - 1]]
    <2> HIDE DEF G
    <2> QED  BY <1>2, <1>4 DEF Recurs
  <1>6. B!TwoTo = [n \in Nat |-> IF n = 0 THEN 1 ELSE 2 * B!TwoTo[n - 1]]
    BY <1>5 DEF B!TwoTo
  <1> DEFINE T2 == B!TwoTo
  <1> HIDE DEF T2
  <1>7. T2 = [n \in Nat |-> IF n = 0 THEN 1 ELSE 2 * T2[n - 1]]
    BY <1>6 DEF T2
  <1>8. T2[0] = 1
    BY <1>7
  <1>9. \A n \in Nat : T2[n + 1] = 2 * T2[n]
    <2>1. \A n \in Nat : n + 1 \in Nat /\ n + 1 # 0 /\ (n + 1) - 1 = n
      OBVIOUS
    <2> QED  BY <1>7, <2>1
  <1> DEFINE W == {n \in Nat : T2[n] \in V}
  <1>10. 0 \in W
    BY <1>8
  <1>11. \A n \in Nat : n \in W => n + 1 \in W
    BY <1>9
  <1>12. W = Nat
    <2> HIDE DEF W
    <2>1. W \in SUBSET Nat
      BY DEF W
    <2> QED  BY <1>10, <1>11, <2>1, NatInductionOnSets
  <1>13. T2 \in [Nat -> V]
    BY <1>7, <1>12
  <1> QED  BY <1>8, <1>9, <1>13 DEF T2

LEMMA PowersAdd ==
    ASSUME NEW m \in Nat, NEW n \in Nat
    PROVE  B!TwoTo[m + n] = B!TwoTo[m] * B!TwoTo[n]
  <1> DEFINE E2 == B!TwoTo
             W == {k \in Nat : E2[m + k] = E2[m] * E2[k]}
  <1>1. /\ E2 \in [Nat -> Nat \ {0}] /\ E2[0] = 1
        /\ \A k \in Nat : E2[k + 1] = 2 * E2[k]
    BY PowersAre
  <1> HIDE DEF E2
  <1>2. 0 \in W
    BY <1>1
  <1>3. ASSUME NEW k \in Nat, k \in W
        PROVE  k + 1 \in W
    <2>1. m + (k + 1) = (m + k) + 1 /\ m + k \in Nat
      OBVIOUS
    <2>2. E2[m + (k + 1)] = 2 * E2[m + k] /\ E2[k + 1] = 2 * E2[k]
      BY <1>1, <2>1
    <2>3. E2[m] \in Nat /\ E2[k] \in Nat
      BY <1>1
    <2>4. 2 * (E2[m] * E2[k]) = E2[m] * (2 * E2[k])
      BY <2>3
    <2>5. E2[m + k] = E2[m] * E2[k]
      BY <1>3
    <2> QED  BY <2>2, <2>4, <2>5
  <1>4. W = Nat
    <2> HIDE DEF W
    <2>1. W \in SUBSET Nat
      BY DEF W
    <2> QED  BY <1>2, <1>3, <2>1, NatInductionOnSets
  <1> QED  BY <1>4 DEF E2

LEMMA PowersGrow ==
    ASSUME NEW m \in Nat, NEW n \in Nat, m <= n
    PROVE  B!TwoTo[m] <= B!TwoTo[n]
  <1>1. n - m \in Nat /\ m + (n - m) = n
    OBVIOUS
  <1>2. B!TwoTo[n] = B!TwoTo[m] * B!TwoTo[n - m]
    BY <1>1, PowersAdd
  <1>3. B!TwoTo[m] \in Nat /\ B!TwoTo[n - m] \in Nat \ {0}
    BY <1>1, PowersAre
  <1>4. \A a \in Nat : \A b \in Nat \ {0} : a <= a * b
    OBVIOUS
  <1> QED  BY <1>2, <1>3, <1>4

LEMMA PowersExceed ==
    ASSUME NEW n \in Nat
    PROVE  B!TwoTo[n] > n
  <1> DEFINE W == {k \in Nat : B!TwoTo[k] > k}
  <1>1. 0 \in W
    BY PowersAre
  <1>2. \A k \in Nat : k \in W => k + 1 \in W
    BY PowersAre
  <1>3. W = Nat
    <2> HIDE DEF W
    <2>1. W \in SUBSET Nat
      BY DEF W
    <2> QED  BY <1>1, <1>2, <2>1, NatInductionOnSets
  <1> QED  BY <1>3

\* Quotient and remainder are what they are by their bounds.
LEMMA Divides ==
    ASSUME NEW d \in Nat \ {0}, NEW q \in Int, NEW r \in 0..(d - 1)
    PROVE  (d * q + r) \div d = q /\ (d * q + r) % d = r
  <1> DEFINE n == d * q + r
             p == n \div d
             s == n % d
  <1>1. n \in Int
    OBVIOUS
  <1>2. p \in Int /\ s \in 0..(d - 1) /\ n = d * p + s
    <2> HIDE DEF n
    <2> QED  BY <1>1
  <1> HIDE DEF p, s
  <1>3. d * p + s = d * q + r
    BY <1>2
  <1>4. ~(p > q)
    <2> SUFFICES ASSUME p > q
                 PROVE  FALSE
      OBVIOUS
    <2> DEFINE t == p - q - 1
    <2>1. t \in Nat /\ p = q + 1 + t
      BY <1>2
    <2> HIDE DEF t
    <2>2. d * p = d * q + d + d * t /\ d * t \in Nat
      BY <2>1
    <2> QED  BY <1>2, <1>3, <2>2
  <1>5. ~(q > p)
    <2> SUFFICES ASSUME q > p
                 PROVE  FALSE
      OBVIOUS
    <2> DEFINE t == q - p - 1
    <2>1. t \in Nat /\ q = p + 1 + t
      BY <1>2
    <2> HIDE DEF t
    <2>2. d * q = d * p + d + d * t /\ d * t \in Nat
      BY <1>2, <2>1
    <2> QED  BY <1>2, <1>3, <2>2
  <1>6. p = q
    BY <1>2, <1>4, <1>5
  <1>7. s = r
    BY <1>2, <1>3, <1>6
  <1> QED  BY <1>6, <1>7 DEF p, s

-----------------------------------------------------------------------------
(* The number that a stretch of bits spells, low bit first.                *)

Bits == [Nat -> {0, 1}]
Spells(bit, f, g) ==
    g = [k \in Nat |-> IF k = 0 THEN 0 ELSE g[k - 1] + bit[f + k - 1] * B!TwoTo[k - 1]]

\* Value(bit, f)[n] is the number of the n bits from f on.
Value(bit, f) == CHOOSE g : Spells(bit, f, g)

LEMMA SpellingsAre ==
    ASSUME NEW bit \in Bits, NEW f \in Nat, NEW g, Spells(bit, f, g)
    PROVE  /\ g \in [Nat -> Nat] /\ g[0] = 0
           /\ \A n \in Nat : g[n + 1] = g[n] + bit[f + n] * B!TwoTo[n]
           /\ \A n \in Nat : g[n] \in 0..(B!TwoTo[n] - 1)
  <1>1. g[0] = 0
    BY DEF Spells
  <1>2. ASSUME NEW n \in Nat
        PROVE  g[n + 1] = g[n] + bit[f + n] * B!TwoTo[n]
    <2>1. n + 1 \in Nat /\ n + 1 # 0 /\ (n + 1) - 1 = n /\ f + (n + 1) - 1 = f + n
      OBVIOUS
    <2> QED  BY <2>1 DEF Spells
  <1> DEFINE W == {n \in Nat : g[n] \in 0..(B!TwoTo[n] - 1)}
  <1>3. 0 \in W
    BY <1>1, PowersAre
  <1>4. ASSUME NEW n \in Nat, n \in W
        PROVE  n + 1 \in W
    <2>1. bit[f + n] \in {0, 1} /\ f + n \in Nat
      BY DEF Bits
    <2>2. B!TwoTo[n] \in Nat /\ B!TwoTo[n + 1] = 2 * B!TwoTo[n]
      BY PowersAre
    <2>3. bit[f + n] * B!TwoTo[n] = 0 \/ bit[f + n] * B!TwoTo[n] = B!TwoTo[n]
      BY <2>1, <2>2
    <2>4. g[n] \in 0..(B!TwoTo[n] - 1)
      BY <1>4
    <2>5. g[n + 1] \in 0..(B!TwoTo[n + 1] - 1)
      BY <1>2, <2>2, <2>3, <2>4
    <2> QED  BY <2>5
  <1>5. W = Nat
    <2> HIDE DEF W
    <2>1. W \in SUBSET Nat
      BY DEF W
    <2> QED  BY <1>3, <1>4, <2>1, NatInductionOnSets
  <1>6. \A n \in Nat : g[n] \in 0..(B!TwoTo[n] - 1)
    BY <1>5
  <1>7. \A n \in Nat : g[n] \in Nat
    BY <1>6, PowersAre
  <1>8. g \in [Nat -> Nat]
    BY <1>7 DEF Spells
  <1> QED  BY <1>1, <1>2, <1>6, <1>8

LEMMA SpellingIsUnique ==
    ASSUME NEW bit \in Bits, NEW f \in Nat, NEW g, Spells(bit, f, g), NEW h, Spells(bit, f, h),
           NEW n \in Nat
    PROVE  g[n] = h[n]
  <1> DEFINE W == {k \in Nat : g[k] = h[k]}
  <1>1. 0 \in W
    BY SpellingsAre
  <1>2. \A k \in Nat : k \in W => k + 1 \in W
    <2>1. /\ \A k \in Nat : g[k + 1] = g[k] + bit[f + k] * B!TwoTo[k]
          /\ \A k \in Nat : h[k + 1] = h[k] + bit[f + k] * B!TwoTo[k]
      BY SpellingsAre
    <2> QED  BY <2>1
  <1>3. W = Nat
    <2> HIDE DEF W
    <2>1. W \in SUBSET Nat
      BY DEF W
    <2> QED  BY <1>1, <1>2, <2>1, NatInductionOnSets
  <1> QED  BY <1>3

LEMMA ValueSpells ==
    ASSUME NEW bit \in Bits, NEW f \in Nat
    PROVE  Spells(bit, f, Value(bit, f))
  <1> DEFINE G == [p \in Nat \X Nat |->
                     IF p[1] = 0 THEN 0 ELSE p[2] + bit[f + p[1] - 1] * B!TwoTo[p[1] - 1]]
  <1>1. \A n \in Nat \ {0} : /\ f + n - 1 \in Nat /\ n - 1 \in Nat
                             /\ bit[f + n - 1] \in {0, 1} /\ B!TwoTo[n - 1] \in Nat
    BY PowersAre DEF Bits
  <1>2. \A n \in Nat \ {0} : bit[f + n - 1] * B!TwoTo[n - 1] \in Nat
    BY <1>1
  <1>3. G \in [Nat \X Nat -> Nat]
    BY <1>2
  <1>4. PICK g \in [Nat -> Nat] : Recurs(g, 0, G)
    <2> HIDE DEF G
    <2> QED  BY <1>3, RecursionExists
  <1>5. \A n \in Nat \ {0} :
            G[<<n, g[n - 1]>>] = g[n - 1] + bit[f + n - 1] * B!TwoTo[n - 1]
    <2>1. \A n \in Nat \ {0} : n - 1 \in Nat
      OBVIOUS
    <2> QED  BY <1>4, <2>1
  <1>6. Spells(bit, f, g)
    <2> HIDE DEF G
    <2> QED  BY <1>4, <1>5 DEF Recurs, Spells
  <1> QED  BY <1>6 DEF Value

LEMMA ValuesAre ==
    ASSUME NEW bit \in Bits, NEW f \in Nat
    PROVE  /\ Value(bit, f) \in [Nat -> Nat] /\ Value(bit, f)[0] = 0
           /\ \A n \in Nat : Value(bit, f)[n + 1] = Value(bit, f)[n] + bit[f + n] * B!TwoTo[n]
           /\ \A n \in Nat : Value(bit, f)[n] \in 0..(B!TwoTo[n] - 1)
  <1> DEFINE g == Value(bit, f)
  <1>1. Spells(bit, f, g)
    BY ValueSpells
  <1> HIDE DEF g
  <1>2. /\ g \in [Nat -> Nat] /\ g[0] = 0
        /\ \A n \in Nat : g[n + 1] = g[n] + bit[f + n] * B!TwoTo[n]
        /\ \A n \in Nat : g[n] \in 0..(B!TwoTo[n] - 1)
    BY <1>1, SpellingsAre
  <1> QED  BY <1>2 DEF g

\* The low bits, and the high bits moved up by as many.
LEMMA ValuesSplit ==
    ASSUME NEW bit \in Bits, NEW f \in Nat, NEW m \in Nat, NEW n \in Nat
    PROVE  Value(bit, f)[m + n] = B!TwoTo[m] * Value(bit, f + m)[n] + Value(bit, f)[m]
  <1> DEFINE a == Value(bit, f)
             b == Value(bit, f + m)
             W == {k \in Nat : a[m + k] = B!TwoTo[m] * b[k] + a[m]}
  <1>1. /\ a \in [Nat -> Nat] /\ b \in [Nat -> Nat] /\ b[0] = 0
        /\ \A k \in Nat : a[k + 1] = a[k] + bit[f + k] * B!TwoTo[k]
        /\ \A k \in Nat : b[k + 1] = b[k] + bit[f + m + k] * B!TwoTo[k]
    <2> DEFINE fm == f + m
    <2>1. fm \in Nat
      OBVIOUS
    <2> HIDE DEF fm
    <2>2. /\ Value(bit, fm) \in [Nat -> Nat] /\ Value(bit, fm)[0] = 0
          /\ \A k \in Nat : Value(bit, fm)[k + 1] = Value(bit, fm)[k] + bit[fm + k] * B!TwoTo[k]
      BY <2>1, ValuesAre
    <2>3. /\ a \in [Nat -> Nat]
          /\ \A k \in Nat : a[k + 1] = a[k] + bit[f + k] * B!TwoTo[k]
      BY ValuesAre
    <2> QED  BY <2>2, <2>3 DEF fm
  <1> HIDE DEF a, b
  <1>2. 0 \in W
    BY <1>1, PowersAre
  <1>3. ASSUME NEW k \in Nat, k \in W
        PROVE  k + 1 \in W
    <2>1. /\ m + (k + 1) = (m + k) + 1 /\ m + k \in Nat /\ f + (m + k) = f + m + k
          /\ f + m + k \in Nat
      OBVIOUS
    <2>2. /\ a[m + (k + 1)] = a[m + k] + bit[f + m + k] * B!TwoTo[m + k]
          /\ b[k + 1] = b[k] + bit[f + m + k] * B!TwoTo[k]
      BY <1>1, <2>1
    <2>3. B!TwoTo[m + k] = B!TwoTo[m] * B!TwoTo[k]
      BY PowersAdd
    <2>4. /\ bit[f + m + k] \in {0, 1} /\ B!TwoTo[m] \in Nat /\ B!TwoTo[k] \in Nat
          /\ b[k] \in Nat /\ a[m] \in Nat
      BY <1>1, <2>1, PowersAre DEF Bits
    <2>5. \A d, x, y \in Nat : d * (x + y) = d * x + d * y
      OBVIOUS
    <2>6. B!TwoTo[m] * b[k + 1] = B!TwoTo[m] * b[k] + bit[f + m + k] * (B!TwoTo[m] * B!TwoTo[k])
      <3>1. CASE bit[f + m + k] = 0
        BY <2>2, <2>4, <3>1
      <3>2. CASE bit[f + m + k] = 1
        BY <2>2, <2>4, <2>5, <3>2
      <3> QED  BY <2>4, <3>1, <3>2
    <2>7. a[m + k] = B!TwoTo[m] * b[k] + a[m]
      BY <1>3
    <2>8. \A p, q, r \in Nat : (p + q) + r = (p + r) + q
      OBVIOUS
    <2>9. /\ B!TwoTo[m] * b[k] \in Nat
          /\ bit[f + m + k] * (B!TwoTo[m] * B!TwoTo[k]) \in Nat
      BY <2>4
    <2>10. a[m + (k + 1)] = B!TwoTo[m] * b[k + 1] + a[m]
      BY <2>2, <2>3, <2>4, <2>6, <2>7, <2>8, <2>9
    <2> QED  BY <2>10
  <1>4. W = Nat
    <2> HIDE DEF W
    <2>1. W \in SUBSET Nat
      BY DEF W
    <2> QED  BY <1>2, <1>3, <2>1, NatInductionOnSets
  <1> QED  BY <1>4 DEF a, b

LEMMA ValuesDivide ==
    ASSUME NEW bit \in Bits, NEW f \in Nat, NEW m \in Nat, NEW n \in Nat
    PROVE  /\ Value(bit, f)[m + n] \div B!TwoTo[m] = Value(bit, f + m)[n]
           /\ Value(bit, f)[m + n] % B!TwoTo[m] = Value(bit, f)[m]
  <1> DEFINE fm == f + m
             d == B!TwoTo[m]
             q == Value(bit, fm)[n]
             r == Value(bit, f)[m]
  <1>1. fm \in Nat
    OBVIOUS
  <1>2. Value(bit, f)[m + n] = d * q + r
    BY ValuesSplit
  <1> HIDE DEF fm
  <1>3. q \in Int
    <2>1. Value(bit, fm) \in [Nat -> Nat]
      BY <1>1, ValuesAre
    <2> QED  BY <2>1
  <1>4. r \in 0..(d - 1)
    BY ValuesAre
  <1>5. d \in Nat \ {0}
    BY PowersAre
  <1> HIDE DEF d, q, r
  <1>6. (d * q + r) \div d = q /\ (d * q + r) % d = r
    BY <1>3, <1>4, <1>5, Divides
  <1> QED  BY <1>2, <1>6 DEF d, q, r, fm

\* The bits of a number spell the number, as far as they go.
LEMMA BitsSpell ==
    ASSUME NEW bit \in Bits, NEW f \in Nat, NEW e \in Nat, NEW n \in Nat,
           \A j \in 0..(n - 1) : bit[f + j] = (e \div B!TwoTo[j]) % 2
    PROVE  Value(bit, f)[n] = e % B!TwoTo[n]
  <1> DEFINE a == Value(bit, f)
             W == {k \in 0..n : a[k] = e % B!TwoTo[k]}
  <1>1. a[0] = 0 /\ \A k \in Nat : a[k + 1] = a[k] + bit[f + k] * B!TwoTo[k]
    BY ValuesAre
  <1> HIDE DEF a
  <1>2. 0 \in W
    <2>1. B!TwoTo[0] = 1
      BY PowersAre
    <2>2. e % 1 = 0
      BY Divides
    <2> QED  BY <1>1, <2>1, <2>2
  <1>3. ASSUME NEW k \in 1..n, k - 1 \in W
        PROVE  k \in W
    <2> DEFINE j == k - 1
               d == B!TwoTo[j]
               q == e \div d
               r == e % d
               b == q % 2
               p == q \div 2
    <2>1. j \in Nat /\ j \in 0..(n - 1) /\ j + 1 = k
      OBVIOUS
    <2>2. d \in Nat \ {0} /\ B!TwoTo[k] = 2 * d
      BY <2>1, PowersAre
    <2> HIDE DEF d, j
    <2>3. q \in Int /\ r \in 0..(d - 1) /\ e = d * q + r
      BY <2>2
    <2> HIDE DEF q, r
    <2>4. p \in Int /\ b \in 0..1 /\ q = 2 * p + b
      BY <2>3
    <2> HIDE DEF p, b
    <2>5. d * q = (2 * d) * p + d * b
      BY <2>2, <2>3, <2>4
    <2>6. e = (2 * d) * p + (d * b + r)
      BY <2>2, <2>3, <2>4, <2>5
    <2>7. d * b + r \in 0..(2 * d - 1)
      <3>1. d * b = 0 \/ d * b = d
        BY <2>2, <2>4
      <3> QED  BY <2>2, <2>3, <3>1
    <2>8. e % (2 * d) = d * b + r
      <3> DEFINE dd == 2 * d
                 rr == d * b + r
      <3>1. dd \in Nat \ {0} /\ rr \in 0..(dd - 1) /\ e = dd * p + rr
        BY <2>2, <2>6, <2>7
      <3> HIDE DEF dd, rr
      <3>2. e % dd = rr
        BY <2>4, <3>1, Divides
      <3> QED  BY <3>2 DEF dd, rr
    <2>9. a[k] = a[j] + bit[f + j] * d
      BY <1>1, <2>1 DEF d
    <2>10. bit[f + j] = b
      BY <2>1 DEF b, q, d
    <2>11. a[j] = r
      BY <1>3 DEF r, d, j
    <2>12. r + b * d = d * b + r
      BY <2>2, <2>3, <2>4
    <2> QED  BY <2>2, <2>8, <2>9, <2>10, <2>11, <2>12
  <1>4. W = 0..n
    <2> HIDE DEF W
    <2>1. W \in SUBSET (0..n)
      BY DEF W
    <2> QED  BY <1>2, <1>3, <2>1, UpToInduction
  <1> QED  BY <1>4 DEF a

-----------------------------------------------------------------------------
(* The block grid of a schematic, read back from its packed words.         *)

LEMMA BoundsAre ==
    /\ WordBits \in Nat /\ WordBits >= 2
    /\ MaxPalette \in Nat /\ MaxPalette <= B!TwoTo[WordBits]
    /\ Count \in Nat
  BY PartsAssumption DEF B!BoundsAssumption

LEMMA BitLengthIs ==
    ASSUME NEW n \in Nat, NEW m \in Nat, n < B!TwoTo[m]
    PROVE  /\ B!BitLength(n) \in 0..m /\ n < B!TwoTo[B!BitLength(n)]
  <1> DEFINE Right(k) == B!TwoTo[k] > n /\ (k = 0 \/ B!TwoTo[k - 1] <= n)
             l == B!BitLength(n)
             W == {k \in 0..n : B!TwoTo[k] <= n}
  <1>1. ASSUME \A k \in 0..n : ~Right(k)
        PROVE  FALSE
    <2>0. \A k \in Nat : B!TwoTo[k] \in Nat
      BY PowersAre
    <2>1. 0 \in W
      BY <1>1, <2>0
    <2>2. ASSUME NEW k \in 1..n, k - 1 \in W
          PROVE  k \in W
      <3>1. k \in 0..n /\ k # 0 /\ B!TwoTo[k - 1] <= n
        BY <2>2
      <3>2. ~(B!TwoTo[k] > n)
        BY <1>1, <3>1
      <3> QED  BY <2>0, <3>1, <3>2
    <2>3. W = 0..n
      <3> HIDE DEF W, Right
      <3>1. W \in SUBSET (0..n)
        BY DEF W
      <3> QED  BY <2>1, <2>2, <3>1, UpToInduction
    <2>4. n \in 0..n
      OBVIOUS
    <2>5. B!TwoTo[n] <= n
      BY <2>3, <2>4
    <2> QED  BY <2>0, <2>5, PowersExceed
  <1>2. l \in 0..n /\ Right(l)
    <2>1. \E k \in 0..n : Right(k)
      BY <1>1
    <2> QED  BY <2>1 DEF B!BitLength
  <1> HIDE DEF l
  <1>3. ASSUME l > m
        PROVE  FALSE
    <2>1. l - 1 \in Nat /\ m <= l - 1 /\ l # 0
      BY <1>2, <1>3
    <2>2. B!TwoTo[m] <= B!TwoTo[l - 1]
      BY <2>1, PowersGrow
    <2>3. B!TwoTo[m] \in Nat /\ B!TwoTo[l - 1] \in Nat
      BY <2>1, PowersAre
    <2> QED  BY <1>2, <2>1, <2>2, <2>3
  <1>4. l \in 0..m
    BY <1>2, <1>3
  <1>5. l \in Nat /\ B!TwoTo[l] \in Nat
    BY <1>2, PowersAre
  <1> QED  BY <1>2, <1>4, <1>5 DEF l

\* What Litematica packed.
Packed ==
    /\ palette \in 1..MaxPalette
    /\ entries \in [0..(Count - 1) -> 0..(palette - 1)]

LEMMA WidthIs ==
    ASSUME Packed
    PROVE  /\ B!Width \in Nat /\ 2 <= B!Width /\ B!Width <= WordBits
           /\ palette <= B!TwoTo[B!Width]
  <1> DEFINE n == palette - 1
             l == B!BitLength(n)
  <1>1. n \in Nat /\ n < B!TwoTo[WordBits] /\ palette = n + 1
    <2>1. B!TwoTo[WordBits] \in Nat
      BY BoundsAre, PowersAre
    <2> QED  BY <2>1, BoundsAre DEF Packed
  <1> HIDE DEF n
  <1>2. l \in 0..WordBits /\ n < B!TwoTo[l]
    BY <1>1, BoundsAre, BitLengthIs
  <1>3. B!Width = IF 2 >= l THEN 2 ELSE l
    BY DEF B!Width, B!Larger, n
  <1> HIDE DEF l
  <1>4. B!Width \in Nat /\ 2 <= B!Width /\ B!Width <= WordBits /\ l \in Nat /\ l <= B!Width
    BY <1>2, <1>3, BoundsAre
  <1>5. B!TwoTo[l] <= B!TwoTo[B!Width]
    BY <1>4, PowersGrow
  <1>6. B!TwoTo[l] \in Nat /\ B!TwoTo[B!Width] \in Nat
    BY <1>4, PowersAre
  <1>7. palette <= B!TwoTo[B!Width]
    BY <1>1, <1>2, <1>5, <1>6
  <1> QED  BY <1>4, <1>7

PackedBits == [p \in Nat |-> B!PackedBit(p)]

LEMMA PackedBitsAre ==
    ASSUME Packed
    PROVE  PackedBits \in Bits
  <1> SUFFICES ASSUME NEW p \in Nat
               PROVE  B!PackedBit(p) \in {0, 1}
    BY DEF PackedBits, Bits
  <1> DEFINE i == p \div B!Width
             d == B!TwoTo[p % B!Width]
  <1>1. i \in Nat /\ p % B!Width \in Nat
    BY WidthIs
  <1>2. d \in Nat \ {0}
    BY <1>1, PowersAre
  <1>3. B!PackedBit(p) = IF i >= Count THEN 0 ELSE (entries[i] \div d) % 2
    BY DEF B!PackedBit
  <1> HIDE DEF i, d
  <1>4. CASE i >= Count
    BY <1>3, <1>4
  <1>5. CASE ~(i >= Count)
    <2>1. entries[i] \in Nat
      BY <1>1, <1>5, BoundsAre DEF Packed
    <2>2. entries[i] \div d \in Int
      BY <1>2, <2>1
    <2>3. (entries[i] \div d) % 2 \in 0..1
      BY <2>2
    <2> QED  BY <1>3, <1>5, <2>3
  <1> QED  BY <1>4, <1>5

LEMMA UnsignedIs ==
    ASSUME Packed, NEW w \in Nat
    PROVE  B!Unsigned(w) = Value(PackedBits, w * WordBits)[WordBits]
  <1> DEFINE f == w * WordBits
             upTo == CHOOSE g : g = [k \in Nat |-> IF k = 0 THEN 0
                        ELSE g[k - 1] + B!PackedBit(w * WordBits + k - 1) * B!TwoTo[k - 1]]
  <1>1. f \in Nat /\ PackedBits \in Bits
    BY BoundsAre, PackedBitsAre
  <1>2. \A k \in Nat : k # 0 => PackedBits[f + k - 1] = B!PackedBit(w * WordBits + k - 1)
    <2> SUFFICES ASSUME NEW k \in Nat, k # 0
                 PROVE  f + k - 1 \in Nat
      BY DEF PackedBits
    <2> HIDE DEF f
    <2> QED  BY <1>1
  <1>3. \A g : Spells(PackedBits, f, g) <=>
                 g = [k \in Nat |-> IF k = 0 THEN 0
                        ELSE g[k - 1] + B!PackedBit(w * WordBits + k - 1) * B!TwoTo[k - 1]]
    <2> HIDE DEF f
    <2> QED  BY <1>2 DEF Spells
  <1> HIDE DEF f
  <1>4. Spells(PackedBits, f, Value(PackedBits, f))
    BY <1>1, ValueSpells
  <1>5. Spells(PackedBits, f, upTo)
    BY <1>3, <1>4
  <1>6. B!Unsigned(w) = upTo[WordBits]
    BY DEF B!Unsigned
  <1> HIDE DEF upTo
  <1>7. upTo[WordBits] = Value(PackedBits, f)[WordBits]
    BY <1>1, <1>4, <1>5, BoundsAre, SpellingIsUnique
  <1> QED  BY <1>6, <1>7 DEF f

\* The sign bit costs nothing: a word's bits are its value modulo 2^WordBits.
LEMMA SignedIs ==
    ASSUME NEW v \in 0..(B!TwoTo[WordBits] - 1)
    PROVE  /\ B!Signed(v) % B!TwoTo[WordBits] = v
           /\ B!Signed(v) \in -(B!TwoTo[WordBits - 1])..(B!TwoTo[WordBits - 1] - 1)
  <1> DEFINE d == B!TwoTo[WordBits]
             h == B!TwoTo[WordBits - 1]
  <1>1. d = 2 * h /\ h \in Nat \ {0}
    <2> DEFINE k == WordBits - 1
    <2>1. k \in Nat /\ k + 1 = WordBits
      BY BoundsAre
    <2> HIDE DEF k
    <2>2. B!TwoTo[k + 1] = 2 * B!TwoTo[k] /\ B!TwoTo[k] \in Nat \ {0}
      BY <2>1, PowersAre
    <2> QED  BY <2>1, <2>2 DEF k
  <1>2. B!Signed(v) = IF v >= h THEN v - d ELSE v
    BY DEF B!Signed
  <1>3. v \in 0..(d - 1)
    OBVIOUS
  <1> HIDE DEF d, h
  <1>4. d \in Nat \ {0} /\ v \in Int
    BY <1>1, <1>3
  <1>5. \A q \in Int : (d * q + v) % d = v
    BY <1>3, <1>4, Divides
  <1>6. (v - d) % d = v
    <2>1. d * (-1) + v = v - d
      BY <1>4
    <2> QED  BY <1>5, <2>1
  <1>7. v % d = v
    <2>1. d * 0 + v = v
      BY <1>4
    <2> QED  BY <1>5, <2>1
  <1>8. B!Signed(v) % d = v
    BY <1>2, <1>6, <1>7
  <1>9. B!Signed(v) \in -h..(h - 1)
    BY <1>1, <1>2, <1>3
  <1> QED  BY <1>8, <1>9 DEF d, h

\* Every entry's bits spell the entry.
LEMMA EntriesSpelled ==
    ASSUME Packed, NEW i \in 0..(Count - 1)
    PROVE  Value(PackedBits, i * B!Width)[B!Width] = entries[i]
  <1> DEFINE d == B!Width
             f == i * d
             e == entries[i]
  <1>1. d \in Nat \ {0} /\ palette <= B!TwoTo[d]
    BY WidthIs
  <1>2. i \in Nat /\ ~(i >= Count) /\ e \in 0..(palette - 1) /\ e \in Nat
    BY BoundsAre DEF Packed
  <1>3. f \in Nat
    BY <1>1, <1>2
  <1>4. ASSUME NEW j \in 0..(d - 1)
        PROVE  PackedBits[f + j] = (e \div B!TwoTo[j]) % 2
    <2> DEFINE p == f + j
    <2>1. p \in Nat /\ p = d * i + j
      <3> HIDE DEF d
      <3> QED  BY <1>1, <1>2
    <2> HIDE DEF p
    <2>2. p \div d = i /\ p % d = j
      <3>0. i \in Int /\ j \in 0..(d - 1) /\ d \in Nat \ {0}
        BY <1>1, <1>2
      <3> HIDE DEF d
      <3>1. (d * i + j) \div d = i /\ (d * i + j) % d = j
        BY <3>0, Divides
      <3> QED  BY <2>1, <3>1
    <2>3. PackedBits[p] = B!PackedBit(p)
      BY <2>1 DEF PackedBits
    <2>4. B!PackedBit(p) = IF p \div d >= Count THEN 0
                           ELSE (entries[p \div d] \div B!TwoTo[p % d]) % 2
      BY DEF B!PackedBit
    <2>5. B!PackedBit(p) = (e \div B!TwoTo[j]) % 2
      BY <1>2, <2>2, <2>4
    <2> QED  BY <2>3, <2>5 DEF p
  <1>5. PackedBits \in Bits
    BY PackedBitsAre
  <1> HIDE DEF d, f, e
  <1>6. Value(PackedBits, f)[d] = e % B!TwoTo[d]
    BY <1>1, <1>2, <1>3, <1>4, <1>5, BitsSpell
  <1>7. e % B!TwoTo[d] = e
    <2> DEFINE t == B!TwoTo[d]
    <2>1. t \in Nat \ {0}
      BY <1>1, PowersAre
    <2>2. e \in 0..(t - 1)
      BY <1>1, <1>2, <2>1 DEF Packed
    <2> HIDE DEF t
    <2>3. (t * 0 + e) % t = e
      BY <2>1, <2>2, Divides
    <2>4. t * 0 + e = e
      BY <1>2, <2>1
    <2> QED  BY <2>3, <2>4 DEF t
  <1> QED  BY <1>6, <1>7 DEF d, f, e

LongArray == long_array = [w \in 0..(B!Words - 1) |-> B!Signed(B!Unsigned(w))]

LEMMA WordsAre ==
    ASSUME Packed, LongArray, NEW w \in 0..(B!Words - 1)
    PROVE  /\ B!word(w) = Value(PackedBits, w * WordBits)[WordBits]
           /\ B!Unsigned(w) \in 0..(B!TwoTo[WordBits] - 1)
  <1>1. B!Words \in Int
    <2>1. B!Width \in Nat /\ Count \in Nat /\ WordBits \in Nat \ {0}
      BY WidthIs, BoundsAre
    <2>2. Count * B!Width + WordBits - 1 \in Int
      BY <2>1
    <2> QED  BY <2>1, <2>2 DEF B!Words
  <1>2. w \in Nat /\ w * WordBits \in Nat
    BY <1>1, BoundsAre
  <1>3. B!Unsigned(w) = Value(PackedBits, w * WordBits)[WordBits]
    BY <1>2, UnsignedIs
  <1> DEFINE f == w * WordBits
  <1>4. f \in Nat /\ PackedBits \in Bits
    BY <1>2, PackedBitsAre
  <1> HIDE DEF f
  <1>5. Value(PackedBits, f)[WordBits] \in 0..(B!TwoTo[WordBits] - 1)
    BY <1>4, BoundsAre, ValuesAre
  <1>6. B!Unsigned(w) \in 0..(B!TwoTo[WordBits] - 1)
    BY <1>3, <1>5 DEF f
  <1>7. B!Signed(B!Unsigned(w)) % B!TwoTo[WordBits] = B!Unsigned(w)
    BY <1>6, SignedIs
  <1>8. long_array[w] = B!Signed(B!Unsigned(w))
    BY DEF LongArray
  <1> QED  BY <1>3, <1>6, <1>7, <1>8 DEF B!word

LEMMA DividedIs ==
    ASSUME NEW x \in Nat, NEW d \in Nat \ {0}
    PROVE  x \div d \in Nat /\ x % d \in 0..(d - 1) /\ x = d * (x \div d) + (x % d)
  <1> DEFINE q == x \div d
             r == x % d
  <1>1. q \in Int /\ r \in 0..(d - 1) /\ x = d * q + r
    OBVIOUS
  <1> HIDE DEF q, r
  <1>2. ~(q < 0)
    <2> SUFFICES ASSUME q < 0
                 PROVE  FALSE
      OBVIOUS
    <2> DEFINE t == (-q) - 1
    <2>1. t \in Nat /\ q = (-t) - 1
      BY <1>1
    <2> HIDE DEF t
    <2>2. d * q = -(d * t) - d /\ d * t \in Nat
      BY <2>1
    <2> QED  BY <1>1, <2>2
  <1>3. q \in Nat
    BY <1>1, <1>2
  <1> QED  BY <1>1, <1>3 DEF q, r

\* Where the words of an entry are.
LEMMA EntryLiesIn ==
    ASSUME Packed, NEW i \in 0..(Count - 1), NEW s \in Nat, s = i * B!Width
    PROVE  /\ s \div WordBits \in 0..(B!Words - 1)
           /\ ((i + 1) * B!Width - 1) \div WordBits \in 0..(B!Words - 1)
           /\ s % WordBits \in 0..(WordBits - 1)
           /\ s = (s \div WordBits) * WordBits + (s % WordBits)
           /\ ((i + 1) * B!Width - 1) \div WordBits =
                  IF (s % WordBits) + B!Width <= WordBits
                  THEN s \div WordBits ELSE s \div WordBits + 1
  <1> DEFINE d == WordBits
             b == B!Width
             q == s \div d
             r == s % d
             e == (i + 1) * b - 1
             t == Count * b
  <1>1. /\ d \in Nat \ {0} /\ b \in Nat /\ 2 <= b /\ b <= d
        /\ Count \in Nat /\ i \in Nat /\ i + 1 <= Count
    BY WidthIs, BoundsAre
  <1>2. B!Words = (t + d - 1) \div d
    BY DEF B!Words
  <1> HIDE DEF d, b
  <1>3. q \in Nat /\ r \in 0..(d - 1) /\ s = q * d + r
    BY <1>1
  <1>4. e = s + b - 1 /\ e \in Nat
    <2>1. (i + 1) * b = i * b + b
      BY <1>1
    <2> QED  BY <1>1, <2>1 DEF b
  <1>5. e <= t - 1 /\ t \in Nat
    <2>1. (i + 1) * b <= Count * b
      <3>1. \A x, y, z \in Nat : x <= y => x * z <= y * z
        OBVIOUS
      <3> QED  BY <1>1, <3>1
    <2> QED  BY <1>1, <2>1
  <1> HIDE DEF q, r
  <1>6. e \div d = IF r + b <= d THEN q ELSE q + 1
    <2>1. CASE r + b <= d
      <3> DEFINE u == r + b - 1
      <3>1. u \in 0..(d - 1) /\ q \in Int /\ e = d * q + u
        BY <1>1, <1>3, <1>4, <2>1
      <3> HIDE DEF u, e
      <3>2. (d * q + u) \div d = q
        BY <1>1, <3>1, Divides
      <3> QED  BY <2>1, <3>1, <3>2
    <2>2. CASE ~(r + b <= d)
      <3> DEFINE u == r + b - 1 - d
                 p == q + 1
      <3>1. u \in 0..(d - 1) /\ p \in Int
        BY <1>1, <1>3, <2>2
      <3>2. d * p = q * d + d
        BY <1>1, <1>3
      <3>3. e = d * p + u
        BY <1>1, <1>3, <1>4, <3>2
      <3> HIDE DEF u, p, e
      <3>4. (d * p + u) \div d = p
        BY <1>1, <3>1, Divides
      <3> QED  BY <2>2, <3>3, <3>4 DEF p
    <2> QED  BY <2>1, <2>2
  <1> DEFINE p == (t - 1) \div d
             u == (t - 1) % d
  <1>7. p \in Nat /\ u \in 0..(d - 1) /\ t - 1 = d * p + u
    <2>1. t - 1 \in Nat
      BY <1>4, <1>5
    <2> HIDE DEF t, p, u
    <2> QED  BY <1>1, <2>1, DividedIs DEF p, u
  <1>8. B!Words = p + 1
    <2> HIDE DEF p, u, t
    <2>1. t + d - 1 = d * (p + 1) + u
      BY <1>1, <1>5, <1>7
    <2> DEFINE v == p + 1
    <2>2. v \in Int
      BY <1>7
    <2> HIDE DEF v
    <2>3. (d * v + u) \div d = v
      BY <1>1, <1>7, <2>2, Divides
    <2> QED  BY <1>2, <2>1, <2>3 DEF v
  <1> HIDE DEF p, u, t
  <1> DEFINE m == e \div d
             n == e % d
  <1>9. m \in Nat /\ n \in 0..(d - 1) /\ e = d * m + n
    <2> HIDE DEF e
    <2> QED  BY <1>1, <1>4, DividedIs
  <1> HIDE DEF m, n, e
  <1>10. m <= p
    <2> SUFFICES ASSUME m > p
                 PROVE  FALSE
      BY <1>7, <1>9
    <2> DEFINE x == m - p - 1
    <2>1. x \in Nat /\ m = p + 1 + x
      BY <1>7, <1>9
    <2> HIDE DEF x
    <2>2. d * m = d * p + d + d * x /\ d * x \in Nat /\ d * p \in Nat
      BY <1>1, <1>7, <2>1
    <2> QED  BY <1>1, <1>4, <1>5, <1>7, <1>9, <2>2
  <1>11. q <= m
    BY <1>1, <1>3, <1>6 DEF m
  <1>12. m \in 0..(B!Words - 1) /\ q \in 0..(B!Words - 1)
    BY <1>3, <1>7, <1>8, <1>9, <1>10, <1>11
  <1> QED  BY <1>3, <1>6, <1>12 DEF m, e, q, r, d, b

\* An entry is read as it was packed, whether one word holds it or two.
LEMMA ReadsAnEntry ==
    ASSUME Packed, LongArray, indices \in Seq(Nat), B!ReadEntry
    PROVE  /\ Len(indices) \in 0..(Count - 1)
           /\ indices' = Append(indices, entries[Len(indices)])
  <1> DEFINE i == Len(indices)
             b == B!Width
             d == WordBits
             s == i * b
             sw == s \div d
             sb == s % d
             ew == ((i + 1) * b - 1) \div d
             k == d - sb
             V(f) == Value(PackedBits, f)
             low == B!word(sw) \div B!TwoTo[sb]
             high == B!word(ew) * B!TwoTo[k]
             read == IF sw = ew THEN low ELSE low + high
  <1>1. i \in 0..(Count - 1)
    BY BoundsAre DEF B!ReadEntry
  <1>2. B!BitsPerEntry(palette) = b
    BY DEF B!BitsPerEntry, B!Width
  <1>3. indices' = Append(indices, read % B!TwoTo[b])
    BY <1>2 DEF B!ReadEntry, B!Masked
  <1>4. d \in Nat \ {0} /\ b \in Nat /\ 2 <= b /\ b <= d /\ PackedBits \in Bits
    BY WidthIs, BoundsAre, PackedBitsAre
  <1>5. s \in Nat
    <2> HIDE DEF b
    <2> QED  BY <1>1, <1>4
  <1>6. /\ sw \in 0..(B!Words - 1) /\ ew \in 0..(B!Words - 1) /\ sb \in 0..(d - 1)
        /\ s = sw * d + sb /\ ew = IF sb + b <= d THEN sw ELSE sw + 1
    BY <1>1, <1>5, EntryLiesIn
  <1>7. V(s)[b] = entries[i]
    BY <1>1, EntriesSpelled
  <1>8. B!word(sw) = V(sw * d)[d] /\ B!word(ew) = V(ew * d)[d]
    BY <1>6, WordsAre
  <1> HIDE DEF s, sw, sb, ew, b, d, V
  <1>9. sw \in Nat /\ sb \in Nat /\ k \in Nat /\ sb + k = d /\ sw * d \in Nat
    BY <1>4, <1>6
  <1>10. \A f, m, n \in Nat : /\ V(f)[m + n] \div B!TwoTo[m] = V(f + m)[n]
                             /\ V(f)[m + n] % B!TwoTo[m] = V(f)[m]
                             /\ V(f)[m + n] = B!TwoTo[m] * V(f + m)[n] + V(f)[m]
                             /\ V(f)[n] \in Nat
    <2> SUFFICES ASSUME NEW f \in Nat, NEW m \in Nat, NEW n \in Nat
                 PROVE  /\ V(f)[m + n] \div B!TwoTo[m] = V(f + m)[n]
                        /\ V(f)[m + n] % B!TwoTo[m] = V(f)[m]
                        /\ V(f)[m + n] = B!TwoTo[m] * V(f + m)[n] + V(f)[m]
                        /\ V(f)[n] \in Nat
      OBVIOUS
    <2>1. V(f) \in [Nat -> Nat]
      BY <1>4, ValuesAre DEF V
    <2>2. /\ V(f)[m + n] \div B!TwoTo[m] = V(f + m)[n]
          /\ V(f)[m + n] % B!TwoTo[m] = V(f)[m]
      <3> DEFINE bit == PackedBits
      <3>1. bit \in Bits
        BY <1>4
      <3> HIDE DEF bit
      <3>2. /\ Value(bit, f)[m + n] \div B!TwoTo[m] = Value(bit, f + m)[n]
            /\ Value(bit, f)[m + n] % B!TwoTo[m] = Value(bit, f)[m]
        BY <3>1, ValuesDivide
      <3> QED  BY <3>2, Zenon DEF V, bit
    <2>3. V(f)[m + n] = B!TwoTo[m] * V(f + m)[n] + V(f)[m]
      BY <1>4, ValuesSplit DEF V
    <2> QED  BY <2>1, <2>2, <2>3
  <1> HIDE DEF k
  <1>11. low = V(s)[k]
    <2> DEFINE f == sw * d
    <2>0. f \in Nat
      BY <1>9
    <2> HIDE DEF f
    <2>1. V(f)[sb + k] \div B!TwoTo[sb] = V(f + sb)[k]
      BY <1>9, <1>10, <2>0, Zenon
    <2> QED  BY <1>6, <1>8, <1>9, <2>1 DEF f
  <1>12. CASE sb + b <= d
    <2> DEFINE n == k - b
    <2>1. n \in Nat /\ b + n = k /\ sw = ew
      BY <1>4, <1>6, <1>9, <1>12
    <2> HIDE DEF n, low
    <2>2. V(s)[b + n] % B!TwoTo[b] = V(s)[b]
      BY <1>4, <1>5, <1>10, <2>1
    <2>3. read = V(s)[b + n]
      BY <1>11, <2>1
    <2> QED  BY <1>1, <1>3, <1>7, <2>2, <2>3
  <1>13. CASE ~(sb + b <= d)
    <2> DEFINE n == k + d - b
    <2>1. n \in Nat /\ b + n = k + d /\ ew = sw + 1 /\ sw # ew
      BY <1>4, <1>6, <1>9, <1>13
    <2>2. ew * d = s + k
      <3>1. (sw + 1) * d = sw * d + d
        BY <1>4, <1>9
      <3> QED  BY <1>6, <1>9, <2>1, <3>1
    <2>3. V(s)[k + d] = B!TwoTo[k] * V(s + k)[d] + V(s)[k]
      BY <1>4, <1>5, <1>9, <1>10
    <2>4. high = V(s + k)[d] * B!TwoTo[k]
      BY <1>8, <2>2
    <2>5. V(s + k)[d] \in Nat /\ V(s)[k] \in Nat /\ B!TwoTo[k] \in Nat
      <3>1. s + k \in Nat /\ d \in Nat
        BY <1>4, <1>5, <1>9
      <3>2. V(s + k)[d] \in Nat /\ V(s)[k] \in Nat
        BY <1>5, <1>9, <1>10, <3>1, Zenon
      <3> QED  BY <1>9, <3>2, PowersAre
    <2>6. low + high = V(s)[k + d]
      <3> HIDE DEF low, high
      <3>1. \A x, y, z \in Nat : x + y * z = z * y + x
        OBVIOUS
      <3> QED  BY <1>11, <2>3, <2>4, <2>5, <3>1
    <2> HIDE DEF n, low, high
    <2>7. V(s)[b + n] % B!TwoTo[b] = V(s)[b]
      BY <1>4, <1>5, <1>10, <2>1
    <2>8. read = V(s)[b + n]
      BY <2>1, <2>6
    <2> QED  BY <1>1, <1>3, <1>7, <2>7, <2>8
  <1> QED  BY <1>12, <1>13

\* What has been read so far is what was packed.
ReadingInv ==
    /\ Packed
    /\ LongArray
    /\ indices \in Seq(Nat)
    /\ Len(indices) <= Count
    /\ B!ReadsBack

LEMMA ReadingInit == B!Init => ReadingInv
  <1> SUFFICES ASSUME B!Init
               PROVE  ReadingInv
    OBVIOUS
  <1>1. Packed /\ LongArray /\ indices = <<>>
    BY DEF B!Init, Packed, LongArray
  <1> QED  BY <1>1, BoundsAre DEF ReadingInv, B!ReadsBack

LEMMA ReadingStep == ReadingInv /\ B!ReadEntry => ReadingInv'
  <1> SUFFICES ASSUME ReadingInv, B!ReadEntry
               PROVE  ReadingInv'
    OBVIOUS
  <1>1. UNCHANGED <<palette, entries, long_array>>
    BY DEF B!ReadEntry
  <1>2. PICK i : i = Len(indices)
    OBVIOUS
  <1>3. i \in 0..(Count - 1) /\ indices' = Append(indices, entries[i]) /\ indices \in Seq(Nat)
    BY <1>2, ReadsAnEntry DEF ReadingInv
  <1>4. entries[i] \in Nat /\ i \in Nat
    BY <1>3, BoundsAre DEF ReadingInv, Packed
  <1>5. indices' \in Seq(Nat) /\ Len(indices') = i + 1
    BY <1>2, <1>3, <1>4
  <1>6. ASSUME NEW j \in DOMAIN indices'
        PROVE  indices'[j] = entries[j - 1]
    <2>1. j \in 1..(i + 1)
      BY <1>5, <1>6
    <2>2. CASE j = i + 1
      BY <1>2, <1>3, <1>4, <2>2
    <2>3. CASE j # i + 1
      <3>1. j \in 1..i
        BY <1>4, <2>1, <2>3
      <3>2. indices'[j] = indices[j] /\ j \in DOMAIN indices
        BY <1>2, <1>3, <3>1
      <3> QED  BY <3>2 DEF ReadingInv, B!ReadsBack
    <2> QED  BY <2>2, <2>3
  <1>7. B!ReadsBack'
    BY <1>1, <1>6 DEF B!ReadsBack
  <1>8. Packed'
    BY <1>1 DEF ReadingInv, Packed
  <1>9. LongArray'
    BY <1>1 DEF ReadingInv, LongArray, B!Words, B!Width, B!Unsigned, B!PackedBit
  <1>10. i + 1 <= Count
    BY <1>3, <1>4, BoundsAre
  <1> QED  BY <1>5, <1>7, <1>8, <1>9, <1>10 DEF ReadingInv

LEMMA ReadingHolds == MCSafety => []ReadingInv
  <1>1. MCInit => ReadingInv
    BY ReadingInit DEF MCInit
  <1>2. ReadingInv /\ [MCNext]_sub => ReadingInv'
    <2> SUFFICES ASSUME ReadingInv, [MCNext]_sub
                 PROVE  ReadingInv'
      OBVIOUS
    <2>1. CASE B!ReadEntry
      BY <2>1, ReadingStep
    <2>2. CASE UNCHANGED reading
      BY <2>2 DEF reading, ReadingInv, Packed, LongArray, B!ReadsBack,
                  B!Words, B!Width, B!Unsigned, B!PackedBit
    <2> QED  BY <2>1, <2>2 DEF MCNext, sub, reading, B!Next
  <1> QED  BY <1>1, <1>2, PTL DEF MCSafety, sub

\* Whatever the width of a word, the size of the palette and the number of cells,
\* _unpack_block_states gives every palette index back as it was packed: entries
\* that straddle two words, words whose sign bit is set and palettes of one or two
\* entries included.
THEOREM IndicesReadBack == MCSafety => []ReadsBack
  <1>1. ReadingInv => ReadsBack
    BY DEF ReadingInv, ReadsBack
  <1> QED  BY <1>1, ReadingHolds, PTL

-----------------------------------------------------------------------------
(* The words of a command: findall's tokens and the words a player sees.   *)

LEMMA LeastIs ==
    ASSUME NEW n \in Nat, NEW s \in SUBSET (1..n), s # {}
    PROVE  C!Min(s) \in s /\ \A y \in s : C!Min(s) <= y
  <1> DEFINE W == {t \in SUBSET (1..n) : t # {} => \E x \in t : \A y \in t : x <= y}
  <1>1. {} \in W
    OBVIOUS
  <1>2. ASSUME NEW V \in SUBSET (1..n), V # {}, \A X \in SUBSET V : X # V => X \in W
        PROVE  V \in W
    <2>1. PICK v \in V : TRUE
      BY <1>2
    <2>2. V \ {v} \in W
      BY <1>2, <2>1
    <2>3. CASE V \ {v} = {}
      <3>1. \A y \in V : v <= y
        BY <2>3
      <3> QED  BY <3>1
    <2>4. CASE V \ {v} # {}
      <3>1. PICK x \in V \ {v} : \A y \in V \ {v} : x <= y
        BY <2>2, <2>4
      <3>2. CASE x <= v
        BY <3>1, <3>2
      <3>3. CASE ~(x <= v)
        <4>1. \A y \in V : v <= y
          BY <3>1, <3>3
        <4> QED  BY <4>1
      <3> QED  BY <3>2, <3>3
    <2> QED  BY <2>3, <2>4
  <1>3. W = SUBSET (1..n)
    <2>1. IsFiniteSet(1..n)
      BY FS_Interval
    <2> HIDE DEF W
    <2>2. W \in SUBSET SUBSET (1..n)
      BY DEF W
    <2> QED  BY <1>1, <1>2, <2>1, <2>2, SubsetInduction
  <1>4. \E x \in s : \A y \in s : x <= y
    BY <1>3
  <1> QED  BY <1>4 DEF C!Min

\* The first of some places Q up to n, or the place after the last one.
Stop(Q, n) == C!Min(Q \cup {n + 1})

LEMMA StopIs ==
    ASSUME NEW n \in Nat, NEW i \in 1..(n + 1), NEW Q \in SUBSET (i..n)
    PROVE  /\ Stop(Q, n) \in i..(n + 1) /\ (Stop(Q, n) \in Q \/ Stop(Q, n) = n + 1)
           /\ \A j \in i..n : j < Stop(Q, n) => j \notin Q
  <1> DEFINE m == Stop(Q, n)
  <1> DEFINE T2 == Q \cup {n + 1}
  <1>1. T2 \in SUBSET (1..(n + 1)) /\ T2 # {} /\ n + 1 \in Nat
    OBVIOUS
  <1>2. m \in T2 /\ \A y \in T2 : m <= y
    <2> DEFINE k == n + 1
    <2>1. m = C!Min(T2)
      BY DEF Stop
    <2>2. k \in Nat /\ T2 \in SUBSET (1..k) /\ T2 # {}
      BY <1>1
    <2> HIDE DEF T2, k, m
    <2>3. C!Min(T2) \in T2
      BY <2>2, LeastIs
    <2>4. \A y \in T2 : C!Min(T2) <= y
      BY <2>2, LeastIs
    <2> QED  BY <2>1, <2>3, <2>4
  <1> HIDE DEF m
  <1>3. m \in i..(n + 1)
    BY <1>2
  <1>4. \A j \in i..n : j < m => j \notin Q
    BY <1>2, <1>3
  <1> QED  BY <1>2, <1>3, <1>4 DEF m

Text == Seq(STRING)

\* A token is never empty and stays within the text.
LEMMA TokensAdvance ==
    ASSUME NEW s \in Text, NEW i \in 1..Len(s), s[i] # C!Gap
    PROVE  C!TokenEnd(s, i) \in (i + 1)..(Len(s) + 1)
  <1> DEFINE n == Len(s)
             closing == {j \in (i + 1)..n : s[j] = C!Quote}
  <1>1. n \in Nat /\ i \in 1..(n + 1)
    BY DEF Text
  <1> HIDE DEF n
  <1>2. CASE s[i] = C!Quote /\ closing # {}
    <2>1. closing \in SUBSET (1..n)
      BY <1>1
    <2>2. C!Min(closing) \in closing
      BY <1>1, <1>2, <2>1, LeastIs
    <2>3. C!TokenEnd(s, i) = C!Min(closing) + 1
      BY <1>2 DEF C!TokenEnd, C!Quote, C!Digits, C!Flags, n
    <2> QED  BY <1>1, <2>2, <2>3 DEF n
  <1>3. ASSUME NEW Q \in SUBSET (i..n), i \notin Q, C!TokenEnd(s, i) = Stop(Q, n)
        PROVE  C!TokenEnd(s, i) \in (i + 1)..(n + 1)
    <2> DEFINE m == C!TokenEnd(s, i)
    <2>1. m \in i..(n + 1) /\ (m \in Q \/ m = n + 1)
      BY <1>1, <1>3, StopIs
    <2> HIDE DEF m
    <2>2. m # i
      BY <1>1, <1>3, <2>1 DEF n
    <2>3. m \in (i + 1)..(n + 1)
      BY <1>1, <2>1, <2>2
    <2> QED  BY <2>3 DEF m
  <1>4. CASE ~(s[i] = C!Quote /\ closing # {}) /\ s[i] \in C!Digits
    <2> DEFINE Q == {j \in i..n : s[j] \notin C!Digits}
    <2>1. C!TokenEnd(s, i) = Stop(Q, n)
      BY <1>4 DEF C!TokenEnd, C!RunEnd, C!Digits, C!Flags, Stop, n
    <2>2. i \notin Q
      BY <1>4
    <2> HIDE DEF Q
    <2> QED  BY <1>3, <2>1, <2>2 DEF n, Q
  <1>5. CASE ~(s[i] = C!Quote /\ closing # {}) /\ s[i] \notin C!Digits /\ s[i] \in C!Flags
    <2>1. C!TokenEnd(s, i) = i + 1
      BY <1>5 DEF C!TokenEnd, n
    <2> QED  BY <1>1, <2>1 DEF n
  <1>6. CASE ~(s[i] = C!Quote /\ closing # {}) /\ s[i] \notin C!Digits /\ s[i] \notin C!Flags
    <2> DEFINE Q == {j \in i..n : ~(s[j] # C!Gap)}
    <2>1. C!TokenEnd(s, i) = Stop(Q, n)
      BY <1>6 DEF C!TokenEnd, C!RunEnd, Stop, n
    <2>2. i \notin Q
      OBVIOUS
    <2> HIDE DEF Q
    <2> QED  BY <1>3, <2>1, <2>2 DEF n, Q
  <1> QED  BY <1>2, <1>4, <1>5, <1>6

\* The arguments from a place on, as findall finds them.
Found(s, g) ==
    g = [i \in 1..(Len(s) + 1) |->
            IF i > Len(s) THEN <<>>
            ELSE IF s[i] = C!Gap THEN g[i + 1]
            ELSE <<C!coerce(SubSeq(s, i, C!TokenEnd(s, i) - 1))>> \o g[C!TokenEnd(s, i)]]

LEMMA ArgsAreFound ==
    ASSUME NEW s \in Text
    PROVE  \E g : Found(s, g) /\ C!Args(s) = g[1]
  <1> DEFINE n == Len(s)
             F(g, i) == IF i > n THEN <<>>
                        ELSE IF s[i] = C!Gap THEN g[i + 1]
                        ELSE <<C!coerce(SubSeq(s, i, C!TokenEnd(s, i) - 1))>> \o g[C!TokenEnd(s, i)]
             From(g, m) == \A i \in (n + 1 - m)..(n + 1) : g[i] = F(g, i)
             W == {m \in 0..n : \E g : From(g, m)}
  <1>1. n \in Nat
    BY DEF Text
  <1>2. \A i \in 1..n : s[i] # C!Gap => C!TokenEnd(s, i) \in (i + 1)..(n + 1)
    BY TokensAdvance
  <1> HIDE DEF n
  <1>3. \A g, h, i : /\ i \in 1..(n + 1)
                     /\ \A j \in (i + 1)..(n + 1) : g[j] = h[j]
                     => F(g, i) = F(h, i)
    <2> SUFFICES ASSUME NEW g, NEW h, NEW i \in 1..n, \A j \in (i + 1)..(n + 1) : g[j] = h[j]
                 PROVE  F(g, i) = F(h, i)
      BY <1>1
    <2>1. i + 1 \in (i + 1)..(n + 1)
      BY <1>1
    <2> QED  BY <1>2, <2>1
  <1>4. 0 \in W
    <2> DEFINE g == [i \in 1..(n + 1) |-> <<>>]
    <2>1. From(g, 0)
      BY <1>1
    <2> HIDE DEF g, From
    <2> QED  BY <1>1, <2>1
  <1>5. ASSUME NEW m \in 1..n, m - 1 \in W
        PROVE  m \in W
    <2>1. PICK h : From(h, m - 1)
      BY <1>5
    <2> DEFINE k == n + 1 - m
               g == [i \in 1..(n + 1) |-> IF i = k THEN F(h, k) ELSE h[i]]
    <2>2. k \in 1..(n + 1) /\ n + 1 - (m - 1) = k + 1 /\ k \in Nat
      BY <1>1
    <2>3. From(h, m - 1) <=> \A i \in (k + 1)..(n + 1) : h[i] = F(h, i)
      BY <2>2
    <2> HIDE DEF F, k
    <2>4. g[k] = F(h, k) /\ \A i \in (k + 1)..(n + 1) : g[i] = h[i]
      BY <1>1, <2>2
    <2> HIDE DEF g
    <2>5. F(g, k) = F(h, k)
      BY <1>3, <2>2, <2>4
    <2>6. \A i \in (k + 1)..(n + 1) : F(g, i) = F(h, i)
      <3> SUFFICES ASSUME NEW i \in (k + 1)..(n + 1)
                   PROVE  F(g, i) = F(h, i)
        OBVIOUS
      <3>1. i \in 1..(n + 1) /\ \A j \in (i + 1)..(n + 1) : j \in (k + 1)..(n + 1)
        BY <1>1, <2>2
      <3> QED  BY <1>3, <2>4, <3>1
    <2>7. \A i \in k..(n + 1) : i = k \/ i \in (k + 1)..(n + 1)
      BY <1>1, <2>2
    <2>8. \A i \in k..(n + 1) : g[i] = F(g, i)
      BY <2>1, <2>3, <2>4, <2>5, <2>6, <2>7
    <2>9. From(g, m)
      BY <2>8 DEF k
    <2> HIDE DEF From
    <2> QED  BY <1>1, <2>9
  <1>6. W = 0..n
    <2> HIDE DEF W
    <2>1. W \in SUBSET (0..n)
      BY DEF W
    <2> QED  BY <1>1, <1>4, <1>5, <2>1, UpToInduction
  <1>7. PICK h : From(h, n)
    <2>1. n \in 0..n
      BY <1>1
    <2> HIDE DEF From
    <2> QED  BY <1>6, <2>1
  <1> DEFINE f == [i \in 1..(n + 1) |-> h[i]]
  <1>8. f = [i \in 1..(n + 1) |-> F(f, i)]
    <2>1. n + 1 - n = 1
      BY <1>1
    <2>2. \A i \in 1..(n + 1) : h[i] = F(h, i)
      BY <1>7, <2>1
    <2>3. \A i \in 1..(n + 1) : \A j \in (i + 1)..(n + 1) : f[j] = h[j]
      BY <1>1
    <2> HIDE DEF F
    <2>4. \A i \in 1..(n + 1) : f[i] = h[i]
      OBVIOUS
    <2>5. \A i \in 1..(n + 1) : F(f, i) = F(h, i)
      <3> HIDE DEF f
      <3> QED  BY <1>3, <2>3
    <2>6. f = [i \in 1..(n + 1) |-> f[i]]
      OBVIOUS
    <2> HIDE DEF f
    <2> QED  BY <2>2, <2>4, <2>5, <2>6
  <1> HIDE DEF f
  <1>9. Found(s, f)
    BY <1>8 DEF Found, n
  <1> DEFINE from == CHOOSE g : Found(s, g)
  <1>10. Found(s, from)
    BY <1>9
  <1>11. C!Args(s) = from[1]
    BY DEF C!Args, Found
  <1> HIDE DEF from
  <1> QED  BY <1>10, <1>11

LEMMA QuotesStay ==
    ASSUME NEW s, NEW i \in Nat, NEW j \in Nat, 1 <= i, i <= j,
           \A k \in i..(j - 1) : s[k] # C!Quote
    PROVE  C!QuotesBefore(s, j) = C!QuotesBefore(s, i)
  <1>1. \A k \in 1..(j - 1) : k \in 1..(i - 1) \/ k \in i..(j - 1)
    OBVIOUS
  <1>2. \A k \in 1..(i - 1) : k \in 1..(j - 1)
    OBVIOUS
  <1>3. {k \in 1..(j - 1) : s[k] = C!Quote} = {k \in 1..(i - 1) : s[k] = C!Quote}
    BY <1>1, <1>2
  <1> QED  BY <1>3 DEF C!QuotesBefore

\* Where the word that starts at i ends.
WordEnd(s, i) == Stop({j \in i..Len(s) : C!Outside(s, j)}, Len(s))

\* A word starts outside quotes and off the gaps, and runs up to a gap or to the end.
LEMMA WordsLie ==
    ASSUME NEW s \in Text, NEW i \in C!WordStarts(s)
    PROVE  /\ i \in 1..Len(s) /\ Len(s) \in Nat /\ s[i] # C!Gap
           /\ C!QuotesBefore(s, i) % 2 = 0
           /\ WordEnd(s, i) \in (i + 1)..(Len(s) + 1)
           /\ WordEnd(s, i) = Len(s) + 1 \/ C!Outside(s, WordEnd(s, i))
           /\ \A j \in i..(WordEnd(s, i) - 1) : ~C!Outside(s, j)
           /\ C!Word(s, i) = SubSeq(s, i, WordEnd(s, i) - 1)
           /\ C!Word(s, i) \in Text /\ Len(C!Word(s, i)) = WordEnd(s, i) - i
           /\ \A k \in 1..(WordEnd(s, i) - i) : C!Word(s, i)[k] = s[i + k - 1]
  <1> DEFINE n == Len(s)
             e == WordEnd(s, i)
             Q == {j \in i..n : C!Outside(s, j)}
             w == C!Word(s, i)
  <1>1. n \in Nat /\ i \in 1..n /\ ~C!Outside(s, i) /\ (i = 1 \/ C!Outside(s, i - 1))
    BY DEF Text, C!WordStarts
  <1>2. C!QuotesBefore(s, i) % 2 = 0
    <2>1. CASE i = 1
      <3>1. {j \in 1..(i - 1) : s[j] = C!Quote} = {}
        BY <2>1
      <3>2. C!QuotesBefore(s, i) = 0
        BY <3>1, SameCardinality, FS_EmptySet DEF C!QuotesBefore
      <3> QED  BY <3>2
    <2>2. CASE i # 1
      <3>1. C!Outside(s, i - 1) /\ i - 1 \in Nat /\ 1 <= i - 1
        BY <1>1, <2>2
      <3>2. s[i - 1] # C!Quote /\ C!QuotesBefore(s, i - 1) % 2 = 0
        BY <3>1 DEF C!Outside, C!Gap, C!Quote
      <3>3. \A k \in (i - 1)..(i - 1) : k = i - 1
        BY <3>1
      <3>4. C!QuotesBefore(s, i) = C!QuotesBefore(s, i - 1)
        <4> DEFINE p == i - 1
        <4>1. p \in Nat /\ i \in Nat /\ 1 <= p /\ p <= i /\ \A k \in p..(i - 1) : s[k] # C!Quote
          BY <1>1, <3>1, <3>2, <3>3
        <4> HIDE DEF p
        <4>2. C!QuotesBefore(s, i) = C!QuotesBefore(s, p)
          BY <4>1, QuotesStay
        <4> QED  BY <4>2 DEF p
      <3> QED  BY <3>2, <3>4
    <2> QED  BY <2>1, <2>2
  <1>3. s[i] # C!Gap
    BY <1>1, <1>2 DEF C!Outside
  <1>4. e \in i..(n + 1) /\ (e \in Q \/ e = n + 1) /\ \A j \in i..n : j < e => j \notin Q
    <2>1. Q \in SUBSET (i..n) /\ i \in 1..(n + 1) /\ n \in Nat
      BY <1>1
    <2>2. e = Stop(Q, n)
      BY DEF WordEnd
    <2> HIDE DEF n, e, Q
    <2> QED  BY <2>1, <2>2, StopIs
  <1>5. w = SubSeq(s, i, e - 1)
    BY DEF C!Word, WordEnd, Stop
  <1>6. e # i
    BY <1>1, <1>4
  <1> HIDE DEF e, w
  <1>7. e \in (i + 1)..(n + 1)
    BY <1>1, <1>4, <1>6
  <1>8. \A j \in i..(e - 1) : ~C!Outside(s, j)
    <2> SUFFICES ASSUME NEW j \in i..(e - 1)
                 PROVE  j \in i..n /\ j < e
      BY <1>4
    <2> QED  BY <1>1, <1>7
  <1>9. w \in Text /\ Len(w) = e - i /\ \A k \in 1..(e - i) : w[k] = s[i + k - 1]
    <2>1. i \in 1..n /\ e - 1 \in i..n /\ s \in Text /\ n = Len(s)
      BY <1>1, <1>7
    <2>2. (e - 1) - i + 1 = e - i
      BY <1>1, <1>7
    <2> DEFINE b == e - 1
    <2> HIDE DEF n, b
    <2>3. w = SubSeq(s, i, b) /\ b \in i..n
      BY <1>5, <2>1 DEF b
    <2>4. /\ SubSeq(s, i, b) \in Text /\ Len(SubSeq(s, i, b)) = b - i + 1
          /\ \A k \in 1..(b - i + 1) : SubSeq(s, i, b)[k] = s[i + k - 1]
      BY <2>1, <2>3, SubSeqProperties DEF Text
    <2> QED  BY <2>2, <2>3, <2>4 DEF b
  <1>10. e = n + 1 \/ C!Outside(s, e)
    BY <1>4
  <1> QED  BY <1>1, <1>2, <1>3, <1>5, <1>7, <1>8, <1>9, <1>10 DEF e, w

\* A plain word is one token, and means what its token is coerced to.
LEMMA PlainWordsAreTokens ==
    ASSUME NEW s \in Text, NEW i \in C!WordStarts(s), C!Plain(C!Word(s, i))
    PROVE  /\ C!TokenEnd(s, i) = WordEnd(s, i)
           /\ C!coerce(SubSeq(s, i, WordEnd(s, i) - 1)) = C!Meaning(C!Word(s, i))
  <1> DEFINE n == Len(s)
             e == WordEnd(s, i)
             w == C!Word(s, i)
             l == e - i
             closing == {j \in (i + 1)..n : s[j] = C!Quote}
  <1>1. /\ n \in Nat /\ i \in 1..n /\ s[i] # C!Gap /\ C!QuotesBefore(s, i) % 2 = 0
        /\ e \in (i + 1)..(n + 1) /\ (e = n + 1 \/ C!Outside(s, e))
        /\ \A j \in i..(e - 1) : ~C!Outside(s, j)
        /\ w = SubSeq(s, i, e - 1) /\ w \in Text /\ Len(w) = l
        /\ \A k \in 1..l : w[k] = s[i + k - 1]
    BY WordsLie
  <1>2. C!Plain(w)
    OBVIOUS
  <1> HIDE DEF e, w
  <1>3. /\ l \in Nat /\ 1 \in 1..l /\ l \in 1..l /\ DOMAIN w = 1..l /\ w[1] = s[i] /\ w[l] = s[e - 1]
        /\ \A j \in i..(e - 1) : j - i + 1 \in 1..l /\ w[j - i + 1] = s[j]
    <2>1. l \in Nat /\ 1 \in 1..l /\ l \in 1..l /\ DOMAIN w = 1..l
      BY <1>1 DEF Text
    <2>2. i + 1 - 1 = i /\ i + l - 1 = e - 1
      BY <1>1
    <2>3. \A j \in i..(e - 1) : j - i + 1 \in 1..l /\ i + (j - i + 1) - 1 = j
      BY <1>1
    <2> HIDE DEF l
    <2> QED  BY <1>1, <2>1, <2>2, <2>3
  <1> HIDE DEF l
  <1>4. CASE C!Bare(w)
    <2>1. \A j \in i..(e - 1) : s[j] # C!Quote
      BY <1>3, <1>4 DEF C!Bare
    <2>2. ASSUME NEW j \in i..(e - 1)
          PROVE  s[j] # C!Gap
      <3>1. j \in Nat /\ i \in Nat /\ 1 <= i /\ i <= j
        BY <1>1
      <3>2. \A k \in i..(j - 1) : k \in i..(e - 1)
        BY <1>1
      <3>3. C!QuotesBefore(s, j) = C!QuotesBefore(s, i)
        BY <2>1, <3>1, <3>2, QuotesStay
      <3> QED  BY <1>1, <3>3 DEF C!Outside
    <2>3. s[i] # C!Quote /\ ~C!Mixed(w)
      BY <1>1, <1>2, <1>4, <2>1 DEF C!Plain
    <2>4. \A Q \in SUBSET (i..n) :
              (\A j \in i..(e - 1) : j \notin Q) /\ (e # n + 1 => e \in Q)
                => Stop(Q, n) = e
      <3> SUFFICES ASSUME NEW Q \in SUBSET (i..n), \A j \in i..(e - 1) : j \notin Q,
                          e # n + 1 => e \in Q
                   PROVE  Stop(Q, n) = e
        OBVIOUS
      <3> DEFINE m == Stop(Q, n)
      <3>0. i \in 1..(n + 1)
        BY <1>1
      <3>1. m \in i..(n + 1) /\ (m \in Q \/ m = n + 1) /\ \A j \in i..n : j < m => j \notin Q
        <4>1. n \in Nat
          BY <1>1
        <4> HIDE DEF n
        <4> QED  BY <3>0, <4>1, StopIs
      <3> HIDE DEF m, n
      <3>2. ~(m < e)
        <4> SUFFICES ASSUME m < e
                     PROVE  FALSE
          OBVIOUS
        <4>1. m \in i..(e - 1) /\ m # n + 1
          BY <1>1, <3>1
        <4> QED  BY <3>1, <4>1
      <3>3. ~(e < m)
        <4> SUFFICES ASSUME e < m
                     PROVE  FALSE
          OBVIOUS
        <4>1. e \in i..n /\ e # n + 1
          BY <1>1, <3>1
        <4> QED  BY <3>1, <4>1
      <3> QED  BY <1>1, <3>1, <3>2, <3>3 DEF m
    <2>5. e # n + 1 => e \in i..n /\ s[e] = C!Gap
      <3> SUFFICES ASSUME e # n + 1
                   PROVE  e \in i..n /\ s[e] = C!Gap
        OBVIOUS
      <3>1. C!Outside(s, e) /\ e \in (i + 1)..(n + 1) /\ n \in Nat /\ i \in 1..n
        BY <1>1
      <3>2. s[e] = C!Gap
        BY <3>1 DEF C!Outside
      <3> HIDE DEF n
      <3>3. e \in i..n
        BY <3>1
      <3> QED  BY <3>2, <3>3
    <2>6. CASE s[i] \in C!Digits
      <3>1. \A j \in i..(e - 1) : s[j] \in C!Digits
        BY <1>3, <1>4, <2>3, <2>6 DEF C!Mixed
      <3> DEFINE Q == {j \in i..n : s[j] \notin C!Digits}
      <3>2. C!TokenEnd(s, i) = Stop(Q, n)
        BY <2>3, <2>6 DEF C!TokenEnd, C!RunEnd, C!Digits, C!Flags, Stop
      <3>3. e # n + 1 => s[e] \notin C!Digits
        BY <2>5 DEF C!Digits, C!Gap
      <3>4. C!TokenEnd(s, i) = e
        BY <2>4, <2>5, <3>1, <3>2, <3>3
      <3>5. \A k \in 1..l : w[k] \in C!Digits
        BY <1>3, <1>4, <2>3, <2>6 DEF C!Mixed
      <3>6. C!coerce(w) = C!Number(w)
        BY <1>1, <1>3, <3>5 DEF C!coerce, C!Digits, C!Flags, C!Quote
      <3>7. C!Meaning(w) = C!Number(w)
        BY <1>3, <2>3, <2>6 DEF C!Meaning
      <3> QED  BY <1>1, <3>4, <3>6, <3>7 DEF e, w
    <2>7. CASE s[i] \in C!Flags
      <3>1. l = 1 /\ e = i + 1
        BY <1>1, <1>3, <1>4, <2>3, <2>7 DEF C!Mixed, l
      <3>2. C!TokenEnd(s, i) = e
        BY <2>3, <2>7, <3>1 DEF C!TokenEnd, C!Digits, C!Flags
      <3>3. w # <<"nan">>
        BY <1>3, <2>7 DEF C!Flags
      <3>4. C!coerce(w) = C!Flag(w)
        BY <1>1, <1>3, <2>7, <3>1, <3>3 DEF C!coerce, C!Digits, C!Flags, C!Quote, C!FloatWords
      <3>5. C!Meaning(w) = C!Flag(w)
        BY <1>3, <2>3, <2>7, <3>3 DEF C!Meaning, C!Digits, C!Flags, C!FloatWords
      <3> QED  BY <1>1, <3>2, <3>4, <3>5 DEF e, w
    <2>8. CASE s[i] \notin C!Digits /\ s[i] \notin C!Flags
      <3> DEFINE Q == {j \in i..n : ~(s[j] # C!Gap)}
      <3>1. C!TokenEnd(s, i) = Stop(Q, n)
        BY <2>3, <2>8 DEF C!TokenEnd, C!RunEnd, Stop
      <3>2. C!TokenEnd(s, i) = e
        BY <2>2, <2>4, <2>5, <3>1
      <3>3. C!coerce(w) = IF w \in C!FloatWords THEN C!Number(w) ELSE C!Text(w)
        BY <1>1, <1>3, <2>3, <2>8 DEF C!coerce
      <3>4. C!Meaning(w) = IF w \in C!FloatWords THEN C!Number(w) ELSE C!Text(w)
        BY <1>3, <2>3, <2>8 DEF C!Meaning
      <3> QED  BY <1>1, <3>2, <3>3, <3>4 DEF e, w
    <2> QED  BY <2>6, <2>7, <2>8
  <1>5. CASE ~C!Bare(w)
    <2>1. w[1] = C!Quote /\ w[l] = C!Quote /\ C!QuotesBefore(w, l) = 1
      BY <1>1, <1>2, <1>5 DEF C!Plain
    <2> DEFINE first == {j \in 1..(l - 1) : w[j] = C!Quote}
    <2>2. Cardinality(first) = 1
      BY <2>1, SameCardinality DEF C!QuotesBefore
    <2>3. IsFiniteSet(first)
      <3>1. IsFiniteSet(1..(l - 1)) /\ first \subseteq 1..(l - 1)
        BY <1>3, FS_Interval
      <3> QED  BY <3>1, FS_Subset
    <2>4. l # 1
      <3> SUFFICES ASSUME l = 1
                   PROVE  FALSE
        OBVIOUS
      <3>1. first = {}
        OBVIOUS
      <3> QED  BY <2>2, <3>1, FS_EmptySet
    <2>5. first = {1}
      <3>1. 1 \in first
        BY <1>3, <2>1, <2>4
      <3> HIDE DEF first
      <3>2. \E x : first = {x}
        BY <2>2, <2>3, FS_Singleton
      <3> QED  BY <3>1, <3>2
    <2>6. \A j \in (i + 1)..(e - 2) : s[j] # C!Quote
      <3> SUFFICES ASSUME NEW j \in (i + 1)..(e - 2)
                   PROVE  s[j] # C!Quote
        OBVIOUS
      <3>1. j \in i..(e - 1) /\ j - i + 1 \in 1..(l - 1) /\ j - i + 1 # 1
        BY <1>1 DEF l
      <3> QED  BY <1>3, <2>5, <3>1
    <2>7. e - 1 \in closing /\ s[i] = C!Quote
      <3>1. e - 1 \in (i + 1)..n
        BY <1>1, <1>3, <2>4 DEF l
      <3> QED  BY <1>3, <2>1, <3>1
    <2>8. C!Min(closing) = e - 1
      <3> DEFINE m == C!Min(closing)
      <3>0. \A j \in (i + 1)..n : j \in 1..n
        BY <1>1
      <3>1. closing \in SUBSET (1..n) /\ closing # {}
        BY <2>7, <3>0
      <3>2. m \in closing /\ \A y \in closing : m <= y
        <4> HIDE DEF closing, n
        <4> QED  BY <1>1, <3>1, LeastIs
      <3>3. m \in (i + 1)..n /\ s[m] = C!Quote /\ m <= e - 1
        BY <2>7, <3>2
      <3> HIDE DEF m
      <3>4. ~(m < e - 1)
        BY <1>1, <2>6, <3>3
      <3>5. m = e - 1
        BY <1>1, <3>3, <3>4
      <3> QED  BY <3>5 DEF m
    <2>9. C!TokenEnd(s, i) = e
      <3>1. C!TokenEnd(s, i) = C!Min(closing) + 1
        BY <2>7 DEF C!TokenEnd, C!Quote, C!Digits, C!Flags
      <3> HIDE DEF closing
      <3> QED  BY <1>1, <2>8, <3>1
    <2>10. C!coerce(w) = C!Text(SubSeq(w, 2, Len(w) - 1))
      BY <1>1, <1>3, <2>1, <2>4 DEF C!coerce, C!Digits, C!Flags, C!Quote, C!FloatWords
    <2>11. C!Meaning(w) = C!Text(SubSeq(w, 2, Len(w) - 1))
      BY <2>1 DEF C!Meaning
    <2> QED  BY <1>1, <2>9, <2>10, <2>11 DEF e, w
  <1> QED  BY <1>4, <1>5

\* How many words start earlier a place.
Rank(s, i) == Cardinality({j \in C!WordStarts(s) : j < i})

LEMMA StartsAre ==
    ASSUME NEW s \in Text
    PROVE  /\ Len(s) \in Nat /\ C!WordStarts(s) \subseteq 1..Len(s)
           /\ IsFiniteSet(C!WordStarts(s))
           /\ \A i : Rank(s, i) \in Nat /\ IsFiniteSet({j \in C!WordStarts(s) : j < i})
  <1> DEFINE starts == C!WordStarts(s)
  <1>1. Len(s) \in Nat /\ starts \subseteq 1..Len(s)
    BY DEF Text, C!WordStarts
  <1> HIDE DEF starts
  <1>2. IsFiniteSet(starts)
    <2>1. IsFiniteSet(1..Len(s))
      BY <1>1, FS_Interval
    <2> QED  BY <1>1, <2>1, FS_Subset
  <1>3. ASSUME NEW i
        PROVE  IsFiniteSet({j \in starts : j < i}) /\ Cardinality({j \in starts : j < i}) \in Nat
    <2> DEFINE earlier == {j \in starts : j < i}
    <2>1. earlier \subseteq starts
      OBVIOUS
    <2> HIDE DEF earlier
    <2>2. IsFiniteSet(earlier)
      BY <1>2, <2>1, FS_Subset
    <2> QED  BY <2>2, FS_CardinalityType DEF earlier
  <1> QED  BY <1>1, <1>2, <1>3 DEF starts, Rank

LEMMA RanksAre ==
    ASSUME NEW s \in Text
    PROVE  /\ Rank(s, 1) = 0
           /\ Rank(s, Len(s) + 1) = Cardinality(C!WordStarts(s))
           /\ \A i \in 1..Len(s) : i \notin C!WordStarts(s) => Rank(s, i + 1) = Rank(s, i)
           /\ \A i \in C!WordStarts(s) : Rank(s, WordEnd(s, i)) = Rank(s, i) + 1
           /\ \A i, j \in C!WordStarts(s) : Rank(s, i) = Rank(s, j) => i = j
  <1> DEFINE starts == C!WordStarts(s)
             n == Len(s)
             earlier(i) == {j \in starts : j < i}
  <1>1. n \in Nat /\ starts \subseteq 1..n /\ IsFiniteSet(starts)
    BY StartsAre
  <1>2. \A i : IsFiniteSet(earlier(i)) /\ Rank(s, i) = Cardinality(earlier(i)) /\ Rank(s, i) \in Nat
    BY StartsAre DEF Rank
  <1>3. \A i \in starts : /\ WordEnd(s, i) \in (i + 1)..(n + 1)
                          /\ \A j \in i..(WordEnd(s, i) - 1) : ~C!Outside(s, j)
    BY WordsLie
  <1>4. \A i \in starts : i = 1 \/ C!Outside(s, i - 1)
    BY DEF C!WordStarts
  <1> HIDE DEF starts, n
  <1>o. \A j \in starts : j \in Nat /\ ~(j < 1) /\ j < n + 1
    BY <1>1
  <1>5. earlier(1) = {} /\ earlier(n + 1) = starts
    BY <1>o
  <1>6. ASSUME NEW i \in 1..n, i \notin starts
        PROVE  Rank(s, i + 1) = Rank(s, i)
    <2>0. \A j \in starts : j < i + 1 <=> j < i
      BY <1>o, <1>6
    <2>1. earlier(i + 1) = earlier(i)
      BY <2>0
    <2> HIDE DEF earlier
    <2> QED  BY <1>2, <2>1
  <1>7. ASSUME NEW i \in starts
        PROVE  Rank(s, WordEnd(s, i)) = Rank(s, i) + 1
    <2> DEFINE e == WordEnd(s, i)
    <2>1. e \in (i + 1)..(n + 1) /\ \A j \in i..(e - 1) : ~C!Outside(s, j)
      BY <1>3
    <2> HIDE DEF e
    <2>2. ASSUME NEW j \in starts, j < e, ~(j < i)
          PROVE  j = i
      <3> SUFFICES ASSUME j # i
                   PROVE  FALSE
        OBVIOUS
      <3>1. j # 1 /\ j - 1 \in i..(e - 1)
        BY <1>1, <2>1, <2>2
      <3> QED  BY <1>4, <2>1, <3>1
    <2>3. i \in Nat /\ i < e /\ ~(i < i) /\ \A j \in starts : j < i => j < e
      BY <1>o, <2>1
    <2>4. earlier(e) = earlier(i) \cup {i} /\ i \notin earlier(i)
      <3>1. \A j \in starts : j < e <=> j < i \/ j = i
        BY <2>2, <2>3
      <3> QED  BY <2>3, <3>1
    <2>5. Cardinality(earlier(i) \cup {i}) = Cardinality(earlier(i)) + 1
      <3> DEFINE b == earlier(i)
      <3>1. IsFiniteSet(b) /\ i \notin b
        BY <1>2, <2>4
      <3> HIDE DEF b
      <3>2. Cardinality(b \cup {i}) = Cardinality(b) + 1
        BY <3>1, FS_AddElement
      <3> QED  BY <3>2 DEF b
    <2> HIDE DEF earlier
    <2> QED  BY <1>2, <2>4, <2>5 DEF e
  <1>8. ASSUME NEW i \in starts, NEW j \in starts, i < j
        PROVE  Rank(s, i) < Rank(s, j)
    <2> DEFINE b == earlier(i)
               c == earlier(j)
    <2>0. i < j /\ ~(i < i) /\ \A k \in starts : k < i => k < j
      BY <1>o, <1>8
    <2>1. b \subseteq c /\ i \in c /\ i \notin b
      BY <2>0
    <2>2. IsFiniteSet(b) /\ IsFiniteSet(c)
      BY <1>2
    <2>3. Rank(s, i) = Cardinality(b) /\ Rank(s, j) = Cardinality(c)
      BY <1>2
    <2>4. Rank(s, i) \in Nat /\ Rank(s, j) \in Nat
      BY <1>2
    <2> HIDE DEF b, c
    <2>5. Cardinality(b) <= Cardinality(c) /\ (Cardinality(b) = Cardinality(c) => b = c)
      BY <2>1, <2>2, FS_Subset
    <2> QED  BY <2>1, <2>3, <2>4, <2>5
  <1>9. \A i, j \in starts : Rank(s, i) = Rank(s, j) => i = j
    <2> SUFFICES ASSUME NEW i \in starts, NEW j \in starts, Rank(s, i) = Rank(s, j), i # j
                 PROVE  FALSE
      OBVIOUS
    <2>1. i < j \/ j < i
      BY <1>1
    <2>2. Rank(s, i) < Rank(s, j) \/ Rank(s, j) < Rank(s, i)
      BY <1>8, <2>1
    <2>3. Rank(s, i) \in Nat /\ Rank(s, j) \in Nat
      BY <1>2
    <2> QED  BY <2>2, <2>3
  <1>10. Rank(s, 1) = 0 /\ Rank(s, n + 1) = Cardinality(starts)
    <2>1. Rank(s, 1) = Cardinality({})
      BY <1>2, <1>5
    <2>2. Rank(s, n + 1) = Cardinality(earlier(n + 1))
      BY <1>2
    <2> QED  BY <1>5, <2>1, <2>2, FS_EmptySet
  <1> QED  BY <1>6, <1>7, <1>9, <1>10 DEF starts, n

\* An argument for each word, in their order, when every word is plain.
LEMMA ArgsAreWords ==
    ASSUME NEW s \in Text, \A i \in C!WordStarts(s) : C!Plain(C!Word(s, i))
    PROVE  /\ \E V : C!Args(s) \in Seq(V)
           /\ Len(C!Args(s)) = Cardinality(C!WordStarts(s))
           /\ \A k \in 1..Cardinality(C!WordStarts(s)) : \E j \in C!WordStarts(s) :
                Rank(s, j) = k - 1 /\ C!Args(s)[k] = C!Meaning(C!Word(s, j))
  <1> DEFINE n == Len(s)
             starts == C!WordStarts(s)
             V == {C!Meaning(C!Word(s, j)) : j \in starts}
             all == Cardinality(starts)
  <1>1. PICK g : Found(s, g) /\ C!Args(s) = g[1]
    BY ArgsAreFound
  <1> DEFINE Boundary(i) == i = n + 1 \/ C!Outside(s, i) \/ i \in starts
             Shown(i) == /\ g[i] \in Seq(V)
                         /\ Len(g[i]) = all - Rank(s, i)
                         /\ \A k \in 1..(all - Rank(s, i)) : \E j \in starts :
                              Rank(s, j) = Rank(s, i) + k - 1 /\ g[i][k] = C!Meaning(C!Word(s, j))
             P(i) == Boundary(i) => Shown(i)
             W == {m \in 0..n : \A i \in (n + 1 - m)..(n + 1) : P(i)}
  <1>2. n \in Nat /\ starts \subseteq 1..n /\ all \in Nat /\ \A i : Rank(s, i) \in Nat
    BY StartsAre, FS_CardinalityType
  <1>3. g[n + 1] = <<>> /\ \A i \in 1..n :
            g[i] = IF s[i] = C!Gap THEN g[i + 1]
                   ELSE <<C!coerce(SubSeq(s, i, C!TokenEnd(s, i) - 1))>> \o g[C!TokenEnd(s, i)]
    <2>1. n + 1 \in 1..(n + 1) /\ n + 1 > n /\ \A i \in 1..n : i \in 1..(n + 1) /\ ~(i > n)
      BY <1>2
    <2> QED  BY <1>1, <2>1 DEF Found
  <1>4. /\ Rank(s, 1) = 0 /\ Rank(s, n + 1) = all
        /\ \A i \in 1..n : i \notin starts => Rank(s, i + 1) = Rank(s, i)
        /\ \A i \in starts : Rank(s, WordEnd(s, i)) = Rank(s, i) + 1
    BY RanksAre
  <1>5. \A i \in starts : /\ s[i] # C!Gap /\ C!TokenEnd(s, i) = WordEnd(s, i)
                          /\ C!coerce(SubSeq(s, i, WordEnd(s, i) - 1)) = C!Meaning(C!Word(s, i))
                          /\ WordEnd(s, i) \in (i + 1)..(n + 1)
                          /\ WordEnd(s, i) = n + 1 \/ C!Outside(s, WordEnd(s, i))
    BY WordsLie, PlainWordsAreTokens
  <1>6. \A i \in 1..n : C!Outside(s, i) => /\ s[i] = C!Gap /\ i \notin starts
                                           /\ i + 1 \in 1..n /\ ~C!Outside(s, i + 1) => i + 1 \in starts
    <2>1. DOMAIN s = 1..n
      BY DEF Text
    <2>2. \A i \in 1..n : i + 1 # 1 /\ (i + 1) - 1 = i
      OBVIOUS
    <2> HIDE DEF n
    <2> QED  BY <2>1, <2>2 DEF starts, C!WordStarts, C!Outside
  <1> HIDE DEF n, starts, all
  <1>7. Shown(n + 1)
    BY <1>2, <1>3, <1>4
  <1>8. ASSUME NEW i \in 1..n, \A j \in (i + 1)..(n + 1) : P(j)
        PROVE  P(i)
    <2> SUFFICES ASSUME Boundary(i)
                 PROVE  Shown(i)
      OBVIOUS
    <2>1. CASE C!Outside(s, i)
      <3>1. i + 1 \in (i + 1)..(n + 1) /\ i + 1 \in Nat /\ (i + 1 = n + 1 \/ i + 1 \in 1..n)
        BY <1>2
      <3>2. Boundary(i + 1)
        BY <1>6, <2>1, <3>1
      <3>3. Shown(i + 1)
        <4> HIDE DEF Boundary, Shown
        <4> QED  BY <1>8, <3>1, <3>2
      <3>4. g[i] = g[i + 1] /\ Rank(s, i + 1) = Rank(s, i)
        BY <1>3, <1>4, <1>6, <2>1
      <3> QED  BY <3>3, <3>4
    <2>2. CASE i \in starts
      <3> DEFINE e == WordEnd(s, i)
                 x == C!Meaning(C!Word(s, i))
                 r == g[e]
                 c == all - Rank(s, e)
      <3>1. e \in (i + 1)..(n + 1) /\ Boundary(e)
        BY <1>5, <2>2
      <3>2. Shown(e)
        <4> HIDE DEF e, Boundary, Shown
        <4> QED  BY <1>8, <3>1
      <3>3. g[i] = <<x>> \o r
        BY <1>3, <1>5, <2>2
      <3>4. Rank(s, e) = Rank(s, i) + 1 /\ Rank(s, i) \in Nat
        BY <1>2, <1>4, <2>2
      <3>5. x \in V /\ r \in Seq(V) /\ Len(r) = c
        BY <2>2, <3>2
      <3>6. \A k \in 1..c : \E j \in starts :
                Rank(s, j) = Rank(s, e) + k - 1 /\ r[k] = C!Meaning(C!Word(s, j))
        BY <3>2
      <3> HIDE DEF e, x, V, r
      <3>7. /\ g[i] \in Seq(V) /\ Len(g[i]) = c + 1 /\ g[i][1] = x
            /\ \A k \in 2..(c + 1) : g[i][k] = r[k - 1]
        BY <3>3, <3>5
      <3>8. c + 1 = all - Rank(s, i) /\ c \in Nat
        BY <1>2, <3>4, <3>5
      <3>9. ASSUME NEW k \in 1..(c + 1)
            PROVE  \E j \in starts :
                     Rank(s, j) = Rank(s, i) + k - 1 /\ g[i][k] = C!Meaning(C!Word(s, j))
        <4>1. CASE k = 1
          BY <2>2, <3>4, <3>7, <4>1 DEF x
        <4>2. CASE k # 1
          <5>1. k - 1 \in 1..c /\ k \in 2..(c + 1)
            BY <3>8, <4>2
          <5>2. PICK j \in starts : Rank(s, j) = Rank(s, e) + (k - 1) - 1
                                    /\ r[k - 1] = C!Meaning(C!Word(s, j))
            BY <3>6, <5>1
          <5>3. Rank(s, j) = Rank(s, i) + k - 1
            BY <3>4, <5>1, <5>2
          <5> QED  BY <3>7, <5>1, <5>2, <5>3
        <4> QED  BY <4>1, <4>2
      <3> QED  BY <3>7, <3>8, <3>9
    <2> QED  BY <1>2, <2>1, <2>2
  <1> HIDE DEF V, Boundary, Shown
  <1>9. 0 \in W
    <2>1. \A i \in (n + 1 - 0)..(n + 1) : i = n + 1
      BY <1>2
    <2> QED  BY <1>2, <1>7, <2>1
  <1>10. ASSUME NEW m \in 1..n, m - 1 \in W
         PROVE  m \in W
    <2> DEFINE k == n + 1 - m
    <2>1. k \in 1..n /\ n + 1 - (m - 1) = k + 1 /\ m \in 0..n
      BY <1>2
    <2>2. \A i \in (k + 1)..(n + 1) : P(i)
      BY <1>10, <2>1
    <2> HIDE DEF k, P
    <2>3. P(k)
      BY <1>8, <2>1, <2>2
    <2>4. \A i \in k..(n + 1) : i = k \/ i \in (k + 1)..(n + 1)
      BY <1>2, <2>1
    <2>5. \A i \in k..(n + 1) : P(i)
      BY <2>2, <2>3, <2>4
    <2> QED  BY <2>1, <2>5 DEF k
  <1>11. W = 0..n
    <2> HIDE DEF W
    <2>1. W \in SUBSET (0..n)
      BY DEF W
    <2> QED  BY <1>2, <1>9, <1>10, <2>1, UpToInduction
  <1>12. P(1)
    <2>1. n \in W /\ 1 \in (n + 1 - n)..(n + 1)
      BY <1>2, <1>11
    <2> HIDE DEF P
    <2> QED  BY <2>1
  <1>13. Boundary(1)
    <2>1. CASE n = 0
      BY <2>1 DEF Boundary
    <2>2. CASE n # 0
      <3>1. 1 \in DOMAIN s
        BY <1>2, <2>2 DEF Text, n
      <3> QED  BY <3>1 DEF Boundary, starts, C!WordStarts
    <2> QED  BY <2>1, <2>2
  <1>14. Shown(1)
    BY <1>12, <1>13
  <1>15. all - Rank(s, 1) = all /\ \A k \in Nat : Rank(s, 1) + k - 1 = k - 1
    BY <1>2, <1>4
  <1>16. g[1] \in Seq(V) /\ Len(g[1]) = all
    BY <1>14, <1>15 DEF Shown
  <1>17. \A k \in 1..all : \E j \in starts :
            Rank(s, j) = k - 1 /\ g[1][k] = C!Meaning(C!Word(s, j))
    BY <1>14, <1>15 DEF Shown
  <1> QED  BY <1>1, <1>16, <1>17 DEF all, starts

LEMMA LinesAreText == Lines \subseteq Text
  BY PartsAssumption DEF Text

LEMMA ActionsAre == \A name \in DOMAIN Actions : Actions[name].takes \in Nat
  BY PartsAssumption

\* A part of a text is a text.
LEMMA PartsAreText ==
    ASSUME NEW s \in Text, NEW a \in 1..(Len(s) + 1), NEW b \in (a - 1)..Len(s)
    PROVE  /\ SubSeq(s, a, b) \in Text /\ Len(SubSeq(s, a, b)) = b - a + 1
           /\ \A k \in 1..(b - a + 1) : SubSeq(s, a, b)[k] = s[a + k - 1]
  <1>1. Len(s) \in Nat /\ s \in Seq(STRING)
    BY DEF Text
  <1>2. CASE a <= b
    <2>1. \A k \in a..b : k \in 1..Len(s)
      BY <1>1
    <2> QED  BY <1>1, <1>2, <2>1 DEF Text
  <1>3. CASE ~(a <= b)
    <2>1. SubSeq(s, a, b) = <<>> /\ b - a + 1 = 0
      BY <1>1, <1>3
    <2> QED  BY <2>1 DEF Text
  <1> QED  BY <1>2, <1>3

\* What findall looks at is what was typed after the command's name.
LEMMA TypedIs ==
    ASSUME line \in Text, C!NameStarts(line) # {}
    PROVE  /\ C!Typed \in Text
           /\ \/ C!parse_command(line).args = C!Args(C!Typed)
              \/ C!parse_command(line).args = <<>>
  <1> DEFINE n == Len(line)
             start == C!Min(C!NameStarts(line))
             Q == {j \in start..n : ~C!WordAtom(line[j])}
             e == Stop(Q, n)
             rest == SubSeq(line, e, n)
             m == n - e + 1
             R == {j \in 1..m : ~(rest[j] # C!Bang)}
             f == Stop(R, m)
             bangs == {j \in e..n : line[j] = C!Bang}
             upTo == IF bangs = {} THEN n ELSE C!Min(bangs) - 1
  <1>1. n \in Nat
    BY DEF Text
  <1>2. start \in 1..n
    <2> DEFINE Z == C!NameStarts(line)
    <2>1. Z \in SUBSET (1..n) /\ Z # {}
      BY <1>1 DEF C!NameStarts
    <2> HIDE DEF Z, n
    <2>2. C!Min(Z) \in Z
      BY <1>1, <2>1, LeastIs
    <2> QED  BY <2>1, <2>2 DEF Z
  <1>3. C!parse_command(line).name = SubSeq(line, start, e - 1)
    BY DEF C!parse_command, C!RunEnd, Stop
  <1>4. /\ rest # <<>> /\ rest[1] = C!Gap =>
              C!parse_command(line).args = C!Args(C!UpToBang(rest))
        /\ ~(rest # <<>> /\ rest[1] = C!Gap) => C!parse_command(line).args = <<>>
    BY DEF C!parse_command, C!RunEnd, Stop
  <1> HIDE DEF n, start
  <1>5. e \in start..(n + 1)
    <2> HIDE DEF Q
    <2>1. Q \in SUBSET (start..n)
      BY DEF Q
    <2> QED  BY <1>1, <1>2, <2>1, StopIs
  <1> HIDE DEF e
  <1>6. rest \in Text /\ Len(rest) = m /\ m \in Nat
        /\ \A k \in 1..m : rest[k] = line[e + k - 1]
    <2>1. e \in 1..(n + 1) /\ n \in (e - 1)..n
      BY <1>1, <1>2, <1>5
    <2> QED  BY <1>1, <2>1, PartsAreText DEF n
  <1>7. C!UpToBang(rest) = SubSeq(rest, 1, f - 1)
    BY <1>6 DEF C!UpToBang, C!RunEnd, Stop
  <1> HIDE DEF rest
  <1>8. Len(C!parse_command(line).name) = e - start
    <2>1. start \in 1..(n + 1) /\ e - 1 \in (start - 1)..n /\ (e - 1) - start + 1 = e - start
      BY <1>1, <1>2, <1>5
    <2> QED  BY <1>3, <2>1, PartsAreText DEF n
  <1>9. C!Typed = SubSeq(line, e, upTo)
    <2>1. start + Len(C!parse_command(line).name) = e
      BY <1>1, <1>2, <1>5, <1>8
    <2> QED  BY <2>1 DEF C!Typed, n, start
  <1>10. f \in 1..(m + 1) /\ (f \in R \/ f = m + 1) /\ \A j \in 1..m : j < f => j \notin R
    <2>1. R \in SUBSET (1..m) /\ 1 \in 1..(m + 1)
      BY <1>6
    <2> HIDE DEF R, m
    <2> QED  BY <1>6, <2>1, StopIs
  <1> HIDE DEF f
  <1>11. upTo = e + f - 2
    <2>1. CASE bangs = {}
      <3>1. f \notin R
        <4>1. \A j \in 1..m : e + j - 1 \in e..n
          BY <1>1, <1>2, <1>5
        <4> QED  BY <1>6, <2>1, <4>1
      <3> QED  BY <1>1, <1>2, <1>5, <1>10, <2>1, <3>1
    <2>2. CASE bangs # {}
      <3> DEFINE b == C!Min(bangs)
      <3>1. b \in bangs /\ \A j \in bangs : b <= j
        <4>1. bangs \in SUBSET (1..n)
          BY <1>1, <1>2, <1>5
        <4> HIDE DEF bangs
        <4> QED  BY <1>1, <2>2, <4>1, LeastIs
      <3> HIDE DEF b
      <3>2. b - e + 1 \in R
        <4>1. b - e + 1 \in 1..m /\ e + (b - e + 1) - 1 = b
          BY <1>1, <1>2, <1>5, <3>1
        <4> QED  BY <1>6, <3>1, <4>1
      <3>3. f <= b - e + 1
        BY <1>1, <1>2, <1>5, <1>10, <3>1, <3>2
      <3>4. f \in R
        BY <1>1, <1>2, <1>5, <1>10, <3>1, <3>3
      <3>5. e + f - 1 \in bangs
        <4>1. e + f - 1 \in e..n
          BY <1>1, <1>2, <1>5, <3>4
        <4> QED  BY <1>6, <3>4, <4>1
      <3>6. b <= e + f - 1
        BY <3>1, <3>5
      <3>7. b = e + f - 1
        BY <1>1, <1>2, <1>5, <1>10, <3>1, <3>3, <3>6
      <3> QED  BY <1>1, <1>2, <1>5, <1>10, <2>2, <3>1, <3>7 DEF b
    <2> QED  BY <2>1, <2>2
  <1> HIDE DEF upTo, R, bangs
  <1>12. /\ C!Typed \in Text /\ Len(C!Typed) = f - 1
         /\ \A k \in 1..(f - 1) : C!Typed[k] = line[e + k - 1]
    <2>1. e \in 1..(n + 1) /\ upTo \in (e - 1)..n /\ upTo - e + 1 = f - 1
      BY <1>1, <1>2, <1>5, <1>10, <1>11
    <2> QED  BY <1>9, <2>1, PartsAreText DEF n
  <1>13. C!UpToBang(rest) = C!Typed
    <2> DEFINE u == C!UpToBang(rest)
    <2>1. 1 \in 1..(m + 1) /\ f - 1 \in (1 - 1)..m /\ (f - 1) - 1 + 1 = f - 1
      BY <1>6, <1>10
    <2>2. /\ u \in Text /\ Len(u) = f - 1
          /\ \A k \in 1..(f - 1) : u[k] = rest[1 + k - 1]
      BY <1>6, <1>7, <2>1, PartsAreText
    <2>3. \A k \in 1..(f - 1) : u[k] = line[e + k - 1]
      <3>1. \A k \in 1..(f - 1) : k \in 1..m /\ 1 + k - 1 = k
        BY <1>6, <1>10
      <3> HIDE DEF u
      <3> QED  BY <1>6, <2>2, <3>1
    <2> HIDE DEF u
    <2>4. \A k \in 1..(f - 1) : u[k] = C!Typed[k]
      BY <1>12, <2>3
    <2>5. u \in Seq(STRING) /\ C!Typed \in Seq(STRING) /\ Len(u) = Len(C!Typed)
      BY <1>12, <2>2 DEF Text
    <2>6. u = C!Typed
      BY <1>12, <2>4, <2>5, SeqEqual
    <2> QED  BY <2>6 DEF u
  <1> QED  BY <1>4, <1>12, <1>13

\* What a handler is given are the arguments of its command, up to those it takes.
WordsInv ==
    /\ line \in Text
    /\ bound # <<>> =>
         /\ C!IsCommand
         /\ bound = C!Truncated(C!parse_command(line).args,
                                Actions[C!parse_command(line).name].takes)

LEMMA LeastOfTwo ==
    ASSUME NEW a \in Nat, NEW b \in Nat
    PROVE  C!Min({a, b}) = IF a < b THEN a ELSE b
  <1> DEFINE l == IF a < b THEN a ELSE b
  <1>1. l \in {a, b} /\ \A y \in {a, b} : l <= y
    OBVIOUS
  <1>2. \A x \in {a, b} : (\A y \in {a, b} : x <= y) => x = l
    OBVIOUS
  <1> HIDE DEF l
  <1>3. C!Min({a, b}) = l
    BY <1>1, <1>2 DEF C!Min
  <1> QED  BY <1>3 DEF l

LEMMA WordsAreBound == WordsInv => C!BindsTheWords
  <1> SUFFICES ASSUME WordsInv, bound # <<>>,
                      \A i \in C!WordStarts(C!Typed) : C!Plain(C!Word(C!Typed, i))
               PROVE  /\ Len(bound) = C!Min({C!Cardinality(C!WordStarts(C!Typed)),
                                             Actions[C!parse_command(line).name].takes})
                      /\ \A k \in DOMAIN bound : bound[k] = C!Meaning(C!Word(C!Typed,
                            CHOOSE i \in C!WordStarts(C!Typed) :
                              C!Cardinality({j \in C!WordStarts(C!Typed) : j < i}) = k - 1))
    BY DEF C!BindsTheWords
  <1> DEFINE s == C!Typed
             starts == C!WordStarts(s)
             args == C!parse_command(line).args
             takes == Actions[C!parse_command(line).name].takes
             c == Cardinality(starts)
             l == IF Len(args) < takes THEN Len(args) ELSE takes
  <1>1. takes \in Nat /\ bound = C!Truncated(args, takes) /\ C!NameStarts(line) # {} /\ line \in Text
    BY ActionsAre DEF WordsInv, C!IsCommand
  <1>2. s \in Text /\ (args = C!Args(s) \/ args = <<>>)
    BY <1>1, TypedIs
  <1> HIDE DEF takes, s, args
  <1>3. bound = SubSeq(args, 1, l)
    BY <1>1 DEF C!Truncated
  <1>4. args = C!Args(s)
    <2> SUFFICES ASSUME args = <<>>
                 PROVE  FALSE
      BY <1>2
    <2>1. l = 0
      BY <1>1
    <2>2. SubSeq(args, 1, 0) = <<>>
      OBVIOUS
    <2> QED  BY <1>3, <2>1, <2>2
  <1>5. PICK V : args \in Seq(V)
    BY <1>2, <1>4, ArgsAreWords DEF s
  <1>6. Len(args) = c /\ c \in Nat
        /\ \A k \in 1..c : \E j \in starts : Rank(s, j) = k - 1 /\ args[k] = C!Meaning(C!Word(s, j))
    <2>1. c \in Nat
      BY <1>2, StartsAre, FS_CardinalityType
    <2> QED  BY <1>2, <1>4, <2>1, ArgsAreWords DEF s
  <1>7. \A i, j \in starts : Rank(s, i) = Rank(s, j) => i = j
    BY <1>2, RanksAre
  <1>8. C!Min({C!Cardinality(starts), takes}) = l
    BY <1>1, <1>6, LeastOfTwo, SameCardinality
  <1> HIDE DEF c
  <1>9. l \in 0..c
    BY <1>1, <1>6
  <1> HIDE DEF l, starts
  <1>10. Len(bound) = l /\ DOMAIN bound = 1..l /\ \A k \in 1..l : bound[k] = args[k]
    BY <1>3, <1>5, <1>6, <1>9
  <1>11. ASSUME NEW k \in 1..l
         PROVE  bound[k] = C!Meaning(C!Word(s,
                  CHOOSE i \in starts : C!Cardinality({j \in starts : j < i}) = k - 1))
    <2>1. k \in 1..c
      BY <1>6, <1>9
    <2>2. PICK j \in starts : Rank(s, j) = k - 1 /\ args[k] = C!Meaning(C!Word(s, j))
      BY <1>6, <2>1
    <2>3. \A i \in starts : C!Cardinality({h \in starts : h < i}) = k - 1 <=> i = j
      <3>1. \A i \in starts : C!Cardinality({h \in starts : h < i}) = Rank(s, i)
        BY SameCardinality DEF Rank, starts
      <3> QED  BY <1>7, <2>2, <3>1
    <2>4. (CHOOSE i \in starts : C!Cardinality({h \in starts : h < i}) = k - 1) = j
      BY <2>3
    <2> QED  BY <1>10, <2>2, <2>4
  <1> QED  BY <1>8, <1>10, <1>11 DEF s, starts, takes

LEMMA WordsStep == WordsInv /\ C!Next => WordsInv'
  <1> SUFFICES ASSUME WordsInv, C!Next
               PROVE  WordsInv'
    OBVIOUS
  <1>1. line' = line
    BY DEF C!Next, C!DispatchChat, C!UnknownCommand, C!AskProvider, C!ProviderAnswers,
           C!ProviderRaises, C!CallTool, C!Reply, C!HandlerReturns, C!HandlerRaises,
           C!Superseded
  <1>2. C!IsCommand' <=> C!IsCommand
    BY <1>1 DEF C!IsCommand
  <1>3. C!parse_command(line)' = C!parse_command(line)
    BY <1>1
  <1>4. CASE C!DispatchChat
    BY <1>1, <1>2, <1>4 DEF C!DispatchChat, WordsInv
  <1>5. CASE bound' = bound
    BY <1>1, <1>2, <1>5 DEF WordsInv
  <1>6. C!DispatchChat \/ bound' = bound
    BY DEF C!Next, C!UnknownCommand, C!AskProvider, C!ProviderAnswers,
           C!ProviderRaises, C!CallTool, C!Reply, C!HandlerReturns, C!HandlerRaises,
           C!Superseded
  <1> QED  BY <1>4, <1>5, <1>6

LEMMA WordsHold == MCSafety => []WordsInv
  <1>1. MCInit => WordsInv
    BY LinesAreText DEF MCInit, C!Init, WordsInv
  <1>2. WordsInv /\ [MCNext]_sub => WordsInv'
    <2> SUFFICES ASSUME WordsInv, [MCNext]_sub
                 PROVE  WordsInv'
      OBVIOUS
    <2>1. CASE C!Next
      BY <2>1, WordsStep
    <2>2. CASE UNCHANGED chat
      BY <2>2 DEF chat, WordsInv, C!IsCommand
    <2>3. C!Next \/ UNCHANGED chat
      BY DEF MCNext, sub
    <2> QED  BY <2>1, <2>2, <2>3
  <1> QED  BY <1>1, <1>2, PTL DEF MCSafety, sub

\* A handler gets the words that follow its name up to the next "!", one argument
\* for each plain word and in their order, as many as it takes: parse_command,
\* _coerce and the cut of dispatch_chat agree on where a word ends.
THEOREM WordsAreTheArguments == MCSafety => []BindsTheWords
  <1>1. WordsInv => BindsTheWords
    BY WordsAreBound DEF BindsTheWords
  <1> QED  BY <1>1, WordsHold, PTL

-----------------------------------------------------------------------------
(* The types of the parts.                                                 *)

Kinds == {"text", "number", "flag"}

LEMMA CoercedIs == \A w : C!coerce(w).is \in Kinds
  BY DEF C!coerce, C!Text, C!Number, C!Flag, Kinds

LEMMA ArgsAreCoerced ==
    ASSUME NEW s \in Text
    PROVE  \E V : C!Args(s) \in Seq(V) /\ \A v \in V : v.is \in Kinds
  <1> DEFINE n == Len(s)
             V == {C!coerce(SubSeq(s, p[1], p[2])) : p \in Nat \X Nat}
             W(g) == {m \in 0..n : \A i \in (n + 1 - m)..(n + 1) : g[i] \in Seq(V)}
  <1>1. PICK g : Found(s, g) /\ C!Args(s) = g[1]
    BY ArgsAreFound
  <1>2. n \in Nat /\ \A v \in V : v.is \in Kinds
    BY CoercedIs DEF Text
  <1>3. g[n + 1] = <<>> /\ \A i \in 1..n :
            g[i] = IF s[i] = C!Gap THEN g[i + 1]
                   ELSE <<C!coerce(SubSeq(s, i, C!TokenEnd(s, i) - 1))>> \o g[C!TokenEnd(s, i)]
    <2>1. n + 1 \in 1..(n + 1) /\ n + 1 > n /\ \A i \in 1..n : i \in 1..(n + 1) /\ ~(i > n)
      BY <1>2
    <2> QED  BY <1>1, <2>1 DEF Found
  <1>4. \A i \in 1..n : s[i] # C!Gap => C!TokenEnd(s, i) \in (i + 1)..(n + 1)
    BY TokensAdvance
  <1> HIDE DEF n
  <1>5. 0 \in W(g)
    <2>1. \A i \in (n + 1 - 0)..(n + 1) : i = n + 1
      BY <1>2
    <2>2. <<>> \in Seq(V)
      OBVIOUS
    <2> HIDE DEF V
    <2>3. \A i \in (n + 1 - 0)..(n + 1) : g[i] \in Seq(V)
      BY <1>3, <2>1, <2>2
    <2>4. 0 \in 0..n
      BY <1>2
    <2> QED  BY <2>3, <2>4
  <1>6. ASSUME NEW m \in 1..n, m - 1 \in W(g)
        PROVE  m \in W(g)
    <2> DEFINE k == n + 1 - m
    <2>1. k \in 1..n /\ n + 1 - (m - 1) = k + 1 /\ m \in 0..n
      BY <1>2
    <2>2. \A i \in (k + 1)..(n + 1) : g[i] \in Seq(V)
      <3> HIDE DEF V, k
      <3> QED  BY <1>6, <2>1
    <2> HIDE DEF k
    <2>3. g[k] \in Seq(V)
      <3>1. CASE s[k] = C!Gap
        <4>1. k + 1 \in (k + 1)..(n + 1)
          BY <1>2, <2>1
        <4> HIDE DEF V
        <4> QED  BY <1>3, <2>1, <2>2, <3>1, <4>1
      <3>2. CASE s[k] # C!Gap
        <4> DEFINE e == C!TokenEnd(s, k)
                   x == C!coerce(SubSeq(s, k, e - 1))
        <4>1. e \in (k + 1)..(n + 1) /\ g[k] = <<x>> \o g[e]
          BY <1>3, <1>4, <2>1, <3>2
        <4>2. x \in V
          <5>1. <<k, e - 1>> \in Nat \X Nat
            <6> HIDE DEF e
            <6> QED  BY <1>2, <2>1, <4>1
          <5> HIDE DEF e
          <5>2. <<k, e - 1>>[1] = k /\ <<k, e - 1>>[2] = e - 1
            OBVIOUS
          <5> QED  BY <5>1, <5>2
        <4> HIDE DEF V, e, x
        <4>3. g[e] \in Seq(V)
          BY <2>2, <4>1
        <4>4. <<x>> \in Seq(V)
          BY <4>2
        <4> QED  BY <4>1, <4>3, <4>4, ConcatProperties
      <3> QED  BY <3>1, <3>2
    <2>4. \A i \in k..(n + 1) : i = k \/ i \in (k + 1)..(n + 1)
      BY <1>2, <2>1
    <2> HIDE DEF V
    <2>5. \A i \in k..(n + 1) : g[i] \in Seq(V)
      BY <2>2, <2>3, <2>4
    <2> QED  BY <2>1, <2>5 DEF k
  <1> HIDE DEF V
  <1>7. W(g) = 0..n
    <2> DEFINE X == W(g)
    <2>1. X \in SUBSET (0..n) /\ 0 \in X /\ \A m \in 1..n : m - 1 \in X => m \in X
      BY <1>5, <1>6
    <2> HIDE DEF X
    <2>2. X = 0..n
      BY <1>2, <2>1, UpToInduction
    <2> QED  BY <2>2 DEF X
  <1>8. g[1] \in Seq(V)
    <2>1. n \in W(g) /\ n + 1 - n = 1 /\ 1 \in 1..(n + 1)
      <3> DEFINE X == W(g)
      <3>1. X = 0..n
        BY <1>7
      <3> HIDE DEF X
      <3>2. n \in X
        BY <1>2, <3>1
      <3> QED  BY <1>2, <3>2 DEF X
    <2> QED  BY <2>1
  <1> QED  BY <1>1, <1>2, <1>8

\* A handler's arguments are texts, numbers and flags.
LEMMA BoundTyped == WordsInv => \A i \in DOMAIN bound : bound[i].is \in Kinds
  <1> SUFFICES ASSUME WordsInv, bound # <<>>
               PROVE  \A i \in DOMAIN bound : bound[i].is \in Kinds
    OBVIOUS
  <1> DEFINE args == C!parse_command(line).args
             takes == Actions[C!parse_command(line).name].takes
             l == IF Len(args) < takes THEN Len(args) ELSE takes
  <1>1. takes \in Nat /\ bound = C!Truncated(args, takes) /\ C!NameStarts(line) # {} /\ line \in Text
    BY ActionsAre DEF WordsInv, C!IsCommand
  <1>2. C!Typed \in Text /\ (args = C!Args(C!Typed) \/ args = <<>>)
    BY <1>1, TypedIs
  <1> HIDE DEF takes, args
  <1>3. bound = SubSeq(args, 1, l)
    BY <1>1 DEF C!Truncated
  <1>4. PICK V : args \in Seq(V) /\ \A v \in V : v.is \in Kinds
    <2>1. CASE args = C!Args(C!Typed)
      BY <1>2, <2>1, ArgsAreCoerced
    <2>2. CASE args = <<>>
      <3>1. args \in Seq({}) /\ \A v \in {} : v.is \in Kinds
        BY <2>2
      <3> QED  BY <3>1
    <2> QED  BY <1>2, <2>1, <2>2
  <1>5. l \in 0..Len(args) /\ Len(args) \in Nat
    BY <1>1, <1>4
  <1> HIDE DEF l
  <1>6. DOMAIN bound = 1..l /\ \A k \in 1..l : bound[k] = args[k] /\ k \in 1..Len(args)
    BY <1>3, <1>4, <1>5
  <1> QED  BY <1>4, <1>6

\* What is known of a line whatever its outcomes.
ChatTyped ==
    /\ line \in Lines
    /\ phase \in {"heard", "running", "asking", "calling", "done", "superseded", "failed"}
    /\ plan \in Plans \cup {<<>>}
    /\ reply \in BOOLEAN
    /\ Len(answers) <= Len(plan) + 1

\* Until a line is done, no more has been said than calls were planned.
LEMMA SaidSoFar ==
    ASSUME CallsInv, phase \in {"heard", "asking", "running", "calling"}
    PROVE  Len(answers) <= Len(plan)
  <1>1. Len(outcomes) \in Nat /\ Len(plan) \in Nat /\ answers \in Seq(Words)
    BY DEF CallsInv
  <1>2. CASE answers = <<>>
    BY <1>1, <1>2
  <1>3. CASE SaidFor(outcomes, answers) /\ Len(outcomes) <= Len(plan)
    <2>1. Heard(outcomes) \subseteq 1..Len(outcomes) /\ outcomes \in Seq(Outcome)
      BY DEF Heard, CallsInv
    <2>2. IsFiniteSet(1..Len(outcomes)) /\ Cardinality(1..Len(outcomes)) = Len(outcomes)
      <3> DEFINE n == Len(outcomes)
      <3>1. n \in Nat
        BY <1>1
      <3> HIDE DEF n
      <3>2. IsFiniteSet(1..n) /\ Cardinality(1..n) = n
        BY <3>1, FS_Interval
      <3> QED  BY <3>2 DEF n
    <2>3. Cardinality(Heard(outcomes)) <= Len(outcomes)
      BY <2>1, <2>2, FS_Subset
    <2>4. Cardinality(Heard(outcomes)) \in Nat
      BY <2>1, HeardIsFinite
    <2> QED  BY <1>1, <1>3, <2>3, <2>4 DEF SaidFor
  <1> QED  BY <1>2, <1>3 DEF CallsInv

LEMMA ChatStep == ChatTyped /\ CallsInv /\ C!Next => ChatTyped'
  <1> SUFFICES ASSUME ChatTyped, CallsInv, C!Next
               PROVE  ChatTyped'
    OBVIOUS
  <1>1. /\ line' = line
        /\ phase' \in {"heard", "running", "asking", "calling", "done", "superseded", "failed"}
        /\ phase \in {"heard", "asking", "running", "calling"}
    BY DEF ChatTyped, C!Next, C!DispatchChat, C!UnknownCommand, C!AskProvider, C!ProviderAnswers,
           C!ProviderRaises, C!CallTool, C!Reply, C!HandlerReturns, C!HandlerRaises,
           C!Superseded, C!AfterHandler, C!AfterRaise
  <1>2. (plan' \in Plans \cup {<<>>} /\ reply' \in BOOLEAN)
    BY DEF ChatTyped, C!Next, C!DispatchChat, C!UnknownCommand, C!AskProvider, C!ProviderAnswers,
           C!ProviderRaises, C!CallTool, C!Reply, C!HandlerReturns, C!HandlerRaises,
           C!Superseded
  <1>3. Len(answers) <= Len(plan) /\ answers \in Seq(Words) /\ Len(plan) \in Nat /\ Len(plan') \in Nat
    BY <1>1, <1>2, SaidSoFar, PlansAreSequences DEF CallsInv
  <1>4. ASSUME NEW w, plan' = plan, answers' = Append(answers, w)
        PROVE  Len(answers') <= Len(plan') + 1
    BY <1>3, <1>4
  <1>5. ASSUME plan' = plan, answers' = answers
        PROVE  Len(answers') <= Len(plan') + 1
    BY <1>3, <1>5
  <1>6. CASE C!ProviderAnswers
    <2>1. answers = <<>> /\ answers' = answers
      BY <1>6 DEF C!ProviderAnswers, CallsInv
    <2> QED  BY <1>1, <1>2, <1>3, <2>1 DEF ChatTyped
  <1>7. ASSUME ~C!ProviderAnswers
        PROVE  plan' = plan /\ (answers' = answers \/ \E w : answers' = Append(answers, w))
    BY <1>7 DEF C!Next, C!DispatchChat, C!UnknownCommand, C!AskProvider,
           C!ProviderRaises, C!CallTool, C!Reply, C!HandlerReturns, C!HandlerRaises,
           C!Superseded, C!Says
  <1> QED  BY <1>1, <1>2, <1>4, <1>5, <1>6, <1>7 DEF ChatTyped

ChatOK == about = "line" => ChatTyped

LEMMA ChatHolds == MCSafety => []ChatOK
  <1>1. MCInit => ChatOK
    <2> SUFFICES ASSUME MCInit
                 PROVE  ChatTyped
      BY DEF ChatOK
    <2>1. /\ line \in Lines /\ phase = "heard" /\ plan = <<>> /\ reply = FALSE
          /\ answers = <<>>
      BY DEF MCInit, C!Init
    <2>2. Len(answers) <= Len(plan) + 1
      BY <2>1
    <2>3. phase \in {"heard", "running", "asking", "calling", "done", "superseded", "failed"}
      BY <2>1
    <2>4. plan \in Plans \cup {<<>>} /\ reply \in BOOLEAN
      BY <2>1
    <2> QED  BY <2>1, <2>2, <2>3, <2>4 DEF ChatTyped
  <1>2. CallsOK /\ ChatOK /\ [MCNext]_sub => ChatOK'
    <2> SUFFICES ASSUME CallsOK, ChatOK, [MCNext]_sub, about' = "line"
                 PROVE  ChatTyped'
      BY DEF ChatOK
    <2>1. about = "line" /\ ChatTyped /\ CallsInv
      BY DEF ChatOK, CallsOK, MCNext, sub
    <2>2. CASE C!Next
      BY <2>1, <2>2, ChatStep
    <2>3. CASE UNCHANGED chat
      BY <2>1, <2>3 DEF chat, ChatTyped
    <2> QED  BY <2>1, <2>2, <2>3 DEF MCNext, sub, chat
  <1> QED  BY <1>1, <1>2, CallsHold, PTL DEF MCSafety, sub

\* The bot stands in the bounding box or out of it.
BotPlaced == bot \in S!Cell \cup {S!Outside}

LEMMA BotStays == MCSafety => []BotPlaced
  <1>1. MCInit => BotPlaced
    BY DEF MCInit, S!Init, BotPlaced
  <1>2. BotPlaced /\ [MCNext]_sub => BotPlaced'
    BY DEF BotPlaced, MCNext, sub, placing, S!Next, S!PlaceRun, S!Placed, S!BotMoves, S!Clear,
           S!Cell, S!Outside
  <1> QED  BY <1>1, <1>2, PTL DEF MCSafety, sub

\* Every word of the file is a signed one, and an index read back is one of the palette's.
LEMMA ReadingTyped == ReadingInv => B!TypeOK
  <1> SUFFICES ASSUME ReadingInv
               PROVE  B!TypeOK
    OBVIOUS
  <1> DEFINE d == B!TwoTo[WordBits - 1]
  <1>1. ASSUME NEW w \in DOMAIN long_array
        PROVE  long_array[w] \in -d..(d - 1)
    <2>1. w \in 0..(B!Words - 1) /\ long_array[w] = B!Signed(B!Unsigned(w))
      BY <1>1 DEF ReadingInv, LongArray
    <2>2. B!Unsigned(w) \in 0..(B!TwoTo[WordBits] - 1)
      BY <2>1, WordsAre DEF ReadingInv
    <2> QED  BY <2>1, <2>2, SignedIs
  <1>2. ASSUME NEW i \in DOMAIN indices
        PROVE  indices[i] \in 0..(palette - 1)
    <2>1. i \in 1..Len(indices) /\ Len(indices) \in Nat /\ Len(indices) <= Count
      BY DEF ReadingInv
    <2>2. i - 1 \in 0..(Count - 1)
      BY <2>1, BoundsAre
    <2>3. indices[i] = entries[i - 1]
      BY DEF ReadingInv, B!ReadsBack
    <2> QED  BY <2>2, <2>3 DEF ReadingInv, Packed
  <1> HIDE DEF d
  <1> QED  BY <1>1, <1>2 DEF ReadingInv, Packed, B!TypeOK, d

LEMMA PlacingTyped == PlacingInv /\ BotPlaced => S!TypeOK
  <1> SUFFICES ASSUME PlacingInv, BotPlaced
               PROVE  S!TypeOK
    OBVIOUS
  <1>1. ASSUME NEW i \in DOMAIN runs
        PROVE  runs[i].x1 <= runs[i].x2 /\ runs[i].block \in Placeable
    <2>1. runs \in Seq(Run) /\ Drawn(runs[i])
      BY DEF PlacingInv, DrawnRuns
    <2>2. runs[i] \in Run
      BY <2>1
    <2> QED  BY <2>1, <2>2 DEF Drawn, Run
  <1> QED  BY <1>1 DEF S!TypeOK, PlacingInv, BotPlaced, Grids

-----------------------------------------------------------------------------
(* The runs of the tests.  What TestRunsProofs proves of TestRuns holds of  *)
(* the part of MC_Requests that instantiates it.                            *)

TP == INSTANCE TestRunsProofs WITH pc <- at, answer <- mode_answer, shared <- not_alone

LEMMA SameRunsInit == T!Init => TP!Init
  BY DEF T!Init, TP!Init, T!Run, TP!Run, T!None, TP!None, T!Unknown, TP!Unknown

LEMMA SameRunsTypes == TP!TypeOK => T!TypeOK
  BY DEF T!TypeOK, TP!TypeOK, T!Run, TP!Run, T!Test, TP!Test, T!None, TP!None, T!Mode, TP!Mode,
         T!Unknown, TP!Unknown

LEMMA SameRunsOperators ==
    /\ T!Run = TP!Run /\ T!None = TP!None /\ T!Unknown = TP!Unknown /\ T!Mode = TP!Mode
    /\ T!Told = TP!Told /\ T!AtWork = TP!AtWork /\ T!Querying = TP!Querying
    /\ T!game = TP!game /\ T!history = TP!history
  BY DEF T!Run, TP!Run, T!None, TP!None, T!Unknown, TP!Unknown, T!Mode, TP!Mode,
         T!Told, TP!Told, T!AtWork, TP!AtWork, T!Typed, TP!Typed, T!Querying, TP!Querying,
         T!game, TP!game, T!history, TP!history

LEMMA SameRunsSteps ==
    ASSUME NEW r
    PROVE  /\ \A m : T!SendGamemode(m) <=> TP!SendGamemode(m)
           /\ \A where : T!Awake(r, where) <=> TP!Awake(r, where)
           /\ T!StartRestoring(r) <=> TP!StartRestoring(r)
           /\ \A passed : T!NextTest(r, passed) <=> TP!NextTest(r, passed)
           /\ T!Confirmed(r) <=> TP!Confirmed(r)
           /\ T!Awaited(r) = TP!Awaited(r) /\ (T!InTest(r) <=> TP!InTest(r))
  <1>1. \A m : T!SendGamemode(m) <=> TP!SendGamemode(m)
    BY DEF T!SendGamemode, TP!SendGamemode
  <1>2. \A where : T!Awake(r, where) <=> TP!Awake(r, where)
    BY DEF T!Awake, TP!Awake
  <1>3. T!StartRestoring(r) <=> TP!StartRestoring(r)
    BY <1>1 DEF T!StartRestoring, TP!StartRestoring, T!Restores, TP!Restores, T!Unknown, TP!Unknown
  <1>4. \A passed : T!NextTest(r, passed) <=> TP!NextTest(r, passed)
    BY <1>3 DEF T!NextTest, TP!NextTest, T!AnotherTest, TP!AnotherTest, T!Unknown, TP!Unknown
  <1>5. T!Awaited(r) = TP!Awaited(r) /\ (T!InTest(r) <=> TP!InTest(r))
    BY DEF T!Awaited, TP!Awaited, T!InTest, TP!InTest
  <1>6. T!Confirmed(r) <=> TP!Confirmed(r)
    BY <1>5 DEF T!Confirmed, TP!Confirmed
  <1> QED  BY <1>1, <1>2, <1>3, <1>4, <1>5, <1>6

LEMMA SameRunsNext == T!Next => TP!Next
  <1>1. T!TypeOther => TP!TypeOther
    BY SameRunsOperators
         DEF T!TypeOther, TP!TypeOther, T!game, TP!game, T!history, TP!history
  <1>2. T!ModeLands => TP!ModeLands
    BY SameRunsOperators
         DEF T!ModeLands, TP!ModeLands, T!game, TP!game, T!history, TP!history
  <1>3. ASSUME NEW r
        PROVE  /\ T!TypeRun(r) => TP!TypeRun(r)
               /\ T!AskMode(r) => TP!AskMode(r)
               /\ T!ModAnswers(r) => TP!ModAnswers(r)
               /\ T!SwitchToSurvival(r) => TP!SwitchToSurvival(r)
               /\ T!PollAgain(r) => TP!PollAgain(r)
               /\ T!GiveUp(r) => TP!GiveUp(r)
               /\ T!SurvivalConfirmed(r) => TP!SurvivalConfirmed(r)
    <2>1. T!TypeRun(r) => TP!TypeRun(r)
      BY SameRunsOperators
         DEF T!TypeRun, TP!TypeRun, T!game, TP!game, T!history, TP!history
    <2>2. T!AskMode(r) => TP!AskMode(r)
      BY SameRunsOperators, SameRunsSteps
         DEF T!AskMode, TP!AskMode, T!game, TP!game, T!history, TP!history
    <2>3. T!ModAnswers(r) => TP!ModAnswers(r)
      BY SameRunsOperators
         DEF T!ModAnswers, TP!ModAnswers, T!game, TP!game, T!history, TP!history
    <2>4. T!SwitchToSurvival(r) => TP!SwitchToSurvival(r)
      BY SameRunsOperators, SameRunsSteps
         DEF T!SwitchToSurvival, TP!SwitchToSurvival, T!game, TP!game, T!history, TP!history
    <2>5. T!PollAgain(r) => TP!PollAgain(r)
      BY SameRunsOperators, SameRunsSteps
         DEF T!PollAgain, TP!PollAgain, T!game, TP!game, T!history, TP!history
    <2>6. T!GiveUp(r) => TP!GiveUp(r)
      BY SameRunsOperators
         DEF T!GiveUp, TP!GiveUp, T!game, TP!game, T!history, TP!history, T!GivesUp, TP!GivesUp
    <2>7. T!SurvivalConfirmed(r) => TP!SurvivalConfirmed(r)
      BY SameRunsOperators, SameRunsSteps
         DEF T!SurvivalConfirmed, TP!SurvivalConfirmed, T!game, TP!game, T!history, TP!history
    <2> QED  BY <2>1, <2>2, <2>3, <2>4, <2>5, <2>6, <2>7
  <1>4. ASSUME NEW r
        PROVE  /\ T!SetupDone(r) => TP!SetupDone(r)
               /\ T!MainEnds(r) => TP!MainEnds(r)
               /\ T!Clear(r) => TP!Clear(r)
               /\ T!TestEnds(r) => TP!TestEnds(r)
               /\ T!RestoreConfirmed(r) => TP!RestoreConfirmed(r)
               /\ T!UnwindTest(r) => TP!UnwindTest(r)
               /\ T!UnwindOutside(r) => TP!UnwindOutside(r)
    <2>1. T!SetupDone(r) => TP!SetupDone(r)
      BY SameRunsOperators, SameRunsSteps
         DEF T!SetupDone, TP!SetupDone, T!game, TP!game, T!history, TP!history,
         T!Placed, TP!Placed
    <2>2. T!MainEnds(r) => TP!MainEnds(r)
      BY SameRunsOperators
         DEF T!MainEnds, TP!MainEnds, T!game, TP!game, T!history, TP!history,
         T!AfterMain, TP!AfterMain, T!Placed, TP!Placed
    <2>3. T!Clear(r) => TP!Clear(r)
      BY SameRunsOperators, SameRunsSteps
         DEF T!Clear, TP!Clear, T!game, TP!game, T!history, TP!history
    <2>4. T!TestEnds(r) => TP!TestEnds(r)
      BY SameRunsOperators, SameRunsSteps
         DEF T!TestEnds, TP!TestEnds, T!game, TP!game, T!history, TP!history,
         T!ReplayPassed, TP!ReplayPassed, T!ChatPassed, TP!ChatPassed
    <2>5. T!RestoreConfirmed(r) => TP!RestoreConfirmed(r)
      BY SameRunsOperators, SameRunsSteps
         DEF T!RestoreConfirmed, TP!RestoreConfirmed, T!game, TP!game, T!history, TP!history
    <2>6. T!UnwindTest(r) => TP!UnwindTest(r)
      BY SameRunsOperators, SameRunsSteps
         DEF T!UnwindTest, TP!UnwindTest, T!game, TP!game, T!history, TP!history,
         T!Placed, TP!Placed
    <2>7. T!UnwindOutside(r) => TP!UnwindOutside(r)
      BY SameRunsOperators, SameRunsSteps
         DEF T!UnwindOutside, TP!UnwindOutside, T!game, TP!game, T!history, TP!history
    <2> QED  BY <2>1, <2>2, <2>3, <2>4, <2>5, <2>6, <2>7
  <1> QED  BY SameRunsOperators, <1>1, <1>2, <1>3, <1>4 DEF T!Next, TP!Next

RunsOK == about = "run" => TP!IInv

LEMMA RunsHold == MCSafety => []RunsOK
  <1>1. TP!BoundsAssumption
    BY PartsAssumption DEF T!BoundsAssumption, TP!BoundsAssumption
  <1>2. MCInit => RunsOK
    BY <1>1, SameRunsInit, TP!InitIInv DEF MCInit, RunsOK
  <1>3. RunsOK /\ [MCNext]_sub => RunsOK'
    <2> SUFFICES ASSUME RunsOK, [MCNext]_sub, about' = "run"
                 PROVE  TP!IInv'
      BY DEF RunsOK
    <2>1. about = "run" /\ TP!IInv /\ (TP!Next \/ UNCHANGED testing)
      BY SameRunsNext DEF RunsOK, MCNext, sub
    <2>2. [TP!Next]_(TP!vars)
      BY <2>1 DEF testing, TP!vars, TP!game, TP!history
    <2>3. /\ TP!TypeOK' /\ TP!Supersession' /\ TP!Verdicts' /\ TP!Prepared'
          /\ TP!Ground' /\ TP!Modes'
      BY <1>1, <2>1, <2>2, TP!NextTypes, TP!NextSupersedes, TP!NextVerdicts, TP!NextPrepared,
         TP!NextGround, TP!NextModes
    <2> QED  BY <2>3 DEF TP!IInv
  <1> QED  BY <1>2, <1>3, PTL DEF MCSafety, sub

-----------------------------------------------------------------------------
(* The queries.                                                            *)

QueriesOK == about = "queries" => IInv

LEMMA QueriesHold == MCSafety => []QueriesOK
  <1>1. MCInit => QueriesOK
    BY InitIInv DEF MCInit, QueriesOK
  <1>2. QueriesOK /\ [MCNext]_sub => QueriesOK'
    <2> SUFFICES ASSUME QueriesOK, [MCNext]_sub, about' = "queries"
                 PROVE  IInv'
      BY DEF QueriesOK
    <2>1. about = "queries" /\ IInv /\ [Next]_vars
      BY DEF QueriesOK, MCNext, sub
    <2> QED  BY <2>1, NextIInv
  <1> QED  BY <1>1, <1>2, PTL DEF MCSafety, sub

\* Each of the parts keeps its types: whatever is typed after a command, a handler
\* gets texts, numbers and flags, and every word the reader of a schematic meets
\* is one that NBT can hold.
THEOREM PartsAreTyped == MCSafety => []TypesOK
  <1>1. ChatOK /\ CallsOK /\ WordsInv => (about = "line" => C!TypeOK)
    <2> SUFFICES ASSUME ChatTyped, CallsInv, WordsInv
                 PROVE  C!TypeOK
      BY DEF ChatOK, CallsOK
    <2>1. \A i \in DOMAIN outcomes : outcomes[i] \in {"message", "silent", "raised", "unknown"}
      BY DEF CallsInv, Outcome
    <2>2. \A i \in DOMAIN bound : bound[i].is \in {"text", "number", "flag"}
      BY BoundTyped DEF Kinds
    <2> QED  BY <2>1, <2>2 DEF C!TypeOK, ChatTyped
  <1>2. RunsOK => (about = "run" => T!TypeOK)
    BY SameRunsTypes DEF RunsOK, TP!IInv
  <1>3. PlacingInv /\ BotPlaced => S!TypeOK
    BY PlacingTyped
  <1>4. ReadingInv => B!TypeOK
    BY ReadingTyped
  <1>5. QueriesOK => (about = "queries" => TypeOK)
    BY DEF QueriesOK, IInv
  <1>6. ChatOK /\ CallsOK /\ WordsInv /\ RunsOK /\ PlacingInv /\ BotPlaced /\ ReadingInv /\ QueriesOK
            => TypesOK
    BY <1>1, <1>2, <1>3, <1>4, <1>5 DEF TypesOK
  <1> QED  BY <1>6, ChatHolds, CallsHold, WordsHold, RunsHold, PlacingHolds, BotStays,
              ReadingHolds, QueriesHold, PTL
=============================================================================
