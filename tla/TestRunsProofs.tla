---------------------------- MODULE TestRunsProofs ----------------------------
(***************************************************************************)
(* Theorems about TestRuns, for any number of !runtest commands and of     *)
(* registered tests.                                                       *)
(***************************************************************************)
EXTENDS TestRuns, SequenceTheorems, TLAPS

-----------------------------------------------------------------------------
(* The inductive invariant.                                                *)

\* Where a run is before its finally.
Driving == {"created", "saving", "switching", "setup", "testing", "teardown", "cleared"}

\* Only the current command is not told to stop; as long as a run has not heard
\* that it was, the one that replaced it has no answer to go on with; so that no
\* two runs are in a test.
Supersession ==
    /\ \A r \in told : pc[r] \notin {"none", "over"}
    /\ current \notin told
    /\ \A r \in Run : pc[r] \in Driving /\ r \notin told => r = current
    /\ told # {} /\ current # None
         => pc[current] \in {"created", "saving", "over"} /\ answer[current] = Unknown
    /\ \A q, r \in Run : InTest(q) /\ InTest(r) => q = r
    /\ \A r \in Run : pc[r] = "none" => answer[r] = Unknown

\* Until a run is cut short it has written one replay per verdict.
Verdicts ==
    \A r \in Run :
        /\ pc[r] \notin {"restoring", "over"} => replay[r] = said[r]
        /\ Len(said[r]) <= Len(replay[r])
        /\ \A i \in 1..Len(said[r]) : replay[r][i] = said[r][i]

\* A run that is in a test is at its first one at least, and knows what to restore.
Prepared ==
    \A r \in Run :
        /\ InTest(r) => test[r] > 0
        /\ pc[r] = "switching" \/ InTest(r) => saved[r] \in Mode

\* Blocks that stand are those of the test somebody is in.
Ground ==
    unclean = {} /\ blocks # {}
        => \E r \in Run : pc[r] \in {"testing", "teardown"} /\ blocks = {test[r]}

\* The run that was typed last.
Newest(r) == pc[r] # "none" /\ \A q \in Run : q > r => pc[q] = "none"

\* The mode once every command under way has landed.
FinalMode == IF changes = <<>> THEN mode ELSE changes[Len(changes)]

\* What a run that is alone may rely on, stage by stage.
Stage(r) ==
    /\ pc[r] \in {"created", "saving"} =>
         changes = <<>> /\ mode = before[r] /\ answer[r] \in {Unknown, before[r]}
    /\ pc[r] \in {"created", "saving", "switching"} => test[r] = 0 /\ r \notin restored
    /\ pc[r] = "switching" /\ answer[r] = "survival" => mode = "survival"
    /\ InTest(r) => mode = "survival"
    /\ pc[r] = "switching" \/ InTest(r) =>
         saved[r] = before[r] /\ changes \in {<<>>, <<"survival">>}
    /\ pc[r] = "restoring" /\ ~dropped => FinalMode = before[r]
    /\ pc[r] = "over" /\ (test[r] > 0 \/ r \in restored) /\ ~dropped => FinalMode = before[r]

Modes ==
    /\ \A r \in Run : pc[r] = "none" => test[r] = 0 /\ r \notin restored
    /\ \A q, r \in Run : q < r /\ pc[r] # "none" => pc[q] # "none"
    /\ \A r \in Run \ shared : pc[r] \notin {"none", "over"} => Newest(r)
    /\ \A r \in Run \ shared :
          Newest(r) => Stage(r) /\ \A q \in Run : q # r => pc[q] \in {"none", "over"}

IInv == TypeOK /\ Supersession /\ Verdicts /\ Prepared /\ Ground /\ Modes

-----------------------------------------------------------------------------
(* Types.                                                                  *)

GameTyped ==
    /\ mode \in Mode
    /\ changes \in Seq(Mode)
    /\ blocks \subseteq Test
TasksTyped ==
    /\ current \in Run \cup {None}
    /\ told \subseteq Run
    /\ pc \in [Run -> {"none", "created", "saving", "switching", "setup", "testing",
                       "teardown", "cleared", "restoring", "over"}]
    /\ answer \in [Run -> Mode \cup {Unknown}]
    /\ saved \in [Run -> Mode \cup {Unknown}]
    /\ last \in [Run -> 0..Tests]
    /\ stops \in [Run -> BOOLEAN]
    /\ test \in [Run -> 0..Tests]
    /\ failed \in [Run -> BOOLEAN]
HistoryTyped ==
    /\ replay \in [Run -> Seq(BOOLEAN)]
    /\ said \in [Run -> Seq(BOOLEAN)]
    /\ restored \subseteq Run
    /\ before \in [Run -> Mode]
    /\ shared \subseteq Run
    /\ unclean \subseteq {"failed", "cut"}
    /\ dropped \in BOOLEAN

LEMMA TypeParts == TypeOK <=> GameTyped /\ TasksTyped /\ HistoryTyped
  BY DEF TypeOK, GameTyped, TasksTyped, HistoryTyped

LEMMA TypePartsPrimed ==
    ASSUME GameTyped', TasksTyped', HistoryTyped'
    PROVE  TypeOK'
  BY DEF TypeOK, GameTyped, TasksTyped, HistoryTyped

\* What a step leaves alone stays typed.
LEMMA TypesKept ==
    ASSUME TypeOK
    PROVE  /\ UNCHANGED game => GameTyped'
           /\ UNCHANGED history => HistoryTyped'
<1>1. GameTyped /\ HistoryTyped
  BY TypeParts
<1>2. UNCHANGED game => GameTyped'
  BY <1>1 DEF GameTyped, game
<1>3. UNCHANGED history => HistoryTyped'
  BY <1>1 DEF HistoryTyped, history
<1>. QED
  BY <1>2, <1>3

\* A gamemode command that is sent is a gamemode.
LEMMA SendTypes ==
    ASSUME TypeOK, NEW m \in Mode, SendGamemode(m)
    PROVE  changes' \in Seq(Mode) /\ dropped' \in BOOLEAN
<1>1. changes \in Seq(Mode) /\ dropped \in BOOLEAN
  BY DEF TypeOK
<1>2. changes' \in Seq(Mode)
  <2>1. Append(changes, m) \in Seq(Mode)
    BY <1>1
  <2>. QED
    BY <1>1, <2>1, Zenon DEF SendGamemode
<1>3. dropped' \in BOOLEAN
  BY <1>1, Zenon DEF SendGamemode
<1>. QED
  BY <1>2, <1>3

\* The number of the test a run goes on to.
LEMMA NextTestNumber ==
    ASSUME TypeOK, NEW r \in Run, NEW passed, AnotherTest(r, passed)
    PROVE  test[r] + 1 \in 0..Tests /\ test[r] + 1 > 0
<1>1. Tests \in Nat
  BY BoundsAssumption
<1>2. test[r] \in 0..Tests /\ last[r] \in 0..Tests
  BY DEF TypeOK
<1>. QED
  BY <1>1, <1>2 DEF AnotherTest

\* StartRestoring and NextTest, of a run that has saved a gamemode.
LEMMA RestoringTypes ==
    ASSUME TypeOK, NEW r \in Run, saved[r] \in Mode, StartRestoring(r)
    PROVE  /\ pc' = [pc EXCEPT ![r] = "restoring"]
           /\ answer' = [answer EXCEPT ![r] = Unknown]
           /\ UNCHANGED <<test, failed>>
           /\ restored' = restored \cup {r}
           /\ SendGamemode(saved[r])
           /\ changes' \in Seq(Mode) /\ dropped' \in BOOLEAN
  BY SendTypes DEF StartRestoring, Restores

LEMMA NextTestTypes ==
    ASSUME TypeOK, NEW r \in Run, saved[r] \in Mode, NEW passed, NextTest(r, passed)
    PROVE  /\ pc' \in [Run -> {"none", "created", "saving", "switching", "setup", "testing",
                               "teardown", "cleared", "restoring", "over"}]
           /\ answer' \in [Run -> Mode \cup {Unknown}]
           /\ test' \in [Run -> 0..Tests] /\ failed' \in [Run -> BOOLEAN]
           /\ restored' \subseteq Run
           /\ changes' \in Seq(Mode) /\ dropped' \in BOOLEAN
<1>0. TasksTyped /\ HistoryTyped /\ GameTyped
  BY TypeParts
<1>1. CASE AnotherTest(r, passed)
  <2>1. test[r] + 1 \in 0..Tests
    BY <1>1, NextTestNumber
  <2>2. /\ pc' = [pc EXCEPT ![r] = "setup"]
        /\ test' = [test EXCEPT ![r] = test[r] + 1]
        /\ failed' = [failed EXCEPT ![r] = FALSE]
        /\ answer' = [answer EXCEPT ![r] = Unknown]
        /\ changes' = changes /\ restored' = restored /\ dropped' = dropped
    BY <1>0, <1>1 DEF NextTest, TasksTyped
  <2>3. pc' \in [Run -> {"none", "created", "saving", "switching", "setup", "testing",
                         "teardown", "cleared", "restoring", "over"}]
        /\ answer' \in [Run -> Mode \cup {Unknown}]
    BY <1>0, <2>2 DEF TasksTyped
  <2>4. test' \in [Run -> 0..Tests] /\ failed' \in [Run -> BOOLEAN]
    BY <1>0, <2>1, <2>2 DEF TasksTyped
  <2>5. restored' \subseteq Run /\ changes' \in Seq(Mode) /\ dropped' \in BOOLEAN
    BY <1>0, <2>2 DEF HistoryTyped, GameTyped
  <2>. QED
    BY <2>3, <2>4, <2>5
<1>2. CASE ~AnotherTest(r, passed)
  <2>1. StartRestoring(r)
    BY <1>2 DEF NextTest
  <2>2. /\ pc' = [pc EXCEPT ![r] = "restoring"]
        /\ answer' = [answer EXCEPT ![r] = Unknown]
        /\ test' = test /\ failed' = failed
        /\ restored' = restored \cup {r}
        /\ changes' \in Seq(Mode) /\ dropped' \in BOOLEAN
    BY <2>1, RestoringTypes
  <2>. QED
    BY <1>0, <2>2 DEF TasksTyped, HistoryTyped
<1>. QED
  BY <1>1, <1>2

\* A step of one task that changes where it is and what it was answered.
LEMMA TaskStepTypes ==
    ASSUME TypeOK, NEW r \in Run,
           UNCHANGED <<current, saved, last, stops, test, failed>>,
           told' \subseteq Run,
           \/ pc' = pc
           \/ \E where \in {"saving", "switching", "testing", "teardown", "cleared", "over"} :
                 pc' = [pc EXCEPT ![r] = where],
           \/ answer' = answer
           \/ \E m \in Mode \cup {Unknown} : answer' = [answer EXCEPT ![r] = m]
    PROVE  TasksTyped'
<1>0. TasksTyped
  BY TypeParts
<1>. USE DEF TasksTyped
<1>1. pc' \in [Run -> {"none", "created", "saving", "switching", "setup", "testing",
                       "teardown", "cleared", "restoring", "over"}]
  BY <1>0
<1>2. answer' \in [Run -> Mode \cup {Unknown}]
  BY <1>0
<1>. QED
  BY <1>0, <1>1, <1>2

LEMMA NextTypes ==
    ASSUME IInv, [Next]_vars
    PROVE  TypeOK'
<1>0. TypeOK /\ Prepared /\ GameTyped /\ TasksTyped /\ HistoryTyped /\ told \subseteq Run
  BY TypeParts DEF IInv, TasksTyped
<1>1. ASSUME NEW r \in Run, TypeRun(r) PROVE TypeOK'
  <2>1. told' \subseteq Run
    BY <1>0, <1>1 DEF TypeRun, Told, AtWork, Typed
  <2>2. /\ current' = r /\ pc' = [pc EXCEPT ![r] = "created"]
        /\ UNCHANGED <<answer, saved, test, failed>>
    BY <1>1 DEF TypeRun
  <2>3. last' \in [Run -> 0..Tests] /\ stops' \in [Run -> BOOLEAN]
    BY <1>0, <1>1 DEF TypeRun, TasksTyped
  <2>4. TasksTyped'
    BY <1>0, <2>1, <2>2, <2>3 DEF TasksTyped
  <2>5. before' \in [Run -> Mode]
    BY <1>0, <1>1 DEF TypeRun, HistoryTyped, GameTyped
  <2>6. shared' \subseteq Run
    BY <1>0, <1>1 DEF TypeRun, HistoryTyped, AtWork, Typed
  <2>7. HistoryTyped'
    BY <1>0, <1>1, <2>5, <2>6 DEF TypeRun, HistoryTyped
  <2>8. GameTyped'
    BY <1>0, <1>1, TypesKept DEF TypeRun
  <2>. QED
    BY <2>4, <2>7, <2>8, TypePartsPrimed
<1>2. ASSUME TypeOther PROVE TypeOK'
  <2>1. told' \subseteq Run
    BY <1>0, <1>2 DEF TypeOther, Told, AtWork, Typed
  <2>2. TasksTyped'
    BY <1>0, <1>2, <2>1 DEF TypeOther, TasksTyped
  <2>. QED
    BY <1>0, <1>2, <2>2, TypesKept, TypePartsPrimed DEF TypeOther
<1>3. ASSUME ModeLands PROVE TypeOK'
  <2>1. GameTyped'
    BY <1>0, <1>3 DEF ModeLands, GameTyped
  <2>2. TasksTyped'
    BY <1>0, <1>3 DEF ModeLands, TasksTyped
  <2>. QED
    BY <1>0, <1>3, <2>1, <2>2, TypesKept, TypePartsPrimed DEF ModeLands
<1>4. ASSUME NEW r \in Run,
             AskMode(r) \/ ModAnswers(r) \/ PollAgain(r) \/ GiveUp(r) \/ RestoreConfirmed(r)
                \/ UnwindOutside(r)
      PROVE  TypeOK'
  <2>1. UNCHANGED <<game, history>>
    BY <1>4 DEF AskMode, ModAnswers, PollAgain, GiveUp, RestoreConfirmed, UnwindOutside
  <2>2. TasksTyped'
    <3>1. mode \in Mode \cup {Unknown} /\ Unknown \in Mode \cup {Unknown}
      BY <1>0 DEF GameTyped
    <3>2. UNCHANGED <<current, saved, last, stops, test, failed>> /\ told' \subseteq Run
      BY <1>0, <1>4 DEF AskMode, ModAnswers, PollAgain, GiveUp, RestoreConfirmed, UnwindOutside
    <3>3. \/ pc' = pc
          \/ \E where \in {"saving", "switching", "testing", "teardown", "cleared", "over"} :
                pc' = [pc EXCEPT ![r] = where]
      BY <1>4 DEF AskMode, ModAnswers, PollAgain, GiveUp, RestoreConfirmed, UnwindOutside
    <3>4. \/ answer' = answer
          \/ \E m \in Mode \cup {Unknown} : answer' = [answer EXCEPT ![r] = m]
      BY <1>4, <3>1 DEF AskMode, ModAnswers, PollAgain, GiveUp, RestoreConfirmed, UnwindOutside
    <3>. QED
      BY <1>0, <3>2, <3>3, <3>4, TaskStepTypes
  <2>. QED
    BY <1>0, <2>1, <2>2, TypesKept, TypePartsPrimed
<1>5. ASSUME NEW r \in Run, SwitchToSurvival(r) PROVE TypeOK'
  <2>1. SendGamemode("survival") /\ "survival" \in Mode
    BY <1>5 DEF SwitchToSurvival, Mode
  <2>2. changes' \in Seq(Mode) /\ dropped' \in BOOLEAN
    BY <1>0, <2>1, SendTypes
  <2>3. GameTyped'
    BY <1>0, <1>5, <2>2 DEF SwitchToSurvival, GameTyped
  <2>4. HistoryTyped'
    BY <1>0, <1>5, <2>2 DEF SwitchToSurvival, HistoryTyped
  <2>5. TasksTyped'
    BY <1>0, <1>5 DEF SwitchToSurvival, TasksTyped
  <2>. QED
    BY <2>3, <2>4, <2>5, TypePartsPrimed
<1>6. ASSUME NEW r \in Run, SurvivalConfirmed(r) PROVE TypeOK'
  <2>1. saved[r] \in Mode
    BY <1>0, <1>6 DEF Prepared, SurvivalConfirmed, Awake
  <2>2. NextTest(r, TRUE)
    BY <1>6 DEF SurvivalConfirmed
  <2>3. GameTyped'
    BY <1>0, <1>6, <2>1, <2>2, NextTestTypes DEF SurvivalConfirmed, GameTyped
  <2>4. HistoryTyped'
    BY <1>0, <1>6, <2>1, <2>2, NextTestTypes DEF SurvivalConfirmed, HistoryTyped
  <2>5. TasksTyped'
    BY <1>0, <1>6, <2>1, <2>2, NextTestTypes DEF SurvivalConfirmed, TasksTyped
  <2>. QED
    BY <2>3, <2>4, <2>5, TypePartsPrimed
<1>20. ASSUME NEW r \in Run, blocks' \in Placed(r), UNCHANGED mode,
              changes' \in Seq(Mode) PROVE GameTyped'
  <2>1. CASE pc[r] = "setup"
    <3>1. test[r] \in 0..Tests /\ test[r] > 0
      BY <1>0, <2>1 DEF Prepared, InTest, TasksTyped
    <3>2. test[r] \in Test
      BY <3>1, BoundsAssumption DEF Test
    <3>. QED
      BY <1>0, <1>20, <2>1, <3>2 DEF Placed, GameTyped
  <2>2. CASE pc[r] # "setup"
    BY <1>0, <1>20, <2>2 DEF Placed, GameTyped
  <2>. QED
    BY <2>1, <2>2
<1>7. ASSUME NEW r \in Run, SetupDone(r) PROVE TypeOK'
  <2>2. GameTyped'
    BY <1>0, <1>7, <1>20 DEF SetupDone, GameTyped
  <2>3. TasksTyped'
    BY <1>0, <1>7, TaskStepTypes DEF SetupDone
  <2>. QED
    BY <1>0, <1>7, <2>2, <2>3, TypesKept, TypePartsPrimed DEF SetupDone
<1>8. ASSUME NEW r \in Run, MainEnds(r) PROVE TypeOK'
  <2>1. TasksTyped'
    BY <1>0, <1>8 DEF MainEnds, AfterMain, TasksTyped
  <2>2. GameTyped'
    BY <1>0, <1>8, <1>20 DEF MainEnds, GameTyped
  <2>. QED
    BY <1>0, <1>8, <2>1, <2>2, TypesKept, TypePartsPrimed DEF MainEnds
<1>9. ASSUME NEW r \in Run, Clear(r) PROVE TypeOK'
  <2>1. TasksTyped'
    BY <1>0, <1>9, TaskStepTypes DEF Clear
  <2>2. GameTyped'
    BY <1>0, <1>9 DEF Clear, GameTyped
  <2>3. HistoryTyped'
    BY <1>0, <1>9 DEF Clear, HistoryTyped
  <2>. QED
    BY <2>1, <2>2, <2>3, TypePartsPrimed
<1>10. ASSUME NEW r \in Run, TestEnds(r) PROVE TypeOK'
  <2>1. saved[r] \in Mode
    BY <1>0, <1>10 DEF Prepared, TestEnds, InTest
  <2>2. PICK cleaned \in BOOLEAN :
          /\ replay' = [replay EXCEPT ![r] = Append(@, ReplayPassed(r, cleaned))]
          /\ said' = [said EXCEPT ![r] = Append(@, ChatPassed(r, cleaned))]
          /\ NextTest(r, ChatPassed(r, cleaned))
    BY <1>10 DEF TestEnds
  <2>3. ReplayPassed(r, cleaned) \in BOOLEAN /\ ChatPassed(r, cleaned) \in BOOLEAN
    BY DEF ReplayPassed, ChatPassed
  <2>4. GameTyped'
    BY <1>0, <1>10, <2>1, <2>2, NextTestTypes DEF TestEnds, GameTyped
  <2>5. TasksTyped'
    BY <1>0, <1>10, <2>1, <2>2, NextTestTypes DEF TestEnds, TasksTyped
  <2>6. replay' \in [Run -> Seq(BOOLEAN)] /\ said' \in [Run -> Seq(BOOLEAN)]
    BY <1>0, <2>2, <2>3 DEF HistoryTyped
  <2>7. restored' \subseteq Run /\ dropped' \in BOOLEAN
    BY <1>0, <2>1, <2>2, NextTestTypes
  <2>8. unclean' \subseteq {"failed", "cut"} /\ before' = before /\ shared' = shared
    BY <1>0, <1>10 DEF TestEnds, HistoryTyped
  <2>9. HistoryTyped'
    BY <1>0, <2>6, <2>7, <2>8 DEF HistoryTyped
  <2>. QED
    BY <2>4, <2>5, <2>9, TypePartsPrimed
<1>11. ASSUME NEW r \in Run, UnwindTest(r) PROVE TypeOK'
  <2>1. saved[r] \in Mode
    BY <1>0, <1>11 DEF Prepared, UnwindTest
  <2>2. /\ pc' = [pc EXCEPT ![r] = "restoring"]
        /\ answer' = [answer EXCEPT ![r] = Unknown]
        /\ test' = test /\ failed' = failed
        /\ restored' = restored \cup {r}
        /\ changes' \in Seq(Mode) /\ dropped' \in BOOLEAN
    BY <1>0, <1>11, <2>1, RestoringTypes DEF UnwindTest
  <2>3. GameTyped'
    BY <1>0, <1>11, <1>20, <2>2 DEF UnwindTest
  <2>4. TasksTyped'
    BY <1>0, <1>11, <2>2 DEF UnwindTest, TasksTyped
  <2>5. replay' \in [Run -> Seq(BOOLEAN)]
    BY <1>0, <1>11 DEF UnwindTest, HistoryTyped
  <2>6. unclean' \subseteq {"failed", "cut"}
    BY <1>0, <1>11 DEF UnwindTest, HistoryTyped
  <2>7. HistoryTyped'
    BY <1>0, <1>11, <2>2, <2>5, <2>6 DEF UnwindTest, HistoryTyped
  <2>. QED
    BY <2>3, <2>4, <2>7, TypePartsPrimed
<1>12. ASSUME UNCHANGED vars PROVE TypeOK'
  <2>1. TasksTyped'
    BY <1>0, <1>12 DEF vars, TasksTyped
  <2>. QED
    BY <1>0, <1>12, <2>1, TypesKept, TypePartsPrimed DEF vars
<1>. QED
  BY <1>1, <1>2, <1>3, <1>4, <1>5, <1>6, <1>7, <1>8, <1>9, <1>10, <1>11, <1>12 DEF Next

-----------------------------------------------------------------------------
(* Supersession.                                                           *)

\* A step of one task that leaves it where its cancellation finds it: what is
\* left to show is what becomes of its place and of its answer.
LEMMA TaskStepSupersedes ==
    ASSUME IInv, NEW r \in Run, r \notin told,
           UNCHANGED <<current, told>>,
           \E where : pc' = [pc EXCEPT ![r] = where] /\ where # "none"
                        /\ (where \in {"setup", "testing", "teardown", "cleared"}
                              => pc[r] # "created" /\ pc[r] # "saving" /\ pc[r] \in Driving)
                        /\ (where \in Driving => pc[r] \in Driving)
                        /\ (where \notin {"saving", "over"} => pc[r] \notin {"created", "saving", "over"}),
           \/ answer' = answer
           \/ answer' = [answer EXCEPT ![r] = Unknown]
    PROVE  Supersession'
<1>0. Supersession /\ pc \in [Run -> {"none", "created", "saving", "switching", "setup", "testing",
                       "teardown", "cleared", "restoring", "over"}]
      /\ answer \in [Run -> Mode \cup {Unknown}] /\ current \in Run \cup {None} /\ told \subseteq Run
  BY DEF IInv, TypeOK
<1>. USE <1>0 DEF Supersession
<1>1. PICK where : /\ pc' = [pc EXCEPT ![r] = where]
                   /\ where # "none"
                   /\ where \in {"setup", "testing", "teardown", "cleared"}
                        => pc[r] # "created" /\ pc[r] # "saving" /\ pc[r] \in Driving
                   /\ where \in Driving => pc[r] \in Driving
                   /\ where \notin {"saving", "over"} => pc[r] \notin {"created", "saving", "over"}
  OBVIOUS
<1>2. \A q \in told' : pc'[q] \notin {"none", "over"}
  BY <1>1
<1>3. \A q \in Run : pc'[q] \in Driving /\ q \notin told' => q = current'
  BY <1>1
<1>4. told' # {} /\ current' # None
         => pc'[current'] \in {"created", "saving", "over"} /\ answer'[current'] = Unknown
  BY <1>1
<1>5. \A p, q \in Run : InTest(p)' /\ InTest(q)' => p = q
  <2>1. SUFFICES ASSUME NEW p \in Run, NEW q \in Run, InTest(p)', InTest(q)', p # q, q = r
                 PROVE  FALSE
    BY <1>1 DEF InTest
  <2>2. InTest(p)
    BY <2>1, <1>1 DEF InTest
  <2>3. pc[r] \in Driving \ {"created", "saving"}
    BY <2>1, <1>1 DEF InTest
  <2>4. r = current /\ told = {}
    <3>1. r = current
      BY <2>3
    <3>2. r # None
      BY BoundsAssumption DEF Run, None
    <3>3. pc[current] \notin {"created", "saving", "over"}
      BY <2>3, <3>1 DEF Driving
    <3>. QED
      BY <3>1, <3>2, <3>3
  <2>5. p = current
    BY <2>2, <2>4 DEF InTest, Driving
  <2>. QED
    BY <2>1, <2>4, <2>5
<1>6. \A q \in Run : pc'[q] = "none" => answer'[q] = Unknown
  BY <1>1
<1>. QED
  BY <1>2, <1>3, <1>4, <1>5, <1>6, current' = current, told' = told

\* A command that is typed tells the current one to stop.
LEMMA ToldToStop ==
    ASSUME IInv, told' = Told, NEW r \in Run
    PROVE  /\ pc[r] \in Driving => r \in told'
           /\ r \in told' => r \in told \/ (r = current /\ pc[r] \notin {"none", "over"})
<1>1. pc[r] \in Driving => pc[r] \notin {"none", "over"}
  BY DEF Driving
<1>. QED
  BY <1>1 DEF IInv, Supersession, Told, AtWork, Typed

LEMMA NextSupersedes ==
    ASSUME IInv, [Next]_vars
    PROVE  Supersession'
<1>0. /\ TypeOK /\ Supersession /\ told \subseteq Run
      /\ pc \in [Run -> {"none", "created", "saving", "switching", "setup", "testing",
                         "teardown", "cleared", "restoring", "over"}]
      /\ answer \in [Run -> Mode \cup {Unknown}] /\ current \in Run \cup {None}
      /\ saved \in [Run -> Mode \cup {Unknown}]
  BY DEF IInv, TypeOK
<1>. USE <1>0
<1>1. ASSUME NEW r \in Run, TypeRun(r) PROVE Supersession'
  <2>1. /\ pc[r] = "none" /\ told' = Told /\ current' = r /\ answer' = answer
        /\ pc' = [pc EXCEPT ![r] = "created"]
    BY <1>1 DEF TypeRun
  <2>2. \A q \in told' : pc'[q] \notin {"none", "over"}
    BY <2>1 DEF Supersession, Told, AtWork, Typed
  <2>3. r \notin told'
    BY <2>1, ToldToStop DEF Supersession
  <2>4. \A q \in Run : pc'[q] \in Driving /\ q \notin told' => q = current'
    BY <2>1, ToldToStop
  <2>5. pc'[r] = "created" /\ answer'[r] = Unknown
    BY <2>1 DEF Supersession
  <2>6. \A p, q \in Run : InTest(p)' /\ InTest(q)' => p = q
    BY <2>1 DEF Supersession, InTest
  <2>7. \A q \in Run : pc'[q] = "none" => answer'[q] = Unknown
    BY <2>1 DEF Supersession
  <2>. QED
    BY <2>1, <2>2, <2>3, <2>4, <2>5, <2>6, <2>7 DEF Supersession
<1>2. ASSUME TypeOther PROVE Supersession'
  <2>1. told' = Told /\ current' = None /\ answer' = answer /\ pc' = pc
    BY <1>2 DEF TypeOther
  <2>2. \A q \in told' : pc'[q] \notin {"none", "over"}
    BY <2>1 DEF Supersession, Told, AtWork, Typed
  <2>3. None \notin told'
    BY BoundsAssumption, <2>1 DEF Told, AtWork, Typed, Run, None
  <2>4. \A q \in Run : pc'[q] \in Driving => q \in told'
    BY <2>1, ToldToStop
  <2>. QED
    BY <2>1, <2>2, <2>3, <2>4 DEF Supersession, InTest
<1>3. ASSUME ModeLands \/ UNCHANGED vars PROVE Supersession'
  <2>1. UNCHANGED <<told, current, answer, pc>>
    BY <1>3 DEF ModeLands, vars
  <2>. QED
    BY <2>1 DEF Supersession, InTest
<1>4. ASSUME NEW r \in Run, ModAnswers(r) PROVE Supersession'
  <2>1. told = {} /\ UNCHANGED <<told, current, pc>> /\ pc[r] # "none"
        /\ answer' = [answer EXCEPT ![r] = mode]
    BY <1>4 DEF ModAnswers, Querying
  <2>. QED
    BY <2>1 DEF Supersession, InTest
<1>5. ASSUME NEW r \in Run, PollAgain(r) PROVE Supersession'
  <2>1. UNCHANGED <<told, current, pc>> /\ answer' = [answer EXCEPT ![r] = Unknown]
    BY <1>5 DEF PollAgain
  <2>. QED
    BY <2>1 DEF Supersession, InTest
<1>6. ASSUME NEW r \in Run,
             \/ AskMode(r) \/ GiveUp(r) \/ RestoreConfirmed(r)
             \/ SetupDone(r) \/ MainEnds(r) \/ Clear(r)
      PROVE  Supersession'
  <2>1. r \notin told /\ UNCHANGED <<told, current, answer>>
    BY <1>6 DEF AskMode, GiveUp, RestoreConfirmed, SetupDone, MainEnds, Clear, Awake
  <2>2. \E where : pc' = [pc EXCEPT ![r] = where] /\ where # "none"
                     /\ (where \in {"setup", "testing", "teardown", "cleared"}
                           => pc[r] # "created" /\ pc[r] # "saving" /\ pc[r] \in Driving)
                     /\ (where \in Driving => pc[r] \in Driving)
                     /\ (where \notin {"saving", "over"} => pc[r] \notin {"created", "saving", "over"})
    BY <1>6 DEF AskMode, GiveUp, RestoreConfirmed, SetupDone, MainEnds, AfterMain, Clear, Awake,
                Driving
  <2>. QED
    BY <2>1, <2>2, TaskStepSupersedes
<1>7. ASSUME NEW r \in Run, SwitchToSurvival(r) PROVE Supersession'
  <2>1. /\ r \notin told /\ pc[r] = "saving" /\ answer[r] # Unknown
        /\ pc' = [pc EXCEPT ![r] = "switching"] /\ answer' = [answer EXCEPT ![r] = Unknown]
        /\ UNCHANGED <<told, current>>
    BY <1>7 DEF SwitchToSurvival, Awake
  <2>2. r = current /\ r # None
    BY <2>1, BoundsAssumption DEF Supersession, Driving, Run, None
  <2>3. told = {}
    BY <2>1, <2>2 DEF Supersession
  <2>4. \A q \in Run : pc'[q] \in Driving /\ q \notin told' => q = current'
    BY <2>1, <2>2 DEF Supersession
  <2>. QED
    BY <2>1, <2>3, <2>4 DEF Supersession, InTest
<1>8. ASSUME NEW r \in Run, NEW passed, NextTest(r, passed), r \notin told,
             pc[r] = "switching" \/ InTest(r), UNCHANGED <<told, current>>
      PROVE  Supersession'
  <2>1. answer' = [answer EXCEPT ![r] = Unknown]
    BY <1>8 DEF NextTest, StartRestoring
  <2>2. \E where \in {"setup", "restoring"} : pc' = [pc EXCEPT ![r] = where]
    BY <1>8 DEF NextTest, StartRestoring
  <2>3. pc[r] \in Driving \ {"created", "saving"}
    BY <1>8 DEF InTest, Driving
  <2>. QED
    BY <1>8, <2>1, <2>2, <2>3, TaskStepSupersedes DEF Driving
<1>9. ASSUME NEW r \in Run, SurvivalConfirmed(r) \/ TestEnds(r) PROVE Supersession'
  BY <1>8, <1>9 DEF SurvivalConfirmed, TestEnds, Awake, InTest
<1>10. ASSUME NEW r \in Run, UnwindTest(r) PROVE Supersession'
  <2>1. /\ r \in told /\ told' = told \ {r} /\ UNCHANGED current
        /\ pc' = [pc EXCEPT ![r] = "restoring"] /\ answer' = [answer EXCEPT ![r] = Unknown]
    BY <1>10 DEF UnwindTest, StartRestoring
  <2>. QED
    BY <2>1 DEF Supersession, InTest, Driving
<1>11. ASSUME NEW r \in Run, UnwindOutside(r) PROVE Supersession'
  <2>1. /\ r \in told /\ told' = told \ {r} /\ UNCHANGED <<current, answer>>
        /\ pc' = [pc EXCEPT ![r] = "over"]
    BY <1>11 DEF UnwindOutside
  <2>. QED
    BY <2>1 DEF Supersession, InTest, Driving
<1>. QED
  BY <1>1, <1>2, <1>3, <1>4, <1>5, <1>6, <1>7, <1>9, <1>10, <1>11 DEF Next

-----------------------------------------------------------------------------
(* Replays and verdicts, and what a run in a test knows.                   *)

\* One more replay and one more verdict.
LEMMA OneMoreEach ==
    ASSUME NEW s \in Seq(BOOLEAN), NEW t \in Seq(BOOLEAN), Len(s) <= Len(t),
           \A i \in 1..Len(s) : t[i] = s[i], NEW v \in BOOLEAN
    PROVE  /\ Len(s) <= Len(Append(t, v))
           /\ \A i \in 1..Len(s) : Append(t, v)[i] = s[i]
<1>1. Len(s) \in Nat /\ Len(t) \in Nat /\ Len(Append(t, v)) = Len(t) + 1
  OBVIOUS
<1>2. \A i \in 1..Len(t) : Append(t, v)[i] = t[i]
  OBVIOUS
<1>. QED
  BY <1>1, <1>2

LEMMA NextVerdicts ==
    ASSUME IInv, [Next]_vars
    PROVE  Verdicts'
<1>0. /\ Verdicts
      /\ pc \in [Run -> {"none", "created", "saving", "switching", "setup", "testing",
                         "teardown", "cleared", "restoring", "over"}]
      /\ replay \in [Run -> Seq(BOOLEAN)] /\ said \in [Run -> Seq(BOOLEAN)]
  BY DEF IInv, TypeOK
<1>. USE <1>0
<1>1. ASSUME UNCHANGED <<replay, said>>,
             \A q \in Run : pc[q] \in {"restoring", "over"} => pc'[q] \in {"restoring", "over"}
      PROVE  Verdicts'
  BY <1>1 DEF Verdicts
<1>2. ASSUME NEW r \in Run,
             \/ TypeRun(r) \/ AskMode(r) \/ ModAnswers(r) \/ SwitchToSurvival(r) \/ PollAgain(r)
             \/ GiveUp(r) \/ SetupDone(r) \/ MainEnds(r) \/ Clear(r) \/ RestoreConfirmed(r)
             \/ UnwindOutside(r)
      PROVE  Verdicts'
  <2>1. UNCHANGED <<replay, said>>
    BY <1>2 DEF TypeRun, AskMode, ModAnswers, SwitchToSurvival, PollAgain, GiveUp, SetupDone,
                MainEnds, Clear, RestoreConfirmed, UnwindOutside, history
  <2>2. \/ pc' = pc
        \/ pc[r] \notin {"restoring", "over"} /\ \E where : pc' = [pc EXCEPT ![r] = where]
        \/ pc' = [pc EXCEPT ![r] = "over"]
    BY <1>2 DEF TypeRun, AskMode, ModAnswers, SwitchToSurvival, PollAgain, GiveUp, SetupDone,
                MainEnds, Clear, RestoreConfirmed, UnwindOutside, Awake
  <2>. QED
    BY <1>1, <2>1, <2>2
<1>3. ASSUME ModeLands \/ TypeOther \/ UNCHANGED vars PROVE Verdicts'
  <2>1. UNCHANGED <<replay, said, pc>>
    BY <1>3 DEF ModeLands, TypeOther, vars, history
  <2>. QED
    BY <1>1, <2>1
<1>4. ASSUME NEW r \in Run, SurvivalConfirmed(r) PROVE Verdicts'
  <2>1. UNCHANGED <<replay, said>> /\ pc[r] = "switching" /\ NextTest(r, TRUE)
    BY <1>4 DEF SurvivalConfirmed, Awake
  <2>2. \E where : pc' = [pc EXCEPT ![r] = where]
    BY <2>1 DEF NextTest, StartRestoring
  <2>. QED
    BY <1>1, <2>1, <2>2
<1>5. ASSUME NEW r \in Run, TestEnds(r) PROVE Verdicts'
  <2>1. PICK cleaned \in BOOLEAN :
          /\ pc[r] = "cleared" \/ (pc[r] = "teardown" /\ ~cleaned)
          /\ replay' = [replay EXCEPT ![r] = Append(@, ReplayPassed(r, cleaned))]
          /\ said' = [said EXCEPT ![r] = Append(@, ChatPassed(r, cleaned))]
          /\ NextTest(r, ChatPassed(r, cleaned))
    BY <1>5 DEF TestEnds
  <2>2. ReplayPassed(r, cleaned) = ChatPassed(r, cleaned)
    BY DEF ReplayPassed, ChatPassed
  <2>3. replay[r] = said[r]
    BY <2>1 DEF Verdicts
  <2>4. replay'[r] = said'[r]
    BY <2>1, <2>2, <2>3
  <2>5. \E where : pc' = [pc EXCEPT ![r] = where]
    BY <2>1 DEF NextTest, StartRestoring
  <2>6. ASSUME NEW q \in Run, q # r
        PROVE  replay'[q] = replay[q] /\ said'[q] = said[q] /\ pc'[q] = pc[q]
    BY <2>1, <2>5, <2>6
  <2>7. said'[r] \in Seq(BOOLEAN)
    <3>1. ChatPassed(r, cleaned) \in BOOLEAN
      BY DEF ChatPassed
    <3>. QED
      BY <2>1, <3>1
  <2>8. Len(said'[r]) <= Len(said'[r])
    BY <2>7
  <2>. QED
    BY <2>4, <2>6, <2>8 DEF Verdicts
<1>6. ASSUME NEW r \in Run, UnwindTest(r) PROVE Verdicts'
  <2>1. /\ replay' = [replay EXCEPT ![r] = Append(@, TRUE)] /\ said' = said
        /\ pc' = [pc EXCEPT ![r] = "restoring"]
    BY <1>6 DEF UnwindTest, StartRestoring
  <2>2. /\ Len(said[r]) <= Len(replay'[r])
        /\ \A i \in 1..Len(said[r]) : replay'[r][i] = said[r][i]
    <3>1. /\ said[r] \in Seq(BOOLEAN) /\ replay[r] \in Seq(BOOLEAN)
          /\ Len(said[r]) <= Len(replay[r])
          /\ \A i \in 1..Len(said[r]) : replay[r][i] = said[r][i]
      BY DEF Verdicts
    <3>2. replay'[r] = Append(replay[r], TRUE)
      BY <2>1
    <3>3. /\ Len(said[r]) <= Len(Append(replay[r], TRUE))
          /\ \A i \in 1..Len(said[r]) : Append(replay[r], TRUE)[i] = said[r][i]
      BY <3>1, OneMoreEach, Zenon
    <3>. QED
      BY <3>2, <3>3, Zenon
  <2>3. pc'[r] = "restoring" /\ said'[r] = said[r]
    BY <2>1
  <2>4. ASSUME NEW q \in Run, q # r
        PROVE  replay'[q] = replay[q] /\ said'[q] = said[q] /\ pc'[q] = pc[q]
    BY <2>1, <2>4
  <2>5. ASSUME NEW q \in Run
        PROVE  /\ pc'[q] \notin {"restoring", "over"} => replay'[q] = said'[q]
               /\ Len(said'[q]) <= Len(replay'[q])
               /\ \A i \in 1..Len(said'[q]) : replay'[q][i] = said'[q][i]
    <3>1. CASE q = r
      BY <2>2, <2>3, <3>1
    <3>2. CASE q # r
      BY <2>4, <3>2 DEF Verdicts
    <3>. QED
      BY <3>1, <3>2
  <2>. QED
    BY <2>5 DEF Verdicts
<1>. QED
  BY <1>2, <1>3, <1>4, <1>5, <1>6 DEF Next

LEMMA NextPrepared ==
    ASSUME IInv, [Next]_vars
    PROVE  Prepared'
<1>0. /\ Prepared /\ TypeOK
      /\ pc \in [Run -> {"none", "created", "saving", "switching", "setup", "testing",
                         "teardown", "cleared", "restoring", "over"}]
      /\ test \in [Run -> 0..Tests]
      /\ saved \in [Run -> Mode \cup {Unknown}] /\ answer \in [Run -> Mode \cup {Unknown}]
  BY DEF IInv, TypeOK
<1>. USE <1>0
<1>1. ASSUME UNCHANGED <<test, saved>>,
             \A q \in Run : pc'[q] = "switching" => pc[q] = "switching",
             \A q \in Run : InTest(q)' => InTest(q)
      PROVE  Prepared'
  BY <1>1 DEF Prepared
<1>2. ASSUME NEW r \in Run,
             \/ TypeRun(r) \/ AskMode(r) \/ ModAnswers(r) \/ PollAgain(r)
             \/ GiveUp(r) \/ SetupDone(r) \/ MainEnds(r) \/ Clear(r) \/ RestoreConfirmed(r)
             \/ UnwindOutside(r) \/ UnwindTest(r)
      PROVE  Prepared'
  <2>1. UNCHANGED <<test, saved>>
    BY <1>2 DEF TypeRun, AskMode, ModAnswers, PollAgain, GiveUp, SetupDone,
                MainEnds, Clear, RestoreConfirmed, UnwindOutside, UnwindTest, StartRestoring
  <2>2. \/ pc' = pc
        \/ InTest(r) /\ \E where \in {"testing", "teardown", "cleared"} :
                           pc' = [pc EXCEPT ![r] = where]
        \/ \E where \in {"created", "saving", "restoring", "over"} : pc' = [pc EXCEPT ![r] = where]
    BY <1>2 DEF TypeRun, AskMode, ModAnswers, PollAgain, GiveUp, SetupDone, MainEnds, AfterMain,
                Clear, RestoreConfirmed, UnwindOutside, UnwindTest, StartRestoring, Awake, InTest
  <2>3. \A q \in Run : pc'[q] = "switching" => pc[q] = "switching"
    BY <2>2
  <2>4. ASSUME NEW q \in Run, InTest(q)' PROVE InTest(q)
    <3>1. CASE pc' = pc
      BY <2>4, <3>1 DEF InTest
    <3>2. CASE InTest(r) /\ \E where : pc' = [pc EXCEPT ![r] = where]
      BY <2>4, <3>2 DEF InTest
    <3>3. CASE \E where \in {"created", "saving", "restoring", "over"} : pc' = [pc EXCEPT ![r] = where]
      BY <2>4, <3>3 DEF InTest
    <3>. QED
      BY <2>2, <3>1, <3>2, <3>3
  <2>. QED
    BY <1>1, <2>1, <2>3, <2>4
<1>3. ASSUME ModeLands \/ TypeOther \/ UNCHANGED vars PROVE Prepared'
  <2>1. UNCHANGED <<test, saved, pc>>
    BY <1>3 DEF ModeLands, TypeOther, vars
  <2>. QED
    BY <2>1 DEF Prepared, InTest
<1>4. ASSUME NEW r \in Run, SwitchToSurvival(r) PROVE Prepared'
  <2>1. /\ answer[r] # Unknown /\ saved' = [saved EXCEPT ![r] = answer[r]]
        /\ pc' = [pc EXCEPT ![r] = "switching"] /\ test' = test
    BY <1>4 DEF SwitchToSurvival
  <2>. QED
    BY <2>1 DEF Prepared, InTest
<1>5. ASSUME NEW r \in Run, NEW passed, NextTest(r, passed), saved' = saved,
             pc[r] = "switching" \/ InTest(r)
      PROVE  Prepared'
  <2>1. CASE AnotherTest(r, passed)
    <3>1. test[r] + 1 > 0
      BY <2>1, NextTestNumber
    <3>2. pc' = [pc EXCEPT ![r] = "setup"] /\ test' = [test EXCEPT ![r] = test[r] + 1]
      BY <1>5, <2>1 DEF NextTest
    <3>3. test'[r] > 0 /\ saved'[r] \in Mode
      BY <1>5, <3>1, <3>2 DEF Prepared
    <3>4. ASSUME NEW q \in Run, q # r
          PROVE  test'[q] = test[q] /\ saved'[q] = saved[q] /\ pc'[q] = pc[q]
      BY <1>5, <3>2, <3>4
    <3>. QED
      BY <3>3, <3>4 DEF Prepared, InTest
  <2>2. CASE ~AnotherTest(r, passed)
    <3>1. pc' = [pc EXCEPT ![r] = "restoring"] /\ test' = test
      BY <1>5, <2>2 DEF NextTest, StartRestoring
    <3>. QED
      BY <1>1, <1>5, <3>1 DEF InTest
  <2>. QED
    BY <2>1, <2>2
<1>6. ASSUME NEW r \in Run, SurvivalConfirmed(r) \/ TestEnds(r) PROVE Prepared'
  BY <1>5, <1>6 DEF SurvivalConfirmed, TestEnds, Awake, InTest
<1>. QED
  BY <1>2, <1>3, <1>4, <1>6 DEF Next

-----------------------------------------------------------------------------
(* The ground the tests share.                                             *)

\* Whoever is in a test while blocks stand is the one they belong to.
LEMMA BlocksAreMine ==
    ASSUME IInv, NEW r \in Run, InTest(r), unclean = {}, blocks # {}
    PROVE  pc[r] \in {"testing", "teardown"} /\ blocks = {test[r]}
<1>1. PICK q \in Run : pc[q] \in {"testing", "teardown"} /\ blocks = {test[q]}
  BY DEF IInv, Ground
<1>2. InTest(q)
  BY <1>1 DEF InTest
<1>3. q = r
  BY <1>2 DEF IInv, Supersession
<1>. QED
  BY <1>1, <1>3

LEMMA NextGround ==
    ASSUME IInv, [Next]_vars
    PROVE  Ground'
<1>0. /\ Ground
      /\ pc \in [Run -> {"none", "created", "saving", "switching", "setup", "testing",
                         "teardown", "cleared", "restoring", "over"}]
      /\ test \in [Run -> 0..Tests]
  BY DEF IInv, TypeOK, Prepared
<1>. USE <1>0
<1>1. ASSUME UNCHANGED <<blocks, unclean>>,
             \A q \in Run : pc[q] \in {"testing", "teardown"}
                              => pc'[q] = pc[q] /\ test'[q] = test[q]
      PROVE  Ground'
  BY <1>1 DEF Ground
<1>2. ASSUME NEW r \in Run,
             \/ TypeRun(r) \/ AskMode(r) \/ ModAnswers(r) \/ SwitchToSurvival(r) \/ PollAgain(r)
             \/ GiveUp(r) \/ RestoreConfirmed(r) \/ UnwindOutside(r)
      PROVE  Ground'
  <2>1. UNCHANGED <<blocks, unclean, test>>
    BY <1>2 DEF TypeRun, AskMode, ModAnswers, SwitchToSurvival, PollAgain, GiveUp,
                RestoreConfirmed, UnwindOutside, history, game
  <2>2. \/ pc' = pc
        \/ pc[r] \notin {"testing", "teardown"} /\ \E where : pc' = [pc EXCEPT ![r] = where]
    BY <1>2 DEF TypeRun, AskMode, ModAnswers, SwitchToSurvival, PollAgain, GiveUp,
                RestoreConfirmed, UnwindOutside, Awake, GivesUp, Querying, InTest
  <2>. QED
    BY <1>1, <2>1, <2>2
<1>3. ASSUME ModeLands \/ TypeOther \/ UNCHANGED vars PROVE Ground'
  <2>1. UNCHANGED <<blocks, unclean, test, pc>>
    BY <1>3 DEF ModeLands, TypeOther, vars, game, history
  <2>. QED
    BY <1>1, <2>1
<1>4. ASSUME NEW r \in Run, SurvivalConfirmed(r) PROVE Ground'
  <2>1. UNCHANGED <<blocks, unclean>> /\ pc[r] = "switching" /\ NextTest(r, TRUE)
    BY <1>4 DEF SurvivalConfirmed, Awake
  <2>2. \E where : pc' = [pc EXCEPT ![r] = where]
    BY <2>1 DEF NextTest, StartRestoring
  <2>3. test' = test \/ test' = [test EXCEPT ![r] = test[r] + 1]
    BY <2>1 DEF NextTest, StartRestoring
  <2>. QED
    BY <1>1, <2>1, <2>2, <2>3
<1>5. ASSUME NEW r \in Run, SetupDone(r) PROVE Ground'
  <2>1. /\ InTest(r) /\ pc[r] = "setup" /\ pc' = [pc EXCEPT ![r] = "testing"]
        /\ blocks' \in {blocks, blocks \cup {test[r]}} /\ UNCHANGED <<test, unclean>>
    BY <1>5 DEF SetupDone, Awake, InTest, Placed, history
  <2>2. unclean = {} => blocks = {}
    BY <2>1, BlocksAreMine
  <2>. QED
    BY <2>1, <2>2 DEF Ground
<1>6. ASSUME NEW r \in Run, MainEnds(r) PROVE Ground'
  <2>1. /\ InTest(r) /\ pc' = [pc EXCEPT ![r] = "teardown"]
        /\ blocks' = blocks \/ (pc[r] = "setup" /\ blocks' = blocks \cup {test[r]})
        /\ UNCHANGED <<test, unclean>>
    BY <1>6 DEF MainEnds, AfterMain, InTest, Placed, history
  <2>2. /\ unclean = {} /\ blocks # {} => blocks = {test[r]}
        /\ unclean = {} /\ pc[r] = "setup" => blocks = {}
    BY <2>1, BlocksAreMine
  <2>. QED
    BY <2>1, <2>2 DEF Ground
<1>7. ASSUME NEW r \in Run, Clear(r) PROVE Ground'
  <2>1. /\ InTest(r)
        /\ \/ blocks' = blocks \ {test[r]} /\ UNCHANGED unclean
           \/ unclean' = unclean \cup {"failed"}
    BY <1>7 DEF Clear, Awake, InTest
  <2>2. unclean = {} /\ blocks # {} => blocks = {test[r]}
    BY <2>1, BlocksAreMine
  <2>. QED
    BY <2>1, <2>2 DEF Ground
<1>8. ASSUME NEW r \in Run, TestEnds(r) \/ UnwindTest(r) PROVE Ground'
  <2>1. /\ InTest(r)
        /\ \/ unclean' # {}
           \/ UNCHANGED <<blocks, unclean>> /\ pc[r] \notin {"testing", "teardown"}
    BY <1>8 DEF TestEnds, UnwindTest, InTest, Placed
  <2>2. unclean = {} /\ blocks # {} => pc[r] \in {"testing", "teardown"}
    BY <2>1, BlocksAreMine
  <2>. QED
    BY <2>1, <2>2 DEF Ground
<1>. QED
  BY <1>2, <1>3, <1>4, <1>5, <1>6, <1>7, <1>8 DEF Next

-----------------------------------------------------------------------------
(* The gamemode.                                                           *)

\* A command that lands, or one that is sent, and the mode it all comes to.
LEMMA FinalModeLands ==
    ASSUME TypeOK, ModeLands
    PROVE  FinalMode' = FinalMode
<1>1. changes \in Seq(Mode) /\ changes # <<>>
  BY DEF TypeOK, ModeLands
<1>2. mode' = Head(changes) /\ changes' = Tail(changes)
  BY DEF ModeLands
<1>3. /\ Len(changes) \in Nat \ {0} /\ Tail(changes) \in Seq(Mode)
      /\ Len(Tail(changes)) = Len(changes) - 1
      /\ \A i \in 1..Len(Tail(changes)) : Tail(changes)[i] = changes[i + 1]
  BY <1>1, EmptySeq, HeadTailProperties
<1>4. CASE Len(changes) = 1
  <2>1. Len(Tail(changes)) = 0
    BY <1>3, <1>4
  <2>2. Tail(changes) = <<>>
    BY <1>3, <2>1, EmptySeq
  <2>3. Head(changes) = changes[Len(changes)]
    BY <1>1, <1>4
  <2>. QED
    BY <1>1, <1>2, <2>2, <2>3 DEF FinalMode
<1>5. CASE Len(changes) # 1
  <2>1. Len(Tail(changes)) \in Nat \ {0}
    BY <1>3, <1>5
  <2>2. Tail(changes) # <<>>
    BY <1>3, <2>1, EmptySeq
  <2>3. Tail(changes)[Len(Tail(changes))] = changes[Len(changes)]
    BY <1>3, <2>1
  <2>. QED
    BY <1>1, <1>2, <2>2, <2>3 DEF FinalMode
<1>. QED
  BY <1>4, <1>5

LEMMA FinalModeSent ==
    ASSUME TypeOK, NEW m \in Mode, SendGamemode(m), ~dropped'
    PROVE  FinalMode' = m
<1>1. changes \in Seq(Mode) /\ changes' = Append(changes, m)
  BY DEF TypeOK, SendGamemode
<1>2. Append(changes, m) # <<>> /\ Append(changes, m)[Len(Append(changes, m))] = m
  BY <1>1
<1>. QED
  BY <1>1, <1>2 DEF FinalMode

\* What a run finds when nobody else is at work, it finds only for itself.
LEMMA RunStepModes ==
    ASSUME IInv, NEW r \in Run, pc[r] \notin {"none", "over"},
           \/ pc' = pc
           \/ \E where : where # "none" /\ pc' = [pc EXCEPT ![r] = where],
           shared' = shared,
           \A q \in Run : q # r => test'[q] = test[q],
           \A q \in restored' : q \in restored \/ q = r,
           r \notin shared /\ Stage(r) => Stage(r)'
    PROVE  Modes'
<1>0. /\ Modes /\ shared \subseteq Run
      /\ pc \in [Run -> {"none", "created", "saving", "switching", "setup", "testing",
                         "teardown", "cleared", "restoring", "over"}]
  BY DEF IInv, TypeOK
<1>1. \A q \in Run : pc'[q] = "none" <=> pc[q] = "none"
  BY <1>0
<1>2. \A q \in Run : q # r => pc'[q] = pc[q]
  BY <1>0
<1>3. \A q \in Run : Newest(q)' <=> Newest(q)
  BY <1>1 DEF Newest
<1>4. \A q \in Run : pc'[q] = "none" => test'[q] = 0 /\ q \notin restored'
  BY <1>0, <1>1 DEF Modes
<1>5. \A p, q \in Run : p < q /\ pc'[q] # "none" => pc'[p] # "none"
  BY <1>0, <1>1 DEF Modes
<1>6. \A q \in Run \ shared' : pc'[q] \notin {"none", "over"} => Newest(q)'
  <2>1. r \notin shared => Newest(r)
    BY <1>0 DEF Modes
  <2>. QED
    BY <1>0, <1>2, <1>3, <2>1 DEF Modes
<1>7. ASSUME NEW q \in Run \ shared', Newest(q)'
      PROVE  Stage(q)' /\ \A p \in Run : p # q => pc'[p] \in {"none", "over"}
  <2>1. q \notin shared /\ Newest(q)
    BY <1>3, <1>7
  <2>2. Stage(q) /\ \A p \in Run : p # q => pc[p] \in {"none", "over"}
    BY <1>0, <2>1 DEF Modes
  <2>3. q = r
    BY <2>2
  <2>. QED
    BY <1>2, <2>1, <2>2, <2>3
<1>. QED
  BY <1>4, <1>5, <1>6, <1>7 DEF Modes

\* A run that starts to restore.
LEMMA RestoringStage ==
    ASSUME IInv, NEW r \in Run, saved[r] \in Mode, StartRestoring(r),
           UNCHANGED <<mode, saved, before>>, saved[r] = before[r]
    PROVE  Stage(r)'
<1>1. pc \in [Run -> {"none", "created", "saving", "switching", "setup", "testing",
                      "teardown", "cleared", "restoring", "over"}]
      /\ TypeOK
  BY DEF IInv, TypeOK
<1>2. pc'[r] = "restoring" /\ SendGamemode(saved[r])
  BY <1>1, RestoringTypes
<1>3. ~dropped' => FinalMode' = before'[r]
  BY <1>1, <1>2, FinalModeSent
<1>. QED
  BY <1>2, <1>3 DEF Stage, InTest

\* A run that goes on to its next test, or to restoring.
LEMMA NextTestStage ==
    ASSUME IInv, NEW r \in Run, NEW passed, NextTest(r, passed),
           UNCHANGED <<mode, saved, before>>,
           pc[r] = "switching" \/ InTest(r),
           mode = "survival", Stage(r)
    PROVE  Stage(r)'
<1>1. /\ pc \in [Run -> {"none", "created", "saving", "switching", "setup", "testing",
                         "teardown", "cleared", "restoring", "over"}]
      /\ saved[r] \in Mode
  BY DEF IInv, TypeOK, Prepared
<1>2. saved[r] = before[r] /\ changes \in {<<>>, <<"survival">>}
  BY DEF Stage
<1>3. CASE AnotherTest(r, passed)
  <2>1. pc'[r] = "setup" /\ changes' = changes
    BY <1>1, <1>3 DEF NextTest
  <2>. QED
    BY <1>2, <2>1 DEF Stage, InTest
<1>4. CASE ~AnotherTest(r, passed)
  BY <1>1, <1>2, <1>4, RestoringStage DEF NextTest
<1>. QED
  BY <1>3, <1>4

LEMMA NextModes ==
    ASSUME IInv, [Next]_vars
    PROVE  Modes'
<1>0. /\ TypeOK /\ Modes /\ shared \subseteq Run /\ restored \subseteq Run /\ told \subseteq Run
      /\ pc \in [Run -> {"none", "created", "saving", "switching", "setup", "testing",
                         "teardown", "cleared", "restoring", "over"}]
      /\ answer \in [Run -> Mode \cup {Unknown}] /\ saved \in [Run -> Mode \cup {Unknown}]
      /\ test \in [Run -> 0..Tests] /\ before \in [Run -> Mode]
  BY DEF IInv, TypeOK
<1>. USE <1>0
<1>1. ASSUME NEW r \in Run, TypeRun(r) PROVE Modes'
  <2>1. /\ pc[r] = "none" /\ \A q \in Run : q < r => pc[q] # "none"
        /\ pc' = [pc EXCEPT ![r] = "created"]
        /\ before' = [before EXCEPT ![r] = mode]
        /\ shared' = IF AtWork = {} /\ changes = <<>> THEN shared ELSE shared \cup AtWork \cup {r}
        /\ UNCHANGED <<mode, changes, answer, saved, test, restored, dropped>>
    BY <1>1 DEF TypeRun, game
  <2>2. \A q \in Run : q # r => pc'[q] = pc[q] /\ before'[q] = before[q]
    BY <2>1
  <2>3. pc'[r] = "created" /\ before'[r] = mode
    BY <2>1
  <2>4. \A q \in Run : q > r => pc[q] = "none"
    BY <2>1 DEF Modes
  <2>5. Newest(r)'
    BY <2>2, <2>3, <2>4, BoundsAssumption DEF Newest, Run
  <2>6. \A q \in Run : pc'[q] = "none" => test'[q] = 0 /\ q \notin restored'
    BY <2>1, <2>2, <2>3 DEF Modes
  <2>7. \A p, q \in Run : p < q /\ pc'[q] # "none" => pc'[p] # "none"
    <3>1. SUFFICES ASSUME NEW p \in Run, NEW q \in Run, p < q, pc'[q] # "none"
                   PROVE  pc'[p] # "none"
      OBVIOUS
    <3>2. CASE q = r
      BY <2>1, <2>2, <2>3, <3>1, <3>2
    <3>3. CASE q # r
      BY <2>2, <2>3, <3>1, <3>3 DEF Modes
    <3>. QED
      BY <3>2, <3>3
  <2>8. ASSUME r \notin shared'
        PROVE  AtWork = {} /\ changes = <<>>
    BY <2>1, <2>8
  <2>9. \A q \in Run : q \in AtWork /\ q \notin shared' => FALSE
    BY <2>1
  <2>10. \A q \in Run \ shared' : pc'[q] \notin {"none", "over"} => Newest(q)'
    BY <2>2, <2>5, <2>9 DEF AtWork, Typed
  <2>11. ASSUME NEW q \in Run \ shared', Newest(q)'
         PROVE  Stage(q)' /\ \A p \in Run : p # q => pc'[p] \in {"none", "over"}
    <3>1. q = r
      <4>1. ~(r > q)
        BY <2>3, <2>11 DEF Newest
      <4>2. ~(q > r)
        BY <2>2, <2>4, <2>11, BoundsAssumption DEF Newest, Run
      <4>. QED
        BY <4>1, <4>2, BoundsAssumption DEF Run
    <3>2. AtWork = {} /\ changes = <<>>
      BY <2>8, <2>11, <3>1
    <3>3. answer[r] = Unknown /\ test[r] = 0 /\ r \notin restored
      BY <2>1 DEF IInv, Supersession, Modes
    <3>4. Stage(r)'
      BY <2>1, <2>3, <3>2, <3>3 DEF Stage, InTest
    <3>5. \A p \in Run : p # r => pc'[p] \in {"none", "over"}
      BY <2>2, <3>2 DEF AtWork, Typed
    <3>. QED
      BY <3>1, <3>4, <3>5
  <2>. QED
    BY <2>6, <2>7, <2>10, <2>11 DEF Modes
<1>2. ASSUME TypeOther \/ UNCHANGED vars PROVE Modes'
  <2>1. UNCHANGED <<mode, changes, pc, answer, saved, test, restored, before, shared, dropped>>
    BY <1>2 DEF TypeOther, vars, game, history
  <2>2. \A q \in Run : Stage(q)' <=> Stage(q)
    BY <2>1 DEF Stage, InTest, FinalMode
  <2>3. \A q \in Run : Newest(q)' <=> Newest(q)
    BY <2>1 DEF Newest
  <2>. QED
    BY <2>1, <2>2, <2>3 DEF Modes
<1>3. ASSUME ModeLands PROVE Modes'
  <2>1. /\ UNCHANGED <<pc, answer, saved, test, restored, before, shared, dropped>>
        /\ changes # <<>> /\ mode' = Head(changes) /\ changes' = Tail(changes)
    BY <1>3 DEF ModeLands, history
  <2>2. FinalMode' = FinalMode
    BY <1>3, FinalModeLands
  <2>3. changes = <<"survival">> => mode' = "survival" /\ changes' = <<>>
    BY <2>1
  <2>4. ASSUME NEW q \in Run, Stage(q) PROVE Stage(q)'
    <3>1. CASE pc[q] = "switching" \/ InTest(q)
      <4>1. mode' = "survival" /\ changes' = <<>> /\ saved[q] = before[q]
        BY <2>1, <2>3, <2>4, <3>1 DEF Stage
      <4>. QED
        BY <2>1, <2>2, <2>4, <3>1, <4>1 DEF Stage, InTest
    <3>2. CASE ~(pc[q] = "switching" \/ InTest(q))
      BY <2>1, <2>2, <2>4, <3>2 DEF Stage, InTest
    <3>. QED
      BY <3>1, <3>2
  <2>5. \A q \in Run : Newest(q)' <=> Newest(q)
    BY <2>1 DEF Newest
  <2>. QED
    BY <2>1, <2>4, <2>5 DEF Modes
<1>4. ASSUME NEW r \in Run, AskMode(r) PROVE Modes'
  <2>1. /\ pc[r] = "created" /\ pc' = [pc EXCEPT ![r] = "saving"]
        /\ UNCHANGED <<mode, changes, answer, saved, test, restored, before, shared, dropped>>
    BY <1>4 DEF AskMode, Awake, game, history
  <2>2. Stage(r) => Stage(r)'
    BY <2>1 DEF Stage, InTest
  <2>. QED
    BY <2>1, <2>2, RunStepModes
<1>5. ASSUME NEW r \in Run, ModAnswers(r) PROVE Modes'
  <2>1. /\ pc[r] \in {"saving", "switching", "restoring"}
        /\ answer' = [answer EXCEPT ![r] = mode]
        /\ UNCHANGED <<mode, changes, pc, saved, test, restored, before, shared, dropped>>
    BY <1>5 DEF ModAnswers, Querying, game, history
  <2>2. Stage(r) => Stage(r)'
    BY <2>1 DEF Stage, InTest, FinalMode
  <2>. QED
    BY <2>1, <2>2, RunStepModes
<1>6. ASSUME NEW r \in Run, SwitchToSurvival(r) PROVE Modes'
  <2>1. /\ pc[r] = "saving" /\ answer[r] # Unknown
        /\ saved' = [saved EXCEPT ![r] = answer[r]]
        /\ answer' = [answer EXCEPT ![r] = Unknown]
        /\ pc' = [pc EXCEPT ![r] = "switching"]
        /\ changes' = Append(changes, "survival") \/ changes' = changes
        /\ UNCHANGED <<mode, test, restored, before, shared>>
    BY <1>6 DEF SwitchToSurvival, Awake, SendGamemode
  <2>2. Append(<<>>, "survival") = <<"survival">>
    OBVIOUS
  <2>3. ASSUME Stage(r) PROVE Stage(r)'
    <3>1. changes = <<>> /\ answer[r] = before[r] /\ test[r] = 0 /\ r \notin restored
      BY <2>1, <2>3 DEF Stage
    <3>2. changes' \in {<<>>, <<"survival">>}
      BY <2>1, <2>2, <3>1
    <3>. QED
      BY <2>1, <3>1, <3>2 DEF Stage, InTest, Unknown
  <2>. QED
    BY <2>1, <2>3, RunStepModes
<1>7. ASSUME NEW r \in Run, PollAgain(r) PROVE Modes'
  <2>1. /\ pc[r] \in {"switching", "restoring"}
        /\ answer' = [answer EXCEPT ![r] = Unknown]
        /\ UNCHANGED <<mode, changes, pc, saved, test, restored, before, shared, dropped>>
    BY <1>7 DEF PollAgain, Querying, game, history
  <2>2. Stage(r) => Stage(r)'
    BY <2>1 DEF Stage, InTest, FinalMode, Unknown
  <2>. QED
    BY <2>1, <2>2, RunStepModes
<1>8. ASSUME NEW r \in Run,
             GiveUp(r) \/ RestoreConfirmed(r) \/ UnwindOutside(r)
      PROVE  Modes'
  <2>1. /\ pc[r] \in {"created", "saving", "switching", "restoring"}
        /\ pc' = [pc EXCEPT ![r] = "over"]
        /\ UNCHANGED <<mode, changes, answer, saved, test, restored, before, shared, dropped>>
    BY <1>8 DEF GiveUp, GivesUp, Querying, RestoreConfirmed, UnwindOutside, Awake, InTest,
                game, history, IInv, Supersession
  <2>2. Stage(r) => Stage(r)'
    BY <2>1 DEF Stage, InTest, FinalMode
  <2>. QED
    BY <2>1, <2>2, RunStepModes
<1>9. ASSUME NEW r \in Run, SetupDone(r) \/ MainEnds(r) \/ Clear(r) PROVE Modes'
  <2>1. /\ InTest(r)
        /\ \E where \in {"testing", "teardown", "cleared"} : pc' = [pc EXCEPT ![r] = where]
        /\ UNCHANGED <<mode, changes, answer, saved, test, restored, before, shared, dropped>>
    BY <1>9 DEF SetupDone, MainEnds, AfterMain, Clear, Awake, InTest, game, history
  <2>2. Stage(r) => Stage(r)'
    BY <2>1 DEF Stage, InTest
  <2>. QED
    BY <2>1, <2>2, RunStepModes DEF InTest
<1>10. ASSUME NEW r \in Run, NEW passed, NextTest(r, passed),
              pc[r] = "switching" \/ InTest(r), UNCHANGED <<mode, saved, before, shared>>,
              pc[r] = "switching" => answer[r] = "survival"
       PROVE  Modes'
  <2>1. Stage(r) => Stage(r)'
    <3>1. Stage(r) => mode = "survival"
      BY <1>10 DEF Stage
    <3>. QED
      BY <1>10, <3>1, NextTestStage
  <2>2. /\ \E where \in {"setup", "restoring"} : pc' = [pc EXCEPT ![r] = where]
        /\ test' = test \/ test' = [test EXCEPT ![r] = test[r] + 1]
    BY <1>10 DEF NextTest, StartRestoring
  <2>3. \A q \in restored' : q \in restored \/ q = r
    <3>1. saved[r] \in Mode
      BY <1>10 DEF IInv, Prepared
    <3>. QED
      BY <1>10, <3>1 DEF NextTest, StartRestoring, Restores
  <2>. QED
    BY <1>10, <2>1, <2>2, <2>3, RunStepModes DEF InTest
<1>11. ASSUME NEW r \in Run, SurvivalConfirmed(r) PROVE Modes'
  <2>1. /\ NextTest(r, TRUE) /\ pc[r] = "switching" /\ answer[r] = "survival"
        /\ UNCHANGED <<mode, saved, before, shared>>
    BY <1>11 DEF SurvivalConfirmed, Awake, Confirmed, Awaited
  <2>. QED
    BY <1>10, <2>1
<1>12. ASSUME NEW r \in Run, TestEnds(r) PROVE Modes'
  BY <1>10, <1>12 DEF TestEnds, InTest
<1>13. ASSUME NEW r \in Run, UnwindTest(r) PROVE Modes'
  <2>1. /\ InTest(r) /\ StartRestoring(r) /\ UNCHANGED <<mode, saved, before, shared>>
    BY <1>13 DEF UnwindTest
  <2>2. /\ saved[r] \in Mode
        /\ pc' = [pc EXCEPT ![r] = "restoring"] /\ test' = test /\ restored' = restored \cup {r}
    BY <2>1, RestoringTypes DEF IInv, Prepared
  <2>3. Stage(r) => Stage(r)'
    BY <2>1, <2>2, RestoringStage DEF Stage
  <2>. QED
    BY <2>1, <2>2, <2>3, RunStepModes DEF InTest
<1>. QED
  BY <1>1, <1>2, <1>3, <1>4, <1>5, <1>6, <1>7, <1>8, <1>9, <1>11, <1>12, <1>13 DEF Next

-----------------------------------------------------------------------------
(* The theorems.                                                           *)

LEMMA InitIInv == Init => IInv
<1>. SUFFICES ASSUME Init PROVE IInv
  OBVIOUS
<1>. USE BoundsAssumption DEF Init
<1>1. TypeOK
  <2>1. GameTyped
    BY DEF GameTyped, Mode
  <2>2. TasksTyped
    BY DEF TasksTyped, Mode
  <2>3. HistoryTyped
    <3>1. \A f : f = [r \in Run |-> <<>>] => f \in [Run -> Seq(BOOLEAN)]
      OBVIOUS
    <3>2. replay \in [Run -> Seq(BOOLEAN)] /\ said \in [Run -> Seq(BOOLEAN)]
      BY <3>1, Zenon
    <3>3. before \in [Run -> Mode]
      BY DEF Mode
    <3>4. dropped \in BOOLEAN
      BY Zenon
    <3>. QED
      BY <3>2, <3>3, <3>4, Zenon DEF HistoryTyped
  <2>. QED
    BY <2>1, <2>2, <2>3, TypeParts
<1>2. current \notin told /\ current = None
  OBVIOUS
<1>3. Supersession
  BY <1>2 DEF Supersession, Driving, InTest
<1>4. Verdicts /\ Prepared /\ Ground
  BY DEF Verdicts, Prepared, Ground, InTest
<1>5. Modes
  BY DEF Modes, Newest
<1>. QED
  BY <1>1, <1>3, <1>4, <1>5 DEF IInv

LEMMA Invariance == Safety => []IInv
<1>1. IInv /\ [Next]_vars => IInv'
  BY NextTypes, NextSupersedes, NextVerdicts, NextPrepared, NextGround, NextModes DEF IInv
<1>. QED
  BY InitIInv, <1>1, PTL DEF Safety

\* The state of the game, of the command tasks and of the histories is
\* well-formed whatever is typed, lost, timed out or cancelled.
THEOREM TypeCorrect == Safety => []TypeOK
  BY Invariance, PTL DEF IInv

\* However many !runtest commands are typed and wherever each finds the one
\* before it, no two runs that have not been told to stop are in a test.
THEOREM RunsTakeTurns == Safety => []OneTestAtATime
<1>1. IInv => OneTestAtATime
  BY DEF IInv, Supersession, OneTestAtATime
<1>. QED
  BY Invariance, <1>1, PTL

\* The poll of wait_for_gamemode makes up for the delay of a gamemode command:
\* a run that was alone tests in survival.
THEOREM TestsInSurvival == Safety => []AloneInSurvival
<1>1. ASSUME IInv PROVE AloneInSurvival
  <2>1. SUFFICES ASSUME NEW r \in Run \ shared, InTest(r) PROVE mode = "survival"
    BY DEF AloneInSurvival
  <2>2. Newest(r)
    BY <1>1, <2>1 DEF IInv, Modes, InTest
  <2>. QED
    BY <1>1, <2>1, <2>2 DEF IInv, Modes, Stage
<1>. QED
  BY Invariance, <1>1, PTL

\* The finally of TestRunner.run restores the gamemode of a run that was alone
\* and got past its switch, even one that was cancelled in a test.
THEOREM ModeIsRestored == Safety => []ModeComesBack
<1>1. ASSUME IInv PROVE ModeComesBack
  <2>1. SUFFICES ASSUME NEW r \in Run \ shared, pc[r] = "over", Typed = 1..r,
                        test[r] > 0 \/ r \in restored, changes = <<>>, ~dropped
                 PROVE  mode = before[r]
    BY DEF ModeComesBack
  <2>2. Newest(r)
    <3>1. ASSUME NEW q \in Run, q > r PROVE pc[q] = "none"
      <4>1. q \notin Typed
        BY <2>1, <3>1, BoundsAssumption DEF Run
      <4>. QED
        BY <4>1 DEF Typed
    <3>. QED
      BY <2>1, <3>1 DEF Newest
  <2>3. Stage(r)
    BY <1>1, <2>2 DEF IInv, Modes
  <2>. QED
    BY <2>1, <2>3 DEF Stage, FinalMode
<1>. QED
  BY Invariance, <1>1, PTL

\* The teardown of one test clears the ground of the next, in the same run or in
\* a later one, unless a teardown failed or a run was cut short.
THEOREM GroundIsCleared == Safety => []ClearGround
<1>1. ASSUME IInv PROVE ClearGround
  <2>1. SUFFICES ASSUME NEW r \in Run, pc[r] = "setup", unclean = {}, blocks # {} PROVE FALSE
    BY DEF ClearGround
  <2>2. InTest(r)
    BY <2>1 DEF InTest
  <2>. QED
    BY <1>1, <2>1, <2>2, BlocksAreMine
<1>. QED
  BY Invariance, <1>1, PTL

\* run_test_case and _run_one classify every test alike that is not cancelled.
THEOREM VerdictsAgree == Safety => []ReplayAgreesWithChat
<1>1. ASSUME IInv PROVE ReplayAgreesWithChat
  <2>1. \A r \in Run : DOMAIN said[r] = 1..Len(said[r])
    BY <1>1 DEF IInv, TypeOK
  <2>. QED
    BY <1>1, <2>1 DEF IInv, Verdicts, ReplayAgreesWithChat
<1>. QED
  BY Invariance, <1>1, PTL
==============================================================================
