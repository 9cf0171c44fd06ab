------------------------------ MODULE Commands ------------------------------
(***************************************************************************)
(* What becomes of one line of chat from a player: the !command grammar    *)
(* (minebot/actions/parser.py), ActionRegistry's two ways to run an action *)
(* (actions/registry.py), _handle_chat (bot/run_loop.py) and the LLM's     *)
(* turn (llm/trigger.py, llm/controller.py).                               *)
(*                                                                         *)
(* A line is a sequence of atoms: the signs the grammar tells apart, and   *)
(* pieces of text it never looks into.  The atoms of WordAtoms next to     *)
(* each other spell one word.                                              *)
(***************************************************************************)
EXTENDS Integers, Sequences, FiniteSetsExt

CONSTANTS
    Lines,      \* the lines players type
    Actions,    \* registered name -> [needs, takes]: its required and declared params
    Plans,      \* the tool calls a provider may ask for: sequences of names
    BotName     \* the atom should_trigger_llm looks for

Bang == "!"
Gap == " "
Quote == "\""
Digits == {"4"}                \* \d, with the sign and the decimal point left out
Flags == {"true", "false"}
FloatWords == {<<"nan">>}      \* words that float() takes

\* Everything else is made of word characters.
WordAtom(a) == a \notin {Bang, Gap, Quote}

-----------------------------------------------------------------------------
(* parse_command.                                                          *)

\* The end of the longest run from i on of atoms that satisfy In.
RunEnd(s, i, In(_)) == Min({j \in i..Len(s) : ~In(s[j])} \cup {Len(s) + 1})

\* Where the token of _BARE_ARG_RE that starts at i ends: the alternatives are
\* tried in this order.
TokenEnd(s, i) ==
    LET closing == {j \in (i + 1)..Len(s) : s[j] = Quote} IN
    CASE s[i] = Quote /\ closing # {} -> Min(closing) + 1
      [] s[i] \in Digits              -> RunEnd(s, i, LAMBDA a : a \in Digits)
      [] s[i] \in Flags               -> i + 1
      [] OTHER                        -> RunEnd(s, i, LAMBDA a : a # Gap)

Text(s) == [is |-> "text", of |-> s]
Number(s) == [is |-> "number", of |-> s]
Flag(s) == [is |-> "flag", of |-> s]

coerce(s) ==
    CASE Len(s) = 1 /\ s[1] \in Flags              -> Flag(s)
      [] s[1] = Quote /\ s[Len(s)] = Quote         -> Text(SubSeq(s, 2, Len(s) - 1))
      [] \/ \A i \in DOMAIN s : s[i] \in Digits
         \/ s \in FloatWords                       -> Number(s)
      [] OTHER                                     -> Text(s)

\* findall.
Args(s) ==
    LET from[i \in 1..Len(s) + 1] ==
          IF i > Len(s) THEN <<>>
          ELSE IF s[i] = Gap THEN from[i + 1]
          ELSE <<coerce(SubSeq(s, i, TokenEnd(s, i) - 1))>> \o from[TokenEnd(s, i)]
    IN from[1]

\* Mutant: the arguments run on past the next "!".
UpToEnd(s) == s
UpToBang(s) == SubSeq(s, 1, RunEnd(s, 1, LAMBDA a : a # Bang) - 1)

\* The name is the first run of word characters right after a "!"; arguments
\* are only looked for when white space follows it.
NameStarts(line) ==
    {i \in 2..Len(line) : line[i - 1] = Bang /\ WordAtom(line[i])}
parse_command(line) ==
    LET start == Min(NameStarts(line))
        end == RunEnd(line, start, WordAtom)
        rest == SubSeq(line, end, Len(line))
    IN [name |-> SubSeq(line, start, end - 1),
        args |-> IF rest # <<>> /\ rest[1] = Gap THEN Args(UpToBang(rest)) ELSE <<>>]

-----------------------------------------------------------------------------

VARIABLES
    line,       \* the text
    phase,      \* _handle_chat: "heard" | "running" | "asking" | "calling"
                \*   | "done" | "superseded" | "failed"
    plan,       \* response.tool_calls
    reply,      \* whether response.reply holds a text
    bound,      \* history: the arguments the chat command's handler was given
    outcomes,   \* history: how each action that was looked up ended
    said        \* the chat messages sent, in order

vars == <<line, phase, plan, reply, bound, outcomes, said>>

Init ==
    /\ line \in Lines
    /\ phase = "heard"
    /\ plan = <<>>
    /\ reply = FALSE
    /\ bound = <<>>
    /\ outcomes = <<>>
    /\ said = <<>>

\* Recognised: there is a command, and an action of its name.
IsCommand == NameStarts(line) # {} /\ parse_command(line).name \in DOMAIN Actions

StartsWithBang ==
    LET shown == {i \in DOMAIN line : line[i] # Gap}
    IN shown # {} /\ line[Min(shown)] = Bang

should_trigger_llm == \E i \in DOMAIN line : line[i] = BotName

\* Trailing words beyond the declared params are dropped.
Truncated(args, takes) == SubSeq(args, 1, IF Len(args) < takes THEN Len(args) ELSE takes)

Ends(outcome) == outcomes' = Append(outcomes, outcome)
Says(what) == said' = Append(said, what)

\* Calling the handler with too few or too many arguments raises at once.
DispatchChat ==
    LET command == parse_command(line)
        action == Actions[command.name]
        args == Truncated(command.args, action.takes)
    IN
    /\ phase = "heard"
    /\ IsCommand
    /\ bound' = args
    /\ IF Len(args) \in action.needs..action.takes
       THEN phase' = "running" /\ UNCHANGED <<outcomes, said>>
       ELSE phase' = "done" /\ Ends("raised") /\ Says("something went wrong")
    /\ UNCHANGED <<line, plan, reply>>

UnknownCommand ==
    /\ phase = "heard"
    /\ ~IsCommand
    /\ StartsWithBang
    /\ phase' = "done"
    /\ Says("unknown command")
    /\ UNCHANGED <<line, plan, reply, bound, outcomes>>

AskProvider ==
    /\ phase = "heard"
    /\ ~IsCommand
    /\ ~StartsWithBang
    /\ phase' = IF should_trigger_llm THEN "asking" ELSE "done"
    /\ UNCHANGED <<line, plan, reply, bound, outcomes, said>>

\* NullLLMProvider asks for nothing and says nothing; another may do either.
ProviderAnswers ==
    /\ phase = "asking"
    /\ plan' \in Plans
    /\ reply' \in BOOLEAN
    /\ phase' = "calling"
    /\ UNCHANGED <<line, bound, outcomes, said>>

ProviderRaises ==
    /\ phase = "asking"
    /\ phase' = "failed"
    /\ UNCHANGED <<line, plan, reply, bound, outcomes, said>>

\* dispatch_tool_call of the next tool call.
CallTool ==
    LET next == Len(outcomes) + 1 IN
    /\ phase = "calling"
    /\ next \in DOMAIN plan
    /\ IF plan[next] \in DOMAIN Actions
       THEN phase' = "running" /\ UNCHANGED <<outcomes, said>>
       ELSE Ends("unknown") /\ Says("no such action") /\ UNCHANGED phase
    /\ UNCHANGED <<line, plan, reply, bound>>

Reply ==
    /\ phase = "calling"
    /\ Len(outcomes) = Len(plan)
    /\ phase' = "done"
    /\ IF reply THEN Says("reply") ELSE UNCHANGED said
    /\ UNCHANGED <<line, plan, reply, bound, outcomes>>

\* Mutant: an exception of a tool call is not caught.
AfterRaiseUncaught == IF IsCommand THEN "done" ELSE "failed"
AfterHandler == IF IsCommand THEN "done" ELSE "calling"
AfterRaise == AfterHandler

HandlerReturns ==
    /\ phase = "running"
    /\ phase' = AfterHandler
    /\ \/ Ends("message") /\ Says("message")
       \/ Ends("silent") /\ UNCHANGED said
    /\ UNCHANGED <<line, plan, reply, bound>>

HandlerRaises ==
    /\ phase = "running"
    /\ phase' = AfterRaise
    /\ Ends("raised") /\ Says("something went wrong")
    /\ UNCHANGED <<line, plan, reply, bound>>

\* The next line of chat cancels the task where it waits.
Superseded ==
    /\ phase \in {"heard", "running", "asking"}
    /\ phase' = "superseded"
    /\ UNCHANGED <<line, plan, reply, bound, outcomes, said>>

Next ==
    \/ DispatchChat \/ UnknownCommand \/ AskProvider
    \/ ProviderAnswers \/ ProviderRaises \/ CallTool \/ Reply
    \/ HandlerReturns \/ HandlerRaises \/ Superseded

Spec == Init /\ [][Next]_vars

-----------------------------------------------------------------------------

TypeOK ==
    /\ line \in Lines
    /\ phase \in {"heard", "running", "asking", "calling", "done", "superseded", "failed"}
    /\ plan \in Plans \cup {<<>>}
    /\ reply \in BOOLEAN
    /\ \A i \in DOMAIN bound : bound[i].is \in {"text", "number", "flag"}
    /\ \A i \in DOMAIN outcomes : outcomes[i] \in {"message", "silent", "raised", "unknown"}
    /\ Len(said) <= Len(plan) + 1

\* The words of a stretch of text as a player sees them: what stands between
\* gaps that are not inside quotes.
QuotesBefore(s, i) == Cardinality({j \in 1..(i - 1) : s[j] = Quote})
Outside(s, i) == s[i] = Gap /\ QuotesBefore(s, i) % 2 = 0
WordStarts(s) == {i \in DOMAIN s : ~Outside(s, i) /\ (i = 1 \/ Outside(s, i - 1))}
Word(s, i) == SubSeq(s, i, Min({j \in i..Len(s) : Outside(s, j)} \cup {Len(s) + 1}) - 1)

\* A word is plain when it is quoted from end to end, all digits, a flag, or
\* text that starts with neither a digit nor a flag.
Bare(w) == \A i \in DOMAIN w : w[i] # Quote
Mixed(w) ==
    /\ Bare(w)
    /\ \/ w[1] \in Digits /\ \E i \in DOMAIN w : w[i] \notin Digits
       \/ w[1] \in Flags /\ Len(w) > 1
Plain(w) ==
    IF Bare(w) THEN ~Mixed(w)
    ELSE w[1] = Quote /\ w[Len(w)] = Quote /\ QuotesBefore(w, Len(w)) = 1

Meaning(w) ==
    IF w[1] = Quote THEN Text(SubSeq(w, 2, Len(w) - 1))
    ELSE IF w[1] \in Digits \/ w \in FloatWords THEN Number(w)
    ELSE IF w[1] \in Flags THEN Flag(w) ELSE Text(w)

\* What the player typed between the command's name and the next "!".
Typed ==
    LET start == Min(NameStarts(line))
        after == start + Len(parse_command(line).name)
        bangs == {j \in after..Len(line) : line[j] = Bang}
    IN SubSeq(line, after, IF bangs = {} THEN Len(line) ELSE Min(bangs) - 1)

\* A handler gets the words that follow its name, one argument for each word
\* and in their order, as many as it takes and none from beyond the next "!".
BindsTheWords ==
    LET starts == WordStarts(Typed)
        kth(k) == CHOOSE i \in starts : Cardinality({j \in starts : j < i}) = k - 1
    IN (bound # <<>> /\ \A i \in starts : Plain(Word(Typed, i))) =>
         /\ Len(bound) = Min({Cardinality(starts), Actions[parse_command(line).name].takes})
         /\ \A k \in DOMAIN bound : bound[k] = Meaning(Word(Typed, kth(k)))

\* A line that was dealt with has every action it led to answered, in order:
\* one that raised or does not exist takes neither the calls after it nor the
\* provider's reply with it, and a line that starts with "!" is never ignored.
EveryCallAnswered ==
    LET answered == {i \in DOMAIN outcomes : outcomes[i] # "silent"}
        nth(i) == Cardinality({j \in answered : j <= i})
        lastWord == IF reply THEN <<"reply">>
                    ELSE IF StartsWithBang /\ ~IsCommand THEN <<"unknown command">> ELSE <<>>
        message(o) == CASE o = "message" -> "message"
                        [] o = "raised"  -> "something went wrong"
                        [] o = "unknown" -> "no such action"
    IN /\ phase = "done" =>
            /\ Len(outcomes) = IF IsCommand THEN 1 ELSE Len(plan)
            /\ Len(said) = Cardinality(answered) + Len(lastWord)
            /\ \A i \in answered : said[nth(i)] = message(outcomes[i])
            /\ lastWord # <<>> => said[Len(said)] = lastWord[1]
       /\ phase = "failed" => outcomes = <<>>

\* parser.py:44: a "bare word, e.g. a player name", is passed through as a
\* string: one that mixes digits or a flag with letters like any other.
NamesStayWhole ==
    bound # <<>> =>
        LET w == Word(Typed, Min(WordStarts(Typed)))
        IN Mixed(w) => bound[1] = Text(w)
=============================================================================
