----------------------------- MODULE AgentLoop -----------------------------
(***************************************************************************)
(* The messages of one thread while the lead agent works on them in plan   *)
(* mode: the loop of model and tools, and the middlewares that change the  *)
(* messages around it.  Every node of the graph is a step; its writes are  *)
(* in the checkpoint before the next one runs, and an interrupt, an error  *)
(* or a crash may come between any two.  The nodes run in the order        *)
(*                                                                         *)
(*   summarize, remind, model, loop, limit, todo, tools, summarize, ...    *)
(*                                                                         *)
(* as the hooks before the model run in the order of the middlewares, and  *)
(* those after it in the reverse order.  A message is its type, the tool   *)
(* calls of an answer, and an id: of the call a result belongs to, or of   *)
(* the call that wrote the list a reminder shows.  Texts are left out.     *)
(***************************************************************************)
EXTENDS Naturals, Sequences, FiniteSets, SequencesExt

CONSTANTS
  Answers,        \* what the model may answer: sequences of kinds of tool calls
  ToolOf,         \* by kind of call, the name of its tool
  WarnThreshold, HardLimit, WindowSize,    \* of repeated sets of calls
  FreqWarn, FreqHardLimit,                 \* tool_freq_warn, tool_freq_hard_limit
  MaxConcurrent,  \* max_concurrent of the subagents
  MaxReminders,   \* _MAX_COMPLETION_REMINDERS
  Keep,           \* the number of messages a summarization keeps
  MaxTurns,       \* bound: messages of the user
  MaxCalls        \* bound: tool calls of the model

Kinds == DOMAIN ToolOf
Tools == {ToolOf[k] : k \in Kinds}
ASSUME ToolAssumption == \A k \in Kinds \cap {"skill", "task"} : ToolOf[k] # "write_todos"
ASSUME AnswersAssumption ==
  << >> \in Answers /\ Answers \subseteq Seq(Kinds) /\ IsFiniteSet(Answers)
ASSUME ThresholdAssumption ==
  /\ WarnThreshold \in Nat \ {0} /\ HardLimit \in Nat \ {0}
  /\ WindowSize \in Nat /\ HardLimit <= WindowSize
ASSUME FrequencyAssumption == FreqWarn \in Nat \ {0} /\ FreqHardLimit \in Nat \ {0}
ASSUME LimitAssumption == MaxConcurrent \in Nat \ {0} /\ MaxReminders \in Nat /\ Keep \in Nat \ {0}
ASSUME BoundAssumption == MaxTurns \in Nat /\ MaxCalls \in Nat

VARIABLES
  node,        \* the node that runs next, or "idle" between runs
  messages,    \* state["messages"]
  todos,       \* state["todos"]: the call that wrote it, or 0, and whether some are open
  issued,      \* number of calls so far, which are their ids
  turns,       \* number of messages of the user
  window,      \* _history: the last sets of calls
  warned,      \* _warned
  freq,        \* _tool_freq
  freqWarned,  \* _tool_freq_warned
  ran,         \* history: which sets of the window reached the tools
  used         \* history: by tool, the calls that reached it since the detector is in use

detector == <<window, warned, freq, freqWarned>>
vars == <<node, messages, todos, issued, turns, detector, ran, used>>

Nodes == {"idle", "summarize", "remind", "model", "loop", "limit", "todo", "tools"}
Call == [id : Nat, kind : Kinds]
Types == {"human", "ai", "tool", "summary", "todo_reminder", "todo_completion_reminder"}
Messages == [type : Types, calls : Seq(Call), id : Nat]
CallSets == [Kinds -> Nat]   \* a set of calls: how many of each kind

TypeOK ==
  /\ node \in Nodes
  /\ messages \in Seq(Messages)
  /\ \A i \in DOMAIN messages : messages[i].calls # << >> => messages[i].type = "ai"
  /\ todos \in [by : Nat, open : BOOLEAN]
  /\ issued \in 0..MaxCalls /\ turns \in 0..MaxTurns
  /\ window \in Seq(CallSets) /\ Len(window) <= WindowSize
  /\ ran \in Seq(BOOLEAN) /\ Len(ran) = Len(window)
  /\ warned \subseteq CallSets /\ IsFiniteSet(warned)
  /\ freqWarned \subseteq Tools /\ IsFiniteSet(freqWarned)
  /\ freq \in [Tools -> Nat] /\ used \in [Tools -> Nat]

NewDetector ==
  /\ window = << >> /\ warned = {} /\ freqWarned = {}
  /\ freq = [t \in Tools |-> 0]
  /\ ran = << >> /\ used = [t \in Tools |-> 0]

Init ==
  /\ node = "idle" /\ messages = << >> /\ todos = [by |-> 0, open |-> FALSE]
  /\ issued = 0 /\ turns = 0 /\ NewDetector

Message(type, calls, id) == [type |-> type, calls |-> calls, id |-> id]
Note(type) == Message(type, << >>, 0)
Result(call) == Message("tool", << >>, call.id)
Results(calls) == [i \in DOMAIN calls |-> Result(calls[i])]

\* The elements of s at the indices in I, in their order.
At(s, I) == FlattenSeq([i \in DOMAIN s |-> IF i \in I THEN <<s[i]>> ELSE << >>])

OfType(ms, type) == {i \in DOMAIN ms : ms[i].type = type}
Answered(ms) == {ms[i].id : i \in OfType(ms, "tool")}
Pending(ms, calls) == At(calls, {i \in DOMAIN calls : calls[i].id \notin Answered(ms)})
IsTodos(call) == ToolOf[call.kind] = "write_todos"
Lists(calls) == {i \in DOMAIN calls : IsTodos(calls[i])}
Uses(calls, t) == Cardinality({i \in DOMAIN calls : ToolOf[calls[i].kind] = t})
LastAnswer == messages[CHOOSE i \in OfType(messages, "ai") :
                         \A j \in OfType(messages, "ai") : j <= i]
Replaced(calls) == [messages EXCEPT ![Len(messages)].calls = calls]
LastOf(s, n) == IF Len(s) <= n THEN s ELSE SubSeq(s, Len(s) - n + 1, Len(s))

-----------------------------------------------------------------------------
(* Before the model.                                                        *)

\* A message of the user.  The gateway builds the middlewares for every run, the embedded
\* client keeps them.
Turn ==
  /\ node = "idle" /\ turns < MaxTurns /\ turns' = turns + 1
  /\ messages' = Append(messages, Note("human")) /\ node' = "summarize"
  /\ \/ /\ window' = << >> /\ warned' = {} /\ freqWarned' = {}
        /\ freq' = [t \in Tools |-> 0]
        /\ ran' = << >> /\ used' = [t \in Tools |-> 0]
     \/ turns > 0 /\ UNCHANGED <<detector, ran, used>>
  /\ UNCHANGED <<todos, issued>>

\* The results of skill reads that follow answer i directly.
SkillResults(ms, i) ==
  {j \in DOMAIN ms :
     /\ j > i /\ \A k \in (i + 1)..j : ms[k].type = "tool"
     /\ \E c \in ToSet(ms[i].calls) : c.kind = "skill" /\ c.id = ms[j].id}

\* _select_bundles_to_rescue: of the bundles with the same files one; the budgets, and with
\* them the choice, are free.
Selections(ms) ==
  LET bundles == {i \in DOMAIN ms : SkillResults(ms, i) # {}} IN
  {S \in SUBSET bundles :
     \A i, j \in S : Cardinality(SkillResults(ms, i)) = Cardinality(SkillResults(ms, j)) => i = j}

\* A rescued answer keeps all its calls.
MistakeSkillReads(ms, i) == ms[i].calls

\* The answers of S with only their skill reads, and the results of these.
SkillReads(ms, i) ==
  At(ms[i].calls, {n \in DOMAIN ms[i].calls :
                     \E j \in SkillResults(ms, i) : ms[j].id = ms[i].calls[n].id})
Rescued(ms, S) ==
  At([i \in DOMAIN ms |->
        IF i \in S THEN [ms[i] EXCEPT !.calls = SkillReads(ms, i)] ELSE ms[i]],
     S \cup UNION {SkillResults(ms, i) : i \in S})

\* Where messages are cut: before the last Keep, and not between calls and results.
Cutoff ==
  LET safe == {i \in 1..(Len(messages) - Keep) : messages[i + 1].type # "tool"} IN
  IF safe = {} THEN 0 ELSE CHOOSE i \in safe : \A j \in safe : j <= i

\* Nothing is summarized unless the tokens reach the trigger.
Summarize ==
  /\ node = "summarize" /\ node' = "remind"
  /\ \/ messages' = messages
     \/ /\ Cutoff > 0
        /\ \E S \in Selections(SubSeq(messages, 1, Cutoff)) :
             messages' = <<Note("summary")>> \o Rescued(SubSeq(messages, 1, Cutoff), S)
                         \o SubSeq(messages, Cutoff + 1, Len(messages))
  /\ UNCHANGED <<todos, issued, turns, detector, ran, used>>

TodosInMessages == \E i \in DOMAIN messages : \E c \in ToSet(messages[i].calls) : IsTodos(c)

\* TodoMiddleware.before_model
Remind ==
  /\ node = "remind" /\ node' = "model"
  /\ messages' = IF \/ todos.by = 0 \/ TodosInMessages
                    \/ OfType(messages, "todo_reminder") # {}
                 THEN messages
                 ELSE Append(messages, Message("todo_reminder", << >>, todos.by))
  /\ UNCHANGED <<todos, issued, turns, detector, ran, used>>

-----------------------------------------------------------------------------
(* The model.                                                               *)

\* The missing results are added at the end.
MistakePatched(ms) ==
  ms \o FlattenSeq([i \in DOMAIN ms |-> Results(Pending(ms, ms[i].calls))])

\* What the model is sent: right after every answer the results its calls did not get.
Patched(ms) ==
  FlattenSeq([i \in DOMAIN ms |-> <<ms[i]>> \o Results(Pending(ms, ms[i].calls))])

\* The model answers, or its errors are answered for it with a text.
Model ==
  /\ node = "model" /\ node' = "loop"
  /\ \E a \in Answers :
       /\ issued + Len(a) <= MaxCalls
       /\ issued' = issued + Len(a)
       /\ messages' = Append(messages,
            Message("ai", [i \in DOMAIN a |-> [id |-> issued + i, kind |-> a[i]]], 0))
  /\ UNCHANGED <<todos, turns, detector, ran, used>>

-----------------------------------------------------------------------------
(* LoopDetectionMiddleware.after_model.                                     *)

LoopNone ==
  /\ node = "loop" /\ Last(messages).calls = << >> /\ node' = "limit"
  /\ UNCHANGED <<messages, todos, issued, turns, detector, ran, used>>

\* The set of calls, whatever their order.
Hash(calls) == [k \in Kinds |-> Cardinality({i \in DOMAIN calls : calls[i].kind = k})]
Occurs(s, x) == Cardinality({i \in DOMAIN s : s[i] = x})

\* The set enters the window of the last WindowSize sets.
Track(calls) ==
  /\ window' = LastOf(Append(window, Hash(calls)), WindowSize)
  /\ ran' = LastOf(Append(ran, FALSE), WindowSize)

\* The answer is told to stop, and keeps its calls.
MistakeLoopStop ==
  LET calls == Last(messages).calls IN
  /\ node = "loop" /\ calls # << >> /\ node' = "limit"
  /\ Track(calls) /\ Occurs(window', Hash(calls)) >= HardLimit
  /\ UNCHANGED <<messages, todos, issued, turns, warned, freq, freqWarned, used>>

\* The last answer is one too many of the same: its calls are taken away.
LoopStop ==
  LET calls == Last(messages).calls IN
  /\ node = "loop" /\ calls # << >> /\ node' = "limit"
  /\ Track(calls) /\ Occurs(window', Hash(calls)) >= HardLimit
  /\ messages' = Replaced(<< >>)
  /\ UNCHANGED <<todos, issued, turns, warned, freq, freqWarned, used>>

\* The first warning about a set; its calls are not counted by tool.
LoopWarn ==
  LET calls == Last(messages).calls IN
  /\ node = "loop" /\ calls # << >> /\ node' = "limit"
  /\ Track(calls) /\ Occurs(window', Hash(calls)) \in WarnThreshold..(HardLimit - 1)
  /\ Hash(calls) \notin warned /\ warned' = warned \cup {Hash(calls)}
  /\ UNCHANGED <<messages, todos, issued, turns, freq, freqWarned, used>>

\* A call is not in its own count.
MistakeCount(calls, t, n) ==
  freq[t] + Cardinality({i \in 1..(n - 1) : ToolOf[calls[i].kind] = t})

\* The calls of tool t among the first n, added to those before.
Count(calls, t, n) == freq[t] + Cardinality({i \in 1..n : ToolOf[calls[i].kind] = t})

\* Otherwise they are counted by tool, up to the first call that has the run stopped or
\* warned for the first time.
LoopCount ==
  LET calls == Last(messages).calls
      Tool(i) == ToolOf[calls[i].kind]
      hits == {i \in DOMAIN calls :
                 \/ Count(calls, Tool(i), i) >= FreqHardLimit
                 \/ Count(calls, Tool(i), i) >= FreqWarn /\ Tool(i) \notin freqWarned}
      n == IF hits = {} THEN Len(calls) ELSE CHOOSE i \in hits : \A j \in hits : i <= j
      stop == hits # {} /\ Count(calls, Tool(n), n) >= FreqHardLimit
  IN
  /\ node = "loop" /\ calls # << >> /\ node' = "limit"
  /\ Track(calls) /\ Occurs(window', Hash(calls)) < HardLimit
  /\ Occurs(window', Hash(calls)) < WarnThreshold \/ Hash(calls) \in warned
  /\ freq' = [t \in Tools |-> Count(calls, t, n)]
  /\ freqWarned' = IF hits # {} /\ ~stop THEN freqWarned \cup {Tool(n)} ELSE freqWarned
  /\ messages' = IF stop THEN Replaced(<< >>) ELSE messages
  /\ UNCHANGED <<todos, issued, turns, warned, used>>

-----------------------------------------------------------------------------
(* SubagentLimitMiddleware and TodoMiddleware.                              *)

\* _truncate_task_calls
Limit ==
  LET calls == Last(messages).calls
      tasks(i) == {j \in 1..i : calls[j].kind = "task"}
      kept == {i \in DOMAIN calls :
                 calls[i].kind = "task" => Cardinality(tasks(i)) <= MaxConcurrent}
  IN
  /\ node = "limit" /\ node' = "todo"
  /\ messages' = Replaced(At(calls, kept))
  /\ UNCHANGED <<todos, issued, turns, detector, ran, used>>

\* Several lists at once are refused; the other calls of the answer still run.
RefuseLists ==
  LET calls == Last(messages).calls IN
  /\ node = "todo" /\ Cardinality(Lists(calls)) > 1
  /\ messages' = messages \o Results(At(calls, Lists(calls)))
  /\ node' = IF Lists(calls) = DOMAIN calls THEN "summarize" ELSE "tools"
  /\ UNCHANGED <<todos, issued, turns, detector, ran, used>>

GoToTools ==
  /\ node = "todo" /\ Last(messages).calls # << >>
  /\ Cardinality(Lists(Last(messages).calls)) <= 1
  /\ node' = "tools"
  /\ UNCHANGED <<messages, todos, issued, turns, detector, ran, used>>

\* Tasks are open, and the agent has not been reminded of that too often.
StaysOn ==
  /\ todos.by # 0 /\ todos.open
  /\ Cardinality(OfType(messages, "todo_completion_reminder")) < MaxReminders

\* The reminder bears no name, and is not counted.
MistakeEnd ==
  /\ node = "todo" /\ Last(messages).calls = << >>
  /\ IF StaysOn THEN messages' = Append(messages, Note("human")) /\ node' = "summarize"
     ELSE messages' = messages /\ node' = "idle"
  /\ UNCHANGED <<todos, issued, turns, detector, ran, used>>

\* The agent wants to end, and does or is sent back to the model.
End ==
  /\ node = "todo" /\ Last(messages).calls = << >>
  /\ IF StaysOn
     THEN messages' = Append(messages, Note("todo_completion_reminder")) /\ node' = "summarize"
     ELSE messages' = messages /\ node' = "idle"
  /\ UNCHANGED <<todos, issued, turns, detector, ran, used>>

-----------------------------------------------------------------------------
(* The tools.                                                               *)

\* The calls of the last answer that have no result yet run side by side; all their results
\* are added.  One that fails has an error for its result.  A question to the user ends the
\* run, unless the answer has other calls too, when it may not.
RunTools ==
  LET calls == Pending(messages, LastAnswer.calls) IN
  /\ node = "tools"
  /\ messages' = messages \o Results(calls)
  /\ \/ todos' = todos
     \/ \E i \in Lists(calls) :
          todos' = [by |-> calls[i].id, open |-> calls[i].kind = "plan"]
  /\ \/ node' = "summarize" /\ \E c \in ToSet(LastAnswer.calls) : c.kind # "ask"
     \/ node' = "idle" /\ \E i \in DOMAIN calls : calls[i].kind = "ask"
  /\ ran' = [ran EXCEPT ![Len(ran)] = TRUE]
  /\ used' = [t \in Tools |-> used[t] + Uses(calls, t)]
  /\ UNCHANGED <<issued, turns, detector>>

\* The run is interrupted, fails or ends with its process.
Cancel ==
  /\ node # "idle" /\ node' = "idle"
  /\ UNCHANGED <<messages, todos, issued, turns, detector, ran, used>>

Step ==
  \/ Summarize \/ Remind \/ Model \/ LoopNone \/ LoopStop \/ LoopWarn \/ LoopCount
  \/ Limit \/ RefuseLists \/ GoToTools \/ End \/ RunTools

Next == Turn \/ Step \/ Cancel

Spec == Init /\ [][Next]_vars

\* The graph goes on with its nodes, and the model answers.
FairSpec == Spec /\ WF_vars(Step)

-----------------------------------------------------------------------------
(* Properties.                                                              *)

\* What the model is sent is well-formed, after interrupts between any two nodes, refused
\* calls, summaries and rescued skills: every answer with calls is followed at once by one
\* result for each of them, and every result stands there.
Paired(ms) ==
  \A i \in DOMAIN ms :
    /\ ms[i].calls # << >> =>
         LET last == i + Len(ms[i].calls) IN
         /\ last <= Len(ms)
         /\ \A j \in (i + 1)..last : ms[j].type = "tool"
         /\ {ms[j].id : j \in (i + 1)..last} = {c.id : c \in ToSet(ms[i].calls)}
    /\ ms[i].type = "tool" =>
         \E a \in DOMAIN ms : /\ a < i /\ i <= a + Len(ms[a].calls)
                              /\ \E c \in ToSet(ms[a].calls) : c.id = ms[i].id
RequestPaired == node = "model" => Paired(Patched(messages))

\* A model that works on a list is shown it, after any summaries, rescued skills, refused
\* and interrupted calls: of the lists that stand in the messages, as calls of write_todos
\* or in reminders, one is not older than the list of the state.  (A newer one is that of a
\* call that was refused or interrupted; the middleware takes it for the list.)
Shown(m) ==
  {m.calls[n].id : n \in Lists(m.calls)} \cup IF m.type = "todo_reminder" THEN {m.id} ELSE {}
ListSeen ==
  node = "model" /\ todos.by # 0 =>
    \E i \in DOMAIN messages : \E n \in Shown(messages[i]) : n >= todos.by

\* The same set of calls reaches the tools less than HardLimit times within the window, also
\* when the agent is sent back to the model after it was stopped.
RepeatsStopped ==
  \A x \in ToSet(window) :
    Cardinality({i \in DOMAIN window : window[i] = x /\ ran[i]}) < HardLimit

\* A tool is called less than FreqHardLimit times, but for the calls that a warning left
\* uncounted: those of the answer at the first warning about a set of calls, and those after
\* the call that was the first one too many of its tool.
InOneAnswer(t) ==
  Max({Cardinality({i \in DOMAIN a : ToolOf[a[i]] = t}) : a \in Answers})
Uncounted(t) == InOneAnswer(t) * (Cardinality(warned) + Cardinality(freqWarned \ {t}))
                + (InOneAnswer(t) - 1) * Cardinality(freqWarned \cap {t})
FrequencyStopped ==
  \A t \in Tools : InOneAnswer(t) > 0 => used[t] < FreqHardLimit + Uncounted(t)

\* A run in which reminders of open tasks are not summarized away for ever ends, whatever
\* it was reminded of and stopped at.  (The reminders are counted in the messages, so that a
\* run whose reminders are cut again and again is reminded for ever.)
RemindersCut ==
  Cardinality(OfType(messages', "todo_completion_reminder"))
    < Cardinality(OfType(messages, "todo_completion_reminder"))
RunEnds == <>[][~RemindersCut]_vars => (node # "idle" ~> node = "idle")

-----------------------------------------------------------------------------
(* The inductive invariant.                                                 *)

\* No two calls have one id.
CallsApart(ms) ==
  \A i, j \in DOMAIN ms : \A m \in DOMAIN ms[i].calls, n \in DOMAIN ms[j].calls :
    ms[i].calls[m].id = ms[j].calls[n].id => i = j /\ m = n

\* Message j answers a call of message a, and nothing but results is between them.
Follows(ms, j, a) ==
  /\ a < j /\ \A k \in (a + 1)..j : ms[k].type = "tool"
  /\ \E n \in DOMAIN ms[a].calls : ms[a].calls[n].id = ms[j].id
ResultsFollow(ms) ==
  \A j \in OfType(ms, "tool") :
    /\ \E a \in DOMAIN ms : Follows(ms, j, a)
    /\ \A i \in OfType(ms, "tool") : ms[i].id = ms[j].id => i = j
Standing ==
  /\ CallsApart(messages) /\ ResultsFollow(messages)
  /\ \A i \in DOMAIN messages : \A n \in DOMAIN messages[i].calls :
       messages[i].calls[n].id <= issued

\* After the model its answer is the last message; at the tools some results may follow it.
AnswerLast ==
  /\ node \in {"loop", "limit", "todo"} => messages # << >> /\ Last(messages).type = "ai"
  /\ node = "loop" =>
       [i \in DOMAIN Last(messages).calls |-> Last(messages).calls[i].kind] \in Answers
  /\ node = "tools" => \E a \in OfType(messages, "ai") :
       \A j \in (a + 1)..Len(messages) : messages[j].type = "tool"

\* The calls that the loop detector has let through and that have not been run.
Coming ==
  IF node \in {"limit", "todo"} THEN Last(messages).calls
  ELSE IF node = "tools" THEN Pending(messages, LastAnswer.calls) ELSE << >>

\* With them their set has not come HardLimit times,
NotTooMany ==
  node = "tools" \/ Coming # << >> =>
    window # << >> /\ Occurs(window, Last(window)) < HardLimit
\* and they are counted, or one of the warnings has let them pass.
Charged ==
  \A t \in Tools : InOneAnswer(t) > 0 =>
    /\ used[t] + Uses(Coming, t) <= freq[t] + Uncounted(t)
    /\ used[t] + Uses(Coming, t) < FreqHardLimit + Uncounted(t)

\* Where a list stands, one that is not older than that of the state stands there or after
\* it, other than in an answer that may still lose its calls.
ListsInOrder ==
  /\ todos.by <= issued
  /\ \A i \in DOMAIN messages : Shown(messages[i]) # {} =>
       \E j \in i..Len(messages) :
         /\ node \in {"loop", "limit", "todo"} => j < Len(messages) \/ i = j
         /\ \E n \in Shown(messages[j]) : n >= todos.by

IndInv ==
  /\ TypeOK /\ ListSeen /\ ListsInOrder /\ RepeatsStopped /\ FrequencyStopped
  /\ Standing /\ AnswerLast /\ NotTooMany /\ Charged
=============================================================================
