--------------------------- MODULE ChannelDispatch ---------------------------
(***************************************************************************)
(* The dispatcher of the chat channels (ChannelManager) between the        *)
(* message bus, the store that maps conversations to threads, and the      *)
(* gateway that runs them.                                                 *)
(*                                                                         *)
(* A channel puts the messages of its platform on the inbound queue; the   *)
(* dispatch loop starts a handler task for each, of which a semaphore      *)
(* lets MaxConcurrency work at a time, in the order of their messages.  A  *)
(* handler looks its conversation up, creates a thread when there is none, *)
(* runs the message on the thread and publishes the answer to whoever      *)
(* listens then.  Everything between two awaits is one step.               *)
(*                                                                         *)
(* A conversation stands for channel:chat:topic.  A message is of a kind:  *)
(* "wait" and "stream" are chats of channels without and with streaming    *)
(* (and /bootstrap, which is handled as a chat); a "command" is /new or    *)
(* one of those that change nothing.                                       *)
(***************************************************************************)
EXTENDS Naturals, Sequences, FiniteSets

CONSTANTS Messages, Conversations, ConversationOf, KindOf, None,
          MaxConcurrency,   \* max_concurrency
          MaxThreads,       \* bound: threads the gateway creates
          Known             \* bound: those among them that it created before

Kinds == {"wait", "stream", "command"}
ASSUME ConversationAssumption == ConversationOf \in [Messages -> Conversations]
ASSUME KindAssumption == KindOf \in [Messages -> Kinds]
ASSUME CapacityAssumption == MaxConcurrency \in Nat \ {0}
ASSUME BoundAssumption == MaxThreads \in Nat /\ Known \in 0..MaxThreads
ASSUME NoneAssumption == None \notin Nat /\ None \notin Messages

Threads == 1..MaxThreads
Chats == {m \in Messages : KindOf[m] \in {"wait", "stream"}}

VARIABLES
  manager,      \* "new", "on" (the dispatch loop runs) or "stopped"
  listening,    \* the channel is started and subscribed to the bus
  queue,        \* the inbound queue
  waiting,      \* the handler tasks before the semaphore, in its order
  pc,           \* of each message, where it is
  thread,       \* by chat, the thread it runs on
  data,         \* the store in memory: by conversation, a thread or None
  disk,         \* the file of the store
  apart,        \* history: the last save of the store failed, or its file could not be
                \* read at the start, and nothing was saved since
  created,      \* number of threads the gateway has created
  running,      \* by thread, the message whose run the gateway executes, or None
  answers       \* history: by message, the final answers published for it

busVars == <<manager, listening, queue, waiting>>
storeVars == <<data, disk, apart>>
gatewayVars == <<created, running>>
vars == <<busVars, pc, thread, storeVars, gatewayVars, answers>>

\* Inside the semaphore.
Inside == {"creating", "ready", "running", "answer", "apology"}
Places == {"away", "queued", "waiting", "done", "lost"} \cup Inside

TypeOK ==
  /\ manager \in {"new", "on", "stopped"} /\ listening \in BOOLEAN
  /\ queue \in Seq(Messages) /\ waiting \in Seq(Messages)
  /\ pc \in [Messages -> Places]
  /\ thread \in [Messages -> Threads \cup {None}]
  /\ data \in [Conversations -> Threads \cup {None}]
  /\ disk \in [Conversations -> Threads \cup {None}] /\ apart \in BOOLEAN
  /\ created \in 0..MaxThreads
  /\ running \in [Threads -> Messages \cup {None}]
  /\ answers \in [Messages -> Nat]

\* A store that was never saved; there is no file.
NoMapping == [c \in Conversations |-> None]

\* What the file of the store may hold: threads of their own for some conversations.
Mappings(n) ==
  {f \in [Conversations -> (1..n) \cup {None}] :
     \A c, d \in Conversations : f[c] = f[d] /\ f[c] # None => c = d}

Init ==
  /\ manager = "new" /\ listening = FALSE /\ queue = << >> /\ waiting = << >>
  /\ pc = [m \in Messages |-> "away"] /\ thread = [m \in Messages |-> None]
  /\ created = Known /\ disk \in Mappings(created) /\ data = disk /\ apart = FALSE
  /\ running = [t \in Threads |-> None]
  /\ answers = [m \in Messages |-> 0]

Goto(m, place) == pc' = [pc EXCEPT ![m] = place]
In(place) == {m \in Messages : pc[m] = place}

-----------------------------------------------------------------------------
(* The channel and the dispatch loop.                                       *)

\* publish_inbound, by a channel that is started.
Arrive(m) ==
  /\ listening /\ pc[m] = "away"
  /\ queue' = Append(queue, m) /\ Goto(m, "queued")
  /\ UNCHANGED <<manager, listening, waiting, thread, storeVars, gatewayVars, answers>>

Dispatch ==
  /\ manager = "on" /\ queue # << >>
  /\ queue' = Tail(queue)
  /\ waiting' = Append(waiting, Head(queue)) /\ Goto(Head(queue), "waiting")
  /\ UNCHANGED <<manager, listening, thread, storeVars, gatewayVars, answers>>

\* The conversation is looked up without the topic of the message.
MistakeTopic(m) ==
  IF \E c \in Conversations : data[c] # None
  THEN data[CHOOSE c \in Conversations : data[c] # None] ELSE None

\* The conversation is looked up in the file.
MistakeLookup(m) == disk[ConversationOf[m]]

\* get_thread_id
Lookup(m) == data[ConversationOf[m]]

\* The first task before the semaphore gets in when one of those inside leaves; it looks its
\* conversation up at once.  A chat whose session is configured wrongly fails.
Enter ==
  LET m == Head(waiting)
      c == ConversationOf[m] IN
  /\ waiting # << >> /\ Cardinality(UNION {In(p) : p \in Inside}) < MaxConcurrency
  /\ waiting' = Tail(waiting)
  /\ \/ /\ KindOf[m] = "command" /\ thread' = thread
        /\ Goto(m, "creating") \/ Goto(m, "answer")
     \/ /\ m \in Chats /\ Lookup(m) = None
        /\ Goto(m, "creating") /\ thread' = thread
     \/ /\ m \in Chats /\ Lookup(m) # None
        /\ thread' = [thread EXCEPT ![m] = Lookup(m)]
        /\ Goto(m, "ready") \/ Goto(m, "apology")
  /\ UNCHANGED <<manager, listening, queue, storeVars, gatewayVars, answers>>

-----------------------------------------------------------------------------
(* The handler.                                                             *)

\* set_thread_id: the entry is changed before the file is written.
SetThread(c, t) ==
  /\ data' = [data EXCEPT ![c] = t]
  /\ disk' = data' /\ apart' = FALSE

\* The write fails: the entry stays changed.
SetThreadUnsaved(c, t) ==
  /\ data' = [data EXCEPT ![c] = t]
  /\ disk' = disk /\ apart' = TRUE

\* The answer of threads.create: the new thread becomes that of the conversation, whatever
\* it is mapped to by now.
Create(m) ==
  LET t == created + 1 IN
  /\ pc[m] = "creating" /\ created < MaxThreads
  /\ created' = t
  /\ \/ /\ SetThread(ConversationOf[m], t)
        /\ \/ KindOf[m] = "command" /\ Goto(m, "answer") /\ thread' = thread
           \/ /\ m \in Chats /\ thread' = [thread EXCEPT ![m] = t]
              /\ Goto(m, "ready") \/ Goto(m, "apology")
     \/ SetThreadUnsaved(ConversationOf[m], t) /\ Goto(m, "apology") /\ thread' = thread
  /\ UNCHANGED <<busVars, running, answers>>

CreateFails(m) ==
  /\ pc[m] = "creating" /\ Goto(m, "apology")
  /\ UNCHANGED <<busVars, thread, storeVars, gatewayVars, answers>>

\* A failing receive_file or upload.
PrepareFails(m) ==
  /\ pc[m] = "ready" /\ Goto(m, "apology")
  /\ UNCHANGED <<busVars, thread, storeVars, gatewayVars, answers>>

\* What becomes of a chat whose run fails: a streaming handler makes it its answer, of
\* runs.wait the exception goes up to _handle_message.
Failed(m) == Goto(m, IF KindOf[m] = "stream" THEN "answer" ELSE "apology")

\* runs.wait, runs.stream: the gateway starts the run unless the thread has one.
StartRun(m) ==
  /\ pc[m] = "ready"
  /\ IF running[thread[m]] = None
     THEN running' = [running EXCEPT ![thread[m]] = m] /\ Goto(m, "running")
     ELSE running' = running /\ Failed(m)
  /\ UNCHANGED <<busVars, thread, storeVars, created, answers>>

\* The run ends, and its handler, if it still follows it, has its result or its error.
EndRun(t) ==
  LET m == running[t] IN
  /\ m # None
  /\ running' = [running EXCEPT ![t] = None]
  /\ IF pc[m] = "running" THEN Goto(m, "answer") \/ Failed(m) ELSE pc' = pc
  /\ UNCHANGED <<busVars, thread, storeVars, created, answers>>

\* The connection to the gateway breaks or times out; the run may go on.
LoseRun(m) ==
  /\ pc[m] = "running" /\ Failed(m)
  /\ UNCHANGED <<busVars, thread, storeVars, gatewayVars, answers>>

\* publish_outbound of the final answer; errors of the listeners are logged only.
Answer(m) ==
  /\ pc[m] = "answer" /\ answers' = [answers EXCEPT ![m] = @ + 1]
  /\ Goto(m, "done")
  /\ UNCHANGED <<busVars, thread, storeVars, gatewayVars>>

\* The answer of a chat cannot be put together, its artifacts cannot be read for instance.
AnswerFails(m) ==
  /\ pc[m] = "answer" /\ m \in Chats /\ Goto(m, "apology")
  /\ UNCHANGED <<busVars, thread, storeVars, gatewayVars, answers>>

\* The error is not answered, and the task stays inside the semaphore.
MistakeApologize(m) == pc[m] = "apology" /\ UNCHANGED vars

\* _send_error
Apologize(m) ==
  /\ pc[m] = "apology" /\ answers' = [answers EXCEPT ![m] = @ + 1]
  /\ Goto(m, "done")
  /\ UNCHANGED <<busVars, thread, storeVars, gatewayVars>>

-----------------------------------------------------------------------------
(* Starting and stopping.                                                   *)

StartManager ==
  /\ manager = "new" /\ manager' = "on"
  /\ UNCHANGED <<listening, queue, waiting, pc, thread, storeVars, gatewayVars, answers>>

\* The channels are started after the manager; one may be started again by itself.
StartChannel ==
  /\ manager = "on" /\ ~listening /\ listening' = TRUE
  /\ UNCHANGED <<manager, queue, waiting, pc, thread, storeVars, gatewayVars, answers>>

StopChannel ==
  /\ listening /\ listening' = FALSE
  /\ UNCHANGED <<manager, queue, waiting, pc, thread, storeVars, gatewayVars, answers>>

\* After the channels; the handlers and the queue stay as they are.
StopManager ==
  /\ manager = "on" /\ ~listening /\ manager' = "stopped"
  /\ UNCHANGED <<listening, queue, waiting, pc, thread, storeVars, gatewayVars, answers>>

\* The process, which is the gateway's too, ends by a crash or after a stop, and starts again
\* with the file of the store, or with no mapping at all when the file cannot be read or
\* parsed; the next save then writes over it.
Restart ==
  /\ pc' = [m \in Messages |-> IF pc[m] \in {"away", "done"} THEN pc[m] ELSE "lost"]
  /\ manager' = "new" /\ listening' = FALSE /\ queue' = << >> /\ waiting' = << >>
  /\ \/ data' = disk /\ apart' = FALSE
     \/ disk # NoMapping /\ data' = NoMapping /\ apart' = TRUE
  /\ running' = [t \in Threads |-> None]
  /\ UNCHANGED <<thread, disk, created, answers>>

Step(m) ==
  \/ Create(m) \/ CreateFails(m) \/ PrepareFails(m) \/ StartRun(m)
  \/ Answer(m) \/ AnswerFails(m) \/ Apologize(m)

Next ==
  \/ \E m \in Messages : Arrive(m) \/ Step(m) \/ LoseRun(m)
  \/ Dispatch \/ Enter
  \/ \E t \in Threads : EndRun(t)
  \/ StartManager \/ StartChannel \/ StopChannel \/ StopManager \/ Restart

Spec == Init /\ [][Next]_vars

\* The loop runs, some handler that can go on does, as none goes on for ever, and the
\* gateway ends its runs.
FairSpec ==
  /\ Spec
  /\ WF_vars(Dispatch) /\ WF_vars(Enter)
  /\ WF_vars(\E m \in Messages : Step(m)) /\ WF_vars(\E t \in Threads : EndRun(t))

-----------------------------------------------------------------------------
(* Properties.                                                              *)

\* No two conversations share a thread, in memory, in the file, or by what their messages
\* ran on, also after failing writes and restarts.
OneConversation ==
  /\ \A c, d \in Conversations : \A t \in {data[c], disk[c]} \cap {data[d], disk[d]} :
       t # None => c = d
  /\ \A m \in Chats, c \in Conversations :
       thread[m] # None /\ thread[m] \in {data[c], disk[c]} => c = ConversationOf[m]
  /\ \A m, n \in Chats :
       thread[m] = thread[n] /\ thread[m] # None => ConversationOf[m] = ConversationOf[n]

\* A message is answered once at most: by its answer or by an error message, never by both.
OneAnswer == \A m \in Messages : answers[m] <= 1

\* Memory and file differ only while the last save has failed, or after a start that could
\* not read the file until the first save (store.py 50-54, 104-109).
SavedUnlessFailed == apart \/ data = disk

\* A conversation that has a thread, and no chat that found none and is still creating one,
\* keeps it until a /new or the end of the process: a first message is the only way a
\* conversation is split (manager.py 747-755).  This holds with and without a topic: a chat
\* without one is a conversation like any other (store.py 79-82), although
\* message_bus.py 41-43 promises a new thread for each of its messages.
Settled(c) ==
  data[c] # None /\ \A m \in Chats : pc[m] = "creating" => ConversationOf[m] # c
SettledStays ==
  [][\A c \in Conversations : Settled(c) =>
       \/ Settled(c)' /\ data'[c] = data[c]
       \/ \E m \in Messages : KindOf[m] = "command" /\ Create(m) /\ Settled(c)'
       \/ Restart]_vars

\* The threads in use are those the gateway created, every message is in the one place its
\* handler is at, and has been answered only at the end.
Consistent ==
  /\ \A c \in Conversations : {data[c], disk[c]} \subseteq (1..created) \cup {None}
  /\ \A m \in Messages : thread[m] \in (1..created) \cup {None}
  /\ \A i \in DOMAIN queue : pc[queue[i]] = "queued"
  /\ \A i, j \in DOMAIN queue : queue[i] = queue[j] => i = j
  /\ \A i \in DOMAIN waiting : pc[waiting[i]] = "waiting"
  /\ \A i, j \in DOMAIN waiting : waiting[i] = waiting[j] => i = j
  /\ \A m \in Messages : answers[m] <= 1 /\ (pc[m] # "done" => answers[m] = 0)

\* The inductive invariant of the dispatcher.
IndInv == TypeOK /\ Consistent /\ OneConversation /\ SavedUnlessFailed

\* Every message that was queued is answered, unless the process ends first: also when the
\* service is stopped, once its handler was started.
LeftInQueue(m) == manager = "stopped" /\ pc[m] = "queued"
Answered ==
  \A m \in Messages :
    pc[m] \in {"queued", "waiting"} ~> (pc[m] \in {"done", "lost"} \/ LeftInQueue(m))
=============================================================================
