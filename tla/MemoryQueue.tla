----------------------------- MODULE MemoryQueue -----------------------------
(***************************************************************************)
(* The debounced queue of memory updates (agents/memory/queue.py), with    *)
(* the two that fill it: MemoryMiddleware.after_agent at the end of a run  *)
(* and memory_flush_hook before a summarization removes messages.          *)
(*                                                                         *)
(* _queue holds at most one context per thread, since _enqueue_locked      *)
(* drops the older one; it is a function of the thread here, and the order *)
(* between threads, which nothing depends on, is left open.  A turn of a   *)
(* conversation is a number, its user input and final answer together.     *)
(* Every section under _lock is one step, and so is update_memory.  Time   *)
(* is left out: an armed timer may fire at any moment.                     *)
(***************************************************************************)
EXTENDS FiniteSets, Integers

CONSTANTS Thread,       \* conversations, each of one user
          Worker,       \* threads that can be inside _process_queue's loop
          MaxTurns,     \* bounds the turns of all conversations
          MaxEntering   \* bounds the callers of flush

ASSUME MaxTurnsAssumption == MaxTurns \in Nat
ASSUME MaxEnteringAssumption == MaxEntering \in Nat

VARIABLES run,         \* where the thread's run is
          turns,       \* how many turns there have been, over all threads
          said,        \* the turns still in the state of the graph
          cutting,     \* the turns a summarization is about to remove
          corrective,  \* the turns in which the user corrected the agent
          queue,       \* _queue
          timer,       \* _timer
          strays,      \* armed timers _timer has forgotten
          entering,    \* threads at the lock of _process_queue
          processing,  \* _processing
          busy,        \* the thread is inside the loop of _process_queue
          batch,       \* its contexts_to_process
          handed,      \* history: turns after_agent has put into the queue
          flushed,     \* history: turns a summarization has put into it
          offered,     \* history: turns given to update_memory for their user
          misfiled     \* history: turns given to it for no user

runVars == <<run, turns, said, cutting, corrective>>
timerVars == <<timer, strays, entering>>
workVars == <<processing, busy, batch>>
inputs == <<handed, flushed>>
outputs == <<offered, misfiled>>
history == <<inputs, outputs>>
vars == <<runVars, queue, timerVars, workVars, history>>

-----------------------------------------------------------------------------
Turn == 1 .. MaxTurns

(* ConversationContext.  "user" says whether user_id is set, "correction"  *)
(* stands for both signals, which are treated alike.                       *)
Context == [turns : SUBSET Turn, user : BOOLEAN, correction : BOOLEAN]

(* There is no context of the thread.                                      *)
NoContext == [turns |-> {}, user |-> FALSE, correction |-> FALSE]

(* "spent": the timer has fired and the field still holds it.              *)
TimerState == {"none", "armed", "spent"}

TypeOK == /\ run \in [Thread -> {"idle", "running", "summarizing"}]
          /\ turns \in 0 .. MaxTurns
          /\ said \in [Thread -> SUBSET Turn]
          /\ cutting \in [Thread -> SUBSET Turn]
          /\ corrective \in [Thread -> SUBSET Turn]
          /\ queue \in [Thread -> Context]
          /\ timer \in TimerState
          /\ strays \in Nat
          /\ entering \in Nat
          /\ processing \in BOOLEAN
          /\ busy \in [Worker -> BOOLEAN]
          /\ batch \in [Worker -> [Thread -> Context]]
          /\ handed \in [Thread -> SUBSET Turn]
          /\ flushed \in [Thread -> SUBSET Turn]
          /\ offered \in [Thread -> SUBSET Turn]
          /\ misfiled \in [Thread -> SUBSET Turn]

NoTurns == [t \in Thread |-> {}]
Empty == [t \in Thread |-> NoContext]

Init == /\ run = [t \in Thread |-> "idle"]
        /\ turns = 0
        /\ said = NoTurns
        /\ cutting = NoTurns
        /\ corrective = NoTurns
        /\ queue = Empty
        /\ timer = "none"
        /\ strays = 0
        /\ entering = 0
        /\ processing = FALSE
        /\ busy = [w \in Worker |-> FALSE]
        /\ batch = [w \in Worker |-> Empty]
        /\ handed = NoTurns
        /\ flushed = NoTurns
        /\ offered = NoTurns
        /\ misfiled = NoTurns

-----------------------------------------------------------------------------
(* detect_correction looks at the last six messages only: three turns.     *)
Corrects(t, ts) == \E n \in ts \cap corrective[t] :
                     Cardinality({k \in ts : k > n}) < 3

(* The signals are those of the new context alone.                         *)
MistakeEnqueue(t, ts, user) ==
    queue' = [queue EXCEPT ![t] = [turns |-> ts, user |-> user,
                                   correction |-> Corrects(t, ts)]]

(* _enqueue_locked: the new context replaces the thread's older one and    *)
(* takes over its signals.                                                 *)
Enqueue(t, ts, user) ==
    queue' = [queue EXCEPT ![t] =
                [turns |-> ts, user |-> user,
                 correction |-> queue[t].correction \/ Corrects(t, ts)]]

(* _schedule_timer cancels an armed timer before it starts another.        *)
ScheduleTimer == timer' = "armed"

-----------------------------------------------------------------------------
(* A run of the thread, as far as the queue hears of it.                   *)

(* A run begins with what the user says.                                   *)
Speak(t) == /\ run[t] = "idle" /\ turns < MaxTurns
            /\ turns' = turns + 1
            /\ said' = [said EXCEPT ![t] = @ \cup {turns'}]
            /\ \/ corrective' = [corrective EXCEPT ![t] = @ \cup {turns'}]
               \/ UNCHANGED corrective
            /\ run' = [run EXCEPT ![t] = "running"]
            /\ UNCHANGED <<cutting, queue, timerVars, workVars, history>>

(* _fire_hooks: memory_flush_hook hands over the older turns, without a    *)
(* user_id, and add_nowait arms a timer of no delay.                       *)
BeforeSummarization(t) ==
    /\ run[t] = "running"
    /\ \E n \in said[t] :
         LET older == {k \in said[t] : k < n}
         IN /\ older # {}
            /\ cutting' = [cutting EXCEPT ![t] = older]
            /\ Enqueue(t, older, FALSE)
            /\ flushed' = [flushed EXCEPT ![t] = @ \cup older]
    /\ ScheduleTimer
    /\ run' = [run EXCEPT ![t] = "summarizing"]
    /\ UNCHANGED <<turns, said, corrective, strays, entering, workVars,
                   handed, outputs>>

(* The summary takes the place of the older turns in the state.            *)
Summarize(t) == /\ run[t] = "summarizing"
                /\ said' = [said EXCEPT ![t] = @ \ cutting[t]]
                /\ cutting' = [cutting EXCEPT ![t] = {}]
                /\ run' = [run EXCEPT ![t] = "running"]
                /\ UNCHANGED <<turns, corrective, queue, timerVars, workVars,
                               history>>

(* after_agent hands over every turn in the state; add restarts the        *)
(* debounce time.                                                          *)
AfterAgent(t) == /\ run[t] = "running"
                 /\ Enqueue(t, said[t], TRUE)
                 /\ handed' = [handed EXCEPT ![t] = @ \cup said[t]]
                 /\ ScheduleTimer
                 /\ run' = [run EXCEPT ![t] = "idle"]
                 /\ UNCHANGED <<turns, said, cutting, corrective, strays,
                                entering, workVars, flushed, outputs>>

(* A run that fails or is cancelled never reaches after_agent.             *)
RunFails(t) == /\ run[t] # "idle"
               /\ run' = [run EXCEPT ![t] = "idle"]
               /\ cutting' = [cutting EXCEPT ![t] = {}]
               /\ UNCHANGED <<turns, said, corrective, queue, timerVars,
                              workVars, history>>

-----------------------------------------------------------------------------
(* Timers and callers of flush.                                            *)

Fire == /\ timer = "armed"
        /\ timer' = "spent"
        /\ entering' = entering + 1
        /\ UNCHANGED <<runVars, queue, strays, workVars, history>>

StrayFires == /\ strays > 0
              /\ strays' = strays - 1
              /\ entering' = entering + 1
              /\ UNCHANGED <<runVars, queue, timer, workVars, history>>

(* flush takes the lock twice: to cancel the timer, and in _process_queue. *)
Flush == /\ entering < MaxEntering
         /\ timer' = "none"
         /\ entering' = entering + 1
         /\ UNCHANGED <<runVars, queue, strays, workVars, history>>

FlushNowait == /\ entering < MaxEntering
               /\ ScheduleTimer
               /\ UNCHANGED <<runVars, queue, strays, entering, workVars,
                              history>>

-----------------------------------------------------------------------------
(* _process_queue.                                                         *)

(* _process_queue returns early without trying again.                      *)
MistakeEnterBusy == /\ entering > 0 /\ processing
                    /\ entering' = entering - 1
                    /\ UNCHANGED <<runVars, queue, timer, strays, workVars,
                                   history>>

(* Another thread is in the loop: a timer of no delay tries again.         *)
EnterBusy == /\ entering > 0 /\ processing
             /\ ScheduleTimer
             /\ entering' = entering - 1
             /\ UNCHANGED <<runVars, queue, strays, workVars, history>>

EnterEmpty == /\ entering > 0 /\ ~processing /\ queue = Empty
              /\ entering' = entering - 1
              /\ UNCHANGED <<runVars, queue, timer, strays, workVars, history>>

(* A timer's callback does not look whether a batch is at work.            *)
MistakeTake(w) == /\ entering > 0 /\ queue # Empty /\ ~busy[w]
                  /\ entering' = entering - 1
                  /\ processing' = TRUE
                  /\ busy' = [busy EXCEPT ![w] = TRUE]
                  /\ batch' = [batch EXCEPT ![w] = queue]
                  /\ queue' = Empty
                  /\ timer' = "none"
                  /\ strays' = strays + (IF timer = "armed" THEN 1 ELSE 0)
                  /\ UNCHANGED <<runVars, history>>

(* _timer is dropped, not cancelled: it may be armed.                      *)
Take(w) == /\ entering > 0 /\ ~processing /\ queue # Empty
           /\ ~busy[w]
           /\ entering' = entering - 1
           /\ processing' = TRUE
           /\ busy' = [busy EXCEPT ![w] = TRUE]
           /\ batch' = [batch EXCEPT ![w] = queue]
           /\ queue' = Empty
           /\ timer' = "none"
           /\ strays' = strays + (IF timer = "armed" THEN 1 ELSE 0)
           /\ UNCHANGED <<runVars, history>>

(* update_memory of one context; its failures are logged, and the loop     *)
(* goes on with the next one.                                              *)
Update(w) ==
    /\ busy[w]
    /\ \E t \in Thread :
         /\ batch[w][t] # NoContext
         /\ batch' = [batch EXCEPT ![w][t] = NoContext]
         /\ IF batch[w][t].user
            THEN /\ offered' = [offered EXCEPT ![t] = @ \cup batch[w][t].turns]
                 /\ UNCHANGED misfiled
            ELSE /\ misfiled' = [misfiled EXCEPT ![t] = @ \cup batch[w][t].turns]
                 /\ UNCHANGED offered
    /\ UNCHANGED <<runVars, queue, timerVars, processing, busy, inputs>>

Finish(w) == /\ busy[w] /\ batch[w] = Empty
             /\ busy' = [busy EXCEPT ![w] = FALSE]
             /\ processing' = FALSE
             /\ UNCHANGED <<runVars, queue, timerVars, batch, history>>

-----------------------------------------------------------------------------
Run(t) == \/ Speak(t) \/ BeforeSummarization(t) \/ Summarize(t)
          \/ AfterAgent(t) \/ RunFails(t)

Timers == Fire \/ StrayFires

Enter == EnterBusy \/ EnterEmpty \/ \E w \in Worker : Take(w)

Work(w) == Update(w) \/ Finish(w)

Next == \/ \E t \in Thread : Run(t)
        \/ Timers \/ Flush \/ FlushNowait \/ Enter
        \/ \E w \in Worker : Work(w)

Spec == Init /\ [][Next]_vars

(* Timers fire, a thread gets the lock, and the model answers.             *)
FairSpec == /\ Spec
            /\ WF_vars(Fire) /\ WF_vars(StrayFires) /\ WF_vars(Enter)
            /\ \A w \in Worker : WF_vars(Work(w))

-----------------------------------------------------------------------------
(* Properties.                                                             *)

InQueue(t) == queue[t].turns
InBatches(t) == UNION {batch[w][t].turns : w \in Worker}

(* A queue that is not empty has a timer or a thread on its way to it      *)
(* (queue.py 143-173): none of cancel, forget and retry strands a context. *)
QueuedHasTimer == queue # Empty => timer = "armed" \/ strays > 0 \/ entering > 0

(* Two batches are never worked on at a time, however many timers fire     *)
(* (queue.py 161-173): updates of one memory file read and write it whole. *)
OneBatch == \A v, w \in Worker : busy[v] /\ busy[w] => v = w

(* Unless a summarization takes part, a turn that was handed over is in    *)
(* the queue, in a batch or processed, and always for its user: replacing  *)
(* the context of a thread (queue.py 133) loses nothing, since the new one *)
(* repeats the turns.  A summarization hands turns over for no user.       *)
KeptUnlessSummarized ==
    \A t \in Thread : flushed[t] = {} =>
      /\ handed[t] \subseteq InQueue(t) \cup InBatches(t) \cup offered[t]
      /\ misfiled[t] = {}

(* A signal of a context that waits is lost neither to a newer context nor *)
(* to a retry, only passed on with the batch (queue.py 118-134).           *)
SignalCarried == \A t \in Thread : queue[t].correction =>
                   \/ queue'[t].correction
                   \/ \E w \in Worker : batch'[w][t].correction

CorrectionKept == [][SignalCarried]_vars

Pending(t) == InQueue(t) # {} \/ InBatches(t) # {}

(* What is queued is processed in the end, also when a timer fires while   *)
(* another batch is at work (queue.py 162-165).                            *)
QueueDrains == \A t \in Thread : Pending(t) ~> ~Pending(t)

(* What the three invariants rest on: who is in the loop has set           *)
(* _processing, who is not works on nothing, and until a summarization a   *)
(* context that waits repeats what the state says, for its user.           *)
BusyIsProcessing == \A w \in Worker : busy[w] => processing
IdleHasNoBatch == \A w \in Worker : ~busy[w] => batch[w] = Empty
Repeated ==
    \A t \in Thread : flushed[t] = {} =>
      /\ cutting[t] = {}
      /\ queue[t].turns \subseteq said[t]
      /\ queue[t].turns # {} => queue[t].user
      /\ \A w \in Worker : batch[w][t].turns # {} => batch[w][t].user

IndInv == /\ TypeOK /\ QueuedHasTimer /\ OneBatch /\ KeptUnlessSummarized
          /\ BusyIsProcessing /\ IdleHasNoBatch /\ Repeated
=============================================================================
