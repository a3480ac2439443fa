---------------------------- MODULE MemoryProofs ----------------------------
(* Proofs about memory: about MemoryQueue, for every set of threads and    *)
(* workers and every number of turns, and about MemoryStore, for every set *)
(* of actors and facts and every number of replacements.                   *)
EXTENDS MemoryQueue, MemoryStore, TLAPS

USE MaxTurnsAssumption, MaxEnteringAssumption

LEMMA InitInv == Init => IndInv
<1>1. NoContext \in Context
  BY DEF NoContext, Context
<1>2. Init => TypeOK
  <2>1. NoTurns \in [Thread -> SUBSET Turn] /\ Empty \in [Thread -> Context]
    BY <1>1 DEF NoTurns, Empty
  <2>2. [w \in Worker |-> Empty] \in [Worker -> [Thread -> Context]]
    BY <2>1
  <2>3. Init => /\ run \in [Thread -> {"idle", "running", "summarizing"}]
                /\ busy \in [Worker -> BOOLEAN]
                /\ turns \in 0 .. MaxTurns /\ strays \in Nat /\ entering \in Nat
                /\ timer \in TimerState
    BY DEF Init, TimerState
  <2>. QED
    BY <2>1, <2>2, <2>3, Zenon DEF Init, TypeOK
<1>3. Init => QueuedHasTimer /\ OneBatch /\ BusyIsProcessing /\ IdleHasNoBatch
  BY DEF Init, QueuedHasTimer, OneBatch, BusyIsProcessing, IdleHasNoBatch
<1>4. Init => KeptUnlessSummarized
  BY DEF Init, KeptUnlessSummarized, NoTurns
<1>5. Init => Repeated
  BY DEF Init, Repeated, NoTurns, Empty, NoContext
<1>. QED
  BY <1>2, <1>3, <1>4, <1>5 DEF IndInv

(* What _enqueue_locked leaves behind.                                     *)
LEMMA EnqueueFacts ==
  ASSUME TypeOK, NEW t \in Thread, NEW ts \in SUBSET Turn,
         NEW user \in BOOLEAN, Enqueue(t, ts, user)
  PROVE  /\ queue' \in [Thread -> Context]
         /\ queue'[t].turns = ts
         /\ queue'[t].user = user
         /\ queue[t].correction => queue'[t].correction
         /\ \A s \in Thread \ {t} : queue'[s] = queue[s]
<1>1. Corrects(t, ts) \in BOOLEAN
  BY DEF Corrects
<1>2. queue[t].correction \in BOOLEAN
  BY DEF TypeOK, Context
<1>3. (queue[t].correction \/ Corrects(t, ts)) \in BOOLEAN
  OBVIOUS
<1>4. [turns |-> ts, user |-> user,
       correction |-> queue[t].correction \/ Corrects(t, ts)] \in Context
  BY <1>3 DEF Context
<1>5. queue'[t] = [turns |-> ts, user |-> user,
                   correction |-> queue[t].correction \/ Corrects(t, ts)]
  BY DEF Enqueue, TypeOK
<1>. QED
  BY <1>4, <1>5 DEF Enqueue, TypeOK

(* Types: one step per action.                                             *)
LEMMA TypeInv == TypeOK /\ [Next]_vars => TypeOK'
<1>. SUFFICES ASSUME TypeOK, [Next]_vars PROVE TypeOK'
  OBVIOUS
<1>0. NoContext \in Context /\ Empty \in [Thread -> Context]
  BY DEF NoContext, Context, Empty
<1>1. ASSUME NEW t \in Thread, Speak(t) PROVE TypeOK'
  <2>1. turns' \in Turn /\ turns' \in 0 .. MaxTurns
    BY <1>1 DEF Speak, TypeOK, Turn
  <2>2. said' \in [Thread -> SUBSET Turn] /\ corrective' \in [Thread -> SUBSET Turn]
    BY <1>1, <2>1 DEF Speak, TypeOK
  <2>. QED
    BY <1>1, <2>1, <2>2 DEF Speak, TypeOK, timerVars, workVars, history, inputs, outputs
<1>2. ASSUME NEW t \in Thread, BeforeSummarization(t) PROVE TypeOK'
  <2>1. PICK n \in said[t] :
          LET older == {k \in said[t] : k < n}
          IN /\ older # {}
             /\ cutting' = [cutting EXCEPT ![t] = older]
             /\ Enqueue(t, older, FALSE)
             /\ flushed' = [flushed EXCEPT ![t] = @ \cup older]
    BY <1>2 DEF BeforeSummarization
  <2>2. {k \in said[t] : k < n} \in SUBSET Turn
    BY DEF TypeOK
  <2>3. queue' \in [Thread -> Context]
    BY <2>1, <2>2, EnqueueFacts
  <2>. QED
    BY <1>2, <2>1, <2>2, <2>3 DEF BeforeSummarization, TypeOK, ScheduleTimer,
         TimerState, workVars, outputs
<1>3. ASSUME NEW t \in Thread, Summarize(t) PROVE TypeOK'
  BY <1>3 DEF Summarize, TypeOK, timerVars, workVars, history, inputs, outputs
<1>4. ASSUME NEW t \in Thread, AfterAgent(t) PROVE TypeOK'
  <2>1. queue' \in [Thread -> Context]
    BY <1>4, EnqueueFacts DEF AfterAgent, TypeOK
  <2>. QED
    BY <1>4, <2>1 DEF AfterAgent, TypeOK, ScheduleTimer, TimerState, workVars, outputs
<1>5. ASSUME NEW t \in Thread, RunFails(t) PROVE TypeOK'
  BY <1>5 DEF RunFails, TypeOK, timerVars, workVars, history, inputs, outputs
<1>6. CASE Timers \/ Flush \/ FlushNowait
  BY <1>6 DEF Timers, Fire, StrayFires, Flush, FlushNowait, ScheduleTimer,
       TypeOK, TimerState, runVars, workVars, history, inputs, outputs
<1>7. CASE EnterBusy \/ EnterEmpty
  BY <1>7 DEF EnterBusy, EnterEmpty, ScheduleTimer, TypeOK, TimerState,
       runVars, workVars, history, inputs, outputs
<1>8. ASSUME NEW w \in Worker, Take(w) PROVE TypeOK'
  BY <1>0, <1>8 DEF Take, TypeOK, TimerState, runVars, history, inputs, outputs
<1>9. ASSUME NEW w \in Worker, Update(w) PROVE TypeOK'
  <2>1. PICK t \in Thread :
         /\ batch' = [batch EXCEPT ![w][t] = NoContext]
         /\ IF batch[w][t].user
            THEN /\ offered' = [offered EXCEPT ![t] = @ \cup batch[w][t].turns]
                 /\ UNCHANGED misfiled
            ELSE /\ misfiled' = [misfiled EXCEPT ![t] = @ \cup batch[w][t].turns]
                 /\ UNCHANGED offered
    BY <1>9 DEF Update
  <2>2. batch' \in [Worker -> [Thread -> Context]]
    BY <1>0, <2>1 DEF TypeOK
  <2>3. batch[w][t].turns \in SUBSET Turn
    BY DEF TypeOK, Context
  <2>4. offered' \in [Thread -> SUBSET Turn] /\ misfiled' \in [Thread -> SUBSET Turn]
    <3>1. offered[t] \cup batch[w][t].turns \in SUBSET Turn
      BY <2>3 DEF TypeOK
    <3>2. misfiled[t] \cup batch[w][t].turns \in SUBSET Turn
      BY <2>3 DEF TypeOK
    <3>3. offered' = offered \/ offered' = [offered EXCEPT ![t] = @ \cup batch[w][t].turns]
      BY <2>1
    <3>4. misfiled' = misfiled \/ misfiled' = [misfiled EXCEPT ![t] = @ \cup batch[w][t].turns]
      BY <2>1
    <3>5. offered' \in [Thread -> SUBSET Turn]
      BY <3>1, <3>3 DEF TypeOK
    <3>6. misfiled' \in [Thread -> SUBSET Turn]
      BY <3>2, <3>4 DEF TypeOK
    <3>. QED
      BY <3>5, <3>6
  <2>. QED
    BY <1>9, <2>2, <2>4 DEF Update, TypeOK, runVars, timerVars, inputs
<1>10. ASSUME NEW w \in Worker, Finish(w) PROVE TypeOK'
  BY <1>10 DEF Finish, TypeOK, runVars, timerVars, history, inputs, outputs
<1>11. CASE UNCHANGED vars
  BY <1>11 DEF vars, TypeOK, runVars, timerVars, workVars, history, inputs, outputs
<1>. QED
  BY <1>1, <1>2, <1>3, <1>4, <1>5, <1>6, <1>7, <1>8, <1>9, <1>10, <1>11
     DEF Next, Run, Enter, Work

-----------------------------------------------------------------------------
(* Every step that fills the queue arms the timer, every step that spends  *)
(* a timer puts a thread at the lock, and every thread that leaves the     *)
(* lock either empties the queue or arms the timer.                        *)
LEMMA TimerInv == TypeOK /\ QueuedHasTimer /\ [Next]_vars => QueuedHasTimer'
<1>. SUFFICES ASSUME TypeOK, QueuedHasTimer, [Next]_vars PROVE QueuedHasTimer'
  OBVIOUS
<1>. USE DEF QueuedHasTimer
<1>1. ASSUME NEW t \in Thread, Run(t) PROVE QueuedHasTimer'
  BY <1>1 DEF Run, Speak, BeforeSummarization, Summarize, AfterAgent, RunFails,
       ScheduleTimer, timerVars
<1>2. CASE Timers \/ Flush \/ FlushNowait
  BY <1>2 DEF Timers, Fire, StrayFires, Flush, FlushNowait, ScheduleTimer, TypeOK
<1>3. CASE Enter
  BY <1>3 DEF Enter, EnterBusy, EnterEmpty, Take, ScheduleTimer
<1>4. ASSUME NEW w \in Worker, Work(w) PROVE QueuedHasTimer'
  BY <1>4 DEF Work, Update, Finish, timerVars
<1>5. CASE UNCHANGED vars
  BY <1>5 DEF vars, timerVars
<1>. QED
  BY <1>1, <1>2, <1>3, <1>4, <1>5 DEF Next

(* Only a thread that finds _processing clear goes into the loop, and it   *)
(* sets it before it leaves the lock.                                      *)
LEMMA WorkInv ==
  ASSUME TypeOK, OneBatch, BusyIsProcessing, IdleHasNoBatch, [Next]_vars
  PROVE  OneBatch' /\ BusyIsProcessing' /\ IdleHasNoBatch'
<1>. USE DEF OneBatch, BusyIsProcessing, IdleHasNoBatch
<1>1. ASSUME UNCHANGED workVars
      PROVE  OneBatch' /\ BusyIsProcessing' /\ IdleHasNoBatch'
  BY <1>1 DEF workVars
<1>2. ASSUME NEW w \in Worker, Take(w)
      PROVE  OneBatch' /\ BusyIsProcessing' /\ IdleHasNoBatch'
  BY <1>2 DEF Take, TypeOK
<1>3. ASSUME NEW w \in Worker, Update(w)
      PROVE  OneBatch' /\ BusyIsProcessing' /\ IdleHasNoBatch'
  <2>1. \A v \in Worker \ {w} : batch'[v] = batch[v]
    BY <1>3 DEF Update, TypeOK
  <2>. QED
    BY <1>3, <2>1 DEF Update
<1>4. ASSUME NEW w \in Worker, Finish(w)
      PROVE  OneBatch' /\ BusyIsProcessing' /\ IdleHasNoBatch'
  BY <1>4 DEF Finish, TypeOK
<1>5. ASSUME NEW t \in Thread, Run(t) PROVE UNCHANGED workVars
  BY <1>5 DEF Run, Speak, BeforeSummarization, Summarize, AfterAgent, RunFails
<1>6. ASSUME Timers \/ Flush \/ FlushNowait \/ EnterBusy \/ EnterEmpty
      PROVE  UNCHANGED workVars
  BY <1>6 DEF Timers, Fire, StrayFires, Flush, FlushNowait, EnterBusy, EnterEmpty
<1>7. CASE UNCHANGED vars
  BY <1>1, <1>7 DEF vars
<1>. QED
  BY <1>1, <1>2, <1>3, <1>4, <1>5, <1>6, <1>7 DEF Next, Enter, Work

-----------------------------------------------------------------------------
(* The summarization is the only step that takes turns out of the state,   *)
(* and its hook has told so before.                                        *)
LEMMA RepeatedInv ==
  ASSUME TypeOK, Repeated, IdleHasNoBatch, [Next]_vars PROVE Repeated'
<1>. USE DEF Repeated
<1>1. ASSUME NEW t \in Thread, Speak(t) PROVE Repeated'
  BY <1>1 DEF Speak, TypeOK, workVars, history, inputs
<1>2. ASSUME NEW t \in Thread, BeforeSummarization(t) PROVE Repeated'
  <2>1. PICK n \in said[t] :
          LET older == {k \in said[t] : k < n}
          IN /\ older # {}
             /\ cutting' = [cutting EXCEPT ![t] = older]
             /\ Enqueue(t, older, FALSE)
             /\ flushed' = [flushed EXCEPT ![t] = @ \cup older]
    BY <1>2 DEF BeforeSummarization
  <2>2. {k \in said[t] : k < n} \in SUBSET Turn
    BY DEF TypeOK
  <2>3. \A s \in Thread \ {t} : queue'[s] = queue[s]
    BY <2>1, <2>2, EnqueueFacts
  <2>4. flushed'[t] # {}
    BY <2>1 DEF TypeOK
  <2>5. \A s \in Thread \ {t} : cutting'[s] = cutting[s] /\ flushed'[s] = flushed[s]
    BY <2>1 DEF TypeOK
  <2>6. UNCHANGED <<said, batch>>
    BY <1>2 DEF BeforeSummarization, workVars
  <2>. QED
    BY <2>3, <2>4, <2>5, <2>6
<1>3. ASSUME NEW t \in Thread, Summarize(t) PROVE Repeated'
  <2>1. flushed[t] = {} => said' = said
    BY <1>3 DEF Summarize, TypeOK
  <2>2. \A s \in Thread \ {t} : said'[s] = said[s] /\ cutting'[s] = cutting[s]
    BY <1>3 DEF Summarize, TypeOK
  <2>3. cutting'[t] = {} /\ UNCHANGED <<queue, flushed, batch>>
    BY <1>3 DEF Summarize, TypeOK, workVars, history, inputs
  <2>. QED
    BY <2>1, <2>2, <2>3
<1>4. ASSUME NEW t \in Thread, AfterAgent(t) PROVE Repeated'
  <2>1. /\ queue'[t].turns = said[t] /\ queue'[t].user
        /\ \A s \in Thread \ {t} : queue'[s] = queue[s]
    BY <1>4, EnqueueFacts DEF AfterAgent, TypeOK
  <2>. QED
    BY <1>4, <2>1 DEF AfterAgent, workVars
<1>5. ASSUME NEW t \in Thread, RunFails(t) PROVE Repeated'
  BY <1>5 DEF RunFails, TypeOK, workVars, history, inputs
<1>6. CASE Timers \/ Flush \/ FlushNowait
  BY <1>6 DEF Timers, Fire, StrayFires, Flush, FlushNowait, runVars, workVars,
       history, inputs
<1>7. CASE EnterBusy \/ EnterEmpty
  BY <1>7 DEF EnterBusy, EnterEmpty, runVars, workVars, history, inputs
<1>8. ASSUME NEW w \in Worker, Take(w) PROVE Repeated'
  <2>1. /\ batch'[w] = queue
        /\ \A v \in Worker \ {w} : batch'[v] = batch[v]
    BY <1>8 DEF Take, TypeOK
  <2>2. \A t \in Thread : queue'[t].turns = {}
    BY <1>8 DEF Take, Empty, NoContext
  <2>. QED
    BY <1>8, <2>1, <2>2 DEF Take, runVars, history, inputs
<1>9. ASSUME NEW w \in Worker, Update(w) PROVE Repeated'
  <2>1. \A v \in Worker, t \in Thread :
          batch'[v][t] = batch[v][t] \/ batch'[v][t].turns = {}
    BY <1>9 DEF Update, TypeOK, NoContext
  <2>. QED
    BY <1>9, <2>1 DEF Update, runVars, inputs
<1>10. ASSUME NEW w \in Worker, Finish(w) PROVE Repeated'
  BY <1>10 DEF Finish, runVars, history, inputs
<1>11. CASE UNCHANGED vars
  BY <1>11 DEF vars, runVars, workVars, history, inputs
<1>. QED
  BY <1>1, <1>2, <1>3, <1>4, <1>5, <1>6, <1>7, <1>8, <1>9, <1>10, <1>11
     DEF Next, Run, Enter, Work

(* A context only gives way to one that says the same, and only a worker   *)
(* that has nothing else takes the queue.                                  *)
LEMMA KeptInv ==
  ASSUME TypeOK, KeptUnlessSummarized, Repeated, IdleHasNoBatch, [Next]_vars
  PROVE  KeptUnlessSummarized'
<1>. USE DEF KeptUnlessSummarized, InQueue
<1>1. ASSUME UNCHANGED <<queue, batch, handed, flushed, offered, misfiled>>
      PROVE  KeptUnlessSummarized'
  BY <1>1 DEF InBatches
<1>2. ASSUME NEW t \in Thread, Speak(t) \/ Summarize(t) \/ RunFails(t)
      PROVE  UNCHANGED <<queue, batch, handed, flushed, offered, misfiled>>
  BY <1>2 DEF Speak, Summarize, RunFails, workVars, history, inputs, outputs
<1>3. ASSUME NEW t \in Thread, BeforeSummarization(t)
      PROVE  KeptUnlessSummarized'
  <2>1. PICK n \in said[t] :
          LET older == {k \in said[t] : k < n}
          IN /\ older # {}
             /\ Enqueue(t, older, FALSE)
             /\ flushed' = [flushed EXCEPT ![t] = @ \cup older]
    BY <1>3 DEF BeforeSummarization
  <2>2. {k \in said[t] : k < n} \in SUBSET Turn
    BY DEF TypeOK
  <2>3. /\ \A s \in Thread \ {t} : queue'[s] = queue[s] /\ flushed'[s] = flushed[s]
        /\ flushed'[t] # {}
    BY <2>1, <2>2, EnqueueFacts DEF TypeOK
  <2>4. UNCHANGED <<batch, handed, offered, misfiled>>
    BY <1>3 DEF BeforeSummarization, workVars, outputs
  <2>. QED
    BY <2>3, <2>4 DEF InBatches
<1>4. ASSUME NEW t \in Thread, AfterAgent(t) PROVE KeptUnlessSummarized'
  <2>1. /\ queue'[t].turns = said[t]
        /\ \A s \in Thread \ {t} : queue'[s] = queue[s]
    BY <1>4, EnqueueFacts DEF AfterAgent, TypeOK
  <2>2. /\ handed'[t] = handed[t] \cup said[t]
        /\ \A s \in Thread \ {t} : handed'[s] = handed[s]
    BY <1>4 DEF AfterAgent, TypeOK
  <2>3. UNCHANGED <<batch, flushed, offered, misfiled>>
    BY <1>4 DEF AfterAgent, workVars, outputs
  <2>. QED
    BY <2>1, <2>2, <2>3 DEF InBatches, Repeated
<1>5. ASSUME Timers \/ Flush \/ FlushNowait \/ EnterBusy \/ EnterEmpty
      PROVE  UNCHANGED <<queue, batch, handed, flushed, offered, misfiled>>
  BY <1>5 DEF Timers, Fire, StrayFires, Flush, FlushNowait, EnterBusy,
       EnterEmpty, workVars, history, inputs, outputs
<1>6. ASSUME NEW w \in Worker, Take(w) PROVE KeptUnlessSummarized'
  <2>1. \A t \in Thread : batch[w][t].turns = {}
    BY <1>6 DEF Take, IdleHasNoBatch, Empty, NoContext
  <2>2. /\ batch'[w] = queue
        /\ \A v \in Worker \ {w} : batch'[v] = batch[v]
    BY <1>6 DEF Take, TypeOK
  <2>3. \A t \in Thread :
          InQueue(t) \cup InBatches(t) \subseteq InBatches(t)'
    BY <2>1, <2>2 DEF InBatches
  <2>4. UNCHANGED <<handed, flushed, offered, misfiled>>
    BY <1>6 DEF Take, history, inputs, outputs
  <2>. QED
    BY <2>3, <2>4
<1>7. ASSUME NEW w \in Worker, Update(w) PROVE KeptUnlessSummarized'
  <2>1. PICK t \in Thread :
         /\ batch' = [batch EXCEPT ![w][t] = NoContext]
         /\ IF batch[w][t].user
            THEN /\ offered' = [offered EXCEPT ![t] = @ \cup batch[w][t].turns]
                 /\ UNCHANGED misfiled
            ELSE /\ misfiled' = [misfiled EXCEPT ![t] = @ \cup batch[w][t].turns]
                 /\ UNCHANGED offered
    BY <1>7 DEF Update
  <2>2. UNCHANGED <<queue, handed, flushed>>
    BY <1>7 DEF Update, inputs
  <2>3. \A v \in Worker, s \in Thread :
          batch'[v][s] = batch[v][s] \/ (v = w /\ s = t)
    BY <2>1 DEF TypeOK
  <2>4. \A s \in Thread : offered[s] \subseteq offered'[s]
    BY <2>1 DEF TypeOK
  <2>5. flushed[t] = {} => batch[w][t].turns \subseteq offered'[t]
    BY <2>1 DEF TypeOK, Repeated
  <2>6. \A s \in Thread : flushed[s] = {} =>
          InBatches(s) \subseteq InBatches(s)' \cup offered'[s]
    BY <2>3, <2>5 DEF InBatches
  <2>7. \A s \in Thread : flushed[s] = {} /\ misfiled[s] = {} => misfiled'[s] = {}
    <3>1. flushed[t] = {} /\ ~batch[w][t].user => batch[w][t].turns = {}
      BY DEF Repeated
    <3>2. CASE batch[w][t].user
      BY <2>1, <3>2
    <3>3. CASE ~batch[w][t].user
      <4>1. misfiled' = [misfiled EXCEPT ![t] = @ \cup batch[w][t].turns]
        BY <2>1, <3>3
      <4>2. \A s \in Thread \ {t} : misfiled'[s] = misfiled[s]
        BY <4>1 DEF TypeOK
      <4>3. misfiled'[t] = misfiled[t] \cup batch[w][t].turns
        BY <4>1 DEF TypeOK
      <4>. QED
        BY <3>1, <3>3, <4>2, <4>3
    <3>. QED
      BY <3>2, <3>3
  <2>. QED
    BY <2>2, <2>4, <2>6, <2>7
<1>8. ASSUME NEW w \in Worker, Finish(w)
      PROVE  UNCHANGED <<queue, batch, handed, flushed, offered, misfiled>>
  BY <1>8 DEF Finish, history, inputs, outputs
<1>9. CASE UNCHANGED vars
  BY <1>1, <1>9 DEF vars, workVars, history, inputs, outputs
<1>. QED
  BY <1>1, <1>2, <1>3, <1>4, <1>5, <1>6, <1>7, <1>8, <1>9
     DEF Next, Run, Enter, Work

LEMMA StepInv == IndInv /\ [Next]_vars => IndInv'
  BY TypeInv, TimerInv, WorkInv, RepeatedInv, KeptInv DEF IndInv

(* Signals: only add and taking the batch touch a context that waits.      *)
LEMMA SignalStep == TypeOK /\ [Next]_vars => SignalCarried
<1>. SUFFICES ASSUME TypeOK, [Next]_vars PROVE SignalCarried
  OBVIOUS
<1>. USE DEF SignalCarried
<1>1. ASSUME NEW t \in Thread, BeforeSummarization(t) PROVE SignalCarried
  <2>1. PICK n \in said[t] : Enqueue(t, {k \in said[t] : k < n}, FALSE)
    BY <1>1 DEF BeforeSummarization
  <2>2. {k \in said[t] : k < n} \in SUBSET Turn
    BY DEF TypeOK
  <2>. QED
    BY <2>1, <2>2, EnqueueFacts
<1>2. ASSUME NEW t \in Thread, AfterAgent(t) PROVE SignalCarried
  BY <1>2, EnqueueFacts DEF AfterAgent, TypeOK
<1>3. ASSUME NEW w \in Worker, Take(w) PROVE SignalCarried
  BY <1>3 DEF Take, TypeOK
<1>4. ASSUME NEW t \in Thread, Speak(t) \/ Summarize(t) \/ RunFails(t)
      PROVE  UNCHANGED queue
  BY <1>4 DEF Speak, Summarize, RunFails
<1>5. ASSUME Timers \/ Flush \/ FlushNowait \/ EnterBusy \/ EnterEmpty
      PROVE  UNCHANGED queue
  BY <1>5 DEF Timers, Fire, StrayFires, Flush, FlushNowait, EnterBusy, EnterEmpty
<1>6. ASSUME NEW w \in Worker, Work(w) PROVE UNCHANGED queue
  BY <1>6 DEF Work, Update, Finish
<1>7. CASE UNCHANGED vars
  BY <1>7 DEF vars
<1>. QED
  BY <1>1, <1>2, <1>3, <1>4, <1>5, <1>6, <1>7 DEF Next, Run, Enter

-----------------------------------------------------------------------------
(* The invariant holds in every reachable state.                           *)
THEOREM Invariance == Spec => []IndInv
  BY InitInv, StepInv, PTL DEF Spec

(* Every variable has its type.                                            *)
THEOREM TypeCorrect == Spec => []TypeOK
<1>1. IndInv => TypeOK
  BY DEF IndInv
<1>. QED  BY <1>1, Invariance, PTL

(* No interleaving of timers, flush and worker leaves a context in the     *)
(* queue that nothing will come for.                                       *)
THEOREM TimerCorrect == Spec => []QueuedHasTimer
<1>1. IndInv => QueuedHasTimer
  BY DEF IndInv
<1>. QED  BY <1>1, Invariance, PTL

(* However many timers fire, one batch is worked on at a time.             *)
THEOREM BatchCorrect == Spec => []OneBatch
<1>1. IndInv => OneBatch
  BY DEF IndInv
<1>. QED  BY <1>1, Invariance, PTL

(* Without a summarization no turn that was handed over is lost.           *)
THEOREM KeptCorrect == Spec => []KeptUnlessSummarized
<1>1. IndInv => KeptUnlessSummarized
  BY DEF IndInv
<1>. QED  BY <1>1, Invariance, PTL

(* A correction reaches the batch that the context of its thread goes with.*)
THEOREM SignalCorrect == Spec => CorrectionKept
<1>1. IndInv /\ [Next]_vars => [SignalCarried]_vars
  BY SignalStep DEF IndInv
<1>. QED  BY <1>1, Invariance, PTL DEF Spec, CorrectionKept

-----------------------------------------------------------------------------
(* MemoryStore.                                                            *)


LEMMA EmptyIsMemory == EmptyMemory \in Memory /\ Source(EmptyMemory) = 0
  BY DEF EmptyMemory, Memory, Source

(* The empty memory of a failed read tells which content it stands for.    *)
LEMMA UnreadFacts ==
  ASSUME NEW v \in Nat
  PROVE  Unread(v) \in Memory /\ Source(Unread(v)) = v
  BY DEF Unread, Memory, Source

LEMMA SourceIsNat ==
  ASSUME NEW m \in Memory
  PROVE  /\ Source(m) \in Nat
         /\ m.version \in Nat => Source(m) = m.version
  BY DEF Memory, Source

LEMMA StoreInitInv == StoreInit => StoreInv
<1>. SUFFICES ASSUME StoreInit PROVE StoreInv
  OBVIOUS
<1>1. StoreTypeOK
  BY EmptyIsMemory DEF StoreInit, StoreTypeOK, Op, EmptyMemory
<1>2. /\ \A a \in Actor : pc[a] = "idle" /\ memory[a] = EmptyMemory
                          /\ mtime[a] = 0 /\ since[a] = 0
      /\ file = EmptyMemory /\ cache = NoEntry
      /\ file.version = 0 /\ cache.mtime = -1
  BY DEF StoreInit, EmptyMemory, NoEntry
<1>. QED
  BY <1>1, <1>2, EmptyIsMemory DEF StoreInv, CacheTrueUnlessRaced, FreshUnlessRaced,
       CacheWasSaved, Past, NotAhead, Began, Unchanged

-----------------------------------------------------------------------------
(* Whatever an operation makes of facts, it makes facts.                   *)
LEMMA OutcomeFacts ==
  ASSUME NEW facts \in SUBSET Fact
  PROVE  Outcome(facts) \subseteq SUBSET Fact
<1>1. ApplyUpdates(facts) \subseteq SUBSET Fact
  BY DEF ApplyUpdates
<1>. QED
  BY <1>1 DEF Outcome

LEMMA StoreTypeInv == StoreTypeOK /\ [StoreNext]_storeVars => StoreTypeOK'
<1>. SUFFICES ASSUME StoreTypeOK, [StoreNext]_storeVars PROVE StoreTypeOK'
  OBVIOUS
<1>0. EmptyMemory \in Memory /\ "get" \in Op
  BY EmptyIsMemory DEF Op
<1>1. ASSUME NEW a \in Actor, Begin(a) PROVE StoreTypeOK'
  <2>1. PICK o \in Op, facts \in SUBSET Fact :
         /\ op' = [op EXCEPT ![a] = o]
         /\ memory' = [memory EXCEPT ![a] = [facts |-> facts, version |-> 0]]
         /\ GoTo(a, CASE o \in Saving -> "replace"
                      [] o = "reload" -> "read"
                      [] OTHER        -> "stat")
    BY <1>1 DEF Begin
  <2>2. [facts |-> facts, version |-> 0] \in Memory
    BY DEF Memory
  <2>3. memory' \in [Actor -> Memory] /\ op' \in [Actor -> Op]
    BY <2>1, <2>2 DEF StoreTypeOK
  <2>4. since' \in [Actor -> Nat]
    BY <1>1 DEF Begin, StoreTypeOK, Memory
  <2>. QED
    BY <1>1, <2>1, <2>3, <2>4 DEF Begin, StoreTypeOK, GoTo
<1>2. ASSUME NEW a \in Actor, Stat(a) PROVE StoreTypeOK'
  <2>1. mtime' \in [Actor -> Nat]
    BY <1>2 DEF Stat, StoreTypeOK, TimeOfFile
  <2>. QED
    BY <1>2, <2>1 DEF Stat, StoreTypeOK, GoTo
<1>3. ASSUME NEW a \in Actor, Lookup(a) PROVE StoreTypeOK'
  <2>1. memory' \in [Actor -> Memory]
    BY <1>3 DEF Lookup, StoreTypeOK, Entry, NoEntry
  <2>. QED
    BY <1>3, <2>1 DEF Lookup, StoreTypeOK, GoTo
<1>4. ASSUME NEW a \in Actor, Read(a) PROVE StoreTypeOK'
  <2>1. memory' \in [Actor -> Memory]
    BY <1>4, UnreadFacts DEF Read, StoreTypeOK
  <2>. QED
    BY <1>4, <2>1 DEF Read, StoreTypeOK, GoTo
<1>5. ASSUME NEW a \in Actor, Fill(a) PROVE StoreTypeOK'
  <2>1. cache' \in Entry
    BY <1>5 DEF Fill, StoreTypeOK, Entry
  <2>. QED
    BY <1>5, <2>1 DEF Fill, StoreTypeOK, GoTo
<1>6. ASSUME NEW a \in Actor, Replace(a) PROVE StoreTypeOK'
  <2>1. file' \in Memory /\ file'.version \in Nat
    BY <1>6 DEF Replace, StoreTypeOK, Memory
  <2>2. /\ memory' \in [Actor -> Memory] /\ mtime' \in [Actor -> Nat]
        /\ since' \in [Actor -> Nat]
    BY <1>6, <2>1 DEF Replace, StoreTypeOK
  <2>3. raced' \in BOOLEAN
    BY <1>6 DEF Replace, StoreTypeOK, Caught
  <2>. QED
    BY <1>6, <2>1, <2>2, <2>3 DEF Replace, StoreTypeOK, GoTo
<1>7. ASSUME NEW a \in Actor, Return(a), UNCHANGED <<file, cache, raced>>
      PROVE  StoreTypeOK'
  BY <1>0, <1>7 DEF Return, StoreTypeOK, GoTo
<1>8. ASSUME NEW a \in Actor, SaveFails(a) \/ GiveUp(a) \/ ReadRaises(a)
      PROVE  StoreTypeOK'
  BY <1>7, <1>8 DEF SaveFails, GiveUp, ReadRaises
<1>9. ASSUME NEW a \in Actor, Restat(a) PROVE StoreTypeOK'
  <2>1. mtime' \in [Actor -> Nat]
    BY <1>9 DEF Restat, StoreTypeOK, TimeOfFile
  <2>. QED
    BY <1>9, <2>1 DEF Restat, StoreTypeOK, GoTo
<1>10. ASSUME NEW a \in Actor, Store(a) PROVE StoreTypeOK'
  <2>1. cache' \in Entry
    BY <1>10 DEF Store, StoreTypeOK, Entry
  <2>2. CASE op[a] = "import"
    BY <1>0, <1>10, <2>1, <2>2 DEF Store, StoreTypeOK, GoTo
  <2>3. CASE op[a] # "import"
    BY <1>0, <1>10, <2>1, <2>3 DEF Store, Return, StoreTypeOK, GoTo
  <2>. QED
    BY <2>2, <2>3
<1>11. ASSUME NEW a \in Actor, Change(a) PROVE StoreTypeOK'
  <2>1. PICK facts \in Outcome(memory[a].facts) :
          memory' = [memory EXCEPT ![a].facts = facts]
    BY <1>11 DEF Change
  <2>2. facts \in SUBSET Fact
    BY <2>1, OutcomeFacts DEF StoreTypeOK, Memory
  <2>3. memory' \in [Actor -> Memory]
    BY <2>1, <2>2 DEF StoreTypeOK, Memory
  <2>. QED
    BY <1>11, <2>3 DEF Change, StoreTypeOK, GoTo
<1>12. CASE Elsewhere
  <2>1. file' \in Memory /\ file'.version \in Nat /\ raced' \in BOOLEAN
    BY <1>12 DEF Elsewhere, StoreTypeOK, Memory
  <2>. QED
    BY <1>12, <2>1 DEF Elsewhere, StoreTypeOK, actorVars
<1>13. CASE Restart
  BY <1>0, <1>13 DEF Restart, StoreTypeOK
<1>14. CASE UNCHANGED storeVars
  BY <1>14 DEF storeVars, actorVars, StoreTypeOK
<1>. QED
  BY <1>1, <1>2, <1>3, <1>4, <1>5, <1>6, <1>8, <1>9, <1>10, <1>11, <1>12, <1>13,
     <1>14 DEF StoreNext, Load, Save

-----------------------------------------------------------------------------
(* The parts of the invariant that the others follow from.                 *)
Core == CacheWasSaved /\ Past /\ NotAhead /\ Began /\ FreshUnlessRaced

(* The numbers the parts compare are numbers, and a memory is its facts    *)
(* and its version.                                                        *)
LEMMA Numbers ==
  ASSUME StoreTypeOK
  PROVE  /\ file.version \in Nat /\ Source(file) = file.version
         /\ Source(Unread(file.version)) = file.version
         /\ cache # NoEntry => cache.mtime \in Nat /\ Source(cache.memory) \in Nat
         /\ cache = NoEntry => cache.mtime = -1
         /\ \A a \in Actor : /\ Source(memory[a]) \in Nat
                             /\ mtime[a] \in Nat /\ since[a] \in Nat
  BY SourceIsNat, UnreadFacts DEF StoreTypeOK, Entry, NoEntry

(* A step of one actor that leaves file and cache alone disturbs only what *)
(* the invariant says of that actor.                                       *)
Mine(a) ==
  /\ Source(memory[a]) <= file.version /\ mtime[a] <= file.version
  /\ since[a] <= file.version
  /\ Unchanged(a) /\ Source(memory[a]) = file.version => memory[a] \in OfTheFile
  /\ ~raced => /\ pc[a] \in {"fill", "store"} => mtime[a] <= Source(memory[a])
               /\ pc[a] = "restat" => Source(memory[a]) = file.version
               /\ pc[a] = "loaded" /\ Timed(a) => Source(memory[a]) >= since[a]
               /\ pc[a] = "replace" /\ op[a] = "change" /\ Timed(a)
                    => since[a] <= Source(memory[a])
  /\ pc[a] \in {"stat", "lookup", "fill"} => op[a] # "reload"
  /\ pc[a] \in {"lookup", "read", "fill"} /\ op[a] # "reload" /\ Timed(a)
       => since[a] <= mtime[a]

Others(a) == \A b \in Actor \ {a} :
  /\ pc'[b] = pc[b] /\ op'[b] = op[b] /\ memory'[b] = memory[b]
  /\ mtime'[b] = mtime[b] /\ since'[b] = since[b]

LEMMA Local ==
  ASSUME Core, NEW a \in Actor, Others(a), UNCHANGED <<file, cache, raced>>, Mine(a)'
  PROVE  Core'
<1>1. CacheWasSaved'
  BY DEF Core, CacheWasSaved, OfTheFile
<1>2. /\ \A b \in Actor \ {a} : /\ Unchanged(b)' = Unchanged(b)
                                /\ Timed(b)' = Timed(b)
      /\ OfTheFile' = OfTheFile
  BY DEF Others, Unchanged, Timed, OfTheFile
<1>3. Past'
  BY <1>2 DEF Core, Past, Others, Mine
<1>4. NotAhead'
  BY DEF Core, NotAhead, Others, Mine
<1>5. Began'
  BY <1>2 DEF Core, Began, Others, Mine
<1>6. FreshUnlessRaced'
  BY <1>2 DEF Core, FreshUnlessRaced, Others, Mine
<1>. QED
  BY <1>1, <1>3, <1>4, <1>5, <1>6 DEF Core

LEMMA IsMine == ASSUME Core, NEW a \in Actor PROVE Mine(a)
  BY DEF Core, Past, NotAhead, Began, FreshUnlessRaced, Mine

(* Filling the cache with what is true of the actor that fills it.         *)
LEMMA FillInv ==
  ASSUME Core, StoreTypeOK, NEW a \in Actor, pc[a] \in {"fill", "store"},
         cache' = [memory |-> memory[a], mtime |-> mtime[a]],
         UNCHANGED <<file, raced>>, Others(a), Mine(a)'
  PROVE  Core'
<1>1. /\ cache'.memory = memory[a] /\ cache'.mtime = mtime[a]
      /\ Mine(a) /\ Unchanged(a)
  BY IsMine DEF Unchanged
<1>3. /\ \A b \in Actor \ {a} : /\ Unchanged(b)' = Unchanged(b)
                                /\ Timed(b)' = Timed(b)
      /\ OfTheFile' = OfTheFile
  BY DEF Others, Unchanged, Timed, OfTheFile
<1>2. CacheWasSaved'
  BY <1>1, <1>3 DEF CacheWasSaved, Mine
<1>4. Past'
  BY <1>1, <1>3 DEF Core, Past, Others, Mine
<1>5. NotAhead'
  BY <1>1 DEF Core, NotAhead, Others, Mine
<1>6. Began'
  BY <1>3 DEF Core, Began, Others, Mine
<1>7. FreshUnlessRaced'
  BY <1>3 DEF Core, FreshUnlessRaced, Others, Mine
<1>. QED
  BY <1>2, <1>4, <1>5, <1>6, <1>7 DEF Core

(* Whoever returns holds nothing.                                          *)
LEMMA ReturnFacts ==
  ASSUME StoreTypeOK, NEW a \in Actor, Return(a), UNCHANGED <<file, raced>>
  PROVE  Others(a) /\ Mine(a)'
<1>1. /\ pc'[a] = "idle" /\ memory'[a] = EmptyMemory /\ mtime'[a] = 0
      /\ since'[a] = 0
  BY DEF Return, GoTo, StoreTypeOK
<1>2. Mine(a)'
  BY <1>1, Numbers, EmptyIsMemory DEF Mine, Unchanged
<1>3. Others(a)
  BY DEF Return, GoTo, StoreTypeOK, Others
<1>. QED
  BY <1>2, <1>3

(* A new content of the file: a memory of the old version is of an older   *)
(* one now, and only those at "restat" may have been overtaken.            *)
LEMMA NewFile ==
  ASSUME StoreTypeOK, Core, file'.version = file.version + 1, UNCHANGED cache,
         raced => raced', NEW B \in SUBSET Actor,
         \A b \in B : /\ pc'[b] = pc[b] /\ op'[b] = op[b] /\ memory'[b] = memory[b]
                      /\ mtime'[b] = mtime[b] /\ since'[b] = since[b],
         \A b \in B : pc[b] = "restat" => raced',
         \A a \in Actor \ B : Mine(a)'
  PROVE  Core'
<1>1. CacheWasSaved'
  BY Numbers DEF Core, CacheWasSaved, Past
<1>2. \A b \in B : Mine(b)'
  <2>. TAKE b \in B
  <2>1. Mine(b)
    BY IsMine
  <2>2. Source(memory'[b]) # file'.version
    BY <2>1, Numbers DEF Mine
  <2>3. Timed(b)' = Timed(b)
    BY DEF Timed
  <2>. QED
    BY <2>1, <2>2, <2>3, Numbers DEF Mine
<1>3. \A a \in Actor : Mine(a)'
  BY <1>2
<1>4. Past'
  BY <1>3, Numbers DEF Core, Past, Mine
<1>5. NotAhead'
  BY <1>3 DEF Core, NotAhead, Mine
<1>6. Began' /\ FreshUnlessRaced'
  BY <1>3 DEF Began, FreshUnlessRaced, Mine
<1>. QED
  BY <1>1, <1>4, <1>5, <1>6 DEF Core

-----------------------------------------------------------------------------
LEMMA CoreInv == StoreTypeOK /\ Core /\ [StoreNext]_storeVars => Core'
<1>. SUFFICES ASSUME StoreTypeOK, Core, [StoreNext]_storeVars PROVE Core'
  OBVIOUS
<1>1. ASSUME NEW a \in Actor, Begin(a) PROVE Core'
  <2>1. /\ memory'[a].version = 0 /\ since'[a] = file.version
        /\ mtime'[a] = mtime[a] /\ pc'[a] \in {"replace", "read", "stat"}
        /\ pc'[a] = "replace" => op'[a] # "change"
        /\ pc'[a] = "read" => op'[a] = "reload"
        /\ pc'[a] = "stat" => op'[a] # "reload"
    BY <1>1 DEF Begin, GoTo, StoreTypeOK, Saving
  <2>3. Source(memory'[a]) = 0
    BY <2>1 DEF Source
  <2>2. Mine(a)'
    BY <1>1, <2>1, <2>3, Numbers, IsMine DEF Mine, Unchanged, Begin
  <2>. QED
    BY <1>1, <2>2, Local DEF Begin, GoTo, StoreTypeOK, Others
<1>2. ASSUME NEW a \in Actor, Stat(a) PROVE Core'
  <2>1. Mine(a)'
    BY <1>2, Numbers, IsMine 
       DEF Mine, Unchanged, Stat, GoTo, StoreTypeOK, TimeOfFile, Timed
  <2>. QED
    BY <1>2, <2>1, Local DEF Stat, GoTo, StoreTypeOK, Others
<1>3. ASSUME NEW a \in Actor, Lookup(a) PROVE Core'
  <2>1. Others(a)
    BY <1>3 DEF Lookup, GoTo, StoreTypeOK, Others
  <2>2. CASE cache.mtime = mtime[a]
    <3>1. cache # NoEntry
      BY <2>2, Numbers
    <3>2. memory'[a] = cache.memory /\ pc'[a] = "loaded"
      BY <1>3, <2>2 DEF Lookup, GoTo, StoreTypeOK
    <3>3. /\ Timed(a) => mtime[a] >= since[a]
          /\ ~raced => cache.mtime <= Source(cache.memory)
      BY <1>3, <3>1, Numbers DEF Lookup, Core, Began, NotAhead
    <3>4. Timed(a)' = Timed(a) /\ OfTheFile' = OfTheFile
      BY <1>3 DEF Lookup, Timed, OfTheFile
    <3>5. Mine(a)'
      BY <1>3, <2>2, <3>1, <3>2, <3>3, <3>4, Numbers, IsMine
         DEF Mine, Lookup, Core, Past, CacheWasSaved, Unchanged
    <3>. QED
      BY <1>3, <2>1, <3>5, Local DEF Lookup
  <2>3. CASE cache.mtime # mtime[a]
    <3>1. Mine(a)'
      BY <1>3, <2>3, Numbers, IsMine
         DEF Mine, Lookup, Unchanged, GoTo, StoreTypeOK, Timed
    <3>. QED
      BY <1>3, <2>1, <3>1, Local DEF Lookup
  <2>. QED
    BY <2>2, <2>3
<1>4. ASSUME NEW a \in Actor, Read(a) PROVE Core'
  <2>1. memory'[a] \in OfTheFile' /\ Source(memory'[a]) = file.version
    BY <1>4, Numbers DEF Read, StoreTypeOK, OfTheFile
  <2>2. Mine(a)'
    BY <1>4, <2>1, Numbers, IsMine
       DEF Mine, Unchanged, Read, GoTo, StoreTypeOK, Timed
  <2>. QED
    BY <1>4, <2>2, Local DEF Read, GoTo, StoreTypeOK, Others
<1>5. ASSUME NEW a \in Actor, Fill(a) PROVE Core'
  <2>1. Mine(a)'
    BY <1>5, Numbers, IsMine
       DEF Mine, Unchanged, Fill, GoTo, StoreTypeOK, Timed, OfTheFile
  <2>. QED
    BY <1>5, <2>1, FillInv DEF Fill, GoTo, StoreTypeOK, Others
<1>6. ASSUME NEW a \in Actor, Replace(a) PROVE Core'
  <2>1. /\ file'.version = file.version + 1 /\ memory'[a] = file'
        /\ pc'[a] = "restat" /\ mtime'[a] = 0 /\ since'[a] = file'.version
    BY <1>6 DEF Replace, GoTo, StoreTypeOK
  <2>6. Source(memory'[a]) = file'.version /\ memory'[a] \in OfTheFile'
    BY <2>1, Numbers DEF Source, OfTheFile
  <2>2. Mine(a)'
    BY <2>1, <2>6, Numbers DEF Mine, Unchanged
  <2>3. Others(a)
    BY <1>6 DEF Replace, GoTo, StoreTypeOK, Others
  <2>4. \A b \in Actor \ {a} : pc[b] = "restat" => raced'
    BY <1>6 DEF Replace, Caught
  <2>5. (raced => raced') /\ UNCHANGED cache
    BY <1>6 DEF Replace
  <2>. QED
    BY <2>1, <2>2, <2>3, <2>4, <2>5, NewFile DEF Others
<1>7. ASSUME NEW a \in Actor, SaveFails(a) \/ GiveUp(a) \/ ReadRaises(a)
      PROVE  Core'
  BY <1>7, ReturnFacts, Local DEF SaveFails, GiveUp, ReadRaises
<1>8. ASSUME NEW a \in Actor, Restat(a) PROVE Core'
  <2>1. Mine(a)'
    BY <1>8, Numbers, IsMine
       DEF Mine, Unchanged, Restat, GoTo, StoreTypeOK, TimeOfFile, OfTheFile
  <2>. QED
    BY <1>8, <2>1, Local DEF Restat, GoTo, StoreTypeOK, Others
<1>9. ASSUME NEW a \in Actor, Store(a) PROVE Core'
  <2>1. Others(a) /\ Mine(a)'
    <3>1. CASE op[a] = "import"
      BY <1>9, <3>1, Numbers, IsMine, EmptyIsMemory
         DEF Store, Mine, Unchanged, GoTo, StoreTypeOK, Others
    <3>2. CASE op[a] # "import"
      BY <1>9, <3>2, ReturnFacts DEF Store
    <3>. QED
      BY <3>1, <3>2
  <2>. QED
    BY <1>9, <2>1, FillInv DEF Store
<1>10. ASSUME NEW a \in Actor, Change(a) PROVE Core'
  <2>1. memory'[a].version = memory[a].version /\ pc'[a] = "replace"
    BY <1>10 DEF Change, GoTo, StoreTypeOK, Memory
  <2>3. Source(memory'[a]) = Source(memory[a])
    BY <2>1 DEF Source
  <2>2. Mine(a)'
    BY <1>10, <2>1, <2>3, Numbers, IsMine DEF Change, Mine, Unchanged, Timed
  <2>. QED
    BY <1>10, <2>2, Local DEF Change, GoTo, StoreTypeOK, Others
<1>11. CASE Elsewhere
  <2>1. file'.version = file.version + 1 /\ UNCHANGED cache
    BY <1>11 DEF Elsewhere
  <2>4. raced' = (raced \/ \E b \in Actor : pc[b] = "restat")
    BY <1>11 DEF Elsewhere
  <2>3. ASSUME NEW b \in Actor, pc[b] = "restat" PROVE raced'
    BY <2>3, <2>4
  <2>2. UNCHANGED actorVars
    BY <1>11 DEF Elsewhere
  <2>. QED
    BY <2>1, <2>2, <2>3, <2>4, NewFile DEF actorVars
<1>12. CASE Restart
  BY <1>12, Numbers, EmptyIsMemory DEF Restart, Core, CacheWasSaved, Past, NotAhead,
       Began, FreshUnlessRaced, Unchanged
<1>13. CASE UNCHANGED storeVars
  BY <1>13 DEF storeVars, actorVars, Core, CacheWasSaved, Past, NotAhead, Began,
       FreshUnlessRaced, Unchanged, Timed, OfTheFile
<1>. QED
  BY <1>1, <1>2, <1>3, <1>4, <1>5, <1>6, <1>7, <1>8, <1>9, <1>10, <1>11, <1>12,
     <1>13 DEF StoreNext, Load, Save

(* The other part follows: nothing comes from the future, so what is not   *)
(* older than the file's version is of that version.                       *)
LEMMA Derived ==
  StoreTypeOK /\ CacheWasSaved /\ Past /\ NotAhead => CacheTrueUnlessRaced
  BY Numbers DEF CacheTrueUnlessRaced, CacheWasSaved, Past, NotAhead

LEMMA StoreStepInv == StoreInv /\ [StoreNext]_storeVars => StoreInv'
<1>1. StoreInv => StoreTypeOK /\ Core
  BY DEF StoreInv, Core
<1>2. StoreTypeOK' /\ Core' => CacheTrueUnlessRaced'
  BY Derived, PTL DEF Core
<1>. QED
  BY <1>1, <1>2, StoreTypeInv, CoreInv DEF StoreInv, Core

-----------------------------------------------------------------------------
(* The invariant holds in every reachable state.                           *)
THEOREM StoreInvariance == StoreSpec => []StoreInv
  BY StoreInitInv, StoreStepInv, PTL DEF StoreSpec

(* Every variable has its type.                                            *)
THEOREM StoreTypeCorrect == StoreSpec => []StoreTypeOK
<1>1. StoreInv => StoreTypeOK
  BY DEF StoreInv
<1>. QED  BY <1>1, StoreInvariance, PTL

(* The order of load (time, then content) is safe against any writer; the  *)
(* order of reload and save (content, then time) and a read that fails are *)
(* the only ways to an entry that load takes for the file's and that is    *)
(* not, and what a failed read leaves is empty and ends with the content.  *)
THEOREM StoreCacheCorrect == StoreSpec => []CacheTrueUnlessRaced
<1>1. StoreInv => CacheTrueUnlessRaced
  BY DEF StoreInv
<1>. QED  BY <1>1, StoreInvariance, PTL

(* A load that was told the file's time never returns what was superseded  *)
(* before the operation began, nor the empty memory of a read that failed  *)
(* before that.                                                            *)
THEOREM StoreFreshCorrect == StoreSpec => []FreshUnlessRaced
<1>1. StoreInv => FreshUnlessRaced
  BY DEF StoreInv
<1>. QED  BY <1>1, StoreInvariance, PTL

(* A change that nobody else's save came between is a change of what the   *)
(* file says, or of nothing after a failed read of that very content.      *)
THEOREM StoreBaseCorrect == StoreSpec => []BasedOnFile
<1>1. StoreInv => BasedOnFile
  BY Numbers DEF StoreInv, BasedOnFile, Past, Began
<1>. QED  BY <1>1, StoreInvariance, PTL

(* A failed save or an abandoned change leaves no trace in the cache.      *)
THEOREM StoreSavedCorrect == StoreSpec => []CacheWasSaved
<1>1. StoreInv => CacheWasSaved
  BY DEF StoreInv
<1>. QED  BY <1>1, StoreInvariance, PTL
=============================================================================
