---------------------------- MODULE SubagentTasks ---------------------------
(***************************************************************************)
(* Background subagents (subagents/executor.py) and the tool call that     *)
(* waits for each (tools/builtins/task_tool.py).                           *)
(*                                                                         *)
(* Three threads touch the SubagentResult of a task: the caller's event    *)
(* loop polls it and removes it from _background_tasks; a worker of the    *)
(* scheduler pool runs run_task; the isolated event loop runs _aexecute.   *)
(* They share _background_tasks_lock, but _aexecute writes COMPLETED and   *)
(* FAILED without it.  A step is what a thread does between two points     *)
(* where another thread can see or change what it relies on.               *)
(*                                                                         *)
(* Time is left out: a timeout may fire at any moment of its wait.         *)
(***************************************************************************)
EXTENDS FiniteSets, Integers

CONSTANTS Task,      \* the tasks, by tool_call_id
          Workers,   \* threads of _scheduler_pool
          MaxPolls   \* max_poll_count

ASSUME WorkersAssumption == Workers \in Nat \ {0}
ASSUME MaxPollsAssumption == MaxPolls \in Nat

VARIABLES status,    \* result.status; "none" before execute_async
          result,    \* result.result has been set
          stamped,   \* result.completed_at has been set
          cancel,    \* result.cancel_event.is_set()
          listed,    \* the task is in _background_tasks
          sched,     \* where run_task is
          coro,      \* where _aexecute is
          killed,    \* execution_future.cancel() has been called
          caller,    \* where task_tool is
          polls,     \* poll_count, then cleanup_poll_count
          seen,      \* the terminal status task_tool has found
          told       \* what task_tool has reported to its agent

resultVars == <<status, result, stamped>>
execVars == <<sched, coro, killed>>
callerVars == <<caller, polls, seen, told>>
taskVars == <<resultVars, cancel, listed, execVars, callerVars>>

-----------------------------------------------------------------------------
Terminal == {"completed", "failed", "cancelled", "timed_out"}

SubagentStatus == {"pending", "running"} \cup Terminal

\* run_task has a thread of the pool.
Busy == {"submitting", "waiting", "expiring", "signalling"}

\* "crashed": a KeyError has left run_task.
SchedPlace == {"off", "queued", "done", "crashed"} \cup Busy

\* "storing" and "failing" are about to write a status.
CoroPlace == {"off", "starting", "streaming", "storing", "failing",
              "returned", "unwound"}

\* "janitor": cleanup_when_done, after task_tool was cancelled.
CallerPlace == {"off", "polling", "reporting", "sleeping", "returned",
                "janitor", "waiting", "finished"}

Report == {"none", "disappeared", "result", "no result", "error", "cancelled",
           "timed_out", "poll_timeout"}

TasksTypeOK == /\ status \in [Task -> SubagentStatus \cup {"none"}]
          /\ result \in [Task -> BOOLEAN]
          /\ stamped \in [Task -> BOOLEAN]
          /\ cancel \in [Task -> BOOLEAN]
          /\ listed \in [Task -> BOOLEAN]
          /\ sched \in [Task -> SchedPlace]
          /\ coro \in [Task -> CoroPlace]
          /\ killed \in [Task -> BOOLEAN]
          /\ caller \in [Task -> CallerPlace]
          /\ polls \in [Task -> 0 .. MaxPolls + 1]
          /\ seen \in [Task -> Terminal \cup {"none"}]
          /\ told \in [Task -> Report]

TasksInit == /\ status = [t \in Task |-> "none"]
        /\ result = [t \in Task |-> FALSE]
        /\ stamped = [t \in Task |-> FALSE]
        /\ cancel = [t \in Task |-> FALSE]
        /\ listed = [t \in Task |-> FALSE]
        /\ sched = [t \in Task |-> "off"]
        /\ coro = [t \in Task |-> "off"]
        /\ killed = [t \in Task |-> FALSE]
        /\ caller = [t \in Task |-> "off"]
        /\ polls = [t \in Task |-> 0]
        /\ seen = [t \in Task |-> "none"]
        /\ told = [t \in Task |-> "none"]

SchedTo(t, place) == sched' = [sched EXCEPT ![t] = place]
CoroTo(t, place) == coro' = [coro EXCEPT ![t] = place]
CallerTo(t, place) == caller' = [caller EXCEPT ![t] = place]

(* _background_tasks_lock is held across a step only by the timeout        *)
(* handler of run_task, between its test of the status and its write.      *)
LockFree == \A t \in Task : sched[t] # "expiring"

-----------------------------------------------------------------------------
(* task_tool, on the caller's event loop.                                  *)

ExecuteAsync(t) == /\ caller[t] = "off"
                   /\ LockFree
                   /\ status' = [status EXCEPT ![t] = "pending"]
                   /\ listed' = [listed EXCEPT ![t] = TRUE]
                   /\ SchedTo(t, "queued")
                   /\ CallerTo(t, "polling")
                   /\ UNCHANGED <<result, stamped, cancel, coro, killed,
                                  polls, seen, told>>

(* The poll finds no task, one that has ended, or one that has not.  The   *)
(* fields are read without the lock.                                       *)
Poll(t) == /\ caller[t] = "polling"
           /\ \/ /\ ~listed[t]
                 /\ told' = [told EXCEPT ![t] = "disappeared"]
                 /\ CallerTo(t, "returned")
                 /\ UNCHANGED seen
              \/ /\ listed[t]
                 /\ status[t] \in Terminal
                 /\ seen' = [seen EXCEPT ![t] = status[t]]
                 /\ CallerTo(t, "reporting")
                 /\ UNCHANGED told
              \/ /\ listed[t]
                 /\ status[t] \notin Terminal
                 /\ CallerTo(t, "sleeping")
                 /\ UNCHANGED <<seen, told>>
           /\ UNCHANGED <<resultVars, cancel, listed, execVars, polls>>

(* What task_tool says of a task that it saw end.                          *)
Saying(t) == CASE seen[t] = "completed" -> IF result[t] THEN "result"
                                                        ELSE "no result"
               [] seen[t] = "failed"    -> "error"
               [] seen[t] = "cancelled" -> "cancelled"
               [] OTHER                 -> "timed_out"

Ended(t) == status[t] \in Terminal \/ stamped[t]

(* cleanup_background_task spares a task that has not ended.               *)
Cleanup(t) == listed' = [listed EXCEPT ![t] = @ /\ ~Ended(t)]

(* result.result is read after the status, then the entry is removed.      *)
ReportEnd(t) == /\ caller[t] = "reporting"
                /\ LockFree
                /\ told' = [told EXCEPT ![t] = Saying(t)]
                /\ Cleanup(t)
                /\ CallerTo(t, "returned")
                /\ UNCHANGED <<resultVars, cancel, execVars, polls, seen>>

\* Mistake: there is no limit to the polls.
WakeForever(t) == /\ caller[t] = "sleeping"
                  /\ CallerTo(t, "polling")
                  /\ UNCHANGED <<resultVars, cancel, listed, execVars, polls,
                                 seen, told>>

\* Mistake: giving up on a task removes it.
WakeDropping(t) == /\ caller[t] = "sleeping"
                   /\ polls' = [polls EXCEPT ![t] = @ + 1]
                   /\ IF polls'[t] > MaxPolls
                        THEN /\ told' = [told EXCEPT ![t] = "poll_timeout"]
                             /\ listed' = [listed EXCEPT ![t] = FALSE]
                             /\ CallerTo(t, "returned")
                        ELSE CallerTo(t, "polling") /\ UNCHANGED <<told,
                                                                   listed>>
                   /\ UNCHANGED <<resultVars, cancel, execVars, seen>>

(* After the sleep: another poll, or too many of them.                     *)
Wake(t) == /\ caller[t] = "sleeping"
           /\ polls' = [polls EXCEPT ![t] = @ + 1]
           /\ IF polls'[t] > MaxPolls
                THEN /\ told' = [told EXCEPT ![t] = "poll_timeout"]
                     /\ CallerTo(t, "returned")
                ELSE CallerTo(t, "polling") /\ UNCHANGED told
           /\ UNCHANGED <<resultVars, cancel, listed, execVars, seen>>

(* The parent run is cancelled while task_tool sleeps: the subagent is     *)
(* told to stop and a janitor takes over, with a count of its own.         *)
CancelCaller(t) == /\ caller[t] = "sleeping"
                   /\ LockFree
                   /\ cancel' = [cancel EXCEPT ![t] = @ \/ listed[t]]
                   /\ polls' = [polls EXCEPT ![t] = 0]
                   /\ CallerTo(t, "janitor")
                   /\ UNCHANGED <<resultVars, listed, execVars, seen, told>>

(* cleanup_when_done: remove the task when it has ended, or give up.       *)
Janitor(t) == /\ caller[t] = "janitor"
              /\ LockFree
              /\ \/ /\ ~listed[t] \/ Ended(t)
                    /\ Cleanup(t)
                    /\ CallerTo(t, "finished")
                 \/ /\ listed[t] /\ ~Ended(t)
                    /\ CallerTo(t, IF polls[t] > MaxPolls THEN "finished"
                                                          ELSE "waiting")
                    /\ UNCHANGED listed
              /\ UNCHANGED <<resultVars, cancel, execVars, polls, seen, told>>

JanitorWake(t) == /\ caller[t] = "waiting"
                  /\ polls' = [polls EXCEPT ![t] = @ + 1]
                  /\ CallerTo(t, "janitor")
                  /\ UNCHANGED <<resultVars, cancel, listed, execVars, seen,
                                 told>>

-----------------------------------------------------------------------------
(* run_task, on a thread of the scheduler pool.                            *)

BeginTask(t) == /\ sched[t] = "queued"
                /\ Cardinality({q \in Task : sched[q] \in Busy}) < Workers
                /\ LockFree
                /\ status' = [status EXCEPT ![t] = "running"]
                /\ SchedTo(t, "submitting")
                /\ UNCHANGED <<result, stamped, cancel, listed, coro,
                               killed, callerVars>>

(* The coroutine goes to the isolated loop, or the loop cannot be started. *)
Submit(t) == /\ sched[t] = "submitting"
             /\ \/ /\ CoroTo(t, "starting")
                   /\ SchedTo(t, "waiting")
                   /\ UNCHANGED resultVars
                \/ /\ LockFree
                   /\ status' = [status EXCEPT ![t] = "failed"]
                   /\ stamped' = [stamped EXCEPT ![t] = TRUE]
                   /\ SchedTo(t, "done")
                   /\ UNCHANGED <<result, coro>>
             /\ UNCHANGED <<cancel, listed, killed, callerVars>>

(* The result is the listed object itself, so copying it changes nothing   *)
(* but completed_at; when the task is no longer listed the handler of the  *)
(* KeyError raises another.                                                *)
Collect(t) == /\ sched[t] = "waiting"
              /\ coro[t] = "returned"
              /\ LockFree
              /\ IF listed[t]
                   THEN /\ stamped' = [stamped EXCEPT ![t] = TRUE]
                        /\ SchedTo(t, "done")
                   ELSE SchedTo(t, "crashed") /\ UNCHANGED stamped
              /\ UNCHANGED <<status, result, cancel, listed, coro,
                             killed, callerVars>>

\* Mistake: the timeout does not ask whether the task has ended.
ExpireAnyway(t) == /\ sched[t] = "waiting"
                   /\ LockFree
                   /\ SchedTo(t, IF listed[t] THEN "expiring" ELSE "crashed")
                   /\ UNCHANGED <<resultVars, cancel, listed, coro, killed,
                                  callerVars>>

(* The wait times out; the lock is taken and the status tested.            *)
Expire(t) == /\ sched[t] = "waiting"
             /\ LockFree
             /\ SchedTo(t, IF ~listed[t] THEN "crashed"
                           ELSE IF status[t] = "running" THEN "expiring"
                           ELSE "signalling")
             /\ UNCHANGED <<resultVars, cancel, listed, coro, killed,
                            callerVars>>

TimeOut(t) == /\ sched[t] = "expiring"
              /\ status' = [status EXCEPT ![t] = "timed_out"]
              /\ stamped' = [stamped EXCEPT ![t] = TRUE]
              /\ SchedTo(t, "signalling")
              /\ UNCHANGED <<result, cancel, listed, coro, killed, callerVars>>

\* Mistake: the timeout relies on the cancel event alone.
SignalOnly(t) == /\ sched[t] = "signalling"
                 /\ cancel' = [cancel EXCEPT ![t] = TRUE]
                 /\ SchedTo(t, "done")
                 /\ UNCHANGED <<resultVars, listed, coro, killed, callerVars>>

Signal(t) == /\ sched[t] = "signalling"
             /\ cancel' = [cancel EXCEPT ![t] = TRUE]
             /\ killed' = [killed EXCEPT ![t] = TRUE]
             /\ SchedTo(t, "done")
             /\ UNCHANGED <<resultVars, listed, coro, callerVars>>

-----------------------------------------------------------------------------
(* _aexecute, on the isolated event loop.                                  *)

(* A cooperative stop, before the first chunk or at one.                   *)
Stop(t) == /\ coro[t] \in {"starting", "streaming"}
           /\ cancel[t]
           /\ LockFree
           /\ IF status[t] = "running"
                THEN /\ status' = [status EXCEPT ![t] = "cancelled"]
                     /\ stamped' = [stamped EXCEPT ![t] = TRUE]
                ELSE UNCHANGED <<status, stamped>>
           /\ CoroTo(t, "returned")
           /\ UNCHANGED <<result, cancel, listed, sched, killed, callerVars>>

Begin(t) == /\ coro[t] = "starting"
            /\ ~cancel[t]
            /\ CoroTo(t, "streaming")
            /\ UNCHANGED <<resultVars, cancel, listed, sched, killed,
                           callerVars>>

(* The agent is done; its last message becomes the result.                 *)
Finish(t) == /\ coro[t] = "streaming"
             /\ result' = [result EXCEPT ![t] = TRUE]
             /\ CoroTo(t, "storing")
             /\ UNCHANGED <<status, stamped, cancel, listed, sched,
                            killed, callerVars>>

(* The status it overwrites is not looked at, and the lock not taken.      *)
Store(t) == /\ coro[t] = "storing"
            /\ status' = [status EXCEPT ![t] = "completed"]
            /\ stamped' = [stamped EXCEPT ![t] = TRUE]
            /\ CoroTo(t, "returned")
            /\ UNCHANGED <<result, cancel, listed, sched, killed, callerVars>>

(* The agent raises.                                                       *)
Raise(t) == /\ coro[t] \in {"starting", "streaming"}
            /\ CoroTo(t, "failing")
            /\ UNCHANGED <<resultVars, cancel, listed, sched, killed,
                           callerVars>>

Fail(t) == /\ coro[t] = "failing"
           /\ status' = [status EXCEPT ![t] = "failed"]
           /\ stamped' = [stamped EXCEPT ![t] = TRUE]
           /\ CoroTo(t, "returned")
           /\ UNCHANGED <<result, cancel, listed, sched, killed, callerVars>>

(* The cancelled future interrupts an await; CancelledError is not caught. *)
Unwind(t) == /\ coro[t] \in {"starting", "streaming"}
             /\ killed[t]
             /\ CoroTo(t, "unwound")
             /\ UNCHANGED <<resultVars, cancel, listed, sched, killed,
                            callerVars>>

-----------------------------------------------------------------------------
Tool(t) == Poll(t) \/ ReportEnd(t) \/ Wake(t) \/ Janitor(t) \/ JanitorWake(t)

RunTask(t) == BeginTask(t) \/ Submit(t) \/ Collect(t) \/ Expire(t)
              \/ TimeOut(t) \/ Signal(t)

(* What _aexecute does without waiting for the agent.                      *)
Execute(t) == Store(t) \/ Fail(t) \/ Unwind(t)

Agent(t) == Stop(t) \/ Begin(t) \/ Finish(t) \/ Raise(t)

TasksNext == \E t \in Task : \/ ExecuteAsync(t) \/ CancelCaller(t)
                        \/ Tool(t) \/ RunTask(t) \/ Execute(t) \/ Agent(t)

TasksSpec == TasksInit /\ [][TasksNext]_taskVars

(* Event loops and pool threads run what is ready, and timers fire.  The   *)
(* agent gets no fairness: it may call a tool that never returns.          *)
LoopsRun == \A t \in Task : /\ WF_taskVars(Tool(t))
                            /\ WF_taskVars(RunTask(t))
                            /\ WF_taskVars(Execute(t))

(* The caller's event loop alone, and whoever holds the lock.  The pool    *)
(* may have no thread left for a task, now or ever.                        *)
CallerRuns == \A t \in Task : WF_taskVars(Tool(t)) /\ WF_taskVars(TimeOut(t))

-----------------------------------------------------------------------------
(* An entry leaves _background_tasks only once its task has ended: neither *)
(* the poller that gives up nor the janitor removes a task that may still  *)
(* be running.                                                             *)
RemovedHasEnded == \A t \in Task :
                     sched[t] # "off" /\ ~listed[t] => status[t] \in Terminal

(* Only the tool call, or its janitor after it, removes the entry, so a    *)
(* tool call never finds its own task gone.                                *)
NeverDisappears == \A t \in Task : told[t] # "disappeared"

(* COMPLETED is not seen, nor reported, before the result it announces,    *)
(* whichever thread looks and whenever.                                    *)
CompletedHasResult == \A t \in Task : /\ status[t] = "completed" => result[t]
                                      /\ told[t] # "no result"

(* CANCELLED stands: neither the timeout nor the end of the agent          *)
(* overwrites it (test_timeout_does_not_overwrite_cancelled).              *)
CancelledStays == \A t \in Task : status[t] = "cancelled" =>
                                    status'[t] = "cancelled"

CancelledIsFinal == [][CancelledStays]_taskVars

(* A tool call comes back, or was cancelled, even if its task never starts *)
(* and nothing times it out: the poll limit is the net under the pool's    *)
(* timeout (task_tool.py:260-262).                                         *)
CallerReturns ==
  CallerRuns => \A t \in Task :
    caller[t] = "polling" ~> caller[t] \in {"returned", "janitor", "finished"}

(* The coroutine is over, or was never submitted.                          *)
Stopped(t) == \/ coro[t] \in {"returned", "unwound"}
              \/ coro[t] = "off" /\ sched[t] = "done"

(* The work of a cancelled tool call stops, even when its agent is stuck   *)
(* and never reaches a chunk boundary.                                     *)
CancelledWorkStops ==
  LoopsRun => \A t \in Task : caller[t] = "janitor" ~> Stopped(t)

-----------------------------------------------------------------------------
(* The inductive invariant.                                                *)

(* What the place of the threads says of the status.                       *)
StatusFits == \A t \in Task :
  /\ status[t] = "none" <=> sched[t] = "off"
  /\ sched[t] = "off" <=> caller[t] = "off"
  /\ sched[t] \in {"off", "queued", "submitting"} => coro[t] = "off"
  /\ sched[t] = "queued" => status[t] = "pending"
  /\ sched[t] = "submitting" => status[t] = "running"
  /\ sched[t] \notin {"off", "queued", "submitting"} => status[t] # "pending"
  /\ coro[t] \in {"starting", "streaming", "storing", "failing"} =>
       status[t] \in {"running", "timed_out"}
  /\ coro[t] = "returned" => status[t] \in Terminal
  /\ stamped[t] => status[t] \in Terminal

(* Who is still to come needs the entry, and an entry gone had ended.      *)
ListedWhileNeeded == \A t \in Task :
  /\ caller[t] \in {"polling", "reporting", "sleeping", "janitor", "waiting"} =>
       listed[t]
  /\ caller[t] = "off" => ~listed[t]
  /\ caller[t] = "reporting" => status[t] \in Terminal

(* Both loops stop polling when they are past the limit.                   *)
PollsLeft == \A t \in Task :
  caller[t] \in {"off", "polling", "reporting", "sleeping", "waiting"} =>
    polls[t] <= MaxPolls

(* COMPLETED comes after the result, for the poller as well.               *)
ResultFirst == \A t \in Task : coro[t] = "storing" \/ seen[t] = "completed" =>
                                 result[t]

(* A cancelled coroutine has returned, and no timeout is about to write.   *)
CancelledAlone == \A t \in Task : status[t] = "cancelled" =>
                                    coro[t] = "returned" /\ sched[t] # "expiring"

TasksInv == TasksTypeOK /\ StatusFits /\ ListedWhileNeeded /\ PollsLeft
          /\ ResultFirst /\ CancelledAlone /\ RemovedHasEnded
          /\ NeverDisappears /\ CompletedHasResult

=============================================================================
