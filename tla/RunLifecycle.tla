---------------------------- MODULE RunLifecycle ----------------------------
(***************************************************************************)
(* The runs of one thread: the registry (runtime/runs/manager.py), the     *)
(* request that starts a run (app/gateway/services.py), the background     *)
(* task that drives the graph (runtime/runs/worker.py), the cancellations  *)
(* that reach it, and what they leave in the run store, the thread's       *)
(* metadata row and the thread's checkpoint.                               *)
(*                                                                         *)
(* Runs of different threads share no state the code below reads, so one   *)
(* thread is the general case.  Everything runs on one event loop: a step  *)
(* is the code between two awaits that can suspend.  RunManager._lock is   *)
(* never held across such an await, so it never makes anybody wait.        *)
(*                                                                         *)
(* A checkpoint is the set of what went into it: a run that has taken a    *)
(* step, or one of the contributions already there (History).  The empty   *)
(* set is a thread with no checkpoint.                                     *)
(***************************************************************************)
EXTENDS FiniteSets, Integers

CONSTANTS Run,      \* the runs requested for the thread
          History   \* what the thread's checkpoint holds before them

ASSUME HistoryAssumption == Run \cap History = {}

VARIABLES status,        \* record.status; "none" before the record exists
          abort,         \* record.abort_event.is_set()
          action,        \* record.abort_action
          cancelled,     \* task.cancel() has been called and not yet delivered
          pc,            \* the await the run's request or task stands at
          snap,          \* pre_run_snapshot; {} stands for None
          captureFailed, \* snapshot_capture_failed
          base,          \* the state the run's graph holds
          ckpt,          \* the newest checkpoint of the thread
          meta,          \* status of the thread's metadata row
          store,         \* status of the run's row in the run store
          ended          \* publish_end has been called for the run

requestVars == <<status, abort, action, cancelled>>
graphVars == <<snap, captureFailed, base, ckpt>>
recordVars == <<meta, store, ended>>
vars == <<requestVars, pc, graphVars, recordVars>>

-----------------------------------------------------------------------------
Contribution == Run \cup History

RunStatus == {"pending", "running", "success", "error", "interrupted"}

\* The awaits of start_run; "orphan" when it raised before creating a task.
Request == {"persist", "lookup", "create", "touch", "launch", "orphan"}

\* The task has entered the try of run_agent and has not left it.
Driving == {"marking", "capturing", "loading", "streaming"}

\* The handlers and the finally of run_agent.
Leaving == {"settling", "reverting", "restoring", "completing", "syncing",
            "closing"}

\* "lost": the task was cancelled before its first step.
Place == {"new", "scheduled", "lost", "done"} \cup Request \cup Driving \cup Leaving

Outcome == {"idle", "error", "interrupted"}

TypeOK == /\ status \in [Run -> RunStatus \cup {"none"}]
          /\ abort \in [Run -> BOOLEAN]
          /\ action \in [Run -> {"interrupt", "rollback"}]
          /\ cancelled \in [Run -> BOOLEAN]
          /\ pc \in [Run -> Place]
          /\ snap \in [Run -> SUBSET Contribution]
          /\ captureFailed \in [Run -> BOOLEAN]
          /\ base \in [Run -> SUBSET Contribution]
          /\ ckpt \in SUBSET Contribution
          /\ meta \in {"none", "running"} \cup Outcome
          /\ store \in [Run -> RunStatus \cup {"none"}]
          /\ ended \in [Run -> BOOLEAN]

Init == /\ status = [r \in Run |-> "none"]
        /\ abort = [r \in Run |-> FALSE]
        /\ action = [r \in Run |-> "interrupt"]
        /\ cancelled = [r \in Run |-> FALSE]
        /\ pc = [r \in Run |-> "new"]
        /\ snap = [r \in Run |-> {}]
        /\ captureFailed = [r \in Run |-> FALSE]
        /\ base = [r \in Run |-> {}]
        /\ ckpt = History
        /\ meta \in {"none", "idle"}
        /\ store = [r \in Run |-> "none"]
        /\ ended = [r \in Run |-> FALSE]

GoTo(r, place) == pc' = [pc EXCEPT ![r] = place]

-----------------------------------------------------------------------------
(* The registry.                                                           *)

\* Mistake: a run that waits for its task is not counted as in flight.
RunningOnly == {r \in Run : status[r] = "running"}

Inflight == {r \in Run : status[r] \in {"pending", "running"}}

TaskAlive(r) == pc[r] \in {"scheduled"} \cup Driving \cup Leaving

(* Abort the runs in S; those whose task is alive are cancelled too.       *)
AbortRuns(S, how) ==
  /\ abort' = [r \in Run |-> abort[r] \/ r \in S]
  /\ action' = [r \in Run |-> IF r \in S THEN how ELSE action[r]]
  /\ cancelled' = [r \in Run |-> cancelled[r] \/ (r \in S /\ TaskAlive(r))]

(* A request for a new run; a conflict is refused and changes nothing.     *)
CreateOrReject(r, strategy) ==
  /\ pc[r] = "new"
  /\ \/ /\ strategy = "reject"
        /\ Inflight = {}
        /\ UNCHANGED <<abort, action, cancelled>>
     \/ /\ strategy # "reject"
        /\ AbortRuns(Inflight, strategy)
  /\ status' = [q \in Run |-> IF q = r THEN "pending"
                              ELSE IF q \in Inflight /\ strategy # "reject"
                                     THEN "interrupted" ELSE status[q]]
  /\ GoTo(r, "persist")
  /\ UNCHANGED <<graphVars, recordVars>>

(* The cancel endpoint, the stop button, and a reader of an on_disconnect  *)
(* = cancel run that goes away.                                            *)
Cancel(r, how) ==
  /\ r \in Inflight
  /\ AbortRuns({r}, how)
  /\ status' = [status EXCEPT ![r] = "interrupted"]
  /\ UNCHANGED <<pc, graphVars, recordVars>>

-----------------------------------------------------------------------------
(* start_run: the request between the registration and the task.           *)

(* The row is written with the status the record had when it was built.    *)
Persist(r) == /\ pc[r] = "persist"
              /\ store' = [store EXCEPT ![r] = "pending"]
              /\ GoTo(r, "lookup")
              /\ UNCHANGED <<requestVars, graphVars, meta, ended>>

LookupMeta(r) == /\ pc[r] = "lookup"
                 /\ GoTo(r, IF meta = "none" THEN "create" ELSE "touch")
                 /\ UNCHANGED <<requestVars, graphVars, recordVars>>

(* A row made meanwhile is kept by the SQL store (the insert fails and is  *)
(* swallowed) and overwritten by the in-memory one.                        *)
CreateMeta(r) == /\ pc[r] = "create"
                 /\ \/ meta' = "idle"
                    \/ meta # "none" /\ meta' = meta
                 /\ GoTo(r, "launch")
                 /\ UNCHANGED <<requestVars, graphVars, store, ended>>

TouchMeta(r) == /\ pc[r] = "touch"
                /\ meta' = "running"
                /\ GoTo(r, "launch")
                /\ UNCHANGED <<requestVars, graphVars, store, ended>>

(* The task is created, or build_run_config raises and nothing undoes the  *)
(* registration.                                                           *)
Launch(r) == /\ pc[r] = "launch"
             /\ \/ GoTo(r, "scheduled")
                \/ GoTo(r, "orphan")
             /\ UNCHANGED <<requestVars, graphVars, recordVars>>

-----------------------------------------------------------------------------
(* run_agent.                                                              *)

(* A task cancelled before its first step never enters the coroutine.      *)
NeverStart(r) == /\ pc[r] = "scheduled"
                 /\ cancelled[r]
                 /\ cancelled' = [cancelled EXCEPT ![r] = FALSE]
                 /\ GoTo(r, "lost")
                 /\ UNCHANGED <<status, abort, action, graphVars, recordVars>>

(* set_status(running) does not look at the status it overwrites.          *)
Start(r) == /\ pc[r] = "scheduled"
            /\ ~cancelled[r]
            /\ status' = [status EXCEPT ![r] = "running"]
            /\ GoTo(r, "marking")
            /\ UNCHANGED <<abort, action, cancelled, graphVars, recordVars>>

Mark(r) == /\ pc[r] = "marking"
           /\ ~cancelled[r]
           /\ store' = [store EXCEPT ![r] = "running"]
           /\ GoTo(r, "capturing")
           /\ UNCHANGED <<requestVars, graphVars, meta, ended>>

Capture(r) == /\ pc[r] = "capturing"
              /\ ~cancelled[r]
              /\ \/ /\ snap' = [snap EXCEPT ![r] = ckpt]
                    /\ UNCHANGED captureFailed
                 \/ /\ captureFailed' = [captureFailed EXCEPT ![r] = TRUE]
                    /\ UNCHANGED snap
              /\ GoTo(r, "loading")
              /\ UNCHANGED <<requestVars, base, ckpt, recordVars>>

(* The graph reads the thread's checkpoint, then writes a new one, made of *)
(* what it holds, after each step.                                         *)
Load(r) == /\ pc[r] = "loading"
           /\ ~cancelled[r]
           /\ base' = [base EXCEPT ![r] = ckpt]
           /\ GoTo(r, "streaming")
           /\ UNCHANGED <<requestVars, snap, captureFailed, ckpt, recordVars>>

GraphStep(r) == /\ pc[r] = "streaming"
                /\ ~cancelled[r]
                /\ base' = [base EXCEPT ![r] = @ \cup {r}]
                /\ ckpt' = base[r] \cup {r}
                /\ UNCHANGED <<requestVars, pc, snap, captureFailed, recordVars>>

\* Mistake: the final status does not consult the abort event.
SucceedAnyway(r) ==
  /\ pc[r] = "streaming"
  /\ ~cancelled[r]
  /\ r \in base[r]
  /\ status' = [status EXCEPT ![r] = "success"]
  /\ GoTo(r, "settling")
  /\ UNCHANGED <<abort, action, cancelled, graphVars, recordVars>>

(* The graph has run to its end and nobody asked to stop.                  *)
Succeed(r) == /\ pc[r] = "streaming"
              /\ ~cancelled[r]
              /\ r \in base[r]
              /\ ~abort[r]
              /\ status' = [status EXCEPT ![r] = "success"]
              /\ GoTo(r, "settling")
              /\ UNCHANGED <<abort, action, cancelled, graphVars, recordVars>>

(* Building the agent or driving the graph raises.                         *)
Fail(r) == /\ pc[r] \in {"loading", "streaming"}
           /\ ~cancelled[r]
           /\ status' = [status EXCEPT ![r] = "error"]
           /\ GoTo(r, "settling")
           /\ UNCHANGED <<abort, action, cancelled, graphVars, recordVars>>

(* The status an aborted run ends with, and whether it reverts.            *)
SettleAborted(r) ==
  IF action[r] = "rollback"
    THEN /\ status' = [status EXCEPT ![r] = "error"]
         /\ GoTo(r, "reverting")
    ELSE /\ status' = [status EXCEPT ![r] = "interrupted"]
         /\ GoTo(r, "settling")

(* The loop sees the abort event at a chunk, or after the last one.        *)
Stop(r) == /\ pc[r] = "streaming"
           /\ ~cancelled[r]
           /\ abort[r]
           /\ SettleAborted(r)
           /\ UNCHANGED <<abort, action, cancelled, graphVars, recordVars>>

\* Mistake: only the loop over the graph is covered by the handler.
DeliverCancelInLoop(r) ==
  /\ pc[r] \in Driving
  /\ cancelled[r]
  /\ cancelled' = [cancelled EXCEPT ![r] = FALSE]
  /\ IF pc[r] = "streaming"
       THEN SettleAborted(r)
       ELSE GoTo(r, "lost") /\ UNCHANGED status
  /\ UNCHANGED <<abort, action, graphVars, recordVars>>

(* CancelledError is raised at the await the task stands at; a write of    *)
(* "running" under way may have landed.                                    *)
DeliverCancel(r) ==
  /\ pc[r] \in Driving
  /\ cancelled[r]
  /\ cancelled' = [cancelled EXCEPT ![r] = FALSE]
  /\ SettleAborted(r)
  /\ \/ UNCHANGED store
     \/ pc[r] = "marking" /\ store' = [store EXCEPT ![r] = "running"]
  /\ UNCHANGED <<abort, action, graphVars, meta, ended>>

StoreFinal(r) == /\ pc[r] \in {"settling", "reverting"}
                 /\ store' = [store EXCEPT ![r] = status[r]]
                 /\ GoTo(r, IF pc[r] = "reverting" THEN "restoring" ELSE "completing")
                 /\ UNCHANGED <<requestVars, graphVars, meta, ended>>

\* Mistake: a failed capture is taken for a thread without a checkpoint.
RestoreAnyway(r) == /\ pc[r] = "restoring"
                    /\ ckpt' = snap[r]
                    /\ GoTo(r, "completing")
                    /\ UNCHANGED <<requestVars, snap, captureFailed, base,
                                   recordVars>>

(* _rollback_to_pre_run_checkpoint: no snapshot deletes the thread.        *)
Restore(r) == /\ pc[r] = "restoring"
              /\ ckpt' = IF captureFailed[r] THEN ckpt ELSE snap[r]
              /\ GoTo(r, "completing")
              /\ UNCHANGED <<requestVars, snap, captureFailed, base, recordVars>>

Complete(r) == /\ pc[r] = "completing"
               /\ store' = [store EXCEPT ![r] = status[r]]
               /\ GoTo(r, "syncing")
               /\ UNCHANGED <<requestVars, graphVars, meta, ended>>

SyncMeta(r) == /\ pc[r] = "syncing"
               /\ meta' = IF status[r] = "success" THEN "idle" ELSE status[r]
               /\ GoTo(r, "closing")
               /\ UNCHANGED <<requestVars, graphVars, store, ended>>

PublishEnd(r) == /\ pc[r] = "closing"
                 /\ ended' = [ended EXCEPT ![r] = TRUE]
                 /\ GoTo(r, "done")
                 /\ UNCHANGED <<requestVars, graphVars, meta, store>>

-----------------------------------------------------------------------------
Clients == \E r \in Run :
              \/ \E strategy \in {"reject", "interrupt", "rollback"} :
                    CreateOrReject(r, strategy)
              \/ \E how \in {"interrupt", "rollback"} : Cancel(r, how)

StartRun(r) == Persist(r) \/ LookupMeta(r) \/ CreateMeta(r) \/ TouchMeta(r)
               \/ Launch(r)

(* What the task does on its own: the awaits of run_agent that are not in  *)
(* the graph.                                                              *)
Worker(r) == \/ NeverStart(r) \/ Start(r) \/ Mark(r) \/ Capture(r)
             \/ DeliverCancel(r) \/ StoreFinal(r) \/ Restore(r) \/ Complete(r)
             \/ SyncMeta(r) \/ PublishEnd(r)

Graph(r) == Load(r) \/ GraphStep(r) \/ Succeed(r) \/ Fail(r) \/ Stop(r)

Next == Clients \/ \E r \in Run : StartRun(r) \/ Worker(r) \/ Graph(r)

Spec == Init /\ [][Next]_vars

(* The event loop resumes every task whose await has completed, and the    *)
(* stores answer.  Nothing is assumed of clients or of the graph, which    *)
(* may call a model for as long as it likes.                               *)
FairSpec == Spec /\ \A r \in Run : WF_vars(Worker(r))

-----------------------------------------------------------------------------
(* At any time at most one run of the thread is wanted, that is, in flight *)
(* and not aborted: create_or_reject checks and inserts in one step.       *)
AtMostOneLive == \A p, q \in Run : p \in Inflight /\ q \in Inflight
                                   /\ ~abort[p] /\ ~abort[q] => p = q

(* A run somebody aborted never reports success, however late the request  *)
(* came before the last look at the abort event.                           *)
AbortedNeverSucceeds == \A r \in Run : status[r] = "success" => ~abort[r]

(* When the stream of a run has ended the run is over, and the registry    *)
(* and the run store tell its clients the same outcome.                    *)
EndedAgrees == \A r \in Run :
                 ended[r] => /\ status[r] \in {"success", "error", "interrupted"}
                             /\ store[r] = status[r]

(* Once every run that was started is over, the thread is not shown as     *)
(* running: the last writer of the metadata row is the end of a run.       *)
MetaQuiesces == /\ \A r \in Run : pc[r] \in {"new", "done"}
                /\ \E r \in Run : pc[r] = "done"
                => meta \in Outcome

(* As long as no run is aborted the runs of the thread follow one another, *)
(* and what a successful run contributed stays in the checkpoint.          *)
SerialUnlessAborted == (\A q \in Run : ~abort[q])
                       => \A r \in Run : status[r] = "success" => r \in ckpt

RolledBackBlind(r) == /\ pc[r] \in {"completing", "syncing", "closing", "done"}
                      /\ abort[r]
                      /\ action[r] = "rollback"
                      /\ snap[r] = {}
                      /\ ~captureFailed[r]

(* What the thread held before its runs is lost only through a rollback    *)
(* that had no snapshot; a failed capture never costs the thread's state.  *)
HistoryKept == History \subseteq ckpt \/ \E r \in Run : RolledBackBlind(r)

FinalKept == \A r \in Run : status[r] \in {"success", "error"} \/ ended[r]
                            => status'[r] = status[r]

(* success and error are final, and so is any status once the stream of    *)
(* the run has ended: no late cancel or status write changes them.         *)
SettledIsFinal == [][FinalKept]_vars

(* A run cancelled while its task is inside run_agent gets to the end of   *)
(* its stream, at whichever await the cancellation finds it.               *)
CancelReachesEnd == \A r \in Run :
                      (cancelled[r] /\ pc[r] \in Driving) ~> ended[r]

-----------------------------------------------------------------------------
(* The inductive invariant.                                                *)

(* Where a run stands determines what its record can say.                  *)
StandingAt(r) ==
  /\ pc[r] = "new" => status[r] = "none" /\ ~abort[r] /\ ~cancelled[r]
  /\ pc[r] \in Request \cup {"scheduled"} => status[r] \in {"pending", "interrupted"}
  /\ pc[r] \in Driving => status[r] \in {"running", "interrupted"}
  /\ pc[r] = "lost" => status[r] = "interrupted" /\ ~cancelled[r]
  /\ pc[r] \in Leaving \cup {"done"} =>
       status[r] \in {"success", "error", "interrupted"} /\ ~cancelled[r]
  /\ pc[r] \in {"reverting", "restoring"} => abort[r] /\ action[r] = "rollback"
  /\ pc[r] \in {"syncing", "closing", "done"} => store[r] = status[r]
  /\ ended[r] => pc[r] = "done"
  /\ status[r] = "pending" => ~abort[r]
  /\ status[r] = "interrupted" => abort[r]
  /\ cancelled[r] => status[r] = "interrupted"

Standing == \A r \in Run : StandingAt(r)

(* The row says running only while a run that will still write it exists.  *)
WillSync(r) == pc[r] \in {"launch", "orphan", "scheduled", "lost"}
                        \cup Driving \cup (Leaving \ {"closing"})

MetaOwned == /\ meta = "running" => \E r \in Run : WillSync(r)
             /\ meta = "none" => \A r \in Run :
                  pc[r] \in {"new", "persist", "lookup", "create"}

(* Without aborts the only graph at work holds the checkpoint itself.      *)
GraphCurrent == (\A q \in Run : ~abort[q])
                => \A r \in Run : /\ pc[r] = "streaming" => base[r] = ckpt
                                  /\ status[r] = "success" => r \in ckpt

(* Until a blind rollback, everything a run took from the checkpoint, or   *)
(* will put back, has the history in it.                                   *)
HistoryHeld == \/ \E r \in Run : RolledBackBlind(r)
               \/ /\ History \subseteq ckpt
                  /\ \A r \in Run :
                       /\ pc[r] = "streaming" => History \subseteq base[r]
                       /\ snap[r] # {} => History \subseteq snap[r]

(* All the state invariants hold together, with what makes them inductive. *)
IndInv == /\ TypeOK
          /\ Standing
          /\ AtMostOneLive
          /\ AbortedNeverSucceeds
          /\ MetaOwned
          /\ GraphCurrent
          /\ HistoryHeld

=============================================================================
