---------------------------- MODULE SandboxPool ----------------------------
(***************************************************************************)
(* The provider of container sandboxes (AioSandboxProvider over the local  *)
(* container backend) and those who use it: the tool calls of the runs of  *)
(* a thread, which acquire the sandbox of the thread and whose end         *)
(* releases it; the idle checker; the shutdown of the process; crashes and *)
(* restarts.                                                               *)
(*                                                                         *)
(* The identifier of a sandbox is computed from its thread, and so is the  *)
(* name of its container: a thread stands for both here.  Docker runs at   *)
(* most one container of a name; a number tells the containers of a thread *)
(* apart, and is used again when nothing refers to the old container any   *)
(* more.  A SandboxInfo has the number of the container at its address     *)
(* (at) and its docker id (id), NoId when the container was found by its   *)
(* name.  Sections under _lock are single steps; every docker command is a *)
(* step of its own, so that everything can happen in between.              *)
(***************************************************************************)
EXTENDS Naturals, FiniteSets

CONSTANTS Threads, Runs, ThreadOf, Sweeper, None,
          Replicas,         \* the soft limit on the number of containers
          MaxContainers     \* bound: containers of a thread that are told apart

Actors == Runs \cup {Sweeper}

ASSUME ThreadOfAssumption == ThreadOf \in [Runs -> Threads]
ASSUME SweeperAssumption == Sweeper \notin Runs
ASSUME BoundsAssumption == Replicas \in Nat /\ MaxContainers \in Nat

NoId == 0
Info == {i \in [id : 0..MaxContainers, at : 1..MaxContainers] : i.id \in {NoId, i.at}}
Order == [thread : Threads, info : Info]
ASSUME NoneAssumption == None \notin Info /\ None \notin Order /\ None \notin Threads

VARIABLES
  phase,      \* "up", "closing" (shutdown was called) or "off"
  container,  \* by thread, the number of the running container, or 0
  active,     \* _sandboxes, _sandbox_infos, _thread_sandboxes: by thread, an info
  warm,       \* _warm_pool: by thread, an info
  idle,       \* the threads whose time stamp is older than idle_timeout
  pc, info,   \* of each run: where it is, and the info it will register
  stop,       \* by actor, the backend.destroy it is executing
  marked,     \* the active sandboxes the sweeper means to destroy
  queue,      \* the infos it popped from the warm pool to stop
  victim,     \* the sandbox the checker has found idle again, about to be destroyed
  left,       \* the threads whose container docker failed to stop or to list
  condemned   \* history: sandboxes adopted while an order to stop them was out

poolVars == <<active, warm, idle>>
sweepVars == <<marked, queue, victim>>
vars == <<phase, container, active, warm, idle, pc, info, stop, marked, queue, victim,
          left, condemned>>

Holding == {"discover", "create", "evict", "launch", "ready", "failed"}
States == Holding \cup {"out", "between", "got"}

TypeOK ==
  /\ phase \in {"up", "closing", "off"}
  /\ container \in [Threads -> 0..MaxContainers]
  /\ active \in [Threads -> Info \cup {None}] /\ warm \in [Threads -> Info \cup {None}]
  /\ idle \subseteq Threads
  /\ pc \in [Runs -> States] /\ info \in [Runs -> Info \cup {None}]
  /\ stop \in [Actors -> Order \cup {None}]
  /\ marked \subseteq Threads /\ queue \subseteq Order
  /\ victim \in Threads \cup {None}
  /\ left \subseteq Threads /\ condemned \subseteq Threads

\* Before the provider is constructed: containers of earlier processes may still run.
Init ==
  /\ phase = "off"
  /\ container \in [Threads -> 0..MaxContainers]
  /\ active = [t \in Threads |-> None] /\ warm = [t \in Threads |-> None] /\ idle = {}
  /\ pc = [r \in Runs |-> "out"] /\ info = [r \in Runs |-> None]
  /\ stop = [a \in Actors |-> None]
  /\ marked = {} /\ queue = {} /\ victim = None
  /\ left = {} /\ condemned = {}

Alive == phase # "off"
Goto(r, place) == pc' = [pc EXCEPT ![r] = place]
ActiveSet == {t \in Threads : active[t] # None}
WarmSet == {t \in Threads : warm[t] # None}
OrderOf(t, i) == [thread |-> t, info |-> i]
\* The orders to stop a container that were given and not carried out.
Orders == {stop[a] : a \in {b \in Actors : stop[b] # None}} \cup queue
\* docker stop takes the id, or the name when there is none.
Hits(o, t, n) == o.thread = t /\ o.info.id \in {NoId, n}

-----------------------------------------------------------------------------
(* The runs of a thread.                                                    *)

Begin(r) ==
  /\ Alive /\ pc[r] = "out"
  /\ Goto(r, "between")
  /\ UNCHANGED <<phase, container, poolVars, info, stop, sweepVars, left, condemned>>

\* get: an active sandbox, and its time stamp is renewed.
Use(r) ==
  LET t == ThreadOf[r] IN
  /\ active[t] # None
  /\ idle' = idle \ {t}
  /\ Goto(r, "between")
  /\ UNCHANGED <<phase, container, active, warm, info, stop, sweepVars, left, condemned>>

\* A tool call of a run that has the sandbox in its state.
ToolCall(r) == Alive /\ pc[r] = "between" /\ Use(r)

\* A tool call of a run that has not, or whose sandbox get does not know, acquires it as
\* soon as the lock of the thread is free.  The file lock then is, in one process; the second
\* look into active and warm under it can find nothing that the first did not.
Enter(r) ==
  /\ Alive /\ pc[r] = "between"
  /\ \A q \in Runs : ThreadOf[q] = ThreadOf[r] => pc[q] \notin Holding

Reuse(r) ==
  LET t == ThreadOf[r] IN
  /\ Enter(r) /\ active[t] # None
  /\ idle' = idle \ {t} /\ Goto(r, "got")
  /\ UNCHANGED <<phase, container, active, warm, info, stop, sweepVars, left, condemned>>

Reclaim(r) ==
  LET t == ThreadOf[r] IN
  /\ Enter(r) /\ active[t] = None /\ warm[t] # None
  /\ active' = [active EXCEPT ![t] = warm[t]] /\ warm' = [warm EXCEPT ![t] = None]
  /\ idle' = idle \ {t} /\ Goto(r, "got")
  /\ UNCHANGED <<phase, container, info, stop, sweepVars, left, condemned>>

Miss(r) ==
  LET t == ThreadOf[r] IN
  /\ Enter(r) /\ active[t] = None /\ warm[t] = None
  /\ Goto(r, "discover")
  /\ UNCHANGED <<phase, container, poolVars, info, stop, sweepVars, left, condemned>>

\* discover: the container of that name, when it runs and answers.
Found(t) == [id |-> NoId, at |-> container[t]]

Discover(r) ==
  LET t == ThreadOf[r] IN
  /\ Alive /\ pc[r] = "discover"
  /\ \/ /\ container[t] # 0
        /\ info' = [info EXCEPT ![r] = Found(t)] /\ Goto(r, "ready")
     \/ info' = info /\ Goto(r, "create")
  /\ UNCHANGED <<phase, container, poolVars, stop, sweepVars, left, condemned>>

\* _create_sandbox counts under the lock, and evicts under it again.
Count(r) ==
  /\ Alive /\ pc[r] = "create"
  /\ Goto(r, IF Cardinality(ActiveSet) + Cardinality(WarmSet) >= Replicas
             THEN "evict" ELSE "launch")
  /\ UNCHANGED <<phase, container, poolVars, info, stop, sweepVars, left, condemned>>

\* What leaves both maps has no time stamp and no history any more.
Forget(T) == idle' = idle \ T /\ condemned' = condemned \ T

\* The evicted sandbox leaves the warm pool only when it is stopped, which is never seen.
MistakeEvict(r) ==
  /\ Alive /\ pc[r] = "evict" /\ Goto(r, "launch")
  /\ \E t \in WarmSet : stop' = [stop EXCEPT ![r] = OrderOf(t, warm[t])]
  /\ UNCHANGED <<phase, container, poolVars, info, sweepVars, left, condemned>>

\* The oldest of the warm pool goes; which one that is, is left open.
Evict(r) ==
  /\ Alive /\ pc[r] = "evict" /\ Goto(r, "launch")
  /\ \/ WarmSet = {} /\ UNCHANGED <<warm, stop, idle, condemned>>
     \/ \E t \in WarmSet :
          /\ warm' = [warm EXCEPT ![t] = None]
          /\ stop' = [stop EXCEPT ![r] = OrderOf(t, warm[t])] /\ Forget({t})
  /\ UNCHANGED <<phase, container, active, info, sweepVars, left>>

Fresh(t) ==
  {n \in 1..MaxContainers :
     /\ \A i \in {active[t], warm[t]} : i # None => i.at # n
     /\ \A o \in Orders : o.thread = t => o.info.at # n}

\* docker run: a new container; a container of that name that is found and taken; or an error.
Launch(r) ==
  LET t == ThreadOf[r] IN
  /\ Alive /\ pc[r] = "launch" /\ stop[r] = None
  /\ \/ /\ container[t] = 0
        /\ \E n \in Fresh(t) :
             /\ container' = [container EXCEPT ![t] = n]
             /\ info' = [info EXCEPT ![r] = [id |-> n, at |-> n]]
        /\ Goto(r, "ready")
     \/ /\ container[t] # 0
        /\ info' = [info EXCEPT ![r] = Found(t)] /\ Goto(r, "ready")
        /\ container' = container
     \/ Goto(r, "between") /\ UNCHANGED <<container, info>>
  /\ UNCHANGED <<phase, poolVars, stop, sweepVars, left, condemned>>

\* The sandbox answers and is registered.  Remembered: that its container is already under
\* an order to stop it, or stopped.
Doomed(t, i) == container[t] # i.at \/ \E o \in Orders : Hits(o, t, i.at)

Register(r) ==
  LET t == ThreadOf[r] IN
  /\ Alive /\ pc[r] = "ready"
  /\ active' = [active EXCEPT ![t] = info[r]] /\ idle' = idle \ {t}
  /\ left' = left \ {t}
  /\ condemned' = IF Doomed(t, info[r]) THEN condemned \cup {t} ELSE condemned
  /\ Goto(r, "got") /\ info' = [info EXCEPT ![r] = None]
  /\ UNCHANGED <<phase, container, warm, stop, sweepVars>>

\* A sandbox that does not get ready is not stopped.
MistakeNotReady(r) ==
  /\ Alive /\ pc[r] = "ready"
  /\ Goto(r, "failed") /\ info' = [info EXCEPT ![r] = None]
  /\ UNCHANGED <<phase, container, poolVars, stop, sweepVars, left, condemned>>

\* It does not answer in time: it is stopped and the call fails.
NotReady(r) ==
  /\ Alive /\ pc[r] = "ready"
  /\ stop' = [stop EXCEPT ![r] = OrderOf(ThreadOf[r], info[r])]
  /\ Goto(r, "failed") /\ info' = [info EXCEPT ![r] = None]
  /\ UNCHANGED <<phase, container, poolVars, sweepVars, left, condemned>>

Raise(r) ==
  /\ Alive /\ pc[r] = "failed" /\ stop[r] = None
  /\ Goto(r, "between")
  /\ UNCHANGED <<phase, container, poolVars, info, stop, sweepVars, left, condemned>>

\* acquire has returned: the tool asks for the sandbox, or learns that it has gone.
GetAcquired(r) == Alive /\ pc[r] = "got" /\ Use(r)

NotFound(r) ==
  /\ Alive /\ pc[r] = "got" /\ active[ThreadOf[r]] = None
  /\ Goto(r, "between")
  /\ UNCHANGED <<phase, container, poolVars, info, stop, sweepVars, left, condemned>>

\* The end of a run, of a subagent too, releases the sandbox of the thread.
Release(r) ==
  LET t == ThreadOf[r] IN
  /\ Alive /\ pc[r] = "between" /\ Goto(r, "out")
  /\ active' = [active EXCEPT ![t] = None]
  /\ warm' = IF active[t] # None /\ warm[t] = None
             THEN [warm EXCEPT ![t] = active[t]] ELSE warm
  /\ idle' = IF active[t] # None THEN idle \ {t} ELSE idle
  /\ UNCHANGED <<phase, container, info, stop, sweepVars, left, condemned>>

\* A run that fails or is cancelled, or never had the sandbox, ends without.
Abandon(r) ==
  /\ Alive /\ pc[r] = "between" /\ Goto(r, "out")
  /\ UNCHANGED <<phase, container, poolVars, info, stop, sweepVars, left, condemned>>

-----------------------------------------------------------------------------
(* Docker stops a container, or fails to, which is only logged.             *)

Stop(a) ==
  /\ Alive /\ stop[a] # None
  /\ LET t == stop[a].thread IN
     \/ /\ Hits(stop[a], t, container[t]) /\ container[t] # 0
        /\ container' = [container EXCEPT ![t] = 0] /\ left' = left \ {t}
     \/ /\ Hits(stop[a], t, container[t]) /\ container[t] # 0
        /\ left' = left \cup {t} /\ container' = container
     \/ /\ ~Hits(stop[a], t, container[t]) \/ container[t] = 0
        /\ UNCHANGED <<container, left>>
  /\ stop' = [stop EXCEPT ![a] = None]
  /\ UNCHANGED <<phase, poolVars, pc, info, sweepVars, condemned>>

-----------------------------------------------------------------------------
(* The sweeper: the idle checker, and the shutdown, which begins between two *)
(* of its rounds and waits for it to end before it destroys anything.       *)

TimePasses(t) ==
  /\ Alive /\ t \notin idle /\ (active[t] # None \/ warm[t] # None)
  /\ idle' = idle \cup {t}
  /\ UNCHANGED <<phase, container, active, warm, pc, info, stop, sweepVars, left, condemned>>

Resting == marked = {} /\ queue = {} /\ victim = None /\ stop[Sweeper] = None

\* The sandboxes of S are marked, those of W leave the warm pool to be stopped.
Collect(S, W) ==
  /\ marked' = S /\ queue' = {OrderOf(t, warm[t]) : t \in W}
  /\ warm' = [t \in Threads |-> IF t \in W THEN None ELSE warm[t]] /\ Forget(W)
  /\ UNCHANGED <<container, active, pc, info, stop, victim, left>>

\* The checker looks at the active sandboxes only.
MistakeSweep ==
  /\ phase = "up" /\ Resting
  /\ idle \cap ActiveSet # {}
  /\ Collect(idle \cap ActiveSet, {})
  /\ phase' = phase

\* A round of the checker: it collects what is idle.
Sweep ==
  /\ phase = "up" /\ Resting
  /\ idle \cap (ActiveSet \cup WarmSet) # {}
  /\ Collect(idle \cap ActiveSet, idle \cap WarmSet)
  /\ phase' = phase

\* Is a marked sandbox still idle?  The lock is given up again before it is destroyed.
Recheck(t) ==
  /\ phase = "up" /\ t \in marked /\ stop[Sweeper] = None /\ victim = None
  /\ marked' = marked \ {t}
  /\ victim' = IF active[t] # None /\ t \in idle THEN t ELSE None
  /\ UNCHANGED <<phase, container, poolVars, pc, info, stop, queue, left, condemned>>

\* destroy: out of every map under the lock, then stopped.
Destroy(t) ==
  /\ active' = [active EXCEPT ![t] = None] /\ warm' = [warm EXCEPT ![t] = None] /\ Forget({t})
  /\ LET i == IF active[t] # None THEN active[t] ELSE warm[t] IN
     stop' = IF i # None THEN [stop EXCEPT ![Sweeper] = OrderOf(t, i)] ELSE stop
  /\ UNCHANGED <<phase, container, pc, info, queue, left>>

DestroyIdle ==
  /\ phase = "up" /\ victim # None
  /\ Destroy(victim) /\ victim' = None /\ marked' = marked

\* After the active ones, those of the warm pool.
StopPopped ==
  /\ Alive /\ marked = {} /\ victim = None /\ stop[Sweeper] = None
  /\ \E o \in queue :
       /\ stop' = [stop EXCEPT ![Sweeper] = o] /\ queue' = queue \ {o}
  /\ UNCHANGED <<phase, container, poolVars, pc, info, marked, victim, left, condemned>>

\* shutdown collects everything, and does not look again.
Shutdown ==
  /\ phase = "up" /\ Resting
  /\ Collect(ActiveSet, WarmSet)
  /\ phase' = "closing"

DestroyActive(t) ==
  /\ phase = "closing" /\ t \in marked /\ stop[Sweeper] = None
  /\ Destroy(t) /\ marked' = marked \ {t} /\ victim' = victim

\* The process ends, after a shutdown or by a crash: only the containers remain.
Gone ==
  /\ phase' = "off"
  /\ active' = [t \in Threads |-> None] /\ warm' = [t \in Threads |-> None] /\ idle' = {}
  /\ pc' = [r \in Runs |-> "out"] /\ info' = [r \in Runs |-> None]
  /\ stop' = [a \in Actors |-> None]
  /\ marked' = {} /\ queue' = {} /\ victim' = None
  /\ left' = {} /\ condemned' = {}
  /\ container' = container

Exit == phase = "closing" /\ Resting /\ Gone
Crash == Alive /\ Gone

\* list_running asks docker for the containers whose name has the prefix.
Running == {t \in Threads : container[t] # 0}

\* A restart adopts nothing.
MistakeRestart ==
  /\ phase = "off" /\ phase' = "up"
  /\ UNCHANGED <<container, poolVars, pc, info, stop, sweepVars, left, condemned>>

\* _reconcile_orphans: the containers that run are taken into the warm pool; when docker
\* cannot list them, nothing is.
Restart ==
  /\ phase = "off" /\ phase' = "up"
  /\ \/ /\ warm' = [t \in Threads |-> IF t \in Running THEN Found(t) ELSE None]
        /\ left' = left
     \/ warm' = warm /\ left' = Running
  /\ UNCHANGED <<container, active, idle, pc, info, stop, sweepVars, condemned>>

AcquireStep(r) ==
  \/ Discover(r) \/ Count(r) \/ Evict(r) \/ Launch(r)
  \/ Register(r) \/ NotReady(r) \/ Raise(r) \/ GetAcquired(r) \/ NotFound(r)

RunStep(r) ==
  \/ Begin(r) \/ ToolCall(r) \/ Reuse(r) \/ Reclaim(r) \/ Miss(r) \/ AcquireStep(r)
  \/ Release(r) \/ Abandon(r)

CheckerStep == Sweep \/ (\E t \in Threads : Recheck(t)) \/ DestroyIdle \/ StopPopped
ShutdownStep == Shutdown \/ (\E t \in Threads : DestroyActive(t)) \/ Exit

Next ==
  \/ \E r \in Runs : RunStep(r)
  \/ \E a \in Actors : Stop(a)
  \/ \E t \in Threads : TimePasses(t)
  \/ CheckerStep \/ ShutdownStep \/ Crash \/ Restart

Spec == Init /\ [][Next]_vars

\* Time passes, the checker runs, and a process that has ended is started again.  Runs need
\* not go on, nothing need be shut down, and docker need not answer: docker run and docker
\* stop are called without a timeout (local_backend.py 559, 567-578).
FairSpec ==
  /\ Spec
  /\ \A t \in Threads : WF_vars(TimePasses(t)) /\ WF_vars(Recheck(t)) /\ WF_vars(DestroyActive(t))
  /\ WF_vars(Sweep) /\ WF_vars(DestroyIdle) /\ WF_vars(StopPopped)
  /\ WF_vars(Exit) /\ WF_vars(Restart)

-----------------------------------------------------------------------------
(* Properties.                                                              *)

\* A sandbox is active or warm, never both, and a run that has found it in neither map still
\* finds it in neither when it registers its own: no entry is ever overwritten, which would
\* forget a container.
OnePlace ==
  /\ \A t \in Threads : active[t] = None \/ warm[t] = None
  /\ \A r \in Runs : pc[r] \in Holding => active[ThreadOf[r]] = None /\ warm[ThreadOf[r]] = None

\* Every container that runs is known to the process, as active or warm, in the hands of the
\* run that made or found it, or under an order that will stop it; docker's own failures and
\* the time between two processes excepted.
Known(t) ==
  \/ \E i \in {active[t], warm[t]} : i # None /\ i.at = container[t]
  \/ \E r \in Runs : ThreadOf[r] = t /\ pc[r] = "ready" /\ info[r].at = container[t]
  \/ \E o \in Orders : Hits(o, t, container[t])
NothingForgotten ==
  Alive => \A t \in Threads : container[t] # 0 => Known(t) \/ t \in left

\* A sandbox in either map has its container running, unless it was adopted while an order
\* to stop that container was already out: nothing is stopped that is in a map.
ServedUnlessCondemned ==
  \A t \in Threads : \A i \in {active[t], warm[t]} :
    i # None => container[t] = i.at \/ t \in condemned

\* A container that no run uses is stopped by the checker some time, or used again, also
\* when runs ended without releasing it and when its process crashed, provided that some
\* process stays up in the end and that no docker stop hangs for ever, which would hold the
\* checker.  This is what the checker is for (aio_sandbox_provider.py 326-368, 199-204); the
\* docstrings of release (626-628) and of SandboxMiddleware (middleware.py 28-29) say that
\* only eviction or shutdown stops a released container.
InUse(t) == \E r \in Runs : ThreadOf[r] = t /\ pc[r] # "out"
StopsEnd == \A a \in Actors : []<>(stop[a] = None)
IdleStopped ==
  <>[](phase = "up") /\ StopsEnd =>
    \A t \in Threads : container[t] # 0 ~> (container[t] = 0 \/ InUse(t) \/ t \in left)

-----------------------------------------------------------------------------
(* The inductive invariant.                                                 *)

\* Between two processes there are only containers.
Nothing ==
  phase = "off" =>
    /\ \A t \in Threads : active[t] = None /\ warm[t] = None
    /\ \A r \in Runs : pc[r] = "out"
    /\ \A a \in Actors : stop[a] = None
    /\ idle = {} /\ marked = {} /\ queue = {} /\ victim = None /\ condemned = {}

\* Two runs of a thread are never both between the lookup and the registration.
OneCreator ==
  \A q, r \in Runs :
    q # r /\ ThreadOf[q] = ThreadOf[r] => pc[q] \notin Holding \/ pc[r] \notin Holding

\* An actor gives an order only when it has none.
OneOrder ==
  /\ \A r \in Runs : stop[r] # None => pc[r] \in {"launch", "failed"}
  /\ victim # None => phase = "up" /\ stop[Sweeper] = None

\* What is about to be registered is the container that runs, or none does.
ReadyOf ==
  \A r \in Runs : pc[r] = "ready" =>
    info[r] # None /\ container[ThreadOf[r]] \in {0, info[r].at}

\* The container of an entry runs and no order is out to stop it, unless there was one when
\* it was adopted.
Uncondemned ==
  \A t \in Threads : \A i \in {active[t], warm[t]} :
    i # None /\ t \notin condemned =>
      container[t] = i.at /\ \A o \in Orders : ~Hits(o, t, i.at)

IndInv ==
  /\ TypeOK /\ Nothing /\ OnePlace /\ OneCreator /\ OneOrder /\ ReadyOf
  /\ Uncondemned /\ NothingForgotten
=============================================================================
