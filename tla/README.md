# A TLA+ verification of the DeerFlow backend

The modules in this directory model the concurrent core of the backend under
`src/backend`: the runs that drive an agent for a thread, the bridge that
carries their events to browsers, the journal that stores them, the subagents,
the loop of model and tools with its middlewares, the memory of the users, the
circuit breaker around model calls, the pool of container sandboxes, the
dispatcher of the chat channels, and the skills. TLC checks the models on small
instances; TLAPS proves the main properties for every value of the constants.
Paths below are relative to `src/backend/`, with `H` for
`packages/harness/deerflow`.

- [The system](#the-system)
- [Modules](#modules)
- [Runs](#runs)
- [Fairness](#fairness)
- [Proofs](#proofs)
- [Where code and documentation differ](#where-code-and-documentation-differ)
- [What is not modelled](#what-is-not-modelled)
- [Plan](#plan)

To repeat the checks, in this directory:

    tlc -workers 2 -config MCRunLifecycle.cfg MCRunLifecycle.tla
    tlapm RunLifecycleProofs.tla

## The system

A browser posts a request for a run to the gateway; a chat message comes
through a channel. The gateway registers the run, creates an asyncio task that
drives a LangGraph graph, streams what the graph produces back over SSE and
records it in a journal. Other requests of the same thread may interrupt or
roll back the run, and readers come, go and reconnect. The agent calls models
and tools in turn: tools run in a sandbox, the `task` tool hands work to a
subagent on other threads, and what was said goes to the user's memory later.

| Part | State | Operations | Talks to |
|---|---|---|---|
| Stream bridge, `H/runtime/stream_bridge` | per run: a bounded list of events, its start offset, an ended flag, an id counter; per reader: its next offset | publish, publish_end, subscribe, cleanup, close | called by the worker and by SSE responses |
| Run lifecycle, `H/runtime/runs`, `app/gateway/services.py`, `routers/thread_runs.py`, `H/persistence/thread_meta` | run records (status, abort event, task), the run store's rows, the thread's metadata row, the thread's checkpoint | create_or_reject, cancel, set_status, start_run, run_agent, rollback | bridge, checkpointer, stores |
| Run journal and event stores, `H/runtime/journal.py`, `H/runtime/events`, `routers/thread_runs.py`, `routers/runs.py` | per run: a write buffer and flush tasks; per thread: rows with sequence numbers | callbacks, flush, put_batch, the pages of the API | called by the graph and the worker |
| Subagents, `H/subagents/executor.py`, `H/tools/builtins/task_tool.py` | `_background_tasks`, one SubagentResult per task, a pool of 3 threads, an isolated event loop | execute_async, run_task, _aexecute, poll, request_cancel, cleanup | called by the agent's tool node |
| Agent and middlewares, `H/agents/middlewares`, `H/agents/lead_agent/agent.py` | the messages and todo list in the checkpoint, the windows and counters of the loop detector | the hooks around model and tools | checkpointer, models, tools |
| Memory, `H/agents/memory`, `memory_middleware.py` | a queue of conversations, a debounce timer, a processing flag; a file and its cache | add, process, flush; load, save, update, create, delete, import, clear | model, file |
| LLM circuit breaker, `llm_error_handling_middleware.py` | state, failure count, open-until, probe flag | check, record_success, record_failure | model calls |
| Sandbox pool, `H/community/aio_sandbox`, `H/sandbox` | active and warm sandboxes, last activity, per-thread locks; containers | acquire, get, release, destroy, idle check, shutdown, reconciliation | docker |
| Channels, `app/channels` | conversation to thread map and its file, bus queues, running handlers | receive, dispatch, answer, start, stop | gateway, messengers |
| Skills, `H/skills`, `H/tools/skill_manage_tool.py`, `routers/skills.py`, `routers/mcp.py`, `lead_agent/prompt.py` | SKILL.md, its history, the settings file and its cached copy, the list of enabled skills with its version and event | create, edit, patch, delete, roll back, install, toggle; load, invalidate, wait | files, prompts |
| The rest: MCP, checkpointer and store providers, authentication, uploads, configuration, models, tools, tracing | caches and configuration | | |

What makes each part correct, and what makes that hard:

- **Stream bridge.** A reader gets the events of its run in order, loses only
  what was evicted before it got there, also across reconnections, and is told
  the end exactly when it has everything. Hard because offsets shift when the
  buffer evicts, two dictionaries are dropped and rebuilt by four parties at
  different times, and readers keep objects the dictionary has forgotten.
- **Run lifecycle.** One run of a thread is wanted at a time; an aborted run
  never reports success; registry, run store, metadata row and checkpoint agree
  when the dust settles; a cancelled run ends its stream. Hard because
  `CancelledError` may be raised at every await, a request awaits three times
  between registering a run and creating its task, and an interrupted run is
  still winding down while its successor runs.
- **Journal.** Every event is stored once, in the order of the run, and clients
  that page see every message. Hard because flush tasks overlap with callbacks
  and with the worker's last flush, writes fail and are put back, and two runs
  of a thread draw their numbers from one sequence.
- **Subagents.** A tool call gets the outcome of its own task, always comes
  back, leaves nothing behind and never removes what is still at work; the
  work of a cancelled call stops. Hard because three threads write one object,
  some of them without the lock, and a timeout, a cancellation and the end of
  the agent may come together.
- **Agent loop.** A provider never gets a history it refuses, the model sees the
  list it works on, and an agent that repeats itself is stopped. Hard because
  seven middlewares rewrite the same messages, those after the model in reverse
  order, and an interrupt leaves the checkpoint between any two of them.
- **Memory.** No conversation is lost between timer, flush and worker, batches
  do not overlap, no update takes an old memory for the new one. Hard because
  timers rearm themselves, and a cache is told apart from its file by a time
  that is asked for before or after the file was read.
- **Circuit breaker.** A circuit that has closed can trip again, one probe at a
  time in half-open state, and another one after it. Hard because calls that
  were admitted before report into a later state.
- **Sandbox pool.** A run keeps the container it works in; nothing is leaked.
  Hard because docker commands take their time outside the lock, containers are
  called by their names, and every process may die and leave some.
- **Channels.** A conversation has one thread and keeps it; every message is
  answered, once. Hard because handlers run concurrently, runs outlive them, and
  the map is changed before it is saved.
- **Skills.** The history says what a change replaced, and prompts list what is
  enabled now. Hard because agents change skills in threads under a lock that
  requests do not take, and the list is loaded outside any lock.

`PROJECT.json` lists the hazards at their lines with the properties that cover
them, or the reason why none does.

## Modules

| Module | Models |
|---|---|
| `EventLog` | what a bridge promises: a log that grows until sealed, readers that hold its newest events |
| `StreamBridge` | `MemoryStreamBridge`, its readers, cleanup and shutdown; implements `EventLog` |
| `RunLifecycle` | the runs of one thread, from request to end of stream |
| `RunJournal` | the journals of a thread's runs, the three event stores, the clients that page |
| `SubagentTasks` | `executor.py` and `task_tool.py`, for several concurrent tool calls |
| `AgentLoop` | the messages of a thread, from the user's to the end of the run |
| `MemoryQueue` | the debounced queue, its timers and both producers |
| `MemoryStore` | one memory file, its cache and the operations on it |
| `CircuitBreaker` | the circuit and the calls through it |
| `SandboxPool` | the provider, docker, the runs that use it, crashes |
| `ChannelDispatch` | bus, dispatcher, handlers, the map of conversations |
| `Skills` | a skill, its history and settings, the list of enabled skills |
| `MC...` | what TLC runs |
| `...Proofs` | theorems about the model of that name; `MemoryProofs` about both parts of the memory, `AgentProofs` about the agent's loop, its subagents and its breaker |

Models whose theorems share a module keep their names apart: `StoreInit`,
`StoreSpec`, `StoreInv` ... belong to `MemoryStore`, `BreakerInit` ... to
`CircuitBreaker`, `TasksInit` ... to `SubagentTasks`.

Definitions that begin with *Mistake*, or are marked so in their comment, are
plausible slips of the code, written beside the action they replace: each
property is checked to fail when one of them takes that action's place. They are
part of no specification.

### StreamBridge

One run is the general case, since every dictionary of the bridge is keyed by
run. The event loop is single-threaded and no critical section suspends but in
`condition.wait()`, so every operation up to its next suspension is one action.
A reader keeps the `_RunStream` it found: `stream[1], stream[2], ...` are the
objects `_get_or_create_stream` has built, `made` how many, and `present` says
that the newest is still in the dictionary. `counter` is `_counters[run_id]`.
An event is its number; its id (`time-number` in the code) is told apart from
the ids of other objects by the object, which is what the time does.

| Action | Code (`memory.py`) |
|---|---|
| `Publish`, `PublishEnd` | 68-83, eviction included; `NotifyAll` wakes the readers parked on the object |
| `Subscribe` | 85-94, afresh or with a Last-Event-ID the client really holds |
| `Deliver`, `DeliverEnd`, `Wait`, `Heartbeat` | one turn of the loop, 96-123 |
| `Cleanup`, `Close` | 125-133 |
| `Disconnect` | the SSE response is closed (`services.py` 318-349) |

`EventLog` has the same readers and no buffer at all. The refinement maps a log
to the number of events its object has taken, evicted ones included; evicting,
waiting, heartbeats, cleanup and close are stutters.

### RunLifecycle

One thread is the general case. A run's `pc` is the await its request or its
task stands at; an action is what happens until the next await. `RunManager._lock`
is never held across an await that suspends, so it never makes anybody wait.

| Action | Code |
|---|---|
| `CreateOrReject`, `Cancel` | `manager.py` 165-225 and 140-163 |
| `Persist`, `LookupMeta`, `CreateMeta`, `TouchMeta`, `Launch` | the awaits of `create_or_reject` and `start_run` (`services.py` 229-315); `Launch` may raise |
| `NeverStart`, `Start`, `Mark`, `Capture`, `Load` | `run_agent` up to `astream` (`worker.py` 161-275) |
| `GraphStep`, `Succeed`, `Fail`, `Stop` | the loop over the graph and the final status, 271-320, 342-353 |
| `DeliverCancel` | `CancelledError` at whichever await, 322-340 |
| `StoreFinal`, `Restore`, `Complete`, `SyncMeta`, `PublishEnd` | the writes after it, the rollback (411-501) and the finally, 355-392 |

The thread's checkpoint is the set of what went into it: the runs that took a
step, and `History`, what was there before. That is enough to tell a lost
history, a lost contribution and an overwritten one.

### SubagentTasks

Three threads per task: `caller` is `task_tool` on the agent's event loop (and
`cleanup_when_done`, its janitor, after a cancellation), `sched` is `run_task`
on a thread of the pool, `coro` is `_aexecute` on the isolated loop. A step is
what a thread does between two points where another thread can interfere.
`_background_tasks_lock` is held across a step in one place only, between the
test and the write of the timeout handler (`sched = "expiring"`); every step
that takes the lock has `LockFree` as a guard, and the two that write COMPLETED
and FAILED without it (`Store`, `Fail`) have not. Readers read the object's
fields without the lock. A timeout may fire at any moment of its wait.

| Action | Code |
|---|---|
| `ExecuteAsync`, `BeginTask`, `Submit`, `Collect`, `Expire`, `TimeOut`, `Signal` | `executor.py` 640-709 |
| `Begin`, `Stop`, `Finish`, `Store`, `Raise`, `Fail`, `Unwind` | `_aexecute`, 403-556 |
| `Poll`, `ReportEnd`, `Wake` | the polling loop, `task_tool.py` 201-270 |
| `CancelCaller`, `Janitor`, `JanitorWake` | 271-308 |

### RunJournal

The buffer of a run's journal, the batch its flush task writes, and the rows of
the store. `backend` is chosen at the start: a batch is one step in memory, lines
that may stop half-way in files, a transaction in the database that reads the
highest number first and is refused when another run used the next one. An event
is its number within the run. Callbacks record until the run ends; the worker
then waits for the task and flushes in chunks. A follower polls a thread's
messages with its last number, a pager goes forward or backward through those
of a run. A line that is appended only in part leaves its file `torn`: the next
line goes on where it ends, and readers skip the two as one line they cannot
parse. A line that lacks only its newline counts as torn, too. `glued` marks, for
the properties, the runs that have lost a line so.

| Action | Code |
|---|---|
| `ChainStart`, `ChainEnd`, `RecordMessage`, `RecordTrace` | the callbacks, `journal.py` 80-256, with `_put` and `_flush_sync` (260-298) |
| `PutMemory`, `PutJsonl`, `PutJsonlPartly` (with `AppendLines`), `ReadHighest`, `Commit`, `Refused` | `put_batch` of the three stores |
| `Written`, `PutBack` | `_flush_async`, `_on_flush_done`, 300-319 |
| `Finish`, `FlushChunk`, `FlushDone` | the worker's last flush, 358-370 and `worker.py` 355-361 |
| `Follow`, `OpenPager`, `NextPage` | `thread_runs.py` 286-353, `runs.py` 107-134 |
| `Crash` | the end of the process; `_ensure_seq_loaded` afterwards |

### AgentLoop

The nodes of the graph in their order, each one step, since the checkpoint holds
its writes before the next one runs. A message is its type, its calls and an id;
the model answers with any sequence of kinds of calls. `ran` marks the sets of
calls of the window that reached the tools, `used` counts the calls of each tool
that did. `At(s, I)` are the elements of a sequence at some of its indices, in
their order: of an answer the calls that are pending, kept, rescued or refused.
`Coming` are the calls the detector has let through and that have not been run.
A summary keeps the last `Keep` messages; the configuration may also say how much
to keep in tokens, or as a fraction of the model's window, which is not modelled.

| Action | Code |
|---|---|
| `Summarize`, `Rescued`, `SkillResults`, `Selections` | `summarization_middleware.py` 120-319 |
| `Remind`, `End`, `StaysOn` | `todo_middleware.py` 68-179 |
| `Patched` | `dangling_tool_call_middleware.py` 75-149 |
| `Track`, `LoopStop`, `LoopWarn`, `LoopCount` | `loop_detection_middleware.py` 216-307 |
| `Limit` | `subagent_limit_middleware.py` 40-75 |
| `RunTools`, `Results` | clarification and tool errors |
| `Cancel` | an interrupt, error or crash between two nodes |

### MemoryQueue

`_queue` holds one context per conversation, and is a function of it. A turn
stands for an input and its answer; `said` are the turns still in the graph's
state, which a summarization cuts. An armed timer may fire at any moment;
`strays` are armed timers that `_timer` has forgotten.

| Action | Code |
|---|---|
| `AfterAgent`, `BeforeSummarization` | both producers, with `Enqueue` and `ScheduleTimer` (`queue.py` 100-156) |
| `Fire`, `StrayFires`, `Flush`, `FlushNowait` | who enters `_process_queue` |
| `EnterBusy`, `EnterEmpty`, `Take` | its section under the lock, 158-175 |
| `Update`, `Finish` | the batch, 177-204 |

### MemoryStore

A step is what a thread does between two system calls or sections under the
cache's lock. A file's modification time is the version of its content, and 0 is
the time of no file and of a file that could not be asked for it. A read may fail,
which gives an empty memory (`Unread`, with the content's version negated, so
that the properties can tell it from what the file says); `load` caches it under
the file's time, and a change made to it is saved over the file.

| Action | Code |
|---|---|
| `Stat`, `Lookup`, `Read`, `ReadRaises`, `Fill` | `storage.py` `load`, 123-143, with `_load_memory_from_file`, 103-117 |
| `Replace`, `SaveFails`, `Restat`, `Store` | `save` and `reload`, 147-189 |
| `Begin`, `Change`, `GiveUp`, `Return` | the operations of `updater.py` 51-439 |
| `Elsewhere`, `Restart` | another process writes the file; the cache is lost |

### CircuitBreaker

| Action | Code (`llm_error_handling_middleware.py`) |
|---|---|
| `AdmitClosed`, `AdmitProbe`, `FastFail`, `TimePasses` | `_check_circuit`, 86-103 |
| `Succeed`, `FailHalfOpen`, `FailCounted` | `_record_success`, `_record_failure`, 105-136 |
| `Retry`, `BubbleUp`, `Abandon` | how an attempt ends, 208-298 |

### SandboxPool

A sandbox's id and its container's name are computed from the thread, which
stands for both; docker runs at most one container of a name, and a number tells
the containers of a thread apart. A section under `_lock` is one step, and every
docker command is a step of its own. `stop[a]` is the order to stop a container
that an actor has given and docker has not carried out.

| Action | Code (`aio_sandbox_provider.py`) |
|---|---|
| `Enter`, `Reuse`, `Reclaim`, `Miss`, `Discover` | `acquire`, 421-535 |
| `Count`, `Evict`, `Launch`, `NotReady`, `Raise`, `Register` | creation, 540-606, with `local_backend.py` |
| `ToolCall`, `GetAcquired`, `NotFound`, `Begin`, `Release`, `Abandon` | the runs (`sandbox/tools.py` 1051-1107, `middleware.py`) |
| `Sweep`, `Recheck`, `DestroyIdle`, `StopPopped` | the idle checker, 310-374 |
| `Shutdown`, `DestroyActive`, `Exit`, `Crash`, `Restart` | the process, 194-235 and 678-707 |

### ChannelDispatch

A conversation stands for channel, chat and topic. A handler's `pc` is the await
it stands at; the semaphore lets `MaxConcurrency` of them work, in the order of
their messages. The gateway has threads and runs on them, which go on when a
handler has lost its connection. `data` and `disk` are the map in memory and in
its file. A new process starts with the file's, or with no mapping at all when the
file cannot be read or parsed; `apart` says that a failed save or such a start
was the last thing that happened to the store.

| Action | Code |
|---|---|
| `Arrive`, `Dispatch`, `Enter` | `message_bus.py` 131-140, `manager.py` 676-755, 937-950 |
| `Create`, `CreateFails`, `PrepareFails` | 720-776, 952-963, with `SetThread` (`store.py` 87-107) |
| `StartRun`, `EndRun`, `LoseRun` | 778-806 and 848-893 |
| `Answer`, `AnswerFails`, `Apologize` | 808-827, 895-933, 984-1026 |
| `StartManager`, `StopManager`, `StartChannel`, `StopChannel`, `Restart` | start, stop and a new process |

### Skills

One skill. A caller is a tool call, which holds the skill's lock and lets the
event loop go at every file operation, or a request, which keeps the loop
(`turn`) from one await to the next; loading threads come between any two
steps. A content is the number of the operation that proposed it. The history
variables `mixed`, `unrecorded`, `silent` and `misread` mark what the code does
not guard against, so that the properties can say what holds otherwise. A tool
call that is cancelled gives the lock back at once; a thread it has started to
write, record or delete goes on without it (`left`), and ends with that step.

| Action | Code |
|---|---|
| `BeginTool`, `BeginRequest`, `BeginRollback` | up to the first await (`skill_manage_tool.py` 84-148, `routers/skills.py`) |
| `Approve`, `Block`, `Read`, `Write`, `AppendHistory`, `AppendFails`, `Unlink`, `UnlinkFails`, `Install`, `Cancel`, `GoesOn` | scan, write, record (`local_skill_storage.py` 81-183, `installer.py` 134-147) |
| `Toggle`, `Servers`, `WriteConfig`, `WriteFails`, `Reload`, `Elsewhere` | the settings (`routers/skills.py` 310-337, `routers/mcp.py` 138-164) |
| `Invalidate`, `StartWait`, `Ensure`, `Target`, `Files`, `Config`, `LoadFails`, `Fill`, `LoadAgain` | the list of enabled skills (`lead_agent/prompt.py` 21-142) |

## Runs

| Run | Constants | Distinct states | Shows |
|---|---|---|---|
| `bridge` | 2 readers, buffer of 2, 4 events, 2 objects | 36 875 | `IndInv`, the end reaches readers, the refinement of `EventLog` |
| `runs` | 2 runs, a history | 177 854 | `IndInv`, what becomes of the checkpoint, a cancelled run ends its stream |
| `journal` | 2 runs, of 3 and 2 events (of 3 and 1 with files), flush at 2, pages of 1, each of 3 stores | 434 200 | `IndInv`, every event once and in order, nothing appears behind a client, the final flush ends |
| `journal_pages` | the same | | violated: see below |
| `subagents` | 2 tasks, 1 pool thread, poll limit 1 | 262 075 | `TasksInv`, CANCELLED is final, a call returns, cancelled work stops |
| `agent_loop` | 2 user turns, 4 calls, hard limits 3 and 2, window 3, 1 subagent, 2 reminders, all but 2 messages summarized | 247 922 | `IndInv`, requests are well-formed, the list is shown, loops are stopped, runs end unless reminders are cut for ever |
| `memory_queue` | 2 conversations, 2 turns, 2 worker threads | 36 500 | `IndInv`, signals survive, the queue drains |
| `memory_store` | 2 actors, 2 facts, at most 1 kept, 2 replacements | 2 115 326 | `StoreInv`, changes are made to what the file says, or to nothing after a failed read of it |
| `breaker` | 3 callers, threshold 2, 3 attempts | 3 486 | `BreakerInv`, a probe gives its flag back |
| `sandbox` | 2 runs of one thread, a container of another thread, soft limit 1, 2 containers | 39 259 | `IndInv`, nothing is forgotten, entries keep their container, idle containers are stopped while docker answers |
| `channels` | 3 messages, 2 conversations, 4 threads of which 1 known, 2 handlers | 80 489 | `IndInv`, a conversation keeps its thread, every message is answered |
| `skills` | 2 callers, 2 loading threads, 3 operations | 948 108 | `IndInv`, the history is true, the list of skills is current, a refresh returns, and with the new list |

The `IndInv` of a module (`TasksInv`, `StoreInv`, `BreakerInv`) is its type
invariant, its safety invariants and the strengthening its proofs need, so a run
of it checks all of them. Where it implies an invariant that the run names as
well (`RequestPaired`, `HistoryTrue`, `CacheCurrent`), that is proved too.

Why the bounds are enough:

- *StreamBridge.* A buffer of two events and a stream of four evict twice, so
  that a reader can fall behind by more than one, and a client's last id can be
  retained, evicted or unknown. Two objects are needed for an entry that is
  dropped and built again under a reader of the old one.
- *RunLifecycle.* Two runs give every interaction of an old run with the one
  that replaced it, at every pair of awaits, and every cancellation of either.
- *RunJournal.* With three events and a threshold of two there is a flush by a
  callback, an event recorded while it is under way and a final flush of the
  rest. The second run collides with the first one's numbers; with files, where a
  batch may break off at every line, one event of it is enough for that. Three
  events are also a line that is torn, one that is lost and one that is legible
  again. Pages of one message give a page, a next one and an end.
- *SubagentTasks.* Two tasks and one thread give contention for the pool and for
  the lock. A limit of one poll gives a first poll, a second one and the giving up.
- *AgentLoop.* Four calls pass a warning and reach the hard limit of three,
  once with the same calls and once with one tool; two turns bring the window,
  list and warnings of an old run into a new one; a summary of all but two
  messages can cut a call from its result, a list from what follows it, and both
  of the reminders (the code's own number) so that they are counted afresh.
- *MemoryQueue.* Two workers overlap, a third finds nothing new. Two turns let a
  newer context replace one that waits. `MaxEntering` bounds the threads that
  wait for the lock.
- *MemoryStore.* Two replacements are what it takes for a time to be newer than
  a content and for the content to be replaced again, and for a failed read to be
  superseded. Actors and facts are interchangeable, so the run is reduced by
  symmetry; it checks no liveness.
- *CircuitBreaker.* A probe, a call older than the opening and one that is
  refused make three; a threshold of two has one failure that does not trip.
- *SandboxPool.* Two runs share a thread's sandbox; a soft limit of one makes
  every creation evict; the container of another thread is left by an earlier
  process. `MaxContainers` bounds how often docker starts one.
- *ChannelDispatch.* A streamed chat, a waiting chat and a command (which may be
  `/new`) of one conversation, with two handlers at work while the third message
  waits, beside a conversation that only the file knows, and that a start without
  the file forgets.
- *Skills.* Two operations overlap, also one and the thread another has left
  behind, and one is before or after them. Both
  loading threads are needed for a load that is overtaken.

Deadlock is not checked where the system may stop (all clients gone, all runs,
tasks or messages over): `StreamBridge`, `RunLifecycle`, `RunJournal`,
`SubagentTasks`, `AgentLoop`, `MemoryQueue`, `ChannelDispatch`, `Skills`. It is
checked for `CircuitBreaker`, `MemoryStore` and `SandboxPool`.

What the properties say:

- **Bridge.** `OffsetsMatchIds`: ids, list positions and `start_offset` stay in
  step although counter and object are dropped and rebuilt separately.
  `CursorSound`, `InOrderNoSkip`: no reader, reconnecting or lagging, misses a
  retained event or sees one again. `EndIsComplete`: the end comes after the
  newest event. `AppendOnly`: an ended object never changes. `EndReachesReaders`:
  no wake-up is lost, without the help of the heartbeat.
  `ImplementsEventLog`: the bridge refines `EventLog`.
- **Runs.** `AtMostOneLive`: one run in flight that nobody aborted.
  `AbortedNeverSucceeds`, `SettledIsFinal`: how late an abort may come.
  `EndedAgrees`: at the end of the stream registry and store tell the same final
  status. `MetaQuiesces`: the metadata row does not say running when all is
  over. `SerialUnlessAborted`: without aborts no successful run's contribution
  to the checkpoint is lost. `HistoryKept`: the thread's history is lost only
  through a rollback that had no snapshot, and never through a failed capture.
  `CancelReachesEnd`: a cancellation inside `run_agent` leads to the end of the
  stream.
- **Journal.** `ExactlyOnce`: store, batch and buffer together are what the run
  recorded, in its order, where a batch is atomic; `AtLeastOnce` for files, unless
  a line was appended to a torn one. `EndedIsStored`: the worker that went on has
  all of it in the store, with the same exception.
  `SeqUnique`, `NoneSkipped`: a client that asks for what follows its last
  number misses nothing, although numbers are drawn concurrently.
  `ForwardComplete`: so does paging. `FlushEnds`: the worker does not stay in its
  last flush, whether the writes of it and of the pending task succeed or not.
- **Subagents.** `RemovedHasEnded`, `NeverDisappears`: who may remove an entry,
  and when. `CompletedHasResult`: the order of the unlocked writes suffices.
  `CancelledIsFinal`: neither timeout nor agent overwrites a cancellation.
  `CallerReturns`, `CancelledWorkStops`: the two nets under a stuck agent.
- **Agent loop.** `RequestPaired`: calls and results stand together in what the
  model is sent, after an interrupt at any node, refused calls and summaries.
  `ListSeen`: the model is shown a list that is not older than the one in the
  state, in a call or a reminder, after summaries, rescued skill reads, refused
  and interrupted calls. An older list in sight does not do. A newer one may be
  that of a call that was refused or interrupted, which the middleware takes for
  the list (H36); the property says no more than the code does.
  `RepeatsStopped`, `FrequencyStopped`: how often the same calls, and the calls
  of one tool, reach the tools, with what the warnings leave uncounted.
  `RunEnds`: a run ends unless the reminders that were counted for its cap are
  summarized away again and again, in which case it need not (see below).
- **Memory.** `QueuedHasTimer`, `OneBatch`, `KeptUnlessSummarized`,
  `CorrectionKept`, `QueueDrains` for the queue. For the file, what holds unless a
  replacement comes between a file and its time (`raced`), and what a failed read
  may do: `CacheTrueUnlessRaced`, an entry that is taken for the file's is the
  file's, or empty after a failed read of what the file still says;
  `FreshUnlessRaced`, a load that was told the time returns nothing older than its
  operation; `BasedOnFile`, a change that nobody came between starts from what the
  file says, or from nothing when a read of that very content has failed (and so
  an old content never comes back); `CacheWasSaved`, nothing that was not saved
  is in the cache.
- **Breaker.** `ClosedBelowThreshold`: it can always trip again. `OneProbe`: one
  probe until a call older than the opening reports. `ProbeResolved`: and
  another after it.
- **Sandbox.** `OnePlace`: no entry is overwritten. `NothingForgotten`: what runs
  is known or about to be stopped. `ServedUnlessCondemned`: what is in a map
  runs, unless it was adopted under an order to stop it. `IdleStopped`: nothing
  runs for ever unused, also after crashes, as long as the process stays up in the
  end and no `docker stop` hangs.
- **Channels.** `SettledStays`: only `/new` moves a conversation that has a thread,
  with or without a topic. `OneAnswer`, `Answered`: one answer, always.
  `SavedUnlessFailed`: memory and file differ only between a failed save, or a
  start that could not read the file, and the next save. `IndInv` also says that
  threads are not shared (`OneConversation`).
- **Skills.** `HistoryTrue`: a record says what its change replaced, and the last
  one what the file is, unless calls that nothing keeps apart have met (a request
  and a tool call, or the thread of a cancelled call and another), or a record or
  deletion was broken off. `CacheCurrent`: the list is what a load would give,
  unless the change was never announced. `ReturnsFresh`, `RefreshReturns`: a
  refresh comes back, and not before its load.

## Fairness

- `StreamBridge!FairSpec`: a generator that can take a turn is resumed by the
  event loop (`WF` on `Turn(c)`). The worker and the heartbeat get none.
- `RunLifecycle!FairSpec`: a task whose await has completed is resumed, and the
  stores answer (`WF` on `Worker(r)`). Clients and the graph get none: a model
  call may take as long as it likes.
- `RunJournal!FairSpec`: for each run the worker goes on with its flush and the
  store answers, well or badly (`WF` on the flush of the run as a whole).
- `SubagentTasks`: fairness is the hypothesis of a property. `CancelledWorkStops`
  assumes `LoopsRun`: event loops and pool threads run what is ready, and timers
  fire. The agent gets none: it may hang in a tool. `CallerReturns` assumes only
  the caller's loop and the holder of the lock (`CallerRuns`). Weak fairness is
  enough for steps that wait for the lock or a thread, since each task holds
  them a finite number of times.
- `AgentLoop!FairSpec`: a node that can run does, the model's and the tools'
  included. Users and interrupts get none.
- `MemoryQueue!FairSpec`: timers fire, the lock is given to a thread that waits,
  and the updater, whose model call has a timeout, comes back.
- `CircuitBreaker!BreakerFairSpec`: an attempt ends, since clients time out.
- `SandboxPool!FairSpec`: time passes, the checker's thread runs and an ended
  process is started again. Docker gets none: `docker run` and `docker stop` are
  called without a timeout (`local_backend.py` 559, 567-578). The hypotheses of
  `IdleStopped` are that the process stays up in the end and that orders to stop
  do not stay out for ever (`StopsEnd`), which would hold up the checker. Runs get
  none either.
- `ChannelDispatch!FairSpec`: the dispatcher's loop runs, some handler that can
  go on does, and a run of the gateway ends.
- `Skills!FairSpec`: loading threads run and a call that waits starts to wait.

## Proofs

Every theorem is checked by `tlapm` to its last leaf, and assumes only the named
assumptions on the constants at the head of its module: bounds and limits are
naturals, thresholds and capacities not zero (`SizeAssumption`,
`BoundAssumption`, `WorkersAssumption`, `ThresholdAssumption`,
`CapacityAssumption` and the like), the functions from runs to threads and from
messages to conversations are functions, `None` is not a value, a run is not a
part of the history (`HistoryAssumption`), the idle checker is not a run
(`SweeperAssumption`), there is a loading thread (`LoadersAssumption`),
skill reads and subagent tasks are not the tool that writes lists
(`ToolAssumption`), and the model has finitely many answers, one of them without calls
(`AnswersAssumption`).

For every model `Spec => []IndInv` is proved by one lemma per part of `IndInv`
with one step per action, and the named properties are derived from it.

**StreamBridge.** `IndInv` is `TypeOK`, `OffsetsMatchIds`, `CursorSound`,
`EndIsComplete` and `Founded`. The last is needed because the others speak of
objects by number: that objects not built yet are new, that readers are attached
to built ones and that no client holds an event its object has not taken. The
lemmas say once what appending with eviction does to an object (`RetainFacts`),
what `_resolve_start_offset` returns (`ResolveFacts`), and that growth of an
object keeps every cursor sound (`GrowthIsSound`). `Refinement` shows that each
step is a step of `EventLog` or a stutter.

**RunLifecycle.** The invariants are not inductive by themselves. `Standing`
says what a run's record can hold at each await; `MetaOwned`, that the row says
running only while some run will still write it; `GraphCurrent`, that without
aborts the only graph at work holds the checkpoint itself; `HistoryHeld`, that
until a blind rollback every snapshot and every graph's state has the history
in it. Each is kept by a lemma with one step per action; steps that touch several
runs at once go through `AbortFacts`, `CreateFacts` and `CancelFacts`.

**RunJournal.** For a memory or a database store `ExactlyOnce` is inductive when
it is read as a layout: there is an n such that the rows are the first n events
of the run and the queue, batch and buffer together, are the others in their
order. Recording makes the queue longer, a chunk moves within it, a refused
batch comes back to where it was, and a batch that is written moves n on. For
files, all lines but the first of a batch are legible, and that one unless the
file was torn (`Legible`, `LegibleFacts`), which is what `AtLeastOnce` excepts.
`QueuedIsKnown` and `PhasesFit` say that what waits was recorded and that a run
that is over writes nothing more; with them `EndedIsStored` follows, since the
worker goes on only when nothing waits. `Top` and `CounterAhead` say that there is
a highest number and that every store draws new ones behind it (`GrowsFacts`):
from that follow `SeqUnique`, and with `FollowerBehind`, that a client is never
ahead of the store, `NoneSkipped`. `Paging` is `ForwardComplete` made inductive: a
client has every message up to its cursor, since the first k of a set of numbers
are closed downwards (`FirstIsClosed`), and all of them when fewer than a page
were left (`FirstIsAll`).

**Skills.** `Apart` is the heart of `HistoryTrue`: tool calls exclude each other by
the skill's lock, requests by the event loop they hold (`LoopHeld`), and one of
each kind, or the thread of a cancelled call and anybody, change the skill at a
time only in a history marked `mixed`. A call goes on from a thread or ends with
it (`LeaveFacts`). Outside of that a
caller that is about to write still knows what the file says (`ChangeKnown`), and
the last record of the history says what the file is (`HistoryKnown`), where a
deletion counts as done once it is recorded. For the list of skills, `Dirty` says
that somebody still has an invalidation to announce; while nobody has, what a
load of the newest version has read, and what the cache holds, is what a load
now would find (`LoadCurrent`). The settings a load sees are those `Meant` while
the file is being written. `Versions` orders the numbers of invalidations; with
it a refresh cannot return before its load (`ReturnsFresh`, an action property),
since the event it waits for is set by the load of the newest version only.

**AgentLoop.** `RequestPaired` rests on `Standing`: no two calls have one id, and
each result follows the answer it belongs to with nothing but results between
them. `AnswerLast` says that from the model to the tools the last answer is at
the end, so that results are added where they belong. Most of the proof is about
histories, not about steps: what `FlattenSeq` and `At` compute for sequences of
every length (`FlattenFacts`, `AtFacts`), by the least length for which it would
be wrong; that a history stays sound when messages, and calls with their
results, are dropped from it (`SoundThinned`), when results or a note are added
(`SoundResults`, `SoundNote`), or when two that share no call are joined
(`SoundJoined`), of which a summary with rescued skill reads is made; and that a
sound history is well-formed once it is patched (`PatchedIsPaired`), since
patching moves the block of results of an answer in one piece behind the new
ones (`BlockPositions`). `ListSeen` needs `ListsInOrder`: a list that stands anywhere
in the messages, at whatever node, is followed by (or is) one not older than the
state's, outside an answer that may still lose its calls. The lemmas before it
say what appending, summarizing, rescuing skill reads and cutting calls do to
that order (`OrderAppended`, `OrderBetween`, `OrderRest`, `OrderReplaced`,
`RescuedHides`). `RepeatsStopped` needs `NotTooMany`, that the calls on their way to
the tools are below the limit. `FrequencyStopped` needs `Charged`: what a tool was
used and will be used for is in its count or charged to a warning, of which
there is one for each set of calls and each tool (`SlackSums` and the lemmas
after it).

**SubagentTasks.** `StatusFits` ties the status to the places of the three
threads, `ListedWhileNeeded` the entry to its caller, `PollsLeft` the polls to
the limit, `ResultFirst` and `CancelledAlone` are the strengthenings of
`CompletedHasResult` and `CancelledIsFinal`: that while the timeout handler
holds the lock nobody can become cancelled is what makes CANCELLED final, and no
more can be said of TIMED_OUT. `StatusFits` also shows that the second half of
the test in `cleanup_background_task`, `completed_at is not None`, is implied by
the first.

**MemoryQueue.** `OneBatch` follows from `BusyIsProcessing` and `IdleHasNoBatch`:
who works has set `_processing`. `KeptUnlessSummarized` rests on `Repeated`: a
context that waits holds only turns that the state still has, so that the one
that replaces it holds them too. That is exactly what a summarization breaks.

**MemoryStore.** `Source` is the content that a memory comes from, the empty one of
a failed read included. `Past`: nothing comes from the future, and what is
unchanged and comes from the file's version is the file's content, or empty.
`NotAhead`: unless raced, a time taken for a content is not newer than it. `Began`:
a load that has begun, and was told a time, was told one that is at least as new
as the operation.

**CircuitBreaker.** `ProbeCalls`: only a call in flight is a probe. With it
`OneProbe` is inductive, under the condition that no stray call has reported.

**SandboxPool.** `OneCreator` is what the lock of the thread gives, `Nothing`
what a new process finds, `OneOrder` that nobody gives two orders to stop,
`ReadyOf` that what is registered still runs. `Uncondemned` is
`ServedUnlessCondemned` made inductive: a container in a map runs and no order
to stop it is out.

**ChannelDispatch.** `Consistent`: threads in use are those created, a message is
in the one place its handler is at, and unanswered until it is done. From it
follows that a thread the gateway creates is new to every conversation.

Every safety invariant and every action property that a run checks is stated by
a theorem. Only model-checked is liveness, which TLAPS does not reach:
`EndReachesReaders`, `CancelReachesEnd`, `CallerReturns`, `CancelledWorkStops`,
`QueueDrains`, `ProbeResolved`, `IdleStopped`, `Answered`, `FlushEnds`, `RunEnds`
and `RefreshReturns`. `BackwardComplete` is false of the code (see below) and so
only has a run. The induction theorems of the prover's library take an operator
as a parameter, which its provers cannot instantiate; what is shown of sequences
of every length is shown from the least counterexample instead (`LeastOf`,
`UpTo`), which rests on the well-foundedness of the naturals alone.

## Where code and documentation differ

| Run | Property | What happens |
|---|---|---|
| `journal_pages` | `BackwardComplete` | the newest message of each backward page is cut off and never shown (`thread_runs.py` 353, `runs.py` 133) |

Seen while modelling, each allowed by a model and excepted by name in the
properties it would break, without a run of its own:

- *Bridge.* A client that joins after the delayed cleanup waits on a new stream
  that nobody ends.
- *Runs.* `set_status(running)` resurrects a run that was interrupted before its
  task began; a rollback before the snapshot deletes the thread's checkpoints; a
  request that fails after the registration leaves a pending run that blocks the
  thread; a task cancelled before its first step never ends its stream.
- *Subagents.* TIMED_OUT is overwritten by a late COMPLETED or FAILED; a poller
  may remove an entry that `run_task` is about to write (`KeyError`); nobody
  removes the entry of a task whose poller gave up.
- *Journal.* Callbacks in threads of an executor find no running loop and only
  buffer; every chain, not only the outermost, records `run.end`; a file's batch
  that stopped half-way is written again from its start, and when it stopped in
  the middle of a line, that end and the next line are one line that readers skip.
- *Agent loop.* A refused or interrupted `write_todos` counts as the list being in
  sight (`todo_middleware.py` 57-65); the reminder of open todos undoes a forced
  stop; its cap is to prevent infinite loops (113-114, 132-133), but is counted
  over the messages that summaries have left, so that with a summary of nearly all
  messages reminders and summaries may follow each other for ever, and over the
  thread, not the run; a
  warning about repeated calls returns before calls are counted by tool; calls
  are hashed before excess tasks are cut. The gateway builds the middlewares
  for every run, `DeerFlowClient` keeps them (`client.py` 210-252).
- *Memory.* Turns that a summarization hands over are filed for no user
  (`summarization_hook.py` 25). A file that cannot be opened or parsed becomes an
  empty memory under the file's time, and the next change saves it over the file
  (`storage.py` 115-117); one that is not text raises instead.
- *Breaker.* A half-open probe that is cancelled leaves its flag set.
- *Sandbox.* A container popped from the warm pool can be adopted again before
  docker stops it (`condemned`). The docstrings of `release`
  (`aio_sandbox_provider.py` 626-628) and of `SandboxMiddleware` (`middleware.py`
  28-29) say that a released container is stopped by eviction or at shutdown only;
  the idle checker stops it too (326-368), as `IdleStopped` says.
- *Channels.* `message_bus.py` 41-43 says of messages without a topic that each
  creates a new thread; the code keeps one thread for their chat (`store.py` 79-82,
  `manager.py` 747-755, as its comment and `test_channels.py` 1269-1270 have it),
  and `SettledStays` follows the code. Two first messages of a conversation create
  two threads although the same docstring promises one to a `topic_id`. A store
  file that cannot be read counts as empty and the next save writes over it
  (`store.py` 50-54). A chat on a busy thread gets the generic
  error unless it streams; commands and errors look a thread up without topic.
- *Skills.* Requests and tool calls share no lock, so that a patch can overwrite
  an edit and the history's `prev_content` be wrong (`mixed`); a failed history
  write after the file's write leaves the list stale (`silent`); the thread of a
  cancelled tool call goes on without the skill's lock (`skill_manage_tool.py` 63-64, 93), so that it may
  write under another call (`mixed`) and nobody announces what it wrote (`silent`);
  a deletion is recorded before `rmtree`, which may fail
  (`local_skill_storage.py` 164-174), and leaves a skill that its history calls
  deleted (`unrecorded`); the router's write of the settings is not atomic, so that a load meanwhile enables
  everything (`misread`); toggling a skill writes the resolved `$VAR` values of
  MCP servers to the file; `DeerFlowClient` changes skills without invalidating
  the list.

## What is not modelled

The definitions of the models stand for about a tenth of the repository's code:
the part in which something can come in a wrong order. The rest is mostly
platform clients, tools that wrap one file or shell operation, parsing of
configuration, prompts and construction of library objects.

- *Bridge*: nothing that changes state. `queue_maxsize` is taken to be positive.
- *Run lifecycle*: failed writes of the stores (they are logged and ignored),
  restart of the gateway (nothing is read back), deletion of a thread while it
  runs, `RunManager.create`, `has_inflight` and `cleanup` (without a caller in
  the gateway), the texts of errors, the title synced at the end. The graph, the
  checkpointer and asyncio's rule for a task cancelled before its first step are
  external.
- *Journal*: deletion of events (no caller), counts and sums of tokens, contents
  and their truncation, callbacks after the final flush, a commit whose
  acknowledgement is lost.
- *Subagents*: the synchronous `execute`, the messages the poller forwards while
  it waits, the text of errors (a poller may read FAILED before its message),
  the making of the agent, start and shutdown of the isolated loop. A tool call
  id is used once.
- *Agent loop*: uploads, images, title, token usage, guardrails, the sandbox audit
  and the deferred tools, none of which touches calls and results; the eviction
  of tracked threads; the recursion limit; what to keep of a summary in tokens or
  as a fraction.
- *Memory*: a file that is deleted elsewhere, `clear` and `reset` of the queue
  (tests only), prompts and the parsing of answers, the choice of facts by
  confidence, other storage classes.
- *Breaker*: how errors are told apart by text and code (a free choice).
- *Sandbox*: anonymous sandboxes, the remote backend, a second process, ports, a
  shutdown in the middle of a round of the checker, the tools' file operations.
- *Channels*: the platforms' clients, files, intermediate texts, the removal of
  mappings (no caller).
- *Skills*: supporting files, validation and scanning of contents, several skills.
- *Authentication*: access control is outside the scope of this project. Its
  state is the users' table and counters of attempts per address, each read and
  written within one turn of the event loop.
- *Checkpointer and store providers, uploads, configuration, models, tools,
  tracing*: construction of library objects, parsing and I/O, with no protocol
  between concurrent parts.
- *MCP*: a cache keyed by a file's modification time, which it asks for after
  loading (`mcp/cache.py` 71-73), as `MemoryStore` shows for memory.

## Plan

Done: the twelve models of the table, and theorems for every safety property of
each (`EventLog` through the refinement). Left, in this order:

1. Abstract specifications in the manner of `EventLog`: of the journal as a log of
   each run that grows by batches, of the queue as a set of turns to remember,
   with proofs that the models implement them.
2. `RunStreaming`: `RunLifecycle` composed with `StreamBridge`, for what a client
   sees of a run from request to end: a status that only moves forward, a log
   that ends with it.
3. The MCP tools' cache and the platform clients of `app/channels`, with
   their reconnections.
4. Larger instances of `RunLifecycle` and `SubagentTasks`: three runs, three tasks.
