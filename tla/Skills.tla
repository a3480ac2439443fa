------------------------------- MODULE Skills -------------------------------
(***************************************************************************)
(* A custom skill: its SKILL.md and history, the tool calls of agents and  *)
(* the requests of the API that change them, the file of settings that     *)
(* says whether the skill is enabled, and the list of enabled skills that  *)
(* prompts are made of (agents/lead_agent/prompt.py), which threads reload *)
(* after every change.                                                     *)
(*                                                                         *)
(* Every change is invalidated and waited for by the one who made it,      *)
(* unless the call fails or is cancelled in between.  A step is one        *)
(* operation on a file or one section under a lock: what the tool does in  *)
(* threads and the loading threads come between any two, while a request   *)
(* keeps the event loop (turn) between two awaits.  A content is the       *)
(* number of the operation that proposed it.                               *)
(***************************************************************************)
EXTENDS Naturals, Sequences

CONSTANTS Callers,   \* tool calls and requests at a time
          Loaders,   \* threads of _refresh_enabled_skills_cache_worker
          None,
          MaxOps     \* bound: operations

ASSUME BoundAssumption == MaxOps \in Nat
ASSUME NoneAssumption == None \notin Nat /\ None \notin Callers
ASSUME LoadersAssumption == Loaders # {}

VARIABLES
  file,      \* SKILL.md: its content, or None
  history,   \* .history/<name>.jsonl
  config,    \* extensions_config.json: whether the skill is enabled, or Torn
  settings,  \* _extensions_config: the same
  lock,      \* the tool call that holds the lock of the skill, or None
  turn,      \* the request that runs on the event loop, or None
  call,      \* of each caller: where its call is (pc), the operation, the content it will
             \* write (text) and the one it has read (base, prev_content of its record), the
             \* version its invalidation made (ticket), and whether it was cancelled and only
             \* its thread goes on (left)
  started,   \* number of operations so far
  cache,     \* _enabled_skills_cache: whether the skill is in the list, and with which content
  version,   \* _enabled_skills_refresh_version
  active,    \* _enabled_skills_refresh_active
  event,     \* _enabled_skills_refresh_event
  loader,    \* of each loading thread: where it is, and what it has read
  filled,    \* history: the version the cache was filled for last
  mixed,     \* history: a tool call and a request, or the thread of a cancelled tool call
             \* and another call, have changed the skill at a time
  wrong,     \* history: before they were mixed, a change has replaced another
             \* content than it recorded
  unrecorded,\* history: the last change was not recorded, or the last record not carried out
  silent,    \* history: a change after the last invalidation has not been announced
  misread    \* history: the last load failed, or read settings that were being written

fileVars == <<file, history, unrecorded, wrong, mixed>>
configVars == <<config, settings>>
callVars == <<lock, turn, call, started>>
cacheVars == <<cache, version, active, event, loader, filled, misread>>
vars == <<fileVars, configVars, callVars, cacheVars, silent>>

-----------------------------------------------------------------------------
Content == 1 .. MaxOps
State == {"on", "off"}
Torn == "torn"   \* the file while it is being written
Record == [prev : Content \cup {None}, new : Content \cup {None}, done : BOOLEAN]
Unset == 0      \* the cache is None

Tool == {"create", "edit", "patch", "erase"}
Request == {"put", "remove", "rollback", "install"}
Setting == {"toggle", "servers"}
Removing == {"erase", "remove"}
Places == {"idle", "scan", "read", "write", "record", "unlink", "move", "config", "reload",
           "invalidate", "refresh", "waiting"}
Fresh == [at |-> "idle", target |-> 0, found |-> None, on |-> TRUE]

TypeOK ==
  /\ file \in Content \cup {None} /\ history \in Seq(Record)
  /\ config \in State \cup {Torn} /\ settings \in State
  /\ lock \in Callers \cup {None} /\ turn \in Callers \cup {None}
  /\ call \in [Callers -> [pc : Places, op : Tool \cup Request \cup Setting,
                           text : Content \cup {None}, base : Content \cup {None},
                           ticket : Nat, left : BOOLEAN]]
  /\ started \in 0 .. MaxOps
  /\ cache \in Content \cup {None, Unset} /\ version \in Nat /\ filled \in 0 .. version
  /\ active \in BOOLEAN /\ event \in BOOLEAN
  /\ mixed \in BOOLEAN /\ wrong \in BOOLEAN /\ unrecorded \in BOOLEAN
  /\ silent \in BOOLEAN /\ misread \in BOOLEAN
  /\ loader \in [Loaders -> [at : {"idle", "target", "files", "config", "fill"}, target : Nat,
                             found : Content \cup {None}, on : BOOLEAN]]
  \* The flag stands for the one thread that loads.
  /\ active <=> \E w \in Loaders : loader[w].at # "idle"
  /\ \A v, w \in Loaders : loader[v].at # "idle" /\ loader[w].at # "idle" => v = w
  \* A tool call that is not cancelled holds the lock of the skill.
  /\ \A c \in Callers : call[c].pc # "idle" /\ call[c].op \in Tool /\ ~call[c].left => lock = c

NoCall ==
  [pc |-> "idle", op |-> "create", text |-> None, base |-> None, ticket |-> 0, left |-> FALSE]

Init ==
  /\ file = None /\ history = << >> /\ config = "on" /\ settings = "on"
  /\ lock = None /\ turn = None
  /\ call = [c \in Callers |-> NoCall]
  /\ started = 0
  /\ cache = Unset /\ version = 0 /\ filled = 0 /\ active = FALSE /\ event = FALSE
  /\ loader = [w \in Loaders |-> Fresh]
  /\ mixed = FALSE /\ wrong = FALSE /\ unrecorded = FALSE /\ silent = FALSE
  /\ misread = FALSE

-----------------------------------------------------------------------------
(* The operations.                                                         *)

OpenLoop == turn = None
\* Calls are alike: the next one takes the first place that is free.
Free(c) == call[c].pc = "idle" /\ c = CHOOSE d \in Callers : call[d].pc = "idle"

\* A request goes on until its next await; a tool call leaves the loop to others.
Goto(c, place) == call' = [call EXCEPT ![c].pc = place]
Give(c) == /\ turn' = IF turn = c THEN None ELSE turn
           /\ lock' = IF lock = c THEN None ELSE lock
\* What the call has read is forgotten once it is recorded.
Announce(c) == call' = [call EXCEPT ![c] = [NoCall EXCEPT !.pc = "invalidate", !.op = call[c].op]]
\* The call returns or raises.
Return(c) == call' = [call EXCEPT ![c] = NoCall] /\ Give(c)

Begin(c, o, place, text, base) ==
  /\ Free(c) /\ OpenLoop /\ started < MaxOps
  /\ started' = started + 1
  /\ call' = [call EXCEPT ![c] = [pc |-> place, op |-> o, text |-> text, base |-> base,
                                  ticket |-> 0, left |-> FALSE]]
  /\ UNCHANGED <<cacheVars, configVars, silent, file, history, unrecorded, wrong>>

\* Whether calls that nothing keeps apart are changing the skill at a time.
Changing == {"scan", "read", "write", "record", "unlink", "move"}
Meets(c, kind) ==
  mixed' = (mixed \/ \E d \in Callers \ {c} : call[d].pc \in Changing /\ call[d].op \in kind)

\* skill_manage: the lock, then the checks of the action.
BeginTool(c, o) ==
  /\ lock = None /\ lock' = c /\ (o = "create" <=> file = None)
  /\ IF o = "erase" THEN Begin(c, o, "record", None, file)
     ELSE Begin(c, o, "scan", started + 1, IF o = "edit" THEN None ELSE file)
  /\ Meets(c, Tool \cup Request)
  /\ UNCHANGED turn

\* update_custom_skill, delete_custom_skill, install_skill up to their first await.
BeginRequest(c, o) ==
  /\ o # "rollback" /\ (o = "install" <=> file = None)
  /\ IF o = "remove" THEN Begin(c, o, "record", None, file) /\ turn' = c
     ELSE Begin(c, o, "scan", started + 1, None) /\ UNCHANGED turn
  /\ Meets(c, Tool)
  /\ UNCHANGED lock

\* rollback_custom_skill takes the content from a record of the history.
BeginRollback(c, i) ==
  /\ history[i].prev # None
  /\ Begin(c, "rollback", "scan", history[i].prev, None)
  /\ Meets(c, Tool)
  /\ UNCHANGED <<lock, turn>>

\* Mistake: a request hands its file operations to threads.
MistakeApprove(c) ==
  /\ call[c].pc = "scan" /\ OpenLoop
  /\ Goto(c, CASE call[c].op \in {"create", "patch"} -> "write"
               [] call[c].op \in {"edit", "put", "rollback"} -> "read"
               [] call[c].op = "install" -> "move")
  /\ UNCHANGED <<fileVars, configVars, lock, turn, started, cacheVars, silent>>

\* The scanner lets the content through.
Approve(c) ==
  /\ call[c].pc = "scan" /\ OpenLoop
  /\ turn' = IF call[c].op \in Request THEN c ELSE None
  /\ Goto(c, CASE call[c].op \in {"create", "patch"} -> "write"
               [] call[c].op \in {"edit", "put", "rollback"} -> "read"
               [] call[c].op = "install" -> "move")
  /\ UNCHANGED <<fileVars, configVars, lock, started, cacheVars, silent>>

\* It does not: the call fails, and a rollback says so in the history.
Block(c) ==
  /\ call[c].pc = "scan" /\ OpenLoop
  /\ history' = IF call[c].op = "rollback"
                THEN Append(history, [prev |-> file, new |-> call[c].text, done |-> FALSE])
                ELSE history
  /\ Return(c)
  /\ UNCHANGED <<file, unrecorded, wrong, mixed, configVars, started, cacheVars, silent>>

Read(c) ==
  /\ call[c].pc = "read"
  /\ IF file = None /\ call[c].op # "rollback" THEN Return(c)
     ELSE /\ call' = [call EXCEPT ![c].pc = "write", ![c].base = file]
          /\ UNCHANGED <<lock, turn>>
  /\ UNCHANGED <<fileVars, configVars, started, cacheVars, silent>>

\* A function of the storage has returned: the call goes on, unless it was cancelled.
GoesOn(c, go) == IF call[c].left THEN Return(c) ELSE go /\ UNCHANGED <<lock, turn>>

\* write_custom_skill replaces the file whole.
Write(c) ==
  /\ call[c].pc = "write"
  /\ file' = call[c].text /\ wrong' = (wrong \/ (~mixed /\ file # call[c].base))
  /\ unrecorded' = TRUE /\ silent' = (silent \/ call[c].left)
  /\ GoesOn(c, Goto(c, "record"))
  /\ UNCHANGED <<history, mixed, configVars, started, cacheVars>>

\* append_history; a deletion records first.
AppendHistory(c) ==
  /\ call[c].pc = "record"
  /\ history' = Append(history, [prev |-> call[c].base, new |-> call[c].text, done |-> TRUE])
  /\ unrecorded' = FALSE
  /\ IF call[c].op \in Removing THEN Goto(c, "unlink") /\ UNCHANGED <<lock, turn>>
     ELSE GoesOn(c, Announce(c))
  /\ UNCHANGED <<file, wrong, mixed, configVars, started, cacheVars, silent>>

\* A write that fails raises, after the file was changed; a deletion may go on without it.
AppendFails(c) ==
  /\ call[c].pc = "record"
  /\ \/ call[c].op \notin Removing /\ silent' = TRUE /\ Return(c) /\ UNCHANGED unrecorded
     \/ call[c].op \in Removing /\ Return(c) /\ UNCHANGED <<silent, unrecorded>>
     \/ call[c].op \in Removing /\ unrecorded' = TRUE /\ Goto(c, "unlink")
                           /\ UNCHANGED <<lock, turn, silent>>
  /\ UNCHANGED <<file, history, wrong, mixed, configVars, started, cacheVars>>

\* The end of delete_custom_skill.
Unlink(c) ==
  /\ call[c].pc = "unlink"
  /\ file' = None /\ wrong' = (wrong \/ (~mixed /\ file # call[c].base))
  /\ silent' = (silent \/ call[c].left)
  /\ GoesOn(c, Announce(c))
  /\ UNCHANGED <<history, unrecorded, mixed, configVars, started, cacheVars>>

\* rmtree raises, after the deletion was recorded: before it has removed SKILL.md, or after.
UnlinkFails(c) ==
  /\ call[c].pc = "unlink"
  /\ \/ unrecorded' = TRUE /\ UNCHANGED <<file, wrong, silent>>
     \/ /\ file' = None /\ wrong' = (wrong \/ (~mixed /\ file # call[c].base))
        /\ silent' = TRUE /\ UNCHANGED unrecorded
  /\ Return(c)
  /\ UNCHANGED <<history, mixed, configVars, started, cacheVars>>

\* The end of an installation: the target is reserved, or it exists by now.
Install(c) ==
  /\ call[c].pc = "move"
  /\ IF file # None THEN Return(c) /\ UNCHANGED <<file, unrecorded>>
     ELSE /\ file' = call[c].text /\ unrecorded' = TRUE
          /\ Announce(c) /\ UNCHANGED <<lock, turn>>
  /\ UNCHANGED <<history, wrong, mixed, configVars, started, cacheVars, silent>>

\* The run of a tool call is cancelled while the call awaits.  The lock is released, but a
\* thread that has begun to write, to record or to delete goes on.
Cancel(c) ==
  /\ call[c].pc # "idle" /\ call[c].op \in Tool /\ ~call[c].left /\ OpenLoop
  /\ silent' = (silent \/ call[c].pc = "invalidate"
                       \/ (call[c].pc = "record" /\ call[c].op # "erase"))
  /\ \/ call[c].pc # "unlink" /\ Return(c)
     \/ /\ call[c].pc \in {"write", "record", "unlink"}
        /\ call' = [call EXCEPT ![c].left = TRUE] /\ Give(c)
  /\ UNCHANGED <<fileVars, configVars, started, cacheVars>>

-----------------------------------------------------------------------------
(* The settings.                                                           *)

\* Both requests make the new file from the cached settings, and open it for writing, which
\* empties it.
BeginSetting(c, o) ==
  /\ Free(c) /\ OpenLoop /\ turn' = c
  /\ started < MaxOps /\ started' = started + 1
  /\ call' = [call EXCEPT ![c] = [NoCall EXCEPT !.pc = "config", !.op = o]]
  /\ config' = Torn
  /\ UNCHANGED <<fileVars, cacheVars, lock>>

\* update_skill changes the cached settings in place, before it writes.
Toggle(c, v) ==
  /\ file # None
  /\ BeginSetting(c, "toggle")
  /\ settings' = v /\ UNCHANGED silent

\* update_mcp_configuration writes the skills it finds there, which changes those of a file
\* that was edited elsewhere, and announces nothing.
Servers(c) ==
  /\ BeginSetting(c, "servers")
  /\ silent' = (silent \/ settings # config) /\ UNCHANGED settings

WriteConfig(c) ==
  /\ call[c].pc = "config"
  /\ config' = settings
  /\ Goto(c, "reload")
  /\ UNCHANGED <<fileVars, settings, lock, turn, started, cacheVars, silent>>

WriteFails(c) ==
  /\ call[c].pc = "config"
  /\ silent' = TRUE
  /\ Return(c)
  /\ UNCHANGED <<fileVars, configVars, started, cacheVars>>

\* reload_extensions_config; a change of servers leaves it at that.
Reload(c) ==
  /\ call[c].pc = "reload"
  /\ settings' = config
  /\ IF call[c].op = "toggle" THEN Announce(c) /\ UNCHANGED <<lock, turn>>
     ELSE Return(c)
  /\ UNCHANGED <<fileVars, config, started, cacheVars, silent>>

\* The file is edited by hand or by another process.
Elsewhere(v) ==
  /\ v # config /\ config # Torn /\ started < MaxOps /\ started' = started + 1
  /\ config' = v /\ silent' = TRUE
  /\ UNCHANGED <<fileVars, settings, lock, turn, call, cacheVars>>

-----------------------------------------------------------------------------
(* The list of enabled skills.                                             *)

\* Mistake: an invalidation always starts a thread.
MistakeLoad ==
  /\ active' = TRUE
  /\ LET w == CHOOSE w \in Loaders : loader[w].at = "idle"
     IN loader' = [loader EXCEPT ![w].at = "target"]

\* A thread is started unless one is loading.
Load ==
  IF active THEN UNCHANGED <<active, loader>>
  ELSE /\ active' = TRUE
       /\ LET w == CHOOSE w \in Loaders : loader[w].at = "idle"
          IN loader' = [loader EXCEPT ![w].at = "target"]

\* Mistake: the event of an earlier load stays set.
MistakeInvalidate(c) ==
  /\ call[c].pc = "invalidate" /\ turn \in {None, c}
  /\ cache' = Unset /\ version' = version + 1
  /\ Load
  /\ call' = [call EXCEPT ![c].pc = "refresh", ![c].ticket = version + 1]
  /\ turn' = None /\ silent' = FALSE
  /\ UNCHANGED <<fileVars, configVars, lock, started, event, filled, misread>>

\* _invalidate_enabled_skills_cache; then the caller awaits the event in a thread.
Invalidate(c) ==
  /\ call[c].pc = "invalidate" /\ turn \in {None, c}
  /\ cache' = Unset /\ version' = version + 1 /\ event' = FALSE
  /\ Load
  /\ call' = [call EXCEPT ![c].pc = "refresh", ![c].ticket = version + 1]
  /\ turn' = None /\ silent' = FALSE
  /\ UNCHANGED <<fileVars, configVars, lock, started, filled, misread>>

\* The thread that waits finds the event set, or goes to sleep.
StartWait(c) ==
  /\ call[c].pc = "refresh"
  /\ IF event THEN Return(c) ELSE Goto(c, "waiting") /\ UNCHANGED <<lock, turn>>
  /\ UNCHANGED <<fileVars, configVars, started, cacheVars, silent>>

\* _ensure_enabled_skills_cache of an agent that finds no list.
Ensure ==
  /\ cache = Unset /\ ~active
  /\ Load /\ event' = FALSE
  /\ UNCHANGED <<fileVars, configVars, callVars, cache, version, filled, misread, silent>>

LoaderStep(w, from, to, found, on) ==
  /\ loader[w].at = from
  /\ loader' = [loader EXCEPT ![w] = [@ EXCEPT !.at = to, !.found = found, !.on = on]]
  /\ UNCHANGED <<fileVars, configVars, callVars, cache, version, active, event, filled, silent>>

Target(w) ==
  /\ loader[w].at = "target"
  /\ loader' = [loader EXCEPT ![w] = [Fresh EXCEPT !.at = "files", !.target = version]]
  /\ misread' = FALSE
  /\ UNCHANGED <<fileVars, configVars, callVars, cache, version, active, event, filled, silent>>

\* load_skills reads the skills, then the settings; without settings every skill is enabled.
Files(w) ==
  LoaderStep(w, "files", "config", file, TRUE) /\ UNCHANGED misread

Config(w) ==
  /\ LoaderStep(w, "config", "fill", loader[w].found, config # "off")
  /\ misread' = (config = Torn)

\* The load fails: the list is empty.
LoadFails(w) ==
  LoaderStep(w, "files", "fill", None, TRUE) /\ misread' = TRUE

\* Mistake: the list is taken whatever happened meanwhile.
MistakeFill(w) ==
  /\ loader[w].at = "fill"
  /\ cache' = IF loader[w].on THEN loader[w].found ELSE None
  /\ filled' = version /\ active' = FALSE /\ event' = TRUE
  /\ loader' = [loader EXCEPT ![w] = Fresh]
  /\ LET woken == {c \in Callers : call[c].pc = "waiting"}
     IN /\ call' = [c \in Callers |-> IF c \in woken THEN NoCall ELSE call[c]]
        /\ lock' = IF lock \in woken THEN None ELSE lock
  /\ UNCHANGED <<fileVars, configVars, turn, started, version, misread, silent>>

\* The list is taken if nothing was invalidated meanwhile, and all who wait wake.
Fill(w) ==
  /\ loader[w].at = "fill" /\ loader[w].target = version
  /\ cache' = IF loader[w].on THEN loader[w].found ELSE None
  /\ filled' = version /\ active' = FALSE /\ event' = TRUE
  /\ loader' = [loader EXCEPT ![w] = Fresh]
  /\ LET woken == {c \in Callers : call[c].pc = "waiting"}
     IN /\ call' = [c \in Callers |-> IF c \in woken THEN NoCall ELSE call[c]]
        /\ lock' = IF lock \in woken THEN None ELSE lock
  /\ UNCHANGED <<fileVars, configVars, turn, started, version,
                 misread, silent>>

\* Mistake: the thread ends, and leaves the next load to whoever comes.
MistakeLoadAgain(w) ==
  /\ loader[w].at = "fill" /\ loader[w].target # version
  /\ cache' = Unset /\ active' = FALSE
  /\ loader' = [loader EXCEPT ![w] = Fresh]
  /\ UNCHANGED <<fileVars, configVars, callVars, version, event, filled, misread, silent>>

\* Something was: the thread loads again.
LoadAgain(w) ==
  /\ loader[w].at = "fill" /\ loader[w].target # version
  /\ cache' = Unset
  /\ loader' = [loader EXCEPT ![w] = [Fresh EXCEPT !.at = "target"]]
  /\ UNCHANGED <<fileVars, configVars, callVars, version, active, event, filled, misread, silent>>

-----------------------------------------------------------------------------
Call(c) ==
  \/ \E o \in Tool : BeginTool(c, o)
  \/ \E o \in Request : BeginRequest(c, o)
  \/ \E i \in DOMAIN history : BeginRollback(c, i)
  \/ \E v \in State : Toggle(c, v)
  \/ Servers(c)

Go(c) ==
  \/ Approve(c) \/ Block(c) \/ Read(c) \/ Write(c) \/ AppendHistory(c) \/ AppendFails(c)
  \/ Unlink(c) \/ UnlinkFails(c) \/ Install(c) \/ WriteConfig(c) \/ WriteFails(c)
  \/ Reload(c) \/ Invalidate(c) \/ StartWait(c)

LoaderGoes(w) ==
  \/ Target(w) \/ Files(w) \/ Config(w) \/ LoadFails(w) \/ Fill(w) \/ LoadAgain(w)

Next ==
  \/ \E c \in Callers : Call(c) \/ Go(c) \/ Cancel(c)
  \/ \E w \in Loaders : LoaderGoes(w)
  \/ Ensure
  \/ \E v \in State : Elsewhere(v)

\* Threads that load and threads that wait are run.
Fairness ==
  /\ \A c \in Callers : WF_vars(StartWait(c))
  /\ \A w \in Loaders : WF_vars(LoaderGoes(w))

Spec == Init /\ [][Next]_vars
FairSpec == Spec /\ Fairness

-----------------------------------------------------------------------------
\* What the last change in the history made of the file.
Done == {i \in DOMAIN history : history[i].done}
Says(content) ==
  /\ Done = {} => content = None
  /\ \A i \in Done : (\A j \in Done : j <= i) => content = history[i].new

\* As long as no tool call and request, and no thread of a cancelled call and another call,
\* change the skill at a time, every record of the history tells what the change has replaced;
\* and while nothing changes the skill, and no record, deletion or call after the last change
\* was broken off, the last change of the history made the file what it is.
HistoryTrue ==
  ~mixed =>
    /\ ~wrong
    /\ ~unrecorded /\ (\A c \in Callers : call[c].pc \notin Changing) => Says(file)

\* A list that was filled is what a load would give now, once every change is announced
\* and unless the load met the settings while they were being written or failed.
CacheCurrent ==
  cache # Unset /\ ~silent /\ ~misread
    /\ (\A c \in Callers : call[c].pc \notin Changing \cup {"config", "reload", "invalidate"}) =>
    cache = IF config # "off" THEN file ELSE None

\* A refresh returns only when the list was loaded after the change it announces, although
\* all callers share one event, which others clear.
ReturnsFresh ==
  [][\A c \in Callers : call[c].pc \in {"refresh", "waiting"} /\ call'[c].pc = "idle"
                          /\ ~(Cancel(c)) => filled' >= call[c].ticket]_vars

\* A caller that waits for the list returns: a load that was overtaken is done again, until
\* one is not.
RefreshReturns == \A c \in Callers : []<>(call[c].pc \notin {"refresh", "waiting"})

-----------------------------------------------------------------------------
(* The inductive invariant.                                                *)

At(c, places, ops) == call[c].pc \in places /\ call[c].op \in ops

\* Which operations come to which places.
OpFits ==
  \A c \in Callers :
    /\ call[c].pc = "scan" => call[c].op \in (Tool \cup Request) \ Removing
    /\ call[c].pc = "read" => call[c].op \in {"edit", "put", "rollback"}
    /\ call[c].pc = "write" => call[c].op \in {"create", "patch", "edit", "put", "rollback"}
    /\ call[c].pc = "record" => call[c].op \in (Tool \cup Request) \ {"install"}
    /\ call[c].pc = "unlink" => call[c].op \in Removing
    /\ call[c].pc = "move" => call[c].op = "install"
    /\ call[c].pc \in {"config", "reload"} => call[c].op \in Setting
    /\ call[c].pc \in {"scan", "read", "write", "move"} => call[c].text # None
    /\ At(c, {"record", "unlink"}, Removing) => call[c].text = None
    /\ call[c].left => At(c, {"write", "record", "unlink"}, Tool)

\* A request that has left the scanner keeps the event loop.
Keeps == {"read", "write", "record", "unlink", "move", "config", "reload"}
LoopHeld == \A c \in Callers : At(c, Keeps, Request \cup Setting) => turn = c

\* The file of settings is torn while it is written; only a failure leaves it so.
ConfigTorn ==
  \A c \in Callers : /\ call[c].pc = "config" => config = Torn
                     /\ call[c].pc = "reload" => config # Torn

\* A tool call changes the skill together with another call only when they are marked as mixed.
Apart ==
  ~mixed => \A c, d \in Callers : At(c, Changing, Tool) /\ call[d].pc \in Changing => c = d

\* Then a change knows what it replaces, and is not recorded before it is made, unless it
\* deletes the file.
ChangeKnown ==
  ~mixed => \A c \in Callers :
    /\ \/ call[c].pc \in {"write", "unlink"}
       \/ At(c, {"scan"}, {"create", "patch"})
       \/ At(c, {"record"}, Removing)
       => call[c].base = file
    /\ call[c].pc = "record" /\ call[c].op \notin Removing =>
         unrecorded /\ call[c].text = file

\* The history is true of what is done, a deletion being recorded before.
Unlinking == \E c \in Callers : call[c].pc = "unlink"
HistoryKnown ==
  ~mixed => ~wrong /\ (~unrecorded => Says(IF Unlinking THEN None ELSE file))

\* Somebody has changed what the list is made of and will announce it.
Dirty ==
  \E c \in Callers :
    \/ call[c].pc = "invalidate"
    \/ call[c].pc = "record" /\ call[c].op \notin Removing /\ ~call[c].left
    \/ At(c, {"config", "reload"}, {"toggle"})

\* The settings, also while they are being written.
Meant == IF config = Torn THEN settings ELSE config

\* Settings that nobody is writing are whole, or their failure is still to be announced.
Whole == config = Torn => \E c \in Callers : call[c].pc = "config"

\* What was read since the last invalidation is still so, or a change is to be announced.
LoadCurrent ==
  ~silent /\ ~Dirty =>
    /\ \A w \in Loaders :
         /\ loader[w].at = "config" /\ loader[w].target = version => loader[w].found = file
         /\ loader[w].at = "fill" /\ loader[w].target = version /\ ~misread =>
              loader[w].found = file /\ loader[w].on = (Meant # "off") /\ Whole
    /\ cache # Unset /\ ~misread =>
         cache = (IF Meant # "off" THEN file ELSE None) /\ Whole

\* Versions only grow; the list is empty while it is loaded; the event is set by the load of
\* the newest version only.
Versions ==
  /\ \A w \in Loaders : loader[w].target <= version
  /\ \A c \in Callers : call[c].ticket <= version
  /\ active => cache = Unset
  /\ event => filled = version

IndInv ==
  /\ TypeOK /\ OpFits /\ LoopHeld /\ ConfigTorn /\ Apart /\ ChangeKnown /\ HistoryKnown
  /\ LoadCurrent /\ Versions
=============================================================================
