----------------------------- MODULE RunJournal -----------------------------
(***************************************************************************)
(* The journals of the runs of one thread and the store of their events:   *)
(* callbacks record events into the buffer of the run's journal, flush     *)
(* tasks and the final flush of the worker write batches, the store gives  *)
(* every event the next sequence number of the thread, and clients read    *)
(* the messages page by page.                                              *)
(*                                                                         *)
(* Two runs of a thread can be recording at once: one that is interrupted  *)
(* flushes while its successor runs.  The three backends differ in what a  *)
(* batch is: one step in memory; appended lines that may stop half-way in  *)
(* files; a transaction that reads the highest number first and is refused *)
(* when somebody else used the next one, in the database.  An event is its *)
(* number within the run; its content is left out but for its category.    *)
(* A callback is one step.                                                 *)
(***************************************************************************)
EXTENDS Naturals, Sequences, FiniteSets

CONSTANTS Runs, Backends, None,
          FlushThreshold,   \* flush_threshold
          PageLimit,        \* limit of the clients' queries
          MaxEvents         \* bound: by backend and run, the events it records

ASSUME BackendsAssumption == Backends \subseteq {"memory", "jsonl", "db"}
ASSUME ThresholdAssumption == FlushThreshold \in Nat \ {0}
ASSUME LimitAssumption == PageLimit \in Nat \ {0}
ASSUME BoundAssumption == MaxEvents \in [Backends \X Runs -> Nat]
ASSUME NoneAssumption == None \notin Nat

Categories == {"message", "trace"}
Row == [seq : Nat \ {0}, run : Runs, event : Nat, category : Categories]

VARIABLES
  backend,    \* run_events.backend
  phase,      \* of each run, as its worker sees it
  emitted,    \* history: by run, the categories of the events it recorded
  buffer,     \* _buffer: by run, the events not handed to the store
  batch,      \* by run, the batch put_batch is writing, or << >>
  highest,    \* by run, max(seq) as the transaction of its batch read it, or None
  rows,       \* the stored events of the thread
  counter,    \* _seq_counters of the memory and file stores
  torn,       \* the runs whose file ends in the middle of a line
  glued,      \* history: the runs of which a line was appended to such an end and lost
  follower,   \* a client that polls the thread: its after_seq, and what it was given
  pager       \* a client that reads an ended run page by page

journalVars == <<emitted, buffer, batch, highest>>
storeVars == <<rows, counter, torn, glued>>
clientVars == <<follower, pager>>
vars == <<backend, phase, journalVars, storeVars, clientVars>>

Phases == {"new", "running", "flushing", "writing", "ended", "failed", "lost"}
Over == {"ended", "failed", "lost"}

TypeOK ==
  /\ backend \in Backends
  /\ phase \in [Runs -> Phases]
  /\ emitted \in [Runs -> Seq(Categories)]
  /\ buffer \in [Runs -> Seq(Nat)] /\ batch \in [Runs -> Seq(Nat)]
  /\ highest \in [Runs -> Nat \cup {None}]
  /\ rows \subseteq Row /\ counter \in Nat
  /\ torn \subseteq Runs /\ glued \subseteq Runs
  /\ follower \in [after : Nat, given : SUBSET Nat]
  /\ pager \in [run : Runs \cup {None}, dir : {"forward", "backward"},
                cursor : Nat \cup {None}, given : SUBSET Nat, more : BOOLEAN]

NoPager == [run |-> None, dir |-> "forward", cursor |-> None, given |-> {}, more |-> FALSE]

Init ==
  /\ backend \in Backends
  /\ phase = [r \in Runs |-> "new"]
  /\ emitted = [r \in Runs |-> << >>]
  /\ buffer = [r \in Runs |-> << >>] /\ batch = [r \in Runs |-> << >>]
  /\ highest = [r \in Runs |-> None]
  /\ rows = {} /\ counter = 0 /\ torn = {} /\ glued = {}
  /\ follower = [after |-> 0, given |-> {}] /\ pager = NoPager

Goto(r, where) == phase' = [phase EXCEPT ![r] = where]
MinNat(m, n) == IF m < n THEN m ELSE n
MaxOf(S) == IF S = {} THEN 0 ELSE CHOOSE m \in S : \A n \in S : n <= m
MaxSeq == MaxOf({w.seq : w \in rows})

-----------------------------------------------------------------------------
(* Recording.                                                               *)

Start(r) ==
  /\ phase[r] = "new" /\ Goto(r, "running")
  /\ UNCHANGED <<backend, journalVars, storeVars, clientVars>>

\* The flush does not look whether another one is in flight.
MistakePut(r, category, flush, loop) ==
  LET b == Append(buffer[r], Len(emitted[r]) + 1) IN
  /\ emitted' = [emitted EXCEPT ![r] = Append(@, category)]
  /\ IF (flush \/ Len(b) >= FlushThreshold) /\ loop
     THEN buffer' = [buffer EXCEPT ![r] = << >>] /\ batch' = [batch EXCEPT ![r] = b]
     ELSE buffer' = [buffer EXCEPT ![r] = b] /\ batch' = batch

\* _put, then _flush_sync when the buffer is full or the callback asks for it: a task for the
\* whole buffer, if no other is pending and the callback runs in the event loop.
Put(r, category, flush, loop) ==
  LET b == Append(buffer[r], Len(emitted[r]) + 1) IN
  /\ emitted' = [emitted EXCEPT ![r] = Append(@, category)]
  /\ IF (flush \/ Len(b) >= FlushThreshold) /\ loop /\ batch[r] = << >>
     THEN buffer' = [buffer EXCEPT ![r] = << >>] /\ batch' = [batch EXCEPT ![r] = b]
     ELSE buffer' = [buffer EXCEPT ![r] = b] /\ batch' = batch

Record(r, category, flush) ==
  /\ phase[r] = "running" /\ Len(emitted[r]) < MaxEvents[backend, r]
  /\ \E loop \in BOOLEAN : Put(r, category, flush, loop)
  /\ UNCHANGED <<backend, phase, highest, storeVars, clientVars>>

\* on_chain_start of the root
ChainStart(r) == emitted[r] = << >> /\ Record(r, "trace", FALSE)
\* on_llm_error, record_middleware
RecordTrace(r) == emitted[r] # << >> /\ Record(r, "trace", FALSE)
\* on_chat_model_start for the first human message, on_llm_end, on_tool_end
RecordMessage(r) == emitted[r] # << >> /\ Record(r, "message", FALSE)
\* on_chain_end and on_chain_error, of every chain
ChainEnd(r) == emitted[r] # << >> /\ Record(r, "trace", TRUE)

-----------------------------------------------------------------------------
(* The final flush of the worker.                                           *)

Finish(r) ==
  /\ phase[r] = "running" /\ Goto(r, "flushing")
  /\ UNCHANGED <<backend, journalVars, storeVars, clientVars>>

\* No task is pending any more, and the buffer is empty.
FlushDone(r) ==
  /\ phase[r] = "flushing" /\ batch[r] = << >> /\ buffer[r] = << >>
  /\ Goto(r, "ended")
  /\ UNCHANGED <<backend, journalVars, storeVars, clientVars>>

\* It is not, and the next FlushThreshold events are written.
FlushChunk(r) ==
  LET b == buffer[r]
      k == MinNat(FlushThreshold, Len(b)) IN
  /\ phase[r] = "flushing" /\ batch[r] = << >> /\ b # << >>
  /\ batch' = [batch EXCEPT ![r] = SubSeq(b, 1, k)]
  /\ buffer' = [buffer EXCEPT ![r] = SubSeq(b, k + 1, Len(b))]
  /\ Goto(r, "writing")
  /\ UNCHANGED <<backend, emitted, highest, storeVars, clientVars>>

-----------------------------------------------------------------------------
(* put_batch.                                                               *)

\* The rows for the first k events of the batch of r, numbered from n + 1 on.
Numbered(r, k, n) ==
  {[seq |-> n + i, run |-> r, event |-> batch[r][i], category |-> emitted[r][batch[r][i]]] :
     i \in 1..k}

Written(r) ==
  /\ batch' = [batch EXCEPT ![r] = << >>] /\ highest' = [highest EXCEPT ![r] = None]
  /\ Goto(r, IF phase[r] = "writing" THEN "flushing" ELSE phase[r])
  /\ UNCHANGED <<backend, emitted, buffer, clientVars>>

\* The final flush tries again for ever.
MistakeRetry(r) ==
  /\ buffer' = [buffer EXCEPT ![r] = batch[r] \o buffer[r]]
  /\ batch' = [batch EXCEPT ![r] = << >>] /\ highest' = [highest EXCEPT ![r] = None]
  /\ Goto(r, IF phase[r] = "writing" THEN "flushing" ELSE phase[r])
  /\ UNCHANGED <<backend, emitted, clientVars>>

\* A batch that was not written goes back to the front of the buffer: of a task to be tried
\* again, of the final flush for good.
PutBack(r) ==
  /\ buffer' = [buffer EXCEPT ![r] = batch[r] \o buffer[r]]
  /\ batch' = [batch EXCEPT ![r] = << >>] /\ highest' = [highest EXCEPT ![r] = None]
  /\ Goto(r, IF phase[r] = "writing" THEN "failed" ELSE phase[r])
  /\ UNCHANGED <<backend, emitted, clientVars>>

PutMemory(r) ==
  /\ backend = "memory" /\ batch[r] # << >>
  /\ rows' = rows \cup Numbered(r, Len(batch[r]), counter)
  /\ counter' = counter + Len(batch[r])
  /\ Written(r) /\ UNCHANGED <<torn, glued>>

\* k lines are appended.  The first of them makes one line with the end of a file that is
\* torn, which no reader understands.
AppendLines(r, k) ==
  /\ rows' = rows \cup {w \in Numbered(r, k, counter) : r \in torn => w.seq # counter + 1}
  /\ glued' = IF r \in torn /\ k > 0 THEN glued \cup {r} ELSE glued

PutJsonl(r) ==
  /\ backend = "jsonl" /\ batch[r] # << >>
  /\ AppendLines(r, Len(batch[r]))
  /\ counter' = counter + Len(batch[r])
  /\ torn' = torn \ {r}
  /\ Written(r)

\* The line of event k + 1 cannot be appended, or not whole; its number is used up.
PutJsonlPartly(r) ==
  /\ backend = "jsonl" /\ batch[r] # << >>
  /\ \E k \in 0..(Len(batch[r]) - 1) :
       /\ AppendLines(r, k)
       /\ counter' = counter + k + 1
       /\ torn' \in {torn \cup {r}, IF k > 0 THEN torn \ {r} ELSE torn}
  /\ PutBack(r)

ReadHighest(r) ==
  /\ backend = "db" /\ batch[r] # << >> /\ highest[r] = None
  /\ highest' = [highest EXCEPT ![r] = MaxSeq]
  /\ UNCHANGED <<backend, phase, emitted, buffer, batch, storeVars, clientVars>>

\* Nothing is unique in the table.
MistakeCommit(r) ==
  /\ backend = "db" /\ highest[r] # None
  /\ rows' = rows \cup Numbered(r, Len(batch[r]), highest[r])
  /\ UNCHANGED <<counter, torn, glued>> /\ Written(r)

\* UNIQUE(thread_id, seq) refuses the batch when another one was committed meanwhile.
Commit(r) ==
  /\ backend = "db" /\ highest[r] # None /\ highest[r] = MaxSeq
  /\ rows' = rows \cup Numbered(r, Len(batch[r]), highest[r])
  /\ UNCHANGED <<counter, torn, glued>> /\ Written(r)

\* That refusal, a locked database or a lost connection.
Refused(r) ==
  /\ backend = "db" /\ batch[r] # << >>
  /\ PutBack(r) /\ UNCHANGED storeVars

WriteStep(r) == PutMemory(r) \/ PutJsonl(r) \/ PutJsonlPartly(r)
                \/ ReadHighest(r) \/ Commit(r) \/ Refused(r)

-----------------------------------------------------------------------------
(* The process ends and is started again: what was only buffered is lost, with the memory
   backend everything.  The numbers of the files go on where they ended.    *)

Survives(r) == phase[r] = "new" \/ (phase[r] = "ended" /\ backend # "memory")

\* The numbers of the files begin again.
MistakeCrash ==
  /\ \E r \in Runs : phase[r] \notin Over \cup {"new"}
  /\ phase' = [r \in Runs |-> IF Survives(r) THEN phase[r] ELSE "lost"]
  /\ buffer' = [r \in Runs |-> << >>] /\ batch' = [r \in Runs |-> << >>]
  /\ highest' = [r \in Runs |-> None]
  /\ rows' = IF backend = "memory" THEN {} ELSE rows
  /\ counter' = 0
  /\ UNCHANGED <<backend, emitted, torn, glued, clientVars>>

Crash ==
  /\ \E r \in Runs : phase[r] \notin Over \cup {"new"}
  /\ phase' = [r \in Runs |-> IF Survives(r) THEN phase[r] ELSE "lost"]
  /\ buffer' = [r \in Runs |-> << >>] /\ batch' = [r \in Runs |-> << >>]
  /\ highest' = [r \in Runs |-> None]
  /\ rows' = IF backend = "memory" THEN {} ELSE rows
  /\ counter' = IF backend = "jsonl" THEN MaxSeq ELSE 0
  /\ UNCHANGED <<backend, emitted, torn, glued, clientVars>>

-----------------------------------------------------------------------------
(* Reading.                                                                 *)

Messages == {w.seq : w \in {v \in rows : v.category = "message"}}
MessagesOf(r) == {w.seq : w \in {v \in rows : v.category = "message" /\ v.run = r}}
\* The first and the last k numbers of S.
FirstOf(S, k) == {n \in S : Cardinality({m \in S : m < n}) < k}
LastOf(S, k) == {n \in S : Cardinality({m \in S : m > n}) < k}

\* list_messages and list_messages_by_run: after_seq from the front, else from the back.
PageAfter(S, cursor, k) == FirstOf({n \in S : n > cursor}, k)
PageBefore(S, cursor, k) ==
  LastOf(IF cursor = None THEN S ELSE {n \in S : n < cursor}, k)

\* A client polls GET /threads/{id}/messages with the last number it got.
Follow ==
  LET page == PageAfter(Messages, follower.after, PageLimit) IN
  /\ page # {}
  /\ follower' = [after |-> MaxOf(page), given |-> follower.given \cup page]
  /\ UNCHANGED <<backend, phase, journalVars, storeVars, pager>>

\* Bound: a client pages through a run when none is recording; another run's events are not
\* its own.
Quiet == \A r \in Runs : phase[r] \in Over \cup {"new"}

\* GET .../runs/{id}/messages: one more than the limit is asked for, and cut off again.
OpenPager(r, dir) ==
  /\ Quiet /\ phase[r] \in Over /\ pager.run = None
  /\ pager' = [run |-> r, dir |-> dir, cursor |-> IF dir = "forward" THEN 0 ELSE None,
               given |-> {}, more |-> TRUE]
  /\ UNCHANGED <<backend, phase, journalVars, storeVars, follower>>

NextPage ==
  LET S == MessagesOf(pager.run)
      found == IF pager.dir = "forward" THEN PageAfter(S, pager.cursor, PageLimit + 1)
               ELSE PageBefore(S, pager.cursor, PageLimit + 1)
      page == FirstOf(found, PageLimit)
  IN
  /\ pager.run # None /\ pager.more
  /\ pager' = [pager EXCEPT
       !.given = @ \cup page,
       !.more = Cardinality(found) > PageLimit,
       !.cursor = IF page = {} THEN @
                  ELSE IF pager.dir = "forward" THEN MaxOf(page)
                  ELSE CHOOSE m \in page : \A n \in page : m <= n]
  /\ UNCHANGED <<backend, phase, journalVars, storeVars, follower>>

Next ==
  \/ \E r \in Runs : \/ Start(r) \/ ChainStart(r) \/ RecordTrace(r) \/ RecordMessage(r) \/ ChainEnd(r)
                     \/ Finish(r) \/ FlushDone(r) \/ FlushChunk(r) \/ WriteStep(r)
  \/ Crash \/ Follow \/ NextPage
  \/ \E r \in Runs, dir \in {"forward", "backward"} : OpenPager(r, dir)

Spec == Init /\ [][Next]_vars

\* The worker goes on with its flush, and the store answers, though not always well.
FairSpec ==
  /\ Spec
  /\ \A r \in Runs : WF_vars(FlushDone(r) \/ FlushChunk(r) \/ WriteStep(r))

-----------------------------------------------------------------------------
(* Properties.                                                              *)

\* What the store holds of r are its first n events, each of them once, in the order of their
\* numbers.
StoredUpTo(r, n) ==
  LET mine == {w \in rows : w.run = r} IN
  /\ {w.event : w \in mine} = 1..n
  /\ \A v, w \in mine : v.seq < w.seq <=> v.event < w.event
Queued(r) == batch[r] \o buffer[r]

\* Where a batch is written as a whole, what is stored, being written and buffered is at all
\* times exactly what the run recorded, in that order: nothing is lost, doubled or moved by
\* failing, refused and overlapping writes.  Of a run that a crash ended, a prefix is stored.
ExactlyOnce ==
  backend # "jsonl" =>
    \A r \in Runs : \E n \in 0..Len(emitted[r]) :
      /\ StoredUpTo(r, n)
      /\ phase[r] # "lost" => Queued(r) = [i \in 1..(Len(emitted[r]) - n) |-> n + i]

\* Where it is not, an event may be stored twice but not lost, unless a file was torn in the
\* middle of a line.
AtLeastOnce ==
  backend = "jsonl" =>
    \A r \in Runs \ glued : phase[r] # "lost" =>
      \A n \in 1..Len(emitted[r]) :
        \/ \E w \in rows : w.run = r /\ w.event = n
        \/ \E i \in 1..Len(batch[r]) : batch[r][i] = n
        \/ \E i \in 1..Len(buffer[r]) : buffer[r][i] = n

\* A worker whose final flush did not fail has everything of its run in the store, also what
\* a task wrote that was still pending, but for a line lost in a torn file.
EndedIsStored ==
  \A r \in Runs : phase[r] = "ended" /\ ~(backend = "jsonl" /\ r \in glued) =>
    \A n \in 1..Len(emitted[r]) : \E w \in rows : w.run = r /\ w.event = n

\* A number is given once in a thread, whoever writes at the same time.
SeqUnique == \A v, w \in rows : v.seq = w.seq => v = w

\* A client that polls with its last number is given every message up to that number: none
\* appears behind it.  Not with the memory backend, whose numbers begin again.
NoneSkipped ==
  backend # "memory" => \A n \in Messages : n <= follower.after => n \in follower.given

\* Paging forward through a run until there is no more shows all its messages.
Finished(dir) == pager.run # None /\ pager.dir = dir /\ ~pager.more
ForwardComplete ==
  Finished("forward") /\ backend # "memory" => MessagesOf(pager.run) \subseteq pager.given

\* Paging backward does too, as the endpoints say.
BackwardComplete ==
  Finished("backward") /\ backend # "memory" => MessagesOf(pager.run) \subseteq pager.given

\* The invariants of the store and of its readers, but for ExactlyOnce and NoneSkipped.
Safety == TypeOK /\ AtLeastOnce /\ EndedIsStored /\ SeqUnique /\ ForwardComplete

\* The final flush comes to an end, with all events stored or with an error.
FlushEnds == \A r \in Runs : []<>(phase[r] \notin {"flushing", "writing"})

-----------------------------------------------------------------------------
(* The inductive invariant.                                                 *)

\* What waits to be written was recorded.
QueuedIsKnown ==
  \A r \in Runs : /\ \A i \in 1..Len(batch[r]) : batch[r][i] \in 1..Len(emitted[r])
                  /\ \A i \in 1..Len(buffer[r]) : buffer[r][i] \in 1..Len(emitted[r])

\* A run that has not begun has recorded nothing; one that is over writes nothing more, and
\* only a final flush that failed leaves events behind.
PhasesFit ==
  \A r \in Runs : /\ phase[r] = "new" => emitted[r] = << >>
                  /\ phase[r] \in Over => batch[r] = << >>
                  /\ phase[r] \in {"new", "ended", "lost"} => Queued(r) = << >>

\* There is a last number, and the counter of the stores that keep one has reached it.
Top == rows # {} => \E w \in rows : \A v \in rows : v.seq <= w.seq
CounterAhead == backend # "db" => \A w \in rows : w.seq <= counter

\* A client that polls is not ahead of the store.
FollowerBehind ==
  backend # "memory" /\ follower.after # 0 => \E w \in rows : follower.after <= w.seq

\* A client pages through a run that is over, and has what its cursor has passed.
Paging ==
  pager.run # None =>
    /\ phase[pager.run] \in Over
    /\ pager.dir = "forward" =>
         /\ pager.cursor \in Nat
         /\ backend # "memory" => \A n \in MessagesOf(pager.run) :
              n <= pager.cursor \/ ~pager.more => n \in pager.given

IndInv ==
  /\ Safety /\ ExactlyOnce /\ NoneSkipped
  /\ QueuedIsKnown /\ PhasesFit /\ Top /\ CounterAhead /\ FollowerBehind /\ Paging
=============================================================================
