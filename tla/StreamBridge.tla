---------------------------- MODULE StreamBridge ----------------------------
(***************************************************************************)
(* The in-memory stream bridge (runtime/stream_bridge/memory.py) seen by   *)
(* one run: the worker that publishes, the SSE readers that subscribe,     *)
(* drop and come back with Last-Event-ID, the delayed cleanup and the      *)
(* shutdown of the gateway.                                                *)
(*                                                                         *)
(* Runs share nothing in the bridge (every dictionary is keyed by run_id), *)
(* so one run is the general case.  The event loop is single-threaded and  *)
(* no critical section suspends while it holds stream.condition, except in *)
(* wait(), which releases it: each operation up to its next suspension is  *)
(* one action.                                                             *)
(*                                                                         *)
(* A reader keeps a reference to the _RunStream it found, so an object     *)
(* outlives its dictionary entry: stream[1], stream[2], ... are the        *)
(* objects _get_or_create_stream has built for the run, in order, and the  *)
(* entry, when there is one, is the newest.                                *)
(***************************************************************************)
EXTENDS Integers, Sequences

CONSTANTS Client,      \* the SSE readers of the run
          MaxSize,     \* queue_maxsize
          MaxEvents,   \* bound: events published into one stream object
          MaxStreams   \* bound: stream objects built for the run

ASSUME SizeAssumption == MaxSize \in Nat \ {0}
ASSUME BoundAssumption == MaxEvents \in Nat /\ MaxStreams \in Nat

VARIABLES stream,      \* the _RunStream objects
          made,        \* how many of them exist
          present,     \* the run has an entry in _streams and _counters
          counter,     \* _counters[run_id], 0 when there is no entry
          producer,    \* what the worker has done: live, ended, cleaned
          shut,        \* close() has run
          sub,         \* the generator each client iterates
          last         \* the last event id each client has received

vars == <<stream, made, present, counter, producer, shut, sub, last>>

-----------------------------------------------------------------------------
(* An event is its number in its stream object; its id (time and number in *)
(* the code) is told apart from those of other objects by the object.      *)
Stream == 1 .. MaxStreams

NoId == [log |-> 0, seq |-> -1]

Id == [log : Stream, seq : Nat] \cup {NoId}

RunStream == [events : Seq(Nat), start_offset : Nat, ended : BOOLEAN]

NewRunStream == [events |-> <<>>, start_offset |-> 0, ended |-> FALSE]

Subscriber == [pc : {"off", "ready", "waiting", "done"},
               on : Stream \cup {0}, next_offset : Nat]

Unsubscribed == [pc |-> "off", on |-> 0, next_offset |-> 0]

TypeOK == /\ stream \in [Stream -> RunStream]
          /\ made \in 0 .. MaxStreams
          /\ present \in BOOLEAN
          /\ counter \in Nat
          /\ producer \in {"live", "ended", "cleaned"}
          /\ shut \in BOOLEAN
          /\ sub \in [Client -> Subscriber]
          /\ last \in [Client -> Id]

Init == /\ stream = [i \in Stream |-> NewRunStream]
        /\ made = 0
        /\ present = FALSE
        /\ counter = 0
        /\ producer = "live"
        /\ shut = FALSE
        /\ sub = [c \in Client |-> Unsubscribed]
        /\ last = [c \in Client |-> NoId]

-----------------------------------------------------------------------------
(* The object _get_or_create_stream returns: the run's entry, or else the  *)
(* next object, still as NewRunStream, with the counter at 0.              *)
Target == IF present THEN made ELSE made + 1

GetOrCreate == /\ Target \in Stream
               /\ made' = Target
               /\ present' = TRUE

(* Append one event and drop the oldest ones beyond the retained bound.    *)
Retain(st, event) ==
  LET all      == Append(st.events, event)
      overflow == IF Len(all) > MaxSize THEN Len(all) - MaxSize ELSE 0
  IN  [st EXCEPT !.events = SubSeq(all, overflow + 1, Len(all)),
                 !.start_offset = @ + overflow]

(* condition.notify_all(): every generator parked on the object runs again. *)
NotifyAll(i) ==
  sub' = [c \in Client |-> IF sub[c].pc = "waiting" /\ sub[c].on = i
                             THEN [sub[c] EXCEPT !.pc = "ready"]
                             ELSE sub[c]]

(* The offset after the event called id, or the oldest retained one.       *)
ResolveStartOffset(i, id) ==
  LET st     == stream[i]
      found  == {k \in 1 .. Len(st.events) :
                   id = [log |-> i, seq |-> st.events[k]]}
  IN  st.start_offset + IF found = {} THEN 0 ELSE CHOOSE k \in found : TRUE

(* A subscriber that fell behind resumes from the oldest retained event.   *)
Resumed(c) == LET st == stream[sub[c].on] IN
              IF sub[c].next_offset < st.start_offset
                THEN st.start_offset ELSE sub[c].next_offset

LocalIndex(c) == Resumed(c) - stream[sub[c].on].start_offset

Available(c) == LocalIndex(c) < Len(stream[sub[c].on].events)

-----------------------------------------------------------------------------
(* The worker.                                                             *)
Publish == /\ producer = "live"
           /\ counter < MaxEvents
           /\ GetOrCreate
           /\ counter' = counter + 1
           /\ stream' = [stream EXCEPT ![Target] = Retain(@, counter)]
           /\ NotifyAll(Target)
           /\ UNCHANGED <<producer, shut, last>>

(* Mistake: publish_end does not notify the waiting readers.               *)
PublishEndSilently == /\ producer = "live"
                      /\ producer' = "ended"
                      /\ GetOrCreate
                      /\ stream' = [stream EXCEPT ![Target].ended = TRUE]
                      /\ UNCHANGED <<counter, shut, sub, last>>

PublishEnd == /\ producer = "live"
              /\ producer' = "ended"
              /\ GetOrCreate
              /\ stream' = [stream EXCEPT ![Target].ended = TRUE]
              /\ NotifyAll(Target)
              /\ UNCHANGED <<counter, shut, last>>

(* cleanup(run_id, delay=60), which the worker schedules after publish_end. *)
Cleanup == /\ producer = "ended"
           /\ producer' = "cleaned"
           /\ present' = FALSE
           /\ counter' = 0
           /\ UNCHANGED <<stream, made, shut, sub, last>>

(* close(), when the gateway shuts down; the run's task may still publish. *)
Close == /\ ~shut
         /\ shut' = TRUE
         /\ present' = FALSE
         /\ counter' = 0
         /\ UNCHANGED <<stream, made, producer, sub, last>>

-----------------------------------------------------------------------------
(* A client opens the SSE response, afresh or with its Last-Event-ID.      *)
Subscribe(c) ==
  /\ sub[c].pc \in {"off", "done"}
  /\ GetOrCreate
  /\ \E id \in {NoId, last[c]} :
       /\ last' = [last EXCEPT ![c] = id]
       /\ sub' = [sub EXCEPT ![c] =
                    [pc |-> "ready", on |-> Target,
                     next_offset |-> ResolveStartOffset(Target, id)]]
  /\ UNCHANGED <<stream, counter, producer, shut>>

(* One turn of the generator's loop: an event, the end, or a wait.         *)
Deliver(c) ==
  /\ sub[c].pc = "ready"
  /\ Available(c)
  /\ sub' = [sub EXCEPT ![c].next_offset = Resumed(c) + 1]
  /\ last' = [last EXCEPT ![c] =
                [log |-> sub[c].on,
                 seq |-> stream[sub[c].on].events[LocalIndex(c) + 1]]]
  /\ UNCHANGED <<stream, made, present, counter, producer, shut>>

(* Mistake: the end is tested before the buffered events.                  *)
DeliverEndEagerly(c) ==
  /\ sub[c].pc = "ready"
  /\ stream[sub[c].on].ended
  /\ sub' = [sub EXCEPT ![c].pc = "done", ![c].next_offset = Resumed(c)]
  /\ UNCHANGED <<stream, made, present, counter, producer, shut, last>>

(* Mistake: a reader that finds nothing to read is told the end.           *)
DeliverEndWhenIdle(c) ==
  /\ sub[c].pc = "ready"
  /\ ~Available(c)
  /\ sub' = [sub EXCEPT ![c].pc = "done", ![c].next_offset = Resumed(c)]
  /\ UNCHANGED <<stream, made, present, counter, producer, shut, last>>

DeliverEnd(c) ==
  /\ sub[c].pc = "ready"
  /\ ~Available(c)
  /\ stream[sub[c].on].ended
  /\ sub' = [sub EXCEPT ![c].pc = "done", ![c].next_offset = Resumed(c)]
  /\ UNCHANGED <<stream, made, present, counter, producer, shut, last>>

Wait(c) ==
  /\ sub[c].pc = "ready"
  /\ ~Available(c)
  /\ ~stream[sub[c].on].ended
  /\ sub' = [sub EXCEPT ![c].pc = "waiting", ![c].next_offset = Resumed(c)]
  /\ UNCHANGED <<stream, made, present, counter, producer, shut, last>>

(* wait_for times out: HEARTBEAT_SENTINEL, then another turn of the loop.  *)
Heartbeat(c) ==
  /\ sub[c].pc = "waiting"
  /\ sub' = [sub EXCEPT ![c].pc = "ready"]
  /\ UNCHANGED <<stream, made, present, counter, producer, shut, last>>

(* The client goes away and the generator is closed; what it had already   *)
(* taken from the buffer for this client is lost with it.                  *)
Disconnect(c) ==
  /\ sub[c].pc \in {"ready", "waiting"}
  /\ sub' = [sub EXCEPT ![c] = Unsubscribed]
  /\ UNCHANGED <<stream, made, present, counter, producer, shut, last>>

Worker == Publish \/ PublishEnd \/ Cleanup

Turn(c) == Deliver(c) \/ DeliverEnd(c) \/ Wait(c)

Reader(c) == Subscribe(c) \/ Turn(c) \/ Heartbeat(c) \/ Disconnect(c)

Next == Worker \/ Close \/ \E c \in Client : Reader(c)

Spec == Init /\ [][Next]_vars

(* A generator that can take a turn is scheduled by the event loop.  The   *)
(* heartbeat timer and the worker get no fairness: nothing below needs     *)
(* them.                                                                   *)
FairSpec == Spec /\ \A c \in Client : WF_vars(Turn(c))

-----------------------------------------------------------------------------
(* The events a stream object has taken, evicted ones included.            *)
Taken(i) == stream[i].start_offset + Len(stream[i].events)

(* The newest event of object i that client c holds, -1 if none.           *)
Held(c, i) == IF last[c].log = i THEN last[c].seq ELSE -1

Reading(c) == sub[c].pc \in {"ready", "waiting"}

(* memory.py keeps a dictionary of counters and, per object, a list and an *)
(* offset, and nothing ties them but the order of the assignments: the     *)
(* list holds exactly the newest events, offset by offset, within the      *)
(* bound, and ids and offsets are the same numbers although the counter    *)
(* and the object are dropped and rebuilt by cleanup, close and readers.   *)
Lockstep(st) ==
  /\ Len(st.events) <= MaxSize
  /\ st.start_offset > 0 => Len(st.events) = MaxSize
  /\ \A k \in 1 .. Len(st.events) : st.events[k] = st.start_offset + k - 1

OffsetsMatchIds ==
  /\ \A i \in Stream : Lockstep(stream[i])
  /\ counter = IF present THEN Taken(made) ELSE 0

(* A reader's offset never runs past the log nor behind what it holds, and *)
(* it lies ahead of what the client holds only over evicted events: a      *)
(* client that drops and comes back with Last-Event-ID neither loses a     *)
(* retained event nor sees one twice (_resolve_start_offset).              *)
SoundAt(c, i, n) == /\ Held(c, i) < n
                    /\ n <= Taken(i)
                    /\ n = Held(c, i) + 1 \/ n <= stream[i].start_offset

CursorSound ==
  \A c \in Client : Reading(c) => SoundAt(c, sub[c].on, sub[c].next_offset)

(* A reader is sent the end only after the newest event of its stream: not *)
(* a lagging reader, not one that subscribed after the end, not one whose  *)
(* stream was cleaned up under it.                                         *)
CompleteAt(c, i) == stream[i].ended /\ Held(c, i) = Taken(i) - 1

EndIsComplete ==
  \A c \in Client : sub[c].pc = "done" => CompleteAt(c, sub[c].on)

(* The inductive invariant the proofs rest on: besides the above, objects  *)
(* not built yet are as new, nothing ends before publish_end, readers are  *)
(* attached to built objects and hold only events that were taken.         *)
Founded ==
  /\ \A i \in Stream : /\ i > made => stream[i] = NewRunStream
                       /\ stream[i].ended => producer # "live"
  /\ present => made \in Stream
  /\ \A c \in Client : /\ sub[c].pc # "off" => sub[c].on \in 1 .. made
                       /\ \A i \in Stream : /\ Held(c, i) < Taken(i)
                                            /\ last[c].log = i => i <= made

IndInv == TypeOK /\ Founded /\ OffsetsMatchIds /\ CursorSound /\ EndIsComplete

(* Each event handed to a client is newer than every event of that stream  *)
(* it already holds, and the only events skipped between them had been     *)
(* evicted when the reader got there.                                      *)
InOrderNoSkip ==
  [][\A c \in Client : (Reading(c) /\ last'[c] # last[c]) =>
       LET i == sub[c].on
       IN  /\ last'[c].log = i
           /\ last'[c].seq > Held(c, i)
           /\ \A n \in Held(c, i) + 1 .. last'[c].seq - 1 :
                n < stream[i].start_offset]_vars

(* The log is append-only: an object never takes an event after its end,   *)
(* never forgets how many it took, and never reopens.                      *)
AppendOnly ==
  [][\A i \in Stream :
       /\ Taken(i)' >= Taken(i)
       /\ stream[i].ended => stream'[i] = stream[i]]_vars

(* A reader of a stream that has ended is told so, or leaves, without the  *)
(* help of the heartbeat: no wake-up is lost between publish_end and a     *)
(* reader about to wait on the condition.                                  *)
EndReachesReaders ==
  \A c \in Client, i \in Stream :
    (Reading(c) /\ sub[c].on = i /\ stream[i].ended) ~> ~(Reading(c) /\ sub[c].on = i)

-----------------------------------------------------------------------------
(* The promise of the bridge: what is retained, where offsets start and    *)
(* who waits are invisible.                                                *)
LogOf == INSTANCE EventLog WITH
  Log      <- Stream,
  produced <- [i \in Stream |-> Taken(i)],
  sealed   <- {i \in Stream : stream[i].ended},
  reader   <- [c \in Client |->
                 [state |-> IF Reading(c) THEN "on" ELSE sub[c].pc,
                  log   |-> sub[c].on,
                  last  |-> last[c]]]

(* The bridge implements the event log.                                    *)
ImplementsEventLog == LogOf!LogSpec
=============================================================================
