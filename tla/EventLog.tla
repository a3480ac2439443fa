------------------------------ MODULE EventLog ------------------------------
(***************************************************************************)
(* What a stream bridge promises to the readers of a run, whatever its     *)
(* buffer does: the abstract specification that StreamBridge implements.   *)
(* A log is the life of one run's stream.  It grows by numbered events     *)
(* until it is sealed.  A reader is attached to one log, is handed events  *)
(* whose numbers only grow, may miss some of them (retention is bounded)   *)
(* but never the newest one, and is told the end only when the log is      *)
(* sealed and it holds the newest event.                                   *)
(***************************************************************************)
EXTENDS Integers

CONSTANTS Client,      \* the readers
          Log          \* the logs

VARIABLES produced,    \* how many events each log has taken
          sealed,      \* the logs whose producer has finished
          reader       \* for each client, its attachment and its last event

logVars == <<produced, sealed, reader>>

(* The last event a client holds: a log and a number, or none of any log.  *)
NoEvent == [log |-> 0, seq |-> -1]

EventId == [log : Log, seq : Nat] \cup {NoEvent}

Reader == [state : {"off", "on", "done"}, log : Log \cup {0}, last : EventId]

LogTypeOK == /\ produced \in [Log -> Nat]
             /\ sealed \in SUBSET Log
             /\ reader \in [Client -> Reader]

(* The number of the last event of log l that c holds, -1 if it has none.  *)
HeldOf(last, l) == IF last.log = l THEN last.seq ELSE -1

LogInit == /\ produced = [l \in Log |-> 0]
           /\ sealed = {}
           /\ reader = [c \in Client |->
                          [state |-> "off", log |-> 0, last |-> NoEvent]]

Append1(l) == /\ l \notin sealed
              /\ produced' = [produced EXCEPT ![l] = @ + 1]
              /\ UNCHANGED <<sealed, reader>>

Seal(l) == /\ sealed' = sealed \cup {l}
           /\ UNCHANGED <<produced, reader>>

(* A client attaches afresh, or goes on from the last event it holds.      *)
Attach(c, l) ==
  /\ reader[c].state # "on"
  /\ \E last \in {NoEvent, reader[c].last} :
       reader' = [reader EXCEPT ![c] =
                    [state |-> "on", log |-> l, last |-> last]]
  /\ UNCHANGED <<produced, sealed>>

Detach(c) == /\ reader[c].state = "on"
             /\ reader' = [reader EXCEPT ![c] =
                             [state |-> "off", log |-> 0, last |-> @.last]]
             /\ UNCHANGED <<produced, sealed>>

Receive(c) ==
  LET l == reader[c].log IN
  /\ reader[c].state = "on"
  /\ \E n \in HeldOf(reader[c].last, l) + 1 .. produced[l] - 1 :
       reader' = [reader EXCEPT ![c].last = [log |-> l, seq |-> n]]
  /\ UNCHANGED <<produced, sealed>>

(* The end is told only to a reader that holds the newest event.           *)
ReceiveEnd(c) ==
  LET l == reader[c].log IN
  /\ reader[c].state = "on"
  /\ l \in sealed
  /\ HeldOf(reader[c].last, l) = produced[l] - 1
  /\ reader' = [reader EXCEPT ![c].state = "done"]
  /\ UNCHANGED <<produced, sealed>>

LogNext == \/ \E l \in Log : Append1(l) \/ Seal(l)
           \/ \E c \in Client : \/ \E l \in Log : Attach(c, l)
                                \/ Detach(c)
                                \/ Receive(c)
                                \/ ReceiveEnd(c)

LogSpec == LogInit /\ [][LogNext]_logVars
=============================================================================
