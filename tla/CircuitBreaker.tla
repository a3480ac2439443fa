---------------------------- MODULE CircuitBreaker ----------------------------
(***************************************************************************)
(* The circuit breaker around model calls                                  *)
(* (agents/middlewares/llm_error_handling_middleware.py), for callers that *)
(* share one middleware object, as the threads of a DeerFlowClient do.     *)
(*                                                                         *)
(* Every section under _circuit_lock is one step.  Of the time only        *)
(* whether _circuit_open_until has passed matters, and of an attempt how   *)
(* it ends; the waiting between attempts disturbs nobody.                  *)
(***************************************************************************)
EXTENDS Integers, FiniteSets

CONSTANTS Caller,             \* threads or tasks that make model calls
          FailureThreshold,   \* circuit_failure_threshold
          RetryMaxAttempts    \* retry_max_attempts

ASSUME FailuresAssumption == FailureThreshold \in Nat \ {0}
ASSUME AttemptsAssumption == RetryMaxAttempts \in Nat \ {0}

VARIABLES state,     \* _circuit_state
          failures,  \* _circuit_failure_count
          cooling,   \* time.time() < _circuit_open_until
          probe,     \* _circuit_probe_in_flight
          attempt,   \* the caller's attempt, 0 outside a call
          probing,   \* history: the call was let through as the probe
          strayed,   \* history: a call that was not the probe has recorded
                     \* its end while the circuit was half open
          abandoned  \* history: a probe has ended without recording anything

circuit == <<state, failures, cooling, probe>>
breakerVars == <<circuit, attempt, probing, strayed, abandoned>>

BreakerTypeOK ==
  /\ state \in {"closed", "open", "half_open"}
  /\ failures \in Nat
  /\ cooling \in BOOLEAN
  /\ probe \in BOOLEAN
  /\ attempt \in [Caller -> 0 .. RetryMaxAttempts]
  /\ probing \in [Caller -> BOOLEAN]
  /\ strayed \in BOOLEAN
  /\ abandoned \in BOOLEAN

BreakerInit ==
  /\ state = "closed"
  /\ failures = 0
  /\ cooling = FALSE
  /\ probe = FALSE
  /\ attempt = [c \in Caller |-> 0]
  /\ probing = [c \in Caller |-> FALSE]
  /\ strayed = FALSE
  /\ abandoned = FALSE

-----------------------------------------------------------------------------
Calling(c) == attempt[c] > 0

(* The recovery time passes.                                               *)
TimePasses == /\ cooling
              /\ cooling' = FALSE
              /\ UNCHANGED <<state, failures, probe, attempt, probing, strayed,
                             abandoned>>

(* _check_circuit lets the call through.                                   *)
AdmitClosed(c) == /\ ~Calling(c) /\ state = "closed"
                  /\ attempt' = [attempt EXCEPT ![c] = 1]
                  /\ UNCHANGED <<circuit, probing, strayed, abandoned>>

AdmitProbe(c) == /\ ~Calling(c)
                 /\ \/ state = "open" /\ ~cooling
                    \/ state = "half_open" /\ ~probe
                 /\ state' = "half_open"
                 /\ probe' = TRUE
                 /\ attempt' = [attempt EXCEPT ![c] = 1]
                 /\ probing' = [probing EXCEPT ![c] = TRUE]
                 /\ UNCHANGED <<failures, cooling, strayed, abandoned>>

(* _check_circuit answers for the model.                                   *)
FastFail(c) == /\ ~Calling(c)
               /\ \/ state = "open" /\ cooling
                  \/ state = "half_open" /\ probe
               /\ UNCHANGED breakerVars

-----------------------------------------------------------------------------
(* The end of a call, or of one of its attempts.                           *)

Leave(c) == /\ Calling(c)
            /\ attempt' = [attempt EXCEPT ![c] = 0]
            /\ probing' = [probing EXCEPT ![c] = FALSE]

Recorded(c) == /\ strayed' = (strayed \/ (state = "half_open" /\ ~probing[c]))
               /\ UNCHANGED abandoned

Trip == state' = "open" /\ cooling' = TRUE /\ probe' = FALSE

(* The circuit closes and keeps its count.                                 *)
MistakeSucceed(c) == /\ Leave(c)
                     /\ state' = "closed"
                     /\ cooling' = FALSE
                     /\ probe' = FALSE
                     /\ UNCHANGED failures
                     /\ Recorded(c)

(* _record_success                                                         *)
Succeed(c) == /\ Leave(c)
              /\ state' = "closed"
              /\ failures' = 0
              /\ cooling' = FALSE
              /\ probe' = FALSE
              /\ Recorded(c)

(* The last attempt is retried.                                            *)
MistakeRetry(c) == /\ Calling(c) /\ attempt[c] <= RetryMaxAttempts
                   /\ attempt' = [attempt EXCEPT ![c] = @ + 1]
                   /\ UNCHANGED <<circuit, probing, strayed, abandoned>>

(* A transient error, and attempts left.                                   *)
Retry(c) == /\ Calling(c) /\ attempt[c] < RetryMaxAttempts
            /\ attempt' = [attempt EXCEPT ![c] = @ + 1]
            /\ UNCHANGED <<circuit, probing, strayed, abandoned>>

(* A transient error at the last attempt: _record_failure.                 *)
FailHalfOpen(c) == /\ Leave(c) /\ attempt[c] = RetryMaxAttempts
                   /\ state = "half_open"
                   /\ Trip
                   /\ UNCHANGED failures
                   /\ Recorded(c)

FailCounted(c) == /\ Leave(c) /\ attempt[c] = RetryMaxAttempts
                  /\ state # "half_open"
                  /\ failures' = failures + 1
                  /\ IF failures' >= FailureThreshold
                     THEN /\ cooling' = TRUE
                          /\ state' = "open"
                          /\ probe' = (state = "open" /\ probe)
                     ELSE UNCHANGED <<state, cooling, probe>>
                  /\ Recorded(c)

(* Bubble-ups are re-raised and nothing else.                              *)
MistakeBubbleUp(c) == /\ Leave(c)
                      /\ UNCHANGED circuit
                      /\ Recorded(c)

(* GraphBubbleUp: an interrupt or a jump of the graph passes through.      *)
BubbleUp(c) == /\ Leave(c)
               /\ probe' = (probe /\ state # "half_open")
               /\ UNCHANGED <<state, failures, cooling>>
               /\ Recorded(c)

(* An error that no retry can help, or a cancellation: nothing is told to  *)
(* the circuit.                                                            *)
Abandon(c) == /\ Leave(c)
              /\ abandoned' = (abandoned \/ probing[c])
              /\ UNCHANGED <<circuit, strayed>>

Enter(c) == AdmitClosed(c) \/ AdmitProbe(c) \/ FastFail(c)

EndCall(c) ==
  \/ Succeed(c) \/ FailHalfOpen(c) \/ FailCounted(c) \/ BubbleUp(c)
  \/ Abandon(c)

BreakerNext == TimePasses \/ \E c \in Caller : Enter(c) \/ Retry(c) \/ EndCall(c)

BreakerSpec == BreakerInit /\ [][BreakerNext]_breakerVars

(* Attempts have time-outs, and a call has a bounded number of attempts.   *)
BreakerFairSpec == BreakerSpec /\ \A c \in Caller : WF_breakerVars(Retry(c) \/ EndCall(c))

-----------------------------------------------------------------------------
(* Properties.                                                             *)

(* A closed circuit has room for one more failure: whatever the order in   *)
(* which calls of different ages succeed, fail and reopen it (lines        *)
(* 105-136), it never closes with a count that would never trip again.     *)
ClosedBelowThreshold == state = "closed" => failures < FailureThreshold

(* As long as only probes report to a half-open circuit there is one probe *)
(* at a time, and it finds the circuit half open when it ends (lines       *)
(* 91-101).  Calls that are older than the opening may break this.         *)
Probes == {c \in Caller : Calling(c) /\ probing[c]}
OneProbe ==
    ~strayed => /\ \A b, c \in Probes : b = c
                /\ Probes # {} => state = "half_open" /\ probe

(* Unless a probe is abandoned, the flag that keeps the others out is      *)
(* taken back, by a success, a failure or a bubble-up (lines 112, 119,     *)
(* 227).                                                                   *)
ProbeResolved ==
    []~abandoned => (state = "half_open" /\ probe ~> state # "half_open" \/ ~probe)

(* What they rest on: only a call in flight is a probe, and a closed       *)
(* circuit remembers no probe.                                             *)
ProbeCalls == \A c \in Caller : probing[c] => Calling(c)
BreakerInv == BreakerTypeOK /\ ClosedBelowThreshold /\ OneProbe /\ ProbeCalls
=============================================================================
