--------------------------- MODULE MCCircuitBreaker ---------------------------
(* CircuitBreaker on small sets.  Three callers: a probe, a second one and *)
(* a call that is older than the opening.                                  *)
EXTENDS CircuitBreaker
=============================================================================
