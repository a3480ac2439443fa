----------------------------- MODULE MCMemoryQueue ---------------------------
(* MemoryQueue on small sets.  The second worker has no turn unless two    *)
(* batches are at work at a time.                                          *)
EXTENDS MemoryQueue
=============================================================================
