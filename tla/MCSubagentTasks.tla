-------------------------- MODULE MCSubagentTasks ---------------------------
(* SubagentTasks on a small set of tasks and a pool of one thread.  The    *)
(* runs check liveness, so they use no symmetry.                           *)
EXTENDS SubagentTasks
=============================================================================
