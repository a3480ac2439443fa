--------------------------- MODULE MCRunLifecycle ---------------------------
(* RunLifecycle on a small set of runs.  The runs check liveness, so they  *)
(* use no symmetry.                                                        *)
EXTENDS RunLifecycle
=============================================================================
