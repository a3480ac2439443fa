--------------------------- MODULE MCStreamBridge ---------------------------
(* StreamBridge on small sets of readers, stream objects and events.  The  *)
(* runs check liveness, so they use no symmetry.                           *)
EXTENDS StreamBridge
=============================================================================
