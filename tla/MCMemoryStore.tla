----------------------------- MODULE MCMemoryStore ---------------------------
(* MemoryStore on small sets: the event loop and a timer thread, and one   *)
(* more fact than the limit.  Neither is told apart from another.          *)
EXTENDS MemoryStore, TLC

Symmetry == Permutations(Actor) \cup Permutations(Fact)
=============================================================================
