------------------------------- MODULE MCServer -------------------------------
(* The composed server on a small instance: two sessions and two requests in flight over  *)
(* a short clock, two job ids, and restarts that may change the configuration.            *)
EXTENDS Server, TLC

Symmetry == Permutations(Session) \cup Permutations(Caller) \cup Permutations(Job)
=============================================================================
