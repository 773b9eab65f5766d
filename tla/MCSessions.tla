----------------------------- MODULE MCSessions -----------------------------
(* Sessions on a small instance: two sessions, two requests in flight, a retention     *)
(* longer than the keep-alive, and a clock that outlives the retention.                *)
EXTENDS Sessions, TLC

Symmetry == Permutations(Session) \cup Permutations(Caller)
=============================================================================
