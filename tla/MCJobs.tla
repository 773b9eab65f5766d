------------------------------- MODULE MCJobs -------------------------------
(* Jobs on a small instance: two calls in flight, two jobs ever started, and   *)
(* two pids, of which the first is free for reuse once its group is gone.       *)
EXTENDS Jobs, TLC

Symmetry == Permutations(JobId) \cup Permutations(Caller) \cup Permutations(Pid)
=============================================================================
