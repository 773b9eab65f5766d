----------------------------- MODULE MCJobOutput -----------------------------
(* JobOutput on a small instance: two streams of four bytes, a ceiling of three. *)
EXTENDS JobOutput

CONSTANTS out, err

\* stdout is a character of two bytes between others of one, stderr one of three after one
\* of one.
MCContinuation == {<<out, 3>>, <<err, 3>>, <<err, 4>>}

MCTrail ==
    [u \in Unit |-> IF u = <<out, 2>> THEN 1 ELSE IF u = <<err, 2>> THEN 2 ELSE 0]
=============================================================================
