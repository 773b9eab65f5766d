---------------------------- MODULE MCFileTools ----------------------------
(* FileTools on a small instance: two calls on a file of a few bytes. *)
EXTENDS FileTools, TLC

CONSTANTS a, b

\* In the longest, <<a>> occurs apart from itself and <<a, a>> over itself; <<a, a>>
\* itself is an exact match.
MCText == {<<>>, <<a>>, <<a, a>>, <<b, a, a, a>>}

Symmetry == Permutations(Call)
=============================================================================
