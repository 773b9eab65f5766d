------------------------------ MODULE MCOAuth ------------------------------
(* OAuth on a small instance: two codes, two tokens and two requests in flight, a   *)
(* URI and a verifier that may be the wrong one, and a clock that outlives both     *)
(* kinds of expiry.                                                                 *)
EXTENDS OAuth, TLC

Symmetry == Permutations(Code) \cup Permutations(Token) \cup Permutations(Caller)
            \cup Permutations(Verifier) \cup Permutations(Uri)
=============================================================================
