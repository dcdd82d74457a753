------------------------------- MODULE MCRetry -------------------------------
(* Gives names to the constants that are not single numbers.               *)
EXTENDS Retry

MCJitter == {1, 4}
==============================================================================
