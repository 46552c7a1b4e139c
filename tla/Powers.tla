------------------------------- MODULE Powers -------------------------------
(* The powers of two, as far as RestartThrottle counts in them.              *)
EXTENDS Integers

twoTo[n \in Nat] == IF n = 0 THEN 1 ELSE 2 * twoTo[n - 1]
=============================================================================
