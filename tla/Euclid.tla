------------------------------- MODULE Euclid -------------------------------
(***************************************************************************)
(* The greatest common divisor of two intervals (plugin/Monitor.h, line 32), *)
(* the interval at which an observee is visited.                            *)
(***************************************************************************)
EXTENDS Integers

\* gcd(a, b) for the pair <<a, b>>, which is not <<0, 0>>.
gcd[p \in Nat \X Nat] == IF p[2] = 0 THEN p[1] ELSE gcd[<<p[2], p[1] % p[2]>>]

Divides(d, n) == n % d = 0

\* What the name promises.
IsGcd(d, a, b) ==
  /\ d > 0 /\ Divides(d, a) /\ Divides(d, b)
  /\ \A e \in (d + 1)..(IF a > b THEN a ELSE b) : ~(Divides(e, a) /\ Divides(e, b))
=============================================================================
