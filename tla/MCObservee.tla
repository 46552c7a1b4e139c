----------------------------- MODULE MCObservee -----------------------------
(* Observee for TLC: requests are interchangeable, and so are instances.     *)
EXTENDS Observee, TLC

Symmetry == Permutations(Requests) \cup Permutations(Instances)
=============================================================================
