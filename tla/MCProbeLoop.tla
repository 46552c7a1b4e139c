---------------------------- MODULE MCProbeLoop ----------------------------
(* Values of the constants of ProbeLoop for TLC.                            *)
EXTENDS Composition

CONSTANTS both, one

\* `both` is checked both ways, at intervals of which neither divides the other;
\* `one` has its memory checked only.
TwoObservees == {both, one}
OperationalOf == [o \in TwoObservees |-> IF o = both THEN 2 ELSE 0]
MemoryOf == [o \in TwoObservees |-> IF o = both THEN 3 ELSE 2]
\* Every check is due at every visit; the visits of `one` are half as frequent.
OftenOf == [o \in TwoObservees |-> IF o = both THEN 1 ELSE 0]
SeldomOf == [o \in TwoObservees |-> IF o = both THEN 1 ELSE 2]
============================================================================
