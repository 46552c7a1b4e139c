------------------------- MODULE MCMonitorLifecycle -------------------------
(* Values of the constants of MonitorLifecycle for TLC.                      *)
EXTENDS MonitorLifecycle, TLC

CONSTANTS a, b

Observable(callsign, operational, memory) ==
  [callsign |-> callsign, operational |-> operational, memory |-> memory]

\* With 6 us per second in words of 16: two observees (one is checked every 6 and 12
\* us; the other every 12 us, and not restarted); one that is named twice, after an
\* entry without a check; and intervals that wrap (42 and 30 us) after a number without
\* absolute value whose interval wraps to 0.
SomeConfigs ==
  { <<Observable(a, 1, 2), Observable(b, -2, 0)>>,
    <<Observable(b, 0, 0), Observable(a, 0, 1), Observable(a, 1, 1)>>,
    <<Observable(b, -8, 0), Observable(a, 7, 5)>> }

Symmetry == Permutations(Requests)
=============================================================================
