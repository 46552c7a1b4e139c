---------------------------- MODULE MCSupervision ----------------------------
(* Values of the constants of Supervision for TLC.                           *)
EXTENDS Supervision

LimitedOrNot == {<<2, 2>>, <<0, 0>>}
LoweredLimit == {<<2, 1>>}
NoUpdates == {}
=============================================================================
