------------------------- MODULE MCRestartThrottle -------------------------
(* Values of the constants of RestartThrottle for TLC.                       *)
EXTENDS RestartThrottle

OneConfig == {<<2, 3>>}
SomeConfigs == {<<2, 3>>, <<0, 3>>, <<2, 0>>}
\* <<0, 0>> is what a POST without a restart part asks for.
SomeUpdates == {<<3, 2>>, <<0, 0>>}
NoUpdates == {}
============================================================================
