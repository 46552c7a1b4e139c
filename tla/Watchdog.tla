------------------------------ MODULE Watchdog ------------------------------
(***************************************************************************)
(* What the monitor promises of one plugin it may restart: a failure is    *)
(* followed by a restart, as long as a limit allows, or by giving up; a    *)
(* plugin that was stopped for another reason is left alone.  The limit is *)
(* one on a measure that doubles with each restart.  Whoever uses the      *)
(* plugin may start it whenever it is not running, and stop it.            *)
(***************************************************************************)
EXTENDS Integers, Powers

CONSTANT Limits  \* limits (natural numbers) of restarts that may be asked for; 0 is no limit

VARIABLES
  phase,     \* what has become of the plugin
  restarts,  \* restarts granted in this series
  limits     \* limits in force since the plugin failed

vars == <<phase, restarts, limits>>

Init == phase = "down" /\ restarts = 0 /\ limits = {}

Start ==
  /\ phase \in {"down", "restarting", "abandoned"}
  /\ phase' = "up"
  /\ UNCHANGED <<restarts, limits>>

Stop ==
  /\ phase = "up"
  /\ phase' = "down"
  /\ UNCHANGED <<restarts, limits>>

Fail ==
  /\ phase = "up"
  /\ phase' = "failed"
  /\ UNCHANGED <<restarts, limits>>

\* A limit is, or comes, into force.
Limit(l) ==
  /\ phase = "failed"
  /\ limits' = limits \cup {l}
  /\ UNCHANGED <<phase, restarts>>

\* The time since the last series began is long enough to begin another.
NewSeries ==
  /\ phase = "failed"
  /\ restarts' = 0
  /\ UNCHANGED <<phase, limits>>

Restart ==
  /\ phase = "failed"
  /\ \E l \in limits : l = 0 \/ twoTo[restarts] <= l
  /\ phase' = "restarting"
  /\ restarts' = restarts + 1
  /\ limits' = {}

\* A limit in force was used up, or was lifted while the failure was judged.
GiveUp ==
  /\ phase = "failed"
  /\ \E l \in limits \ {0} : l < twoTo[restarts + 1] \/ 0 \in limits
  /\ phase' = "abandoned"
  /\ restarts' = 0
  /\ limits' = {}

Next ==
  \/ Start \/ Stop \/ Fail \/ (\E l \in Limits : Limit(l)) \/ NewSeries
  \/ Restart \/ GiveUp

Spec == Init /\ [][Next]_vars
=============================================================================
