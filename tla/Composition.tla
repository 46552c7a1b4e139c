---------------------------- MODULE Composition ----------------------------
(***************************************************************************)
(* The composition of ProbeLoop with MonitorLifecycle: the probe job, slot  *)
(* by slot, is the one whose passes MonitorLifecycle makes while the        *)
(* monitor serves.  What ProbeLoop adds (slots, intervals, the clock, memory *)
(* interfaces, shutdowns) is hidden; the map, the requests and the samples, *)
(* which it leaves out, stand still.                                        *)
(***************************************************************************)
EXTENDS ProbeLoop

\* A notification that has set _active is under way until it has submitted the job.
phase(stage) ==
  CASE stage \in {"set", "submit"} -> "activated"
    [] stage = "clear" -> "deinitialized"
    [] OTHER -> stage

\* What Open made of the configuration.
Settings ==
  [o \in Observees |->
     [operational |-> operationalInterval[o], memory |-> memoryInterval[o],
      interval |-> Interval(o), restartAllowed |-> TRUE]]

NoSamples == [o \in Observees |-> {}]
NoRequests == [r \in {} |-> {}]

Life == INSTANCE MonitorLifecycle WITH
  Callsigns <- Observees, Empty <- Nobody, Configs <- {<<>>}, Requests <- {},
  MicrosPerSecond <- 1, WordModulus <- SlotModulus, MaxSamples <- 0,
  step <- 5, config <- <<>>, index <- 0,
  monitor <- Settings,
  active <- {o \in Observees : active[o]},
  samples <- NoSamples,
  listening <- TRUE, reports <- {},
  plugin <- [o \in Observees |-> phase(notified[o])],
  job <- IF job = "running" /\ due # None THEN "again" ELSE job,
  todo <- todo,
  found <- current # Nobody \/ (earliest # None /\ step = "select"),
  request <- NoRequests,
  taken <- 0, answered <- {}, raced <- {}

\* Each step of the probe loop is a step of the monitor's life, or hidden from it, and it
\* begins in a state such a life can reach: what is proved of the lifecycle, where a pass
\* only sees who is active, holds of the passes that follow slots and the clock.
PassesOfTheLife == Life!LifecycleInv /\ [][Life!Next]_(Life!vars)
=============================================================================
