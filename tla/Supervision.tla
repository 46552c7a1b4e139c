----------------------------- MODULE Supervision -----------------------------
(***************************************************************************)
(* The supervision of one observed plugin from end to end: Dispatch judges *)
(* an instance of the plugin by what it answers, submits a job that takes  *)
(* the plugin down, its Deinitialized consults the restart throttle and    *)
(* submits a job that activates it again.  The jobs wait in the worker     *)
(* pool while the plugin is started, stopped and fails on its own.  The    *)
(* throttle is RestartThrottle itself, step by step; the slots and the     *)
(* flag _active are ProbeLoop's, references and locks Observee's.          *)
(***************************************************************************)
EXTENDS Integers, Powers

CONSTANTS
  Configs, Updates, Clients, Idle, CountModulus, MaxTime, MaxTries,
  Instances,  \* instances of the plugin; each activation makes one
  Null,       \* no instance
  MaxJobs     \* bound on the jobs of a kind that wait when another is caused

\* As in RestartThrottle.
ASSUME PairsAssumption ==
  /\ \A p \in Configs \cup Updates : p \in Nat \X Nat /\ p[2] < CountModulus
  /\ Idle \notin {p[2] : p \in Configs \cup Updates}
ASSUME BoundsAssumption ==
  CountModulus \in Nat \ {0} /\ MaxTime \in Nat /\ MaxTries \in Nat
ASSUME BinaryAssumption == \E width \in 1..CountModulus : CountModulus = twoTo[width]
ASSUME InstancesAssumption == Null \notin Instances
ASSUME JobsAssumption == MaxJobs \in Nat

VARIABLES
  (* RestartThrottle *)
  now, restartWindow, restartLimit, restartWindowStart, restartCount, call,
  client, tries, granted, burst, seen,
  (* the framework *)
  plugin,         \* the state of its shell, with the notification in progress
  reason,         \* Reason() it went down; MEMORY_EXCEEDED counts as FAILURE
  instance,       \* the instance that runs, or ran last
  shutdowns,      \* DEACTIVATED jobs in the pool
  activations,    \* ACTIVATED jobs in the pool
  (* MonitorObject *)
  restartAllowed, \* HasRestartAllowed(): "operational" was configured >= 0
  source,         \* the instance _source belongs to
  (* Dispatch *)
  judged,         \* the instance Evaluate calls, or has judged
  verdict,        \* what Evaluate returned
  (* history *)
  misbehaved,     \* instances that failed a check or crashed
  abandoned       \* the monitor gave up, and nobody started the plugin since

Throttle == INSTANCE RestartThrottle

throttle == <<now, restartWindow, restartLimit, restartWindowStart, restartCount, call,
              client, tries, granted, burst, seen>>
framework == <<plugin, reason, instance, shutdowns, activations>>
probe == <<judged, verdict>>
outcome == <<misbehaved, abandoned>>
vars == <<throttle, framework, restartAllowed, source, probe, outcome>>

Failing == reason = "FAILURE" /\ restartAllowed

Init ==
  /\ Throttle!Init
  /\ plugin = "down" /\ reason = "REQUESTED"
  /\ instance = Null
  /\ shutdowns = 0 /\ activations = 0
  /\ restartAllowed \in BOOLEAN
  /\ source = Null
  /\ judged = Null /\ verdict = "none"
  /\ misbehaved = {} /\ abandoned = FALSE

-----------------------------------------------------------------------------
(* The framework and whoever uses the plugin.                               *)

\* A new instance; one that nobody refers to any more stands for it.
Activate ==
  /\ plugin = "down"
  /\ plugin' = "activating"
  /\ \E i \in Instances \ {judged} :
       /\ instance' = i
       /\ misbehaved' = misbehaved \ {i}
  /\ abandoned' = FALSE
  /\ UNCHANGED <<throttle, reason, shutdowns, restartAllowed, source, probe>>

Start == activations <= MaxJobs /\ Activate /\ UNCHANGED activations

\* The plugin's Initialize fails: the monitor is told nothing.
StartFails ==
  /\ plugin = "activating"
  /\ plugin' = "down" /\ reason' = "INITIALIZATION_FAILED"
  /\ UNCHANGED <<throttle, instance, shutdowns, activations, restartAllowed, source,
                 probe, outcome>>

GoDown(why) ==
  /\ plugin = "up"
  /\ plugin' = "deactivating" /\ reason' = why
  /\ UNCHANGED <<throttle, instance, activations, restartAllowed, source, probe,
                 abandoned>>

Stop == GoDown("REQUESTED") /\ UNCHANGED <<shutdowns, misbehaved>>

\* The framework itself notices a failure.
Crash ==
  /\ GoDown("FAILURE")
  /\ misbehaved' = misbehaved \cup {instance}
  /\ UNCHANGED shutdowns

\* The pool executes the jobs once no notification about the plugin is in
\* progress; a plugin that is in the state asked for is left alone.
ExecuteShutdown ==
  /\ shutdowns > 0
  /\ shutdowns' = shutdowns - 1
  /\ \/ GoDown("FAILURE") /\ UNCHANGED misbehaved
     \/ /\ plugin = "down"
        /\ UNCHANGED <<throttle, plugin, reason, instance, activations,
                       restartAllowed, source, probe, outcome>>

ExecuteActivation ==
  /\ activations > 0
  /\ activations' = activations - 1
  /\ \/ Activate
     \/ /\ plugin = "up"
        /\ UNCHANGED <<throttle, plugin, reason, instance, shutdowns,
                       restartAllowed, source, probe, outcome>>

-----------------------------------------------------------------------------
(* Notifications.                                                           *)

\* With or without an interface IMemory.
Activated ==
  /\ plugin = "activating"
  /\ source' \in {source, instance}
  /\ plugin' = "up"
  /\ UNCHANGED <<throttle, reason, instance, shutdowns, activations,
                 restartAllowed, probe, outcome>>

\* Mutant of Deinitialized: the throttle is asked for every reason.
DeinitializedForAnyReason ==
  /\ plugin = "deactivating" /\ call = "idle"
  /\ source' = Null
  /\ \/ restartAllowed /\ Throttle!Fail /\ UNCHANGED plugin
     \/ ~restartAllowed /\ plugin' = "down" /\ UNCHANGED throttle
  /\ UNCHANGED <<reason, instance, shutdowns, activations, restartAllowed, probe, outcome>>

\* The source is cleared; the throttle is asked when the plugin failed.
Deinitialized ==
  /\ plugin = "deactivating" /\ call = "idle"
  /\ source' = Null
  /\ \/ Failing /\ Throttle!Fail /\ UNCHANGED plugin
     \/ ~Failing /\ plugin' = "down" /\ UNCHANGED throttle
  /\ UNCHANGED <<reason, instance, shutdowns, activations, restartAllowed, probe, outcome>>

\* RegisterRestart, until it has decided.
Decide ==
  /\ \/ Throttle!CountRestart \/ Throttle!LeaveWindow \/ Throttle!OpenWindow
     \/ Throttle!TestUnlimited \/ Throttle!TestLimit
  /\ UNCHANGED <<framework, restartAllowed, source, probe, outcome>>

\* Mutant of Restart: the activation is announced but not submitted.
RestartAnnounced ==
  /\ Throttle!Restart
  /\ plugin' = "down"
  /\ UNCHANGED <<reason, instance, shutdowns, activations, restartAllowed, source, probe,
                 outcome>>

\* RegisterRestart granted it: the activation is submitted, and the plugin is down.
Restart ==
  /\ Throttle!Restart
  /\ activations' = activations + 1
  /\ plugin' = "down"
  /\ UNCHANGED <<reason, instance, shutdowns, restartAllowed, source, probe, outcome>>

GiveUp ==
  /\ Throttle!GiveUp
  /\ abandoned' = TRUE
  /\ plugin' = "down"
  /\ UNCHANGED <<reason, instance, shutdowns, activations, restartAllowed, source, probe,
                 misbehaved>>

-----------------------------------------------------------------------------
(* Dispatch, as far as this plugin is concerned.                            *)

\* Evaluate takes the source, when a slot is due, ...
TakeSource ==
  /\ judged = Null /\ source # Null
  /\ judged' = source
  /\ UNCHANGED <<throttle, framework, restartAllowed, source, verdict, outcome>>

\* ... and asks that instance, which may have gone meanwhile.
Judge ==
  /\ judged # Null /\ verdict = "none"
  /\ \/ judged' = Null /\ UNCHANGED <<verdict, misbehaved>>
     \/ /\ verdict' = "failing"
        /\ misbehaved' = misbehaved \cup {judged}
        /\ UNCHANGED judged
  /\ UNCHANGED <<throttle, framework, restartAllowed, source, abandoned>>

\* The shutdown of the plugin, whichever instance runs by then, is submitted
\* unless the framework does not know the callsign any more.
ForceShutdown ==
  /\ verdict = "failing"
  /\ \/ shutdowns < MaxJobs /\ shutdowns' = shutdowns + 1
     \/ UNCHANGED shutdowns
  /\ judged' = Null /\ verdict' = "none"
  /\ UNCHANGED <<throttle, plugin, reason, instance, activations, restartAllowed,
                 source, outcome>>

-----------------------------------------------------------------------------
\* Requests, and the clock.
Elsewhere ==
  /\ Throttle!Tick \/ \E c \in Clients : Throttle!UpdateRestartLimits(c)
  /\ UNCHANGED <<framework, restartAllowed, source, probe, outcome>>

Notification == Activated \/ Deinitialized \/ Decide \/ Restart \/ GiveUp
Pool == ExecuteShutdown \/ ExecuteActivation
Dispatch == TakeSource \/ Judge \/ ForceShutdown
Environment == Start \/ StartFails \/ Stop \/ Crash \/ Elsewhere

Next == Notification \/ Pool \/ Dispatch \/ Environment

\* Notifications are delivered and the pool executes its jobs.  Nobody need start
\* or stop the plugin, and no instance need fail.
Fairness == WF_vars(Notification) /\ WF_vars(ExecuteActivation)

Spec == Init /\ [][Next]_vars
FairSpec == Spec /\ Fairness

-----------------------------------------------------------------------------
TypeOK ==
  /\ Throttle!TypeOK
  /\ plugin \in {"down", "activating", "up", "deactivating"}
  /\ reason \in {"REQUESTED", "INITIALIZATION_FAILED", "FAILURE"}
  /\ instance \in Instances \cup {Null}
  /\ shutdowns \in Nat /\ activations \in Nat
  /\ restartAllowed \in BOOLEAN
  /\ source \in Instances \cup {Null}
  /\ judged \in Instances \cup {Null}
  /\ verdict \in {"none", "failing"}
  /\ misbehaved \subseteq Instances
  /\ abandoned \in BOOLEAN

\* No failure is forgotten: a plugin that failed and is down has an activation
\* waiting in the pool, unless the monitor gave it up, also when the jobs of
\* earlier failures were executed late and without effect.
NoFailureForgotten ==
  plugin = "down" /\ Failing /\ ~abandoned => activations > 0

\* A failure is answered: the plugin is started again or given up.
FailureIsAnswered ==
  plugin = "deactivating" /\ Failing /\ tries < MaxTries
    ~> plugin = "activating" \/ abandoned

\* "Restarting %s again because we detected it misbehaved." (the trace of
\* Deinitialized): the instance that went down is one that failed a check.
RestartedBecauseItMisbehaved == call = "granted" => instance \in misbehaved

-----------------------------------------------------------------------------
(* Supervision implements Watchdog: whatever jobs and verdicts are still under *)
(* way, what happens to the plugin is what Watchdog allows.                    *)

phase ==
  IF plugin \in {"activating", "up"} THEN "up"
  ELSE IF ~Failing THEN "down"
  ELSE IF abandoned THEN "abandoned"
  ELSE IF plugin = "deactivating" /\ call # "granted" THEN "failed"
  ELSE "restarting"

Watched == INSTANCE Watchdog WITH
  Limits <- Throttle!Limits, phase <- phase, restarts <- burst,
  limits <- IF phase = "failed" THEN seen ELSE {}

\* The steps above map to those of Watchdog: no restart without a failure, none
\* that no limit in force allowed, and no giving up without a limit, nor before about
\* log2 of a limit in force restarts unless the limit was lifted meanwhile.
ImplementsWatchdog == Watched!Spec

-----------------------------------------------------------------------------
\* The conjuncts of SupervisionInv, behind NoFailureForgotten and the refinement.

\* The throttle is at work only for a plugin that goes down and failed, and it
\* refuses only when it saw a limit.
DecisionInv ==
  /\ call # "idle" => plugin = "deactivating" /\ Failing
  /\ call = "idle" => seen = {}
  /\ call \in {"compare", "refused"} => \E l \in seen : l # 0
  /\ abandoned => plugin = "down"
  /\ plugin # "down" => instance \in Instances

\* The inductive invariant: a failure is with the throttle, in the pool or given
\* up, and the throttle works on failures only.
SupervisionInv ==
  TypeOK /\ Throttle!IInv /\ DecisionInv /\ NoFailureForgotten
=============================================================================
