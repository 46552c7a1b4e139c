------------------------- MODULE CompositionProofs -------------------------
(***************************************************************************)
(* Proof that the passes of ProbeLoop are those of MonitorLifecycle, and of *)
(* what the lifecycle's invariant says of them.                             *)
(***************************************************************************)
EXTENDS Composition, ProbeLoopProofs, Sequences

\* What the refinement needs beside ProbeInv: between the passes, nobody is left to visit.
RestInv == step \in {"idle", "return"} => todo = {}

LEMMA RestStep == ASSUME RestInv, [Next]_vars PROVE RestInv'
BY DEF RestInv, Next, Dispatch, Visit, Notify, vars, objects, pass, pool, BeginPass,
   SkipInactive, SkipEarly, SelectDue, EvaluateNothing, EvaluateSource, ForceShutdown,
   Retrigger, FinishPass, EndPass, Activated, SetSource, StartProbing, Deinitialized,
   ClearSource, SetInactive, ExecuteShutdown, Tick

\* The images of the flags, the notifications, the job and the search.
Active == {o \in Observees : active[o]}
Plugin == [o \in Observees |-> phase(notified[o])]
Job == IF job = "running" /\ due # None THEN "again" ELSE job
Found == current # Nobody \/ (earliest # None /\ step = "select")

\* The lifecycle observes the observees.
LEMMA SameObservees == Life!Observed = Observees /\ Life!Observed' = Observees
BY DEF Life!Observed, Settings

\* A step that leaves the images alone is hidden from the lifecycle.
LEMMA Hidden ==
  ASSUME UNCHANGED <<Active, Plugin, Job, todo, Found>>
  PROVE  UNCHANGED Life!vars
BY DEF Life!vars, Life!life, Life!framework, Life!dispatch, Life!history,
   Active, Plugin, Job, Found

\* A job that is submitted is submitted in the lifecycle as well.
LEMMA SameSubmit ==
  ASSUME TypeOK, Submit
  PROVE  Job' = (IF Job = "idle" THEN "queued" ELSE IF Job = "running" THEN "again" ELSE Job)
BY SentinelAssumption DEF Submit, RunAt, Job, TypeOK

-----------------------------------------------------------------------------
\* What stands still in the lifecycle while it serves.
LEMMA Still == Settings' = Settings /\ NoSamples' = NoSamples /\ NoRequests' = NoRequests
BY DEF Settings, NoSamples, NoRequests

\* The steps of a pass.
LEMMA BeginIsBegin ==
  ASSUME ProbeInv, BeginPass
  PROVE  Life!BeginPass
<1>1. step = "idle" /\ current = Nobody
  BY DEF ProbeInv, JobInv, BeginPass, TypeOK
<1>2. Found' = Found
  BY <1>1 DEF BeginPass, Found
<1>3. Job = "queued" /\ Job' = "running" /\ todo' = Life!Observed
  BY SameObservees DEF BeginPass, Job
<1>4. Active' = Active /\ Plugin' = Plugin
  BY DEF BeginPass, objects, Active, Plugin
<1>5. QED
  BY <1>2, <1>3, <1>4, Still DEF Life!BeginPass, Life!life, Life!framework, Life!history,
     Active, Plugin, Job, Found

LEMMA VisitIsVisit ==
  ASSUME ProbeInv, NEW o \in Observees, Visit(o)
  PROVE  \E c \in todo : Life!Visit(c)
<1>1. /\ step = "select" /\ job = "running" /\ o \in todo /\ todo' = todo \ {o}
      /\ current = Nobody
  BY DEF ProbeInv, JobInv, TypeOK, Visit, SkipInactive, SkipEarly, SelectDue
<1>2. Active' = Active /\ Plugin' = Plugin /\ Job' = Job
  BY DEF Visit, SkipInactive, SkipEarly, SelectDue, objects, pool, Active, Plugin, Job
<1>3. Found' = (Found \/ o \in Active)
  BY <1>1, SentinelAssumption
     DEF ProbeInv, TypeOK, Visit, SkipInactive, SkipEarly, SelectDue, Earlier, Active, Found
<1>4. Life!Running
  BY <1>1 DEF Life!Running
<1>5. Life!Visit(o)
  BY <1>1, <1>2, <1>3, <1>4, Still DEF Life!Visit, Life!life, Life!framework,
     Active, Plugin, Job, Found
<1>6. QED
  BY <1>1, <1>5

LEMMA FinishIsFinish ==
  ASSUME ProbeInv, FinishPass
  PROVE  Life!FinishPass \/ UNCHANGED Life!vars
<1>1. /\ step = "select" /\ step' = "return" /\ job = "running" /\ job' = "running"
      /\ todo = {} /\ todo' = todo /\ current = Nobody /\ current' = Nobody
  BY DEF ProbeInv, JobInv, TypeOK, FinishPass, Submit, Reschedule
<1>2. Active' = Active /\ Plugin' = Plugin
  BY DEF FinishPass, objects, Active, Plugin
<1>3. CASE earliest = None
  BY <1>1, <1>2, <1>3, Hidden DEF FinishPass, Job, Found
<1>4. CASE earliest # None
  <2>1. due' # None
    BY <1>1, <1>4, SentinelAssumption, BoundsAssumption
       DEF ProbeInv, TypeOK, FinishPass, Submit, Reschedule, RunAt
  <2>2. Found /\ ~Found' /\ Job' = "again" /\ Life!Running
    BY <1>1, <1>4, <2>1 DEF Found, Job, Life!Running
  <2>3. QED
    BY <1>1, <1>2, <2>2, Still DEF Life!FinishPass, Life!life, Life!framework, Life!history,
       Active, Plugin, Job, Found
<1>5. QED
  BY <1>3, <1>4

LEMMA EndIsEnd ==
  ASSUME ProbeInv, RestInv, EndPass
  PROVE  Life!EndPass
<1>1. /\ step = "return" /\ step' = "idle" /\ job = "running" /\ todo = {} /\ todo' = todo
      /\ current = Nobody /\ current' = Nobody
  BY DEF ProbeInv, JobInv, TypeOK, EndPass, RestInv
<1>2. Active' = Active /\ Plugin' = Plugin
  BY DEF EndPass, objects, Active, Plugin
<1>3. ~Found /\ ~Found' /\ Life!Running
  BY <1>1 DEF Found, Life!Running
<1>4. Job' = IF Job = "again" THEN "queued" ELSE "idle"
  BY <1>1 DEF EndPass, Job
<1>5. QED
  BY <1>1, <1>2, <1>3, <1>4, Still DEF Life!EndPass, Life!life, Life!framework, Life!history,
     Active, Plugin, Job, Found

\* While an observee is evaluated, the pass has found it.
LEMMA EvaluationIsHidden ==
  ASSUME ProbeInv, EvaluateNothing \/ EvaluateSource \/ ForceShutdown \/ Retrigger
  PROVE  UNCHANGED Life!vars
<1>1. current # Nobody
  BY DEF ProbeInv, JobInv, EvaluateNothing, EvaluateSource, ForceShutdown, Retrigger
<1>2. UNCHANGED <<active, notified, job, due, todo>>
  BY DEF EvaluateNothing, EvaluateSource, ForceShutdown, Retrigger, objects, pool
<1>3. CASE Retrigger
  <2>1. PICK k \in 0..(scheduledTime - nextSlot[current]) :
          /\ nextSlot[current] + k * Interval(current)
               \in scheduledTime..(scheduledTime + Interval(current) - 1)
          /\ earliest' = Earlier(nextSlot[current] + k * Interval(current))
    BY <1>3 DEF Retrigger
  <2>2. earliest' # None /\ step' = "select"
    <3> DEFINE slot == nextSlot[current] + k * Interval(current)
    <3>1. slot \in Int /\ slot >= 0
      BY <1>1, <2>1, IntervalDivides DEF ProbeInv, TypeOK
    <3>2. slot # None
      BY <3>1, SentinelAssumption
    <3> HIDE DEF slot
    <3>3. QED
      BY <1>3, <2>1, <3>2, SentinelAssumption DEF slot, Retrigger, Earlier, ProbeInv, TypeOK
  <2>3. Found /\ Found'
    BY <1>1, <2>2 DEF Found
  <2>4. QED
    BY <1>2, <2>3, Hidden DEF Active, Plugin, Job, Found
<1>4. CASE EvaluateNothing \/ EvaluateSource \/ ForceShutdown
  <2>1. current' = current
    BY <1>4 DEF EvaluateNothing, EvaluateSource, ForceShutdown
  <2>2. QED
    BY <1>1, <1>2, <2>1, Hidden DEF Active, Plugin, Job, Found
<1>5. QED
  BY <1>3, <1>4

-----------------------------------------------------------------------------
\* The steps of a notification: a change of `notified` is one of the plugin's image.
LEMMA PluginImage ==
  ASSUME ProbeInv, NEW o \in Observees, NEW stage,
         notified' = [notified EXCEPT ![o] = stage]
  PROVE  Plugin' = [Plugin EXCEPT ![o] = phase(stage)]
BY DEF ProbeInv, TypeOK, Plugin, phase

LEMMA ActivatedIsComeUp ==
  ASSUME ProbeInv, NEW o \in Observees, Activated(o)
  PROVE  Life!ComeUp(o)
<1>1. Plugin[o] = "down" /\ Plugin' = [Plugin EXCEPT ![o] = "activated"]
  BY PluginImage DEF Activated, Plugin, phase
<1>2. Active' = Active \cup {o}
  BY DEF ProbeInv, TypeOK, Activated, Active
<1>3. Job' = Job /\ todo' = todo /\ Found' = Found
  BY DEF Activated, pool, pass, Job, Found
<1>4. QED
  BY <1>1, <1>2, <1>3, Still, SameObservees
     DEF Life!ComeUp, Life!Activated, Life!life, Life!dispatch, Life!history,
     Active, Plugin, Job, Found

LEMMA SetSourceIsHidden ==
  ASSUME ProbeInv, NEW o \in Observees, SetSource(o)
  PROVE  UNCHANGED Life!vars
<1>1. Plugin[o] = "activated" /\ Plugin' = [Plugin EXCEPT ![o] = "activated"]
  BY PluginImage DEF SetSource, Plugin, phase
<1>2. Plugin' = Plugin
  BY <1>1 DEF Plugin
<1>3. QED
  BY <1>2, Hidden DEF SetSource, pool, pass, Active, Job, Found

LEMMA StartIsStart ==
  ASSUME ProbeInv, NEW o \in Observees, StartProbing(o)
  PROVE  Life!StartProbing(o)
<1>1. Plugin[o] = "activated" /\ Plugin' = [Plugin EXCEPT ![o] = "up"]
  BY PluginImage DEF StartProbing, Plugin, phase
<1>2. Life!Submit
  BY SameSubmit DEF ProbeInv, StartProbing, Life!Submit, Job
<1>3. Active' = Active /\ todo' = todo /\ Found' = Found
  BY DEF StartProbing, pass, Active, Found
<1>4. QED
  BY <1>1, <1>2, <1>3, Still DEF Life!StartProbing, Life!life, Life!history,
     Active, Plugin, Found

\* ... the plugin goes down of itself, or because a shutdown was submitted.
LEMMA ClearIsGoDown ==
  ASSUME ProbeInv, NEW o \in Observees, ClearSource(o),
         UNCHANGED <<active, job, due, pass>>
  PROVE  Life!GoDown(o)
<1>1. Plugin[o] = "up" /\ Plugin' = [Plugin EXCEPT ![o] = "deinitialized"]
  BY PluginImage DEF ClearSource, Plugin, phase
<1>2. Active' = Active /\ Job' = Job /\ todo' = todo /\ Found' = Found
  BY DEF pass, Active, Job, Found
<1>3. QED
  BY <1>1, <1>2, Still, SameObservees DEF Life!GoDown, Life!life, Life!dispatch,
     Life!history, Active, Plugin, Job, Found

LEMMA InactiveIsInactive ==
  ASSUME ProbeInv, NEW o \in Observees, SetInactive(o)
  PROVE  Life!SetInactive(o)
<1>1. Plugin[o] = "deinitialized" /\ Plugin' = [Plugin EXCEPT ![o] = "down"]
  BY PluginImage DEF SetInactive, Plugin, phase
<1>2. Active' = Active \ {o}
  BY DEF ProbeInv, TypeOK, SetInactive, Active
<1>3. Job' = Job /\ todo' = todo /\ Found' = Found
  BY DEF SetInactive, pool, pass, Job, Found
<1>4. QED
  BY <1>1, <1>2, <1>3, Still
     DEF Life!SetInactive, Life!life, Life!dispatch, Life!history, Active, Plugin, Job, Found

\* Every step of the probe loop is one of the monitor's life, or hidden from it.
LEMMA StepIsLifeStep ==
  ASSUME ProbeInv, RestInv, [Next]_vars
  PROVE  [Life!Next]_(Life!vars)
<1>1. CASE Dispatch
  <2>1. Life!Dispatch \/ UNCHANGED Life!vars
    BY <1>1, BeginIsBegin, VisitIsVisit, EvaluationIsHidden, FinishIsFinish, EndIsEnd
       DEF Dispatch, Life!Dispatch
  <2>2. QED
    BY <2>1 DEF Life!Next
<1>2. ASSUME NEW o \in Observees, Notify(o)
      PROVE  Life!Notify(o) \/ UNCHANGED Life!vars
  <2>1. CASE Activated(o) \/ SetSource(o) \/ StartProbing(o) \/ SetInactive(o)
    BY <2>1, ActivatedIsComeUp, SetSourceIsHidden, StartIsStart, InactiveIsInactive
       DEF Life!Notify
  <2>2. CASE Deinitialized(o)
    BY <2>2, ClearIsGoDown DEF Deinitialized, pool, Life!Notify
  <2>3. CASE ExecuteShutdown(o)
    <3>1. CASE ClearSource(o)
      BY <2>3, <3>1, ClearIsGoDown DEF ExecuteShutdown, Life!Notify
    <3>2. CASE UNCHANGED notified
      BY <2>3, <3>2, Hidden DEF ExecuteShutdown, pass, Active, Plugin, Job, Found
    <3>3. QED
      BY <2>3, <3>1, <3>2 DEF ExecuteShutdown
  <2>4. QED
    BY <1>2, <2>1, <2>2, <2>3 DEF Notify
<1>3. CASE Tick \/ UNCHANGED vars
  BY <1>3, Hidden DEF Tick, vars, objects, pool, pass, Active, Plugin, Job, Found
<1>4. QED
  BY <1>1, <1>2, <1>3 DEF Next, Life!Next

-----------------------------------------------------------------------------
\* The probe loop begins in a state the life reaches when Initialize has ended and nothing
\* is up yet.
LEMMA InitIsLife ==
  ASSUME Init
  PROVE  Life!LifecycleInv
<1>1. /\ Active = {} /\ Plugin = [o \in Observees |-> "down"] /\ Job = "queued"
      /\ todo = {} /\ Found = FALSE
  BY DEF Init, Active, Plugin, phase, Job, Found
<1>2. Len(Life!Order) = 8 /\ Life!At("unregisterAll")
  BY DEF Life!Order, Life!At
<1>3. Life!Notified = {} /\ Life!Unserved
  BY <1>1 DEF Life!Notified, Life!Unserved, Plugin
<1>4. Life!TypeOK
  BY <1>1, <1>2, SameObservees DEF Life!TypeOK, NoSamples, NoRequests,
     Active, Plugin, Job, Found
<1>5. Life!MapNeedsNoLock
  BY <1>1, <1>2, <1>3, SameObservees DEF Life!MapNeedsNoLock, Life!At, Life!Order
<1>6. Life!StepInv
  BY <1>1, <1>3 DEF Life!StepInv, Life!Running, Job
<1>7. Life!ProbedInv
  BY <1>1, SameObservees DEF Life!ProbedInv, Active, Plugin
<1>8. Life!SamplesInv
  BY DEF Life!SamplesInv, Life!SamplesAccounted, Life!ResetInv, NoSamples
<1>9. QED
  BY <1>4, <1>5, <1>6, <1>7, <1>8 DEF Life!LifecycleInv

\* The passes of ProbeLoop are those of MonitorLifecycle, for any observees, intervals and
\* order of the iterator, and however the notifications interleave with them.
THEOREM ProbingIsLife == Spec => PassesOfTheLife
<1>1. Init => Life!LifecycleInv /\ RestInv
  BY InitIsLife DEF Init, RestInv
<1>2. RestInv /\ [Next]_vars => RestInv'
  BY RestStep
<1>3. ProbeInv /\ RestInv /\ [Next]_vars => [Life!Next]_(Life!vars)
  BY StepIsLifeStep
<1>4. QED
  BY <1>1, <1>2, <1>3, InductiveInvariant, PTL DEF Spec, PassesOfTheLife

-----------------------------------------------------------------------------
\* What is proved of the lifecycle, in terms of the probe loop.
Proved == INSTANCE MonitorLifecycleProofs WITH
  Callsigns <- Observees, Empty <- Nobody, Configs <- {<<>>}, Requests <- {},
  MicrosPerSecond <- 1, WordModulus <- SlotModulus, MaxSamples <- 0,
  step <- 5, config <- <<>>, index <- 0,
  monitor <- Settings,
  active <- {o \in Observees : active[o]},
  samples <- NoSamples,
  listening <- TRUE, reports <- {},
  plugin <- [o \in Observees |-> phase(notified[o])],
  job <- IF job = "running" /\ due # None THEN "again" ELSE job,
  todo <- todo,
  found <- current # Nobody \/ (earliest # None /\ step = "select"),
  request <- NoRequests,
  taken <- 0, answered <- {}, raced <- {}

\* What MonitorLifecycle assumes of its constants holds of what stands for them.
LEMMA LifeAssumptions ==
  /\ \A entries \in {<<>>} : \A i \in 1..Len(entries) : entries[i] \in Proved!Entry
  /\ Nobody \notin Observees
  /\ 1 \in Nat \ {0} /\ SlotModulus \in Nat \ {0}
BY SentinelAssumption, BoundsAssumption

\* Life is what the theorems are about.
LEMMA SameGcd == Life!gcd = Proved!gcd
BY DEF Life!gcd, Proved!gcd

LEMMA SameInvariant == Life!LifecycleInv <=> Proved!LifecycleInv
BY DEF
  Life!LifecycleInv, Life!TypeOK, Life!MapNeedsNoLock, Life!StepInv, Life!ProbedInv,
  Life!SamplesInv, Life!SamplesAccounted, Life!ResetInv, Life!Observed, Life!At,
  Life!Order, Life!Notified, Life!Unserved, Life!Running, Life!NoRequest,
  Proved!LifecycleInv, Proved!TypeOK, Proved!MapNeedsNoLock, Proved!StepInv,
  Proved!ProbedInv, Proved!SamplesInv, Proved!SamplesAccounted, Proved!ResetInv,
  Proved!Observed, Proved!At, Proved!Order, Proved!Notified, Proved!Unserved,
  Proved!Running, Proved!NoRequest

LEMMA SameNext == [Life!Next]_(Life!vars) <=> [Proved!Next]_(Proved!vars)
BY SameGcd DEF
  Life!Next, Life!vars, Life!life, Life!framework, Life!dispatch, Life!history,
  Life!Initialize, Life!Deinitialize, Life!Notify, Life!Dispatch, Life!Process,
  Life!Configure, Life!OpenEntry, Life!Opened, Life!Register, Life!Registered,
  Life!RegisterAll, Life!UnregisterAll, Life!Unregister, Life!Revoke, Life!Clear,
  Life!ComeUp, Life!Report, Life!Activated, Life!StartProbing, Life!GoDown,
  Life!SetInactive, Life!BeginPass, Life!Sample, Life!Visit, Life!FinishPass,
  Life!EndPass, Life!Serve, Life!Read, Life!Conclude, Life!Asked, Life!Resets,
  Life!ResetSamples, Life!Submit, Life!Advance, Life!Emplaced, Life!Settings,
  Life!Seconds, Life!Micros, Life!Observed, Life!Nothing, Life!NoRequest, Life!At,
  Life!Order, Life!Notified, Life!Unserved, Life!Running, Proved!Next, Proved!vars,
  Proved!life, Proved!framework, Proved!dispatch, Proved!history, Proved!Initialize,
  Proved!Deinitialize, Proved!Notify, Proved!Dispatch, Proved!Process, Proved!Configure,
  Proved!OpenEntry, Proved!Opened, Proved!Register, Proved!Registered,
  Proved!RegisterAll, Proved!UnregisterAll, Proved!Unregister, Proved!Revoke,
  Proved!Clear, Proved!ComeUp, Proved!Report, Proved!Activated, Proved!StartProbing,
  Proved!GoDown, Proved!SetInactive, Proved!BeginPass, Proved!Sample, Proved!Visit,
  Proved!FinishPass, Proved!EndPass, Proved!Serve, Proved!Read, Proved!Conclude,
  Proved!Asked, Proved!Resets, Proved!ResetSamples, Proved!Submit, Proved!Advance,
  Proved!Emplaced, Proved!Settings, Proved!Seconds, Proved!Micros, Proved!Observed,
  Proved!Nothing, Proved!NoRequest, Proved!At, Proved!Order, Proved!Notified,
  Proved!Unserved, Proved!Running

\* So the invariant of the lifecycle is inductive here, too.
LEMMA LifeStep == Life!LifecycleInv /\ [Life!Next]_(Life!vars) => Life!LifecycleInv'
<1>1. Proved!LifecycleInv /\ [Proved!Next]_(Proved!vars) => Proved!LifecycleInv'
  BY Proved!InvariantStep, LifeAssumptions
<1>2. (Life!LifecycleInv)' <=> (Proved!LifecycleInv)'
  BY SameInvariant, PTL
<1>3. QED
  BY <1>1, <1>2, SameInvariant, SameNext

\* Whatever is proved of the lifecycle from its invariant holds of the passes that follow
\* slots and the clock: the iterator stays in the map, and a plugin that is up is active and
\* still to be visited, found, or left to a job that runs again.
THEOREM LifeIsKept == Spec => []Life!LifecycleInv
<1>1. PassesOfTheLife => []Life!LifecycleInv
  BY LifeStep, PTL DEF PassesOfTheLife
<1>2. QED
  BY <1>1, ProbingIsLife, PTL
=============================================================================
