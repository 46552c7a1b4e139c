-------------------------- MODULE SupervisionProofs --------------------------
(***************************************************************************)
(* Proofs about Supervision: the throttle in it behaves as RestartThrottle *)
(* specifies, no failure is forgotten, and the whole implements Watchdog.  *)
(***************************************************************************)
EXTENDS Supervision, TLAPS

\* The theorems about RestartThrottle, for the throttle in Supervision.
Proved == INSTANCE RestartThrottleProofs

-----------------------------------------------------------------------------
\* All modules count in the same powers of two.
LEMMA SamePowers ==
  Throttle!twoTo = twoTo /\ Proved!twoTo = twoTo /\ Watched!twoTo = twoTo
BY DEF twoTo, Throttle!twoTo, Proved!twoTo, Watched!twoTo

\* The invariant of the throttle is the one proved in RestartThrottleProofs.
LEMMA SameInvariant == Throttle!IInv <=> Proved!IInv
BY SamePowers DEF Throttle!IInv, Throttle!TypeOK, Throttle!CountInv, Throttle!Failures,
  Throttle!CallInv, Throttle!Saturated, Throttle!Windows, Throttle!Limits, Throttle!Pairs,
  Throttle!Calls, Proved!IInv, Proved!TypeOK, Proved!CountInv, Proved!Failures,
  Proved!CallInv, Proved!Saturated, Proved!Windows, Proved!Limits, Proved!Pairs,
  Proved!Calls

\* So are its initial states ...
LEMMA SameInit == Throttle!Init <=> Proved!Init
BY DEF Throttle!Init, Proved!Init

\* ... and its steps.
LEMMA SameNext == [Throttle!Next]_(Throttle!vars) <=> [Proved!Next]_(Proved!vars)
BY DEF Throttle!Next, Throttle!vars, Throttle!settings, Throttle!history,
  Throttle!RegisterRestart, Throttle!UpdateRestartLimits, Throttle!Fail,
  Throttle!CountRestart, Throttle!WithinWindow, Throttle!NextCount, Throttle!LeaveWindow,
  Throttle!OpenWindow, Throttle!TestUnlimited, Throttle!TestLimit, Throttle!Grant,
  Throttle!Restart, Throttle!GiveUp, Throttle!StoreWindow, Throttle!StoreLimit,
  Throttle!Tick, Proved!Next, Proved!vars, Proved!settings, Proved!history,
  Proved!RegisterRestart, Proved!UpdateRestartLimits, Proved!Fail, Proved!CountRestart,
  Proved!WithinWindow, Proved!NextCount, Proved!LeaveWindow, Proved!OpenWindow,
  Proved!TestUnlimited, Proved!TestLimit, Proved!Grant, Proved!Restart, Proved!GiveUp,
  Proved!StoreWindow, Proved!StoreLimit, Proved!Tick

\* The assumptions of RestartThrottle follow from those of Supervision.
LEMMA ThrottleAssumptions ==
  /\ \A p \in Proved!Pairs : p \in Nat \X Nat /\ p[2] < CountModulus
  /\ Idle \notin Proved!Limits
  /\ \E width \in 1..CountModulus : CountModulus = Proved!twoTo[width]
BY PairsAssumption, BinaryAssumption, SamePowers DEF Proved!Pairs, Proved!Limits

\* The throttle's invariant holds initially and is preserved by its steps.
LEMMA ThrottleInvariant ==
  /\ Throttle!Init => Throttle!IInv
  /\ Throttle!IInv /\ [Throttle!Next]_(Throttle!vars) => Throttle!IInv'
<1>1. Proved!Init => Proved!IInv
  BY Proved!InvariantInitially, ThrottleAssumptions, BoundsAssumption
<1>2. Proved!IInv /\ [Proved!Next]_(Proved!vars) => Proved!IInv'
  BY Proved!InvariantStep, ThrottleAssumptions, BoundsAssumption
<1>3. (Throttle!IInv)' <=> (Proved!IInv)'
  BY SameInvariant, PTL
<1>4. QED
  BY <1>1, <1>2, <1>3, SameInvariant, SameInit, SameNext

-----------------------------------------------------------------------------
\* Whatever happens, the throttle makes one of its own steps or none.
LEMMA ThrottleStep == [Next]_vars => [Throttle!Next]_(Throttle!vars)
<1> SUFFICES ASSUME [Next]_vars, ~UNCHANGED throttle
             PROVE  Throttle!Next
  BY DEF throttle, Throttle!vars, Throttle!settings, Throttle!history
<1>1. CASE Deinitialized
  BY <1>1 DEF Deinitialized, Throttle!Next, Throttle!RegisterRestart
<1>2. CASE Decide
  BY <1>2 DEF Decide, Throttle!Next, Throttle!RegisterRestart
<1>3. CASE Restart
  BY <1>3 DEF Restart, Throttle!Next, Throttle!RegisterRestart
<1>4. CASE GiveUp
  BY <1>4 DEF GiveUp, Throttle!Next, Throttle!RegisterRestart
<1>5. CASE Elsewhere
  BY <1>5 DEF Elsewhere, Throttle!Next
<1>6. QED
  BY <1>1, <1>2, <1>3, <1>4, <1>5
  DEF Next, Notification, Pool, Dispatch, Environment, vars, Activated, ExecuteShutdown,
    ExecuteActivation, Activate, GoDown, Start, StartFails, Stop, Crash, TakeSource, Judge,
    ForceShutdown

\* Composed with the framework and the probe, the throttle is still the one that
\* RestartThrottle specifies: what is proved of it holds here.
THEOREM ThrottleIsKept == Spec => Throttle!Spec
<1>1. Init => Throttle!Init
  BY DEF Init
<1>2. QED
  BY <1>1, ThrottleStep, PTL DEF Spec, Throttle!Spec

\* No restart loop, under supervision: a burst of restarts is bounded by a limit
\* that was in force when the last of them was granted.
THEOREM RestartsAreThrottled == Spec => []Throttle!BurstBounded
<1>1. Proved!Spec => []Proved!BurstBounded
  BY Proved!NoRestartLoop, ThrottleAssumptions, BoundsAssumption
<1>2. Throttle!BurstBounded <=> Proved!BurstBounded
  BY DEF Throttle!BurstBounded, Proved!BurstBounded
<1>3. Throttle!Spec => Proved!Spec
  BY SameInit, SameNext, PTL DEF Throttle!Spec, Proved!Spec
<1>4. QED
  BY <1>1, <1>2, <1>3, ThrottleIsKept, PTL

-----------------------------------------------------------------------------
\* The variables keep their types.
LEMMA TypeStep == TypeOK /\ DecisionInv /\ Throttle!TypeOK' /\ [Next]_vars => TypeOK'
<1> SUFFICES ASSUME TypeOK, DecisionInv, Throttle!TypeOK', [Next]_vars
             PROVE  TypeOK'
  OBVIOUS
<1> USE DEF TypeOK, framework, probe, outcome
<1>1. CASE Activated
  BY <1>1 DEF Activated
<1>2. CASE Deinitialized
  BY <1>2 DEF Deinitialized
<1>3. CASE Decide
  BY <1>3 DEF Decide
<1>4. CASE Restart
  BY <1>4 DEF Restart
<1>5. CASE GiveUp
  BY <1>5 DEF GiveUp
<1>6. CASE ExecuteShutdown
  BY <1>6 DEF ExecuteShutdown, GoDown
<1>7. CASE ExecuteActivation
  <2>1. activations' \in Nat
    BY <1>7 DEF ExecuteActivation
  <2>2. CASE Activate
    BY <1>7, <2>1, <2>2 DEF Activate
  <2>3. CASE ~Activate
    BY <1>7, <2>1, <2>3 DEF ExecuteActivation
  <2>4. QED
    BY <2>2, <2>3
<1>8. CASE TakeSource \/ Judge \/ ForceShutdown
  BY <1>8 DEF TakeSource, Judge, ForceShutdown
<1>9. CASE Start \/ StartFails
  BY <1>9 DEF Start, Activate, StartFails
<1>10. CASE Stop \/ Crash
  BY <1>10 DEF Stop, Crash, GoDown, DecisionInv
<1>11. CASE Elsewhere \/ UNCHANGED vars
  BY <1>11 DEF Elsewhere, vars
<1>12. QED
  BY <1>1, <1>2, <1>3, <1>4, <1>5, <1>6, <1>7, <1>8, <1>9, <1>10, <1>11
  DEF Next, Notification, Pool, Dispatch, Environment

\* The throttle decides about failures only, and a plugin that failed and is down
\* has been given up or has an activation in the pool.
LEMMA DecisionStep ==
  TypeOK /\ Throttle!CallInv /\ DecisionInv /\ NoFailureForgotten /\ [Next]_vars
    => DecisionInv' /\ NoFailureForgotten'
<1> SUFFICES ASSUME TypeOK, Throttle!CallInv, DecisionInv, NoFailureForgotten, [Next]_vars
             PROVE  DecisionInv' /\ NoFailureForgotten'
  OBVIOUS
<1> USE DEF DecisionInv, NoFailureForgotten, Failing, TypeOK, throttle, framework, probe,
        outcome
<1>1. CASE Activated
  BY <1>1 DEF Activated
<1>2. CASE Deinitialized
  BY <1>2 DEF Deinitialized, Throttle!Fail
<1>3. CASE Decide
  <2>1. (call \in {"compare", "refused"} => \E l \in seen : l # 0)'
    BY <1>3 DEF Decide, Throttle!CountRestart, Throttle!LeaveWindow, Throttle!OpenWindow,
       Throttle!TestUnlimited, Throttle!TestLimit, Throttle!Grant, Throttle!CallInv,
       Throttle!history
  <2>2. QED
    BY <1>3, <2>1 DEF Decide, Throttle!CountRestart, Throttle!LeaveWindow,
       Throttle!OpenWindow, Throttle!TestUnlimited, Throttle!TestLimit, Throttle!Grant
<1>4. CASE Restart
  BY <1>4 DEF Restart, Throttle!Restart
<1>5. CASE GiveUp
  BY <1>5 DEF GiveUp, Throttle!GiveUp
<1>6. CASE ExecuteShutdown
  BY <1>6 DEF ExecuteShutdown, GoDown
<1>7. CASE ExecuteActivation
  BY <1>7 DEF ExecuteActivation, Activate
<1>8. CASE TakeSource \/ Judge \/ ForceShutdown
  BY <1>8 DEF TakeSource, Judge, ForceShutdown
<1>9. CASE Start \/ StartFails
  BY <1>9 DEF Start, Activate, StartFails
<1>10. CASE Stop \/ Crash
  BY <1>10 DEF Stop, Crash, GoDown
<1>11. CASE Elsewhere
  BY <1>11 DEF Elsewhere, Throttle!Tick, Throttle!UpdateRestartLimits, Throttle!StoreWindow,
     Throttle!StoreLimit, Throttle!history, Throttle!settings
<1>12. CASE UNCHANGED vars
  BY <1>12 DEF vars
<1>13. QED
  BY <1>1, <1>2, <1>3, <1>4, <1>5, <1>6, <1>7, <1>8, <1>9, <1>10, <1>11, <1>12
  DEF Next, Notification, Pool, Dispatch, Environment

\* SupervisionInv is inductive, hence an invariant of the specification.
THEOREM InductiveInvariant == Spec => []SupervisionInv
<1>1. Init => SupervisionInv
  <2> SUFFICES ASSUME Init PROVE SupervisionInv
    OBVIOUS
  <2>1. Throttle!IInv
    BY ThrottleInvariant DEF Init
  <2>2. TypeOK
    BY <2>1 DEF Init, TypeOK, Throttle!IInv
  <2>3. DecisionInv /\ NoFailureForgotten
    BY DEF Init, Throttle!Init, DecisionInv, NoFailureForgotten, Failing
  <2>4. QED
    BY <2>1, <2>2, <2>3 DEF SupervisionInv
<1>2. SupervisionInv /\ [Next]_vars => SupervisionInv'
  <2> SUFFICES ASSUME SupervisionInv, [Next]_vars
               PROVE  SupervisionInv'
    OBVIOUS
  <2>1. Throttle!IInv'
    BY ThrottleInvariant, ThrottleStep DEF SupervisionInv
  <2>2. TypeOK'
    BY <2>1, TypeStep DEF SupervisionInv, Throttle!IInv
  <2>3. DecisionInv' /\ NoFailureForgotten'
    BY DecisionStep DEF SupervisionInv, Throttle!IInv
  <2>4. QED
    BY <2>1, <2>2, <2>3 DEF SupervisionInv
<1>3. QED
  BY <1>1, <1>2, PTL DEF Spec

\* No failure is forgotten, for any number of instances, jobs and requests.
THEOREM FailuresAreRemembered == Spec => []NoFailureForgotten
<1>1. SupervisionInv => NoFailureForgotten
  BY DEF SupervisionInv
<1>2. QED
  BY <1>1, InductiveInvariant, PTL

-----------------------------------------------------------------------------
\* What RestartThrottleProofs proves of a grant and of a refusal, ...
LEMMA VerdictMeasures == SupervisionInv => Proved!VerdictMeasured
<1> SUFFICES ASSUME SupervisionInv PROVE Proved!VerdictMeasured
  OBVIOUS
<1>1. Proved!IInv
  BY SameInvariant DEF SupervisionInv
<1>2. QED
  BY <1>1, Proved!VerdictMeasures, ThrottleAssumptions, BoundsAssumption

\* ... also after a step.
LEMMA NextVerdictMeasures == SupervisionInv' => Proved!VerdictMeasured'
BY VerdictMeasures, PTL

\* A grant keeps the measure of a series of restarts within a limit in force.
LEMMA GrantIsJustified ==
  ASSUME SupervisionInv, SupervisionInv', Decide, call' = "granted"
  PROVE  /\ \E l \in seen : l = 0 \/ twoTo[burst] <= l
         /\ burst' = burst + 1
         /\ call # "granted"
<1>1. Throttle!TestUnlimited \/ Throttle!TestLimit
  BY DEF Decide, Throttle!CountRestart, Throttle!LeaveWindow, Throttle!OpenWindow
<1>2. burst' = burst + 1 /\ call \in {"unlimited", "compare"} /\ seen' = seen
  BY <1>1 DEF Throttle!TestUnlimited, Throttle!TestLimit, Throttle!Grant
<1>3. \E l \in seen' : l = 0 \/ twoTo[burst' - 1] <= l
  BY NextVerdictMeasures, SamePowers DEF Proved!VerdictMeasured
<1>4. burst' - 1 = burst
  BY <1>2 DEF SupervisionInv, Throttle!IInv, Throttle!TypeOK
<1>5. QED
  BY <1>2, <1>3, <1>4

\* The limits Watchdog knows of are those the throttle has seen.
LimitsSeen == IF phase = "failed" THEN seen ELSE {}

\* Each step is one of Watchdog or leaves what Watchdog sees alone.
LEMMA WatchedStep ==
  SupervisionInv /\ SupervisionInv' /\ [Next]_vars => [Watched!Next]_(Watched!vars)
<1> SUFFICES ASSUME SupervisionInv, SupervisionInv', [Next]_vars
             PROVE  Watched!Next \/ UNCHANGED <<phase, burst, LimitsSeen>>
  BY DEF Watched!vars, LimitsSeen
<1> USE DEF SupervisionInv, TypeOK, DecisionInv, NoFailureForgotten, Failing, framework,
        probe, outcome, throttle, phase, LimitsSeen
<1>1. CASE Activated
  BY <1>1 DEF Activated
<1>2. CASE Deinitialized
  <2>1. CASE Failing
    <3>1. restartLimit \in Throttle!Limits /\ seen = {}
      BY <1>2 DEF Deinitialized, Throttle!TypeOK
    <3>2. Watched!Limit(restartLimit)
      BY <1>2, <2>1, <3>1 DEF Deinitialized, Throttle!Fail, Watched!Limit
    <3>3. QED
      BY <3>1, <3>2 DEF Watched!Next
  <2>2. CASE ~Failing
    BY <1>2, <2>2 DEF Deinitialized
  <2>3. QED
    BY <2>1, <2>2
<1>3. CASE Decide
  <2>1. CASE call' = "granted"
    BY <1>3, <2>1, GrantIsJustified, SamePowers
    DEF Decide, Watched!Next, Watched!Restart
  <2>2. CASE Throttle!OpenWindow
    BY <1>3, <2>2 DEF Decide, Throttle!OpenWindow, Throttle!settings, Watched!Next,
       Watched!NewSeries
  <2>3. CASE call' # "granted" /\ ~Throttle!OpenWindow
    BY <1>3, <2>3 DEF Decide, Throttle!CountRestart, Throttle!LeaveWindow,
       Throttle!TestUnlimited, Throttle!TestLimit, Throttle!Grant, Throttle!history
  <2>4. QED
    BY <2>1, <2>2, <2>3
<1>4. CASE Restart
  BY <1>4 DEF Restart, Throttle!Restart
<1>5. CASE GiveUp
  <2>1. \E l \in seen : l < twoTo[burst + 1]
    BY <1>5, VerdictMeasures, SamePowers
    DEF GiveUp, Throttle!GiveUp, Proved!VerdictMeasured
  <2>2. \E l \in seen \ {0} : l < twoTo[burst + 1] \/ 0 \in seen
    BY <1>5, <2>1 DEF GiveUp, Throttle!GiveUp
  <2>3. QED
    BY <1>5, <2>2, SamePowers
    DEF GiveUp, Throttle!GiveUp, Watched!Next, Watched!GiveUp
<1>6. ASSUME Activate
      PROVE  Watched!Start
  BY <1>6 DEF Activate, Watched!Start
<1>7. CASE Start \/ ExecuteActivation
  BY <1>6, <1>7 DEF Start, ExecuteActivation, Watched!Next
<1>8. ASSUME NEW why, GoDown(why)
      PROVE  Watched!Next
  BY <1>8 DEF GoDown, Watched!Next, Watched!Fail, Watched!Stop
<1>9. CASE Stop \/ Crash \/ ExecuteShutdown
  BY <1>8, <1>9 DEF Stop, Crash, ExecuteShutdown
<1>10. CASE StartFails
  BY <1>10 DEF StartFails, Watched!Next, Watched!Stop
<1>11. CASE TakeSource \/ Judge \/ ForceShutdown
  BY <1>11 DEF TakeSource, Judge, ForceShutdown
<1>12. CASE Elsewhere
  <2>1. CASE seen' = seen
    BY <1>12, <2>1 DEF Elsewhere, Throttle!Tick, Throttle!UpdateRestartLimits,
       Throttle!StoreWindow, Throttle!StoreLimit, Throttle!history
  <2>2. CASE seen' # seen
    <3>1. PICK c \in Clients : Throttle!StoreLimit(c)
      BY <1>12, <2>2 DEF Elsewhere, Throttle!Tick, Throttle!UpdateRestartLimits,
         Throttle!StoreWindow, Throttle!history
    <3>2. client[c] \in Throttle!Limits /\ seen' = seen \cup {client[c]}
      BY <2>2, <3>1 DEF Throttle!StoreLimit, Throttle!IInv, Throttle!TypeOK
    <3>3. CASE call = "granted"
      BY <1>12, <3>1, <3>3 DEF Elsewhere, Throttle!StoreLimit
    <3>4. CASE call # "granted"
      <4>1. Watched!Limit(client[c])
        BY <1>12, <2>2, <3>1, <3>2, <3>4 DEF Elsewhere, Throttle!StoreLimit, Watched!Limit
      <4>2. QED
        BY <3>2, <4>1 DEF Watched!Next
    <3>5. QED
      BY <3>3, <3>4
  <2>3. QED
    BY <2>1, <2>2
<1>13. CASE UNCHANGED vars
  BY <1>13 DEF vars
<1>14. QED
  BY <1>1, <1>2, <1>3, <1>4, <1>5, <1>7, <1>9, <1>10, <1>11, <1>12, <1>13
  DEF Next, Notification, Pool, Dispatch, Environment

\* Supervision implements Watchdog: for any instances, jobs, requests and limits, what
\* happens to a plugin is what Watchdog allows.
THEOREM SupervisionIsWatchdog == Spec => ImplementsWatchdog
<1>1. Init => Watched!Init
  BY DEF Init, Throttle!Init, Watched!Init, phase, Failing
<1>2. QED
  BY <1>1, WatchedStep, InductiveInvariant, PTL DEF Spec, ImplementsWatchdog, Watched!Spec
=============================================================================
