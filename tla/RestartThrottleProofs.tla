----------------------- MODULE RestartThrottleProofs -----------------------
(***************************************************************************)
(* Proofs about RestartThrottle, for every set of configurations and       *)
(* requests, every number of request threads and every counter width.      *)
(***************************************************************************)
EXTENDS RestartThrottle, NumberTheorems, TLAPS

\* The windows and limits in use are those of the configured and requested pairs.
LEMMA PairTypes ==
  /\ Windows \subseteq Nat
  /\ Limits \subseteq 0..(CountModulus - 1)
  /\ \A p \in Pairs : p[1] \in Windows /\ p[2] \in Limits
BY PairsAssumption, BoundsAssumption DEF Windows, Limits

\* Doubling a count that is a run of ones gives a run with one more, or the same one
\* when it fills the counter: `_restartCount += _restartCount + 1` never wraps to a
\* smaller count.
LEMMA NextCountGrows ==
  ASSUME NEW ones \in Nat, NEW c \in 0..(CountModulus - 1), c + 1 = twoTo[ones]
  PROVE  /\ c # CountModulus - 1
              => NextCount(c) = 2 * c + 1 /\ NextCount(c) + 1 = twoTo[ones + 1]
         /\ c = CountModulus - 1 => NextCount(c) = c
<1>1. CASE c = CountModulus - 1
  <2>1. 2 * c + 1 = CountModulus + c /\ c \in 0..(CountModulus - 1)
    BY <1>1, BoundsAssumption
  <2>2. (CountModulus + c) % CountModulus = c
    BY <2>1, BoundsAssumption
  <2>3. NextCount(c) = c
    BY <2>1, <2>2 DEF NextCount
  <2>4. QED
    BY <1>1, <2>3, BoundsAssumption
<1>2. CASE c # CountModulus - 1
  <2>1. PICK width \in Nat : CountModulus = twoTo[width]
    BY BinaryAssumption, BoundsAssumption
  <2>2. twoTo[ones] \in Nat /\ twoTo[width] \in Nat /\ twoTo[ones] < twoTo[width]
    BY <1>2, <2>1, BoundsAssumption, TwoToDefined
  <2>3. ones < width
    BY <2>2, TwoToGrows
  <2>4. 2 * c + 1 \in 0..(CountModulus - 1)
    BY <2>1, <2>2, <2>3, TwoToGrows, BoundsAssumption
  <2>5. NextCount(c) = 2 * c + 1
    BY <2>4, BoundsAssumption DEF NextCount
  <2>6. twoTo[ones + 1] = 2 * twoTo[ones]
    BY TwoToDefined
  <2>7. QED
    BY <1>2, <2>2, <2>5, <2>6
<1>3. QED
  BY <1>1, <1>2

-----------------------------------------------------------------------------
\* The variables of the throttle keep their types; for the counter this says
\* that the uint32_t arithmetic of line 519 stays in range.
LEMMA TypeStep == TypeOK /\ [Next]_vars => TypeOK'
<1> SUFFICES ASSUME TypeOK, [Next]_vars PROVE TypeOK'
  OBVIOUS
<1> USE PairTypes, BoundsAssumption DEF TypeOK, settings, history
<1>1. CASE Fail
  BY <1>1 DEF Fail, Calls
<1>2. CASE CountRestart
  <2>1. NextCount(restartCount) \in 0..(CountModulus - 1)
    BY DEF NextCount
  <2>2. QED
    BY <1>2, <2>1 DEF CountRestart, Calls
<1>3. CASE LeaveWindow
  BY <1>3 DEF LeaveWindow, Calls
<1>4. CASE OpenWindow
  BY <1>4 DEF OpenWindow, Calls
<1>5. CASE TestUnlimited
  BY <1>5 DEF TestUnlimited, Grant, Calls
<1>6. CASE TestLimit
  BY <1>6 DEF TestLimit, Grant, Calls
<1>7. CASE Restart
  BY <1>7 DEF Restart, Calls
<1>8. CASE GiveUp
  BY <1>8 DEF GiveUp, Calls
<1>9. ASSUME NEW c \in Clients, NEW p \in Updates, StoreWindow(c, p)
      PROVE  TypeOK'
  BY <1>9 DEF StoreWindow, Pairs
<1>10. ASSUME NEW c \in Clients, StoreLimit(c)
       PROVE  TypeOK'
  BY <1>10 DEF StoreLimit
<1>11. CASE Tick
  BY <1>11 DEF Tick
<1>12. CASE UNCHANGED vars
  BY <1>12 DEF vars
<1>13. QED
  BY <1>1, <1>2, <1>3, <1>4, <1>5, <1>6, <1>7, <1>8, <1>9, <1>10, <1>11, <1>12
  DEF Next, RegisterRestart, UpdateRestartLimits

\* TypeOK is an invariant of the specification.
THEOREM TypeCorrect == Spec => []TypeOK
<1>1. Init => TypeOK
  BY PairTypes, BoundsAssumption DEF Init, TypeOK, Calls, Pairs
<1>2. QED
  BY <1>1, TypeStep, PTL DEF Spec

-----------------------------------------------------------------------------
\* The count keeps up with the failures, step by step.
LEMMA CountStep == TypeOK /\ CountInv /\ [Next]_vars => CountInv'
<1> SUFFICES ASSUME TypeOK, CountInv, [Next]_vars
             PROVE  CountInv'
  OBVIOUS
<1> USE BoundsAssumption DEF TypeOK, CountInv, Failures, Saturated, settings, history
<1>1. CASE Fail
  BY <1>1 DEF Fail
<1>2. CASE CountRestart
  <2>1. PICK ones \in 0..burst :
          restartCount + 1 = twoTo[ones] /\ (ones < burst - 1 => Saturated)
    BY <1>2 DEF CountRestart
  <2>2. Failures' = burst + 1 /\ restartCount' = NextCount(restartCount)
    BY <1>2 DEF CountRestart, history
  <2>3. CASE Saturated
    <3>1. restartCount' = restartCount
      BY <2>1, <2>2, <2>3, NextCountGrows
    <3>2. QED
      BY <2>1, <2>2, <2>3, <3>1
  <2>4. CASE ~Saturated
    <3>1. restartCount' + 1 = twoTo[ones + 1]
      BY <2>1, <2>2, <2>4, NextCountGrows
    <3>2. ones + 1 \in 0..(burst + 1) /\ ~(ones + 1 < burst)
      BY <2>1, <2>4
    <3>3. QED
      BY <2>2, <3>1, <3>2
  <2>5. QED
    BY <2>3, <2>4
<1>3. CASE LeaveWindow
  BY <1>3 DEF LeaveWindow
<1>4. CASE OpenWindow
  BY <1>4, TwoToDefined DEF OpenWindow
<1>5. CASE TestUnlimited
  BY <1>5 DEF TestUnlimited, Grant
<1>6. CASE TestLimit
  BY <1>6 DEF TestLimit, Grant
<1>7. CASE Restart
  BY <1>7 DEF Restart
<1>8. CASE GiveUp
  BY <1>8, TwoToDefined DEF GiveUp
<1>9. ASSUME NEW c \in Clients, NEW p \in Updates, StoreWindow(c, p)
      PROVE  CountInv'
  BY <1>9 DEF StoreWindow
<1>10. ASSUME NEW c \in Clients, StoreLimit(c)
       PROVE  CountInv'
  BY <1>10 DEF StoreLimit
<1>11. CASE Tick
  BY <1>11 DEF Tick
<1>12. CASE UNCHANGED vars
  BY <1>12 DEF vars
<1>13. QED
  BY <1>1, <1>2, <1>3, <1>4, <1>5, <1>6, <1>7, <1>8, <1>9, <1>10, <1>11, <1>12
  DEF Next, RegisterRestart, UpdateRestartLimits

\* What the thread in RegisterRestart knows stays true while clients store new
\* settings and the clock moves: the limit in force is one it may have seen, the
\* window it leaves is over, the grant it gives was justified by some limit.
LEMMA CallStep == TypeOK /\ CallInv /\ [Next]_vars => CallInv'
<1> SUFFICES ASSUME TypeOK, CallInv, [Next]_vars
             PROVE  CallInv'
  OBVIOUS
<1> USE PairTypes, BoundsAssumption DEF TypeOK, CallInv, settings, history
<1>1. CASE Fail
  BY <1>1 DEF Fail
<1>2. CASE CountRestart
  BY <1>2 DEF CountRestart
<1>3. CASE LeaveWindow
  BY <1>3 DEF LeaveWindow, WithinWindow
<1>4. CASE OpenWindow
  BY <1>4 DEF OpenWindow
<1>5. CASE TestUnlimited
  BY <1>5 DEF TestUnlimited, Grant
<1>6. CASE TestLimit
  BY <1>6 DEF TestLimit, Grant
<1>7. CASE Restart
  BY <1>7 DEF Restart
<1>8. CASE GiveUp
  BY <1>8 DEF GiveUp
<1>9. ASSUME NEW c \in Clients, NEW p \in Updates, StoreWindow(c, p)
      PROVE  CallInv'
  BY <1>9 DEF StoreWindow
<1>10. ASSUME NEW c \in Clients, StoreLimit(c)
       PROVE  CallInv'
  BY <1>10 DEF StoreLimit
<1>11. CASE Tick
  BY <1>11 DEF Tick
<1>12. CASE UNCHANGED vars
  BY <1>12 DEF vars
<1>13. QED
  BY <1>1, <1>2, <1>3, <1>4, <1>5, <1>6, <1>7, <1>8, <1>9, <1>10, <1>11, <1>12
  DEF Next, RegisterRestart, UpdateRestartLimits

\* IInv holds initially ...
LEMMA InvariantInitially == Init => IInv
<1> SUFFICES ASSUME Init PROVE IInv
  OBVIOUS
<1>1. TypeOK
  BY PairTypes, BoundsAssumption DEF Init, TypeOK, Calls, Pairs
<1>2. CountInv
  BY TwoToDefined DEF Init, CountInv, Failures
<1>3. CallInv
  BY DEF Init, CallInv
<1>4. QED
  BY <1>1, <1>2, <1>3 DEF IInv

\* ... and every step preserves it, ...
LEMMA InvariantStep == IInv /\ [Next]_vars => IInv'
BY TypeStep, CountStep, CallStep DEF IInv

\* ... so IInv is an invariant of the specification.
THEOREM InductiveInvariant == Spec => []IInv
BY InvariantInitially, InvariantStep, PTL DEF Spec

-----------------------------------------------------------------------------
\* The count measures the burst: it is below 2^Failures, and as long as it is not stuck
\* at its largest value no failure but the first has gone uncounted.
LEMMA CountMeasures ==
  ASSUME IInv
  PROVE  /\ Failures \in Nat /\ restartCount < twoTo[Failures]
         /\ Failures > 0 /\ ~Saturated => twoTo[Failures - 1] <= restartCount + 1
<1> USE DEF IInv, TypeOK
<1>1. Failures \in Nat
  BY DEF Failures
<1>2. PICK ones \in 0..Failures :
        restartCount + 1 = twoTo[ones] /\ (ones < Failures - 1 => Saturated)
  BY DEF CountInv
<1>3. restartCount \in Nat /\ ones \in Nat /\ ones <= Failures
  BY <1>1, <1>2, BoundsAssumption
<1>4. ASSUME NEW m \in Nat, NEW n \in Nat, m <= n
      PROVE  twoTo[m] \in Nat /\ twoTo[n] \in Nat /\ twoTo[m] <= twoTo[n]
  <2>1. twoTo[m] \in Nat /\ twoTo[n] \in Nat
    BY TwoToDefined
  <2>2. m < n => 2 * twoTo[m] <= twoTo[n]
    BY TwoToGrows
  <2>3. QED
    BY <1>4, <2>1, <2>2
<1>5. restartCount < twoTo[Failures]
  BY <1>1, <1>2, <1>3, <1>4
<1>6. ASSUME Failures > 0, ~Saturated PROVE twoTo[Failures - 1] <= restartCount + 1
  <2>1. Failures - 1 \in Nat /\ Failures - 1 <= ones
    BY <1>1, <1>2, <1>3, <1>6
  <2>2. QED
    BY <1>2, <1>3, <1>4, <2>1
<1>7. QED
  BY <1>1, <1>5, <1>6

\* When a restart is granted, a limit of the call is no limit or at least 2^(burst - 1).
LEMMA GrantMeasures ==
  ASSUME IInv, call = "granted"
  PROVE  burst - 1 \in Nat /\ \E l \in seen : l = 0 \/ (l \in Nat /\ twoTo[burst - 1] <= l)
<1> USE DEF IInv, TypeOK
<1>1. PICK l \in seen : l = 0 \/ restartCount < l
  BY DEF CallInv
<1>2. l \in 0..(CountModulus - 1) /\ burst - 1 \in Nat /\ restartCount \in Nat
  BY PairTypes, BoundsAssumption DEF CallInv
<1>3. CASE l = 0
  BY <1>2, <1>3
<1>4. CASE restartCount < l
  <2>1. ~Saturated /\ Failures = burst /\ Failures > 0
    BY <1>2, <1>4, BoundsAssumption DEF Saturated, Failures
  <2>2. twoTo[burst - 1] <= restartCount + 1 /\ twoTo[burst - 1] \in Nat
    BY <1>2, <2>1, CountMeasures, TwoToDefined
  <2>3. twoTo[burst - 1] <= l
    BY <1>2, <1>4, <2>2
  <2>4. QED
    BY <1>2, <2>3
<1>5. QED
  BY <1>1, <1>3, <1>4

\* No restart loop, for every limit, every counter width and any requests that
\* change the settings meanwhile: the restarts granted in a burst never exceed a
\* limit that was in force during the call that granted the last of them.
THEOREM NoRestartLoop == Spec => []BurstBounded
<1>1. IInv => BurstBounded
  <2> SUFFICES ASSUME IInv, call = "granted"
               PROVE  \E l \in seen : l = 0 \/ burst <= l
    BY DEF BurstBounded
  <2>1. PICK l \in seen : l = 0 \/ (l \in Nat /\ twoTo[burst - 1] <= l)
    BY GrantMeasures
  <2>2. burst - 1 \in Nat /\ burst \in Nat /\ twoTo[burst - 1] \in Nat
    BY GrantMeasures, TwoToDefined DEF IInv, TypeOK
  <2>3. burst - 1 < twoTo[burst - 1]
    BY <2>2, TwoToGrows
  <2>4. QED
    BY <2>1, <2>2, <2>3
<1>2. QED
  BY <1>1, InductiveInvariant, PTL

\* What the last verdict says of the limits its call has seen: a grant is within one of
\* them, a refusal beyond one of them.
VerdictMeasured ==
  /\ call = "granted" => \E l \in seen : l = 0 \/ twoTo[burst - 1] <= l
  /\ call = "refused" => \E l \in seen : l < twoTo[burst + 1]

\* That follows from the invariant.
LEMMA VerdictMeasures == IInv => VerdictMeasured
<1> SUFFICES ASSUME IInv PROVE VerdictMeasured
  OBVIOUS
<1>1. ASSUME call = "granted"
      PROVE  \E l \in seen : l = 0 \/ twoTo[burst - 1] <= l
  BY <1>1, GrantMeasures
<1>2. ASSUME call = "refused"
      PROVE  \E l \in seen : l < twoTo[burst + 1]
  <2>1. PICK l \in seen : l <= restartCount
    BY <1>2 DEF IInv, CallInv
  <2>2. l \in Nat /\ restartCount \in Nat /\ burst + 1 \in Nat
    BY PairTypes, BoundsAssumption DEF IInv, TypeOK
  <2>3. Failures = burst + 1
    BY <1>2 DEF Failures
  <2>4. restartCount < twoTo[burst + 1] /\ twoTo[burst + 1] \in Nat
    BY <2>2, <2>3, CountMeasures, TwoToDefined
  <2>5. QED
    BY <2>1, <2>2, <2>4
<1>3. QED
  BY <1>1, <1>2 DEF VerdictMeasured

\* The comparison of the count with the limit is one of 2^burst with it.
LEMMA ComparisonMeasures ==
  ASSUME IInv, call = "compare"
  PROVE  /\ restartCount < restartLimit => twoTo[burst] <= restartLimit
         /\ restartCount >= restartLimit => restartLimit < twoTo[burst + 1]
<1> USE DEF IInv, TypeOK
<1>1. /\ restartCount \in Nat /\ burst \in Nat
      /\ restartLimit \in 0..(CountModulus - 1)
  BY PairTypes, BoundsAssumption
<1>2. Failures = burst + 1
  BY DEF Failures
<1>3. restartCount < twoTo[burst + 1] /\ twoTo[burst + 1] \in Nat /\ twoTo[burst] \in Nat
  BY <1>1, <1>2, CountMeasures, TwoToDefined
<1>4. ASSUME restartCount < restartLimit PROVE twoTo[burst] <= restartLimit
  <2>1. ~Saturated
    BY <1>1, <1>4, BoundsAssumption DEF Saturated
  <2>2. twoTo[burst] <= restartCount + 1
    BY <1>1, <1>2, <2>1, CountMeasures
  <2>3. QED
    BY <1>1, <1>3, <1>4, <2>2
<1>5. QED
  BY <1>1, <1>3, <1>4

\* The throttle is logarithmic, for every limit, every counter width and any requests:
\* the limit a verdict loads lets about log2 of it restarts pass, no more and not many
\* fewer.
THEOREM ThrottleIsLogarithmic == Spec => BurstIsLogarithmic
<1> DEFINE Measured ==
      /\ call' = "granted" => restartLimit = 0 \/ twoTo[burst] <= restartLimit
      /\ call' = "refused" => restartLimit = 0 \/ restartLimit < twoTo[burst + 1]
<1>1. IInv /\ [Next]_vars => [Measured]_call
  <2> SUFFICES ASSUME IInv, Next, call' # call
               PROVE  Measured
    BY DEF vars
  <2>1. CASE TestUnlimited
    BY <2>1 DEF TestUnlimited, Grant
  <2>2. CASE TestLimit
    BY <2>2, ComparisonMeasures DEF TestLimit, Grant
  <2>3. CASE ~TestUnlimited /\ ~TestLimit
    <3>1. call' # "granted" /\ call' # "refused"
      BY <2>3 DEF Next, RegisterRestart, UpdateRestartLimits, Fail, CountRestart,
         LeaveWindow, OpenWindow, Restart, GiveUp, StoreWindow, StoreLimit, Tick
    <3>2. QED
      BY <3>1
  <2>4. QED
    BY <2>1, <2>2, <2>3
<1>2. QED
  BY <1>1, InductiveInvariant, PTL DEF Spec, BurstIsLogarithmic

\* A window that is open is left alone, whatever happens between the test of the
\* clock and the store of the next end.
THEOREM OpenWindowsStay == Spec => WindowsDoNotOverlap
<1>1. IInv /\ [Next]_vars
        => [restartWindowStart' # restartWindowStart => restartWindowStart <= now]_vars
  <2> SUFFICES ASSUME IInv, Next, restartWindowStart' # restartWindowStart
               PROVE  restartWindowStart <= now
    OBVIOUS
  <2>1. OpenWindow
    BY DEF Next, RegisterRestart, UpdateRestartLimits, Fail, CountRestart, LeaveWindow,
       TestUnlimited, TestLimit, Restart, GiveUp, StoreWindow, StoreLimit, Tick
  <2>2. QED
    BY <2>1 DEF OpenWindow, IInv, CallInv
<1>2. QED
  BY <1>1, InductiveInvariant, PTL DEF Spec, WindowsDoNotOverlap
=============================================================================
