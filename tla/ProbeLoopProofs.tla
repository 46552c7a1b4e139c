-------------------------- MODULE ProbeLoopProofs --------------------------
(***************************************************************************)
(* Proofs about ProbeLoop, for every set of observees, all their intervals *)
(* and any order of the iterator.                                          *)
(***************************************************************************)
EXTENDS ProbeLoop, NumberTheorems, TLAPS

\* An observee is visited at an interval that divides those of its checks, whatever
\* they are.
LEMMA IntervalDivides ==
  ASSUME NEW o \in Observees
  PROVE  /\ Interval(o) \in Nat \ {0}
         /\ operationalInterval[o] % Interval(o) = 0
         /\ memoryInterval[o] % Interval(o) = 0
<1>1. /\ operationalInterval[o] \in Nat /\ memoryInterval[o] \in Nat
      /\ operationalInterval[o] # 0 \/ memoryInterval[o] # 0
  BY IntervalsAssumption, BoundsAssumption
<1>2. QED
  BY <1>1, GcdCorrect DEF Interval, intervals, IsGcd, Divides

\* A slot counter stays an uint32_t when Evaluate counts it down or sets it again.
LEMMA RechargedType ==
  ASSUME NEW o \in Observees, NEW interval \in 0..(SlotModulus - 1),
         NEW count \in 0..(SlotModulus - 1)
  PROVE  Recharged(o, interval, count) \in 0..(SlotModulus - 1)
<1>1. count - Interval(o) \in Int
  BY IntervalDivides, BoundsAssumption
<1>2. Left(o, count) \in 0..(SlotModulus - 1)
  BY <1>1, BoundsAssumption DEF Left
<1>3. QED
  BY <1>2 DEF Recharged

\* The variables of the probe loop keep their types.
LEMMA TypeStep == TypeOK /\ JobInv /\ [Next]_vars => TypeOK'
<1> SUFFICES ASSUME TypeOK, JobInv, [Next]_vars
             PROVE  TypeOK'
  OBVIOUS
<1> USE BoundsAssumption DEF TypeOK, Stages, Steps, objects, slots, pass, pool
<1>1. CASE BeginPass
  BY <1>1 DEF BeginPass
<1>2. ASSUME NEW o \in Observees, SkipInactive(o) PROVE TypeOK'
  BY <1>2 DEF SkipInactive
<1>3. ASSUME NEW o \in Observees, SkipEarly(o) PROVE TypeOK'
  BY <1>3 DEF SkipEarly, Earlier
<1>4. ASSUME NEW o \in Observees, SelectDue(o) PROVE TypeOK'
  BY <1>4 DEF SelectDue
<1>5. CASE EvaluateNothing
  BY <1>5 DEF EvaluateNothing
<1>6. CASE EvaluateSource
  <2>1. current \in Observees
    BY <1>6 DEF EvaluateSource, JobInv
  <2>2. /\ operationalInterval[current] \in 0..(SlotModulus - 1)
        /\ memoryInterval[current] \in 0..(SlotModulus - 1)
    BY <2>1, IntervalsAssumption
  <2>3. /\ Recharged(current, operationalInterval[current], operationalSlots[current])
             \in 0..(SlotModulus - 1)
        /\ Recharged(current, memoryInterval[current], memorySlots[current])
             \in 0..(SlotModulus - 1)
    BY <2>1, <2>2, RechargedType
  <2>4. QED
    BY <1>6, <2>3 DEF EvaluateSource
<1>7. CASE ForceShutdown
  BY <1>7 DEF ForceShutdown, JobInv
<1>8. CASE Retrigger
  <2>1. current \in Observees
    BY <1>8 DEF Retrigger, JobInv
  <2>2. PICK slot \in scheduledTime..(scheduledTime + Interval(current) - 1) :
          nextSlot' = [nextSlot EXCEPT ![current] = slot] /\ earliest' = Earlier(slot)
    BY <1>8 DEF Retrigger
  <2>3. slot \in Nat
    BY <2>1, <2>2, IntervalDivides
  <2>4. QED
    BY <1>8, <2>2, <2>3 DEF Retrigger, Earlier
<1>9. CASE FinishPass
  BY <1>9 DEF FinishPass, Submit, Reschedule, RunAt
<1>10. CASE EndPass
  BY <1>10 DEF EndPass
<1>11. ASSUME NEW o \in Observees, Activated(o) PROVE TypeOK'
  BY <1>11 DEF Activated
<1>12. ASSUME NEW o \in Observees, SetSource(o) PROVE TypeOK'
  BY <1>12 DEF SetSource
<1>13. ASSUME NEW o \in Observees, StartProbing(o) PROVE TypeOK'
  BY <1>13 DEF StartProbing, Submit, RunAt
<1>14. ASSUME NEW o \in Observees, Deinitialized(o) PROVE TypeOK'
  BY <1>14 DEF Deinitialized, ClearSource
<1>15. ASSUME NEW o \in Observees, SetInactive(o) PROVE TypeOK'
  BY <1>15 DEF SetInactive
<1>16. ASSUME NEW o \in Observees, ExecuteShutdown(o) PROVE TypeOK'
  <2>1. shutdowns' \in [Observees -> Nat]
    BY <1>16 DEF ExecuteShutdown
  <2>2. source' \in [Observees -> BOOLEAN] /\ notified' \in [Observees -> Stages]
    BY <1>16 DEF ExecuteShutdown, ClearSource
  <2>3. QED
    BY <1>16, <2>1, <2>2 DEF ExecuteShutdown
<1>17. CASE Tick
  BY <1>17 DEF Tick
<1>18. CASE UNCHANGED vars
  BY <1>18 DEF vars
<1>19. QED
  BY <1>1, <1>2, <1>3, <1>4, <1>5, <1>6, <1>7, <1>8, <1>9, <1>10, <1>11, <1>12,
     <1>13, <1>14, <1>15, <1>16, <1>17, <1>18
  DEF Next, Dispatch, Visit, Notify

\* The job runs exactly while Dispatch is at work, and _active follows the
\* notifications.
LEMMA JobStep == TypeOK /\ JobInv /\ ActiveInv /\ [Next]_vars => (JobInv /\ ActiveInv)'
<1> SUFFICES ASSUME TypeOK, JobInv, ActiveInv, [Next]_vars
             PROVE  (JobInv /\ ActiveInv)'
  OBVIOUS
<1> USE SentinelAssumption, BoundsAssumption
  DEF TypeOK, Stages, Steps, objects, slots, pass, pool, JobInv, ActiveInv
<1>1. CASE BeginPass
  BY <1>1 DEF BeginPass
<1>2. ASSUME NEW o \in Observees, SkipInactive(o) PROVE (JobInv /\ ActiveInv)'
  BY <1>2 DEF SkipInactive
<1>3. ASSUME NEW o \in Observees, SkipEarly(o) PROVE (JobInv /\ ActiveInv)'
  BY <1>3 DEF SkipEarly
<1>4. ASSUME NEW o \in Observees, SelectDue(o) PROVE (JobInv /\ ActiveInv)'
  BY <1>4 DEF SelectDue
<1>5. CASE EvaluateNothing
  BY <1>5 DEF EvaluateNothing
<1>6. CASE EvaluateSource
  BY <1>6 DEF EvaluateSource
<1>7. CASE ForceShutdown
  BY <1>7 DEF ForceShutdown
<1>8. CASE Retrigger
  BY <1>8 DEF Retrigger
<1>9. CASE FinishPass
  BY <1>9 DEF FinishPass, Submit, RunAt, Reschedule
<1>10. CASE EndPass
  BY <1>10 DEF EndPass
<1>11. ASSUME NEW o \in Observees, Activated(o) PROVE (JobInv /\ ActiveInv)'
  BY <1>11 DEF Activated
<1>12. ASSUME NEW o \in Observees, SetSource(o) PROVE (JobInv /\ ActiveInv)'
  BY <1>12 DEF SetSource
<1>13. ASSUME NEW o \in Observees, StartProbing(o) PROVE (JobInv /\ ActiveInv)'
  BY <1>13 DEF StartProbing, Submit, RunAt
<1>14. ASSUME NEW o \in Observees, Deinitialized(o) PROVE (JobInv /\ ActiveInv)'
  BY <1>14 DEF Deinitialized, ClearSource
<1>15. ASSUME NEW o \in Observees, SetInactive(o) PROVE (JobInv /\ ActiveInv)'
  BY <1>15 DEF SetInactive
<1>16. ASSUME NEW o \in Observees, ExecuteShutdown(o) PROVE (JobInv /\ ActiveInv)'
  BY <1>16 DEF ExecuteShutdown, ClearSource
<1>17. CASE Tick
  BY <1>17 DEF Tick
<1>18. CASE UNCHANGED vars
  BY <1>18 DEF vars
<1>19. QED
  BY <1>1, <1>2, <1>3, <1>4, <1>5, <1>6, <1>7, <1>8, <1>9, <1>10, <1>11, <1>12,
     <1>13, <1>14, <1>15, <1>16, <1>17, <1>18
  DEF Next, Dispatch, Visit, Notify

\* No step loses the wakeup of an observee that is up: not a pass that found it
\* inactive, nor the end of that pass.
LEMMA WakeStep ==
  TypeOK /\ JobInv /\ ActiveInv /\ WakeInv /\ NoLostWakeup /\ [Next]_vars
    => (WakeInv /\ NoLostWakeup)'
<1> SUFFICES ASSUME TypeOK, JobInv, ActiveInv, WakeInv, NoLostWakeup, [Next]_vars
             PROVE  (WakeInv /\ NoLostWakeup)'
  OBVIOUS
<1> USE SentinelAssumption, BoundsAssumption
  DEF TypeOK, Stages, Steps, objects, slots, pass, pool,
      JobInv, ActiveInv, WakeInv, NoLostWakeup, Settled
<1>1. CASE BeginPass
  BY <1>1 DEF BeginPass
<1>2. ASSUME NEW o \in Observees, SkipInactive(o) PROVE (WakeInv /\ NoLostWakeup)'
  BY <1>2 DEF SkipInactive
<1>3. ASSUME NEW o \in Observees, SkipEarly(o) PROVE (WakeInv /\ NoLostWakeup)'
  BY <1>3 DEF SkipEarly, Earlier
<1>4. ASSUME NEW o \in Observees, SelectDue(o) PROVE (WakeInv /\ NoLostWakeup)'
  BY <1>4 DEF SelectDue
<1>5. CASE EvaluateNothing
  BY <1>5 DEF EvaluateNothing
<1>6. CASE EvaluateSource
  BY <1>6 DEF EvaluateSource
<1>7. CASE ForceShutdown
  BY <1>7 DEF ForceShutdown
<1>8. CASE Retrigger
  BY <1>8 DEF Retrigger, Earlier
<1>9. CASE FinishPass
  BY <1>9 DEF FinishPass, Submit, RunAt, Reschedule
<1>10. CASE EndPass
  BY <1>10 DEF EndPass
<1>11. ASSUME NEW o \in Observees, Activated(o) PROVE (WakeInv /\ NoLostWakeup)'
  BY <1>11 DEF Activated
<1>12. ASSUME NEW o \in Observees, SetSource(o) PROVE (WakeInv /\ NoLostWakeup)'
  BY <1>12 DEF SetSource
<1>13. ASSUME NEW o \in Observees, StartProbing(o) PROVE (WakeInv /\ NoLostWakeup)'
  BY <1>13 DEF StartProbing, Submit, RunAt
<1>14. ASSUME NEW o \in Observees, Deinitialized(o) PROVE (WakeInv /\ NoLostWakeup)'
  BY <1>14 DEF Deinitialized, ClearSource
<1>15. ASSUME NEW o \in Observees, SetInactive(o) PROVE (WakeInv /\ NoLostWakeup)'
  BY <1>15 DEF SetInactive
<1>16. ASSUME NEW o \in Observees, ExecuteShutdown(o) PROVE (WakeInv /\ NoLostWakeup)'
  BY <1>16 DEF ExecuteShutdown, ClearSource
<1>17. CASE Tick
  BY <1>17 DEF Tick
<1>18. CASE UNCHANGED vars
  BY <1>18 DEF vars
<1>19. QED
  BY <1>1, <1>2, <1>3, <1>4, <1>5, <1>6, <1>7, <1>8, <1>9, <1>10, <1>11, <1>12,
     <1>13, <1>14, <1>15, <1>16, <1>17, <1>18
  DEF Next, Dispatch, Visit, Notify

\* No step spoils the search for the earliest slot or the time it led to.
LEMMA SearchStep == TypeOK /\ JobInv /\ SearchInv /\ [Next]_vars => SearchInv'
<1> SUFFICES ASSUME TypeOK, JobInv, SearchInv, [Next]_vars
             PROVE  SearchInv'
  OBVIOUS
<1> USE SentinelAssumption, BoundsAssumption
  DEF TypeOK, Stages, Steps, objects, slots, pass, pool,
      JobInv, SearchInv, Visited
<1>1. CASE BeginPass
  BY <1>1 DEF BeginPass
<1>2. ASSUME NEW o \in Observees, SkipInactive(o) PROVE SearchInv'
  BY <1>2 DEF SkipInactive
<1>3. ASSUME NEW o \in Observees, SkipEarly(o) PROVE SearchInv'
  BY <1>3 DEF SkipEarly, Earlier
<1>4. ASSUME NEW o \in Observees, SelectDue(o) PROVE SearchInv'
  BY <1>4 DEF SelectDue
<1>5. CASE EvaluateNothing
  BY <1>5 DEF EvaluateNothing
<1>6. CASE EvaluateSource
  BY <1>6 DEF EvaluateSource
<1>7. CASE ForceShutdown
  BY <1>7 DEF ForceShutdown
<1>8. CASE Retrigger
  BY <1>8 DEF Retrigger, Earlier
<1>9. CASE FinishPass
  BY <1>9 DEF FinishPass, Submit, RunAt, Reschedule
<1>10. CASE EndPass
  BY <1>10 DEF EndPass
<1>11. ASSUME NEW o \in Observees, Activated(o) PROVE SearchInv'
  BY <1>11 DEF Activated
<1>12. ASSUME NEW o \in Observees, SetSource(o) PROVE SearchInv'
  BY <1>12 DEF SetSource
<1>13. ASSUME NEW o \in Observees, StartProbing(o) PROVE SearchInv'
  BY <1>13 DEF StartProbing, Submit, RunAt
<1>14. ASSUME NEW o \in Observees, Deinitialized(o) PROVE SearchInv'
  BY <1>14 DEF Deinitialized, ClearSource
<1>15. ASSUME NEW o \in Observees, SetInactive(o) PROVE SearchInv'
  BY <1>15 DEF SetInactive
<1>16. ASSUME NEW o \in Observees, ExecuteShutdown(o) PROVE SearchInv'
  BY <1>16 DEF ExecuteShutdown, ClearSource
<1>17. CASE Tick
  BY <1>17 DEF Tick
<1>18. CASE UNCHANGED vars
  BY <1>18 DEF vars
<1>19. QED
  BY <1>1, <1>2, <1>3, <1>4, <1>5, <1>6, <1>7, <1>8, <1>9, <1>10, <1>11, <1>12,
     <1>13, <1>14, <1>15, <1>16, <1>17, <1>18
  DEF Next, Dispatch, Visit, Notify

\* A slot that is moved on by whole intervals stays on time.
LEMMA RetriggerKeepsTime == TypeOK /\ JobInv /\ SlotsKeepTime /\ SleepInv /\ Retrigger
                              => SlotsKeepTime'
<1> SUFFICES ASSUME TypeOK, JobInv, SlotsKeepTime, SleepInv, Retrigger
             PROVE  SlotsKeepTime'
  OBVIOUS
<1> DEFINE d == Interval(current)
<1>1. current \in Observees /\ now' = now
  BY DEF Retrigger, JobInv, TypeOK
<1>2. d \in Nat \ {0} /\ nextSlot[current] \in Nat /\ nextSlot[current] % d = 0
  BY <1>1, IntervalDivides DEF TypeOK, SlotsKeepTime
<1>3. PICK k \in 0..(scheduledTime - nextSlot[current]) :
        /\ nextSlot[current] + k * d \in scheduledTime..(scheduledTime + d - 1)
        /\ nextSlot' = [nextSlot EXCEPT ![current] = nextSlot[current] + k * d]
  BY DEF Retrigger
<1>4. k \in Nat
  BY <1>2, <1>3 DEF TypeOK
<1>5. (nextSlot[current] + k * d) % d = 0
  <2>1. PICK q \in Nat : nextSlot[current] = d * q
    BY <1>2, MultipleOf DEF Divides
  <2>2. nextSlot[current] + k * d = d * (q + k) /\ q + k \in Nat
    BY <1>2, <1>4, <2>1
  <2>3. nextSlot[current] + k * d \in Nat
    BY <1>2, <1>4, <2>2
  <2>4. QED
    BY <1>2, <2>2, <2>3, MultipleOf DEF Divides
<1>6. nextSlot[current] + k * d < now + d
  BY <1>2, <1>3 DEF SleepInv, TypeOK
<1> HIDE DEF d
<1>7. ASSUME NEW o \in Observees
      PROVE  nextSlot'[o] % Interval(o) = 0 /\ nextSlot'[o] < now' + Interval(o)
  <2>1. CASE o = current
    BY <1>1, <1>3, <1>5, <1>6, <2>1 DEF d, TypeOK
  <2>2. CASE o # current
    BY <1>1, <1>3, <2>2 DEF TypeOK, SlotsKeepTime
  <2>3. QED
    BY <2>1, <2>2
<1>8. QED
  BY <1>7 DEF SlotsKeepTime

\* No other step moves a slot, and the clock does not go back.
LEMMA TimeStep ==
  TypeOK /\ JobInv /\ SlotsKeepTime /\ SleepInv /\ [Next]_vars => SlotsKeepTime'
<1> SUFFICES ASSUME TypeOK, JobInv, SlotsKeepTime, SleepInv, [Next]_vars, ~Retrigger
             PROVE  SlotsKeepTime'
  BY RetriggerKeepsTime
<1>1. nextSlot' = nextSlot /\ (now' = now \/ now' = now + 1)
  BY DEF Next, Dispatch, Visit, Notify, vars, objects, slots, BeginPass,
     SkipInactive, SkipEarly, SelectDue, EvaluateNothing, EvaluateSource, ForceShutdown,
     FinishPass, EndPass, Activated, SetSource, StartProbing, Deinitialized,
     SetInactive, ExecuteShutdown, Tick
<1>2. ASSUME NEW o \in Observees
      PROVE  nextSlot'[o] % Interval(o) = 0 /\ nextSlot'[o] < now' + Interval(o)
  BY <1>1, IntervalDivides DEF TypeOK, SlotsKeepTime
<1>3. QED
  BY <1>2 DEF SlotsKeepTime

\* The job is put to sleep only for an observee that was found active.
LEMMA SleepStep ==
  TypeOK /\ JobInv /\ SearchInv /\ SleepInv /\ [Next]_vars => SleepInv'
<1> SUFFICES ASSUME TypeOK, JobInv, SearchInv, SleepInv, [Next]_vars
             PROVE  SleepInv'
  OBVIOUS
<1> USE SentinelAssumption, BoundsAssumption
  DEF TypeOK, Stages, Steps, objects, slots, pass, pool, JobInv, SleepInv
<1>1. CASE BeginPass
  BY <1>1 DEF BeginPass
<1>2. ASSUME NEW o \in Observees, SkipInactive(o) PROVE SleepInv'
  BY <1>2 DEF SkipInactive
<1>3. ASSUME NEW o \in Observees, SkipEarly(o) PROVE SleepInv'
  BY <1>3 DEF SkipEarly, Earlier
<1>4. ASSUME NEW o \in Observees, SelectDue(o) PROVE SleepInv'
  BY <1>4 DEF SelectDue
<1>5. CASE EvaluateNothing
  BY <1>5 DEF EvaluateNothing
<1>6. CASE EvaluateSource
  BY <1>6 DEF EvaluateSource
<1>7. CASE ForceShutdown
  BY <1>7 DEF ForceShutdown
<1>8. CASE Retrigger
  BY <1>8 DEF Retrigger, Earlier
<1>9. CASE FinishPass
  BY <1>9 DEF FinishPass, Submit, RunAt, Reschedule, SearchInv
<1>10. CASE EndPass
  BY <1>10 DEF EndPass
<1>11. ASSUME NEW o \in Observees, Activated(o) PROVE SleepInv'
  BY <1>11 DEF Activated
<1>12. ASSUME NEW o \in Observees, SetSource(o) PROVE SleepInv'
  BY <1>12 DEF SetSource
<1>13. ASSUME NEW o \in Observees, StartProbing(o) PROVE SleepInv'
  BY <1>13 DEF StartProbing, Submit, RunAt
<1>14. ASSUME NEW o \in Observees, Deinitialized(o) PROVE SleepInv'
  BY <1>14 DEF Deinitialized, ClearSource
<1>15. ASSUME NEW o \in Observees, SetInactive(o) PROVE SleepInv'
  BY <1>15 DEF SetInactive
<1>16. ASSUME NEW o \in Observees, ExecuteShutdown(o) PROVE SleepInv'
  BY <1>16 DEF ExecuteShutdown, ClearSource
<1>17. CASE Tick
  BY <1>17 DEF Tick
<1>18. CASE UNCHANGED vars
  BY <1>18 DEF vars
<1>19. QED
  BY <1>1, <1>2, <1>3, <1>4, <1>5, <1>6, <1>7, <1>8, <1>9, <1>10, <1>11, <1>12,
     <1>13, <1>14, <1>15, <1>16, <1>17, <1>18
  DEF Next, Dispatch, Visit, Notify

\* ProbeInv is inductive, hence an invariant of the specification.
THEOREM InductiveInvariant == Spec => []ProbeInv
<1>1. Init => ProbeInv
  BY IntervalsAssumption, BoundsAssumption, SentinelAssumption, IntervalDivides
  DEF Init, ProbeInv, TypeOK, Stages, Steps, JobInv, ActiveInv, WakeInv, NoLostWakeup,
      SearchInv, Visited, Settled, SlotsKeepTime, SleepInv
<1>2. ProbeInv /\ [Next]_vars => ProbeInv'
  BY TypeStep, JobStep, WakeStep, SearchStep, TimeStep, SleepStep DEF ProbeInv
<1>3. QED
  BY <1>1, <1>2, PTL DEF Spec

\* The probe job never rests while an observee is up, for any number of
\* observees and however their notifications interleave with a pass.
THEOREM ProbingNeverStalls == Spec => []NoLostWakeup
<1>1. ProbeInv => NoLostWakeup
  BY DEF ProbeInv
<1>2. QED
  BY <1>1, InductiveInvariant, PTL

\* The waiting job wakes up in time for every observee the last pass found
\* active, whatever their intervals and the order of the iterator.
THEOREM PassSchedulesInTime == Spec => []WakesInTime
<1>1. ProbeInv => WakesInTime
  BY DEF ProbeInv, JobInv, SearchInv, WakesInTime
<1>2. QED
  BY <1>1, InductiveInvariant, PTL

\* The slots keep time, for any intervals and however late the passes are.
THEOREM PassesDoNotDrift == Spec => []SlotsKeepTime
<1>1. ProbeInv => SlotsKeepTime
  BY DEF ProbeInv
<1>2. QED
  BY <1>1, InductiveInvariant, PTL

\* The job sleeps for less than the interval of any observee the last pass found active,
\* whatever their intervals, and for none at all when there was none.
THEOREM JobSleepsBriefly == Spec => []SleepIsShort
<1>1. ProbeInv => SleepIsShort
  <2> SUFFICES ASSUME ProbeInv, job = "queued", due > now
               PROVE  watched # {} /\ \A o \in watched : due < now + Interval(o) + Slack
    BY DEF SleepIsShort
  <2> USE DEF ProbeInv, TypeOK
  <2>1. due # None /\ step = "idle" /\ due \in Nat
    BY SentinelAssumption DEF JobInv
  <2>2. watched # {}
    BY <2>1 DEF SleepInv
  <2>3. ASSUME NEW o \in watched
        PROVE  due < now + Interval(o) + Slack
    <3>1. due <= nextSlot[o] + Slack
      BY <2>1 DEF SearchInv
    <3>2. nextSlot[o] < now + Interval(o) /\ nextSlot[o] \in Nat
      BY DEF SlotsKeepTime
    <3>3. Interval(o) \in Nat
      BY IntervalDivides
    <3>4. QED
      BY <2>1, <3>1, <3>2, <3>3, BoundsAssumption
  <2>4. QED
    BY <2>2, <2>3
<1>2. QED
  BY <1>1, InductiveInvariant, PTL

\* Every variable keeps its type: the clock, the slots and the counters among them.
THEOREM TypeCorrect == Spec => []TypeOK
<1>1. ProbeInv => TypeOK
  BY DEF ProbeInv
<1>2. QED
  BY <1>1, InductiveInvariant, PTL

-----------------------------------------------------------------------------
\* A whole number of slots that is not 0 is one slot and a whole number of slots.
LEMMA OneSlotLess ==
  ASSUME NEW n \in Nat \ {0}, NEW d \in Nat \ {0}, n % d = 0
  PROVE  n >= d /\ (n - d) % d = 0
<1>1. n < d => n % d = n
  OBVIOUS
<1>2. PICK q \in Int : n = d * q
  OBVIOUS
<1>3. n - d = d * (q - 1)
  BY <1>2
<1>4. (d * (q - 1)) % d = 0
  OBVIOUS
<1>5. QED
  BY <1>1, <1>3, <1>4

\* A counter that is aligned stays so when it is counted down and set again.
LEMMA RechargedAligned ==
  ASSUME NEW o \in Observees,
         NEW interval \in 1..(SlotModulus - 1), interval % Interval(o) = 0,
         NEW count \in 1..interval, count % Interval(o) = 0
  PROVE  /\ Recharged(o, interval, count) \in 1..interval
         /\ Recharged(o, interval, count) % Interval(o) = 0
<1> DEFINE d == Interval(o)
<1>1. d \in Nat \ {0} /\ SlotModulus \in Nat \ {0}
  BY IntervalDivides, BoundsAssumption
<1>2. count >= d /\ (count - d) % d = 0
  BY <1>1, OneSlotLess
<1>3. Left(o, count) = count - d
  <2>1. count - d \in 0..(SlotModulus - 1)
    BY <1>1, <1>2
  <2>2. \A x \in 0..(SlotModulus - 1) : x % SlotModulus = x
    BY <1>1
  <2>3. QED
    BY <2>1, <2>2 DEF Left
<1>4. QED
  BY <1>1, <1>2, <1>3 DEF Recharged

\* The counters never wrap: whatever the intervals, a check is due after exactly as
\* many slots as its interval holds (plugin/Monitor.h, Evaluate).
THEOREM CountersNeverWrap == Spec => []CountersAligned
<1> DEFINE Whole(o, interval) == {n \in 1..interval : n % Interval(o) = 0}
<1>1. Init => CountersAligned
  BY IntervalsAssumption, IntervalDivides, BoundsAssumption DEF Init, CountersAligned
<1>2. ASSUME ProbeInv, CountersAligned, [Next]_vars
      PROVE  CountersAligned'
  <2>1. CASE EvaluateSource
    <3>1. current \in Observees
      BY <1>2, <2>1 DEF ProbeInv, TypeOK, JobInv, EvaluateSource
    <3>2. /\ operationalSlots' = [operationalSlots EXCEPT ![current] =
               Recharged(current, operationalInterval[current], @)]
          /\ memorySlots' = [memorySlots EXCEPT ![current] =
               Recharged(current, memoryInterval[current], @)]
      BY <2>1 DEF EvaluateSource
    <3>3. ASSUME NEW o \in Observees, operationalInterval[o] # 0
          PROVE  operationalSlots'[o] \in Whole(o, operationalInterval[o])
      <4>1. operationalSlots[o] \in Whole(o, operationalInterval[o])
        BY <1>2, <3>3 DEF CountersAligned
      <4>2. CASE o # current
        BY <1>2, <3>2, <4>1, <4>2 DEF ProbeInv, TypeOK
      <4>3. CASE o = current
        <5>1. operationalInterval[o] \in 1..(SlotModulus - 1)
          BY <3>3, IntervalsAssumption, BoundsAssumption
        <5>2. operationalSlots'[o] =
                Recharged(o, operationalInterval[o], operationalSlots[o])
          BY <1>2, <3>1, <3>2, <4>3 DEF ProbeInv, TypeOK
        <5>3. QED
          BY <4>1, <5>1, <5>2, RechargedAligned, IntervalDivides
      <4>4. QED
        BY <4>2, <4>3
    <3>4. ASSUME NEW o \in Observees, memoryInterval[o] # 0
          PROVE  memorySlots'[o] \in Whole(o, memoryInterval[o])
      <4>1. memorySlots[o] \in Whole(o, memoryInterval[o])
        BY <1>2, <3>4 DEF CountersAligned
      <4>2. CASE o # current
        BY <1>2, <3>2, <4>1, <4>2 DEF ProbeInv, TypeOK
      <4>3. CASE o = current
        <5>1. memoryInterval[o] \in 1..(SlotModulus - 1)
          BY <3>4, IntervalsAssumption, BoundsAssumption
        <5>2. memorySlots'[o] = Recharged(o, memoryInterval[o], memorySlots[o])
          BY <1>2, <3>1, <3>2, <4>3 DEF ProbeInv, TypeOK
        <5>3. QED
          BY <4>1, <5>1, <5>2, RechargedAligned, IntervalDivides
      <4>4. QED
        BY <4>2, <4>3
    <3>5. QED
      BY <3>3, <3>4 DEF CountersAligned
  <2>2. CASE UNCHANGED <<operationalSlots, memorySlots>>
    BY <1>2, <2>2 DEF CountersAligned
  <2>3. EvaluateSource \/ UNCHANGED <<operationalSlots, memorySlots>>
    BY <1>2 DEF Next, Dispatch, Visit, Notify, vars, objects, slots, BeginPass,
       SkipInactive, SkipEarly, SelectDue, EvaluateNothing, ForceShutdown, Retrigger,
       FinishPass, EndPass, Activated, SetSource, StartProbing, Deinitialized,
       SetInactive, ExecuteShutdown, Tick
  <2>4. QED
    BY <2>1, <2>2, <2>3
<1>3. QED
  BY <1>1, <1>2, InductiveInvariant, PTL DEF Spec
=============================================================================
