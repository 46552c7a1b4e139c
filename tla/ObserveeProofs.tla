--------------------------- MODULE ObserveeProofs ---------------------------
(***************************************************************************)
(* Proofs about Observee, for any number of memory interfaces, requests    *)
(* and fields.                                                             *)
(***************************************************************************)
EXTENDS Observee, TLAPS

\* What AddRef and Release do to each count.
LEMMA RefsAfter ==
  ASSUME NEW r \in [Instances -> Int], NEW i \in Instances \cup {Null}
  PROVE  /\ AddRef(r, i) \in [Instances -> Int]
         /\ Release(r, i) \in [Instances -> Int]
         /\ \A j \in Instances : AddRef(r, i)[j] = r[j] + One(i, j)
         /\ \A j \in Instances : Release(r, i)[j] = r[j] - One(i, j)
BY SentinelAssumption DEF AddRef, Release, One

\* A pointer counts for at most one reference.
LEMMA OneType == \A p, i : One(p, i) \in 0..1
BY DEF One

\* Balanced counts are natural numbers: nothing is released that was not taken.
LEMMA BalancedType == \A p, q, s, i : One(p, i) + One(q, i) + One(s, i) \in Nat
<1> SUFFICES ASSUME NEW p, NEW q, NEW s, NEW i
             PROVE  One(p, i) + One(q, i) + One(s, i) \in Nat
  OBVIOUS
<1>1. One(p, i) \in 0..1 /\ One(q, i) \in 0..1 /\ One(s, i) \in 0..1
  BY OneType
<1>2. QED
  BY <1>1

\* The fields are numbered one after the other.
LEMMA FieldOrder ==
  /\ 1 \in Fields
  /\ \A f \in Fields : f < NumFields => f + 1 \in Fields
BY FieldsAssumption DEF Fields

\* Each step leaves the references balanced with the pointers in use.
LEMMA RefsStep ==
  TypeOK /\ RefsInv /\ [Next]_vars => RefsInv' /\ refs' \in [Instances -> Nat]
<1> SUFFICES ASSUME TypeOK, RefsInv, [Next]_vars
             PROVE  RefsInv' /\ refs' \in [Instances -> Nat]
  OBVIOUS
<1> USE SentinelAssumption DEF TypeOK, RefsInv, stats, notification, evaluate, requests, status
<1>1. CASE Activated
  <2>1. refs' \in [Instances -> Int]
    BY <1>1, RefsAfter DEF Activated
  <2>2. \A i \in Instances :
          refs'[i] = One(source', i) + One(held', i) + One(memory', i)
    BY <1>1, RefsAfter DEF Activated, One
  <2>3. refs' \in [Instances -> Nat]
    BY <2>1, <2>2, BalancedType
  <2>4. QED
    BY <1>1, <2>2, <2>3 DEF Activated
<1>2. CASE SetMemory
  <2> DEFINE freed == Release(refs, source)
  <2>1. freed \in [Instances -> Int]
        /\ \A i \in Instances : freed[i] = refs[i] - One(source, i)
    BY RefsAfter
  <2>2. refs' = AddRef(freed, memory)
    BY <1>2 DEF SetMemory, Set
  <2> HIDE DEF freed
  <2>3. refs' \in [Instances -> Int]
        /\ \A i \in Instances : refs'[i] = freed[i] + One(memory, i)
    BY <2>1, <2>2, RefsAfter
  <2>4. \A i \in Instances :
          refs'[i] = One(source', i) + One(held', i) + One(memory', i)
    <3>1. source' = memory /\ UNCHANGED <<held, memory>>
      BY <1>2 DEF SetMemory, Set
    <3>2. ASSUME NEW j \in Instances
          PROVE  refs'[j] = One(memory, j) + One(held, j) + One(memory, j)
      <4>1. refs'[j] = (refs[j] - One(source, j)) + One(memory, j)
        BY <2>1, <2>3
      <4>2. refs[j] = One(source, j) + One(held, j) + One(memory, j)
        OBVIOUS
      <4>3. QED
        BY <4>1, <4>2, OneType
    <3>3. QED
      BY <3>1, <3>2
  <2>5. refs' \in [Instances -> Nat]
    BY <2>3, <2>4, BalancedType
  <2>6. QED
    BY <1>2, <2>4, <2>5 DEF SetMemory, Set
<1>3. CASE FlagUp
  BY <1>3 DEF FlagUp
<1>4. CASE ReleaseMemory
  <2>1. refs' \in [Instances -> Int]
    BY <1>4, RefsAfter DEF ReleaseMemory
  <2>2. \A i \in Instances :
          refs'[i] = One(source', i) + One(held', i) + One(memory', i)
    <3>1. memory' = Null /\ UNCHANGED <<source, held>>
      BY <1>4 DEF ReleaseMemory
    <3>2. ASSUME NEW i \in Instances
          PROVE  refs'[i] = refs[i] - One(memory, i) /\ One(Null, i) = 0
      BY <1>4, RefsAfter DEF ReleaseMemory, One
    <3>3. QED
      BY <3>1, <3>2, OneType
  <2>3. refs' \in [Instances -> Nat]
    BY <2>1, <2>2, BalancedType
  <2>4. QED
    BY <1>4, <2>2, <2>3 DEF ReleaseMemory
<1>5. CASE Deinitialized
  <2> DEFINE freed == Release(refs, source)
  <2>1. freed \in [Instances -> Int]
        /\ \A i \in Instances : freed[i] = refs[i] - One(source, i)
    BY RefsAfter
  <2>2. refs' = AddRef(freed, Null)
    BY <1>5 DEF Deinitialized, Set
  <2> HIDE DEF freed
  <2>3. refs' \in [Instances -> Int]
        /\ \A i \in Instances : refs'[i] = freed[i] + One(Null, i)
    BY <2>1, <2>2, RefsAfter
  <2>4. \A i \in Instances :
          refs'[i] = One(source', i) + One(held', i) + One(memory', i)
    <3>1. source' = Null /\ UNCHANGED <<held, memory>>
      BY <1>5 DEF Deinitialized, Set
    <3>2. ASSUME NEW j \in Instances
          PROVE  refs'[j] = One(Null, j) + One(held, j) + One(memory, j)
      <4>1. refs'[j] = (refs[j] - One(source, j)) + One(Null, j)
        BY <2>1, <2>3
      <4>2. refs[j] = One(source, j) + One(held, j) + One(memory, j)
        OBVIOUS
      <4>3. QED
        BY <4>1, <4>2, OneType
    <3>3. QED
      BY <3>1, <3>2
  <2>5. refs' \in [Instances -> Nat]
    BY <2>3, <2>4, BalancedType
  <2>6. QED
    BY <1>5, <2>4, <2>5 DEF Deinitialized, Set
<1>6. CASE FlagDown
  BY <1>6 DEF FlagDown
<1>7. CASE TakeSource
  <2>1. refs' \in [Instances -> Int]
    BY <1>7, RefsAfter DEF TakeSource
  <2>2. \A i \in Instances :
          refs'[i] = One(source', i) + One(held', i) + One(memory', i)
    <3>1. held = Null /\ held' = source /\ UNCHANGED <<source, memory>>
      BY <1>7 DEF TakeSource
    <3>2. ASSUME NEW i \in Instances
          PROVE  refs'[i] = refs[i] + One(source, i) /\ One(Null, i) = 0
      BY <1>7, RefsAfter DEF TakeSource, One
    <3>3. QED
      BY <3>1, <3>2, OneType
  <2>3. refs' \in [Instances -> Nat]
    BY <2>1, <2>2, BalancedType
  <2>4. QED
    BY <1>7, <2>2, <2>3 DEF TakeSource
<1>8. CASE AskOperational
  BY <1>8 DEF AskOperational
<1>9. CASE StoreOperational
  BY <1>9 DEF StoreOperational
<1>9a. CASE JudgeOperational
  BY <1>9a DEF JudgeOperational
<1>10. CASE TakeSample
  BY <1>10 DEF TakeSample
<1>11. CASE LockMeasurement
  BY <1>11 DEF LockMeasurement
<1>12. CASE AddMeasurement
  BY <1>12 DEF AddMeasurement
<1>13. CASE LeaveEvaluate
  <2>1. refs' \in [Instances -> Int]
    BY <1>13, RefsAfter DEF LeaveEvaluate
  <2>2. \A i \in Instances :
          refs'[i] = One(source', i) + One(held', i) + One(memory', i)
    <3>1. held' = Null /\ UNCHANGED <<source, memory>>
      BY <1>13 DEF LeaveEvaluate
    <3>2. ASSUME NEW i \in Instances
          PROVE  refs'[i] = refs[i] - One(held, i) /\ One(Null, i) = 0
      BY <1>13, RefsAfter DEF LeaveEvaluate, One
    <3>3. QED
      BY <3>1, <3>2, OneType
  <2>3. refs' \in [Instances -> Nat]
    BY <2>1, <2>2, BalancedType
  <2>4. QED
    BY <1>13, <2>2, <2>3 DEF LeaveEvaluate
<1>14. ASSUME NEW r \in Requests, Measurement(r) PROVE RefsInv' /\ refs' \in [Instances -> Nat]
  BY <1>14 DEF Measurement
<1>15. ASSUME NEW r \in Requests, ReadField(r) PROVE RefsInv' /\ refs' \in [Instances -> Nat]
  BY <1>15 DEF ReadField
<1>16. ASSUME NEW r \in Requests, Reply(r) PROVE RefsInv' /\ refs' \in [Instances -> Nat]
  BY <1>16 DEF Reply
<1>17. ASSUME NEW r \in Requests, Reset(r) PROVE RefsInv' /\ refs' \in [Instances -> Nat]
  BY <1>17 DEF Reset
<1>18. ASSUME NEW r \in Requests, ResetField(r) PROVE RefsInv' /\ refs' \in [Instances -> Nat]
  BY <1>18 DEF ResetField
<1>19. CASE Close
  <2>1. refs' \in [Instances -> Int]
    BY <1>19, RefsAfter DEF Close
  <2>2. \A i \in Instances :
          refs'[i] = One(source', i) + One(held', i) + One(memory', i)
    <3>1. source' = Null /\ UNCHANGED <<held, memory>>
      BY <1>19 DEF Close
    <3>2. ASSUME NEW i \in Instances
          PROVE  refs'[i] = refs[i] - One(source, i) /\ One(Null, i) = 0
      BY <1>19, RefsAfter DEF Close, One
    <3>3. QED
      BY <3>1, <3>2, OneType
  <2>3. refs' \in [Instances -> Nat]
    BY <2>1, <2>2, BalancedType
  <2>4. QED
    BY <1>19, <2>2, <2>3 DEF Close
<1>20. CASE UNCHANGED vars
  BY <1>20 DEF vars
<1>21. QED
  BY <1>1, <1>2, <1>3, <1>4, <1>5, <1>6, <1>7, <1>8, <1>9, <1>9a, <1>10, <1>11, <1>12,
     <1>13, <1>14, <1>15, <1>16, <1>17, <1>18, <1>19, <1>20
  DEF Next, Notification, Evaluate, Serve

\* The variables of an observee keep their types.
LEMMA TypeStep ==
  TypeOK /\ refs' \in [Instances -> Nat] /\ [Next]_vars => TypeOK'
<1> SUFFICES ASSUME TypeOK, refs' \in [Instances -> Nat], [Next]_vars
             PROVE  TypeOK'
  OBVIOUS
<1> USE SentinelAssumption DEF TypeOK, stats, notification, evaluate, requests, status
<1>1. CASE Activated
  BY <1>1 DEF Activated
<1>2. CASE SetMemory
  BY <1>2 DEF SetMemory, Set
<1>3. CASE FlagUp
  BY <1>3 DEF FlagUp
<1>4. CASE ReleaseMemory
  BY <1>4 DEF ReleaseMemory
<1>5. CASE Deinitialized
  BY <1>5 DEF Deinitialized, Set
<1>6. CASE FlagDown
  <2>1. operational' \in BOOLEAN
    BY <1>6, Zenon DEF FlagDown
  <2>2. plugin' \in {"down", "queried", "set", "flagged", "up", "cleared"}
    BY <1>6 DEF FlagDown
  <2>3. UNCHANGED <<source, measured, owner, refs, closed, memory, evaluation, held, answer,
                    failing, sample, field, request, next, copy>>
    BY <1>6 DEF FlagDown
  <2>4. QED
    BY <2>1, <2>2, <2>3
<1>7. CASE TakeSource
  BY <1>7 DEF TakeSource
<1>8. CASE AskOperational
  BY <1>8 DEF AskOperational
<1>9. CASE StoreOperational
  BY <1>9 DEF StoreOperational
<1>9a. CASE JudgeOperational
  BY <1>9a DEF JudgeOperational
<1>10. CASE TakeSample
  BY <1>10 DEF TakeSample
<1>11. CASE LockMeasurement
  BY <1>11, FieldOrder DEF LockMeasurement
<1>12. CASE AddMeasurement
  <2>1. measured' \in [Fields -> Nat]
    BY <1>12 DEF AddMeasurement
  <2>2. field' \in Fields
    BY <1>12, FieldOrder DEF AddMeasurement
  <2>3. QED
    BY <1>12, <2>1, <2>2 DEF AddMeasurement
<1>13. CASE LeaveEvaluate
  BY <1>13 DEF LeaveEvaluate
<1>14. ASSUME NEW r \in Requests, Measurement(r) PROVE TypeOK'
  BY <1>14 DEF Measurement
<1>15. ASSUME NEW r \in Requests, ReadField(r) PROVE TypeOK'
  <2>1. copy' \in [Requests -> [Fields -> Nat]]
    BY <1>15 DEF ReadField
  <2>2. next' \in [Requests -> Fields]
    BY <1>15, FieldOrder DEF ReadField
  <2>3. QED
    BY <1>15, <2>1, <2>2 DEF ReadField
<1>16. ASSUME NEW r \in Requests, Reply(r) PROVE TypeOK'
  <2>1. copy' \in [Requests -> [Fields -> Nat]]
    BY <1>16 DEF Reply
  <2>2. QED
    BY <1>16, <2>1 DEF Reply
<1>17. ASSUME NEW r \in Requests, Reset(r) PROVE TypeOK'
  BY <1>17 DEF Reset
<1>18. ASSUME NEW r \in Requests, ResetField(r) PROVE TypeOK'
  <2>1. copy' \in [Requests -> [Fields -> Nat]]
    BY <1>18 DEF ResetField
  <2>2. next' \in [Requests -> Fields]
    BY <1>18, FieldOrder DEF ResetField
  <2>3. measured' \in [Fields -> Nat] /\ owner' \in Requests \cup {Free, Evaluator}
    BY <1>18 DEF ResetField
  <2>4. request' \in [Requests -> {"idle", "read", "reply", "reset"}]
    BY <1>18 DEF ResetField
  <2>5. QED
    BY <1>18, <2>1, <2>2, <2>3, <2>4 DEF ResetField
<1>19. CASE Close
  BY <1>19 DEF Close
<1>20. CASE UNCHANGED vars
  BY <1>20 DEF vars
<1>21. QED
  BY <1>1, <1>2, <1>3, <1>4, <1>5, <1>6, <1>7, <1>8, <1>9, <1>9a, <1>10, <1>11, <1>12,
     <1>13, <1>14, <1>15, <1>16, <1>17, <1>18, <1>19, <1>20
  DEF Next, Notification, Evaluate, Serve

\* Each step leaves the statistics whole, or in the hands of the lock's owner.
LEMMA StatisticsStep ==
  TypeOK /\ StatisticsInv /\ [Next]_vars => StatisticsInv'
<1> SUFFICES ASSUME TypeOK, StatisticsInv, [Next]_vars
             PROVE  StatisticsInv'
  OBVIOUS
<1> USE FieldsAssumption, SentinelAssumption
  DEF TypeOK, Fields, StatisticsInv, StatisticsWhole, stats, notification, evaluate, requests, status
<1>1. CASE Activated
  BY <1>1 DEF Activated
<1>2. CASE SetMemory
  BY <1>2 DEF SetMemory, Set
<1>3. CASE FlagUp
  BY <1>3 DEF FlagUp
<1>4. CASE ReleaseMemory
  BY <1>4 DEF ReleaseMemory
<1>5. CASE Deinitialized
  BY <1>5 DEF Deinitialized, Set
<1>6. CASE FlagDown
  BY <1>6 DEF FlagDown
<1>7. CASE TakeSource
  BY <1>7 DEF TakeSource
<1>8. CASE AskOperational
  BY <1>8 DEF AskOperational
<1>9. CASE StoreOperational
  BY <1>9 DEF StoreOperational
<1>9a. CASE JudgeOperational
  BY <1>9a DEF JudgeOperational
<1>10. CASE TakeSample
  BY <1>10 DEF TakeSample
<1>11. CASE LockMeasurement
  BY <1>11 DEF LockMeasurement
<1>12. CASE AddMeasurement
  BY <1>12, SMTT(30) DEF AddMeasurement
<1>13. CASE LeaveEvaluate
  BY <1>13 DEF LeaveEvaluate
<1>14. ASSUME NEW r \in Requests, Measurement(r) PROVE StatisticsInv'
  BY <1>14 DEF Measurement
<1>15. ASSUME NEW r \in Requests, ReadField(r) PROVE StatisticsInv'
  <2>1. UNCHANGED <<measured, owner, evaluation, field, sample>>
    BY <1>15 DEF ReadField
  <2>2. \A q \in Requests :
          (owner = q => next'[q] = next[q]) /\ (request'[q] = "reset" <=> request[q] = "reset")
    BY <1>15 DEF ReadField
  <2>3. \A q \in Requests : request'[q] \in {"idle", "reply"} => next'[q] = 1
    BY <1>15 DEF ReadField
  <2>4. QED
    BY <2>1, <2>2, <2>3
<1>16. ASSUME NEW r \in Requests, Reply(r) PROVE StatisticsInv'
  BY <1>16 DEF Reply
<1>17. ASSUME NEW r \in Requests, Reset(r) PROVE StatisticsInv'
  <2>1. UNCHANGED <<measured, evaluation, field, sample, next>> /\ owner = Free /\ owner' = r
    BY <1>17 DEF Reset
  <2>2. \A q \in Requests : request'[q] = "reset" <=> q = r
    BY <1>17 DEF Reset
  <2>3. next[r] = 1 /\ \A q \in Requests : request'[q] \in {"idle", "reply"} => next[q] = 1
    BY <1>17 DEF Reset
  <2>4. QED
    BY <2>1, <2>2, <2>3
<1>18. ASSUME NEW r \in Requests, ResetField(r) PROVE StatisticsInv'
  <2>1. UNCHANGED <<evaluation, field, sample>> /\ owner = r /\ request[r] = "reset"
    BY <1>18 DEF ResetField
  <2>2. \A f \in Fields : f <= next[r] => measured'[f] = 0
    BY <1>18, <2>1 DEF ResetField
  <2>3. CASE next[r] < NumFields
    <3>1. UNCHANGED <<owner, request>> /\ next' = [next EXCEPT ![r] = next[r] + 1]
      BY <1>18, <2>3 DEF ResetField
    <3>2. \A f \in Fields : f < next'[r] => measured'[f] = 0
      BY <2>2, <3>1
    <3>3. \A q \in Requests : request'[q] \in {"idle", "reply"} => next'[q] = 1
      BY <2>1, <3>1
    <3>4. QED
      BY <2>1, <3>1, <3>2, <3>3
  <2>4. CASE next[r] = NumFields
    <3>1. /\ owner' = Free
          /\ next' = [next EXCEPT ![r] = 1]
          /\ request' = [request EXCEPT ![r] = "idle"]
      BY <1>18, <2>4, SMTT(30) DEF ResetField
    <3>2. \A q \in Requests : q # r => request[q] # "reset"
      BY <2>1
    <3>3. \A q \in Requests : request'[q] # "reset"
      BY <3>1, <3>2
    <3>4. \A q \in Requests : request'[q] \in {"idle", "reply"} => next'[q] = 1
      BY <3>1
    <3>5. \A f, g \in Fields : measured'[f] = measured'[g]
      BY <2>2, <2>4
    <3>6. QED
      BY <2>1, <3>1, <3>3, <3>4, <3>5
  <2>5. QED
    BY <1>18, <2>3, <2>4 DEF ResetField
<1>19. CASE Close
  BY <1>19 DEF Close
<1>20. CASE UNCHANGED vars
  BY <1>20 DEF vars
<1>21. QED
  BY <1>1, <1>2, <1>3, <1>4, <1>5, <1>6, <1>7, <1>8, <1>9, <1>9a, <1>10, <1>11, <1>12,
     <1>13, <1>14, <1>15, <1>16, <1>17, <1>18, <1>19, <1>20
  DEF Next, Notification, Evaluate, Serve

\* ObserveeInv is inductive, hence an invariant of the specification.
THEOREM InductiveInvariant == Spec => []ObserveeInv
<1>1. Init => ObserveeInv
  <2> SUFFICES ASSUME Init PROVE ObserveeInv
    OBVIOUS
  <2>1. TypeOK
    <3>1. 1 \in Fields
      BY FieldsAssumption DEF Fields
    <3>2. QED
      BY <3>1 DEF Init, TypeOK
  <2>2. RefsInv
    BY SentinelAssumption DEF Init, RefsInv, One
  <2>3. StatisticsInv
    BY SentinelAssumption DEF Init, StatisticsInv, StatisticsWhole
  <2>4. QED
    BY <2>1, <2>2, <2>3 DEF ObserveeInv
<1>2. ObserveeInv /\ [Next]_vars => ObserveeInv'
  BY TypeStep, RefsStep, StatisticsStep DEF ObserveeInv
<1>3. QED
  BY <1>1, <1>2, PTL DEF Spec

\* Every variable keeps its type; references are never negative.
THEOREM TypeCorrect == Spec => []TypeOK
<1>1. ObserveeInv => TypeOK
  BY DEF ObserveeInv
<1>2. QED
  BY <1>1, InductiveInvariant, PTL

\* The monitor uses no memory interface it has released, however the
\* notifications overtake Evaluate.
THEOREM SourcesStayAlive == Spec => []NoUseAfterRelease
<1>1. ObserveeInv => NoUseAfterRelease
  <2> SUFFICES ASSUME ObserveeInv, NEW i \in {source, held, memory} \ {Null}
               PROVE  refs[i] > 0
    BY DEF NoUseAfterRelease
  <2>1. i \in Instances
    BY DEF ObserveeInv, TypeOK
  <2>2. refs[i] = One(source, i) + One(held, i) + One(memory, i)
    BY <2>1 DEF ObserveeInv, RefsInv
  <2>3. QED
    BY <2>2 DEF One
<1>2. QED
  BY <1>1, InductiveInvariant, PTL

\* The monitor keeps no reference on the memory interface of a plugin that is
\* down, nor any after Close.
THEOREM SourcesAreReleased == Spec => []NoLeak
<1>1. ObserveeInv => NoLeak
  <2> SUFFICES ASSUME ObserveeInv, plugin = "down" \/ closed, evaluation = "idle",
                      NEW i \in Instances
               PROVE  refs[i] = 0
    BY DEF NoLeak
  <2>1. source = Null /\ held = Null /\ memory = Null
    BY DEF ObserveeInv, RefsInv
  <2>2. refs[i] = One(source, i) + One(held, i) + One(memory, i)
    BY DEF ObserveeInv, RefsInv
  <2>3. QED
    BY <2>1, <2>2, SentinelAssumption DEF One
<1>2. QED
  BY <1>1, InductiveInvariant, PTL

\* AddMeasurements and Reset never mix their fields.
THEOREM WritersExclude == Spec => []StatisticsWhole
<1>1. ObserveeInv => StatisticsWhole
  BY DEF ObserveeInv, StatisticsInv
<1>2. QED
  BY <1>1, InductiveInvariant, PTL
=============================================================================
