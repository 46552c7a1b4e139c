----------------------- MODULE MonitorLifecycleProofs -----------------------
(***************************************************************************)
(* Proofs about MonitorLifecycle: whatever the configurations, plugins and  *)
(* requests, the order of the calls of Initialize and Deinitialize protects *)
(* the map, no plugin escapes the monitor, and no sample is lost.           *)
(***************************************************************************)
EXTENDS MonitorLifecycle, NumberTheorems, TLAPS

\* Which call each number stands for.
LEMMA Calls ==
  ASSUME step \in 1..8
  PROVE  /\ Len(Order) = 8
         /\ At("configure") <=> step = 1
         /\ At("open") <=> step = 2
         /\ At("register") <=> step = 3
         /\ At("registerAll") <=> step = 4
         /\ At("unregisterAll") <=> step = 5
         /\ At("unregister") <=> step = 6
         /\ At("revoke") <=> step = 7
         /\ At("clear") <=> step = 8
<1>1. Len(Order) = 8
  BY DEF Order
<1>2. /\ Order[1] = "configure" /\ Order[2] = "open"
      /\ Order[3] = "register" /\ Order[4] = "registerAll"
      /\ Order[5] = "unregisterAll" /\ Order[6] = "unregister"
      /\ Order[7] = "revoke" /\ Order[8] = "clear"
  BY DEF Order
<1>3. step = 1 \/ step = 2 \/ step = 3 \/ step = 4 \/ step = 5 \/ step = 6
      \/ step = 7 \/ step = 8
  OBVIOUS
<1>4. QED
  BY <1>1, <1>2, <1>3 DEF At

\* A call is followed by the next one, and the last by the first.
LEMMA NextCall ==
  ASSUME step \in 1..8, Advance
  PROVE  step' = (IF step = 8 THEN 1 ELSE step + 1) /\ step' \in 1..8
<1>1. Len(Order) = 8
  BY Calls
<1>2. step' = 1 + (step % 8)
  BY <1>1 DEF Advance
<1>3. step = 1 \/ step = 2 \/ step = 3 \/ step = 4 \/ step = 5 \/ step = 6
      \/ step = 7 \/ step = 8
  OBVIOUS
<1>4. QED
  BY <1>2, <1>3

\* What a thread that serves a request may be at when n samples were taken.
RequestStates(n) ==
  [op : {"none", "read", "reset"}, name : Callsigns \cup {Empty},
   pending : SUBSET Callsigns, answer : SUBSET Callsigns,
   told : SUBSET (1..n), since : SUBSET (1..n)]

LEMMA NoRequestType == ASSUME NEW n \in Nat PROVE NoRequest \in RequestStates(n)
BY DEF NoRequest, RequestStates

LEMMA NothingType == DOMAIN Nothing = {}
BY DEF Nothing

\* The initial state satisfies the invariant.
LEMMA InitInv == Init => LifecycleInv
<1> SUFFICES ASSUME Init PROVE LifecycleInv
  OBVIOUS
<1>1. Len(Order) = 8
  BY DEF Order
<1>2. Observed = {}
  BY NothingType DEF Init, Observed
<1>3. TypeOK
  <2>1. request \in [Requests -> RequestStates(taken)]
    BY NoRequestType DEF Init
  <2>2. samples \in [Callsigns -> SUBSET (1..taken)]
    BY DEF Init
  <2>3. plugin \in [Callsigns -> {"down", "activated", "up", "deinitialized"}]
    BY DEF Init
  <2>4. answered \subseteq 1..taken /\ raced \subseteq 1..taken /\ taken \in Nat
    BY DEF Init
  <2>5. step \in 1..Len(Order) /\ config \in Configs \cup {<<>>} /\ index \in Nat
    BY <1>1 DEF Init
  <2>6. /\ Observed \subseteq Callsigns /\ active \subseteq Observed /\ listening \in BOOLEAN
        /\ reports \subseteq Callsigns /\ job \in {"idle", "queued", "running", "again"}
        /\ todo \subseteq Callsigns /\ found \in BOOLEAN
    BY <1>2 DEF Init
  <2>7. QED
    BY <2>1, <2>2, <2>3, <2>4, <2>5, <2>6 DEF TypeOK, RequestStates
<1>4. MapNeedsNoLock /\ StepInv
  BY <1>2 DEF Init, MapNeedsNoLock, StepInv, Notified, Unserved, NoRequest, Running
<1>5. ProbedInv
  BY DEF Init, ProbedInv
<1>6. SamplesInv
  BY DEF Init, SamplesInv, SamplesAccounted, ResetInv, NoRequest
<1>7. QED
  BY <1>3, <1>4, <1>5, <1>6 DEF LifecycleInv

-----------------------------------------------------------------------------
\* Type correctness, variable by variable: the groups follow from what each action
\* writes.
LifeType == step \in 1..8 /\ config \in Configs \cup {<<>>} /\ index \in Nat
MapType == Observed \subseteq Callsigns /\ active \subseteq Observed
FrameworkType ==
  /\ listening \in BOOLEAN /\ reports \subseteq Callsigns
  /\ plugin \in [Callsigns -> {"down", "activated", "up", "deinitialized"}]
JobType ==
  /\ job \in {"idle", "queued", "running", "again"}
  /\ todo \subseteq Callsigns /\ found \in BOOLEAN
SampleType ==
  /\ taken \in Nat
  /\ samples \in [Callsigns -> SUBSET (1..taken)]
  /\ answered \subseteq 1..taken /\ raced \subseteq 1..taken
RequestType == request \in [Requests -> RequestStates(taken)]

LEMMA Types ==
  TypeOK <=> LifeType /\ MapType /\ FrameworkType /\ JobType /\ SampleType /\ RequestType
<1>1. Len(Order) = 8
  BY DEF Order
<1>2. QED
  BY <1>1 DEF TypeOK, LifeType, MapType, FrameworkType, JobType, SampleType, RequestType,
     RequestStates

LEMMA LifeTypeStep ==
  ASSUME LifeType, [Next]_vars
  PROVE  LifeType'
<1>1. step' = step \/ Advance
  BY DEF Next, vars, life, Initialize, Deinitialize, Notify, Dispatch, Process, Configure,
     OpenEntry, Opened, Register, Registered, RegisterAll, UnregisterAll, Unregister,
     Revoke, Clear, ComeUp, Report, StartProbing, GoDown, SetInactive, BeginPass, Visit,
     FinishPass, EndPass, Serve, Read, Conclude
<1>2. step' \in 1..8
  BY <1>1, NextCall DEF LifeType
<1>3. \/ config' = config /\ index' \in {index, index + 1}
      \/ config' \in Configs /\ index' = 0
  BY DEF Next, vars, life, Initialize, Deinitialize, Notify, Dispatch, Process, Configure,
     OpenEntry, Opened, Register, Registered, RegisterAll, UnregisterAll, Unregister,
     Revoke, Clear, ComeUp, Report, StartProbing, GoDown, SetInactive, BeginPass, Visit,
     FinishPass, EndPass, Serve, Read, Conclude
<1>4. QED
  BY <1>2, <1>3 DEF LifeType

LEMMA MapTypeStep ==
  ASSUME LifeType, MapType, [Next]_vars
  PROVE  MapType'
<1>1. CASE OpenEntry
  <2> DEFINE e == config[index']
  <2>1. config \in Configs /\ index' \in 1..Len(config)
    BY <1>1 DEF OpenEntry, LifeType
  <2>2. e.callsign \in Callsigns
    BY <2>1, EntriesAssumption DEF Entry
  <2>3. DOMAIN monitor' \in {DOMAIN monitor, DOMAIN monitor \cup {e.callsign}}
    BY <1>1 DEF OpenEntry, Observed
  <2>4. active' = active
    BY <1>1 DEF OpenEntry
  <2>5. QED
    BY <2>2, <2>3, <2>4 DEF MapType, Observed
<1>2. CASE Clear
  BY <1>2, NothingType DEF Clear, MapType, Observed
<1>3. CASE monitor' = monitor /\ active' = active
  BY <1>3 DEF MapType, Observed
<1>4. ASSUME NEW c \in Callsigns, ComeUp(c) \/ Report(c)
      PROVE  MapType'
  BY <1>4 DEF ComeUp, Report, Activated, MapType, Observed
<1>5. ASSUME NEW c \in Callsigns, SetInactive(c)
      PROVE  MapType'
  BY <1>5 DEF SetInactive, MapType, Observed
<1>6. QED
  BY <1>1, <1>2, <1>3, <1>4, <1>5
     DEF Next, vars, Initialize, Deinitialize, Notify, Dispatch, Process, Configure,
     Opened, Register, Registered, RegisterAll, UnregisterAll, Unregister,
     Revoke, StartProbing, GoDown, BeginPass, Visit, FinishPass, EndPass, Serve, Read, Conclude

LEMMA FrameworkTypeStep ==
  ASSUME FrameworkType, [Next]_vars
  PROVE  FrameworkType'
<1>1. CASE UNCHANGED framework
  BY <1>1 DEF framework, FrameworkType
<1>2. CASE Register \/ Unregister
  BY <1>2 DEF Register, Unregister, FrameworkType
<1>3. ASSUME NEW c \in Callsigns, Notify(c)
      PROVE  FrameworkType'
  BY <1>3 DEF Notify, ComeUp, Report, Activated, StartProbing, GoDown, SetInactive,
     FrameworkType
<1>4. QED
  BY <1>1, <1>2, <1>3
     DEF Next, vars, Initialize, Deinitialize, Dispatch, Process, Configure, OpenEntry,
     Opened, Registered, RegisterAll, UnregisterAll,
     Revoke, Clear, BeginPass, Visit, FinishPass, EndPass, Serve, Read, Conclude

LEMMA JobTypeStep ==
  ASSUME MapType, JobType, [Next]_vars
  PROVE  JobType'
<1>1. job' \in {"idle", "queued", "running", "again"}
  BY DEF JobType, Submit, Next, vars, dispatch, Initialize, Deinitialize, Notify, Dispatch,
     Process, Configure, OpenEntry, Opened, Register, Registered, RegisterAll, UnregisterAll,
     Unregister, Revoke, Clear, ComeUp, Report, StartProbing, GoDown, SetInactive, BeginPass,
     Visit, FinishPass, EndPass, Serve, Read, Conclude
<1>2. todo' = Observed \/ todo' \subseteq todo
  BY DEF Next, vars, dispatch, Initialize, Deinitialize, Notify, Dispatch,
     Process, Configure, OpenEntry, Opened, Register, Registered, RegisterAll, UnregisterAll,
     Unregister, Revoke, Clear, ComeUp, Report, StartProbing, GoDown, SetInactive, BeginPass,
     Visit, FinishPass, EndPass, Serve, Read, Conclude
<1>3. found' \in BOOLEAN
  BY DEF JobType, Next, vars, dispatch, Initialize, Deinitialize, Notify, Dispatch,
     Process, Configure, OpenEntry, Opened, Register, Registered, RegisterAll, UnregisterAll,
     Unregister, Revoke, Clear, ComeUp, Report, StartProbing, GoDown, SetInactive, BeginPass,
     Visit, FinishPass, EndPass, Serve, Read, Conclude
<1>4. QED
  BY <1>1, <1>2, <1>3 DEF JobType, MapType

LEMMA SampleTypeStep ==
  ASSUME SampleType, RequestType, [Next]_vars
  PROVE  SampleType'
<1>1. CASE UNCHANGED <<taken, samples, answered, raced>>
  BY <1>1 DEF SampleType
<1>2. CASE Clear
  BY <1>2 DEF Clear, SampleType
<1>3. ASSUME NEW c \in todo, Visit(c), ~UNCHANGED <<taken, samples, request>>
      PROVE  SampleType'
  <2>1. /\ taken' = taken + 1 /\ samples' = [samples EXCEPT ![c] = @ \cup {taken'}]
        /\ UNCHANGED <<answered, raced>>
    BY <1>3 DEF Visit, Sample
  <2>2. taken' \in Nat /\ 1..taken \subseteq 1..taken' /\ taken' \in 1..taken'
    BY <2>1 DEF SampleType
  <2>3. samples' \in [Callsigns -> SUBSET (1..taken')]
    BY <2>1, <2>2 DEF SampleType
  <2>4. QED
    BY <2>1, <2>2, <2>3 DEF SampleType
<1>4. ASSUME NEW r \in Requests, Conclude(r)
      PROVE  SampleType'
  <2>1. taken' = taken
    BY <1>4 DEF Conclude
  <2>2. request[r].told \subseteq 1..taken /\ request[r].since \subseteq 1..taken
    BY DEF RequestType, RequestStates
  <2>3. samples' \in [Callsigns -> SUBSET (1..taken)]
    BY <1>4 DEF Conclude, ResetSamples, SampleType
  <2>4. answered' \subseteq 1..taken
    BY <1>4, <2>2 DEF Conclude, SampleType
  <2>5. raced' \subseteq raced \cup request[r].since
    BY <1>4 DEF Conclude
  <2>6. QED
    BY <2>1, <2>2, <2>3, <2>4, <2>5 DEF SampleType
<1>5. QED
  BY <1>1, <1>2, <1>3, <1>4
     DEF Next, vars, history, Initialize, Deinitialize, Notify, Dispatch, Process, Configure,
     OpenEntry, Opened, Register, Registered, RegisterAll, UnregisterAll, Unregister, Revoke,
     ComeUp, Report, StartProbing, GoDown, SetInactive, BeginPass, Visit, FinishPass, EndPass,
     Serve, Read

LEMMA RequestTypeStep ==
  ASSUME LifeType, MapType, SampleType, RequestType, StepInv, [Next]_vars
  PROVE  RequestType'
<1>1. CASE UNCHANGED <<taken, request>>
  BY <1>1 DEF RequestType
<1>2. CASE Clear
  <2>1. Unserved
    BY <1>2, Calls DEF Clear, StepInv, LifeType
  <2>2. taken' = 0 /\ request' = request
    BY <1>2 DEF Clear
  <2>3. QED
    BY <2>1, <2>2, NoRequestType DEF Unserved, RequestType
<1>3. ASSUME NEW c \in todo, Visit(c), ~UNCHANGED <<taken, samples, request>>
      PROVE  RequestType'
  <2>1. /\ taken' = taken + 1
        /\ request' = [r \in Requests |-> IF request[r].op = "reset"
             THEN [request[r] EXCEPT !.since = @ \cup {taken'}]
             ELSE request[r]]
    BY <1>3 DEF Visit, Sample
  <2>2. taken' \in Nat /\ 1..taken \subseteq 1..taken' /\ taken' \in 1..taken'
    BY <2>1 DEF SampleType
  <2>3. ASSUME NEW r \in Requests
        PROVE  request'[r] \in RequestStates(taken')
    <3>1. request[r] \in RequestStates(taken')
      BY <2>2 DEF RequestType, RequestStates
    <3>2. [request[r] EXCEPT !.since = @ \cup {taken'}] \in RequestStates(taken')
      BY <2>2, <3>1 DEF RequestStates
    <3>3. QED
      BY <2>1, <3>1, <3>2
  <2>4. QED
    BY <2>1, <2>3 DEF RequestType
<1>4. ASSUME NEW r \in Requests, Serve(r)
      PROVE  RequestType'
  <2>1. ASSUME NEW name \in Callsigns \cup {Empty}
        PROVE  /\ [NoRequest EXCEPT !.op = "read", !.pending = Asked(name)]
                    \in RequestStates(taken)
               /\ [NoRequest EXCEPT !.op = "reset", !.name = name, !.pending = Asked(name)]
                    \in RequestStates(taken)
    <3>1. Asked(name) \subseteq Callsigns
      BY DEF Asked, MapType
    <3>2. QED
      BY <3>1 DEF NoRequest, RequestStates
  <2>2. taken' = taken
    BY <1>4 DEF Serve, history
  <2>3. QED
    BY <1>4, <2>1, <2>2 DEF Serve, RequestType
<1>5. ASSUME NEW r \in Requests, NEW c \in request[r].pending, Read(r, c)
      PROVE  RequestType'
  <2> DEFINE q == request[r]
  <2>1. q \in RequestStates(taken) /\ c \in Callsigns
    BY DEF RequestType, RequestStates
  <2>2. samples[c] \subseteq 1..taken
    BY <2>1 DEF SampleType
  <2>3. [q EXCEPT
           !.pending = @ \ {c},
           !.answer = IF q.op = "reset" THEN @ \cup {c} ELSE @,
           !.told = IF q.op = "reset" THEN @ \cup samples[c] ELSE @]
        \in RequestStates(taken)
    BY <2>1, <2>2 DEF RequestStates
  <2>4. request' = [request EXCEPT ![r] =
          [q EXCEPT
             !.pending = @ \ {c},
             !.answer = IF q.op = "reset" THEN @ \cup {c} ELSE @,
             !.told = IF q.op = "reset" THEN @ \cup samples[c] ELSE @]]
    BY <1>5, <2>1 DEF Read, RequestType, RequestStates
  <2>5. taken' = taken
    BY <1>5 DEF Read, history
  <2>6. QED
    BY <2>3, <2>4, <2>5 DEF RequestType
<1>6. ASSUME NEW r \in Requests, Conclude(r)
      PROVE  RequestType'
  <2>1. taken' = taken /\ request' = [request EXCEPT ![r] = NoRequest]
    BY <1>6 DEF Conclude
  <2>2. QED
    BY <2>1, NoRequestType DEF SampleType, RequestType
<1>7. QED
  BY <1>1, <1>2, <1>3, <1>4, <1>5, <1>6
     DEF Next, vars, history, Initialize, Deinitialize, Notify, Dispatch, Process, Configure,
     OpenEntry, Opened, Register, Registered, RegisterAll, UnregisterAll, Unregister, Revoke,
     ComeUp, Report, StartProbing, GoDown, SetInactive, BeginPass, Visit, FinishPass, EndPass

\* Every step keeps the types.
LEMMA TypeStep ==
  ASSUME TypeOK, StepInv, [Next]_vars
  PROVE  TypeOK'
<1>1. LifeType /\ MapType /\ FrameworkType /\ JobType /\ SampleType /\ RequestType
  BY Types
<1>2. LifeType' /\ MapType' /\ FrameworkType' /\ JobType' /\ SampleType' /\ RequestType'
  BY <1>1, LifeTypeStep, MapTypeStep, FrameworkTypeStep, JobTypeStep, SampleTypeStep,
     RequestTypeStep
<1>3. QED
  BY <1>2, Types, PTL

-----------------------------------------------------------------------------
\* The map needs no lock.  The same with numbers for the calls, and without At:
Sheltered ==
  /\ todo \subseteq Observed /\ Notified \subseteq Observed
  /\ \A r \in Requests : request[r].pending \subseteq Observed
  /\ step \in {1, 2, 8} => job = "idle" /\ Notified = {} /\ Unserved

LEMMA Shelter ==
  ASSUME step \in 1..8
  PROVE  MapNeedsNoLock <=> Sheltered
<1>1. (At("configure") \/ At("open") \/ At("clear")) <=> step \in {1, 2, 8}
  BY Calls
<1>2. todo \cup Notified \subseteq Observed
      <=> todo \subseteq Observed /\ Notified \subseteq Observed
  OBVIOUS
<1>3. QED
  BY <1>1, <1>2 DEF MapNeedsNoLock, Sheltered

\* What Initialize and Deinitialize do, by number.
LEMMA LifeSteps ==
  ASSUME step \in 1..8
  PROVE  /\ Configure => step = 1 /\ step' = 2
         /\ OpenEntry => step = 2 /\ step' = 2
         /\ Opened => step = 2 /\ step' = 3
         /\ Register => step = 3 /\ step' = 3
         /\ Registered => step = 3 /\ step' = 4
         /\ RegisterAll => step = 4 /\ step' = 5
         /\ UnregisterAll => step = 5 /\ step' = 6
         /\ Unregister => step = 6 /\ step' = 7
         /\ Revoke => step = 7 /\ step' = 8
         /\ Clear => step = 8 /\ step' = 1
<1>1. Advance => step' = IF step = 8 THEN 1 ELSE step + 1
  BY NextCall
<1>2. QED
  BY <1>1, Calls DEF Configure, OpenEntry, Opened, Register, Registered, RegisterAll,
     UnregisterAll, Unregister, Revoke, Clear, life

LEMMA ShelterStep ==
  ASSUME LifeType, MapType, FrameworkType, JobType, RequestType, Sheltered, StepInv,
         [Next]_vars
  PROVE  Sheltered' /\ StepInv'
<1> USE DEF Sheltered, StepInv, Running
<1>0. step \in 1..8
  BY DEF LifeType
<1>1. CASE Configure \/ RegisterAll
  BY <1>0, <1>1, LifeSteps
     DEF Configure, RegisterAll, framework, dispatch, Notified, Observed, Unserved
<1>2. CASE OpenEntry
  <2>1. Observed \subseteq Observed'
    BY <1>2 DEF OpenEntry, Observed
  <2>2. UNCHANGED <<Notified, Unserved, framework, dispatch, request>>
    BY <1>2 DEF OpenEntry, Notified, Unserved, framework
  <2>3. QED
    BY <1>0, <1>2, <2>1, <2>2, LifeSteps DEF framework, dispatch
<1>3. CASE Opened
  BY <1>0, <1>3, LifeSteps DEF Opened, Submit, framework, Notified, Observed, Unserved
<1>4. CASE Register
  BY <1>0, <1>4, LifeSteps DEF Register, life, dispatch, Notified, Observed, Unserved
<1>5. CASE Registered
  BY <1>0, <1>5, LifeSteps DEF Registered, framework, dispatch, Notified, Observed, Unserved
<1>6. CASE UnregisterAll
  BY <1>0, <1>6, LifeSteps
     DEF UnregisterAll, framework, dispatch, Notified, Observed, Unserved
<1>7. CASE Unregister
  <2>0. step = 6 /\ step' = 7
    BY <1>0, <1>7, LifeSteps
  <2>1. Notified = {} /\ Unserved /\ reports = {}
    BY <1>7, <2>0 DEF Unregister
  <2>2. /\ UNCHANGED <<Notified, Observed, Unserved, reports, dispatch, request>>
        /\ listening' = FALSE
    BY <1>7 DEF Unregister, Notified, Observed, Unserved
  <2>3. QED
    BY <2>0, <2>1, <2>2 DEF dispatch
<1>8. CASE Revoke
  BY <1>0, <1>8, LifeSteps DEF Revoke, framework, Notified, Observed, Unserved
<1>9. CASE Clear
  <2>1. step = 8 /\ step' = 1 /\ job = "idle" /\ todo = {} /\ Notified = {} /\ Unserved
    BY <1>0, <1>9, LifeSteps
  <2>2. UNCHANGED <<Notified, Unserved, framework, dispatch, request>>
    BY <1>9 DEF Clear, Notified, Unserved, framework
  <2>3. \A r \in Requests : request[r].pending = {}
    BY <2>1 DEF Unserved, NoRequest
  <2>4. QED
    BY <2>1, <2>2, <2>3 DEF framework, dispatch
<1>10. ASSUME NEW c \in Callsigns, ComeUp(c) \/ Report(c) \/ GoDown(c)
       PROVE  Sheltered' /\ StepInv'
  <2>1. UNCHANGED <<step, monitor, listening, job, todo, found, request>>
    BY <1>10 DEF ComeUp, Report, GoDown, life, dispatch
  <2>2. reports' \subseteq reports
    BY <1>10 DEF ComeUp, Report, GoDown
  <2>3. listening \/ reports = {}
    OBVIOUS
  <2>4. plugin' = [plugin EXCEPT ![c] = plugin'[c]]
    BY <1>10 DEF ComeUp, Report, GoDown, Activated, FrameworkType
  <2>5. plugin'[c] \in {"activated", "deinitialized"} => listening /\ c \in Observed
    BY <1>10, <2>3 DEF ComeUp, Report, GoDown, Activated, FrameworkType
  <2>6. Notified' \subseteq Notified \cup {c}
    BY <2>4 DEF Notified, FrameworkType
  <2>7. c \in Notified' => listening /\ c \in Observed
    BY <2>5 DEF Notified
  <2>8. Notified' \subseteq Observed /\ (Notified' # {} => listening)
    BY <2>6, <2>7
  <2>9. UNCHANGED <<Observed, Unserved>>
    BY <2>1 DEF Observed, Unserved
  <2>10. QED
    BY <2>1, <2>2, <2>8, <2>9
<1>11. ASSUME NEW c \in Callsigns, StartProbing(c) \/ SetInactive(c)
       PROVE  Sheltered' /\ StepInv'
  <2>1. UNCHANGED <<step, monitor, listening, reports, todo, found, request>>
    BY <1>11 DEF StartProbing, SetInactive, life, dispatch
  <2>2. c \in Notified /\ Notified' \subseteq Notified
    BY <1>11 DEF StartProbing, SetInactive, Notified, FrameworkType
  <2>3. step \in 3..6
    BY <2>2
  <2>4. job' \in {"running", "again"} \/ job \notin {"running", "again"}
    BY <1>11 DEF StartProbing, SetInactive, Submit, dispatch
  <2>5. UNCHANGED <<Observed, Unserved>>
    BY <2>1 DEF Observed, Unserved
  <2>6. QED
    BY <2>1, <2>2, <2>3, <2>4, <2>5
<1>12. CASE BeginPass \/ FinishPass \/ EndPass \/ \E c \in todo : Visit(c)
  <2>1. UNCHANGED <<step, monitor, listening, reports, plugin>>
    BY <1>12 DEF BeginPass, FinishPass, EndPass, Visit, life, framework
  <2>2. job # "idle"
    BY <1>12 DEF BeginPass, FinishPass, EndPass, Visit
  <2>3. todo' \subseteq Observed /\ (job' \in {"running", "again"} \/ todo' = {})
    BY <1>12 DEF BeginPass, FinishPass, EndPass, Visit, Observed
  <2>4. \A r \in Requests : request'[r].pending = request[r].pending
    BY <1>12 DEF BeginPass, FinishPass, EndPass, Visit, Sample, RequestType, RequestStates
  <2>5. ASSUME Unserved
        PROVE  Unserved'
    <3>1. \A r \in Requests : request[r].op = "none"
      BY <2>5 DEF Unserved, NoRequest
    <3>2. \A r \in Requests : request'[r] = request[r]
      BY <1>12, <3>1 DEF BeginPass, FinishPass, EndPass, Visit, Sample
    <3>3. QED
      BY <2>5, <3>2 DEF Unserved
  <2>6. UNCHANGED <<Notified, Observed>>
    BY <2>1 DEF Notified, Observed
  <2>7. QED
    BY <2>1, <2>2, <2>3, <2>4, <2>5, <2>6
<1>13. ASSUME NEW r \in Requests,
              Serve(r) \/ (\E c \in request[r].pending : Read(r, c)) \/ Conclude(r)
       PROVE  Sheltered' /\ StepInv'
  <2>1. UNCHANGED <<step, monitor, framework, dispatch>>
    BY <1>13 DEF Serve, Read, Conclude, life
  <2>2. step = 5
    <3>1. CASE Serve(r)
      BY <1>0, <3>1, Calls DEF Serve
    <3>2. CASE request[r] # NoRequest
      BY <3>2 DEF Unserved
    <3>3. (\E c \in request[r].pending : Read(r, c)) => request[r].pending # {}
      OBVIOUS
    <3>4. Conclude(r) => request[r].op # "none"
      BY DEF Conclude
    <3>5. NoRequest.pending = {} /\ NoRequest.op = "none"
      BY DEF NoRequest
    <3>6. QED
      BY <1>13, <3>1, <3>2, <3>3, <3>4, <3>5
  <2>3. /\ request' \in [Requests -> {request'[i] : i \in Requests}]
        /\ \A q \in Requests \ {r} : request'[q] = request[q]
    BY <1>13 DEF Serve, Read, Conclude, RequestType
  <2>4. request'[r].pending \subseteq Observed
    <3>1. CASE Serve(r)
      <4>1. PICK name \in Callsigns \cup {Empty} :
              \/ request'[r] = [NoRequest EXCEPT !.op = "read", !.pending = Asked(name)]
              \/ request'[r] =
                   [NoRequest EXCEPT !.op = "reset", !.name = name, !.pending = Asked(name)]
        BY <3>1 DEF Serve, RequestType
      <4>2. request'[r].pending = Asked(name)
        BY <4>1 DEF NoRequest
      <4>3. QED
        BY <4>2 DEF Asked
    <3>2. CASE \E c \in request[r].pending : Read(r, c)
      <4>1. PICK c : Read(r, c)
        BY <3>2
      <4>2. request'[r].pending = request[r].pending \ {c}
        BY <4>1 DEF Read, RequestType, RequestStates
      <4>3. QED
        BY <4>2
    <3>3. CASE Conclude(r)
      BY <3>3 DEF Conclude, RequestType, NoRequest
    <3>4. QED
      BY <1>13, <3>1, <3>2, <3>3
  <2>5. UNCHANGED <<Notified, Observed>>
    BY <2>1 DEF Notified, Observed, framework
  <2>6. QED
    BY <2>1, <2>2, <2>3, <2>4, <2>5 DEF framework, dispatch
<1>14. CASE UNCHANGED vars
  BY <1>14 DEF vars, life, framework, dispatch, Notified, Observed, Unserved
<1>15. QED
  BY <1>1, <1>2, <1>3, <1>4, <1>5, <1>6, <1>7, <1>8, <1>9, <1>10, <1>11, <1>12, <1>13, <1>14
     DEF Next, Initialize, Deinitialize, Notify, Dispatch, Process

-----------------------------------------------------------------------------
\* No plugin escapes: what the job owes to the observees that are up.
LEMMA ProbedStep ==
  ASSUME LifeType, MapType, FrameworkType, JobType, Sheltered, StepInv, ProbedInv,
         [Next]_vars
  PROVE  ProbedInv'
<1>0. step \in 1..8
  BY DEF LifeType
<1>1. CASE UNCHANGED <<step, monitor, active, framework, dispatch>>
  BY <1>1 DEF ProbedInv, framework, dispatch, Observed
<1>2. CASE Configure \/ OpenEntry \/ Opened
  <2>1. step \in 1..2 /\ step' \in 1..3
    BY <1>0, <1>2, LifeSteps
  <2>2. UNCHANGED <<active, listening>>
    BY <1>2 DEF Configure, OpenEntry, Opened, framework
  <2>3. ~listening /\ active = {}
    BY <2>1 DEF StepInv, ProbedInv
  <2>4. QED
    BY <2>2, <2>3 DEF ProbedInv
<1>3. CASE Register
  <2>1. step = 3 /\ step' = 3 /\ ~listening /\ listening'
    BY <1>0, <1>3, LifeSteps DEF Register
  <2>2. active = {} /\ Notified = {}
    BY <2>1 DEF StepInv, ProbedInv
  <2>3. UNCHANGED <<monitor, active, plugin, job, todo, found>>
        /\ reports' = {c \in Callsigns : plugin[c] = "up"}
    BY <1>3 DEF Register, dispatch
  <2>4. \A c \in Observed : plugin[c] # "activated"
    BY <2>2 DEF Notified, MapType
  <2>5. QED
    BY <2>1, <2>2, <2>3, <2>4 DEF ProbedInv, MapType, Observed
<1>4. CASE Registered \/ RegisterAll \/ UnregisterAll
  <2>1. step \in 3..5
    BY <1>0, <1>4, LifeSteps
  <2>2. UNCHANGED <<monitor, active, framework, dispatch>> /\ step' \in 4..6
    BY <1>0, <1>4, LifeSteps DEF Registered, RegisterAll, UnregisterAll
  <2>3. QED
    BY <2>2 DEF ProbedInv, framework, dispatch, Observed
<1>5. CASE Unregister \/ Revoke
  <2>1. step' \in 7..8 /\ step \in 6..7
    BY <1>0, <1>5, LifeSteps
  <2>2. ~listening'
    <3>1. Revoke => step = 7 /\ listening' = listening
      BY <1>0, LifeSteps DEF Revoke, framework
    <3>2. step = 7 => ~listening
      BY DEF StepInv
    <3>3. Unregister => ~listening'
      BY DEF Unregister
    <3>4. QED
      BY <1>5, <3>1, <3>2, <3>3
  <2>3. QED
    BY <2>1, <2>2 DEF ProbedInv
<1>6. CASE Clear
  <2>1. step = 8 /\ ~listening
    BY <1>0, <1>6, LifeSteps DEF StepInv
  <2>2. active' = {} /\ ~listening'
    BY <1>6, <2>1 DEF Clear, framework
  <2>3. QED
    BY <2>2 DEF ProbedInv
<1>7. ASSUME NEW c \in Callsigns, ComeUp(c) \/ Report(c)
      PROVE  ProbedInv'
  <2>1. UNCHANGED <<step, monitor, listening, job, todo, found>> /\ reports' \subseteq reports
        /\ reports \ {c} \subseteq reports'
    BY <1>7 DEF ComeUp, Report, life, dispatch
  <2>2. CASE ~listening
    <3>1. reports = {}
      BY <2>2 DEF StepInv
    <3>2. active' = active
      BY <1>7, <2>2, <3>1 DEF ComeUp, Report
    <3>3. QED
      BY <2>1, <2>2, <3>2 DEF ProbedInv
  <2>3. CASE listening
    <3>1. Activated(c)
      BY <1>7, <2>3 DEF ComeUp, Report
    <3>2. \A d \in Callsigns \ {c} :
            /\ plugin'[d] = plugin[d]
            /\ d \in active' <=> d \in active
            /\ d \in reports' <=> d \in reports
      BY <2>1, <3>1 DEF Activated, FrameworkType
    <3>3. c \in Observed => plugin'[c] = "activated" /\ c \in active'
      BY <3>1 DEF Activated, FrameworkType
    <3>4. QED
      BY <2>1, <2>3, <3>2, <3>3 DEF ProbedInv, MapType, Observed
  <2>4. QED
    BY <2>2, <2>3 DEF FrameworkType
<1>8. ASSUME NEW c \in Callsigns, StartProbing(c)
      PROVE  ProbedInv'
  <2>1. /\ UNCHANGED <<step, monitor, active, listening, reports, todo, found>>
        /\ plugin[c] = "activated" /\ plugin' = [plugin EXCEPT ![c] = "up"] /\ Submit
    BY <1>8 DEF StartProbing, life
  <2>2. listening /\ c \in Observed
    BY <2>1 DEF StepInv, Notified, Sheltered
  <2>3. c \in active
    BY <2>1, <2>2 DEF ProbedInv
  <2>4. job' \in {"queued", "again"}
    BY <2>1 DEF Submit, JobType
  <2>5. \A d \in Observed :
          /\ plugin[d] = "down" => d \notin active
          /\ plugin[d] = "activated" \/ (plugin[d] = "up" /\ d \notin reports) => d \in active
    BY <2>2 DEF ProbedInv
  <2>6. \A d \in Observed \ {c} : plugin'[d] = plugin[d]
    BY <2>1 DEF FrameworkType, MapType
  <2>7. plugin'[c] = "up"
    BY <2>1 DEF FrameworkType
  <2>8. QED
    BY <2>1, <2>2, <2>3, <2>4, <2>5, <2>6, <2>7 DEF ProbedInv, Observed
<1>9. ASSUME NEW c \in Callsigns, GoDown(c)
      PROVE  ProbedInv'
  <2>1. /\ UNCHANGED <<step, monitor, active, listening, reports, job, todo, found>>
        /\ plugin' = [plugin EXCEPT ![c] =
             IF listening /\ c \in Observed THEN "deinitialized" ELSE "down"]
    BY <1>9 DEF GoDown, life, dispatch
  <2>2. \A d \in Callsigns \ {c} : plugin'[d] = plugin[d]
    BY <2>1 DEF FrameworkType
  <2>3. listening /\ c \in Observed => plugin'[c] = "deinitialized"
    BY <2>1 DEF FrameworkType
  <2>4. QED
    BY <2>1, <2>2, <2>3 DEF ProbedInv, MapType, Observed
<1>10. ASSUME NEW c \in Callsigns, SetInactive(c)
       PROVE  ProbedInv'
  <2>1. /\ UNCHANGED <<step, monitor, listening, reports, job, todo, found>>
        /\ active' = active \ {c}
        /\ plugin' = [plugin EXCEPT ![c] = "down"]
    BY <1>10 DEF SetInactive, life, dispatch
  <2>2. /\ \A d \in Callsigns \ {c} : plugin'[d] = plugin[d]
        /\ plugin'[c] = "down"
    BY <2>1 DEF FrameworkType
  <2>3. QED
    BY <2>1, <2>2 DEF ProbedInv, MapType, Observed
<1>11. CASE BeginPass
  BY <1>11 DEF BeginPass, ProbedInv, life, framework, Observed
<1>12. ASSUME NEW c \in todo, Visit(c)
       PROVE  ProbedInv'
  <2>1. /\ UNCHANGED <<step, monitor, active, listening, reports, plugin, job>>
        /\ todo' = todo \ {c} /\ found' = (found \/ c \in active)
    BY <1>12 DEF Visit, life, framework
  <2>2. ASSUME listening, NEW d \in Observed, plugin[d] = "up", d \notin reports
        PROVE  job \in {"queued", "again"} \/ (job = "running" /\ (found' \/ d \in todo'))
    <3>1. d \in active
      BY <2>2 DEF ProbedInv
    <3>2. job \in {"queued", "again"} \/ (job = "running" /\ (found \/ d \in todo))
      BY <2>2 DEF ProbedInv
    <3>3. CASE d = c
      BY <2>1, <3>1, <3>2, <3>3
    <3>4. CASE d # c
      BY <2>1, <3>2, <3>4
    <3>5. QED
      BY <3>3, <3>4
  <2>3. QED
    BY <2>1, <2>2 DEF ProbedInv, Observed
<1>13. CASE FinishPass \/ EndPass
  <2>1. /\ UNCHANGED <<step, monitor, active, listening, reports, plugin>>
        /\ todo = {} /\ (found \/ job = "again" => job' \in {"again", "queued"})
    BY <1>13 DEF FinishPass, EndPass, life, framework
  <2>2. ASSUME listening, NEW d \in Observed, plugin[d] = "up", d \notin reports
        PROVE  job' \in {"again", "queued"}
    <3>1. job \in {"queued", "again"} \/ (job = "running" /\ (found \/ d \in todo))
      BY <2>2 DEF ProbedInv
    <3>2. job # "queued"
      BY <1>13 DEF FinishPass, EndPass, Running
    <3>3. QED
      BY <2>1, <3>1, <3>2
  <2>3. QED
    BY <2>1, <2>2 DEF ProbedInv, Observed
<1>14. ASSUME NEW r \in Requests, Process(r)
       PROVE  ProbedInv'
  <2>1. UNCHANGED <<step, monitor, active, framework, dispatch>>
    BY <1>14 DEF Process, Serve, Read, Conclude, life
  <2>2. QED
    BY <1>1, <2>1
<1>15. CASE UNCHANGED vars
  BY <1>1, <1>15 DEF vars, life
<1>16. QED
  BY <1>2, <1>3, <1>4, <1>5, <1>6, <1>7, <1>8, <1>9, <1>10, <1>11, <1>12, <1>13, <1>14, <1>15
     DEF Next, Initialize, Deinitialize, Notify, Dispatch

-----------------------------------------------------------------------------
\* No sample is lost.  The conjuncts of SamplesInv one by one:
Disjoint == \A c, d \in Callsigns : c # d => samples[c] \cap samples[d] = {}
Kept(s) == \E c \in Callsigns : s \in samples[c]
Accounted == \A s \in 1..taken : Kept(s) <=> s \notin answered \cup raced
ResetsInv == \A r \in Requests : ResetInv(r)

LEMMA Samples == SamplesInv <=> Disjoint /\ Accounted /\ ResetsInv
BY DEF SamplesInv, SamplesAccounted, Disjoint, Accounted, Kept, ResetsInv

\* A sample is added to the statistics of one observee ...
LEMMA SampleKeepsSamples ==
  ASSUME MapType, SampleType, RequestType, Disjoint, Accounted, ResetsInv,
         NEW c \in Callsigns, Sample(c), UNCHANGED <<monitor, answered, raced>>
  PROVE  Disjoint' /\ Accounted' /\ ResetsInv'
<1>1. taken' = taken + 1 /\ taken \in Nat
  BY DEF Sample, SampleType
<1>2. /\ samples'[c] = samples[c] \cup {taken'}
      /\ \A d \in Callsigns \ {c} : samples'[d] = samples[d]
  BY DEF Sample, SampleType
<1>3. /\ \A d \in Callsigns : taken' \notin samples[d]
      /\ taken' \notin answered \cup raced
      /\ \A r \in Requests : taken' \notin request[r].told
  BY <1>1 DEF SampleType, RequestType, RequestStates
<1>4. Disjoint'
  BY <1>2, <1>3 DEF Disjoint
<1>5. Accounted'
  <2>1. ASSUME NEW s \in 1..taken
        PROVE  Kept(s)' <=> Kept(s)
    BY <1>1, <1>2, <2>1 DEF Kept
  <2>2. \E d \in Callsigns : taken' \in samples'[d]
    BY <1>2
  <2>3. \A s \in 1..taken' : s \in 1..taken \/ s = taken'
    BY <1>1
  <2>4. QED
    BY <1>3, <2>1, <2>2, <2>3 DEF Accounted, Kept
<1>6. ASSUME NEW r \in Requests
      PROVE  ResetInv(r)'
  <2>1. /\ request'[r].op = request[r].op
        /\ request'[r].name = request[r].name
        /\ request'[r].pending = request[r].pending
        /\ request'[r].answer = request[r].answer
        /\ request'[r].told = request[r].told
        /\ request[r].op = "reset" => request'[r].since = request[r].since \cup {taken'}
    BY DEF Sample, RequestType, RequestStates
  <2>2. SUFFICES ASSUME request'[r].op = "reset", request'[r].name \in Observed'
                 PROVE  ResetInv(r)'
    BY DEF ResetInv
  <2> DEFINE name == request[r].name
  <2>3. request[r].op = "reset" /\ name \in Observed /\ name \in Callsigns
    BY <2>1, <2>2 DEF Observed, MapType
  <2>4. CASE /\ request[r].pending = {name}
             /\ request[r].answer = {} /\ request[r].told = {}
    BY <2>1, <2>4 DEF ResetInv
  <2>5. CASE /\ request[r].pending = {} /\ request[r].answer = {name}
             /\ samples[name] \subseteq request[r].told \cup request[r].since
             /\ \A d \in Callsigns \ {name} : samples[d] \cap request[r].told = {}
    <3>1. samples'[name] \subseteq request'[r].told \cup request'[r].since
      BY <1>2, <2>1, <2>3, <2>5
    <3>2. \A d \in Callsigns \ {name} : samples'[d] \cap request'[r].told = {}
      BY <1>2, <1>3, <2>1, <2>5
    <3>3. QED
      BY <2>1, <2>5, <3>1, <3>2 DEF ResetInv
  <2>6. QED
    BY <2>3, <2>4, <2>5 DEF ResetsInv, ResetInv
<1>7. QED
  BY <1>4, <1>5, <1>6 DEF ResetsInv

\* ... read ...
LEMMA ReadKeepsSamples ==
  ASSUME MapType, SampleType, RequestType, Disjoint, ResetsInv,
         NEW r \in Requests, NEW c \in request[r].pending, Read(r, c)
  PROVE  ResetsInv'
<1>1. UNCHANGED <<monitor, samples>> /\ request[r] \in RequestStates(taken)
  BY DEF Read, history, RequestType
<1>2. /\ \A q \in Requests \ {r} : request'[q] = request[q]
      /\ request'[r] = [request[r] EXCEPT
           !.pending = @ \ {c},
           !.answer = IF request[r].op = "reset" THEN @ \cup {c} ELSE @,
           !.told = IF request[r].op = "reset" THEN @ \cup samples[c] ELSE @]
  BY <1>1 DEF Read, RequestType, RequestStates
<1>3. \A q \in Requests \ {r} : ResetInv(q)'
  BY <1>1, <1>2 DEF ResetsInv, ResetInv, Observed
<1>4. ResetInv(r)'
  <2>1. SUFFICES ASSUME request'[r].op = "reset", request'[r].name \in Observed'
                 PROVE  ResetInv(r)'
    BY DEF ResetInv
  <2> DEFINE name == request[r].name
  <2>2. /\ request[r].op = "reset" /\ request'[r].name = name
        /\ name \in Observed /\ name \in Callsigns
    BY <1>1, <1>2, <2>1 DEF RequestStates, Observed, MapType
  <2>3. /\ request[r].pending = {name} /\ request[r].answer = {}
        /\ request[r].told = {} /\ c = name
    BY <2>2 DEF ResetsInv, ResetInv
  <2>4. /\ request'[r].pending = {} /\ request'[r].answer = {name}
        /\ request'[r].told = samples[name]
    BY <1>1, <1>2, <2>2, <2>3 DEF RequestStates
  <2>5. \A d \in Callsigns \ {name} : samples[d] \cap samples[name] = {}
    BY <2>2 DEF Disjoint
  <2>6. QED
    BY <1>1, <2>2, <2>4, <2>5 DEF ResetInv
<1>5. QED
  BY <1>3, <1>4 DEF ResetsInv

\* ... and answered, before the statistics are reset.
LEMMA ConcludeKeepsSamples ==
  ASSUME MapType, SampleType, RequestType, Disjoint, Accounted, ResetsInv,
         NEW r \in Requests, Conclude(r)
  PROVE  Disjoint' /\ Accounted' /\ ResetsInv'
<1> DEFINE name == request[r].name
<1>1. /\ UNCHANGED <<monitor, taken>>
      /\ request' = [request EXCEPT ![r] = NoRequest]
  BY DEF Conclude
<1>2. /\ \A q \in Requests \ {r} : request'[q] = request[q]
      /\ request'[r].op = "none"
  BY <1>1 DEF RequestType, NoRequest
<1>3. CASE Resets(r) /\ name \in Observed
  <2>1. /\ samples' = [samples EXCEPT ![name] = {}]
        /\ answered' = answered \cup request[r].told
        /\ raced' = raced \cup ((samples[name] \cap request[r].since) \ request[r].told)
    BY <1>3 DEF Conclude, ResetSamples
  <2>2. name \in Callsigns /\ request[r].op = "reset"
    BY <1>3 DEF MapType, Resets
  <2>3. /\ samples'[name] = {}
        /\ \A d \in Callsigns \ {name} : samples'[d] = samples[d]
    BY <2>1, <2>2 DEF SampleType
  <2>4. /\ samples[name] \subseteq request[r].told \cup request[r].since
        /\ \A d \in Callsigns \ {name} : samples[d] \cap request[r].told = {}
    <3>1. request[r].pending = {}
      BY DEF Conclude
    <3>2. QED
      BY <1>3, <2>2, <3>1 DEF ResetsInv, ResetInv
  <2>5. Disjoint'
    BY <2>3 DEF Disjoint
  <2>6. ASSUME NEW s \in 1..taken
        PROVE  Kept(s)' <=> s \notin answered' \cup raced'
    <3>1. Kept(s) <=> s \notin answered \cup raced
      BY DEF Accounted
    <3>2. CASE s \in samples[name]
      <4>1. ~Kept(s)'
        BY <2>2, <2>3, <3>2 DEF Kept, Disjoint
      <4>2. s \in answered' \cup raced'
        BY <2>1, <2>4, <3>2
      <4>3. QED
        BY <4>1, <4>2
    <3>3. CASE s \notin samples[name]
      <4>1. Kept(s)' <=> Kept(s)
        BY <2>2, <2>3, <3>3 DEF Kept
      <4>2. Kept(s) => s \notin answered' \cup raced'
        <5>1. Kept(s) => s \notin request[r].told
          BY <2>4, <3>3 DEF Kept
        <5>2. QED
          BY <2>1, <3>1, <3>3, <5>1
      <4>3. ~Kept(s) => s \in answered' \cup raced'
        BY <2>1, <3>1
      <4>4. QED
        BY <4>1, <4>2, <4>3
    <3>4. QED
      BY <3>2, <3>3
  <2>7. Accounted'
    BY <1>1, <2>6 DEF Accounted
  <2>8. ASSUME NEW q \in Requests
        PROVE  ResetInv(q)'
    <3>1. CASE q = r
      BY <1>2, <3>1 DEF ResetInv
    <3>2. CASE q # r
      <4>1. request'[q] = request[q] /\ Observed' = Observed
        BY <1>1, <1>2, <3>2 DEF Observed
      <4>2. \A d \in Callsigns : samples'[d] \subseteq samples[d]
        BY <2>3
      <4>3. QED
        BY <4>1, <4>2 DEF ResetsInv, ResetInv, MapType
    <3>3. QED
      BY <3>1, <3>2
  <2>9. QED
    BY <2>5, <2>7, <2>8 DEF ResetsInv
<1>4. CASE ~(Resets(r) /\ name \in Observed)
  <2>1. UNCHANGED <<samples, answered, raced>>
    BY <1>4 DEF Conclude
  <2>2. Disjoint' /\ Accounted'
    BY <1>1, <2>1 DEF Disjoint, Accounted, Kept
  <2>3. ResetsInv'
    BY <1>1, <1>2, <2>1 DEF ResetsInv, ResetInv, Observed
  <2>4. QED
    BY <2>2, <2>3
<1>5. QED
  BY <1>3, <1>4

LEMMA SamplesStep ==
  ASSUME LifeType, MapType, SampleType, RequestType, Sheltered, StepInv, SamplesInv,
         [Next]_vars
  PROVE  SamplesInv'
<1>0. step \in 1..8 /\ Disjoint /\ Accounted /\ ResetsInv
  BY Samples DEF LifeType
<1>1. CASE UNCHANGED <<monitor, samples, request, taken, answered, raced>>
  BY <1>1 DEF SamplesInv, SamplesAccounted, ResetInv, Observed
<1>2. CASE Unserved /\ UNCHANGED <<samples, request, taken, answered, raced>>
  <2>1. \A r \in Requests : request'[r].op = "none"
    BY <1>2 DEF Unserved, NoRequest
  <2>2. \A r \in Requests : ResetInv(r)'
    BY <2>1 DEF ResetInv
  <2>3. QED
    BY <1>2, <2>2 DEF SamplesInv, SamplesAccounted
<1>3. CASE OpenEntry
  <2>1. Unserved
    BY <1>0, <1>3, LifeSteps DEF Sheltered
  <2>2. QED
    BY <1>2, <1>3, <2>1 DEF OpenEntry, history
<1>4. CASE Clear
  <2>1. Unserved
    BY <1>0, <1>4, LifeSteps DEF Sheltered
  <2>2. /\ request' = request /\ taken' = 0
        /\ \A c \in Callsigns : samples'[c] = {}
    BY <1>4 DEF Clear
  <2>3. \A r \in Requests : request'[r].op = "none"
    BY <2>1, <2>2 DEF Unserved, NoRequest
  <2>4. Disjoint'
    BY <2>2 DEF Disjoint
  <2>5. Accounted'
    BY <2>2 DEF Accounted
  <2>6. ResetsInv'
    BY <2>3 DEF ResetsInv, ResetInv
  <2>7. QED
    BY <2>4, <2>5, <2>6, Samples, PTL
<1>5. ASSUME NEW c \in todo, Visit(c)
      PROVE  SamplesInv'
  <2>1. UNCHANGED <<monitor, answered, raced>>
    BY <1>5 DEF Visit
  <2>2. CASE Sample(c)
    <3>1. c \in Callsigns
      BY DEF Sheltered, MapType
    <3>2. Disjoint' /\ Accounted' /\ ResetsInv'
      BY <1>0, <2>1, <2>2, <3>1, SampleKeepsSamples
    <3>3. QED
      BY <3>2, Samples, PTL
  <2>3. CASE UNCHANGED <<taken, samples, request>>
    BY <1>1, <2>1, <2>3
  <2>4. QED
    BY <1>5, <2>2, <2>3 DEF Visit
<1>6. ASSUME NEW r \in Requests, Serve(r)
      PROVE  SamplesInv'
  <2>1. UNCHANGED <<monitor, samples, taken, answered, raced>>
    BY <1>6 DEF Serve, history
  <2>2. PICK name \in Callsigns \cup {Empty} :
          \/ request' = [request EXCEPT ![r] =
               [NoRequest EXCEPT !.op = "read", !.pending = Asked(name)]]
          \/ request' = [request EXCEPT ![r] =
               [NoRequest EXCEPT !.op = "reset", !.name = name, !.pending = Asked(name)]]
    BY <1>6 DEF Serve
  <2>3. \A q \in Requests \ {r} : ResetInv(q)'
    BY <1>0, <2>1, <2>2 DEF ResetsInv, ResetInv, RequestType, Observed
  <2>4. ResetInv(r)'
    <3>1. CASE request'[r] = [NoRequest EXCEPT !.op = "read", !.pending = Asked(name)]
      BY <3>1 DEF ResetInv, NoRequest
    <3>2. CASE request'[r] =
                 [NoRequest EXCEPT !.op = "reset", !.name = name, !.pending = Asked(name)]
      <4>1. /\ request'[r].name = name /\ request'[r].pending = Asked(name)
            /\ request'[r].answer = {} /\ request'[r].told = {}
        BY <3>2 DEF NoRequest
      <4>2. name \in Observed => Asked(name) = {name}
        BY EmptyAssumption DEF Asked, MapType
      <4>3. QED
        BY <2>1, <4>1, <4>2 DEF ResetInv, Observed
    <3>3. QED
      BY <2>2, <3>1, <3>2 DEF RequestType
  <2>5. QED
    BY <1>0, <2>1, <2>3, <2>4 DEF SamplesInv, SamplesAccounted, Disjoint, Accounted, Kept
<1>7. ASSUME NEW r \in Requests, NEW c \in request[r].pending, Read(r, c)
      PROVE  SamplesInv'
  <2>1. UNCHANGED <<samples, taken, answered, raced>>
    BY <1>7 DEF Read, history
  <2>2. ResetsInv'
    BY <1>0, <1>7, ReadKeepsSamples
  <2>3. QED
    BY <2>1, <2>2 DEF SamplesInv, SamplesAccounted, ResetsInv
<1>8. ASSUME NEW r \in Requests, Conclude(r)
      PROVE  SamplesInv'
  <2>1. Disjoint' /\ Accounted' /\ ResetsInv'
    BY <1>0, <1>8, ConcludeKeepsSamples
  <2>2. QED
    BY <2>1, Samples, PTL
<1>9. CASE Configure \/ Opened \/ Register \/ Registered \/ RegisterAll
  BY <1>1, <1>9 DEF Configure, Opened, Register, Registered, RegisterAll, history
<1>10. CASE UnregisterAll \/ Unregister \/ Revoke \/ BeginPass \/ FinishPass
              \/ EndPass
  BY <1>1, <1>10 DEF UnregisterAll, Unregister, Revoke, BeginPass, FinishPass, EndPass, history
<1>11. ASSUME NEW c \in Callsigns, Notify(c)
       PROVE  SamplesInv'
  BY <1>1, <1>11
     DEF Notify, ComeUp, Report, StartProbing, GoDown, SetInactive, history
<1>12. CASE UNCHANGED vars
  BY <1>1, <1>12 DEF vars, history
<1>13. QED
  BY <1>3, <1>4, <1>5, <1>6, <1>7, <1>8, <1>9, <1>10, <1>11, <1>12
     DEF Next, Initialize, Deinitialize, Dispatch, Process

-----------------------------------------------------------------------------
\* The conjuncts of LifecycleInv in the form the lemmas above use.
LEMMA Parts ==
  /\ LifecycleInv => /\ LifeType /\ MapType /\ FrameworkType /\ JobType
                     /\ SampleType /\ RequestType /\ Sheltered
  /\ TypeOK /\ Sheltered => MapNeedsNoLock
<1>1. TypeOK => step \in 1..8
  BY Types DEF LifeType
<1>2. TypeOK => (MapNeedsNoLock <=> Sheltered)
  BY <1>1, Shelter
<1>3. QED
  BY <1>2, Types DEF LifecycleInv

\* LifecycleInv is inductive.
LEMMA InvariantStep == LifecycleInv /\ [Next]_vars => LifecycleInv'
<1> SUFFICES ASSUME LifecycleInv, [Next]_vars
             PROVE  LifecycleInv'
  OBVIOUS
<1>1. /\ LifeType /\ MapType /\ FrameworkType /\ JobType
      /\ SampleType /\ RequestType /\ Sheltered
  BY Parts
<1>2. TypeOK /\ StepInv /\ ProbedInv /\ SamplesInv
  BY DEF LifecycleInv
<1>3. TypeOK'
  BY <1>2, TypeStep
<1>4. Sheltered' /\ StepInv'
  BY <1>1, <1>2, ShelterStep
<1>5. MapNeedsNoLock'
  BY <1>3, <1>4, Parts, PTL
<1>6. ProbedInv'
  BY <1>1, <1>2, ProbedStep
<1>7. SamplesInv'
  BY <1>1, <1>2, SamplesStep
<1>8. QED
  BY <1>3, <1>4, <1>5, <1>6, <1>7 DEF LifecycleInv

\* It holds at all times, whatever the plugins, configurations, threads and requests
\* (plugin/Monitor.cpp, Initialize and Deinitialize).
THEOREM InductiveInvariant == Spec => []LifecycleInv
BY InvariantStep, InitInv, PTL DEF Spec

\* Every variable keeps its type; of the map and the flags: only what is configured is
\* observed, and only what is observed is active.
THEOREM TypeCorrect == Spec => []TypeOK
<1>1. LifecycleInv => TypeOK
  BY DEF LifecycleInv
<1>2. QED
  BY <1>1, InductiveInvariant, PTL

\* Nobody uses _monitor while Open fills it or Close clears it, and nobody holds an
\* iterator on an observee that is gone (plugin/Monitor.h, lines 703 to 754).
THEOREM MapIsSafe == Spec => []MapNeedsNoLock
<1>1. LifecycleInv => MapNeedsNoLock
  BY DEF LifecycleInv
<1>2. QED
  BY <1>1, InductiveInvariant, PTL

\* Every observee that is up is active and will be visited, whether it came up before,
\* during or after Initialize (plugin/Monitor.h, Activated and Dispatch).
THEOREM NoPluginEscapes == Spec => []UpIsProbed
<1>1. ASSUME LifecycleInv
      PROVE  UpIsProbed
  <2>1. ProbedInv
    BY <1>1 DEF LifecycleInv
  <2>2. ASSUME listening, reports = {}, NEW c \in Observed
        PROVE  /\ plugin[c] = "up" => c \in active /\ job # "idle"
               /\ plugin[c] = "down" => c \notin active
    BY <2>1, <2>2 DEF ProbedInv
  <2>3. QED
    BY <2>2 DEF UpIsProbed
<1>2. QED
  BY <1>1, InductiveInvariant, PTL

\* Each sample is in the statistics or has been answered by the request that reset
\* them, unless it came while that request was served (MonitorJsonRpc.cpp, line 65).
THEOREM NoSampleIsLost == Spec => []SamplesAccounted
<1>1. LifecycleInv => SamplesAccounted
  BY DEF LifecycleInv, SamplesInv
<1>2. QED
  BY <1>1, InductiveInvariant, PTL

-----------------------------------------------------------------------------
\* What Open makes of the configuration.  The map starts empty, and whatever is in it
\* stems from an entry Open has seen.
OpenInv ==
  /\ step = 1 => Observed = {}
  /\ step # 1 => \A c \in Observed : \E j \in 1..index : config[j].callsign = c
  /\ ObservedAsConfigured

\* An interval that fits a word is converted without loss.
LEMMA Conversion ==
  ASSUME NEW e, e.operational \in Int, e.memory \in Nat,
         NEW sign, sign = IF e.operational < 0 THEN -1 ELSE 1,
         sign * e.operational * MicrosPerSecond < WordModulus,
         e.memory * MicrosPerSecond < WordModulus
  PROVE  /\ Settings(e).operational = sign * e.operational * MicrosPerSecond
         /\ Settings(e).memory = e.memory * MicrosPerSecond
         /\ Micros(Seconds(e.operational)) = sign * e.operational * MicrosPerSecond
         /\ Micros(e.memory) = e.memory * MicrosPerSecond
         /\ sign * e.operational * MicrosPerSecond \in Nat
         /\ e.memory * MicrosPerSecond \in Nat
<1>1. \A x \in Nat : x < WordModulus => x % WordModulus = x
  BY WidthAssumption
<1>2. \A x \in Nat : x * MicrosPerSecond \in Nat
  BY WidthAssumption
<1>3. Seconds(e.operational) = sign * e.operational /\ sign * e.operational \in Nat
  BY DEF Seconds
<1>4. Micros(Seconds(e.operational)) = sign * e.operational * MicrosPerSecond
  BY <1>1, <1>2, <1>3 DEF Micros
<1>5. Micros(e.memory) = e.memory * MicrosPerSecond
  BY <1>1, <1>2 DEF Micros
<1>6. /\ Settings(e).operational = Micros(Seconds(e.operational))
      /\ Settings(e).memory = Micros(e.memory)
  BY DEF Settings
<1>7. QED
  BY <1>2, <1>3, <1>4, <1>5, <1>6

LEMMA OpenStep ==
  ASSUME LifeType, OpenInv, [Next]_vars
  PROVE  OpenInv'
<1>0. step \in 1..8 /\ index \in Nat
  BY DEF LifeType
<1>1. CASE UNCHANGED <<step, config, index, monitor>>
  BY <1>1 DEF OpenInv, ObservedAsConfigured, At, Observed
<1>2. CASE Configure
  <2>1. step = 1 /\ step' = 2 /\ index' = 0 /\ monitor' = monitor
    BY <1>0, <1>2, LifeSteps DEF Configure
  <2>2. Observed' = {}
    BY <2>1 DEF OpenInv, Observed
  <2>3. ObservedAsConfigured'
    BY <2>1 DEF ObservedAsConfigured
  <2>4. QED
    BY <2>1, <2>2, <2>3 DEF OpenInv
<1>3. CASE OpenEntry
  <2> DEFINE e == config[index']
  <2>1. step = 2 /\ step' = 2 /\ config' = config /\ index' = index + 1
    BY <1>0, <1>3, LifeSteps DEF OpenEntry
  <2>2. config \in Configs /\ index' \in 1..Len(config)
    BY <1>3 DEF OpenEntry, LifeType
  <2>3. e.callsign \in Callsigns /\ e.operational \in Int /\ e.memory \in Nat
    BY <2>2, EntriesAssumption DEF Entry
  <2>4. ~At("configure") /\ ~At("configure")'
    BY <1>0, <2>1, Calls DEF At
  <2>5. /\ Emplaced(e) => /\ Observed' = Observed \cup {e.callsign}
                          /\ monitor'[e.callsign] = Settings(e)
                          /\ e.callsign \notin Observed
        /\ ~Emplaced(e) => monitor' = monitor
        /\ \A c \in Observed : c \in Observed' /\ monitor'[c] = monitor[c]
    BY <1>3 DEF OpenEntry, Emplaced, Observed
  <2>6. \A c \in Observed' : \E j \in 1..index' : config'[j].callsign = c
    <3>1. \A c \in Observed : \E j \in 1..index : config[j].callsign = c
      BY <2>1 DEF OpenInv
    <3>2. \A c \in Observed' : c \in Observed \/ c = e.callsign
      BY <2>5 DEF Observed
    <3>3. index' \in 1..index' /\ 1..index \subseteq 1..index'
      BY <1>0, <2>1
    <3>4. QED
      BY <2>1, <3>1, <3>2, <3>3
  <2>7. ASSUME NEW i \in 1..index',
               NEW sign, sign = IF config[i].operational < 0 THEN -1 ELSE 1,
               sign * config[i].operational * MicrosPerSecond < WordModulus,
               config[i].memory * MicrosPerSecond < WordModulus,
               sign * config[i].operational * MicrosPerSecond
                 + config[i].memory * MicrosPerSecond > 0,
               \A j \in 1..(i - 1) : config[j].callsign # config[i].callsign
        PROVE  LET c == config[i].callsign
               IN  /\ c \in Observed'
                   /\ monitor'[c].operational
                        = sign * config[i].operational * MicrosPerSecond
                   /\ monitor'[c].memory = config[i].memory * MicrosPerSecond
    <3>1. CASE i \in 1..index
      <4> DEFINE c == config[i].callsign
      <4>1. /\ c \in Observed
            /\ monitor[c].operational = sign * config[i].operational * MicrosPerSecond
            /\ monitor[c].memory = config[i].memory * MicrosPerSecond
        BY <2>4, <2>7, <3>1 DEF OpenInv, ObservedAsConfigured
      <4>2. QED
        BY <2>5, <4>1
    <3>2. CASE i = index'
      <4>1. 1..(i - 1) = 1..index
        BY <1>0, <2>1, <3>2
      <4>2. e.callsign \notin Observed
        BY <2>1, <2>7, <3>2, <4>1 DEF OpenInv
      <4>3. /\ Settings(e).operational = sign * e.operational * MicrosPerSecond
            /\ Settings(e).memory = e.memory * MicrosPerSecond
            /\ Micros(Seconds(e.operational)) = sign * e.operational * MicrosPerSecond
            /\ Micros(e.memory) = e.memory * MicrosPerSecond
            /\ sign * e.operational * MicrosPerSecond \in Nat
            /\ e.memory * MicrosPerSecond \in Nat
        BY <2>3, <2>7, <3>2, Conversion
      <4>4. Emplaced(e)
        BY <2>7, <3>2, <4>2, <4>3 DEF Emplaced
      <4>5. QED
        BY <2>5, <3>2, <4>3, <4>4
    <3>3. QED
      BY <1>0, <2>1, <3>1, <3>2
  <2>8. ObservedAsConfigured'
    BY <2>1, <2>4, <2>7 DEF ObservedAsConfigured
  <2>9. QED
    BY <2>1, <2>6, <2>8 DEF OpenInv
<1>4. CASE Clear
  <2>1. step' = 1 /\ Observed' = {}
    BY <1>0, <1>4, LifeSteps, NothingType DEF Clear, Observed
  <2>2. At("configure")'
    BY <2>1, Calls DEF At, Order
  <2>3. QED
    BY <2>1, <2>2 DEF OpenInv, ObservedAsConfigured
<1>5. CASE Opened \/ Registered \/ RegisterAll \/ UnregisterAll \/ Unregister \/ Revoke
  <2>1. step \in 2..7 /\ step' \in 2..8
    BY <1>0, <1>5, LifeSteps
  <2>2. UNCHANGED <<config, index, monitor>>
    BY <1>5 DEF Opened, Registered, RegisterAll, UnregisterAll, Unregister, Revoke
  <2>3. ~At("configure")
    BY <1>0, <2>1, Calls
  <2>4. ObservedAsConfigured'
    BY <2>2, <2>3 DEF OpenInv, ObservedAsConfigured, Observed
  <2>5. QED
    BY <2>1, <2>2, <2>4 DEF OpenInv, Observed
<1>6. CASE Register \/ Dispatch \/ (\E c \in Callsigns : Notify(c))
           \/ (\E r \in Requests : Process(r)) \/ UNCHANGED vars
  <2>1. UNCHANGED <<step, config, index, monitor>>
    BY <1>6 DEF Register, Dispatch, BeginPass, Visit, FinishPass, EndPass, Notify, ComeUp,
       Report, StartProbing, GoDown, SetInactive, Process, Serve, Read, Conclude, vars, life
  <2>2. QED
    BY <1>1, <2>1
<1>7. QED
  BY <1>2, <1>3, <1>4, <1>5, <1>6 DEF Next, Initialize, Deinitialize

\* Whatever the observables and the widths of the words: an entry whose microseconds fit
\* is observed at the intervals configured (plugin/Monitor.h, lines 703 to 744).
THEOREM IntervalsAsConfigured == Spec => []ObservedAsConfigured
<1>1. Init => OpenInv
  <2> SUFFICES ASSUME Init PROVE OpenInv
    OBVIOUS
  <2>1. step = 1 /\ Observed = {} /\ index = 0
    BY NothingType DEF Init, Observed
  <2>2. QED
    BY <2>1 DEF OpenInv, ObservedAsConfigured
<1>2. LifecycleInv => LifeType
  BY Parts
<1>3. LifecycleInv /\ OpenInv /\ [Next]_vars => OpenInv'
  BY <1>2, OpenStep
<1>4. OpenInv => ObservedAsConfigured
  BY DEF OpenInv
<1>5. QED
  BY <1>1, <1>3, <1>4, InductiveInvariant, PTL DEF Spec

-----------------------------------------------------------------------------
\* The settings of an observee: words, not both 0, and their greatest common divisor.
Sound(o) ==
  /\ o.operational \in 0..(WordModulus - 1) /\ o.memory \in 0..(WordModulus - 1)
  /\ o.operational # 0 \/ o.memory # 0
  /\ IsGcd(o.interval, o.operational, o.memory)

\* What Open emplaces is sound, whether its intervals wrap or not.
LEMMA EmplacedSound ==
  ASSUME NEW e, e.operational \in Int, e.memory \in Nat, Emplaced(e)
  PROVE  Sound(Settings(e))
<1> DEFINE operational == Micros(Seconds(e.operational))
           memory == Micros(e.memory)
<1>1. \A x \in Nat : Micros(x) \in 0..(WordModulus - 1)
  <2>1. \A x \in Nat : x * MicrosPerSecond \in Int
    BY WidthAssumption
  <2>2. QED
    BY <2>1, WidthAssumption DEF Micros
<1>2. Seconds(e.operational) \in Nat
  BY DEF Seconds
<1>3. operational \in 0..(WordModulus - 1) /\ memory \in 0..(WordModulus - 1)
  BY <1>1, <1>2
<1>4. operational # 0 \/ memory # 0
  BY DEF Emplaced
<1>5. /\ Settings(e).operational = operational /\ Settings(e).memory = memory
      /\ Settings(e).interval = gcd[<<operational, memory>>]
  BY DEF Settings
<1> HIDE DEF operational, memory
<1>6. IsGcd(gcd[<<operational, memory>>], operational, memory)
  BY <1>3, <1>4, WidthAssumption, GcdCorrect
<1>7. QED
  BY <1>3, <1>4, <1>5, <1>6 DEF Sound

LEMMA SoundStep ==
  ASSUME LifeType, IntervalsAreSound, [Next]_vars
  PROVE  IntervalsAreSound'
<1>1. \A c \in Observed : Sound(monitor[c])
  BY DEF IntervalsAreSound, Sound
<1>2. SUFFICES \A c \in Observed' : Sound(monitor'[c])
  BY DEF IntervalsAreSound, Sound
<1>3. CASE UNCHANGED monitor
  BY <1>1, <1>3 DEF Observed
<1>4. CASE OpenEntry
  <2> DEFINE e == config[index']
  <2>1. e.operational \in Int /\ e.memory \in Nat
    BY <1>4, EntriesAssumption DEF OpenEntry, LifeType, Entry
  <2>2. CASE Emplaced(e)
    <3>1. Sound(Settings(e))
      BY <2>1, <2>2, EmplacedSound
    <3>2. monitor' = [c \in Observed \cup {e.callsign} |->
                        IF c = e.callsign THEN Settings(e) ELSE monitor[c]]
      BY <1>4, <2>2 DEF OpenEntry
    <3>3. ASSUME NEW c \in Observed'
          PROVE  Sound(monitor'[c])
      <4>1. c \in Observed \cup {e.callsign}
        BY <3>2 DEF Observed
      <4>2. monitor'[c] = IF c = e.callsign THEN Settings(e) ELSE monitor[c]
        BY <3>2, <4>1
      <4>3. QED
        BY <1>1, <3>1, <4>1, <4>2
    <3>4. QED
      BY <3>3
  <2>3. CASE ~Emplaced(e)
    BY <1>3, <1>4, <2>3 DEF OpenEntry
  <2>4. QED
    BY <2>2, <2>3
<1>5. CASE Clear
  BY <1>5, NothingType DEF Clear, Observed
<1>6. QED
  BY <1>3, <1>4, <1>5 DEF Next, Initialize, Deinitialize, Configure, Opened, Register,
     Registered, RegisterAll, UnregisterAll, Unregister, Revoke, Dispatch, BeginPass, Visit,
     FinishPass, EndPass, Notify, ComeUp, Report, StartProbing, GoDown, SetInactive, Process,
     Serve, Read, Conclude, vars

\* Whatever is configured, Open makes only observees ProbeLoop can work with: what it
\* assumes of their intervals holds (plugin/Monitor.h, lines 32 and 703 to 744).
THEOREM ObserveesAreSound == Spec => []IntervalsAreSound
<1>1. Init => IntervalsAreSound
  BY NothingType DEF Init, Observed, IntervalsAreSound
<1>2. LifecycleInv => LifeType
  BY Parts
<1>3. QED
  BY <1>1, <1>2, SoundStep, InductiveInvariant, PTL DEF Spec
=============================================================================
