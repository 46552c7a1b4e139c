-------------------------- MODULE MonitorLifecycle --------------------------
(***************************************************************************)
(* The life of the map _monitor (plugin/Monitor.h, Monitor.cpp): Initialize *)
(* fills it from the configuration, Deinitialize clears it, and in between  *)
(* the probe job iterates over it, notifications look plugins up in it and  *)
(* requests read and reset what it holds.  No lock guards the map: only the *)
(* order of the calls does.  What a pass and the throttle decide is in      *)
(* ProbeLoop and RestartThrottle, the data of one observee in Observee.     *)
(***************************************************************************)
EXTENDS Integers, Sequences, Euclid

CONSTANTS
  Callsigns,        \* plugins that may be configured, asked for, or come up
  Empty,            \* the empty callsign
  Configs,          \* sequences of entries "observables" may hold
  Requests,         \* threads that serve requests
  MicrosPerSecond,  \* 1000 * 1000
  WordModulus,      \* 2^32: intervals are uint32_t
  MaxSamples        \* bound on the samples taken before the monitor is deactivated

\* What one of "observables" says: intervals in seconds; a negative number means that
\* the plugin is not to be restarted.  "memorylimit" is a threshold, which is not modelled,
\* and "restart" is what RestartThrottle takes from its Configs.
Entry == [callsign : Callsigns, operational : Int, memory : Nat]

ASSUME EntriesAssumption ==
  \A entries \in Configs : \A i \in 1..Len(entries) : entries[i] \in Entry
ASSUME EmptyAssumption == Empty \notin Callsigns
ASSUME WidthAssumption == MicrosPerSecond \in Nat \ {0} /\ WordModulus \in Nat \ {0}

\* Mutants of Order: the observees are cleared before the job is revoked; the job
\* is revoked before the notifications end; notifications begin before Open.
ClearsFirst ==
  <<"configure", "open", "register", "registerAll",
    "unregisterAll", "unregister", "clear", "revoke">>
RevokesFirst ==
  <<"configure", "open", "register", "registerAll",
    "unregisterAll", "revoke", "unregister", "clear">>
RegistersFirst ==
  <<"configure", "register", "open", "registerAll",
    "unregisterAll", "unregister", "revoke", "clear">>

\* The calls of Initialize, then those of Deinitialize; Close is the last two.
Order ==
  <<"configure", "open", "register", "registerAll",
    "unregisterAll", "unregister", "revoke", "clear">>

VARIABLES
  step,       \* which of these calls is in progress, or comes next
  config,     \* _config.Observables
  index,      \* how many of them Open has seen
  monitor,    \* _monitor: the settings of each observee
  active,     \* the observees whose _active is set
  samples,    \* the samples in the statistics of each plugin
  (* the framework *)
  listening,  \* whether &_monitor is registered for notifications
  reports,    \* active plugins that Register still has to report
  plugin,     \* what state each is in, with the notification in progress
  job,        \* _job; "again": submitted while it runs
  (* Dispatch *)
  todo,       \* observees its iterator has not reached
  found,      \* whether it has found an active one
  request,    \* what each thread that serves requests is at
  (* history *)
  taken,      \* the number of samples taken
  answered,   \* samples that were answered by the request that reset them
  raced       \* samples that a reset removed and that came while it was served

life == <<step, config, index>>
framework == <<listening, reports, plugin>>
dispatch == <<job, todo, found>>
history == <<taken, answered, raced>>
vars == <<life, monitor, active, samples, framework, dispatch, request, history>>

Observed == DOMAIN monitor
Nothing == [c \in {} |-> 0]
NoRequest == [op |-> "none", name |-> Empty, pending |-> {}, answer |-> {}, told |-> {},
              since |-> {}]

Init ==
  /\ step = 1 /\ config = <<>> /\ index = 0
  /\ monitor = Nothing /\ active = {}
  /\ samples = [c \in Callsigns |-> {}]
  /\ listening = FALSE /\ reports = {}
  /\ plugin = [c \in Callsigns |-> "down"]
  /\ job = "idle" /\ todo = {} /\ found = FALSE
  /\ request = [r \in Requests |-> NoRequest]
  /\ taken = 0 /\ answered = {} /\ raced = {}

At(call) == Order[step] = call
Advance == step' = 1 + (step % Len(Order))

\* Core::WorkerPool::JobType::Submit: never queued twice, run once more if running.
Submit ==
  job' = IF job = "idle" THEN "queued" ELSE IF job = "running" THEN "again" ELSE job

Notified == {c \in Callsigns : plugin[c] \in {"activated", "deinitialized"}}
Unserved == \A r \in Requests : request[r] = NoRequest

-----------------------------------------------------------------------------
(* Initialize: read the configuration, Open, Register, RegisterAll.         *)

Configure ==
  /\ At("configure")
  /\ config' \in Configs /\ index' = 0
  /\ Advance
  /\ UNCHANGED <<monitor, active, samples, framework, dispatch, request, history>>

\* Mutant of Seconds: without abs, a negative number is converted as it is.
SecondsSigned(operational) == operational

\* abs(): of the smallest int, what it returns becomes 2^31 as a uint32_t.
Seconds(operational) == IF operational < 0 THEN -operational ELSE operational

\* Seconds to microseconds, in 32 bits.
Micros(seconds) == (seconds * MicrosPerSecond) % WordModulus

\* Mutant of Settings: the observee is visited at the shorter of its intervals.
SettingsShortest(e) ==
  LET operational == Micros(Seconds(e.operational))
      memory == Micros(e.memory)
  IN  [operational |-> operational, memory |-> memory,
       interval |-> IF operational = 0 \/ (memory # 0 /\ memory < operational)
                    THEN memory ELSE operational,
       restartAllowed |-> e.operational >= 0]

\* What the constructor of MonitorObject makes of an entry.
Settings(e) ==
  LET operational == Micros(Seconds(e.operational))
      memory == Micros(e.memory)
  IN  [operational |-> operational, memory |-> memory,
       interval |-> gcd[<<operational, memory>>],
       restartAllowed |-> e.operational >= 0]

\* An entry without a check is skipped; of two for one callsign the first wins.
Emplaced(e) ==
  /\ Micros(Seconds(e.operational)) # 0 \/ Micros(e.memory) # 0
  /\ e.callsign \notin Observed

\* One turn of the loop in Open ...
OpenEntry ==
  /\ At("open") /\ index < Len(config)
  /\ index' = index + 1
  /\ LET e == config[index']
     IN  monitor' = IF Emplaced(e)
                    THEN [c \in Observed \cup {e.callsign} |->
                            IF c = e.callsign THEN Settings(e) ELSE monitor[c]]
                    ELSE monitor
  /\ UNCHANGED <<step, config, active, samples, framework, dispatch, request, history>>

\* ... and its end: the job is submitted.
Opened ==
  /\ At("open") /\ index = Len(config)
  /\ Submit
  /\ Advance
  /\ UNCHANGED <<config, index, monitor, active, samples, framework, todo, found,
                 request, history>>

\* service->Register reports the plugins that are active, and returns.
Register ==
  /\ At("register") /\ ~listening
  /\ listening' = TRUE
  /\ reports' = {c \in Callsigns : plugin[c] = "up"}
  /\ UNCHANGED <<life, monitor, active, samples, plugin, dispatch, request, history>>

Registered ==
  /\ At("register") /\ listening /\ reports = {} /\ Notified = {}
  /\ Advance
  /\ UNCHANGED <<config, index, monitor, active, samples, framework, dispatch, request,
                 history>>

RegisterAll ==
  /\ At("registerAll")
  /\ Advance
  /\ UNCHANGED <<config, index, monitor, active, samples, framework, dispatch, request,
                 history>>

-----------------------------------------------------------------------------
(* Deinitialize: UnregisterAll, Unregister and Close.  The framework ends    *)
(* the requests and waits for those in progress, as it does for              *)
(* notifications; Revoke waits for a Dispatch that runs.                     *)

UnregisterAll ==
  /\ At("unregisterAll") /\ Unserved
  /\ Advance
  /\ UNCHANGED <<config, index, monitor, active, samples, framework, dispatch, request,
                 history>>

Unregister ==
  /\ At("unregister") /\ Notified = {}
  /\ listening' = FALSE
  /\ Advance
  /\ UNCHANGED <<config, index, monitor, active, samples, reports, plugin, dispatch,
                 request, history>>

Revoke ==
  /\ At("revoke") /\ job \in {"idle", "queued"}
  /\ job' = "idle"
  /\ Advance
  /\ UNCHANGED <<config, index, monitor, active, samples, framework, todo, found, request,
                 history>>

\* _monitor.clear() destroys the observees, and with them all they knew.
Clear ==
  /\ At("clear")
  /\ monitor' = Nothing /\ active' = {}
  /\ samples' = [c \in Callsigns |-> {}]
  /\ taken' = 0 /\ answered' = {} /\ raced' = {}
  /\ Advance
  /\ UNCHANGED <<config, index, framework, dispatch, request>>

-----------------------------------------------------------------------------
(* Notifications.                                                           *)

\* Mutant of Activated: what find() returns is not compared with end().
ActivatedAny(c) ==
  active' = active \cup {c} /\ plugin' = [plugin EXCEPT ![c] = "activated"]

\* Activated finds the observee and sets _active; another plugin is left alone.
Activated(c) ==
  IF c \in Observed
  THEN active' = active \cup {c} /\ plugin' = [plugin EXCEPT ![c] = "activated"]
  ELSE UNCHANGED active /\ plugin' = [plugin EXCEPT ![c] = "up"]

\* A plugin comes up, or Register reports one that is.
ComeUp(c) ==
  /\ plugin[c] = "down"
  /\ \/ listening /\ Activated(c)
     \/ ~listening /\ plugin' = [plugin EXCEPT ![c] = "up"] /\ UNCHANGED active
  /\ UNCHANGED <<life, monitor, samples, listening, reports, dispatch, request, history>>

Report(c) ==
  /\ c \in reports
  /\ reports' = reports \ {c}
  /\ Activated(c)
  /\ UNCHANGED <<life, monitor, samples, listening, dispatch, request, history>>

\* Activated has stored the memory interface and submits the job.
StartProbing(c) ==
  /\ plugin[c] = "activated"
  /\ Submit
  /\ plugin' = [plugin EXCEPT ![c] = "up"]
  /\ UNCHANGED <<life, monitor, active, samples, listening, reports, todo, found, request,
                 history>>

\* Deinitialized finds the observee and clears its memory interface ...
GoDown(c) ==
  /\ plugin[c] = "up" /\ c \notin reports
  /\ plugin' = [plugin EXCEPT ![c] =
       IF listening /\ c \in Observed THEN "deinitialized" ELSE "down"]
  /\ UNCHANGED <<life, monitor, active, samples, listening, reports, dispatch, request,
                 history>>

\* ... and its flag.
SetInactive(c) ==
  /\ plugin[c] = "deinitialized"
  /\ active' = active \ {c}
  /\ plugin' = [plugin EXCEPT ![c] = "down"]
  /\ UNCHANGED <<life, monitor, samples, listening, reports, dispatch, request, history>>

-----------------------------------------------------------------------------
(* Dispatch.                                                                *)

Running == job \in {"running", "again"}

BeginPass ==
  /\ job = "queued"
  /\ job' = "running"
  /\ todo' = Observed
  /\ UNCHANGED <<life, monitor, active, samples, framework, found, request, history>>

\* A sample is added when one is due; the resets being served have a race with it.
Sample(c) ==
  /\ taken < MaxSamples
  /\ taken' = taken + 1
  /\ samples' = [samples EXCEPT ![c] = @ \cup {taken'}]
  /\ request' = [r \in Requests |-> IF request[r].op = "reset"
                                    THEN [request[r] EXCEPT !.since = @ \cup {taken'}]
                                    ELSE request[r]]

Visit(c) ==
  /\ Running /\ c \in todo
  /\ todo' = todo \ {c}
  /\ found' = (found \/ c \in active)
  /\ \/ c \in active /\ Sample(c)
     \/ UNCHANGED <<taken, samples, request>>
  /\ UNCHANGED <<life, monitor, active, framework, job, answered, raced>>

\* As long as there is an active observee, Dispatch submits or reschedules the job, which
\* still runs ...
FinishPass ==
  /\ Running /\ todo = {} /\ found
  /\ job' = "again"
  /\ found' = FALSE
  /\ UNCHANGED <<life, monitor, active, samples, framework, todo, request, history>>

\* ... until it returns.
EndPass ==
  /\ Running /\ todo = {} /\ ~found
  /\ job' = IF job = "again" THEN "queued" ELSE "idle"
  /\ UNCHANGED <<life, monitor, active, samples, framework, todo, found, request, history>>

-----------------------------------------------------------------------------
(* Requests.  JSON-RPC status and restartlimits and HTTP GET and POST read or   *)
(* set what Observee and RestartThrottle are about: here they only look   *)
(* observees up.  JSON-RPC resetstats and HTTP PUT read one and reset it.       *)

\* The observees a request is about.  A GET, a status or a resetstats without a
\* callsign is about all; a PUT without one is a bad request.
Asked(name) == IF name = Empty THEN Observed ELSE {name} \cap Observed

Serve(r) ==
  /\ At("unregisterAll") /\ request[r] = NoRequest
  /\ \E name \in Callsigns \cup {Empty} :
       \/ request' = [request EXCEPT ![r] =
            [NoRequest EXCEPT !.op = "read", !.pending = Asked(name)]]
       \/ request' = [request EXCEPT ![r] =
            [NoRequest EXCEPT !.op = "reset", !.name = name, !.pending = Asked(name)]]
  /\ UNCHANGED <<life, monitor, active, samples, framework, dispatch, history>>

\* An observee is read; what only a reader is told is left out.
Read(r, c) ==
  /\ c \in request[r].pending
  /\ request' = [request EXCEPT
       ![r].pending = @ \ {c},
       ![r].answer = IF request[r].op = "reset" THEN @ \cup {c} ELSE @,
       ![r].told = IF request[r].op = "reset" THEN @ \cup samples[c] ELSE @]
  /\ UNCHANGED <<life, monitor, active, samples, framework, dispatch, history>>

\* Mutant of ResetSamples: every observee is reset.
ResetEvery(name) == [c \in Callsigns |-> {}]

\* Reset(name), which finds nothing for the empty callsign.
ResetSamples(name) == [samples EXCEPT ![name] = {}]

\* resetstats resets only when it has exactly one observee to answer.
Resets(r) ==
  request[r].op = "reset" /\ \E c \in Callsigns : request[r].answer = {c}

\* The answer is complete.  PUT has the observee it found, resetstats looks the callsign
\* up once more: the empty one is not found.
Conclude(r) ==
  /\ request[r].op # "none" /\ request[r].pending = {}
  /\ request' = [request EXCEPT ![r] = NoRequest]
  /\ IF Resets(r) /\ request[r].name \in Observed
     THEN LET name == request[r].name
          IN  /\ samples' = ResetSamples(name)
              /\ answered' = answered \cup request[r].told
              /\ raced' = raced \cup
                   ((samples[name] \cap request[r].since) \ request[r].told)
     ELSE UNCHANGED <<samples, answered, raced>>
  /\ UNCHANGED <<life, monitor, active, framework, dispatch, taken>>

-----------------------------------------------------------------------------
Initialize == Configure \/ OpenEntry \/ Opened \/ Register \/ Registered \/ RegisterAll
Deinitialize == UnregisterAll \/ Unregister \/ Revoke \/ Clear
Notify(c) == ComeUp(c) \/ Report(c) \/ StartProbing(c) \/ GoDown(c) \/ SetInactive(c)
Dispatch == BeginPass \/ (\E c \in todo : Visit(c)) \/ FinishPass \/ EndPass
Process(r) == Serve(r) \/ (\E c \in request[r].pending : Read(r, c)) \/ Conclude(r)

Next ==
  \/ Initialize \/ Deinitialize \/ Dispatch
  \/ \E c \in Callsigns : Notify(c)
  \/ \E r \in Requests : Process(r)

Spec == Init /\ [][Next]_vars

-----------------------------------------------------------------------------
TypeOK ==
  /\ step \in 1..Len(Order)
  /\ config \in Configs \cup {<<>>} /\ index \in Nat
  /\ Observed \subseteq Callsigns
  /\ active \subseteq Observed
  /\ samples \in [Callsigns -> SUBSET (1..taken)]
  /\ listening \in BOOLEAN
  /\ reports \subseteq Callsigns
  /\ plugin \in [Callsigns -> {"down", "activated", "up", "deinitialized"}]
  /\ job \in {"idle", "queued", "running", "again"}
  /\ todo \subseteq Callsigns
  /\ found \in BOOLEAN
  /\ request \in [Requests ->
       [op : {"none", "read", "reset"}, name : Callsigns \cup {Empty},
        pending : SUBSET Callsigns, answer : SUBSET Callsigns,
        told : SUBSET (1..taken), since : SUBSET (1..taken)]]
  /\ taken \in Nat /\ answered \subseteq 1..taken /\ raced \subseteq 1..taken

\* The map needs no lock: nobody has an iterator on an observee that is gone, and
\* while Open fills the map, while Close clears it and as long as the monitor is
\* not active, no pass, no notification and no request is under way or to come.
MapNeedsNoLock ==
  /\ todo \cup Notified \subseteq Observed
  /\ \A r \in Requests : request[r].pending \subseteq Observed
  /\ At("configure") \/ At("open") \/ At("clear") =>
       job = "idle" /\ Notified = {} /\ Unserved

\* No plugin escapes: from the time Register has returned, each observee that is
\* up is active and the job will look at it, whether it came up before the
\* monitor, while it was initialized, or later; and none that is down is active.
UpIsProbed ==
  listening /\ reports = {} =>
    \A c \in Observed :
      /\ plugin[c] = "up" => c \in active /\ job # "idle"
      /\ plugin[c] = "down" => c \notin active

\* No sample is lost: it is still in the statistics, or a request that reset them
\* has answered it, not both; the only exception are samples that came between
\* the start and the end of the request that reset them.
SamplesAccounted ==
  \A s \in 1..taken :
    LET kept == \E c \in Callsigns : s \in samples[c]
    IN  /\ kept \/ s \in answered \cup raced
        /\ ~(kept /\ s \in answered \cup raced)

\* What Open makes of an entry whose microseconds fit 32 bits: the observee exists
\* and is checked at exactly the intervals configured, whatever their sign, unless
\* an earlier entry has the same callsign.  Those that do not fit wrap, although
\* Monitor.config knows no bound of these numbers of seconds.
ObservedAsConfigured ==
  ~At("configure") =>
    \A i \in 1..index :
      LET e == config[i]
          sign == IF e.operational < 0 THEN -1 ELSE 1
          operational == sign * e.operational * MicrosPerSecond
          memory == e.memory * MicrosPerSecond
      IN  /\ operational < WordModulus /\ memory < WordModulus
          /\ operational + memory > 0
          /\ \A j \in 1..(i - 1) : config[j].callsign # e.callsign
          => /\ e.callsign \in Observed
             /\ monitor[e.callsign].operational = operational
             /\ monitor[e.callsign].memory = memory

\* What ProbeLoop assumes of an observee holds of whatever Open lets through, also
\* when its intervals wrapped: they are words and one of them is not 0.  It is visited
\* at the longest interval that makes both of its checks due on time.
IntervalsAreSound ==
  \A c \in Observed :
    LET o == monitor[c]
    IN  /\ o.operational \in 0..(WordModulus - 1) /\ o.memory \in 0..(WordModulus - 1)
        /\ o.operational # 0 \/ o.memory # 0
        /\ IsGcd(o.interval, o.operational, o.memory)

-----------------------------------------------------------------------------
\* The conjuncts of LifecycleInv, behind MapNeedsNoLock, UpIsProbed and
\* SamplesAccounted.

\* Who may be under way at which step.
StepInv ==
  /\ step \in {1, 2, 8} => job = "idle"
  /\ ~Running => todo = {}
  /\ listening => step \in 3..6
  /\ Notified # {} => listening
  /\ reports # {} => listening /\ step = 3
  /\ ~Unserved => step = 5

\* An observee that is up, and has been reported, is active; a pass that runs is to
\* visit it, has found it, or will be followed by another.
ProbedInv ==
  /\ step \in 1..3 /\ ~listening => active = {}
  /\ listening => \A c \in Observed :
       /\ plugin[c] = "down" => c \notin active
       /\ plugin[c] = "activated" \/ (plugin[c] = "up" /\ c \notin reports) => c \in active
       /\ plugin[c] = "up" /\ c \notin reports =>
            job \in {"queued", "again"} \/ (job = "running" /\ (found \/ c \in todo))

\* The one observee request r resets is still to be read, or has been read and
\* got only samples since then that r knows of.
ResetInv(r) ==
  LET name == request[r].name
  IN  request[r].op = "reset" /\ name \in Observed =>
        \/ /\ request[r].pending = {name}
           /\ request[r].answer = {} /\ request[r].told = {}
        \/ /\ request[r].pending = {} /\ request[r].answer = {name}
           /\ samples[name] \subseteq request[r].told \cup request[r].since
           /\ \A c \in Callsigns \ {name} : samples[c] \cap request[r].told = {}

SamplesInv ==
  /\ \A c, d \in Callsigns : c # d => samples[c] \cap samples[d] = {}
  /\ SamplesAccounted
  /\ \A r \in Requests : ResetInv(r)

\* The inductive invariant: what each step of the monitor's life excludes, what
\* the job owes to the observees that are up, and where each sample is.
LifecycleInv == TypeOK /\ MapNeedsNoLock /\ StepInv /\ ProbedInv /\ SamplesInv
=============================================================================
