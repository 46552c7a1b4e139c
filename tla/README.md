# A verification project for the Monitor plugin

The Monitor plugin (entservices-monitor) runs inside the Thunder/WPEFramework
host process. It watches a configured list of other plugins (the *observees*):
it asks each, at its own interval, whether it is operational and how much memory
it uses, forces it down when the answer is bad, and activates it again as long
as a restart throttle allows. Nearly all of its logic is in
`src/plugin/Monitor.h`; `Monitor.cpp` holds the plugin's lifecycle and the HTTP
requests, `MonitorJsonRpc.cpp` the JSON-RPC ones.

The modules here model that logic for TLC (small instances, every interleaving)
and prove the central invariants with TLAPS (every value of the constants).

## 1. The system

Four kinds of threads meet in one process:

* the **probe job**: one `WorkerPool::JobType` that executes
  `MonitorObjects::Dispatch`, never twice at a time;
* **notifications**: `Activated` and `Deinitialized` run on whatever thread
  changes the state of a plugin, one at a time per plugin;
* **requests**: JSON-RPC (`restartlimits`, `resetstats`, `status`) and HTTP (GET,
  PUT, POST), any number at a time;
* **jobs in the framework's pool**: the `DEACTIVATED` and `ACTIVATED` jobs the
  monitor submits.

The only lock is `_adminLock`, one per observee, around `_source` and the writers
of `_measurement`. The other shared members are atomics ("no ordering needed,
atomic should suffice") or are claimed to need no protection.

| Component | State | Operations | What makes it correct |
|---|---|---|---|
| Restart throttle (`MonitorObject`) | `_restartWindow`, `_restartLimit` (atomics), `_restartWindowStart`, `_restartCount` | `RegisterRestart` from `Deinitialized`; `UpdateRestartLimits` from requests | no restart loop; a window is never replaced while open; verdicts follow limits that were in force; the messages tell the truth |
| Probe loop (`MonitorObjects`) | `_job`; per observee `_active`, `_nextSlot`, `_operationalSlots`, `_memorySlots`; the locals of `Dispatch` | `Dispatch`, `Evaluate`, `Retrigger`, `Activated`, `Deinitialized` | the job never rests while an observee is up; it wakes up in time; the `uint32_t` counters never pass 0; every slot is served |
| Data of an observee (`MonitorObject`) | `_source` and its references, `_operational`, `_measurement`, `_adminLock` | `Set`, `Source`, `Evaluate`, `Measurement`, `Reset`, the destructor | no use after release, no leak; statistics of one sample; answers and flags that are current |
| Requests | none of their own | `restartlimits`, `resetstats`, `status`, GET, PUT, POST through `Snapshot`, `Reset`, `Update` | no sample is reset without an answer; they work on whole statistics and pairs |
| Configuration | `Config`, consumed by `Open` | `Open`, `gcd` | seconds become microseconds without overflow; every observable has an interval that divides both of its own |
| Lifecycle | `_monitor`, `_service`, registrations | `Initialize`, `Deinitialize`, `Open`, `Close` | nobody touches the map while it is filled or cleared; every plugin that is up is probed, also when it was up before the monitor |
| Supervision | jobs under way in the pool | verdict, forced shutdown, `Deinitialized`, throttle, activation | a verdict reaches the instance it is about; a plugin that fails comes back or is given up |
| Events, telemetry, traces | none | `event_action`, `Notify`, `t2_event_d` | - |
| JSON containers, module boilerplate, build | none of the monitor's | - | - |

How they interact: a pass of the probe loop evaluates an observee (its shared
data); a bad verdict becomes a job of the pool; that job deactivates the plugin,
which comes back as `Deinitialized`; that clears the source and the active flag
and consults the throttle; a granted restart becomes another job of the pool,
which comes back as `Activated`; that sets flag and source and submits the probe
job. Requests change the throttle and the statistics at any time.

What is hard here: `Dispatch` decides from flags that notifications change behind
its iterator; it submits and reschedules a job that others submit while it runs;
slots, intervals and counters have to stay in step; a call into a plugin may be
overtaken by that plugin going down; atomics are loaded twice or stored in
sequence; references escape the lock; a counter doubles at each failure. The
list, line by line and with the properties meant for each, is under "hazards" in
`PROJECT.json`.

## 2. The modules

| Module | What it models |
|---|---|
| `RestartThrottle` | the restart throttle of one observee |
| `ProbeLoop` | the probe job, the slots of all observees, the notifications |
| `Observee` | the data of one observee that threads share |
| `Supervision` | the chain from a verdict over the forced shutdown and the throttle to the restart of one plugin: `RestartThrottle`, the probe's verdicts, the notifications and the framework's pool composed |
| `Watchdog` | the abstract specification of that chain |
| `MonitorLifecycle` | `Initialize`, `Open` with the conversion of the configuration, `Deinitialize`, `Close`, and the notifications, passes and requests that run beside them |
| `Composition` | `ProbeLoop` mapped to `MonitorLifecycle`: the passes of the one are those of the other |
| `Euclid` | `gcd` and what it must return; used by `ProbeLoop` and `MonitorLifecycle` |
| `Powers` | the powers of two, to say how often a count that doubles may be below a limit; used by `RestartThrottle`, `Supervision` and `Watchdog` |
| `MC...` | values of the constants (and symmetry) for TLC |
| `RestartThrottleProofs`, `ProbeLoopProofs`, `ObserveeProofs`, `SupervisionProofs`, `MonitorLifecycleProofs`, `CompositionProofs` | the theorems and their proofs |
| `NumberTheorems` | what `Euclid` and `Powers` compute, for all numbers |

A step of an action is one access to shared state: two loads of an atomic are two
steps, whatever one C++ expression they stand in; a section under `_adminLock`
that is seen only under `_adminLock` is one step; the writers of the statistics
take a step per field, because readers do not lock. What a thread computes
between two accesses belongs to the step before it.

### RestartThrottle

`now` is a clock in seconds (0 is the invalid `Core::Time`);
`restartWindowStart` is the time the window *ends*, as in the code. A call of
`RegisterRestart` walks through `call`: test of the window (`CountRestart`,
`LeaveWindow`), opening another (`OpenWindow`: a second read of clock and
window), the two loads of the limit (`TestUnlimited`, `TestLimit`), and the
outcome (`Restart`, `GiveUp`). `StoreWindow` and `StoreLimit` are the two stores
of `UpdateRestartLimits` on the thread of a client. `NextCount` is
`_restartCount += _restartCount + 1` in a `uint32_t`, with 2^32 as the constant
`CountModulus`. The clock may tick between any two steps. `tries`, `granted`,
`burst` and `seen` are history: no action reads them except to bound the run.

### ProbeLoop

The clock is in slots of time rather than microseconds; `Slack` stands for the
millisecond `Dispatch` adds. `BeginPass` ... `EndPass` are one run of `Dispatch`:
for each observee, in any order (`_monitor` is an unordered map), it skips it
(`SkipInactive`, `SkipEarly`) or selects it (`SelectDue`), evaluates it
(`EvaluateNothing`, `EvaluateSource`), perhaps submits its shutdown
(`ForceShutdown`) and moves its slot on (`Retrigger`); then `FinishPass` submits or
reschedules the job, or does neither. The notifications are split at each access:
`Activated`, `SetSource`, `StartProbing`; `Deinitialized`, `SetInactive`. Any
plugin that is down may come up, with or without a memory interface, and any
that is up may go down, for reasons of its own or because the pool executes a
shutdown (`ExecuteShutdown`). The slot counters are `uint32_t` (modulus
`SlotModulus`).

The framework is not part of the repository. The module assumes of
`WorkerPool::JobType` (`Submit`, `Reschedule`, `RunAt`): the job is never queued
twice and never runs twice at a time; when it is submitted or rescheduled while it
runs, it runs once more, at one of the times asked for; when it is submitted while
it waits, it may or may not be brought forward.

### Observee

`refs` counts the references the monitor owns on each memory interface, one per
activation. `Activated` gets one with `QueryInterface`, `Set` stores a second and
releases the one it replaces, `Evaluate` takes one with `Source()` for as long as
it calls into the plugin, `Close` runs the destructor. `_operational` is stored by
`Set` *after* the lock was left (`FlagUp`, `FlagDown`), and stored and loaded again
by `Evaluate` (`StoreOperational`, `JudgeOperational`). `AddMeasurement` and
`ResetField` write one field per step under the lock; `ReadField` reads one per step
through the reference `Measurement()` returned. A sample is a number, so that
fields of two samples can be told apart.

### Supervision and Watchdog

`Supervision` contains the throttle as an instance of `RestartThrottle` and makes
its steps one by one (`Deinitialized` takes the first, `Decide` those in between,
`Restart` and `GiveUp` the last); the requests and the clock go on beside it
(`Elsewhere`). Around it are the plugin's shell with the notification in progress
(`plugin`), the `Reason()` it went down for, the jobs that wait in the pool, and the
part of `Dispatch` that takes a source, judges it and submits the shutdown. The
plugin is a sequence of *instances*, one per activation; a verdict is about the
instance `Evaluate` holds, a job only about the plugin. Users start and stop the
plugin, it crashes, and its start may fail, at any time. What `ProbeLoop` (slots,
`_active`, the schedule) and `Observee` (references, locks, `_operational`) say in
detail is left out here.

The framework is external: notifications about one plugin come one at a time; a job
is executed once none is in progress; a job for a plugin that is in the state asked
for already does nothing.

`Watchdog` says what all this amounts to: a plugin is up, down, failed, restarting or
abandoned; a failure is followed by a restart, if a limit in force since the failure
allows one more in this series, or by giving up, if there was a limit the series has used
up; nothing else restarts a plugin. The limit allows as many restarts as the code does,
which is the logarithm of the number configured: a restart after n others needs a limit of
2^n or more, or none, giving up after n a limit below 2^(n+1), or one that was lifted while
the failure was judged. `Supervision` is mapped to it by `phase` (from `plugin`,
`reason`, `call` and `abandoned`), `burst` for the restarts of a series, and the
limits the throttle has `seen`.

### MonitorLifecycle and Euclid

`_monitor` is a map without a lock: the code relies on the order in which `Initialize` and
`Deinitialize` make their calls. That order is the sequence `Order`, and `step` is the
call in progress: the configuration is read (`Configure`), `Open` adds an entry per step
(`OpenEntry`) and submits the job (`Opened`), `Register` reports the plugins that are up
(`Report`) and returns (`Registered`), `RegisterAll` lets requests in; `UnregisterAll`,
`Unregister`, `Revoke` and `Clear` take it all back, and the monitor may be activated anew
with another configuration. `_service` is set and cleared in the steps of `Open` and
`Close` and left out.

`Settings` is what the constructor of `MonitorObject` gets: `Seconds` is `abs`, `Micros` the
multiplication in 32 bits (modulus `WordModulus`), `Emplaced` the test for an entry
without a check and what `emplace` does with a callsign it has.

Plugins come up and go down at any time (`ComeUp`, `GoDown`), before, while and after the
monitor is registered; a notification takes two steps (`Activated` and `StartProbing`,
`GoDown` and `SetInactive`). A pass visits the observees one by one and may add a sample to
the statistics of each that is active; when it has found one, it submits the job that still
runs (`FinishPass`) before it returns (`EndPass`). A request (`Serve`) is a reader or one that resets
(`resetstats`, PUT); it reads the observees it is about one by one (`Read`) and then
answers, and resets (`Conclude`). Samples are numbered; `taken`, `answered`, `raced` and
what a request was `told` and which samples came `since` are history, to say what became
of each sample.

Of the framework the module assumes: `Register` returns when it has reported the plugins
that are up, and `Unregister` when the notifications in progress are over; `Revoke` waits for
a `Dispatch` that runs; requests come only between the two calls of the monitor, and those
in progress are over before `UnregisterAll` goes on. The last three are what the code relies
on when it takes no lock for the map ("why no locking is here to protect the _monitor
member", Monitor.h:787).

## 3. The runs

| Run | Shows |
|---|---|
| `throttle` | each burst of restarts is bounded by a limit in force during the call (`BurstBounded`), indeed by the logarithm of the limit each verdict loads, and is not given up much earlier (`BurstIsLogarithmic`), no window is replaced while open (`WindowsDoNotOverlap`), and `IInv` is an invariant |
| `throttle_limit_exceeded` | *violation*: four restarts in one window whose limit is 3 |
| `throttle_gives_up_early` | *violation*: given up at the third failure although "failed more than 3 times" is traced |
| `probe` | the job never rests while an observee is up (`NoLostWakeup`), wakes up in time for those it found active (`WakesInTime`) and never sleeps longer than their intervals (`SleepIsShort`); slots do not drift (`SlotsKeepTime`) and counters never pass 0 (`CountersAligned`); each step is one of `MonitorLifecycle` or hidden from it (`PassesOfTheLife`); `ProbeInv` is an invariant |
| `probe_live` | with a fair pool the slots 0, 1 and 2 of one observee and 0 and 2 of another are passed as long as they stay up, also after they were down (`SlotsAreServed`) |
| `observee` | `NoUseAfterRelease`, `NoLeak`, `StatisticsWhole`, and `ObserveeInv` is an invariant |
| `observee_torn_answer` | *violation*: an answer with fields of two samples |
| `observee_wrong_verdict` | *violation*: a plugin judged by the flag a notification stored, not by its answer |
| `observee_stale_operational` | *violation*: a plugin that is down stays reported as operational |
| `supervision` | `Supervision` implements `Watchdog` (`ImplementsWatchdog`), no failure is forgotten (`NoFailureForgotten`), each is answered (`FailureIsAnswered`), and `SupervisionInv` is an invariant |
| `supervision_stale_verdict` | *violation*: a plugin "restarted because it misbehaved" whose instance never failed a check |
| `lifecycle` | nobody has the map while it changes (`MapNeedsNoLock`), every observee that is up is probed (`UpIsProbed`), no sample is lost (`SamplesAccounted`), the configuration is observed as it says when its microseconds fit 32 bits (`ObservedAsConfigured`), at intervals that are words, not both 0, and with their greatest common divisor (`IntervalsAreSound`), and `LifecycleInv` is an invariant |

The violations are disagreements of the code with a text of the repository; each
is a finding in `PROJECT.json` with the text it contradicts.

**Bounds of the throttle.** `CountModulus` = 4: the count goes 0, 1, 3 and sticks at
3, which is what 2^32 - 1 is to the real one; the limits 0 (none), 2 and 3 lie
below, at and beyond the values it takes, window 0 means "always within". Five
seconds let a window of 2 or 3 end and another open; two clients are enough for
pairs that mix two requests. `MaxTries` bounds the failures of one window.

**Bounds of the probe loop.** Two observees: one with two checks at intervals 2 and
3 (their gcd 1 is neither), one with a single check. `SlotModulus` = 4 makes a
counter that passes 0 visible. The times 0, 1 and 2 are three slots of the first,
enough for its counters of 2 and 3 to run out and be set again, and let the job be
early, due, and overtaken by its own pass. One shutdown per
observee waits in the pool. `probe_live` has intervals 1 and 2, no shutdown jobs (plugins go
down on their own all the same) and a clock that goes on to 4. A job that waits is due before
`now + Interval + Slack` (`SleepIsShort`), so that all slots up to `Horizon` =
4 + 1 - 2 - 1 = 2 have to be served before the clock stops: three of one observee and two of
the other. `SlotsAreServed` asks that of every state up to then in which the observee is
up, be it the first time or after a restart; what comes later is beyond this run. Its mutant
loses the job at a slot after the first.

**Bounds of an observee.** Two memory interfaces: the one `Evaluate` still holds and
that of the next activation. An interface without references may be handed out
again, so that two of them stand for any number of activations. Two requests, two
samples, three fields: the first, the last and one between. Requests and instances
are interchangeable, and TLC takes each permutation for the same state; no
temporal property is checked in that module.

**Bounds of the supervision.** Two instances: the one that was judged and the one that
runs; an instance nobody refers to is used again. One job of a kind waits when another
is caused, so that a shutdown of one pass can meet the next instance. Limits of two and
none, lowered to one by a request meanwhile; three failures per window (`MaxTries`) are
one more than the limit. `FailureIsAnswered` is asked of failures within that bound.

**Bounds of the lifecycle.** Two plugins, two requests and three configurations: different
intervals with and without restarts, a callsign that is named twice after an entry without
a check, and intervals that wrap. 6 us per second in words of 16 have the same cases as
1000000 in words of 2^32: intervals that fit, that wrap, that wrap to 0, and a number
without an absolute value (-8). One sample between two lives: what becomes of one sample
does not depend on others, and the theorem is about any number of them.

**Deadlock.** The throttle and the lifecycle are checked for it. In the probe loop the clock stops at
`MaxTime`, and the monitor may rest; in an observee everything stops after `Close`; in
the supervision a failure beyond `MaxTries` is not delivered. There the check is off, and
stopping too early is what `NoLostWakeup`, `SlotsAreServed` and `FailureIsAnswered` are
about.

**Clock.** `now` never goes back: `RestartThrottle` and `ProbeLoop` assume that
`Core::Time::Now()`, which is the framework's, is monotonic. `WindowsDoNotOverlap`,
`SlotsKeepTime` and `SleepIsShort` rest on it; if the system time is set back, an open window
is prolonged and the probe job sleeps until the old time has come again.

**Fairness** (`FairSpec` of `ProbeLoop`): the pool runs the probe job when it is due
and `Dispatch` makes progress; a notification that has begun is delivered; time
passes. The framework's pool has several threads and the code of the monitor never
blocks for long, so nothing stronger is asked for. No fairness is assumed of plugins
coming up or going down, nor of shutdown jobs. `FairSpec` of `Supervision` asks that a
notification that has begun goes on and that the pool executes an activation; users,
failing checks and shutdown jobs are left free.

## 4. The proofs

TLAPS proves, for every value of the constants under their named assumptions:

* **`RestartThrottle`**: `TypeCorrect`, `InductiveInvariant` (`IInv`),
  `NoRestartLoop` (`BurstBounded`), `ThrottleIsLogarithmic` (`BurstIsLogarithmic`),
  `OpenWindowsStay` (`WindowsDoNotOverlap`). `BurstBounded` is not inductive: that a count
  below the limit bounds the restarts needs the count to keep up with them, although it is
  taken modulo 2^32 and restarts may go on without a limit for long. The key is `CountInv`:
  the count plus one is a power of two, so the count is a run of ones that either grows by a
  one below the modulus or has reached the largest value and stays (`NextCountGrows`); it
  has a one for each failure of the burst (`Failures`), except perhaps for the one that
  opened the window. `CountMeasures` says what that means for the count at a verdict:
  `ComparisonMeasures` turns it into the two halves of the action property
  `BurstIsLogarithmic`, about the limit that is loaded, `GrantMeasures` and `VerdictMeasures`
  into what the call then knows of the limits it has seen, and `BurstBounded` follows because
  2^n > n. A refusal with a limit of 0 is excepted: it comes about when the limit is lifted
  between the two loads of Monitor.h:525, and says nothing of the count. `CallInv` carries what
  was read from one step of a call to the next. `BinaryAssumption`: the modulus is a power
  of two.
* **`ProbeLoop`**: `TypeCorrect`, `InductiveInvariant` (`ProbeInv`), `ProbingNeverStalls`
  (`NoLostWakeup`), `PassSchedulesInTime` (`WakesInTime`), `PassesDoNotDrift`
  (`SlotsKeepTime`), `JobSleepsBriefly` (`SleepIsShort`), `CountersNeverWrap`
  (`CountersAligned`). `WakeInv` is the heart: as long as the running job has no next time,
  every observee that is up is still to be visited, is being evaluated, or another one will
  make the pass schedule the job; an `Activated` that comes too late for the iterator submits
  the job. `SearchInv` says that the minimum `Dispatch` keeps covers all it visited,
  `SleepInv` that it stems from an observee found active. `SlotsKeepTime` is inductive
  together with them: `Retrigger` adds whole intervals and stops less than one beyond a time
  that has come. A counter that is a positive multiple of the interval of the visits is at
  least that interval, and what is left is a multiple again: hence `CountersAligned`.
* **`NumberTheorems`**: `GcdIsLargest` and `GcdCorrect`: `gcd`, as the recursion of
  Monitor.h:32 defines it, returns the greatest common divisor of all numbers that are not
  both 0. The argument is by the least counterexample: `<` is well-founded, so a set of
  numbers that is not empty has a least element (`LeastNumber`), and the recursion goes to
  smaller numbers. That the recursive functions `gcd` and `twoTo` are what their defining
  equations say (`GcdDefined`, `TwoToDefined`) is shown the same way, from a table of their
  values up to the number in question. Neither `ProbeLoop` nor `MonitorLifecycle` assumes
  anything of `gcd`.
* **`Observee`**: `InductiveInvariant` (`ObserveeInv`), `SourcesStayAlive`
  (`NoUseAfterRelease`), `SourcesAreReleased` (`NoLeak`), `WritersExclude`
  (`StatisticsWhole`). `RefsInv` counts: the references on an interface are exactly the
  pointers that hold it. `StatisticsInv` says how far the owner of the lock has come.
* **`Supervision`**: `ThrottleIsKept` (it contains `RestartThrottle`, step by step) and with
  it `RestartsAreThrottled`, from the theorem about `RestartThrottle` alone;
  `InductiveInvariant` (`SupervisionInv`), `FailuresAreRemembered` (`NoFailureForgotten`) and
  `SupervisionIsWatchdog` (`ImplementsWatchdog`). A grant is justified to `Watchdog` only by
  the throttle's own invariant (`GrantIsJustified`, from `VerdictMeasures`): its count has a one
  for each restart, so a count below the limit means that two to the number of restarts is,
  too; giving up is justified by the other half. `DecisionInv` adds
  that the throttle works on failures only and refuses only when it has seen a limit.

* **`MonitorLifecycle`**: `InductiveInvariant` (`LifecycleInv`), `TypeCorrect`, `MapIsSafe`
  (`MapNeedsNoLock`), `NoPluginEscapes` (`UpIsProbed`), `NoSampleIsLost`
  (`SamplesAccounted`), `IntervalsAsConfigured` (`ObservedAsConfigured`), `ObserveesAreSound`
  (`IntervalsAreSound`, from `GcdCorrect`). `StepInv` says who
  may be under way at which call; that makes `MapNeedsNoLock` inductive. `ProbedInv` says
  what the running pass owes to a plugin that is up: it is still to be visited, was found
  active, or the job runs once more. `SamplesInv` says that a request that resets knows
  every sample of its observee, and knows none of another observee: without the second half a
  reset might be counted as the answer to a sample that is kept. `OpenInv`
  (in the proof module) says that the map is empty when `Open` begins, so that an
  observee found in it stems from an earlier entry of the same configuration.

* **`Composition`**: `ProbingIsLife` (`PassesOfTheLife`): the probe loop is the part of the
  lifecycle in which the monitor serves. Its steps are those of `MonitorLifecycle`: the
  observees found active become `found`, a job that has a next time while it runs is one
  that runs again, a notification is under way from `Activated` to `StartProbing` and from
  `Deinitialized` to `SetInactive`; evaluation, slots and the clock are hidden. `ProbeInv` is
  needed to know that nobody is being evaluated when a pass begins or ends and that a pass
  that found an observee has a slot to schedule, and `RestInv`, that nobody is left to visit
  between passes. `LifeIsKept` follows from it and the
  theorem about `MonitorLifecycle` alone: `LifecycleInv` holds of the passes that follow slots
  and the clock.

`Observee` has `TypeCorrect`, too. `IInv`, `ProbeInv`, `ObserveeInv`, `SupervisionInv` and
`LifecycleInv` are invariants of the runs too.

Only model-checked: `SlotsAreServed` and `FailureIsAnswered`, since liveness under fairness is
out of the prover's reach. Every invariant and action property of the passing runs is proved.

## 5. Not modelled

* Events, notifications to the controller, telemetry and traces: they do not change
  the monitor's state. The actions name the places where they are sent.
* JSON (de)serialisation, `translate`, the status codes of HTTP, and the minima, maxima
  and averages inside `MeasurementType` (framework code): the statistics are the samples
  they stem from.
* Memory thresholds and measurements as numbers (the number of processes is narrowed to a
  `uint8_t`): in `ProbeLoop` a check that is made may fail.
* `src/helpers/UtilsJsonRpc.h` (macros this plugin does not use), the module boilerplate and
  the build: no behaviour of the plugin.

What the models show beside the findings, without a run of its own. The first contradicts
`plugin/Monitor.config`, the others no text of the repository:

* "memory" and "operational" are intervals in seconds there, without a bound
  (Monitor.config:249, 253); one of 4295 s or more wraps (Monitor.h:717, 718) and is checked at
  another interval, or not at all when it wraps to 0. The configurations of `lifecycle` have
  such intervals: `ObservedAsConfigured` leaves them out, `IntervalsAreSound` shows that the
  probe loop can work with what remains of them.
* `resetstats` without a callsign, when there is one observee, answers its statistics and
  does not reset them; when there are several, it answers nothing (MonitorJsonRpc.cpp:71).
* Samples that come between the reading and the reset of `resetstats` are in no answer; those
  are the `raced` of `SamplesAccounted`.
* Two concurrent `restartlimits` may leave the window of one and the limit of the other
  (Monitor.h:544); a limit lowered to 0 between its two loads refuses a restart that neither
  limit refuses (Monitor.h:525).
* A plugin the monitor forced down is not restarted when the monitor is deactivated before
  the notification; a pending activation starts a plugin that its user has stopped
  meanwhile (Monitor.h:810).

## 6. How the modules fit together

Each module keeps the part of the state its properties are about and assumes of the rest
what another one shows. `ProbeLoop` starts where `Open` ends: what its
`IntervalsAssumption` and its `Interval` say of the observees is what `IntervalsAreSound`
says of `_monitor`, which is proved. `Composition` shows that its passes and notifications are
those of `MonitorLifecycle` while the monitor serves, so that what the lifecycle proves of the
order of the calls applies to them. `Observee` assumes that nobody uses an observee
when its destructor runs, which is `MapNeedsNoLock`; `Supervision` contains the throttle as
an instance and inherits its theorem, and leaves the flag `_operational`, which
`Observee` shows to be unreliable, as a check that may fail at any time.
