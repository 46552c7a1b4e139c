----------------------------- MODULE ProbeLoop -----------------------------
(***************************************************************************)
(* The probing of the observees (class MonitorObjects of plugin/Monitor.h): *)
(* one job on the worker pool, Dispatch, that visits every observee,        *)
(* evaluates those whose slot is due, forces failing ones down and schedules *)
(* itself for the earliest slot; and the notifications Activated and        *)
(* Deinitialized that arrive on other threads while it does.  No lock orders *)
(* them: a step of an action is one access to shared state.                 *)
(***************************************************************************)
EXTENDS Integers, FiniteSets, Euclid

CONSTANTS
  Observees,            \* the keys of _monitor
  operationalInterval,  \* _operationalInterval of each; 0: not checked
  memoryInterval,       \* _memoryInterval of each; 0: not checked
  Slack,                \* the 1 ms that Dispatch adds when it reschedules
  SlotModulus,          \* 2^32: the slot counters are uint32_t
  None,                 \* no time: nothing scheduled, no slot found (~0)
  Nobody,               \* no observee is being evaluated
  MaxTime,              \* bound on the clock
  MaxShutdowns          \* bound on the forced shutdowns of one observee that wait

intervals == [o \in Observees |-> gcd[<<operationalInterval[o], memoryInterval[o]>>]]

\* _interval: a const member, made once by the constructor.
Interval(o) == intervals[o]

\* Open emplaces an observable only when it has something to check.
ASSUME IntervalsAssumption ==
  /\ operationalInterval \in [Observees -> 0..(SlotModulus - 1)]
  /\ memoryInterval \in [Observees -> 0..(SlotModulus - 1)]
  /\ \A o \in Observees : operationalInterval[o] # 0 \/ memoryInterval[o] # 0
ASSUME BoundsAssumption ==
  /\ Slack \in Nat \ {0} /\ SlotModulus \in Nat \ {0}
  /\ MaxTime \in Nat /\ MaxShutdowns \in Nat
ASSUME SentinelAssumption == None \notin Nat /\ Nobody \notin Observees

VARIABLES
  now,               \* Core::Time::Now()
  (* MonitorObject, one per observee *)
  active,            \* _active
  source,            \* whether _source is set
  nextSlot,          \* _nextSlot
  operationalSlots,  \* _operationalSlots
  memorySlots,       \* _memorySlots
  notified,          \* where the notifications about the observee stand
  (* the worker pool *)
  job,               \* _job: "idle", "queued" or "running"
  due,               \* when _job runs (queued) or runs again (running), or None
  shutdowns,         \* DEACTIVATED jobs submitted and not executed yet
  (* Dispatch, while it runs *)
  step,              \* where it stands
  todo,              \* observees the iterator has not reached
  current,           \* the observee being evaluated, or Nobody
  scheduledTime,     \* its local of this name
  earliest,          \* its local nextSlot; None stands for ~0
  watched            \* history: the observees this or the last pass found active

objects == <<active, source, nextSlot, operationalSlots, memorySlots, notified>>
slots == <<nextSlot, operationalSlots, memorySlots>>
pass == <<step, todo, current, scheduledTime, earliest, watched>>
pool == <<job, due, shutdowns>>
vars == <<now, objects, pool, pass>>

Stages == {"down", "set", "submit", "up", "clear"}
Steps == {"idle", "select", "evaluate", "shutdown", "retrigger", "return"}

\* After Open: every observee is inactive and due at once, the job is submitted.
Init ==
  /\ now = 0
  /\ active = [o \in Observees |-> FALSE]
  /\ source = [o \in Observees |-> FALSE]
  /\ nextSlot = [o \in Observees |-> now]
  /\ operationalSlots = operationalInterval
  /\ memorySlots = memoryInterval
  /\ notified = [o \in Observees |-> "down"]
  /\ job = "queued" /\ due = now
  /\ shutdowns = [o \in Observees |-> 0]
  /\ step = "idle" /\ todo = {} /\ current = Nobody
  /\ scheduledTime = 0 /\ earliest = None /\ watched = {}

-----------------------------------------------------------------------------
(* Core::WorkerPool::JobType, as the monitor uses it: one job object that is *)
(* never queued twice and never runs twice at a time.  A submission while it *)
(* is queued may or may not bring it forward; while it runs, the job runs    *)
(* once more, at one of the times asked for.                                 *)

RunAt(t) == IF due = None THEN due' = t ELSE due' \in {due, t}

Submit ==
  \/ job = "idle" /\ job' = "queued" /\ due' = now
  \/ job = "queued" /\ job' = job /\ due' \in {due, IF due < now THEN due ELSE now}
  \/ job = "running" /\ job' = job /\ RunAt(now)

Reschedule(t) == job' = job /\ RunAt(t)

-----------------------------------------------------------------------------
(* Notifications about observee o, each on one thread at a time.            *)

Activated(o) ==
  /\ notified[o] = "down"
  /\ active' = [active EXCEPT ![o] = TRUE]
  /\ notified' = [notified EXCEPT ![o] = "set"]
  /\ UNCHANGED <<now, source, slots, pool, pass>>

\* QueryInterface<IMemory> may find nothing: then Set is not called.
SetSource(o) ==
  /\ notified[o] = "set"
  /\ \E memory \in BOOLEAN : source' = [source EXCEPT ![o] = memory \/ source[o]]
  /\ notified' = [notified EXCEPT ![o] = "submit"]
  /\ UNCHANGED <<now, active, slots, pool, pass>>

\* Mutant of StartProbing: the job is left alone.
StartProbingNot(o) ==
  /\ notified[o] = "submit"
  /\ notified' = [notified EXCEPT ![o] = "up"]
  /\ UNCHANGED <<now, active, source, slots, pool, pass>>

StartProbing(o) ==
  /\ notified[o] = "submit"
  /\ Submit
  /\ notified' = [notified EXCEPT ![o] = "up"]
  /\ UNCHANGED <<now, active, source, slots, shutdowns, pass>>

\* The plugin goes down, for whatever reason: Set(nullptr) ...
ClearSource(o) ==
  /\ notified[o] = "up"
  /\ source' = [source EXCEPT ![o] = FALSE]
  /\ notified' = [notified EXCEPT ![o] = "clear"]

Deinitialized(o) == ClearSource(o) /\ UNCHANGED <<now, active, slots, pool, pass>>

\* ... then Active(false).  The restart decision that follows is RestartThrottle;
\* here any plugin that is down may be activated again.
SetInactive(o) ==
  /\ notified[o] = "clear"
  /\ active' = [active EXCEPT ![o] = FALSE]
  /\ notified' = [notified EXCEPT ![o] = "down"]
  /\ UNCHANGED <<now, source, slots, pool, pass>>

\* The pool executes a DEACTIVATED job: it waits for an activation in progress
\* and does nothing to a plugin that is down.
ExecuteShutdown(o) ==
  /\ shutdowns[o] > 0
  /\ notified[o] \in {"up", "down"}
  /\ shutdowns' = [shutdowns EXCEPT ![o] = @ - 1]
  /\ \/ ClearSource(o)
     \/ notified[o] = "down" /\ UNCHANGED <<source, notified>>
  /\ UNCHANGED <<now, active, slots, job, due, pass>>

-----------------------------------------------------------------------------
(* Dispatch.                                                                *)

BeginPass ==
  /\ job = "queued" /\ due <= now
  /\ job' = "running" /\ due' = None
  /\ scheduledTime' = now
  /\ earliest' = None
  /\ todo' = Observees
  /\ watched' = {}
  /\ step' = "select"
  /\ UNCHANGED <<now, objects, shutdowns, current>>

\* Mutant of Earlier: the slot visited last wins.
LaterVisited(t) == t

\* The smaller of the earliest slot so far and t.
Earlier(t) == IF earliest = None \/ t < earliest THEN t ELSE earliest

\* The iterator, in an order of its own, reaches observee o.
SkipInactive(o) ==
  /\ step = "select" /\ o \in todo
  /\ ~active[o]
  /\ todo' = todo \ {o}
  /\ UNCHANGED <<now, objects, pool, step, current, scheduledTime, earliest, watched>>

SkipEarly(o) ==
  /\ step = "select" /\ o \in todo
  /\ active[o] /\ nextSlot[o] > scheduledTime
  /\ todo' = todo \ {o}
  /\ watched' = watched \cup {o}
  /\ earliest' = Earlier(nextSlot[o])
  /\ UNCHANGED <<now, objects, pool, step, current, scheduledTime>>

SelectDue(o) ==
  /\ step = "select" /\ o \in todo
  /\ active[o] /\ nextSlot[o] <= scheduledTime
  /\ todo' = todo \ {o}
  /\ watched' = watched \cup {o}
  /\ current' = o
  /\ step' = "evaluate"
  /\ UNCHANGED <<now, objects, pool, scheduledTime, earliest>>

\* Mutant of Left: the counter is signed and wide.
LeftUnwrapped(o, count) == count - Interval(o)

\* What is left of a slot counter after one more slot.
Left(o, count) == (count - Interval(o)) % SlotModulus

OperationalDue(o) == operationalInterval[o] # 0 /\ Left(o, operationalSlots[o]) = 0
MemoryDue(o) == memoryInterval[o] # 0 /\ Left(o, memorySlots[o]) = 0

\* Mutant of Recharged: the counter of a check that was made is not set again.
Depleted(o, interval, count) == Left(o, count)

\* The counter of the check made every `interval`, after Evaluate.
Recharged(o, interval, count) ==
  IF interval # 0 /\ Left(o, count) = 0 THEN interval ELSE Left(o, count)

\* Evaluate, when Source() finds nothing.
EvaluateNothing ==
  /\ step = "evaluate"
  /\ ~source[current]
  /\ step' = "retrigger"
  /\ UNCHANGED <<now, objects, pool, todo, current, scheduledTime, earliest, watched>>

\* Evaluate, with a source: any check that is made may fail.
EvaluateSource ==
  /\ step = "evaluate"
  /\ source[current]
  /\ operationalSlots' = [operationalSlots EXCEPT ![current] =
       Recharged(current, operationalInterval[current], @)]
  /\ memorySlots' = [memorySlots EXCEPT ![current] =
       Recharged(current, memoryInterval[current], @)]
  /\ \/ step' = "retrigger"
     \/ (OperationalDue(current) \/ MemoryDue(current)) /\ step' = "shutdown"
  /\ UNCHANGED <<now, active, source, nextSlot, notified, pool, todo, current,
                 scheduledTime, earliest, watched>>

\* The verdict is announced and submitted, unless the framework no longer knows
\* the callsign.
ForceShutdown ==
  /\ step = "shutdown"
  /\ \/ /\ shutdowns[current] < MaxShutdowns
        /\ shutdowns' = [shutdowns EXCEPT ![current] = @ + 1]
     \/ UNCHANGED shutdowns
  /\ step' = "retrigger"
  /\ UNCHANGED <<now, objects, job, due, todo, current, scheduledTime, earliest, watched>>

\* Mutant of Retrigger: the next slot is counted from the time of the pass.
RetriggerFromPass ==
  /\ step = "retrigger"
  /\ LET slot == scheduledTime + Interval(current) IN
       /\ nextSlot' = [nextSlot EXCEPT ![current] = slot]
       /\ earliest' = Earlier(slot)
  /\ step' = "select"
  /\ current' = Nobody
  /\ UNCHANGED <<now, active, source, operationalSlots, memorySlots, notified, pool,
                 todo, scheduledTime, watched>>

\* Retrigger moves the slot on by whole intervals, up to scheduledTime or just
\* beyond; then the slot takes part in the search for the earliest.
Retrigger ==
  /\ step = "retrigger"
  /\ \E k \in 0..(scheduledTime - nextSlot[current]) :
       LET slot == nextSlot[current] + k * Interval(current) IN
         /\ slot \in scheduledTime..(scheduledTime + Interval(current) - 1)
         /\ nextSlot' = [nextSlot EXCEPT ![current] = slot]
         /\ earliest' = Earlier(slot)
  /\ step' = "select"
  /\ current' = Nobody
  /\ UNCHANGED <<now, active, source, operationalSlots, memorySlots, notified, pool,
                 todo, scheduledTime, watched>>

\* Mutant of FinishPass: a pass that has overtaken the earliest slot does not submit.
FinishPassOvertaken ==
  /\ step = "select" /\ todo = {}
  /\ \/ earliest = None /\ UNCHANGED <<job, due>>
     \/ earliest # None /\ earliest < now /\ UNCHANGED <<job, due>>
     \/ earliest # None /\ earliest >= now /\ Reschedule(earliest + Slack)
  /\ step' = "return"
  /\ UNCHANGED <<now, objects, shutdowns, todo, current, scheduledTime, earliest, watched>>

FinishPass ==
  /\ step = "select" /\ todo = {}
  /\ \/ earliest = None /\ UNCHANGED <<job, due>>
     \/ earliest # None /\ earliest < now /\ Submit
     \/ earliest # None /\ earliest >= now /\ Reschedule(earliest + Slack)
  /\ step' = "return"
  /\ UNCHANGED <<now, objects, shutdowns, todo, current, scheduledTime, earliest, watched>>

\* Dispatch has returned to the pool; its locals are gone.
EndPass ==
  /\ step = "return"
  /\ job' = IF due = None THEN "idle" ELSE "queued"
  /\ step' = "idle"
  /\ scheduledTime' = 0 /\ earliest' = None
  /\ UNCHANGED <<now, objects, due, shutdowns, todo, current, watched>>

-----------------------------------------------------------------------------
Tick ==
  /\ now < MaxTime
  /\ now' = now + 1
  /\ UNCHANGED <<objects, pool, pass>>

Visit(o) == SkipInactive(o) \/ SkipEarly(o) \/ SelectDue(o)

Dispatch ==
  \/ BeginPass \/ (\E o \in Observees : Visit(o))
  \/ EvaluateNothing \/ EvaluateSource \/ ForceShutdown \/ Retrigger
  \/ FinishPass \/ EndPass

Notify(o) ==
  \/ Activated(o) \/ SetSource(o) \/ StartProbing(o)
  \/ Deinitialized(o) \/ SetInactive(o) \/ ExecuteShutdown(o)

Next == Dispatch \/ (\E o \in Observees : Notify(o)) \/ Tick

\* The pool runs what is due, a notification that has begun is delivered, time
\* passes.  Nothing says that a plugin ever comes up or goes down.
Fairness ==
  /\ WF_vars(Dispatch)
  /\ \A o \in Observees : WF_vars(SetSource(o) \/ StartProbing(o) \/ SetInactive(o))
  /\ WF_vars(Tick)

Spec == Init /\ [][Next]_vars
FairSpec == Spec /\ Fairness

-----------------------------------------------------------------------------
TypeOK ==
  /\ now \in Nat
  /\ active \in [Observees -> BOOLEAN]
  /\ source \in [Observees -> BOOLEAN]
  /\ nextSlot \in [Observees -> Nat]
  /\ operationalSlots \in [Observees -> 0..(SlotModulus - 1)]
  /\ memorySlots \in [Observees -> 0..(SlotModulus - 1)]
  /\ notified \in [Observees -> Stages]
  /\ job \in {"idle", "queued", "running"}
  /\ due \in Nat \cup {None}
  /\ shutdowns \in [Observees -> Nat]
  /\ step \in Steps
  /\ todo \subseteq Observees
  /\ current \in Observees \cup {Nobody}
  /\ scheduledTime \in Nat
  /\ earliest \in Nat \cup {None}
  /\ watched \subseteq Observees

\* Activated has returned and the plugin has not gone down.
Settled(o) == notified[o] \in {"up", "clear"}

\* No lost wakeup: the probe job never rests while an observee is up.  Dispatch
\* decides to stop from what it read of _active while it iterated; Activated may
\* set _active behind the iterator and submit the job that is still running.
NoLostWakeup == job = "idle" => \A o \in Observees : ~Settled(o)

\* The job that waits wakes up in time for each observee the last pass found
\* active: at its slot (plus the slack), or at once when the slot was overtaken
\* by the pass itself.
WakesInTime ==
  job = "queued" =>
    \A o \in watched : due <= nextSlot[o] + Slack \/ due <= now

\* The slots keep time: however late a pass is and however long an observee was down,
\* its slots stay whole intervals after the first (passes that are late do not add up),
\* and the next one is less than an interval away.
SlotsKeepTime ==
  \A o \in Observees :
    nextSlot[o] % Interval(o) = 0 /\ nextSlot[o] < now + Interval(o)

\* The job never sleeps for longer than the interval of an observee the last pass found
\* active, plus the slack: even if a submission does not bring it forward, this bounds how
\* long an observee that comes up meanwhile is left unwatched.  A job that has nobody to
\* wait for does not sleep at all.
SleepIsShort ==
  job = "queued" /\ due > now =>
    watched # {} /\ \A o \in watched : due < now + Interval(o) + Slack

\* The slot counters run down to exactly 0: a check that is made at all always
\* has a whole number of slots to wait, at least one, so that the subtraction
\* never passes 0 and wraps, which would silence the check for 2^32 us.
CountersAligned ==
  \A o \in Observees :
    LET Whole(interval) == {n \in 1..interval : n % Interval(o) = 0} IN
      /\ operationalInterval[o] # 0 => operationalSlots[o] \in Whole(operationalInterval[o])
      /\ memoryInterval[o] # 0 => memorySlots[o] \in Whole(memoryInterval[o])

\* The slots of an observee that stays up pass one after the other, also after it was
\* down: monitoring is re-established whenever a plugin restarts.  The clock stops at
\* MaxTime, and by SleepIsShort the job that waits is due before now + Interval + Slack:
\* the slots up to the Horizon are those it must have served by then.
Horizon ==
  LET longest == CHOOSE o \in Observees : \A p \in Observees : Interval(p) <= Interval(o)
  IN  MaxTime + 1 - Interval(longest) - Slack

SlotsAreServed ==
  \A o \in Observees :
    notified[o] = "up" /\ now <= Horizon ~> notified[o] # "up" \/ nextSlot[o] > Horizon

-----------------------------------------------------------------------------
\* The conjuncts of ProbeInv, behind NoLostWakeup, WakesInTime,
\* SlotsKeepTime and SleepIsShort.

\* The job runs exactly while Dispatch does, and an idle job has no time set.
JobInv ==
  /\ step = "idle" <=> job # "running"
  /\ job = "queued" => due # None
  /\ current # Nobody <=> step \in {"evaluate", "shutdown", "retrigger"}

ActiveInv == \A o \in Observees : active[o] <=> notified[o] # "down"

\* A pass after which nothing is scheduled yet is still to visit every observee
\* that is up, unless it will schedule the job for another one.
WakeInv ==
  job = "running" /\ due = None =>
    \A o \in Observees : Settled(o) =>
      step # "return" /\ (o \in todo \/ o = current \/ earliest # None)

\* While the observees are visited, `earliest` is no later than the slot of any
\* that was visited; afterwards the job has a time that suits them all.
Visited == watched \ {current}

SearchInv ==
  /\ watched \cap todo = {}
  /\ current # Nobody => current \notin todo
  /\ step \notin {"idle", "return"} =>
       /\ due # None => due <= now
       /\ \A o \in Visited : earliest # None /\ earliest <= nextSlot[o]
  /\ step \in {"idle", "return"} =>
       \A o \in watched : due # None /\ (due <= nextSlot[o] + Slack \/ due <= now)

\* Only an observee that was found active is evaluated, and only such a one makes the
\* job sleep.
SleepInv ==
  /\ scheduledTime <= now
  /\ current # Nobody => current \in watched
  /\ earliest # None => watched # {}
  /\ step \in {"idle", "return"} /\ due # None /\ due > now => watched # {}

\* The inductive invariant: what a pass still has to do covers every observee
\* that is up, and its search every one it found active, at slots that keep time.
ProbeInv ==
  /\ TypeOK /\ JobInv /\ ActiveInv /\ WakeInv /\ NoLostWakeup /\ SearchInv
  /\ SlotsKeepTime /\ SleepInv
=============================================================================
