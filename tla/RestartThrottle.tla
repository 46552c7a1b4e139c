--------------------------- MODULE RestartThrottle ---------------------------
(***************************************************************************)
(* The restart throttle of one observed plugin: the members _restartWindow, *)
(* _restartLimit, _restartWindowStart and _restartCount of MonitorObject    *)
(* (plugin/Monitor.h), the handler Deinitialized that consults them when    *)
(* the plugin went down with reason MEMORY_EXCEEDED or FAILURE, and the     *)
(* requests (JSON-RPC restartlimits, HTTP POST) that change them meanwhile  *)
(* on other threads.  A step of an action is one access to a shared atomic. *)
(***************************************************************************)
EXTENDS Integers, Powers

CONSTANTS
  Configs,       \* <<window, limit>> pairs an observable can be configured with
  Updates,       \* <<window, limit>> pairs a request can ask for
  Clients,       \* threads that serve restartlimits and POST requests
  Idle,          \* no call in progress on a thread
  CountModulus,  \* 2^32: _restartCount is a uint32_t
  MaxTime,       \* bound on the clock
  MaxTries       \* bound on the failures counted since the window opened

Pairs == Configs \cup Updates
Windows == {p[1] : p \in Pairs}
Limits == {p[2] : p \in Pairs}

\* A limit is a uint8_t and a window a uint16_t: both are far below CountModulus.
ASSUME PairsAssumption ==
  \A p \in Pairs : p \in Nat \X Nat /\ p[2] < CountModulus
ASSUME BoundsAssumption ==
  CountModulus \in Nat \ {0} /\ MaxTime \in Nat /\ MaxTries \in Nat
ASSUME IdleAssumption == Idle \notin Limits
\* The counter is a word of some width.
ASSUME BinaryAssumption == \E width \in 1..CountModulus : CountModulus = twoTo[width]

VARIABLES
  now,                 \* Core::Time::Now(), in seconds; 0 is an invalid Core::Time
  restartWindow,       \* _restartWindow, std::atomic<uint16_t>
  restartLimit,        \* _restartLimit, std::atomic<uint8_t>
  restartWindowStart,  \* _restartWindowStart: in fact the time the window ends
  restartCount,        \* _restartCount
  call,                \* where the thread in Deinitialized stands
  client,              \* client[c]: the limit c still has to store, or Idle
  (* History, read by the properties only. *)
  tries,               \* failures since the window opened, this one included
  granted,             \* restarts granted since the window opened
  burst,               \* restarts granted since the window opened or the last give-up
  seen                 \* limits in force since this call of RegisterRestart began

settings == <<restartWindow, restartLimit, client>>
history == <<tries, granted, burst, seen>>
vars == <<now, settings, restartWindowStart, restartCount, call, history>>

Calls == {"idle", "window", "reopen", "unlimited", "compare", "granted", "refused"}

Init ==
  /\ now = 1
  /\ \E p \in Configs : restartWindow = p[1] /\ restartLimit = p[2]
  /\ restartWindowStart = 0
  /\ restartCount = 0
  /\ call = "idle"
  /\ client = [c \in Clients |-> Idle]
  /\ tries = 0 /\ granted = 0 /\ burst = 0 /\ seen = {}

-----------------------------------------------------------------------------
(* Deinitialized, for a plugin whose restart is allowed (operational >= 0)  *)
(* and that failed: RegisterRestart decides, then the outcome is announced. *)

\* RegisterRestart begins.
Fail ==
  /\ call = "idle"
  /\ tries < MaxTries
  /\ call' = "window"
  /\ tries' = tries + 1
  /\ seen' = {restartLimit}
  /\ UNCHANGED <<now, settings, restartWindowStart, restartCount, granted, burst>>

\* Mutant of WithinWindow: an open window is not looked at.
WithinWindowNever == restartWindow = 0

WithinWindow == restartWindowStart > now \/ restartWindow = 0

\* Mutants of NextCount: the counter is wider than 32 bits; the failure is not added.
NextCountUnbounded(count) == 2 * count + 1
NextCountDoubled(count) == (2 * count) % CountModulus

\* What `_restartCount += _restartCount + 1` leaves in a uint32_t.
NextCount(count) == (2 * count + 1) % CountModulus

CountRestart ==
  /\ call = "window"
  /\ WithinWindow
  /\ restartCount' = NextCount(restartCount)
  /\ call' = "unlimited"
  /\ UNCHANGED <<now, settings, restartWindowStart, history>>

\* The window is over (or there never was one) ...
LeaveWindow ==
  /\ call = "window"
  /\ ~WithinWindow
  /\ call' = "reopen"
  /\ UNCHANGED <<now, settings, restartWindowStart, restartCount, history>>

\* ... so another opens, with _restartWindow and the clock as they are by then.
OpenWindow ==
  /\ call = "reopen"
  /\ restartWindowStart' = now + restartWindow
  /\ restartCount' = 0
  /\ call' = "unlimited"
  /\ tries' = 1 /\ granted' = 0 /\ burst' = 0
  /\ UNCHANGED <<now, settings, seen>>

Grant ==
  /\ call' = "granted"
  /\ granted' = granted + 1
  /\ burst' = burst + 1

\* The first load of _restartLimit: `_restartLimit == 0` is no limit at all.
TestUnlimited ==
  /\ call = "unlimited"
  /\ \/ restartLimit = 0 /\ Grant
     \/ restartLimit # 0 /\ call' = "compare" /\ UNCHANGED <<granted, burst>>
  /\ UNCHANGED <<now, settings, restartWindowStart, restartCount, tries, seen>>

\* Mutant of TestLimit: a count that has reached the limit is still granted.
TestLimitInclusive ==
  /\ call = "compare"
  /\ \/ restartCount <= restartLimit /\ Grant
     \/ restartCount > restartLimit /\ call' = "refused" /\ UNCHANGED <<granted, burst>>
  /\ UNCHANGED <<now, settings, restartWindowStart, restartCount, tries, seen>>

\* The second load of _restartLimit.
TestLimit ==
  /\ call = "compare"
  /\ \/ restartCount < restartLimit /\ Grant
     \/ restartCount >= restartLimit /\ call' = "refused" /\ UNCHANGED <<granted, burst>>
  /\ UNCHANGED <<now, settings, restartWindowStart, restartCount, tries, seen>>

\* Event action "Activate", and the activation is submitted to the worker pool.
Restart ==
  /\ call = "granted"
  /\ call' = "idle"
  /\ seen' = {}
  /\ UNCHANGED <<now, settings, restartWindowStart, restartCount, tries, granted, burst>>

\* Mutant of GiveUp: the count is not reset.
GiveUpKeepsCount ==
  /\ call = "refused"
  /\ call' = "idle"
  /\ burst' = 0
  /\ seen' = {}
  /\ UNCHANGED <<now, settings, restartWindowStart, restartCount, tries, granted>>

\* Event action "StoppedRestaring": the plugin stays down until someone else
\* activates it.  The count starts over, the window does not.
GiveUp ==
  /\ call = "refused"
  /\ restartCount' = 0
  /\ call' = "idle"
  /\ burst' = 0
  /\ seen' = {}
  /\ UNCHANGED <<now, settings, restartWindowStart, tries, granted>>

-----------------------------------------------------------------------------
(* UpdateRestartLimits on the thread of a request: two stores.              *)

StoreWindow(c, p) ==
  /\ client[c] = Idle
  /\ restartWindow' = p[1]
  /\ client' = [client EXCEPT ![c] = p[2]]
  /\ UNCHANGED <<now, restartLimit, restartWindowStart, restartCount, call, history>>

StoreLimit(c) ==
  /\ client[c] # Idle
  /\ restartLimit' = client[c]
  /\ client' = [client EXCEPT ![c] = Idle]
  /\ seen' = IF call = "idle" THEN seen ELSE seen \cup {client[c]}
  /\ UNCHANGED <<now, restartWindow, restartWindowStart, restartCount, call,
                 tries, granted, burst>>

Tick ==
  /\ now < MaxTime
  /\ now' = now + 1
  /\ UNCHANGED <<settings, restartWindowStart, restartCount, call, history>>

RegisterRestart ==
  \/ Fail \/ CountRestart \/ LeaveWindow \/ OpenWindow
  \/ TestUnlimited \/ TestLimit \/ Restart \/ GiveUp

UpdateRestartLimits(c) == StoreLimit(c) \/ \E p \in Updates : StoreWindow(c, p)

Next == RegisterRestart \/ (\E c \in Clients : UpdateRestartLimits(c)) \/ Tick

Spec == Init /\ [][Next]_vars

-----------------------------------------------------------------------------
TypeOK ==
  /\ now \in Nat
  /\ restartWindow \in Windows
  /\ restartLimit \in Limits
  /\ restartWindowStart \in Nat
  /\ restartCount \in 0..(CountModulus - 1)
  /\ call \in Calls
  /\ client \in [Clients -> Limits \cup {Idle}]
  /\ tries \in Nat /\ granted \in Nat /\ burst \in Nat
  /\ seen \subseteq Limits

\* No restart loop: whenever RegisterRestart grants a restart, either restarts
\* were unlimited at some time of the call, or the restarts granted since the
\* window opened or the monitor last gave up do not exceed a limit that was in
\* force during the call.  This rests on the count never falling behind the
\* number of restarts, also when it doubles past 2^32 while there is no limit
\* and a request then sets one.
BurstBounded ==
  call = "granted" => \E l \in seen : l = 0 \/ burst <= l

\* How much the throttle tolerates: the count doubles with each failure, so that a
\* limit l is reached after about log2(l) restarts.  A burst is neither longer nor
\* given up earlier than that, whatever limits were set in the meantime: when a restart
\* is granted after `burst` others, 2^burst is within the limit just loaded, and when it
\* is refused, 2^(burst + 1) exceeds it.  A limit of 0 grants at once and never refuses,
\* but for one race: lifted between the two loads, it refuses whatever the count is, and
\* that refusal is excepted here.
BurstIsLogarithmic ==
  [][/\ call' = "granted" => restartLimit = 0 \/ twoTo[burst] <= restartLimit
     /\ call' = "refused" => restartLimit = 0 \/ restartLimit < twoTo[burst + 1]]_call

\* A window is never cut short, prolonged or restarted while it is open,
\* whatever window a request sets meanwhile and whenever the clock moves
\* between the test of the window and the store of its successor.
WindowsDoNotOverlap ==
  [][restartWindowStart' # restartWindowStart => restartWindowStart <= now]_vars

\* "limit": Maximum number of times the plugin can be restarted within the
\* "window" time (plugin/Monitor.config).
RestartsWithinLimit ==
  call = "granted" /\ restartLimit # 0 => granted <= restartLimit

\* "Giving up restarting of %s: Failed more than %d times within %d seconds."
\* (the trace of Deinitialized).
GivesUpOnlyBeyondLimit ==
  call = "refused" => tries > restartLimit

-----------------------------------------------------------------------------
\* The conjuncts of IInv, the inductive invariant behind BurstBounded and
\* BurstIsLogarithmic.

Saturated == restartCount = CountModulus - 1

\* The failures of this burst that have been counted: one for each restart granted,
\* and the present one before its verdict.
Failures == IF call \in {"unlimited", "compare", "refused"} THEN burst + 1 ELSE burst

\* The count is a run of ones in binary, so that doubling it cannot wrap to a small
\* number: it stays below CountModulus or sticks at the largest value.  It has a one
\* for each failure, except perhaps for the one that opened the window, until it sticks.
CountInv ==
  \E ones \in 0..Failures :
    /\ restartCount + 1 = twoTo[ones]
    /\ ones < Failures - 1 => Saturated

CallInv ==
  /\ call # "idle" => restartLimit \in seen
  /\ call = "reopen" => restartWindowStart <= now
  /\ call = "granted" => burst > 0 /\ \E l \in seen : l = 0 \/ restartCount < l
  /\ call = "refused" => \E l \in seen : l <= restartCount

\* The inductive invariant: the count is a run of ones, as many as there were
\* failures, and the call in progress knows the limit in force.
IInv == TypeOK /\ CountInv /\ CallInv
=============================================================================
