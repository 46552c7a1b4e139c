------------------------------ MODULE Observee ------------------------------
(***************************************************************************)
(* The data of one MonitorObject (plugin/Monitor.h) that several threads   *)
(* share: the memory interface _source with its reference counts, the flag *)
(* _operational and the statistics _measurement.  _adminLock guards        *)
(* _source and the writers of _measurement; readers of _measurement get a  *)
(* reference and follow it after they left the lock.  Three kinds of       *)
(* threads meet here: the notifications about the plugin, Evaluate in the  *)
(* probe job, and the requests that read or reset the statistics.          *)
(***************************************************************************)
EXTENDS Integers

CONSTANTS
  Instances,   \* memory interfaces; each activation of the plugin brings its own
  Requests,    \* threads that serve status, resetstats, GET and PUT
  NumFields,   \* resident, allocated, shared and process: 4 in the code
  MaxSamples,  \* bound on the samples taken
  Null,        \* no memory interface
  Free,        \* nobody owns _adminLock
  Evaluator    \* the probe job owns _adminLock

Fields == 1..NumFields

ASSUME FieldsAssumption == NumFields \in Nat \ {0} /\ MaxSamples \in Nat
ASSUME SentinelAssumption ==
  /\ Null \notin Instances
  /\ Free \notin Requests \cup {Evaluator} /\ Evaluator \notin Requests

VARIABLES
  source,       \* _source
  operational,  \* _operational
  measured,     \* _measurement: the sample each field was set to last, 0: none
  owner,        \* who owns _adminLock
  refs,         \* references the monitor has on each memory interface
  closed,       \* the MonitorObject was destroyed
  (* the notifications *)
  plugin,       \* where they stand
  memory,       \* the local of Activated
  (* Evaluate *)
  evaluation,   \* where it stands
  held,         \* the proxy it took from Source()
  answer,       \* what IsOperational() answered; TRUE when it was not asked
  failing,      \* whether the local status holds NOT_OPERATIONAL
  sample,       \* the number of samples taken
  field,        \* the field it sets next
  (* the requests *)
  request,      \* where each stands
  next,         \* the field each reads or resets next
  copy          \* what each read

stats == <<measured, owner>>
status == <<answer, failing>>
notification == <<plugin, memory>>
evaluate == <<evaluation, held, status, sample, field>>
requests == <<request, next, copy>>
vars == <<source, operational, stats, refs, closed, notification, evaluate, requests>>

Init ==
  /\ source = Null /\ operational = FALSE
  /\ measured = [f \in Fields |-> 0]
  /\ owner = Free
  /\ refs = [i \in Instances |-> 0]
  /\ closed = FALSE
  /\ plugin = "down" /\ memory = Null
  /\ evaluation = "idle" /\ held = Null /\ answer = TRUE /\ failing = FALSE
  /\ sample = 0 /\ field = 1
  /\ request = [r \in Requests |-> "idle"]
  /\ next = [r \in Requests |-> 1]
  /\ copy = [r \in Requests |-> [f \in Fields |-> 0]]

\* AddRef and Release, on the counts `r`; Null has none.
AddRef(r, i) == IF i = Null THEN r ELSE [r EXCEPT ![i] = @ + 1]
Release(r, i) == IF i = Null THEN r ELSE [r EXCEPT ![i] = @ - 1]

-----------------------------------------------------------------------------
(* Activated: QueryInterface hands out a reference, Set stores a second one *)
(* and the flag, then the first is released.                                *)

Activated ==
  /\ plugin = "down" /\ ~closed
  /\ \/ \E i \in Instances :
          /\ refs[i] = 0
          /\ memory' = i /\ refs' = AddRef(refs, i)
          /\ plugin' = "queried"
     \/ UNCHANGED <<memory, refs>> /\ plugin' = "up"
  /\ UNCHANGED <<source, operational, stats, closed, evaluate, requests>>

\* Mutant of Set: the source that is replaced is not released.
SetLeaking(i) ==
  /\ owner = Free
  /\ source' = i
  /\ refs' = AddRef(refs, i)

\* The part of Set under the lock.
Set(i) ==
  /\ owner = Free
  /\ source' = i
  /\ refs' = AddRef(Release(refs, source), i)

SetMemory ==
  /\ plugin = "queried"
  /\ Set(memory)
  /\ plugin' = "set"
  /\ UNCHANGED <<operational, stats, closed, memory, evaluate, requests>>

FlagUp ==
  /\ plugin = "set"
  /\ operational' = TRUE
  /\ plugin' = "flagged"
  /\ UNCHANGED <<source, stats, refs, closed, memory, evaluate, requests>>

ReleaseMemory ==
  /\ plugin = "flagged"
  /\ refs' = Release(refs, memory)
  /\ memory' = Null
  /\ plugin' = "up"
  /\ UNCHANGED <<source, operational, stats, closed, evaluate, requests>>

(* Deinitialized: Set(nullptr).                                             *)

Deinitialized ==
  /\ plugin = "up" /\ ~closed
  /\ Set(Null)
  /\ plugin' = "cleared"
  /\ UNCHANGED <<operational, stats, closed, memory, evaluate, requests>>

FlagDown ==
  /\ plugin = "cleared"
  /\ operational' = FALSE
  /\ plugin' = "down"
  /\ UNCHANGED <<source, stats, refs, closed, memory, evaluate, requests>>

-----------------------------------------------------------------------------
(* Evaluate.  The slots that decide which checks are due are in ProbeLoop:  *)
(* here either check may or may not be.                                     *)

\* Mutant of TakeSource: Source() hands out the bare pointer.
TakePointer ==
  /\ evaluation = "idle" /\ ~closed
  /\ owner = Free /\ source # Null
  /\ held' = source
  /\ evaluation' = "check"
  /\ UNCHANGED <<source, operational, stats, refs, closed, notification, status, sample,
                 field, requests>>

\* Source(), when there is one; Evaluate does nothing when there is none.
TakeSource ==
  /\ evaluation = "idle" /\ ~closed
  /\ owner = Free /\ source # Null
  /\ held' = source
  /\ refs' = AddRef(refs, source)
  /\ evaluation' = "check"
  /\ UNCHANGED <<source, operational, stats, closed, notification, status, sample, field,
                 requests>>

\* IsOperational() is a call into the plugin, or out of its process ...
AskOperational ==
  /\ evaluation = "check"
  /\ \/ answer' \in BOOLEAN /\ evaluation' = "answered"
     \/ UNCHANGED answer /\ evaluation' = "measure"
  /\ UNCHANGED <<source, operational, stats, refs, closed, notification, held, failing,
                 sample, field, requests>>

\* ... its answer is stored whatever happened meanwhile ...
StoreOperational ==
  /\ evaluation = "answered"
  /\ operational' = answer
  /\ evaluation' = "judge"
  /\ UNCHANGED <<source, stats, refs, closed, notification, held, answer, failing, sample,
                 field, requests>>

\* ... and loaded again for the verdict.
JudgeOperational ==
  /\ evaluation = "judge"
  /\ failing' = ~operational
  /\ evaluation' = "measure"
  /\ UNCHANGED <<source, operational, stats, refs, closed, notification, held, answer,
                 sample, field, requests>>

\* Resident(), Allocated(), Shared() and Processes() make one sample.
TakeSample ==
  /\ evaluation = "measure"
  /\ \/ sample < MaxSamples /\ sample' = sample + 1 /\ evaluation' = "lock"
     \/ UNCHANGED sample /\ evaluation' = "leave"
  /\ UNCHANGED <<source, operational, stats, refs, closed, notification, held, status,
                 field, requests>>

LockMeasurement ==
  /\ evaluation = "lock"
  /\ owner = Free
  /\ owner' = Evaluator
  /\ field' = 1
  /\ evaluation' = "add"
  /\ UNCHANGED <<source, operational, measured, refs, closed, notification, held, status,
                 sample, requests>>

\* AddMeasurements, one field at a time; the lock is left after the last.
AddMeasurement ==
  /\ evaluation = "add"
  /\ measured' = [measured EXCEPT ![field] = sample]
  /\ \/ /\ field < NumFields /\ field' = field + 1
        /\ UNCHANGED <<owner, evaluation>>
     \/ /\ field = NumFields /\ field' = 1
        /\ owner' = Free /\ evaluation' = "leave"
  /\ UNCHANGED <<source, operational, refs, closed, notification, held, status, sample,
                 requests>>

\* The proxy goes out of scope.
LeaveEvaluate ==
  /\ evaluation = "leave"
  /\ refs' = Release(refs, held)
  /\ held' = Null /\ answer' = TRUE /\ failing' = FALSE
  /\ evaluation' = "idle"
  /\ UNCHANGED <<source, operational, stats, closed, notification, sample, field, requests>>

-----------------------------------------------------------------------------
(* Requests.  Measurement() locks, takes a reference, unlocks ...           *)

Measurement(r) ==
  /\ request[r] = "idle" /\ ~closed
  /\ owner = Free
  /\ request' = [request EXCEPT ![r] = "read"]
  /\ UNCHANGED <<source, operational, stats, refs, closed, notification, evaluate, next,
                 copy>>

\* ... and the fields are read through it one by one, without the lock.
ReadField(r) ==
  /\ request[r] = "read"
  /\ copy' = [copy EXCEPT ![r][next[r]] = measured[next[r]]]
  /\ \/ /\ next[r] < NumFields /\ next' = [next EXCEPT ![r] = @ + 1]
        /\ UNCHANGED request
     \/ /\ next[r] = NumFields /\ next' = [next EXCEPT ![r] = 1]
        /\ request' = [request EXCEPT ![r] = "reply"]
  /\ UNCHANGED <<source, operational, stats, refs, closed, notification, evaluate>>

\* status and GET: the response is complete.
Reply(r) ==
  /\ request[r] = "reply"
  /\ request' = [request EXCEPT ![r] = "idle"]
  /\ copy' = [copy EXCEPT ![r] = [f \in Fields |-> 0]]
  /\ UNCHANGED <<source, operational, stats, refs, closed, notification, evaluate, next>>

\* Mutant of Reset: it does without the lock.
ResetUnlocked(r) ==
  /\ request[r] = "reply"
  /\ request' = [request EXCEPT ![r] = "reset"]
  /\ UNCHANGED <<source, operational, stats, refs, closed, notification, evaluate, next,
                 copy>>

\* resetstats and PUT go on to reset what they have read.
Reset(r) ==
  /\ request[r] = "reply"
  /\ owner = Free
  /\ owner' = r
  /\ request' = [request EXCEPT ![r] = "reset"]
  /\ UNCHANGED <<source, operational, measured, refs, closed, notification, evaluate, next,
                 copy>>

ResetField(r) ==
  /\ request[r] = "reset"
  /\ measured' = [measured EXCEPT ![next[r]] = 0]
  /\ \/ /\ next[r] < NumFields /\ next' = [next EXCEPT ![r] = @ + 1]
        /\ UNCHANGED <<owner, request, copy>>
     \/ /\ next[r] = NumFields /\ next' = [next EXCEPT ![r] = 1]
        /\ owner' = Free
        /\ request' = [request EXCEPT ![r] = "idle"]
        /\ copy' = [copy EXCEPT ![r] = [f \in Fields |-> 0]]
  /\ UNCHANGED <<source, operational, refs, closed, notification, evaluate>>

-----------------------------------------------------------------------------
\* Close: Deinitialize has unregistered the requests and the notifications, and
\* Revoke has waited for the job; then the destructor releases the source.
Close ==
  /\ ~closed
  /\ plugin \in {"up", "down"} /\ evaluation = "idle"
  /\ \A r \in Requests : request[r] = "idle"
  /\ refs' = Release(refs, source)
  /\ source' = Null
  /\ closed' = TRUE
  /\ UNCHANGED <<operational, stats, notification, evaluate, requests>>

Notification ==
  \/ Activated \/ SetMemory \/ FlagUp \/ ReleaseMemory \/ Deinitialized \/ FlagDown

Evaluate ==
  \/ TakeSource \/ AskOperational \/ StoreOperational \/ JudgeOperational
  \/ TakeSample \/ LockMeasurement \/ AddMeasurement \/ LeaveEvaluate

Serve(r) == Measurement(r) \/ ReadField(r) \/ Reply(r) \/ Reset(r) \/ ResetField(r)

Next == Notification \/ Evaluate \/ (\E r \in Requests : Serve(r)) \/ Close

Spec == Init /\ [][Next]_vars

-----------------------------------------------------------------------------
TypeOK ==
  /\ source \in Instances \cup {Null} /\ operational \in BOOLEAN
  /\ measured \in [Fields -> Nat]
  /\ owner \in Requests \cup {Free, Evaluator}
  /\ refs \in [Instances -> Nat]
  /\ closed \in BOOLEAN
  /\ plugin \in {"down", "queried", "set", "flagged", "up", "cleared"}
  /\ memory \in Instances \cup {Null}
  /\ evaluation \in {"idle", "check", "answered", "judge", "measure", "lock", "add", "leave"}
  /\ held \in Instances \cup {Null} /\ answer \in BOOLEAN /\ failing \in BOOLEAN
  /\ sample \in Nat /\ field \in Fields
  /\ request \in [Requests -> {"idle", "read", "reply", "reset"}]
  /\ next \in [Requests -> Fields]
  /\ copy \in [Requests -> [Fields -> Nat]]

\* A memory interface is never used after the monitor gave up its last reference
\* on it: neither by Set, which releases the stored one, nor by an Evaluate that
\* Deinitialized overtakes between Source() and the calls into the plugin.
NoUseAfterRelease ==
  \A i \in {source, held, memory} \ {Null} : refs[i] > 0

\* No reference is leaked: once the plugin is down, or the monitor closed, and
\* Evaluate has left, the monitor keeps no memory interface of it alive.
NoLeak ==
  (plugin = "down" \/ closed) /\ evaluation = "idle" => \A i \in Instances : refs[i] = 0

\* While nobody owns the lock, the statistics stem from one sample, or are all
\* reset: AddMeasurements and Reset exclude each other field by field.
StatisticsWhole ==
  owner = Free => \A f, g \in Fields : measured[f] = measured[g]

\* "Data Consistency: Thread-safe access to monitoring data" (PRODUCT.md): what
\* a request answers are the statistics as they were at one time.
AnswersWhole ==
  \A r \in Requests : request[r] = "reply" =>
    \A f, g \in Fields : copy[r][f] = copy[r][g]

\* The plugin is judged by its own answer ("Status not operational."), not by what
\* a notification stores in _operational meanwhile ("no ordering needed, atomic
\* should suffice", plugin/Monitor.h).
VerdictIsAnswer ==
  evaluation \in {"measure", "lock", "add", "leave"} => failing = ~answer

\* A plugin that is down is not reported as operational: for _operational, "no
\* ordering needed, atomic should suffice" (plugin/Monitor.h).
DownIsNotOperational ==
  plugin = "down" /\ evaluation = "idle" => ~operational
-----------------------------------------------------------------------------
\* The inductive invariants behind NoUseAfterRelease and NoLeak ...

\* How often pointer p counts as a reference on i.
One(p, i) == IF p = i THEN 1 ELSE 0

\* Each reference belongs to a pointer that is in use, and the other way round.
RefsInv ==
  /\ \A i \in Instances : refs[i] = One(source, i) + One(held, i) + One(memory, i)
  /\ memory # Null <=> plugin \in {"queried", "set", "flagged"}
  /\ held # Null <=> evaluation # "idle"
  /\ plugin \in {"down", "queried", "cleared"} => source = Null
  /\ closed => source = Null /\ memory = Null /\ held = Null

\* ... and behind StatisticsWhole: the owner of the lock has set the fields
\* before the one it is at.
StatisticsInv ==
  /\ owner = Evaluator <=> evaluation = "add"
  /\ \A r \in Requests :
       /\ owner = r <=> request[r] = "reset"
       /\ request[r] \in {"idle", "reply"} => next[r] = 1
  /\ owner = Evaluator => \A f \in Fields : f < field => measured[f] = sample
  /\ \A r \in Requests : owner = r =>
       \A f \in Fields : f < next[r] => measured[f] = 0
  /\ StatisticsWhole

\* The inductive invariant: references belong to pointers in use, and the
\* statistics to the owner of the lock.
ObserveeInv == TypeOK /\ RefsInv /\ StatisticsInv
=============================================================================
