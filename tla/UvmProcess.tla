----------------------------- MODULE UvmProcess -----------------------------
(***************************************************************************)
(* The cooperative process scheduler of the UVM runtime:                   *)
(* compiler/vir/runtime/abi/lib/Builtin/UVM/Process.cpp (create, spawn,    *)
(* run, drain, advance, notify, the waits), the objection counter of       *)
(* Builtin/UVM/UVM.cpp, the non-blocking stores of Builtin/ABI.cpp and     *)
(* vir_uvm_run_test of Builtin/UVM/ABI.cpp, which drives them.             *)
(*                                                                         *)
(* The scheduler is driven by its most general client: a process body may  *)
(* make any sequence of runtime calls before it suspends.  UvmBench gives  *)
(* the bodies the lowering emits.                                          *)
(*                                                                         *)
(* Handles are allocated in increasing order and order_ is only appended   *)
(* to, so order_ is 1..created and its iteration is in increasing order.   *)
(***************************************************************************)
EXTENDS Naturals, FiniteSets, Sequences

CONSTANTS
  MaxProcs,       \* bound: how many process objects are ever created
  Components,     \* component and sequence handles that own processes
  Names,          \* step names a body may pass to spawn
  Registered,     \* the names register_step has stored
  Events,         \* event names; Clk is the one advance() notifies
  Clk,
  MaxTime,        \* UINT64_MAX
  Delays,         \* arguments of wait_time
  MaxSteps,       \* drain()'s max_steps
  MaxObjections,  \* bound: objections held at once
  MaxNba,         \* bound: non-blocking stores queued in one delta
  Values,         \* values of the stored variable
  InitialValue,
  None            \* no process, no name, no event

ASSUME MaxProcsAssumption == MaxProcs \in Nat
ASSUME TimeAssumption == MaxTime \in Nat /\ Delays \subseteq 0..MaxTime
ASSUME NamesAssumption == Registered \subseteq Names /\ None \notin Names
ASSUME EventsAssumption == Clk \in Events
ASSUME ComponentsAssumption == Components \cap (1..MaxProcs) = {}
ASSUME LimitsAssumption ==
  MaxSteps \in Nat /\ MaxObjections \in Nat /\ MaxNba \in Nat
ASSUME ValuesAssumption == InitialValue \in Values
ASSUME NoneAssumption == None \notin 1..MaxProcs

VARIABLES
  created,     \* order_.size()
  status,      \* the process objects' "status" field, by handle
  wake,        \* "wake_time"
  event,       \* "event"
  name,        \* "name", None where create() was called directly
  owner,       \* "owner"
  now,         \* now_
  objections,  \* the atomic objection counter
  nba,         \* nba_updates: values queued for the variable
  storage,     \* the variable the queued stores write
  phase,       \* where run_test is: setup, loop, delta or ended
  iter,        \* drain()'s iteration
  seen,        \* drain()'s objection_seen
  snap,        \* handles of run()'s snapshot not yet visited
  ran,         \* run()'s snapshot was not empty
  cur,         \* the process whose step is executing
  outcome,     \* how the run phase ended
  fresh,       \* history: processes created in the current delta
  raised       \* history: an objection was raised at some time

procVars   == <<created, status, wake, event, name, owner>>
clientVars == <<objections, raised, nba, storage>>
drainVars  == <<phase, iter, seen, snap, ran, cur, outcome>>
vars == <<procVars, clientVars, drainVars, now, fresh>>

Procs  == 1..MaxProcs
Made   == 1..created
Absent == "absent"
Times  == 0..MaxTime

WithStatus(s) == {p \in Procs : status[p] = s}
Unfinished    == {p \in Made : status[p] # "done"}
Running       == {cur} \ {None}

Init ==
  /\ created = 0
  /\ status = [p \in Procs |-> Absent]
  /\ wake = [p \in Procs |-> 0]
  /\ event = [p \in Procs |-> None]
  /\ name = [p \in Procs |-> None]
  /\ owner = [p \in Procs |-> None]
  /\ now = 0
  /\ objections = 0 /\ raised = FALSE
  /\ nba = <<>> /\ storage = InitialValue
  /\ phase = "setup" /\ iter = 0 /\ seen = FALSE
  /\ snap = {} /\ ran = FALSE /\ cur = None /\ outcome = "none"
  /\ fresh = {}

-----------------------------------------------------------------------------
(* Calls a body, or the code of the build, connect and run phases, makes.  *)

\* A phase function of a component, before drain(), or a process step.
InClient == phase = "setup" \/ cur # None

\* An exception leaves drain() and run_test() at once.
Throw ==
  /\ phase' = "ended" /\ outcome' = "thrown" /\ cur' = None
  /\ UNCHANGED <<iter, seen, snap, ran>>

CreateAs(n, o) ==
  LET p == created + 1 IN
    /\ created < MaxProcs
    /\ created' = p
    /\ status' = [status EXCEPT ![p] = "ready"]
    /\ name' = [name EXCEPT ![p] = n]
    /\ owner' = [owner EXCEPT ![p] = o]
    /\ fresh' = fresh \cup {p}
    /\ UNCHANGED <<wake, event>>

\* create(), called by a registered run_phase of a component.
Create(c) ==
  /\ phase = "setup"
  /\ CreateAs(None, c)
  /\ UNCHANGED <<clientVars, drainVars, now>>

Normalize(h) == IF h \in Made THEN owner[h] ELSE h

\* Mutant: spawn() looks only at processes that are ready.
SameReadyOnly(n, o) ==
  {p \in WithStatus("ready") : name[p] = n /\ owner[p] = o}

\* The process spawn() returns instead of making a second one.
Same(n, o) == {p \in Unfinished : name[p] = n /\ owner[p] = o}

Spawn(n, h) ==
  /\ InClient
  /\ n \in Registered
  /\ Same(n, Normalize(h)) = {}
  /\ CreateAs(n, Normalize(h))
  /\ UNCHANGED <<clientVars, drainVars, now>>

SpawnUnknown(n) ==
  /\ InClient
  /\ n \notin Registered
  /\ Throw
  /\ UNCHANGED <<procVars, clientVars, now, fresh>>

RaiseObjection ==
  /\ InClient
  /\ objections < MaxObjections
  /\ objections' = objections + 1 /\ raised' = TRUE
  /\ UNCHANGED <<procVars, drainVars, now, fresh, nba, storage>>

DropObjection ==
  /\ InClient
  /\ objections # 0
  /\ objections' = objections - 1
  /\ UNCHANGED <<procVars, drainVars, now, fresh, raised, nba, storage>>

DropUnderflow ==
  /\ InClient
  /\ objections = 0
  /\ Throw
  /\ UNCHANGED <<procVars, clientVars, now, fresh>>

\* The statuses after notify(e), applied to statuses s.
Notified(s, e) ==
  [p \in Procs |-> IF s[p] = "waiting_event" /\ event[p] = e
                   THEN "ready" ELSE s[p]]

Notify(e) ==
  /\ cur # None
  /\ status' = Notified(status, e)
  /\ UNCHANGED <<created, wake, event, name, owner>>
  /\ UNCHANGED <<clientVars, drainVars, now, fresh>>

NbaStore(v) ==
  /\ cur # None
  /\ Len(nba) < MaxNba
  /\ nba' = Append(nba, v)
  /\ UNCHANGED <<procVars, drainVars, now, fresh, objections, raised, storage>>

-----------------------------------------------------------------------------
(* How a step ends: the code after a wait is reached by a later step.      *)

StepReturns(s) ==
  /\ cur # None
  /\ status' = [status EXCEPT ![cur] = s]
  /\ cur' = None
  /\ UNCHANGED <<created, name, owner, clientVars, now, fresh>>
  /\ UNCHANGED <<phase, iter, seen, snap, ran, outcome>>

WaitTime(d) ==
  /\ StepReturns("waiting_time")
  /\ wake' = [wake EXCEPT ![cur] = (now + d) % (MaxTime + 1)]
  /\ UNCHANGED event

WaitEvent(e) ==
  /\ StepReturns("waiting_event")
  /\ event' = [event EXCEPT ![cur] = e]
  /\ UNCHANGED wake

Complete == StepReturns("done") /\ UNCHANGED <<wake, event>>

\* A step that returns without waiting is stepped again in the next delta.
ReturnReady == StepReturns("ready") /\ UNCHANGED <<wake, event>>

-----------------------------------------------------------------------------
(* run(): one delta.                                                       *)

StartDrain ==
  /\ phase = "setup"
  /\ created > 0
  /\ phase' = "loop"
  /\ UNCHANGED <<procVars, clientVars, now, fresh>>
  /\ UNCHANGED <<iter, seen, snap, ran, cur, outcome>>

\* run_test calls drain() only when a process exists.
SkipDrain ==
  /\ phase = "setup"
  /\ created = 0
  /\ phase' = "ended" /\ outcome' = "drained"
  /\ UNCHANGED <<procVars, clientVars, now, fresh>>
  /\ UNCHANGED <<iter, seen, snap, ran, cur>>

\* Mutants: the snapshot takes every live process; it misses the newest.
SnapshotOfLive == Unfinished
SnapshotOffByOne == {p \in WithStatus("ready") : p < created}

Snapshot == WithStatus("ready")

BeginRun ==
  /\ phase = "loop"
  /\ iter < MaxSteps
  /\ snap' = Snapshot /\ ran' = (Snapshot # {})
  /\ phase' = "delta" /\ fresh' = {}
  /\ UNCHANGED <<procVars, clientVars, now, iter, seen, cur, outcome>>

\* The next handle of the snapshot, in creation order.
IsNext(p) == p \in snap /\ \A q \in snap : p <= q

StepProcess(p) ==
  /\ phase = "delta" /\ cur = None
  /\ IsNext(p)
  /\ snap' = snap \ {p}
  /\ cur' = IF status[p] = "ready" THEN p ELSE None
  /\ UNCHANGED <<procVars, clientVars, now, fresh, phase, iter, seen, ran, outcome>>

-----------------------------------------------------------------------------
(* The rest of drain()'s loop body, after run() has visited its snapshot.  *)

DeltaOver == phase = "delta" /\ cur = None /\ snap = {}

\* Mutant: the queue is copied out but never cleared.
FlushNbaKeeps ==
  /\ nba' = nba
  /\ storage' = IF nba = <<>> THEN storage ELSE nba[Len(nba)]

FlushNba ==
  /\ nba' = <<>>
  /\ storage' = IF nba = <<>> THEN storage ELSE nba[Len(nba)]

\* Mutant: the objection is not latched.
SeenUnlatched == objections # 0

SeenNow == seen \/ objections # 0
Dropped == SeenNow /\ objections = 0

Ends(o) == phase' = "ended" /\ outcome' = o /\ UNCHANGED <<iter, snap, ran, cur>>

Continues ==
  /\ phase' = "loop" /\ iter' = iter + 1
  /\ UNCHANGED <<snap, ran, cur, outcome>>

\* What every way out of the delta has in common.
DeltaStep ==
  /\ DeltaOver
  /\ FlushNba
  /\ seen' = SeenNow
  /\ UNCHANGED <<created, wake, event, name, owner, objections, raised, fresh>>

ObjectionsDropped ==
  /\ DeltaStep
  /\ Dropped
  /\ status' = [p \in Procs |-> IF p \in Made THEN "done" ELSE status[p]]
  /\ Ends("drained")
  /\ UNCHANGED now

NextDelta ==
  /\ DeltaStep
  /\ ~Dropped /\ ran
  /\ Continues
  /\ UNCHANGED <<status, now>>

Idle == DeltaStep /\ ~Dropped /\ ~ran

AllDone ==
  /\ Idle
  /\ Unfinished = {}
  /\ Ends("drained")
  /\ UNCHANGED <<status, now>>

WakeTimes == {wake[p] : p \in WithStatus("waiting_time")}

\* Mutant: any wake time will do.
IsAnyWake(t) == t \in WakeTimes \cup {MaxTime}

\* next, the smallest wake time; UINT64_MAX when nobody waits for time.
IsEarliest(t) ==
  /\ t \in WakeTimes \cup {MaxTime}
  /\ \A u \in WakeTimes : t <= u

Deadlock ==
  /\ Idle
  /\ Unfinished # {}
  /\ IsEarliest(MaxTime)
  /\ Ends("deadlock")
  /\ UNCHANGED <<status, now>>

\* advance() refuses a time before now_: a wake time that wrapped around.
Backwards(t) == t < now

TimeBackwards(t) ==
  /\ Idle
  /\ t < MaxTime /\ IsEarliest(t)
  /\ Backwards(t)
  /\ Ends("thrown")
  /\ UNCHANGED <<status, now>>

Woken(t) ==
  [p \in Procs |-> IF status[p] = "waiting_time" /\ wake[p] <= t
                   THEN "ready" ELSE status[p]]

\* advance(): the clock tick succeeds, sleepers and clock waiters wake.  The
\* clocked callback of tick() queues stores of its own and flushes them.
Advance(t) ==
  /\ DeltaOver /\ ~Dropped /\ ~ran
  /\ seen' = SeenNow
  /\ t < MaxTime /\ IsEarliest(t)
  /\ ~Backwards(t)
  /\ now' = t
  /\ nba' = <<>>
  /\ \/ storage' = IF nba = <<>> THEN storage ELSE nba[Len(nba)]
     \/ \E v \in Values : storage' = v
  /\ status' = Notified(Woken(t), Clk)
  /\ Continues
  /\ UNCHANGED <<created, wake, event, name, owner, objections, raised, fresh>>

\* advance(): tick() reports an error of the transport.
TickFails(t) ==
  /\ Idle
  /\ t < MaxTime /\ IsEarliest(t)
  /\ ~Backwards(t)
  /\ now' = t
  /\ Ends("thrown")
  /\ UNCHANGED status

StepLimit ==
  /\ phase = "loop"
  /\ iter = MaxSteps
  /\ Ends("limit")
  /\ UNCHANGED <<procVars, clientVars, now, fresh, seen>>

-----------------------------------------------------------------------------
Call ==
  \/ \E c \in Components : Create(c)
  \/ \E n \in Names, h \in Components \cup Running : Spawn(n, h)
  \/ \E n \in Names : SpawnUnknown(n)
  \/ RaiseObjection
  \/ DropObjection
  \/ DropUnderflow
  \/ \E e \in Events : Notify(e)
  \/ \E v \in Values : NbaStore(v)

Return ==
  \/ \E d \in Delays : WaitTime(d)
  \/ \E e \in Events : WaitEvent(e)
  \/ Complete
  \/ ReturnReady

Scheduler ==
  \/ StartDrain \/ SkipDrain
  \/ BeginRun
  \/ \E p \in Procs : StepProcess(p)
  \/ ObjectionsDropped \/ NextDelta \/ AllDone \/ Deadlock
  \/ \E t \in Times : TimeBackwards(t) \/ Advance(t) \/ TickFails(t)
  \/ StepLimit

Next == Call \/ Return \/ Scheduler

Spec == Init /\ [][Next]_vars

---------------------------------------------------------------------------
(***************************************************************************)
(* What must hold of the scheduler of UvmProcess.                          *)
(***************************************************************************)

Statuses == {Absent, "ready", "waiting_time", "waiting_event", "done"}
Outcomes == {"none", "drained", "deadlock", "limit", "thrown"}

\* The variables have their types; the handles made so far are 1..created.
TypeOK ==
  /\ created \in 0..MaxProcs
  /\ status \in [Procs -> Statuses]
  /\ \A p \in Procs : status[p] = Absent <=> p > created
  /\ wake \in [Procs -> Times]
  /\ event \in [Procs -> Events \cup {None}]
  /\ name \in [Procs -> Registered \cup {None}]
  /\ owner \in [Procs -> Components \cup {None}]
  /\ \A p \in Made : owner[p] \in Components
  /\ now \in Times
  /\ objections \in Nat /\ raised \in BOOLEAN
  /\ nba \in Seq(Values) /\ storage \in Values
  /\ phase \in {"setup", "loop", "delta", "ended"}
  /\ iter \in 0..MaxSteps /\ seen \in BOOLEAN
  /\ snap \subseteq Made /\ ran \in BOOLEAN
  /\ cur \in Made \cup {None}
  /\ outcome \in Outcomes
  /\ fresh \subseteq Made

\* "A delta-cycle snapshot prevents a process that yields at the current time
\* from starving its peers" (Process.cpp:60): whatever the bodies of a delta
\* call, a process of the snapshot that was not visited yet is still ready, so
\* the second status test of run() never drops its turn; the running process
\* has left the snapshot and is itself still ready until it suspends.
SnapshotKeepsTurn ==
  /\ phase = "delta" => \A p \in snap : status[p] = "ready"
  /\ cur # None => phase = "delta" /\ status[cur] = "ready" /\ cur \notin snap

\* "Newly spawned processes run next delta" (Process.cpp:61): a process made by
\* a body is never stepped in the delta that made it.
SpawnedRunsNextDelta == cur \notin fresh

\* spawn() gives one live process per task name and owner: a call of a task
\* that still runs joins it, across deltas, waits and completions.
OneLivePerTask ==
  \A p, q \in Unfinished :
    name[p] # None /\ name[p] = name[q] /\ owner[p] = owner[q] => p = q

\* No wake-up, notification or late suspension brings a finished process back.
DoneIsFinal ==
  [][\A p \in Procs : status[p] = "done" => status'[p] = "done"]_vars

\* A sleeper is woken at its wake time, neither before nor after it, and stays
\* asleep through every event; a process that waits for an event is woken only
\* by that event, or by the clock edge of an advance when it waits for Clk.
WokenByWhatItWaitsFor ==
  [][\A p \in Procs :
       /\ status[p] = "waiting_time" /\ status'[p] = "ready" => now' = wake[p]
       /\ status[p] = "waiting_event" /\ status'[p] = "ready" =>
            cur # None \/ event[p] = Clk]_vars

\* Time never goes back, and it moves only when no process was ready and no
\* sleeper is left behind: each still waits for now or later, or drain() stopped.
TimeMovesWhenIdle ==
  [][now' # now =>
       /\ now' > now
       /\ WithStatus("ready") = {}
       /\ \A p \in WithStatus("waiting_time")' : now' < wake'[p] \/ outcome' = "thrown"]_vars

\* When drain() reports a deadlock, it is one: somebody is unfinished and every
\* such process waits for an event, or for the time UINT64_MAX, at which
\* drain() does not look.
DeadlockIsReal ==
  outcome = "deadlock" =>
    /\ Unfinished # {}
    /\ \A p \in Unfinished :
         \/ status[p] = "waiting_event"
         \/ status[p] = "waiting_time" /\ wake[p] = MaxTime

\* The scheduler ends a process that did not end itself only when objections
\* were raised and the last one is dropped, and then it ends every process.
KilledOnlyWhenDropped ==
  [][\A p \in Procs :
       status[p] # "done" /\ status'[p] = "done" /\ p # cur =>
         raised /\ objections = 0 /\ Unfinished' = {} /\ outcome' = "drained"]_vars

\* A run phase that drained left no process unfinished and no store unflushed.
DrainedLeavesNothing == outcome = "drained" => Unfinished = {} /\ nba = <<>>

\* The steps of one delta read the variable as it was when the delta began:
\* the order of the steps cannot decide what they read.
ReadsAreStable ==
  [][phase = "delta" /\ phase' = "delta" => storage' = storage]_vars

-----------------------------------------------------------------------------
\* The delta loop implements the discrete-event machine of RunPhase.
Abstract == INSTANCE RunPhase WITH running <- cur, over <- outcome
ImplementsRunPhase == Abstract!PSpec
=============================================================================
