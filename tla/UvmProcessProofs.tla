-------------------------- MODULE UvmProcessProofs --------------------------
(***************************************************************************)
(* Proofs about UvmProcess, for every number of processes, every set of    *)
(* names, events and delays and every width of the clock.                  *)
(***************************************************************************)
EXTENDS UvmProcess, TLAPS

(***************************************************************************)
(* The inductive invariant.  Turns says what run() relies on while it      *)
(* walks its snapshot; Quiet, that an empty snapshot means that nobody is  *)
(* ready; Latches, what the objection latch of drain() remembers.          *)
(***************************************************************************)
Turns ==
  /\ SnapshotKeepsTurn
  /\ phase = "delta" => snap \cap fresh = {}
  /\ SpawnedRunsNextDelta

Quiet == phase = "delta" /\ ~ran => snap = {} /\ cur = None /\ WithStatus("ready") = {}

Latches ==
  /\ seen => raised
  /\ objections # 0 => raised
  /\ outcome = "none" <=> phase # "ended"

Budget == phase = "delta" => iter < MaxSteps

IInv == TypeOK /\ Turns /\ Quiet /\ Latches /\ Budget

USE MaxProcsAssumption, TimeAssumption, NamesAssumption, EventsAssumption,
    ComponentsAssumption, LimitsAssumption, ValuesAssumption, NoneAssumption
    DEF Procs, Made, Times, Absent

LEMMA InitTypeOK == Init => TypeOK
<1> SUFFICES ASSUME Init PROVE TypeOK
  OBVIOUS
<1> USE DEF Init
<1>1. nba \in Seq(Values)
  OBVIOUS
<1>2. /\ status \in [Procs -> Statuses]
      /\ \A p \in Procs : status[p] = Absent <=> p > created
  BY DEF Statuses
<1>3. /\ event \in [Procs -> Events \cup {None}]
      /\ name \in [Procs -> Registered \cup {None}]
      /\ owner \in [Procs -> Components \cup {None}]
  OBVIOUS
<1>4. wake \in [Procs -> Times] /\ now \in Times
  OBVIOUS
<1>5. created \in 0..MaxProcs /\ Made = {}
  OBVIOUS
<1>6. iter \in 0..MaxSteps /\ objections \in Nat /\ storage \in Values
  OBVIOUS
<1>7. snap = {} /\ fresh = {} /\ cur = None /\ outcome \in Outcomes
  BY DEF Outcomes
<1>8. phase = "setup" /\ seen = FALSE /\ ran = FALSE /\ raised = FALSE
  OBVIOUS
<1> HIDE DEF Init, Made
<1> QED BY <1>1, <1>2, <1>3, <1>4, <1>5, <1>6, <1>7, <1>8 DEF TypeOK

LEMMA CallTypeOK ==
  ASSUME TypeOK, Turns, Call
  PROVE  TypeOK'
<1> USE DEF TypeOK, clientVars, drainVars, procVars, Statuses, Outcomes
<1>1. ASSUME NEW n \in Registered \cup {None}, NEW o \in Components, CreateAs(n, o),
             UNCHANGED <<clientVars, drainVars, now>>
      PROVE  TypeOK'
  BY <1>1 DEF CreateAs
<1>2. ASSUME NEW c \in Components, Create(c) PROVE TypeOK'
  BY <1>1, <1>2 DEF Create
<1>3. ASSUME NEW n \in Names, NEW h \in Components \cup Running, Spawn(n, h)
      PROVE  TypeOK'
  <2>1. Normalize(h) \in Components
    BY DEF Normalize, Running
  <2>2. QED BY <1>1, <1>3, <2>1 DEF Spawn
<1>4. ASSUME NEW n \in Names, SpawnUnknown(n) PROVE TypeOK'
  BY <1>4 DEF SpawnUnknown, Throw
<1>5. CASE RaiseObjection BY <1>5 DEF RaiseObjection
<1>6. CASE DropObjection BY <1>6 DEF DropObjection
<1>7. CASE DropUnderflow BY <1>7 DEF DropUnderflow, Throw
<1>8. ASSUME NEW e \in Events, Notify(e) PROVE TypeOK'
  BY <1>8 DEF Notify, Notified
<1>9. ASSUME NEW v \in Values, NbaStore(v) PROVE TypeOK'
  BY <1>9 DEF NbaStore
<1> QED BY <1>2, <1>3, <1>4, <1>5, <1>6, <1>7, <1>8, <1>9 DEF Call

LEMMA ReturnTypeOK ==
  ASSUME TypeOK, Return
  PROVE  TypeOK'
<1> USE DEF TypeOK, clientVars, Statuses, Outcomes, StepReturns
<1>1. ASSUME NEW d \in Delays, WaitTime(d) PROVE TypeOK'
  <2>1. (now + d) % (MaxTime + 1) \in Times
    OBVIOUS
  <2>2. QED BY <1>1, <2>1 DEF WaitTime
<1>2. ASSUME NEW e \in Events, WaitEvent(e) PROVE TypeOK'
  BY <1>2 DEF WaitEvent
<1>3. CASE Complete BY <1>3 DEF Complete
<1>4. CASE ReturnReady BY <1>4 DEF ReturnReady
<1> QED BY <1>1, <1>2, <1>3, <1>4 DEF Return

LEMMA SchedulerTypeOK ==
  ASSUME TypeOK, Budget, Scheduler
  PROVE  TypeOK'
<1> USE DEF TypeOK, clientVars, procVars, Statuses, Outcomes
<1>1. CASE StartDrain BY <1>1 DEF StartDrain
<1>2. CASE SkipDrain BY <1>2 DEF SkipDrain
<1>3. CASE BeginRun BY <1>3 DEF BeginRun, Snapshot, WithStatus
<1>4. ASSUME NEW p \in Procs, StepProcess(p) PROVE TypeOK'
  BY <1>4 DEF StepProcess, IsNext
<1>5. ASSUME DeltaOver, FlushNba PROVE nba' \in Seq(Values) /\ storage' \in Values
  BY <1>5 DEF FlushNba
<1> USE DEF Ends, Continues
<1>6. CASE ObjectionsDropped
  BY <1>5, <1>6 DEF ObjectionsDropped, DeltaStep, SeenNow
<1>7. ASSUME DeltaStep, status' = status, now' \in Times,
             Continues \/ \E o \in Outcomes : Ends(o)
      PROVE  TypeOK'
  BY <1>5, <1>7 DEF DeltaStep, DeltaOver, SeenNow, Budget
<1>8. CASE NextDelta BY <1>7, <1>8 DEF NextDelta
<1>9. CASE AllDone BY <1>7, <1>9 DEF AllDone, Idle
<1>10. CASE Deadlock BY <1>7, <1>10 DEF Deadlock, Idle
<1>11. ASSUME NEW t \in Times, TimeBackwards(t) PROVE TypeOK'
  BY <1>7, <1>11 DEF TimeBackwards, Idle
<1>12. ASSUME NEW t \in Times, TickFails(t) PROVE TypeOK'
  BY <1>7, <1>12 DEF TickFails, Idle
<1>13. ASSUME NEW t \in Times, Advance(t) PROVE TypeOK'
  <2>1. /\ status' \in [Procs -> Statuses]
        /\ \A p \in Procs : status'[p] = Absent <=> p > created'
    BY <1>13 DEF Advance, Notified, Woken
  <2>2. nba' \in Seq(Values)
    BY <1>13 DEF Advance
  <2>3. storage' \in Values
    BY <1>13 DEF Advance
  <2>4. /\ UNCHANGED <<created, wake, event, name, owner, objections, raised, fresh>>
        /\ now' = t /\ Continues /\ seen' = SeenNow /\ phase = "delta"
    BY <1>13 DEF Advance, DeltaOver
  <2> QED BY <2>1, <2>2, <2>3, <2>4 DEF SeenNow, Budget
<1>14. CASE StepLimit BY <1>14 DEF StepLimit
<1> QED BY <1>1, <1>2, <1>3, <1>4, <1>6, <1>8, <1>9, <1>10, <1>11, <1>12, <1>13, <1>14
        DEF Scheduler

-----------------------------------------------------------------------------
\* The calls of a body leave the turns of its peers alone.
LEMMA CallTurns ==
  ASSUME TypeOK, Turns, Quiet, Latches, Budget, Call
  PROVE  Turns' /\ Quiet' /\ Latches' /\ Budget'
<1> USE DEF TypeOK, clientVars, drainVars, procVars, Turns, Quiet, Latches, Budget,
            SnapshotKeepsTurn, SpawnedRunsNextDelta, WithStatus, InClient
<1>1. ASSUME NEW n, NEW o, CreateAs(n, o), InClient,
             UNCHANGED <<clientVars, drainVars, now>>
      PROVE  Turns' /\ Quiet' /\ Latches' /\ Budget'
  <2> DEFINE new == created + 1
  <2>1. /\ new \in Procs /\ new \notin snap /\ new # cur /\ status[new] # "ready"
        /\ status' = [status EXCEPT ![new] = "ready"] /\ fresh' = fresh \cup {new}
    BY <1>1 DEF CreateAs
  <2> HIDE DEF new
  <2>2. SnapshotKeepsTurn'
    BY <1>1, <2>1
  <2>3. (phase = "delta" => snap \cap fresh = {})' /\ SpawnedRunsNextDelta'
    BY <1>1, <2>1
  <2>4. Quiet'
    BY <1>1
  <2>5. Latches' /\ Budget'
    BY <1>1
  <2> QED BY <2>2, <2>3, <2>4, <2>5
<1>2. ASSUME NEW c \in Components, Create(c)
      PROVE  Turns' /\ Quiet' /\ Latches' /\ Budget'
  BY <1>1, <1>2 DEF Create
<1>3. ASSUME NEW n \in Names, NEW h, Spawn(n, h)
      PROVE  Turns' /\ Quiet' /\ Latches' /\ Budget'
  BY <1>1, <1>3 DEF Spawn
<1>4. ASSUME Throw, UNCHANGED <<procVars, clientVars, now, fresh>>
      PROVE  Turns' /\ Quiet' /\ Latches' /\ Budget'
  BY <1>4 DEF Throw
<1>5. ASSUME NEW n \in Names, SpawnUnknown(n)
      PROVE  Turns' /\ Quiet' /\ Latches' /\ Budget'
  BY <1>4, <1>5 DEF SpawnUnknown
<1>6. CASE RaiseObjection BY <1>6 DEF RaiseObjection
<1>7. CASE DropObjection BY <1>7 DEF DropObjection
<1>8. CASE DropUnderflow BY <1>4, <1>8 DEF DropUnderflow
<1>9. ASSUME NEW e \in Events, Notify(e)
      PROVE  Turns' /\ Quiet' /\ Latches' /\ Budget'
  BY <1>9 DEF Notify, Notified
<1>10. ASSUME NEW v \in Values, NbaStore(v)
       PROVE  Turns' /\ Quiet' /\ Latches' /\ Budget'
  BY <1>10 DEF NbaStore
<1> QED BY <1>2, <1>3, <1>5, <1>6, <1>7, <1>8, <1>9, <1>10 DEF Call

\* A step that ends changes the status of its own process only, and that
\* process has left the snapshot.
LEMMA ReturnTurns ==
  ASSUME TypeOK, Turns, Quiet, Latches, Budget, Return
  PROVE  Turns' /\ Quiet' /\ Latches' /\ Budget'
<1>1. ASSUME NEW s \in Statuses, StepReturns(s)
      PROVE  Turns' /\ Quiet' /\ Latches' /\ Budget'
  <2> USE <1>1 DEF StepReturns, TypeOK, clientVars, Turns, Quiet, Latches, Budget,
                   SnapshotKeepsTurn, SpawnedRunsNextDelta
  <2>1. SnapshotKeepsTurn'
    OBVIOUS
  <2>2. /\ (phase = "delta" => snap \cap fresh = {})'
        /\ SpawnedRunsNextDelta'
    <3>1. None \notin fresh
      <4>1. fresh \subseteq 1..created /\ created \in Nat /\ created <= MaxProcs
        OBVIOUS
      <4>2. \A x \in 1..created : x \in 1..MaxProcs
        BY <4>1
      <4> QED BY ONLY NoneAssumption, <4>1, <4>2
    <3>2. cur' = None /\ fresh' = fresh /\ snap' = snap /\ phase' = phase
      OBVIOUS
    <3> QED BY <3>1, <3>2
  <2>3. ran /\ phase = "delta"
    OBVIOUS
  <2>4. Quiet'
    BY <2>3
  <2>5. Latches' /\ Budget'
    OBVIOUS
  <2> QED BY <2>1, <2>2, <2>4, <2>5
<1> QED BY <1>1 DEF Return, WaitTime, WaitEvent, Complete, ReturnReady, Statuses

\* The scheduler's own steps.
LEMMA SchedulerTurns ==
  ASSUME TypeOK, Turns, Quiet, Latches, Budget, Scheduler
  PROVE  Turns' /\ Quiet' /\ Latches' /\ Budget'
<1> USE DEF TypeOK, clientVars, procVars, Turns, Quiet, Latches, Budget,
            SnapshotKeepsTurn, SpawnedRunsNextDelta, WithStatus, Ends, Continues
<1>1. CASE StartDrain BY <1>1 DEF StartDrain
<1>2. CASE SkipDrain BY <1>2 DEF SkipDrain
<1>3. CASE BeginRun BY <1>3 DEF BeginRun, Snapshot
<1>4. ASSUME NEW p \in Procs, StepProcess(p)
      PROVE  Turns' /\ Quiet' /\ Latches' /\ Budget'
  BY <1>4 DEF StepProcess, IsNext
<1>5. ASSUME DeltaOver, seen' = SeenNow, UNCHANGED <<objections, raised, fresh>>,
             Continues \/ \E o \in Outcomes \ {"none"} : Ends(o)
      PROVE  Turns' /\ Quiet' /\ Latches' /\ Budget'
  BY <1>5 DEF DeltaOver, SeenNow
<1> USE <1>5 DEF DeltaStep, Idle, Outcomes
<1>6. CASE ObjectionsDropped BY <1>6 DEF ObjectionsDropped
<1>7. CASE NextDelta BY <1>7 DEF NextDelta
<1>8. CASE AllDone BY <1>8 DEF AllDone
<1>9. CASE Deadlock BY <1>9 DEF Deadlock
<1>10. ASSUME NEW t \in Times, TimeBackwards(t) \/ Advance(t) \/ TickFails(t)
       PROVE  Turns' /\ Quiet' /\ Latches' /\ Budget'
  BY <1>10 DEF TimeBackwards, Advance, TickFails
<1>11. CASE StepLimit BY <1>11 DEF StepLimit
<1> QED BY <1>1, <1>2, <1>3, <1>4, <1>6, <1>7, <1>8, <1>9, <1>10, <1>11 DEF Scheduler

LEMMA InitIInv == Init => IInv
<1> SUFFICES ASSUME Init PROVE IInv
  OBVIOUS
<1>1. TypeOK
  BY InitTypeOK
<1>2. Turns /\ Quiet /\ Latches /\ Budget
  BY DEF Init, Turns, Quiet, Latches, Budget, SnapshotKeepsTurn, SpawnedRunsNextDelta
<1> QED BY <1>1, <1>2 DEF IInv

LEMMA StepIInv == IInv /\ [Next]_vars => IInv'
<1> SUFFICES ASSUME IInv, [Next]_vars PROVE IInv'
  OBVIOUS
<1>1. CASE Call
  BY <1>1, CallTypeOK, CallTurns DEF IInv
<1>2. CASE Return
  BY <1>2, ReturnTypeOK, ReturnTurns DEF IInv
<1>3. CASE Scheduler
  BY <1>3, SchedulerTypeOK, SchedulerTurns DEF IInv
<1>4. CASE UNCHANGED vars
  BY <1>4 DEF vars, procVars, clientVars, drainVars, IInv, TypeOK, Turns, Quiet,
              Latches, Budget, SnapshotKeepsTurn, SpawnedRunsNextDelta, WithStatus
<1> QED BY <1>1, <1>2, <1>3, <1>4 DEF Next

\* The inductive invariant holds: in particular no body costs a ready peer its
\* turn, and a process is not stepped in the delta that spawned it.
THEOREM Invariance == Spec => []IInv
BY InitIInv, StepIInv, PTL DEF Spec

\* Every variable keeps its type.
THEOREM TypeCorrect == Spec => []TypeOK
BY Invariance, PTL DEF IInv

\* run() never drops the turn of a process of its snapshot.
THEOREM TurnsKept == Spec => []SnapshotKeepsTurn
<1>1. IInv => SnapshotKeepsTurn
  BY DEF IInv, Turns
<1> QED BY <1>1, Invariance, PTL

\* A spawned process waits for the next delta.
THEOREM SpawnedWaits == Spec => []SpawnedRunsNextDelta
<1>1. IInv => SpawnedRunsNextDelta
  BY DEF IInv, Turns
<1> QED BY <1>1, Invariance, PTL

-----------------------------------------------------------------------------
(***************************************************************************)
(* Every way in which a step may change the status of a process.           *)
(***************************************************************************)
Arrives(p)    == status[p] = Absent /\ status'[p] = "ready"
Notices(p)    == /\ status[p] = "waiting_event" /\ status'[p] = "ready"
                 /\ cur # None \/ event[p] = Clk
StepEnds(p)   == p = cur /\ status[p] = "ready"
Awakes(p)     == /\ status[p] = "waiting_time" /\ status'[p] = "ready"
                 /\ now' = wake[p]
IsStopped(p)  == /\ status'[p] = "done" /\ raised /\ objections = 0
                 /\ Unfinished' = {} /\ outcome' = "drained"

StatusChange(p) ==
  \/ status'[p] = status[p]
  \/ Arrives(p) \/ Notices(p) \/ StepEnds(p) \/ Awakes(p) \/ IsStopped(p)

LEMMA CallStatus ==
  ASSUME IInv, Call, NEW p \in Procs
  PROVE  StatusChange(p)
<1> USE DEF IInv, TypeOK, StatusChange, procVars
<1>1. ASSUME NEW n, NEW o, CreateAs(n, o) PROVE StatusChange(p)
  BY <1>1 DEF CreateAs, Arrives
<1>2. ASSUME NEW e \in Events, Notify(e) PROVE StatusChange(p)
  BY <1>2 DEF Notify, Notified, Notices
<1> QED BY <1>1, <1>2 DEF Call, Create, Spawn, SpawnUnknown, RaiseObjection,
           DropObjection, DropUnderflow, NbaStore

LEMMA ReturnStatus ==
  ASSUME IInv, Return, NEW p \in Procs
  PROVE  StatusChange(p)
<1>1. ASSUME NEW s, StepReturns(s) PROVE StatusChange(p)
  BY <1>1 DEF StepReturns, StatusChange, StepEnds, IInv, Turns, SnapshotKeepsTurn, TypeOK
<1> QED BY <1>1 DEF Return, WaitTime, WaitEvent, Complete, ReturnReady

LEMMA SchedulerStatus ==
  ASSUME IInv, Scheduler, NEW p \in Procs
  PROVE  StatusChange(p)
<1> USE DEF IInv, TypeOK, StatusChange, procVars
<1>1. CASE ObjectionsDropped
  <2>1. raised /\ objections = 0 /\ created' = created /\ outcome' = "drained"
    BY <1>1 DEF ObjectionsDropped, DeltaStep, Dropped, SeenNow, Latches, Ends
  <2>2. Unfinished' = {}
    BY <1>1, <2>1 DEF ObjectionsDropped, Unfinished
  <2>3. p \in Made => status'[p] = "done"
    BY <1>1 DEF ObjectionsDropped
  <2>4. p \notin Made => status'[p] = status[p]
    BY <1>1 DEF ObjectionsDropped
  <2> QED BY <2>1, <2>2, <2>3, <2>4 DEF IsStopped
<1>2. ASSUME NEW t \in Times, Advance(t) PROVE StatusChange(p)
  <2>1. status[p] = "waiting_time" => t <= wake[p]
    BY <1>2 DEF Advance, IsEarliest, WakeTimes, WithStatus
  <2>2. now' = t /\ status' = Notified(Woken(t), Clk) /\ event' = event
    BY <1>2 DEF Advance
  <2>3. CASE status[p] = "waiting_time" /\ wake[p] <= t
    <3>1. status'[p] = "ready"
      BY <2>2, <2>3 DEF Notified, Woken
    <3>2. now' = wake[p]
      BY <2>1, <2>2, <2>3
    <3> QED BY <2>3, <3>1, <3>2 DEF Awakes
  <2>4. CASE ~(status[p] = "waiting_time" /\ wake[p] <= t)
    <3>1. Woken(t)[p] = status[p]
      BY <2>4 DEF Woken
    <3>2. \/ status'[p] = status[p]
          \/ status[p] = "waiting_event" /\ event[p] = Clk /\ status'[p] = "ready"
      BY <2>2, <3>1 DEF Notified
    <3> QED BY <3>2 DEF Notices
  <2> QED BY <2>3, <2>4
<1>3. CASE UNCHANGED status
  BY <1>3
<1> QED BY <1>1, <1>2, <1>3 DEF Scheduler, StartDrain, SkipDrain, BeginRun, StepProcess,
           NextDelta, AllDone, Deadlock, TimeBackwards, TickFails, StepLimit

LEMMA EveryStatusChange ==
  ASSUME IInv, [Next]_vars, NEW p \in Procs
  PROVE  StatusChange(p)
BY CallStatus, ReturnStatus, SchedulerStatus
   DEF Next, vars, procVars, StatusChange

\* A finished process stays finished.
THEOREM DoneStays == Spec => DoneIsFinal
<1>1. IInv /\ [Next]_vars =>
        [\A p \in Procs : status[p] = "done" => status'[p] = "done"]_vars
  BY EveryStatusChange DEF StatusChange, Arrives, Notices, StepEnds, Awakes, IsStopped
<1> QED BY <1>1, Invariance, PTL DEF Spec, DoneIsFinal

\* Sleepers wake on time, waiters by their event.
THEOREM WokenRight == Spec => WokenByWhatItWaitsFor
<1>1. ASSUME IInv, [Next]_vars, NEW p \in Procs
      PROVE  /\ status[p] = "waiting_time" /\ status'[p] = "ready" => now' = wake[p]
             /\ status[p] = "waiting_event" /\ status'[p] = "ready" =>
                  cur # None \/ event[p] = Clk
  BY <1>1, EveryStatusChange
     DEF StatusChange, Arrives, Notices, StepEnds, Awakes, IsStopped
<1>2. IInv /\ [Next]_vars =>
        [\A p \in Procs :
           /\ status[p] = "waiting_time" /\ status'[p] = "ready" => now' = wake[p]
           /\ status[p] = "waiting_event" /\ status'[p] = "ready" =>
                cur # None \/ event[p] = Clk]_vars
  BY <1>1
<1> QED BY <1>2, Invariance, PTL DEF Spec, WokenByWhatItWaitsFor

\* The scheduler stops processes only after the last objection.
THEOREM KilledRight == Spec => KilledOnlyWhenDropped
<1>1. IInv /\ [Next]_vars =>
        [\A p \in Procs :
           status[p] # "done" /\ status'[p] = "done" /\ p # cur =>
             raised /\ objections = 0 /\ Unfinished' = {} /\ outcome' = "drained"]_vars
  BY EveryStatusChange DEF StatusChange, Arrives, Notices, StepEnds, Awakes, IsStopped
<1> QED BY <1>1, Invariance, PTL DEF Spec, KilledOnlyWhenDropped

\* A step that moves time, and what it moves it to.
LEMMA TimeStep ==
  ASSUME IInv, [Next]_vars, now' # now
  PROVE  \E t \in Times : Advance(t) \/ TickFails(t)
BY DEF Next, Call, Return, Scheduler, vars, Create, Spawn, SpawnUnknown,
       RaiseObjection, DropObjection, DropUnderflow, Notify, NbaStore, StepReturns,
       WaitTime, WaitEvent, Complete, ReturnReady, StartDrain, SkipDrain, BeginRun,
       StepProcess, ObjectionsDropped, NextDelta, AllDone, Deadlock, TimeBackwards,
       StepLimit

\* Time moves forward only, when nobody is ready, and past no sleeper.
THEOREM TimeRight == Spec => TimeMovesWhenIdle
<1>1. ASSUME IInv, [Next]_vars, now' # now
      PROVE  /\ now' > now
             /\ WithStatus("ready") = {}
             /\ \A p \in WithStatus("waiting_time")' :
                  now' < wake'[p] \/ outcome' = "thrown"
  <2>1. PICK t \in Times : Advance(t) \/ TickFails(t)
    BY <1>1, TimeStep
  <2>2. /\ now' = t /\ t >= now /\ DeltaOver /\ ~ran
    BY <1>1, <2>1 DEF Advance, TickFails, Idle, DeltaStep, Backwards, IInv, TypeOK
  <2>3. now' > now /\ WithStatus("ready") = {}
    BY <1>1, <2>2 DEF IInv, Quiet, DeltaOver, TypeOK
  <2>4. CASE Advance(t)
    <3>1. /\ status' = Notified(Woken(t), Clk) /\ wake' = wake
          /\ wake \in [Procs -> Times]
      BY <1>1, <2>4 DEF Advance, IInv, TypeOK
    <3>2. ASSUME NEW p \in WithStatus("waiting_time")' PROVE now' < wake'[p]
      <4>1. p \in Procs /\ status'[p] = "waiting_time"
        BY DEF WithStatus
      <4>2. ~(status[p] = "waiting_time" /\ wake[p] <= t) /\ status[p] = "waiting_time"
        BY <3>1, <4>1 DEF Notified, Woken
      <4> QED BY <2>2, <3>1, <4>1, <4>2
    <3> QED BY <2>3, <3>2
  <2>5. CASE TickFails(t)
    BY <2>3, <2>5 DEF TickFails, Ends
  <2> QED BY <2>1, <2>4, <2>5
<1>2. IInv /\ [Next]_vars =>
        [now' # now =>
           /\ now' > now
           /\ WithStatus("ready") = {}
           /\ \A p \in WithStatus("waiting_time")' :
                now' < wake'[p] \/ outcome' = "thrown"]_vars
  BY <1>1
<1> QED BY <1>2, Invariance, PTL DEF Spec, TimeMovesWhenIdle

\* Processes are only ever added by CreateAs, and only ever leave Unfinished.
LEMMA NoOtherCreates ==
  ASSUME IInv, [Next]_vars
  PROVE  \/ UNCHANGED <<created, name, owner>>
         \/ \E c \in Components : CreateAs(None, c)
         \/ \E n \in Registered : \E o : CreateAs(n, o) /\ Same(n, o) = {}
BY DEF Next, Call, Return, Scheduler, vars, procVars, Create, Spawn, SpawnUnknown,
       RaiseObjection, DropObjection, DropUnderflow, Notify, NbaStore, StepReturns,
       WaitTime, WaitEvent, Complete, ReturnReady, StartDrain, SkipDrain, BeginRun,
       StepProcess, ObjectionsDropped, NextDelta, AllDone, Deadlock, TimeBackwards,
       Advance, TickFails, DeltaStep, Idle, StepLimit

\* One live process per task name and owner.
THEOREM OneLive == Spec => []OneLivePerTask
<1>1. Init => OneLivePerTask
  BY DEF Init, OneLivePerTask, Unfinished
<1>2. IInv /\ OneLivePerTask /\ [Next]_vars => OneLivePerTask'
  <2> SUFFICES ASSUME IInv, OneLivePerTask, [Next]_vars,
                      NEW p \in Unfinished', NEW q \in Unfinished',
                      name'[p] # None, name'[p] = name'[q], owner'[p] = owner'[q]
               PROVE  p = q
    BY DEF OneLivePerTask
  <2>1. \A r \in Procs : status[r] = "done" => status'[r] = "done"
    BY EveryStatusChange DEF StatusChange, Arrives, Notices, StepEnds, Awakes, IsStopped
  <2>2. CASE UNCHANGED <<created, name, owner>>
    <3>1. p \in Unfinished /\ q \in Unfinished
      BY <2>1, <2>2 DEF Unfinished, IInv, TypeOK
    <3> QED BY <2>2, <3>1 DEF OneLivePerTask
  <2>3. ASSUME NEW n \in Registered \cup {None}, NEW o, CreateAs(n, o),
               n # None => Same(n, o) = {}
        PROVE  p = q
    <3> DEFINE new == created + 1
    <3>1. /\ created' = new /\ new \in Procs /\ new \notin Made
          /\ name' = [name EXCEPT ![new] = n] /\ owner' = [owner EXCEPT ![new] = o]
          /\ Made' = Made \cup {new}
      BY <2>3 DEF CreateAs, IInv, TypeOK
    <3> HIDE DEF new
    <3>2. p \in Unfinished \cup {new} /\ q \in Unfinished \cup {new}
      <4>1. \A r \in Unfinished' : r \in Made' /\ status'[r] # "done"
        BY DEF Unfinished
      <4>2. \A r \in Made : r \in Procs
        BY DEF IInv, TypeOK
      <4> QED BY <2>1, <3>1, <4>1, <4>2 DEF Unfinished
    <3>4. name'[new] = n /\ owner'[new] = o
      BY <3>1 DEF IInv, TypeOK
    <3>5. \A r \in Unfinished : name'[r] = name[r] /\ owner'[r] = owner[r]
      BY <3>1 DEF Unfinished, IInv, TypeOK
    <3>3. ASSUME NEW r \in Unfinished, name[r] = n, owner[r] = o, n # None
          PROVE  FALSE
      BY <2>3, <3>3 DEF Same
    <3> QED BY <3>2, <3>3, <3>4, <3>5 DEF OneLivePerTask
  <2> QED BY <2>2, <2>3, NoOtherCreates
<1>3. OneLivePerTask /\ UNCHANGED vars => OneLivePerTask'
  BY DEF vars, procVars, OneLivePerTask, Unfinished
<1> QED BY <1>1, <1>2, Invariance, PTL DEF Spec

\* Nothing happens after the run phase ended.
LEMMA EndedIsFinal ==
  ASSUME IInv, phase = "ended", [Next]_vars
  PROVE  UNCHANGED vars
BY DEF Next, Call, Return, Scheduler, vars, IInv, Turns, SnapshotKeepsTurn, InClient,
       Create, Spawn, SpawnUnknown, RaiseObjection, DropObjection, DropUnderflow,
       Notify, NbaStore, StepReturns, WaitTime, WaitEvent, Complete, ReturnReady,
       StartDrain, SkipDrain, BeginRun, StepProcess, ObjectionsDropped, NextDelta,
       AllDone, Deadlock, TimeBackwards, Advance, TickFails, DeltaStep, Idle,
       DeltaOver, StepLimit

\* A deadlock that drain() reports is one.
THEOREM DeadlocksAreReal == Spec => []DeadlockIsReal
<1>1. Init => DeadlockIsReal
  BY DEF Init, DeadlockIsReal
<1>2. IInv /\ DeadlockIsReal /\ [Next]_vars => DeadlockIsReal'
  <2> SUFFICES ASSUME IInv, DeadlockIsReal, [Next]_vars, outcome' = "deadlock"
               PROVE  DeadlockIsReal'
    BY DEF DeadlockIsReal
  <2>1. CASE UNCHANGED vars
    BY <2>1 DEF vars, procVars, drainVars, DeadlockIsReal, Unfinished
  <2>2. CASE ~UNCHANGED vars
    <3>1. phase # "ended" /\ outcome # "deadlock"
      BY <2>2, EndedIsFinal DEF IInv, Latches
    <3>2. Deadlock
      BY <2>2, <3>1
         DEF Next, Call, Return, Scheduler, drainVars, Throw, Ends, Continues, Create,
             Spawn, SpawnUnknown, RaiseObjection, DropObjection, DropUnderflow, Notify,
             NbaStore, StepReturns, WaitTime, WaitEvent, Complete, ReturnReady,
             StartDrain, SkipDrain, BeginRun, StepProcess, ObjectionsDropped,
             NextDelta, AllDone, TimeBackwards, Advance, TickFails, StepLimit
    <3>3. /\ Unfinished # {} /\ WithStatus("ready") = {}
          /\ UNCHANGED <<created, status, wake>>
          /\ \A p \in WithStatus("waiting_time") : MaxTime <= wake[p]
      BY <3>2 DEF Deadlock, Idle, DeltaStep, DeltaOver, IInv, Quiet, IsEarliest, WakeTimes
    <3>4. ASSUME NEW p \in Unfinished
          PROVE  \/ status[p] = "waiting_event"
                 \/ status[p] = "waiting_time" /\ wake[p] = MaxTime
      <4>1. p \in Procs /\ status[p] \in Statuses /\ status[p] # "done"
        BY DEF Unfinished, IInv, TypeOK
      <4>2. status[p] # Absent /\ status[p] # "ready"
        BY <3>3, <4>1 DEF Unfinished, IInv, TypeOK, WithStatus
      <4>3. status[p] = "waiting_time" => wake[p] = MaxTime
        BY <3>3, <4>1 DEF IInv, TypeOK, WithStatus
      <4> QED BY <4>1, <4>2, <4>3 DEF Statuses
    <3> QED BY <3>3, <3>4 DEF DeadlockIsReal, Unfinished
  <2> QED BY <2>1, <2>2
<1> QED BY <1>1, <1>2, Invariance, PTL DEF Spec

(***************************************************************************)
(* A run phase that drained left no process unfinished and no store        *)
(* queued: run_test() is not even called before a store can be queued, and *)
(* every way out of a delta flushes.                                       *)
(***************************************************************************)
NothingQueued == phase = "setup" => nba = <<>>

\* Nothing is queued while the phases before the run phase make processes.
LEMMA SetupQueues == NothingQueued /\ IInv /\ [Next]_vars => NothingQueued'
<1> SUFFICES ASSUME NothingQueued, IInv, [Next]_vars, phase' = "setup"
             PROVE  nba' = <<>>
  BY DEF NothingQueued
<1>1. phase = "setup" /\ nba' = nba
  BY DEF IInv, Turns, SnapshotKeepsTurn, Next, Call, Return, Scheduler, vars, procVars,
         clientVars, drainVars, Throw, Ends, Continues, Create, Spawn, SpawnUnknown,
         RaiseObjection, DropObjection, DropUnderflow, Notify, NbaStore, StepReturns,
         WaitTime, WaitEvent, Complete, ReturnReady, StartDrain, SkipDrain, BeginRun,
         StepProcess, ObjectionsDropped, NextDelta, AllDone, Deadlock, TimeBackwards,
         Advance, TickFails, StepLimit
<1> QED BY <1>1 DEF NothingQueued

THEOREM DrainsClean == Spec => []DrainedLeavesNothing
<1>1. Init => NothingQueued /\ DrainedLeavesNothing
  BY DEF Init, NothingQueued, DrainedLeavesNothing
<1>2. IInv /\ NothingQueued /\ DrainedLeavesNothing /\ [Next]_vars => DrainedLeavesNothing'
  <2> SUFFICES ASSUME IInv, NothingQueued, DrainedLeavesNothing, [Next]_vars, outcome' = "drained"
               PROVE  Unfinished' = {} /\ nba' = <<>>
    BY DEF DrainedLeavesNothing
  <2>1. CASE UNCHANGED vars
    BY <2>1 DEF vars, procVars, clientVars, drainVars, DrainedLeavesNothing, Unfinished
  <2>2. CASE ~UNCHANGED vars
    <3>1. phase # "ended" /\ outcome # "drained"
      BY <2>2, EndedIsFinal DEF IInv, Latches
    <3>2. SkipDrain \/ ObjectionsDropped \/ AllDone
      BY <2>2, <3>1
         DEF Next, Call, Return, Scheduler, drainVars, Throw, Ends, Continues, Create,
             Spawn, SpawnUnknown, RaiseObjection, DropObjection, DropUnderflow, Notify,
             NbaStore, StepReturns, WaitTime, WaitEvent, Complete, ReturnReady,
             StartDrain, BeginRun, StepProcess, NextDelta, Deadlock, TimeBackwards,
             Advance, TickFails, StepLimit
    <3>3. CASE SkipDrain
      BY <3>3 DEF SkipDrain, procVars, clientVars, NothingQueued, Unfinished
    <3>4. CASE ObjectionsDropped
      <4>1. nba' = <<>> /\ created' = created /\ \A p \in Made : status'[p] = "done"
        BY <3>4 DEF ObjectionsDropped, DeltaStep, FlushNba, IInv, TypeOK
      <4> QED BY <4>1 DEF Unfinished
    <3>5. CASE AllDone
      BY <3>5 DEF AllDone, Idle, DeltaStep, FlushNba, Unfinished
    <3> QED BY <3>2, <3>3, <3>4, <3>5
  <2> QED BY <2>1, <2>2
<1> QED BY <1>1, <1>2, SetupQueues, Invariance, PTL DEF Spec

-----------------------------------------------------------------------------
(***************************************************************************)
(* The refinement: every step of the delta loop is a step of RunPhase, or  *)
(* leaves its variables unchanged.                                         *)
(***************************************************************************)
LEMMA InitRefines == Init => Abstract!PInit
BY DEF Init, Abstract!PInit, Abstract!Procs

LEMMA CallRefines ==
  ASSUME IInv, Call
  PROVE  [Abstract!PNext]_(Abstract!pvars)
<1> USE DEF Abstract!PNext, Abstract!pvars, Abstract!Procs, Abstract!Lasts,
            procVars, clientVars, drainVars, IInv, TypeOK
<1>1. InClient => outcome = "none"
  BY DEF InClient, Latches, Turns, SnapshotKeepsTurn
<1>2. ASSUME NEW n, NEW o, CreateAs(n, o), InClient,
             UNCHANGED <<clientVars, drainVars, now>>
      PROVE  Abstract!Make(created + 1) /\ created + 1 \in Procs
  BY <1>1, <1>2 DEF CreateAs, Abstract!Make
<1>3. ASSUME NEW c \in Components, Create(c) PROVE Abstract!PNext
  BY <1>2, <1>3 DEF Create, InClient
<1>4. ASSUME NEW n \in Names, NEW h, Spawn(n, h) PROVE Abstract!PNext
  BY <1>2, <1>4 DEF Spawn
<1>5. ASSUME InClient, Throw, UNCHANGED <<procVars, clientVars, now, fresh>>
      PROVE  Abstract!EndFailed("thrown")
  BY <1>1, <1>5 DEF Throw, Abstract!EndFailed
<1>6. ASSUME NEW n \in Names, SpawnUnknown(n) PROVE Abstract!PNext
  BY <1>5, <1>6 DEF SpawnUnknown
<1>7. CASE RaiseObjection
  BY <1>1, <1>7 DEF RaiseObjection, Abstract!Object
<1>8. CASE DropObjection
  BY <1>1, <1>8 DEF DropObjection, Abstract!Withdraw
<1>9. CASE DropUnderflow
  BY <1>5, <1>9 DEF DropUnderflow
<1>10. ASSUME NEW e \in Events, Notify(e) PROVE Abstract!PNext
  BY <1>10 DEF Notify, Notified, Abstract!Signal, Abstract!Signalled
<1>11. ASSUME NEW v \in Values, NbaStore(v) PROVE UNCHANGED Abstract!pvars
  BY <1>11 DEF NbaStore
<1> QED BY <1>3, <1>4, <1>6, <1>7, <1>8, <1>9, <1>10, <1>11 DEF Call

LEMMA ReturnRefines ==
  ASSUME IInv, Return
  PROVE  Abstract!PNext
<1> USE DEF Abstract!PNext, clientVars
<1>1. ASSUME NEW s, StepReturns(s) PROVE Abstract!Suspend(s)
  BY <1>1 DEF StepReturns, Abstract!Suspend
<1>2. ASSUME NEW d \in Delays, WaitTime(d) PROVE Abstract!Sleep(d)
  BY <1>1, <1>2 DEF WaitTime, Abstract!Sleep
<1>3. ASSUME NEW e \in Events, WaitEvent(e) PROVE Abstract!Await(e)
  BY <1>1, <1>3 DEF WaitEvent, Abstract!Await
<1>4. CASE Complete
  BY <1>1, <1>4 DEF Complete, Abstract!Return
<1>5. CASE ReturnReady
  BY <1>1, <1>5 DEF ReturnReady, Abstract!Return
<1> QED BY <1>2, <1>3, <1>4, <1>5 DEF Return

LEMMA SchedulerRefines ==
  ASSUME IInv, Scheduler
  PROVE  [Abstract!PNext]_(Abstract!pvars)
<1> USE DEF Abstract!PNext, Abstract!pvars, Abstract!Procs, Abstract!In, Abstract!Lasts,
            procVars, clientVars, IInv, TypeOK, Latches, Ends, Continues
<1>1. CASE StartDrain \/ BeginRun
  BY <1>1 DEF StartDrain, BeginRun
<1>2. CASE SkipDrain
  <2>1. \A p \in Procs : status[p] = Absent
    BY <1>2 DEF SkipDrain
  <2>2. cur = None
    BY <1>2 DEF SkipDrain, Turns, SnapshotKeepsTurn
  <2> QED BY <1>2, <2>1, <2>2 DEF SkipDrain, Abstract!EndEmpty
<1>3. ASSUME NEW p \in Procs, StepProcess(p) PROVE Abstract!Pick(p)
  BY <1>3 DEF StepProcess, IsNext, Turns, SnapshotKeepsTurn, Abstract!Pick
<1>4. ASSUME DeltaOver PROVE cur = None /\ outcome = "none"
  BY <1>4 DEF DeltaOver
<1>5. ASSUME DeltaOver, ~ran PROVE Abstract!Idle
  BY <1>4, <1>5 DEF DeltaOver, Quiet, WithStatus, Abstract!Idle
<1> USE DEF DeltaStep
<1>6. CASE ObjectionsDropped
  <2>1. raised /\ objections = 0
    BY <1>6 DEF ObjectionsDropped, Dropped, SeenNow
  <2>2. status' = [p \in Procs |-> IF status[p] = Absent THEN Absent ELSE "done"]
    BY <1>6 DEF ObjectionsDropped
  <2> QED BY <1>4, <1>6, <2>1, <2>2 DEF ObjectionsDropped, Abstract!EndAll
<1>7. CASE NextDelta
  BY <1>7 DEF NextDelta
<1>8. CASE AllDone
  <2>1. \A p \in Procs : status[p] \in {Absent, "done"}
    BY <1>8 DEF AllDone, Unfinished
  <2> QED BY <1>4, <1>8, <2>1 DEF AllDone, Idle, Abstract!EndEmpty
<1>9. CASE Deadlock
  <2>1. \E p \in Procs : status[p] \notin {Absent, "done"}
    BY <1>9 DEF Deadlock, Unfinished
  <2>2. \A p \in WithStatus("waiting_time") : wake[p] = MaxTime
    <3>1. \A p \in WithStatus("waiting_time") : MaxTime <= wake[p]
      BY <1>9 DEF Deadlock, IsEarliest, WakeTimes
    <3>2. \A p \in WithStatus("waiting_time") : wake[p] \in 0..MaxTime
      BY DEF WithStatus
    <3> QED BY <3>1, <3>2
  <2> QED BY <1>5, <1>9, <2>1, <2>2 DEF Deadlock, Idle, WithStatus, Abstract!EndStuck
<1>10. ASSUME NEW t \in Times, TimeBackwards(t) PROVE Abstract!EndFailed("thrown")
  BY <1>4, <1>10 DEF TimeBackwards, Idle, Abstract!EndFailed
<1>11. ASSUME NEW t \in Times, Advance(t) PROVE Abstract!Elapse(t)
  <2>1. /\ \E p \in WithStatus("waiting_time") : wake[p] = t
        /\ \A p \in WithStatus("waiting_time") : t <= wake[p]
    BY <1>11 DEF Advance, IsEarliest, WakeTimes
  <2>2. \A p \in WithStatus("waiting_time") : wake[p] <= t <=> wake[p] = t
    <3>1. \A p \in WithStatus("waiting_time") : wake[p] \in Nat
      BY DEF WithStatus
    <3>2. t \in Nat
      OBVIOUS
    <3> QED BY <2>1, <3>1, <3>2
  <2>3. Woken(t) = [p \in Procs |-> IF p \in WithStatus("waiting_time") /\ wake[p] = t
                                    THEN "ready" ELSE status[p]]
    BY <2>2 DEF Woken, WithStatus
  <2>4. Abstract!Idle /\ t >= now /\ now' = t
    BY <1>5, <1>11 DEF Advance, Backwards
  <2> QED BY <1>4, <1>11, <2>1, <2>3, <2>4
          DEF Advance, WithStatus, Notified, Abstract!Signalled, Abstract!Elapse
<1>12. ASSUME NEW t \in Times, TickFails(t) PROVE Abstract!EndFailed("thrown")
  BY <1>4, <1>5, <1>12 DEF TickFails, Idle, Backwards, Abstract!EndFailed
<1>13. CASE StepLimit
  BY <1>13 DEF StepLimit, Turns, SnapshotKeepsTurn, Abstract!EndFailed
<1> QED BY <1>1, <1>2, <1>3, <1>6, <1>7, <1>8, <1>9, <1>10, <1>11, <1>12, <1>13
        DEF Scheduler

\* What the steps of one delta read is fixed when the delta begins: whatever the
\* bodies call, and in whatever order run() steps them, only the end of the
\* delta, which leaves it, stores.
THEOREM ReadsStable == Spec => ReadsAreStable
<1> DEFINE Stable == phase = "delta" /\ phase' = "delta" => storage' = storage
<1>1. ASSUME Call PROVE Stable
  BY <1>1 DEF Call, Create, Spawn, SpawnUnknown, RaiseObjection, DropObjection,
              DropUnderflow, Notify, NbaStore, Throw, clientVars
<1>2. ASSUME Return PROVE Stable
  BY <1>2 DEF Return, WaitTime, WaitEvent, Complete, ReturnReady, StepReturns, clientVars
<1>3. ASSUME Scheduler PROVE Stable
  <2>1. CASE StartDrain \/ SkipDrain \/ BeginRun \/ (\E p \in Procs : StepProcess(p)) \/ StepLimit
    BY <2>1 DEF StartDrain, SkipDrain, BeginRun, StepProcess, StepLimit, clientVars
  <2>2. CASE ObjectionsDropped \/ NextDelta \/ AllDone \/ Deadlock
    BY <2>2 DEF ObjectionsDropped, NextDelta, AllDone, Deadlock, Ends, Continues
  <2>3. CASE \E t \in Times : TimeBackwards(t) \/ Advance(t) \/ TickFails(t)
    BY <2>3 DEF TimeBackwards, Advance, TickFails, Ends, Continues
  <2> QED BY <1>3, <2>1, <2>2, <2>3 DEF Scheduler
<1>4. [Next]_vars => [Stable]_vars
  BY <1>1, <1>2, <1>3 DEF Next
<1> QED BY <1>4, PTL DEF Spec, ReadsAreStable

\* The delta loop is an implementation of the discrete-event machine.
THEOREM Refinement == Spec => ImplementsRunPhase
<1>1. IInv /\ [Next]_vars => [Abstract!PNext]_(Abstract!pvars)
  BY CallRefines, ReturnRefines, SchedulerRefines
     DEF Next, vars, procVars, clientVars, drainVars, Abstract!pvars
<1> QED BY <1>1, InitRefines, Invariance, PTL DEF Spec, ImplementsRunPhase, Abstract!PSpec
=============================================================================
