----------------------------- MODULE Primitives -----------------------------
(***************************************************************************)
(* The runtime's primitives for threads (Builtin/Semaphore, Channel,       *)
(* Event, Clock, Process, Scheduler) and its objects (Object/ObjectStore), *)
(* called by several threads in any order.                                 *)
(*                                                                         *)
(* What a method does under its mutex is one action.  A thread that waits  *)
(* on a condition variable sleeps there; it is woken by a notification, or *)
(* by nothing, and then looks at the condition again.                      *)
(***************************************************************************)
EXTENDS Naturals, Sequences, FiniteSets

CONSTANTS
  Threads,     \* who calls
  Roles,       \* what each of them calls, in one program or another
  Types,       \* types of objects
  Permits,     \* of the semaphore, at first
  MaxPermits, MaxSent, MaxEdges, MaxTasks, MaxTime, MaxObjects  \* bounds

ClockCalls == {"start", "stop"}
ProcessCalls == {"spawn", "join", "kill"}
RunCalls == {"run"}
Calls ==
  {"acquire", "try_acquire", "release", "send", "receive", "try_receive", "wait", "wait_for",
   "trigger", "reset", "rising", "falling", "schedule", "halt", "add_class", "create",
   "destroy", "clone", "call"} \cup ClockCalls \cup ProcessCalls \cup RunCalls

ASSUME ThreadsAssumption == IsFiniteSet(Threads)
\* The handle of a thread and the loop of the scheduler have no lock: each has
\* one thread that calls them.
ASSUME RolesAssumption ==
  \A r \in Roles :
    /\ r \in [Threads -> SUBSET Calls]
    /\ \A s, t \in Threads, owned \in {ClockCalls, ProcessCalls, RunCalls} :
         s # t => r[s] \cap owned = {} \/ r[t] \cap owned = {}
ASSUME BoundsAssumption ==
  /\ Permits \in Nat /\ MaxPermits \in Nat /\ MaxSent \in Nat /\ MaxEdges \in Nat
  /\ MaxTasks \in Nat /\ MaxTime \in Nat /\ MaxObjects \in Nat

Edges == {"rising", "falling"}
Events == Edges \cup {"event"}
Blocking == {"acquire", "receive", "wait", "wait_for"}
Waits == Blocking \cup Edges
Places == Waits \cup {"free", "stop", "join", "run", "pick", "task", "construct", "call"}

VARIABLES
  role, at, asleep,                \* what threads call, where they are, who sleeps
  count,                           \* Semaphore
  values, sent, received,          \* Channel: items, how many were sent, those taken
  triggered,                       \* Event
  level, worker, stopping,         \* Clock: its level and its thread
  edges, since,                    \* edges so far, and at the call of each waiter
  state, thread, asked,            \* Process
  tasks, order, now, stopped, ran, \* Scheduler: the queue, and what it has run
  classes, objects, next, made,    \* ObjectStore: classes, objects by handle
  holds                            \* what a construction or a call works on

threadVars == <<role, at, asleep>>
channelVars == <<values, sent, received>>
clockVars == <<level, worker, stopping, edges, since>>
processVars == <<state, thread, asked>>
schedulerVars == <<tasks, order, now, stopped, ran>>
storeVars == <<classes, objects, next, made, holds>>
vars == <<threadVars, count, channelVars, triggered, clockVars, processVars,
          schedulerVars, storeVars>>

-----------------------------------------------------------------------------
(* Threads.                                                                *)

Calling(t, call) == at[t] = "free" /\ call \in role[t]

Goes(t, place) == at' = [at EXCEPT ![t] = place] /\ UNCHANGED <<role, asleep>>
Returns(t) == Goes(t, "free")
Looks(t, place) == at[t] = place /\ t \notin asleep
Sleeps(t) == asleep' = asleep \cup {t} /\ UNCHANGED <<role, at>>

Sleepers(places) == {t \in asleep : at[t] \in places}
NotifyAll(places) == asleep' = asleep \ Sleepers(places) /\ UNCHANGED <<role, at>>

NotifyOne(place) ==
  IF Sleepers({place}) = {} THEN UNCHANGED threadVars
  ELSE \E t \in Sleepers({place}) : asleep' = asleep \ {t} /\ UNCHANGED <<role, at>>

\* The call of a method that may wait.
Enter(t, call) ==
  /\ Calling(t, call) /\ Goes(t, call)
  /\ UNCHANGED <<count, channelVars, triggered, clockVars, processVars, schedulerVars, storeVars>>

\* A condition variable may wake a thread for no reason.
Spurious(t) ==
  /\ t \in asleep /\ asleep' = asleep \ {t} /\ UNCHANGED <<role, at>>
  /\ UNCHANGED <<count, channelVars, triggered, clockVars, processVars, schedulerVars, storeVars>>

-----------------------------------------------------------------------------
(* Semaphore.                                                              *)

unlessSemaphore ==
  <<channelVars, triggered, clockVars, processVars, schedulerVars, storeVars>>

Acquire(t) ==
  /\ Looks(t, "acquire")
  /\ IF count = 0 THEN Sleeps(t) /\ UNCHANGED count
     ELSE Returns(t) /\ count' = count - 1
  /\ UNCHANGED unlessSemaphore

TryAcquire(t) ==
  /\ Calling(t, "try_acquire") /\ count # 0
  /\ count' = count - 1
  /\ UNCHANGED <<threadVars, unlessSemaphore>>

\* Mutant: one waiter is woken, however many permits are released.
ReleaseOne(t) ==
  /\ Calling(t, "release")
  /\ \E n \in 1..MaxPermits - count : count' = count + n
  /\ NotifyOne("acquire")
  /\ UNCHANGED unlessSemaphore

Release(t) ==
  /\ Calling(t, "release")
  /\ \E n \in 1..MaxPermits - count : count' = count + n
  /\ NotifyAll({"acquire"})
  /\ UNCHANGED unlessSemaphore

-----------------------------------------------------------------------------
(* Channel.                                                                *)

unlessChannel == <<count, triggered, clockVars, processVars, schedulerVars, storeVars>>

Send(t) ==
  /\ Calling(t, "send") /\ sent < MaxSent
  /\ sent' = sent + 1 /\ values' = Append(values, sent + 1)
  /\ NotifyOne("receive")
  /\ UNCHANGED <<received, unlessChannel>>

Take ==
  /\ received' = Append(received, Head(values)) /\ values' = Tail(values)
  /\ UNCHANGED sent

Receive(t) ==
  /\ Looks(t, "receive")
  /\ IF values = <<>> THEN Sleeps(t) /\ UNCHANGED channelVars
     ELSE Returns(t) /\ Take
  /\ UNCHANGED unlessChannel

TryReceive(t) ==
  /\ Calling(t, "try_receive") /\ values # <<>>
  /\ Take
  /\ UNCHANGED <<threadVars, unlessChannel>>

-----------------------------------------------------------------------------
(* Event, and the two events of Clock.                                     *)

unlessEvent == <<count, channelVars, processVars, schedulerVars, storeVars>>

\* Where the waiters of an event are.
WaitersOf(e) == IF e = "event" THEN {"wait", "wait_for"} ELSE {e}
EventOf(place) == IF place \in Edges THEN place ELSE "event"

Wait(t) ==
  /\ at[t] \in {"wait", "wait_for"} \cup Edges /\ t \notin asleep
  /\ IF triggered[EventOf(at[t])] THEN Returns(t) ELSE Sleeps(t)
  /\ UNCHANGED <<triggered, clockVars, unlessEvent>>

\* wait_for returns when its time is over, asleep or not.
Expire(t) ==
  /\ at[t] = "wait_for"
  /\ at' = [at EXCEPT ![t] = "free"] /\ asleep' = asleep \ {t} /\ UNCHANGED role
  /\ UNCHANGED <<triggered, clockVars, unlessEvent>>

Trigger(t) ==
  /\ Calling(t, "trigger")
  /\ triggered' = [triggered EXCEPT !["event"] = TRUE]
  /\ NotifyAll(WaitersOf("event"))
  /\ UNCHANGED <<clockVars, unlessEvent>>

Reset(t) ==
  /\ Calling(t, "reset")
  /\ triggered' = [triggered EXCEPT !["event"] = FALSE]
  /\ UNCHANGED <<threadVars, clockVars, unlessEvent>>

\* Mutant: the event is not reset before the wait.
WaitAnyEdge(t, e) ==
  /\ Calling(t, e) /\ Goes(t, e)
  /\ since' = [since EXCEPT ![t] = edges[e]]
  /\ UNCHANGED <<triggered, level, worker, stopping, edges, unlessEvent>>

\* wait_edge resets the event, for whoever waits for it, and waits.
WaitEdge(t, e) ==
  /\ Calling(t, e) /\ Goes(t, e)
  /\ triggered' = [triggered EXCEPT ![e] = FALSE]
  /\ since' = [since EXCEPT ![t] = edges[e]]
  /\ UNCHANGED <<level, worker, stopping, edges, unlessEvent>>

-----------------------------------------------------------------------------
(* The thread of Clock.                                                    *)

Start(t) ==
  /\ Calling(t, "start") /\ worker = "none"
  /\ worker' = "loop" /\ stopping' = FALSE
  /\ UNCHANGED <<threadVars, triggered, level, edges, since, unlessEvent>>

\* stop() asks the thread to stop and joins it.
Stop(t) ==
  /\ Calling(t, "stop") /\ worker # "none"
  /\ stopping' = TRUE /\ Goes(t, "stop")
  /\ UNCHANGED <<triggered, level, worker, edges, since, unlessEvent>>

Stopped(t) ==
  /\ at[t] = "stop" /\ worker = "ended"
  /\ worker' = "none" /\ Returns(t)
  /\ UNCHANGED <<triggered, level, stopping, edges, since, unlessEvent>>

\* Mutant: the thread looks at the request before its first period only.
WorkerLoopForever ==
  /\ worker = "loop"
  /\ edges["falling"] < MaxEdges
  /\ worker' = "period"
  /\ UNCHANGED <<threadVars, triggered, level, stopping, edges, since, unlessEvent>>

WorkerLoop ==
  /\ worker = "loop"
  /\ worker' = IF stopping THEN "ended" ELSE "period"
  /\ stopping \/ edges["falling"] < MaxEdges
  /\ UNCHANGED <<threadVars, triggered, level, stopping, edges, since, unlessEvent>>

WorkerFlip ==
  /\ worker = "period"
  /\ level' = 1 - level /\ worker' = "flipped"
  /\ UNCHANGED <<threadVars, triggered, stopping, edges, since, unlessEvent>>

Edge == IF level = 1 THEN "rising" ELSE "falling"

WorkerReset ==
  /\ worker = "flipped"
  /\ triggered' = [triggered EXCEPT ![Edge] = FALSE] /\ worker' = "reset"
  /\ UNCHANGED <<threadVars, level, stopping, edges, since, unlessEvent>>

WorkerTrigger ==
  /\ worker = "reset"
  /\ triggered' = [triggered EXCEPT ![Edge] = TRUE] /\ worker' = "loop"
  /\ edges' = [edges EXCEPT ![Edge] = @ + 1]
  /\ NotifyAll(WaitersOf(Edge))
  /\ UNCHANGED <<level, stopping, since, unlessEvent>>

Worker == WorkerLoop \/ WorkerFlip \/ WorkerReset \/ WorkerTrigger

-----------------------------------------------------------------------------
(* Process.                                                                *)

unlessProcess == <<count, channelVars, triggered, clockVars, schedulerVars, storeVars>>

Spawn(t) ==
  /\ Calling(t, "spawn") /\ state = "created"
  /\ state' = "running" /\ thread' = "runs"
  /\ UNCHANGED <<threadVars, asked, unlessProcess>>

\* The function returns, or throws.
Finish ==
  /\ thread = "runs" /\ thread' = "over"
  /\ state' \in {IF asked THEN "stopped" ELSE "completed", "failed"}
  /\ UNCHANGED <<threadVars, asked, unlessProcess>>

Join(t) ==
  /\ Calling(t, "join") /\ thread # "none"
  /\ Goes(t, "join")
  /\ UNCHANGED <<processVars, unlessProcess>>

Kill(t) ==
  /\ Calling(t, "kill") /\ thread # "none"
  /\ asked' = TRUE /\ Goes(t, "join")
  /\ UNCHANGED <<state, thread, unlessProcess>>

Joined(t) ==
  /\ at[t] = "join" /\ thread = "over"
  /\ thread' = "none" /\ Returns(t)
  /\ UNCHANGED <<state, asked, unlessProcess>>

-----------------------------------------------------------------------------
(* Scheduler.  A task may schedule and stop, as may any other thread.      *)

unlessScheduler == <<count, channelVars, triggered, clockVars, processVars, storeVars>>

Schedule(t) ==
  /\ at[t] \in {"free", "task"} /\ "schedule" \in role[t] /\ order < MaxTasks
  /\ \E time \in 0..MaxTime :
       tasks' = tasks \cup {[time |-> time, order |-> order, late |-> time < now]}
  /\ order' = order + 1
  /\ UNCHANGED <<threadVars, now, stopped, ran, unlessScheduler>>

Halt(t) ==
  /\ at[t] \in {"free", "task"} /\ "halt" \in role[t]
  /\ stopped' = TRUE
  /\ UNCHANGED <<threadVars, tasks, order, now, ran, unlessScheduler>>

Run(t) ==
  /\ Calling(t, "run") /\ Goes(t, "run")
  /\ stopped' = FALSE
  /\ UNCHANGED <<tasks, order, now, ran, unlessScheduler>>

\* The order of the queue: a comes after b.
Later(a, b) == a.time > b.time \/ (a.time = b.time /\ a.order > b.order)

\* run() looks whether it is stopped, and then takes a task under the lock.
Again(t) ==
  /\ at[t] = "run"
  /\ IF stopped THEN Returns(t) ELSE Goes(t, "pick")
  /\ UNCHANGED <<schedulerVars, unlessScheduler>>

Pick(t) ==
  /\ at[t] = "pick"
  /\ IF tasks = {} THEN Returns(t) /\ UNCHANGED schedulerVars
     ELSE /\ \E task \in tasks :
               /\ \A other \in tasks \ {task} : Later(other, task)
               /\ tasks' = tasks \ {task} /\ now' = task.time /\ ran' = Append(ran, task)
          /\ Goes(t, "task") /\ UNCHANGED <<order, stopped>>
  /\ UNCHANGED unlessScheduler

TaskEnds(t) ==
  /\ at[t] = "task" /\ Goes(t, "run")
  /\ UNCHANGED <<schedulerVars, unlessScheduler>>

-----------------------------------------------------------------------------
(* ObjectStore.  Constructors and methods run when the lock is released;   *)
(* a method may call the store again.                                      *)

unlessStore == <<count, channelVars, triggered, clockVars, processVars, schedulerVars>>

\* An object is its type and the native object behind it, if any.
Objects == [type : Types, native : Nat]
None == [type |-> "none", handle |-> 0, native |-> 0]

Insert(object) ==
  /\ objects' = [h \in DOMAIN objects \cup {next} |-> IF h = next THEN object ELSE objects[h]]
  /\ next' = next + 1

StoreCalling(t, call) == at[t] \in {"free", "call"} /\ call \in role[t]

AddClass(t) ==
  /\ StoreCalling(t, "add_class")
  /\ \E c \in Types : classes' = classes \cup {c}
  /\ UNCHANGED <<threadVars, objects, next, made, holds, unlessStore>>

\* create(type) asks for no class.
CreatePlain(t) ==
  /\ StoreCalling(t, "create") /\ next <= MaxObjects
  /\ \E c \in Types : Insert([type |-> c, native |-> 0])
  /\ UNCHANGED <<threadVars, classes, made, holds, unlessStore>>

\* create(type, arguments) copies the class and calls its constructor,
Create(t) ==
  /\ Calling(t, "create")
  /\ \E c \in classes :
       holds' = [holds EXCEPT ![t] = [type |-> c, handle |-> 0, native |-> 0]]
  /\ Goes(t, "construct")
  /\ UNCHANGED <<classes, objects, next, made, unlessStore>>

\* which makes a native object, or fails, or asks to be called again.
Constructed(t) ==
  /\ at[t] = "construct" /\ Returns(t)
  /\ holds' = [holds EXCEPT ![t] = None]
  /\ \/ UNCHANGED <<objects, next, made>>
     \/ next <= MaxObjects /\ made' = made + 1
        /\ Insert([type |-> holds[t].type, native |-> made + 1])
  /\ UNCHANGED <<classes, unlessStore>>

Destroy(t) ==
  /\ StoreCalling(t, "destroy")
  /\ \E h \in DOMAIN objects : objects' = [k \in DOMAIN objects \ {h} |-> objects[k]]
  /\ UNCHANGED <<threadVars, classes, next, made, holds, unlessStore>>

\* The native object of a clone is that of the original.
Clone(t) ==
  /\ StoreCalling(t, "clone") /\ next <= MaxObjects
  /\ \E h \in DOMAIN objects : Insert(objects[h])
  /\ UNCHANGED <<threadVars, classes, made, holds, unlessStore>>

Call(t) ==
  /\ Calling(t, "call")
  /\ \E h \in DOMAIN objects :
       holds' = [holds EXCEPT ![t] =
                   [type |-> objects[h].type, handle |-> h, native |-> objects[h].native]]
  /\ Goes(t, "call")
  /\ UNCHANGED <<classes, objects, next, made, unlessStore>>

MethodReturns(t) ==
  /\ at[t] = "call" /\ Returns(t)
  /\ holds' = [holds EXCEPT ![t] = None]
  /\ UNCHANGED <<classes, objects, next, made, unlessStore>>

-----------------------------------------------------------------------------
Init ==
  /\ role \in Roles /\ at = [t \in Threads |-> "free"] /\ asleep = {}
  /\ count = Permits
  /\ values = <<>> /\ sent = 0 /\ received = <<>>
  /\ triggered = [e \in Events |-> FALSE]
  /\ level = 0 /\ worker = "none" /\ stopping = FALSE
  /\ edges = [e \in Edges |-> 0] /\ since = [t \in Threads |-> 0]
  /\ state = "created" /\ thread = "none" /\ asked = FALSE
  /\ tasks = {} /\ order = 0 /\ now = 0 /\ stopped = FALSE /\ ran = <<>>
  /\ classes = {} /\ objects = <<>> /\ next = 1 /\ made = 0
  /\ holds = [t \in Threads |-> None]

SemaphoreStep(t) == Acquire(t) \/ TryAcquire(t) \/ Release(t)
ChannelStep(t) == Send(t) \/ Receive(t) \/ TryReceive(t)
EventStep(t) == Wait(t) \/ Expire(t) \/ Trigger(t) \/ Reset(t) \/ \E e \in Edges : WaitEdge(t, e)
ClockStep(t) == Start(t) \/ Stop(t) \/ Stopped(t)
ProcessStep(t) == Spawn(t) \/ Join(t) \/ Kill(t) \/ Joined(t)
SchedulerStep(t) == Schedule(t) \/ Halt(t) \/ Run(t) \/ Again(t) \/ Pick(t) \/ TaskEnds(t)
StoreStep(t) ==
  \/ AddClass(t) \/ CreatePlain(t) \/ Create(t) \/ Constructed(t)
  \/ Destroy(t) \/ Clone(t) \/ Call(t) \/ MethodReturns(t)

Next ==
  \/ \E t \in Threads :
       \/ \E call \in Blocking : Enter(t, call)
       \/ Spurious(t)
       \/ SemaphoreStep(t) \/ ChannelStep(t) \/ EventStep(t) \/ ClockStep(t)
       \/ ProcessStep(t) \/ SchedulerStep(t) \/ StoreStep(t)
  \/ Worker \/ Finish

Spec == Init /\ [][Next]_vars

\* A thread that is not asleep goes on; so does the thread of the clock.
FairSpec ==
  /\ Spec /\ WF_vars(Worker)
  /\ \A t \in Threads : WF_vars(Receive(t)) /\ WF_vars(Stopped(t))

-----------------------------------------------------------------------------
(***************************************************************************)
(* What the primitives must not get wrong.                                 *)
(***************************************************************************)
Tasks == [time : 0..MaxTime, order : 0..MaxTasks, late : BOOLEAN]

\* Every variable has its type.
TypeOK ==
  /\ role \in Roles /\ at \in [Threads -> Places] /\ asleep \subseteq Threads
  /\ count \in Nat
  /\ values \in Seq(1..MaxSent) /\ sent \in 0..MaxSent /\ received \in Seq(1..MaxSent)
  /\ triggered \in [Events -> BOOLEAN]
  /\ level \in 0..1 /\ worker \in {"none", "loop", "period", "flipped", "reset", "ended"}
  /\ stopping \in BOOLEAN /\ edges \in [Edges -> Nat] /\ since \in [Threads -> Nat]
  /\ state \in {"created", "running", "stopped", "completed", "failed"}
  /\ thread \in {"none", "runs", "over"} /\ asked \in BOOLEAN
  /\ tasks \subseteq Tasks /\ order \in 0..MaxTasks /\ now \in 0..MaxTime
  /\ stopped \in BOOLEAN /\ ran \in Seq(Tasks)
  /\ classes \subseteq Types /\ next \in Nat /\ made \in Nat
  /\ DOMAIN objects \subseteq Nat /\ \A h \in DOMAIN objects : objects[h] \in Objects
  /\ holds \in [Threads -> [type : Types \cup {"none"}, handle : Nat, native : Nat]]

(***************************************************************************)
(* Nobody sleeps over what it waits for: a thread asleep in acquire faces  *)
(* a semaphore without permits, one asleep on an event an event that is    *)
(* not triggered; and where threads sleep in receive, each item in the     *)
(* channel has a receiver that is awake, though send notifies one thread   *)
(* and others may take items before it.                                    *)
(***************************************************************************)
NoLostWakeup ==
  /\ \A t \in asleep :
       /\ at[t] = "acquire" => count = 0
       /\ at[t] \in {"wait", "wait_for"} \cup Edges => ~triggered[EventOf(at[t])]
  /\ Sleepers({"receive"}) # {} =>
       Len(values) <= Cardinality({t \in Threads \ asleep : at[t] = "receive"})

\* Items are taken in the order they were sent, none is lost or taken twice,
\* with any number of receivers and of those that only try.
ChannelFifo == received \o values = [i \in 1..sent |-> i]

\* wait_edge returns only after an edge of its kind that came after the call,
\* whoever else waits for edges and resets the event.
EdgeAwaited ==
  [][\A t \in Threads, e \in Edges :
       at[t] = e /\ at'[t] = "free" => edges[e] > since[t]]_vars

\* When the join or the kill of a process has returned, or before it started,
\* nobody sees it running.
JoinedIsOver == thread = "none" => state # "running"

\* Tasks of one time run in the order they were scheduled, each once.
InstantFifo ==
  /\ \A i, k \in 1..Len(ran) : i < k /\ ran[i].time = ran[k].time => ran[i].order < ran[k].order
  /\ \A i \in 1..Len(ran) : \A task \in tasks : ran[i].order # task.order

\* Time goes back only to a task that was scheduled for a time gone by.
BackForLateOnly ==
  [][now' < now => \E task \in tasks \ tasks' : task.late]_vars

\* A handle is never given to another object: while a method runs without the
\* lock, its handle means the object it was called on, or none.
HandlesKept ==
  \A t \in Threads :
    at[t] = "call" /\ holds[t].handle \in DOMAIN objects =>
      objects[holds[t].handle] = [type |-> holds[t].type, native |-> holds[t].native]

\* Whoever waits for what is there, or comes, goes on: stop() returns, wherever
\* the thread of the clock is when it is asked; and items do not stay in the
\* channel while somebody receives.
StopReturns == \A t \in Threads : at[t] = "stop" ~> at[t] # "stop"
ItemsReceived == <>[](values = <<>> \/ \A t \in Threads : at[t] # "receive")
WaitsEnd == StopReturns /\ ItemsReceived
=============================================================================
