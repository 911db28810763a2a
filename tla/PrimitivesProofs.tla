-------------------------- MODULE PrimitivesProofs --------------------------
(***************************************************************************)
(* Proofs about Primitives, for any finite set of threads, any programs    *)
(* and any bounds.                                                         *)
(***************************************************************************)
EXTENDS Primitives, FiniteSetTheorems, SequenceTheorems, TLAPS

(***************************************************************************)
(* The inductive invariant.  Sleepers are where they can sleep (Asleep);   *)
(* an event that is triggered was so after every call that waits for it    *)
(* (EdgesSeen); a process runs exactly as long as its thread does          *)
(* (Running); a task has a number of its own, comes after all of its time  *)
(* that have run, and lies before now only if it was late (Queued); and    *)
(* handles lie below next (Handles).                                       *)
(***************************************************************************)
Asleep == \A t \in asleep : at[t] \in Waits

SemaphoreQuiet == \A t \in asleep : at[t] = "acquire" => count = 0
EventsQuiet ==
  \A t \in asleep : at[t] \in {"wait", "wait_for"} \cup Edges => ~triggered[EventOf(at[t])]
Awake == {t \in Threads \ asleep : at[t] = "receive"}
ChannelQuiet == Sleepers({"receive"}) # {} => Len(values) <= Cardinality(Awake)

EdgesSeen ==
  \A t \in Threads, e \in Edges :
    at[t] = e => since[t] <= edges[e] /\ (triggered[e] => since[t] < edges[e])

Running == thread = "runs" <=> state = "running"

Queued ==
  /\ \A a \in tasks :
       /\ a.order < order /\ (~a.late => a.time >= now)
       /\ \A b \in tasks : a.order = b.order => a = b
       /\ \A i \in 1..Len(ran) :
            /\ ran[i].order # a.order
            /\ ran[i].time = a.time => ran[i].order < a.order
  /\ \A i \in 1..Len(ran) : ran[i].order < order
  /\ \A i, k \in 1..Len(ran) : i < k /\ ran[i].time = ran[k].time => ran[i].order < ran[k].order

Handles ==
  /\ \A h \in DOMAIN objects : h < next
  /\ \A t \in Threads : at[t] = "call" => holds[t].handle < next
  /\ \A t \in Threads : at[t] = "construct" => holds[t].type \in Types
  /\ HandlesKept

IInv ==
  /\ TypeOK /\ Asleep /\ SemaphoreQuiet /\ EventsQuiet /\ ChannelQuiet /\ ChannelFifo
  /\ EdgesSeen /\ Running /\ Queued /\ Handles

-----------------------------------------------------------------------------
LEMMA TypeInit == Init => TypeOK
<1> SUFFICES ASSUME Init PROVE TypeOK
  OBVIOUS
<1>1. at \in [Threads -> Places] /\ asleep \subseteq Threads
  BY DEF Init, Places
<1>2. values \in Seq(1..MaxSent) /\ received \in Seq(1..MaxSent) /\ ran \in Seq(Tasks)
  BY EmptySeq DEF Init
<1>3. DOMAIN objects = {}
  BY DEF Init
<1>4. None \in [type : Types \cup {"none"}, handle : Nat, native : Nat]
  BY DEF None
<1>5. sent \in 0..MaxSent /\ order \in 0..MaxTasks /\ now \in 0..MaxTime
  BY BoundsAssumption DEF Init
<1>6. edges \in [Edges -> Nat] /\ since \in [Threads -> Nat]
  BY DEF Init
<1>7. holds \in [Threads -> [type : Types \cup {"none"}, handle : Nat, native : Nat]]
  BY <1>4 DEF Init
<1>8. count \in Nat /\ level \in 0..1 /\ next \in Nat /\ made \in Nat
  BY BoundsAssumption DEF Init
<1> QED BY <1>1, <1>2, <1>3, <1>5, <1>6, <1>7, <1>8 DEF Init, TypeOK

LEMMA TypeThreads ==
  ASSUME TypeOK, NEW t \in Threads, NEW place \in Places,
         Goes(t, place) \/ Sleeps(t)
  PROVE  role' \in Roles /\ at' \in [Threads -> Places] /\ asleep' \subseteq Threads
BY DEF TypeOK, Goes, Sleeps

LEMMA TypeNotify ==
  ASSUME TypeOK, NEW places, NEW place, NotifyAll(places) \/ NotifyOne(place) \/ UNCHANGED threadVars
  PROVE  role' \in Roles /\ at' \in [Threads -> Places] /\ asleep' \subseteq Threads
BY DEF TypeOK, NotifyAll, NotifyOne, threadVars, Sleepers

LEMMA TypeSemaphore ==
  ASSUME TypeOK, NEW t \in Threads, SemaphoreStep(t)
  PROVE  TypeOK'
<1>1. CASE Acquire(t)
  <2>1. role' \in Roles /\ at' \in [Threads -> Places] /\ asleep' \subseteq Threads
    BY <1>1, TypeThreads DEF Acquire, Returns, Places
  <2>2. count' \in Nat
    BY <1>1 DEF Acquire, TypeOK
  <2> QED BY <1>1, <2>1, <2>2 DEF Acquire, TypeOK, unlessSemaphore, channelVars, clockVars,
        processVars, schedulerVars, storeVars
<1>2. CASE TryAcquire(t)
  BY <1>2 DEF TryAcquire, TypeOK, threadVars, unlessSemaphore, channelVars, clockVars,
        processVars, schedulerVars, storeVars
<1>3. CASE Release(t)
  <2>1. role' \in Roles /\ at' \in [Threads -> Places] /\ asleep' \subseteq Threads
    BY <1>3, TypeNotify DEF Release
  <2>2. count' \in Nat
    BY <1>3, BoundsAssumption DEF Release, TypeOK
  <2> QED BY <1>3, <2>1, <2>2 DEF Release, TypeOK, unlessSemaphore, channelVars, clockVars,
        processVars, schedulerVars, storeVars
<1> QED BY <1>1, <1>2, <1>3 DEF SemaphoreStep

LEMMA TakeTyped ==
  ASSUME values \in Seq(1..MaxSent), received \in Seq(1..MaxSent), values # <<>>, Take
  PROVE  /\ values' \in Seq(1..MaxSent) /\ received' \in Seq(1..MaxSent)
         /\ received' \o values' = received \o values
         /\ Len(values') = Len(values) - 1 /\ sent' = sent
<1>1. /\ Head(values) \in 1..MaxSent /\ Tail(values) \in Seq(1..MaxSent)
      /\ Len(Tail(values)) = Len(values) - 1
  BY HeadTailProperties
<1>2. Append(received, Head(values)) \o Tail(values) = received \o values
  OBVIOUS
<1> QED BY <1>1, <1>2 DEF Take

LEMMA TypeChannel ==
  ASSUME TypeOK, NEW t \in Threads, ChannelStep(t)
  PROVE  TypeOK'
<1>1. CASE Send(t)
  <2>1. role' \in Roles /\ at' \in [Threads -> Places] /\ asleep' \subseteq Threads
    BY <1>1, TypeNotify DEF Send
  <2>2. values' \in Seq(1..MaxSent) /\ sent' \in 0..MaxSent
    BY <1>1, BoundsAssumption DEF Send, TypeOK
  <2> QED BY <1>1, <2>1, <2>2 DEF Send, TypeOK, unlessChannel, clockVars,
        processVars, schedulerVars, storeVars
<1>2. CASE Receive(t)
  <2>1. role' \in Roles /\ at' \in [Threads -> Places] /\ asleep' \subseteq Threads
    BY <1>2, TypeThreads DEF Receive, Returns, Places
  <2>2. UNCHANGED channelVars \/ (values # <<>> /\ Take)
    BY <1>2 DEF Receive
  <2>3. values' \in Seq(1..MaxSent) /\ received' \in Seq(1..MaxSent) /\ sent' \in 0..MaxSent
    BY <2>2, TakeTyped DEF TypeOK, channelVars
  <2> QED BY <1>2, <2>1, <2>3 DEF Receive, TypeOK, unlessChannel, clockVars,
        processVars, schedulerVars, storeVars
<1>3. CASE TryReceive(t)
  <2>1. values' \in Seq(1..MaxSent) /\ received' \in Seq(1..MaxSent) /\ sent' \in 0..MaxSent
    BY <1>3, TakeTyped DEF TryReceive, TypeOK
  <2> QED BY <1>3, <2>1 DEF TryReceive, TypeOK, threadVars, unlessChannel, clockVars,
        processVars, schedulerVars, storeVars
<1> QED BY <1>1, <1>2, <1>3 DEF ChannelStep

LEMMA TypeEvent ==
  ASSUME TypeOK, NEW t \in Threads, EventStep(t)
  PROVE  TypeOK'
<1>1. role' \in Roles /\ at' \in [Threads -> Places] /\ asleep' \subseteq Threads
  <2>1. CASE Wait(t)
    BY <2>1, TypeThreads DEF Wait, Returns, Places
  <2>2. CASE Expire(t)
    BY <2>2 DEF Expire, TypeOK, Places
  <2>3. CASE Trigger(t)
    BY <2>3, TypeNotify DEF Trigger
  <2>4. CASE Reset(t)
    BY <2>4, TypeNotify DEF Reset
  <2>5. ASSUME NEW e \in Edges, WaitEdge(t, e)
        PROVE  role' \in Roles /\ at' \in [Threads -> Places] /\ asleep' \subseteq Threads
    <3>1. e \in Places
      BY DEF Places, Waits
    <3> QED BY <2>5, <3>1, TypeThreads DEF WaitEdge
  <2> QED BY <2>1, <2>2, <2>3, <2>4, <2>5 DEF EventStep
<1>2. /\ triggered' \in [Events -> BOOLEAN] /\ since' \in [Threads -> Nat]
      /\ UNCHANGED <<level, worker, stopping, edges>>
  <2>1. ASSUME NEW e \in Edges, WaitEdge(t, e)
        PROVE  /\ triggered' \in [Events -> BOOLEAN] /\ since' \in [Threads -> Nat]
               /\ UNCHANGED <<level, worker, stopping, edges>>
    BY <2>1 DEF WaitEdge, TypeOK
  <2>2. CASE UNCHANGED clockVars
    BY <2>1, <2>2 DEF EventStep, Wait, Expire, Trigger, Reset, TypeOK, clockVars
  <2> QED BY <2>1, <2>2 DEF EventStep, Wait, Expire, Trigger, Reset
<1>3. UNCHANGED unlessEvent
  BY DEF EventStep, Wait, Expire, Trigger, Reset, WaitEdge
<1> QED BY <1>1, <1>2, <1>3 DEF TypeOK, unlessEvent, channelVars, processVars, schedulerVars,
      storeVars

LEMMA TypeClock ==
  ASSUME TypeOK, NEW t \in Threads, ClockStep(t)
  PROVE  TypeOK'
<1>1. role' \in Roles /\ at' \in [Threads -> Places] /\ asleep' \subseteq Threads
  BY TypeThreads, TypeNotify DEF ClockStep, Start, Stop, Stopped, Returns, Places
<1>2. /\ worker' \in {"none", "loop", "period", "flipped", "reset", "ended"}
      /\ stopping' \in BOOLEAN /\ UNCHANGED <<triggered, level, edges, since, unlessEvent>>
  BY DEF ClockStep, Start, Stop, Stopped, TypeOK
<1> QED BY <1>1, <1>2 DEF TypeOK, unlessEvent, channelVars, processVars, schedulerVars,
      storeVars

LEMMA TypeWorker ==
  ASSUME TypeOK, Worker
  PROVE  TypeOK'
<1>1. role' \in Roles /\ at' \in [Threads -> Places] /\ asleep' \subseteq Threads
  BY TypeNotify DEF Worker, WorkerLoop, WorkerFlip, WorkerReset, WorkerTrigger
<1>2. Edge \in Edges /\ Edge \in Events
  BY DEF Edge, Edges, Events
<1>3. /\ worker' \in {"none", "loop", "period", "flipped", "reset", "ended"}
      /\ level' \in 0..1 /\ triggered' \in [Events -> BOOLEAN] /\ edges' \in [Edges -> Nat]
      /\ UNCHANGED <<stopping, since, unlessEvent>>
  <2>1. CASE WorkerLoop \/ WorkerFlip
    BY <2>1 DEF WorkerLoop, WorkerFlip, TypeOK
  <2>2. CASE WorkerReset
    BY <1>2, <2>2 DEF WorkerReset, TypeOK
  <2>3. CASE WorkerTrigger
    BY <1>2, <2>3 DEF WorkerTrigger, TypeOK
  <2> QED BY <2>1, <2>2, <2>3 DEF Worker
<1> QED BY <1>1, <1>3 DEF TypeOK, unlessEvent, channelVars, processVars, schedulerVars,
      storeVars

LEMMA TypeProcess ==
  ASSUME TypeOK, (\E t \in Threads : ProcessStep(t)) \/ Finish
  PROVE  TypeOK'
<1>1. role' \in Roles /\ at' \in [Threads -> Places] /\ asleep' \subseteq Threads
  BY TypeThreads, TypeNotify DEF ProcessStep, Spawn, Join, Kill, Joined, Finish, Returns, Places
<1>2. /\ state' \in {"created", "running", "stopped", "completed", "failed"}
      /\ thread' \in {"none", "runs", "over"} /\ asked' \in BOOLEAN
      /\ UNCHANGED unlessProcess
  BY DEF ProcessStep, Spawn, Join, Kill, Joined, Finish, TypeOK, processVars
<1> QED BY <1>1, <1>2 DEF TypeOK, unlessProcess, channelVars, clockVars, schedulerVars,
      storeVars

LEMMA TypeScheduler ==
  ASSUME TypeOK, NEW t \in Threads, SchedulerStep(t)
  PROVE  TypeOK'
<1>1. role' \in Roles /\ at' \in [Threads -> Places] /\ asleep' \subseteq Threads
  BY TypeThreads, TypeNotify
  DEF SchedulerStep, Schedule, Halt, Run, Again, Pick, TaskEnds, Returns, Places
<1>2. /\ tasks' \subseteq Tasks /\ order' \in 0..MaxTasks /\ now' \in 0..MaxTime
      /\ stopped' \in BOOLEAN /\ ran' \in Seq(Tasks)
  <2>1. CASE Schedule(t)
    <3>1. PICK time \in 0..MaxTime :
            tasks' = tasks \cup {[time |-> time, order |-> order, late |-> time < now]}
      BY <2>1 DEF Schedule
    <3>2. [time |-> time, order |-> order, late |-> time < now] \in Tasks
      BY DEF Tasks, TypeOK
    <3>3. order' \in 0..MaxTasks
      BY <2>1, BoundsAssumption DEF Schedule, TypeOK
    <3> QED BY <2>1, <3>1, <3>2, <3>3 DEF Schedule, TypeOK
  <2>2. CASE Pick(t)
    <3>1. CASE UNCHANGED schedulerVars
      BY <3>1 DEF TypeOK, schedulerVars
    <3>2. ASSUME NEW task \in tasks, tasks' = tasks \ {task}, now' = task.time,
                 ran' = Append(ran, task), UNCHANGED <<order, stopped>>
          PROVE  /\ tasks' \subseteq Tasks /\ order' \in 0..MaxTasks /\ now' \in 0..MaxTime
                 /\ stopped' \in BOOLEAN /\ ran' \in Seq(Tasks)
      <4>1. task \in Tasks
        BY DEF TypeOK
      <4>2. task.time \in 0..MaxTime
        BY <4>1 DEF Tasks
      <4>3. ran' \in Seq(Tasks)
        BY <3>2, <4>1, AppendProperties DEF TypeOK
      <4> QED BY <3>2, <4>2, <4>3 DEF TypeOK
    <3> QED BY <2>2, <3>1, <3>2 DEF Pick
  <2> QED BY <2>1, <2>2 DEF SchedulerStep, Halt, Run, Again, TaskEnds, TypeOK, schedulerVars
<1>3. UNCHANGED unlessScheduler
  BY DEF SchedulerStep, Schedule, Halt, Run, Again, Pick, TaskEnds
<1> QED BY <1>1, <1>2, <1>3 DEF TypeOK, unlessScheduler, channelVars, clockVars, processVars,
      storeVars

\* What Insert does to the table of objects.
LEMMA Inserted ==
  ASSUME TypeOK, NEW object \in Objects, Insert(object)
  PROVE  /\ next' = next + 1 /\ next' \in Nat
         /\ DOMAIN objects' = DOMAIN objects \cup {next} /\ DOMAIN objects' \subseteq Nat
         /\ \A h \in DOMAIN objects' : objects'[h] \in Objects
         /\ \A h \in DOMAIN objects : h # next => objects'[h] = objects[h]
BY DEF Insert, TypeOK

LEMMA TypeStore ==
  ASSUME TypeOK, Handles, NEW t \in Threads, StoreStep(t)
  PROVE  TypeOK'
<1>1. role' \in Roles /\ at' \in [Threads -> Places] /\ asleep' \subseteq Threads
  BY TypeThreads, TypeNotify
  DEF StoreStep, AddClass, CreatePlain, Create, Constructed, Destroy, Clone, Call, MethodReturns,
      Returns, Places
<1>2. UNCHANGED unlessStore /\ classes' \subseteq Types
  BY DEF StoreStep, AddClass, CreatePlain, Create, Constructed, Destroy, Clone, Call, MethodReturns, TypeOK
<1>3. holds' \in [Threads -> [type : Types \cup {"none"}, handle : Nat, native : Nat]]
  <2>1. CASE Create(t)
    BY <2>1 DEF Create, TypeOK
  <2>2. CASE Call(t)
    BY <2>2 DEF Call, TypeOK, Objects
  <2>3. CASE Constructed(t) \/ MethodReturns(t)
    <3>1. None \in [type : Types \cup {"none"}, handle : Nat, native : Nat]
      BY DEF None
    <3> QED BY <2>3, <3>1 DEF Constructed, MethodReturns, TypeOK
  <2> QED BY <2>1, <2>2, <2>3 DEF StoreStep, AddClass, CreatePlain, Destroy, Clone, TypeOK
<1>4. /\ made' \in Nat /\ next' \in Nat /\ DOMAIN objects' \subseteq Nat
      /\ \A h \in DOMAIN objects' : objects'[h] \in Objects
  <2>1. CASE UNCHANGED <<objects, next, made>>
    BY <2>1 DEF TypeOK
  <2>2. ASSUME NEW object \in Objects, Insert(object), made' \in Nat
        PROVE  /\ made' \in Nat /\ next' \in Nat /\ DOMAIN objects' \subseteq Nat
               /\ \A h \in DOMAIN objects' : objects'[h] \in Objects
    BY <2>2, Inserted
  <2>3. CASE CreatePlain(t)
    <3>1. PICK c \in Types : Insert([type |-> c, native |-> 0])
      BY <2>3 DEF CreatePlain
    <3>2. [type |-> c, native |-> 0] \in Objects
      BY DEF Objects
    <3>3. made' \in Nat
      BY <2>3 DEF CreatePlain, TypeOK
    <3> QED BY <3>1, <3>2, <3>3, <2>2
  <2>4. CASE Constructed(t)
    <3>1. CASE UNCHANGED <<objects, next, made>>
      BY <2>1, <3>1
    <3>2. CASE made' = made + 1 /\ Insert([type |-> holds[t].type, native |-> made + 1])
      <4>1. made + 1 \in Nat /\ made' \in Nat
        BY <3>2 DEF TypeOK
      <4>2. holds[t].type \in Types
        BY <2>4 DEF Constructed, Handles
      <4>3. [type |-> holds[t].type, native |-> made + 1] \in Objects
        BY <4>1, <4>2 DEF Objects
      <4> QED BY <3>2, <4>1, <4>3, <2>2
    <3> QED BY <2>4, <3>1, <3>2 DEF Constructed
  <2>5. CASE Clone(t)
    <3>1. PICK h \in DOMAIN objects : Insert(objects[h])
      BY <2>5 DEF Clone
    <3>2. objects[h] \in Objects /\ made' \in Nat
      BY <2>5 DEF Clone, TypeOK
    <3> QED BY <3>1, <3>2, <2>2
  <2>6. CASE Destroy(t)
    BY <2>6 DEF Destroy, TypeOK
  <2> QED BY <2>1, <2>3, <2>4, <2>5, <2>6 DEF StoreStep, AddClass, Create, Call, MethodReturns
<1> QED BY <1>1, <1>2, <1>3, <1>4 DEF TypeOK, unlessStore, channelVars, clockVars, processVars,
      schedulerVars
-----------------------------------------------------------------------------
(* What steps leave alone.                                                 *)

\* Threads at some places stay there, wake at most, and nobody comes but to a
\* call that may wait, awake.
Apart(places) ==
  \A t \in Threads :
    /\ at[t] \in places => at'[t] = at[t] /\ (t \in asleep' => t \in asleep)
    /\ at'[t] \in places /\ at'[t] # at[t] => at'[t] \in Blocking /\ t \notin asleep'

StorePlaces == {"call", "construct"}
AtProcess == {"join"}
AtScheduler == {"run", "pick", "task"}
Inner == Places \ {"free"}

\* A thread goes from a place to another.
LEMMA GoesApart ==
  ASSUME TypeOK, Asleep, NEW t \in Threads, NEW place \in Places \ Waits, Goes(t, place),
         t \notin asleep,
         NEW places, at[t] \notin places, place \notin places
  PROVE  Asleep' /\ Apart(places)
<1>1. \A s \in Threads : at'[s] = IF s = t THEN place ELSE at[s]
  BY DEF Goes, TypeOK
<1>2. asleep' = asleep /\ asleep \subseteq Threads
  BY DEF Goes, TypeOK
<1>3. Asleep'
  BY <1>1, <1>2 DEF Asleep
<1>4. Apart(places)
  BY <1>1, <1>2 DEF Apart
<1> QED BY <1>3, <1>4

LEMMA EntersApart ==
  ASSUME TypeOK, Asleep, NEW t \in Threads, NEW place \in Blocking, Goes(t, place),
         at[t] = "free", NEW places, "free" \notin places
  PROVE  Asleep' /\ Apart(places)
<1>1. \A s \in Threads : at'[s] = IF s = t THEN place ELSE at[s]
  BY DEF Goes, TypeOK
<1>2. asleep' = asleep /\ asleep \subseteq Threads
  BY DEF Goes, TypeOK
<1>3. t \notin asleep
  BY DEF Asleep, Waits, Blocking, Edges
<1>4. Asleep'
  BY <1>1, <1>2, <1>3 DEF Asleep
<1>5. Apart(places)
  BY <1>1, <1>2, <1>3 DEF Apart
<1> QED BY <1>4, <1>5

LEMMA StillApart ==
  ASSUME TypeOK, Asleep, UNCHANGED at, asleep' \subseteq asleep, NEW places
  PROVE  Asleep' /\ Apart(places)
BY DEF Asleep, Apart, TypeOK

LEMMA SleepsApart ==
  ASSUME TypeOK, Asleep, NEW t \in Threads, Sleeps(t), at[t] \in Waits,
         NEW places, at[t] \notin places
  PROVE  Asleep' /\ Apart(places)
BY DEF Asleep, Apart, TypeOK, Sleeps

LEMMA NotifyApart ==
  ASSUME TypeOK, Asleep, NEW few, NEW one,
         NotifyAll(few) \/ NotifyOne(one) \/ UNCHANGED threadVars, NEW places
  PROVE  Asleep' /\ Apart(places)
<1>1. UNCHANGED at /\ asleep' \subseteq asleep
  BY DEF NotifyAll, NotifyOne, threadVars
<1> QED BY <1>1, StillApart

\* Who is not at a place to wait is awake.
LEMMA FreeAwake ==
  ASSUME Asleep, NEW t, at[t] \notin Waits
  PROVE  t \notin asleep
BY DEF Asleep

LEMMA EnterApart ==
  ASSUME TypeOK, Asleep, NEW t \in Threads,
         Spurious(t) \/ \E call \in Blocking : Enter(t, call)
  PROVE  Asleep' /\ Apart(Inner)
<1>1. CASE Spurious(t)
  BY <1>1, StillApart DEF Spurious
<1>2. ASSUME NEW call \in Blocking, Enter(t, call)
      PROVE  Asleep' /\ Apart(Inner)
  BY <1>2, EntersApart DEF Enter, Calling, Inner
<1> QED BY <1>1, <1>2

LEMMA SemaphoreApart ==
  ASSUME TypeOK, Asleep, NEW t \in Threads, SemaphoreStep(t)
  PROVE  Asleep' /\ Apart(Inner \ {"acquire"})
<1>1. CASE Acquire(t) /\ Sleeps(t)
  <2>1. at[t] = "acquire"
    BY <1>1 DEF Acquire, Looks
  <2> QED BY <1>1, <2>1, SleepsApart DEF Waits, Blocking
<1>2. CASE Acquire(t) /\ Returns(t)
  <2>1. at[t] = "acquire" /\ t \notin asleep
    BY <1>2 DEF Acquire, Looks
  <2> QED BY <1>2, <2>1, GoesApart DEF Returns, Inner, Places, Waits, Blocking, Edges
<1>3. CASE TryAcquire(t) \/ Release(t)
  BY <1>3, NotifyApart DEF TryAcquire, Release
<1> QED BY <1>1, <1>2, <1>3 DEF SemaphoreStep, Acquire

LEMMA ChannelApart ==
  ASSUME TypeOK, Asleep, NEW t \in Threads, ChannelStep(t)
  PROVE  Asleep' /\ Apart(Inner \ {"receive"})
<1>1. CASE Receive(t) /\ Sleeps(t)
  <2>1. at[t] = "receive"
    BY <1>1 DEF Receive, Looks
  <2> QED BY <1>1, <2>1, SleepsApart DEF Waits, Blocking
<1>2. CASE Receive(t) /\ Returns(t)
  <2>1. at[t] = "receive" /\ t \notin asleep
    BY <1>2 DEF Receive, Looks
  <2> QED BY <1>2, <2>1, GoesApart DEF Returns, Inner, Places, Waits, Blocking, Edges
<1>3. CASE Send(t) \/ TryReceive(t)
  BY <1>3, NotifyApart DEF Send, TryReceive
<1> QED BY <1>1, <1>2, <1>3 DEF ChannelStep, Receive

LEMMA EventApart ==
  ASSUME TypeOK, Asleep, NEW t \in Threads, EventStep(t)
  PROVE  Asleep' /\ Apart(Inner \ ({"wait", "wait_for"} \cup Edges))
<1> DEFINE Own == {"wait", "wait_for"} \cup Edges
<1>1. CASE Wait(t) /\ Sleeps(t)
  <2>1. at[t] \in Own /\ at[t] \in Waits
    BY <1>1 DEF Wait, Waits, Blocking, Edges
  <2> QED BY <1>1, <2>1, SleepsApart
<1>2. CASE Wait(t) /\ Returns(t)
  <2>1. at[t] \in Own /\ t \notin asleep
    BY <1>2 DEF Wait
  <2> QED BY <1>2, <2>1, GoesApart DEF Returns, Inner, Places, Waits, Blocking, Edges
<1>3. CASE Expire(t)
  <2>1. \A s \in Threads : at'[s] = IF s = t THEN "free" ELSE at[s]
    BY <1>3 DEF Expire, TypeOK
  <2>2. asleep' = asleep \ {t} /\ asleep \subseteq Threads /\ at[t] = "wait_for"
    BY <1>3 DEF Expire, TypeOK
  <2> QED BY <2>1, <2>2 DEF Asleep, Apart, Inner
<1>4. CASE Trigger(t) \/ Reset(t)
  BY <1>4, NotifyApart DEF Trigger, Reset
<1>5. ASSUME NEW e \in Edges, WaitEdge(t, e)
      PROVE  Asleep' /\ Apart(Inner \ Own)
  <2>1. \A s \in Threads : at'[s] = IF s = t THEN e ELSE at[s]
    BY <1>5 DEF WaitEdge, Goes, TypeOK
  <2>2. asleep' = asleep /\ asleep \subseteq Threads /\ at[t] = "free"
    BY <1>5 DEF WaitEdge, Goes, TypeOK, Calling
  <2>3. t \notin asleep
    BY <2>2, FreeAwake DEF Waits, Blocking, Edges
  <2> QED BY <2>1, <2>2, <2>3 DEF Asleep, Apart, Inner
<1> QED BY <1>1, <1>2, <1>3, <1>4, <1>5 DEF EventStep, Wait

LEMMA ClockApart ==
  ASSUME TypeOK, Asleep, NEW t \in Threads, ClockStep(t)
  PROVE  Asleep' /\ Apart(Inner \ {"stop"})
<1>1. CASE Start(t)
  BY <1>1, NotifyApart DEF Start
<1>2. CASE Stop(t)
  <2>1. at[t] = "free" /\ t \notin asleep
    BY <1>2, FreeAwake DEF Stop, Calling, Waits, Blocking, Edges
  <2> QED BY <1>2, <2>1, GoesApart DEF Stop, Inner, Places, Waits, Blocking, Edges
<1>3. CASE Stopped(t)
  <2>1. at[t] = "stop" /\ t \notin asleep
    BY <1>3, FreeAwake DEF Stopped, Waits, Blocking, Edges
  <2> QED BY <1>3, <2>1, GoesApart DEF Stopped, Returns, Inner, Places, Waits, Blocking, Edges
<1> QED BY <1>1, <1>2, <1>3 DEF ClockStep

LEMMA WorkerApart ==
  ASSUME TypeOK, Asleep, Worker
  PROVE  Asleep' /\ Apart(Inner)
BY NotifyApart DEF Worker, WorkerLoop, WorkerFlip, WorkerReset, WorkerTrigger

LEMMA ProcessApart ==
  ASSUME TypeOK, Asleep, (\E t \in Threads : ProcessStep(t)) \/ Finish
  PROVE  Asleep' /\ Apart(Inner \ AtProcess)
<1>1. CASE Finish
  BY <1>1, NotifyApart DEF Finish
<1>2. ASSUME NEW t \in Threads, ProcessStep(t)
      PROVE  Asleep' /\ Apart(Inner \ AtProcess)
  <2>1. CASE Spawn(t)
    BY <2>1, NotifyApart DEF Spawn
  <2>2. CASE Join(t) \/ Kill(t)
    <3>1. at[t] = "free" /\ t \notin asleep
      BY <2>2, FreeAwake DEF Join, Kill, Calling, Waits, Blocking, Edges
    <3> QED BY <2>2, <3>1, GoesApart
        DEF Join, Kill, AtProcess, Inner, Places, Waits, Blocking, Edges
  <2>3. CASE Joined(t)
    <3>1. at[t] = "join" /\ t \notin asleep
      BY <2>3, FreeAwake DEF Joined, Waits, Blocking, Edges
    <3> QED BY <2>3, <3>1, GoesApart
        DEF Joined, Returns, AtProcess, Inner, Places, Waits, Blocking, Edges
  <2> QED BY <1>2, <2>1, <2>2, <2>3 DEF ProcessStep
<1> QED BY <1>1, <1>2

LEMMA SchedulerApart ==
  ASSUME TypeOK, Asleep, NEW t \in Threads, SchedulerStep(t)
  PROVE  Asleep' /\ Apart(Inner \ AtScheduler)
<1>1. CASE Schedule(t) \/ Halt(t)
  BY <1>1, NotifyApart DEF Schedule, Halt
<1>2. CASE Run(t) \/ Again(t) \/ Pick(t) \/ TaskEnds(t)
  <2>1. at[t] \in {"free"} \cup AtScheduler
    BY <1>2 DEF Run, Again, Pick, TaskEnds, Calling, AtScheduler
  <2>2. t \notin asleep
    BY <2>1, FreeAwake DEF AtScheduler, Waits, Blocking, Edges
  <2>3. PICK place \in {"free"} \cup AtScheduler : Goes(t, place)
    BY <1>2 DEF Run, Again, Pick, TaskEnds, Returns, AtScheduler
  <2>4. place \in Places \ Waits
    BY DEF AtScheduler, Places, Waits, Blocking, Edges
  <2> QED BY <2>1, <2>2, <2>3, <2>4, GoesApart DEF Inner
<1> QED BY <1>1, <1>2 DEF SchedulerStep

LEMMA StoreApart ==
  ASSUME TypeOK, Asleep, NEW t \in Threads, StoreStep(t)
  PROVE  Asleep' /\ Apart(Inner \ StorePlaces)
<1>1. CASE UNCHANGED threadVars
  BY <1>1, NotifyApart
<1>2. CASE Create(t) \/ Constructed(t) \/ Call(t) \/ MethodReturns(t)
  <2>1. at[t] \in {"free"} \cup StorePlaces
    BY <1>2 DEF Create, Constructed, Call, MethodReturns, Calling, StorePlaces
  <2>2. t \notin asleep
    BY <2>1, FreeAwake DEF StorePlaces, Waits, Blocking, Edges
  <2>3. PICK place \in {"free"} \cup StorePlaces : Goes(t, place)
    BY <1>2 DEF Create, Constructed, Call, MethodReturns, Returns, StorePlaces
  <2>4. place \in Places \ Waits
    BY DEF StorePlaces, Places, Waits, Blocking, Edges
  <2> QED BY <2>1, <2>2, <2>3, <2>4, GoesApart DEF Inner
<1> QED BY <1>1, <1>2 DEF StoreStep, AddClass, CreatePlain, Destroy, Clone
-----------------------------------------------------------------------------
(* Nobody sleeps over a permit, an event or an item.                       *)

LEMMA SemaphoreStays ==
  ASSUME SemaphoreQuiet, Apart({"acquire"}), TypeOK', UNCHANGED count
  PROVE  SemaphoreQuiet'
BY DEF SemaphoreQuiet, Apart, TypeOK

LEMMA SemaphoreKeeps ==
  ASSUME TypeOK, SemaphoreQuiet, NEW t \in Threads, SemaphoreStep(t)
  PROVE  SemaphoreQuiet'
<1>1. CASE Acquire(t) /\ count = 0
  BY <1>1 DEF Acquire, Sleeps, SemaphoreQuiet
<1>2. CASE Acquire(t) /\ count # 0
  <2>1. \A s \in Threads : at'[s] = IF s = t THEN "free" ELSE at[s]
    BY <1>2 DEF Acquire, Returns, Goes, TypeOK
  <2>2. asleep' = asleep /\ asleep \subseteq Threads
    BY <1>2 DEF Acquire, Returns, Goes, TypeOK
  <2>3. \A s \in asleep : at[s] # "acquire"
    BY <1>2 DEF SemaphoreQuiet
  <2> QED BY <2>1, <2>2, <2>3 DEF SemaphoreQuiet
<1>3. CASE TryAcquire(t)
  BY <1>3 DEF TryAcquire, threadVars, SemaphoreQuiet
<1>4. CASE Release(t)
  BY <1>4 DEF Release, NotifyAll, Sleepers, SemaphoreQuiet
<1> QED BY <1>1, <1>2, <1>3, <1>4 DEF SemaphoreStep

LEMMA EventsStay ==
  ASSUME EventsQuiet, Apart({"wait", "wait_for"} \cup Edges), TypeOK', UNCHANGED triggered
  PROVE  EventsQuiet'
<1> SUFFICES ASSUME NEW s \in asleep', at'[s] \in {"wait", "wait_for"} \cup Edges
             PROVE  ~triggered'[EventOf(at'[s])]
  BY DEF EventsQuiet
<1>1. s \in Threads
  BY DEF TypeOK
<1>2. at[s] = at'[s] /\ s \in asleep
  BY <1>1 DEF Apart
<1> QED BY <1>2 DEF EventsQuiet

\* A thread at a place waits for one event: that of the place.
LEMMA EventOfPlace ==
  ASSUME NEW place \in {"wait", "wait_for"} \cup Edges
  PROVE  /\ EventOf(place) \in Events /\ place \in WaitersOf(EventOf(place))
         /\ \A e \in Edges : EventOf(place) = e <=> place = e
         /\ \A e \in Events : place \notin WaitersOf(e) => EventOf(place) # e
BY DEF EventOf, Events, WaitersOf, Edges

LEMMA EventsKeep ==
  ASSUME TypeOK, Asleep, EventsQuiet, NEW t \in Threads, EventStep(t)
  PROVE  EventsQuiet'
<1> DEFINE Own == {"wait", "wait_for"} \cup Edges
<1>1. CASE Wait(t) /\ ~triggered[EventOf(at[t])]
  BY <1>1 DEF Wait, Sleeps, EventsQuiet
<1>2. CASE Wait(t) /\ triggered[EventOf(at[t])]
  <2>1. \A s \in Threads : at'[s] = IF s = t THEN "free" ELSE at[s]
    BY <1>2 DEF Wait, Returns, Goes, TypeOK
  <2>2. asleep' = asleep /\ asleep \subseteq Threads /\ t \notin asleep /\ triggered' = triggered
    BY <1>2 DEF Wait, Returns, Goes, TypeOK
  <2> QED BY <2>1, <2>2 DEF EventsQuiet
<1>3. CASE Expire(t)
  <2>1. \A s \in Threads : s # t => at'[s] = at[s]
    BY <1>3 DEF Expire, TypeOK
  <2>2. asleep' = asleep \ {t} /\ asleep \subseteq Threads /\ triggered' = triggered
    BY <1>3 DEF Expire, TypeOK
  <2> QED BY <2>1, <2>2 DEF EventsQuiet
<1>4. CASE Trigger(t)
  <2>1. /\ \A e \in Events : triggered'[e] = (IF e = "event" THEN TRUE ELSE triggered[e])
        /\ at' = at /\ \A s \in asleep' : s \in asleep /\ at[s] \notin WaitersOf("event")
    BY <1>4 DEF Trigger, NotifyAll, Sleepers, TypeOK
  <2>2. "event" \in Events
    BY DEF Events
  <2> SUFFICES ASSUME NEW s \in asleep', at'[s] \in Own
               PROVE  ~triggered'[EventOf(at'[s])]
    BY DEF EventsQuiet
  <2>3. s \in asleep /\ at'[s] = at[s] /\ EventOf(at[s]) # "event" /\ EventOf(at[s]) \in Events
    BY <2>1, <2>2, EventOfPlace
  <2> QED BY <2>1, <2>3 DEF EventsQuiet
<1>5. CASE Reset(t)
  <2>1. \A e \in Events : triggered'[e] = (IF e = "event" THEN FALSE ELSE triggered[e])
    BY <1>5 DEF Reset, TypeOK
  <2>2. at' = at /\ asleep' = asleep
    BY <1>5 DEF Reset, threadVars
  <2> QED BY <2>1, <2>2, EventOfPlace DEF EventsQuiet
<1>6. ASSUME NEW d \in Edges, WaitEdge(t, d)
      PROVE  EventsQuiet'
  <2>1. \A e \in Events : triggered'[e] = (IF e = d THEN FALSE ELSE triggered[e])
    BY <1>6 DEF WaitEdge, TypeOK
  <2>2. \A s \in Threads : s # t => at'[s] = at[s]
    BY <1>6 DEF WaitEdge, Goes, TypeOK
  <2>3. at[t] = "free" /\ asleep' = asleep /\ asleep \subseteq Threads
    BY <1>6 DEF WaitEdge, Goes, TypeOK, Calling
  <2>4. t \notin asleep
    BY <2>3, FreeAwake DEF Waits, Blocking, Edges
  <2> QED BY <2>1, <2>2, <2>3, <2>4, EventOfPlace DEF EventsQuiet
<1> QED BY <1>1, <1>2, <1>3, <1>4, <1>5, <1>6 DEF EventStep

LEMMA EventsKeepWorker ==
  ASSUME TypeOK, EventsQuiet, Worker
  PROVE  EventsQuiet'
<1>0. Edge \in Edges /\ Edge \in Events /\ WaitersOf(Edge) = {Edge}
  BY DEF Edge, Edges, Events, WaitersOf
<1>1. CASE WorkerLoop \/ WorkerFlip
  BY <1>1 DEF WorkerLoop, WorkerFlip, threadVars, EventsQuiet
<1>2. CASE WorkerReset
  <2>1. \A e \in Events : triggered'[e] = (IF e = Edge THEN FALSE ELSE triggered[e])
    BY <1>2 DEF WorkerReset, TypeOK
  <2>2. at' = at /\ asleep' = asleep
    BY <1>2 DEF WorkerReset, threadVars
  <2> QED BY <2>1, <2>2, EventOfPlace DEF EventsQuiet
<1>3. CASE WorkerTrigger
  <2>1. \A e \in Events : triggered'[e] = (IF e = Edge THEN TRUE ELSE triggered[e])
    BY <1>3 DEF WorkerTrigger, TypeOK
  <2>2. at' = at /\ \A s \in asleep' : s \in asleep /\ at[s] # Edge
    BY <1>0, <1>3 DEF WorkerTrigger, NotifyAll, Sleepers
  <2> SUFFICES ASSUME NEW s \in asleep', at'[s] \in {"wait", "wait_for"} \cup Edges
               PROVE  ~triggered'[EventOf(at'[s])]
    BY DEF EventsQuiet
  <2>3. s \in asleep /\ at'[s] = at[s] /\ EventOf(at[s]) # Edge /\ EventOf(at[s]) \in Events
    BY <1>0, <2>2, EventOfPlace
  <2> QED BY <2>1, <2>3 DEF EventsQuiet
<1> QED BY <1>1, <1>2, <1>3 DEF Worker

LEMMA AwakeFinite ==
  IsFiniteSet(Awake)
BY ThreadsAssumption, FS_Subset DEF Awake

LEMMA ChannelStays ==
  ASSUME TypeOK, ChannelQuiet, Apart({"receive"}), TypeOK', UNCHANGED channelVars
  PROVE  ChannelQuiet'
<1>1. Sleepers({"receive"})' \subseteq Sleepers({"receive"})
  BY DEF Sleepers, Apart, TypeOK, Blocking
<1>2. Awake \subseteq Awake'
  BY DEF Awake, Apart
<1>3. IsFiniteSet(Awake')
  BY ThreadsAssumption, FS_Subset DEF Awake
<1>4. Cardinality(Awake) <= Cardinality(Awake')
  BY <1>2, <1>3, FS_Subset
<1>5. Cardinality(Awake) \in Nat /\ Cardinality(Awake') \in Nat
  BY <1>3, AwakeFinite, FS_CardinalityType
<1>6. Len(values) \in Nat /\ values' = values
  BY DEF channelVars, TypeOK
<1> QED BY <1>1, <1>4, <1>5, <1>6 DEF ChannelQuiet

LEMMA ChannelKeeps ==
  ASSUME TypeOK, ChannelQuiet, NEW t \in Threads, ChannelStep(t)
  PROVE  ChannelQuiet'
<1>0. /\ Cardinality(Awake) \in Nat /\ Len(values) \in Nat /\ asleep \subseteq Threads
      /\ values \in Seq(1..MaxSent) /\ received \in Seq(1..MaxSent)
  BY AwakeFinite, FS_CardinalityType DEF TypeOK
<1>1. CASE Send(t)
  <2>1. Len(values') = Len(values) + 1
    BY <1>0, <1>1 DEF Send
  <2>2. CASE Sleepers({"receive"}) = {}
    BY <1>1, <2>2 DEF Send, NotifyOne, threadVars, Sleepers, ChannelQuiet
  <2>3. CASE Sleepers({"receive"}) # {}
    <3>1. PICK s \in Sleepers({"receive"}) : asleep' = asleep \ {s} /\ at' = at
      BY <1>1, <2>3 DEF Send, NotifyOne
    <3>2. Awake' = Awake \cup {s} /\ s \notin Awake
      BY <1>0, <3>1 DEF Awake, Sleepers
    <3>3. Cardinality(Awake') = Cardinality(Awake) + 1
      BY <3>2, AwakeFinite, FS_AddElement
    <3> QED BY <1>0, <2>1, <2>3, <3>3 DEF ChannelQuiet
  <2> QED BY <2>2, <2>3
<1>2. CASE Receive(t) /\ values = <<>>
  <2>1. values' = values /\ Len(values) = 0
    BY <1>2 DEF Receive, channelVars
  <2>2. IsFiniteSet(Awake')
    BY ThreadsAssumption, FS_Subset DEF Awake
  <2> QED BY <2>1, <2>2, FS_CardinalityType DEF ChannelQuiet
<1>3. CASE Receive(t) /\ values # <<>>
  <2>1. Len(values') = Len(values) - 1
    BY <1>0, <1>3, TakeTyped DEF Receive
  <2>2. \A s \in Threads : at'[s] = IF s = t THEN "free" ELSE at[s]
    BY <1>3 DEF Receive, Returns, Goes, TypeOK
  <2>3. asleep' = asleep /\ t \notin asleep /\ at[t] = "receive"
    BY <1>3 DEF Receive, Returns, Goes, Looks
  <2>4. Awake' = Awake \ {t} /\ t \in Awake
    BY <2>2, <2>3 DEF Awake
  <2>5. Cardinality(Awake') = Cardinality(Awake) - 1
    BY <2>4, AwakeFinite, FS_RemoveElement
  <2>6. Sleepers({"receive"})' \subseteq Sleepers({"receive"})
    BY <1>0, <2>2, <2>3 DEF Sleepers
  <2> QED BY <1>0, <2>1, <2>5, <2>6 DEF ChannelQuiet
<1>4. CASE TryReceive(t)
  <2>1. Len(values') = Len(values) - 1
    BY <1>0, <1>4, TakeTyped DEF TryReceive
  <2>2. at' = at /\ asleep' = asleep
    BY <1>4 DEF TryReceive, threadVars
  <2>3. Awake' = Awake /\ Sleepers({"receive"})' = Sleepers({"receive"})
    BY <2>2 DEF Awake, Sleepers
  <2> QED BY <1>0, <2>1, <2>3 DEF ChannelQuiet
<1> QED BY <1>1, <1>2, <1>3, <1>4 DEF ChannelStep

LEMMA FifoKeeps ==
  ASSUME TypeOK, ChannelFifo, NEW t \in Threads, ChannelStep(t)
  PROVE  ChannelFifo'
<1>1. /\ values \in Seq(1..MaxSent) /\ received \in Seq(1..MaxSent) /\ sent \in Nat
  BY BoundsAssumption DEF TypeOK
<1>2. CASE Send(t)
  <2>1. values' = Append(values, sent + 1) /\ received' = received /\ sent' = sent + 1
    BY <1>2 DEF Send
  <2>2. received \o values \in Seq(1..MaxSent) /\ received \o values = [i \in 1..sent |-> i]
    BY <1>1, ConcatProperties DEF ChannelFifo
  <2>3. Len(received \o values) = sent
    BY <1>1, <2>2
  <2>4. received' \o values' = Append(received \o values, sent + 1)
    BY <1>1, <2>1
  <2>5. Append(received \o values, sent + 1) = [i \in 1..sent + 1 |-> i]
    BY <1>1, <2>2, <2>3
  <2> QED BY <2>1, <2>4, <2>5 DEF ChannelFifo
<1>3. CASE values # <<>> /\ Take
  BY <1>1, <1>3, TakeTyped DEF ChannelFifo
<1>4. CASE UNCHANGED channelVars
  BY <1>4 DEF channelVars, ChannelFifo
<1> QED BY <1>2, <1>3, <1>4 DEF ChannelStep, Receive, TryReceive
-----------------------------------------------------------------------------
(* Edges, processes, tasks and handles.                                    *)

LEMMA EdgesStay ==
  ASSUME EdgesSeen, Apart(Edges), UNCHANGED <<triggered, edges, since>>
  PROVE  EdgesSeen'
<1>1. \A t \in Threads, e \in Edges : at'[t] = e => at[t] = e
  BY DEF Apart, Blocking, Edges
<1> QED BY <1>1 DEF EdgesSeen

LEMMA EdgesKeep ==
  ASSUME TypeOK, EdgesSeen, NEW t \in Threads, EventStep(t)
  PROVE  EdgesSeen'
<1>0. \A e \in Edges : e \in Events /\ e # "event" /\ e # "free"
  BY DEF Edges, Events
<1>1. CASE Wait(t) \/ Expire(t)
  <2>1. /\ UNCHANGED <<triggered, edges, since>>
        /\ \A s \in Threads : at'[s] = at[s] \/ at'[s] = "free"
    BY <1>1 DEF Wait, Expire, Returns, Goes, Sleeps, clockVars, TypeOK
  <2> QED BY <1>0, <2>1 DEF EdgesSeen
<1>2. CASE Trigger(t) \/ Reset(t)
  <2>1. /\ UNCHANGED <<at, edges, since>>
        /\ \A e \in Edges : triggered'[e] = triggered[e]
    BY <1>0, <1>2 DEF Trigger, Reset, NotifyAll, threadVars, clockVars, TypeOK
  <2> QED BY <2>1 DEF EdgesSeen
<1>3. ASSUME NEW d \in Edges, WaitEdge(t, d)
      PROVE  EdgesSeen'
  <2>1. \A s \in Threads : at'[s] = IF s = t THEN d ELSE at[s]
    BY <1>3 DEF WaitEdge, Goes, TypeOK
  <2>2. \A s \in Threads : since'[s] = IF s = t THEN edges[d] ELSE since[s]
    BY <1>3 DEF WaitEdge, TypeOK
  <2>3. \A e \in Edges : triggered'[e] = (IF e = d THEN FALSE ELSE triggered[e])
    BY <1>0, <1>3 DEF WaitEdge, TypeOK
  <2>4. edges' = edges /\ \A e \in Edges : edges[e] \in Nat
    BY <1>3 DEF WaitEdge, TypeOK
  <2> SUFFICES ASSUME NEW s \in Threads, NEW e \in Edges, at'[s] = e
               PROVE  since'[s] <= edges'[e] /\ (triggered'[e] => since'[s] < edges'[e])
    BY DEF EdgesSeen
  <2>5. CASE s = t
    <3>1. e = d
      BY <2>1, <2>5
    <3>2. since'[s] = edges[e] /\ ~triggered'[e]
      BY <2>2, <2>3, <2>5, <3>1
    <3> QED BY <2>4, <3>2
  <2>6. CASE s # t
    <3>1. since[s] <= edges[e] /\ (triggered[e] => since[s] < edges[e])
      BY <2>1, <2>6 DEF EdgesSeen
    <3> QED BY <2>2, <2>3, <2>4, <2>6, <3>1
  <2> QED BY <2>5, <2>6
<1> QED BY <1>1, <1>2, <1>3 DEF EventStep

LEMMA EdgesKeepWorker ==
  ASSUME TypeOK, EdgesSeen, Worker
  PROVE  EdgesSeen'
<1>0. Edge \in Edges /\ \A e \in Edges : e \in Events
  BY DEF Edge, Edges, Events
<1>1. CASE WorkerLoop \/ WorkerFlip
  BY <1>1 DEF WorkerLoop, WorkerFlip, threadVars, EdgesSeen
<1>2. CASE WorkerReset
  <2>1. \A e \in Edges : triggered'[e] = (IF e = Edge THEN FALSE ELSE triggered[e])
    BY <1>0, <1>2 DEF WorkerReset, TypeOK
  <2>2. UNCHANGED <<at, edges, since>>
    BY <1>2 DEF WorkerReset, threadVars
  <2> QED BY <2>1, <2>2 DEF EdgesSeen
<1>3. CASE WorkerTrigger
  <2>1. \A e \in Edges : triggered'[e] = (IF e = Edge THEN TRUE ELSE triggered[e])
    BY <1>0, <1>3 DEF WorkerTrigger, TypeOK
  <2>2. /\ \A e \in Edges : edges'[e] = (IF e = Edge THEN edges[e] + 1 ELSE edges[e])
        /\ \A e \in Edges : edges[e] \in Nat
    BY <1>3 DEF WorkerTrigger, TypeOK
  <2>3. UNCHANGED <<at, since>> /\ \A t \in Threads : since[t] \in Nat
    BY <1>3 DEF WorkerTrigger, NotifyAll, TypeOK
  <2> SUFFICES ASSUME NEW t \in Threads, NEW e \in Edges, at'[t] = e
               PROVE  since'[t] <= edges'[e] /\ (triggered'[e] => since'[t] < edges'[e])
    BY DEF EdgesSeen
  <2>4. /\ since[t] <= edges[e] /\ (triggered[e] => since[t] < edges[e])
        /\ since'[t] = since[t] /\ since[t] \in Nat /\ edges[e] \in Nat
    BY <2>2, <2>3 DEF EdgesSeen
  <2>5. CASE e = Edge
    <3>1. edges'[e] = edges[e] + 1
      BY <2>2, <2>5
    <3> QED BY <2>4, <3>1
  <2>6. CASE e # Edge
    <3>1. edges'[e] = edges[e] /\ triggered'[e] = triggered[e]
      BY <2>1, <2>2, <2>6
    <3> QED BY <2>4, <3>1
  <2> QED BY <2>5, <2>6
<1> QED BY <1>1, <1>2, <1>3 DEF Worker

LEMMA RunningKeeps ==
  ASSUME TypeOK, Running, (\E t \in Threads : ProcessStep(t)) \/ Finish
  PROVE  Running'
BY DEF TypeOK, Running, ProcessStep, Spawn, Join, Kill, Joined, Finish, processVars

LEMMA HandlesStay ==
  ASSUME Handles, Apart(StorePlaces), UNCHANGED storeVars
  PROVE  Handles'
<1>1. \A t \in Threads, place \in StorePlaces : at'[t] = place => at[t] = place
  BY DEF Apart, Blocking, StorePlaces
<1> QED BY <1>1 DEF Handles, HandlesKept, StorePlaces, storeVars

\* A new object leaves the others, and its handle was none.
LEMMA InsertedHandles ==
  ASSUME TypeOK, Handles, NEW object \in Objects, Insert(object),
         \A t \in Threads : at'[t] \in StorePlaces => at'[t] = at[t] /\ holds'[t] = holds[t]
  PROVE  Handles'
<1>1. /\ next \in Nat /\ DOMAIN objects \subseteq Nat
      /\ \A t \in Threads : holds[t].handle \in Nat
  BY DEF TypeOK
<1>2. /\ next' = next + 1 /\ DOMAIN objects' = DOMAIN objects \cup {next}
      /\ \A h \in DOMAIN objects : h # next => objects'[h] = objects[h]
  BY Inserted
<1>3. \A h \in DOMAIN objects' : h < next'
  BY <1>1, <1>2 DEF Handles
<1>4. ASSUME NEW t \in Threads, at'[t] = "call"
      PROVE  /\ holds'[t].handle < next'
             /\ holds'[t].handle \in DOMAIN objects' =>
                  objects'[holds'[t].handle] = [type |-> holds'[t].type, native |-> holds'[t].native]
  <2>0. at[t] = "call" /\ holds'[t] = holds[t]
    BY <1>4 DEF StorePlaces
  <2>1. holds[t].handle < next /\ holds[t].handle # next
    BY <1>1, <2>0 DEF Handles
  <2>2. holds[t].handle \in DOMAIN objects' => holds[t].handle \in DOMAIN objects
    BY <1>2, <2>1
  <2> QED BY <1>1, <1>2, <2>0, <2>1, <2>2 DEF Handles, HandlesKept
<1>5. \A t \in Threads : at'[t] = "construct" => holds'[t].type \in Types
  BY DEF Handles, StorePlaces
<1> QED BY <1>3, <1>4, <1>5 DEF Handles, HandlesKept

LEMMA HandlesKeep ==
  ASSUME TypeOK, Handles, NEW t \in Threads, StoreStep(t)
  PROVE  Handles'
<1>1. CASE AddClass(t)
  BY <1>1 DEF AddClass, threadVars, Handles, HandlesKept
<1>2. CASE CreatePlain(t)
  <2>1. PICK c \in Types : Insert([type |-> c, native |-> 0])
    BY <1>2 DEF CreatePlain
  <2>2. [type |-> c, native |-> 0] \in Objects
    BY DEF Objects
  <2>3. UNCHANGED <<holds, at>>
    BY <1>2 DEF CreatePlain, threadVars
  <2> QED BY <2>1, <2>2, <2>3, InsertedHandles
<1>3. CASE Create(t)
  <2>1. PICK c \in classes :
          holds' = [holds EXCEPT ![t] = [type |-> c, handle |-> 0, native |-> 0]]
    BY <1>3 DEF Create
  <2>2. /\ \A s \in Threads : at'[s] = IF s = t THEN "construct" ELSE at[s]
        /\ \A s \in Threads : s # t => holds'[s] = holds[s]
        /\ holds'[t].type \in Types
    BY <1>3, <2>1 DEF Create, Goes, TypeOK
  <2>3. UNCHANGED <<objects, next>>
    BY <1>3 DEF Create
  <2> QED BY <2>2, <2>3 DEF Handles, HandlesKept
<1>4. CASE Constructed(t)
  <2>1. /\ \A s \in Threads : at'[s] = IF s = t THEN "free" ELSE at[s]
        /\ \A s \in Threads : s # t => holds'[s] = holds[s]
    BY <1>4 DEF Constructed, Returns, Goes, TypeOK
  <2>2. CASE UNCHANGED <<objects, next, made>>
    BY <2>1, <2>2 DEF Handles, HandlesKept
  <2>3. CASE made' = made + 1 /\ Insert([type |-> holds[t].type, native |-> made + 1])
    <3>1. [type |-> holds[t].type, native |-> made + 1] \in Objects
      BY <1>4 DEF Constructed, Handles, TypeOK, Objects
    <3>2. \A s \in Threads : at'[s] \in StorePlaces => at'[s] = at[s] /\ holds'[s] = holds[s]
      BY <2>1 DEF StorePlaces
    <3> QED BY <2>3, <3>1, <3>2, InsertedHandles
  <2> QED BY <1>4, <2>2, <2>3 DEF Constructed
<1>5. CASE Destroy(t)
  <2>1. PICK h \in DOMAIN objects : objects' = [k \in DOMAIN objects \ {h} |-> objects[k]]
    BY <1>5 DEF Destroy
  <2>2. UNCHANGED <<at, next, holds>>
    BY <1>5 DEF Destroy, threadVars
  <2>3. DOMAIN objects' \subseteq DOMAIN objects /\ \A k \in DOMAIN objects' : objects'[k] = objects[k]
    BY <2>1
  <2> QED BY <2>2, <2>3 DEF Handles, HandlesKept
<1>6. CASE Clone(t)
  <2>1. PICK h \in DOMAIN objects : Insert(objects[h])
    BY <1>6 DEF Clone
  <2>2. objects[h] \in Objects /\ UNCHANGED <<holds, at>>
    BY <1>6 DEF Clone, threadVars, TypeOK
  <2> QED BY <2>1, <2>2, InsertedHandles
<1>7. CASE Call(t)
  <2>1. PICK h \in DOMAIN objects :
          holds' = [holds EXCEPT ![t] =
                      [type |-> objects[h].type, handle |-> h, native |-> objects[h].native]]
    BY <1>7 DEF Call
  <2>2. /\ \A s \in Threads : at'[s] = IF s = t THEN "call" ELSE at[s]
        /\ \A s \in Threads : s # t => holds'[s] = holds[s]
        /\ holds'[t] = [type |-> objects[h].type, handle |-> h, native |-> objects[h].native]
    BY <1>7, <2>1 DEF Call, Goes, TypeOK
  <2>3. UNCHANGED <<objects, next>>
    BY <1>7 DEF Call
  <2>4. objects[h] \in Objects
    BY DEF TypeOK
  <2>5. objects[h] = [type |-> objects[h].type, native |-> objects[h].native]
    BY <2>4 DEF Objects
  <2> QED BY <2>2, <2>3, <2>5 DEF Handles, HandlesKept
<1>8. CASE MethodReturns(t)
  <2>1. /\ \A s \in Threads : at'[s] = IF s = t THEN "free" ELSE at[s]
        /\ \A s \in Threads : s # t => holds'[s] = holds[s]
        /\ UNCHANGED <<objects, next>>
    BY <1>8 DEF MethodReturns, Returns, Goes, TypeOK
  <2> QED BY <2>1 DEF Handles, HandlesKept
<1> QED BY <1>1, <1>2, <1>3, <1>4, <1>5, <1>6, <1>7, <1>8 DEF StoreStep
-----------------------------------------------------------------------------
(* The queue of the scheduler.                                             *)

LEMMA QueueKeeps ==
  ASSUME TypeOK, Queued, NEW t \in Threads, SchedulerStep(t)
  PROVE  Queued'
<1>0. /\ order \in Nat /\ now \in Nat /\ ran \in Seq(Tasks) /\ tasks \subseteq Tasks
      /\ \A a \in Tasks : a.time \in Nat /\ a.order \in Nat
      /\ \A i \in 1..Len(ran) : ran[i] \in Tasks
  <2>1. order \in Nat /\ now \in Nat /\ ran \in Seq(Tasks) /\ tasks \subseteq Tasks
    BY BoundsAssumption DEF TypeOK
  <2>2. \A a \in Tasks : a.time \in Nat /\ a.order \in Nat
    BY BoundsAssumption DEF Tasks
  <2>3. \A i \in 1..Len(ran) : ran[i] \in Tasks
    BY <2>1, ElementOfSeq
  <2> QED BY <2>1, <2>2, <2>3
<1>1. CASE Schedule(t)
  <2>1. PICK time \in 0..MaxTime :
          tasks' = tasks \cup {[time |-> time, order |-> order, late |-> time < now]}
    BY <1>1 DEF Schedule
  <2> DEFINE new == [time |-> time, order |-> order, late |-> time < now]
  <2>2. order' = order + 1 /\ UNCHANGED <<now, ran>>
    BY <1>1 DEF Schedule
  <2>3. \A i \in 1..Len(ran) : ran[i].order < order /\ ran[i].order \in Nat
    BY <1>0 DEF Queued
  <2>4. \A a \in tasks : a.order < order /\ a.order \in Nat
    BY <1>0 DEF Queued
  <2>5. \A i \in 1..Len(ran') : ran'[i].order < order'
    BY <1>0, <2>2, <2>3
  <2>6. ASSUME NEW a \in tasks'
        PROVE  /\ a.order < order' /\ (~a.late => a.time >= now')
               /\ \A b \in tasks' : a.order = b.order => a = b
               /\ \A i \in 1..Len(ran') :
                    /\ ran'[i].order # a.order
                    /\ ran'[i].time = a.time => ran'[i].order < a.order
    <3>1. CASE a \in tasks
      <4>1. /\ a.order < order /\ (~a.late => a.time >= now)
            /\ \A b \in tasks : a.order = b.order => a = b
            /\ \A i \in 1..Len(ran) :
                 /\ ran[i].order # a.order
                 /\ ran[i].time = a.time => ran[i].order < a.order
        BY <3>1 DEF Queued
      <4>2. a.order \in Nat /\ new.order = order
        BY <1>0, <3>1
      <4>3. a.order # new.order
        BY <1>0, <4>1, <4>2
      <4>4. a.order < order'
        BY <1>0, <2>2, <4>1, <4>2
      <4>5. \A b \in tasks' : a.order = b.order => a = b
        BY <2>1, <4>1, <4>3
      <4> QED BY <2>2, <4>1, <4>4, <4>5
    <3>2. CASE a = new
      <4>0. a.order = order /\ a.time = time /\ time \in Nat
        BY <3>2, BoundsAssumption
      <4>1. a.order = order /\ a.time = time /\ (~a.late => ~(time < now)) /\ time \in Nat
        <5>1. CASE time < now
          BY <3>2, <4>0, <5>1
        <5>2. CASE ~(time < now)
          BY <4>0, <5>2
        <5> QED BY <5>1, <5>2
      <4>2. a.order < order' /\ (~a.late => a.time >= now')
        BY <1>0, <2>2, <4>1
      <4>3. \A b \in tasks' : a.order = b.order => a = b
        <5> SUFFICES ASSUME NEW b \in tasks', a.order = b.order PROVE a = b
          OBVIOUS
        <5>1. b \notin tasks
          <6> SUFFICES ASSUME b \in tasks PROVE FALSE
            OBVIOUS
          <6>1. b.order < order /\ b.order = order
            BY <2>4, <4>1
          <6> QED BY <1>0, <6>1
        <5> QED BY <2>1, <3>2, <5>1
      <4>4. \A i \in 1..Len(ran') :
              /\ ran'[i].order # a.order
              /\ ran'[i].time = a.time => ran'[i].order < a.order
        BY <1>0, <2>2, <2>3, <4>1
      <4> QED BY <4>2, <4>3, <4>4
    <3> QED BY <2>1, <3>1, <3>2
  <2>7. \A i, k \in 1..Len(ran') :
          i < k /\ ran'[i].time = ran'[k].time => ran'[i].order < ran'[k].order
    BY <2>2 DEF Queued
  <2> QED BY <2>5, <2>6, <2>7 DEF Queued
<1>2. ASSUME NEW task \in tasks, \A other \in tasks \ {task} : Later(other, task),
             tasks' = tasks \ {task}, now' = task.time, ran' = Append(ran, task),
             UNCHANGED order
      PROVE  Queued'
  <2>1. task \in Tasks /\ Len(ran) \in Nat /\ Len(ran') = Len(ran) + 1
    BY <1>0, <1>2, AppendProperties
  <2>2. \A i \in 1..Len(ran') : ran'[i] = IF i <= Len(ran) THEN ran[i] ELSE task
    BY <1>0, <1>2, <2>1, AppendProperties
  <2>3. /\ task.order < order
        /\ \A i \in 1..Len(ran) :
             /\ ran[i].order # task.order
             /\ ran[i].time = task.time => ran[i].order < task.order
    BY DEF Queued
  <2>4. \A i \in 1..Len(ran') : i \in 1..Len(ran) \/ (i = Len(ran) + 1 /\ ran'[i] = task)
    BY <2>1, <2>2
  <2>5. \A i \in 1..Len(ran) : ran'[i] = ran[i]
    BY <2>1, <2>2
  <2>6. \A i \in 1..Len(ran') : ran'[i].order < order'
    <3> SUFFICES ASSUME NEW i \in 1..Len(ran') PROVE ran'[i].order < order'
      OBVIOUS
    <3>1. CASE i \in 1..Len(ran)
      BY <1>2, <2>5, <3>1 DEF Queued
    <3>2. CASE i = Len(ran) + 1 /\ ran'[i] = task
      BY <1>2, <2>3, <3>2
    <3> QED BY <2>4, <3>1, <3>2
  <2>7. \A i, k \in 1..Len(ran') :
          i < k /\ ran'[i].time = ran'[k].time => ran'[i].order < ran'[k].order
    <3> SUFFICES ASSUME NEW i \in 1..Len(ran'), NEW k \in 1..Len(ran'),
                        i < k, ran'[i].time = ran'[k].time
                 PROVE  ran'[i].order < ran'[k].order
      OBVIOUS
    <3>1. i \in 1..Len(ran)
      BY <2>1
    <3>2. CASE k \in 1..Len(ran)
      BY <2>5, <3>1, <3>2 DEF Queued
    <3>3. CASE ran'[k] = task
      BY <2>3, <2>5, <3>1, <3>3
    <3> QED BY <2>4, <3>2, <3>3
  <2>8. ASSUME NEW a \in tasks'
        PROVE  /\ a.order < order' /\ (~a.late => a.time >= now')
               /\ \A b \in tasks' : a.order = b.order => a = b
               /\ \A i \in 1..Len(ran') :
                    /\ ran'[i].order # a.order
                    /\ ran'[i].time = a.time => ran'[i].order < a.order
    <3>1. a \in tasks /\ a # task /\ a \in Tasks
      BY <1>0, <1>2
    <3>2. /\ a.order < order /\ \A b \in tasks : a.order = b.order => a = b
          /\ \A i \in 1..Len(ran) :
               /\ ran[i].order # a.order
               /\ ran[i].time = a.time => ran[i].order < a.order
      BY <3>1 DEF Queued
    <3>3. Later(a, task) /\ task.order # a.order
      BY <1>2, <3>1, <3>2
    <3>4. a.time \in Nat /\ a.order \in Nat /\ task.time \in Nat /\ task.order \in Nat
      BY <1>0, <2>1, <3>1
    <3>5. a.time >= task.time /\ (task.time = a.time => task.order < a.order)
      BY <3>3, <3>4 DEF Later
    <3>6. \A i \in 1..Len(ran') :
            /\ ran'[i].order # a.order
            /\ ran'[i].time = a.time => ran'[i].order < a.order
      <4> SUFFICES ASSUME NEW i \in 1..Len(ran')
                   PROVE  /\ ran'[i].order # a.order
                          /\ ran'[i].time = a.time => ran'[i].order < a.order
        OBVIOUS
      <4>1. CASE i \in 1..Len(ran)
        BY <2>5, <3>2, <4>1
      <4>2. CASE ran'[i] = task
        BY <3>3, <3>5, <4>2
      <4> QED BY <2>4, <4>1, <4>2
    <3> QED BY <1>2, <3>2, <3>5, <3>6
  <2> QED BY <2>6, <2>7, <2>8 DEF Queued
<1>3. CASE UNCHANGED <<tasks, order, now, ran>>
  BY <1>3 DEF Queued
<1> QED BY <1>1, <1>2, <1>3 DEF SchedulerStep, Halt, Run, Again, Pick, TaskEnds, schedulerVars

\* A task that is not late never lies before now: what is taken then went back.
LEMMA TakenBack ==
  ASSUME TypeOK, Queued, NEW t \in Threads, Pick(t), now' < now
  PROVE  \E task \in tasks \ tasks' : task.late
<1>0. now \in Nat /\ tasks \subseteq Tasks /\ \A a \in Tasks : a.time \in Nat /\ a.late \in BOOLEAN
  BY BoundsAssumption DEF TypeOK, Tasks
<1>1. now' # now
  BY <1>0
<1>2. PICK task \in tasks : tasks' = tasks \ {task} /\ now' = task.time
  BY <1>1 DEF Pick, schedulerVars
<1>3. ~task.late => task.time >= now
  BY DEF Queued
<1>4. task.late
  BY <1>0, <1>2, <1>3
<1> QED BY <1>2, <1>4
-----------------------------------------------------------------------------
(* The invariant.                                                          *)

LEMMA InvInit == Init => IInv
<1> SUFFICES ASSUME Init PROVE IInv
  OBVIOUS
<1>1. asleep = {} /\ \A t \in Threads : at[t] = "free"
  BY DEF Init
<1>2. TypeOK
  BY TypeInit
<1>3. Asleep /\ SemaphoreQuiet /\ EventsQuiet /\ ChannelQuiet
  BY <1>1 DEF Asleep, SemaphoreQuiet, EventsQuiet, ChannelQuiet, Sleepers
<1>4. ChannelFifo
  <2>1. received \o values = <<>> /\ sent = 0
    BY DEF Init
  <2>2. <<>> = [i \in 1..0 |-> i]
    OBVIOUS
  <2> QED BY <2>1, <2>2 DEF ChannelFifo
<1>5. EdgesSeen /\ Running
  BY <1>1 DEF Init, EdgesSeen, Running, Edges
<1>6. Queued
  BY DEF Init, Queued
<1>7. Handles
  BY <1>1 DEF Init, Handles, HandlesKept
<1> QED BY <1>2, <1>3, <1>4, <1>5, <1>6, <1>7 DEF IInv

\* What the parts of the invariant about other primitives need.
LEMMA Smaller ==
  ASSUME NEW few, NEW places, few \subseteq places, Apart(places)
  PROVE  Apart(few)
BY DEF Apart

LEMMA SameInv ==
  ASSUME IInv, UNCHANGED vars
  PROVE  IInv'
<1> USE DEF vars, threadVars, channelVars, clockVars, processVars, schedulerVars, storeVars
<1>1. TypeOK' /\ Asleep'
  BY DEF IInv, TypeOK, Asleep
<1>2. SemaphoreQuiet' /\ EventsQuiet' /\ ChannelQuiet'
  BY DEF IInv, SemaphoreQuiet, EventsQuiet, ChannelQuiet, Awake, Sleepers
<1>3. ChannelFifo' /\ EdgesSeen' /\ Running'
  BY DEF IInv, ChannelFifo, EdgesSeen, Running
<1>4. Queued' /\ Handles'
  BY DEF IInv, Queued, Handles, HandlesKept
<1> QED BY <1>1, <1>2, <1>3, <1>4 DEF IInv

\* The parts that a step at other places, and with other variables, keeps.
LEMMA SemaphoreAside ==
  ASSUME IInv, TypeOK', NEW places, Apart(places), {"acquire"} \subseteq places, UNCHANGED count
  PROVE  SemaphoreQuiet'
BY Smaller, SemaphoreStays DEF IInv

LEMMA ChannelAside ==
  ASSUME IInv, TypeOK', NEW places, Apart(places), {"receive"} \subseteq places,
         UNCHANGED channelVars
  PROVE  ChannelQuiet' /\ ChannelFifo'
<1>1. ChannelQuiet'
  BY Smaller, ChannelStays DEF IInv
<1>2. ChannelFifo'
  BY DEF IInv, ChannelFifo, channelVars
<1> QED BY <1>1, <1>2

LEMMA EventsAside ==
  ASSUME IInv, TypeOK', NEW places, Apart(places),
         {"wait", "wait_for"} \cup Edges \subseteq places, UNCHANGED <<triggered, edges, since>>
  PROVE  EventsQuiet' /\ EdgesSeen'
<1>1. EventsQuiet'
  BY Smaller, EventsStay DEF IInv
<1>2. EdgesSeen'
  BY Smaller, EdgesStay DEF IInv
<1> QED BY <1>1, <1>2

LEMMA RunningAside ==
  ASSUME IInv, UNCHANGED processVars
  PROVE  Running'
BY DEF IInv, Running, processVars

LEMMA QueueAside ==
  ASSUME IInv, UNCHANGED schedulerVars
  PROVE  Queued'
BY DEF IInv, Queued, schedulerVars

LEMMA StoreAside ==
  ASSUME IInv, NEW places, Apart(places), StorePlaces \subseteq places, UNCHANGED storeVars
  PROVE  Handles'
BY Smaller, HandlesStay DEF IInv

\* Entering a call that may wait, and waking for no reason.
LEMMA EnterType ==
  ASSUME TypeOK, NEW t \in Threads, Spurious(t) \/ \E call \in Blocking : Enter(t, call)
  PROVE  TypeOK'
<1>1. role' \in Roles /\ at' \in [Threads -> Places] /\ asleep' \subseteq Threads
  <2>1. CASE Spurious(t)
    BY <2>1 DEF Spurious, TypeOK
  <2>2. ASSUME NEW call \in Blocking, Enter(t, call)
        PROVE  role' \in Roles /\ at' \in [Threads -> Places] /\ asleep' \subseteq Threads
    BY <2>2, TypeThreads DEF Enter, Places, Waits
  <2> QED BY <2>1, <2>2
<1>2. UNCHANGED <<count, channelVars, triggered, clockVars, processVars, schedulerVars, storeVars>>
  BY DEF Spurious, Enter
<1> QED BY <1>1, <1>2 DEF TypeOK, channelVars, clockVars, processVars, schedulerVars, storeVars

LEMMA EnterInv ==
  ASSUME IInv, NEW t \in Threads, Spurious(t) \/ \E call \in Blocking : Enter(t, call)
  PROVE  IInv'
<1>1. Asleep' /\ Apart(Inner)
  BY EnterApart DEF IInv
<1>2. TypeOK'
  BY EnterType DEF IInv
<1>3. UNCHANGED <<count, channelVars, triggered, edges, since, processVars, schedulerVars, storeVars>>
  BY DEF Spurious, Enter, clockVars
<1>4. /\ {"acquire"} \subseteq Inner
      /\ {"receive"} \subseteq Inner
      /\ {"wait", "wait_for"} \cup Edges \subseteq Inner
      /\ StorePlaces \subseteq Inner
  BY DEF Inner, Places, Waits, Blocking, Edges, StorePlaces, AtProcess, AtScheduler
<1>5. SemaphoreQuiet'
  BY <1>1, <1>2, <1>3, <1>4, SemaphoreAside
<1>6. ChannelQuiet' /\ ChannelFifo'
  BY <1>1, <1>2, <1>3, <1>4, ChannelAside
<1>7. EventsQuiet' /\ EdgesSeen'
  BY <1>1, <1>2, <1>3, <1>4, EventsAside
<1>8. Running'
  BY <1>3, RunningAside
<1>9. Queued'
  BY <1>3, QueueAside
<1>10. Handles'
  BY <1>1, <1>2, <1>3, <1>4, StoreAside
<1> QED BY <1>1, <1>2, <1>5, <1>6, <1>7, <1>8, <1>9, <1>10 DEF IInv

LEMMA SemaphoreInv ==
  ASSUME IInv, NEW t \in Threads, SemaphoreStep(t)
  PROVE  IInv'
<1>1. Asleep' /\ Apart(Inner \ {"acquire"})
  BY SemaphoreApart DEF IInv
<1>2. TypeOK'
  BY TypeSemaphore DEF IInv
<1>3. UNCHANGED <<channelVars, triggered, edges, since, processVars, schedulerVars, storeVars>>
  BY DEF SemaphoreStep, Acquire, TryAcquire, Release, unlessSemaphore, clockVars
<1>4. /\ {"receive"} \subseteq Inner \ {"acquire"}
      /\ {"wait", "wait_for"} \cup Edges \subseteq Inner \ {"acquire"}
      /\ StorePlaces \subseteq Inner \ {"acquire"}
  BY DEF Inner, Places, Waits, Blocking, Edges, StorePlaces, AtProcess, AtScheduler
<1>5. SemaphoreQuiet'
  BY SemaphoreKeeps DEF IInv
<1>6. ChannelQuiet' /\ ChannelFifo'
  BY <1>1, <1>2, <1>3, <1>4, ChannelAside
<1>7. EventsQuiet' /\ EdgesSeen'
  BY <1>1, <1>2, <1>3, <1>4, EventsAside
<1>8. Running'
  BY <1>3, RunningAside
<1>9. Queued'
  BY <1>3, QueueAside
<1>10. Handles'
  BY <1>1, <1>2, <1>3, <1>4, StoreAside
<1> QED BY <1>1, <1>2, <1>5, <1>6, <1>7, <1>8, <1>9, <1>10 DEF IInv

LEMMA ChannelInv ==
  ASSUME IInv, NEW t \in Threads, ChannelStep(t)
  PROVE  IInv'
<1>1. Asleep' /\ Apart(Inner \ {"receive"})
  BY ChannelApart DEF IInv
<1>2. TypeOK'
  BY TypeChannel DEF IInv
<1>3. UNCHANGED <<count, triggered, edges, since, processVars, schedulerVars, storeVars>>
  BY DEF ChannelStep, Send, Receive, TryReceive, unlessChannel, clockVars
<1>4. /\ {"acquire"} \subseteq Inner \ {"receive"}
      /\ {"wait", "wait_for"} \cup Edges \subseteq Inner \ {"receive"}
      /\ StorePlaces \subseteq Inner \ {"receive"}
  BY DEF Inner, Places, Waits, Blocking, Edges, StorePlaces, AtProcess, AtScheduler
<1>5. SemaphoreQuiet'
  BY <1>1, <1>2, <1>3, <1>4, SemaphoreAside
<1>6. ChannelQuiet' /\ ChannelFifo'
  BY ChannelKeeps, FifoKeeps DEF IInv
<1>7. EventsQuiet' /\ EdgesSeen'
  BY <1>1, <1>2, <1>3, <1>4, EventsAside
<1>8. Running'
  BY <1>3, RunningAside
<1>9. Queued'
  BY <1>3, QueueAside
<1>10. Handles'
  BY <1>1, <1>2, <1>3, <1>4, StoreAside
<1> QED BY <1>1, <1>2, <1>5, <1>6, <1>7, <1>8, <1>9, <1>10 DEF IInv

LEMMA EventInv ==
  ASSUME IInv, NEW t \in Threads, EventStep(t)
  PROVE  IInv'
<1>1. Asleep' /\ Apart(Inner \ ({"wait", "wait_for"} \cup Edges))
  BY EventApart DEF IInv
<1>2. TypeOK'
  BY TypeEvent DEF IInv
<1>3. UNCHANGED <<count, channelVars, processVars, schedulerVars, storeVars>>
  BY DEF EventStep, Wait, Expire, Trigger, Reset, WaitEdge, unlessEvent, clockVars
<1>4. /\ {"acquire"} \subseteq Inner \ ({"wait", "wait_for"} \cup Edges)
      /\ {"receive"} \subseteq Inner \ ({"wait", "wait_for"} \cup Edges)
      /\ StorePlaces \subseteq Inner \ ({"wait", "wait_for"} \cup Edges)
  BY DEF Inner, Places, Waits, Blocking, Edges, StorePlaces, AtProcess, AtScheduler
<1>5. SemaphoreQuiet'
  BY <1>1, <1>2, <1>3, <1>4, SemaphoreAside
<1>6. ChannelQuiet' /\ ChannelFifo'
  BY <1>1, <1>2, <1>3, <1>4, ChannelAside
<1>7. EventsQuiet' /\ EdgesSeen'
  BY EventsKeep, EdgesKeep DEF IInv
<1>8. Running'
  BY <1>3, RunningAside
<1>9. Queued'
  BY <1>3, QueueAside
<1>10. Handles'
  BY <1>1, <1>2, <1>3, <1>4, StoreAside
<1> QED BY <1>1, <1>2, <1>5, <1>6, <1>7, <1>8, <1>9, <1>10 DEF IInv

LEMMA ClockInv ==
  ASSUME IInv, NEW t \in Threads, ClockStep(t)
  PROVE  IInv'
<1>1. Asleep' /\ Apart(Inner \ {"stop"})
  BY ClockApart DEF IInv
<1>2. TypeOK'
  BY TypeClock DEF IInv
<1>3. UNCHANGED <<count, channelVars, triggered, edges, since, processVars, schedulerVars, storeVars>>
  BY DEF ClockStep, Start, Stop, Stopped, unlessEvent, clockVars
<1>4. /\ {"acquire"} \subseteq Inner \ {"stop"}
      /\ {"receive"} \subseteq Inner \ {"stop"}
      /\ {"wait", "wait_for"} \cup Edges \subseteq Inner \ {"stop"}
      /\ StorePlaces \subseteq Inner \ {"stop"}
  BY DEF Inner, Places, Waits, Blocking, Edges, StorePlaces, AtProcess, AtScheduler
<1>5. SemaphoreQuiet'
  BY <1>1, <1>2, <1>3, <1>4, SemaphoreAside
<1>6. ChannelQuiet' /\ ChannelFifo'
  BY <1>1, <1>2, <1>3, <1>4, ChannelAside
<1>7. EventsQuiet' /\ EdgesSeen'
  BY <1>1, <1>2, <1>3, <1>4, EventsAside
<1>8. Running'
  BY <1>3, RunningAside
<1>9. Queued'
  BY <1>3, QueueAside
<1>10. Handles'
  BY <1>1, <1>2, <1>3, <1>4, StoreAside
<1> QED BY <1>1, <1>2, <1>5, <1>6, <1>7, <1>8, <1>9, <1>10 DEF IInv

LEMMA WorkerInv ==
  ASSUME IInv, Worker
  PROVE  IInv'
<1>1. Asleep' /\ Apart(Inner)
  BY WorkerApart DEF IInv
<1>2. TypeOK'
  BY TypeWorker DEF IInv
<1>3. UNCHANGED <<count, channelVars, processVars, schedulerVars, storeVars>>
  BY DEF Worker, WorkerLoop, WorkerFlip, WorkerReset, WorkerTrigger, unlessEvent, clockVars
<1>4. /\ {"acquire"} \subseteq Inner
      /\ {"receive"} \subseteq Inner
      /\ StorePlaces \subseteq Inner
  BY DEF Inner, Places, Waits, Blocking, Edges, StorePlaces, AtProcess, AtScheduler
<1>5. SemaphoreQuiet'
  BY <1>1, <1>2, <1>3, <1>4, SemaphoreAside
<1>6. ChannelQuiet' /\ ChannelFifo'
  BY <1>1, <1>2, <1>3, <1>4, ChannelAside
<1>7. EventsQuiet' /\ EdgesSeen'
  BY EventsKeepWorker, EdgesKeepWorker DEF IInv
<1>8. Running'
  BY <1>3, RunningAside
<1>9. Queued'
  BY <1>3, QueueAside
<1>10. Handles'
  BY <1>1, <1>2, <1>3, <1>4, StoreAside
<1> QED BY <1>1, <1>2, <1>5, <1>6, <1>7, <1>8, <1>9, <1>10 DEF IInv

LEMMA SchedulerInv ==
  ASSUME IInv, NEW t \in Threads, SchedulerStep(t)
  PROVE  IInv'
<1>1. Asleep' /\ Apart(Inner \ AtScheduler)
  BY SchedulerApart DEF IInv
<1>2. TypeOK'
  BY TypeScheduler DEF IInv
<1>3. UNCHANGED <<count, channelVars, triggered, edges, since, processVars, storeVars>>
  BY DEF SchedulerStep, Schedule, Halt, Run, Again, Pick, TaskEnds, unlessScheduler, clockVars
<1>4. /\ {"acquire"} \subseteq Inner \ AtScheduler
      /\ {"receive"} \subseteq Inner \ AtScheduler
      /\ {"wait", "wait_for"} \cup Edges \subseteq Inner \ AtScheduler
      /\ StorePlaces \subseteq Inner \ AtScheduler
  BY DEF Inner, Places, Waits, Blocking, Edges, StorePlaces, AtProcess, AtScheduler
<1>5. SemaphoreQuiet'
  BY <1>1, <1>2, <1>3, <1>4, SemaphoreAside
<1>6. ChannelQuiet' /\ ChannelFifo'
  BY <1>1, <1>2, <1>3, <1>4, ChannelAside
<1>7. EventsQuiet' /\ EdgesSeen'
  BY <1>1, <1>2, <1>3, <1>4, EventsAside
<1>8. Running'
  BY <1>3, RunningAside
<1>9. Queued'
  BY QueueKeeps DEF IInv
<1>10. Handles'
  BY <1>1, <1>2, <1>3, <1>4, StoreAside
<1> QED BY <1>1, <1>2, <1>5, <1>6, <1>7, <1>8, <1>9, <1>10 DEF IInv

LEMMA StoreInv ==
  ASSUME IInv, NEW t \in Threads, StoreStep(t)
  PROVE  IInv'
<1>1. Asleep' /\ Apart(Inner \ StorePlaces)
  BY StoreApart DEF IInv
<1>2. TypeOK'
  BY TypeStore DEF IInv
<1>3. UNCHANGED <<count, channelVars, triggered, edges, since, processVars, schedulerVars>>
  BY DEF StoreStep, AddClass, CreatePlain, Create, Constructed, Destroy, Clone, Call, MethodReturns,
      unlessStore, clockVars
<1>4. /\ {"acquire"} \subseteq Inner \ StorePlaces
      /\ {"receive"} \subseteq Inner \ StorePlaces
      /\ {"wait", "wait_for"} \cup Edges \subseteq Inner \ StorePlaces
  BY DEF Inner, Places, Waits, Blocking, Edges, StorePlaces, AtProcess, AtScheduler
<1>5. SemaphoreQuiet'
  BY <1>1, <1>2, <1>3, <1>4, SemaphoreAside
<1>6. ChannelQuiet' /\ ChannelFifo'
  BY <1>1, <1>2, <1>3, <1>4, ChannelAside
<1>7. EventsQuiet' /\ EdgesSeen'
  BY <1>1, <1>2, <1>3, <1>4, EventsAside
<1>8. Running'
  BY <1>3, RunningAside
<1>9. Queued'
  BY <1>3, QueueAside
<1>10. Handles'
  BY HandlesKeep DEF IInv
<1> QED BY <1>1, <1>2, <1>5, <1>6, <1>7, <1>8, <1>9, <1>10 DEF IInv

LEMMA ProcessInv ==
  ASSUME IInv, (\E t \in Threads : ProcessStep(t)) \/ Finish
  PROVE  IInv'
<1>1. Asleep' /\ Apart(Inner \ AtProcess)
  BY ProcessApart DEF IInv
<1>2. TypeOK'
  BY TypeProcess DEF IInv
<1>3. UNCHANGED <<count, channelVars, triggered, edges, since, schedulerVars, storeVars>>
  BY DEF ProcessStep, Spawn, Join, Kill, Joined, Finish, unlessProcess, clockVars
<1>4. /\ {"acquire"} \subseteq Inner \ AtProcess
      /\ {"receive"} \subseteq Inner \ AtProcess
      /\ {"wait", "wait_for"} \cup Edges \subseteq Inner \ AtProcess
      /\ StorePlaces \subseteq Inner \ AtProcess
  BY DEF Inner, Places, Waits, Blocking, Edges, StorePlaces, AtProcess, AtScheduler
<1>5. SemaphoreQuiet'
  BY <1>1, <1>2, <1>3, <1>4, SemaphoreAside
<1>6. ChannelQuiet' /\ ChannelFifo'
  BY <1>1, <1>2, <1>3, <1>4, ChannelAside
<1>7. EventsQuiet' /\ EdgesSeen'
  BY <1>1, <1>2, <1>3, <1>4, EventsAside
<1>8. Running'
  BY RunningKeeps DEF IInv
<1>9. Queued'
  BY <1>3, QueueAside
<1>10. Handles'
  BY <1>1, <1>2, <1>3, <1>4, StoreAside
<1> QED BY <1>1, <1>2, <1>5, <1>6, <1>7, <1>8, <1>9, <1>10 DEF IInv

LEMMA StepInv == IInv /\ [Next]_vars => IInv'
<1> SUFFICES ASSUME IInv, [Next]_vars PROVE IInv'
  OBVIOUS
<1>1. CASE UNCHANGED vars
  BY <1>1, SameInv
<1>2. CASE Worker \/ Finish
  BY <1>2, WorkerInv, ProcessInv
<1>3. ASSUME NEW t \in Threads,
             \/ Spurious(t) \/ \E call \in Blocking : Enter(t, call)
             \/ SemaphoreStep(t) \/ ChannelStep(t) \/ EventStep(t) \/ ClockStep(t)
             \/ ProcessStep(t) \/ SchedulerStep(t) \/ StoreStep(t)
      PROVE  IInv'
  BY <1>3, EnterInv, SemaphoreInv, ChannelInv, EventInv, ClockInv, ProcessInv, SchedulerInv, StoreInv
<1> QED BY <1>1, <1>2, <1>3 DEF Next

\* Only the steps of events take threads from where they wait for an edge.
LEMMA Bystanders ==
  ASSUME TypeOK, Asleep, Next, NEW e \in Edges, ~Apart({e})
  PROVE  \E t \in Threads : EventStep(t)
<1>1. \A places : {e} \subseteq places => ~Apart(places)
  BY Smaller
<1>2. /\ {e} \subseteq Inner /\ {e} \subseteq Inner \ {"acquire"}
      /\ {e} \subseteq Inner \ {"receive"} /\ {e} \subseteq Inner \ {"stop"}
      /\ {e} \subseteq Inner \ AtProcess /\ {e} \subseteq Inner \ AtScheduler
      /\ {e} \subseteq Inner \ StorePlaces
  BY DEF Inner, Places, Waits, Blocking, Edges, StorePlaces, AtProcess, AtScheduler
<1>3. CASE Worker
  BY <1>1, <1>2, <1>3, WorkerApart
<1>4. CASE Finish
  BY <1>1, <1>2, <1>4, ProcessApart
<1>5. ASSUME NEW t \in Threads,
             \/ Spurious(t) \/ \E call \in Blocking : Enter(t, call)
             \/ SemaphoreStep(t) \/ ChannelStep(t) \/ EventStep(t) \/ ClockStep(t)
             \/ ProcessStep(t) \/ SchedulerStep(t) \/ StoreStep(t)
      PROVE  EventStep(t)
  BY <1>1, <1>2, <1>5, EnterApart, SemaphoreApart, ChannelApart, ClockApart, ProcessApart,
     SchedulerApart, StoreApart
<1> QED BY <1>3, <1>4, <1>5 DEF Next

\* Only run() changes the time.
LEMMA PicksAlone ==
  ASSUME Next, now' # now
  PROVE  \E t \in Threads : Pick(t)
<1>1. ~Worker /\ ~Finish
  BY DEF Worker, WorkerLoop, WorkerFlip, WorkerReset, WorkerTrigger, unlessEvent, Finish,
     unlessProcess, schedulerVars
<1>2. ASSUME NEW t \in Threads,
             \/ Spurious(t) \/ \E call \in Blocking : Enter(t, call)
             \/ SemaphoreStep(t) \/ ChannelStep(t) \/ EventStep(t) \/ ClockStep(t)
             \/ ProcessStep(t) \/ StoreStep(t)
      PROVE  FALSE
  <2>1. CASE Spurious(t) \/ (\E call \in Blocking : Enter(t, call)) \/ SemaphoreStep(t)
    BY <2>1 DEF Spurious, Enter, SemaphoreStep, Acquire, TryAcquire, Release, unlessSemaphore,
       schedulerVars
  <2>2. CASE ChannelStep(t) \/ ProcessStep(t)
    BY <2>2 DEF ChannelStep, Send, Receive, TryReceive, unlessChannel, schedulerVars,
       ProcessStep, Spawn, Join, Kill, Joined, unlessProcess
  <2>3. CASE EventStep(t) \/ ClockStep(t)
    BY <2>3 DEF EventStep, Wait, Expire, Trigger, Reset, WaitEdge, ClockStep, Start, Stop, Stopped,
       unlessEvent, schedulerVars
  <2>4. CASE StoreStep(t)
    BY <2>4 DEF StoreStep, AddClass, CreatePlain, Create, Constructed, Destroy, Clone, Call,
       MethodReturns, unlessStore, schedulerVars
  <2> QED BY <1>2, <2>1, <2>2, <2>3, <2>4
<1>3. PICK t \in Threads : SchedulerStep(t)
  BY <1>1, <1>2 DEF Next
<1> QED BY <1>3 DEF SchedulerStep, Schedule, Halt, Run, Again, Pick, TaskEnds, schedulerVars

-----------------------------------------------------------------------------
(* The theorems.                                                           *)

\* The invariant holds in every state.
THEOREM PrimitivesInvariance == Spec => []IInv
BY InvInit, StepInv, PTL DEF Spec

\* The variables keep their types.
THEOREM PrimitivesTyped == Spec => []TypeOK
<1>1. IInv => TypeOK
  BY DEF IInv
<1> QED BY <1>1, PrimitivesInvariance, PTL

\* Nobody sleeps over what it waits for: every notification reaches whom it
\* must, though send notifies one thread and others take items before it.
THEOREM WakeupsKept == Spec => []NoLostWakeup
<1>1. IInv => NoLostWakeup
  BY DEF IInv, NoLostWakeup, SemaphoreQuiet, EventsQuiet, ChannelQuiet, Awake
<1> QED BY <1>1, PrimitivesInvariance, PTL

\* Items are received in the order they were sent, each once.
THEOREM StreamKept == Spec => []ChannelFifo
<1>1. IInv => ChannelFifo
  BY DEF IInv
<1> QED BY <1>1, PrimitivesInvariance, PTL

\* wait_edge returns after an edge that came after its call.
THEOREM EdgesAwaited == Spec => EdgeAwaited
<1>1. IInv /\ [Next]_vars =>
        [\A t \in Threads, e \in Edges : at[t] = e /\ at'[t] = "free" => edges[e] > since[t]]_vars
  <2> SUFFICES ASSUME IInv, Next, NEW t \in Threads, NEW e \in Edges, at[t] = e, at'[t] = "free"
               PROVE  edges[e] > since[t]
    OBVIOUS
  <2>1. e \in Waits /\ e \in Inner /\ e # "free" /\ EventOf(e) = e /\ e \notin Blocking
    BY DEF Waits, Inner, Places, Edges, EventOf, Blocking
  <2>2. edges[e] \in Nat /\ since[t] \in Nat
    BY DEF IInv, TypeOK
  <2>3. ~Apart({e})
    BY <2>1 DEF Apart
  <2>4. triggered[e]
    <3>1. PICK s \in Threads : EventStep(s)
      BY <2>3, Bystanders DEF IInv
    <3>2. CASE Wait(s)
      <4>1. \A r \in Threads : r # s => at'[r] = at[r]
        BY <3>2 DEF Wait, Returns, Goes, Sleeps, IInv, TypeOK
      <4>2. s = t
        BY <2>1, <4>1
      <4> QED BY <2>1, <3>2, <4>2 DEF Wait, Sleeps
    <3>3. CASE Expire(s)
      BY <2>1, <3>3 DEF Expire, IInv, TypeOK, Edges
    <3>4. CASE Trigger(s) \/ Reset(s)
      BY <2>1, <3>4 DEF Trigger, Reset, NotifyAll, threadVars
    <3>5. ASSUME NEW d \in Edges, WaitEdge(s, d) PROVE FALSE
      BY <2>1, <3>5 DEF WaitEdge, Goes, Edges, IInv, TypeOK
    <3> QED BY <3>1, <3>2, <3>3, <3>4, <3>5 DEF EventStep
  <2> QED BY <2>2, <2>4 DEF IInv, EdgesSeen
<1> QED BY <1>1, PrimitivesInvariance, PTL DEF Spec, EdgeAwaited

\* When no thread of it is left, a process is not running.
THEOREM JoinedRight == Spec => []JoinedIsOver
<1>1. IInv => JoinedIsOver
  BY DEF IInv, Running, JoinedIsOver
<1> QED BY <1>1, PrimitivesInvariance, PTL

\* Tasks of one time run in the order of their schedule, each once.
THEOREM InstantsRight == Spec => []InstantFifo
<1>1. IInv => InstantFifo
  BY DEF IInv, Queued, InstantFifo
<1> QED BY <1>1, PrimitivesInvariance, PTL

\* Time goes back only to a task that was scheduled for a time gone by.
THEOREM BackRight == Spec => BackForLateOnly
<1>1. IInv /\ [Next]_vars => [now' < now => \E task \in tasks \ tasks' : task.late]_vars
  <2> SUFFICES ASSUME IInv, Next, now' < now
               PROVE  \E task \in tasks \ tasks' : task.late
    OBVIOUS
  <2>1. now \in Nat
    BY BoundsAssumption DEF IInv, TypeOK
  <2>2. now' # now
    BY <2>1
  <2>3. PICK t \in Threads : Pick(t)
    BY <2>2, PicksAlone
  <2> QED BY <2>3, TakenBack DEF IInv
<1> QED BY <1>1, PrimitivesInvariance, PTL DEF Spec, BackForLateOnly

\* The handle a method was called on is never another object's.
THEOREM HandlesRight == Spec => []HandlesKept
<1>1. IInv => HandlesKept
  BY DEF IInv, Handles
<1> QED BY <1>1, PrimitivesInvariance, PTL
=============================================================================
