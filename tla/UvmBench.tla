------------------------------ MODULE UvmBench ------------------------------
(***************************************************************************)
(* UVM process bodies as the compiler lowers them, running on UvmProcess.  *)
(*                                                                         *)
(* compiler/vir/lib/IRGen/Frontend/Statement.cpp turns a task into a state *)
(* machine: a suspension stores the state to resume at (set_pc), registers *)
(* the wait and returns; the dispatch of the next step jumps there.  Here  *)
(* a body is a sequence of lowered statements and at[p] is the resume      *)
(* state.  The statements reach the TLM graph (Builtin/UVM/TLM.cpp), the   *)
(* sequencer channel (Sequencer.cpp, Channel.cpp) and the scheduler        *)
(* through Builtin/UVM/ABI.cpp.  Data is abstracted: an item is its        *)
(* position in the stream of its queue, and a condition may go either way. *)
(***************************************************************************)
EXTENDS UvmProcess

CONSTANTS
  Tree,        \* component handles, in the order phases visit them
  Body,        \* lowered run_phase of a component, lowered task of a name
  Links,       \* the TLM connections: port or endpoint -> set of endpoints
  Fifos,       \* endpoints whose name ends in "_fifo"
  Sequencer,   \* the queue of the channel "sequencer.default"
  EventOf,     \* queue -> "tlm." + fifo, or "sequencer.default"
  MaxItems,    \* bound: items pushed into one queue
  Horizon      \* bound: a loop is left at the latest when now reaches it

Queues == Fifos \cup {Sequencer}

QueueEvents == {EventOf[q] : q \in Queues}

\* Queues have events of their own: their names hold a dot, which no name of a
\* signal does.
ASSUME QueuesAssumption ==
  /\ EventOf \in [Queues -> Events \ {Clk}]
  /\ \A q, r \in Queues : EventOf[q] = EventOf[r] => q = r

\* What a statement of body b may name.
ArgsOf(op, b) ==
  CASE op = "delay" -> Delays
    [] op = "edge"  -> Events \ QueueEvents
    [] op = "store" -> Values
    [] op = "call"  -> Names
    [] op = "start" -> {c \in Components : "body" \in Names}
    [] op = "write" -> DOMAIN Links
    [] op = "get"   -> Queues
    [] op \in {"either", "jump"} -> 1..(Len(Body[b]) + 1)
    [] OTHER -> {None}

ASSUME BodyAssumption ==
  /\ Tree \in Seq(Components \cap DOMAIN Body) /\ Len(Tree) <= MaxProcs
  /\ Registered \subseteq DOMAIN Body
  /\ \A b \in DOMAIN Body :
       /\ Len(Body[b]) \in Nat
       /\ \A i \in 1..Len(Body[b]) : Body[b][i].arg \in ArgsOf(Body[b][i].op, b)
ASSUME BoundsAssumption == MaxItems \in Nat /\ Horizon \in Nat

VARIABLES
  at,     \* resume state of a process: the index of its next statement
  queue,  \* items in a FIFO or in the sequencer channel
  pushed, \* history: how many items were pushed into the queue
  taken,  \* history: the items that left the queue, in that order
  due     \* events the push under way has still to notify

benchVars == <<at, queue, pushed, taken, due>>
allVars == <<vars, benchVars>>

BInit ==
  /\ Init
  /\ at = [p \in Procs |-> 1]
  /\ queue = [q \in Queues |-> <<>>]
  /\ pushed = [q \in Queues |-> 0]
  /\ taken = [q \in Queues |-> <<>>]
  /\ due = {}

-----------------------------------------------------------------------------
(* Phases: build and connect are done; run_phase is called for each node.  *)

RunPhase ==
  /\ phase = "setup" /\ created < Len(Tree)
  /\ Create(Tree[created + 1])
  /\ UNCHANGED benchVars

BStart ==
  /\ created = Len(Tree)
  /\ StartDrain
  /\ UNCHANGED benchVars

-----------------------------------------------------------------------------
(* Statements.                                                             *)

BodyOf(p) == IF name[p] = None THEN owner[p] ELSE name[p]
Code(p)   == Body[BodyOf(p)]

\* The running process is about to execute a statement of this kind.
AtOp(op) ==
  /\ cur # None /\ due = {}
  /\ at[cur] <= Len(Code(cur)) /\ Code(cur)[at[cur]].op = op
Arg == Code(cur)[at[cur]].arg

GoTo(n) == at' = [at EXCEPT ![cur] = n]

FallThrough == GoTo(at[cur] + 1)
SameQueues == UNCHANGED <<queue, pushed, taken, due>>

Raise == AtOp("raise") /\ RaiseObjection /\ FallThrough /\ SameQueues
Drop  == AtOp("drop") /\ (DropObjection \/ DropUnderflow) /\ FallThrough /\ SameQueues

\* #d: resume after the statement at now_ + d.
Delay == AtOp("delay") /\ WaitTime(Arg) /\ FallThrough /\ SameQueues

\* @(posedge e): resume after the statement when e is notified.
Edge == AtOp("edge") /\ WaitEvent(Arg) /\ FallThrough /\ SameQueues

\* vif.sig <= v: a non-blocking store.
Store == AtOp("store") /\ NbaStore(Arg) /\ FallThrough /\ SameQueues

\* A task call spawns the task and does not wait for it; one that still runs
\* for the same owner is joined.
CallTask(n, h) ==
  /\ IF n \notin Registered THEN SpawnUnknown(n)
     ELSE IF Same(n, Normalize(h)) = {} THEN Spawn(n, h) ELSE UNCHANGED vars
  /\ FallThrough /\ SameQueues

Task == AtOp("call") /\ CallTask(Arg, cur)

\* seq.start(sequencer): spawns the task "body" of the sequence object.
StartSequence == AtOp("start") /\ CallTask("body", Arg)

\* The queues an item reaches that is pushed into endpoint n: connections are
\* followed to the endpoints that have none, each visited once.
Closure(S) == S \cup UNION {Links[n] : n \in S}
Reach(n) == LET step[k \in 0..Cardinality(DOMAIN Links)] ==
                  IF k = 0 THEN {n} ELSE Closure(step[k - 1])
            IN  step[Cardinality(DOMAIN Links)]
Leaves(n) == {m \in Reach(n) : Links[m] = {}}

\* Mutant: nobody is notified.
SentNothing(S) == {}

Sent(S) == {EventOf[q] : q \in S}

PushInto(S) ==
  /\ \A q \in S : pushed[q] < MaxItems
  /\ pushed' = [q \in Queues |-> IF q \in S THEN pushed[q] + 1 ELSE pushed[q]]
  /\ queue' = [q \in Queues |-> IF q \in S THEN Append(queue[q], pushed[q] + 1)
                                ELSE queue[q]]
  /\ due' = Sent(S)
  /\ UNCHANGED <<vars, taken>>

\* port.write(t): every FIFO gets the item, then each one's event is notified.
Write == AtOp("write") /\ PushInto(Leaves(Arg) \cap Fifos) /\ FallThrough

\* start_item(t): the item goes to the channel "sequencer.default";
\* finish_item and item_done do nothing.
StartItem == AtOp("item") /\ PushInto({Sequencer}) /\ FallThrough

NotifyDue(e) ==
  /\ cur # None /\ e \in due
  /\ Notify(e)
  /\ due' = due \ {e}
  /\ UNCHANGED <<at, queue, pushed, taken>>

\* fifo.get(t), get_next_item(t): take the head, or wait for the queue's event
\* and retry from this same statement.
\* Mutant: the last item is taken instead of the first.
TakeLast(q) ==
  /\ queue[q] # <<>>
  /\ queue' = [queue EXCEPT ![q] = SubSeq(@, 1, Len(@) - 1)]
  /\ taken' = [taken EXCEPT ![q] = Append(@, queue[q][Len(queue[q])])]
  /\ FallThrough
  /\ UNCHANGED <<vars, pushed, due>>

Take(q) ==
  /\ queue[q] # <<>>
  /\ queue' = [queue EXCEPT ![q] = Tail(@)]
  /\ taken' = [taken EXCEPT ![q] = Append(@, Head(queue[q]))]
  /\ FallThrough
  /\ UNCHANGED <<vars, pushed, due>>

RetryLater(q) ==
  /\ queue[q] = <<>>
  /\ WaitEvent(EventOf[q])
  /\ UNCHANGED benchVars

Get == AtOp("get") /\ (Take(Arg) \/ RetryLater(Arg))

\* if (c) break, if (c) ...: falls through or jumps; jump closes a loop.
Either ==
  /\ AtOp("either")
  /\ \/ now < Horizon /\ FallThrough
     \/ GoTo(Arg)
  /\ SameQueues /\ UNCHANGED vars

Jump == AtOp("jump") /\ GoTo(Arg) /\ SameQueues /\ UNCHANGED vars

\* forever: a body without any statement that may suspend gets a delay of its
\* own before the jump back to its first statement.
Suspends(st) == st.op \in {"delay", "edge", "get"}
JumpTo(n) == <<[op |-> "jump", arg |-> n]>>

\* Mutant: no delay is added.
ForeverBare(first, body) == body \o JumpTo(first)

Forever(first, body) ==
  IF \E i \in DOMAIN body : Suspends(body[i])
  THEN body \o JumpTo(first)
  ELSE body \o <<[op |-> "delay", arg |-> 1]>> \o JumpTo(first)

\* The end of a body: finish_process completes the process.
EndOfBody ==
  /\ cur # None /\ due = {}
  /\ at[cur] > Len(Code(cur))
  /\ Complete
  /\ UNCHANGED benchVars

Statement ==
  \/ Raise \/ Drop \/ Delay \/ Edge \/ Store
  \/ Task \/ StartSequence
  \/ Write \/ StartItem \/ Get
  \/ (\E e \in Events : NotifyDue(e))
  \/ Either \/ Jump \/ EndOfBody

Delta ==
  /\ \/ BeginRun
     \/ \E p \in Procs : StepProcess(p)
     \/ ObjectionsDropped \/ NextDelta \/ AllDone \/ Deadlock
     \/ \E t \in Times : TimeBackwards(t) \/ Advance(t) \/ TickFails(t)
     \/ StepLimit
  /\ UNCHANGED benchVars

BNext == RunPhase \/ BStart \/ Statement \/ Delta

BSpec == BInit /\ [][BNext]_allVars

\* One thread executes scheduler and bodies, so it is never idle while a step
\* is possible; which way a condition goes is not fair.
FairBSpec == BSpec /\ WF_allVars(BNext)

---------------------------------------------------------------------------
(* What the bench owes its test. *)

\* Resume states, queues and histories have their types.
BenchTypeOK ==
  /\ at \in [Procs -> Nat \ {0}]
  /\ \A p \in Made : at[p] <= Len(Code(p)) + 1
  /\ queue \in [Queues -> Seq(1..MaxItems)]
  /\ pushed \in [Queues -> 0..MaxItems]
  /\ taken \in [Queues -> Seq(1..MaxItems)]
  /\ due \subseteq {EventOf[q] : q \in Queues}

\* No lost wake-up: when no step is under way, a process that waits for the
\* event of a queue faces an empty queue, however the pushes, the retries of
\* other consumers and the deltas interleaved.
NoSleepOnItems ==
  cur = None =>
    \A p \in WithStatus("waiting_event"), q \in Queues :
      event[p] = EventOf[q] => queue[q] = <<>>

\* Every item leaves its queue once, in the order of the pushes: a get that had
\* to wait resumes at its retry and neither skips nor repeats an item.
StreamsInOrder ==
  \A q \in Queues :
    taken[q] \o queue[q] = [i \in 1..pushed[q] |-> i]

GoesPastGet(p) ==
  /\ at[p] <= Len(Code(p)) /\ Code(p)[at[p]].op = "get"
  /\ at'[p] # at[p]

\* A body that executes get goes past it only with an item, however often it
\* had to wait and retry and whoever else was woken for the item.
GetsHaveItems == [][\A p \in Made : GoesPastGet(p) => taken' # taken]_allVars

\* A step of a lowered body ends: nothing it does keeps the one thread that
\* executes all the processes from returning to the scheduler.
StepsEnd == cur # None ~> cur = None

\* A bench whose test holds an objection while time passes is driven to its
\* drop: the phase neither deadlocks nor runs out of steps nor hangs.  Only an
\* error of the transport may end it otherwise.
Drains == <>(outcome \in {"drained", "thrown"})
=============================================================================
