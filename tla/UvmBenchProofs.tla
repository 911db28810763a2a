--------------------------- MODULE UvmBenchProofs ---------------------------
(***************************************************************************)
(* Proofs about UvmBench, for every tree of components, every body the     *)
(* statements can express, every TLM graph and every number of items.      *)
(***************************************************************************)
EXTENDS UvmBench, UvmProcessProofs, SequenceTheorems

(***************************************************************************)
(* The inductive invariant: the kernel's; every process has a body and     *)
(* resumes inside it or at its end; and a consumer is asleep only on a     *)
(* queue that is empty or whose notification is still due from the push    *)
(* under way.                                                              *)
(***************************************************************************)
Coded == \A p \in Made : BodyOf(p) \in DOMAIN Body

Resumable ==
  /\ at \in [Procs -> Nat \ {0}]
  /\ \A p \in Procs \ Made : at[p] = 1
  /\ \A p \in Made : at[p] <= Len(Code(p)) + 1

Stocked ==
  /\ queue \in [Queues -> Seq(1..MaxItems)]
  /\ taken \in [Queues -> Seq(1..MaxItems)]
  /\ pushed \in [Queues -> 0..MaxItems]

Awaited ==
  \A p \in WithStatus("waiting_event"), q \in Queues :
    event[p] = EventOf[q] => queue[q] = <<>> \/ EventOf[q] \in due

Owed == due \subseteq QueueEvents /\ (due # {} => cur # None)

BInv == IInv /\ Coded /\ Resumable /\ Stocked /\ Owed /\ Awaited /\ StreamsInOrder

USE QueuesAssumption, BodyAssumption, BoundsAssumption

-----------------------------------------------------------------------------
(* Every step of a lowered bench is a step of the kernel.                  *)

\* The argument of the statement to execute is one its kind may have.
LEMMA ArgOK ==
  ASSUME BInv, NEW op, AtOp(op)
  PROVE  /\ BodyOf(cur) \in DOMAIN Body
         /\ at[cur] \in 1..Len(Code(cur))
         /\ Arg \in ArgsOf(op, BodyOf(cur))
         /\ cur \in Made
<1>1. cur \in Made
  BY DEF AtOp, BInv, IInv, TypeOK
<1>2. BodyOf(cur) \in DOMAIN Body
  BY <1>1 DEF BInv, Coded
<1>3. Len(Code(cur)) \in Nat
  BY <1>2 DEF Code
<1>4. at[cur] \in Nat \ {0}
  <2>1. cur \in Procs
    BY <1>1, MaxProcsAssumption DEF BInv, IInv, TypeOK, Made, Procs
  <2> QED BY <2>1 DEF BInv, Resumable
<1>5. at[cur] \in 1..Len(Code(cur))
  BY <1>3, <1>4 DEF AtOp
<1>6. Arg \in ArgsOf(op, BodyOf(cur))
  <2>1. \A b \in DOMAIN Body : \A i \in 1..Len(Body[b]) :
          Body[b][i].arg \in ArgsOf(Body[b][i].op, b)
    OBVIOUS
  <2>2. Code(cur)[at[cur]].arg \in ArgsOf(Code(cur)[at[cur]].op, BodyOf(cur))
    BY <1>2, <1>5, <2>1, Zenon DEF Code
  <2> QED BY <2>2, Zenon DEF AtOp, Arg
<1> QED BY <1>1, <1>2, <1>5, <1>6

LEMMA CallTaskStep ==
  ASSUME BInv, NEW n \in Names, NEW h \in Components \cup Running, CallTask(n, h)
  PROVE  Call \/ UNCHANGED vars
<1>1. CASE n \notin Registered
  BY <1>1 DEF CallTask, Call
<1>2. CASE n \in Registered /\ Same(n, Normalize(h)) = {}
  BY <1>2 DEF CallTask, Call
<1> QED BY <1>1, <1>2 DEF CallTask

LEMMA StatementStep ==
  ASSUME BInv, Statement
  PROVE  Call \/ Return \/ UNCHANGED vars
<1>1. CASE Raise
  BY <1>1 DEF Raise, Call
<1>2. CASE Drop
  BY <1>2 DEF Drop, Call
<1>3. CASE Delay
  <2>1. Arg \in Delays
    BY <1>3, ArgOK DEF Delay, ArgsOf
  <2> QED BY <1>3, <2>1 DEF Delay, Return
<1>4. CASE Edge
  <2>1. Arg \in Events
    BY <1>4, ArgOK DEF Edge, ArgsOf
  <2> QED BY <1>4, <2>1 DEF Edge, Return
<1>5. CASE Store
  <2>1. Arg \in Values
    BY <1>5, ArgOK DEF Store, ArgsOf
  <2> QED BY <1>5, <2>1 DEF Store, Call
<1>6. CASE Task
  <2>1. Arg \in Names /\ cur \in Running
    BY <1>6, ArgOK DEF Task, ArgsOf, Running, AtOp
  <2> QED BY <1>6, <2>1, CallTaskStep DEF Task
<1>7. CASE StartSequence
  <2>1. Arg \in Components /\ "body" \in Names
    BY <1>7, ArgOK DEF StartSequence, ArgsOf
  <2> QED BY <1>7, <2>1, CallTaskStep DEF StartSequence
<1>8. CASE Write \/ StartItem
  BY <1>8 DEF Write, StartItem, PushInto
<1>9. CASE Get
  <2>1. Arg \in Queues
    BY <1>9, ArgOK DEF Get, ArgsOf
  <2>2. EventOf[Arg] \in Events
    BY <2>1
  <2> QED BY <1>9, <2>2 DEF Get, Take, RetryLater, Return
<1>10. ASSUME NEW e \in Events, NotifyDue(e) PROVE Call
  BY <1>10 DEF NotifyDue, Call
<1>11. CASE Either \/ Jump
  BY <1>11 DEF Either, Jump
<1>12. CASE EndOfBody
  BY <1>12 DEF EndOfBody, Return
<1> QED BY <1>1, <1>2, <1>3, <1>4, <1>5, <1>6, <1>7, <1>8, <1>9, <1>10, <1>11, <1>12
        DEF Statement

LEMMA RunPhaseStep ==
  ASSUME BInv, RunPhase
  PROVE  /\ Call
         /\ created + 1 \in 1..Len(Tree)
         /\ Tree[created + 1] \in Components \cap DOMAIN Body
<1>1. created + 1 \in 1..Len(Tree)
  BY DEF RunPhase, BInv, IInv, TypeOK
<1>2. Tree[created + 1] \in Components \cap DOMAIN Body
  BY <1>1
<1> QED BY <1>1, <1>2 DEF RunPhase, Call

LEMMA KernelStep == BInv /\ [BNext]_allVars => [Next]_vars
<1> SUFFICES ASSUME BInv, [BNext]_allVars PROVE [Next]_vars
  OBVIOUS
<1>1. CASE RunPhase
  BY <1>1, RunPhaseStep DEF Next
<1>2. CASE BStart
  BY <1>2 DEF BStart, Next, Scheduler
<1>3. CASE Statement
  BY <1>3, StatementStep DEF Next
<1>4. CASE Delta
  BY <1>4 DEF Delta, Next, Scheduler
<1>5. CASE UNCHANGED allVars
  BY <1>5 DEF allVars
<1> QED BY <1>1, <1>2, <1>3, <1>4, <1>5 DEF BNext

-----------------------------------------------------------------------------
(* Processes keep their bodies and their places in them.                   *)

\* Only create() and spawn() make a process, and the process has a body.
LEMMA OnlyCreates ==
  ASSUME BInv, [BNext]_allVars
  PROVE  \/ UNCHANGED <<created, name, owner>>
         \/ \E n, o : CreateAs(n, o) /\ (IF n = None THEN o ELSE n) \in DOMAIN Body
<1> DEFINE Goal ==
      \/ UNCHANGED <<created, name, owner>>
      \/ \E n, o : CreateAs(n, o) /\ (IF n = None THEN o ELSE n) \in DOMAIN Body
<1> SUFFICES Goal
  OBVIOUS
<1> USE DEF procVars
<1>1. CASE RunPhase
  BY <1>1, RunPhaseStep DEF RunPhase, Create
<1>2. ASSUME NEW n, NEW h, CallTask(n, h) PROVE Goal
  <2>1. CASE n \notin Registered
    BY <1>2, <2>1 DEF CallTask, SpawnUnknown
  <2>2. CASE n \in Registered /\ Same(n, Normalize(h)) = {}
    BY <1>2, <2>2, NamesAssumption DEF CallTask, Spawn
  <2>3. CASE n \in Registered /\ Same(n, Normalize(h)) # {}
    BY <1>2, <2>3 DEF CallTask, vars
  <2> QED BY <2>1, <2>2, <2>3
<1>3. CASE Task \/ StartSequence
  BY <1>2, <1>3 DEF Task, StartSequence
<1>4. CASE Raise \/ Drop \/ Delay \/ Edge \/ Store
  BY <1>4 DEF Raise, Drop, Delay, Edge, Store, RaiseObjection, DropObjection,
              DropUnderflow, WaitTime, WaitEvent, NbaStore, StepReturns
<1>5. CASE Write \/ StartItem \/ Get \/ Either \/ Jump \/ EndOfBody
  BY <1>5 DEF Write, StartItem, PushInto, Get, Take, RetryLater, WaitEvent, StepReturns,
              Either, Jump, EndOfBody, Complete, vars
<1>6. ASSUME NEW e \in Events, NotifyDue(e) PROVE Goal
  BY <1>6 DEF NotifyDue, Notify
<1>7. CASE Statement
  BY <1>3, <1>4, <1>5, <1>6, <1>7 DEF Statement
<1>8. CASE BStart
  BY <1>8 DEF BStart, StartDrain
<1>9. CASE Delta
  BY <1>9 DEF Delta, BeginRun, StepProcess, ObjectionsDropped, NextDelta, AllDone, Deadlock,
              TimeBackwards, Advance, TickFails, StepLimit, Idle, DeltaStep
<1>10. CASE UNCHANGED allVars
  BY <1>10 DEF allVars, vars
<1> HIDE DEF Goal
<1> QED BY <1>1, <1>7, <1>8, <1>9, <1>10 DEF BNext

LEMMA CodedStep ==
  ASSUME BInv, [BNext]_allVars
  PROVE  /\ Coded'
         /\ \A p \in Made : p \in Made' /\ BodyOf(p)' = BodyOf(p)
<1>1. CASE UNCHANGED <<created, name, owner>>
  BY <1>1 DEF BInv, Coded, BodyOf, Made
<1>2. ASSUME NEW n, NEW o, CreateAs(n, o), (IF n = None THEN o ELSE n) \in DOMAIN Body
      PROVE  /\ Coded'
             /\ \A p \in Made : p \in Made' /\ BodyOf(p)' = BodyOf(p)
  <2>1. created + 1 \in Procs /\ created \in Nat
    BY <1>2, MaxProcsAssumption DEF CreateAs, BInv, IInv, TypeOK, Procs
  <2>2. Made' = Made \cup {created + 1} /\ created + 1 \notin Made
    BY <1>2, <2>1 DEF CreateAs, Made
  <2>3. \A p \in Made : name'[p] = name[p] /\ owner'[p] = owner[p]
    BY <1>2, <2>1, <2>2, MaxProcsAssumption DEF CreateAs, BInv, IInv, TypeOK, Made, Procs
  <2>4. name'[created + 1] = n /\ owner'[created + 1] = o
    BY <1>2, <2>1 DEF CreateAs, BInv, IInv, TypeOK
  <2> QED BY <1>2, <2>2, <2>3, <2>4 DEF BodyOf, BInv, Coded
<1> QED BY <1>1, <1>2, OnlyCreates

\* A statement moves the running process inside its body or to its end.
LEMMA PlaceStep ==
  ASSUME BInv, [BNext]_allVars
  PROVE  \/ at' = at
         \/ /\ cur \in Made
            /\ \E n \in 1..(Len(Code(cur)) + 1) : GoTo(n)
<1> USE DEF benchVars, SameQueues
<1>1. ASSUME NEW op, AtOp(op), FallThrough
      PROVE  cur \in Made /\ \E n \in 1..(Len(Code(cur)) + 1) : GoTo(n)
  <2>1. Len(Code(cur)) \in Nat
    BY <1>1, ArgOK DEF Code
  <2>2. at[cur] + 1 \in 1..(Len(Code(cur)) + 1)
    BY <1>1, <2>1, ArgOK
  <2> QED BY <1>1, <2>2, ArgOK DEF FallThrough
<1>2. ASSUME NEW op \in {"either", "jump"}, AtOp(op), GoTo(Arg)
      PROVE  cur \in Made /\ \E n \in 1..(Len(Code(cur)) + 1) : GoTo(n)
  <2>1. Arg \in 1..(Len(Code(cur)) + 1)
    BY <1>2, ArgOK DEF ArgsOf, Code
  <2> QED BY <1>2, <2>1, ArgOK
<1>3. CASE Raise \/ Drop \/ Delay \/ Edge \/ Store
  BY <1>1, <1>3 DEF Raise, Drop, Delay, Edge, Store
<1>4. CASE Task \/ StartSequence \/ Write \/ StartItem
  BY <1>1, <1>4 DEF Task, StartSequence, CallTask, Write, StartItem
<1>5. CASE Get
  BY <1>1, <1>5 DEF Get, Take, RetryLater
<1>6. CASE Either \/ Jump
  BY <1>1, <1>2, <1>6 DEF Either, Jump
<1>7. CASE EndOfBody \/ \E e \in Events : NotifyDue(e)
  BY <1>7 DEF EndOfBody, NotifyDue
<1>8. CASE RunPhase \/ BStart \/ Delta \/ UNCHANGED allVars
  BY <1>8 DEF RunPhase, BStart, Delta, allVars
<1> QED BY <1>3, <1>4, <1>5, <1>6, <1>7, <1>8 DEF BNext, Statement

LEMMA ResumableStep ==
  ASSUME BInv, [BNext]_allVars
  PROVE  Resumable'
<1>1. Made \subseteq Procs /\ Made' \subseteq Procs
  <2>1. TypeOK /\ TypeOK'
    BY KernelStep, StepIInv DEF BInv, IInv
  <2> QED BY <2>1, MaxProcsAssumption DEF TypeOK, Made, Procs
<1>2. at' \in [Procs -> Nat \ {0}]
  BY <1>1, PlaceStep DEF BInv, Resumable, GoTo
<1>3. ASSUME NEW p \in Procs \ Made PROVE at'[p] = 1
  BY <1>3, PlaceStep DEF BInv, Resumable, GoTo
<1>4. \A p \in Made' : Len(Code(p)') \in Nat
  BY CodedStep DEF Coded, Code
<1>5. ASSUME NEW p \in Made PROVE at'[p] <= Len(Code(p)') + 1
  <2>1. Code(p)' = Code(p) /\ at[p] <= Len(Code(p)) + 1
    BY CodedStep DEF Code, BInv, Resumable
  <2>2. CASE at' = at
    BY <2>1, <2>2
  <2>3. ASSUME NEW n \in 1..(Len(Code(cur)) + 1), GoTo(n), cur \in Made
        PROVE  at'[p] <= Len(Code(p)) + 1
    <3>1. Len(Code(cur)) \in Nat
      BY <2>3 DEF BInv, Coded, Code
    <3>2. at'[p] = IF p = cur THEN n ELSE at[p]
      BY <1>1, <2>3 DEF GoTo, BInv, Resumable
    <3> QED BY <2>1, <2>3, <3>1, <3>2
  <2> QED BY <2>1, <2>2, <2>3, PlaceStep
<1>6. Made \subseteq Made'
  BY CodedStep
<1>7. \A p \in Made' : at'[p] <= Len(Code(p)') + 1
  BY <1>1, <1>3, <1>4, <1>5
<1> QED BY <1>2, <1>3, <1>6, <1>7 DEF Resumable

-----------------------------------------------------------------------------
(* Queues.                                                                 *)

\* While a push has notifications left, nothing else happens.
LEMMA PushFirst ==
  ASSUME BInv, [BNext]_allVars, due # {}
  PROVE  (\E e \in Events : NotifyDue(e)) \/ UNCHANGED allVars
<1>1. cur # None /\ phase = "delta"
  BY DEF BInv, Owed, IInv, Turns, SnapshotKeepsTurn
<1>2. ~RunPhase /\ ~BStart
  BY <1>1 DEF RunPhase, Create, BStart, StartDrain
<1>3. ~Delta
  BY <1>1 DEF Delta, BeginRun, StepProcess, ObjectionsDropped, NextDelta, AllDone, Deadlock,
              TimeBackwards, Advance, TickFails, StepLimit, Idle, DeltaStep, DeltaOver
<1>4. Statement => \E e \in Events : NotifyDue(e)
  BY DEF Statement, Raise, Drop, Delay, Edge, Store, Task, StartSequence, Write, StartItem,
         Get, Either, Jump, EndOfBody, AtOp
<1> QED BY <1>2, <1>3, <1>4 DEF BNext

\* What may happen to the queues in one step.
LEMMA QueueStep ==
  ASSUME BInv, [BNext]_allVars
  PROVE  \/ UNCHANGED <<queue, pushed, taken, due>>
         \/ due = {} /\ cur # None /\ \E S \in SUBSET Queues : PushInto(S)
         \/ due = {} /\ \E q \in Queues : Take(q)
         \/ \E e \in Events : NotifyDue(e)
<1> USE DEF SameQueues, benchVars
<1>1. CASE Write
  BY <1>1 DEF Write, AtOp, Queues
<1>2. CASE StartItem
  BY <1>2 DEF StartItem, AtOp, Queues
<1>3. CASE Get
  <2>1. Arg \in Queues
    BY <1>3, ArgOK DEF Get, ArgsOf
  <2> QED BY <1>3, <2>1 DEF Get, RetryLater, AtOp
<1>4. CASE Raise \/ Drop \/ Delay \/ Edge \/ Store \/ Task \/ StartSequence
  BY <1>4 DEF Raise, Drop, Delay, Edge, Store, Task, StartSequence, CallTask
<1>5. CASE Either \/ Jump \/ EndOfBody
  BY <1>5 DEF Either, Jump, EndOfBody
<1>6. CASE RunPhase \/ BStart \/ Delta \/ UNCHANGED allVars
  BY <1>6 DEF RunPhase, BStart, Delta, allVars
<1> QED BY <1>1, <1>2, <1>3, <1>4, <1>5, <1>6 DEF BNext, Statement

LEMMA PushTypes ==
  ASSUME BInv, NEW S \in SUBSET Queues, PushInto(S)
  PROVE  /\ Stocked'
         /\ \A q \in S : /\ pushed'[q] = pushed[q] + 1
                         /\ queue'[q] = Append(queue[q], pushed[q] + 1)
         /\ \A q \in Queues \ S : pushed'[q] = pushed[q] /\ queue'[q] = queue[q]
         /\ taken' = taken
<1> USE DEF BInv, Stocked
<1>1. ASSUME NEW q \in S
      PROVE  pushed[q] + 1 \in 1..MaxItems /\ Append(queue[q], pushed[q] + 1) \in Seq(1..MaxItems)
  <2>1. pushed[q] + 1 \in 1..MaxItems
    BY DEF PushInto
  <2> QED BY <2>1
<1>2. /\ pushed' = [q \in Queues |-> IF q \in S THEN pushed[q] + 1 ELSE pushed[q]]
      /\ queue' = [q \in Queues |-> IF q \in S THEN Append(queue[q], pushed[q] + 1)
                                    ELSE queue[q]]
      /\ taken' = taken
  BY DEF PushInto
<1>3. \A q \in Queues : pushed'[q] \in 0..MaxItems /\ queue'[q] \in Seq(1..MaxItems)
  <2> TAKE q \in Queues
  <2>1. CASE q \in S
    BY <1>1, <1>2, <2>1
  <2>2. CASE q \notin S
    BY <1>2, <2>2
  <2> QED BY <2>1, <2>2
<1>4. pushed' \in [Queues -> 0..MaxItems] /\ queue' \in [Queues -> Seq(1..MaxItems)]
  BY <1>2, <1>3
<1> QED BY <1>2, <1>4

LEMMA TakeTypes ==
  ASSUME BInv, NEW q \in Queues, Take(q)
  PROVE  /\ Stocked'
         /\ taken'[q] = Append(taken[q], Head(queue[q]))
         /\ queue'[q] = Tail(queue[q])
         /\ \A r \in Queues \ {q} : taken'[r] = taken[r] /\ queue'[r] = queue[r]
         /\ pushed' = pushed
<1> USE DEF BInv, Stocked
<1>1. Head(queue[q]) \in 1..MaxItems /\ Tail(queue[q]) \in Seq(1..MaxItems)
  BY DEF Take
<1>2. Append(taken[q], Head(queue[q])) \in Seq(1..MaxItems)
  BY <1>1
<1> QED BY <1>1, <1>2 DEF Take

LEMMA StockedStep ==
  ASSUME BInv, [BNext]_allVars
  PROVE  Stocked'
<1>1. CASE UNCHANGED <<queue, pushed, taken, due>>
  BY <1>1 DEF BInv, Stocked
<1>2. ASSUME NEW e \in Events, NotifyDue(e) PROVE Stocked'
  BY <1>2 DEF NotifyDue, BInv, Stocked
<1> QED BY <1>1, <1>2, QueueStep, PushTypes, TakeTypes

LEMMA ConcatRegroups ==
  \A s, t, u \in Seq(Nat) : (s \o t) \o u = s \o (t \o u)
BY ConcatAssociative, SMTT(60)

LEMMA ConcatAppend ==
  ASSUME NEW t \in Seq(Nat), NEW s \in Seq(Nat), NEW n \in Nat
  PROVE  t \o Append(s, n) = Append(t \o s, n)
<1>1. <<n>> \in Seq(Nat) /\ t \o s \in Seq(Nat)
  BY ConcatProperties
<1>2. Append(s, n) = s \o <<n>> /\ Append(t \o s, n) = (t \o s) \o <<n>>
  BY <1>1, AppendIsConcat
<1>3. (t \o s) \o <<n>> = t \o (s \o <<n>>)
  BY <1>1, ConcatRegroups, Zenon
<1> QED BY <1>2, <1>3

\* The stream of a queue after n pushes.
N(n) == [i \in 1..n |-> i]

\* Pushing and taking keep the stream.
LEMMA StreamPush ==
  ASSUME NEW t \in Seq(Nat), NEW s \in Seq(Nat), NEW n \in Nat, t \o s = N(n)
  PROVE  t \o Append(s, n + 1) = N(n + 1)
<1> USE DEF N
<1>1. N(n) \in Seq(Nat) /\ N(n + 1) \in Seq(Nat) /\ Len(N(n)) = n /\ Len(N(n + 1)) = n + 1
  OBVIOUS
<1>2. t \o Append(s, n + 1) = Append(t \o s, n + 1)
  <2>1. n + 1 \in Nat
    OBVIOUS
  <2> QED BY <2>1, ConcatAppend, Zenon
<1>3. Append(N(n), n + 1) = N(n + 1)
  <2> DEFINE a == Append(N(n), n + 1)
  <2>1. /\ a \in Seq(Nat) /\ Len(a) = n + 1 /\ a[n + 1] = n + 1
        /\ \A i \in 1..n : a[i] = i
    BY <1>1, AppendProperties
  <2>2. \A i \in 1..(n + 1) : a[i] = N(n + 1)[i]
    BY <2>1
  <2> HIDE DEF a
  <2>3. a = N(n + 1)
    BY <1>1, <2>1, <2>2, SeqEqual
  <2> QED BY <2>3 DEF a
<1> QED BY <1>2, <1>3

LEMMA StreamTake ==
  ASSUME NEW t \in Seq(Nat), NEW s \in Seq(Nat), s # <<>>
  PROVE  Append(t, Head(s)) \o Tail(s) = t \o s
<1>1. Head(s) \in Nat /\ Tail(s) \in Seq(Nat) /\ <<Head(s)>> \in Seq(Nat)
  BY HeadTailProperties
<1>2. Append(t, Head(s)) = t \o <<Head(s)>>
  BY <1>1, AppendIsConcat
<1>3. <<Head(s)>> \o Tail(s) = s
  <2>1. Len(<<Head(s)>> \o Tail(s)) = Len(s) /\ <<Head(s)>> \o Tail(s) \in Seq(Nat)
    BY <1>1, ConcatProperties, HeadTailProperties
  <2>2. ASSUME NEW i \in 1..Len(s) PROVE (<<Head(s)>> \o Tail(s))[i] = s[i]
    <3>1. CASE i = 1
      BY <1>1, <3>1, ConcatProperties
    <3>2. CASE i > 1
      <4>1. i - 1 \in 1..Len(Tail(s)) /\ Tail(s)[i - 1] = s[i]
        BY <3>2, HeadTailProperties
      <4> QED BY <1>1, <3>2, <4>1, ConcatProperties
    <3> QED BY <3>1, <3>2
  <2> QED BY <2>1, <2>2, SeqEqual
<1>4. (t \o <<Head(s)>>) \o Tail(s) = t \o (<<Head(s)>> \o Tail(s))
  BY <1>1, ConcatRegroups, Zenon
<1> QED BY <1>2, <1>3, <1>4

LEMMA StreamsStep ==
  ASSUME BInv, [BNext]_allVars
  PROVE  StreamsInOrder'
<1> DEFINE Stream(q) == taken[q] \o queue[q] = N(pushed[q])
<1>1. ASSUME NEW q \in Queues
      PROVE  /\ taken[q] \in Seq(Nat) /\ queue[q] \in Seq(Nat) /\ pushed[q] \in Nat
             /\ Stream(q)
  <2>1. 1..MaxItems \subseteq Nat
    OBVIOUS
  <2>2. Seq(1..MaxItems) \subseteq Seq(Nat)
    BY <2>1, SeqMonotonic
  <2>3. taken[q] \in Seq(1..MaxItems) /\ queue[q] \in Seq(1..MaxItems) /\ pushed[q] \in Nat
    BY DEF BInv, Stocked
  <2> QED BY <2>2, <2>3 DEF BInv, StreamsInOrder, N
<1>2. CASE UNCHANGED <<queue, pushed, taken, due>>
  BY <1>1, <1>2 DEF StreamsInOrder, N
<1>3. ASSUME NEW e \in Events, NotifyDue(e) PROVE StreamsInOrder'
  BY <1>1, <1>3 DEF NotifyDue, StreamsInOrder, N
<1>4. ASSUME NEW S \in SUBSET Queues, PushInto(S), NEW q \in Queues PROVE Stream(q)'
  <2>1. CASE q \in S
    <3>1. /\ taken'[q] = taken[q] /\ pushed'[q] = pushed[q] + 1
          /\ queue'[q] = Append(queue[q], pushed[q] + 1)
      BY <1>4, <2>1, PushTypes
    <3>2. taken[q] \o Append(queue[q], pushed[q] + 1) = N(pushed[q] + 1)
      BY <1>1, StreamPush, Zenon
    <3> QED BY <3>1, <3>2
  <2>2. CASE q \notin S
    <3>1. taken'[q] = taken[q] /\ pushed'[q] = pushed[q] /\ queue'[q] = queue[q]
      BY <1>4, <2>2, PushTypes
    <3> QED BY <1>1, <3>1
  <2> QED BY <2>1, <2>2
<1>5. ASSUME NEW r \in Queues, Take(r), NEW q \in Queues PROVE Stream(q)'
  <2>1. CASE q = r
    <3>1. /\ taken'[q] = Append(taken[q], Head(queue[q])) /\ pushed'[q] = pushed[q]
          /\ queue'[q] = Tail(queue[q]) /\ queue[q] # <<>>
      BY <1>5, <2>1, TakeTypes DEF Take
    <3>2. taken'[q] \o queue'[q] = taken[q] \o queue[q]
      BY <1>1, <3>1, StreamTake
    <3> QED BY <1>1, <3>1, <3>2
  <2>2. CASE q # r
    <3>1. taken'[q] = taken[q] /\ pushed'[q] = pushed[q] /\ queue'[q] = queue[q]
      BY <1>5, <2>2, TakeTypes
    <3> QED BY <1>1, <3>1
  <2> QED BY <2>1, <2>2
<1> QED BY <1>2, <1>3, <1>4, <1>5, QueueStep DEF StreamsInOrder, N

-----------------------------------------------------------------------------
(* Sleepers.                                                               *)

\* A process that waits for an event after a step waited for it before, or is
\* the one that has just found its queue empty, or waits for another event.
LEMMA SleepStep ==
  ASSUME BInv, [BNext]_allVars, NEW p \in Procs, status'[p] = "waiting_event"
  PROVE  \/ status[p] = "waiting_event" /\ event'[p] = event[p]
         \/ /\ due = {} /\ UNCHANGED <<queue, due>>
            /\ \/ event'[p] \notin QueueEvents
               \/ \E q \in Queues : event'[p] = EventOf[q] /\ queue[q] = <<>>
<1> DEFINE Before == status[p] = "waiting_event" /\ event'[p] = event[p]
           Found == /\ due = {} /\ UNCHANGED <<queue, due>>
                    /\ \/ event'[p] \notin QueueEvents
                       \/ \E q \in Queues : event'[p] = EventOf[q] /\ queue[q] = <<>>
<1> SUFFICES Before \/ Found
  OBVIOUS
<1> USE DEF procVars, SameQueues, benchVars
<1>0. /\ status \in [Procs -> Statuses] /\ event \in [Procs -> Events \cup {None}]
      /\ cur \in Procs \cup {None}
  BY MaxProcsAssumption DEF BInv, IInv, TypeOK, Made, Procs
<1>1. ASSUME NEW e, WaitEvent(e)
      PROVE  Before \/ event'[p] = e
  BY <1>0, <1>1 DEF WaitEvent, StepReturns
<1>2. CASE Edge
  <2>1. Arg \notin QueueEvents
    BY <1>2, ArgOK DEF Edge, ArgsOf
  <2>2. due = {} /\ UNCHANGED <<queue, due>>
    BY <1>2 DEF Edge, AtOp
  <2> HIDE DEF Before, Found
  <2>3. Before \/ event'[p] = Arg
    BY <1>1, <1>2 DEF Edge
  <2> QED BY <2>1, <2>2, <2>3 DEF Found
<1>3. CASE Get
  <2>1. Arg \in Queues /\ due = {}
    BY <1>3, ArgOK DEF Get, ArgsOf, AtOp
  <2>2. CASE Take(Arg)
    BY <2>2 DEF Take, vars
  <2>3. CASE RetryLater(Arg)
    <3>1. queue[Arg] = <<>> /\ UNCHANGED <<queue, due>>
      BY <2>3 DEF RetryLater
    <3>2. Before \/ event'[p] = EventOf[Arg]
      BY <1>1, <2>3 DEF RetryLater
    <3> HIDE DEF Before
    <3> QED BY <2>1, <3>1, <3>2
  <2> QED BY <1>3, <2>2, <2>3 DEF Get
<1>4. CASE Delay \/ EndOfBody
  BY <1>0, <1>4 DEF Delay, EndOfBody, WaitTime, Complete, StepReturns
<1>5. CASE Raise \/ Drop \/ Store
  BY <1>5 DEF Raise, Drop, Store, RaiseObjection, DropObjection, DropUnderflow, NbaStore
<1>6. ASSUME NEW n, NEW o, CreateAs(n, o) PROVE Before
  BY <1>0, <1>6 DEF CreateAs
<1>7. CASE RunPhase \/ Task \/ StartSequence
  BY <1>6, <1>7 DEF RunPhase, Create, Task, StartSequence, CallTask, SpawnUnknown, Spawn, vars
<1>8. CASE Write \/ StartItem \/ Either \/ Jump \/ UNCHANGED allVars
  BY <1>8 DEF Write, StartItem, PushInto, Either, Jump, allVars, vars
<1>9. ASSUME NEW e \in Events, NotifyDue(e) PROVE Before
  BY <1>0, <1>9 DEF NotifyDue, Notify, Notified
<1>10. CASE BStart \/ Delta
  <2>1. ASSUME NEW t \in Times, Advance(t) PROVE Before
    BY <1>0, <2>1 DEF Advance, Notified, Woken
  <2>2. CASE ObjectionsDropped
    BY <1>0, <2>2 DEF ObjectionsDropped, DeltaStep
  <2> QED BY <1>10, <2>1, <2>2 DEF BStart, StartDrain, Delta, BeginRun, StepProcess, NextDelta,
        AllDone, Deadlock, TimeBackwards, TickFails, StepLimit, Idle, DeltaStep
<1> QED BY <1>2, <1>3, <1>4, <1>5, <1>7, <1>8, <1>9, <1>10 DEF BNext, Statement

LEMMA OwedStep ==
  ASSUME BInv, [BNext]_allVars
  PROVE  Owed'
<1>1. CASE due # {}
  <2>1. ASSUME NEW e \in Events, NotifyDue(e) PROVE Owed'
    BY <2>1 DEF NotifyDue, Notify, BInv, Owed, drainVars
  <2>2. CASE UNCHANGED allVars
    BY <2>2 DEF allVars, vars, drainVars, benchVars, BInv, Owed
  <2> QED BY <1>1, <2>1, <2>2, PushFirst
<1>2. CASE due = {}
  <2>1. CASE UNCHANGED <<queue, pushed, taken, due>>
    BY <1>2, <2>1 DEF Owed
  <2>2. ASSUME NEW S \in SUBSET Queues, PushInto(S), cur # None PROVE Owed'
    BY <2>2 DEF PushInto, Sent, QueueEvents, Owed, vars, drainVars
  <2>3. ASSUME NEW q \in Queues, Take(q) PROVE Owed'
    BY <1>2, <2>3 DEF Take, Owed
  <2>4. ASSUME NEW e \in Events, NotifyDue(e) PROVE Owed'
    BY <1>2, <2>4 DEF NotifyDue
  <2> QED BY <2>1, <2>2, <2>3, <2>4, QueueStep
<1> QED BY <1>1, <1>2

LEMMA AwaitedStep ==
  ASSUME BInv, [BNext]_allVars
  PROVE  Awaited'
<1> SUFFICES ASSUME NEW p \in Procs, NEW q \in Queues,
                    status'[p] = "waiting_event", event'[p] = EventOf[q]
             PROVE  queue'[q] = <<>> \/ EventOf[q] \in due'
  BY DEF Awaited, WithStatus
<1>1. CASE /\ due = {} /\ UNCHANGED <<queue, due>>
           /\ \/ event'[p] \notin QueueEvents
              \/ \E r \in Queues : event'[p] = EventOf[r] /\ queue[r] = <<>>
  BY <1>1 DEF QueueEvents
<1>2. CASE status[p] = "waiting_event" /\ event'[p] = event[p]
  <2>1. queue[q] = <<>> \/ EventOf[q] \in due
    BY <1>2 DEF BInv, Awaited, WithStatus
  <2>2. CASE UNCHANGED <<queue, pushed, taken, due>>
    BY <2>1, <2>2
  <2>3. ASSUME NEW S \in SUBSET Queues, PushInto(S), due = {}
        PROVE  queue'[q] = <<>> \/ EventOf[q] \in due'
    <3>1. CASE q \in S
      BY <2>3, <3>1 DEF PushInto, Sent
    <3>2. CASE q \notin S
      BY <2>1, <2>3, <3>2, PushTypes
    <3> QED BY <3>1, <3>2
  <2>4. ASSUME NEW r \in Queues, Take(r), due = {} PROVE queue'[q] = <<>>
    <3>1. q # r
      BY <2>1, <2>4 DEF Take
    <3> QED BY <2>1, <2>4, <3>1, TakeTypes
  <2>5. ASSUME NEW e \in Events, NotifyDue(e)
        PROVE  queue'[q] = <<>> \/ EventOf[q] \in due'
    <3>1. event[p] # e
      BY <1>2, <2>5 DEF NotifyDue, Notify, Notified
    <3> QED BY <1>2, <2>1, <2>5, <3>1 DEF NotifyDue
  <2> QED BY <2>2, <2>3, <2>4, <2>5, QueueStep
<1> QED BY <1>1, <1>2, SleepStep

-----------------------------------------------------------------------------
(* The theorems.                                                           *)

LEMMA InitBInv == BInit => BInv
<1> SUFFICES ASSUME BInit PROVE BInv
  OBVIOUS
<1> USE DEF BInit
<1>1. IInv
  BY InitIInv
<1>2. Made = {} /\ \A p \in Procs : status[p] = Absent
  BY DEF Init, Made
<1>3. Coded /\ Resumable
  BY <1>2 DEF Coded, Resumable
<1>4. Owed /\ Awaited
  BY <1>2 DEF Owed, Awaited, WithStatus, Absent
<1>5. Stocked
  BY DEF Stocked
<1>6. StreamsInOrder
  <2>1. <<>> \o <<>> = [i \in 1..0 |-> i]
    OBVIOUS
  <2> QED BY <2>1 DEF StreamsInOrder
<1> QED BY <1>1, <1>3, <1>4, <1>5, <1>6 DEF BInv

\* The inductive invariant of lowered benches holds.
THEOREM BenchInvariance == BSpec => []BInv
<1>1. BInv /\ [BNext]_allVars => BInv'
  BY KernelStep, StepIInv, CodedStep, ResumableStep, StockedStep, OwedStep, AwaitedStep,
     StreamsStep DEF BInv
<1> QED BY <1>1, InitBInv, PTL DEF BSpec

\* A lowered bench is a client of the kernel: whatever is proved of Spec, for
\* its most general client, holds of every lowered bench.
THEOREM BenchIsClient == BSpec => Spec
<1>1. BInit => Init
  BY DEF BInit
<1> QED BY <1>1, KernelStep, BenchInvariance, PTL DEF BSpec, Spec

\* A lowered bench drives the abstract run phase.
THEOREM BenchRefinesRunPhase == BSpec => ImplementsRunPhase
BY BenchIsClient, Refinement, PTL

\* No process resumes outside its body, no queue outgrows its stream, and only
\* events of queues are owed a notification.
THEOREM BenchTypeCorrect == BSpec => []BenchTypeOK
<1>1. BInv => BenchTypeOK
  BY DEF BInv, BenchTypeOK, Resumable, Stocked, Owed, QueueEvents
<1> QED BY <1>1, BenchInvariance, PTL

\* No lost wake-up: between two steps, no process waits for a queue that holds
\* an item.
THEOREM NoLostWakeup == BSpec => []NoSleepOnItems
<1>1. BInv => NoSleepOnItems
  BY DEF BInv, NoSleepOnItems, Owed, Awaited
<1> QED BY <1>1, BenchInvariance, PTL

\* No item is lost, repeated or overtaken.
THEOREM StreamsKept == BSpec => []StreamsInOrder
BY BenchInvariance, PTL DEF BInv

\* A get is passed only with an item.
THEOREM GetsKept == BSpec => GetsHaveItems
<1>1. ASSUME BInv, [BNext]_allVars, NEW p \in Made, GoesPastGet(p)
      PROVE  taken' # taken
  <2> USE DEF SameQueues, benchVars
  <2>1. p \in Procs /\ at \in [Procs -> Nat \ {0}] /\ at'[p] # at[p]
    BY <1>1, MaxProcsAssumption DEF BInv, IInv, TypeOK, Made, Procs, Resumable, GoesPastGet
  <2>2. ASSUME NEW op, AtOp(op), NEW n, GoTo(n) PROVE op = "get"
    <3>1. p = cur
      BY <2>1, <2>2 DEF GoTo
    <3> QED BY <1>1, <2>2, <3>1 DEF AtOp, GoesPastGet
  <2>3. CASE Get
    <3>1. Arg \in Queues
      BY <1>1, <2>3, ArgOK DEF Get, ArgsOf
    <3>2. CASE Take(Arg)
      <4>1. taken'[Arg] = Append(taken[Arg], Head(queue[Arg]))
        BY <1>1, <3>1, <3>2, TakeTypes
      <4>2. taken[Arg] \in Seq(1..MaxItems) /\ Head(queue[Arg]) \in 1..MaxItems
        BY <1>1, <3>1, <3>2 DEF BInv, Stocked, Take
      <4>3. Len(taken'[Arg]) = Len(taken[Arg]) + 1
        BY <4>1, <4>2
      <4> QED BY <4>2, <4>3
    <3>3. CASE RetryLater(Arg)
      BY <2>1, <3>3 DEF RetryLater
    <3> QED BY <2>3, <3>2, <3>3 DEF Get
  <2>4. CASE Raise \/ Drop \/ Delay \/ Edge \/ Store
    BY <2>2, <2>4 DEF Raise, Drop, Delay, Edge, Store, FallThrough
  <2>5. CASE Task \/ StartSequence \/ Write \/ StartItem
    BY <2>2, <2>5 DEF Task, StartSequence, CallTask, Write, StartItem, FallThrough
  <2>6. CASE Either \/ Jump
    BY <2>2, <2>6 DEF Either, Jump, FallThrough
  <2>7. CASE EndOfBody \/ \E e \in Events : NotifyDue(e)
    BY <2>1, <2>7 DEF EndOfBody, NotifyDue
  <2>8. CASE RunPhase \/ BStart \/ Delta \/ UNCHANGED allVars
    BY <2>1, <2>8 DEF RunPhase, BStart, Delta, allVars
  <2> QED BY <1>1, <2>3, <2>4, <2>5, <2>6, <2>7, <2>8 DEF BNext, Statement
<1>2. BInv /\ [BNext]_allVars =>
        [\A p \in Made : GoesPastGet(p) => taken' # taken]_allVars
  BY <1>1
<1> QED BY <1>2, BenchInvariance, PTL DEF BSpec, GetsHaveItems
=============================================================================
