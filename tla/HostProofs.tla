----------------------------- MODULE HostProofs -----------------------------
(***************************************************************************)
(* Proofs about Host, for any number of bindings, components, runs and     *)
(* ticks, any transport and any continuous assignments.  What is proved of *)
(* the exchange with the device needs an output: a host without one never  *)
(* waits for the device, and runs ahead of it.                             *)
(***************************************************************************)
EXTENDS Host, SequenceTheorems, WellFoundedInduction, TLAPS

Stores == [run : Nat, by : {"plain", "phase", "process", "clocked"}, var : Free, value : Levels]
Exports == [kind : {"export"}, var : InputNames, value : Levels]
JobMessages == [kind : {"job"}, id : Nat]
Exchanging == {"synchronize", "export", "schedule", "import"}
Looping == {"loop", "loopSchedule", "loopImport"}
Over == {"reports", "passed", "throw", "idle", "stopped"}
Working == {"plain", "phase", "callback", "drain", "process", "high", "clocked"}

TypeOK ==
    /\ runs \in Nat /\ ticks \in Nat /\ job \in Nat /\ i \in Nat \ {0}
    /\ pc \in Exchanging \cup Looping \cup Over \cup Working
    /\ ret \in {"plain", "high", "clocked"}
    /\ storage \in [Names -> Levels]
    /\ nba \in Seq(Stores) /\ strays \subseteq Stores
    /\ link \in Seq(Exports \cup JobMessages)
    /\ device \in [in : [InputNames -> Levels], out : [OutputNames -> Levels],
                   done : Nat, asked : [InputNames -> Levels]]
    /\ loop \in BOOLEAN /\ ignored \in BOOLEAN /\ line \in [InputNames -> Levels]
    /\ samples \in Seq([Clocks -> Levels])
    /\ nodes \in Seq([type : Types, born : 0..4])
    /\ phase \in 0..5 /\ at \in Nat \ {0} /\ processes \in Nat
    /\ calls \in Seq(Seq(1..4)) /\ Len(calls) = Len(nodes)

(***************************************************************************)
(* Which parts of a run come together.                                     *)
(***************************************************************************)
Running == pc \in {"drain", "process", "high", "clocked"} \/ (pc \in Exchanging /\ ret # "plain")

Control ==
    /\ pc \in Looping => loop
    /\ pc \in Exchanging \cup Working => ~loop
    /\ ignored => loop
    /\ ~loop => line = Zero(InputNames)
    /\ Running => phase = 3
    /\ pc = "phase" => phase \in 1..4
    /\ pc = "callback" => phase \in {1, 2, 4} /\ at <= Len(nodes)

(***************************************************************************)
(* What is queued by a process does not outlive its step, unless the step  *)
(* ends the script; a clocked block's store is never seen in the queue.    *)
(***************************************************************************)
QueueKept ==
    \A k \in 1..Len(nba) :
        nba[k].by \in {"process", "clocked"} => nba[k].run = runs /\ pc \in {"process", "throw", "stopped"}

(***************************************************************************)
(* The tree: which phases a node was called for, within a phase as well.   *)
(***************************************************************************)
Given(n) ==
    {p \in 1..4 : /\ PhaseNames[p] \in Has[nodes[n].type]
                  /\ p < phase \/ (p = phase /\ (n < at \/ Running \/ (n = at /\ pc = "callback")))
                  /\ p >= nodes[n].born /\ ~(p = 3 /\ nodes[n].born = 3)}
Increasing(s) == \A j, k \in 1..Len(s) : j < k => s[j] < s[k]

Called(n) ==
    /\ nodes[n].born <= phase
    /\ phase = 3 /\ ~Running => nodes[n].born < 3
    /\ ToSet(calls[n]) = Given(n) /\ Increasing(calls[n])

Tree == pc \in {"phase", "callback"} \/ Running => \A n \in 1..Len(nodes) : Called(n)

(***************************************************************************)
(* The exchange: what the device has or will have before it works on the   *)
(* next job is what the host offers; nothing is under way when the host    *)
(* computes; what the host holds of the outputs is the last answer.        *)
(***************************************************************************)
Offered == IF loop THEN line ELSE [v \in InputNames |-> storage[v]]
Sent(v) == \/ device.in[v] = Offered[v]
           \/ \E k \in 1..Len(link) : link[k].kind = "export" /\ link[k].var = v

Line ==
    /\ \A k \in 1..Len(link) : link[k].kind = "export" => link[k].value = Offered[link[k].var]
    /\ \A k \in 1..Len(link) :
           link[k].kind = "job" => /\ k = Len(link) /\ link[k].id = job
                                   /\ \A v \in InputNames : Sent(v)
                                   /\ pc \in {"import", "loopImport"} \cup Over
    /\ pc \in {"export", "loop"} => \A k \in 1..Len(Inputs) : k < i => Sent(Inputs[k])
    /\ pc \in {"schedule", "loopSchedule"} => \A v \in InputNames : Sent(v)
    /\ pc = "loop" => \A k \in 1..Len(link) : \E m \in 1..Len(Inputs) : m < i /\ link[k].var = Inputs[m]
    /\ pc \in Working \cup {"synchronize"} => link = <<>>
    /\ pc \in {"import", "loopImport"} /\ i > 1 => link = <<>>

Held ==
    /\ pc \in Working \cup {"synchronize", "export"} => device.done = job
    /\ pc \in Working \cup {"synchronize", "export", "schedule"} =>
           \A o \in OutputNames : storage[o] = device.out[o]
    /\ pc = "schedule" => device.done < job
    /\ pc = "import" => IF link = <<>> THEN device.done = job
                        ELSE device.done < job /\ link[Len(link)].kind = "job"
    /\ pc = "import" => \A k \in 1..Len(Outputs) : k < i => storage[Outputs[k]] = device.out[Outputs[k]]

InStep == Outputs # <<>> => (~ignored => Line) /\ Held

(***************************************************************************)
(* A tick: what the device has seen of the clocks, and what it will see.   *)
(***************************************************************************)
Level(x) == [v \in Clocks |-> x]
Asking == pc \in {"synchronize", "export", "schedule"} \/ (pc = "import" /\ link # <<>>)

Edge ==
    Outputs # <<>> =>
        /\ pc \in Exchanging /\ ret = "high" =>
               /\ \A v \in Clocks : storage[v] = 0
               /\ samples = IF Asking THEN <<>> ELSE <<Level(0)>>
        /\ pc = "high" => samples = <<Level(0)>>
        /\ pc \in Exchanging /\ ret = "clocked" =>
               /\ \A v \in Clocks : storage[v] = 1
               /\ samples = IF Asking THEN <<Level(0)>> ELSE <<Level(0), Level(1)>>
        /\ pc = "clocked" => samples = <<Level(0), Level(1)>>

-----------------------------------------------------------------------------
(***************************************************************************)
(* What the operators of the model return.                                 *)
(***************************************************************************)
LEMMA LargestIndex ==
  ASSUME NEW n \in Nat, NEW own \in SUBSET (1..n), own # {}
  PROVE  \E k \in own : \A l \in own : l <= k
<1> DEFINE left == {n - k : k \in own}
<1>1. left \subseteq Nat /\ left # {}
  <2>1. PICK k \in own : TRUE
    OBVIOUS
  <2>2. n - k \in left
    BY <2>1
  <2> QED
    BY <2>2
<1>2. PICK m \in left : \A l \in left : ~ (l < m)
  <2>1. PICK m \in left : \A l \in left : ~ (<<l, m>> \in OpToRel(<, Nat))
    BY <1>1, WFMin, NatLessThanWellFounded, Zenon
  <2>2. \A l \in left : l \in Nat /\ m \in Nat
    BY <1>1
  <2> QED
    BY <2>1, <2>2, Zenon DEF OpToRel
<1>3. ASSUME NEW l \in left PROVE m <= l
  <2>1. l \in Nat /\ m \in Nat /\ ~ (l < m)
    BY <1>1, <1>2
  <2> QED
    BY <2>1
<1>4. PICK k \in own : m = n - k
  OBVIOUS
<1>5. ASSUME NEW l \in own PROVE l <= k
  <2>1. n - l \in left
    OBVIOUS
  <2>2. n - k <= n - l
    BY <2>1, <1>3, <1>4
  <2>3. l \in Int /\ k \in Int
    OBVIOUS
  <2> HIDE DEF left
  <2> QED
    BY <2>2, <2>3
<1> QED
  BY <1>5

LEMMA FlushType ==
  ASSUME NEW data \in [Names -> Levels], NEW stores \in Seq(Stores)
  PROVE  FlushInto(data, stores) \in [Names -> Levels]
<1> SUFFICES ASSUME NEW v \in Names
             PROVE  FlushInto(data, stores)[v] \in Levels
  BY DEF FlushInto
<1> DEFINE own == {k \in 1..Len(stores) : stores[k].var = v /\ stores[k].run = runs}
<1>1. CASE own = {}
  BY <1>1 DEF FlushInto
<1>2. CASE own # {}
  <2>1. Len(stores) \in Nat /\ own \in SUBSET (1..Len(stores))
    OBVIOUS
  <2>2. \E k \in own : \A l \in own : l <= k
    BY <1>2, <2>1, LargestIndex
  <2>3. PICK k \in own : k = CHOOSE j \in own : \A l \in own : l <= j
    BY <2>2
  <2>4. stores[k] \in Stores
    BY <2>1
  <2>5. stores[k].value \in Levels
    BY <2>4 DEF Stores
  <2> QED
    BY <1>2, <2>3, <2>5 DEF FlushInto
<1> QED
  BY <1>1, <1>2

LEMMA StraysType ==
  ASSUME NEW stores \in Seq(Stores)
  PROVE  Strays(stores) \subseteq Stores
  BY DEF Strays

LEMMA QueuedType ==
  ASSUME TypeOK, NEW by \in {"plain", "phase", "process", "clocked"},
         NEW v \in Free, NEW x \in Levels
  PROVE  /\ Stored(by, v, x) \in Seq(Stores)
         /\ Len(Stored(by, v, x)) = Len(nba) + 1
         /\ \A k \in 1..Len(nba) : Stored(by, v, x)[k] = nba[k]
         /\ Stored(by, v, x)[Len(nba) + 1] = [run |-> runs, by |-> by, var |-> v, value |-> x]
<1>1. [run |-> runs, by |-> by, var |-> v, value |-> x] \in Stores
  BY DEF TypeOK, Stores
<1> QED
  BY <1>1, AppendProperties DEF TypeOK, Stored

LEMMA ComputeType ==
  ASSUME TypeOK, NEW by \in {"plain", "phase", "process"}, Compute(by)
  PROVE  storage' \in [Names -> Levels] /\ nba' \in Seq(Stores)
<1>1. PICK v \in Free, x \in Levels :
          \/ storage' = Assigned(v, x) /\ nba' = nba
          \/ storage' = storage /\ nba' = Stored(by, v, x)
  BY DEF Compute
<1>2. v \in Names
  BY DEF Free, Names
<1>3. CASE storage' = Assigned(v, x) /\ nba' = nba
  BY <1>2, <1>3 DEF Assigned, TypeOK
<1>4. CASE storage' = storage /\ nba' = Stored(by, v, x)
  <2>1. Stored(by, v, x) \in Seq(Stores)
    BY QueuedType
  <2> QED
    BY <1>4, <2>1 DEF TypeOK
<1> QED
  BY <1>1, <1>3, <1>4

LEMMA ZeroType ==
  ASSUME NEW S
  PROVE  Zero(S) \in [S -> Levels]
  BY DEF Zero, Levels

LEMMA Bindings ==
  /\ Len(Inputs) \in Nat /\ Len(Outputs) \in Nat
  /\ \A k \in 1..Len(Inputs) : Inputs[k] \in InputNames
  /\ \A v \in InputNames : \E k \in 1..Len(Inputs) : v = Inputs[k]
  /\ \A k \in 1..Len(Outputs) : Outputs[k] \in OutputNames
  /\ \A o \in OutputNames : \E k \in 1..Len(Outputs) : o = Outputs[k]
<1>1. /\ Len(Inputs) \in Nat /\ DOMAIN Inputs = 1..Len(Inputs)
      /\ Len(Outputs) \in Nat /\ DOMAIN Outputs = 1..Len(Outputs)
  BY BindingsAssumption, LenProperties
<1> QED
  BY <1>1 DEF InputNames, OutputNames, ToSet

LEMMA FirstMessage ==
  ASSUME link \in Seq(Exports \cup JobMessages), link # <<>>
  PROVE  /\ Head(link) \in Exports \cup JobMessages /\ Head(link) = link[1]
         /\ Tail(link) \in Seq(Exports \cup JobMessages)
         /\ Len(link) \in Nat \ {0} /\ Len(Tail(link)) = Len(link) - 1
         /\ \A k \in 1..Len(Tail(link)) : Tail(link)[k] = link[k + 1]
         /\ Head(link).kind = "export" => Head(link) \in Exports
         /\ Head(link).kind = "job" => Head(link) \in JobMessages
<1>1. Head(link) \in Exports \cup JobMessages
  BY HeadTailProperties
<1>2. Head(link) = link[1]
  OBVIOUS
<1>3. /\ Head(link).kind = "export" => Head(link) \in Exports
      /\ Head(link).kind = "job" => Head(link) \in JobMessages
  BY <1>1 DEF Exports, JobMessages
<1>4. Len(link) \in Nat \ {0}
  BY EmptySeq
<1> QED
  BY <1>1, <1>2, <1>3, <1>4, HeadTailProperties

\* What the last message added to the line does to it.
LEMMA ExportedType ==
  ASSUME TypeOK, NEW v \in InputNames, NEW x \in Levels, Export(v, x)
  PROVE  /\ link' \in Seq(Exports \cup JobMessages) /\ link' # <<>>
         /\ Len(link') = Len(link) + 1 /\ Len(link) \in Nat
         /\ \A k \in 1..Len(link) : link'[k] = link[k]
         /\ link'[Len(link) + 1] = [kind |-> "export", var |-> v, value |-> x]
<1>1. [kind |-> "export", var |-> v, value |-> x] \in Exports \cup JobMessages
  BY DEF Exports
<1>2. link \in Seq(Exports \cup JobMessages) /\ Len(link) \in Nat
  BY LenProperties DEF TypeOK
<1> QED
  BY <1>1, <1>2, AppendProperties DEF Export

LEMMA PostedType ==
  ASSUME TypeOK, Post
  PROVE  /\ link' \in Seq(Exports \cup JobMessages) /\ link' # <<>>
         /\ Len(link') = Len(link) + 1 /\ Len(link) \in Nat
         /\ \A k \in 1..Len(link) : link'[k] = link[k]
         /\ link'[Len(link) + 1] = [kind |-> "job", id |-> job]
<1>1. [kind |-> "job", id |-> job] \in Exports \cup JobMessages
  BY DEF JobMessages, TypeOK
<1>2. link \in Seq(Exports \cup JobMessages) /\ Len(link) \in Nat
  BY LenProperties DEF TypeOK
<1> QED
  BY <1>1, <1>2, AppendProperties DEF Post

-----------------------------------------------------------------------------
(***************************************************************************)
(* Every variable keeps its type.                                          *)
(***************************************************************************)
LEMMA ClockedType ==
  ASSUME TypeOK, TickClocked
  PROVE  storage' \in [Names -> Levels] /\ strays' \subseteq Stores /\ nba' \in Seq(Stores)
<1>1. storage \in [Names -> Levels] /\ nba \in Seq(Stores) /\ strays \subseteq Stores
  BY DEF TypeOK
<1>2. FlushInto(storage, nba) \in [Names -> Levels] /\ Strays(nba) \subseteq Stores
  BY <1>1, FlushType, StraysType
<1>3. CASE UNCHANGED dataVars
  BY <1>1, <1>3 DEF dataVars
<1>4. ASSUME NEW written \in SUBSET Free, NEW value \in [written -> Levels],
             storage' = [v \in Names |-> IF v \in written THEN value[v] ELSE FlushInto(storage, nba)[v]],
             strays' = strays \cup Strays(nba), nba' = <<>>
      PROVE  storage' \in [Names -> Levels] /\ strays' \subseteq Stores /\ nba' \in Seq(Stores)
  <2>1. \A v \in Names :
           (IF v \in written THEN value[v] ELSE FlushInto(storage, nba)[v]) \in Levels
    BY <1>2
  <2>2. storage' \in [Names -> Levels]
    BY <1>4, <2>1
  <2>3. strays' \subseteq Stores /\ nba' \in Seq(Stores)
    BY <1>1, <1>2, <1>4
  <2> QED
    BY <2>2, <2>3
<1> QED
  BY <1>3, <1>4 DEF TickClocked

LEMMA TypeStep ==
  ASSUME TypeOK, Control, [Next]_vars
  PROVE  TypeOK'
<1> USE DEF TypeOK, dataVars, linkVars, uvmVars, hostVars, Exchanging, Looping, Over, Working
<1>1. CASE StartRun
  <2>1. /\ storage' \in [Names -> Levels] /\ line' \in [InputNames -> Levels]
        /\ FreshDevice \in [in : [InputNames -> Levels], out : [OutputNames -> Levels],
                            done : Nat, asked : [InputNames -> Levels]]
    BY <1>1, ZeroType DEF StartRun, FreshDevice
  <2>2. device' \in [in : [InputNames -> Levels], out : [OutputNames -> Levels],
                     done : Nat, asked : [InputNames -> Levels]]
    BY <1>1, <2>1 DEF StartRun
  <2>3. nodes' = <<>> /\ calls' = <<>> /\ link' = <<>> /\ samples' = <<>>
    BY <1>1 DEF StartRun
  <2>4. /\ nodes' \in Seq([type : Types, born : 0..4]) /\ calls' \in Seq(Seq(1..4))
        /\ link' \in Seq(Exports \cup JobMessages) /\ samples' \in Seq([Clocks -> Levels])
        /\ Len(calls') = Len(nodes')
    BY <2>3
  <2>5. /\ runs' \in Nat /\ ticks' \in Nat /\ job' \in Nat /\ i' \in Nat \ {0}
        /\ pc' \in {"plain", "throw"} /\ ret' = ret /\ nba' = nba /\ strays' = strays
        /\ loop' = FALSE /\ ignored' = FALSE /\ phase' = 0 /\ at' = 1 /\ processes' = 0
    BY <1>1 DEF StartRun
  <2>6. /\ runs' \in Nat /\ ticks' \in Nat /\ job' \in Nat /\ i' \in Nat \ {0}
        /\ pc' \in Exchanging \cup Looping \cup Over \cup Working
        /\ ret' \in {"plain", "high", "clocked"}
    BY <2>5
  <2>7. nba' \in Seq(Stores) /\ strays' \subseteq Stores
    BY <2>5
  <2>8. /\ loop' \in BOOLEAN /\ ignored' \in BOOLEAN
    BY <2>5, Zenon
  <2>9. /\ phase' \in 0..5 /\ at' \in Nat \ {0} /\ processes' \in Nat
    BY <2>5
  <2> QED
    BY <2>1, <2>2, <2>4, <2>6, <2>7, <2>8, <2>9
<1>2. CASE Reports
  BY <1>2 DEF Reports
<1>3. CASE Unwind
  BY <1>3 DEF Unwind
<1>4. CASE PlainBody
  <2>1. storage' \in [Names -> Levels] /\ nba' \in Seq(Stores)
    BY <1>4, ComputeType DEF PlainBody
  <2> QED
    BY <1>4, <2>1 DEF PlainBody
<1>5. CASE EnterLoop
  BY <1>5 DEF EnterLoop
<1>6. CASE Delay
  BY <1>6 DEF Delay
<1>7. CASE Return
  BY <1>7 DEF Return
<1>8. CASE RunTest
  <2>1. nodes' = <<[type |-> Top, born |-> 0]>> /\ calls' = <<<<>>>>
    BY <1>8 DEF RunTest
  <2>2. [type |-> Top, born |-> 0] \in [type : Types, born : 0..4] /\ <<>> \in Seq(1..4)
    BY TypesAssumption
  <2>3. /\ nodes' \in Seq([type : Types, born : 0..4]) /\ calls' \in Seq(Seq(1..4))
        /\ Len(calls') = Len(nodes')
    BY <2>1, <2>2
  <2> QED
    BY <1>8, <2>3 DEF RunTest
<1>9. CASE PhaseCall
  <2>1. phase \in 1..4 /\ at \in 1..Len(calls)
    BY <1>9 DEF PhaseCall, Control
  <2>2. Append(calls[at], phase) \in Seq(1..4)
    BY <2>1
  <2>3. /\ [calls EXCEPT ![at] = Append(@, phase)] \in Seq(Seq(1..4))
        /\ Len([calls EXCEPT ![at] = Append(@, phase)]) = Len(calls)
    BY <2>1, <2>2, ExceptSeq
  <2>4. calls' \in Seq(Seq(1..4)) /\ Len(calls') = Len(nodes')
    BY <1>9, <2>3 DEF PhaseCall
  <2>5. pc' \in {"phase", "callback"} /\ at' \in Nat \ {0} /\ processes' \in Nat
    BY <1>9 DEF PhaseCall, NextNode
  <2>6. UNCHANGED <<runs, ret, i, dataVars, linkVars, loop, line, ignored, ticks, nodes, phase>>
    BY <1>9 DEF PhaseCall
  <2> QED
    BY <2>4, <2>5, <2>6
<1>10. CASE PhaseEnd
  <2>1. phase \in 1..4
    BY <1>10 DEF PhaseEnd, Control
  <2>2. phase' \in 0..5
    BY <1>10, <2>1 DEF PhaseEnd
  <2> QED
    BY <1>10, <2>2 DEF PhaseEnd
<1>11. CASE Create
  <2>1. phase \in 0..4
    BY <1>11 DEF Create, Control, Running
  <2>2. PICK t \in Types : nodes' = Append(nodes, Node(t))
    BY <1>11 DEF Create
  <2>3. Node(t) \in [type : Types, born : 0..4] /\ <<>> \in Seq(1..4)
    BY <2>1 DEF Node
  <2>4. /\ nodes' \in Seq([type : Types, born : 0..4]) /\ calls' \in Seq(Seq(1..4))
        /\ Len(calls') = Len(nodes')
    BY <1>11, <2>2, <2>3, AppendProperties DEF Create
  <2> QED
    BY <1>11, <2>4 DEF Create
<1>12. CASE PhaseBody
  <2>1. storage' \in [Names -> Levels] /\ nba' \in Seq(Stores)
    BY <1>12, ComputeType DEF PhaseBody
  <2> QED
    BY <1>12, <2>1 DEF PhaseBody
<1>13. CASE PhaseReturn
  <2> QED
    BY <1>13 DEF PhaseReturn, NextNode
<1>14. CASE Delta
  BY <1>14 DEF Delta
<1>15. CASE ProcessBody
  <2>1. storage' \in [Names -> Levels] /\ nba' \in Seq(Stores)
    BY <1>15, ComputeType DEF ProcessBody
  <2> QED
    BY <1>15, <2>1 DEF ProcessBody
<1>16. CASE DeltaEnd
  <2>1. storage' \in [Names -> Levels] /\ strays' \subseteq Stores
    BY <1>16, FlushType, StraysType DEF DeltaEnd
  <2>2. nba' \in Seq(Stores)
    BY <1>16 DEF DeltaEnd
  <2> QED
    BY <1>16, <2>1, <2>2 DEF DeltaEnd
<1>17. CASE ProcessThrows
  BY <1>17 DEF ProcessThrows
<1>18. CASE DrainEnd
  BY <1>18 DEF DrainEnd
<1>19. CASE Advance
  <2>1. storage' \in [Names -> Levels]
    BY <1>19 DEF Advance, ClocksAt, Levels
  <2>2. samples' \in Seq([Clocks -> Levels])
    BY <1>19 DEF Advance
  <2> QED
    BY <1>19, <2>1, <2>2 DEF Advance
<1>20. CASE TickHigh
  <2>1. storage' \in [Names -> Levels]
    BY <1>20 DEF TickHigh, ClocksAt, Levels
  <2>2. samples' \in Seq([Clocks -> Levels])
    BY <1>20 DEF TickHigh
  <2> QED
    BY <1>20, <2>1, <2>2 DEF TickHigh
<1>21. CASE TickClocked
  <2>1. storage' \in [Names -> Levels] /\ strays' \subseteq Stores /\ nba' \in Seq(Stores)
    BY <1>21, ClockedType
  <2> QED
    BY <1>21, <2>1 DEF TickClocked
<1>22. CASE Combinational
  <2>1. \A v \in DOMAIN Derived : Derived[v] \in Names
    BY DerivedAssumption
  <2>2. storage' \in [Names -> Levels]
    BY <1>22, <2>1 DEF Combinational
  <2> QED
    BY <1>22, <2>2 DEF Combinational
<1>23. CASE ExportInput
  <2>1. Inputs[i] \in InputNames /\ storage[Inputs[i]] \in Levels
    BY <1>23, Bindings DEF ExportInput, Names
  <2>2. link' \in Seq(Exports \cup JobMessages)
    BY <1>23, <2>1, ExportedType DEF ExportInput
  <2> QED
    BY <1>23, <2>2 DEF ExportInput
<1>24. CASE TakeJob
  BY <1>24 DEF TakeJob
<1>25. CASE Schedule
  <2>1. link' \in Seq(Exports \cup JobMessages)
    BY <1>25, PostedType DEF Schedule
  <2> QED
    BY <1>25, <2>1 DEF Schedule
<1>26. CASE ImportOutput
  <2>1. Outputs[i] \in OutputNames /\ device.out[Outputs[i]] \in Levels
    BY <1>26, Bindings DEF ImportOutput
  <2>2. storage' \in [Names -> Levels]
    BY <1>26, <2>1 DEF ImportOutput
  <2> QED
    BY <1>26, <2>2 DEF ImportOutput, NextBinding
<1>27. CASE SynchronizeEnd
  BY <1>27 DEF SynchronizeEnd
<1>28. CASE LoopExport
  <2>1. PICK x \in Levels :
            /\ line' = [line EXCEPT ![Inputs[i]] = x]
            /\ \/ Export(Inputs[i], x) /\ ignored' = ignored
               \/ ignored' = TRUE /\ UNCHANGED link
    BY <1>28 DEF LoopExport
  <2>2. Inputs[i] \in InputNames
    BY <1>28, Bindings DEF LoopExport
  <2>3. link' \in Seq(Exports \cup JobMessages)
    BY <2>1, <2>2, ExportedType
  <2>4. line' \in [InputNames -> Levels] /\ ignored' \in BOOLEAN
    BY <2>1
  <2> QED
    BY <1>28, <2>3, <2>4 DEF LoopExport
<1>29. CASE EndOfInput
  BY <1>29 DEF EndOfInput
<1>30. CASE LoopTakeJob
  BY <1>30 DEF LoopTakeJob
<1>31. CASE LoopSchedule
  <2>1. link' \in Seq(Exports \cup JobMessages)
    BY <1>31, PostedType DEF LoopSchedule
  <2>2. ignored' \in BOOLEAN
    BY <1>31 DEF LoopSchedule
  <2> QED
    BY <1>31, <2>1, <2>2 DEF LoopSchedule
<1>32. CASE LoopImport
  <2>1. ignored' \in BOOLEAN
    BY <1>32 DEF LoopImport
  <2> QED
    BY <1>32, <2>1 DEF LoopImport
<1>33. CASE LoopAgain
  BY <1>33 DEF LoopAgain
<1>34. CASE TransportError
  BY <1>34 DEF TransportError
<1>35. CASE TakeExport
  <2>1. /\ Head(link) \in Exports
        /\ link' \in Seq(Exports \cup JobMessages)
    BY <1>35, FirstMessage DEF TakeExport
  <2>2. Head(link).var \in InputNames /\ Head(link).value \in Levels
    BY <2>1 DEF Exports
  <2>3. device' \in [in : [InputNames -> Levels], out : [OutputNames -> Levels],
                     done : Nat, asked : [InputNames -> Levels]]
    BY <1>35, <2>2 DEF TakeExport
  <2> QED
    BY <1>35, <2>1, <2>3 DEF TakeExport
<1>36. CASE Evaluate
  <2>1. /\ Head(link) \in JobMessages
        /\ link' \in Seq(Exports \cup JobMessages)
    BY <1>36, FirstMessage DEF Evaluate
  <2>2. Head(link).id \in Nat
    BY <2>1 DEF JobMessages
  <2>3. PICK out \in Results :
            device' = [device EXCEPT !.out = out, !.done = Head(link).id, !.asked = device.in]
    BY <1>36 DEF Evaluate
  <2>4. device' \in [in : [InputNames -> Levels], out : [OutputNames -> Levels],
                     done : Nat, asked : [InputNames -> Levels]]
    BY <2>2, <2>3, ResultsAssumption
  <2>5. [v \in Clocks |-> device.in[v]] \in [Clocks -> Levels]
    BY ClocksAssumption
  <2>6. samples' \in Seq([Clocks -> Levels])
    BY <1>36, <2>5 DEF Evaluate
  <2> QED
    BY <1>36, <2>1, <2>4, <2>6 DEF Evaluate
<1>37. CASE UNCHANGED vars
  BY <1>37 DEF vars
<1> QED
  BY <1>1, <1>2, <1>3, <1>4, <1>5, <1>6, <1>7, <1>8, <1>9, <1>10, <1>11,
     <1>12, <1>13, <1>14, <1>15, <1>16, <1>17, <1>18, <1>19, <1>20, <1>21,
     <1>22, <1>23, <1>24, <1>25, <1>26, <1>27, <1>28, <1>29, <1>30, <1>31,
     <1>32, <1>33, <1>34, <1>35, <1>36, <1>37 DEF Next, HostStep, Device

-----------------------------------------------------------------------------
(***************************************************************************)
(* Which parts of a run come together.                                     *)
(***************************************************************************)
LEMMA ControlStep ==
  ASSUME TypeOK, Control, [Next]_vars
  PROVE  Control'
<1> USE DEF Control, Running, dataVars, linkVars, uvmVars, hostVars, Exchanging, Looping, Over, Working
<1>1. CASE StartRun
  BY <1>1 DEF StartRun
<1>2. CASE Reports
  BY <1>2 DEF Reports
<1>3. CASE Unwind
  BY <1>3 DEF Unwind
<1>4. CASE PlainBody
  BY <1>4 DEF PlainBody
<1>5. CASE EnterLoop
  BY <1>5 DEF EnterLoop
<1>6. CASE Delay
  BY <1>6 DEF Delay
<1>7. CASE Return
  BY <1>7 DEF Return
<1>8. CASE RunTest
  BY <1>8 DEF RunTest
<1>9. CASE PhaseCall
  BY <1>9 DEF PhaseCall
<1>10. CASE PhaseEnd
  BY <1>10 DEF PhaseEnd
<1>11. CASE Create
  <2>1. Len(nodes') = Len(nodes) + 1 /\ Len(nodes) \in Nat /\ at \in Nat
    BY <1>11, AppendProperties DEF Create, TypeOK
  <2> QED
    BY <1>11, <2>1 DEF Create
<1>12. CASE PhaseBody
  BY <1>12 DEF PhaseBody
<1>13. CASE PhaseReturn
  BY <1>13 DEF PhaseReturn
<1>14. CASE Delta
  BY <1>14 DEF Delta
<1>15. CASE ProcessBody
  BY <1>15 DEF ProcessBody
<1>16. CASE DeltaEnd
  BY <1>16 DEF DeltaEnd
<1>17. CASE ProcessThrows
  BY <1>17 DEF ProcessThrows
<1>18. CASE DrainEnd
  BY <1>18 DEF DrainEnd
<1>19. CASE Advance
  BY <1>19 DEF Advance
<1>20. CASE TickHigh
  BY <1>20 DEF TickHigh
<1>21. CASE TickClocked
  BY <1>21 DEF TickClocked
<1>22. CASE Combinational
  BY <1>22 DEF Combinational
<1>23. CASE ExportInput
  BY <1>23 DEF ExportInput
<1>24. CASE TakeJob
  BY <1>24 DEF TakeJob
<1>25. CASE Schedule
  BY <1>25 DEF Schedule
<1>26. CASE ImportOutput
  BY <1>26 DEF ImportOutput
<1>27. CASE SynchronizeEnd
  BY <1>27 DEF SynchronizeEnd, TypeOK
<1>28. CASE LoopExport
  BY <1>28 DEF LoopExport
<1>29. CASE EndOfInput
  BY <1>29 DEF EndOfInput
<1>30. CASE LoopTakeJob
  BY <1>30 DEF LoopTakeJob
<1>31. CASE LoopSchedule
  BY <1>31 DEF LoopSchedule
<1>32. CASE LoopImport
  BY <1>32 DEF LoopImport
<1>33. CASE LoopAgain
  BY <1>33 DEF LoopAgain
<1>34. CASE TransportError
  BY <1>34 DEF TransportError
<1>35. CASE TakeExport
  BY <1>35 DEF TakeExport
<1>36. CASE Evaluate
  BY <1>36 DEF Evaluate
<1>37. CASE UNCHANGED vars
  BY <1>37 DEF vars
<1> QED
  BY <1>1, <1>2, <1>3, <1>4, <1>5, <1>6, <1>7, <1>8, <1>9, <1>10, <1>11,
     <1>12, <1>13, <1>14, <1>15, <1>16, <1>17, <1>18, <1>19, <1>20, <1>21,
     <1>22, <1>23, <1>24, <1>25, <1>26, <1>27, <1>28, <1>29, <1>30, <1>31,
     <1>32, <1>33, <1>34, <1>35, <1>36, <1>37 DEF Next, HostStep, Device

-----------------------------------------------------------------------------
(***************************************************************************)
(* Stores are flushed in the run that queued them.                         *)
(***************************************************************************)
LEMMA StraysHome ==
  ASSUME TypeOK, QueueKept
  PROVE  \A s \in Strays(nba) : s.by \in {"plain", "phase"}
<1> SUFFICES ASSUME NEW k \in 1..Len(nba), nba[k].run # runs
             PROVE  nba[k].by \in {"plain", "phase"}
  BY DEF Strays
<1>1. nba[k] \in Stores
  BY DEF TypeOK
<1>2. nba[k].by \in {"plain", "phase", "process", "clocked"}
  BY <1>1 DEF Stores
<1> QED
  BY <1>2 DEF QueueKept

LEMMA QueueCompute ==
  ASSUME TypeOK, QueueKept, StoresStayHome, NEW by \in {"plain", "phase", "process"},
         Compute(by), pc' = pc, runs' = runs, strays' = strays,
         by = "process" => pc = "process"
  PROVE  QueueKept' /\ StoresStayHome'
<1>1. PICK v \in Free, x \in Levels : nba' = nba \/ nba' = Stored(by, v, x)
  BY DEF Compute
<1>2. CASE nba' = nba
  BY <1>2 DEF QueueKept, StoresStayHome
<1>3. CASE nba' = Stored(by, v, x)
  <2> SUFFICES ASSUME NEW k \in 1..Len(nba'), nba'[k].by \in {"process", "clocked"}
               PROVE  nba'[k].run = runs /\ pc \in {"process", "throw", "stopped"}
    BY DEF QueueKept, StoresStayHome
  <2>1. /\ Len(nba) \in Nat /\ Len(Stored(by, v, x)) = Len(nba) + 1
        /\ \A l \in 1..Len(nba) : Stored(by, v, x)[l] = nba[l]
        /\ Stored(by, v, x)[Len(nba) + 1] = [run |-> runs, by |-> by, var |-> v, value |-> x]
    BY QueuedType, LenProperties DEF TypeOK
  <2>2. CASE k = Len(nba) + 1
    BY <1>3, <2>1, <2>2
  <2>3. CASE k \in 1..Len(nba)
    BY <1>3, <2>1, <2>3 DEF QueueKept
  <2> QED
    BY <1>3, <2>1, <2>2, <2>3
<1> QED
  BY <1>1, <1>2, <1>3

LEMMA QueueStep ==
  ASSUME TypeOK, Control, QueueKept, StoresStayHome, [Next]_vars
  PROVE  QueueKept' /\ StoresStayHome'
<1> USE DEF QueueKept, StoresStayHome, dataVars, linkVars, uvmVars, hostVars
<1>1. CASE StartRun
  BY <1>1 DEF StartRun
<1>2. CASE Reports
  BY <1>2 DEF Reports
<1>3. CASE Unwind
  BY <1>3 DEF Unwind
<1>4. CASE PlainBody
  BY <1>4, QueueCompute DEF PlainBody
<1>5. CASE EnterLoop
  BY <1>5 DEF EnterLoop
<1>6. CASE Delay
  BY <1>6 DEF Delay
<1>7. CASE Return
  BY <1>7 DEF Return
<1>8. CASE RunTest
  BY <1>8 DEF RunTest
<1>9. CASE PhaseCall
  BY <1>9 DEF PhaseCall
<1>10. CASE PhaseEnd
  BY <1>10 DEF PhaseEnd
<1>11. CASE Create
  BY <1>11 DEF Create
<1>12. CASE PhaseBody
  BY <1>12, QueueCompute DEF PhaseBody
<1>13. CASE PhaseReturn
  BY <1>13 DEF PhaseReturn
<1>14. CASE Delta
  BY <1>14 DEF Delta
<1>15. CASE ProcessBody
  BY <1>15, QueueCompute DEF ProcessBody
<1>16. CASE DeltaEnd
  <2>1. nba' = <<>> /\ strays' = strays \cup Strays(nba) /\ pc = "process"
    BY <1>16 DEF DeltaEnd
  <2>2. \A s \in Strays(nba) : s.by \in {"plain", "phase"}
    BY StraysHome
  <2> QED
    BY <2>1, <2>2
<1>17. CASE ProcessThrows
  BY <1>17 DEF ProcessThrows
<1>18. CASE DrainEnd
  BY <1>18 DEF DrainEnd
<1>19. CASE Advance
  BY <1>19 DEF Advance
<1>20. CASE TickHigh
  BY <1>20 DEF TickHigh
<1>21. CASE TickClocked
  <2>1. pc = "clocked" /\ pc' = "process" /\ runs' = runs
    BY <1>21 DEF TickClocked
  <2>2. CASE UNCHANGED dataVars
    BY <2>1, <2>2
  <2>3. CASE strays' = strays \cup Strays(nba) /\ nba' = <<>>
    BY <2>1, <2>3, StraysHome
  <2> QED
    BY <1>21, <2>2, <2>3 DEF TickClocked
<1>22. CASE Combinational
  BY <1>22 DEF Combinational
<1>23. CASE ExportInput
  BY <1>23 DEF ExportInput
<1>24. CASE TakeJob
  BY <1>24 DEF TakeJob
<1>25. CASE Schedule
  BY <1>25 DEF Schedule
<1>26. CASE ImportOutput
  BY <1>26 DEF ImportOutput
<1>27. CASE SynchronizeEnd
  BY <1>27 DEF SynchronizeEnd, TypeOK
<1>28. CASE LoopExport
  BY <1>28 DEF LoopExport
<1>29. CASE EndOfInput
  BY <1>29 DEF EndOfInput
<1>30. CASE LoopTakeJob
  BY <1>30 DEF LoopTakeJob
<1>31. CASE LoopSchedule
  BY <1>31 DEF LoopSchedule
<1>32. CASE LoopImport
  BY <1>32 DEF LoopImport
<1>33. CASE LoopAgain
  BY <1>33 DEF LoopAgain
<1>34. CASE TransportError
  BY <1>34 DEF TransportError
<1>35. CASE TakeExport
  BY <1>35 DEF TakeExport
<1>36. CASE Evaluate
  BY <1>36 DEF Evaluate
<1>37. CASE UNCHANGED vars
  BY <1>37 DEF vars
<1> QED
  BY <1>1, <1>2, <1>3, <1>4, <1>5, <1>6, <1>7, <1>8, <1>9, <1>10, <1>11,
     <1>12, <1>13, <1>14, <1>15, <1>16, <1>17, <1>18, <1>19, <1>20, <1>21,
     <1>22, <1>23, <1>24, <1>25, <1>26, <1>27, <1>28, <1>29, <1>30, <1>31,
     <1>32, <1>33, <1>34, <1>35, <1>36, <1>37 DEF Next, HostStep, Device

-----------------------------------------------------------------------------
(***************************************************************************)
(* The component tree: who was called for which phase.                     *)
(***************************************************************************)
LEMMA OneMoreCall ==
  ASSUME NEW s \in Seq(1..4), NEW p \in 1..4
  PROVE  /\ ToSet(Append(s, p)) = ToSet(s) \cup {p}
         /\ Increasing(s) /\ (\A q \in ToSet(s) : q < p) => Increasing(Append(s, p))
<1> DEFINE t == Append(s, p)
<1>1. /\ Len(s) \in Nat /\ DOMAIN s = 1..Len(s) /\ t \in Seq(1..4)
      /\ Len(t) = Len(s) + 1 /\ DOMAIN t = 1..Len(t)
      /\ \A k \in 1..Len(s) : t[k] = s[k] /\ s[k] \in 1..4
      /\ t[Len(s) + 1] = p
  BY AppendProperties, LenProperties
<1> HIDE DEF t
<1>2. ToSet(t) = ToSet(s) \cup {p}
  <2>1. ASSUME NEW k \in 1..Len(t) PROVE t[k] \in ToSet(s) \cup {p}
    BY <1>1, k \in 1..Len(s) \/ k = Len(s) + 1 DEF ToSet
  <2>2. ASSUME NEW k \in 1..Len(s) PROVE s[k] \in ToSet(t)
    BY <1>1, k \in 1..Len(t) DEF ToSet
  <2>3. p \in ToSet(t)
    BY <1>1, Len(s) + 1 \in 1..Len(t) DEF ToSet
  <2> QED
    BY <1>1, <2>1, <2>2, <2>3 DEF ToSet
<1>3. ASSUME Increasing(s), \A q \in ToSet(s) : q < p PROVE Increasing(t)
  <2> SUFFICES ASSUME NEW j \in 1..Len(t), NEW k \in 1..Len(t), j < k
               PROVE  t[j] < t[k]
    BY DEF Increasing
  <2>1. j \in 1..Len(s) /\ s[j] \in ToSet(s)
    BY <1>1 DEF ToSet
  <2>2. CASE k \in 1..Len(s)
    BY <1>1, <1>3, <2>1, <2>2 DEF Increasing
  <2>3. CASE k = Len(s) + 1
    BY <1>1, <1>3, <2>1, <2>3
  <2> QED
    BY <1>1, <2>2, <2>3
<1> QED
  BY <1>2, <1>3 DEF t

LEMMA TreeKept ==
  ASSUME Tree, UNCHANGED <<nodes, phase, at, calls>>,
         pc' \in {"phase", "callback"} \/ Running' =>
             (pc' = pc /\ ret' = ret) \/ (Running /\ Running')
  PROVE  Tree'
<1> SUFFICES ASSUME pc' \in {"phase", "callback"} \/ Running'
             PROVE  Tree'
  BY DEF Tree
<1>1. Running' = Running
  BY DEF Running
<1>2. pc \in {"phase", "callback"} \/ Running
  BY DEF Running
<1>3. ASSUME NEW n \in 1..Len(nodes) PROVE Given(n)' = Given(n)
  <2>1. CASE Running /\ Running'
    BY <2>1 DEF Given
  <2>2. CASE pc' = pc /\ ~Running
    BY <1>1, <2>2 DEF Given
  <2> QED
    BY <1>1, <2>1, <2>2
<1> QED
  BY <1>1, <1>2, <1>3 DEF Tree, Called

LEMMA TreeRunTest ==
  ASSUME TypeOK, RunTest
  PROVE  Tree'
<1>1. /\ nodes' = <<[type |-> Top, born |-> 0]>> /\ calls' = <<<<>>>>
      /\ phase' = 1 /\ at' = 1 /\ pc' = "phase"
  BY DEF RunTest
<1>2. Len(nodes') = 1 /\ nodes'[1].born = 0 /\ calls'[1] = <<>>
  BY <1>1
<1>3. Given(1)' = {} /\ ~Running'
  BY <1>1, <1>2 DEF Given, Running, Exchanging
<1>4. Called(1)'
  BY <1>1, <1>2, <1>3 DEF Called, Increasing, ToSet
<1> QED
  BY <1>2, <1>4 DEF Tree

LEMMA TreePhaseCall ==
  ASSUME TypeOK, Control, Tree, PhaseCall
  PROVE  Tree'
<1> DEFINE called == PhaseNames[phase] \in Has[nodes[at].type]
<1>1. /\ pc = "phase" /\ phase \in 1..4 /\ at \in 1..Len(nodes) /\ Len(nodes) \in Nat
      /\ ~Running /\ ~Running' /\ nodes' = nodes /\ phase' = phase
      /\ calls \in Seq(Seq(1..4)) /\ DOMAIN calls = 1..Len(nodes)
  BY LenProperties DEF PhaseCall, Control, TypeOK, Running, Exchanging
<1>2. /\ calls' = IF called THEN [calls EXCEPT ![at] = Append(@, phase)] ELSE calls
      /\ pc' = IF called /\ phase # 3 THEN "callback" ELSE "phase"
      /\ at' = IF pc' = "callback" THEN at ELSE at + 1
  BY DEF PhaseCall, NextNode
<1> SUFFICES ASSUME NEW n \in 1..Len(nodes) PROVE Called(n)'
  BY <1>1 DEF Tree
<1>3. Called(n) /\ nodes[n].born \in 0..4 /\ calls[n] \in Seq(1..4)
  <2>1. nodes[n] \in [type : Types, born : 0..4]
    BY <1>1, ElementOfSeq DEF TypeOK
  <2> QED
    BY <1>1, <2>1 DEF Tree
<1>4. CASE n # at
  <2>1. calls'[n] = calls[n]
    BY <1>1, <1>2, <1>4
  <2>2. Given(n)' = Given(n)
    BY <1>1, <1>2, <1>4 DEF Given
  <2> QED
    BY <1>1, <1>3, <2>1, <2>2 DEF Called
<1>5. CASE n = at /\ ~called
  <2>1. calls'[n] = calls[n]
    BY <1>2, <1>5
  <2>2. Given(n)' = Given(n)
    BY <1>1, <1>2, <1>5 DEF Given
  <2> QED
    BY <1>1, <1>3, <2>1, <2>2 DEF Called
<1>6. CASE n = at /\ called
  <2>1. calls'[n] = Append(calls[n], phase)
    BY <1>1, <1>2, <1>6
  <2>2. \A q \in Given(n) : q < phase
    BY <1>1, <1>6 DEF Given
  <2>3. Given(n)' = Given(n) \cup {phase}
    BY <1>1, <1>2, <1>3, <1>6 DEF Given, Called
  <2>4. ToSet(calls'[n]) = Given(n)' /\ Increasing(calls'[n])
    BY <1>1, <1>3, <2>1, <2>2, <2>3, OneMoreCall DEF Called
  <2> QED
    BY <1>1, <1>3, <2>4 DEF Called
<1> QED
  BY <1>4, <1>5, <1>6

LEMMA TreePhaseEnd ==
  ASSUME TypeOK, Control, Tree, PhaseEnd
  PROVE  Tree'
<1>1. /\ pc = "phase" /\ phase \in 1..4 /\ at > Len(nodes) /\ Len(nodes) \in Nat /\ at \in Nat
      /\ ~Running /\ nodes' = nodes /\ calls' = calls /\ at' = 1
  BY LenProperties DEF PhaseEnd, Control, TypeOK, Running, Exchanging
<1> SUFFICES ASSUME NEW n \in 1..Len(nodes), pc' # "plain" PROVE Called(n)'
  BY <1>1 DEF Tree, Running, Exchanging
<1>2. Called(n) /\ nodes[n].born \in 0..4
  <2>1. nodes[n] \in [type : Types, born : 0..4]
    BY <1>1, ElementOfSeq DEF TypeOK
  <2> QED
    BY <1>1, <2>1 DEF Tree
<1>3. CASE phase = 3 /\ phase' = 3 /\ pc' = "process"
  <2>1. Running' /\ Given(n)' = Given(n)
    BY <1>1, <1>3 DEF Given, Running
  <2> QED
    BY <1>1, <1>2, <1>3, <2>1 DEF Called
<1>4. CASE phase' = phase + 1 /\ pc' = "phase"
  <2>1. ~Running'
    BY <1>4 DEF Running, Exchanging
  <2>2. Given(n)' = Given(n)
    BY <1>1, <1>4, <2>1 DEF Given
  <2> QED
    BY <1>1, <1>2, <1>4, <2>1, <2>2 DEF Called
<1> QED
  BY <1>3, <1>4 DEF PhaseEnd

LEMMA TreeCreate ==
  ASSUME TypeOK, Control, Tree, Create
  PROVE  Tree'
<1>1. /\ pc' = pc /\ phase' = phase /\ at' = at /\ phase \in 1..4
      /\ Running' = Running /\ Len(nodes) \in Nat /\ at \in Nat
      /\ IF Running THEN phase = 3 ELSE phase # 3 /\ at <= Len(nodes)
  BY LenProperties DEF Create, Control, TypeOK, Running, Exchanging, hostVars
<1>2. PICK t \in Types : nodes' = Append(nodes, [type |-> t, born |-> phase])
  BY DEF Create, Node
<1>3. /\ Len(nodes') = Len(nodes) + 1
      /\ \A n \in 1..Len(nodes) : nodes'[n] = nodes[n]
      /\ nodes'[Len(nodes) + 1] = [type |-> t, born |-> phase]
  BY <1>1, <1>2, AppendProperties DEF TypeOK
<1>4. /\ \A n \in 1..Len(nodes) : calls'[n] = calls[n]
      /\ calls'[Len(nodes) + 1] = <<>>
  BY AppendProperties, <<>> \in Seq(1..4) DEF TypeOK, Create
<1>5. ASSUME NEW n \in 1..Len(nodes) PROVE Called(n)'
  <2>1. Called(n)
    BY DEF Tree, Create, Running
  <2>2. Given(n)' = Given(n)
    BY <1>1, <1>3 DEF Given
  <2> QED
    BY <1>1, <1>3, <1>4, <2>1, <2>2 DEF Called
<1>6. ASSUME NEW m \in Nat, m = Len(nodes) + 1 PROVE Called(m)'
  <2>1. m > Len(nodes) /\ nodes'[m].born = phase /\ calls'[m] = <<>>
    BY <1>1, <1>3, <1>4, <1>6
  <2>2. Given(m)' = {}
    <3>1. CASE Running
      BY <1>1, <2>1, <3>1 DEF Given
    <3>2. CASE ~Running
      BY <1>1, <2>1, <3>2 DEF Given
    <3> QED
      BY <3>1, <3>2
  <2>3. ToSet(calls'[m]) = {} /\ Increasing(calls'[m])
    BY <2>1 DEF Increasing, ToSet
  <2>4. phase' = 3 /\ ~Running' => nodes'[m].born < 3
    BY <1>1
  <2> QED
    BY <1>1, <2>1, <2>2, <2>3, <2>4 DEF Called
<1>7. \A n \in 1..Len(nodes') : n \in 1..Len(nodes) \/ n = Len(nodes) + 1
  BY <1>1, <1>3
<1>8. \A n \in 1..Len(nodes') : Called(n)'
  BY <1>1, <1>5, <1>6, <1>7
<1> QED
  BY <1>8 DEF Tree

LEMMA TreePhaseReturn ==
  ASSUME TypeOK, Control, Tree, PhaseReturn
  PROVE  Tree'
<1>1. /\ pc = "callback" /\ phase \in {1, 2, 4} /\ at \in Nat /\ Len(nodes) \in Nat
      /\ ~Running /\ ~Running' /\ nodes' = nodes /\ calls' = calls
      /\ phase' = phase /\ at' = at + 1
  BY LenProperties DEF PhaseReturn, NextNode, Control, TypeOK, Running, Exchanging
<1> SUFFICES ASSUME NEW n \in 1..Len(nodes), pc' = "phase" PROVE Called(n)'
  BY <1>1 DEF Tree, PhaseReturn
<1>2. Called(n)
  BY <1>1 DEF Tree
<1>3. Given(n)' = Given(n)
  BY <1>1 DEF Given
<1> QED
  BY <1>1, <1>2, <1>3 DEF Called

LEMMA TreeDrainEnd ==
  ASSUME TypeOK, Control, Tree, DrainEnd
  PROVE  Tree'
<1>1. /\ Running /\ phase = 3 /\ nodes' = nodes /\ calls' = calls /\ Len(nodes) \in Nat
  BY LenProperties DEF DrainEnd, Control, TypeOK, Running
<1> SUFFICES ASSUME NEW n \in 1..Len(nodes), pc' = "phase", phase' = 4, at' = 1 PROVE Called(n)'
  BY <1>1 DEF Tree, DrainEnd, Running, Exchanging
<1>2. Called(n) /\ ~Running' /\ nodes[n].born \in 0..4
  <2>1. nodes[n] \in [type : Types, born : 0..4]
    BY <1>1, ElementOfSeq DEF TypeOK
  <2> QED
    BY <1>1, <2>1 DEF Tree, Running, Exchanging
<1>3. Given(n)' = Given(n)
  BY <1>1, <1>2 DEF Given
<1> QED
  BY <1>1, <1>2, <1>3 DEF Called

LEMMA TreeStep ==
  ASSUME TypeOK, Control, Tree, [Next]_vars
  PROVE  Tree'
<1> USE DEF Running, dataVars, linkVars, uvmVars, hostVars, Exchanging
<1>1. CASE StartRun
  BY <1>1 DEF StartRun, Tree
<1>2. CASE Reports
  BY <1>2, TreeKept DEF Reports
<1>3. CASE Unwind
  BY <1>3, TreeKept DEF Unwind
<1>4. CASE PlainBody
  BY <1>4, TreeKept DEF PlainBody
<1>5. CASE EnterLoop
  BY <1>5, TreeKept DEF EnterLoop
<1>6. CASE Delay
  BY <1>6, TreeKept DEF Delay
<1>7. CASE Return
  BY <1>7, TreeKept DEF Return
<1>8. CASE RunTest
  BY <1>8, TreeRunTest
<1>9. CASE PhaseCall
  BY <1>9, TreePhaseCall
<1>10. CASE PhaseEnd
  BY <1>10, TreePhaseEnd
<1>11. CASE Create
  BY <1>11, TreeCreate
<1>12. CASE PhaseBody
  BY <1>12, TreeKept DEF PhaseBody
<1>13. CASE PhaseReturn
  BY <1>13, TreePhaseReturn
<1>14. CASE Delta
  BY <1>14, TreeKept DEF Delta
<1>15. CASE ProcessBody
  BY <1>15, TreeKept DEF ProcessBody
<1>16. CASE DeltaEnd
  BY <1>16, TreeKept DEF DeltaEnd
<1>17. CASE ProcessThrows
  BY <1>17, TreeKept DEF ProcessThrows
<1>18. CASE DrainEnd
  BY <1>18, TreeDrainEnd
<1>19. CASE Advance
  BY <1>19, TreeKept DEF Advance
<1>20. CASE TickHigh
  BY <1>20, TreeKept DEF TickHigh
<1>21. CASE TickClocked
  BY <1>21, TreeKept DEF TickClocked
<1>22. CASE Combinational
  BY <1>22, TreeKept DEF Combinational
<1>23. CASE ExportInput
  BY <1>23, TreeKept DEF ExportInput
<1>24. CASE TakeJob
  BY <1>24, TreeKept DEF TakeJob
<1>25. CASE Schedule
  BY <1>25, TreeKept DEF Schedule
<1>26. CASE ImportOutput
  BY <1>26, TreeKept DEF ImportOutput
<1>27. CASE SynchronizeEnd
  BY <1>27, TreeKept DEF SynchronizeEnd, TypeOK
<1>28. CASE LoopExport
  BY <1>28, TreeKept DEF LoopExport
<1>29. CASE EndOfInput
  BY <1>29, TreeKept DEF EndOfInput
<1>30. CASE LoopTakeJob
  BY <1>30, TreeKept DEF LoopTakeJob
<1>31. CASE LoopSchedule
  BY <1>31, TreeKept DEF LoopSchedule
<1>32. CASE LoopImport
  BY <1>32, TreeKept DEF LoopImport
<1>33. CASE LoopAgain
  BY <1>33, TreeKept DEF LoopAgain
<1>34. CASE TransportError
  BY <1>34, TreeKept DEF TransportError
<1>35. CASE TakeExport
  BY <1>35, TreeKept DEF TakeExport
<1>36. CASE Evaluate
  BY <1>36, TreeKept DEF Evaluate
<1>37. CASE UNCHANGED vars
  BY <1>37, TreeKept DEF vars
<1> QED
  BY <1>1, <1>2, <1>3, <1>4, <1>5, <1>6, <1>7, <1>8, <1>9, <1>10, <1>11,
     <1>12, <1>13, <1>14, <1>15, <1>16, <1>17, <1>18, <1>19, <1>20, <1>21,
     <1>22, <1>23, <1>24, <1>25, <1>26, <1>27, <1>28, <1>29, <1>30, <1>31,
     <1>32, <1>33, <1>34, <1>35, <1>36, <1>37 DEF Next, HostStep, Device

-----------------------------------------------------------------------------
(***************************************************************************)
(* The exchange: the line between the host and the device.                 *)
(***************************************************************************)
\* A line with nothing on it.
LEMMA LineEmpty ==
  ASSUME link' = <<>>, pc' \notin {"schedule", "loopSchedule"},
         pc' \in {"export", "loop"} => i' = 1, Len(Inputs) \in Nat
  PROVE  Line'
<1>1. Len(link') = 0
  OBVIOUS
<1> QED
  BY <1>1 DEF Line

\* The host stops in the middle of an exchange.
LEMMA LineLeft ==
  ASSUME TypeOK, Line, UNCHANGED <<storage, loop, line, link, device, job>>, pc' \in Over
  PROVE  Line'
<1>1. \A v : Sent(v)' = Sent(v) /\ Offered' = Offered
  BY DEF Sent, Offered
<1> QED
  BY <1>1 DEF Line, Over, Working

LEMMA LineExported ==
  ASSUME TypeOK, Line, pc \in {"export", "loop"}, pc' = pc, i \in 1..Len(Inputs), i' = i + 1,
         NEW x \in Levels, Export(Inputs[i], x), Offered'[Inputs[i]] = x,
         \A k \in 1..Len(link) : Offered'[link[k].var] = Offered[link[k].var],
         \A v \in InputNames : v # Inputs[i] => Offered'[v] = Offered[v],
         device' = device
  PROVE  Line'
<1>1. /\ link' # <<>> /\ Len(link') = Len(link) + 1 /\ Len(link) \in Nat
      /\ \A k \in 1..Len(link) : link'[k] = link[k]
      /\ link'[Len(link) + 1] = [kind |-> "export", var |-> Inputs[i], value |-> x]
  BY Bindings, ExportedType
<1>2. \A k \in 1..Len(link') : k \in 1..Len(link) \/ k = Len(link) + 1
  BY <1>1
<1>3. \A k \in 1..Len(link) : link[k].kind # "job"
  BY DEF Line, Over
<1>4. ASSUME NEW k \in 1..Len(link'), link'[k].kind = "export"
      PROVE  link'[k].value = Offered'[link'[k].var]
  BY <1>1, <1>2, <1>4 DEF Line
<1>5. \A k \in 1..Len(link') : link'[k].kind # "job"
  BY <1>1, <1>2, <1>3
<1>6. ASSUME NEW k \in 1..Len(Inputs), k < i + 1
      PROVE  Sent(Inputs[k])'
  <2>1. CASE Inputs[k] = Inputs[i]
    <3>1. Len(link) + 1 \in 1..Len(link')
      BY <1>1
    <3> QED
      BY <1>1, <2>1, <3>1 DEF Sent
  <2>2. CASE Inputs[k] # Inputs[i]
    <3>1. Sent(Inputs[k]) /\ Inputs[k] \in InputNames
      BY <1>6, <2>2, Bindings DEF Line, TypeOK
    <3>2. CASE device.in[Inputs[k]] = Offered[Inputs[k]]
      BY <2>2, <3>1, <3>2 DEF Sent
    <3>3. ASSUME NEW m \in 1..Len(link), link[m].kind = "export" /\ link[m].var = Inputs[k]
          PROVE  Sent(Inputs[k])'
      BY <1>1, <3>3, m \in 1..Len(link') DEF Sent
    <3> QED
      BY <3>1, <3>2, <3>3 DEF Sent
  <2> QED
    BY <2>1, <2>2
<1>7. ASSUME pc = "loop", NEW k \in 1..Len(link')
      PROVE  \E m \in 1..Len(Inputs) : m < i + 1 /\ link'[k].var = Inputs[m]
  <2>1. CASE k = Len(link) + 1
    BY <1>1, <2>1
  <2>2. CASE k \in 1..Len(link)
    <3>1. PICK m \in 1..Len(Inputs) : m < i /\ link[k].var = Inputs[m]
      BY <1>7, <2>2 DEF Line
    <3> QED
      BY <1>1, <2>2, <3>1
  <2> QED
    BY <1>2, <2>1, <2>2
<1> QED
  BY <1>4, <1>5, <1>6, <1>7 DEF Line, Working

\* The number of a job is taken once all inputs are under way.
LEMMA LineTaken ==
  ASSUME TypeOK, Line, pc \in {"export", "loop"}, i > Len(Inputs),
         pc' \in {"schedule", "loopSchedule"},
         UNCHANGED <<storage, loop, line, link, device>>
  PROVE  Line'
<1>1. \A v : Sent(v)' = Sent(v) /\ Offered' = Offered
  BY DEF Sent, Offered
<1>2. \A k \in 1..Len(link) : link[k].kind # "job"
  BY DEF Line, Over
<1>3. \A v \in InputNames : Sent(v)
  <2> SUFFICES ASSUME NEW v \in InputNames PROVE Sent(v)
    OBVIOUS
  <2>1. PICK k \in 1..Len(Inputs) : v = Inputs[k]
    BY Bindings
  <2>2. k < i
    BY Bindings DEF TypeOK
  <2> QED
    BY <2>1, <2>2 DEF Line
<1> QED
  BY <1>1, <1>2, <1>3 DEF Line, Working

LEMMA LinePosted ==
  ASSUME TypeOK, Line, pc \in {"schedule", "loopSchedule"}, Post,
         pc' \in {"import", "loopImport"}, i' = 1,
         UNCHANGED <<storage, loop, line, device, job>>
  PROVE  Line'
<1>1. /\ Len(link') = Len(link) + 1 /\ Len(link) \in Nat
      /\ \A k \in 1..Len(link) : link'[k] = link[k]
      /\ link'[Len(link) + 1] = [kind |-> "job", id |-> job]
  BY PostedType
<1>2. \A k \in 1..Len(link') : k \in 1..Len(link) \/ k = Len(link) + 1
  BY <1>1
<1>3. \A k \in 1..Len(link) : link[k].kind # "job"
  BY DEF Line, Over
<1>4. Offered' = Offered
  BY DEF Offered
<1>5. ASSUME NEW k \in 1..Len(link'), link'[k].kind = "export"
      PROVE  link'[k].value = Offered'[link'[k].var]
  <2>1. k \in 1..Len(link)
    BY <1>1, <1>2, <1>5
  <2> QED
    BY <1>1, <1>4, <1>5, <2>1 DEF Line
<1>6. \A k \in 1..Len(link') : link'[k].kind = "job" => k = Len(link') /\ link'[k].id = job
  BY <1>1, <1>2, <1>3
<1>7. ASSUME NEW v \in InputNames PROVE Sent(v)'
  <2>1. Sent(v)
    BY DEF Line
  <2>2. \A k \in 1..Len(link) : k \in 1..Len(link')
    BY <1>1
  <2> QED
    BY <1>1, <1>4, <2>1, <2>2 DEF Sent
<1> QED
  BY <1>5, <1>6, <1>7 DEF Line, Working

\* The device takes an input off the line.
LEMMA LineDelivered ==
  ASSUME TypeOK, Line, TakeExport
  PROVE  Line'
<1>1. /\ link # <<>> /\ link[1] \in Exports /\ link' = Tail(link)
      /\ Len(link) \in Nat \ {0} /\ Len(link') = Len(link) - 1
      /\ \A k \in 1..Len(link') : link'[k] = link[k + 1]
      /\ device' = [device EXCEPT !.in[link[1].var] = link[1].value]
      /\ pc' = pc /\ i' = i /\ job' = job /\ Offered' = Offered
  BY FirstMessage DEF TakeExport, TypeOK, hostVars, dataVars, Offered
<1>2. link[1].kind = "export" /\ link[1].var \in InputNames /\ link[1].value = Offered[link[1].var]
  BY <1>1 DEF Line, Exports
<1>3. /\ device'.in[link[1].var] = link[1].value
      /\ \A v \in InputNames : v # link[1].var => device'.in[v] = device.in[v]
  BY <1>1, <1>2 DEF TypeOK
<1>4. ASSUME NEW v \in InputNames, Sent(v) PROVE Sent(v)'
  <2>1. CASE v = link[1].var
    BY <1>1, <1>2, <1>3, <2>1 DEF Sent
  <2>2. CASE v # link[1].var
    <3>1. CASE device.in[v] = Offered[v]
      BY <1>1, <1>3, <2>2, <3>1 DEF Sent
    <3>2. ASSUME NEW k \in 1..Len(link), link[k].kind = "export", link[k].var = v
          PROVE  Sent(v)'
      <4>1. k # 1
        BY <2>2, <3>2
      <4>2. k - 1 \in 1..Len(link') /\ k = (k - 1) + 1
        BY <1>1, <4>1
      <4>3. link'[k - 1] = link[k]
        BY <1>1, <4>2
      <4> QED
        BY <3>2, <4>2, <4>3 DEF Sent
    <3> QED
      BY <1>4, <3>1, <3>2 DEF Sent
  <2> QED
    BY <2>1, <2>2
<1>5. \A k \in 1..Len(link') : k + 1 \in 1..Len(link) /\ link'[k] = link[k + 1]
  BY <1>1
<1>6. \A k \in 1..Len(link') : link'[k].kind = "export" => link'[k].value = Offered'[link'[k].var]
  BY <1>1, <1>5 DEF Line
<1>7. \A k \in 1..Len(link') :
          link'[k].kind = "job" => /\ k = Len(link') /\ link'[k].id = job'
                                   /\ \A v \in InputNames : Sent(v)'
                                   /\ pc' \in {"import", "loopImport"} \cup Over
  <2> SUFFICES ASSUME NEW k \in 1..Len(link'), link'[k].kind = "job"
               PROVE  /\ k = Len(link') /\ link'[k].id = job'
                      /\ \A v \in InputNames : Sent(v)'
                      /\ pc' \in {"import", "loopImport"} \cup Over
    OBVIOUS
  <2>1. k + 1 \in 1..Len(link) /\ link[k + 1].kind = "job"
    BY <1>5
  <2>2. /\ k + 1 = Len(link) /\ link[k + 1].id = job /\ \A v \in InputNames : Sent(v)
        /\ pc \in {"import", "loopImport"} \cup Over
    BY <2>1 DEF Line
  <2> QED
    BY <1>1, <1>4, <1>5, <2>2
<1>8. pc' \in {"export", "loop"} => \A k \in 1..Len(Inputs) : k < i' => Sent(Inputs[k])'
  BY <1>1, <1>4, Bindings DEF Line
<1>9. pc' \in {"schedule", "loopSchedule"} => \A v \in InputNames : Sent(v)'
  BY <1>1, <1>4 DEF Line
<1>10. pc' = "loop" => \A k \in 1..Len(link') : \E m \in 1..Len(Inputs) : m < i' /\ link'[k].var = Inputs[m]
  BY <1>1, <1>5 DEF Line
<1> QED
  BY <1>1, <1>6, <1>7, <1>8, <1>9, <1>10 DEF Line

LEMMA LineStep ==
  ASSUME TypeOK, Control, Outputs # <<>>, Line, ignored = FALSE, ignored' = FALSE, [Next]_vars
  PROVE  Line'
<1> USE DEF dataVars, linkVars, uvmVars, hostVars, Working, Over
<1>1. CASE StartRun
  <2>1. link' = <<>> /\ pc' \in {"plain", "throw"}
    BY <1>1 DEF StartRun
  <2> QED
    BY <2>1, LineEmpty, Bindings
<1>2. CASE Reports
  BY <1>2, LineLeft DEF Reports
<1>3. CASE Unwind
  BY <1>3, LineLeft DEF Unwind
<1>4. CASE PlainBody
  <2>1. /\ pc \in Working \cup {"synchronize"} /\ link' = link
        /\ pc' \notin {"schedule", "loopSchedule"} /\ (pc' \in {"export", "loop"} => i' = 1)
    BY <1>4 DEF PlainBody
  <2> QED
    BY <2>1, LineEmpty, Bindings DEF Line
<1>5. CASE EnterLoop
  <2>1. /\ pc \in Working \cup {"synchronize"} /\ link' = link
        /\ pc' \notin {"schedule", "loopSchedule"} /\ (pc' \in {"export", "loop"} => i' = 1)
    BY <1>5 DEF EnterLoop
  <2> QED
    BY <2>1, LineEmpty, Bindings DEF Line
<1>6. CASE Delay
  <2>1. /\ pc \in Working \cup {"synchronize"} /\ link' = link
        /\ pc' \notin {"schedule", "loopSchedule"} /\ (pc' \in {"export", "loop"} => i' = 1)
    BY <1>6 DEF Delay
  <2> QED
    BY <2>1, LineEmpty, Bindings DEF Line
<1>7. CASE Return
  <2>1. /\ pc \in Working \cup {"synchronize"} /\ link' = link
        /\ pc' \notin {"schedule", "loopSchedule"} /\ (pc' \in {"export", "loop"} => i' = 1)
    BY <1>7 DEF Return
  <2> QED
    BY <2>1, LineEmpty, Bindings DEF Line
<1>8. CASE RunTest
  <2>1. /\ pc \in Working \cup {"synchronize"} /\ link' = link
        /\ pc' \notin {"schedule", "loopSchedule"} /\ (pc' \in {"export", "loop"} => i' = 1)
    BY <1>8 DEF RunTest
  <2> QED
    BY <2>1, LineEmpty, Bindings DEF Line
<1>9. CASE PhaseCall
  <2>1. /\ pc \in Working \cup {"synchronize"} /\ link' = link
        /\ pc' \notin {"schedule", "loopSchedule"} /\ (pc' \in {"export", "loop"} => i' = 1)
    BY <1>9 DEF PhaseCall
  <2> QED
    BY <2>1, LineEmpty, Bindings DEF Line
<1>10. CASE PhaseEnd
  <2>1. /\ pc \in Working \cup {"synchronize"} /\ link' = link
        /\ pc' \notin {"schedule", "loopSchedule"} /\ (pc' \in {"export", "loop"} => i' = 1)
    BY <1>10 DEF PhaseEnd
  <2> QED
    BY <2>1, LineEmpty, Bindings DEF Line
<1>11. CASE Create
  <2>1. /\ pc \in Working \cup {"synchronize"} /\ link' = link
        /\ pc' \notin {"schedule", "loopSchedule"} /\ (pc' \in {"export", "loop"} => i' = 1)
    BY <1>11 DEF Create
  <2> QED
    BY <2>1, LineEmpty, Bindings DEF Line
<1>12. CASE PhaseBody
  <2>1. /\ pc \in Working \cup {"synchronize"} /\ link' = link
        /\ pc' \notin {"schedule", "loopSchedule"} /\ (pc' \in {"export", "loop"} => i' = 1)
    BY <1>12 DEF PhaseBody
  <2> QED
    BY <2>1, LineEmpty, Bindings DEF Line
<1>13. CASE PhaseReturn
  <2>1. /\ pc \in Working \cup {"synchronize"} /\ link' = link
        /\ pc' \notin {"schedule", "loopSchedule"} /\ (pc' \in {"export", "loop"} => i' = 1)
    BY <1>13 DEF PhaseReturn
  <2> QED
    BY <2>1, LineEmpty, Bindings DEF Line
<1>14. CASE Delta
  <2>1. /\ pc \in Working \cup {"synchronize"} /\ link' = link
        /\ pc' \notin {"schedule", "loopSchedule"} /\ (pc' \in {"export", "loop"} => i' = 1)
    BY <1>14 DEF Delta
  <2> QED
    BY <2>1, LineEmpty, Bindings DEF Line
<1>15. CASE ProcessBody
  <2>1. /\ pc \in Working \cup {"synchronize"} /\ link' = link
        /\ pc' \notin {"schedule", "loopSchedule"} /\ (pc' \in {"export", "loop"} => i' = 1)
    BY <1>15 DEF ProcessBody
  <2> QED
    BY <2>1, LineEmpty, Bindings DEF Line
<1>16. CASE DeltaEnd
  <2>1. /\ pc \in Working \cup {"synchronize"} /\ link' = link
        /\ pc' \notin {"schedule", "loopSchedule"} /\ (pc' \in {"export", "loop"} => i' = 1)
    BY <1>16 DEF DeltaEnd
  <2> QED
    BY <2>1, LineEmpty, Bindings DEF Line
<1>17. CASE ProcessThrows
  <2>1. /\ pc \in Working \cup {"synchronize"} /\ link' = link
        /\ pc' \notin {"schedule", "loopSchedule"} /\ (pc' \in {"export", "loop"} => i' = 1)
    BY <1>17 DEF ProcessThrows
  <2> QED
    BY <2>1, LineEmpty, Bindings DEF Line
<1>18. CASE DrainEnd
  <2>1. /\ pc \in Working \cup {"synchronize"} /\ link' = link
        /\ pc' \notin {"schedule", "loopSchedule"} /\ (pc' \in {"export", "loop"} => i' = 1)
    BY <1>18 DEF DrainEnd
  <2> QED
    BY <2>1, LineEmpty, Bindings DEF Line
<1>19. CASE Advance
  <2>1. /\ pc \in Working \cup {"synchronize"} /\ link' = link
        /\ pc' \notin {"schedule", "loopSchedule"} /\ (pc' \in {"export", "loop"} => i' = 1)
    BY <1>19 DEF Advance
  <2> QED
    BY <2>1, LineEmpty, Bindings DEF Line
<1>20. CASE TickHigh
  <2>1. /\ pc \in Working \cup {"synchronize"} /\ link' = link
        /\ pc' \notin {"schedule", "loopSchedule"} /\ (pc' \in {"export", "loop"} => i' = 1)
    BY <1>20 DEF TickHigh
  <2> QED
    BY <2>1, LineEmpty, Bindings DEF Line
<1>21. CASE TickClocked
  <2>1. /\ pc \in Working \cup {"synchronize"} /\ link' = link
        /\ pc' \notin {"schedule", "loopSchedule"} /\ (pc' \in {"export", "loop"} => i' = 1)
    BY <1>21 DEF TickClocked
  <2> QED
    BY <2>1, LineEmpty, Bindings DEF Line
<1>22. CASE Combinational
  <2>1. /\ pc \in Working \cup {"synchronize"} /\ link' = link
        /\ pc' \notin {"schedule", "loopSchedule"} /\ (pc' \in {"export", "loop"} => i' = 1)
    BY <1>22 DEF Combinational
  <2> QED
    BY <2>1, LineEmpty, Bindings DEF Line
<1>23. CASE ExportInput
  <2>1. i \in 1..Len(Inputs) /\ Inputs[i] \in InputNames /\ storage[Inputs[i]] \in Levels
    BY <1>23, Bindings DEF ExportInput, TypeOK, Names
  <2>3. ~loop /\ ~loop'
    BY <1>23 DEF ExportInput, Control, Exchanging
  <2>2. Offered' = Offered /\ Offered'[Inputs[i]] = storage[Inputs[i]]
    BY <1>23, <2>1, <2>3 DEF ExportInput, Offered
  <2> QED
    BY <1>23, <2>1, <2>2, LineExported DEF ExportInput
<1>24. CASE TakeJob
  BY <1>24, LineTaken DEF TakeJob
<1>25. CASE Schedule
  BY <1>25, LinePosted DEF Schedule
<1>26. CASE ImportOutput
  BY <1>26, LineEmpty, Bindings DEF ImportOutput, Answered
<1>27. CASE SynchronizeEnd
  <2>1. pc = "import" /\ i > 1 /\ link' = link /\ pc' \in {"plain", "high", "clocked"}
    BY <1>27, Bindings, EmptySeq, BindingsAssumption DEF SynchronizeEnd, TypeOK
  <2> QED
    BY <2>1, LineEmpty, Bindings DEF Line
<1>28. CASE LoopExport
  <2>1. /\ i \in 1..Len(Inputs) /\ Inputs[i] \in InputNames
        /\ pc = "loop" /\ pc' = pc /\ i' = i + 1 /\ loop' = loop /\ device' = device
    BY <1>28, Bindings DEF LoopExport, TypeOK
  <2>5. loop
    BY <2>1 DEF Control, Looping
  <2>2. PICK x \in Levels : line' = [line EXCEPT ![Inputs[i]] = x] /\ Export(Inputs[i], x)
    BY <1>28 DEF LoopExport
  <2>3. /\ Offered'[Inputs[i]] = x
        /\ \A v \in InputNames : v # Inputs[i] => Offered'[v] = Offered[v]
    BY <2>1, <2>2, <2>5 DEF Offered, TypeOK
  <2>4. ASSUME NEW k \in 1..Len(link) PROVE Offered'[link[k].var] = Offered[link[k].var]
    <3>1. PICK m \in 1..Len(Inputs) : m < i /\ link[k].var = Inputs[m]
      BY <2>1 DEF Line
    <3>2. Inputs[m] # Inputs[i] /\ Inputs[m] \in InputNames
      BY <2>1, <3>1, BindingsAssumption, Bindings
    <3> QED
      BY <2>3, <3>1, <3>2
  <2> QED
    BY <2>1, <2>2, <2>3, <2>4, LineExported
<1>29. CASE EndOfInput
  BY <1>29, LineLeft DEF EndOfInput
<1>30. CASE LoopTakeJob
  BY <1>30, LineTaken DEF LoopTakeJob
<1>31. CASE LoopSchedule
  BY <1>31, LinePosted DEF LoopSchedule
<1>32. CASE LoopImport
  <2>1. pc' = "loopImport" /\ link' = link /\ link = <<>>
    BY <1>32 DEF LoopImport, Answered
  <2> QED
    BY <2>1, LineEmpty, Bindings
<1>33. CASE LoopAgain
  <2>1. pc = "loopImport" /\ i > 1 /\ link' = link /\ pc' = "loop" /\ i' = 1
    BY <1>33, Bindings, EmptySeq, BindingsAssumption DEF LoopAgain, TypeOK
  <2> QED
    BY <2>1, LineEmpty, Bindings DEF Line
<1>34. CASE TransportError
  BY <1>34, LineLeft DEF TransportError
<1>35. CASE TakeExport
  BY <1>35, LineDelivered
<1>36. CASE Evaluate
  <2>1. /\ Len(link') = Len(link) - 1 /\ Len(link) \in Nat \ {0} /\ link[1].kind = "job"
        /\ link' \in Seq(Exports \cup JobMessages) /\ pc' = pc
    BY <1>36, FirstMessage DEF Evaluate, TypeOK
  <2>2. 1 = Len(link) /\ pc \in {"import", "loopImport"} \cup Over
    BY <2>1 DEF Line
  <2>3. link' = <<>>
    <3>1. Len(link') = Len(link) - 1 /\ Len(link) = 1
      BY <2>1, <2>2, Zenon
    <3>2. Len(link') = 0
      BY <3>1
    <3> QED
      BY <2>1, <3>2, EmptySeq
  <2> QED
    BY <2>1, <2>2, <2>3, LineEmpty, Bindings DEF Over
<1>37. CASE UNCHANGED vars
  <2>1. \A v : Sent(v)' = Sent(v) /\ Offered' = Offered
    BY <1>37 DEF vars, Sent, Offered
  <2> QED
    BY <1>37, <2>1 DEF vars, Line
<1> QED
  BY <1>1, <1>2, <1>3, <1>4, <1>5, <1>6, <1>7, <1>8, <1>9, <1>10, <1>11,
     <1>12, <1>13, <1>14, <1>15, <1>16, <1>17, <1>18, <1>19, <1>20, <1>21,
     <1>22, <1>23, <1>24, <1>25, <1>26, <1>27, <1>28, <1>29, <1>30, <1>31,
     <1>32, <1>33, <1>34, <1>35, <1>36, <1>37 DEF Next, HostStep, Device

-----------------------------------------------------------------------------
(***************************************************************************)
(* The exchange: what the host holds of the outputs.  Its own code never   *)
(* touches them.                                                           *)
(***************************************************************************)
LEMMA OutputsCompute ==
  ASSUME TypeOK, NEW by, Compute(by)
  PROVE  \A o \in OutputNames : storage'[o] = storage[o]
<1>1. PICK v \in Free, x \in Levels : storage' = Assigned(v, x) \/ storage' = storage
  BY DEF Compute
<1>2. v \notin OutputNames
  BY BindingsAssumption DEF Free
<1> QED
  BY <1>1, <1>2 DEF Assigned, TypeOK, Names

LEMMA OutputsFlush ==
  ASSUME TypeOK, NEW stores \in Seq(Stores)
  PROVE  \A o \in OutputNames : FlushInto(storage, stores)[o] = storage[o]
<1> SUFFICES ASSUME NEW o \in OutputNames
             PROVE  FlushInto(storage, stores)[o] = storage[o]
  OBVIOUS
<1>1. ASSUME NEW k \in 1..Len(stores) PROVE stores[k].var # o
  <2>1. stores[k] \in Stores
    BY ElementOfSeq
  <2> QED
    BY <2>1, BindingsAssumption DEF Stores, Free
<1>2. {k \in 1..Len(stores) : stores[k].var = o /\ stores[k].run = runs} = {}
  BY <1>1
<1> QED
  BY <1>2 DEF FlushInto, Names

LEMMA OutputsClocks ==
  ASSUME TypeOK, NEW x
  PROVE  \A o \in OutputNames : ClocksAt(x)[o] = storage[o]
  BY BindingsAssumption, ClocksAssumption DEF ClocksAt, Names

LEMMA OutputsClocked ==
  ASSUME TypeOK, TickClocked
  PROVE  \A o \in OutputNames : storage'[o] = storage[o]
<1>1. CASE UNCHANGED dataVars
  BY <1>1 DEF dataVars
<1>2. ASSUME NEW written \in SUBSET Free, NEW value \in [written -> Levels],
             storage' = [v \in Names |-> IF v \in written THEN value[v] ELSE FlushInto(storage, nba)[v]],
             NEW o \in OutputNames
      PROVE  storage'[o] = storage[o]
  <2>1. o \in Names /\ o \notin written
    BY BindingsAssumption DEF Free, Names
  <2>2. FlushInto(storage, nba)[o] = storage[o]
    BY OutputsFlush DEF TypeOK
  <2> QED
    BY <1>2, <2>1, <2>2
<1> QED
  BY <1>1, <1>2 DEF TickClocked

\* The host computes between two exchanges.
LEMMA HeldKept ==
  ASSUME Held, UNCHANGED <<device, job>>,
         \A o \in OutputNames : storage'[o] = storage[o],
         pc \in Working \cup {"synchronize"}, pc' \notin {"schedule", "import"}
  PROVE  Held'
  BY DEF Held, Working

LEMMA HeldOver ==
  ASSUME pc' \in Over \cup Looping
  PROVE  Held'
  BY DEF Held, Over, Looping, Working

LEMMA HeldImported ==
  ASSUME TypeOK, Held, ImportOutput
  PROVE  Held'
<1>1. /\ pc = "import" /\ pc' = "import" /\ i \in 1..Len(Outputs) /\ i' = i + 1 /\ link = <<>>
      /\ link' = link /\ device' = device /\ job' = job /\ i \in Nat
      /\ storage' = [storage EXCEPT ![Outputs[i]] = device.out[Outputs[i]]]
  BY Bindings DEF ImportOutput, Answered, NextBinding, TypeOK, linkVars
<1>2. ASSUME NEW k \in 1..Len(Outputs), k < i + 1
      PROVE  storage'[Outputs[k]] = device.out[Outputs[k]]
  <2>1. Outputs[k] \in Names
    BY Bindings DEF Names
  <2>2. CASE Outputs[k] = Outputs[i]
    BY <1>1, <2>1, <2>2 DEF TypeOK
  <2>3. CASE Outputs[k] # Outputs[i]
    <3>1. k < i
      BY <1>1, <1>2, <2>3
    <3> QED
      BY <1>1, <2>1, <2>3, <3>1 DEF Held, TypeOK
  <2> QED
    BY <2>2, <2>3
<1> QED
  BY <1>1, <1>2 DEF Held, Working

LEMMA HeldReturned ==
  ASSUME TypeOK, Outputs # <<>>, Line, Held, SynchronizeEnd
  PROVE  Held'
<1>1. /\ pc = "import" /\ i > Len(Outputs) /\ link' = link /\ device' = device /\ job' = job
      /\ storage' = storage /\ pc' \in {"plain", "high", "clocked"} /\ i \in Nat
  BY DEF SynchronizeEnd, TypeOK, linkVars, dataVars
<1>2. Len(Outputs) \in Nat \ {0}
  BY Bindings, EmptySeq, BindingsAssumption
<1>3. link = <<>>
  BY <1>1, <1>2 DEF Line
<1>4. device.done = job
  BY <1>1, <1>3 DEF Held
<1>5. ASSUME NEW o \in OutputNames PROVE storage[o] = device.out[o]
  <2>1. PICK k \in 1..Len(Outputs) : o = Outputs[k]
    BY Bindings
  <2>2. k < i
    BY <1>1, <1>2
  <2> QED
    BY <1>1, <2>1, <2>2 DEF Held
<1> QED
  BY <1>1, <1>4, <1>5 DEF Held

LEMMA HeldDelivered ==
  ASSUME TypeOK, Line, Held, TakeExport
  PROVE  Held'
<1>1. /\ link # <<>> /\ link[1].kind = "export" /\ link' = Tail(link)
      /\ Len(link) \in Nat \ {0} /\ Len(link') = Len(link) - 1
      /\ \A k \in 1..Len(link') : link'[k] = link[k + 1]
      /\ link' \in Seq(Exports \cup JobMessages)
      /\ device' = [device EXCEPT !.in[link[1].var] = link[1].value]
      /\ pc' = pc /\ i' = i /\ job' = job /\ storage' = storage
  BY FirstMessage DEF TakeExport, TypeOK, hostVars, dataVars
<1>2. device'.done = device.done /\ device'.out = device.out
  BY <1>1 DEF TypeOK
<1>3. pc \notin Working \cup {"synchronize"}
  BY <1>1 DEF Line
<1>4. ASSUME pc = "import" PROVE link' # <<>> /\ device.done < job /\ link'[Len(link')].kind = "job"
  <2>1. device.done < job /\ link[Len(link)].kind = "job"
    BY <1>1, <1>4 DEF Held
  <2>2. Len(link) # 1
    BY <1>1, <2>1
  <2>3. Len(link') \in Nat \ {0} /\ Len(link') + 1 = Len(link)
    BY <1>1, <2>2
  <2>4. link'[Len(link')] = link[Len(link)]
    BY <1>1, <2>3
  <2> QED
    BY <1>1, <2>1, <2>3, <2>4, EmptySeq
<1> QED
  BY <1>1, <1>2, <1>3, <1>4 DEF Held

LEMMA HeadJob ==
  ASSUME TypeOK, Line, Evaluate
  PROVE  /\ link # <<>> /\ Len(link) = 1 /\ link' = <<>> /\ pc \in {"import", "loopImport"} \cup Over
         /\ link[1].kind = "job" /\ link[1].id = job
         /\ \A v \in InputNames : device.in[v] = Offered[v]
<1>1. /\ Len(link') = Len(link) - 1 /\ Len(link) \in Nat \ {0} /\ link[1].kind = "job"
      /\ link' \in Seq(Exports \cup JobMessages) /\ link # <<>>
  BY FirstMessage DEF Evaluate, TypeOK
<1>2. /\ 1 = Len(link) /\ pc \in {"import", "loopImport"} \cup Over /\ link[1].id = job
      /\ \A v \in InputNames : Sent(v)
  BY <1>1 DEF Line
<1>3. link' = <<>>
  <2>1. Len(link') = Len(link) - 1 /\ Len(link) = 1
    BY <1>1, <1>2, Zenon
  <2>2. Len(link') = 0
    BY <2>1
  <2> QED
    BY <1>1, <2>2, EmptySeq
<1>4. ASSUME NEW v \in InputNames PROVE device.in[v] = Offered[v]
  <2>1. Len(link) = 1
    BY <1>2, Zenon
  <2>2. \A k \in 1..Len(link) : k = 1
    BY <2>1
  <2> QED
    BY <1>1, <1>2, <2>2 DEF Sent
<1> QED
  BY <1>1, <1>2, <1>3, <1>4

LEMMA HeldEvaluated ==
  ASSUME TypeOK, Line, Held, Evaluate
  PROVE  Held'
<1>1. PICK out \in Results :
          device' = [device EXCEPT !.out = out, !.done = Head(link).id, !.asked = device.in]
  BY DEF Evaluate
<1>2. device'.done = job
  BY <1>1, HeadJob, FirstMessage DEF TypeOK
<1>3. pc' = pc /\ i' = i /\ job' = job /\ storage' = storage /\ link' = <<>>
  BY HeadJob DEF Evaluate, hostVars, dataVars
<1>4. pc \in {"import", "loopImport"} \cup Over
  BY HeadJob
<1>5. pc = "import" => \A k \in 1..Len(Outputs) : ~ (k < i)
  <2>1. pc = "import" => i <= 1
    BY HeadJob DEF Line, TypeOK
  <2> QED
    BY <2>1, Bindings DEF TypeOK
<1> QED
  BY <1>2, <1>3, <1>4, <1>5 DEF Held, Over, Working

LEMMA HeldStep ==
  ASSUME TypeOK, Control, Outputs # <<>>, ~ignored => Line, Held, [Next]_vars
  PROVE  Held'
<1> USE DEF dataVars, linkVars, uvmVars, hostVars, Working
<1>1. CASE StartRun
  <2>1. /\ device' = [FreshDevice EXCEPT !.done = job] /\ storage' = Zero(Names) /\ job' = job
        /\ pc' \in {"plain", "throw"}
    BY <1>1 DEF StartRun
  <2>2. device'.done = job' /\ device'.out = Zero(OutputNames)
    BY <2>1 DEF FreshDevice
  <2>3. \A o \in OutputNames : storage'[o] = device'.out[o]
    BY <2>1, <2>2 DEF Zero, Names
  <2> QED
    BY <2>1, <2>2, <2>3 DEF Held
<1>2. CASE Reports
  BY <1>2, HeldOver DEF Reports, Over, Looping
<1>3. CASE Unwind
  BY <1>3, HeldOver DEF Unwind, Over, Looping
<1>4. CASE PlainBody
  <2>1. /\ pc \in Working \cup {"synchronize"} /\ pc' \notin {"schedule", "import"}
        /\ UNCHANGED <<device, job>>
    BY <1>4 DEF PlainBody
  <2>2. \A o \in OutputNames : storage'[o] = storage[o]
    BY <1>4, OutputsCompute DEF PlainBody
  <2> QED
    BY <2>1, <2>2, HeldKept
<1>5. CASE EnterLoop
  BY <1>5, HeldOver DEF EnterLoop, Over, Looping
<1>6. CASE Delay
  <2>1. /\ pc \in Working \cup {"synchronize"} /\ pc' \notin {"schedule", "import"}
        /\ UNCHANGED <<device, job>>
    BY <1>6 DEF Delay
  <2>2. \A o \in OutputNames : storage'[o] = storage[o]
    BY <1>6 DEF Delay
  <2> QED
    BY <2>1, <2>2, HeldKept
<1>7. CASE Return
  <2>1. /\ pc \in Working \cup {"synchronize"} /\ pc' \notin {"schedule", "import"}
        /\ UNCHANGED <<device, job>>
    BY <1>7 DEF Return
  <2>2. \A o \in OutputNames : storage'[o] = storage[o]
    BY <1>7 DEF Return
  <2> QED
    BY <2>1, <2>2, HeldKept
<1>8. CASE RunTest
  <2>1. /\ pc \in Working \cup {"synchronize"} /\ pc' \notin {"schedule", "import"}
        /\ UNCHANGED <<device, job>>
    BY <1>8 DEF RunTest
  <2>2. \A o \in OutputNames : storage'[o] = storage[o]
    BY <1>8 DEF RunTest
  <2> QED
    BY <2>1, <2>2, HeldKept
<1>9. CASE PhaseCall
  <2>1. /\ pc \in Working \cup {"synchronize"} /\ pc' \notin {"schedule", "import"}
        /\ UNCHANGED <<device, job>>
    BY <1>9 DEF PhaseCall
  <2>2. \A o \in OutputNames : storage'[o] = storage[o]
    BY <1>9 DEF PhaseCall
  <2> QED
    BY <2>1, <2>2, HeldKept
<1>10. CASE PhaseEnd
  <2>1. /\ pc \in Working \cup {"synchronize"} /\ pc' \notin {"schedule", "import"}
        /\ UNCHANGED <<device, job>>
    BY <1>10 DEF PhaseEnd
  <2>2. \A o \in OutputNames : storage'[o] = storage[o]
    BY <1>10 DEF PhaseEnd
  <2> QED
    BY <2>1, <2>2, HeldKept
<1>11. CASE Create
  <2>1. /\ pc \in Working \cup {"synchronize"} /\ pc' \notin {"schedule", "import"}
        /\ UNCHANGED <<device, job>>
    BY <1>11 DEF Create
  <2>2. \A o \in OutputNames : storage'[o] = storage[o]
    BY <1>11 DEF Create
  <2> QED
    BY <2>1, <2>2, HeldKept
<1>12. CASE PhaseBody
  <2>1. /\ pc \in Working \cup {"synchronize"} /\ pc' \notin {"schedule", "import"}
        /\ UNCHANGED <<device, job>>
    BY <1>12 DEF PhaseBody
  <2>2. \A o \in OutputNames : storage'[o] = storage[o]
    BY <1>12, OutputsCompute DEF PhaseBody
  <2> QED
    BY <2>1, <2>2, HeldKept
<1>13. CASE PhaseReturn
  <2>1. /\ pc \in Working \cup {"synchronize"} /\ pc' \notin {"schedule", "import"}
        /\ UNCHANGED <<device, job>>
    BY <1>13 DEF PhaseReturn
  <2>2. \A o \in OutputNames : storage'[o] = storage[o]
    BY <1>13 DEF PhaseReturn
  <2> QED
    BY <2>1, <2>2, HeldKept
<1>14. CASE Delta
  <2>1. /\ pc \in Working \cup {"synchronize"} /\ pc' \notin {"schedule", "import"}
        /\ UNCHANGED <<device, job>>
    BY <1>14 DEF Delta
  <2>2. \A o \in OutputNames : storage'[o] = storage[o]
    BY <1>14 DEF Delta
  <2> QED
    BY <2>1, <2>2, HeldKept
<1>15. CASE ProcessBody
  <2>1. /\ pc \in Working \cup {"synchronize"} /\ pc' \notin {"schedule", "import"}
        /\ UNCHANGED <<device, job>>
    BY <1>15 DEF ProcessBody
  <2>2. \A o \in OutputNames : storage'[o] = storage[o]
    BY <1>15, OutputsCompute DEF ProcessBody
  <2> QED
    BY <2>1, <2>2, HeldKept
<1>16. CASE DeltaEnd
  <2>1. /\ pc \in Working \cup {"synchronize"} /\ pc' \notin {"schedule", "import"}
        /\ UNCHANGED <<device, job>>
    BY <1>16 DEF DeltaEnd, TypeOK
  <2>2. \A o \in OutputNames : storage'[o] = storage[o]
    BY <1>16, OutputsFlush DEF DeltaEnd, TypeOK
  <2> QED
    BY <2>1, <2>2, HeldKept
<1>17. CASE ProcessThrows
  <2>1. /\ pc \in Working \cup {"synchronize"} /\ pc' \notin {"schedule", "import"}
        /\ UNCHANGED <<device, job>>
    BY <1>17 DEF ProcessThrows
  <2>2. \A o \in OutputNames : storage'[o] = storage[o]
    BY <1>17 DEF ProcessThrows
  <2> QED
    BY <2>1, <2>2, HeldKept
<1>18. CASE DrainEnd
  <2>1. /\ pc \in Working \cup {"synchronize"} /\ pc' \notin {"schedule", "import"}
        /\ UNCHANGED <<device, job>>
    BY <1>18 DEF DrainEnd
  <2>2. \A o \in OutputNames : storage'[o] = storage[o]
    BY <1>18 DEF DrainEnd
  <2> QED
    BY <2>1, <2>2, HeldKept
<1>19. CASE Advance
  <2>1. /\ pc \in Working \cup {"synchronize"} /\ pc' \notin {"schedule", "import"}
        /\ UNCHANGED <<device, job>>
    BY <1>19 DEF Advance
  <2>2. \A o \in OutputNames : storage'[o] = storage[o]
    BY <1>19, OutputsClocks DEF Advance
  <2> QED
    BY <2>1, <2>2, HeldKept
<1>20. CASE TickHigh
  <2>1. /\ pc \in Working \cup {"synchronize"} /\ pc' \notin {"schedule", "import"}
        /\ UNCHANGED <<device, job>>
    BY <1>20 DEF TickHigh
  <2>2. \A o \in OutputNames : storage'[o] = storage[o]
    BY <1>20, OutputsClocks DEF TickHigh
  <2> QED
    BY <2>1, <2>2, HeldKept
<1>21. CASE TickClocked
  <2>1. /\ pc \in Working \cup {"synchronize"} /\ pc' \notin {"schedule", "import"}
        /\ UNCHANGED <<device, job>>
    BY <1>21 DEF TickClocked
  <2>2. \A o \in OutputNames : storage'[o] = storage[o]
    BY <1>21, OutputsClocked
  <2> QED
    BY <2>1, <2>2, HeldKept
<1>22. CASE Combinational
  <2>1. /\ pc \in Working \cup {"synchronize"} /\ pc' \notin {"schedule", "import"}
        /\ UNCHANGED <<device, job>>
    BY <1>22 DEF Combinational
  <2>2. \A o \in OutputNames : storage'[o] = storage[o]
    BY <1>22, BindingsAssumption, DerivedAssumption DEF Combinational, Names
  <2> QED
    BY <2>1, <2>2, HeldKept
<1>23. CASE ExportInput
  BY <1>23 DEF ExportInput, Held
<1>24. CASE TakeJob
  BY <1>24 DEF TakeJob, Held, TypeOK
<1>25. CASE Schedule
  <2>1. /\ link' # <<>> /\ link'[Len(link')].kind = "job"
        /\ \A k \in 1..Len(Outputs) : ~ (k < 1)
    BY <1>25, PostedType, Bindings DEF Schedule
  <2> QED
    BY <1>25, <2>1 DEF Schedule, Held
<1>26. CASE ImportOutput
  BY <1>26, HeldImported
<1>27. CASE SynchronizeEnd
  <2>1. Line
    BY <1>27 DEF SynchronizeEnd, Control, Exchanging
  <2> QED
    BY <1>27, <2>1, HeldReturned
<1>28. CASE LoopExport
  BY <1>28, HeldOver DEF LoopExport, Over, Looping
<1>29. CASE EndOfInput
  BY <1>29, HeldOver DEF EndOfInput, Over, Looping
<1>30. CASE LoopTakeJob
  BY <1>30, HeldOver DEF LoopTakeJob, Over, Looping
<1>31. CASE LoopSchedule
  BY <1>31, HeldOver DEF LoopSchedule, Over, Looping
<1>32. CASE LoopImport
  BY <1>32, HeldOver DEF LoopImport, Over, Looping
<1>33. CASE LoopAgain
  BY <1>33, HeldOver DEF LoopAgain, Over, Looping
<1>34. CASE TransportError
  BY <1>34, HeldOver DEF TransportError, Over, Looping
<1>35. CASE TakeExport
  <2>1. CASE ignored
    <3>1. pc' \notin Exchanging \cup Working
      BY <1>35, <2>1 DEF TakeExport, Control
    <3> QED
      BY <3>1 DEF Held, Exchanging
  <2>2. CASE ~ignored
    BY <1>35, <2>2, HeldDelivered
  <2> QED
    BY <2>1, <2>2
<1>36. CASE Evaluate
  <2>1. CASE ignored
    <3>1. pc' \notin Exchanging \cup Working
      BY <1>36, <2>1 DEF Evaluate, Control
    <3> QED
      BY <3>1 DEF Held, Exchanging
  <2>2. CASE ~ignored
    BY <1>36, <2>2, HeldEvaluated
  <2> QED
    BY <2>1, <2>2
<1>37. CASE UNCHANGED vars
  BY <1>37 DEF vars, Held
<1> QED
  BY <1>1, <1>2, <1>3, <1>4, <1>5, <1>6, <1>7, <1>8, <1>9, <1>10, <1>11,
     <1>12, <1>13, <1>14, <1>15, <1>16, <1>17, <1>18, <1>19, <1>20, <1>21,
     <1>22, <1>23, <1>24, <1>25, <1>26, <1>27, <1>28, <1>29, <1>30, <1>31,
     <1>32, <1>33, <1>34, <1>35, <1>36, <1>37 DEF Next, HostStep, Device

-----------------------------------------------------------------------------
(***************************************************************************)
(* A tick: one rising edge.                                                *)
(***************************************************************************)
LEMMA TwoInARow ==
  ASSUME NEW a, NEW b
  PROVE  Append(<<a>>, b) = <<a, b>>
<1>1. <<a>> \in Seq({a, b}) /\ b \in {a, b} /\ Len(<<a>>) = 1 /\ <<a>>[1] = a
  OBVIOUS
<1>2. /\ Append(<<a>>, b) \in Seq({a, b}) /\ Len(Append(<<a>>, b)) = 2
      /\ Append(<<a>>, b)[1] = a /\ Append(<<a>>, b)[2] = b
  BY <1>1, AppendProperties
<1>3. <<a, b>> \in Seq({a, b}) /\ Len(<<a, b>>) = 2 /\ <<a, b>>[1] = a /\ <<a, b>>[2] = b
  OBVIOUS
<1> DEFINE s == Append(<<a>>, b)
           t == <<a, b>>
<1>4. s \in Seq({a, b}) /\ t \in Seq({a, b}) /\ Len(s) = Len(t)
  BY <1>2, <1>3
<1>5. \A k \in 1..Len(s) : s[k] = t[k]
  BY <1>2, <1>3
<1> HIDE DEF s, t
<1>6. s = t
  BY <1>4, <1>5, SeqEqual
<1> QED
  BY <1>6 DEF s, t

\* A step that is not part of an exchange of a tick.
LEMMA EdgeAway ==
  ASSUME pc' \notin Exchanging \cup {"high", "clocked"} \/ (pc' \in Exchanging /\ ret' = "plain")
  PROVE  Edge'
  BY DEF Edge, Exchanging

\* A step of an exchange that leaves the clocks and what the device has seen.
LEMMA EdgeKept ==
  ASSUME Edge, pc \in Exchanging, pc' \in Exchanging, ret' = ret, samples' = samples,
         Asking' = Asking, \A v \in Clocks : storage'[v] = storage[v]
  PROVE  Edge'
  BY DEF Edge, Level, Exchanging

LEMMA EdgeReturned ==
  ASSUME TypeOK, Line, Outputs # <<>>, Edge, SynchronizeEnd
  PROVE  Edge'
<1>1. /\ pc = "import" /\ i > Len(Outputs) /\ samples' = samples /\ pc' = ret
      /\ ret \in {"plain", "high", "clocked"} /\ i \in Nat
  BY DEF SynchronizeEnd, TypeOK, linkVars
<1>2. Len(Outputs) \in Nat \ {0}
  BY Bindings, EmptySeq, BindingsAssumption
<1>3. link = <<>>
  BY <1>1, <1>2 DEF Line
<1> QED
  BY <1>1, <1>3 DEF Edge, Asking, Exchanging

LEMMA EdgeEvaluated ==
  ASSUME TypeOK, Control, Line, Outputs # <<>>, Edge, Evaluate
  PROVE  Edge'
<1>1. /\ pc' = pc /\ ret' = ret /\ storage' = storage /\ link # <<>> /\ link' = <<>>
      /\ samples' = Append(samples, [v \in Clocks |-> device.in[v]])
      /\ pc \in {"import", "loopImport"} \cup Over
  BY HeadJob DEF Evaluate, hostVars, dataVars
<1>2. CASE pc # "import"
  BY <1>1, <1>2, EdgeAway DEF Over, Exchanging
<1>3. CASE pc = "import"
  <2>1. ~loop
    BY <1>3 DEF Control, Exchanging
  <2>2. \A v \in Clocks : device.in[v] = storage[v]
    BY <2>1, HeadJob, ClocksAssumption DEF Offered
  <2>3. Asking /\ ~Asking'
    BY <1>1, <1>3 DEF Asking
  <2>4. CASE ret = "high"
    <3>1. [v \in Clocks |-> device.in[v]] = Level(0) /\ samples = <<>>
      BY <1>3, <2>2, <2>3, <2>4 DEF Edge, Level, Exchanging
    <3>2. samples' = <<Level(0)>>
      BY <1>1, <3>1
    <3> QED
      BY <1>1, <1>3, <2>3, <2>4, <3>2 DEF Edge, Level, Exchanging
  <2>5. CASE ret = "clocked"
    <3>1. [v \in Clocks |-> device.in[v]] = Level(1) /\ samples = <<Level(0)>>
      BY <1>3, <2>2, <2>3, <2>5 DEF Edge, Level, Exchanging
    <3>2. samples' = <<Level(0), Level(1)>>
      BY <1>1, <3>1, TwoInARow
    <3> QED
      BY <1>1, <1>3, <2>3, <2>5, <3>2 DEF Edge, Level, Exchanging
  <2> QED
    BY <1>1, <1>3, <2>4, <2>5 DEF TypeOK, Edge
<1> QED
  BY <1>2, <1>3

LEMMA EdgeStep ==
  ASSUME TypeOK, Control, Outputs # <<>>, ~ignored => Line, Held, Held', Edge, [Next]_vars
  PROVE  Edge'
<1> USE DEF dataVars, linkVars, uvmVars, hostVars
<1>1. CASE StartRun
  BY <1>1, EdgeAway DEF StartRun, Exchanging
<1>2. CASE Reports
  BY <1>2, EdgeAway DEF Reports, Exchanging
<1>3. CASE Unwind
  BY <1>3, EdgeAway DEF Unwind, Exchanging
<1>4. CASE PlainBody
  BY <1>4, EdgeAway DEF PlainBody, Exchanging
<1>5. CASE EnterLoop
  BY <1>5, EdgeAway DEF EnterLoop, Exchanging
<1>6. CASE Delay
  BY <1>6, EdgeAway DEF Delay, Exchanging
<1>7. CASE Return
  BY <1>7, EdgeAway DEF Return, Exchanging
<1>8. CASE RunTest
  BY <1>8, EdgeAway DEF RunTest, Exchanging
<1>9. CASE PhaseCall
  BY <1>9, EdgeAway DEF PhaseCall, Exchanging
<1>10. CASE PhaseEnd
  BY <1>10, EdgeAway DEF PhaseEnd, Exchanging
<1>11. CASE Create
  BY <1>11, EdgeAway DEF Create, Exchanging
<1>12. CASE PhaseBody
  BY <1>12, EdgeAway DEF PhaseBody, Exchanging
<1>13. CASE PhaseReturn
  BY <1>13, EdgeAway DEF PhaseReturn, Exchanging
<1>14. CASE Delta
  BY <1>14, EdgeAway DEF Delta, Exchanging
<1>15. CASE ProcessBody
  BY <1>15, EdgeAway DEF ProcessBody, Exchanging
<1>16. CASE DeltaEnd
  BY <1>16, EdgeAway DEF DeltaEnd, Exchanging
<1>17. CASE ProcessThrows
  BY <1>17, EdgeAway DEF ProcessThrows, Exchanging
<1>18. CASE DrainEnd
  BY <1>18, EdgeAway DEF DrainEnd, Exchanging
<1>19. CASE Advance
  <2>1. /\ pc' = "synchronize" /\ ret' = "high" /\ samples' = <<>> /\ \A v \in Clocks : storage'[v] = 0
    BY <1>19, ClocksAssumption DEF Advance, ClocksAt, Names
  <2> QED
    BY <2>1 DEF Edge, Asking, Exchanging
<1>20. CASE TickHigh
  <2>1. /\ pc' = "synchronize" /\ ret' = "clocked" /\ \A v \in Clocks : storage'[v] = 1
        /\ samples' = <<Level(0)>>
    BY <1>20, ClocksAssumption DEF TickHigh, ClocksAt, Names, Edge, Level
  <2> QED
    BY <2>1 DEF Edge, Asking, Exchanging, Level
<1>21. CASE TickClocked
  BY <1>21, EdgeAway DEF TickClocked, Exchanging
<1>22. CASE Combinational
  <2>1. /\ pc \in Exchanging /\ pc' \in Exchanging /\ ret' = ret /\ samples' = samples
    BY <1>22 DEF Combinational, Exchanging
  <2>2. Asking' = Asking
    BY <1>22 DEF Combinational, Asking
  <2>3. \A v \in Clocks : storage'[v] = storage[v]
    BY <1>22, ClocksAssumption, DerivedAssumption DEF Combinational, Names, TypeOK
  <2> QED
    BY <2>1, <2>2, <2>3, EdgeKept
<1>23. CASE ExportInput
  <2>1. /\ pc \in Exchanging /\ pc' \in Exchanging /\ ret' = ret /\ samples' = samples
    BY <1>23 DEF ExportInput, Exchanging
  <2>2. Asking' = Asking
    BY <1>23 DEF ExportInput, Asking
  <2>3. \A v \in Clocks : storage'[v] = storage[v]
    BY <1>23, ClocksAssumption DEF ExportInput, Names, TypeOK
  <2> QED
    BY <2>1, <2>2, <2>3, EdgeKept
<1>24. CASE TakeJob
  <2>1. /\ pc \in Exchanging /\ pc' \in Exchanging /\ ret' = ret /\ samples' = samples
    BY <1>24 DEF TakeJob, Exchanging
  <2>2. Asking' = Asking
    BY <1>24 DEF TakeJob, Asking
  <2>3. \A v \in Clocks : storage'[v] = storage[v]
    BY <1>24, ClocksAssumption DEF TakeJob, Names, TypeOK
  <2> QED
    BY <2>1, <2>2, <2>3, EdgeKept
<1>25. CASE Schedule
  <2>1. /\ pc \in Exchanging /\ pc' \in Exchanging /\ ret' = ret /\ samples' = samples
    BY <1>25 DEF Schedule, Exchanging
  <2>2. Asking' = Asking
    BY <1>25, PostedType DEF Schedule, Asking
  <2>3. \A v \in Clocks : storage'[v] = storage[v]
    BY <1>25, ClocksAssumption DEF Schedule, Names, TypeOK
  <2> QED
    BY <2>1, <2>2, <2>3, EdgeKept
<1>26. CASE ImportOutput
  <2>1. /\ pc \in Exchanging /\ pc' \in Exchanging /\ ret' = ret /\ samples' = samples
    BY <1>26 DEF ImportOutput, Exchanging
  <2>2. Asking' = Asking
    BY <1>26 DEF ImportOutput, Asking
  <2>3. \A v \in Clocks : storage'[v] = storage[v]
    BY <1>26, ClocksAssumption, BindingsAssumption, Bindings DEF ImportOutput, Names, TypeOK
  <2> QED
    BY <2>1, <2>2, <2>3, EdgeKept
<1>27. CASE SynchronizeEnd
  <2>1. Line
    BY <1>27 DEF SynchronizeEnd, Control, Exchanging
  <2> QED
    BY <1>27, <2>1, EdgeReturned
<1>28. CASE LoopExport
  BY <1>28, EdgeAway DEF LoopExport, Exchanging
<1>29. CASE EndOfInput
  BY <1>29, EdgeAway DEF EndOfInput, Exchanging
<1>30. CASE LoopTakeJob
  BY <1>30, EdgeAway DEF LoopTakeJob, Exchanging
<1>31. CASE LoopSchedule
  BY <1>31, EdgeAway DEF LoopSchedule, Exchanging
<1>32. CASE LoopImport
  BY <1>32, EdgeAway DEF LoopImport, Exchanging
<1>33. CASE LoopAgain
  BY <1>33, EdgeAway DEF LoopAgain, Exchanging
<1>34. CASE TransportError
  BY <1>34, EdgeAway DEF TransportError, Exchanging
<1>35. CASE TakeExport
  <2>1. CASE pc \notin Exchanging
    <3>1. pc \notin {"high", "clocked"} \/ ignored
      BY <1>35, <2>1 DEF TakeExport, Line, Working
    <3>2. pc \notin {"high", "clocked"}
      BY <3>1 DEF Control, Working
    <3> QED
      BY <1>35, <2>1, <3>2, EdgeAway DEF TakeExport
  <2>2. CASE pc \in Exchanging
    <3>1. Line
      BY <2>2 DEF Control
    <3>2. /\ pc' = pc /\ ret' = ret /\ samples' = samples /\ storage' = storage /\ link # <<>>
      BY <1>35 DEF TakeExport
    <3>3. pc = "import" => link' # <<>>
      <4>1. device'.done = device.done /\ job' = job /\ device.done \in Nat /\ job \in Nat
        BY <1>35 DEF TakeExport, TypeOK
      <4>2. pc = "import" => device.done < job
        BY <3>2 DEF Held
      <4> QED
        BY <3>2, <4>1, <4>2 DEF Held
    <3>4. Asking' = Asking
      BY <3>2, <3>3 DEF Asking
    <3> QED
      BY <2>2, <3>2, <3>4, EdgeKept
  <2> QED
    BY <2>1, <2>2
<1>36. CASE Evaluate
  <2>1. CASE ignored
    <3>1. pc' \notin Exchanging \cup Working
      BY <1>36, <2>1 DEF Evaluate, Control
    <3> QED
      BY <3>1, EdgeAway DEF Working
  <2>2. CASE ~ignored
    BY <1>36, <2>2, EdgeEvaluated
  <2> QED
    BY <2>1, <2>2
<1>37. CASE UNCHANGED vars
  BY <1>37 DEF vars, Edge, Asking, Level
<1> QED
  BY <1>1, <1>2, <1>3, <1>4, <1>5, <1>6, <1>7, <1>8, <1>9, <1>10, <1>11,
     <1>12, <1>13, <1>14, <1>15, <1>16, <1>17, <1>18, <1>19, <1>20, <1>21,
     <1>22, <1>23, <1>24, <1>25, <1>26, <1>27, <1>28, <1>29, <1>30, <1>31,
     <1>32, <1>33, <1>34, <1>35, <1>36, <1>37 DEF Next, HostStep, Device

-----------------------------------------------------------------------------
(***************************************************************************)
(* Every step of the host and the device is one of the lock-step exchange. *)
(***************************************************************************)
Holding == IF loop \/ device.done = job THEN device.out ELSE [v \in OutputNames |-> storage[v]]

LEMMA OfferedType ==
  ASSUME TypeOK
  PROVE  Offered \in [InputNames -> Levels]
  BY DEF Offered, TypeOK, Names

\* A step that neither answers nor starts a run.
LEMMA WorkStep ==
  ASSUME TypeOK', ignored' \in {ignored, TRUE}, Holding' = Holding, device'.asked = device.asked
  PROVE  Exchange!Work
<1>1. Offered' \in [InputNames -> Levels]
  BY DEF Offered, TypeOK, Names
<1> QED
  BY <1>1 DEF Exchange!Work, Offered, Holding

\* Its outputs are the device's before and after it.
LEMMA HoldingKept ==
  ASSUME device'.out = device.out,
         loop \/ device.done = job, loop' \/ device'.done = job'
  PROVE  Holding' = Holding
  BY DEF Holding

LEMMA LoadStep ==
  ASSUME StartRun
  PROVE  Exchange!Load
<1>1. /\ storage' = Zero(Names) /\ device' = [FreshDevice EXCEPT !.done = job] /\ job' = job
      /\ loop' = FALSE /\ line' = Zero(InputNames) /\ ignored' = FALSE
  BY DEF StartRun
<1>2. Offered' = Zero(InputNames)
  BY <1>1 DEF Offered, Zero, Names
<1>3. device'.done = job' /\ device'.out = Zero(OutputNames) /\ device'.asked = Zero(InputNames)
  BY <1>1 DEF FreshDevice
<1>4. Holding' = Zero(OutputNames)
  BY <1>3 DEF Holding
<1> QED
  BY <1>1, <1>2, <1>3, <1>4 DEF Exchange!Load, Offered, Holding

LEMMA AnswerStep ==
  ASSUME TypeOK, Control, ~ignored => Line, Evaluate
  PROVE  Exchange!Answer
<1>1. PICK out \in Results :
          device' = [device EXCEPT !.out = out, !.done = Head(link).id, !.asked = device.in]
  BY DEF Evaluate
<1>2. /\ device'.out = out /\ device'.done = Head(link).id /\ device'.asked = device.in
      /\ device.in \in [InputNames -> Levels]
  BY <1>1 DEF TypeOK
<1>3. job' = job /\ loop' = loop /\ ignored' = ignored /\ Offered' = Offered
  BY DEF Evaluate, Offered, dataVars
<1>4. CASE ignored
  <2>1. loop
    BY <1>4 DEF Control
  <2>2. Holding' = out
    BY <1>2, <1>3, <2>1 DEF Holding
  <2> QED
    BY <1>2, <1>3, <1>4, <2>2 DEF Exchange!Answer, Offered, Holding
<1>5. CASE ~ignored
  <2>1. Head(link).id = job /\ \A v \in InputNames : device.in[v] = Offered[v]
    BY <1>5, HeadJob, FirstMessage DEF TypeOK
  <2>2. device.in = Offered
    BY <1>2, <2>1, OfferedType
  <2>3. Holding' = out
    BY <1>2, <1>3, <2>1 DEF Holding
  <2> QED
    BY <1>2, <1>3, <2>2, <2>3 DEF Exchange!Answer, Offered, Holding
<1> QED
  BY <1>4, <1>5

LEMMA ExchangeStep ==
  ASSUME TypeOK, TypeOK', Control, ~ignored => Line, Held, [Next]_vars
  PROVE  Exchange!Next
<1> USE DEF dataVars, linkVars, uvmVars, hostVars, Exchange!Next
<1>1. CASE StartRun
  BY <1>1, LoadStep
<1>2. CASE Reports
  <2>1. Holding' = Holding /\ device' = device /\ ignored' \in {ignored, TRUE}
    BY <1>2 DEF Reports, Holding
  <2> QED
    BY <2>1, WorkStep
<1>3. CASE Unwind
  <2>1. Holding' = Holding /\ device' = device /\ ignored' \in {ignored, TRUE}
    BY <1>3 DEF Unwind, Holding
  <2> QED
    BY <2>1, WorkStep
<1>4. CASE PlainBody
  <2>1. device' = device /\ job' = job /\ ignored' = ignored /\ loop' = loop
    BY <1>4 DEF PlainBody
  <2>2. device.done = job
    BY <1>4 DEF PlainBody, Held, Working
  <2> QED
    BY <2>1, <2>2, HoldingKept, WorkStep
<1>5. CASE EnterLoop
  <2>1. device' = device /\ job' = job /\ ignored' = ignored /\ loop'
    BY <1>5 DEF EnterLoop
  <2>2. device.done = job
    BY <1>5 DEF EnterLoop, Held, Working
  <2> QED
    BY <2>1, <2>2, HoldingKept, WorkStep
<1>6. CASE Delay
  <2>1. Holding' = Holding /\ device' = device /\ ignored' \in {ignored, TRUE}
    BY <1>6 DEF Delay, Holding
  <2> QED
    BY <2>1, WorkStep
<1>7. CASE Return
  <2>1. Holding' = Holding /\ device' = device /\ ignored' \in {ignored, TRUE}
    BY <1>7 DEF Return, Holding
  <2> QED
    BY <2>1, WorkStep
<1>8. CASE RunTest
  <2>1. Holding' = Holding /\ device' = device /\ ignored' \in {ignored, TRUE}
    BY <1>8 DEF RunTest, Holding
  <2> QED
    BY <2>1, WorkStep
<1>9. CASE PhaseCall
  <2>1. Holding' = Holding /\ device' = device /\ ignored' \in {ignored, TRUE}
    BY <1>9 DEF PhaseCall, Holding
  <2> QED
    BY <2>1, WorkStep
<1>10. CASE PhaseEnd
  <2>1. Holding' = Holding /\ device' = device /\ ignored' \in {ignored, TRUE}
    BY <1>10 DEF PhaseEnd, Holding
  <2> QED
    BY <2>1, WorkStep
<1>11. CASE Create
  <2>1. Holding' = Holding /\ device' = device /\ ignored' \in {ignored, TRUE}
    BY <1>11 DEF Create, Holding
  <2> QED
    BY <2>1, WorkStep
<1>12. CASE PhaseBody
  <2>1. device' = device /\ job' = job /\ ignored' = ignored /\ loop' = loop
    BY <1>12 DEF PhaseBody
  <2>2. device.done = job
    BY <1>12 DEF PhaseBody, Held, Working
  <2> QED
    BY <2>1, <2>2, HoldingKept, WorkStep
<1>13. CASE PhaseReturn
  <2>1. Holding' = Holding /\ device' = device /\ ignored' \in {ignored, TRUE}
    BY <1>13 DEF PhaseReturn, Holding
  <2> QED
    BY <2>1, WorkStep
<1>14. CASE Delta
  <2>1. Holding' = Holding /\ device' = device /\ ignored' \in {ignored, TRUE}
    BY <1>14 DEF Delta, Holding
  <2> QED
    BY <2>1, WorkStep
<1>15. CASE ProcessBody
  <2>1. device' = device /\ job' = job /\ ignored' = ignored /\ loop' = loop
    BY <1>15 DEF ProcessBody
  <2>2. device.done = job
    BY <1>15 DEF ProcessBody, Held, Working
  <2> QED
    BY <2>1, <2>2, HoldingKept, WorkStep
<1>16. CASE DeltaEnd
  <2>1. device' = device /\ job' = job /\ ignored' = ignored /\ loop' = loop
    BY <1>16 DEF DeltaEnd
  <2>2. device.done = job
    BY <1>16 DEF DeltaEnd, Held, Working
  <2> QED
    BY <2>1, <2>2, HoldingKept, WorkStep
<1>17. CASE ProcessThrows
  <2>1. Holding' = Holding /\ device' = device /\ ignored' \in {ignored, TRUE}
    BY <1>17 DEF ProcessThrows, Holding
  <2> QED
    BY <2>1, WorkStep
<1>18. CASE DrainEnd
  <2>1. Holding' = Holding /\ device' = device /\ ignored' \in {ignored, TRUE}
    BY <1>18 DEF DrainEnd, Holding
  <2> QED
    BY <2>1, WorkStep
<1>19. CASE Advance
  <2>1. device' = device /\ job' = job /\ ignored' = ignored /\ loop' = loop
    BY <1>19 DEF Advance
  <2>2. device.done = job
    BY <1>19 DEF Advance, Held, Working
  <2> QED
    BY <2>1, <2>2, HoldingKept, WorkStep
<1>20. CASE TickHigh
  <2>1. device' = device /\ job' = job /\ ignored' = ignored /\ loop' = loop
    BY <1>20 DEF TickHigh
  <2>2. device.done = job
    BY <1>20 DEF TickHigh, Held, Working
  <2> QED
    BY <2>1, <2>2, HoldingKept, WorkStep
<1>21. CASE TickClocked
  <2>1. device' = device /\ job' = job /\ ignored' = ignored /\ loop' = loop
    BY <1>21 DEF TickClocked
  <2>2. device.done = job
    BY <1>21 DEF TickClocked, Held, Working
  <2> QED
    BY <2>1, <2>2, HoldingKept, WorkStep
<1>22. CASE Combinational
  <2>1. device' = device /\ job' = job /\ ignored' = ignored /\ loop' = loop
    BY <1>22 DEF Combinational
  <2>2. device.done = job
    BY <1>22 DEF Combinational, Held, Working
  <2> QED
    BY <2>1, <2>2, HoldingKept, WorkStep
<1>23. CASE ExportInput
  <2>1. Holding' = Holding /\ device' = device /\ ignored' \in {ignored, TRUE}
    BY <1>23 DEF ExportInput, Holding
  <2> QED
    BY <2>1, WorkStep
<1>24. CASE TakeJob
  <2>1. device' = device /\ job' = job + 1 /\ ignored' = ignored /\ storage' = storage /\ loop' = loop
    BY <1>24 DEF TakeJob
  <2>2. ~loop /\ device.done = job /\ \A o \in OutputNames : storage[o] = device.out[o]
    BY <1>24 DEF TakeJob, Held, Control, Exchanging
  <2>3. Holding = device.out /\ Holding' = [v \in OutputNames |-> storage[v]]
    BY <2>1, <2>2 DEF Holding, TypeOK
  <2>4. device.out \in [OutputNames -> Levels]
    BY DEF TypeOK
  <2>5. Holding' = Holding
    BY <2>2, <2>3, <2>4
  <2> QED
    BY <2>1, <2>5, WorkStep
<1>25. CASE Schedule
  <2>1. Holding' = Holding /\ device' = device /\ ignored' \in {ignored, TRUE}
    BY <1>25 DEF Schedule, Holding
  <2> QED
    BY <2>1, WorkStep
<1>26. CASE ImportOutput
  <2>1. device' = device /\ job' = job /\ ignored' = ignored
    BY <1>26 DEF ImportOutput
  <2>2. device.done = job
    BY <1>26 DEF ImportOutput, Answered, Held
  <2> QED
    BY <2>1, <2>2, HoldingKept, WorkStep
<1>27. CASE SynchronizeEnd
  <2>1. Holding' = Holding /\ device' = device /\ ignored' \in {ignored, TRUE}
    BY <1>27 DEF SynchronizeEnd, Holding
  <2> QED
    BY <2>1, WorkStep
<1>28. CASE LoopExport
  <2>1. device' = device /\ ignored' \in {ignored, TRUE} /\ loop' = loop
    BY <1>28 DEF LoopExport
  <2>2. loop
    BY <1>28 DEF LoopExport, Control, Looping
  <2> QED
    BY <2>1, <2>2, HoldingKept, WorkStep
<1>29. CASE EndOfInput
  <2>1. Holding' = Holding /\ device' = device /\ ignored' \in {ignored, TRUE}
    BY <1>29 DEF EndOfInput, Holding
  <2> QED
    BY <2>1, WorkStep
<1>30. CASE LoopTakeJob
  <2>1. device' = device /\ ignored' \in {ignored, TRUE} /\ loop' = loop
    BY <1>30 DEF LoopTakeJob
  <2>2. loop
    BY <1>30 DEF LoopTakeJob, Control, Looping
  <2> QED
    BY <2>1, <2>2, HoldingKept, WorkStep
<1>31. CASE LoopSchedule
  <2>1. device' = device /\ ignored' \in {ignored, TRUE} /\ loop' = loop
    BY <1>31 DEF LoopSchedule
  <2>2. loop
    BY <1>31 DEF LoopSchedule, Control, Looping
  <2> QED
    BY <2>1, <2>2, HoldingKept, WorkStep
<1>32. CASE LoopImport
  <2>1. device' = device /\ ignored' \in {ignored, TRUE} /\ loop' = loop
    BY <1>32 DEF LoopImport
  <2>2. loop
    BY <1>32 DEF LoopImport, Control, Looping
  <2> QED
    BY <2>1, <2>2, HoldingKept, WorkStep
<1>33. CASE LoopAgain
  <2>1. Holding' = Holding /\ device' = device /\ ignored' \in {ignored, TRUE}
    BY <1>33 DEF LoopAgain, Holding
  <2> QED
    BY <2>1, WorkStep
<1>34. CASE TransportError
  <2>1. Holding' = Holding /\ device' = device /\ ignored' \in {ignored, TRUE}
    BY <1>34 DEF TransportError, Holding
  <2> QED
    BY <2>1, WorkStep
<1>35. CASE TakeExport
  <2>1. /\ device'.out = device.out /\ device'.done = device.done /\ device'.asked = device.asked
        /\ job' = job /\ ignored' = ignored /\ storage' = storage /\ loop' = loop
    BY <1>35 DEF TakeExport, TypeOK
  <2>2. Holding' = Holding
    BY <2>1 DEF Holding
  <2> QED
    BY <2>1, <2>2, WorkStep
<1>36. CASE Evaluate
  BY <1>36, AnswerStep
<1>37. CASE UNCHANGED vars
  <2>1. Holding' = Holding /\ device' = device /\ ignored' \in {ignored, TRUE}
    BY <1>37 DEF vars, Holding
  <2> QED
    BY <2>1, WorkStep
<1> QED
  BY <1>1, <1>2, <1>3, <1>4, <1>5, <1>6, <1>7, <1>8, <1>9, <1>10, <1>11,
     <1>12, <1>13, <1>14, <1>15, <1>16, <1>17, <1>18, <1>19, <1>20, <1>21,
     <1>22, <1>23, <1>24, <1>25, <1>26, <1>27, <1>28, <1>29, <1>30, <1>31,
     <1>32, <1>33, <1>34, <1>35, <1>36, <1>37 DEF Next, HostStep, Device

-----------------------------------------------------------------------------
(***************************************************************************)
(* The inductive invariant, and what follows from it.                      *)
(***************************************************************************)
IInv == TypeOK /\ Control /\ QueueKept /\ StoresStayHome /\ Tree /\ InStep /\ Edge

LEMMA InitIInv == Init => IInv
<1> SUFFICES ASSUME Init PROVE IInv
  OBVIOUS
<1> USE DEF Init
<1>1. TypeOK
  <2>1. storage \in [Names -> Levels] /\ line \in [InputNames -> Levels]
    BY ZeroType
  <2>2. device \in [in : [InputNames -> Levels], out : [OutputNames -> Levels],
                    done : Nat, asked : [InputNames -> Levels]]
    BY ZeroType DEF FreshDevice
  <2>3. pc \in Over
    BY DEF Over
  <2>4. loop \in BOOLEAN /\ ignored \in BOOLEAN
    BY Zenon
  <2>5. /\ link \in Seq(Exports \cup JobMessages) /\ nba \in Seq(Stores) /\ strays \subseteq Stores
        /\ samples \in Seq([Clocks -> Levels])
        /\ nodes \in Seq([type : Types, born : 0..4]) /\ calls \in Seq(Seq(1..4)) /\ Len(calls) = Len(nodes)
        /\ phase \in 0..5 /\ at \in Nat \ {0} /\ processes \in Nat
    OBVIOUS
  <2> QED
    BY <2>1, <2>2, <2>3, <2>4, <2>5 DEF TypeOK
<1>2. Control
  BY DEF Control, Running, Exchanging, Looping, Working
<1>3. QueueKept /\ StoresStayHome
  BY DEF QueueKept, StoresStayHome
<1>4. Tree
  BY DEF Tree, Running, Exchanging
<1>5. InStep
  BY DEF InStep, Line, Held, Working, Over
<1>6. Edge
  BY DEF Edge, Exchanging
<1> QED
  BY <1>1, <1>2, <1>3, <1>4, <1>5, <1>6 DEF IInv

\* Only a new run forgets that an error was ignored.

LEMMA OnlyStartForgives ==
  ASSUME [Next]_vars, ~StartRun
  PROVE  ignored' \in {ignored, TRUE}
<1> USE DEF dataVars, linkVars, uvmVars, hostVars
<1>1. CASE StartRun
  BY <1>1 DEF StartRun
<1>2. CASE Reports
  BY <1>2 DEF Reports
<1>3. CASE Unwind
  BY <1>3 DEF Unwind
<1>4. CASE PlainBody
  BY <1>4 DEF PlainBody
<1>5. CASE EnterLoop
  BY <1>5 DEF EnterLoop
<1>6. CASE Delay
  BY <1>6 DEF Delay
<1>7. CASE Return
  BY <1>7 DEF Return
<1>8. CASE RunTest
  BY <1>8 DEF RunTest
<1>9. CASE PhaseCall
  BY <1>9 DEF PhaseCall
<1>10. CASE PhaseEnd
  BY <1>10 DEF PhaseEnd
<1>11. CASE Create
  BY <1>11 DEF Create
<1>12. CASE PhaseBody
  BY <1>12 DEF PhaseBody
<1>13. CASE PhaseReturn
  BY <1>13 DEF PhaseReturn
<1>14. CASE Delta
  BY <1>14 DEF Delta
<1>15. CASE ProcessBody
  BY <1>15 DEF ProcessBody
<1>16. CASE DeltaEnd
  BY <1>16 DEF DeltaEnd
<1>17. CASE ProcessThrows
  BY <1>17 DEF ProcessThrows
<1>18. CASE DrainEnd
  BY <1>18 DEF DrainEnd
<1>19. CASE Advance
  BY <1>19 DEF Advance
<1>20. CASE TickHigh
  BY <1>20 DEF TickHigh
<1>21. CASE TickClocked
  BY <1>21 DEF TickClocked
<1>22. CASE Combinational
  BY <1>22 DEF Combinational
<1>23. CASE ExportInput
  BY <1>23 DEF ExportInput
<1>24. CASE TakeJob
  BY <1>24 DEF TakeJob
<1>25. CASE Schedule
  BY <1>25 DEF Schedule
<1>26. CASE ImportOutput
  BY <1>26 DEF ImportOutput
<1>27. CASE SynchronizeEnd
  BY <1>27 DEF SynchronizeEnd
<1>28. CASE LoopExport
  BY <1>28 DEF LoopExport
<1>29. CASE EndOfInput
  BY <1>29 DEF EndOfInput
<1>30. CASE LoopTakeJob
  BY <1>30 DEF LoopTakeJob
<1>31. CASE LoopSchedule
  BY <1>31 DEF LoopSchedule
<1>32. CASE LoopImport
  BY <1>32 DEF LoopImport
<1>33. CASE LoopAgain
  BY <1>33 DEF LoopAgain
<1>34. CASE TransportError
  BY <1>34 DEF TransportError
<1>35. CASE TakeExport
  BY <1>35 DEF TakeExport
<1>36. CASE Evaluate
  BY <1>36 DEF Evaluate
<1>37. CASE UNCHANGED vars
  BY <1>37 DEF vars
<1> QED
  BY <1>1, <1>2, <1>3, <1>4, <1>5, <1>6, <1>7, <1>8, <1>9, <1>10, <1>11,
     <1>12, <1>13, <1>14, <1>15, <1>16, <1>17, <1>18, <1>19, <1>20, <1>21,
     <1>22, <1>23, <1>24, <1>25, <1>26, <1>27, <1>28, <1>29, <1>30, <1>31,
     <1>32, <1>33, <1>34, <1>35, <1>36, <1>37 DEF Next, HostStep, Device

LEMMA InStepStep ==
  ASSUME TypeOK, Control, InStep, [Next]_vars
  PROVE  InStep'
<1> SUFFICES ASSUME Outputs # <<>> PROVE (~ignored' => Line') /\ Held'
  BY DEF InStep
<1>1. Held'
  BY HeldStep DEF InStep
<1>2. ASSUME ~ignored' PROVE Line'
  <2>1. CASE StartRun
    <3>1. link' = <<>> /\ pc' \in {"plain", "throw"}
      BY <2>1 DEF StartRun
    <3> QED
      BY <3>1, LineEmpty, Bindings
  <2>2. CASE ~StartRun
    <3>1. ignored' = FALSE /\ ignored = FALSE
      BY <1>2, <2>2, OnlyStartForgives DEF TypeOK
    <3> QED
      BY <3>1, LineStep DEF InStep
  <2> QED
    BY <2>1, <2>2
<1> QED
  BY <1>1, <1>2

THEOREM HostInvariance == Spec => []IInv
<1>1. Init => IInv
  BY InitIInv
<1>2. IInv /\ [Next]_vars => IInv'
  <2> SUFFICES ASSUME IInv, [Next]_vars PROVE IInv'
    OBVIOUS
  <2> USE DEF IInv
  <2>1. TypeOK'
    BY TypeStep
  <2>2. Control'
    BY ControlStep
  <2>3. QueueKept' /\ StoresStayHome'
    BY QueueStep
  <2>4. Tree'
    BY TreeStep
  <2>5. InStep'
    BY InStepStep
  <2>6. Edge'
    <3>1. CASE Outputs = <<>>
      BY <3>1 DEF Edge
    <3>2. CASE Outputs # <<>>
      BY <2>5, <3>2, EdgeStep DEF InStep
    <3> QED
      BY <3>1, <3>2
  <2> QED
    BY <2>1, <2>2, <2>3, <2>4, <2>5, <2>6
<1> QED
  BY <1>1, <1>2, PTL DEF Spec

\* Every variable keeps its type.
THEOREM HostTypeCorrect == Spec => []TypeOK
<1>1. IInv => TypeOK
  BY DEF IInv
<1> QED
  BY <1>1, HostInvariance, PTL

(***************************************************************************)
(* A store queued by a process or a clocked block is flushed in the run    *)
(* that queued it: flush_nba follows every delta and every tick.           *)
(***************************************************************************)
THEOREM StoresHome == Spec => []StoresStayHome
<1>1. IInv => StoresStayHome
  BY DEF IInv
<1> QED
  BY <1>1, HostInvariance, PTL

(***************************************************************************)
(* Each component is called for each phase of its type once and in order,  *)
(* whatever the callbacks and the processes create.                        *)
(***************************************************************************)
THEOREM PhasesRight == Spec => []PhasesInOrder
<1>1. IInv => PhasesInOrder
  <2> SUFFICES ASSUME IInv, pc \in {"phase", "drain"}, NEW n \in 1..Len(nodes)
               PROVE  /\ ToSet(calls[n]) = Due(n)
                      /\ \A j, k \in 1..Len(calls[n]) : j < k => calls[n][j] < calls[n][k]
    BY DEF PhasesInOrder
  <2>1. Called(n)
    BY DEF IInv, Tree, Running
  <2>2. Given(n) = Due(n)
    BY DEF Given, Due, Running, Exchanging
  <2> QED
    BY <2>1, <2>2 DEF Called, Increasing
<1> QED
  BY <1>1, HostInvariance, PTL

(***************************************************************************)
(* tick(): the device sees all clocks low and then all clocks high, by the *)
(* time the clocked blocks of the host run.                                *)
(***************************************************************************)
THEOREM EdgeRight == Spec => []OneRisingEdge
<1>1. IInv => OneRisingEdge
  BY DEF IInv, Edge, OneRisingEdge, Level
<1> QED
  BY <1>1, HostInvariance, PTL

(***************************************************************************)
(* synchronize() and the transport loop, with the device behind the        *)
(* transport, implement the lock-step exchange, as long as the host waits  *)
(* for the device at all: it has an output to import.                      *)
(***************************************************************************)
THEOREM ExchangeInLockstep ==
  ASSUME Outputs # <<>>
  PROVE  Spec => AnswersWhatIsOffered
<1>1. Init => Exchange!Init
  <2> SUFFICES ASSUME Init PROVE Exchange!Init
    OBVIOUS
  <2>1. Offered = Zero(InputNames) /\ Holding = Zero(OutputNames)
    BY DEF Init, Offered, Holding, Zero, Names, FreshDevice
  <2>2. device.asked = Zero(InputNames) /\ ignored = FALSE
    BY DEF Init, FreshDevice
  <2> QED
    BY <2>1, <2>2 DEF Exchange!Init, Offered, Holding
<1>2. IInv /\ IInv' /\ [Next]_vars => [Exchange!Next]_(Exchange!vars)
  BY ExchangeStep DEF IInv, InStep
<1> QED
  BY <1>1, <1>2, HostInvariance, PTL DEF Spec, AnswersWhatIsOffered, Exchange!Spec
=============================================================================
