-------------------------------- MODULE Host --------------------------------
(***************************************************************************)
(* A script that simulates a design several times in one process: the      *)
(* native host with its globals and queued non-blocking stores, the phases *)
(* of its UVM components, ticks, and the exchange of signals with a device *)
(* behind a transport.                                                     *)
(***************************************************************************)
EXTENDS Naturals, Sequences, SequencesExt, FiniteSets

CONSTANTS
    Inputs,       \* the host variables bound to inputs of the device, in order
    Outputs,      \* the host variables bound to its outputs, in order
    Clocks,       \* the inputs registered as clocks
    Results,      \* what the device may answer: values of all outputs
    Derived,      \* continuous assignments: from the variable set to the one read
    Types, Top,   \* component types; the one run_test creates
    Has,          \* [Types -> the phases the library has a callback for]
    Capacity,     \* messages the transport takes before it answers RETRY
    MaxRuns, MaxTicks, MaxNba, MaxNodes   \* bounds of the client

InputNames == ToSet(Inputs)
OutputNames == ToSet(Outputs)
Names == InputNames \cup OutputNames
Levels == {0, 1}
PhaseNames == <<"build_phase", "connect_phase", "run_phase", "check_phase">>

ASSUME BindingsAssumption == /\ Inputs \in Seq(STRING) /\ Outputs \in Seq(STRING)
                             /\ InputNames \cap OutputNames = {}
                             /\ \A j, k \in 1..Len(Inputs) : Inputs[j] = Inputs[k] => j = k
ASSUME ClocksAssumption == Clocks \subseteq InputNames /\ Clocks \cap DOMAIN Derived = {}
ASSUME ResultsAssumption == Results \subseteq [OutputNames -> Levels]
ASSUME DerivedAssumption == /\ DOMAIN Derived \subseteq InputNames
                            /\ \A v \in DOMAIN Derived : Derived[v] \in Names \ DOMAIN Derived
ASSUME TypesAssumption == /\ Top \in Types
                          /\ Has \in [Types -> SUBSET {"build_phase", "connect_phase", "run_phase", "check_phase"}]
ASSUME BoundsAssumption == /\ Capacity \in Nat \ {0}
                           /\ MaxRuns \in Nat /\ MaxTicks \in Nat /\ MaxNba \in Nat /\ MaxNodes \in Nat

VARIABLES
    runs,         \* simulations started
    pc, ret, i,   \* where the thread stands, where synchronize returns to, its place in the bindings
    storage,      \* the variables of the loaded library
    nba,          \* nba_updates: stores [run, by, var, value]
    strays,       \* history: stores a flush applied that another run had queued
    job,          \* the id given out last
    link, device, \* messages under way; [in, out, done, asked] of the device
    loop, line,   \* the library has a transport loop; what it has read
    ignored,      \* history: the transport loop went on after an error
    samples,      \* history: the clocks the jobs of this tick have seen
    ticks,
    nodes, phase, at, calls, processes   \* the component tree, and what each node was called for

hostVars == <<pc, ret, i>>
dataVars == <<storage, nba, strays>>
linkVars == <<job, link, device, samples>>
uvmVars == <<nodes, phase, at, calls, processes>>
vars == <<runs, hostVars, dataVars, linkVars, loop, line, ignored, ticks, uvmVars>>

Zero(S) == [v \in S |-> 0]
FreshDevice == [in |-> Zero(InputNames), out |-> Zero(OutputNames), done |-> 0, asked |-> Zero(InputNames)]

Init == /\ runs = 0 /\ pc = "idle" /\ ret = "plain" /\ i = 1
        /\ storage = Zero(Names) /\ nba = <<>> /\ strays = {}
        /\ job = 0 /\ link = <<>> /\ device = FreshDevice /\ samples = <<>>
        /\ loop = FALSE /\ line = Zero(InputNames) /\ ignored = FALSE /\ ticks = 0
        /\ nodes = <<>> /\ phase = 0 /\ at = 1 /\ calls = <<>> /\ processes = 0

-----------------------------------------------------------------------------
(***************************************************************************)
(* execute_native: a library of its own and a transport of its own for     *)
(* every run; design and UVM services are cleared, stores under way, and   *)
(* the numbers of the jobs, are not.  A binding may be refused.            *)
(***************************************************************************)
StartRun ==
    /\ pc = "idle" /\ runs < MaxRuns
    /\ runs' = runs + 1
    /\ storage' = Zero(Names)
    /\ link' = <<>> /\ device' = [FreshDevice EXCEPT !.done = job] /\ samples' = <<>>
    /\ loop' = FALSE /\ line' = Zero(InputNames) /\ ignored' = FALSE
    /\ nodes' = <<>> /\ phase' = 0 /\ at' = 1 /\ calls' = <<>> /\ processes' = 0
    /\ pc' \in {"plain", "throw"} /\ i' = 1
    /\ UNCHANGED <<ret, nba, strays, job, ticks>>

\* Outstanding objections and reported errors fail the run.
Reports ==
    /\ pc = "reports"
    /\ pc' \in {"passed", "throw"}
    /\ UNCHANGED <<runs, ret, i, dataVars, linkVars, loop, line, ignored, ticks, uvmVars>>

\* Reset and Close; an exception ends the script.
Unwind ==
    /\ pc \in {"passed", "throw"}
    /\ pc' = IF pc = "passed" THEN "idle" ELSE "stopped"
    /\ UNCHANGED <<runs, ret, i, dataVars, linkVars, loop, line, ignored, ticks, uvmVars>>

-----------------------------------------------------------------------------
(***************************************************************************)
(* Host code.  A step of it sets variables that no continuous assignment   *)
(* drives and no device output is bound to, and may queue one store.       *)
(***************************************************************************)
Free == InputNames \ DOMAIN Derived
Assigned(v, x) == [storage EXCEPT ![v] = x]
Stored(by, v, x) == Append(nba, [run |-> runs, by |-> by, var |-> v, value |-> x])

Compute(by) ==
    \E v \in Free, x \in Levels :
        \/ storage' = Assigned(v, x) /\ nba' = nba
        \/ Len(nba) < MaxNba /\ storage' = storage /\ nba' = Stored(by, v, x)

\* flush_nba: a store of a library that is no longer loaded hits what is there now.
FlushInto(data, stores) ==
    [v \in Names |->
        LET own == {k \in 1..Len(stores) : stores[k].var = v /\ stores[k].run = runs}
        IN  IF own = {} THEN data[v]
            ELSE stores[CHOOSE k \in own : \A l \in own : l <= k].value]
Strays(stores) == {stores[k] : k \in {l \in 1..Len(stores) : stores[l].run # runs}}

PlainBody ==
    /\ pc = "plain"
    /\ Compute("plain")
    /\ UNCHANGED <<runs, hostVars, strays, linkVars, loop, line, ignored, ticks, uvmVars>>

\* vir_time_delay; nothing is flushed.
Delay ==
    /\ pc = "plain" /\ ticks < MaxTicks
    /\ ticks' = ticks + 1
    /\ pc' = "synchronize" /\ ret' = "plain"
    /\ UNCHANGED <<runs, i, dataVars, linkVars, loop, line, ignored, uvmVars>>

\* After the initial blocks: a host that only moves signals has no code of its own.
EnterLoop ==
    /\ pc = "plain" /\ phase = 0
    /\ pc' = "loop" /\ loop' = TRUE /\ i' = 1
    /\ UNCHANGED <<runs, ret, dataVars, linkVars, line, ignored, ticks, uvmVars>>

Return ==
    /\ pc = "plain"
    /\ pc' = "reports"
    /\ UNCHANGED <<runs, ret, i, dataVars, linkVars, loop, line, ignored, ticks, uvmVars>>

-----------------------------------------------------------------------------
(***************************************************************************)
(* run_test: the phases, one after the other, over a tree that may grow.   *)
(***************************************************************************)
Node(t) == [type |-> t, born |-> phase]

RunTest ==
    /\ pc = "plain" /\ phase = 0
    /\ nodes' = <<[type |-> Top, born |-> 0]>> /\ calls' = <<<<>>>>
    /\ phase' = 1 /\ at' = 1 /\ pc' = "phase"
    /\ UNCHANGED <<runs, ret, i, dataVars, linkVars, loop, line, ignored, ticks, processes>>

\* The walk over the nodes; a mutant goes over a newly made one.
NextNodeSkips == IF Len(nodes) > 1 /\ at = 1 THEN 3 ELSE at + 1
NextNode == at + 1

\* One node of Component::run, and the end of its loop.
PhaseCall ==
    /\ pc = "phase" /\ at <= Len(nodes)
    /\ LET called == PhaseNames[phase] \in Has[nodes[at].type]
       IN  /\ calls' = IF called THEN [calls EXCEPT ![at] = Append(@, phase)] ELSE calls
           /\ pc' = IF called /\ phase # 3 THEN "callback" ELSE "phase"
           /\ processes' = IF called /\ phase = 3 THEN processes + 1 ELSE processes
           /\ at' = IF pc' = "callback" THEN at ELSE NextNode
    /\ UNCHANGED <<runs, ret, i, dataVars, linkVars, loop, line, ignored, ticks, nodes, phase>>

PhaseEnd ==
    /\ pc = "phase" /\ at > Len(nodes)
    /\ at' = 1
    /\ IF phase = 3 /\ processes > 0 THEN pc' = "process" /\ phase' = phase
       ELSE /\ pc' = IF phase = 4 THEN "plain" ELSE "phase"
            /\ phase' = phase + 1
    /\ UNCHANGED <<runs, ret, i, dataVars, linkVars, loop, line, ignored, ticks, nodes, calls, processes>>

\* What is made by new or create becomes a node, whatever makes it.
Create ==
    /\ pc \in {"callback", "process"} /\ Len(nodes) < MaxNodes
    /\ \E t \in Types : nodes' = Append(nodes, Node(t))
    /\ calls' = Append(calls, <<>>)
    /\ UNCHANGED <<runs, hostVars, dataVars, linkVars, loop, line, ignored, ticks, phase, at, processes>>

PhaseBody ==
    /\ pc = "callback"
    /\ Compute("phase")
    /\ UNCHANGED <<runs, hostVars, strays, linkVars, loop, line, ignored, ticks, uvmVars>>

\* The callback returns, or a fatal report leaves it.
PhaseReturn ==
    /\ pc = "callback"
    /\ pc' \in {"phase", "throw"}
    /\ at' = NextNode
    /\ UNCHANGED <<runs, ret, i, dataVars, linkVars, loop, line, ignored, ticks, nodes, phase, calls, processes>>

-----------------------------------------------------------------------------
(***************************************************************************)
(* drain: deltas, each followed by a flush, and ticks when time moves; it  *)
(* begins with a delta, and so does what follows a tick.                   *)
(***************************************************************************)
Delta ==
    /\ pc = "drain"
    /\ pc' = "process"
    /\ UNCHANGED <<runs, ret, i, dataVars, linkVars, loop, line, ignored, ticks, uvmVars>>

ProcessBody ==
    /\ pc = "process"
    /\ Compute("process")
    /\ UNCHANGED <<runs, hostVars, strays, linkVars, loop, line, ignored, ticks, uvmVars>>

\* Mutant: what a step queues stays until somebody else flushes.
DeltaEndKeeps ==
    /\ pc = "process" /\ pc' = "drain"
    /\ UNCHANGED <<runs, ret, i, dataVars, linkVars, loop, line, ignored, ticks, uvmVars>>

DeltaEnd ==
    /\ pc = "process"
    /\ storage' = FlushInto(storage, nba) /\ strays' = strays \cup Strays(nba) /\ nba' = <<>>
    /\ pc' = "drain"
    /\ UNCHANGED <<runs, ret, i, linkVars, loop, line, ignored, ticks, uvmVars>>

\* A fatal report, or a call the runtime refuses.
ProcessThrows ==
    /\ pc = "process"
    /\ pc' = "throw"
    /\ UNCHANGED <<runs, ret, i, dataVars, linkVars, loop, line, ignored, ticks, uvmVars>>

\* The run phase is over, or drain gives up.  Each way out follows a flush.
DrainEnd ==
    /\ pc = "drain"
    /\ \/ pc' = "phase" /\ phase' = 4 /\ at' = 1
       \/ pc' = "throw" /\ UNCHANGED <<phase, at>>
    /\ UNCHANGED <<runs, ret, i, dataVars, linkVars, loop, line, ignored, ticks, nodes, calls, processes>>

\* Mutant: the clocks are not lowered first.
ClocksKeptHigh(level) == [v \in Names |-> IF v \in Clocks THEN 1 ELSE storage[v]]
ClocksAt(level) == [v \in Names |-> IF v \in Clocks THEN level ELSE storage[v]]

Advance ==
    /\ pc = "drain" /\ ticks < MaxTicks
    /\ ticks' = ticks + 1 /\ samples' = <<>>
    /\ storage' = ClocksAt(0)
    /\ pc' = "synchronize" /\ ret' = "high"
    /\ UNCHANGED <<runs, i, nba, strays, job, link, device, loop, line, ignored, uvmVars>>

TickHigh ==
    /\ pc = "high"
    /\ storage' = ClocksAt(1)
    /\ pc' = "synchronize" /\ ret' = "clocked"
    /\ UNCHANGED <<runs, i, nba, strays, linkVars, loop, line, ignored, ticks, uvmVars>>

\* The host's own always_ff blocks, if it has any: what they store, the last value
\* of each variable, is flushed at once, after what was queued before.
TickClocked ==
    /\ pc = "clocked"
    /\ \/ /\ \E written \in SUBSET Free : \E value \in [written -> Levels] :
                storage' = [v \in Names |-> IF v \in written THEN value[v] ELSE FlushInto(storage, nba)[v]]
          /\ strays' = strays \cup Strays(nba)
          /\ nba' = <<>>
       \/ UNCHANGED dataVars
    /\ pc' = "process"
    /\ UNCHANGED <<runs, ret, i, linkVars, loop, line, ignored, ticks, uvmVars>>

-----------------------------------------------------------------------------
(***************************************************************************)
(* synchronize: all inputs, one job, all outputs.  RETRY is a call that is *)
(* made again: until the transport has room, until the job is done.        *)
(***************************************************************************)
HasRoom == Len(link) < Capacity
Export(v, x) == link' = Append(link, [kind |-> "export", var |-> v, value |-> x])

Combinational ==
    /\ pc = "synchronize"
    /\ storage' = [v \in Names |-> IF v \in DOMAIN Derived THEN storage[Derived[v]] ELSE storage[v]]
    /\ pc' = "export" /\ i' = 1
    /\ UNCHANGED <<runs, ret, nba, strays, linkVars, loop, line, ignored, ticks, uvmVars>>

ExportInput ==
    /\ pc = "export" /\ i <= Len(Inputs)
    /\ HasRoom /\ Export(Inputs[i], storage[Inputs[i]])
    /\ i' = i + 1
    /\ UNCHANGED <<runs, pc, ret, dataVars, job, device, samples, loop, line, ignored, ticks, uvmVars>>

TakeJob ==
    /\ pc = "export" /\ i > Len(Inputs)
    /\ job' = job + 1 /\ pc' = "schedule"
    /\ UNCHANGED <<runs, ret, i, dataVars, link, device, samples, loop, line, ignored, ticks, uvmVars>>

Post == link' = Append(link, [kind |-> "job", id |-> job])

Schedule ==
    /\ pc = "schedule"
    /\ HasRoom /\ Post
    /\ pc' = "import" /\ i' = 1
    /\ UNCHANGED <<runs, ret, dataVars, job, device, samples, loop, line, ignored, ticks, uvmVars>>

\* An output is there when the device has done what it was sent; mutant: when
\* it has taken the inputs.
AnsweredEarly == Len(link) <= 1
Answered == link = <<>>

\* Mutant: the same binding again.
SameBinding == i
NextBinding == i + 1

ImportOutput ==
    /\ pc = "import" /\ i <= Len(Outputs)
    /\ Answered
    /\ storage' = [storage EXCEPT ![Outputs[i]] = device.out[Outputs[i]]]
    /\ i' = NextBinding
    /\ UNCHANGED <<runs, pc, ret, nba, strays, linkVars, loop, line, ignored, ticks, uvmVars>>

\* An error of any of these calls; whoever synchronizes throws.  The transport
\* loop below throws when the file it reads or writes fails.
TransportError ==
    /\ \/ pc \in {"export", "loop"} /\ i <= Len(Inputs)
       \/ pc = "schedule"
       \/ pc \in {"import", "loopImport"} /\ i <= Len(Outputs)
    /\ pc' = "throw"
    /\ UNCHANGED <<runs, ret, i, dataVars, linkVars, loop, line, ignored, ticks, uvmVars>>

SynchronizeEnd ==
    /\ pc = "import" /\ i > Len(Outputs)
    /\ pc' = ret
    /\ UNCHANGED <<runs, ret, i, dataVars, linkVars, loop, line, ignored, ticks, uvmVars>>

-----------------------------------------------------------------------------
(***************************************************************************)
(* The transport loop of a host without code of its own: each input is     *)
(* read and exported, one job, each output imported and written.  Nobody   *)
(* looks at the statuses.                                                  *)
(***************************************************************************)
LoopExport ==
    /\ pc = "loop" /\ i <= Len(Inputs) /\ job < MaxTicks
    /\ \E x \in Levels :
          /\ line' = [line EXCEPT ![Inputs[i]] = x]
          /\ \/ HasRoom /\ Export(Inputs[i], x) /\ ignored' = ignored
             \/ ignored' = TRUE /\ UNCHANGED link
    /\ i' = i + 1
    /\ UNCHANGED <<runs, pc, ret, dataVars, job, device, samples, loop, ticks, uvmVars>>

EndOfInput ==
    /\ pc = "loop" /\ i <= Len(Inputs)
    /\ pc' = "reports"
    /\ UNCHANGED <<runs, ret, i, dataVars, linkVars, loop, line, ignored, ticks, uvmVars>>

LoopTakeJob ==
    /\ pc = "loop" /\ i > Len(Inputs)
    /\ job' = job + 1 /\ pc' = "loopSchedule"
    /\ UNCHANGED <<runs, ret, i, dataVars, link, device, samples, loop, line, ignored, ticks, uvmVars>>

LoopSchedule ==
    /\ pc = "loopSchedule"
    /\ \/ HasRoom /\ Post /\ ignored' = ignored
       \/ ignored' = TRUE /\ UNCHANGED link
    /\ pc' = "loopImport" /\ i' = 1
    /\ UNCHANGED <<runs, ret, dataVars, job, device, samples, loop, line, ticks, uvmVars>>

LoopImport ==
    /\ pc = "loopImport" /\ i <= Len(Outputs)
    /\ \/ Answered /\ ignored' = ignored
       \/ ignored' = TRUE
    /\ i' = i + 1
    /\ UNCHANGED <<runs, pc, ret, dataVars, linkVars, loop, line, ticks, uvmVars>>

LoopAgain ==
    /\ pc = "loopImport" /\ i > Len(Outputs)
    /\ pc' = "loop" /\ i' = 1
    /\ UNCHANGED <<runs, ret, dataVars, linkVars, loop, line, ignored, ticks, uvmVars>>

-----------------------------------------------------------------------------
(***************************************************************************)
(* The device takes messages in the order they were sent.  A job samples   *)
(* the inputs and makes all outputs at once.                               *)
(***************************************************************************)
TakeExport ==
    /\ link # <<>> /\ Head(link).kind = "export"
    /\ device' = [device EXCEPT !.in[Head(link).var] = Head(link).value]
    /\ link' = Tail(link)
    /\ UNCHANGED <<runs, hostVars, dataVars, job, samples, loop, line, ignored, ticks, uvmVars>>

Evaluate ==
    /\ link # <<>> /\ Head(link).kind = "job"
    /\ \E out \in Results :
          device' = [device EXCEPT !.out = out, !.done = Head(link).id, !.asked = device.in]
    /\ samples' = Append(samples, [v \in Clocks |-> device.in[v]])
    /\ link' = Tail(link)
    /\ UNCHANGED <<runs, hostVars, dataVars, job, loop, line, ignored, ticks, uvmVars>>

Device == TakeExport \/ Evaluate

HostStep ==
    \/ StartRun \/ Reports \/ Unwind
    \/ PlainBody \/ EnterLoop \/ Delay \/ Return \/ RunTest \/ PhaseCall \/ PhaseEnd
    \/ Create \/ PhaseBody \/ PhaseReturn
    \/ Delta \/ ProcessBody \/ DeltaEnd \/ ProcessThrows \/ DrainEnd
    \/ Advance \/ TickHigh \/ TickClocked
    \/ Combinational \/ ExportInput \/ TakeJob \/ Schedule \/ ImportOutput \/ SynchronizeEnd
    \/ LoopExport \/ EndOfInput \/ LoopTakeJob \/ LoopSchedule \/ LoopImport \/ LoopAgain

Next == HostStep \/ TransportError \/ Device

Spec == Init /\ [][Next]_vars

\* One thread runs the host; a device works on what it was sent.
FairSpec == Spec /\ WF_vars(HostStep) /\ WF_vars(Device)

---------------------------------------------------------------------------
(***************************************************************************)
(* What the host owes the device, the components and its user.             *)
(***************************************************************************)

(***************************************************************************)
(* The exchange is in lock step.  offered is what the host would export;   *)
(* its outputs are the device's as soon as the job it waits for is done.   *)
(***************************************************************************)
Exchange == INSTANCE Lockstep WITH
    Offers <- [InputNames -> Levels], Results <- Results,
    FirstOffer <- Zero(InputNames), FirstResult <- Zero(OutputNames),
    offered <- IF loop THEN line ELSE [v \in InputNames |-> storage[v]],
    result <- IF loop \/ device.done = job THEN device.out ELSE [v \in OutputNames |-> storage[v]],
    asked <- device.asked,
    excused <- ignored

AnswersWhatIsOffered == Exchange!Spec

(***************************************************************************)
(* A tick shows the device one rising edge of every clock: one evaluation  *)
(* with all of them low, then one with all of them high.                   *)
(***************************************************************************)
OneRisingEdge ==
    pc = "clocked" /\ Outputs # <<>> =>
        samples = <<[v \in Clocks |-> 0], [v \in Clocks |-> 1]>>

(***************************************************************************)
(* Every component gets each phase its type has a callback for once, in    *)
(* the order of the phases, from the phase it was made in on; one made in  *)
(* the run phase has missed it.  All are built before one is connected.    *)
(***************************************************************************)
Due(n) ==
    {p \in 1..4 : /\ PhaseNames[p] \in Has[nodes[n].type]
                  /\ p < phase \/ (p = phase /\ (n < at \/ pc = "drain"))
                  /\ p >= nodes[n].born /\ ~(p = 3 /\ nodes[n].born = 3)}

PhasesInOrder ==
    pc \in {"phase", "drain"} =>
        \A n \in 1..Len(nodes) :
            /\ ToSet(calls[n]) = Due(n)
            /\ \A j, k \in 1..Len(calls[n]) : j < k => calls[n][j] < calls[n][k]

(***************************************************************************)
(* A store queued by a process or a clocked block is flushed in the run    *)
(* that queued it, although nothing clears the queue between runs: only    *)
(* what initial blocks and phases queue can reach the next library.        *)
(***************************************************************************)
StoresStayHome == \A s \in strays : s.by \in {"plain", "phase"}

(***************************************************************************)
(* An exchange comes to an end, with its outputs or with an exception,     *)
(* however often the transport asks to try again.                          *)
(***************************************************************************)
SynchronizeReturns ==
    pc \in {"synchronize", "export", "schedule", "import"} ~>
        pc \in {"plain", "high", "clocked", "throw"}
=============================================================================
