# Specifications of the hwc compiler and its runtime

hwc compiles SystemVerilog: to EIR and machine code for an emulator, to VIR for
simulation with a UVM runtime, and to BTOR2 transition systems for formal
verification by external solvers. This directory holds TLA+ modules for the
translations and for the parts whose correctness depends on order, interleaving
or failure, the TLC configurations that check them on small instances, and
theorems checked by TLAPS.

To check: `tlc -config uvm_core.cfg MCUvmProcess`, one configuration per run;
to prove: `tlapm UvmProcessProofs.tla` and the other `*Proofs` modules.
`PROJECT.json` lists runs, mutants, the source lines of each definition,
hazards and theorems.

## 1. Inventory

Paths are under `src/compiler/`.

| Part | State | Operations | What is hard | Correct when |
|---|---|---|---|---|
| **EIR: lowering** `eir/lib/Lowering` | the context of a body: values, pending writes, members undone | lower types, expressions, statements, instances; flatten; verify | branches become multiplexers, instances wait for each other's results, undone members are tried again, flattened operations are put in order | the flattened module computes what the source means |
| **EIR: machine code** `eir/lib/CodeGen`, `eir/lib/MIR`, `target/lib/emul` | registers, spill slots, pinned sources, writes kept back | allocate, evict, load, encode, export, commit | few registers, a value evicted by the operation that needs it, lazily read states | the words compute what the module computes |
| **BTOR2 models** `btor2/lib` | a list of nodes with states and properties | encode two- and four-valued, rewrite, remove | widths, node order, fixed points, names of registers and instances in one table, unknown bits | model and module go in step; no unknown bit passes for a known one |
| **SVA: frontend** `frontend/lib/SVA` | directives, clocks, properties, sequences | lower from the elaborated tree, look one up | default clocks, numbering, nested clocking and disable | structure is kept |
| **SVA: monitors** `btor2/lib/Lowering/Formal` | age registers, previous clock, previous values in the model | sample, advance, disable | overlapping attempts; disable at any step; the first edge | a `bad` state is reached exactly when an attempt fails |
| **Temporal properties** `Lowering/Formal/LTL` | an automaton from Spot as registers | build a formula, run the automaton, justice | delays of zero, ranges, several runs, disable in between | the formula says what the property says; no run is lost or invented |
| **Equations for Z3** `frontend/lib/SVA/Lowering/property.cpp` | terms by name | a body, an instance, an equation, a verdict | names of several bodies, parts of values, order of members | what is proved holds, what is refuted does not |
| **Formal task** `formal/engine`, `router/`, `scheduler/`, `task/`, back ends in `solver/` | two jobs, their reports, the work directory | choose a back end, partition, run, combine, report | jobs in parallel, one throwing, a back end that knows safety only | a proof needs both parts, a counterexample one |
| **Solver processes** `formal/solver/process.cpp` | a pipe, a child in a group of its own, a clock, the text read so far | fork, poll, time-out, grace, kill, drain | two jobs inherit each other's pipes; a child starts while its group is signalled; the compiler dies; a solver ignores SIGTERM | an answer is complete and final; a time-out reaches its child and no other; a call returns |
| **VIR: lowering of bodies** `vir/lib/IRGen/Frontend`, `vir/lib/VIR`, `vir/lib/Analysis` | functions, blocks, values, resume states | lower statements to a coroutine or a function, analyse, print | a value that lives over a suspension, loops and breaks with suspensions inside, widths once printed | step by step the function does what the body says |
| **Lowered processes** the services `UVM/TLM.cpp`, `UVM/Sequencer.cpp` | resume state per process, FIFOs, the sequencer channel | suspend, call a task, `start`, `write`, `get` | retry after a wait, several consumers, loops that never suspend | no lost wake-up, no item lost, repeated or reordered; steps end |
| **UVM process scheduler** `vir/runtime/abi/lib/Builtin/UVM/Process.cpp`, `UVM.cpp` | process objects, `now_`, objections, queued stores | create, spawn, wait, notify, raise, drop, delta, advance, drain | bodies call back into the scheduler that is walking its table; time may wrap; the phase ends in five ways | nobody loses a turn, wakes for the wrong reason or revives; time moves only when idle |
| **Native host** `UVM/ABI.cpp`, `UVM/Component.cpp`, `Builtin/ABI.cpp`, `ABI/Context.cpp`, `Transport/`, `tools/src/native_runtime.cpp` | components, storage, bindings, clocks, queued stores, one mutex | run a test, walk a phase, tick, export, schedule, import | RETRY, errors half way, a tree that grows while it is walked, stores that outlive a library | one coherent answer per exchange; phases in order; one edge per tick |
| **Runtime primitives** `Builtin/{Event,Clock,Semaphore,Channel,Port,Process,Scheduler,Time}` | a condition variable and its condition, a thread of its own, a queue of tasks | acquire, send, receive, wait, trigger, start, stop, spawn, join, kill, schedule, run | one notification for many sleepers, an event reset by another waiter, stopping a thread anywhere, tasks for times gone by | nobody sleeps over what it waits for; items and tasks keep their order; a wait for an edge sees one |
| **Objects** `Object/ObjectStore.cpp` | classes, objects by handle | create, clone, destroy, call | constructors and methods run without the lock | a handle never becomes another object's |
| **UVM services** `Builtin/UVM/{ABI,Factory,ConfigDB,Collection,TLM,Sequencer,Coverage,Report}.cpp` | objects by handle, lists kept as objects with a numbered field per item, the TLM graph, entries with wildcards, counters | create, override, set, get, push, erase, connect, subscribe, write, sample, spawn, join, reset | paths of the graph that join or lead back; a subscriber that changes the graph or the list it is called about; an exception below nested writes; handles kept over a reset | a write reaches each end once; a list is a queue; no handle becomes another's |
| **Tools** `tools/`; **emulator** `target/` | files | - | (the emulator's executable code is not published) | - |

How they interact. `tools/main.cpp` reads scripts and starts a compilation, a
simulation or formal tasks. A design goes from slang's tree through EIR to words
of the emulator; its processes go through VIR and clang to a library the native
host loads. In a simulation `run_test` builds the component tree, each
`run_phase` registers a process, and `drain` steps the processes in deltas; the
bodies are the coroutines the lowering emitted, and all they share goes through
the runtime's ABI. When time moves, `drain` ticks the transport, which exchanges
signals with the design. In a formal task the engine lowers the design and one
property to BTOR2, gives the model (or its safety and its liveness part, in two
threads) to a back end, which runs a solver with `run_process` and reads the
verdict from its exit status and its text; an equation about a design without
registers may go to Z3 instead.

The hazards, each at its line, are in `PROJECT.json` with the properties that
cover them; those without one say why.

## 2. Modules

| Modules | What they are |
|---|---|
| `Eir` | programs of the intermediate representation, their verifier and their evaluation |
| `FrontendLowering`, `ModuleLowering` | types, expressions and statements; bodies and designs, and one module made of many |
| `MachineEncoder` | register allocation and encoding |
| `SvMeaning` | what a design means by the rules of the language, and what a directive means |
| `Btor2`, `FourState` | models, their builder and the passes; the two-valued and the four-valued lowering |
| `SvaFrontend`, `SvaMonitor` | directives from the elaborated tree; expressions, monitors and automata in a model |
| `TemporalFormula` | the formula of a property, and what both say of a word |
| `EquationProof` | the engine that asks Z3 |
| `FormalModel`, `MCCompile` | EXTENDS all of the above: one compilation, the clock cycles of what it made, the model explored beside the module, and the properties; the designs |
| `VirLowering`, `VirMeaning` | bodies to VIR; what printed VIR does, and what the analyses of it say |
| `ProcessMeaning`, `MCUvmBodies` | what a body means, and function and body side by side; the bodies, together with the bench that shares a queue |
| `Host`, `Lockstep`, `MCHost`, `HostProofs` | the native host with a device; what it may rely on; an instance; proofs |
| `Primitives`, `PrimitivesProofs` | semaphore, channel, events, clock, process, scheduler and object store under threads; proofs |
| `UvmServices`, `ServiceQueues`, `UvmServicesProofs` | the services compiled code calls, from one thread and from its own subscribers; the queue a list promises to be; proofs |
| `MCPrimitives` | EXTENDS both: programs of three threads, and scripts of the services |
| `UvmProcess`, `RunPhase`, `MCUvmProcess`, `UvmProcessProofs` | the scheduler under its most general client; what the run phase promises; instances; proofs |
| `UvmBench`, `MCUvmBench`, `UvmBenchProofs` | lowered bodies with queues, EXTENDS `UvmProcess`; benches after the repository's tests; proofs |
| `RunProcess`, `ToolCall`, `MCRunProcess`, `RunProcessProofs` | `run_process` by several jobs at once, with the children and the kernel; what back ends expect of a call; instances; proofs |
| `FormalTask`, `PropertyLowering`, `MCFormalTask`, `FormalTaskProofs` | a session of formal tasks over `Tool == INSTANCE ToolCall`; what becomes of a property; sessions; proofs |
| `ImplicationMonitor`, `AutomatonMonitor`, `MCMonitors`, `MonitorProofs` | the registers of one bounded implication, and of one automaton, for proofs; shapes and automata; proofs |

Properties stand at the end of the module they are about. Operators that no run
uses but `PROJECT.json` lists as mutants are defined beside the definition they
change.

### 2.1 UvmProcess

One variable per field of a process object (`status`, `wake`, `event`, `name`,
`owner`, by handle), `now` for `now_`, `objections`, `nba` and `storage` for the
non-blocking stores of one variable. `phase`, `iter`, `seen`, `snap`, `ran` and
`cur` are the locals of `drain()` and `run()`; `fresh` and `raised` are history.
Every call of the runtime is an action: a body may make any of them in any order
until its step returns, so that the model covers bodies nobody has written yet.
`StepProcess` is one turn of `run()`; what follows the snapshot is one action
per exit of `drain()`'s loop body, because nothing else runs in between: all
processes are executed by one thread. The exceptions (time going backwards, an
unknown step name, a drop below zero, a failing tick) leave `drain()` at once.
`order_` is 1..created, since handles only grow. `MaxTime` stands for
`UINT64_MAX`: `wait_time` adds modulo `MaxTime + 1`.

`RunPhase` knows no deltas, snapshots or iterations. `ImplementsRunPhase` maps
`cur` to the running process and `outcome` to the end of the phase.

### 2.2 UvmBench

A body is a sequence of lowered statements and `at[p]` is the resume state that
`set_pc` stores. A statement that suspends is one action: it stores the state,
registers the wait and returns. `get` resumes at itself and retries; other
suspensions resume behind the statement. A push appends to every reachable FIFO
and then notifies, one event at a time, as `TLM.cpp` does after it has unlocked.
Conditions go either way; `Horizon` bounds loops in time. An item is its number
in the stream of its queue. `Forever` is the lowering of the loop, with the
delay it adds to a body that has no suspending statement.

### 2.3 RunProcess

`pc[j]` says where the caller of job `j` stands in `run_process`, `stage[j]`
where its child stands between `fork` and `exec` and after. A signal is sent to
the group and is in `sent[j]` only if the child leads one. `holders[j]` are the
holders of the write end of the pipe: this process between `pipe` and `close`,
and every child forked meanwhile. Lines carry numbers so that an answer can be
compared with what was written; progress lines are 0. `late` abstracts the
clock: in time, past the time-out, past the grace period. The child's side of
the time between `fork` and `exec` is modelled step by step (`LeadGroup`, `Arm`,
`CheckParent`, `Exec`); the solver writes, ends, and reacts to SIGTERM as it
likes. `Crash` is the death of the compiler at any moment. A child takes its
parent for gone if `getppid()` is 1, so the numbers of the compiler and of the
process that adopts its orphans are constants. A failing call ends in the place
`failed`: with an exception, or, where the last read or the `waitpid` after
SIGKILL fails, with a result that is cut short and that nobody knows to be
(`BreakOff`). `ImplementsToolCall` promises nothing of either.

### 2.4 ImplicationMonitor and AutomatonMonitor

`monitor.cpp` does not run when a property is checked: it emits a transition
system, and a step of the module is a step of that system. The inputs (clock,
`a`, `b`, disable) take any values; `previous`, `initialized` and `active[k]`
are the registers emitted. A property is a shape: the window `lo..hi`, `|->` or
`|=>`, with or without an outer `always`, atoms or delays as consequent, the
edge. `Violation` and `Match` are the nodes behind `bad` and behind the cover;
`Register` is the reset, hold or advance of one age; `InitialClock` is the
constraint that there is no edge at the first step. `Instantaneous` is the path
of `lower_sva.cpp` that needs no register. A cover of an instantaneous
implication is reached by a sample without an attempt as well, which
`MatchExact` says. `trace` is a history variable: the samples since the last
disable, of which the properties take the meaning of the implication.

`AutomatonMonitor` is the same for a property that needs an automaton:
`running[q]` is the register of its state `q`, `sampled` the sample event,
`letter` the valuation of the atoms, `choice` the input that chooses an edge of
an automaton that is not deterministic, and `Transition` the constraint that
cuts off runs that cannot go on. `Runs` is what the registers become, `Justice`
the node the solver is asked about. Automata are constants: what Spot makes of a
formula is checked where it is a table (2.7), and that guards of a deterministic
one do not overlap is an assumption. An automaton without states or edges has no
registers. `word` is a history variable again.

### 2.5 FormalTask and PropertyLowering

`pc` is where the thread that runs `run_formal` stands: `Route` is the router
with its validation, `SolveOnce` the SMT engine, `Single` the call of one back
end, `LaunchSafety` and `LaunchLiveness` the two `std::async`, `JoinSafety` and
`JoinLiveness` the two `get()`, `Unwind` the destructors of the futures when an
exception leaves the block, `Report` the writing of `report.json` and the
return. `Throw` is what the loop of `formal_matrix` does with an exception. A
job is one run of a back end and has an action for each of its stages; its
solver is a call of `Tool`, so the composition assumes of `run_process` exactly
what `RunProcessProofs` proves of it. A call is identified by its task and its
job; the AIGER back ends have one more, for the converter.

`SelectBackend` and `Refused` are the choice of a back end and everything it
throws at; there is one verdict operator per back end. The conventions of the
solvers are external (`Checked`, `Findings`, `FinalStatuses`, `Speaks`,
`Statuses`): Pono and Avy answer by their exit status, the others by text; Pono
is asked for the justice condition if the model has one, the others for bad
states; a solver may be killed, before or after it wrote its verdict, or not
start at all.

The kind of the tasks belongs to the session, and the tasks of a matrix differ in
engine and back end, as `FormalMatrixTask` has it. Nothing in the repository tells the exit statuses of
a BtorMC that leaves a k-induction open apart from those of one that is done, so
both are possible; `ProofCoversAllParts` is about IC3/PDR, which BtorMC refuses.

A session carries a `problem`: what router, engine and back ends look at.
`PropertyLowering` computes it from a property tree: `Temporal`,
`UnboundedLiveness`, `Recurrence`, `Fairness` are the features, `Decompose`,
`Simplify` and `Components` the passes on the HIR, and `Emitted` says which
kinds of BTOR2 properties a component becomes, which gives the parts of the
model (`ModelParts`). It is recursive, so only the sessions of `MCFormalTask`
use it; the theorems hold for any problem.

Two things the model shows that no property forbids. A cover whose environment
needs an automaton has a justice condition and takes the parallel path, which
does not translate the verdict: a target that is reached is reported as a
counterexample. And for a design without state the router recommends the SMT
engine also when the property is temporal; its own validation, or the engine,
then refuses it.

### 2.6 FormalModel: from a design to words

The semantic tree of a body is a record, with widths where slang gives types.
`LowerExpression` and `LowerStatement` are pure operators from a context to a
context, in the order of the calls of the C++ code, because the numbers of
temporaries and the order of operations are what later steps depend on.
`LowerFrontend` is `lower_design` with the verifier; `LowerBody` undoes and
retries members as `lower_body` does. `LowerToMir` flattens and verifies; then
each `Encode` is one operation of `MachineEncoder`, whose choice of a value to
evict (a walk over a hash table in the code) is a nondeterministic one.
`Tick` clocks module and machine together, so that what TLC explores is every
reachable state of the design.

`SvMeaning` is written from the rules of the language, with one convention of the
code: an output that is a register shows what it will be. The lowering keeps less than all of it; a design is `plain` where it does, and `EirMeansSource` is
about those: an `else` of a combinational block assigns only what the other
branch assigns and does not read it, a `default` likewise, labels are disjoint
constants, conditions have one bit, comparisons are signed or of values without
a sign, no conversion widens a signed value, a register gets one partial
non-blocking assignment, an output of a child is no register, an input of an
instance is no result of a later one. Designs outside the class are compiled and
encoded all the same.

Types are trees of words with ranges, names and packed structs. `TypesMeasured`,
an assumption TLC evaluates, compares their widths with the language's for types
with one packed range.

### 2.7 FormalModel: from a property to a model

`BuildModel` is `build_transition_system` for one named directive and its
environment, with the passes or without; `Explore` begins in any state the
initial values leave open; `ModelStep` is a step of model and module under
inputs that the constraints admit. `trace` holds what each directive sampled,
which is a history the code has no equal of: it gives `SvMeaning` the ticks a
property looks back at. A design may stand under a host, whose names and flags
`LowerHardware` enters in the table a directive is read with.

`LowerSvaDirective` takes the path the code takes: one step, the registers of a
bounded implication, or an automaton. Spot itself is external: `Spot` is a table
of five automata in `MCCompile`, and `SpotTranslates`, an assumption TLC
evaluates, checks each of them against its formula on all lassos of up to three
letters. The formulas are the code's own: `TemporalFormula` gives meaning to
properties and to formulas, sequences by the ticks they match, on words that are
lassos. An abort is read as the language has it: its condition is watched until
the body is decided. `accept_on(c) p` is true of a word if `p` is, or if `c`
comes up and `p` is true of the word cut off there, with ticks behind the cut in
which everything holds; `reject_on` is its dual (`CutAt`, `Unseen`, `Dual`). The
code looks at `c` in the first tick only, so the directives have the aborts for
which that is the same, and `LateAbortsDiffer`, an assumption TLC evaluates, has
the abort of a test for which it is not (section 6).

`FourState` is the lowering with two masks for every value (`EIRToIR.cpp`) on
the program as `Hierarchy.cpp` flattens it. `EquationProof` evaluates the terms
`property.cpp` gives to Z3 for all assignments.

### 2.8 Host

The host is one thread, so an action is what happens between two calls that
somebody else can answer or that may throw: the transport, the device, a phase
of a component, a delta of the processes. `pc` and `ret` say where it stands;
`link` is the queue of the transport, which answers RETRY when it is full;
`device` evaluates a job when all messages before it are taken. A run may load
the library again: `nba` is not cleared then, as in the code. `loop` is the
transport loop a design without a test bench gets. `TransportError` may happen
in each call of an exchange, and wherever the loop reads or writes a file. A
drain begins with a delta of the processes; a tick raises the clocks, gives the
clocked blocks of the library their turn, in which they may store any variables
that are free, and lowers them. No name is bound twice.

`Lockstep` says what the host relies on: an answer is given for the inputs as
they are, and all outputs held are of one answer. The mapping takes the device's
outputs as soon as the job waited for is done. In the loop nobody looks at the
status of an exchange, so after an error (`ignored`) nothing is promised until
the next load.

### 2.9 VirLowering and ProcessMeaning

`VirLowering` has every expression and statement `Expression.cpp` and
`Statement.cpp` accept; a function is a sequence of blocks. `Coroutine` and
`Procedure` are the two ways a body becomes a function. `VirMeaning` executes a
function once printed: an operand that is not defined on the path, or has
another type than printed, is an error, as it is for clang. A call of a service
is recorded with its arguments, and answered from the `world` of the step.
`ProcessMeaning` runs the body from the source, with a stack of what is left to
do. `LowerBody` makes the function; each `Resume` is a step of both under any
answers of the services and any values of the signals.

`Liveness`, `Dominators` and the control flow are operators on the functions
themselves, compared with their definitions by paths (`AnalysesExact`).

### 2.10 Primitives

What a method does under its mutex is one action. `at[t]` is the call a thread is
in, `asleep` who sleeps on a condition variable; `NotifyOne` and `NotifyAll`
wake, `Spurious` wakes for no reason, and a thread that wakes looks again
(`Acquire`, `Receive`, `Wait`). `role` says which methods a thread calls: any of
them, in any order, as often as it likes. The handle of a thread and the loop of
`run()` have no lock in the code, so `RolesAssumption` gives each one caller.
`Worker` is the thread of `Clock`, between whose flip, reset and trigger others
run; `wait_edge` resets before it waits, which are two actions as well, and
`since` remembers the edges there were at its call. `run()` looks at `stopped_`
and takes a task in two actions. A task and a method may call scheduler and store
again; constructors and methods run between two actions, without the lock.

What the model contains and no property forbids, since nothing speaks of it: the
reset of one `wait_edge` can take an edge from another thread that was woken for
it and has not looked; a `stop()` before `run()` is forgotten, as `run()` begins
by clearing it; a clone shares the native object of its original.

### 2.11 UvmServices

One thread calls the services, so an entry point of `UVM/ABI.cpp` is one action,
with every call it makes into the stores behind it. The exception is a write to a
port: `Walk` takes one node of its walk over the graph, `CallSubscriber` enters
the program, which may then call any service (another write, `connect`,
`reset`), and `Deliver` pushes to one of the FIFOs found. `writes` is the stack
of the calls of `write` that have not returned; `Throws` empties it, because
nothing between the entry points catches an exception. What a program calls and
the names it passes are its script; a program passes handles it was given, or
null.

A FIFO or a collection is an object with a field `size` and a field for each
index. `Moved` and `Removed` are the loop that closes the gap of an erased item
and the smaller size; a field that is missing where the code reads one is an
exception (`Broken`). `ResetServices` empties each service and keeps what the
code keeps. `Spawns` looks for a process that can be joined before it makes one.
Patterns of the configuration are sequences of letters with wildcards, of which
the code looks at the first.

`ServiceQueues` is the abstract queue: the mapping reads the list of a queue off
its fields. `FactoryCreate` makes the object as the replacement's type and
registers the component under the requested one, whose phase callbacks it
keeps, as the code does. `set_verbosity`, `get_next_item` and `random_range`
keep no state the properties look at and are left out.

## 3. Runs

State counts are of distinct states.

| Run | Question | Bounds, and why they are enough |
|---|---|---|
| `compile_all` (5 316) | does the flattened module mean the source, do the words compute the module, does the model go in step, does it report what directives say, is every run of an automaton kept, do formulas mean their properties, are unknown bits kept apart, are equations decided right | nineteen designs, each for a kind of construct: branches, loops and functions, memories, structs and parts, chains and trees of instances, counters, arithmetic, a host; words of up to 4 bits, which have a sign, a carry and a middle; 4 registers, where everything is evicted, and 8; all inputs in all reachable states; twelve designs have directives with a name; words are lassos of up to three letters, counters of sequences are split at `StarLimit` = 3, which stands for 254, and words are looked at for `Horizon` = 9 ticks, after which anything may match up to `Beyond` = 16; four-valued designs have up to `BitLimit` = 6 bits |
| `host_script` (1.4 M) | does the device see one edge per tick and answer what is offered, do components get their phases in order, does a store stay in its run, does an exchange end | two runs in one process, two ticks, a transport that holds two messages (fewer than an exchange has), two component types, one queued store, every call may fail |
| `uvm_core` (1.3 M) | turns, joined tasks, refinement of `RunPhase`, with its wake-ups and endings | 3 processes: one that runs, one before and one behind it in the snapshot; two events, the clock's and another; four deltas: spawn, wait, wake, finish |
| `uvm_wrap` (1.9 M) | reported deadlocks, what a drained phase leaves, while time wraps or equals `UINT64_MAX` | two processes, two owners, a known and an unknown task name, four instants: a wake time may fall behind, on or before `now` |
| `bench_uart` (1 632) | the UART bench drains and every step ends, under fairness | test, driver, monitor, scoreboard, a sequence, and a task whose loop needs the delay the lowering adds; ends by `Horizon` |
| `bench_share` (3 069) | no lost wake-up, no item lost, repeated or reordered; does every function do what its body says, keeping over a suspension nothing but what it stored (`CoroutineFollows`) | two producers and two consumers on one FIFO; thirteen bodies, between them every statement and suspension the repository's benches use; 7 and 8 bits stand for 32 and 64; in a step the services answer an item or none and 0 or 1, and the signals are 0 or 1 |
| `proc_two` (636 k) | signals, answers and crash with two jobs, refinement of `ToolCall`; calls return: by the time-out, or with their solver, beside one that hangs | the job with a time-out reports progress as often as it likes, hangs, is deaf to SIGTERM or fills its pipe (`CallsReturn` asks only that it does not report progress for ever); the other has none, writes its answer and holds the first one's pipe; pipes of one line, one and two lines of text: a pipe is empty, full, and drained again; failing system calls; the compiler is process 2, orphans go to process 1 |
| `proc_chatty` | *violated*: a solver that writes without a pause | see section 6 |
| `impl_all` (271 k) | `bad` and cover are exact (`VerdictsExact`); the registers follow a run of the automaton, lose none and add none (`RunFollowed`) | windows 0, 1, 0..2 and 1..2, both operators, with and without `always`, every edge; four samples: three attempts overlap in the longest window; four automata, three letters, four samples: guesses, runs that meet, that end, and that a disable begins again |
| `impl_bare` | *violated*: `a \|=> b` between atoms, without `always` | see section 6 |
| `primitives` (358 k) | is nobody left asleep, does each wait for an edge see one that came after the call, do `receive` and `stop()` return; does a write reach each end of the graph once, are lists whole, are they queues | three threads in nine programs, each about one or two primitives: two that sleep and one that wakes them or takes what they wait for; five items, three permits, three edges of a kind, four tasks at three times, four objects. Scripts of the services, each about those that share state: three handles (an item, its list and one other), three connections (two paths that join, or a loop), two items in a list, a write from a subscriber inside a write |
| `task_all` (159 k) | what is reported is what was decided; nothing left running; a session ends | every engine with every back end, on a safety, a liveness and a mixed property, one clock and two, wide sorts or not; covers; a stateless design; matrices of two tasks, the first of which ends in every way; solvers time out, die or cannot start; files and threads fail |

Some of the properties say nothing of some designs. `EirMeansSource` is about
plain ones (2.6). `FormulaMeans` leaves out directives whose atoms look back
(`$past`, `$rose`), which `DirectivesFollowed` looks at, and no directive has an
abort that matters after its first tick and does not begin anew at every tick. `UnknownsStayUnknown` has nothing to say where the encoder refuses: a design
with a packed value it does not know, or whose operations it cannot schedule.
`EquationsDecided` excepts proofs that rest on a name open in a body further
down, which the solver takes for the input of the same name.

Deadlock is not checked where the run phase, the last call, the script or the
compilation is over, or the samples reach their bound: the system may stop there.

Bounds named in the guards: `MaxProcs`, `MaxObjections`, `MaxNba` (UvmProcess),
`MaxItems`, `Horizon` (UvmBench), `MaxLines` (RunProcess), `MaxSamples`
(ImplicationMonitor), `MaxWord` (AutomatonMonitor), `MaxTasks` (FormalTask), `MaxPermits`, `MaxSent`,
`MaxEdges`, `MaxTasks`, `MaxTime` and `MaxObjects` (Primitives),
`MaxHandles`, `MaxLinks`, `MaxEntries`, `MaxCount` and `MaxWrites` (UvmServices), `MaxRuns`, `MaxTicks`, `MaxNodes`
and `MaxNba` (Host). `MaxSteps`, `MaxTime` and `PipeSize` are limits of the code or the system itself, made
small.

## 4. Fairness

- `FairBSpec`: weak fairness of the whole next-state relation. One thread
  executes scheduler and bodies; it does not stop while a step is possible. No
  fairness is assumed of conditions.
- `FairSpec` of `RunProcess`: each caller thread is scheduled; a child between
  `fork` and `exec` goes on; the kernel delivers SIGKILL, and SIGTERM to a child
  that has not started its solver; time passes. Nothing is assumed of a solver.
- `Patient`, its other specification, adds that a solver whose job has no time-out, and which is not
  chatty, writes what it has and ends.
- `FairSpec` of `FormalTask`: the thread of the task and the threads of the jobs
  are scheduled; a solver that runs ends, by itself or by its time limit, which
  is what `proc_two` shows of `run_process`.
- `FairSpec` of `Host`: the thread of the host goes on where it can, and the
  device works on what it was sent. A host that gets RETRY waits for the device,
  so nothing more is needed for an exchange to end.
- `FairSpec` of `Primitives`: the thread of the clock, a thread that is awake in
  `receive` and one that joins are scheduled, and get the mutex they ask for.
  Nothing is assumed of threads that are to send, trigger or stop.

## 5. Proofs

All theorems hold for every value of the constants that satisfies the named
assumptions.

**UvmProcess.** The inductive invariant `IInv` adds to the types: `Turns` (while
`run()` walks its snapshot, every process in it is still ready, and none is
fresh), `Quiet` (an empty snapshot means nobody is ready, which `Idle` relies on
when it moves time), `Latches` (what the objection latch remembers) and
`Budget`. `TurnsKept`, `SpawnedWaits`, `OneLive`, `DeadlocksAreReal` and the
action properties `DoneStays`, `WokenRight`, `KilledRight`, `TimeRight` follow;
they share one lemma that lists every way a status can change
(`EveryStatusChange`). `Refinement` proves that the delta loop implements
`RunPhase`. `DrainsClean` needs that nothing is queued before the phase begins
(`SetupQueues`), since the code looks at processes and objections when it stops
and at the queue only through the delta before; `ReadsStable` goes through the
actions: only the end of a delta writes the stored variable.

**UvmBench.** `BenchIsClient`: every step of a lowered bench is a step of the
kernel, so all of the above hold of benches; `BenchRefinesRunPhase` is its
corollary. `NoLostWakeup` needs `Awaited` (a sleeping consumer faces an empty
queue or an event still owed) and `Owed` (only the running process owes events);
`StreamsKept` and `GetsKept` are about the items.

**RunProcess.** `Placed` says which stage of the child goes with which place of
the caller, and `Kept` that the lines in the pipe, progress aside, are exactly
those written and not yet in the result, in increasing order. `Implementation`
proves the refinement of `ToolCall`: it needs both, because an answer is given
only when the child is reaped (`Placed`) and the pipe empty, when `Kept` leaves
nothing outside the result. `SignalsReach` rests on the group being set by the
parent before it polls. `NobodyLeftAlone` rests on the order of prctl and getppid
in the child, and on `Adopter = InitPid`, its hypothesis: a child forked before a
crash and armed after it gets no signal, and notices only if its new parent is
process 1. Its mutant, a child that never notices, is what the check amounts to
under any other adopter (section 6).

**ImplicationMonitor.** `RegistersRight` says what each register stands for: age
`k` is set exactly if an attempt started `k` samples ago and none of the samples
in its window has answered it. `OneSampleMore` shows that a sample preserves it,
whatever other attempts are alive; `ViolationRight` and `MatchRight` read the
verdict off the oldest and the ripe registers, and `VerdictsRight` is both. They assume `DelaysKept`, that no
property is a bare `|=>` between atoms: section 6 shows why it is needed.
`SamplesRight` needs no assumption on the properties.

**AutomatonMonitor.** `RunAlwaysFollowed` holds for every automaton. Its
invariant says that one register is set, for a state that a run over the samples
ends in (`OneRun`). `OneEdge` keeps it: no two edges are taken at once, because
the guards of a deterministic automaton do not overlap and the input names one
edge of another; and the constraint sees to it that one is taken. `OpenEdge` is
the other half: every open edge can be chosen, so that the constraint loses no
run. `NothingChosen` adds that the run is the only one where the automaton is
deterministic; `RunsAgree` proves it by the first place at which two runs part.

**FormalTask.** Five parts make the invariant inductive. `Placed` says which
jobs there are at each place of the thread, `Matched` that a solver runs only
while its job waits for it, which gives `NothingLeft`. `Decided` follows a
verdict from what the solver found out, through its exit status and text, to the
result of the job; its core is `VerdictRight`: no back end takes a killed or
unstartable solver for a proof or a counterexample. `Reporting` and `Past` carry
the results to the reports. `ProofsCover` then rests on the choice of back ends:
`WholeCovers` shows that a back end that knows safety only is never given a
justice condition, `PartsCover` that the two jobs together look at both parts.
The theorems hold for every set of sessions and any number of tasks.

**Host.** Three theorems and the refinement of `Lockstep`, for any bindings,
components, runs and ticks, and any transport. `Control` says which place goes
with which phase. `QueueKept`: what a process stores does not outlive its step,
unless the step ends the script, so that `StoresStayHome` needs to look only at
what was queued outside. `Tree` follows the calls of each node within a phase:
`Due` speaks of whole phases, and a node may be added while the tree is walked.
`Line` says that what the device has, or will have when it has taken the messages
under way, is what the host offers; `Held` that the outputs held are those of
the last answer, and of none that is only half read. `Edge` is about ticks: what
the device has seen of the clocks, given where the host is in its exchange; it
needs `Line` and `Held`. A host without outputs asks for nothing and so runs
ahead of its device, in the code as in the model, which is why
`ExchangeInLockstep` has the hypothesis `Outputs # <<>>`.

**Primitives.** For any finite set of threads, any programs and any bounds. That
nobody sleeps in vain has three parts, one for each kind of condition; for the
channel it is a count: while a thread sleeps in `receive`, the items are at most
as many as the receivers that are awake (`ChannelQuiet`), which a `send` keeps
because it wakes one of those asleep, and a `receive` because it takes one of
each. `EdgesSeen` says that an event found triggered was triggered after every
call that waits for it; `Queued` that a task in the queue comes after those of
its time that have run, and lies before now only if it was late; `Handles` that
all handles lie below `next`. `Apart` says which threads a step leaves alone, so
that each part is proved only of the primitive it is about.

**UvmServices.** For any scripts, graphs and bounds. The inductive invariant
`ServicesInv` has two parts beside the types. `Listed` says that each list has
an object of its own that lives, knows its size and has every field below it: an
entry point looks at an object only through its list, so the part must say that
no other object is one and that no two lists share theirs, or the store of one
would break the other. `WritesNested` says that only the innermost write goes
on, the others being in a subscriber, and `Walked` of its walk that the nodes
visited are closed under connections but for those pending, all of them reached
from the port, each leaf's FIFO and subscribers noted once. The graph cannot
change while it is walked, since a program is entered only when the walk is
over; when the walk has nothing left, the visited nodes are exactly the reached
ones, which is `WritesAlwaysReach`. `QueuesImplemented` is the refinement of
`ServiceQueues`, action by action: a push appends, an erase takes out one item
and moves the rest, and every other action leaves each list alone.
`HandlesNotReused` says that a handle the program keeps past a reset names
nothing, never another object; `ParentsAlwaysOlder` that a component's parent
has a smaller handle, so that the walk to the root for its path ends; and
`WildcardStandsForAny` that the test of prefix and suffix is what a wildcard
means: a pattern matches a name exactly if some letters in place of its first
wildcard give it.

Some of the theorems have no run of their own property any more, because the
proof covers every value: of the scheduler `SpawnedWaits`, `DoneStays`,
`TimeRight`, and `WokenRight` and `KilledRight`, which the refinement checked in
`uvm_core` implies, and `ReadsStable`; of the primitives `StreamKept`,
`InstantsRight`, `BackRight`, `JoinedRight` and `HandlesRight`; `GetsKept`,
`SamplesRight`, `AllTried` and the types.

Only model-checked:

- everything under fairness (`Drains`, `StepsEnd`, `CallsReturn`,
  `SessionEnds`, `SynchronizeReturns`, `WaitsEnd`), since the prover has no rule
  for it;
- what `compile_all` says of translations (`EirMeansSource`, `MachineComputes`,
  `ModelFollows`, `DirectivesFollowed`, `FormulaMeans`, `UnknownsStayUnknown`,
  `EquationsDecided`) and `CoroutineFollows` of `bench_share`: they are about
  operators that are recursive over trees, where the prover has neither
  recursion nor induction. Their smaller relatives about registers
  (`VerdictsRight`, `RunAlwaysFollowed`) and about queues and scheduler
  (`BenchIsClient`) are proved.

## 6. Disagreements with the repository's own words

- `proc_chatty`: the inner loop of `run_process` reads for as long as there is
  output and looks neither at the clock nor at the child. A solver that prints
  progress without a pause is not timed out, although the scripts ask for it
  (`tests/formal_multiclock/run.tcl`).
- `impl_bare`: an implication between atoms that is not inside an `always` is
  lowered as the disjunction of `~a` and `b` in the same cycle, also for `|=>`,
  whose consequent belongs to the next one. The design of a test says which
  cycle is meant (`tests/formal_multiclock/rtl/multiclock_bridge.sv:32-34`).

What else was met while the code was translated, and what the models take as it
is, or the designs and bodies stay away from, since nothing in the repository
speaks about it:

- Types (`context.cpp`): of several packed ranges the first counts (`logic
  [3:0][7:0]` has 4 bits); `byte` and `shortint` have one bit; `reg` is
  two-valued; a name for the name of a struct has no members.
- Statements: of two non-blocking assignments to parts of a register the first
  is lost (`statement.cpp:84,112,162`); the `else` of a combinational block runs
  unguarded; unsigned comparisons compare with a sign; arguments of a call are
  evaluated among the formals bound so far (`expression.cpp:128-131`).
- Instances: an input that is the result of a later instance keeps its local
  name (`Flatten.cpp:171,194`); the same design loses operations to dead code
  elimination, which walks backwards (`DeadCode.cpp:33-49`).
- A yielded state read is exported after the commit (`MachineEmitter.cpp:255-276`).
- Monitors: the condition of a bare assertion or cover with `$rose` or `$past` is
  not sampled (`lower_sva.cpp:33-41`); `$rose` looks at more than the lowest
  bit; a conversion changes the width of a result and not of its operands
  (`SVA/Lowering/expression.cpp:87-91`), so BTOR2 may be ill-sorted.
- Aborts: the condition of `accept_on` and `reject_on` is looked at in the first
  tick only (`spot_automaton.cpp:99-107`), so `accept_on(stop)` around a property
  that takes several ticks, as in `tests/complier/frontend/sva_shapes.sv:17`,
  reports violations after `stop` (`LateAbortsDiffer`).
- Temporal properties: `nexttime[0]` is `nexttime`; `always [m:$]` and
  `eventually [m:$]` ignore `m`; `followed_by` is refused; the difference
  between strong and weak sequences is lost; an assumption that needs an
  automaton becomes a justice condition (`monitor.cpp:301`).
- Match items write their local variable at every step whose guard holds, also
  between two samples (`buchi_monitor.cpp:164-190`), and all attempts share it.
- `EIRToIR.cpp` cannot schedule a design with an `initial` block, because a
  literal is never ready for a state write; the model is then not written.
- Equations (`property.cpp:65-78`): a negation and a `disable iff` around the
  equation are dropped; a name that nothing sets in a child is the solver's
  variable of that name, also the parent's.
- VIR: `repeat` is unrolled, so a `break` in it leaves the loop around it; class
  members are globals shared by all instances; a failed `$cast` overwrites its
  target; `fork ... join_none` runs in order; a `forever` that suspends on one
  branch of a condition gets no added delay, and the other branch spins.
- Solver processes: `getppid() == 1` (`process.cpp:30`) finds a dead parent only
  where orphans go to process 1. Under a subreaper (a session manager, the init of
  a container that is not process 1 of it) a child forked just before the compiler
  dies runs its solver for ever; and where the compiler itself is process 1 every
  child exits with 143. A last read that fails, or a `waitpid` that fails after
  SIGKILL, goes unnoticed (`process.cpp:94-105`): the text is cut short, the
  status may be 0.
- Host: queued stores survive `Reset`; the transport loop uses an import without
  looking at its status (`Transport.cpp:47-53`), which `vir.yaml:37-39` asks for.

## 7. Not modelled, and the plan

Not modelled: printers, parsers and dumps (layout), logging, dynamic loading,
slang, Spot, Z3 and clang (third-party; Spot's automata are checked, Z3 is all
assignments), the stub files of `eir/lib` (empty), the code of the emulator (not
published), data inside items and messages, real numbers. Of sequences, local
variables and match items; of aborts, whether they are synchronous; of VIR,
`SSABuilder` and the specification path of `IRGen`, which only tests call. Of
the runtime, `Port` and `Time`; of the UVM services verbosity, printing and random
ranges. Nested constructions and calls of the object store
are one deep; that a thread can be created is taken for granted.

What is left, in this order:

1. `SharedModel`: the verdicts of solvers on the two parts of a split model, one
   of which keeps the constraint that cuts off the runs of an automaton
   (`PropertyPartition.cpp`, `buchi_monitor.cpp:170`).
2. The analyses of VIR (`Liveness`, `Dominators`) as fixed points of functions,
   with a proof that what they return is closed under the flow.
3. `ProgramFile`: the program written and read back.
