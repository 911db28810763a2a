----------------------------- MODULE FormalModel -----------------------------
(***************************************************************************)
(* One compilation of a design, to words of the emulator or to the model   *)
(* of one property, and the steps of what was compiled.                    *)
(***************************************************************************)
EXTENDS ModuleLowering, MachineEncoder, FourState, EquationProof, SvaMonitor, SvMeaning

(***************************************************************************)
(* One compilation, from a design to words of the emulator, and the clock  *)
(* cycles of what was compiled: eir holds the states of the flattened      *)
(* module, cells what the machine keeps at the addresses of its bindings.  *)
(***************************************************************************)

CONSTANTS
    Designs,      \* the designs that may be compiled
    Registers     \* the register counts of the targets

VARIABLES design, registers, stage, program, flat, encoder, pc, eir, cells
vars == <<design, registers, stage, program, flat, encoder, pc, eir, cells>>

NoModule == [name |-> "", ops |-> <<>>, inputs |-> <<>>, results |-> <<>>, states |-> <<>>, err |-> ""]
NoEncoder == [err |-> ""]

Init == /\ design \in Designs
        /\ registers = 0
        /\ stage = "source"
        /\ program = <<>> /\ flat = NoModule /\ encoder = NoEncoder /\ pc = 1
        /\ eir = Nothing /\ cells = Nothing

\* The frontend lowers every body, and the verifier looks at the program.
LowerFrontend ==
    /\ stage = "source"
    /\ program' = LowerDesign(design)
    /\ stage' = IF (\A i \in 1..Len(program') : program'[i].err = "") /\ Verified(program')
                THEN "eir" ELSE "failed"
    /\ UNCHANGED <<design, registers, flat, encoder, pc, eir, cells>>

(***************************************************************************)
(* Flattening, and the verification of the machine instructions made of    *)
(* the operations: every operation has its operands, what is used has been *)
(* defined, and the yield is the last one and has one operand a result.    *)
(***************************************************************************)
Arity(op) == CASE op \in {"not", "redand", "redor", "redxor", "zext", "sext", "trunc", "slice",
                          "state_write"} -> 1
               [] op = "mux" -> 3
               [] op = "state_read" -> 0
               [] OTHER -> 2

MirVerified(m) ==
    LET inputs == ToSet(NamesOf(m.inputs)) IN
    \A i \in 1..Len(m.ops) : LET o == m.ops[i] IN
       /\ IF o.op = "yield" THEN i = Len(m.ops) /\ Len(o.args) = Len(m.results)
          ELSE Len(o.args) = Arity(o.op)
       /\ Uses(o) \subseteq inputs \cup Defines(SubSeq(m.ops, 1, i - 1))
       /\ o.state # "" => o.state \in ToSet(NamesOf(m.states))

LowerToMir ==
    /\ stage = "eir"
    /\ flat' = Flattened(program)
    /\ registers' \in Registers
    /\ IF flat'.err = "" /\ MirVerified(flat')
       THEN stage' = "mir" /\ encoder' = NewEncoder(flat', registers')
       ELSE stage' = "failed" /\ UNCHANGED encoder
    /\ UNCHANGED <<design, program, pc, eir, cells>>

\* One machine instruction.  After the last one the states are all zero.
Encode ==
    /\ stage = "mir"
    /\ encoder' \in EncodeOperation(encoder, flat.ops[pc])
    /\ pc' = pc + 1
    /\ stage' = IF Failed(encoder') THEN "failed" ELSE IF pc = Len(flat.ops) THEN "built" ELSE "mir"
    /\ IF stage' = "built"
       THEN /\ eir' = [n \in ToSet(NamesOf(flat.states)) |-> 0]
            /\ cells' = [i \in 0..(Len(encoder'.bindings) - 1) |-> 0]
       ELSE UNCHANGED <<eir, cells>>
    /\ UNCHANGED <<design, registers, program, flat>>

\* Every sequence of values of the inputs.
Stimuli(decls) ==
    Fold(LAMBDA S, d : {Append(s, x) : s \in S, x \in 0..(2^d.w - 1)}, {<<>>}, decls)

Assigned(decls, values) ==
    [n \in ToSet(NamesOf(decls)) |-> values[CHOOSE i \in 1..Len(decls) : decls[i].n = n]]

Cycle(values) == Evaluate(flat, Assigned(flat.inputs, values), eir)

\* The host puts the inputs at their addresses and the machine runs its words.
Executed(values) ==
    LET Input(i) == CHOOSE j \in 1..Len(flat.inputs) : flat.inputs[j].n = encoder.bindings[i + 1].n
        present == [i \in DOMAIN cells |-> IF encoder.bindings[i + 1].kind = "import"
                                           THEN values[Input(i)] ELSE cells[i]]
    IN  Execute(encoder.words, present, registers)

\* What stays at an address from cycle to cycle.
Kept(after) == [i \in DOMAIN after |-> IF encoder.bindings[i + 1].kind = "state" THEN after[i] ELSE 0]

Tick ==
    /\ stage = "built"
    /\ \E values \in Stimuli(flat.inputs) :
          /\ eir' = Cycle(values).next
          /\ cells' = Kept(Executed(values))
    /\ UNCHANGED <<design, registers, stage, program, flat, encoder, pc>>

Next == LowerFrontend \/ LowerToMir \/ Encode \/ Tick

Spec == Init /\ [][Next]_vars

-----------------------------------------------------------------------------

(***************************************************************************)
(* The other use of a lowered program: the model of one property, a BTOR2  *)
(* system of the flattened hardware, of its host and of the monitors of    *)
(* the directives, and the runs a solver explores of it.  eir holds what   *)
(* the registers of the hardware are meant to be, trace what the           *)
(* directives are meant to have sampled.                                   *)
(***************************************************************************)
VARIABLES property, system, model, trace
formalVars == <<property, system, model, trace>>

FormalInit == Init /\ property = "" /\ system = EmptySystem /\ model = Nothing /\ trace = Nothing

\* A design is verified as it is, or under a host: a module without ports that
\* has the directives, and names and flags of its own.
HostOf(d) == IF "host" \in DOMAIN d THEN d.host
             ELSE [body |-> Last(d.bodies), aliases |-> <<>>, instances |-> <<>>, flags |-> <<>>]
RootBody(d) == HostOf(d).body
DirectivesOfDesign(d) == FormalDesign(IF "host" \in DOMAIN d THEN Append(d.bodies, d.host.body) ELSE d.bodies)

(***************************************************************************)
(* build_transition_system(): the directive asked for and the environment, *)
(* the hardware without its dead code, verified again and flattened, then  *)
(* the directives on top of it; the passes run on both or on neither.      *)
(***************************************************************************)
TransitionSystem(d, hardware, name, optimized, capture) ==
    LET directives == <<NamedDirective(RootBody(d), name)>> \o EnvironmentDirectives(RootBody(d))
    IN  On(LowerHardware(hardware, HostOf(d), capture), LAMBDA built :
        On(LowerDirectives(built.c, directives, name, optimized), LAMBDA r :
           Done(IF optimized THEN OptimizeSystem(r.c) ELSE r.c)))

\* What came of it, when the program could be verified and flattened.
Built(r, verified) ==
    IF verified /\ r.c.err = "" /\ SystemVerified(r.c)
    THEN stage' = "model" /\ system' = r.c
    ELSE stage' = "failed" /\ UNCHANGED system

BuildFrom(hardware, verified, name, optimized) ==
    \E r \in {TransitionSystem(design, hardware, name, optimized, capture) : capture \in Captures(hardware)} :
        Built(r, verified /\ hardware.err = "")

BuildModel ==
    /\ stage = "eir"
    /\ flat' = Flattened(program)
    /\ \E x \in ToSet(MembersOf(RootBody(design), "assertion")), optimized \in BOOLEAN :
          /\ x.n # ""
          /\ property' = x.n
          /\ BuildFrom(Flattened(HarnessProgram(program)), Verified(HarnessProgram(program)), x.n, optimized)
    /\ UNCHANGED <<design, registers, program, encoder, pc, eir, cells, model, trace>>

(***************************************************************************)
(* What a directive sees: the inputs, the outputs, the registers and those *)
(* of the instances, under the names the host has for them too.            *)
(***************************************************************************)
Driven(values) == Assigned(flat.inputs, values)

Results(values) ==
    LET out == Cycle(values).out
    IN  [n \in ToSet(NamesOf(flat.results)) |-> out[CHOOSE i \in 1..Len(out) : flat.results[i].n = n]]

Hardware(values) ==
    [leaf \in {flat.states[i].leaf : i \in 1..Len(flat.states)} |->
        eir[(CHOOSE d \in ToSet(flat.states) : d.leaf = leaf).n]] @@ Driven(values) @@ Results(values)

FlagNames(host) == {host.flags[i].name : i \in 1..Len(host.flags)}

SeenBy(host, env) ==
    [n \in {host.aliases[i].host : i \in 1..Len(host.aliases)} |->
        env[(CHOOSE a \in ToSet(host.aliases) : a.host = n).hardware]]
      @@ [n \in FlagNames(host) |-> trace[n].flag]
      @@ [n \in {x \o d.rest : x \in ToSet(host.instances), d \in ToSet(flat.states)} |->
             eir[(CHOOSE d \in ToSet(flat.states) : \E x \in ToSet(host.instances) : n = x \o d.rest).n]] @@ env

Visible(values) == SeenBy(HostOf(design), Hardware(values))

Directives == {x \in ToSet(MembersOf(RootBody(design), "assertion")) : x.n = property \/ x.kind \in Environment}
BodyFrame == Frame(RootBody(design), design.subs)

\* What is sampled of each directive, and of each flag of the host.
Flagged(f, was, env) ==
    [flag |-> Bit(was.flag = 1 \/ (was.clock = 0 /\ env[f.clock] = 1)), clock |-> env[f.clock]]

Observed(env) ==
    [n \in FlagNames(HostOf(design)) |->
        Flagged(CHOOSE f \in ToSet(HostOf(design).flags) : f.name = n, trace[n], env)]
      @@ [n \in {x.n : x \in Directives} |->
             Sampling(RootBody(design), CHOOSE x \in Directives : x.n = n, trace[n], env, BodyFrame)]

\* A solver begins with any state the initial values leave open.
Explore ==
    /\ stage = "model"
    /\ model' \in Beginnings(system)
    /\ eir' = [n \in ToSet(NamesOf(flat.states)) |-> IF n \in StateNames(system) THEN model'[n] ELSE 0]
    /\ trace' = [n \in FlagNames(HostOf(design)) |-> [flag |-> 0, clock |-> 1]]
                  @@ [n \in {x.n : x \in Directives} |-> Unsampled]
    /\ stage' = "explored"
    /\ UNCHANGED <<design, registers, program, flat, encoder, pc, cells, property, system>>

\* The edges an automaton of several at a time may be told to take.
Choosers == {o \in ToSet(system.ops) : o.op = "input" /\ o.name \in {n \o ".edge" : n \in DOMAIN system.automata}}
Picks ==
    LET most == UNION {0..(2^o.w - 1) : o \in Choosers}
    IN  {f \in [{o.name : o \in Choosers} -> most] : \A o \in Choosers : f[o.name] < 2^o.w}

Values(values, picks) == Valuation(system, picks @@ Driven(values), model)

Advanced(nodes) == Admitted(system, nodes) /\ model' = Following(system, nodes)

\* One step of the model, under what its constraints leave of the inputs.
ModelStep ==
    /\ stage = "explored"
    /\ \E values \in Stimuli(flat.inputs), picks \in Picks :
          /\ Advanced(Values(values, picks))
          /\ eir' = Cycle(values).next
          /\ trace' = Observed(Visible(values))
    /\ UNCHANGED <<design, registers, stage, program, flat, encoder, pc, cells, property, system>>

FormalNext == \/ Next /\ UNCHANGED formalVars
              \/ BuildModel \/ Explore \/ ModelStep

FormalSpec == FormalInit /\ [][FormalNext]_<<vars, formalVars>>

---------------------------------------------------------------------------
(* What a compilation owes its source, and what the model of a property    *)
(* owes the design and the property.                                       *)

(***************************************************************************)
(* In every reachable state of a design and for all inputs, the flattened  *)
(* module computes what the source means, outputs and next states.  The    *)
(* lowering turns branches into multiplexers, resolves instances that wait *)
(* for values, and orders what it made; designs of the language it does    *)
(* not keep are left out (Plain).                                          *)
(***************************************************************************)
EirMeansSource ==
    stage = "built" /\ design.plain =>
        \A values \in Stimuli(flat.inputs) :
            LET meant == DesignMeaning(design, program, values, eir)
            IN  Cycle(values).out = meant.out /\ Cycle(values).next = meant.next

(***************************************************************************)
(* The words the emulator runs compute what the flattened module does,     *)
(* with few registers as with many, whatever value each spill evicts: all  *)
(* states, and all results.  A result that is a state read shows the state *)
(* after the commit.                                                       *)
(***************************************************************************)
Seen(i, cycle) ==
    LET a == Last(flat.ops).args[i]
        reads == {o \in ToSet(flat.ops) : o.op = "state_read" /\ IsVal(a) /\ o.res[1] = a.n}
    IN  IF reads = {} THEN cycle.out[i] ELSE cycle.next[(CHOOSE o \in reads : TRUE).state]

CellOf(n, kind) == Address(encoder, n, kind)

MachineComputes ==
    stage = "built" =>
        /\ \A n \in DOMAIN eir : cells[CellOf(n, "state")] = eir[n]
        /\ \A values \in Stimuli(flat.inputs) :
              LET after == Executed(values)
              IN  \A i \in 1..Len(flat.results) :
                     after[CellOf(flat.results[i].n, "export")] = Seen(i, Cycle(values))

(***************************************************************************)
(* The model a solver explores goes in step with the hardware: from every  *)
(* state it may begin with and under all inputs its constraints leave, its *)
(* registers have the values the flattened module gives them, step after   *)
(* step, and its outputs what the module shows, or the register that took  *)
(* their name.  Dead code elimination, the lowering to terms and the       *)
(* passes over them lie between.  Every term has the sort BTOR2 asks for.  *)
(***************************************************************************)
SomePicks == CHOOSE picks \in Picks : TRUE
ModelOutput(values, i) == Values(values, SomePicks)[system.outputs[i].value]
ShownValue(values, i) ==
    LET n == system.outputs[i].name
        takers == Takers(flat, n)
    IN  {eir[t] : t \in takers} \cup (IF takers = {} THEN {Results(values)[n]} ELSE {})

ModelFollows ==
    /\ stage = "model" => WellSorted(system)
    /\ stage = "explored" =>
          /\ \A n \in DOMAIN eir \cap StateNames(system) : model[n] = eir[n]
          /\ \A values \in Stimuli(flat.inputs) :
                \A i \in 1..Len(system.outputs) : ModelOutput(values, i) \in ShownValue(values, i)

(***************************************************************************)
(* What the solver is asked is what the directive says: a bad state is     *)
(* reached exactly when an attempt of the assertion fails at a tick of its *)
(* clock, or one of the cover matches, that no disable condition has ended *)
(* since it began; and an assumption admits exactly the inputs that keep   *)
(* it.  The sampled values, the ages of the attempts and the edges are     *)
(* registers of the model by now.                                          *)
(***************************************************************************)
Assumed == {x.n : x \in {z \in Directives : z.kind \in Environment}}
Obeys(nodes, names) == \A p \in ToSet(system.props) :
                         p.kind = "constraint" /\ p.name \notin names => nodes[p.condition] = 1
Possible(nodes) == Obeys(nodes, Assumed)

Judged(x, v) ==
    /\ ~v[1].dropped
    /\ IF x.kind = "CoverProperty" THEN Matched(Core(x.spec), v, BodyFrame) ELSE Fails(Core(x.spec), v, BodyFrame)

Sees(x, env) == /\ Ticks(ClockOf(RootBody(design), x), trace[x.n], env)
                /\ Judged(x, View(x, trace[x.n], env, BodyFrame))

Reported(x, nodes) ==
    \E p \in ToSet(system.props) :
        IF x.n \in Assumed THEN p.kind = "constraint" /\ p.name = x.n /\ nodes[p.condition] = 0
        ELSE p.kind = "bad" /\ nodes[p.condition] = 1

MonitorsAgree(nodes, env) ==
    Possible(nodes) => \A x \in Directives : Reported(x, nodes) <=> Sees(x, env)

MonitorsSeeViolations ==
    stage = "explored" =>
        \A values \in Stimuli(flat.inputs) : MonitorsAgree(Values(values, SomePicks), Visible(values))

(***************************************************************************)
(* The registers of an automaton run it, on what the directive sampled: at *)
(* every tick that is not disabled it takes an edge whose guard holds, any *)
(* of them if there are several; where there is none the constraint cuts   *)
(* the run off; a disable condition begins it again; and it is fair where  *)
(* it ticks in an accepting state.  The choice of an edge is an input of   *)
(* the model, the clock is found by its edges, the guard is a term over    *)
(* the registers.                                                          *)
(***************************************************************************)
DirectiveOf(n) == CHOOSE x \in Directives : IF \E z \in Directives : z.n = n THEN x.n = n ELSE x.n = property

AtomHolds(atom, x, v) == IsTrue(CHOOSE e \in Atomics(Core(x.spec)) : Atom(e) = atom, v, BodyFrame)

RECURSIVE GuardHolds(_, _, _, _)
GuardHolds(g, atoms, x, v) ==
    IF g.at = 0 THEN g.yes
    ELSE GuardHolds(IF AtomHolds(atoms[g.at], x, v) THEN g.high ELSE g.low, atoms, x, v)

Running(n, bits) == {q \in 0..(system.automata[n].states - 1) : bits[RunBit(n, q)] = 1}

RunTargets(n, q, x, tick, v) ==
    LET a == system.automata[n]
    IN  CASE v[1].dropped -> {a.initial}
          [] tick /\ ~v[1].dropped -> {e.to : e \in {z \in ToSet(a.edges) : z.from = q /\ GuardHolds(z.guard, a.atoms, x, v)}}
          [] OTHER -> {q}

CutOff(n) == n \o ".transition"
HasProperty(nodes, kind, n) == \E p \in ToSet(system.props) : p.kind = kind /\ p.name = n /\ nodes[p.condition] = 1

RunsAs(n, q, x, tick, v, valuations) ==
    /\ {Running(n, Following(system, nodes)) : nodes \in {z \in valuations : HasProperty(z, "constraint", CutOff(n))}}
          = {{t} : t \in RunTargets(n, q, x, tick, v)}
    /\ \A nodes \in valuations :
          HasProperty(nodes, "justice", n) <=> tick /\ ~v[1].dropped /\ q \in ToSet(system.automata[n].accepting)

AutomatonAgrees(n, q, x, values) ==
    LET valuations == {nodes \in {Values(values, picks) : picks \in Picks} :
                          Obeys(nodes, Assumed \cup {CutOff(z) : z \in DOMAIN system.automata})}
        env == Visible(values)
    IN  valuations # {} =>
            RunsAs(n, q, x, Ticks(ClockOf(RootBody(design), x), trace[x.n], env),
                   View(x, trace[x.n], env, BodyFrame), valuations)

AutomatonFollows ==
    stage = "explored" =>
        \A n \in DOMAIN system.automata :
            \E q \in 0..(system.automata[n].states - 1) :
                /\ Running(n, model) = {q}
                /\ \A values \in Stimuli(flat.inputs) : AutomatonAgrees(n, q, DirectiveOf(n), values)

\* Both: whatever a directive becomes, its registers are about what it says.
DirectivesFollowed == MonitorsSeeViolations /\ AutomatonFollows

(***************************************************************************)
(* The formulas of the components a property is taken apart to, simplified *)
(* or not, hold together of a word exactly when the property does, by the  *)
(* rules of the language, at its first tick: delays, repetitions of more   *)
(* than one counts to, matches that overlap, ranges, weak and strong; and  *)
(* aborts, either of a property decided in one tick or anew at every tick: *)
(* the code looks at the condition of an abort in its first tick only, so  *)
(* that others do not mean what they say (see LateAbortsDiffer).           *)
(***************************************************************************)
RECURSIVE Parts(_)
Parts(node) == {node} \cup UNION {Parts(node.args[k]) : k \in 1..Len(node.args)}

SignalsOf(core) == {p \in UNION {Parts(Atom(e)) : e \in Atomics(core)} : p.k = "signal"}
LooksBack(core) == \E e \in Atomics(core) : \E p \in Parts(Atom(e)) : p.k = "call"

Letters(core) ==
    LET names == {p.n : p \in SignalsOf(core)}
        most == UNION {0..(2^p.w - 1) : p \in SignalsOf(core)}
        Sized(env) == \A p \in SignalsOf(core) : env[p.n] < 2^p.w
    IN  {{Atom(e) : e \in {z \in Atomics(core) : Meaning(z, env, BodyFrame) # 0}} :
            env \in {f \in [names -> most] : Sized(f)}}

FormulasOf(core, optimized) ==
    LET components == ComponentsOf(LowerProperty(core), optimized)
    IN  {LowerFormula(components[i].formula) : i \in 1..Len(components)}

MeansIt(core) ==
    \A w \in Lassos(Letters(core), 3), optimized \in BOOLEAN :
        TrueAt(core, w, 1) <=> \A f \in FormulasOf(core, optimized) : TrueOf(f, w, 1)

FormulaMeans ==
    stage = "source" =>
        \A x \in ToSet(MembersOf(RootBody(design), "assertion")) : LooksBack(Core(x.spec)) \/ MeansIt(Core(x.spec))

(***************************************************************************)
(* The transition system that keeps x and z never takes an unknown bit for *)
(* a known one: whatever the bits behind the masks turn out to be, in the  *)
(* outputs and the next states the bits without a mask have the values the *)
(* flattened module computes from them.  A multiplexer must not choose by  *)
(* a bit it does not know.  The program is flattened in two ways.          *)
(***************************************************************************)
Declared4(m) == m.inputs \o m.states

\* One signal in doubt, its low bit or all of it, or all signals.
InDoubt(decls, at, bits) == [i \in 1..Len(decls) |-> IF i \in at THEN Low(bits, decls[i].w) ELSE 0]
Doubts(decls) ==
    {InDoubt(decls, {i}, bits) : i \in 1..Len(decls), bits \in {0, 1, 3}} \cup {InDoubt(decls, 1..Len(decls), 15)}

\* Behind a mask the data is the opposite of what the bit turns out to be.
Presented(decls, values, doubt, mask) ==
    LET none == IF mask = ".xmask" THEN ".zmask" ELSE ".xmask"
    IN  Fold(LAMBDA env, i : LET n == decls[i].n IN
                (n \o ".data" :> (values[i] ^^ doubt[i])) @@ (n \o mask :> doubt[i]) @@ (n \o none :> 0) @@ env,
             NoMap, [i \in 1..Len(decls) |-> i])

\* Node i of nodes, with what else is at the same place of its value.
Agrees(nodes, data, x, z, meant) ==
    /\ nodes[x] & nodes[z] = 0
    /\ ((nodes[data] ^^ meant) | nodes[x] | nodes[z]) = nodes[x] | nodes[z]

OutputAgrees(s, nodes, i, meant) ==
    Agrees(nodes, s.outputs[3 * i - 2].value, s.outputs[3 * i - 1].value, s.outputs[3 * i].value, meant)

NextOf4(s, n, part) == StateCalled(s, n \o part).next
RegisterAgrees(s, nodes, d, meant) ==
    IF d.leaf \in TwoValued THEN TRUE
    ELSE Agrees(nodes, NextOf4(s, d.n, ".data"), NextOf4(s, d.n, ".xmask"), NextOf4(s, d.n, ".zmask"), meant)

StepAgrees(s, m, hardware, values, nodes) ==
    LET meant == Evaluate(hardware, Assigned(m.inputs, values),
                          [n \in ToSet(NamesOf(hardware.states)) |->
                              values[Len(m.inputs) + (CHOOSE i \in 1..Len(m.states) : hardware.states[i].n = n)]])
    IN  /\ \A i \in 1..Len(m.results) : OutputAgrees(s, nodes, i, meant.out[i])
        /\ \A i \in 1..Len(m.states) : RegisterAgrees(s, nodes, m.states[i], meant.next[hardware.states[i].n])

\* Designs with up to so many bits are looked at.
BitLimit == 6
BitsOf(decls) == Fold(LAMBDA n, d : n + d.w, 0, decls)

Sound(s, m, hardware) ==
    \A values \in Stimuli(Declared4(m)), doubt \in Doubts(Declared4(m)), mask \in {".xmask", ".zmask"} :
        LET env == Presented(Declared4(m), values, doubt, mask)
        IN  StepAgrees(s, m, hardware, values, Valuation(s, env, env))

UnknownsStayUnknown ==
    stage = "eir" =>
        \A s \in {LowerFourState(program)}, m \in {FlattenHierarchy(program)}, hardware \in {Flattened(program)} :
            s.err = "" /\ BitsOf(Declared4(m)) <= BitLimit => Sound(s, m, hardware)

(***************************************************************************)
(* The engine for equations is right in what it says: one it proves holds  *)
(* of all inputs, unless a body further down reads what nothing it looks   *)
(* at has set (a variable of the same name elsewhere is then the same),    *)
(* and one it refutes does not, when nothing but the inputs is left open.  *)
(***************************************************************************)
IsTrueFor(x, values) == Holds(Core(x.spec), <<[env |-> Visible(values)]>>, BodyFrame)

OpenBelow(r) == \E m \in r.c.made : m.path # <<>>
OnlyInputs(r) == \A m \in r.c.made : m.path = <<>> /\ m.var.n \in ToSet(NamesOf(flat.inputs))

SaysRight(r, x) ==
    /\ EquationVerdict(r) = "proved" /\ ~OpenBelow(r) => \A values \in Stimuli(flat.inputs) : IsTrueFor(x, values)
    /\ EquationVerdict(r) = "counterexample" /\ OnlyInputs(r) =>
          \E values \in Stimuli(flat.inputs) : ~IsTrueFor(x, values)

EquationsDecided ==
    stage = "model" =>
        \A x \in {z \in Directives : z.n = property} :
            SaysRight(ProveEquation(design, DirectivesOfDesign(design), RootBody(design), x), x)
=============================================================================
