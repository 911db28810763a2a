------------------------------ MODULE FourState ------------------------------
(***************************************************************************)
(* The hardware part of the model of a property: dead code elimination in  *)
(* the modules of the program, the lowering of the flattened module to a   *)
(* transition system, and the names a property may use for its parts.      *)
(***************************************************************************)
EXTENDS Btor2, ModuleLowering

\* An operation is kept when a later one uses a result of it, or when it has
\* an effect.  What only an earlier instance waits for is lost.
EliminateDeadCode(m) ==
    LET Effects == {"state_write", "export_write", "yield", "instance"}
        Step(k, o) == IF o.op \notin Effects /\ ToSet(o.res) \cap k.live = {} THEN k
                      ELSE [live |-> (k.live \ ToSet(o.res)) \cup Uses(o), ops |-> <<o>> \o k.ops]
    IN  [m EXCEPT !.ops = Fold(Step, [live |-> {}, ops |-> <<>>], Reverse(m.ops)).ops]

HarnessProgram(p) == [i \in 1..Len(p) |-> EliminateDeadCode(p[i])]

---------------------------------------------------------------------------
(* TwoStateEIRLowering.cpp. *)

Initialized == "formal_initialized"

\* The registers of a two-valued type begin with zero, the others with anything.
\* Declared registers are four-valued here; the one for initial blocks is not.
TwoValued == {"__initial_done"}

LowerInputs(s, m) ==
    LET Next(r, x) == On(InputNode(r.c, x.w, x.n), LAMBDA q :
                         Done(Signal([q.c EXCEPT !.vals = (x.n :> q.v) @@ @], x.n, q.v)))
    IN  Each(Done(s), Next, m.inputs)

LowerInitialized(s) ==
    On(Constant(s, 1, 0), LAMBDA zero :
    On(StateNode(zero.c, 1, Initialized), LAMBDA state :
    On(SetInitial(state.c, state.v, zero.v), LAMBDA set :
    On(Constant(set.c, 1, 1), LAMBDA one :
    On(SetNext(one.c, state.v, one.v), LAMBDA done : Done(Signal(done.c, Initialized, state.v)))))))

\* In the first step what a register c_prev holds is the value of c.
InitialEdge(s, n, state, signal) ==
    On(Term(s, "eq", <<state, signal>>, 1), LAMBDA same :
    On(Term(same.c, "or", <<s.signals[Initialized], same.v>>, 1), LAMBDA settled :
       AddProperty(settled.c, "constraint", settled.v, n \o ".initial_edge")))

LowerState(r, d) ==
    On(StateNode(r.c, d.w, d.n), LAMBDA q :
       LET known == Signal([q.c EXCEPT !.regs = (d.n :> q.v) @@ @], d.n, q.v)
           clocks == {x \in DOMAIN known.signals : /\ d.leaf = x \o "_prev"
                                                   /\ WidthOf(known, known.signals[x]) = d.w}
       IN  On(IF d.leaf \notin TwoValued THEN Done(known)
              ELSE On(Constant(known, d.w, 0), LAMBDA zero : SetInitial(zero.c, q.v, zero.v)), LAMBDA set :
              IF clocks = {} THEN set
              ELSE InitialEdge(set.c, d.n, q.v, known.signals[CHOOSE x \in clocks : TRUE])))

\* An unknown literal is an input of its own.
LowerOperand(s, o) ==
    IF IsVal(o) THEN Give(s, s.vals[o.n])
    ELSE IF IsLit(o) THEN Constant(s, o.w, o.b)
    ELSE On(InputNode(s, o.w, "nondet_" \o ToString(s.nondet)), LAMBDA r :
            Give([r.c EXCEPT !.nondet = @ + 1], r.v))

LowerOperands(s, args) ==
    LET Next(r, o) == On(LowerOperand(r.c, o), LAMBDA q : Give(q.c, Append(r.v, q.v)))
    IN  Each(Give(s, <<>>), Next, args)

ModelOpcode ==
    [o \in {"and", "or", "xor", "add", "sub", "mul", "eq", "slt", "ult", "concat"} |-> o] @@
    "shl" :> "sll" @@ "lshr" :> "srl" @@ "ashr" :> "sra" @@ "ne" :> "neq" @@ "sle" :> "slte" @@ "ule" :> "ulte"

LowerMux(s, v, w) ==
    On(Resize(s, v[3], w), LAMBDA true :
    On(Resize(true.c, v[2], w), LAMBDA false :
    On(AsBoolean(false.c, v[1]), LAMBDA select : Ite(select.c, select.v, true.v, false.v))))

LowerTerm(s, o, v) ==
    CASE o.op = "not"   -> Term(s, "not", v, WidthOf(s, v[1]))
      [] o.op \in {"redand", "redor", "redxor"} -> Term(s, o.op, v, 1)
      [] o.op = "mux"   -> LowerMux(s, v, o.w)
      [] o.op = "slice" -> Cut(s, v[1], o.at, o.w)
      [] o.op = "trunc" -> Cut(s, v[1], 0, o.w)
      [] o.op = "zext"  -> Extend(s, "uext", v[1], o.w)
      [] o.op = "sext"  -> Extend(s, "sext", v[1], o.w)
      [] o.op \in DOMAIN ModelOpcode -> Term(s, ModelOpcode[o.op], v, o.w)
      [] OTHER -> Refuse(s, "opcode")

(***************************************************************************)
(* The registers a result may be taken for: those of its name, anywhere in *)
(* the hierarchy.  Which one is found depends on the order of a hash table;*)
(* capture is one choice for every result that has any.                    *)
(***************************************************************************)
Takers(m, n) == {d.n : d \in {x \in ToSet(m.states) : x.leaf = n}}
Captures(m) ==
    LET taken == {n \in ToSet(NamesOf(m.results)) : Takers(m, n) # {}}
    IN  {f \in [taken -> UNION {Takers(m, n) : n \in taken}] : \A n \in taken : f[n] \in Takers(m, n)}

LowerYield(s, m, capture, v) ==
    LET Shown(i) == IF m.results[i].n \in DOMAIN capture THEN s.regs[capture[m.results[i].n]] ELSE v[i]
    IN  Fold(LAMBDA k, i : AddOutput(Signal(k, m.results[i].n, Shown(i)), Shown(i), m.results[i].n),
             s, [i \in 1..Len(v) |-> i])

LowerEirOperation(s, m, capture, o) ==
    LET Bound(r) == Done([r.c EXCEPT !.vals = (o.res[1] :> r.v) @@ @])
    IN  IF o.op = "state_read" THEN Bound(Give(s, s.regs[o.state]))
        ELSE On(LowerOperands(s, o.args), LAMBDA r :
                CASE o.op = "state_write" -> Done([r.c EXCEPT !.written = (o.state :> r.v[1]) @@ @])
                  [] o.op = "yield"       -> Done(LowerYield(r.c, m, capture, r.v))
                  [] OTHER                -> On(LowerTerm(r.c, o, r.v), Bound))

\* A register that is not written keeps its value.
FinishStates(s) ==
    Each(Done(s), LAMBDA r, n : SetNext(r.c, s.regs[n], IF n \in DOMAIN s.written THEN s.written[n] ELSE s.regs[n]),
         SetToSeq(DOMAIN s.regs))

LowerTwoState(m, capture) ==
    On(LowerInputs(EmptySystem, m), LAMBDA inputs :
    On(LowerInitialized(inputs.c), LAMBDA begun :
    On(Each(begun, LowerState, m.states), LAMBDA states :
    On(Each(Done(states.c), LAMBDA r, o : LowerEirOperation(r.c, m, capture, o), m.ops), LAMBDA all :
       FinishStates(all.c)))))

---------------------------------------------------------------------------
(* writer.cpp: names. *)

\* A register whose last name no other has is known by it, whatever was.
UniqueLeaves(s, m) ==
    Fold(LAMBDA k, d : IF Cardinality(Takers(m, d.leaf)) > 1 THEN k ELSE Signal(k, d.leaf, s.regs[d.n]), s, m.states)

\* What the host of a program calls the ports of its hardware.
SignalAliases(s, aliases) ==
    Fold(LAMBDA k, a : IF a.hardware \in DOMAIN k.signals THEN Signal(k, a.host, k.signals[a.hardware]) ELSE k,
         s, aliases)

InstanceAliases(s, m, instances) ==
    Fold(LAMBDA k, x : Fold(LAMBDA q, d : Signal(q, x \o d.rest, k.signals[d.n]), k, m.states), s, instances)

(***************************************************************************)
(* A flag that the host sets at the rising edge of a clock is a state that *)
(* stays set.                                                              *)
(***************************************************************************)
PreviousOf(s, n, clock) ==
    On(StateNode(s, 1, n \o ".clock_previous"), LAMBDA was :
    On(Term(was.c, "eq", <<was.v, clock>>, 1), LAMBDA same :
    On(Term(same.c, "or", <<s.signals[Initialized], same.v>>, 1), LAMBDA settled :
    On(AddProperty(settled.c, "constraint", settled.v, n \o ".initial_clock"), LAMBDA kept :
    On(SetNext(kept.c, was.v, clock), LAMBDA done : Give(done.c, was.v))))))

Rising(s, was, clock) ==
    On(Term(s, "not", <<was>>, 1), LAMBDA low : Term(low.c, "and", <<low.v, clock>>, 1))

FlagState(s, n, edge) ==
    On(StateNode(s, 1, n), LAMBDA flag :
    On(Constant(flag.c, 1, 0), LAMBDA zero :
    On(SetInitial(zero.c, flag.v, zero.v), LAMBDA set :
    On(Constant(set.c, 1, 1), LAMBDA one :
    On(Ite(one.c, edge, one.v, flag.v), LAMBDA next :
    On(SetNext(next.c, flag.v, next.v), LAMBDA done : Done(Signal(done.c, n, flag.v))))))))

HostFlag(s, flag) ==
    IF flag.clock \notin DOMAIN s.signals THEN Refuse(s, "clock")
    ELSE LET clock == s.signals[flag.clock]
         IN  On(PreviousOf(s, flag.name, clock), LAMBDA was :
             On(Rising(was.c, was.v, clock), LAMBDA edge : FlagState(edge.c, flag.name, edge.v)))

\* The model of the hardware and of what its host adds to it.
LowerHardware(m, host, capture) ==
    On(LowerTwoState(m, capture), LAMBDA system :
       Each(Done(InstanceAliases(SignalAliases(UniqueLeaves(system.c, m), host.aliases), m, host.instances)),
            LAMBDA r, flag : HostFlag(r.c, flag), host.flags))

-----------------------------------------------------------------------------
(***************************************************************************)
(* The transition system of a program that keeps the four values a bit may *)
(* have (Hierarchy.cpp, EIRToIR.cpp): a value is a word of data and two    *)
(* masks, of the bits that are x and of those that are z.  The program is  *)
(* flattened by names here, and an operation is lowered when all it waits  *)
(* for has been.                                                           *)
(***************************************************************************)

Qualified(path, n) == IF path = "" THEN n ELSE path \o "." \o n

\* A name without a binding yet is taken for that of a later operation.
BoundTo(names, path, o) ==
    IF ~IsVal(o) THEN o ELSE IF o.n \in DOMAIN names THEN names[o.n] ELSE Val(Qualified(path, o.n))

QualifiedStates(m, path) ==
    [i \in 1..Len(m.states) |-> [n |-> Qualified(path, m.states[i].n), w |-> m.states[i].w, leaf |-> m.states[i].n]]

\* The value of r: the names bound so far, and what the yield had.
RECURSIVE InlineModule(_, _, _, _, _)
InlineModule(p, flattened, m, path, arguments) ==
    LET Operands(r, o) == [i \in 1..Len(o.args) |-> BoundTo(r.v.names, path, o.args[i])]
        Copy(r, o) == [r.c EXCEPT !.ops = Append(@,
            [o EXCEPT !.args = Operands(r, o), !.res = [i \in 1..Len(@) |-> Qualified(path, @[i])],
                      !.state = IF @ = "" THEN @ ELSE Qualified(path, @)])]
        Bind(r, res, values) ==
            [r.v EXCEPT !.names = [n \in ToSet(res) |-> values[CHOOSE i \in 1..Len(res) : res[i] = n]] @@ @]
        Inner(r, o) ==
            IF Len(o.args) # Len(Named(p, o.target).inputs) THEN Refuse(r.c, "arguments")
            ELSE On(InlineModule(p, r.c, Named(p, o.target), Qualified(path, o.inst), Operands(r, o)), LAMBDA child :
                 IF Len(o.res) # Len(child.v.yielded) THEN Refuse(child.c, "results")
                 ELSE Give(child.c, Bind(r, o.res, child.v.yielded)))
        Walk(r, o) ==
            CASE o.op = "instance" -> Inner(r, o)
              [] o.op = "yield" -> Give(IF path = "" THEN Copy(r, o) ELSE r.c, [r.v EXCEPT !.yielded = Operands(r, o)])
              [] OTHER -> Give(Copy(r, o), Bind(r, o.res, [i \in 1..Len(o.res) |-> Val(Qualified(path, o.res[i]))]))
    IN  Each(Give([flattened EXCEPT !.states = @ \o QualifiedStates(m, path)],
                  [names |-> [n \in ToSet(NamesOf(m.inputs)) |->
                                 arguments[CHOOSE i \in 1..Len(m.inputs) : m.inputs[i].n = n]],
                   yielded |-> <<>>]),
             Walk, m.ops)

FlattenHierarchy(p) ==
    LET root == Root(p)
    IN  InlineModule(p, [inputs |-> root.inputs, results |-> root.results, states |-> <<>>, ops |-> <<>>, err |-> ""],
                     root, "", [i \in 1..Len(root.inputs) |-> Val(root.inputs[i].n)]).c

---------------------------------------------------------------------------
(* Terms over nodes that are there already, and the nodes made of them. *)

Node(v, w) == [op |-> "", w |-> w, args |-> <<v>>, imm |-> <<>>, b |-> 0]
Make(op, w, args) == [op |-> op, w |-> w, args |-> args, imm |-> <<>>, b |-> 0]
ConstantTerm(w, b) == [Make("const", w, <<>>) EXCEPT !.b = Low(b, w)]

RECURSIVE Grow(_, _)
Grow(s, t) ==
    IF t.op = "" THEN Give(s, t.args[1])
    ELSE On(Each(Give(s, <<>>), LAMBDA r, x : On(Grow(r.c, x), LAMBDA q : Give(q.c, Append(r.v, q.v))), t.args), LAMBDA r :
            AddNode(r.c, [Blank EXCEPT !.op = t.op, !.w = t.w, !.args = r.v, !.imm = t.imm, !.b = t.b]))

\* A value is three terms of one width; once grown, three nodes.
FourValued(w, data, x, z) == [data |-> data, x |-> x, z |-> z, w |-> w]
GrowValue(s, v) ==
    On(Grow(s, v.data), LAMBDA data : On(Grow(data.c, v.x), LAMBDA x : On(Grow(x.c, v.z), LAMBDA z :
       Give(z.c, FourValued(v.w, Node(data.v, v.w), Node(x.v, v.w), Node(z.v, v.w))))))

NotTerm(t) == Make("not", t.w, <<t>>)
AndTerm(l, r) == Make("and", l.w, <<l, r>>)
OrTerm(l, r) == Make("or", l.w, <<l, r>>)
AnyBit(t) == IF t.w = 1 THEN t ELSE Make("redor", 1, <<t>>)
Choice(c, t, f) == Make("ite", t.w, <<c, t, f>>)
Doubtful(a) == OrTerm(a.x, a.z)
Dirty(a) == AnyBit(Doubtful(a))
Filled(condition, w) == Choice(condition, ConstantTerm(w, Ones(w)), ConstantTerm(w, 0))

\* Each of the three parts alike.
EachPart(w, a, Change(_)) == FourValued(w, Change(a.data), Change(a.x), Change(a.z))

LiteralValue(o, w) ==
    IF IsLit(o) THEN FourValued(w, ConstantTerm(w, o.b), ConstantTerm(w, 0), ConstantTerm(w, 0))
    ELSE FourValued(w, ConstantTerm(w, 0), ConstantTerm(w, Ones(w)), ConstantTerm(w, 0))

---------------------------------------------------------------------------
(* The operations, of values a, b and c. *)

(***************************************************************************)
(* A bit of a conjunction is known when both are, or when one is known to  *)
(* be zero; of a disjunction, when one is known to be one.                 *)
(***************************************************************************)
LogicValue(op, a, b) ==
    LET ak == NotTerm(Doubtful(a))
        bk == NotTerm(Doubtful(b))
        a0 == AndTerm(ak, NotTerm(a.data))
        b0 == AndTerm(bk, NotTerm(b.data))
        a1 == AndTerm(ak, a.data)
        b1 == AndTerm(bk, b.data)
        one == CASE op = "and" -> AndTerm(a1, b1)
                 [] op = "or"  -> OrTerm(a1, b1)
                 [] op = "xor" -> AndTerm(AndTerm(ak, bk), Make("xor", a.w, <<a.data, b.data>>))
        zero == CASE op = "and" -> OrTerm(a0, b0)
                  [] op = "or"  -> AndTerm(a0, b0)
                  [] op = "xor" -> AndTerm(AndTerm(ak, bk), NotTerm(one))
    IN  FourValued(a.w, one, NotTerm(OrTerm(zero, one)), ConstantTerm(a.w, 0))

\* One unknown bit makes all of the result unknown.
Conservative(op, w, a, b) ==
    FourValued(w, Make(op, w, <<a.data, b.data>>), Filled(OrTerm(Dirty(a), Dirty(b)), w), ConstantTerm(w, 0))

ComparedValue(op, a, b) ==
    FourValued(1, Make(op, 1, <<a.data, b.data>>), OrTerm(Dirty(a), Dirty(b)), ConstantTerm(1, 0))

\* Mutant: the known bit of the select chooses, known or not.
MuxValueBlind(w, select, f, t) ==
    FourValued(w, Choice(select.data, t.data, f.data), Choice(select.data, t.x, f.x), Choice(select.data, t.z, f.z))

MuxValue(w, select, f, t) ==
    FourValued(w, Choice(select.data, t.data, f.data),
              Choice(Dirty(select), ConstantTerm(w, Ones(w)), Choice(select.data, t.x, f.x)),
              Choice(Dirty(select), ConstantTerm(w, 0), Choice(select.data, t.z, f.z)))

ReducedValue(op, a) == FourValued(1, Make(op, 1, <<a.data>>), Dirty(a), ConstantTerm(1, 0))

SlicedValue(a, start, w) == EachPart(w, a, LAMBDA t : [Make("slice", w, <<t>>) EXCEPT !.imm = <<start + w - 1, start>>])
ExtendedValue(op, a, w) == EachPart(w, a, LAMBDA t : [Make(op, w, <<t>>) EXCEPT !.imm = <<w - a.w>>])
JoinedValue(w, a, b) == FourValued(w, Make("concat", w, <<a.data, b.data>>), Make("concat", w, <<a.x, b.x>>),
                                  Make("concat", w, <<a.z, b.z>>))

Logical == {"and", "or", "xor"}
Arithmetic == {"add", "sub", "mul", "shl", "lshr", "ashr"}
Comparing == {"eq", "ne", "slt", "sle", "ult", "ule"}
Reducing == {"redand", "redor", "redxor"}

(***************************************************************************)
(* Only some operations take a literal for their first operand; it gets    *)
(* the width the operation has for it, not one of its own.                 *)
(***************************************************************************)
LiteralWidth(o, i, first) ==
    CASE o.op = "mux" -> IF i = 1 THEN 1 ELSE o.w
      [] o.op = "concat" -> IF i = 1 THEN o.w ELSE o.w - first
      [] o.op \in Logical -> IF i = 1 THEN o.w ELSE first
      [] OTHER -> first

TakesLiteral(o, i) == i > 1 \/ o.op \in Logical \cup {"mux", "concat"}

OperandsOf(s, o) ==
    LET First(v) == IF v = <<>> THEN 0 ELSE v[1].w
        Next(r, i) ==
            CASE IsVal(o.args[i]) -> Give(r.c, Append(r.v, r.c.vals[o.args[i].n]))
              [] ~IsVal(o.args[i]) /\ TakesLiteral(o, i) ->
                    On(GrowValue(r.c, LiteralValue(o.args[i], LiteralWidth(o, i, First(r.v)))), LAMBDA q :
                       Give(q.c, Append(r.v, q.v)))
              [] OTHER -> Refuse(r.c, "unknown value")
    IN  Each(Give(s, <<>>), Next, [i \in 1..Len(o.args) |-> i])

FourStateValue(o, v) ==
    CASE o.op = "not" -> FourValued(o.w, Make("not", o.w, <<v[1].data>>), Doubtful(v[1]), ConstantTerm(o.w, 0))
      [] o.op \in Logical    -> LogicValue(o.op, v[1], v[2])
      [] o.op \in Arithmetic -> Conservative(ModelOpcode[o.op], o.w, v[1], v[2])
      [] o.op \in Comparing  -> ComparedValue(ModelOpcode[o.op], v[1], v[2])
      [] o.op = "mux"        -> MuxValue(o.w, v[1], v[2], v[3])
      [] o.op = "trunc"      -> SlicedValue(v[1], 0, o.w)
      [] o.op = "zext"       -> ExtendedValue("uext", v[1], o.w)
      [] o.op = "sext"       -> ExtendedValue("sext", v[1], o.w)
      [] o.op = "slice"      -> SlicedValue(v[1], o.at, o.w)
      [] o.op = "concat"     -> JoinedValue(o.w, v[1], v[2])
      [] o.op \in Reducing   -> ReducedValue(o.op, v[1])

---------------------------------------------------------------------------
(***************************************************************************)
(* The encoder.  Ports and declared registers are four-valued; a register  *)
(* has no initial value.  Of each four-valued input, a constraint says no  *)
(* bit is both x and z.                                                    *)
(***************************************************************************)
AddNamed(s, kind, w, n) == IF kind = "input" THEN InputNode(s, w, n) ELSE StateNode(s, w, n)

NewValue(s, kind, n, w, masks) ==
    On(AddNamed(s, kind, w, n \o ".data"), LAMBDA data :
    IF ~masks
    THEN On(GrowValue(data.c, FourValued(w, Node(data.v, w), ConstantTerm(w, 0), ConstantTerm(w, 0))), LAMBDA q :
            Give([q.c EXCEPT !.vals = (n :> q.v) @@ @], q.v))
    ELSE On(AddNamed(data.c, kind, w, n \o ".xmask"), LAMBDA x :
         On(AddNamed(x.c, kind, w, n \o ".zmask"), LAMBDA z :
            LET v == FourValued(w, Node(data.v, w), Node(x.v, w), Node(z.v, w))
            IN  Give([z.c EXCEPT !.vals = (n :> v) @@ @], v))))

FourStateInput(r, x) ==
    On(NewValue(r.c, "input", x.n, x.w, TRUE), LAMBDA v :
    On(Grow(v.c, NotTerm(AnyBit(AndTerm(v.v.x, v.v.z)))), LAMBDA valid :
       AddProperty(valid.c, "constraint", valid.v, x.n \o ".valid")))

\* regs: the values of the registers, apart from those of the operations.
FourStateRegister(r, d) ==
    On(NewValue(r.c, "state", d.n, d.w, d.leaf \notin TwoValued), LAMBDA v :
       Done([v.c EXCEPT !.regs = (d.n :> v.v) @@ @, !.vals = r.c.vals]))

\* A literal is not a value that has been lowered: what yields or writes one
\* is never ready.
ReadyFor(s, o) ==
    \A i \in 1..Len(o.args) :
        IF IsVal(o.args[i]) THEN o.args[i].n \in DOMAIN s.vals ELSE o.op \notin {"yield", "state_write"}

WriteParts(s, reg, v) ==
    LET Parts(value) == {k \in {"data", "x", "z"} : reg[k].args[1] = value}
        Write(q) == IF Parts(q.value) = {} THEN q
                    ELSE [q EXCEPT !.next = v[CHOOSE k \in Parts(q.value) : TRUE].args[1]]
    IN  [s EXCEPT !.states = [i \in 1..Len(@) |-> Write(@[i])]]

YieldParts(s, m, v) ==
    Fold(LAMBDA k, i : LET n == m.results[i].n IN
            AddOutput(AddOutput(AddOutput(k, v[i].data.args[1], n \o ".data"), v[i].x.args[1], n \o ".xmask"),
                      v[i].z.args[1], n \o ".zmask"),
         s, [i \in 1..Len(v) |-> i])

EncodeFourState(s, m, o) ==
    LET Bound(r) == Done([r.c EXCEPT !.vals = (o.res[1] :> r.v) @@ @])
    IN  IF o.op = "state_read" THEN Bound(Give(s, s.regs[o.state]))
        ELSE On(OperandsOf(s, o), LAMBDA r :
                CASE o.op = "yield"       -> Done(YieldParts(r.c, m, r.v))
                  [] o.op = "state_write" -> Done(WriteParts(r.c, r.c.regs[o.state], r.v[1]))
                  [] OTHER -> On(GrowValue(r.c, FourStateValue(o, r.v)), Bound))

RECURSIVE EncodePending(_, _, _)
EncodePending(s, m, pending) ==
    LET Try(r, o) ==
            IF ReadyFor(r.c, o) THEN On(EncodeFourState(r.c, m, o), LAMBDA q : Give(q.c, r.v))
            ELSE Give(r.c, Append(r.v, o))
        After(r) == IF r.c.err # "" \/ r.v = <<>> THEN r.c
                    ELSE IF Len(r.v) = Len(pending) THEN [r.c EXCEPT !.err = "cannot schedule"]
                    ELSE EncodePending(r.c, m, r.v)
    IN  After(Each(Give(s, <<>>), Try, pending))

LowerFourState(p) ==
    LET m == FlattenHierarchy(p)
    IN  IF m.err # "" THEN [EmptySystem EXCEPT !.err = m.err]
        ELSE LET begun == Each(Each(Done(EmptySystem), FourStateInput, m.inputs), FourStateRegister, m.states).c
             IN  EncodePending(begun, m, m.ops)
=============================================================================
