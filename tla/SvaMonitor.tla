----------------------------- MODULE SvaMonitor -----------------------------
(***************************************************************************)
(* The lowering of directives into a transition system: sampled values,    *)
(* expressions, properties without and with time (lib/Lowering/Formal).    *)
(* sample is the node that is true in the steps at which the clock of the  *)
(* directive ticks; 0 where the code passes none.                          *)
(*                                                                         *)
(* The library Spot makes the automaton of a formula:                      *)
(*   [states, initial, accepting, det, atoms, edges],                      *)
(* states from 0, det whether it is deterministic, and edges [from, to,    *)
(* guard].  A guard is a decision on an atom, by its place in atoms, with  *)
(* guards for when it is true and false; or, at 0, a constant.             *)
(***************************************************************************)
EXTENDS Btor2, TemporalFormula

CONSTANT Spot(_)

BoolNode(s, b) == Constant(s, 1, Bit(b))
Both(s, l, r) == Term(s, "and", <<l, r>>, 1)
Either(s, l, r) == Term(s, "or", <<l, r>>, 1)
AsBit(r) == On(r, LAMBDA q : AsBoolean(q.c, q.v))

---------------------------------------------------------------------------
(* history.cpp *)

Older(s, v, sample) ==
    On(Constant(s, WidthOf(s, v), 0), LAMBDA zero :
    On(StateNode(zero.c, WidthOf(s, v), "sva_history_" \o ToString(s.aux)), LAMBDA state :
    On(SetInitial([state.c EXCEPT !.aux = @ + 1], state.v, zero.v), LAMBDA set :
    On(IF sample = 0 THEN Give(set.c, v) ELSE Ite(set.c, sample, v, state.v), LAMBDA next :
    On(SetNext(next.c, state.v, next.v), LAMBDA done : Give(done.c, state.v))))))

\* What v was some ticks ago; zero before the first tick.
PreviousValue(s, v, ticks, sample) ==
    IF ticks = 0 THEN Refuse(s, "depth")
    ELSE Each(Give(s, v), LAMBDA r, i : Older(r.c, r.v, sample), [i \in 1..ticks |-> i])

---------------------------------------------------------------------------
(* lower_expression.cpp *)

SvaOpcode ==
    "Add" :> "add" @@ "Subtract" :> "sub" @@ "Multiply" :> "mul" @@ "Divide" :> "udiv" @@ "Mod" :> "urem" @@
    "BitwiseAnd" :> "and" @@ "BitwiseOr" :> "or" @@ "BitwiseXor" :> "xor" @@ "LogicalAnd" :> "and" @@
    "LogicalOr" :> "or" @@ "Equality" :> "eq" @@ "Inequality" :> "neq" @@ "CaseEquality" :> "eq" @@
    "CaseInequality" :> "neq" @@ "LessThan" :> "ult" @@ "LessThanEqual" :> "ulte" @@ "GreaterThan" :> "ugt" @@
    "GreaterThanEqual" :> "ugte" @@ "LogicalShiftLeft" :> "sll" @@ "LogicalShiftRight" :> "srl" @@
    "ArithmeticShiftLeft" :> "sll" @@ "ArithmeticShiftRight" :> "sra"
Comparisons == {"Equality", "Inequality", "CaseEquality", "CaseInequality", "LessThan", "LessThanEqual",
                "GreaterThan", "GreaterThanEqual"}

SvaUnary(s, x, v) ==
    CASE x.op = "LogicalNot"   -> Negate(s, v)
      [] x.op = "BitwiseNot"   -> Term(s, "not", <<v>>, WidthOf(s, v))
      [] x.op = "ReductionAnd" -> Term(s, "redand", <<v>>, 1)
      [] x.op = "ReductionOr"  -> Term(s, "redor", <<v>>, 1)
      [] x.op = "ReductionXor" -> Term(s, "redxor", <<v>>, 1)
      [] OTHER -> Refuse(s, "operator")

SvaImplication(s, l, r) == On(Term(s, "not", <<l>>, 1), LAMBDA not : Either(not.c, not.v, r))

SvaBinary(s, x, v) ==
    IF x.op \in {"LogicalAnd", "LogicalOr", "LogicalImplication"}
    THEN On(AsBoolean(s, v[1]), LAMBDA l :
         On(AsBoolean(l.c, v[2]), LAMBDA r :
            IF x.op = "LogicalImplication" THEN SvaImplication(r.c, l.v, r.v)
            ELSE Term(r.c, SvaOpcode[x.op], <<l.v, r.v>>, x.w)))
    ELSE IF x.op \notin DOMAIN SvaOpcode THEN Refuse(s, "operator")
    ELSE Term(s, SvaOpcode[x.op], v, IF x.op \in Comparisons THEN 1 ELSE x.w)

SvaConcatenation(s, v) ==
    Each(Give(s, v[1]), LAMBDA r, low : Term(r.c, "concat", <<r.v, low>>, WidthOf(r.c, r.v) + WidthOf(r.c, low)),
         Tail(v))

SvaSelection(s, x, v) ==
    On(Resize(s, v[2], WidthOf(s, v[1])), LAMBDA index :
    On(Term(index.c, "srl", <<v[1], index.v>>, WidthOf(s, v[1])), LAMBDA shifted :
       Cut(shifted.c, shifted.v, 0, x.w)))

\* An edge of a value, or whether it is what it was.
Changed(s, op, v, sample) ==
    On(PreviousValue(s, v, 1, sample), LAMBDA was :
    On(AsBoolean(was.c, v), LAMBDA now :
    On(AsBoolean(now.c, was.v), LAMBDA before :
       CASE op = "$rose" -> On(Term(before.c, "not", <<before.v>>, 1), LAMBDA low : Both(low.c, now.v, low.v))
         [] op = "$fell" -> On(Term(before.c, "not", <<now.v>>, 1), LAMBDA low : Both(low.c, before.v, low.v))
         [] op = "$stable"  -> Term(before.c, "eq", <<v, was.v>>, 1)
         [] op = "$changed" -> On(Term(before.c, "eq", <<v, was.v>>, 1), LAMBDA same : Negate(same.c, same.v))
         [] OTHER -> Refuse(before.c, "function"))))

SvaCall(s, x, v, sample) ==
    CASE x.op = "$sampled" -> Give(s, v)
      [] x.op = "$past" ->
            IF Len(x.args) > 2 \/ (Len(x.args) = 2 /\ x.args[2].k # "constant") THEN Refuse(s, "past")
            ELSE PreviousValue(s, v, IF Len(x.args) = 2 THEN x.args[2].b ELSE 1, sample)
      [] OTHER -> IF Len(x.args) # 1 THEN Refuse(s, "arguments") ELSE Changed(s, x.op, v, sample)

RECURSIVE SvaTerm(_, _, _)
SvaTerms(s, xs, sample) ==
    Each(Give(s, <<>>), LAMBDA r, x : On(SvaTerm(r.c, x, sample), LAMBDA q : Give(q.c, Append(r.v, q.v))), xs)

SvaTerm(s, x, sample) ==
    CASE x.k = "signal" -> IF x.n \in DOMAIN s.signals THEN Resize(s, s.signals[x.n], x.w) ELSE Refuse(s, "signal")
      [] x.k = "constant" -> Constant(s, x.w, x.b)
      [] x.k = "call" -> On(SvaTerm(s, x.args[1], sample), LAMBDA r : SvaCall(r.c, x, r.v, sample))
      [] x.k \in {"none", "error"} -> Refuse(s, "expression")
      [] OTHER ->
            On(SvaTerms(s, x.args, sample), LAMBDA r :
               CASE x.k = "unary"         -> SvaUnary(r.c, x, r.v[1])
                 [] x.k = "binary"        -> SvaBinary(r.c, x, r.v)
                 [] x.k = "concatenation" -> SvaConcatenation(r.c, r.v)
                 [] x.k = "selection"     -> SvaSelection(r.c, x, r.v)
                 [] x.k = "conditional"   ->
                       On(AsBoolean(r.c, r.v[1]), LAMBDA c : Ite(c.c, c.v, r.v[2], r.v[3])))

---------------------------------------------------------------------------
(* Properties of one step.  Without an always around it such a property is *)
(* lowered with no sample: what it remembers moves at every step.          *)

IsAtom(p) == p.kind = "sequence" /\ p.tree.kind = "atom"

RECURSIVE StepProperty(_, _, _)
StepProperty(s, p, sample) ==
    CASE IsAtom(p) -> AsBit(SvaTerm(s, p.tree.expression, sample))
      [] p.kind = "negation" -> On(StepProperty(s, p.operands[1], sample), LAMBDA r : Negate(r.c, r.v))
      [] p.kind \in {"conjunction", "disjunction", "iff", "implication"} ->
            On(StepProperty(s, p.operands[1], sample), LAMBDA l :
            On(StepProperty(l.c, p.operands[2], sample), LAMBDA r :
               CASE p.kind = "conjunction" -> Both(r.c, l.v, r.v)
                 [] p.kind = "disjunction" -> Either(r.c, l.v, r.v)
                 [] p.kind = "iff"         -> Term(r.c, "eq", <<l.v, r.v>>, 1)
                 [] p.kind = "implication" -> SvaImplication(r.c, l.v, r.v)))
      [] OTHER -> Refuse(s, "temporal")

(***************************************************************************)
(* The event at which a directive samples: an edge of its clock, found     *)
(* with the value of the clock in the step before, which is free in the    *)
(* first step but for a constraint.  It is made once for every directive.  *)
(***************************************************************************)
EventName(d) == "__formal_sample_event." \o d.name
Remember(d, r) == On(r, LAMBDA q : Give(Signal(q.c, EventName(d), q.v), q.v))

ClockPrevious(s, n, clock) ==
    On(StateNode(s, 1, n \o ".clock_previous"), LAMBDA was :
    On(Term(was.c, "eq", <<was.v, clock>>, 1), LAMBDA same :
    On(Either(same.c, s.signals["formal_initialized"], same.v), LAMBDA settled :
    On(AddProperty(settled.c, "constraint", settled.v, n \o ".initial_clock"), LAMBDA kept :
    On(SetNext(kept.c, was.v, clock), LAMBDA done : Give(done.c, was.v))))))

EdgeFrom(s, edge, was, now) ==
    IF edge = "posedge" THEN On(Negate(s, was), LAMBDA low : Both(low.c, low.v, now))
    ELSE On(Negate(s, now), LAMBDA low : Both(low.c, was, low.v))

SampleEvent(s, d) ==
    IF EventName(d) \in DOMAIN s.signals THEN Give(s, s.signals[EventName(d)])
    ELSE IF d.clock.signal = "" THEN Remember(d, BoolNode(s, TRUE))
    ELSE IF d.clock.signal \notin DOMAIN s.signals THEN Refuse(s, "clock")
    ELSE On(AsBoolean(s, s.signals[d.clock.signal]), LAMBDA clock :
            Remember(d, IF d.clock.edge = "any" THEN BoolNode(clock.c, TRUE)
                        ELSE On(ClockPrevious(clock.c, d.name, clock.v), LAMBDA was :
                                EdgeFrom(was.c, d.clock.edge, was.v, clock.v))))

Disabled(s, d) ==
    IF d.disable = NoExpression THEN BoolNode(s, FALSE) ELSE AsBit(SvaTerm(s, d.disable, 0))

\* The steps at which the directive samples and is not disabled.
EnabledSample(s, d, sample) ==
    On(Disabled(s, d), LAMBDA off : On(Negate(off.c, off.v), LAMBDA on : Both(on.c, sample, on.v)))

\* What the directive asks of its violations and its matches.
EmitProperty(s, d, violation, match) ==
    CASE d.kind = "assert" -> AddProperty(s, "bad", violation, d.name)
      [] d.kind = "cover"  -> AddProperty(s, "bad", match, d.name)
      [] OTHER -> On(Negate(s, violation), LAMBDA ok : AddProperty(ok.c, "constraint", ok.v, d.name))

LowerStep(s, d, enabled, p, sample) ==
    On(StepProperty(s, p, sample), LAMBDA holds :
    On(Negate(holds.c, holds.v), LAMBDA fails :
    On(Both(fails.c, enabled, fails.v), LAMBDA violation :
    On(Both(violation.c, enabled, holds.v), LAMBDA match : EmitProperty(match.c, d, violation.v, match.v)))))

---------------------------------------------------------------------------
(* monitor.cpp: antecedent |-> ##[minimum:maximum] consequent.  The state  *)
(* of age k is true when an attempt began k ticks ago and its consequent   *)
(* has not been seen in time.                                              *)

\* Mutant: an attempt that is disabled goes on.
NextMonitorStateKeeps(s, state, advanced, sample, reset) ==
    On(Ite(s, sample, advanced, state), LAMBDA next : SetNext(next.c, state, next.v))

NextMonitorState(s, state, advanced, sample, reset) ==
    On(Constant(s, 1, 0), LAMBDA zero :
    On(Ite(zero.c, sample, advanced, state), LAMBDA sampled :
    On(Ite(sampled.c, reset, zero.v, sampled.v), LAMBDA next : SetNext(next.c, state, next.v))))

AgeStates(s, d, maximum) ==
    Each(Give(s, <<>>), LAMBDA r, age :
            On(StateNode(r.c, 1, d.name \o ".age_" \o ToString(age)), LAMBDA state :
            On(Constant(state.c, 1, 0), LAMBDA zero :
            On(SetInitial(zero.c, state.v, zero.v), LAMBDA set : Give(set.c, Append(r.v, state.v))))),
         [i \in 1..maximum |-> i])

Verdict(s, enabled, violation, match) ==
    On(Both(s, enabled, violation), LAMBDA bad :
    On(Both(bad.c, enabled, match), LAMBDA good : Give(good.c, [violation |-> bad.v, match |-> good.v])))

\* One age on: an attempt in its window ends with the consequent.
Advance(r, age, active, k) ==
    IF age < k.minimum
    THEN On(NextMonitorState(r.c, active[age + 1], active[age], k.sample, k.reset), LAMBDA q : Give(q.c, r.v))
    ELSE On(Both(r.c, active[age], k.condition), LAMBDA seen :
         On(Either(seen.c, r.v, seen.v), LAMBDA match :
         On(Both(match.c, active[age], k.missing), LAMBDA left :
         On(NextMonitorState(left.c, active[age + 1], left.v, k.sample, k.reset), LAMBDA q :
            Give(q.c, match.v)))))

\* The attempt that begins now.
Begin(s, active, k) ==
    On(IF k.minimum = 0 THEN Both(s, k.trigger, k.condition) ELSE BoolNode(s, FALSE), LAMBDA match :
    On(IF k.minimum = 0 THEN Both(match.c, k.trigger, k.missing) ELSE Give(match.c, k.trigger), LAMBDA first :
    On(NextMonitorState(first.c, active[1], first.v, k.sample, k.reset), LAMBDA q : Give(q.c, match.v))))

Aging(s, d, k) ==
    On(AgeStates(s, d, k.maximum), LAMBDA states :
    On(Begin(states.c, states.v, k), LAMBDA begun :
    On(Each(begun, LAMBDA r, age : Advance(r, age, states.v, k), [i \in 1..(k.maximum - 1) |-> i]), LAMBDA all :
    On(Both(all.c, states.v[k.maximum], k.condition), LAMBDA last :
    On(Either(last.c, all.v, last.v), LAMBDA match :
    On(Both(match.c, states.v[k.maximum], k.missing), LAMBDA late :
       Verdict(late.c, k.enabled, late.v, match.v)))))))

AtOnce(s, k) ==
    On(Both(s, k.trigger, k.missing), LAMBDA violation :
    On(Both(violation.c, k.trigger, k.condition), LAMBDA match :
       Verdict(match.c, k.enabled, violation.v, match.v)))

\* The window counts from the tick after, for |=>.
ImplicationMonitor(s, d, p) ==
    LET right == p.operands[2].tree
        later == IF p.overlapped THEN 0 ELSE 1
        consequent == IF right.kind = "atom" THEN right.expression ELSE right.parts[1].expression
    IN  On(SampleEvent(s, d), LAMBDA sample :
        On(AsBit(SvaTerm(sample.c, p.operands[1].tree.expression, sample.v)), LAMBDA trigger :
        On(AsBit(SvaTerm(trigger.c, consequent, sample.v)), LAMBDA condition :
        On(Disabled(condition.c, d), LAMBDA reset :
        On(Negate(reset.c, reset.v), LAMBDA on :
        On(Both(on.c, sample.v, on.v), LAMBDA enabled :
        On(Negate(enabled.c, condition.v), LAMBDA missing :
           LET k == [minimum |-> right.minimum + later, maximum |-> right.maximum + later, sample |-> sample.v,
                     trigger |-> trigger.v, condition |-> condition.v, missing |-> missing.v,
                     reset |-> reset.v, enabled |-> enabled.v]
           IN  IF k.maximum = 0 THEN AtOnce(missing.c, k) ELSE Aging(missing.c, d, k))))))))

---------------------------------------------------------------------------
(***************************************************************************)
(* The lowering of a directive whose property needs an automaton: its      *)
(* states become registers of one bit, and the property asks whether some  *)
(* run visits an accepting one infinitely often (buchi_monitor.cpp).       *)
(* After it, how directives are shared out among the lowerings             *)
(* (monitor.cpp, HIRToIR.cpp).                                             *)
(***************************************************************************)

Sure(b) == [at |-> 0, yes |-> b]
Decision(i, high, low) == [at |-> i, high |-> high, low |-> low]

RECURSIVE GuardTerm(_, _, _)
GuardTerm(s, g, atoms) ==
    IF g.at = 0 THEN BoolNode(s, g.yes)
    ELSE On(Negate(s, atoms[g.at]), LAMBDA not :
         On(GuardTerm(not.c, g.low, atoms), LAMBDA low :
         On(Both(low.c, not.v, low.v), LAMBDA negative :
         On(GuardTerm(negative.c, g.high, atoms), LAMBDA high :
         On(Both(high.c, atoms[g.at], high.v), LAMBDA positive : Either(positive.c, negative.v, positive.v))))))

AtomTerms(s, a, sample) ==
    Each(Give(s, <<>>), LAMBDA r, x : On(AsBit(SvaTerm(r.c, x, sample)), LAMBDA q : Give(q.c, Append(r.v, q.v))),
         a.atoms)

ChoiceWidth(a) == CHOOSE w \in 1..Len(a.edges) : Len(a.edges) <= 2^w /\ (w = 1 \/ 2^(w - 1) < Len(a.edges))

\* One automaton of several edges at a time takes the one an input chooses.
ChoiceInput(s, d, a) == IF a.det THEN Done(s) ELSE InputNode(s, ChoiceWidth(a), d.name \o ".edge")
EdgeChosen(s, a, i, k) ==
    IF a.det THEN Give(s, k.one)
    ELSE On(Constant(s, ChoiceWidth(a), i - 1), LAMBDA number : Term(number.c, "eq", <<k.choice, number.v>>, 1))

RunBit(n, q) == n \o ".state_" \o ToString(q)
RunBits(s, d, a, k) ==
    Each(Give(s, <<>>), LAMBDA r, q :
            On(StateNode(r.c, 1, RunBit(d.name, q)), LAMBDA bit :
            On(SetInitial(bit.c, bit.v, IF q = a.initial THEN k.one ELSE k.zero), LAMBDA set :
               Give(set.c, Append(r.v, bit.v)))),
         [i \in 1..a.states |-> i - 1])

SelectedEdges(s, a, active, k) ==
    Each(Give(s, <<>>), LAMBDA r, i :
            On(EdgeChosen(r.c, a, i, k), LAMBDA chosen :
            On(GuardTerm(chosen.c, a.edges[i].guard, k.atoms), LAMBDA guard :
            On(Both(guard.c, chosen.v, guard.v), LAMBDA open :
            On(Both(open.c, active[a.edges[i].from + 1], open.v), LAMBDA taken :
               Give(taken.c, Append(r.v, taken.v)))))),
         [i \in 1..Len(a.edges) |-> i])

AnyOf(s, terms, k) == Each(Give(s, k.zero), LAMBDA r, v : Either(r.c, r.v, v), terms)

\* No run is looked at that cannot go on.
RestrictRuns(s, d, selected, k) ==
    On(AnyOf(s, selected, k), LAMBDA taken :
    On(Negate(taken.c, k.enabled), LAMBDA idle :
    On(Either(idle.c, idle.v, taken.v), LAMBDA ok :
       AddProperty(ok.c, "constraint", ok.v, d.name \o ".transition"))))

Incoming(a, q) == SelectSeq([i \in 1..Len(a.edges) |-> i], LAMBDA i : a.edges[i].to = q)

\* Mutant: a disable condition does not begin the run again.
MoveRunsOn(s, a, active, selected, k) ==
    Each(Done(s), LAMBDA r, q :
            On(AnyOf(r.c, [j \in 1..Len(Incoming(a, q)) |-> selected[Incoming(a, q)[j]]], k), LAMBDA entered :
            On(Ite(entered.c, k.enabled, entered.v, active[q + 1]), LAMBDA moved :
               SetNext(moved.c, active[q + 1], moved.v))),
         [i \in 1..a.states |-> i - 1])

\* A tick moves the run, a disable condition begins it again.
MoveRuns(s, a, active, selected, k) ==
    Each(Done(s), LAMBDA r, q :
            On(AnyOf(r.c, [j \in 1..Len(Incoming(a, q)) |-> selected[Incoming(a, q)[j]]], k), LAMBDA entered :
            On(Ite(entered.c, k.enabled, entered.v, active[q + 1]), LAMBDA moved :
            On(Ite(moved.c, k.disable, IF q = a.initial THEN k.one ELSE k.zero, moved.v), LAMBDA next :
               SetNext(next.c, active[q + 1], next.v)))),
         [i \in 1..a.states |-> i - 1])

Accepts(s, d, a, active, k) ==
    On(AnyOf(s, [j \in 1..Len(a.accepting) |-> active[a.accepting[j] + 1]], k), LAMBDA accepting :
    On(Both(accepting.c, k.enabled, accepting.v), LAMBDA fair :
       AddProperty(fair.c, "justice", fair.v, d.name)))

RunAutomaton(s, d, a, k) ==
    On(RunBits(s, d, a, k), LAMBDA bits :
    On(SelectedEdges(bits.c, a, bits.v, k), LAMBDA selected :
    On(RestrictRuns(selected.c, d, selected.v, k), LAMBDA limited :
    On(MoveRuns(limited.c, a, bits.v, selected.v, k), LAMBDA moved : Accepts(moved.c, d, a, bits.v, k)))))

\* An automaton without an edge accepts nothing.
LowerAutomaton(s, d, a) ==
    IF a.states = 0 \/ a.edges = <<>>
    THEN On(BoolNode(s, FALSE), LAMBDA never : AddProperty(never.c, "justice", never.v, d.name))
    ELSE On(SampleEvent(s, d), LAMBDA sample :
         On(Disabled(sample.c, d), LAMBDA disable :
         On(Negate(disable.c, disable.v), LAMBDA on :
         On(Both(on.c, sample.v, on.v), LAMBDA enabled :
         On(AtomTerms(enabled.c, a, sample.v), LAMBDA atoms :
         On(ChoiceInput(atoms.c, d, a), LAMBDA choice :
         On(BoolNode(choice.c, FALSE), LAMBDA zero :
         On(BoolNode(zero.c, TRUE), LAMBDA one :
            RunAutomaton([one.c EXCEPT !.automata = (d.name :> a) @@ @], d, a,
                         [disable |-> disable.v, enabled |-> enabled.v, atoms |-> atoms.v, choice |-> choice.v,
                          zero |-> zero.v, one |-> one.v])))))))))

\* What Spot makes of the property; an error, of what is no formula.
LowerTemporal(s, d) ==
    LET f == DirectiveFormula(d)
    IN  IF Thrown(f) THEN Refuse(s, "formula") ELSE LowerAutomaton(s, d, Spot(f))

(***************************************************************************)
(* One directive: a property of one step; one of every step; a bounded     *)
(* implication; what remains needs an automaton, and so do assumptions     *)
(* that are not of one step.  Under an always the sample event is made     *)
(* before the shape is looked at, though an automaton may not use it.      *)
(***************************************************************************)
LowerSvaDirective(s, d) ==
    LET core == IF d.property.kind = "always" THEN d.property.operands[1] ELSE d.property
        sampled == IF d.property.kind = "always" THEN SampleEvent(s, d).c ELSE s
    IN  IF P!Instantaneous(d.property)
        THEN On(SampleEvent(s, d), LAMBDA sample :
             On(IF d.disable = NoExpression THEN sample ELSE EnabledSample(sample.c, d, sample.v), LAMBDA enabled :
                LowerStep(enabled.c, d, enabled.v, d.property, 0)))
        ELSE IF d.kind \in {"assume", "restrict"} THEN LowerTemporal(s, d)
        ELSE IF d.property.kind = "always" /\ P!Combinational(core)
        THEN On(SampleEvent(s, d), LAMBDA sample :
             On(EnabledSample(sample.c, d, sample.v), LAMBDA enabled :
                LowerStep(enabled.c, d, enabled.v, core, sample.v)))
        ELSE IF P!BoundedImplication(core)
        THEN On(ImplicationMonitor(s, d, core), LAMBDA r : EmitProperty(r.c, d, r.v.violation, r.v.match))
        ELSE LowerTemporal(sampled, d)

---------------------------------------------------------------------------
(* HIRToIR.cpp: the assumptions in order, then the components of what was  *)
(* selected: the last directive of its name.                               *)

Suffixed(d, components, i) ==
    [d EXCEPT !.property = components[i].formula,
              !.name = IF Len(components) = 1 THEN @ ELSE @ \o "." \o components[i].class]

\* optimized: whether the components are simplified first.
ComponentsOf(p, optimized) ==
    IF optimized THEN LET kept == P!Components(p) IN [i \in 1..Len(kept) |-> kept[i].component]
    ELSE P!Decompose(p)

LowerDirectives(s, directives, name, optimized) ==
    LET selected == Last(SelectSeq(directives, LAMBDA d : d.name = name))
        others == SelectSeq(directives, LAMBDA d : d.name # name /\ d.kind \in {"assume", "restrict"})
        components == ComponentsOf(selected.property, optimized)
    IN  On(Each(Done(s), LAMBDA r, d : LowerSvaDirective(r.c, d), others), LAMBDA environment :
           Each(environment, LAMBDA r, i : LowerSvaDirective(r.c, Suffixed(selected, components, i)),
                [i \in 1..Len(components) |-> i]))
=============================================================================
