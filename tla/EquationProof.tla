--------------------------- MODULE EquationProof ---------------------------
(***************************************************************************)
(* The engine for properties of one step: an assertion that is an equation *)
(* over a design without registers is turned into terms over bit vectors   *)
(* (frontend/lib/SVA/Lowering/property.cpp), and a solver says whether it  *)
(* holds of all values of the variables.                                   *)
(*                                                                         *)
(* A pass carries the values of the names so far; made is the set of the   *)
(* variables, each with the path of the body it was made in.               *)
(***************************************************************************)
EXTENDS FrontendLowering, SvaFrontend

\* A variable is its name and its width, wherever it was made.
Variable(n, w) == [k |-> "variable", n |-> n, w |-> w]
Literal(v, w) == [k |-> "constant", v |-> Low(v, w), w |-> w]
ZeroExtended(t, w) == [k |-> "extend", of |-> t, w |-> w]
Extracted(t, low, w) == [k |-> "slice", of |-> t, low |-> low, w |-> w]
Added(l, r) == [k |-> "add", l |-> l, r |-> r, w |-> l.w]
JoinedTerm(high, low) == [k |-> "concat", l |-> high, r |-> low, w |-> high.w + low.w]

RECURSIVE TermValue(_, _)
TermValue(t, of) ==
    CASE t.k = "variable" -> of[t]
      [] t.k = "constant" -> t.v
      [] t.k = "extend"   -> TermValue(t.of, of)
      [] t.k = "slice"    -> Slice(TermValue(t.of, of), t.low, t.w)
      [] t.k = "add"      -> Low(TermValue(t.l, of) + TermValue(t.r, of), t.w)
      [] t.k = "concat"   -> Concat(TermValue(t.l, of), TermValue(t.r, of), t.r.w)

---------------------------------------------------------------------------
Knows(c, n) == n \in DOMAIN c.values
Names(c, n, t) == [c EXCEPT !.values = (n :> t) @@ @]

\* A name without a value is a variable from here on.
NamedTerm(c, x) ==
    IF Knows(c, x.n) THEN Give(c, c.values[x.n])
    ELSE Give([Names(c, x.n, Variable(x.n, x.w)) EXCEPT !.made = @ \cup {[path |-> c.path, var |-> Variable(x.n, x.w)]}],
              Variable(x.n, x.w))

RECURSIVE TermOf(_, _)
TermOf(c, x) ==
    CASE x.e = "conv" ->
            On(TermOf(c, x.arg), LAMBDA r :
               Give(r.c, CASE x.w > r.v.w -> ZeroExtended(r.v, x.w)
                           [] x.w < r.v.w -> Extracted(r.v, 0, x.w)
                           [] OTHER -> r.v))
      [] x.e = "name" /\ ~x.hier -> NamedTerm(c, x)
      [] x.e = "const"  -> Give(c, Literal(x.v, x.w))
      [] x.e = "concat" /\ x.args # <<>> ->
            Each(TermOf(c, x.args[1]), LAMBDA r, y : On(TermOf(r.c, y), LAMBDA low : Give(low.c, JoinedTerm(r.v, low.v))),
                 Tail(x.args))
      [] x.e = "binary" /\ x.op = "Add" ->
            On(TermOf(c, x.l), LAMBDA left : On(TermOf(left.c, x.r), LAMBDA right :
               IF left.v.w # right.v.w THEN Refuse(right.c, "width") ELSE Give(right.c, Added(left.v, right.v))))
      [] OTHER -> Refuse(c, "expression")

\* Mutant: the first operand gets the low bits.
AssignTermForwards(c, target, t) ==
    LET Next(r, x) == IF r.v + x.w > t.w THEN Refuse(r.c, "slice")
                      ELSE Give(Names(r.c, x.n, Extracted(t, r.v, x.w)), r.v + x.w)
    IN  CASE target.e = "name"   -> Done(Names(c, target.n, t))
          [] target.e = "concat" -> Each(Give(c, 0), Next, target.args)
          [] OTHER               -> Refuse(c, "target")

\* The operands of a concatenation get the parts of the value, the last one first.
AssignTerm(c, target, t) ==
    LET Next(r, x) == IF r.v + x.w > t.w THEN Refuse(r.c, "slice")
                      ELSE Give(Names(r.c, x.n, Extracted(t, r.v, x.w)), r.v + x.w)
    IN  CASE target.e = "name"   -> Done(Names(c, target.n, t))
          [] target.e = "concat" -> Each(Give(c, 0), Next, Reverse(target.args))
          [] OTHER               -> Refuse(c, "target")

PortsOf(body) == SelectSeq(body.members, LAMBDA x : x.m = "port")
BodyCalled(d, n) == d.bodies[CHOOSE i \in 1..Len(d.bodies) : d.bodies[i].name = n]

(***************************************************************************)
(* The members in their order: instances and continuous assignments, and   *)
(* nothing of what the procedural blocks do.  An instance has names of its *)
(* own, the inputs first; its outputs are assigned when it is through.     *)
(***************************************************************************)
RECURSIVE BodyTerms(_, _, _)
InstanceTerms(d, c, x) ==
    LET body == BodyCalled(d, x.target)
        At(k) == PortsOf(body)[k].n
        In(r, k) == On(TermOf(r.c, x.conns[k].x), LAMBDA t : Give(t.c, (At(k) :> t.v) @@ r.v))
        Of(dir) == SelectSeq([k \in 1..Len(x.conns) |-> k], LAMBDA k : x.conns[k].dir = dir)
    IN  On(Each(Give(c, NoMap), In, Of("In")), LAMBDA bound :
        On(BodyTerms(d, [bound.c EXCEPT !.values = bound.v, !.path = Append(@, x.n)], body), LAMBDA child :
           Each(Done([bound.c EXCEPT !.made = child.c.made]),
                LAMBDA r, k : IF At(k) \in DOMAIN child.c.values THEN AssignTerm(r.c, x.conns[k].x, child.c.values[At(k)])
                              ELSE Refuse(r.c, "driver"),
                Of("Out"))))

BodyTerms(d, c, body) ==
    Each(Done(c),
         LAMBDA r, x : IF x.m = "inst" THEN InstanceTerms(d, r.c, x)
                       ELSE On(TermOf(r.c, x.r), LAMBDA t : AssignTerm(t.c, x.l, t.v)),
         SelectSeq(body.members, LAMBDA x : x.m \in {"inst", "assign"}))

---------------------------------------------------------------------------
(* The equation, and what the solver says of it. *)

EquationOf(d, top, x) ==
    On(BodyTerms(d, [values |-> NoMap, made |-> {}, path |-> <<>>, err |-> ""], top), LAMBDA r :
       IF x.e # "binary" THEN Refuse(r.c, "predicate")
       ELSE IF x.op # "Equality" THEN Refuse(r.c, "predicate")
       ELSE On(TermOf(r.c, x.l), LAMBDA left : On(TermOf(left.c, x.r), LAMBDA right :
               IF left.v.w # right.v.w THEN Refuse(right.c, "width") ELSE Give(right.c, <<left.v, right.v>>))))

Assignments(vars) ==
    {f \in [vars -> UNION {0..(2^t.w - 1) : t \in vars}] : \A t \in vars : f[t] < 2^t.w}

EquationVerdict(r) ==
    IF r.c.err # "" THEN "error"
    ELSE IF \A f \in Assignments({m.var : m \in r.c.made}) : TermValue(r.v[1], f) = TermValue(r.v[2], f)
         THEN "proved" ELSE "counterexample"

\* A design has state when a clocked block is in it or in an instance.
RECURSIVE HasState(_, _)
HasState(d, body) ==
    \E x \in ToSet(body.members) : x.m = "ff" \/ (x.m = "inst" /\ HasState(d, BodyCalled(d, x.target)))

\* A property of more than one tick.
RECURSIVE IsTemporal(_)
IsTemporal(q) ==
    \/ q.kind \notin {"sequence", "negation", "conjunction", "disjunction", "iff"}
    \/ q.kind = "sequence" /\ q.tree.kind # "atom"
    \/ q.kind # "sequence" /\ \E o \in ToSet(q.operands) : IsTemporal(o)

(***************************************************************************)
(* What is asked about: the expression in what is in the body of the       *)
(* property, whatever is around it: a clocking, a disable, a negation.     *)
(***************************************************************************)
IsEquational(x) ==
    /\ x.spec.p = "Instance"
    /\ x.spec.body.p \in {"Clocking", "DisableIff", "StrongWeak", "Unary"}
    /\ x.spec.body.expr.p = "Simple"

ProveEquation(d, formal, top, x) ==
    IF IsTemporal(DirectiveCalled(formal, top.name, x.n).property) \/ HasState(d, top) \/ ~IsEquational(x) THEN Refuse([err |-> "", made |-> {}], "engine")
    ELSE EquationOf(d, top, x.spec.body.expr.expr)
=============================================================================
