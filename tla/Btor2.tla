------------------------------- MODULE Btor2 -------------------------------
(***************************************************************************)
(* BTOR2: a transition system is a list of nodes in which an operand is    *)
(* the number of an earlier node, the states with their initial and next   *)
(* nodes (0 for none), outputs and properties.  The passes that build one  *)
(* carry it as their context, with what they remember on the way: signals  *)
(* by name, and of the lowering of a module its values, registers and the  *)
(* values written to them, and of the directives their automata.           *)
(***************************************************************************)
EXTENDS Eir

EmptySystem ==
    LET none == [n \in {} |-> 0]
    IN  [ops |-> <<>>, states |-> <<>>, outputs |-> <<>>, props |-> <<>>, signals |-> none,
         vals |-> none, regs |-> none, written |-> none, automata |-> none, nondet |-> 0, aux |-> 0, err |-> ""]

Blank == [op |-> "", w |-> 0, args |-> <<>>, imm |-> <<>>, name |-> "", b |-> 0]
WidthOf(s, v) == s.ops[v].w

AddNode(s, n) == IF n.w = 0 THEN Refuse(s, "width")
                 ELSE Give([s EXCEPT !.ops = Append(@, n)], Len(s.ops) + 1)

ConstNode(w, b) == [Blank EXCEPT !.op = "const", !.w = w, !.b = Low(b, w)]
Constant(s, w, b) == AddNode(s, ConstNode(w, b))
InputNode(s, w, n) == AddNode(s, [Blank EXCEPT !.op = "input", !.w = w, !.name = n])
StateNode(s, w, n) ==
    On(AddNode(s, [Blank EXCEPT !.op = "state", !.w = w, !.name = n]), LAMBDA r :
       Give([r.c EXCEPT !.states = Append(@, [value |-> r.v, initial |-> 0, next |-> 0])], r.v))

Term(s, op, args, w) == AddNode(s, [Blank EXCEPT !.op = op, !.w = w, !.args = args])

Ite(s, c, t, f) ==
    IF WidthOf(s, c) # 1 \/ WidthOf(s, t) # WidthOf(s, f) THEN Refuse(s, "ternary")
    ELSE Term(s, "ite", <<c, t, f>>, WidthOf(s, t))

Cut(s, v, start, w) ==
    IF w = 0 \/ start + w > WidthOf(s, v) THEN Refuse(s, "slice")
    ELSE AddNode(s, [Blank EXCEPT !.op = "slice", !.w = w, !.args = <<v>>, !.imm = <<start + w - 1, start>>])

Extend(s, op, v, w) ==
    IF w < WidthOf(s, v) THEN Refuse(s, "narrows")
    ELSE AddNode(s, [Blank EXCEPT !.op = op, !.w = w, !.args = <<v>>, !.imm = <<w - WidthOf(s, v)>>])

Resize(s, v, w) == CASE WidthOf(s, v) = w -> Give(s, v)
                     [] WidthOf(s, v) < w -> Extend(s, "uext", v, w)
                     [] WidthOf(s, v) > w -> Cut(s, v, 0, w)

AsBoolean(s, v) ==
    IF WidthOf(s, v) = 1 THEN Give(s, v)
    ELSE On(Constant(s, WidthOf(s, v), 0), LAMBDA zero : Term(zero.c, "neq", <<v, zero.v>>, 1))

Negate(s, v) == On(AsBoolean(s, v), LAMBDA r : Term(r.c, "not", <<r.v>>, 1))

\* field: the initial or the next value of a state.
SetState(s, state, field, v) ==
    LET i == CHOOSE j \in 1..Len(s.states) : s.states[j].value = state
    IN  IF WidthOf(s, state) # WidthOf(s, v) THEN Refuse(s, "mismatch")
        ELSE Done([s EXCEPT !.states[i] = [@ EXCEPT ![field] = v]])
SetInitial(s, state, v) == SetState(s, state, "initial", v)
SetNext(s, state, v) == SetState(s, state, "next", v)

AddOutput(s, v, n) == [s EXCEPT !.outputs = Append(@, [value |-> v, name |-> n])]
AddProperty(s, kind, v, n) ==
    IF WidthOf(s, v) # 1 THEN Refuse(s, "boolean")
    ELSE Done([s EXCEPT !.props = Append(@, [kind |-> kind, condition |-> v, name |-> n])])

Signal(s, n, v) == [s EXCEPT !.signals = (n :> v) @@ @]

\* verify(): operands come before their node, and every state has a next one.
SystemVerified(s) ==
    /\ \A i \in 1..Len(s.ops) : \A a \in ToSet(s.ops[i].args) : a \in 1..(i - 1)
    /\ \A q \in ToSet(s.states) : /\ s.ops[q.value].op = "state"
                                  /\ q.next # 0
                                  /\ \A v \in {q.initial, q.next} \ {0} : WidthOf(s, v) = WidthOf(s, q.value)
    /\ \A p \in ToSet(s.props) : WidthOf(s, p.condition) = 1

---------------------------------------------------------------------------
(* What a reader of the format makes of a system. *)

EirOpcode == "neq" :> "ne" @@ "sll" :> "shl" @@ "srl" :> "lshr" @@ "sra" :> "ashr" @@ "slte" :> "sle" @@
             "ulte" :> "ule" @@ "uext" :> "zext"

\* Division by zero gives ones, the remainder what was divided.
NodeValue(n, v, ws) ==
    CASE n.op = "ite"   -> IF v[1] = 1 THEN v[2] ELSE v[3]
      [] n.op = "ugt"   -> Bit(v[1] > v[2])
      [] n.op = "ugte"  -> Bit(v[1] >= v[2])
      [] n.op = "udiv"  -> IF v[2] = 0 THEN Ones(n.w) ELSE v[1] \div v[2]
      [] n.op = "urem"  -> IF v[2] = 0 THEN v[1] ELSE v[1] % v[2]
      [] n.op = "slice" -> Slice(v[1], n.imm[2], n.w)
      [] n.op \in DOMAIN EirOpcode -> Apply(EirOpcode[n.op], n.w, v, ws, 0)
      [] OTHER -> Apply(n.op, n.w, v, ws, 0)

\* The value of every node, from those of the inputs and the states by name.
Valuation(s, inputs, states) ==
    Fold(LAMBDA vs, n :
            Append(vs, CASE n.op = "const" -> n.b
                         [] n.op = "input" -> inputs[n.name]
                         [] n.op = "state" -> states[n.name]
                         [] OTHER -> NodeValue(n, [i \in 1..Len(n.args) |-> vs[n.args[i]]],
                                               [i \in 1..Len(n.args) |-> s.ops[n.args[i]].w])),
         <<>>, s.ops)

StateName(s, q) == s.ops[q.value].name
StateNames(s) == {StateName(s, q) : q \in ToSet(s.states)}
StateCalled(s, n) == CHOOSE q \in ToSet(s.states) : StateName(s, q) = n

\* The states a valuation is followed by.
Following(s, values) == [n \in StateNames(s) |-> values[StateCalled(s, n).next]]

\* The states a run may begin with: those without an initial node are free.
\* What an initial node is computed from is constant.
Beginnings(s) ==
    LET Values(n) == LET q == StateCalled(s, n)
                     IN  IF q.initial = 0 THEN 0..(2^WidthOf(s, q.value) - 1) ELSE {s.ops[q.initial].b}
    IN  {f \in [StateNames(s) -> UNION {Values(n) : n \in StateNames(s)}] :
            \A n \in StateNames(s) : f[n] \in Values(n)}

Admitted(s, values) == \A p \in ToSet(s.props) : p.kind = "constraint" => values[p.condition] = 1

(***************************************************************************)
(* The sorts the format asks of the operands of a node.                    *)
(***************************************************************************)
WellSorted(s) ==
    \A n \in ToSet(s.ops) :
        LET w(i) == WidthOf(s, n.args[i]) IN
        CASE n.op \in {"input", "state"} -> TRUE
          [] n.op = "const" -> n.b < 2^n.w
          [] n.op = "not" -> w(1) = n.w
          [] n.op \in {"redand", "redor", "redxor"} -> n.w = 1
          [] n.op = "slice" -> n.imm[1] < w(1) /\ n.w = n.imm[1] - n.imm[2] + 1
          [] n.op \in {"uext", "sext"} -> n.w = w(1) + n.imm[1]
          [] n.op = "concat" -> n.w = w(1) + w(2)
          [] n.op = "ite" -> w(1) = 1 /\ w(2) = n.w /\ w(3) = n.w
          [] n.op \in {"eq", "neq", "slt", "slte", "ult", "ulte", "ugt", "ugte"} -> n.w = 1 /\ w(1) = w(2)
          [] OTHER -> w(1) = n.w /\ w(2) = n.w

-----------------------------------------------------------------------------
(***************************************************************************)
(* The passes that simplify a transition system (Transform/IR).  Most go   *)
(* over the nodes once and choose for each the node that stands for it: a  *)
(* replacement maps a number to the number of a node that stands for       *)
(* itself.  rep below is what has been chosen for the nodes so far.        *)
(***************************************************************************)

Numbers(s) == [i \in 1..Len(s.ops) |-> i]
Chosen(s, Better(_, _)) == Fold(LAMBDA rep, i : Append(rep, Better(rep, i)), <<>>, Numbers(s))

(***************************************************************************)
(* rebuild(): the nodes that stand for themselves and are kept are         *)
(* numbered again, and everything that refers to a node follows.           *)
(***************************************************************************)
Rebuild(s, rep, kept) ==
    LET stays(i) == rep[i] = i /\ i \in kept
        place == Fold(LAMBDA f, i : Append(f, IF stays(i) THEN Last(f) + 1 ELSE Last(f)), <<0>>, Numbers(s))
        New(i) == IF i = 0 \/ ~stays(rep[i]) THEN 0 ELSE place[rep[i] + 1]
        Moved(n) == [n EXCEPT !.args = [j \in 1..Len(@) |-> New(@[j])]]
        States == SelectSeq(s.states, LAMBDA q : q.value \in kept)
    IN  [s EXCEPT !.ops = Fold(LAMBDA f, i : IF stays(i) THEN Append(f, Moved(s.ops[i])) ELSE f,
                               <<>>, Numbers(s)),
                  !.states = [i \in 1..Len(States) |->
                                 [value |-> New(States[i].value), initial |-> New(States[i].initial),
                                  next |-> New(States[i].next)]],
                  !.outputs = [i \in 1..Len(@) |-> [@[i] EXCEPT !.value = New(@)]],
                  !.props = [i \in 1..Len(@) |-> [@[i] EXCEPT !.condition = New(@)]]]

Replace(s, rep) == IF rep = Numbers(s) THEN s ELSE Rebuild(s, rep, DOMAIN s.ops)

IsConst(s, v) == s.ops[v].op = "const"
IsZero(s, v) == IsConst(s, v) /\ s.ops[v].b = 0
IsOnes(s, v) == IsConst(s, v) /\ s.ops[v].b = Ones(WidthOf(s, v))

\* A constant that leaves the other operand as it is, one that decides alone.
Neutral(s, op, v) == \/ op = "and" /\ IsOnes(s, v)
                     \/ op \in {"or", "xor", "add"} /\ IsZero(s, v)
                     \/ op = "mul" /\ IsConst(s, v) /\ s.ops[v].b = 1
Absorbing(s, op, v) == op \in {"and", "mul"} /\ IsZero(s, v)

\* The first constant bit b before node i, which the comparison is replaced by.
Earlier(s, i, b) ==
    LET found == {j \in 1..(i - 1) : s.ops[j] = ConstNode(1, b)}
    IN  IF found = {} THEN i ELSE CHOOSE j \in found : \A k \in found : j <= k

SimplifyAlgebra(s) ==
    LET Better(rep, i) ==
            LET n == s.ops[i]
                left == rep[n.args[1]]
                right == rep[n.args[2]]
            IN  IF Len(n.args) # 2 THEN i
                ELSE IF Neutral(s, n.op, right) \/ (n.op = "sub" /\ IsZero(s, right)) THEN left
                ELSE IF Neutral(s, n.op, left) THEN right
                ELSE IF Absorbing(s, n.op, right) THEN right
                ELSE IF Absorbing(s, n.op, left) THEN left
                ELSE IF n.op \in {"eq", "neq"} /\ left = right THEN Earlier(s, i, Bit(n.op = "eq")) ELSE i
    IN  Replace(s, Chosen(s, Better))

SimplifyBranches(s) ==
    LET Better(rep, i) ==
            LET n == s.ops[i]
                Of(j) == rep[n.args[j]]
            IN  IF n.op # "ite" THEN i
                ELSE IF Of(2) = Of(3) THEN Of(2)
                ELSE IF ~IsConst(s, Of(1)) THEN i
                ELSE IF s.ops[Of(1)].b % 2 = 1 THEN Of(2) ELSE Of(3)
    IN  Replace(s, Chosen(s, Better))

OptimizePeepholes(s) ==
    LET Better(rep, i) ==
            LET n == s.ops[i]
                inner == s.ops[rep[n.args[1]]]
            IN  IF n.op = "not" /\ inner.op = "not" THEN rep[inner.args[1]] ELSE i
    IN  Replace(s, Chosen(s, Better))

CombineInstructions(s) == OptimizePeepholes(SimplifyBranches(SimplifyAlgebra(s)))

PropagateCopies(s) ==
    LET Copies(n) == \/ n.op = "ite" /\ n.args[2] = n.args[3]
                     \/ n.op = "slice" /\ n.imm[2] = 0 /\ n.imm[1] + 1 = WidthOf(s, n.args[1])
                     \/ n.op \in {"uext", "sext"} /\ n.imm[1] = 0
        Better(rep, i) == IF ~Copies(s.ops[i]) THEN i
                          ELSE rep[s.ops[i].args[IF s.ops[i].op = "ite" THEN 2 ELSE 1]]
    IN  Replace(s, Chosen(s, Better))

\* In place, so that a folded node is constant for those after it.
FoldConstants(s) ==
    LET Folded(ops, n) ==
            LET v == [j \in 1..Len(n.args) |-> ops[n.args[j]].b]
                ws == [j \in 1..Len(n.args) |-> ops[n.args[j]].w]
            IN  IF \/ n.op \in {"input", "state", "const"}
                   \/ \E a \in ToSet(n.args) : ops[a].op # "const"
                   \/ n.op \in {"udiv", "urem"} /\ v[2] = 0
                THEN n ELSE ConstNode(n.w, NodeValue(n, v, ws))
    IN  [s EXCEPT !.ops = Fold(LAMBDA ops, n : Append(ops, Folded(ops, n)), <<>>, s.ops)]

\* The operands of these are compared in either order.
Commutative == {"and", "or", "xor", "add", "mul", "eq", "neq"}

EliminateCommon(s) ==
    LET Key(n, args) == <<n.op, n.w, IF n.op \in Commutative /\ args[2] < args[1]
                                      THEN <<args[2], args[1]>> ELSE args, n.imm, n.b>>
        Step(t, i) ==
            LET n == s.ops[i]
                key == Key(n, [j \in 1..Len(n.args) |-> t.rep[n.args[j]]])
            IN  IF n.op \in {"input", "state"} THEN [t EXCEPT !.rep = Append(@, i)]
                ELSE IF key \in DOMAIN t.seen THEN [t EXCEPT !.rep = Append(@, t.seen[key])]
                ELSE [rep |-> Append(t.rep, i), seen |-> (key :> i) @@ t.seen]
    IN  Replace(s, Fold(Step, [rep |-> <<>>, seen |-> [k \in {} |-> 0]], Numbers(s)).rep)

(***************************************************************************)
(* A multiplication by a power of two becomes a shift, whose amount takes  *)
(* the place of the constant: nothing else may use it.  Uses are counted   *)
(* before the first node is changed.                                       *)
(***************************************************************************)
References(s) == Fold(LAMBDA all, n : all \o n.args, <<>>, s.ops)
                 \o Fold(LAMBDA all, q : all \o <<q.initial, q.next>>, <<>>, s.states)
                 \o [i \in 1..Len(s.outputs) |-> s.outputs[i].value]
                 \o [i \in 1..Len(s.props) |-> s.props[i].condition]
UsedOnce(s, v) == Len(SelectSeq(References(s), LAMBDA r : r = v)) = 1

Bits == {2^i : i \in 0..16}
\* Mutant: the places are counted from one.
PlaceFromOne(b) == CHOOSE i \in 1..17 : 2^(i - 1) = b
Place(b) == CHOOSE i \in 0..16 : 2^i = b

ReduceStrength(s) ==
    LET Step(t, i) ==
            LET n == t.ops[i]
                at == IF n.op = "mul" /\ IsConst(t, n.args[1]) THEN 1 ELSE 2
                constant == n.args[at]
            IN  IF n.op \notin {"mul", "udiv"} THEN t
                ELSE IF ~IsConst(t, constant) \/ t.ops[constant].b \notin Bits \/ ~UsedOnce(s, constant) THEN t
                ELSE [t EXCEPT !.ops[i] = [n EXCEPT !.op = IF @ = "mul" THEN "sll" ELSE "srl",
                                                    !.args = <<n.args[3 - at], constant>>],
                               !.ops[constant] = ConstNode(@.w, Place(@.b))]
    IN  Fold(Step, s, Numbers(s))

\* What is reached from the outputs and the properties; a state reaches its
\* initial and its next value.
RECURSIVE Reached(_, _)
Reached(s, live) ==
    LET more == live \cup UNION {ToSet(s.ops[v].args) : v \in live}
                     \cup UNION {{q.initial, q.next} \ {0} : q \in {r \in ToSet(s.states) : r.value \in live}}
    IN  IF more = live THEN live ELSE Reached(s, more)

EliminateDeadNodes(s) ==
    LET roots == {s.outputs[i].value : i \in 1..Len(s.outputs)} \cup {s.props[i].condition : i \in 1..Len(s.props)}
    IN  Rebuild(s, Numbers(s), Reached(s, roots))

\* One round of the pipeline; there are at most eight, and one that changes
\* nothing is the last.
Round(s) == EliminateCommon(FoldConstants(ReduceStrength(PropagateCopies(CombineInstructions(FoldConstants(s))))))

RECURSIVE Rounds(_, _)
Rounds(s, left) == LET t == Round(s) IN IF t = s \/ left = 1 THEN t ELSE Rounds(t, left - 1)

OptimizeSystem(s) == EliminateDeadNodes(Rounds(s, 8))
=============================================================================
