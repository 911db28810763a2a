--------------------------- MODULE ModuleLowering ---------------------------
(***************************************************************************)
(* The lowering of the body of one instance, and of a design: a sequence   *)
(* of bodies [name, members], the root last.  A member is a port, a        *)
(* variable, a continuous assignment, an always_comb, an always_ff or an   *)
(* initial block, or an instance with its connections.                     *)
(***************************************************************************)
EXTENDS FrontendLowering

Members(body, kinds) == SelectSeq(body.members, LAMBDA x : x.m \in kinds)

\* The ports and variables: their types, memories, and the inputs' values.
Declare(c, x) ==
    LET typed == [c EXCEPT !.types = (x.n :> x.w) @@ @,
                           !.memories = IF x.cnt = 0 THEN @ ELSE (x.n :> x.cnt) @@ @]
        Element(k, i) == LET part == EmitAt(k, "slice", <<Val(x.n)>>, x.w, (i - 1) * x.w)
                         IN  Store(part.c, Elem(x.n, i - 1), part.v, FALSE)
    IN  IF x.m # "port" \/ x.dir # "In" THEN typed
        ELSE IF x.cnt = 0 THEN Store(typed, x.n, Value(Val(x.n), x.w), FALSE)
        ELSE Fold(Element, typed, [i \in 1..x.cnt |-> i])

Width(x) == IF x.cnt = 0 THEN x.w ELSE x.w * x.cnt
Ports(body, dir) ==
    LET ports == SelectSeq(body.members, LAMBDA x : x.m = "port" /\ x.dir = dir)
    IN  [i \in 1..Len(ports) |-> [n |-> ports[i].n, w |-> Width(ports[i])]]

RECURSIVE Targets(_, _), BaseOf(_)

BaseOf(t) == IF t.e \in {"elem", "member"} THEN BaseOf(t.base) ELSE t.n

StatesOf(c, t) ==
    CASE t.e = "name"   -> {[n |-> t.n, w |-> IF t.hier THEN t.w ELSE 0]}
      [] t.e = "concat" -> {[n |-> t.args[i].n, w |-> 0] : i \in 1..Len(t.args)}
      [] t.e \in {"elem", "member"} ->
            IF BaseOf(t) \in DOMAIN c.memories
            THEN {[n |-> Elem(BaseOf(t), i), w |-> 0] : i \in 0..(c.memories[BaseOf(t)] - 1)}
            ELSE {[n |-> BaseOf(t), w |-> 0]}
      [] OTHER -> {}

(***************************************************************************)
(* The registers are what a clocked or initial block assigns without       *)
(* blocking; a target reached by another way is not seen.  A register of   *)
(* another module brings its width along.                                  *)
(***************************************************************************)
Targets(c, s) ==
    CASE s.s = "assign" -> IF s.nb THEN StatesOf(c, s.l) ELSE {}
      [] s.s = "list"   -> UNION {Targets(c, s.items[i]) : i \in 1..Len(s.items)}
      [] s.s = "if"     -> Targets(c, s.t) \cup Targets(c, s.f)
      [] s.s = "case"   -> Targets(c, s.default) \cup
                             UNION {Targets(c, s.items[i].stmt) : i \in 1..Len(s.items)}
      [] s.s = "for"    -> Targets(c, s.body)
      [] OTHER          -> {}

InitialDone == "__initial_done"

CollectStates(c, body) ==
    LET clocked == Members(body, {"ff", "initial"})
        targets == UNION {Targets(c, clocked[i].body) : i \in 1..Len(clocked)}
        outer == {t \in targets : t.w > 0}
        initial == IF Members(body, {"initial"}) = <<>> THEN {} ELSE {InitialDone}
    IN  [c EXCEPT !.states = {t.n : t \in targets} \cup initial,
                  !.types = @ @@ [n \in {t.n : t \in outer} |-> (CHOOSE t \in outer : t.n = n).w]
                              @@ [n \in initial |-> 1]]

\* The width of a register; an element has the type of its memory.
StateWidth(c, n) ==
    IF n \in DOMAIN c.types THEN c.types[n]
    ELSE c.types[CHOOSE m \in DOMAIN c.memories : \E i \in 0..(c.memories[m] - 1) : n = Elem(m, i)]

---------------------------------------------------------------------------
(* Instances.  An input that is a name without a value yet is deferred,    *)
(* under the name that is unresolved: its own, since only a name that has  *)
(* a type can be, and an element of a memory has none.                     *)

Argument(r, x) ==
    LET Result(a) == IF a.c.err = "unresolved" /\ x.e = "name"
                     THEN Give([a.c EXCEPT !.err = ""], Append(r.v, Deferred(x.n)))
                     ELSE Give(a.c, Append(r.v, a.v.o))
    IN  Result(Expression(r.c, x))

\* The outputs of an instance are assigned to what they are connected to.
Connect(c, x, outs, arguments, first) ==
    LET results == [i \in 1..Len(outs) |-> ToString(first + i - 1)]
        Output(r, i) == IF outs[i].x.e = "empty" THEN r
                        ELSE Assign(r.c, outs[i].x, Value(Val(results[i]), outs[i].x.w), NoValue, FALSE)
    IN  Each(Done(Effect([c EXCEPT !.next = first + Len(outs)], Instance(x.n, x.target, results, arguments))),
             Output, [i \in 1..Len(outs) |-> i])

LowerInstance(c, x) ==
    LET In(z) == z.dir = "In"
    IN  On(Each(Give(c, <<>>), LAMBDA r, z : Argument(r, z.x), SelectSeq(x.conns, In)), LAMBDA r :
           Connect(r.c, x, SelectSeq(x.conns, LAMBDA z : ~In(z)), r.v, r.c.next))

LowerMember(c, x) ==
    CASE x.m = "assign" -> On(Expression(c, x.r), LAMBDA right :
                              Assign(right.c, x.l, right.v, NoValue, FALSE))
      [] x.m = "comb"   -> Statement(c, x.body, NoValue, FALSE)
      [] x.m = "inst"   -> LowerInstance(c, x)

(***************************************************************************)
(* The combinational members are tried in turn until none is left.  One    *)
(* that meets a value not known yet is undone and tried again; the types   *)
(* it set, the states and the return value are not undone.                 *)
(***************************************************************************)
Undone(c, tried) == [tried EXCEPT !.ops = c.ops, !.values = c.values, !.pending = c.pending,
                                  !.next = c.next, !.err = ""]

\* progress: a member was lowered since the last round began.
RECURSIVE Combinational(_, _, _, _)
Combinational(c, todo, at, progress) ==
    LET After(tried) == CASE tried.err = ""           -> Combinational(tried, RemoveAt(todo, at), at, TRUE)
                          [] tried.err = "unresolved" -> Combinational(Undone(c, tried), todo, at + 1, progress)
                          [] OTHER                    -> tried
    IN  IF todo = <<>> THEN c
        ELSE IF at <= Len(todo) THEN After(LowerMember(c, todo[at]).c)
        ELSE IF progress THEN Combinational(c, todo, 1, FALSE) ELSE [c EXCEPT !.err = "cycle"]

\* A memory all of whose elements have values has a value of its own.
PackMemories(c) ==
    LET Complete(n) == /\ n \notin DOMAIN c.values
                       /\ \A i \in 0..(c.memories[n] - 1) : Elem(n, i) \in DOMAIN c.values
        Pack(r, n) ==
            On(Join(r.c, [i \in 1..c.memories[n] |-> r.c.values[Elem(n, c.memories[n] - i)]]),
               LAMBDA whole : Done(Store(whole.c, n, whole.v, FALSE)))
    IN  Each(Done(c), Pack, SetToSeq({n \in DOMAIN c.memories : Complete(n)}))

ResolveDeferred(c) ==
    LET waiting == {a \in UNION {ToSet(c.ops[i].args) : i \in 1..Len(c.ops)} : a.k = "deferred"}
        Resolve(a) == IF a.k = "deferred" THEN c.values[a.n].o ELSE a
        Operands(args) == [j \in 1..Len(args) |-> Resolve(args[j])]
    IN  IF \E a \in waiting : a.n \notin DOMAIN c.values THEN Refuse(c, "throw")
        ELSE Done([c EXCEPT !.ops = [i \in 1..Len(c.ops) |-> [c.ops[i] EXCEPT !.args = Operands(@)]]])

---------------------------------------------------------------------------
(* Clocked blocks.  The previous value of a clock is a register of its own. *)

Previous(n) == n \o "_prev"

Remembering(c, memory) ==
    [c EXCEPT !.states = @ \cup {memory},
              !.declared = IF memory \in c.states THEN @ ELSE @ \cup {memory}]

Edge(r, event) ==
    LET memory == Previous(event.x.n)
        low(was, now) == IF event.edge = "PosEdge" THEN was ELSE now
        high(was, now) == IF event.edge = "PosEdge" THEN now ELSE was
    IN  On(Expression(r.c, event.x), LAMBDA signal :
        On(Read(Remembering(signal.c, memory), memory, 1), LAMBDA was :
        On(Emit(was.c, "not", <<low(was.v, signal.v).o>>, 1), LAMBDA inverted :
        On(Emit(inverted.c, "and", <<inverted.v.o, high(was.v, signal.v).o>>, 1), LAMBDA found :
        On(Give(Effect(found.c, StateWrite(memory, signal.v.o)), found.v), LAMBDA kept :
           IF Missing(r.v) THEN kept ELSE Emit(kept.c, "or", <<r.v.o, kept.v.o>>, 1))))))

Clocked(c, x) ==
    On(Each(Give(c, IF Len(x.events) = 1 THEN NoValue ELSE Value(Lit(0, 1), 1)), Edge, x.events),
       LAMBDA enabled : Statement(enabled.c, x.body, enabled.v, TRUE))

InitialBlocks(c, blocks) ==
    IF blocks = <<>> THEN Done(c)
    ELSE On(Read(c, InitialDone, 1), LAMBDA done :
         On(Emit(done.c, "not", <<done.v.o>>, 1), LAMBDA active :
         On(Each(Done(active.c), LAMBDA r, x : Statement(r.c, x.body, active.v, TRUE), blocks), LAMBDA run :
            Done(Store(run.c, InitialDone, Value(Lit(1, 1), 1), TRUE)))))

SequentialBlocks(c, body) ==
    Each(InitialBlocks(c, Members(body, {"initial"})), LAMBDA r, x : Clocked(r.c, x), Members(body, {"ff"}))

StateWrites(c) ==
    Fold(LAMBDA k, n : Effect(k, StateWrite(n, c.pending[n].o)), c, SetToSeq(DOMAIN c.pending))

(***************************************************************************)
(* What a module yields for an output: the next value of a register, the   *)
(* value of a combinational one; an output nobody drives is unknown.       *)
(***************************************************************************)
OutputValue(c, n) ==
    CASE n \in DOMAIN c.pending -> Give(c, c.pending[n])
      [] n \notin DOMAIN c.pending /\ n \in DOMAIN c.values -> Give(c, c.values[n])
      [] n \notin DOMAIN c.pending \cup DOMAIN c.values /\ n \in DOMAIN c.memories ->
            On(Elements(c, n, c.types[n]), LAMBDA r : Join(r.c, r.v))
      [] OTHER -> IF n \in c.states THEN Read(c, n, c.types[n])
                  ELSE Give(c, Value(Unknown(c.types[n]), c.types[n]))

Output(c, n) ==
    On(OutputValue(c, n), LAMBDA item :
       IF IsVal(item.v.o) THEN item ELSE Emit(item.c, "or", <<item.v.o, Lit(0, item.v.w)>>, item.v.w))

Outputs(c, body) ==
    LET Next(r, x) == On(Output(r.c, x.n), LAMBDA o : Give(o.c, Append(r.v, o.v.o)))
    IN  On(Each(Give(c, <<>>), Next, Ports(body, "Out")), LAMBDA r : Done(Effect(r.c, Yield(r.v))))

Declarations(c, names) ==
    LET s == SetToSeq(names) IN [i \in 1..Len(s) |-> [n |-> s[i], w |-> StateWidth(c, s[i])]]
EdgeDeclarations(names) ==
    LET s == SetToSeq(names) IN [i \in 1..Len(s) |-> [n |-> s[i], w |-> 1]]

Declared(body, subs) ==
    CollectStates(Fold(Declare, NewContext(subs), Members(body, {"port", "var"})), body)

\* One body: the combinational members, the clocked blocks, the outputs.
LowerContents(c, body) ==
    On(Done(Combinational(c, Members(body, {"assign", "inst", "comb"}), 1, FALSE)), LAMBDA settled :
    On(PackMemories(settled.c), LAMBDA packed :
    On(ResolveDeferred(packed.c), LAMBDA resolved :
    On(SequentialBlocks(resolved.c, body), LAMBDA clocked :
       Outputs(StateWrites(clocked.c), body)))))

LoweredModule(body, stated, c) ==
    [name |-> body.name, inputs |-> Ports(body, "In"), results |-> Ports(body, "Out"),
     states |-> Declarations(stated, stated.states) \o EdgeDeclarations(c.declared),
     ops |-> c.ops, err |-> c.err]

LowerBody(body, stated) == LoweredModule(body, stated, LowerContents(stated, body).c)

LowerDesign(d) == [i \in 1..Len(d.bodies) |-> LowerBody(d.bodies[i], Declared(d.bodies[i], d.subs))]

-----------------------------------------------------------------------------
(***************************************************************************)
(* Flattening of a verified EIR program into one module without instances, *)
(* whose operations are then put into an order in which every value is     *)
(* defined before it is used.                                              *)
(***************************************************************************)

NoNames == [n \in {} |-> Val(n)]

\* A name that no map knows keeps its text.
Substitute(values, o) == IF IsVal(o) /\ o.n \in DOMAIN values THEN values[o.n] ELSE o
Arguments(values, args) == [i \in 1..Len(args) |-> Substitute(values, args[i])]

StatePath(path, s) == path \o "." \o s

\* A register: its full name, the part of it behind the root, and the last part.
Placed(p, path, s) ==
    [n |-> StatePath(Root(p).name \o path, s.n), rest |-> StatePath(path, s.n), leaf |-> s.n, w |-> s.w]

(***************************************************************************)
(* One instance: its operations are renamed apart first, from the counter  *)
(* next of the whole program; the results of an instance inside it get     *)
(* their values only when the walk reaches it.                             *)
(***************************************************************************)
RECURSIVE Instantiate(_, _, _, _, _)
Instantiate(p, flat, m, path, arguments) ==
    LET inputs == [n \in ToSet(NamesOf(m.inputs)) |->
                      arguments[CHOOSE i \in 1..Len(m.inputs) : m.inputs[i].n = n]]
        own == FlattenSeq([i \in 1..Len(m.ops) |->
                              IF m.ops[i].op = "instance" THEN <<>> ELSE m.ops[i].res])
        renamed == [n \in ToSet(own) |->
                       Val(ToString(flat.next + (CHOOSE i \in 1..Len(own) : own[i] = n) - 1))]
        entered == [flat EXCEPT
                       !.next = @ + Len(own),
                       !.states = @ \o [i \in 1..Len(m.states) |-> Placed(p, path, m.states[i])]]
        Inner(s, o) ==
            LET child == Instantiate(p, s.flat, Named(p, o.target), StatePath(path, o.inst),
                                     Arguments(s.values, o.args))
            IN  [s EXCEPT !.flat = child.flat,
                          !.values = [n \in ToSet(o.res) |->
                                         child.yielded[CHOOSE i \in 1..Len(o.res) : o.res[i] = n]] @@ @]
        Copy(s, o) ==
            [s EXCEPT !.flat.ops = Append(@,
                [o EXCEPT !.args = Arguments(s.values, @),
                          !.res = [i \in 1..Len(@) |-> s.values[@[i]].n],
                          !.state = IF @ = "" THEN @ ELSE StatePath(Root(p).name \o path, @)])]
        Walk(s, o) == CASE o.op = "instance" -> Inner(s, o)
                        [] o.op = "yield"    -> [s EXCEPT !.yielded = @ \o Arguments(s.values, o.args)]
                        [] OTHER             -> Copy(s, o)
        end == Fold(Walk, [flat |-> entered, values |-> renamed @@ inputs, yielded |-> <<>>], m.ops)
    IN  [flat |-> end.flat, yielded |-> end.yielded]

(***************************************************************************)
(* schedule(): one pass takes what is ready, in order; passes are repeated *)
(* until nothing is left, or one takes nothing.                            *)
(***************************************************************************)
Pass(s) ==
    Fold(LAMBDA t, o : IF Uses(o) \subseteq t.ready
                           THEN [t EXCEPT !.ready = @ \cup ToSet(o.res), !.ops = Append(@, o)]
                           ELSE [t EXCEPT !.left = Append(@, o)],
             [s EXCEPT !.left = <<>>], s.left)

RECURSIVE Passes(_)
Passes(s) == IF s.left = <<>> THEN s
             ELSE LET t == Pass(s) IN IF Len(t.left) = Len(s.left) THEN t ELSE Passes(t)

\* err says why the program could not be flattened; "" when it could.
Flattened(p) ==
    LET root == Root(p)
        whole == Instantiate(p, [ops |-> <<>>, states |-> <<>>, next |-> 0], root, "",
                             [i \in 1..Len(root.inputs) |-> Val(root.inputs[i].n)])
        ordered == Passes([ready |-> ToSet(NamesOf(root.inputs)), ops |-> <<>>, left |-> whole.flat.ops])
        yield == Yield(whole.yielded)
    IN  [name |-> root.name, inputs |-> root.inputs, results |-> root.results,
         states |-> whole.flat.states, ops |-> Append(ordered.ops, yield),
         err |-> IF ordered.left # <<>> THEN "unscheduled"
                 ELSE IF ~ (Uses(yield) \subseteq ordered.ready) THEN "undefined" ELSE ""]
=============================================================================
