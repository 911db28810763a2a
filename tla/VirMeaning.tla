----------------------------- MODULE VirMeaning -----------------------------
(***************************************************************************)
(* What a VIR function does, once it has been printed as LLVM IR: the text *)
(* of every operation is checked as clang does (operands defined, of the   *)
(* type written), then executed.  Runtime services are external: of a call *)
(* it matters which service is called, with what, and what it answers.     *)
(***************************************************************************)
EXTENDS VirLowering

(***************************************************************************)
(* The services.  world is what they answer within one step: the item of   *)
(* every queue, a number.  said are the calls, as a test bench sees them.  *)
(***************************************************************************)
NewServices == [fields |-> [n \in {} |-> 0], said |-> <<>>, world |-> [item |-> "null", number |-> 0]]
Says(services, callee, args) == [services EXCEPT !.said = Append(@, [f |-> callee, args |-> args])]

Reads(services, object, field, w) ==
    IF <<object, field>> \in DOMAIN services.fields THEN services.fields[<<object, field>>]
    ELSE IF w = Pointer THEN "null" ELSE 0
Writes(services, object, field, v) == [services EXCEPT !.fields = (<<object, field>> :> v) @@ @]

Answer(services, callee) ==
    CASE callee \in {"sequence.try_get.ptr", "tlm.fifo.try_get.ptr"} -> services.world.item
      [] callee = "object.randomize"    -> 1
      [] callee = "collection.get.ptr"  -> "element"
      [] callee = "factory.create.ptr"  -> "new object"
      [] callee = "process.spawn"       -> "process"
      [] OTHER                          -> services.world.number

\* coverage.sample.range.u64 samples the bin its range holds the value of; a
\* queue holds at most one item.
Serve(services, callee, args) ==
    CASE callee = "coverage.sample.range.u64" ->
            IF args[3] <= args[2] /\ args[2] <= args[4]
            THEN Says(services, "coverage.sample", <<args[1], args[2]>>) ELSE services
      [] callee = "object.randomize" ->
            Writes(Says(services, callee, args), args[1], "data", services.world.number)
      [] callee \in {"sequence.try_get.ptr", "tlm.fifo.try_get.ptr"} ->
            [Says(services, callee, args) EXCEPT !.world.item = "null"]
      [] OTHER -> Says(services, callee, args)

---------------------------------------------------------------------------
(* The operations as they are printed.  A constant is printed as a number, *)
(* which takes the type of the operand before it.                          *)

SameWidth == "Add" :> "add" @@ "Subtract" :> "sub" @@ "Multiply" :> "mul" @@ "BitwiseAnd" :> "and" @@
             "BitwiseOr" :> "or" @@ "BitwiseXor" :> "xor" @@ "LogicalAnd" :> "and" @@ "LogicalOr" :> "or"
Comparison == "Equality" :> "eq" @@ "Inequality" :> "ne" @@ "LessThan" :> "slt" @@ "LessThanEqual" :> "sle"
Mirrored == "GreaterThan" :> "slt" @@ "GreaterThanEqual" :> "sle"

\* Pointers are compared by their name.
Compared(x, w, l, r) ==
    IF w = Pointer THEN Bit((x = "Equality") = (l = r))
    ELSE IF x \in DOMAIN Comparison THEN Apply(Comparison[x], 1, <<l, r>>, <<w, w>>, 0)
    ELSE Apply(Mirrored[x], 1, <<r, l>>, <<w, w>>, 0)

Compares(x) == x \in DOMAIN Comparison \cup DOMAIN Mirrored

\* The width of the value the text of o computes; -1 if clang refuses it.
\* A number in the text has no width of its own.
Refused == -1
TextWidth(o, constants) ==
    LET ws == [i \in 1..Len(o.args) |-> o.args[i].w]
    IN  CASE o.op = "binary" /\ (ws[1] = ws[2] \/ o.args[2].id \in constants) ->
                IF Compares(o.x) THEN 1 ELSE IF o.x \in DOMAIN SameWidth THEN ws[1] ELSE Refused
          [] o.op = "unary"  -> IF o.x = "LogicalNot" /\ ws[1] # 1 THEN Refused ELSE ws[1]
          [] o.op = "concat" -> IF ws[1] < o.res.w /\ ws[2] < o.res.w THEN o.res.w ELSE Refused
          [] o.op = "zext"   -> IF ws[1] < o.res.w THEN o.res.w ELSE Refused
          [] o.op = "trunc"  -> IF ws[1] > o.res.w THEN o.res.w ELSE Refused
          [] o.op \in {"const", "string", "null", "load", "call"} -> o.res.w
          [] OTHER           -> Refused

Computed(o, v) ==
    LET ws == [i \in 1..Len(o.args) |-> o.args[i].w]
    IN  CASE o.op = "binary" -> IF Compares(o.x) THEN Compared(o.x, ws[1], v[1], v[2])
                                ELSE Apply(SameWidth[o.x], ws[1], v, ws, 0)
          [] o.op = "unary"  -> Ones(ws[1]) - v[1]
          [] OTHER           -> Apply(o.op, o.res.w, v, ws, 0)

---------------------------------------------------------------------------
(* One call of a function.  vals are the values of this call, memory the   *)
(* global symbols, locals the variables in the process object, pc and wait *)
(* what the scheduler keeps of the process.                                *)

Resumed == [on |-> "", time |-> 0, event |-> ""]
NewMachine == [vals |-> <<>>, constants |-> {}, memory |-> [n \in {} |-> 0], locals |-> [n \in {} |-> 0], services |-> NewServices,
               pc |-> 0, wait |-> Resumed, to |-> 0, err |-> ""]

Fails(m, error) == [m EXCEPT !.err = error]
Sets(m, o, v) == [m EXCEPT !.vals = (o.res.id :> v) @@ @]

Known1(map, n, w) == IF <<n>> \in DOMAIN map THEN map[<<n>>] ELSE IF w = Pointer THEN "null" ELSE 0

\* A variable of the process: an integer or an object, as it was stored.
LoadsLocal(m, o, name, pointer) ==
    IF <<name>> \notin DOMAIN m.locals \/ m.locals[<<name>>].pointer # pointer THEN Fails(m, "no such local")
    ELSE Sets(m, o, m.locals[<<name>>].v)
StoresLocal(m, name, pointer, v) == [m EXCEPT !.locals = (<<name>> :> [pointer |-> pointer, v |-> v]) @@ @]

Served(m, o, v) ==
    LET after == [m EXCEPT !.services = Serve(@, o.x, v)]
    IN  IF o.res = NoResult THEN after
        ELSE Sets(after, o, IF o.res.w = Pointer THEN Answer(m.services, o.x) ELSE Low(Answer(m.services, o.x), o.res.w))

Calls(m, o, v) ==
    CASE o.x = "process.pc"         -> Sets(m, o, m.pc)
      [] o.x = "process.set_pc"     -> [m EXCEPT !.pc = v[2]]
      [] o.x = "process.wait_time"  -> [m EXCEPT !.wait = [on |-> "time", time |-> v[2], event |-> ""]]
      [] o.x = "process.wait_event" -> [m EXCEPT !.wait = [on |-> "event", time |-> 0, event |-> v[2]]]
      [] o.x = "process.complete"   -> [m EXCEPT !.wait = [on |-> "done", time |-> 0, event |-> ""]]
      [] o.x \in {"process.load.ptr", "process.load.u64"}   -> LoadsLocal(m, o, v[2], o.x = "process.load.ptr")
      [] o.x \in {"process.store.ptr", "process.store.u64"} -> StoresLocal(m, v[2], o.x = "process.store.ptr", v[3])
      [] o.x \in {"object.load.ptr", "object.load.u64"}     -> Sets(m, o, Reads(m.services, v[1], v[2], o.res.w))
      [] o.x \in {"object.store.ptr", "object.store.u64"}   ->
            IF v[1] = "null" THEN Fails(m, "invalid object")
            ELSE [m EXCEPT !.services = Writes(@, v[1], v[2], v[3])]
      [] OTHER -> Served(m, o, v)

Bytes(w) == (w + 7) \div 8

Executes(m, o, v) ==
    CASE o.op = "ret"       -> [m EXCEPT !.to = 0]
      [] o.op = "br"        -> [m EXCEPT !.to = o.x]
      [] o.op = "cond_br"   -> [m EXCEPT !.to = IF v[1] = 1 THEN o.x[1] ELSE o.x[2]]
      [] o.op = "finish"    -> [m EXCEPT !.services = Says(@, "finish", <<>>)]
      [] o.op = "store"     -> [m EXCEPT !.memory = (<<o.x>> :> v[1]) @@ @]
      [] o.op = "nba_store" ->
            [m EXCEPT !.services = Says(@, "nba", <<o.x.n, Low(v[1], IF o.x.w < 8 THEN 8 ELSE o.x.w), Bytes(o.x.w)>>)]
      [] o.op = "load"      -> Sets(m, o, Known1(m.memory, o.x, o.res.w))
      [] o.op \in {"const", "string"} -> Sets([m EXCEPT !.constants = @ \cup {o.res.id}], o, o.x)
      [] o.op = "null"      -> Sets(m, o, "null")
      [] o.op = "call"      -> Calls(m, o, v)
      [] OTHER              -> Sets(m, o, Computed(o, v))

Effects == {"ret", "br", "cond_br", "finish", "store", "nba_store"}
Defined(m, o) == \A i \in 1..Len(o.args) : o.args[i] = Self \/ o.args[i].id \in DOMAIN m.vals
OperandValues(m, o) == [i \in 1..Len(o.args) |-> IF o.args[i] = Self THEN "self" ELSE m.vals[o.args[i].id]]

Accepts(m, o) ==
    o.op \in Effects \/ o.res = NoResult \/ TextWidth(o, m.constants) = o.res.w

Execute(m, o) ==
    IF m.err # "" THEN m
    ELSE IF ~Defined(m, o) THEN Fails(m, "undefined value")
    ELSE IF ~Accepts(m, o) THEN Fails(m, "refused")
    ELSE Executes(m, o, OperandValues(m, o))

\* Fuel: the blocks one step may go through.
RECURSIVE RunBlock(_, _, _, _)
RunBlock(fn, m, block, fuel) ==
    IF fuel = 0 THEN Fails(m, "spins")
    ELSE CHOOSE r \in {IF after.err # "" \/ after.to = 0 THEN after ELSE RunBlock(fn, after, after.to, fuel - 1) :
                          after \in {Fold(Execute, m, fn.blocks[block])}} : TRUE

\* A step of the process: its function is called from the entry.
StepOf(fn, m) == [RunBlock(fn, [m EXCEPT !.vals = <<>>, !.constants = {}, !.wait = Resumed, !.services.said = <<>>], 1, 60)
                  EXCEPT !.vals = <<>>, !.constants = {}]
---------------------------------------------------------------------------
(***************************************************************************)
(* The analyses of a VIR function (Analysis/, VIR/Verifier.cpp): its       *)
(* control flow, the blocks that dominate a block, the values live at its  *)
(* start and its end.  Blocks are numbers, the entry is 1.                 *)
(***************************************************************************)
BlocksOf(fn) == 1..Len(fn.blocks)

\* What the verifier asks of the blocks.
VerifiedFunction(fn) == \A b \in BlocksOf(fn) : Terminates(fn.blocks[b])

Successors(fn, b) ==
    IF ~Terminates(fn.blocks[b]) THEN {}
    ELSE LET o == Last(fn.blocks[b])
         IN  CASE o.op = "br" -> {o.x} [] o.op = "cond_br" -> {o.x[1], o.x[2]} [] OTHER -> {}
Graph(fn) == [b \in BlocksOf(fn) |-> Successors(fn, b)]
Predecessors(graph, b) == {p \in DOMAIN graph : b \in graph[p]}

\* The rounds go on until one changes nothing.
RECURSIVE Settled(_, _)
Settled(Round(_), x) == CHOOSE r \in {IF y = x THEN x ELSE Settled(Round, y) : y \in {Round(x)}} : TRUE

(***************************************************************************)
(* DominatorTree: from all blocks, what the predecessors have in common.   *)
(***************************************************************************)
Dominated(graph, d, b) ==
    LET before == Predecessors(graph, b)
    IN  {b} \cup {x \in DOMAIN graph : before # {} /\ \A p \in before : x \in d[p]}

DominatorTree(graph) ==
    LET all == DOMAIN graph
    IN  Settled(LAMBDA d : Fold(LAMBDA e, b : [e EXCEPT ![b] = Dominated(graph, e, b)], d,
                                [i \in 1..(Cardinality(all) - 1) |-> i + 1]),
                [b \in all |-> IF b = 1 THEN {1} ELSE all])

\* The dominator of b that no other one of them has; none is 0.
ImmediateDominator(d, b) ==
    LET others == d[b] \ {b}
        closest == {x \in others : \A y \in others \ {x} : x \notin d[y]}
    IN  IF closest = {} THEN 0 ELSE CHOOSE x \in closest : TRUE

(***************************************************************************)
(* DataFlow: the values live at the start and the end of every block.      *)
(***************************************************************************)
ResultsOf(o) == IF o.op \in Terminators \cup {"store", "nba_store", "finish"} \/ o.res = NoResult THEN {} ELSE {o.res.id}
Operands(o) == {o.args[i].id : i \in 1..Len(o.args)}

Before(ops, after) == Fold(LAMBDA live, o : (live \ ResultsOf(o)) \cup Operands(o), after, Reverse(ops))

Liveness(fn, graph) ==
    LET count == Len(fn.blocks)
        Out(live, b) == UNION {live[s].before : s \in graph[b]}
    IN  Settled(LAMBDA live : Fold(LAMBDA l, b : [l EXCEPT ![b] =
                                      [before |-> Before(fn.blocks[b], Out(l, b)) \ (IF b = 1 THEN {Self.id} ELSE {}),
                                       after |-> Out(l, b)]],
                                   live, [i \in 1..count |-> count + 1 - i]),
                [b \in BlocksOf(fn) |-> [before |-> {}, after |-> {}]])

---------------------------------------------------------------------------
(* What they promise, by paths.                                            *)

RECURSIVE ReachedFrom(_, _, _)
ReachedFrom(graph, without, from) ==
    LET more == from \cup (UNION {graph[b] : b \in from} \ without)
    IN  IF more = from THEN from ELSE ReachedFrom(graph, without, more)

\* Where a path starts: the entry, and the blocks that nothing leads to.
Starts(graph) == {1} \cup {b \in DOMAIN graph : Predecessors(graph, b) = {}}

DominatesByPaths(graph, a) ==
    LET reached == ReachedFrom(graph, {a}, Starts(graph) \ {a})
    IN  DOMAIN graph \ reached

DefinedIn(fn, b) == UNION {ResultsOf(fn.blocks[b][i]) : i \in 1..Len(fn.blocks[b])}
UsedIn(fn, b) == Before(fn.blocks[b], {})

\* Value v is wanted in the blocks from which a use is reached without its
\* definition.
WantedIn(fn, graph, v) ==
    LET defining == {b \in BlocksOf(fn) : v \in DefinedIn(fn, b)}
        uses == {b \in BlocksOf(fn) : v \in UsedIn(fn, b)}
        back == [b \in BlocksOf(fn) |-> Predecessors(graph, b)]
    IN  ReachedFrom(back, defining, uses)

AnalysesExact(fn) ==
    LET graph == Graph(fn)
        d == DominatorTree(graph)
        live == Liveness(fn, graph)
        ids == {v \in UNION {DefinedIn(fn, b) \cup UsedIn(fn, b) : b \in BlocksOf(fn)} : v # Self.id}
    IN  /\ \A a \in BlocksOf(fn) : {b \in BlocksOf(fn) : a \in d[b]} = DominatesByPaths(graph, a)
        /\ \A b \in BlocksOf(fn) : LET i == ImmediateDominator(d, b) IN i # 0 => d[b] \ {b} = d[i]
        /\ \A v \in ids : {b \in BlocksOf(fn) : v \in live[b].before} = WantedIn(fn, graph, v)

\* A value is computed before it is used, on every path to the use: with the
\* entry as the only way in, none is kept from before a suspension.
ValuesComputed(fn) == VerifiedFunction(fn) /\ Liveness(fn, Graph(fn))[1].before = {}
=============================================================================
