--------------------------- MODULE ProcessMeaning ---------------------------
(***************************************************************************)
(* What a body means, read from the source as SystemVerilog reads it: a    *)
(* process p holds what it has yet to do, its variables and the same       *)
(* services.  One step runs it until it waits or has nothing left to do.   *)
(* A loop leaves behind its body a frame, which a break drops.             *)
(***************************************************************************)
EXTENDS VirMeaning

NewSource == [todo |-> <<>>, process |-> TRUE, vars |-> [n \in {} |-> 0], memory |-> [n \in {} |-> 0],
              services |-> NewServices, wait |-> Resumed, tasks |-> {}, groups |-> [n \in {} |-> 0], err |-> ""]

Calls1(p, callee, args) == [p EXCEPT !.services = Serve(@, callee, args)]
Answered(p, callee, args, w) ==
    Give(Calls1(p, callee, args),
         IF w = Pointer THEN Answer(p.services, callee) ELSE Low(Answer(p.services, callee), w))

Puts(p, n, v) ==
    IF <<n>> \in DOMAIN p.vars THEN [p EXCEPT !.vars[<<n>>] = v]
    ELSE [p EXCEPT !.memory = (<<n>> :> v) @@ @]
Gets(p, n) ==
    IF n.n = "this" THEN "self"
    ELSE IF <<n.n>> \in DOMAIN p.vars THEN p.vars[<<n.n>>] ELSE Known1(p.memory, n.n, n.w)

Operates(op, w, l, r) ==
    CASE op = "Add"              -> (l + r) % 2^w
      [] op = "Subtract"         -> (l - r) % 2^w
      [] op = "Multiply"         -> (l * r) % 2^w
      [] op = "Equality"         -> Bit(l = r)
      [] op = "Inequality"       -> Bit(l # r)
      [] op = "LessThan"         -> Bit(l < r)
      [] op = "LessThanEqual"    -> Bit(l <= r)
      [] op = "GreaterThan"      -> Bit(l > r)
      [] op = "GreaterThanEqual" -> Bit(l >= r)
      [] op = "LogicalAnd"       -> Bit(l # 0 /\ r # 0)
      [] op = "LogicalOr"        -> Bit(l # 0 \/ r # 0)
      [] op = "BitwiseAnd"       -> l & r
      [] op = "BitwiseOr"        -> l | r
      [] op = "BitwiseXor"       -> l ^^ r

RECURSIVE ValueOf(_, _)
ValuesOf(p, nodes) ==
    Each(Give(p, <<>>), LAMBDA r, n : On(ValueOf(r.c, n), LAMBDA z : Give(z.c, Append(r.v, z.v))),
         SelectSeq(nodes, LAMBDA n : n.e # "empty"))

Assigns(p, l, v, later) ==
    CASE l.e = "field" ->
            On(ValueOf(p, l.base), LAMBDA o :
               IF o.v = "null" THEN Refuse(o.c, "null object")
               ELSE Give([o.c EXCEPT !.services = Writes(@, o.v, l.n, v)], v))
      [] l.e # "field" /\ later ->
            Give([p EXCEPT !.services = Says(@, "nba", <<l.n, v, (l.w + 7) \div 8>>)], v)
      [] OTHER -> Give(Puts(p, l.n, v), v)

Creates(p, l, args) ==
    On(IF args = <<>> THEN Give(p, l.n) ELSE ValueOf(p, args[1]), LAMBDA name :
       On(IF Len(args) > 1 /\ args[2].e # "empty" THEN ValueOf(name.c, args[2]) ELSE Give(name.c, "null"),
          LAMBDA parent : Answered(parent.c, "factory.create.ptr", <<l.type, name.v, parent.v>>, Pointer)))

CallValue(p, n) ==
    CASE n.f = "size"      -> Answered(p, "collection.size", <<"self", n.this.n>>, n.w)
      [] n.f = "get"       -> Give(p, 1)
      [] n.f \in {"get_report_verbosity_level", "get_report_action"} -> Give(p, 100)
      [] n.f = "$cast"     ->
            On(ValueOf(p, n.args[2]), LAMBDA x : On(Answered(x.c, "object.is_type", <<x.v, n.args[1].type>>, 1), LAMBDA is :
               IF is.v = 1 THEN Give(Puts(is.c, n.args[1].n, x.v), 1) ELSE is))
      [] n.f = "randomize" -> On(ValueOf(p, n.this), LAMBDA x : Answered(x.c, "object.randomize", <<x.v>>, 1))
      [] n.f = "$urandom_range" ->
            On(ValuesOf(p, n.args), LAMBDA x : Answered(x.c, "random.range", <<x.v[1], Last(x.v)>>, n.w))
      [] n.f = "$sformatf" -> ValueOf(p, n.args[1])
      [] OTHER -> On(ValuesOf(p, n.args), LAMBDA x : Answered(x.c, Renamed(n.f), x.v, n.w))

StepTo(p, n) ==
    On(ValueOf(p, n.arg), LAMBDA old :
       LET new == Operates(IF n.op \in Upwards THEN "Add" ELSE "Subtract", n.arg.w, old.v, 1)
       IN  On(Assigns(old.c, n.arg, new, FALSE), LAMBDA done : Give(done.c, IF n.op \in After THEN old.v ELSE new)))

ValueOf(p, n) ==
    CASE n.e \in {"empty", "null"} -> Give(p, "null")
      [] n.e = "conv"   -> ValueOf(p, n.arg)
      [] n.e = "new"    -> Answered(p, "factory.create.ptr", <<n.type, n.type, "null">>, Pointer)
      [] n.e = "elem"   -> On(ValueOf(p, n.at), LAMBDA i :
                              Answered(i.c, "collection.get.ptr", <<"self", n.base.n, i.v>>, n.w))
      [] n.e = "string" -> Give(p, n.text)
      [] n.e = "const"  -> Give(p, n.v)
      [] n.e = "name"   -> Give(p, Gets(p, n))
      [] n.e = "field"  -> On(ValueOf(p, n.base), LAMBDA o : Give(o.c, Reads(o.c.services, o.v, n.n, n.w)))
      [] n.e = "binary" -> On(ValueOf(p, n.l), LAMBDA l : On(ValueOf(l.c, n.r), LAMBDA r :
                              Give(r.c, Operates(n.op, n.w, l.v, r.v))))
      [] n.e = "unary"  -> IF n.op \in Steps THEN StepTo(p, n)
                           ELSE On(ValueOf(p, n.arg), LAMBDA x :
                                   Give(x.c, IF n.op = "LogicalNot" THEN Bit(x.v = 0) ELSE 2^n.w - 1 - x.v))
      [] n.e = "concat" -> On(ValuesOf(p, n.args), LAMBDA x : Give(x.c, Fold(LAMBDA q, i :
                              q * 2^n.args[i].w + x.v[i], 0, [i \in 1..Len(x.v) |-> i])))
      [] n.e = "call"   -> CallValue(p, n)
      [] n.e = "set"    -> On(IF n.r.e = "call" /\ n.r.f = "create" THEN Creates(p, n.l, n.r.args) ELSE ValueOf(p, n.r),
                              LAMBDA x : Assigns(x.c, n.l, IF n.l.w = Pointer THEN x.v ELSE x.v % 2^n.l.w, n.nb))

---------------------------------------------------------------------------
(* Calls as statements: what the test bench hears of them.                 *)

Filled(v) == [i \in 1..5 |-> IF i <= Len(v) THEN v[i] ELSE CASE i = 1 -> "UVM" [] i \in {2, 4} -> "" [] OTHER -> 0]

\* A point counts in every bin one of whose ranges its value is in.
Samples(p, points) ==
    Each(Done(p), LAMBDA r, point : On(ValueOf(r.c, point.x), LAMBDA x :
        Done(Fold(LAMBDA q, bin : IF x.v \in bin.low..bin.high THEN Calls1(q, "coverage.sample", <<bin.name, x.v>>) ELSE q,
                  x.c, point.bins))), points)

Heard(p, n) ==
    LET Saying(callee, before, v) == Done(Calls1(v.c, callee, before \o v.v))
        args == ValuesOf(p, n.args)
    IN  CASE n.f \in NoOp -> Done(p)
          [] n.f = "$finish" -> Saying("finish", <<>>, Give(p, <<>>))
          [] n.f \in DOMAIN Severity -> Saying("report", <<Severity[n.f]>>, Give(args.c, Filled(args.v)))
          [] n.f = "run_test" -> Saying("run_test", <<>>, args)
          [] n.f \in {"raise_objection", "drop_objection"} ->
                Saying(IF n.f = "raise_objection" THEN "objection.raise" ELSE "objection.drop", <<>>, Give(p, <<>>))
          [] n.f = "connect" -> IF n.this.n = "seq_item_port" THEN Done(p)
                                ELSE Saying("tlm.connect", <<n.this.n, n.args[1].n>>, Give(p, <<>>))
          [] n.f = "sample" -> Samples(p, p.groups[n.this.type])
          [] n.f = "start" -> On(ValueOf(p, n.this), LAMBDA x : Saying("sequence.start.ptr", <<x.v>>,
                                 IF n.args = <<>> THEN Give(x.c, <<"null">>) ELSE ValuesOf(x.c, n.args)))
          [] n.f = "set" -> Saying("config.set.ptr", <<>>, args)
          [] p.process /\ n.f = "write" -> Saying("tlm.write.ptr", <<n.this.n>>, args)
          [] n.f = "push_back" -> Saying("collection.push.ptr", <<"self", n.this.n>>, args)
          [] n.f = "delete" -> Saying("collection.erase", <<"self", n.this.n>>, args)
          [] n.f = "start_item" -> Saying("sequence.start_item.ptr", <<"self">>, args)
          [] n.f \in {"finish_item", "item_done"} -> Saying("sequence." \o n.f, <<"self">>, Give(p, <<>>))
          [] n.f \in p.tasks -> Saying("process.spawn", <<n.f, "self">>, Give(p, <<>>))
          [] OTHER -> Saying(n.f, <<>>, args)

---------------------------------------------------------------------------
(* Statements.                                                             *)

\* Whether the body of a loop waits somewhere.
RECURSIVE Waits(_)
Waits(n) ==
    CASE n.s = "timed" -> TRUE
      [] n.s = "call" -> n.x.f \in {"get", "get_next_item"}
      [] n.s = "list" -> \E i \in 1..Len(n.items) : Waits(n.items[i])
      [] n.s = "if" -> Waits(n.t) \/ Waits(n.f)
      [] n.s \in {"repeat", "for", "do", "forever"} -> Waits(n.body)
      [] OTHER -> FALSE

Loops == {"repeat", "for", "do", "forever"}
Frame(n, left) == [s |-> "frame", of |-> n, left |-> left]

\* A round of loop n, and what is to be done behind it.
Round(p, n, left) == [p EXCEPT !.todo = <<n.body, Frame(n, left)>> \o @]

RECURSIVE Broken(_)
Broken(todo) == IF Head(todo).s = "frame" THEN Tail(todo) ELSE Broken(Tail(todo))

True(v) == v # 0

\* At the head of a loop with a condition before its body.
Begins(p, n) == On(ValueOf(p, n.cond), LAMBDA t : Done(IF True(t.v) THEN Round(t.c, n, 0) ELSE t.c))

\* Behind the body of loop n.  A process that loops without ever waiting lets
\* one unit of time go by.
Again(p, n, left) ==
    CASE n.s = "repeat"  -> Done(IF left = 0 THEN p ELSE Round(p, n, left - 1))
      [] n.s = "for"     -> On(ValuesOf(p, n.steps), LAMBDA r : Begins(r.c, n))
      [] n.s = "do"      -> Begins(p, n)
      [] n.s = "forever" -> Done(IF p.process /\ ~Waits(n.body)
                                 THEN [Round(p, n, 0) EXCEPT !.wait = [on |-> "time", time |-> 1, event |-> ""]]
                                 ELSE Round(p, n, 0))

WaitsFor(p, n) ==
    On(IF n.on = "delay" THEN ValueOf(p, n.x) ELSE Give(p, 0), LAMBDA d :
       IF ~p.process THEN Done([Calls1(d.c, "time.delay", <<d.v>>) EXCEPT !.todo = <<n.stmt>> \o @])
       ELSE Done([d.c EXCEPT !.todo = <<n.stmt>> \o @,
                             !.wait = IF n.on = "delay" THEN [on |-> "time", time |-> d.v, event |-> ""]
                                      ELSE [on |-> "event", time |-> 0, event |-> n.event]]))

\* Nothing there: the same statement again after the event.
GetsItem(p, n) ==
    LET Tried == IF n.f = "get_next_item" THEN Answered(p, "sequence.try_get.ptr", <<>>, Pointer)
                 ELSE Answered(p, "tlm.fifo.try_get.ptr", <<n.this.n>>, Pointer)
    IN  IF Tried.v # "null" THEN Done(Puts(Tried.c, n.args[1].n, Tried.v))
        ELSE Done([Tried.c EXCEPT !.todo = <<[s |-> "call", x |-> n]>> \o @,
                                  !.wait = [on |-> "event", time |-> 0, event |-> GetEvent(n)]])

Completed(p) == [p EXCEPT !.todo = <<>>, !.wait = IF p.process THEN [Resumed EXCEPT !.on = "done"] ELSE Resumed]

Does(p, n) ==
    CASE n.s = "none"    -> Done(p)
      [] n.s = "declare" ->
            IF ~p.process THEN Done(p)
            ELSE On(IF n.init = NoNode THEN Give(p, IF n.w = Pointer THEN "null" ELSE 0) ELSE ValueOf(p, n.init), LAMBDA x :
                    Done([x.c EXCEPT !.vars = (<<n.n>> :> x.v) @@ @]))
      [] n.s = "list"    -> Done([p EXCEPT !.todo = n.items \o @])
      [] n.s = "repeat"  -> Again(p, n, n.count)
      [] n.s = "for"     -> On(ValuesOf(p, n.inits), LAMBDA r : Begins(r.c, n))
      [] n.s \in {"do", "forever"} -> Done(Round(p, n, 0))
      [] n.s = "frame"   -> Again(p, n.of, n.left)
      [] n.s = "break"   -> Done([p EXCEPT !.todo = Broken(@)])
      [] n.s = "return"  -> Done(Completed(p))
      [] n.s = "if"      -> On(ValueOf(p, n.c), LAMBDA t : Done([t.c EXCEPT !.todo = <<IF True(t.v) THEN n.t ELSE n.f>> \o @]))
      [] n.s = "timed"   -> WaitsFor(p, n)
      [] n.s = "call"    -> IF p.process /\ n.x.f \in {"get", "get_next_item"} THEN GetsItem(p, n.x) ELSE Heard(p, n.x)
      [] n.s = "expr"    -> ValueOf(p, n.x)
      [] n.s = "assert"  -> On(ValueOf(p, n.c), LAMBDA x : Done(Calls1(x.c, "assert.check", <<x.v>>)))

\* Fuel: the statements of one step.
RECURSIVE Runs(_, _)
Runs(p, fuel) ==
    IF fuel = 0 THEN [p EXCEPT !.err = "spins"]
    ELSE IF p.err # "" \/ p.wait # Resumed THEN p
    ELSE IF p.todo = <<>> THEN Completed(p)
    ELSE CHOOSE r \in {Runs(q, fuel - 1) : q \in {Does([p EXCEPT !.todo = Tail(@)], Head(p.todo)).c}} : TRUE

Stepped(p) == Runs([p EXCEPT !.wait = Resumed, !.services.said = <<>>], 80)

-----------------------------------------------------------------------------
(***************************************************************************)
(* A body of the host, the VIR function it becomes, and both at work: the  *)
(* scheduler calls the function again whenever what it waits for is there, *)
(* and the body goes on in the source.  In between the services have other *)
(* answers and the hardware has other values for the signals.              *)
(***************************************************************************)

CONSTANT Bodies   \* the bodies: kind, node, argument, signals, tasks, groups

VARIABLES
    body,       \* the body
    function,   \* its function, or NoFunction
    machine,    \* the printed function, as it runs
    source      \* the body, as it means to run

coroutineVars == <<body, function, machine, source>>

NoBody == [kind |-> "none"]
NoFunction == [blocks |-> <<>>]

NoCoroutine == body = NoBody /\ function = NoFunction /\ machine = NewMachine /\ source = NewSource

CoroutineInit ==
    /\ body \in Bodies
    /\ function = NoFunction /\ machine = NewMachine /\ source = NewSource

FunctionOf(b) ==
    CASE b.kind = "process"    -> Coroutine(b.node, b.tasks, b.groups)
      [] b.kind = "component"  -> Procedure(b.node, TRUE, b.tasks, b.groups)
      [] b.kind = "procedure"  -> Procedure(b.node, FALSE, {}, [n \in {} |-> 0])
      [] b.kind = "subscriber" -> Subscriber(b.node, b.argument, b.tasks, b.groups)
      [] b.kind = "assigns"    -> Combinational(b.node)

LowerBody ==
    /\ body # NoBody /\ function = NoFunction
    /\ function' = FunctionOf(body)
    /\ source' = [source EXCEPT !.process = body.kind = "process", !.tasks = body.tasks, !.groups = body.groups,
                                !.todo = IF body.kind = "process" THEN <<body.node>> ELSE <<>>]
    /\ UNCHANGED <<body, machine>>

\* What happened since the last step: the answers of the services, the signals.
Seen(x, world, signals) ==
    [x EXCEPT !.services.world = world,
              !.memory = [n \in DOMAIN signals |-> signals[n]] @@ @]

\* Other functions than processes start over with every call.
Started(p) ==
    CASE body.kind = "assigns"    -> [p EXCEPT !.todo = [i \in 1..Len(body.node) |-> [s |-> "expr", x |-> body.node[i]]]]
      [] body.kind = "subscriber" -> [p EXCEPT !.todo = <<body.node>>, !.memory = (<<body.argument>> :> "self") @@ @]
      [] body.kind = "process"    -> p
      [] OTHER                    -> [p EXCEPT !.todo = <<body.node>>]

Resume ==
    /\ function # NoFunction /\ function.err = ""
    /\ machine.wait.on # "done"
    /\ \E item \in {"null", "item"}, number \in 0..1 :
       \E signals \in [{<<n>> : n \in body.signals} -> 0..1] :
          LET world == [item |-> item, number |-> number]
          IN  /\ machine' = StepOf(function, Seen(machine, world, signals))
              /\ source' = Stepped(Started(Seen(source, world, signals)))
    /\ UNCHANGED <<body, function>>

CoroutineNext == LowerBody \/ Resume

CoroutineSpec == CoroutineInit /\ [][CoroutineNext]_coroutineVars

---------------------------------------------------------------------------
SameCalls(a, b) == /\ Len(a) = Len(b)
                   /\ \A i \in 1..Len(a) : a[i].f = b[i].f /\ a[i].args = b[i].args

\* The analyses of the function say what the paths through it say, and nothing
\* it uses was computed before the last suspension.
SuspensionKeepsNothing == AnalysesExact(function) /\ ValuesComputed(function)

\* The lowered body is a valid function, and step by step it does what the
\* body says: the same calls of services with the same arguments in the same
\* order, the same fields of objects and global variables, and it waits for
\* the same; nothing it uses is lost where it suspends.
CoroutineFollows ==
    function # NoFunction =>
        /\ function.err = "" /\ machine.err = "" /\ source.err = ""
        /\ machine = NewMachine => SuspensionKeepsNothing
        /\ SameCalls(machine.services.said, source.services.said)
        /\ machine.wait = source.wait
        /\ machine.memory = source.memory
        /\ machine.services.fields = source.services.fields
=============================================================================
