---------------------------- MODULE VirLowering ----------------------------
(***************************************************************************)
(* The lowering of the host's bodies to VIR (IRGen/Frontend).  A semantic  *)
(* node is a record: e names the kind of an expression, s of a statement;  *)
(* w is the width of its type, 0 for pointers.  A context c collects one   *)
(* function: its blocks, the first one its entry, are sequences of         *)
(* operations, and at is the insertion point.  A process body becomes a    *)
(* coroutine: the entry dispatches on the state stored at the suspension.  *)
(***************************************************************************)
EXTENDS Eir

CONSTANTS IntWidth, LongWidth   \* the widths that stand for 32 and 64

Pointer == 0
NoNode == [s |-> "none"]
Self == [id |-> 0, w |-> Pointer]
NoResult == Self

NewFunction(component, tasks, groups) ==
    [blocks |-> <<<<>>>>, at |-> 1, next |-> 1, self |-> component, process |-> FALSE, locals |-> {},
     breaks |-> <<>>, resumes |-> <<>>, state |-> 1, tasks |-> tasks, groups |-> groups, err |-> ""]

Put(c, o, x, args, res) ==
    [c EXCEPT !.blocks[c.at] = Append(@, [op |-> o, x |-> x, args |-> args, res |-> res])]
Do(c, o, x, args) == Put(c, o, x, args, NoResult)
New(c, o, x, args, w) ==
    Give([Put(c, o, x, args, [id |-> c.next, w |-> w]) EXCEPT !.next = @ + 1], [id |-> c.next, w |-> w])

Tell(c, callee, args) == Do(c, "call", callee, args)
Ask(c, callee, args, w) == New(c, "call", callee, args, w)
String(c, text) == New(c, "string", text, <<>>, Pointer)
Null(c) == New(c, "null", "", <<>>, Pointer)
Constant(c, v, w) == New(c, "const", v, <<>>, w)

\* Values one after the other, as a sequence.
All(c, s, Lower(_, _)) ==
    Each(Give(c, <<>>), LAMBDA r, x : On(Lower(r.c, x), LAMBDA z : Give(z.c, Append(r.v, z.v))), s)

NewBlock(c) == Give([c EXCEPT !.blocks = Append(@, <<>>)], Len(c.blocks) + 1)
Blocks(c, count) == [c EXCEPT !.blocks = @ \o [i \in 1..count |-> <<>>]]
At(c, block) == [c EXCEPT !.at = block]

Terminators == {"br", "cond_br", "ret"}
Terminates(ops) == ops # <<>> /\ Last(ops).op \in Terminators
Terminated(c) == Terminates(c.blocks[c.at])
Branch(c, to) == IF Terminated(c) THEN c ELSE Do(c, "br", to, <<>>)
Fork(c, condition, yes, no) == Do(c, "cond_br", <<yes, no>>, <<condition>>)
Ret(c) == Do(c, "ret", "", <<>>)

---------------------------------------------------------------------------
(* Variables: those a process declares live in its process object, every   *)
(* other name is a global symbol.                                          *)

Local(c, n) == c.process /\ n \in c.locals

Lengthen(c, v) == IF v.w = LongWidth THEN Give(c, v) ELSE New(c, "zext", "", <<v>>, LongWidth)

StoreLocal(c, n, v) ==
    On(String(c, n), LAMBDA name :
       IF v.w = Pointer THEN Done(Tell(name.c, "process.store.ptr", <<Self, name.v, v>>))
       ELSE On(Lengthen(name.c, v), LAMBDA long :
               Done(Tell(long.c, "process.store.u64", <<Self, name.v, long.v>>))))

\* Mutant: a local is kept in a global symbol, which all processes share.
StoreShared(c, n, v) == Done(Do(c, "store", n, <<v>>))

StoreTo(c, n, v) == IF Local(c, n) THEN StoreLocal(c, n, v) ELSE Done(Do(c, "store", n, <<v>>))

\* A value that was stored as one of 64 bits, in the width it had.
Shorten(r, w) == IF w = LongWidth THEN r ELSE New(r.c, "trunc", "", <<r.v>>, w)

Load(c, n, w) ==
    IF n = "this" /\ c.self THEN Give(c, Self)
    ELSE IF ~Local(c, n) THEN New(c, "load", n, <<>>, w)
    ELSE On(String(c, n), LAMBDA name :
            IF w = Pointer THEN Ask(name.c, "process.load.ptr", <<Self, name.v>>, w)
            ELSE Shorten(Ask(name.c, "process.load.u64", <<Self, name.v>>, LongWidth), w))

---------------------------------------------------------------------------
(* Expressions.                                                            *)

RECURSIVE Expression(_, _)
Expressions(c, nodes) == All(c, SelectSeq(nodes, LAMBDA n : n.e # "empty"), Expression)

LoadField(c, n) ==
    On(Expression(c, n.base), LAMBDA object : On(String(object.c, n.n), LAMBDA field :
       IF n.w = Pointer THEN Ask(field.c, "object.load.ptr", <<object.v, field.v>>, Pointer)
       ELSE Shorten(Ask(field.c, "object.load.u64", <<object.v, field.v>>, LongWidth), n.w)))

StoreField(c, n, v) ==
    On(Expression(c, n.base), LAMBDA object : On(String(object.c, n.n), LAMBDA field :
       IF v.w = Pointer THEN Done(Tell(field.c, "object.store.ptr", <<object.v, field.v, v>>))
       ELSE On(Lengthen(field.c, v), LAMBDA long :
               Done(Tell(long.c, "object.store.u64", <<object.v, field.v, long.v>>)))))

Element(c, n) ==
    IF ~c.self THEN Refuse(c, "no object context")
    ELSE On(String(c, n.base.n), LAMBDA name : On(Expression(name.c, n.at), LAMBDA index :
            Ask(index.c, "collection.get.ptr", <<Self, name.v, index.v>>, n.w)))

Binary(c, n) ==
    On(Expression(c, n.l), LAMBDA l : On(Expression(l.c, n.r), LAMBDA r :
       New(r.c, "binary", n.op, <<l.v, r.v>>, n.w)))

Steps == {"Postincrement", "Preincrement", "Postdecrement", "Predecrement"}
Upwards == {"Postincrement", "Preincrement"}
After == {"Postincrement", "Postdecrement"}

Step(c, n) ==
    On(Expression(c, n.arg), LAMBDA old : On(Constant(old.c, 1, old.v.w), LAMBDA one :
       On(New(one.c, "binary", IF n.op \in Upwards THEN "Add" ELSE "Subtract", <<old.v, one.v>>, old.v.w),
          LAMBDA new : On(StoreTo(new.c, n.arg.n, new.v), LAMBDA done :
             Give(done.c, IF n.op \in After THEN old.v ELSE new.v)))))

Unary(c, n) ==
    IF n.op \in Steps THEN Step(c, n)
    ELSE On(Expression(c, n.arg), LAMBDA v : New(v.c, "unary", n.op, <<v.v>>, n.w))

\* Two operands at a time, each result as wide as the whole.
Concatenation(c, n) ==
    On(Expression(c, n.args[1]), LAMBDA first :
       Each(first, LAMBDA r, x : On(Expression(r.c, x), LAMBDA z : New(z.c, "concat", "", <<r.v, z.v>>, n.w)),
            Tail(n.args)))

CreateObject(c, type, name, parent) ==
    On(String(c, type), LAMBDA t : Ask(t.c, "factory.create.ptr", <<t.v, name, parent>>, Pointer))

\* new: the factory is asked for the type, under the type's name.
NewClass(c, n) ==
    On(String(c, n.type), LAMBDA t : On(String(t.c, n.type), LAMBDA name : On(Null(name.c), LAMBDA none :
       Ask(none.c, "factory.create.ptr", <<t.v, name.v, none.v>>, Pointer))))

\* x = T::type_id::create("name", parent)
Created(c, target, args) ==
    On(IF args = <<>> THEN String(c, target.n) ELSE Expression(c, args[1]), LAMBDA name :
       On(IF Len(args) > 1 /\ args[2].e # "empty" THEN Expression(name.c, args[2]) ELSE Null(name.c), LAMBDA parent :
          CreateObject(parent.c, target.type, name.v, parent.v)))

\* $cast(target, source): the target takes the source, then its type is asked.
Cast(c, n) ==
    On(Expression(c, n.args[2]), LAMBDA source : On(String(source.c, n.args[1].type), LAMBDA type :
       On(StoreTo(type.c, n.args[1].n, source.v), LAMBDA done :
          Ask(done.c, "object.is_type", <<source.v, type.v>>, 1))))

Size(c, n) == On(String(c, n.this.n), LAMBDA name : Ask(name.c, "collection.size", <<Self, name.v>>, n.w))

Random(c, n) ==
    On(Expressions(c, n.args), LAMBDA r :
       Ask(r.c, "random.range", <<r.v[1], IF Len(r.v) > 1 THEN r.v[2] ELSE r.v[1]>>, n.w))

\* create where the type is not that of the target.
CreateAny(c, n) ==
    On(Expressions(c, n.args), LAMBDA r : On(String(r.c, "uvm_object"), LAMBDA type :
       IF Len(r.v) > 1 THEN Ask(type.c, "factory.create.ptr", <<type.v, r.v[1], r.v[2]>>, n.w)
       ELSE On(Null(type.c), LAMBDA none :
               Ask(none.c, "factory.create.ptr", <<type.v>> \o r.v \o <<none.v>>, n.w))))

Renamed(f) == IF f = "$get_coverage" THEN "coverage.percentage" ELSE f

CallExpression(c, n) ==
    CASE n.f = "uvm_get_report_object" -> Null(c)
      [] n.f \in {"get_report_verbosity_level", "get_report_action"} -> Constant(c, 100, IntWidth)
      [] n.f = "size" /\ c.self   -> Size(c, n)
      [] n.f = "get"              -> Constant(c, 1, 1)
      [] n.f = "$cast"            -> Cast(c, n)
      [] n.f = "randomize"        -> On(Expression(c, n.this), LAMBDA r : Ask(r.c, "object.randomize", <<r.v>>, 1))
      [] n.f = "$urandom_range"   -> Random(c, n)
      [] n.f = "$sformatf"        -> Expression(c, n.args[1])
      [] n.f = "create"           -> CreateAny(c, n)
      [] OTHER                    -> On(Expressions(c, n.args), LAMBDA r : Ask(r.c, Renamed(n.f), r.v, n.w))

Fitted(r, w) == IF r.v.w = w THEN r ELSE New(r.c, IF r.v.w > w THEN "trunc" ELSE "zext", "", <<r.v>>, w)

Assignment(c, n) ==
    On(Fitted(IF n.r.e = "call" /\ n.r.f = "create" THEN Created(c, n.l, n.r.args) ELSE Expression(c, n.r), n.l.w),
       LAMBDA v :
       On(CASE n.l.e = "field" -> StoreField(v.c, n.l, v.v)
            [] n.l.e # "field" /\ n.nb ->
                 On(Lengthen(v.c, v.v), LAMBDA long : Done(Do(long.c, "nba_store", n.l, <<long.v>>)))
            [] OTHER -> StoreTo(v.c, n.l.n, v.v),
          LAMBDA done : Give(done.c, v.v)))

Expression(c, n) ==
    CASE n.e \in {"empty", "null"} -> Null(c)
      [] n.e = "conv"   -> Expression(c, n.arg)
      [] n.e = "new"    -> NewClass(c, n)
      [] n.e = "elem"   -> Element(c, n)
      [] n.e = "string" -> String(c, n.text)
      [] n.e = "const"  -> Constant(c, n.v, n.w)
      [] n.e = "name"   -> Load(c, n.n, n.w)
      [] n.e = "field"  -> LoadField(c, n)
      [] n.e = "binary" -> Binary(c, n)
      [] n.e = "unary"  -> Unary(c, n)
      [] n.e = "call"   -> CallExpression(c, n)
      [] n.e = "concat" -> Concatenation(c, n)
      [] n.e = "set"    -> Assignment(c, n)
      [] OTHER          -> Refuse(c, "unsupported expression")

---------------------------------------------------------------------------
(* Statements.                                                             *)

\* A condition, as one bit.
Truth(r) ==
    IF r.v.w = 1 THEN r
    ELSE IF r.v.w = Pointer THEN Refuse(r.c, "condition is not an integer")
    ELSE On(Constant(r.c, 0, r.v.w), LAMBDA zero : New(zero.c, "binary", "Inequality", <<r.v, zero.v>>, 1))

RECURSIVE LowerStatement(_, _)
Statements(r, items) ==
    Fold(LAMBDA q, x : IF q.c.err # "" \/ Terminated(q.c) THEN q ELSE LowerStatement(q.c, x), r, items)

Initial(c, n) ==
    IF n.init # NoNode THEN Expression(c, n.init)
    ELSE IF n.w = Pointer THEN Null(c) ELSE Constant(c, 0, n.w)

Declaration(c, n) ==
    IF ~c.process THEN Done(c)
    ELSE On(Initial([c EXCEPT !.locals = @ \cup {n.n}], n), LAMBDA v : StoreTo(v.c, n.n, v.v))

\* The body of a loop, which break leaves for exit.
Enter(c, exit) == [c EXCEPT !.breaks = Append(@, exit)]
Leave(c) == [c EXCEPT !.breaks = Front(@)]
LoopBody(c, body, exit) == On(LowerStatement(Enter(c, exit), body), LAMBDA r : Done(Leave(r.c)))

ForLoop(c, n) ==
    LET first == Len(c.blocks)
        header == first + 1 body == first + 2 step == first + 3 exit == first + 4
    IN  On(Expressions(c, n.inits), LAMBDA i :
        On(Truth(Expression(At(Branch(Blocks(i.c, 4), header), header), n.cond)), LAMBDA t :
        On(LoopBody(At(Fork(t.c, t.v, body, exit), body), n.body, exit), LAMBDA b :
        On(Expressions(At(Branch(b.c, step), step), n.steps), LAMBDA z :
           Done(At(Branch(z.c, header), exit))))))

DoWhileLoop(c, n) ==
    LET body == Len(c.blocks) + 1 condition == body + 1 exit == body + 2
    IN  On(LoopBody(At(Branch(Blocks(c, 3), body), body), n.body, exit), LAMBDA b :
        On(Truth(Expression(At(Branch(b.c, condition), condition), n.cond)), LAMBDA t :
           Done(At(Fork(t.c, t.v, body, exit), exit))))

Repeated(c, n) == Fold(LAMBDA r, i : On(r, LAMBDA q : LowerStatement(q.c, n.body)), Done(c), [i \in 1..n.count |-> i])

\* A suspension: the state to resume at, what is waited for, and the return;
\* what follows is lowered into the block of that state.
SetState(c) == On(Constant(c, c.state, LongWidth), LAMBDA s :
                  Done(Tell([s.c EXCEPT !.state = @ + 1], "process.set_pc", <<Self, s.v>>)))
ResumeAt(c, state, block) == [c EXCEPT !.resumes = Append(@, [state |-> state, block |-> block])]
Resuming(c, state) ==
    On(NewBlock(Ret(c)), LAMBDA b : Done(At(ResumeAt(b.c, state, b.v), b.v)))

Pause(c) ==
    On(Constant(c, c.state, LongWidth), LAMBDA s : On(Constant(s.c, 1, LongWidth), LAMBDA one :
       Resuming(Tell(Tell([one.c EXCEPT !.state = @ + 1], "process.set_pc", <<Self, s.v>>),
                     "process.wait_time", <<Self, one.v>>), c.state)))

\* Only a loop whose body has no suspension gets one.
ForeverLoop(c, n) ==
    LET loop == Len(c.blocks) + 1 exit == loop + 1
    IN  On(LoopBody(At(Branch(Blocks(c, 2), loop), loop), n.body, exit), LAMBDA b :
        On(IF c.process /\ b.c.resumes = c.resumes /\ ~Terminated(b.c) THEN Pause(b.c) ELSE b, LAMBDA p :
           Done(At(Branch(p.c, loop), exit))))

Break(c) == IF c.breaks = <<>> THEN Refuse(c, "break outside a loop") ELSE Done(Branch(c, Last(c.breaks)))

CompleteProcess(c) == Tell(c, "process.complete", <<Self>>)
ReturnStatement(c) == Done(Ret(IF c.process THEN CompleteProcess(c) ELSE c))

Conditional(c, n) ==
    On(Truth(Expression(c, n.c)), LAMBDA t :
       LET yes == Len(t.c.blocks) + 1 no == yes + 1 merge == yes + 2
       IN  On(LowerStatement(At(Fork(Blocks(t.c, 3), t.v, yes, no), yes), n.t), LAMBDA y :
           On(LowerStatement(At(Branch(y.c, merge), no), n.f), LAMBDA z : Done(At(Branch(z.c, merge), merge)))))

\* #d and @(posedge e): the duration is known before the state is set.
Duration(c, n) == IF n.on = "delay" THEN Expression(c, n.x) ELSE Constant(c, 0, IntWidth)

WaitFor(c, n, duration) ==
    IF n.on = "delay"
    THEN On(Lengthen(c, duration), LAMBDA d : Done(Tell(d.c, "process.wait_time", <<Self, d.v>>)))
    ELSE On(String(c, n.event), LAMBDA e : Done(Tell(e.c, "process.wait_event", <<Self, e.v>>)))

Timed(c, n) ==
    On(Duration(c, n), LAMBDA d :
       IF c.process
       THEN On(SetState(d.c), LAMBDA s : On(WaitFor(s.c, n, d.v), LAMBDA w :
            On(Resuming(w.c, c.state), LAMBDA r : LowerStatement(r.c, n.stmt))))
       ELSE LowerStatement(Tell(d.c, "time.delay", <<d.v>>), n.stmt))

\* get and get_next_item: a try in a block of its own, which is the state to
\* resume at when there was nothing.
TryGet(c, n) == IF n.f = "get_next_item" THEN Ask(c, "sequence.try_get.ptr", <<>>, Pointer)
                ELSE On(String(c, n.this.n), LAMBDA name : Ask(name.c, "tlm.fifo.try_get.ptr", <<name.v>>, Pointer))
GetEvent(n) == IF n.f = "get_next_item" THEN "sequencer.default" ELSE "tlm." \o n.this.n

GetMethod(c, n) ==
    LET retry == Len(c.blocks) + 1 ready == retry + 1 waiting == retry + 2
        Tried == ResumeAt(Branch([Blocks(c, 3) EXCEPT !.state = @ + 1], retry), c.state, retry)
    IN  On(TryGet(At(Tried, retry), n), LAMBDA item : On(Null(item.c), LAMBDA none :
        On(New(none.c, "binary", "Inequality", <<item.v, none.v>>, 1), LAMBDA there :
        On(Constant(At(Fork(there.c, there.v, ready, waiting), waiting), c.state, LongWidth), LAMBDA s :
        On(String(s.c, GetEvent(n)), LAMBDA e :
           StoreTo(At(Ret(Tell(Tell(e.c, "process.set_pc", <<Self, s.v>>),
                                "process.wait_event", <<Self, e.v>>)), ready),
                 n.args[1].n, item.v))))))

---------------------------------------------------------------------------
(* Calls of services and tasks.                                            *)

NoOp == {"$dumpfile", "$dumpvars", "build_phase", "connect_phase", "run_phase", "check_phase"}

Severity == "uvm_report_info" :> 0 @@ "uvm_report_warning" :> 1 @@ "uvm_report_error" :> 2 @@ "uvm_report_fatal" :> 3

\* The arguments of a report that are not given.
Default(c, i) == CASE i = 1 -> String(c, "UVM") [] i \in {2, 4} -> String(c, "") [] OTHER -> Constant(c, 0, IntWidth)

Report(c, n) ==
    On(Constant(c, Severity[n.f], IntWidth), LAMBDA s :
       On(All(s.c, <<1, 2, 3, 4, 5>>,
              LAMBDA d, i : IF i <= Len(n.args) THEN Expression(d, n.args[i]) ELSE Default(d, i)),
          LAMBDA r : Done(Tell(r.c, "report", <<s.v>> \o r.v))))

\* Every range of every bin is asked for, with the value of its point.
SampleRange(c, bin, value) ==
    On(String(c, bin.name), LAMBDA name : On(Constant(name.c, bin.low, LongWidth), LAMBDA low :
       On(Constant(low.c, bin.high, LongWidth), LAMBDA high :
          Done(Tell(high.c, "coverage.sample.range.u64", <<name.v, value, low.v, high.v>>)))))

Sample(c, n) ==
    IF n.this.type \notin DOMAIN c.groups THEN Refuse(c, "unknown covergroup")
    ELSE Each(Done(c),
              LAMBDA r, point : On(Expression(r.c, point.x), LAMBDA v : On(Lengthen(v.c, v.v), LAMBDA long :
                  Each(Done(long.c), LAMBDA q, bin : SampleRange(q.c, bin, long.v), point.bins))),
              c.groups[n.this.type])

\* port.write(t), queue.push_back(x), queue.delete(i): the receiver by its name.
Named1(c, n, before, callee) ==
    IF n.args = <<>> THEN Refuse(c, "an argument is required")
    ELSE On(String(c, n.this.n), LAMBDA name : On(Expression(name.c, n.args[1]), LAMBDA v :
            Done(Tell(v.c, callee, before \o <<name.v, v.v>>))))

SpawnTask(c, n) == On(String(c, n.f), LAMBDA name : Done(Ask(name.c, "process.spawn", <<name.v, Self>>, Pointer).c))

Start(c, n) ==
    On(Expression(c, n.this), LAMBDA sequence :
       On(IF n.args = <<>> THEN Null(sequence.c) ELSE Expression(sequence.c, n.args[1]), LAMBDA sequencer :
          Done(Tell(sequencer.c, "sequence.start.ptr", <<sequence.v, sequencer.v>>))))

BeginItem(c, n) ==
    IF n.args = <<>> THEN Refuse(c, "a transaction is required")
    ELSE On(Expression(c, n.args[1]), LAMBDA item : Done(Tell(item.c, "sequence.start_item.ptr", <<Self, item.v>>)))

\* The pull port of a sequencer is connected by the sequencer's own service.
Connect(c, n) ==
    IF n.args = <<>> THEN Refuse(c, "an endpoint is required")
    ELSE IF n.this.n = "seq_item_port" THEN Done(c)
    ELSE On(String(c, n.this.n), LAMBDA source : On(String(source.c, n.args[1].n), LAMBDA target :
            Done(Tell(target.c, "tlm.connect", <<source.v, target.v>>))))

Plain(c, n, callee) == On(Expressions(c, n.args), LAMBDA r : Done(Tell(r.c, callee, r.v)))

\* The services only a process may call.
ProcessCall(c, n) ==
    CASE n.f = "write"       -> Named1(c, n, <<>>, "tlm.write.ptr")
      [] n.f = "push_back"   -> Named1(c, n, <<Self>>, "collection.push.ptr")
      [] n.f = "delete"      -> Named1(c, n, <<Self>>, "collection.erase")
      [] n.f \in {"get", "get_next_item"} ->
            IF n.args = <<>> THEN Refuse(c, "a target is required") ELSE GetMethod(c, n)
      [] n.f = "start_item"  -> BeginItem(c, n)
      [] n.f = "finish_item" -> Done(Tell(c, "sequence.finish_item", <<Self>>))
      [] n.f = "item_done"   -> Done(Tell(c, "sequence.item_done", <<Self>>))
      [] n.f \in c.tasks     -> SpawnTask(c, n)
ProcessCalls(c) == {"write", "push_back", "delete", "get", "get_next_item", "start_item",
                    "finish_item", "item_done"} \cup c.tasks

CallStatement(c, n) ==
    CASE n.f = "$finish"           -> Done(Do(c, "finish", "", <<>>))
      [] n.f \in NoOp              -> Done(c)
      [] n.f \in DOMAIN Severity   -> Report(c, n)
      [] n.f = "run_test"          -> On(String(c, n.args[1].text), LAMBDA t : Done(Tell(t.c, "run_test", <<t.v>>)))
      [] n.f = "raise_objection"   -> Done(Tell(c, "objection.raise", <<>>))
      [] n.f = "drop_objection"    -> Done(Tell(c, "objection.drop", <<>>))
      [] n.f = "connect"           -> Connect(c, n)
      [] n.f = "sample"            -> Sample(c, n)
      [] n.f = "start"             -> Start(c, n)
      [] n.f = "set" /\ Len(n.args) = 4 -> Plain(c, n, "config.set.ptr")
      [] c.process /\ n.f \in ProcessCalls(c) -> ProcessCall(c, n)
      [] OTHER                     -> Plain(c, n, n.f)

LowerStatement(c, n) ==
    CASE n.s = "none"    -> Done(c)
      [] n.s = "declare" -> Declaration(c, n)
      [] n.s = "list"    -> Statements(Done(c), n.items)
      [] n.s = "repeat"  -> Repeated(c, n)
      [] n.s = "for"     -> ForLoop(c, n)
      [] n.s = "do"      -> DoWhileLoop(c, n)
      [] n.s = "forever" -> ForeverLoop(c, n)
      [] n.s = "break"   -> Break(c)
      [] n.s = "return"  -> ReturnStatement(c)
      [] n.s = "if"      -> Conditional(c, n)
      [] n.s = "timed"   -> Timed(c, n)
      [] n.s = "call"    -> CallStatement(c, n.x)
      [] n.s = "expr"    -> Expression(c, n.x)
      [] n.s = "assert"  -> On(Expression(c, n.c), LAMBDA v : Done(Tell(v.c, "assert.check", <<v.v>>)))

---------------------------------------------------------------------------
(* Functions.                                                              *)

BeginProcess(c) ==
    On(NewBlock([c EXCEPT !.process = TRUE]), LAMBDA b : Done(At(ResumeAt(b.c, 0, b.v), b.v)))

\* The entry asks for the state stored and compares it with one after another.
Dispatch(c, pc, resume) ==
    On(Constant(c, resume.state, LongWidth), LAMBDA state : On(New(state.c, "binary", "Equality", <<pc, state.v>>, 1), LAMBDA same :
       On(NewBlock(same.c), LAMBDA b : Done(At(Fork(b.c, same.v, resume.block, b.v), b.v)))))

FinishProcess(c) ==
    On(Ask(At(IF Terminated(c) THEN c ELSE Ret(CompleteProcess(c)), 1), "process.pc", <<Self>>, LongWidth), LAMBDA pc :
       On(Each(Done(pc.c), LAMBDA r, resume : Dispatch(r.c, pc.v, resume), pc.c.resumes), LAMBDA r :
          Done(Ret(CompleteProcess(r.c)))))

Finish(c) == IF Terminated(c) THEN c ELSE Ret(c)

\* A run phase or a task: a process.
Coroutine(n, tasks, groups) ==
    On(BeginProcess(NewFunction(TRUE, tasks, groups)), LAMBDA b : On(LowerStatement(b.c, n), LAMBDA r : FinishProcess(r.c))).c

\* Initial and clocked blocks, the other phases of a component: a function.
Procedure(n, component, tasks, groups) ==
    On(LowerStatement(NewFunction(component, tasks, groups), n), LAMBDA r : Done(Finish(r.c))).c

\* A subscriber takes what it is called with to its argument.
Subscriber(n, argument, tasks, groups) ==
    On(LowerStatement(Do(NewFunction(TRUE, tasks, groups), "store", argument, <<Self>>), n), LAMBDA r : Done(Finish(r.c))).c

\* The continuous assignments of a module.
Combinational(assignments) ==
    On(Expressions(NewFunction(FALSE, {}, <<>>), assignments), LAMBDA r : Done(Finish(r.c))).c
=============================================================================
