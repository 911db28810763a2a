---------------------------- MODULE MCUvmBodies ----------------------------
(***************************************************************************)
(* What the processes of a bench are made of.  TLC takes up either the     *)
(* bench with two producers of module MCUvmBench, or one body like those   *)
(* of the test benches (tests/uart_uvm, tests/circular_buffer_uvm).        *)
(***************************************************************************)
EXTENDS MCUvmBench, ProcessMeaning

Nothing == [s |-> "none"]
Name(n, w) == [e |-> "name", n |-> n, w |-> w, type |-> n]
Object(n, type) == [Name(n, 0) EXCEPT !.type = type]
This == Name("", 0)
Literal(v, w) == [e |-> "const", v |-> v, w |-> w]
Text(t) == [e |-> "string", text |-> t, w |-> 0]
Empty == [e |-> "empty", w |-> 0]
Field(object, n, w) == [e |-> "field", base |-> object, n |-> n, w |-> w]
Bin2(op, l, r, w) == [e |-> "binary", op |-> op, l |-> l, r |-> r, w |-> w]
Unop(op, x) == [e |-> "unary", op |-> op, arg |-> x, w |-> x.w]
Invert(x) == Unop("LogicalNot", x)
CallOf(f, this, args, w) == [e |-> "call", f |-> f, args |-> args, this |-> this, w |-> w]
Sets1(l, r, nb) == [e |-> "set", l |-> l, r |-> r, nb |-> nb, w |-> l.w]

Do1(x) == [s |-> "expr", x |-> x]
Is1(l, r) == Do1(Sets1(l, r, FALSE))
Drives(l, r) == Do1(Sets1(l, r, TRUE))
Calls2(f, this, args) == [s |-> "call", x |-> CallOf(f, this, args, 0)]
Local1(n, w) == [s |-> "declare", n |-> n, w |-> w, init |-> Nothing]
LocalIs(n, w, x) == [Local1(n, w) EXCEPT !.init = x]
Block1(items) == [s |-> "list", items |-> items]
Repeat(count, code) == [s |-> "repeat", count |-> count, body |-> code]
ForOf(init, cond, step, code) == [s |-> "for", inits |-> <<init>>, cond |-> cond, steps |-> <<step>>, body |-> code]
DoWhile(code, cond) == [s |-> "do", body |-> code, cond |-> cond]
Endless(items) == [s |-> "forever", body |-> Block1(items)]
If1(c, t, f) == [s |-> "if", c |-> c, t |-> t, f |-> f]
When1(c, t) == If1(c, t, Nothing)
Edge1(then) == [s |-> "timed", on |-> "event", event |-> "clk", x |-> Empty, stmt |-> then]
Sleep(x, then) == [s |-> "timed", on |-> "delay", event |-> "", x |-> x, stmt |-> then]
Break1 == [s |-> "break"]
Return1 == [s |-> "return"]
Tick == Edge1(Nothing)

NoGroups1 == [n \in {} |-> 0]
Process(items, signals) ==
    [kind |-> "process", node |-> Block1(items), argument |-> "", signals |-> signals,
     tasks |-> {"handle_tx", "handle_rx"}, groups |-> NoGroups1]
As(kind, b) == [b EXCEPT !.kind = kind]

bit(n) == Name(n, 1)
Create1(l, args) == Is1(l, CallOf("create", This, args, 0))
CastTo(l, x) == CallOf("$cast", This, <<l, x>>, 1)
Info(f, text) == Calls2(f, This, <<Text("SCB"), Text(text), Literal(100, IntWidth)>>)

\* agents/uart_mon.sv: monitor_rst, monitor_rx.
rst == Object("rst", "uart_rst_txn")  rx == Object("rx_t", "uart_rx_txn")
MonitorReset == Process(<<Local1("rst", 0), Local1("sent", 1), Endless(<<
    Tick,
    When1(Bin2("LogicalAnd", Invert(bit("rst_n")), Invert(bit("sent")), 1), Block1(<<
        Create1(rst, <<Text("rst_txn")>>),
        Calls2("write", Name("after_ap", 0), <<rst>>),
        Is1(bit("sent"), Literal(1, IntWidth))>>)),
    When1(bit("rst_n"), Is1(bit("sent"), Literal(0, IntWidth)))>>)>>, {"rst_n"})

MonitorData == Process(<<Local1("rx_t", 0), LocalIs("id", 2, Literal(0, 2)), Endless(<<
    Tick,
    When1(Bin2("LogicalAnd", bit("valid"), bit("ready"), 1), Block1(<<
        Create1(rx, <<>>),
        Is1(Field(rx, "data", 4), Bin2("Add", Name("data", 4), Literal(3, 4), 4)),
        Is1(Field(rx, "seq", 2), Unop("Postincrement", Name("id", 2))),
        Calls2("write", Name("after_ap", 0), <<rx>>)>>))>>)>>, {"valid", "ready"})

\* agents/uart_drv.sv: handle_tx, its resets cut short, and what calls it.
txn == Object("txn", "uart_txn")  tx == Object("tx_t", "uart_tx_txn")
Driver == Process(<<Local1("txn", 0), Local1("rst", 0), Local1("tx_t", 0), Endless(<<
    Calls2("get_next_item", Name("seq_item_port", 0), <<txn>>),
    If1(CastTo(rst, txn), Block1(<<
            Drives(bit("rst_n"), Literal(0, IntWidth)),
            Repeat(2, Tick),
            Drives(bit("rst_n"), Literal(1, IntWidth))>>),
        When1(Unop("LogicalNot", CastTo(tx, txn)), Block1(<<
            DoWhile(Tick, Invert(bit("ready"))),
            Drives(bit("valid"), Literal(1, IntWidth)),
            Drives(Name("data", 4), Field(txn, "data", 4)),
            Tick,
            Drives(bit("valid"), Literal(0, IntWidth))>>))),
    Calls2("item_done", Name("seq_item_port", 0), <<>>),
    Tick,
    Return1>>)>>, {"ready"})
Handles == Process(<<Repeat(2, Tick), Endless(<<Calls2("handle_tx", This, <<>>), Calls2("handle_rx", This, <<>>)>>)>>, {})

\* agents/uart_scb.sv: consume_before, compare.
Consume == Process(<<Local1("txn", 0), Local1("tx_t", 0), Endless(<<
    Calls2("get", Name("before_fifo", 0), <<txn>>),
    When1(CastTo(tx, txn), Calls2("push_back", Name("before_list", 0), <<tx>>))>>)>>, {})

i7 == Name("i", IntWidth)
Compare == Process(<<Local1("txn", 0), Local1("rx_t", 0), Local1("tx_t", 0), Local1("matched", 1), Local1("i", IntWidth), Endless(<<
    Calls2("get", Name("after_fifo", 0), <<rx>>),
    Is1(bit("matched"), Literal(0, IntWidth)),
    ForOf(Sets1(i7, Literal(0, IntWidth), FALSE),
          Bin2("LessThan", i7, CallOf("size", Name("before_list", 0), <<>>, IntWidth), 1),
          Unop("Postincrement", i7), Block1(<<
        Is1(tx, [e |-> "elem", base |-> Name("before_list", 0), at |-> i7, w |-> 0]),
        When1(Bin2("Equality", Field(tx, "seq", 2), Field(rx, "seq", 2), 1), Block1(<<
            Is1(bit("matched"), Literal(1, IntWidth)),
            If1(Bin2("Equality", Field(tx, "data", 4), Field(rx, "data", 4), 1),
                Info("uvm_report_info", "matches"), Info("uvm_report_error", "differs")),
            Calls2("delete", Name("before_list", 0), <<i7>>),
            Break1>>))>>)),
    When1(Invert(bit("matched")), Calls2("uvm_report_warning", This, <<>>))>>)>>, {})

\* sequences/uart_seq.sv and tests/uart_test.sv.
Sequence == Process(<<Local1("t", 0), Repeat(2, Block1(<<
    Is1(Object("t", "uart_txn"), [e |-> "new", type |-> "uart_txn", w |-> 0]),
    Calls2("start_item", This, <<Object("t", "uart_txn")>>),
    [s |-> "assert", c |-> CallOf("randomize", Object("t", "uart_txn"), <<>>, 1)],
    Calls2("finish_item", This, <<Object("t", "uart_txn")>>),
    Sleep(Field(Object("t", "uart_txn"), "data", 4), Nothing)>>))>>, {})
PhaseBody == Process(<<LocalIs("n", 2, CallOf("$urandom_range", This, <<Literal(0, IntWidth), Literal(3, IntWidth)>>, 2)),
    Calls2("raise_objection", This, <<>>),
    Calls2("start", Object("seq", "uart_seq"), <<Name("seqr", 0)>>),
    Sleep(Literal(5, IntWidth), Nothing),
    Calls2("start", Object("seq", "uart_seq"), <<>>),
    Endless(<<Do1(Unop("Preincrement", Name("n", 2))), When1(Bin2("Equality", Name("n", 2), Literal(3, 2), 1), Break1)>>),
    Is1(bit("ended"), Literal(1, 1)),
    Calls2("drop_objection", This, <<>>)>>, {})

\* coverage/uart_cov.sv: write samples a covergroup.
Bin1(n, low, high) == [name |-> n, low |-> low, high |-> high]
Coverage == [Process(<<
    Do1(Unop("Predecrement", Name("left", 2))),
    Calls2("sample", Object("cg", "group"), <<>>),
    When1(Bin2("GreaterThanEqual", CallOf("$get_coverage", This, <<>>, 2), Literal(1, 2), 1),
          Calls2("$display", This, <<Text("covered"), Name("left", 2), Empty>>))>>, {"kind"})
    EXCEPT !.kind = "subscriber", !.argument = "t",
           !.groups = [g \in {"group"} |-> <<[x |-> Name("kind", 2), bins |-> <<Bin1("kind.low", 0, 1), Bin1("kind.high", 1, 3)>>],
                                             [x |-> Field(Name("t", 0), "data", 4), bins |-> <<Bin1("data.none", 0, 0)>>]>>]]

\* Functions of components, blocks of the top module.
Connects == As("component", Process(<<
    When1(Invert(CallOf("get", This, <<Text("vif")>>, 1)), Calls2("uvm_report_fatal", This, <<Text("DRV"), Text("not set")>>)),
    Create1(Object("drv", "uart_drv"), <<Text("drv"), Name("this", 0)>>),
    Calls2("set", This, <<Empty, Text("*"), Text("vif"), Name("vif", 0)>>),
    Calls2("connect", Name("before_ap", 0), <<Name("before_export", 0)>>),
    Calls2("connect", Name("seq_item_port", 0), <<Name("seq_item_export", 0)>>),
    Calls2("build_phase", This, <<>>)>>, {}))
Starts1 == As("procedure", Process(<<
    Calls2("$dumpfile", This, <<Text("waves")>>), Local1("unused", 1),
    Is1(bit("rst_n"), Literal(0, 1)), Repeat(2, Tick), Sleep(Literal(5, IntWidth), Is1(bit("rst_n"), Literal(1, 1))),
    Calls2("run_test", This, <<Text("uart_test")>>), Calls2("$finish", This, <<>>)>>, {}))
Clocked1 == As("procedure", Process(<<
    If1(bit("rst"), Drives(Name("q", 2), Literal(0, 2)),
        Drives(Name("q", 2), Bin2("BitwiseXor", Bin2("Add", Name("q", 2), Literal(1, 2), 2), Unop("BitwiseNot", Name("d", 2)), 2)))>>,
    {"rst", "q", "d"}))
Continuous == [Process(<<>>, {"a", "b"}) EXCEPT !.kind = "assigns", !.node = <<
    Sets1(Name("y", 3), [e |-> "concat", args |-> <<Name("a", 2), bit("b")>>, w |-> 3], FALSE),
    Sets1(Name("z", 1), [e |-> "conv", arg |-> Bin2("BitwiseOr", Name("a", 2), Bin2("Multiply", Name("y", 2), Literal(3, 2), 2), 2), w |-> 1], FALSE),
    Sets1(Name("l", 1), Bin2("LogicalOr", Bin2("LessThanEqual", bit("z"), bit("b"), 1), Bin2("Inequality", Name("a", 2), Name("y", 2), 1), 1), FALSE)>>]

AllBodies == {MonitorReset, MonitorData, Driver, Handles, Consume, Compare, Sequence, PhaseBody,
              Coverage, Connects, Starts1, Clocked1, Continuous}

---------------------------------------------------------------------------
BodiesInit ==
    \/ BInit /\ NoCoroutine
    \/ BInit /\ CoroutineInit

BodiesNext ==
    \/ body = NoBody /\ BNext /\ UNCHANGED coroutineVars
    \/ CoroutineNext /\ UNCHANGED allVars

BodiesSpec == BodiesInit /\ [][BodiesNext]_<<allVars, coroutineVars>>
=============================================================================
