----------------------------- MODULE MCCompile -----------------------------
(***************************************************************************)
(* The designs TLC compiles, in the notation of the source where TLA+ has  *)
(* it.  Each is a few lines of SystemVerilog around one kind of statement. *)
(***************************************************************************)
EXTENDS FormalModel

K(v, w) == [e |-> "const", v |-> v, w |-> w]
N(n, w) == [e |-> "name", n |-> n, w |-> w, hier |-> FALSE]
Up(n, w) == [N(n, w) EXCEPT !.hier = TRUE]
Bin(op, l, r, w) == [e |-> "binary", op |-> op, l |-> l, r |-> r, signed |-> FALSE, w |-> w]
Eq(l, r) == Bin("Equality", l, r, 1)
Plus(l, r) == Bin("Add", l, r, l.w)
Exclusive(l, r) == Bin("BinaryXor", l, r, l.w)

Flip(x) == [e |-> "unary", op |-> "BitwiseNot", arg |-> x, w |-> x.w]
Cond(c, t, f) == [e |-> "cond", c |-> c, t |-> t, f |-> f, w |-> t.w]
Cat(args) == [e |-> "concat", args |-> args,
              w |-> Fold(LAMBDA a, x : a + x.w, 0, args)]
At(base, i, w) == [e |-> "elem", base |-> base, at |-> i, w |-> w]
Part(base, sel, l, r, w) == [e |-> "range", base |-> base, sel |-> sel, l |-> l, r |-> r, w |-> w]
Field(base, fields, name, w) ==
    [e |-> "member", base |-> base, fields |-> fields, name |-> name, w |-> w]
Conv(x, w) == [e |-> "conv", arg |-> x, signed |-> FALSE, w |-> w]
CallOf(f, args, w) == [e |-> "call", f |-> f, args |-> args, w |-> w]
Inside(x, list) == [e |-> "inside", arg |-> x, list |-> list, w |-> 1]

Is(l, r) == [s |-> "assign", l |-> l, r |-> r, nb |-> FALSE, ref |-> FALSE]
Becomes(l, r) == [Is(l, r) EXCEPT !.nb = TRUE]
If(c, t, f) == [s |-> "if", c |-> c, t |-> t, f |-> f]
Block(items) == [s |-> "list", items |-> items]
Case(x, items, default) == [s |-> "case", x |-> x, items |-> items, default |-> default]
On1(label, stmt) == [labels |-> <<label>>, stmt |-> stmt]
Var1(n, w) == [s |-> "declare", n |-> n, w |-> w, init |-> NoNode]
For(v, op, bound, body, step) ==
    [s |-> "for", var |-> v, op |-> op, bound |-> bound, body |-> body, step |-> step]

In(n, w) == [m |-> "port", n |-> n, w |-> w, dir |-> "In", cnt |-> 0]
Out(n, w) == [In(n, w) EXCEPT !.dir = "Out"]
Var(n, w) == [m |-> "var", n |-> n, w |-> w, cnt |-> 0]
Mem(n, w, count) == [Var(n, w) EXCEPT !.cnt = count]
Wire(l, r) == [m |-> "assign", l |-> l, r |-> r]
Comb(body) == [m |-> "comb", body |-> body]
At1(edge, n) == [edge |-> edge, x |-> N(n, 1)]
Ff(events, body) == [m |-> "ff", events |-> events, body |-> body]
Clk == <<At1("PosEdge", "clk")>>
Initially(body) == [m |-> "initial", body |-> body]
Inst(n, target, conns) == [m |-> "inst", n |-> n, target |-> target, conns |-> conns]
Into(x) == [dir |-> "In", x |-> x]
From(x) == [dir |-> "Out", x |-> x]
Body(n, members) == [name |-> n, members |-> members]
Design(bodies) == [bodies |-> bodies, subs |-> NoMap, plain |-> TRUE]

a2 == N("a", 2)  b2 == N("b", 2)  x2 == N("x", 2)  q2 == N("q", 2)
y2 == N("y", 2)  s1 == N("s", 1)  y1 == N("y", 1)

(* always_comb if (s) x = a; else x = b;  assign y = x + inside ... *)
Branches == Design(<<Body("top", <<In("s", 1), In("a", 2), In("b", 2), Var("x", 2), Out("y", 2),
    Comb(If(s1, Is(x2, a2), Is(x2, Bin("Subtract", b2, K(1, 2), 2)))),
    Wire(y2, Cond(Inside(x2, <<<<K(3, 2)>>, <<K(0, 2)>>>>), Flip(x2), Exclusive(x2, a2)))>>)>>)

(* case (a) 1: x = b; 2: x = a ^ b; default: x = 0 *)
Cases == Design(<<Body("top", <<In("a", 2), In("b", 2), Var("x", 2), Out("y", 2),
    Wire(y2, Plus(x2, K(1, 2))),
    Comb(Case(a2, <<On1(K(1, 2), Is(x2, b2)),
                    [labels |-> <<K(2, 2), K(3, 2)>>, stmt |-> Is(x2, Exclusive(a2, b2))]>>,
              Is(x2, K(0, 2))))>>)>>)

(* always_ff @(posedge clk or negedge rst) if (!rst) q <= 0; else q <= q + a *)
Counter == Design(<<Body("top", <<In("clk", 1), In("rst", 1), In("a", 2), Out("q", 2),
    Ff(Clk \o <<At1("NegEdge", "rst")>>,
       If(Flip(N("rst", 1)), Becomes(q2, K(0, 2)), Becomes(q2, Plus(q2, a2))))>>)>>)

(* a memory of two words written under a condition, read through its index *)
Store1 == Design(<<Body("top", <<In("clk", 1), In("s", 1), In("i", 1), In("a", 2), Mem("mem", 2, 2), Out("y", 2),
    Ff(Clk, If(s1, Becomes(At(N("mem", 2), N("i", 1), 2), a2), NoNode)),
    Wire(y2, At(N("mem", 2), N("i", 1), 2))>>)>>)

(* Types with a name: typedef logic [1:0] word_t; typedef struct packed {word_t hi; word_t lo;} pair_t; *)
Ranged1(n, ranges) == [t |-> "word", n |-> n, ranges |-> ranges]
Word1(n) == Ranged1(n, <<>>)
Struct(fields) == [t |-> "struct", fields |-> [i \in 1..Len(fields) |-> [n |-> fields[i][1], type |-> fields[i][2]]]]
TypeNames == RegisterTypeAliases(<<[n |-> "word_t", target |-> Ranged1("logic", <<<<1, 0>>>>)],
                                   [n |-> "pair_t", target |-> Struct(<<<<"hi", Word1("word_t")>>, <<"lo", Word1("word_t")>>>>)],
                                   [n |-> "mode_t", target |-> Ranged1("bit", <<<<0, 2>>>>)],
                                   [n |-> "same_t", target |-> Word1("pair_t")]>>)
Pair == Word1("pair_t")
PairFields == PackedMembers(TypeNames, Pair)

\* Types of one packed range are as wide as the language has them, and hold x
\* and z where a part of them does.
ASSUME TypesMeasured ==
    /\ \A t \in {Pair, Word1("mode_t"), Word1("same_t"), Word1("int"), Word1("time"), Word1("bit"),
                 Struct(<<<<"m", Word1("mode_t")>>, <<"p", Pair>>, <<"b", Word1("bit")>>>>)} :
          LowerType(TypeNames, t).w = TypeBits(TypeNames, t)
    /\ LowerType(TypeNames, Word1("same_t")).four /\ ~LowerType(TypeNames, Word1("mode_t")).four

(* {y, x} = {a, b} + 1; parts of a struct and of a vector *)
Word4 == Cat(<<a2, b2>>)
Four == LowerType(TypeNames, Pair).w
Packs == Design(<<Body("top", <<In("a", 2), In("b", 2), Var("w", Four), Var("v", Four), Var("x", 2), Out("y", 2), Out("z", 4),
    Comb(Block(<<Is(N("w", 4), K(0, 4)), Is(N("v", 4), Word4),
                 Is(Part(N("w", 4), "Simple", K(2, 3), K(1, 3), 2), a2),
                 Is(At(N("w", 4), K(3, 3), 1), K(1, 1)),
                 Is(Field(N("v", 4), PairFields, "hi", 2), b2)>>)),
    Wire(Cat(<<y2, x2>>), Plus(N("w", 4), N("v", 4))),
    Wire(N("z", 4), Cat(<<Part(N("v", 4), "IndexedUp", a2, K(2, 3), 2),
                          Field(N("w", 4), PairFields, "lo", 2)>>))>>)>>)

(* for (i = 0; i < 2; i++) x = x ^ {1'b0, a[i]} through a function *)
Twice == [formals |-> <<[n |-> "p", w |-> 2]>>,
          body |-> Block(<<[s |-> "return", x |-> Plus(N("p", 2), N("p", 2))]>>)]
Loops == [bodies |-> <<Body("top", <<In("a", 2), In("b", 2), Var("x", 2), Out("y", 2),
    Comb(Block(<<Is(x2, b2), Var1("i", 2),
                 For("i", "LessThan", K(2, 2),
                     Is(x2, Exclusive(x2, Conv(At(a2, N("i", 2), 1), 2))), "increment")>>)),
    Wire(y2, CallOf("twice", <<x2>>, 2))>>)>>,
    subs |-> "twice" :> Twice, plain |-> TRUE]

(* a child with a register, twice, one after the other *)
Cell == Body("cell", <<In("clk", 1), In("d", 2), Var("r", 2), Out("o", 2), Out("n", 2),
    Initially(Becomes(N("r", 2), K(2, 2))),
    Ff(Clk, Becomes(N("r", 2), N("d", 2))),
    Wire(N("o", 2), N("r", 2)), Wire(N("n", 2), Flip(N("d", 2)))>>)
First == Inst("one", "cell", <<Into(N("clk", 1)), Into(a2), From(N("u", 2)), From(N("v", 2))>>)
Second == Inst("two", "cell", <<Into(N("clk", 1)), Into(N("u", 2)), From(y2), From(N("z", 2))>>)
Twice2(instances) ==
    Design(<<Cell, Body("top", <<In("clk", 1), In("a", 2), Var("u", 2), Var("v", 2), Out("y", 2),
                                 Out("z", 2)>> \o instances)>>)
Chain == Twice2(<<First, Second>>)

(* two registers in a row, the first of which waits for an assignment *)
Step1 == Body("step", <<In("clk", 1), In("d", 1), Var("r", 1), Out("o", 1),
    Ff(Clk, Becomes(N("r", 1), N("d", 1))), Wire(N("o", 1), N("r", 1))>>)
Relay == Design(<<Step1, Body("top", <<In("clk", 1), In("a", 1), Var("x", 1), Var("u", 1), Out("y", 1),
    Inst("one", "step", <<Into(N("clk", 1)), Into(N("x", 1)), From(N("u", 1))>>),
    Inst("two", "step", <<Into(N("clk", 1)), Into(N("u", 1)), From(y1)>>),
    Wire(N("x", 1), Flip(N("a", 1)))>>)>>)

\* Branches, Counter and Store1 have directives elsewhere.
PlainDesigns == <<Cases, Packs, Loops, Chain, Relay>>

---------------------------------------------------------------------------
(***************************************************************************)
(* The designs with directives, in the notation of the source where TLA+   *)
(* has it, and the automata Spot makes of their formulas.  back is how     *)
(* many ticks a directive looks back.  Targets have 4 or 8 registers.      *)
(***************************************************************************)

Simply(x) == [p |-> "Simple", expr |-> x, rep |-> [kind |-> "none", min |-> 0, max |-> 0]]
After1(l, op, r) == [p |-> "Binary", op |-> op, l |-> l, r |-> r]
Within(min, max, x) == [p |-> "SequenceConcat", elements |-> <<[min |-> min, max |-> max, seq |-> Simply(x)]>>]
Always(x) == [p |-> "Unary", op |-> "Always", min |-> -1, max |-> -1, expr |-> x]
Not1(x) == [Always(x) EXCEPT !.op = "Not"]
OnEdge(edge, n, x) == [p |-> "Clocking", event |-> [signal |-> n, edge |-> edge], expr |-> x]
Unless(c, x) == [p |-> "DisableIff", condition |-> c, expr |-> x]
Named1(x) == [p |-> "Instance", body |-> x]
Past(x, n) == [e |-> "sampled", f |-> "$past", args |-> <<x, K(n, 32)>>, w |-> x.w]
SampledBy(f, x) == [e |-> "sampled", f |-> f, args |-> <<x>>, w |-> 1]

Assertion(n, back, kind, spec) == [m |-> "assertion", n |-> n, kind |-> kind, spec |-> spec, back |-> back]
DefaultClocking(edge, n) == [m |-> "clocking", event |-> [signal |-> n, edge |-> edge]]

(* A grant follows a request, at the latest after two ticks, unless stopped. *)
clk1 == N("clk", 1)  req == N("req", 1)  gnt == N("gnt", 1)  stop == N("stop", 1)
Ticked(x) == OnEdge("PosEdge", "clk", x)
Arbiter(directives) ==
    Design(<<Body("top", <<In("clk", 1), In("req", 1), In("stop", 1), Out("gnt", 1),
                           Ff(Clk, Becomes(gnt, Bin("BinaryAnd", req, Flip(gnt), 1)))>> \o directives)>>)

Answered == Assertion("answered", 2, "Assert",
    Named1(Ticked(Unless(stop, After1(Simply(req), "OverlappedImplication", Within(1, 2, gnt))))))
Remembered == Assertion("remembered", 1, "Assert",
    Ticked(Always(After1(Simply(gnt), "Implies", Simply(Past(req, 1))))))
Twofold == Assertion("twofold", 1, "Assert",
    Ticked(After1(Always(Simply(Bin("LogicalOr", gnt, SampledBy("$fell", gnt), 1))), "And",
                  Not1(Not1(Simply(req))))))
Delayed == Assertion("delayed", 1, "CoverProperty",
    Unless(stop, Always(After1(Simply(req), "NonOverlappedImplication", Simply(gnt)))))
Polite == Assertion("polite", 0, "Assume", Not1(Simply(Bin("LogicalAnd", req, stop, 1))))

Requests == Arbiter(<<Answered, Remembered>>)
Polites == Arbiter(<<DefaultClocking("PosEdge", "clk"), Twofold, Delayed, Polite>>)

(* The same hardware under a host, which has names of its own for its ports *)
(* and a flag that is set at the first tick.                               *)
past_valid == N("past_valid", 1)  f_req == N("f_req", 1)
Hosted ==
    [bodies |-> Arbiter(<<>>).bodies, subs |-> NoMap, plain |-> TRUE] @@ "host" :>
    [body |-> Body("bench", <<Assertion("held", 1, "Assert",
        OnEdge("NegEdge", "f_clk", Unless(Flip(past_valid),
            Always(After1(Simply(SampledBy("$rose", f_req)), "OverlappedImplication",
                          Simply(N("dut.gnt", 1)))))))>>),
     aliases |-> <<[host |-> "f_clk", hardware |-> "clk"], [host |-> "f_req", hardware |-> "req"]>>,
     instances |-> <<"dut">>, flags |-> <<[name |-> "past_valid", clock |-> "f_clk"]>>]

(* Directives of designs with words, without a clock or with one. *)
With(d, directives) == [d EXCEPT !.bodies[Len(d.bodies)].members = @ \o directives]
y4 == N("y", 4)
Of(op, x) == [e |-> "unary", op |-> op, arg |-> x, w |-> 1]
Chosen1 == Assertion("chosen", 1, "Assert", Always(Simply(
    Cond(s1, SampledBy("$stable", Cat(<<a2, y2>>)), Of("ReductionXor", Cat(<<s1, b2>>))))))
Ordered == Assertion("ordered", 0, "CoverProperty", Simply(
    Bin("LogicalAnd", Bin("LessThan", a2, y2, 1), Bin("GreaterThanEqual", b2, Bin("Mod", y2, K(2, 2), 2), 1), 1)))
Picked == Assertion("picked", 0, "Assert", After1(Simply(Of("ReductionAnd", a2)), "Iff",
    After1(Simply(At(N("z", 4), a2, 1)), "Or", Simply(Of("LogicalNot", Bin("Divide", Conv(y2, 4), K(2, 4), 4))))))
Counted == Assertion("counted", 0, "CoverProperty", Ticked(Simply(Eq(q2, K(3, 2)))))
Stored == Assertion("stored", 0, "Assert", Ticked(Always(Simply(Bin("Inequality", y2, Bin("Add", a2, K(1, 2), 2), 1)))))
Deep == Assertion("deep", 0, "CoverProperty", Ticked(Simply(Bin("GreaterThan", N("r", 2), y2, 1))))

\* Terms the passes have something to do with.
Terms == Design(<<Body("top", <<In("a", 2), In("b", 2), Out("y", 2), Out("z", 4),
    Wire(y2, Plus(Bin("Multiply", a2, K(2, 2), 2), Bin("BinaryAnd", K(3, 2), b2, 2))),
    Wire(N("z", 4), Cat(<<Cond(Eq(a2, a2), Bin("Subtract", b2, K(0, 2), 2), a2),
                          Cond(Eq(a2, b2), Bin("BinaryOr", Bin("Multiply", K(0, 2), a2, 2), b2, 2), Plus(K(1, 2), K(2, 2)))>>)),
    Picked>>)>>)

\* One cell, seen from its parent.
Single == Design(<<Cell, Body("top", <<In("clk", 1), In("a", 2), Out("y", 2), Out("z", 2),
    Inst("one", "cell", <<Into(clk1), Into(a2), From(y2), From(N("z", 2))>>), Deep>>)>>)

\* The cell waits for a value that nothing after it uses: with the dead code
\* the value goes, and the model of the property cannot be built.
Waiting == Design(<<Cell, Body("top", <<In("clk", 1), In("a", 2), In("b", 2), Var("x", 2), Out("y", 2), Out("z", 2),
    Inst("one", "cell", <<Into(clk1), Into(x2), From(y2), From(N("z", 2))>>), Wire(x2, Exclusive(a2, b2)), Deep>>)>>)

(***************************************************************************)
(* Properties that need an automaton.  Those without a name are not asked  *)
(* for: they have a formula only.                                          *)
(***************************************************************************)
Temporally(op, x) == [Always(x) EXCEPT !.op = op]
Ranging(op, min, max, x) == [p |-> "Unary", op |-> op, min |-> min, max |-> max, expr |-> x]
Repeatedly(kind, min, max, x) == [Simply(x) EXCEPT !.rep = [kind |-> kind, min |-> min, max |-> max]]
Element(min, max, seq) == [min |-> min, max |-> max, seq |-> seq]
Sequenced(elements) == [p |-> "SequenceConcat", elements |-> elements]
Apart(l, min, max, r) == Sequenced(<<Element(0, 0, l), Element(min, max, r)>>)
Unnamed(kind, spec) == Assertion("", 0, kind, spec)
Nothing1 == [p |-> "none"]
Req == Simply(req)  Gnt == Simply(gnt)  Stop == Simply(stop)

Served == Assertion("served", 0, "Assert",
    Ticked(Unless(stop, Always(After1(Req, "Implies", Temporally("SEventually", Gnt))))))
Fair == Assertion("fair", 0, "Assume", Ticked(Always(Temporally("SEventually", Gnt))))
Split == Assertion("split", 0, "Assert",
    After1(Always(After1(Gnt, "Implies", Simply(Flip(stop)))), "And", Temporally("SEventually", Gnt)))
Steady == Assertion("steady", 0, "CoverProperty", OnEdge("NegEdge", "clk", After1(Req, "SUntilWith", Gnt)))
Vacuous == Assertion("vacuous", 0, "Assert", Ticked(Sequenced(<<Element(0, Unbounded, Gnt)>>)))

Liveness == Arbiter(<<Served, Steady, Vacuous>>)
Fairness == Arbiter(<<Fair, Split>>)

Sequences == Arbiter(<<
    Unnamed("Assert", After1(Apart(Req, 0, 2, Gnt), "OverlappedImplication", Apart(Gnt, 2, 4, Req))),
    Unnamed("Assert", After1(Repeatedly("GoTo", 2, 3, req), "NonOverlappedImplication", Repeatedly("Consecutive", 2, 7, gnt))),
    Unnamed("Assert", After1(Repeatedly("Nonconsecutive", 1, 2, req), "OverlappedImplication", Gnt)),
    Unnamed("Assert", Not1(After1(Repeatedly("Consecutive", 1, Unbounded, req), "Throughout", Apart(Gnt, 1, 3, Gnt)))),
    Unnamed("Assert", Always(After1(After1(Apart(Req, 1, 1, Gnt), "Within", Repeatedly("Consecutive", 3, 4, gnt)),
                                    "NonOverlappedImplication", Req))),
    Unnamed("Assert", After1([p |-> "FirstMatch", seq |-> Apart(Req, 1, Unbounded, Gnt)], "OverlappedImplication", Req)),
    Unnamed("Assert", After1(Apart(Req, 1, 5, Gnt), "Intersect", Apart(Gnt, 2, Unbounded, Req))),
    Unnamed("Assert", Sequenced(<<Element(1, 3, Repeatedly("Consecutive", 2, 6, req)), Element(0, 1, Gnt)>>))>>)

Properties == Arbiter(<<
    Unnamed("Assert", Ranging("NextTime", 2, 2, After1(Req, "Iff", Gnt))),
    Unnamed("Assert", Ranging("SAlways", 1, 3, After1(Req, "Or", Ranging("SEventually", 0, 2, Gnt)))),
    Unnamed("Assert", After1(After1(Req, "Until", Gnt), "Or", After1(Gnt, "SUntil", Req))),
    Unnamed("Assert", Not1(Not1(After1(After1(Req, "UntilWith", Gnt), "And", Always(Always(Not1(Not1(Gnt)))))))),
    Unnamed("Assert", Temporally("SEventually", Temporally("SAlways", Req))),
    Unnamed("Assert", [p |-> "Abort", action |-> "accept", c |-> req, expr |-> Gnt]),
    Unnamed("Assert", Always([p |-> "Abort", action |-> "reject", c |-> req, expr |-> Temporally("SNextTime", Gnt)])),
    Unnamed("Assert", [p |-> "Conditional", c |-> req, t |-> Temporally("NextTime", Gnt), f |-> Nothing1]),
    Unnamed("Assert", [p |-> "Conditional", c |-> req, t |-> Always(Gnt), f |-> Temporally("NextTime", Req)]),
    Unnamed("Assert", [p |-> "Case", x |-> req, default |-> Temporally("SEventually", Gnt),
                       items |-> <<[labels |-> <<K(1, 1)>>, body |-> Temporally("NextTime", Gnt)]>>]),
    Unnamed("Assert", [p |-> "Case", x |-> Cat(<<req, gnt>>), default |-> Nothing1,
                       items |-> <<[labels |-> <<K(1, 2), K(2, 2)>>, body |-> Temporally("NextTime", Gnt)],
                                   [labels |-> <<K(3, 2)>>, body |-> Always(Gnt)]>>])>>)

\* An abort after the first tick, as in tests/complier/frontend/sva_shapes.sv:17:
\* the formula has no word for it, so no directive above has one.
LateAbort == [p |-> "Abort", action |-> "accept", c |-> stop,
              expr |-> Always(After1(Req, "OverlappedImplication", Ranging("SEventually", 1, 4, Gnt)))]
ASSUME LateAbortsDiffer ==
    \E w \in Lassos(SUBSET {Atom(req), Atom(gnt), Atom(stop)}, 2) :
        TrueAt(LateAbort, w, 1) /\ ~TrueOf(LowerFormula(LowerProperty(LateAbort)), w, 1)

(* An adder in two steps and a carry, and equations about it. *)
Wide(x) == Conv(x, 3)
Adder == Body("add", <<In("p", 2), In("r", 2), Out("s", 2), Out("c", 1),
    Wire(Cat(<<N("c", 1), N("s", 2)>>), Plus(Wide(N("p", 2)), Wide(N("r", 2))))>>)
Equation(n, l, r) == Assertion(n, 0, "Assert", Named1(Ticked(Simply(Eq(l, r)))))
Sums == Design(<<Adder, Body("top", <<In("clk", 1), In("a", 2), In("b", 2),
    Var("u", 2), Out("y", 2), Out("c", 1), Out("e", 1),
    Inst("one", "add", <<Into(a2), Into(K(1, 2)), From(N("u", 2)), From(N("c", 1))>>),
    Inst("two", "add", <<Into(N("u", 2)), Into(b2), From(y2), From(N("e", 1))>>),
    Equation("sum", Cat(<<N("e", 1), y2>>), Plus(Cat(<<K(0, 1), Plus(a2, K(1, 2))>>), Wide(b2))),
    Equation("whole", Cat(<<N("c", 1), y2>>), Plus(Plus(Wide(a2), K(1, 3)), Wide(b2))),
    Equation("low", y2, Plus(b2, Plus(a2, K(1, 2))))>>)>>)

DesignsWithDirectives == <<Requests, Polites, Hosted, With(Branches, <<Chosen1, Ordered>>),
                           With(Counter, <<Counted>>), With(Store1, <<Stored>>), Terms, Single, Waiting,
                           Liveness, Fairness, Sequences, Properties, Sums>>

MCDesigns == ToSet(PlainDesigns \o DesignsWithDirectives)

---------------------------------------------------------------------------
(* Spot: the formulas of the directives with names, and automata for them. *)

Now(x) == Formula("Closure", <<Proposition(SvaExpression(x))>>)
Globally(f) == Ranged("G", 0, Unbounded, f)
Finally(f) == Ranged("F", 0, Unbounded, f)

\* A decision on one atom, for when it is true, and for when it is false.
When(i) == Decision(i, Sure(TRUE), Sure(FALSE))
WhenNot(i) == Decision(i, Sure(FALSE), Sure(TRUE))
EdgeOf(from, to, guard) == [from |-> from, to |-> to, guard |-> guard]
Automaton(states, accepting, det, atoms, edges) ==
    [states |-> states, initial |-> 0, accepting |-> accepting, det |-> det, edges |-> edges,
     atoms |-> [i \in 1..Len(atoms) |-> SvaExpression(atoms[i])]]

Automata == {
    [formula |-> Complement(Globally(Formula("UConcat", <<Proposition(SvaExpression(req)), Finally(Now(gnt))>>))),
     automaton |-> Automaton(2, <<1>>, FALSE, <<req, gnt>>,
        <<EdgeOf(0, 0, Sure(TRUE)), EdgeOf(0, 1, Decision(1, WhenNot(2), Sure(FALSE))), EdgeOf(1, 1, WhenNot(2))>>)],
    [formula |-> Globally(Finally(Now(gnt))),
     automaton |-> Automaton(2, <<1>>, TRUE, <<gnt>>,
        <<EdgeOf(0, 0, WhenNot(1)), EdgeOf(0, 1, When(1)), EdgeOf(1, 0, WhenNot(1)), EdgeOf(1, 1, When(1))>>)],
    [formula |-> Complement(Finally(Now(gnt))),
     automaton |-> Automaton(1, <<0>>, TRUE, <<gnt>>, <<EdgeOf(0, 0, WhenNot(1))>>)],
    [formula |-> Formula("U", <<Now(req), Formula("And", <<Now(req), Now(gnt)>>)>>),
     automaton |-> Automaton(2, <<1>>, TRUE, <<req, gnt>>,
        <<EdgeOf(0, 0, Decision(1, WhenNot(2), Sure(FALSE))), EdgeOf(0, 1, Decision(1, When(2), Sure(FALSE))),
          EdgeOf(1, 1, Sure(TRUE))>>)],
    [formula |-> Complement(Formula("Closure", <<Formula("Concat",
        <<Ranged("Star", 0, Unbounded, Truth), Proposition(SvaExpression(gnt))>>)>>)),
     automaton |-> Automaton(1, <<>>, TRUE, <<gnt>>, <<>>)]}

MCSpot(f) == (CHOOSE r \in Automata : r.formula = f).automaton

\* An automaton accepts a word when some run of it visits an accepting state
\* at a place it comes back to.
RECURSIVE Chooses(_, _, _)
Chooses(g, atoms, letter) ==
    IF g.at = 0 THEN g.yes ELSE Chooses(IF atoms[g.at] \in letter THEN g.high ELSE g.low, atoms, letter)

NextOf(a, w, at) ==
    {[q |-> e.to, i |-> PlaceOf(w, at.i + 1)] :
        e \in {z \in ToSet(a.edges) : z.from = at.q /\ Chooses(z.guard, a.atoms, w.letters[at.i])}}

From1(a, w, at) ==
    Fold(LAMBDA all, k : all \cup UNION {NextOf(a, w, z) : z \in all}, NextOf(a, w, at), [k \in 1..12 |-> k])

AcceptsWord(a, w) ==
    \E at \in From1(a, w, [q |-> a.initial, i |-> 1]) \cup {[q |-> a.initial, i |-> 1]} :
        at.q \in ToSet(a.accepting) /\ at \in From1(a, w, at)

ASSUME SpotTranslates ==
    \A r \in Automata : \A w \in Lassos(SUBSET ToSet(r.automaton.atoms), 3) :
        AcceptsWord(r.automaton, w) <=> TrueOf(r.formula, w, 1)
=============================================================================
