------------------------------ MODULE SvMeaning ------------------------------
(***************************************************************************)
(* What a design means, by the rules of the language: the specification    *)
(* the lowering is held against.  Variables have one value; a blocking     *)
(* assignment changes it at once, a non-blocking one when the evaluation   *)
(* ends; exactly one branch of a conditional runs.  One thing is a         *)
(* convention of the code: when in a cycle a register is looked at that is *)
(* an output.                                                              *)
(***************************************************************************)
EXTENDS ModuleLowering

\* What the rules need to know of a body: memories, widths, functions; and
\* what its variables were at the ticks before, the last one first.
Frame(body, subs) ==
    LET decls == Members(body, {"port", "var"})
        names == {decls[i].n : i \in 1..Len(decls)}
        Decl(n) == decls[CHOOSE i \in 1..Len(decls) : decls[i].n = n]
    IN  [mem |-> [n \in {x \in names : Decl(x).cnt > 0} |-> Decl(n).cnt],
         widths |-> [n \in names |-> Decl(n).w], subs |-> subs, past |-> <<>>]

\* A variable environment: values now, values to come, and a returned value.
Env(now, next, ret) == [now |-> now, next |-> next, ret |-> ret]

FromParts(parts) == Fold(LAMBDA a, p : Concat(a, p.v, p.w), 0, parts)

(***************************************************************************)
(* The value of an expression, the environment after an assignment or a    *)
(* statement: the recursion goes through Means, for a job of each kind.    *)
(***************************************************************************)
RECURSIVE Means(_, _, _)

Meaning(n, now, K) == Means([j |-> "value", n |-> n], now, K)
Written(env, t, v, nb, K) == Means([j |-> "assign", t |-> t, v |-> v, nb |-> nb], env, K)
Run(s, env, K) == Means([j |-> "run", s |-> s], env, K)

BinaryMeaning(n, l, r) ==
    LET lv == IF n.signed THEN Signed(l, n.l.w) ELSE l
        rv == IF n.signed THEN Signed(r, n.r.w) ELSE r
    IN  CASE n.op = "LogicalAnd" -> Bit(l # 0 /\ r # 0)
          [] n.op = "LogicalOr"  -> Bit(l # 0 \/ r # 0)
          [] n.op = "Mod"        -> l % r
          [] n.op = "Divide"     -> l \div r
          [] n.op = "LessThan"         -> Bit(lv < rv)
          [] n.op = "LessThanEqual"    -> Bit(lv <= rv)
          [] n.op = "GreaterThan"      -> Bit(lv > rv)
          [] n.op = "GreaterThanEqual" -> Bit(lv >= rv)
          [] n.op \in {"Equality", "CaseEquality"}     -> Bit(l = r)
          [] n.op \in {"Inequality", "CaseInequality"} -> Bit(l # r)
          [] OTHER -> Apply(SameOpcode[n.op], n.w, <<l, r>>, <<n.l.w, n.r.w>>, 0)

MemoryMeaning(now, n, count, w) ==
    FromParts([i \in 1..count |-> [v |-> now[Elem(n, count - i)], w |-> w]])

\* The first bit of a part select.
StartOf(n, now, K) ==
    CASE n.sel = "Simple"      -> Least(Meaning(n.l, now, K), Meaning(n.r, now, K))
      [] n.sel = "IndexedUp"   -> Meaning(n.l, now, K)
      [] n.sel = "IndexedDown" -> Meaning(n.l, now, K) - (n.w - 1)

\* Before the first tick everything was zero.
Before(x, ticks, K) ==
    IF Len(K.past) < ticks THEN 0
    ELSE Meaning(x, K.past[ticks], [K EXCEPT !.past = SubSeq(@, ticks + 1, Len(@))])

SampledMeaning(n, now, K) ==
    LET x == n.args[1] is == Meaning(x, now, K) was == Before(x, 1, K)
    IN  CASE n.f = "$sampled" -> is
          [] n.f = "$past"    -> Before(x, IF Len(n.args) = 2 THEN n.args[2].v ELSE 1, K)
          [] n.f = "$rose"    -> Bit(was % 2 = 0 /\ is % 2 = 1)
          [] n.f = "$fell"    -> Bit(was % 2 = 1 /\ is % 2 = 0)
          [] n.f = "$stable"  -> Bit(was = is)
          [] n.f = "$changed" -> Bit(was # is)

UnaryMeaning(n, v) ==
    CASE n.op = "LogicalNot"   -> Bit(v = 0)
      [] n.op = "BitwiseNot"   -> Ones(n.w) - v
      [] n.op = "ReductionAnd" -> Bit(v = Ones(n.arg.w))
      [] n.op = "ReductionOr"  -> Bit(v # 0)
      [] n.op = "ReductionXor" -> Cardinality(OnesOf(v, n.arg.w)) % 2

MeaningOfExpression(n, now, K) ==
    CASE n.e = "const"  -> n.v
      [] n.e = "lref"   -> now["lref"]
      [] n.e = "name"   -> IF n.n \in DOMAIN K.mem
                           THEN MemoryMeaning(now, n.n, K.mem[n.n], K.widths[n.n]) ELSE now[n.n]
      [] n.e = "member" -> Slice(Meaning(n.base, now, K), MemberOffset(n.fields, n.name), n.w)
      [] n.e = "call"   ->
            LET f == K.subs[n.f]
                bound == [x \in {f.formals[i].n : i \in 1..Len(f.formals)} |->
                             Meaning(n.args[CHOOSE i \in 1..Len(f.formals) : f.formals[i].n = x], now, K)]
            IN  Run(f.body, Env(bound @@ now, NoMap, 0),
                    [K EXCEPT !.widths = [x \in DOMAIN bound |->
                        f.formals[CHOOSE i \in 1..Len(f.formals) : f.formals[i].n = x].w] @@ @]).ret
      [] n.e = "inside" ->
            LET x == Meaning(n.arg, now, K)
                In(item) == IF Len(item) = 1 THEN x = Meaning(item[1], now, K)
                            ELSE /\ Meaning(item[1], now, K) <= x
                                 /\ x <= Meaning(item[2], now, K)
            IN  Bit(\E i \in 1..Len(n.list) : In(n.list[i]))
      [] n.e = "conv"   -> LET v == Meaning(n.arg, now, K)
                           IN  Low(IF n.signed THEN Signed(v, n.arg.w) ELSE v, n.w)
      [] n.e = "unary"  -> UnaryMeaning(n, Meaning(n.arg, now, K))
      [] n.e = "sampled" -> SampledMeaning(n, now, K)
      [] n.e = "binary" -> BinaryMeaning(n, Meaning(n.l, now, K), Meaning(n.r, now, K))
      [] n.e = "cond"   -> IF Meaning(n.c, now, K) # 0 THEN Meaning(n.t, now, K) ELSE Meaning(n.f, now, K)
      [] n.e = "concat" -> FromParts([i \in 1..Len(n.args) |->
                                         [v |-> Meaning(n.args[i], now, K), w |-> n.args[i].w]])
      [] n.e = "elem"   -> IF n.base.e = "name" /\ n.base.n \in DOMAIN K.mem
                           THEN now[Elem(n.base.n, Meaning(n.at, now, K))]
                           ELSE Slice(Meaning(n.base, now, K), Meaning(n.at, now, K) * n.w, n.w)
      [] n.e = "range"  -> Slice(Meaning(n.base, now, K), StartOf(n, now, K), n.w)

---------------------------------------------------------------------------
(* Assignments.  A part keeps the rest of what its variable will be. *)

Target(env, nb) == IF nb THEN env.next @@ env.now ELSE env.now
Put(env, n, v, nb) == IF nb THEN [env EXCEPT !.next = (n :> v) @@ @]
                      ELSE [env EXCEPT !.now = (n :> v) @@ @]

WithBits(old, v, start, w, wide) ==
    Low((old - Slice(old, start, w) * 2^start) + Low(v, w) * 2^start, wide)

MeaningOfAssignment(env, t, v, nb, K) ==
    LET old == Meaning(t.base, Target(env, nb), K)
        Part(start) == Written(env, t.base, WithBits(old, v, start, t.w, t.base.w), nb, K)
        Below(i) == Fold(LAMBDA a, p : a + p.w, 0, SubSeq(t.args, i + 1, Len(t.args)))
    IN  CASE t.e = "name" ->
                IF t.n \in DOMAIN K.mem
                THEN Fold(LAMBDA e, i : Put(e, Elem(t.n, i), Slice(v, i * K.widths[t.n], K.widths[t.n]), nb),
                              env, [i \in 1..K.mem[t.n] |-> i - 1])
                ELSE Put(env, t.n, Low(v, t.w), nb)
          [] t.e = "concat" -> Fold(LAMBDA e, i : Written(e, t.args[i], Slice(v, Below(i), t.args[i].w), nb, K),
                                        env, [i \in 1..Len(t.args) |-> i])
          [] t.e = "elem"   -> IF t.base.e = "name" /\ t.base.n \in DOMAIN K.mem
                               THEN Put(env, Elem(t.base.n, Meaning(t.at, env.now, K)), Low(v, t.w), nb)
                               ELSE Part(Meaning(t.at, env.now, K) * t.w)
          [] t.e = "member" -> Part(MemberOffset(t.fields, t.name))
          [] t.e = "range"  -> Part(StartOf(t, env.now, K))

\* A statement, and the loop, run to their end.
Matches(item, x, now, K) == \E i \in 1..Len(item.labels) : Meaning(item.labels[i], now, K) = x

MeaningOfStatement(s, env, K) ==
    CASE s.s = "list"    -> Fold(LAMBDA e, i : Run(i, e, K), env, s.items)
      [] s.s = "declare" -> Put(env, s.n, IF s.init = NoNode THEN 0 ELSE Meaning(s.init, env.now, K), FALSE)
      [] s.s = "return"  -> [env EXCEPT !.ret = Meaning(s.x, env.now, K)]
      [] s.s = "assign"  ->
            LET compound == ("lref" :> Meaning(s.l, env.now, K)) @@ env.now
            IN  Written(env, s.l, Meaning(s.r, IF s.ref THEN compound ELSE env.now, K), s.nb, K)
      [] s.s = "if"      -> IF Meaning(s.c, env.now, K) # 0 THEN Run(s.t, env, K) ELSE Run(s.f, env, K)
      [] s.s = "case"    ->
            LET x == Meaning(s.x, env.now, K)
                hits == {i \in 1..Len(s.items) : Matches(s.items[i], x, env.now, K)}
            IN  IF hits = {} THEN Run(s.default, env, K)
                ELSE Run(s.items[CHOOSE i \in hits : \A j \in hits : i <= j].stmt, env, K)
      [] s.s = "for"     ->
            IF ~Compares(s.op, env.now[s.var], Meaning(s.bound, env.now, K)) THEN env
            ELSE LET body == Run(s.body, env, K)
                     i == body.now[s.var]
                 IN  Run(s, Put(body, s.var, IF s.step = "increment" THEN i + 1 ELSE i - 1, FALSE), K)
      [] OTHER           -> env

Means(job, given, K) ==
    CASE job.j = "value"  -> MeaningOfExpression(job.n, given, K)
      [] job.j = "assign" -> MeaningOfAssignment(given, job.t, job.v, job.nb, K)
      [] job.j = "run"    -> MeaningOfStatement(job.s, given, K)

---------------------------------------------------------------------------
(* A body: its combinational members settle, then its clocked blocks run.  *)
(* Registers are named by their path.  By the convention of the code, an   *)
(* output that is a register shows what it will be.                        *)

Prefixed(path, states, decls) ==
    [n \in {decls[i].n : i \in 1..Len(decls)} |-> states[StatePath(path, n)]]

InputValues(body, values) ==
    LET ports == SelectSeq(Members(body, {"port"}), LAMBDA x : x.dir = "In")
        Bound(f, i) == IF ports[i].cnt = 0 THEN (ports[i].n :> values[i]) @@ f
                       ELSE [n \in {Elem(ports[i].n, j) : j \in 0..(ports[i].cnt - 1)} |->
                                LET j == CHOOSE k \in 0..(ports[i].cnt - 1) : n = Elem(ports[i].n, k)
                                IN  Slice(values[i], j * ports[i].w, ports[i].w)] @@ f
    IN  Fold(Bound, NoMap, [i \in 1..Len(ports) |-> i])

Zeroes(body) ==
    LET decls == Members(body, {"port", "var"})
        Cells(x) == IF x.cnt = 0 THEN {x.n} ELSE {Elem(x.n, i) : i \in 0..(x.cnt - 1)}
    IN  [n \in UNION {Cells(decls[i]) : i \in 1..Len(decls)} |-> 0]

Fires(event, now, states, K) ==
    LET is == Meaning(event.x, now, K) was == states[Previous(event.x.n)]
    IN  IF event.edge = "PosEdge" THEN was = 0 /\ is = 1 ELSE was = 1 /\ is = 0

IsInput(z) == z.dir = "In"

RECURSIVE BodyMeaning(_, _, _, _, _, _)

\* The instance x of a body at path, its inputs read where its parent stands.
Child(d, p, x, path, now, states, K) ==
    LET ins == SelectSeq(x.conns, IsInput)
    IN  BodyMeaning(d, p, CHOOSE j \in 1..Len(d.bodies) : d.bodies[j].name = x.target,
                    StatePath(path, x.n), [k \in 1..Len(ins) |-> Meaning(ins[k].x, now, K)], states)

\* The members are gone through once for each of them: after that all is settled.
Settled(d, p, path, start, states, K, members) ==
    LET Wire(env, outs, values) ==
            Fold(LAMBDA e, k : IF outs[k].x.e = "empty" THEN e
                               ELSE Written(e, outs[k].x, values[k], FALSE, K),
                 env, [k \in 1..Len(outs) |-> k])
        Settle(env, x) ==
            CASE x.m = "assign" -> Written(env, x.l, Meaning(x.r, env.now, K), FALSE, K)
              [] x.m = "comb"   -> Run(x.body, env, K)
              [] x.m = "inst"   -> Wire(env, SelectSeq(x.conns, LAMBDA z : ~IsInput(z)),
                                        Child(d, p, x, path, env.now, states, K).out)
    IN  Fold(LAMBDA env, x : Fold(Settle, env, members), start, members).now

\* The registers after the clocked blocks that fire, and the initial ones once.
Registered(body, now, own, K) ==
    LET blocks == Members(body, {"initial"})
        initial == IF blocks # <<>> /\ own[InitialDone] = 0 THEN blocks ELSE <<>>
        Clock(env, x) ==
            IF \E j \in 1..Len(x.events) : Fires(x.events[j], now, own, K)
            THEN Env(now, Run(x.body, env, K).next, 0) ELSE env
    IN  Fold(Clock, Fold(LAMBDA e, x : Run(x.body, e, K), Env(now, NoMap, 0), initial),
             Members(body, {"ff"})).next

NextOwn(body, now, own, K) ==
    LET clocks == UNION {{x.events[j].x.n : j \in 1..Len(x.events)} : x \in ToSet(Members(body, {"ff"}))}
    IN  [n \in {Previous(k) : k \in clocks} |-> now[CHOOSE k \in clocks : Previous(k) = n]]
          @@ [n \in {InitialDone} \cap DOMAIN own |-> 1] @@ Registered(body, now, own, K) @@ own

\* What a body shows and keeps, from what it has settled to.
Shown(d, p, body, path, states, K, now, next) ==
    LET outs == SelectSeq(Members(body, {"port"}), LAMBDA x : x.dir = "Out")
        Port(x, seen) == IF x.cnt = 0 THEN seen[x.n] ELSE MemoryMeaning(seen, x.n, x.cnt, x.w)
    IN  [out |-> [k \in 1..Len(outs) |-> Port(outs[k], next @@ now)],
         next |-> Fold(LAMBDA f, x : Child(d, p, x, path, now, states, K).next @@ f,
                       [s \in {StatePath(path, n) : n \in DOMAIN next} |->
                           next[CHOOSE n \in DOMAIN next : StatePath(path, n) = s]],
                       Members(body, {"inst"}))]

ShownAfter(d, p, body, path, own, states, K, now) ==
    Shown(d, p, body, path, states, K, now, NextOwn(body, now, own, K))

BodyMeaning(d, p, i, path, inputs, states) ==
    LET Within(body, own, K) ==
            ShownAfter(d, p, body, path, own, states, K,
                       Settled(d, p, path, Env(InputValues(body, inputs) @@ own @@ Zeroes(body), NoMap, 0),
                               states, K, Members(body, {"assign", "comb", "inst"})))
    IN  Within(d.bodies[i], Prefixed(path, states, p[i].states), Frame(d.bodies[i], d.subs))

\* inputs: the value of every input of the root, in order.
DesignMeaning(d, p, inputs, states) ==
    BodyMeaning(d, p, Len(d.bodies), Root(p).name, inputs, states)

---------------------------------------------------------------------------
(* The bits of a type by the rules of the language, where names stands for what. *)

WordBits == "byte" :> 8 @@ "shortint" :> 16 @@ "int" :> 32 @@ "integer" :> 32 @@ "longint" :> 64 @@ "time" :> 64 @@
            "logic" :> 1 @@ "bit" :> 1 @@ "reg" :> 1
RECURSIVE TypeBits(_, _)
TypeBits(names, t) ==
    CASE t.t = "struct" -> Fold(LAMBDA n, f : n + TypeBits(names, f.type), 0, t.fields)
      [] t.t = "word" /\ t.n \in DOMAIN names -> TypeBits(names, names[t.n])
      [] OTHER -> Fold(LAMBDA n, r : n * (1 + IF r[1] > r[2] THEN r[1] - r[2] ELSE r[2] - r[1]), WordBits[t.n], t.ranges)

-----------------------------------------------------------------------------
(***************************************************************************)
(* What a directive means, by the rules of the language: the specification *)
(* its monitor is held against.  A view v is a sequence of ticks, the one  *)
(* now first: each has the values sampled there, and whether an attempt    *)
(* that began there has been disabled since.                               *)
(***************************************************************************)

\* The wrappers around a property, and what they are around.
RECURSIVE Core(_)
Core(x) == CASE x.p = "Instance" -> Core(x.body)
             [] x.p \in {"Clocking", "DisableIff"} -> Core(x.expr)
             [] OTHER -> x

RECURSIVE Wrappers(_, _)
Wrappers(x, kind) ==
    (IF x.p = kind THEN {x} ELSE {})
        \cup CASE x.p = "Instance" -> Wrappers(x.body, kind)
               [] x.p \in {"Clocking", "DisableIff"} -> Wrappers(x.expr, kind)
               [] OTHER -> {}

\* The clock of a directive: its own, or the default one of its body.
ClockOf(body, x) ==
    LET own == Wrappers(x.spec, "Clocking")
        default == SelectSeq(body.members, LAMBDA z : z.m = "clocking")
    IN  IF own # {} THEN {(CHOOSE z \in own : TRUE).event}
        ELSE IF default # <<>> THEN {default[1].event} ELSE {}

---------------------------------------------------------------------------

After(v, k) == SubSeq(v, k + 1, Len(v))
IsTrue(x, v, K) ==
    Meaning(x, v[1].env, [K EXCEPT !.past = [i \in 1..(Len(v) - 1) |-> v[i + 1].env]]) # 0

\* Properties of one tick.
RECURSIVE IsOneTick(_)
IsOneTick(x) ==
    CASE x.p = "Simple" -> x.rep.kind = "none"
      [] x.p = "Unary"  -> x.op = "Not" /\ IsOneTick(x.expr)
      [] x.p = "Binary" -> x.op \in {"And", "Or", "Iff", "Implies"} /\ IsOneTick(x.l) /\ IsOneTick(x.r)
      [] OTHER -> FALSE

RECURSIVE Holds(_, _, _)
Holds(x, v, K) ==
    CASE x.p = "Simple" -> IsTrue(x.expr, v, K)
      [] x.p = "Unary"  -> ~Holds(x.expr, v, K)
      [] x.p = "Binary" -> LET l == Holds(x.l, v, K) r == Holds(x.r, v, K)
                           IN  CASE x.op = "And" -> l /\ r
                                 [] x.op = "Or"  -> l \/ r
                                 [] x.op = "Iff" -> l <=> r
                                 [] OTHER        -> l => r

(***************************************************************************)
(* An implication whose consequent has a window: the ticks after the       *)
(* antecedent, at one of which the consequent is to be true.  An attempt   *)
(* fails, or matches, once.                                                *)
(***************************************************************************)
IsPlainAtom(x) == x.p = "Simple" /\ x.rep.kind = "none"
IsWindowed(x) ==
    /\ x.p = "Binary" /\ x.op \in {"OverlappedImplication", "NonOverlappedImplication"} /\ IsPlainAtom(x.l)
    /\ \/ IsPlainAtom(x.r)
       \/ x.r.p = "SequenceConcat" /\ Len(x.r.elements) = 1 /\ IsPlainAtom(x.r.elements[1].seq)
            /\ x.r.elements[1].max < 1000

Window(x) ==
    LET later == IF x.op = "NonOverlappedImplication" THEN 1 ELSE 0
    IN  IF x.r.p = "Simple" THEN [expr |-> x.r.expr, first |-> later, last |-> later]
        ELSE LET e == x.r.elements[1] IN [expr |-> e.seq.expr, first |-> e.min + later, last |-> e.max + later]

\* An attempt that began k ticks ago and is not disabled.
Attempted(x, k, v, K) == k < Len(v) /\ ~v[k + 1].dropped /\ Holds(x.l, After(v, k), K)

RECURSIVE Fails(_, _, _)
Fails(x, v, K) ==
    CASE x.p = "Unary" /\ x.op = "Always" -> Fails(x.expr, v, K)
      [] x.p = "Binary" /\ x.op = "And"   -> Fails(x.l, v, K) \/ Fails(x.r, v, K)
      [] IsWindowed(x) -> LET w == Window(x)
                          IN  /\ Attempted(x, w.last, v, K)
                              /\ \A j \in 0..(w.last - w.first) : ~IsTrue(w.expr, After(v, j), K)
      [] OTHER         -> IsOneTick(x) /\ ~Holds(x, v, K)

RECURSIVE Matched(_, _, _)
Matched(x, v, K) ==
    CASE x.p = "Unary" /\ x.op = "Always" -> Matched(x.expr, v, K)
      [] IsWindowed(x) -> LET w == Window(x)
                          IN  \E k \in w.first..w.last :
                                 /\ Attempted(x, k, v, K)
                                 /\ IsTrue(w.expr, v, K)
                                 /\ \A j \in 1..(k - w.first) : ~IsTrue(w.expr, After(v, j), K)
      [] OTHER         -> IsOneTick(x) /\ Holds(x, v, K)

---------------------------------------------------------------------------
(***************************************************************************)
(* The sampling of one directive.  sampled has the ticks the directive can *)
(* look back on (field back), the value the clock had, and whether there   *)
(* was a step at all: an edge needs two of them.                           *)
(***************************************************************************)
Unsampled == [started |-> FALSE, clock |-> 0, ticks |-> <<>>]

Ticks(events, sampled, env) ==
    \A event \in events :
        LET is == env[event.signal]
        IN  CASE event.edge = "PosEdge" -> sampled.started /\ sampled.clock = 0 /\ is = 1
              [] event.edge = "NegEdge" -> sampled.started /\ sampled.clock = 1 /\ is = 0
              [] OTHER -> TRUE

Off(x, env, K) == \E z \in Wrappers(x.spec, "DisableIff") : Meaning(z.condition, env, K) # 0

\* The view at a step, now first, before it is known whether it is a tick.
View(x, sampled, env, K) ==
    LET off == Off(x, env, K)
    IN  <<[env |-> env, dropped |-> off]>>
          \o [i \in 1..Len(sampled.ticks) |-> [sampled.ticks[i] EXCEPT !.dropped = @ \/ off]]

Sampling(body, x, sampled, env, K) ==
    LET events == ClockOf(body, x)
        view == View(x, sampled, env, K)
        all == IF Ticks(events, sampled, env) THEN view ELSE Tail(view)
    IN  [started |-> TRUE,
         clock |-> IF events = {} THEN 0 ELSE env[(CHOOSE e \in events : TRUE).signal],
         ticks |-> SubSeq(all, 1, Least(Len(all), x.back))]
=============================================================================
