-------------------------- MODULE TemporalFormula --------------------------
(***************************************************************************)
(* The formula an automaton is made of, when the property of a directive   *)
(* needs one (lib/Lowering/Formal/LTL/spot_automaton.cpp), with sequences  *)
(* as extended regular expressions (LTL/sequence_formula.cpp).  Field f is *)
(* the operator, named as the library Spot names it.  A proposition is the *)
(* expression it stands for: two names for one expression are the same here.*)
(***************************************************************************)
EXTENDS SvaFrontend

CONSTANT StarLimit      \* the most one repetition counts to: 254
ASSUME StarLimitAssumption == StarLimit \in Nat \ {0}

Formula(f, args) == [f |-> f, args |-> args, lo |-> 0, hi |-> 0, x |-> NoExpression]
Ranged(f, lo, hi, arg) == [Formula(f, <<arg>>) EXCEPT !.lo = lo, !.hi = hi]
Proposition(x) == [Formula("ap", <<>>) EXCEPT !.x = x]
Truth == Formula("tt", <<>>)
Complement(f) == Formula("Not", <<f>>)
Joined(f, parts) == IF Len(parts) = 1 THEN parts[1] ELSE Formula(f, parts)

---------------------------------------------------------------------------
(* Sequences. *)

\* How many repetitions of the limit go before a rest that is not empty.
Chunks(n) == IF n = 0 THEN 0 ELSE (n - 1) \div StarLimit
Copies(n, f) == [i \in 1..n |-> f]

RepeatRange(unit, lo, hi) ==
    LET counted == Copies(Chunks(lo), Ranged("Star", StarLimit, StarLimit, unit))
                     \o LET rest == lo - Chunks(lo) * StarLimit
                        IN  IF rest = 0 THEN <<>> ELSE <<Ranged("Star", rest, rest, unit)>>
        spare == hi - lo
        optional == Copies(Chunks(spare), Ranged("Star", 0, StarLimit, unit))
        rest == spare - Chunks(spare) * StarLimit
    IN  Joined("Concat",
            IF hi = Unbounded THEN Append(counted, Ranged("Star", 0, Unbounded, unit))
            ELSE counted \o optional
                   \o IF rest # 0 \/ counted = <<>> THEN <<Ranged("Star", 0, rest, unit)>> ELSE <<>>)

\* left is empty when there is nothing before the delay.
DelayAfter(left, right, lo, hi) ==
    LET touches == left # <<>> /\ lo = 0
        first == IF touches THEN 1 ELSE lo
        step == Len(left)
        apart == Joined("Concat",
                     left \o <<RepeatRange(Truth, first - step, IF hi = Unbounded THEN hi ELSE hi - step), right>>)
    IN  Joined("OrRat", (IF touches THEN <<Formula("Fusion", <<left[1], right>>)>> ELSE <<>>)
                          \o (IF first <= hi THEN <<apart>> ELSE <<>>))

Anything == Ranged("Star", 0, Unbounded, Truth)
SereOperator == "disjunction" :> "OrRat" @@ "conjunction" :> "AndNLM" @@ "intersection" :> "AndRat" @@
                "nonconsecutive_repeat" :> "equal" @@ "goto_repeat" :> "goto" @@ "first_match" :> "first_match"

RECURSIVE Sere(_)
SereOperation(q, parts) ==
    CASE q.kind = "delay" -> DelayAfter(<<>>, parts[1], q.minimum, q.maximum)
      [] q.kind = "concatenation" -> DelayAfter(<<parts[1]>>, parts[2], q.minimum, q.maximum)
      [] q.kind = "consecutive_repeat" -> RepeatRange(parts[1], q.minimum, q.maximum)
      [] q.kind \in {"nonconsecutive_repeat", "goto_repeat"} ->
            Ranged(SereOperator[q.kind], q.minimum, q.maximum, parts[1])
      [] q.kind = "throughout" -> Formula("AndRat", <<Ranged("Star", 0, Unbounded, parts[1]), parts[2]>>)
      [] q.kind = "within" -> Formula("AndRat", <<Formula("Concat", <<Anything, parts[1], Anything>>), parts[2]>>)
      [] q.kind \in DOMAIN SereOperator -> Formula(SereOperator[q.kind], parts)
      [] OTHER -> Formula("error", <<>>)

Sere(q) == IF q.kind = "atom" THEN Proposition(q.expression)
           ELSE SereOperation(q, [i \in 1..Len(q.parts) |-> Sere(q.parts[i])])

---------------------------------------------------------------------------
(* Properties. *)

Equality(x, label) == [SvaNode("binary", 1, <<x, label>>) EXCEPT !.op = "Equality"]

\* An always or an eventually without an end begins now.
Bounded(f, p, body) == Ranged(f, IF p.maximum = Unbounded THEN 0 ELSE p.minimum, p.maximum, body)

Branch(condition, body) == Formula("And", <<condition, body>>)

\* The alternatives of the labels, then the default one, or none.
CaseFormula(p, alternatives) ==
    LET matches == [i \in 1..Len(p.labels) |-> Proposition(Equality(p.condition, p.labels[i]))]
        unmatched == IF matches = <<>> THEN Truth ELSE Complement(Formula("Or", matches))
        chosen == [i \in 1..Len(p.labels) |-> Branch(matches[i], alternatives[i])]
    IN  Formula("Or", chosen \o CASE Len(alternatives) > Len(matches) -> <<Branch(unmatched, Last(alternatives))>>
                                  [] matches # <<>> -> <<unmatched>>
                                  [] OTHER -> <<>>)

UntilFormula(p, left, right) ==
    Formula(IF p.strong THEN "U" ELSE "W",
            <<left, IF p.inclusive THEN Formula("And", <<left, right>>) ELSE right>>)

FormulaOperation(p, args) ==
    CASE p.kind = "negation"    -> Complement(args[1])
      [] p.kind = "nexttime"    -> Ranged("X", IF p.minimum = 0 THEN 1 ELSE p.minimum, 0, args[1])
      [] p.kind = "always"      -> Bounded("G", p, args[1])
      [] p.kind = "eventually"  -> Bounded("F", p, args[1])
      [] p.kind = "conjunction" -> Formula("And", args)
      [] p.kind = "disjunction" -> Formula("Or", args)
      [] p.kind = "implication" -> Formula("Implies", args)
      [] p.kind = "iff"         -> Formula("Equiv", args)
      [] p.kind = "until"       -> UntilFormula(p, args[1], args[2])
      [] p.kind = "accept_on"   -> Formula("Or", <<Proposition(p.condition), args[1]>>)
      [] p.kind = "reject_on"   -> Branch(Complement(Proposition(p.condition)), args[1])
      [] p.kind = "conditional" ->
            Formula("Or", <<Branch(Proposition(p.condition), args[1]),
                            Branch(Complement(Proposition(p.condition)), IF Len(args) = 2 THEN args[2] ELSE Truth)>>)
      [] OTHER -> Formula("error", <<>>)

\* Mutant: the consequent always begins in the last tick of the match.
FollowsAtOnce(p, consequent) == Formula("UConcat", <<Sere(p.operands[1].tree), consequent>>)

\* After every match of the antecedent the consequent holds, from the last
\* tick of the match or from the one after it.
Follows(p, consequent) ==
    Formula("UConcat", <<Sere(p.operands[1].tree), IF p.overlapped THEN consequent ELSE Ranged("X", 1, 0, consequent)>>)

RECURSIVE LowerFormula(_)
LowerFormula(p) ==
    IF p.kind = "sequence" THEN Formula("Closure", <<Sere(p.tree)>>)
    ELSE IF p.kind = "case_property"
    THEN CaseFormula(p, [i \in 1..Len(p.alternatives) |-> LowerFormula(p.alternatives[i])])
    ELSE IF p.kind = "implication" /\ p.operands[1].kind = "sequence"
    THEN Follows(p, LowerFormula(p.operands[2]))
    ELSE FormulaOperation(p, [i \in 1..Len(p.operands) |-> LowerFormula(p.operands[i])])

\* No formula, of what is no sequence or no property of the language.
RECURSIVE Thrown(_)
Thrown(f) == f.f = "error" \/ \E k \in 1..Len(f.args) : Thrown(f.args[k])

\* What the automaton of a directive is made of.
DirectiveFormula(d) == IF d.kind = "assert" THEN Complement(LowerFormula(d.property)) ELSE LowerFormula(d.property)

-----------------------------------------------------------------------------
(***************************************************************************)
(* What a formula means to the library Spot, and what the property it was  *)
(* made of means by the rules of the language, both over infinite words:   *)
(* w has the letters of a lasso, each the set of the atoms true at a tick, *)
(* and where it loops.  A span of a sequence that begins at tick i is the  *)
(* tick after its last one: i itself when it is empty.                     *)
(*                                                                         *)
(* Spans are looked for up to a horizon.  A weak sequence holds when it    *)
(* has matched or can still match: some ticks after the horizon are free,  *)
(* an atom is true there and is not.                                       *)
(*                                                                         *)
(* A word that an abort cuts short ends in one place for all ticks that    *)
(* are not looked at any more, from the tick cut on.  Either they are free *)
(* as well, and everything holds there, or nothing holds there; a negation *)
(* exchanges the two.                                                      *)
(***************************************************************************)

CONSTANTS Horizon, Beyond       \* the last tick looked at, and the last free one

PlaceOf(w, i) == IF i <= Len(w.letters) THEN i
               ELSE w.loop + ((i - w.loop) % (Len(w.letters) - w.loop + 1))
Unseen(w, place) == place >= w.cut
Free(w, i) == i >= w.free
IsAt(w, i, atom) == atom \in w.letters[PlaceOf(w, i)]
May(w, i, atom) == i <= Beyond /\ (Free(w, i) \/ IsAt(w, i, atom))

CutAt(w, k, after) ==
    [letters |-> [j \in 1..k |-> IF j = k THEN {} ELSE w.letters[PlaceOf(w, j)]], loop |-> k,
     cut |-> k, free |-> IF after = "top" THEN k ELSE Horizon + 1]
IsCut(w) == w.cut = Len(w.letters)
Dual(w) == IF IsCut(w) THEN [w EXCEPT !.free = IF @ = w.cut THEN Horizon + 1 ELSE w.cut] ELSE w

\* Every place there is from i on, in the order they come.
Onward(w, i) == {PlaceOf(w, k) : k \in i..(i + Len(w.letters))}

Real(spans, i) == {e \in spans : e > i /\ e - 1 <= Horizon}
Whether(spans, i) == \E e \in spans : e > i

\* How often an atom may have been true from i up to e.
Counts(w, i, e, atom) ==
    LET least == Cardinality({k \in i..(e - 1) : ~Free(w, k) /\ IsAt(w, k, atom)})
    IN  least..(least + Cardinality({k \in i..(e - 1) : Free(w, k)}))
CountedWithin(w, i, e, atom, lo, hi) == \E c \in Counts(w, i, e, atom) : lo <= c /\ c <= hi

---------------------------------------------------------------------------
(* Formulas. *)

RECURSIVE Ends(_, _, _)
EndsOfAll(parts, w, i) ==
    Fold(LAMBDA from, part : UNION {Ends(part, w, k) : k \in from}, {i}, parts)

Repeated(f, w, i) ==
    LET most == IF f.hi = Unbounded THEN f.lo + Beyond ELSE f.hi
        Again(r, k) == LET now == UNION {Ends(f.args[1], w, j) : j \in r.now}
                       IN  [now |-> now, all |-> IF k < f.lo THEN {} ELSE r.all \cup now]
    IN  Fold(Again, [now |-> {i}, all |-> IF f.lo = 0 THEN {i} ELSE {}], [k \in 1..most |-> k]).all

Ends(f, w, i) ==
    CASE f.f = "tt"     -> IF i <= Beyond THEN {i + 1} ELSE {}
      [] f.f = "ap"     -> IF May(w, i, f.x) THEN {i + 1} ELSE {}
      [] f.f = "Star"   -> Repeated(f, w, i)
      [] f.f = "Concat" -> EndsOfAll(f.args, w, i)
      [] f.f = "Fusion" -> UNION {{e \in Ends(f.args[2], w, k - 1) : e >= k} : k \in Ends(f.args[1], w, i) \ {i}}
      [] f.f = "OrRat"  -> UNION {Ends(f.args[k], w, i) : k \in 1..Len(f.args)}
      [] f.f = "AndRat" -> Ends(f.args[1], w, i) \cap Ends(f.args[2], w, i)
      [] f.f = "AndNLM" -> {IF a < b THEN b ELSE a : a \in Ends(f.args[1], w, i), b \in Ends(f.args[2], w, i)}
      [] f.f = "first_match" -> LET all == Ends(f.args[1], w, i) IN {e \in all : \A k \in all : e <= k}
      [] f.f = "equal"  -> {e \in i..(Beyond + 1) : CountedWithin(w, i, e, f.args[1].x, f.lo, f.hi)}
      [] f.f = "goto"   -> {e \in i..(Beyond + 1) : IF e = i THEN f.lo = 0
                                ELSE /\ May(w, e - 1, f.args[1].x)
                                     /\ CountedWithin(w, i, e - 1, f.args[1].x, f.lo - 1, f.hi - 1)}

\* At one of the places from i on the second holds, and the first till then.
Until(i, w, First(_), Second(_)) ==
    \E k \in i..(i + Len(w.letters)) : Second(PlaceOf(w, k)) /\ \A j \in i..(k - 1) : First(PlaceOf(w, j))

RECURSIVE TrueOf(_, _, _)
TrueOf(f, w, i) ==
    LET Sub(k, j) == TrueOf(f.args[k], w, PlaceOf(w, j))
        Strong == Until(i, w, LAMBDA j : Sub(1, j), LAMBDA j : Sub(2, j))
    IN  CASE f.f = "tt"      -> TRUE
          [] f.f = "ap"      -> IsAt(w, i, f.x)
          [] f.f = "Not"     -> ~Sub(1, i)
          [] f.f = "And"     -> \A k \in 1..Len(f.args) : Sub(k, i)
          [] f.f = "Or"      -> \E k \in 1..Len(f.args) : Sub(k, i)
          [] f.f = "Implies" -> Sub(1, i) => Sub(2, i)
          [] f.f = "Equiv"   -> Sub(1, i) <=> Sub(2, i)
          [] f.f = "X"       -> Sub(1, i + f.lo)
          [] f.f = "G"       -> IF f.hi = Unbounded THEN \A j \in Onward(w, i) : Sub(1, j)
                                ELSE \A j \in f.lo..f.hi : Sub(1, i + j)
          [] f.f = "F"       -> IF f.hi = Unbounded THEN \E j \in Onward(w, i) : Sub(1, j)
                                ELSE \E j \in f.lo..f.hi : Sub(1, i + j)
          [] f.f = "U"       -> Strong
          [] f.f = "W"       -> Strong \/ \A j \in Onward(w, i) : Sub(1, j)
          [] f.f = "Closure" -> Whether(Ends(f.args[1], w, i), i)
          [] f.f = "UConcat" -> \A e \in Real(Ends(f.args[1], w, i), i) : Sub(2, e - 1)

---------------------------------------------------------------------------
(* Properties and sequences of the source. *)

Atom(x) == SvaExpression(x)
CaseLabel(x, label) == [e |-> "binary", op |-> "Equality", l |-> x, r |-> label, w |-> 1]
Repetition(x) == IF x.rep.kind = "none" THEN [x.rep EXCEPT !.kind = "Consecutive", !.min = 1, !.max = 1] ELSE x.rep

SpansOfAtom(x, w, i) ==
    LET atom == Atom(x.expr)
        r == Repetition(x)
    IN  {e \in i..(Beyond + 1) :
            CASE r.kind = "Consecutive" ->
                    r.min <= e - i /\ e - i <= r.max /\ \A k \in i..(e - 1) : May(w, k, atom)
              [] r.kind = "Nonconsecutive" -> CountedWithin(w, i, e, atom, r.min, r.max)
              [] r.kind = "GoTo" -> IF e = i THEN r.min = 0
                                    ELSE /\ May(w, e - 1, atom)
                                         /\ \E c \in Counts(w, i, e - 1, atom) : r.min <= c + 1 /\ c < r.max}

RECURSIVE Spans(_, _, _)

DelaysOf(x) == x.min..(IF x.max = Unbounded THEN Beyond ELSE x.max)

\* An element begins so many ticks after the last tick before it; with no tick
\* between, neither of the two may be empty.
SpansAfter(spans, x, w) ==
    UNION {{e \in Spans(x.seq, w, before - 1 + d) : d > 0 \/ e >= before}
             : before \in spans, d \in DelaysOf(x)}

RECURSIVE SpansOfElements(_, _, _)
SpansOfElements(elements, w, i) ==
    LET x == Last(elements)
    IN  IF Len(elements) = 1 THEN UNION {Spans(x.seq, w, i + d) : d \in DelaysOf(x)}
        ELSE LET spans == SpansOfElements(Front(elements), w, i)
             IN  SpansAfter(spans \ {i}, x, w)
                   \cup SpansAfter(spans \cap {i}, [x EXCEPT !.min = IF @ = 0 THEN 1 ELSE @], w)

Spans(x, w, i) ==
    CASE x.p = "Simple" -> SpansOfAtom(x, w, i)
      [] x.p = "SequenceConcat" -> SpansOfElements(x.elements, w, i)
      [] x.p = "FirstMatch" -> LET all == Spans(x.seq, w, i) IN {e \in all : \A k \in all : e <= k}
      [] x.p = "Binary" ->
            LET right == Spans(x.r, w, i)
            IN  CASE x.op = "And"        -> {a \in Spans(x.l, w, i) \cup right :
                                                /\ \E b \in Spans(x.l, w, i) : b <= a
                                                /\ \E b \in right : b <= a}
                  [] x.op = "Or"         -> Spans(x.l, w, i) \cup right
                  [] x.op = "Intersect"  -> Spans(x.l, w, i) \cap right
                  [] x.op = "Throughout" -> {e \in right : \A k \in i..(e - 1) : May(w, k, Atom(x.l.expr))}
                  [] x.op = "Within"     -> {e \in right : \E k \in i..e : \E b \in Spans(x.l, w, k) : b <= e}

IsSequence(x) == \/ x.p \in {"Simple", "SequenceConcat", "FirstMatch"}
                 \/ x.p = "Binary" /\ x.op \in DOMAIN SequenceKind \ {"And", "Or"}

\* The ticks a range stands for; without one, every tick from now on.
TicksOf(x, w) == IF x.min = Absent /\ x.max = Absent THEN 0..Len(w.letters) ELSE x.min..x.max

\* The spans of a sequence, none of which takes in a tick where nothing holds.
SpansIn(x, w, i) == IF IsCut(w) /\ w.free # w.cut THEN {e \in Spans(x, w, i) : e <= w.cut} ELSE Spans(x, w, i)

RECURSIVE TrueAt(_, _, _)
UnaryTrue(x, w, i) ==
    LET Then(d) == TrueAt(x.expr, w, i + d)
    IN  CASE x.op = "Not" -> ~TrueAt(x.expr, Dual(w), i)
          [] x.op \in {"NextTime", "SNextTime"} -> Then(IF x.min = Absent THEN 1 ELSE x.min)
          [] x.op \in {"Always", "SAlways"} -> \A d \in TicksOf(x, w) : Then(d)
          [] x.op \in {"Eventually", "SEventually"} -> \E d \in TicksOf(x, w) : Then(d)

BinaryTrue(x, w, i) ==
    LET Left(j) == TrueAt(x.l, w, j)
        Right(j) == TrueAt(x.r, w, j)
        Ended(j) == Right(j) /\ (x.op \in {"UntilWith", "SUntilWith"} => Left(j))
    IN  CASE x.op = "And" -> Left(i) /\ Right(i)
          [] x.op = "Or"  -> Left(i) \/ Right(i)
          [] x.op = "Iff" -> (TrueAt(x.l, Dual(w), i) => Right(i)) /\ (TrueAt(x.r, Dual(w), i) => Left(i))
          [] x.op = "Implies" -> TrueAt(x.l, Dual(w), i) => Right(i)
          [] x.op = "OverlappedImplication" -> \A e \in Real(SpansIn(x.l, Dual(w), i), i) : Right(e - 1)
          [] x.op = "NonOverlappedImplication" -> \A e \in Real(SpansIn(x.l, Dual(w), i), i) : Right(e)
          [] x.op \in {"SUntil", "SUntilWith"} -> Until(i, w, Left, Ended)
          [] x.op \in {"Until", "UntilWith"} -> Until(i, w, Left, Ended) \/ \A j \in Onward(w, i) : Left(j)

CaseTrue(x, w, i) ==
    LET Chosen(item) == \E k \in 1..Len(item.labels) : IsAt(w, i, Atom(CaseLabel(x.x, item.labels[k])))
        chosen == SelectSeq(x.items, Chosen)
    IN  IF chosen # <<>> THEN TrueAt(chosen[1].body, w, i) ELSE IsAbsent(x.default) \/ TrueAt(x.default, w, i)

\* The condition is watched from the first tick of the attempt on: when it comes,
\* the body is accepted, or rejected, unless it was decided before.
AbortTrue(x, w, i) ==
    LET comes == {k \in i..(i + Len(w.letters)) : ~Unseen(w, PlaceOf(w, k)) /\ IsAt(w, k, Atom(x.c))}
        Cut(k, after) == TrueAt(x.expr, CutAt(w, k, after), i)
    IN  IF x.action = "accept" THEN TrueAt(x.expr, w, i) \/ \E k \in comes : Cut(k, "top")
        ELSE TrueAt(x.expr, w, i) /\ \A k \in comes : Cut(k, "bottom")

TrueAt(x, w, at) ==
    LET i == PlaceOf(w, at)
    IN  IF Unseen(w, i) THEN w.free = w.cut
        ELSE CASE IsSequence(x)   -> Whether(SpansIn(x, w, i), i)
          [] x.p = "Unary"   -> UnaryTrue(x, w, i)
          [] x.p = "Binary" /\ ~IsSequence(x) -> BinaryTrue(x, w, i)
          [] x.p = "Case"    -> CaseTrue(x, w, i)
          [] x.p = "Abort"   -> AbortTrue(x, w, i)
          [] x.p = "Conditional" -> IF IsAt(w, i, Atom(x.c)) THEN TrueAt(x.t, w, i)
                                    ELSE IsAbsent(x.f) \/ TrueAt(x.f, w, i)

\* The expressions a property is made of.
RECURSIVE Atomics(_)
Atomics(x) ==
    CASE x.p = "Simple" -> {x.expr}
      [] x.p = "SequenceConcat" -> UNION {Atomics(x.elements[k].seq) : k \in 1..Len(x.elements)}
      [] x.p = "FirstMatch" -> Atomics(x.seq)
      [] x.p = "Unary"  -> Atomics(x.expr)
      [] x.p = "Binary" -> Atomics(x.l) \cup Atomics(x.r)
      [] x.p = "Abort"  -> {x.c} \cup Atomics(x.expr)
      [] x.p = "Conditional" -> {x.c} \cup Atomics(x.t) \cup (IF IsAbsent(x.f) THEN {} ELSE Atomics(x.f))
      [] x.p = "Case" ->
            UNION {Atomics(x.items[k].body) \cup {CaseLabel(x.x, l) : l \in ToSet(x.items[k].labels)}
                     : k \in 1..Len(x.items)}
              \cup (IF IsAbsent(x.default) THEN {} ELSE Atomics(x.default))

\* The words of up to so many different ticks.
Lassos(letters, most) ==
    UNION {{[letters |-> s, loop |-> k, cut |-> n + 1, free |-> Horizon + 1] : s \in [1..n -> letters], k \in 1..n} : n \in 1..most}
=============================================================================
