-------------------------- MODULE FrontendLowering --------------------------
(***************************************************************************)
(* The lowering of elaborated SystemVerilog to EIR (Lowering/Frontend).    *)
(* A semantic node is a record: field e names the kind of an expression, s *)
(* of a statement, m of a member of a body; w is the width of its type.    *)
(* A Context collects the operations of one module.  An exception is its   *)
(* field err: "unresolved" for UnresolvedValue, "throw" for any other.     *)
(***************************************************************************)
EXTENDS Eir

NoMap == [n \in {} |-> 0]
NoNode == [s |-> "none"]
Missing(v) == v.w = 0

NewContext(subroutines) ==
    [ops |-> <<>>, values |-> NoMap, types |-> NoMap, memories |-> NoMap,
     states |-> {}, declared |-> {}, pending |-> NoMap, next |-> 0,
     ret |-> NoValue, lref |-> NoValue, moved |-> FALSE, err |-> "", subs |-> subroutines]

Value(o, w) == [o |-> o, w |-> w]

Elem(n, i) == n \o "[" \o ToString(i) \o "]"

Temporary(c) == ToString(c.next)
EmitAt(c, o, args, w, at) ==
    Give([c EXCEPT !.ops = Append(@, [Operation(o, <<Temporary(c)>>, w, args) EXCEPT !.at = at]),
                   !.next = @ + 1],
         Value(Val(Temporary(c)), w))
Emit(c, o, args, w) == EmitAt(c, o, args, w, 0)
Effect(c, op) == [c EXCEPT !.ops = Append(@, op)]

Read(c, n, w) ==
    IF n \in c.states
    THEN Give([c EXCEPT !.ops = Append(@, StateRead(Temporary(c), w, n)), !.next = @ + 1],
              Value(Val(Temporary(c)), w))
    ELSE IF n \in DOMAIN c.values THEN Give(c, c.values[n])
    ELSE IF n \in DOMAIN c.types THEN Refuse(c, "unresolved")
    ELSE Give(c, Value(Val(n), w))

\* The value of a target in the map an assignment is collected in.
Collected(c, map, n, w) == IF n \in DOMAIN map THEN Give(c, map[n]) ELSE Read(c, n, w)

Convert(c, v, w) ==
    IF v.w = w THEN Give(c, v) ELSE Emit(c, IF v.w < w THEN "zext" ELSE "trunc", <<v.o>>, w)

Widen(c, v, w) == IF v.w < w THEN Emit(c, "zext", <<v.o>>, w) ELSE Give(c, v)

\* Mutant: a nested condition forgets the one around it.
ConjunctionInner(c, enable, v) == Give(c, v)

Conjunction(c, enable, v) ==
    IF Missing(enable) THEN Give(c, v) ELSE Emit(c, "and", <<enable.o, v.o>>, 1)

Select(c, enable, old, new, w) ==
    IF Missing(enable) THEN Give(c, new) ELSE Emit(c, "mux", <<enable.o, old.o, new.o>>, w)

\* Left to right, the parts of a wide value from its most significant one.
Join(c, parts) ==
    Fold(LAMBDA r, v : Emit(r.c, "concat", <<r.v.o, v.o>>, r.v.w + v.w),
             Give(c, Head(parts)), Tail(parts))

\* The digits of a decimal number read as hexadecimal ones: the literals that
\* are printed with to_string behind 0x.
AsHex(n) == (n \div 100) * 256 + ((n \div 10) % 10) * 16 + (n % 10)

PowersOfTwo == {2^i : i \in 0..16}
Exponent(n) == CHOOSE i \in 0..16 : 2^i = n
Least(a, b) == IF a < b THEN a ELSE b

---------------------------------------------------------------------------
(***************************************************************************)
(* Types, as the elaborated tree names them: a word of the language with   *)
(* its packed ranges, a name given to a type, or a packed struct; an       *)
(* enumeration is a name for the type below it.  A lowered type has a      *)
(* width, and may hold x and z or not.                                     *)
(***************************************************************************)
AliasTarget(aliases, t) == IF t.t = "word" /\ t.n \in DOMAIN aliases THEN aliases[t.n] ELSE t

\* A name declared again has the type it was given last.
RegisterTypeAliases(declared) == Fold(LAMBDA a, x : (x.n :> x.target) @@ a, NoMap, declared)

FourStateWords == {"logic", "integer", "time"}
RangeWidth(r) == IF r[1] > r[2] THEN r[1] - r[2] + 1 ELSE r[2] - r[1] + 1

\* Of several packed ranges the first one counts.
WordWidth(t) == CASE t.ranges # <<>> -> RangeWidth(t.ranges[1])
                  [] t.ranges = <<>> /\ t.n \in {"int", "integer"} -> 32
                  [] t.ranges = <<>> /\ t.n \in {"longint", "time"} -> 64
                  [] OTHER -> 1

\* The fields are found through one name, not through a name for a name.
RECURSIVE LowerType(_, _), PackedMembers(_, _)
PackedMembers(aliases, t) ==
    LET packed == AliasTarget(aliases, t)
    IN  IF packed.t # "struct" THEN <<>>
        ELSE [i \in 1..Len(packed.fields) |->
                 [n |-> packed.fields[i].n, w |-> LowerType(aliases, packed.fields[i].type).w]]

PackedIsFourState(aliases, t) ==
    LET packed == AliasTarget(aliases, t)
    IN  packed.t = "struct" /\ \E f \in ToSet(packed.fields) : LowerType(aliases, f.type).four

LowerType(aliases, t) ==
    CASE AliasTarget(aliases, t) # t -> LowerType(aliases, AliasTarget(aliases, t))
      [] t.t = "struct" -> [four |-> PackedIsFourState(aliases, t),
                            w |-> Fold(LAMBDA a, f : a + f.w, 0, PackedMembers(aliases, t))]
      [] OTHER -> [four |-> t.n \in FourStateWords, w |-> WordWidth(t)]

\* Packed members are listed from the most significant one.
MemberOffset(fields, name) ==
    LET i == CHOOSE j \in 1..Len(fields) : fields[j].n = name
    IN  Fold(LAMBDA a, f : a + f.w, 0, SubSeq(fields, i + 1, Len(fields)))

---------------------------------------------------------------------------
SameOpcode ==
    "BinaryAnd" :> "and" @@ "LogicalAnd" :> "and" @@ "BinaryOr" :> "or" @@
    "LogicalOr" :> "or" @@ "BinaryXor" :> "xor" @@ "Add" :> "add" @@
    "Subtract" :> "sub" @@ "Multiply" :> "mul" @@ "LogicalShiftLeft" :> "shl" @@
    "LogicalShiftRight" :> "lshr" @@ "ArithmeticShiftRight" :> "ashr" @@
    "Equality" :> "eq" @@ "Inequality" :> "ne" @@ "CaseEquality" :> "eq" @@
    "CaseInequality" :> "ne" @@ "LessThan" :> "slt" @@ "LessThanEqual" :> "sle"

Binary(c, n, l, r) ==
    CASE n.op = "GreaterThan" -> Emit(c, "slt", <<r.o, l.o>>, n.w)
      [] n.op = "GreaterThanEqual" -> Emit(c, "sle", <<r.o, l.o>>, n.w)
      [] n.op \in {"Mod", "Divide"} ->
            IF ~IsLit(r.o) \/ r.o.b \notin PowersOfTwo THEN Refuse(c, "throw")
            ELSE IF n.op = "Mod"
                 THEN Emit(c, "and", <<l.o, Lit(AsHex(r.o.b - 1), l.w)>>, n.w)
                 ELSE Emit(c, "lshr", <<l.o, Lit(AsHex(Exponent(r.o.b)), r.w)>>, n.w)
      [] n.op \in DOMAIN SameOpcode -> Emit(c, SameOpcode[n.op], <<l.o, r.o>>, n.w)
      [] OTHER -> Refuse(c, "throw")

\* The start of an indexed part select, as wide as the value selected from.
IndexedStart(c, n, left, wide) ==
    On(IF n.sel = "IndexedDown"
       THEN Emit(c, "sub", <<left.o, Lit(AsHex(n.w - 1), left.w)>>, left.w)
       ELSE Give(c, left),
       LAMBDA start : Convert(start.c, start.v, wide))

(***************************************************************************)
(* Expressions, statements and assignments call each other: Lower is where *)
(* the recursion goes through, for a job of one of the three kinds.        *)
(***************************************************************************)
RECURSIVE Lower(_, _)

Expression(c, n) == Lower(c, [j |-> "expression", n |-> n])
Statement(c, s, enable, seq) == Lower(c, [j |-> "statement", s |-> s, enable |-> enable, seq |-> seq])
Assign(c, t, v, enable, seq) == Lower(c, [j |-> "assign", t |-> t, v |-> v, enable |-> enable, seq |-> seq])

Expressions(c, ns) ==
    LET Next(r, n) == On(Expression(r.c, n), LAMBDA e : Give(e.c, Append(r.v, e.v)))
    IN  Each(Give(c, <<>>), Next, ns)

\* The elements of a memory, highest index first; what is pending goes first.
Elements(c, n, w) ==
    LET At(r, i) == On(Collected(r.c, r.c.pending, Elem(n, c.memories[n] - i), w),
                       LAMBDA e : Give(e.c, Append(r.v, e.v)))
    IN  Each(Give(c, <<>>), At, [i \in 1..c.memories[n] |-> i])

Typed(c, n) == IF n.hier /\ n.n \notin DOMAIN c.types THEN [c EXCEPT !.types = (n.n :> n.w) @@ @] ELSE c

NameOf(c, n) ==
    IF n.n \in DOMAIN c.memories
    THEN On(Elements(c, n.n, Typed(c, n).types[n.n]), LAMBDA r : Join(r.c, r.v))
    ELSE Read(Typed(c, n), n.n, n.w)

\* Arguments are evaluated one by one among the formals already bound; what is
\* bound is unbound on return, and stays bound when an exception passes.
BindArguments(c, f, args) ==
    LET Bind(r, i) ==
            On(Expression([r.c EXCEPT !.types = (f.formals[i].n :> f.formals[i].w) @@ @], args[i]),
               LAMBDA q : Done([q.c EXCEPT !.values = (f.formals[i].n :> q.v) @@ @]))
    IN  Each(Done(c), Bind, [i \in 1..Len(args) |-> i])

Returned(c, body) ==
    IF Missing(body.c.ret) THEN Refuse(body.c, "throw")
    ELSE Give([body.c EXCEPT !.values = c.values, !.types = c.types, !.ret = c.ret, !.moved = TRUE],
              body.c.ret)

Call(c, n) ==
    IF n.f \notin DOMAIN c.subs \/ Len(n.args) # Len(c.subs[n.f].formals) THEN Refuse(c, "throw")
    ELSE On(BindArguments(c, c.subs[n.f], n.args), LAMBDA r :
         On(Statement([r.c EXCEPT !.ret = NoValue], c.subs[n.f].body, NoValue, FALSE), LAMBDA body :
            Returned(c, body)))

\* A member of an inside list matches a range or a value.
InsideList(c, n, subject) ==
    LET InRange(r, lo, hi) ==
            On(Emit(r.c, "slt", <<subject.o, lo.o>>, 1), LAMBDA below :
            On(Emit(below.c, "slt", <<hi.o, subject.o>>, 1), LAMBDA above :
            On(Emit(above.c, "or", <<below.v.o, above.v.o>>, 1), LAMBDA outside :
               Emit(outside.c, "not", <<outside.v.o>>, 1))))
        Match(r, item) ==
            On(Expressions(r.c, item), LAMBDA q :
            On(IF Len(item) = 2 THEN InRange(q, q.v[1], q.v[2])
               ELSE Emit(q.c, "eq", <<subject.o, q.v[1].o>>, 1), LAMBDA m :
               Emit(m.c, "or", <<r.v.o, m.v.o>>, 1)))
    IN  Each(Give(c, Value(Lit(0, 1), 1)), Match, n.list)

\* A dynamic index into a memory selects among all its elements.
ElementOf(c, n, selector) ==
    LET memory == n.base.n
        At(r, i) == On(Read(r.c, Elem(memory, i), n.w), LAMBDA e :
                    On(Emit(e.c, "eq", <<selector.o, Lit(i, selector.w)>>, 1), LAMBDA same :
                       Emit(same.c, "mux", <<same.v.o, r.v.o, e.v.o>>, n.w)))
    IN  IF IsLit(selector.o)
        THEN IF selector.o.b >= c.memories[memory] THEN Refuse(c, "throw")
             ELSE Read(c, Elem(memory, selector.o.b), n.w)
        ELSE Each(Read(c, Elem(memory, 0), n.w), At, [i \in 1..(c.memories[memory] - 1) |-> i])

\* w bits from a place that is not known yet.
SliceAt(c, v, start, w) ==
    On(Emit(c, "lshr", <<v.o, start.o>>, v.w), LAMBDA shifted :
       EmitAt(shifted.c, "slice", <<shifted.v.o>>, w, 0))

BitOf(c, n, selector) ==
    On(Expression(c, n.base), LAMBDA r :
       IF IsLit(selector.o) THEN EmitAt(r.c, "slice", <<r.v.o>>, n.w, selector.o.b)
       ELSE On(Widen(r.c, selector, r.v.w), LAMBDA start : SliceAt(start.c, r.v, start.v, n.w)))

IsMemory(c, n) == n.base.e = "name" /\ n.base.n \in DOMAIN c.memories

RangeOf(c, n, v) ==
    IF n.sel # "Simple"
    THEN On(IndexedStart(c, n, v[2], v[1].w), LAMBDA start : SliceAt(start.c, v[1], start.v, n.w))
    ELSE IF ~IsLit(v[2].o) \/ ~IsLit(v[3].o) THEN Refuse(c, "throw")
    ELSE EmitAt(c, "slice", <<v[1].o>>, n.w, Least(v[2].o.b, v[3].o.b))

LowerExpression(c, n) ==
    CASE n.e = "lref"    -> IF Missing(c.lref) THEN Refuse(c, "throw") ELSE Give(c, c.lref)
      [] n.e = "const"   -> Give(c, Value(Lit(n.v, n.w), n.w))
      [] n.e = "unknown" -> Give(c, Value(Unknown(n.w), n.w))
      [] n.e = "name"    -> NameOf(c, n)
      [] n.e = "member"  -> On(Expression(c, n.base), LAMBDA r :
                               EmitAt(r.c, "slice", <<r.v.o>>, n.w, MemberOffset(n.fields, n.name)))
      [] n.e = "call"    -> Call(c, n)
      [] n.e = "inside"  -> On(Expression(c, n.arg), LAMBDA r : InsideList(r.c, n, r.v))
      [] n.e = "conv"    -> On(Expression(c, n.arg), LAMBDA r : Convert(r.c, r.v, n.w))
      [] n.e = "unary"   -> On(Expression(c, n.arg), LAMBDA r :
                               IF n.op \in {"LogicalNot", "BitwiseNot"}
                               THEN Emit(r.c, "not", <<r.v.o>>, n.w) ELSE Refuse(r.c, "throw"))
      [] n.e = "binary"  -> On(Expressions(c, <<n.l, n.r>>), LAMBDA r : Binary(r.c, n, r.v[1], r.v[2]))
      [] n.e = "cond"    -> On(Expressions(c, <<n.c, n.t, n.f>>), LAMBDA r :
                               Emit(r.c, "mux", <<r.v[1].o, r.v[3].o, r.v[2].o>>, n.w))
      [] n.e = "concat"  -> On(Expressions(c, n.args), LAMBDA r : Join(r.c, r.v))
      [] n.e = "elem"    -> On(Expression(c, n.at), LAMBDA r :
                               IF IsMemory(c, n) THEN ElementOf(r.c, n, r.v) ELSE BitOf(r.c, n, r.v))
      [] n.e = "range"   -> On(Expressions(c, <<n.base, n.l, n.r>>), LAMBDA r : RangeOf(r.c, n, r.v))
      [] OTHER           -> Refuse(c, "throw")

---------------------------------------------------------------------------
(* Assignments: into pending for a non-blocking one, else into values. *)

Store(c, n, v, seq) == IF seq THEN [c EXCEPT !.pending = (n :> v) @@ @]
                       ELSE [c EXCEPT !.values = (n :> v) @@ @]
Collection(c, seq) == IF seq THEN c.pending ELSE c.values

\* name := enable ? v : what it was.  Without an enable a scalar is not read.
Update(c, n, v, w, enable, seq, reads) ==
    IF Missing(enable) /\ ~reads THEN Done(Store(c, n, v, seq))
    ELSE On(Collected(c, Collection(c, seq), n, w), LAMBDA old :
         On(Select(old.c, enable, old.v, v, w), LAMBDA new : Done(Store(new.c, n, new.v, seq))))

\* value with the bits from start on replaced; the parts around them are kept.
Replaced(c, old, v, start) ==
    LET Below(k) == IF start = 0 THEN Give(k, v)
                    ELSE On(EmitAt(k, "slice", <<old.o>>, start, 0), LAMBDA kept :
                            Emit(kept.c, "concat", <<v.o, kept.v.o>>, v.w + start))
        end == start + v.w
    IN  On(Below(c), LAMBDA low :
           IF end >= old.w THEN low
           ELSE On(EmitAt(low.c, "slice", <<old.o>>, old.w - end, end), LAMBDA kept :
                   Emit(kept.c, "concat", <<kept.v.o, low.v.o>>, old.w)))

AssignPart(c, t, v, start, old, enable, seq) ==
    On(Convert(c, v, t.w), LAMBDA fitted :
    On(Replaced(fitted.c, old, fitted.v, start), LAMBDA new :
       Assign(new.c, t.base, new.v, enable, seq)))

\* old with the bits of mask, moved to start, replaced by those of v.
Masked(c, old, v, mask, start) ==
    On(Emit(c, "shl", <<v.o, start.o>>, old.w), LAMBDA moved :
    On(Emit(moved.c, "shl", <<mask.o, start.o>>, old.w), LAMBDA hole :
    On(Emit(hole.c, "not", <<hole.v.o>>, old.w), LAMBDA inverse :
    On(Emit(inverse.c, "and", <<old.o, inverse.v.o>>, old.w), LAMBDA kept :
       Emit(kept.c, "or", <<kept.v.o, moved.v.o>>, old.w)))))

\* A part select is replaced under a mask that is shifted to its place.
AssignRange(c, t, v, parts, enable, seq) ==
    LET old == parts[1]
        Start == IF t.sel # "Simple" THEN IndexedStart(c, t, parts[2], old.w)
                 ELSE Give(c, Value(Lit(Least(parts[2].o.b, parts[3].o.b), old.w), old.w))
    IN  IF t.sel = "Simple" /\ (~IsLit(parts[2].o) \/ ~IsLit(parts[3].o)) THEN Refuse(c, "throw")
        ELSE On(Start, LAMBDA start :
             On(Convert(start.c, v, t.w), LAMBDA fitted :
             On(Widen(fitted.c, fitted.v, old.w), LAMBDA wide :
             On(Emit(wide.c, "not", <<Lit(0, t.w)>>, t.w), LAMBDA ones :
             On(Widen(ones.c, ones.v, old.w), LAMBDA mask :
             On(Masked(mask.c, old, wide.v, mask.v, start.v), LAMBDA new :
                Assign(new.c, t.base, new.v, enable, seq)))))))

\* A dynamic index writes every element, under a comparison with its index.
AssignElement(c, t, v, enable, seq) ==
    LET memory == t.base.n
        At(r, i, selector, item) ==
            On(Collected(r.c, Collection(r.c, seq), Elem(memory, i), item.w), LAMBDA old :
            On(Emit(old.c, "eq", <<selector.o, Lit(i, selector.w)>>, 1), LAMBDA same :
            On(Conjunction(same.c, enable, same.v), LAMBDA active :
            On(Select(active.c, active.v, old.v, item, item.w), LAMBDA new :
               Done(Store(new.c, Elem(memory, i), new.v, seq))))))
    IN  On(Convert(c, v, c.types[memory]), LAMBDA fitted :
        On(Expression(fitted.c, t.at), LAMBDA selector :
           IF ~IsLit(selector.v.o)
           THEN Each(Done(selector.c), LAMBDA r, i : At(r, i, selector.v, fitted.v),
                     [i \in 1..c.memories[memory] |-> i - 1])
           ELSE IF selector.v.o.b >= c.memories[memory] THEN Refuse(selector.c, "throw")
           ELSE Update(selector.c, Elem(memory, selector.v.o.b), fitted.v, fitted.v.w, enable, seq, TRUE)))

\* A whole memory is assigned element by element, each from its slice.
AssignMemory(c, n, v, enable, seq) ==
    LET w == c.types[n]
        At(r, i) == On(IF v.w = w THEN Give(r.c, v) ELSE EmitAt(r.c, "slice", <<v.o>>, w, (i - 1) * w),
                       LAMBDA item : Update(item.c, Elem(n, i - 1), item.v, w, enable, seq, TRUE))
    IN  Each(Done(c), At, [i \in 1..c.memories[n] |-> i])

\* The last operand of a concatenation takes the lowest bits.
AssignParts(c, t, v, enable, seq) ==
    LET Below(i) == Fold(LAMBDA a, p : a + p.w, 0, SubSeq(t.args, i + 1, Len(t.args)))
        At(r, i) == On(EmitAt(r.c, "slice", <<v.o>>, t.args[i].w, Below(i)), LAMBDA part :
                       Assign(part.c, t.args[i], part.v, enable, seq))
    IN  Each(Done(c), At, Reverse([i \in 1..Len(t.args) |-> i]))

AssignName(c, t, v, enable, seq) ==
    IF t.n \in DOMAIN c.memories THEN AssignMemory(c, t.n, v, enable, seq)
    ELSE On(Convert(c, v, c.types[t.n]), LAMBDA fitted :
            Update(fitted.c, t.n, fitted.v, fitted.v.w, enable, seq, seq))

LowerAssign(c, t, v, enable, seq) ==
    CASE t.e = "concat" -> AssignParts(c, t, v, enable, seq)
      [] t.e = "member" -> On(Expression(c, t.base), LAMBDA old :
                              AssignPart(old.c, t, v, MemberOffset(t.fields, t.name), old.v, enable, seq))
      [] t.e = "range"  -> On(Expressions(c, IF t.sel = "Simple" THEN <<t.base, t.l, t.r>> ELSE <<t.base, t.l>>),
                              LAMBDA parts : AssignRange(parts.c, t, v, parts.v, enable, seq))
      [] t.e = "elem" /\ IsMemory(c, t)  -> AssignElement(c, t, v, enable, seq)
      [] t.e = "elem" /\ ~IsMemory(c, t) ->
            On(Expressions(c, <<t.base, t.at>>), LAMBDA parts :
               IF ~IsLit(parts.v[2].o) THEN Refuse(parts.c, "throw")
               ELSE AssignPart(parts.c, t, v, parts.v[2].o.b, parts.v[1], enable, seq))
      [] t.e = "name"   -> AssignName(Typed(c, t), t, v, enable, seq)
      [] OTHER          -> Refuse(c, "throw")

---------------------------------------------------------------------------
(* Statements: enable is the condition under which the statement runs. *)

Statements(c, ss, enable, seq) ==
    Each(Done(c), LAMBDA r, s : Statement(r.c, s, enable, seq), ss)

\* The left side is evaluated first, for a compound assignment to refer to.
AssignmentStatement(c, s, enable, seq) ==
    LET Old(left) ==
            IF left.c.err = "unresolved" THEN Done([left.c EXCEPT !.lref = NoValue, !.err = ""])
            ELSE On(left, LAMBDA q : Done([q.c EXCEPT !.lref = q.v]))
    IN  On(Old(Expression(c, s.l)), LAMBDA left :
        On(Expression(left.c, s.r), LAMBDA right :
           Assign([right.c EXCEPT !.lref = c.lref], s.l, right.v, enable, seq /\ s.nb)))

Guarded(c, enable, v, branch, seq) ==
    On(Conjunction(c, enable, v), LAMBDA active : Statement(active.c, branch, active.v, seq))

\* Outside a clocked block the false branch is the default and is not guarded.
ConditionalStatement(c, s, enable, seq) ==
    On(Expression(c, s.c), LAMBDA condition :
       IF ~seq /\ s.f # NoNode
       THEN On(Statement(condition.c, s.f, enable, FALSE), LAMBDA default :
               Guarded(default.c, enable, condition.v, s.t, seq))
       ELSE On(Guarded(condition.c, enable, condition.v, s.t, seq), LAMBDA true :
               IF s.f = NoNode THEN true
               ELSE On(Emit(true.c, "not", <<condition.v.o>>, 1), LAMBDA inverted :
                       Guarded(inverted.c, enable, inverted.v, s.f, seq))))

\* Every item is guarded by its own labels; a later one overrides an earlier.
CaseStatement(c, s, enable, seq) ==
    LET False == Value(Lit(0, 1), 1)
        Label(r, x, selector) ==
            On(Expression(r.c, x), LAMBDA q :
            On(Emit(q.c, "eq", <<selector.o, q.v.o>>, 1), LAMBDA same :
               Emit(same.c, "or", <<r.v.o, same.v.o>>, 1)))
        Item(r, item, selector) ==
            On(Each(Give(r.c, False), LAMBDA q, x : Label(q, x, selector), item.labels), LAMBDA match :
            On(Emit(match.c, "or", <<r.v.o, match.v.o>>, 1), LAMBDA matched :
            On(Guarded(matched.c, enable, match.v, item.stmt, seq), LAMBDA run :
               Give(run.c, matched.v))))
    IN  On(Expression(c, s.x), LAMBDA selector :
        On(IF ~seq /\ s.default # NoNode THEN Statement(selector.c, s.default, enable, FALSE)
           ELSE selector, LAMBDA start :
        On(Each(Give(start.c, False), LAMBDA r, item : Item(r, item, selector.v), s.items), LAMBDA items :
           IF ~seq \/ s.default = NoNode THEN items
           ELSE On(Emit(items.c, "not", <<items.v.o>>, 1), LAMBDA unmatched :
                   Guarded(unmatched.c, enable, unmatched.v, s.default, seq)))))

Compares(op, current, bound) ==
    CASE op = "LessThan"         -> current < bound
      [] op = "LessThanEqual"    -> current <= bound
      [] op = "GreaterThan"      -> current > bound
      [] op = "GreaterThanEqual" -> current >= bound
      [] op = "Inequality"       -> current # bound

\* The loop variable is unsigned and wraps below zero.
Wrapped == 2^30
Stepped(s, b) == IF s.step = "increment" THEN b + 1 ELSE IF b = 0 THEN Wrapped ELSE b - 1

MostTurns == 65536

\* A loop is unrolled, one turn at a time.  The place of its variable was looked
\* up before the body; a call in the body replaces the map, and the place is gone.
LoopTurn(c, s, enable, seq) ==
    LET current == c.values[s.var]
    IN  IF s.turn = MostTurns \/ ~IsLit(current.o) THEN Refuse(c, "throw")
        ELSE IF ~Compares(s.op, current.o.b, s.limit) THEN Done(c)
        ELSE On(Statement([c EXCEPT !.moved = FALSE], s.body, enable, seq), LAMBDA r :
                IF r.c.moved THEN Refuse(r.c, "undefined")
                ELSE Statement([r.c EXCEPT !.values[s.var] =
                                   Value(Lit(Stepped(s, current.o.b), current.w), current.w)],
                               [s EXCEPT !.turn = @ + 1], enable, seq))

LoopStatement(c, s, enable, seq) ==
    IF s.var \notin DOMAIN c.values THEN Refuse(c, "throw")
    ELSE On(Expression(c, s.bound), LAMBDA bound :
            IF ~IsLit(bound.v.o) THEN Refuse(bound.c, "throw")
            ELSE Statement(bound.c, [s EXCEPT !.s = "turn"] @@ [limit |-> bound.v.o.b, turn |-> 0], enable, seq))

DeclarationStatement(c, s) ==
    LET typed == [c EXCEPT !.types = (s.n :> s.w) @@ @]
    IN  On(IF s.init = NoNode THEN Give(typed, Value(Lit(0, s.w), s.w)) ELSE Expression(typed, s.init),
           LAMBDA initial : Done(Store(initial.c, s.n, initial.v, FALSE)))

ReturnStatement(c, s) == On(Expression(c, s.x), LAMBDA r : Done([r.c EXCEPT !.ret = r.v]))

LowerStatement(c, s, enable, seq) ==
    CASE s.s = "list"    -> Statements(c, s.items, enable, seq)
      [] s.s = "declare" -> DeclarationStatement(c, s)
      [] s.s = "return"  -> ReturnStatement(c, s)
      [] s.s = "for"     -> LoopStatement(c, s, enable, seq)
      [] s.s = "turn"    -> LoopTurn(c, s, enable, seq)
      [] s.s = "assign"  -> AssignmentStatement(c, s, enable, seq)
      [] s.s = "if"      -> ConditionalStatement(c, s, enable, seq)
      [] s.s = "case"    -> CaseStatement(c, s, enable, seq)
      [] s.s \in {"call", "empty"} -> Done(c)
      [] OTHER -> Refuse(c, "throw")

Lower(c, job) ==
    CASE job.j = "expression" -> LowerExpression(c, job.n)
      [] job.j = "assign"     -> LowerAssign(c, job.t, job.v, job.enable, job.seq)
      [] job.j = "statement"  -> LowerStatement(c, job.s, job.enable, job.seq)
=============================================================================
