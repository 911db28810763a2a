-------------------------------- MODULE Eir --------------------------------
(***************************************************************************)
(* EIR: a program is a sequence of modules, the last one its root.  A      *)
(* module has inputs, results and states (sequences of [n, w]) and a list  *)
(* of operations in static single assignment form.  Types are widths: the  *)
(* values are two-valued.                                                  *)
(***************************************************************************)
EXTENDS Integers, FiniteSets, Bitwise, TLC, SequencesExt

---------------------------------------------------------------------------
(***************************************************************************)
(* Two-valued machine words: a value of width w is a number below 2^w.     *)
(* The operators give the EIR operations their meaning; BTOR2 terms and    *)
(* the source language are read with the same operators.                   *)
(***************************************************************************)

\* op(...op(op(base, s[1]), s[2])..., s[n]): FoldLeft, by halves.  A choice from
\* one value has TLC know the first half before it takes up the second.
Fold(op(_, _), base, s) ==
    LET Walk(acc, lo, hi) == LET f[i \in (lo - 1)..hi] == IF i < lo THEN acc ELSE op(f[i - 1], s[i]) IN f[hi]
        RECURSIVE Over(_, _, _)
        Over(acc, lo, hi) ==
            IF hi - lo < 6 THEN Walk(acc, lo, hi)
            ELSE LET mid == (lo + hi) \div 2
                 IN  CHOOSE all \in {Over(half, mid + 1, hi) : half \in {Over(acc, lo, mid)}} : TRUE
    IN  Over(base, 1, Len(s))

Low(x, w) == x % (2^w)

Ones(w) == 2^w - 1

Bit(b) == IF b THEN 1 ELSE 0

Signed(x, w) == IF x >= 2^(w - 1) THEN x - 2^w ELSE x

\* Shifts by the width or more leave nothing (the sign, for an arithmetic one).
ShiftLeft(x, n, w) == IF n >= w THEN 0 ELSE Low(x * 2^n, w)
ShiftRight(x, n, w) == IF n >= w THEN 0 ELSE x \div 2^n
ShiftSigned(x, n, w) == Low(Signed(x, w) \div 2^(IF n >= w THEN w ELSE n), w)

OnesOf(x, w) == {i \in 0..(w - 1) : (x \div 2^i) % 2 = 1}

Slice(x, start, w) == Low(ShiftRight(x, start, 31), w)

Concat(high, low, lowWidth) == high * 2^lowWidth + low

(***************************************************************************)
(* The value of operation o with a result of width w, operands v of widths *)
(* ws, and a start position at (for slice).  The select operand of mux     *)
(* comes first, then the value for 0, then the value for 1.                *)
(***************************************************************************)
Apply(o, w, v, ws, at) ==
    CASE o = "and"    -> Low(v[1] & v[2], w)
      [] o = "or"     -> Low(v[1] | v[2], w)
      [] o = "xor"    -> Low(v[1] ^^ v[2], w)
      [] o = "not"    -> Ones(w) - Low(v[1], w)
      [] o = "mux"    -> Low(IF v[1] = 0 THEN v[2] ELSE v[3], w)
      [] o = "add"    -> Low(v[1] + v[2], w)
      [] o = "sub"    -> Low(v[1] - v[2], w)
      [] o = "mul"    -> Low(v[1] * v[2], w)
      [] o = "shl"    -> ShiftLeft(Low(v[1], w), v[2], w)
      [] o = "lshr"   -> Low(ShiftRight(v[1], v[2], ws[1]), w)
      [] o = "ashr"   -> Low(ShiftSigned(v[1], v[2], ws[1]), w)
      [] o = "eq"     -> Bit(v[1] = v[2])
      [] o = "ne"     -> Bit(v[1] # v[2])
      [] o = "slt"    -> Bit(Signed(v[1], ws[1]) < Signed(v[2], ws[2]))
      [] o = "sle"    -> Bit(Signed(v[1], ws[1]) <= Signed(v[2], ws[2]))
      [] o = "ult"    -> Bit(v[1] < v[2])
      [] o = "ule"    -> Bit(v[1] <= v[2])
      [] o = "concat" -> Low(Concat(v[1], v[2], ws[2]), w)
      [] o = "slice"  -> Slice(v[1], at, w)
      [] o = "sext"   -> Low(Signed(v[1], ws[1]), w)
      [] o \in {"zext", "trunc"} -> Low(v[1], w)
      [] o = "redand" -> Bit(v[1] = Ones(ws[1]))
      [] o = "redor"  -> Bit(v[1] # 0)
      [] o = "redxor" -> Cardinality(OnesOf(v[1], ws[1])) % 2

---------------------------------------------------------------------------
\* Operands: an SSA value, a literal, an unknown literal, a deferred input.
Val(n) == [k |-> "val", n |-> n]
Lit(b, w) == [k |-> "lit", b |-> b, w |-> w]
Unknown(w) == [k |-> "x", w |-> w]
Deferred(n) == [k |-> "deferred", n |-> n]
IsVal(o) == o.k = "val"
IsLit(o) == o.k = "lit"

\* An operation; at is the start of a slice, state the @name of a state
\* operation, inst and target the names of an instance.
Operation(o, res, w, args) ==
    [op |-> o, res |-> res, w |-> w, args |-> args, at |-> 0,
     state |-> "", inst |-> "", target |-> ""]
StateRead(res, w, s) == [Operation("state_read", <<res>>, w, <<>>) EXCEPT !.state = s]
StateWrite(s, a) == [Operation("state_write", <<>>, 0, <<a>>) EXCEPT !.state = s]
Instance(inst, target, res, args) ==
    [Operation("instance", res, 0, args) EXCEPT !.inst = inst, !.target = target]
Yield(args) == Operation("yield", <<>>, 0, args)

Root(p) == Last(p)
Named(p, n) == p[CHOOSE i \in 1..Len(p) : p[i].name = n]
NamesOf(decls) == [i \in 1..Len(decls) |-> decls[i].n]

(***************************************************************************)
(* Passes over a program carry a context c, whose field err is "" until    *)
(* something is thrown; a function of theirs gives the context and a value.*)
(***************************************************************************)
NoValue == [o |-> Unknown(0), w |-> 0]
Give(c, v) == [c |-> c, v |-> v]
Refuse(c, error) == [c |-> [c EXCEPT !.err = error], v |-> NoValue]
Done(c) == Give(c, NoValue)
On(r, Next(_)) == IF r.c.err = "" THEN Next(r) ELSE r
Each(r, Step(_, _), s) == Fold(LAMBDA q, x : IF q.c.err = "" THEN Step(q, x) ELSE q, r, s)

Known == {"and", "or", "not", "xor", "mux", "redand", "redor", "redxor", "add",
          "sub", "mul", "shl", "lshr", "ashr", "eq", "ne", "slt", "sle", "ult",
          "ule", "slice", "concat", "zext", "sext", "trunc", "state_read",
          "state_write", "import_read", "export_write", "instance", "yield"}

\* The values an operation uses: what the verifier finds behind a % sign.
Uses(o) == {o.args[i].n : i \in {j \in 1..Len(o.args) : IsVal(o.args[j])}}
Defines(ops) == UNION {ToSet(ops[i].res) : i \in 1..Len(ops)}
NoRepeats(s) == Cardinality(ToSet(s)) = Len(s)

(***************************************************************************)
(* What verify() lets pass.  Every value is defined before it is used,     *)
(* except that an instance may use a value of any operation of its module. *)
(***************************************************************************)
VerifiedModule(p, m) ==
    LET inputs == ToSet(NamesOf(m.inputs))
        DefinedAt(i) == inputs \cup Defines(SubSeq(m.ops, 1, i - 1))
        results == FlattenSeq([i \in 1..Len(m.ops) |-> m.ops[i].res])
    IN  /\ m.name # ""
        /\ NoRepeats(NamesOf(m.inputs))
        /\ NoRepeats(NamesOf(m.states))
        /\ NoRepeats(NamesOf(m.inputs) \o results)
        /\ \A i \in 1..Len(m.results) : m.results[i].n # ""
        /\ \A i \in 1..Len(m.ops) : LET o == m.ops[i] IN
              /\ o.op \in Known
              /\ Uses(o) \subseteq DefinedAt(i)
                     \cup (IF o.op = "instance" THEN inputs \cup Defines(m.ops) ELSE {})
              /\ o.op \in {"state_read", "state_write"} => o.state \in ToSet(NamesOf(m.states))
              /\ o.op = "instance" =>
                    \E t \in ToSet(p) : t.name = o.target /\ Len(t.results) = Len(o.res)
              /\ o.op = "yield" => /\ i = Len(m.ops)
                                   /\ Cardinality({j \in 1..Len(o.args) : IsVal(o.args[j])})
                                        = Len(m.results)
        /\ \E i \in 1..Len(m.ops) : m.ops[i].op = "yield"

Verified(p) == /\ NoRepeats([i \in 1..Len(p) |-> p[i].name])
               /\ \A i \in 1..Len(p) : VerifiedModule(p, p[i])

(***************************************************************************)
(* The meaning of a module without instances: from the inputs and the      *)
(* committed states, the results and the states of the next evaluation.    *)
(***************************************************************************)
Widths(m) == LET in == [n \in ToSet(NamesOf(m.inputs)) |->
                           (CHOOSE d \in ToSet(m.inputs) : d.n = n).w]
             IN  Fold(LAMBDA f, o : IF o.res = <<>> THEN f ELSE (o.res[1] :> o.w) @@ f,
                          in, m.ops)

OperandValue(env, o) == IF IsVal(o) THEN env[o.n] ELSE IF IsLit(o) THEN Low(o.b, o.w) ELSE 0
OperandWidth(widths, o) == IF IsVal(o) THEN widths[o.n] ELSE o.w

Evaluate(m, inputs, states) ==
    LET widths == Widths(m)
        Step(s, o) ==
            LET v == [i \in 1..Len(o.args) |-> OperandValue(s.env, o.args[i])]
                ws == [i \in 1..Len(o.args) |-> OperandWidth(widths, o.args[i])]
            IN  CASE o.op = "state_read"  -> [s EXCEPT !.env = (o.res[1] :> states[o.state]) @@ @]
                  [] o.op = "state_write" -> [s EXCEPT !.next = (o.state :> v[1]) @@ @]
                  [] o.op = "yield"       -> [s EXCEPT !.out = v]
                  [] OTHER -> [s EXCEPT !.env = (o.res[1] :> Apply(o.op, o.w, v, ws, o.at)) @@ @]
        end == Fold(Step, [env |-> inputs, next |-> states, out |-> <<>>], m.ops)
    IN  [out |-> end.out, next |-> end.next]
=============================================================================
