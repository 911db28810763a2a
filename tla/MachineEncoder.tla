--------------------------- MODULE MachineEncoder ---------------------------
(***************************************************************************)
(* Encoding of a flattened module into words of the emulator: the Encoder  *)
(* of MachineEmitter.cpp, the formats of emul_target.cpp, and the machine  *)
(* that runs the words.                                                    *)
(*                                                                         *)
(* An encoder e is a record.  When no register is free one is taken from a *)
(* value that is not pinned: the first in the order of a hash table, any   *)
(* one here.  So what an operation can do is a set of results [e, v].      *)
(***************************************************************************)
EXTENDS Eir

Nothing == [n \in {} |-> 0]
Failed(e) == e.err # ""
Fail(e, why) == [e EXCEPT !.err = why]

\* What F makes of every result of S; a failure stays what it is.
Then(S, F(_)) == UNION {IF Failed(r.e) THEN {r} ELSE F(r) : r \in S}
One(e, v) == {[e |-> e, v |-> v]}

(* The formats. *)
ZERO == {"commit", "yield"}
R2I == {"zext", "sext", "slice"}
RI == {"li", "state_read", "state_write", "import_read", "export_write"}

NoSources == <<0, 0, 0>>
Word(op, rd, rs, w, imm) ==
    CASE op \in ZERO      -> [op |-> op, rd |-> 0, rs |-> NoSources, w |-> 0, imm |-> 0]
      [] op \in R2I       -> [op |-> op, rd |-> rd, rs |-> <<rs[1], 0, 0>>, w |-> 0, imm |-> imm]
      [] op \in RI        -> [op |-> op, rd |-> IF rd # 0 THEN rd ELSE rs[1], rs |-> NoSources,
                              w |-> w, imm |-> imm]
      [] op = "literal"   -> [op |-> op, rd |-> 0, rs |-> NoSources, w |-> 0, imm |-> imm]
      [] OTHER            -> [op |-> op, rd |-> rd, rs |-> rs, w |-> 0, imm |-> 0]

EmitWord(e, op, rd, rs, w, imm) ==
    IF w > 32 THEN Fail(e, "width")
    ELSE IF op \in R2I \cup RI /\ imm > 65535 THEN Fail(e, "immediate")
    ELSE IF op \in RI /\ w = 0 THEN Fail(e, "width")
    ELSE [e EXCEPT !.words = Append(@, Word(op, rd, rs, w, imm))]

\* A register and an address or a literal, whose upper half is in a word of
\* its own.
EmitAddress(e, op, rd, rs, w, address) ==
    LET low == EmitWord(e, op, rd, <<rs, 0, 0>>, w, address % 65536)
    IN  IF Failed(low) THEN low ELSE EmitWord(low, "literal", 0, NoSources, 0, address \div 65536)

\* The address of a binding is its place in the list.
Bound(e, n, kind) == {i \in 1..Len(e.bindings) : e.bindings[i].n = n /\ e.bindings[i].kind = kind}
Address(e, n, kind) == (CHOOSE i \in Bound(e, n, kind) : TRUE) - 1
Bind(e, n, kind, w) ==
    IF Bound(e, n, kind) # {} THEN e
    ELSE [e EXCEPT !.bindings = Append(@, [n |-> n, kind |-> kind, w |-> w])]

---------------------------------------------------------------------------
(* Registers. *)

FirstAllocatable == 1
\* Mutant: the number of the slot is not advanced.
SpillSlotShared(k) == "@.__spill.0"

SpillSlot(k) == "@.__spill." \o ToString(k)
UnknownSlot(w) == "@.__literal.x." \o ToString(w)

Evict(e, n) ==
    LET reg == e.regs[n]
        slot == Bind([e EXCEPT !.spillid = @ + 1], SpillSlot(e.spillid), "state", e.widths[n])
        a == Address(slot, SpillSlot(e.spillid), "state")
        saved == EmitAddress(slot, "export_write", 0, reg, e.widths[n], a)
    IN  [e |-> [saved EXCEPT !.spills = (n :> a) @@ @,
                             !.regs = [m \in DOMAIN e.regs \ {n} |-> e.regs[m]]],
         v |-> reg]

FreeRegister(e) ==
    LET free == {r \in FirstAllocatable..(e.n - 1) : r \notin e.used}
        evictable == {n \in DOMAIN e.regs : e.regs[n] \notin e.pinned}
        lowest == CHOOSE r \in free : \A q \in free : r <= q
    IN  IF free # {} THEN One([e EXCEPT !.used = @ \cup {lowest}], lowest)
        ELSE IF evictable # {} THEN {Evict(e, n) : n \in evictable}
        ELSE One(Fail(e, "registers"), 0)

Allocate(e, n) ==
    IF n \in DOMAIN e.regs THEN One(e, e.regs[n])
    ELSE Then(FreeRegister(e), LAMBDA r : One([r.e EXCEPT !.regs = (n :> r.v) @@ @], r.v))

Pin(e, r) == [e EXCEPT !.pinned = @ \cup {r}]

Load(e, op, n, a) ==
    Then(Allocate(e, n), LAMBDA r :
         One(Pin(EmitAddress(r.e, op, r.v, 0, e.widths[n], a), r.v), r.v))

Scratch(e) ==
    Then(FreeRegister(e), LAMBDA r : One([Pin(r.e, r.v) EXCEPT !.temps = @ \cup {r.v}], r.v))

\* A register that holds the operand, loaded where it is not in one.  States
\* and inputs are read when they are first used.
Source(e, o) ==
    IF IsVal(o)
    THEN IF o.n \in DOMAIN e.regs THEN One(Pin(e, e.regs[o.n]), e.regs[o.n])
         ELSE IF o.n \in DOMAIN e.spills THEN Load(e, "import_read", o.n, e.spills[o.n])
         ELSE IF o.n \in DOMAIN e.states THEN Load(e, "state_read", o.n, e.states[o.n])
         ELSE IF o.n \in DOMAIN e.inputs THEN Load(e, "import_read", o.n, e.inputs[o.n])
         ELSE One(Fail(e, "operand"), 0)
    ELSE IF IsLit(o)
    THEN Then(Scratch(e), LAMBDA r : One(EmitAddress(r.e, "li", r.v, 0, o.w, o.b), r.v))
    ELSE Then(Scratch(e), LAMBDA r :
              LET slot == Bind(r.e, UnknownSlot(o.w), "state", o.w)
              IN  One(EmitAddress(slot, "import_read", r.v, 0, o.w,
                                  Address(slot, UnknownSlot(o.w), "state")), r.v))

Sources(e, args) ==
    Fold(LAMBDA S, a : Then(S, LAMBDA r :
                 {[e |-> q.e, v |-> Append(r.v, q.v)] : q \in Source(r.e, a)}),
             One(e, <<>>), args)

\* A value that nobody needs any more gives up its register and its slot.
Drop(e, n) ==
    [e EXCEPT !.used = IF n \in DOMAIN e.regs THEN @ \ {e.regs[n]} ELSE @,
              !.regs = [m \in DOMAIN @ \ {n} |-> @[m]],
              !.spills = [m \in DOMAIN @ \ {n} |-> @[m]]]

ReleaseSources(e, args) ==
    Fold(LAMBDA k, a : IF ~IsVal(a) THEN k
                           ELSE LET one == [k EXCEPT !.refs[a.n] = @ - 1]
                                IN  IF one.refs[a.n] = 0 THEN Drop(one, a.n) ELSE one,
             [e EXCEPT !.used = @ \ e.temps, !.temps = {}], args)

---------------------------------------------------------------------------
(* Operations. *)

Padded(rs) == [i \in 1..3 |-> IF i <= Len(rs) THEN rs[i] ELSE 0]

Immediate(o) == CASE o.op = "slice" -> o.at + (o.w - 1) * 64
                  [] o.op = "trunc" -> (o.w - 1) * 64
                  [] o.op \in {"zext", "sext"} -> o.w - 1
                  [] OTHER -> 0

Compute(e, o, rs) ==
    Then(Allocate(e, o.res[1]), LAMBDA r :
         One(IF o.op = "slice" /\ (o.at > 31 \/ o.w \notin 1..32) THEN Fail(r.e, "slice")
             ELSE EmitWord(r.e, IF o.op = "trunc" THEN "slice" ELSE o.op, r.v, Padded(rs), o.w,
                           Immediate(o)), r.v))

\* (false and not mask) or (true and mask), the mask being the select extended.
Mux(e, o, rs) ==
    LET Put(k, op, rd, a, b) == EmitWord(k, op, rd, <<a, b, 0>>, o.w, IF op = "sext" THEN o.w - 1 ELSE 0)
        Free(k, freed) == [k EXCEPT !.used = @ \ freed]
    IN  Then(Allocate(e, o.res[1]), LAMBDA result :
        Then(FreeRegister(Pin(result.e, result.v)), LAMBDA mask :
        Then(FreeRegister(Put(mask.e, "sext", mask.v, rs[1], 0)), LAMBDA inverted :
        Then(FreeRegister(Put(inverted.e, "not", inverted.v, mask.v, 0)), LAMBDA false :
        Then(FreeRegister(Free(Put(false.e, "and", false.v, rs[2], inverted.v), {inverted.v})),
             LAMBDA true :
                One(Free(Put(Put(true.e, "and", true.v, rs[3], mask.v),
                             "or", result.v, false.v, true.v),
                         {mask.v, false.v, true.v}), result.v))))))

StateWritten(e, o, rs) ==
    LET w == IF IsVal(o.args[1]) THEN e.widths[o.args[1].n] ELSE o.args[1].w
        bound == Bind(e, o.state, "state", w)
    IN  [EmitAddress(bound, "state_write", 0, rs[1], w, Address(bound, o.state, "state"))
            EXCEPT !.writes = @ + 1]

StateNamed(e, o) ==
    LET bound == Bind(e, o.state, "state", o.w)
    IN  [bound EXCEPT !.states = (o.res[1] :> Address(bound, o.state, "state")) @@ @]

Export(e, i, reg) ==
    LET out == e.m.results[i]
        bound == Bind(e, out.n, "export", out.w)
    IN  EmitAddress(bound, "export_write", 0, reg, out.w, Address(bound, out.n, "export"))

\* What was computed has been exported at once; literals, inputs and states
\* that are results are exported at the end, after the commit.
Lazy(e, a) == ~IsVal(a) \/ a.n \in DOMAIN e.inputs \cup DOMAIN e.states
ExportLast(e, a, i) ==
    Then(Source(e, a), LAMBDA r :
         LET sent == Export(r.e, i, r.v)
         IN  One(IF IsVal(a) THEN [sent EXCEPT !.used = @ \ {r.v},
                                               !.regs = [m \in DOMAIN @ \ {a.n} |-> @[m]]]
                 ELSE ReleaseSources(sent, <<a>>), 0))

Commit(e) == EmitWord(e, "commit", 0, NoSources, 0, 0)
YieldAll(e, args) ==
    LET start == IF e.writes > 0 THEN [Commit(e) EXCEPT !.writes = 0] ELSE e
        sent == Fold(LAMBDA S, i : Then(S, LAMBDA r : IF Lazy(r.e, args[i])
                                                          THEN ExportLast(r.e, args[i], i) ELSE {r}),
                         One(start, 0), [i \in 1..Len(args) |-> i])
    IN  Then(sent, LAMBDA r : One(EmitWord(Commit(r.e), "yield", 0, NoSources, 0, 0), 0))

Exported(e, o) ==
    IF o.res = <<>> \/ o.res[1] \notin DOMAIN e.exports \cap DOMAIN e.regs THEN e
    ELSE Fold(LAMBDA k, i : IF Failed(k) THEN k ELSE Export(k, i, e.regs[o.res[1]]),
                  e, e.exports[o.res[1]])

Finish(e, o) ==
    LET released == [ReleaseSources(Exported(e, o), o.args) EXCEPT !.pinned = {}]
    IN  IF Failed(released) \/ o.res = <<>> \/ released.refs[o.res[1]] > 0 THEN released
        ELSE Drop(released, o.res[1])

\* What encoding one operation can make of the encoder.
EncodeOperation(e, o) ==
    LET fresh == [e EXCEPT !.pinned = {}, !.temps = {}]
        done == CASE o.op = "yield"       -> YieldAll(fresh, o.args)
                  [] o.op = "state_write" -> Then(Sources(fresh, o.args), LAMBDA r :
                                                  One(StateWritten(r.e, o, r.v), 0))
                  [] o.op = "state_read"  -> One(StateNamed(fresh, o), 0)
                  [] o.op = "mux"         -> Then(Sources(fresh, o.args), LAMBDA r : Mux(r.e, o, r.v))
                  [] OTHER                -> Then(Sources(fresh, o.args), LAMBDA r : Compute(r.e, o, r.v))
    IN  {IF Failed(r.e) \/ o.op = "yield" THEN r.e ELSE Finish(r.e, o) : r \in done}

\* The bindings of the states and inputs, the references to every value, and
\* the results every value is exported as.
NewEncoder(m, registers) ==
    LET names == ToSet(NamesOf(m.inputs)) \cup Defines(m.ops)
        plain == SelectSeq(m.ops, LAMBDA o : o.op # "yield")
        Count(n) == Fold(LAMBDA a, o : a + Len(SelectSeq(o.args, LAMBDA x : IsVal(x) /\ x.n = n)),
                             0, plain)
        results == Last(m.ops).args
        Places(n) == SelectSeq([i \in 1..Len(results) |-> i],
                               LAMBDA i : IsVal(results[i]) /\ results[i].n = n)
        empty == [m |-> m, n |-> registers, widths |-> Widths(m),
                  refs |-> [n \in names |-> Count(n)],
                  exports |-> [n \in {x \in names : Places(x) # <<>>} |-> Places(n)],
                  regs |-> Nothing, used |-> {}, pinned |-> {}, temps |-> {}, spills |-> Nothing,
                  states |-> Nothing, inputs |-> Nothing, bindings |-> <<>>, words |-> <<>>,
                  writes |-> 0, spillid |-> 0, err |-> ""]
        stated == Fold(LAMBDA e, s : Bind(e, s.n, "state", s.w), empty, m.states)
        Input(e, x) == LET bound == Bind(e, x.n, "import", x.w)
                       IN  [bound EXCEPT !.inputs = (x.n :> Address(bound, x.n, "import")) @@ @]
    IN  Fold(Input, stated, m.inputs)

(***************************************************************************)
(* The machine.  A register holds a value and its width.  Every binding is *)
(* one cell: exports are seen at once, written states with the commit.     *)
(***************************************************************************)
ResultWidth(op, a, b) ==
    CASE op \in {"eq", "ne", "slt", "sle", "ult", "ule", "redand", "redor", "redxor"} -> 1
      [] op = "concat" -> a.w + b.w
      [] OTHER -> a.w

Execute(words, cells, registers) ==
    LET Upper(i) == IF i < Len(words) /\ words[i + 1].op = "literal" THEN words[i + 1].imm ELSE 0
        At(i) == words[i].imm + 65536 * Upper(i)
        Set(s, r, v, w) == [s EXCEPT !.regs[r] = [v |-> v, w |-> w]]
        Step(s, i) ==
            LET x == words[i]
                a == s.regs[x.rs[1]]
                b == s.regs[x.rs[2]]
            IN  CASE x.op = "li"           -> Set(s, x.rd, Low(At(i), x.w), x.w)
                  [] x.op \in {"import_read", "state_read"} -> Set(s, x.rd, s.cells[At(i)], x.w)
                  [] x.op = "export_write" -> [s EXCEPT !.cells[At(i)] = s.regs[x.rd].v]
                  [] x.op = "state_write"  -> [s EXCEPT !.pending = (At(i) :> s.regs[x.rd].v) @@ @]
                  [] x.op = "commit"       -> [s EXCEPT !.cells = s.pending @@ @, !.pending = Nothing]
                  [] x.op \in {"literal", "yield"} -> s
                  [] x.op = "slice"        -> LET w == ((x.imm \div 64) % 32) + 1
                                              IN  Set(s, x.rd, Slice(a.v, x.imm % 64, w), w)
                  [] x.op \in {"zext", "sext"} ->
                        LET w == (x.imm % 32) + 1
                        IN  Set(s, x.rd, Apply(x.op, w, <<a.v>>, <<a.w>>, 0), w)
                  [] OTHER -> LET w == ResultWidth(x.op, a, b)
                              IN  Set(s, x.rd, Apply(x.op, w, <<a.v, b.v>>, <<a.w, b.w>>, 0), w)
        blank == [regs |-> [r \in 0..(registers - 1) |-> [v |-> 0, w |-> 1]],
                  cells |-> cells, pending |-> Nothing]
    IN  Fold(Step, blank, [i \in 1..Len(words) |-> i]).cells
=============================================================================
