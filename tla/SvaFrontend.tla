---------------------------- MODULE SvaFrontend ----------------------------
(***************************************************************************)
(* The lowering of assertions, as the front end elaborates them, to        *)
(* directives (frontend/lib/SVA/Lowering).  Field e names the kind of an   *)
(* expression, p of a property or a sequence.  What is not supported       *)
(* becomes a node of kind "error", on which the lowering that follows stops.*)
(***************************************************************************)
EXTENDS Eir

P == INSTANCE PropertyLowering

Unbounded == 1000000
Absent == -1

\* [k, op, n, b, w, args]: kind, operator, name, value, width and operands.
SvaNode(k, w, args) == [k |-> k, op |-> "", n |-> "", b |-> 0, w |-> w, args |-> args]
NoExpression == SvaNode("none", 0, <<>>)
Illegal == SvaNode("error", 0, <<>>)

RECURSIVE SvaExpression(_)
SvaExpression(x) ==
    CASE x.e = "conv"    -> [SvaExpression(x.arg) EXCEPT !.w = x.w]
      [] x.e = "name"    -> [SvaNode("signal", x.w, <<>>) EXCEPT !.n = x.n]
      [] x.e = "const"   -> [SvaNode("constant", x.w, <<>>) EXCEPT !.b = x.v]
      [] x.e = "unary"   -> [SvaNode("unary", x.w, <<SvaExpression(x.arg)>>) EXCEPT !.op = x.op]
      [] x.e = "binary"  -> [SvaNode("binary", x.w, <<SvaExpression(x.l), SvaExpression(x.r)>>) EXCEPT !.op = x.op]
      [] x.e = "cond"    -> SvaNode("conditional", x.w, <<SvaExpression(x.c), SvaExpression(x.t), SvaExpression(x.f)>>)
      [] x.e = "concat"  -> SvaNode("concatenation", x.w, [i \in 1..Len(x.args) |-> SvaExpression(x.args[i])])
      [] x.e = "elem"    -> SvaNode("selection", x.w, <<SvaExpression(x.base), SvaExpression(x.at)>>)
      [] x.e = "sampled" -> [SvaNode("call", x.w, [i \in 1..Len(x.args) |-> SvaExpression(x.args[i])])
                                EXCEPT !.op = x.f]
      [] OTHER -> Illegal

SvaExpressions(xs) == [i \in 1..Len(xs) |-> SvaExpression(xs[i])]

\* A range without a maximum is its minimum, one without a minimum begins at 0.
Lowest(x) == IF x.min = Absent THEN 0 ELSE x.min
Highest(x) == IF x.max = Absent THEN Lowest(x) ELSE x.max
Backwards(x) == Highest(x) < Lowest(x)

SvaSequence(kind, x, parts) ==
    [kind |-> kind, minimum |-> Lowest(x), maximum |-> Highest(x), parts |-> parts, expression |-> NoExpression]
Whole == [min |-> 0, max |-> 0]

RepetitionKind == "Consecutive" :> "consecutive_repeat" @@ "Nonconsecutive" :> "nonconsecutive_repeat" @@
                  "GoTo" :> "goto_repeat"
SequenceKind == "And" :> "conjunction" @@ "Or" :> "disjunction" @@ "Intersect" :> "intersection" @@
                "Throughout" :> "throughout" @@ "Within" :> "within"

Atomic(x) ==
    LET atom == [SvaSequence("atom", Whole, <<>>) EXCEPT !.expression = SvaExpression(x.expr)]
    IN  IF x.rep.kind = "none" THEN atom
        ELSE IF x.rep.kind \notin DOMAIN RepetitionKind \/ Backwards(x.rep) THEN SvaSequence("error", Whole, <<>>)
        ELSE SvaSequence(RepetitionKind[x.rep.kind], x.rep, <<atom>>)

\* The first element of a concatenation is a delay, unless it has none; every
\* other one is concatenated to what there is.
RECURSIVE LowerSequence(_)
Concatenation(elements) ==
    LET Join(so, x) ==
            LET right == LowerSequence(x.seq)
            IN  IF Backwards(x) THEN SvaSequence("error", Whole, <<>>)
                ELSE IF so.kind # "none" THEN SvaSequence("concatenation", x, <<so, right>>)
                ELSE IF Lowest(x) = 0 /\ Highest(x) = 0 THEN right
                ELSE SvaSequence("delay", x, <<right>>)
    IN  Fold(Join, SvaSequence("none", Whole, <<>>), elements)

LowerSequence(x) ==
    CASE x.p = "Instance"       -> LowerSequence(x.body)
      [] x.p = "Simple"         -> Atomic(x)
      [] x.p = "SequenceConcat" -> Concatenation(x.elements)
      [] x.p = "Binary" /\ x.op \in DOMAIN SequenceKind ->
            SvaSequence(SequenceKind[x.op], Whole, <<LowerSequence(x.l), LowerSequence(x.r)>>)
      [] x.p = "FirstMatch"     -> SvaSequence("first_match", Whole, <<LowerSequence(x.seq)>>)
      [] x.p \in {"Clocking", "StrongWeak"} -> LowerSequence(x.expr)
      [] OTHER                  -> SvaSequence("error", Whole, <<>>)

(***************************************************************************)
(* A property is a node of PropertyLowering with its sequence, and what    *)
(* kind of implication it is.                                              *)
(***************************************************************************)
SvaProperty(kind, operands) ==
    [tree |-> SvaSequence("none", Whole, <<>>), overlapped |-> TRUE, followed |-> FALSE, inclusive |-> FALSE,
     minimum |-> 0, maximum |-> 0, condition |-> NoExpression, labels |-> <<>>] @@ P!Node(kind, operands)

Form(q) == IF q.kind = "atom" THEN "atom"
           ELSE IF q.kind = "delay" /\ q.parts[1].kind = "atom" THEN "delay" ELSE "other"

SequenceProperty(x) ==
    LET q == LowerSequence(x)
    IN  [SvaProperty("sequence", <<>>) EXCEPT !.tree = q, !.sequence = Form(q), !.unbounded = q.maximum = Unbounded]

UnaryKind == "Not" :> "negation" @@ "NextTime" :> "nexttime" @@ "SNextTime" :> "nexttime" @@
             "Always" :> "always" @@ "SAlways" :> "always" @@
             "Eventually" :> "eventually" @@ "SEventually" :> "eventually"
BinaryKind == "And" :> "conjunction" @@ "Or" :> "disjunction" @@ "Iff" :> "iff" @@ "Implies" :> "implication" @@
              "OverlappedImplication" :> "implication" @@ "NonOverlappedImplication" :> "implication" @@
              "OverlappedFollowedBy" :> "implication" @@ "NonOverlappedFollowedBy" :> "implication" @@
              "Until" :> "until" @@ "SUntil" :> "until" @@ "UntilWith" :> "until" @@ "SUntilWith" :> "until"

\* Without a range an always or an eventually has no end.
Endless(x) == Highest(x) = Unbounded \/ (x.min = Absent /\ x.max = Absent)
Ranges(x) == UnaryKind[x.op] \in {"always", "eventually"}

IsAbsent(x) == x.p = "none"
Flat(lists) == FoldLeft(LAMBDA a, b : a \o b, <<>>, lists)

RECURSIVE LowerProperty(_)
LowerProperty(x) ==
    CASE x.p = "Instance" -> LowerProperty(x.body)
      [] x.p \in {"Clocking", "DisableIff"} -> LowerProperty(x.expr)
      [] x.p = "StrongWeak" -> [LowerProperty(x.expr) EXCEPT !.strong = x.strength = "Strong"]
      [] x.p = "Unary" ->
            IF x.op \notin DOMAIN UnaryKind \/ Backwards(x) THEN SvaProperty("error", <<>>)
            ELSE [SvaProperty(UnaryKind[x.op], <<LowerProperty(x.expr)>>) EXCEPT
                     !.strong = x.op \in {"SNextTime", "SAlways", "SEventually"},
                     !.unbounded = Ranges(x) /\ Endless(x),
                     !.minimum = Lowest(x), !.maximum = IF Ranges(x) /\ Endless(x) THEN Unbounded ELSE Highest(x)]
      [] x.p = "Binary" /\ x.op \in DOMAIN BinaryKind ->
            [SvaProperty(BinaryKind[x.op], <<LowerProperty(x.l), LowerProperty(x.r)>>) EXCEPT
                !.overlapped = x.op \notin {"NonOverlappedImplication", "NonOverlappedFollowedBy"},
                !.followed = x.op \in {"OverlappedFollowedBy", "NonOverlappedFollowedBy"},
                !.strong = x.op \in {"SUntil", "SUntilWith"},
                !.inclusive = x.op \in {"UntilWith", "SUntilWith"}]
      [] x.p = "Abort" ->
            [SvaProperty(IF x.action = "accept" THEN "accept_on" ELSE "reject_on", <<LowerProperty(x.expr)>>)
                EXCEPT !.condition = SvaExpression(x.c)]
      [] x.p = "Conditional" ->
            [SvaProperty("conditional", <<LowerProperty(x.t)>> \o IF IsAbsent(x.f) THEN <<>> ELSE <<LowerProperty(x.f)>>)
                EXCEPT !.condition = SvaExpression(x.c)]
      [] x.p = "Case" ->
            [SvaProperty("case_property", <<>>) EXCEPT
                !.condition = SvaExpression(x.x),
                !.labels = Flat([i \in 1..Len(x.items) |-> SvaExpressions(x.items[i].labels)]),
                !.alternatives = Flat([i \in 1..Len(x.items) |->
                                         [j \in DOMAIN x.items[i].labels |-> LowerProperty(x.items[i].body)]])
                                   \o IF IsAbsent(x.default) THEN <<>> ELSE <<LowerProperty(x.default)>>]
      [] x.p \in {"Simple", "SequenceConcat", "FirstMatch"} \/ (x.p = "Binary" /\ x.op \notin DOMAIN BinaryKind) ->
            SequenceProperty(x)
      [] OTHER -> SvaProperty("error", <<>>)

---------------------------------------------------------------------------
(* Directives. *)

DirectiveKind == "Assert" :> "assert" @@ "Assume" :> "assume" @@ "CoverProperty" :> "cover" @@ "Restrict" :> "restrict"
Environment == {"Assume", "Restrict"}

NoClock == [signal |-> "", edge |-> "any"]
LowerClock(event) == [signal |-> event.signal,
                      edge |-> CASE event.edge = "PosEdge" -> "posedge" [] event.edge = "NegEdge" -> "negedge"
                                 [] OTHER -> "any"]

\* The clock and the condition that disables, from around the property.
RECURSIVE Unwrap(_, _)
Unwrap(x, d) == CASE x.p = "Instance"   -> Unwrap(x.body, d)
                  [] x.p = "Clocking"   -> Unwrap(x.expr, [d EXCEPT !.clock = LowerClock(x.event)])
                  [] x.p = "DisableIff" -> Unwrap(x.expr, [d EXCEPT !.disable = SvaExpression(x.condition)])
                  [] OTHER              -> [d EXCEPT !.property = LowerProperty(x)]

MembersOf(body, kind) == SelectSeq(body.members, LAMBDA x : x.m = kind)

DefaultClock(body) == LET blocks == MembersOf(body, "clocking")
                      IN  IF blocks = <<>> THEN NoClock ELSE LowerClock(blocks[1].event)

LowerAssertion(x, name, fallback) ==
    LET d == Unwrap(x.spec, [name |-> name, kind |-> DirectiveKind[x.kind], clock |-> NoClock,
                             disable |-> NoExpression, property |-> SvaProperty("none", <<>>)])
    IN  IF d.clock.signal = "" THEN [d EXCEPT !.clock = fallback] ELSE d

\* What is called name; several may be, the first is meant.
NamedDirective(body, name) ==
    LET found == SelectSeq(MembersOf(body, "assertion"), LAMBDA x : x.n = name)
    IN  LowerAssertion(found[1], name, DefaultClock(body))

\* One without a name is numbered.
Numbered(body, prefix, assertions) ==
    LET Taken(t, x, name) == [t EXCEPT !.all = Append(@, LowerAssertion(x, name, DefaultClock(body)))]
        Next(t, x) == IF x.n # "" THEN Taken(t, x, x.n)
                      ELSE [Taken(t, x, prefix \o ToString(t.next)) EXCEPT !.next = @ + 1]
    IN  Fold(Next, [all |-> <<>>, next |-> 0], assertions).all

BodyDirectives(body) == Numbered(body, "assertion_", MembersOf(body, "assertion"))

\* Assumptions and restrictions.
EnvironmentDirectives(body) ==
    Numbered(body, "environment_", SelectSeq(MembersOf(body, "assertion"), LAMBDA x : x.kind \in Environment))

(***************************************************************************)
(* The directives of a design, body by body.  One is looked for in its     *)
(* body, then everywhere; where there is only one, any name will do.       *)
(***************************************************************************)
FormalDesign(bodies) ==
    Fold(LAMBDA all, b : Fold(LAMBDA some, d : Append(some, [module |-> b.name, directive |-> d]), all, BodyDirectives(b)),
         <<>>, bodies)

NoDirective == [name |-> "", kind |-> "none", clock |-> NoClock, disable |-> NoExpression,
                property |-> SvaProperty("none", <<>>)]

DirectiveCalled(formal, module, name) ==
    LET anywhere == SelectSeq(formal, LAMBDA e : e.directive.name = name)
        here == SelectSeq(anywhere, LAMBDA e : e.module = module)
    IN  CASE here # <<>> -> here[1].directive
          [] here = <<>> /\ Len(anywhere) = 1 -> anywhere[1].directive
          [] anywhere = <<>> /\ Len(formal) = 1 -> formal[1].directive
          [] OTHER -> NoDirective
=============================================================================
