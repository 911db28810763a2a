---------------------------- MODULE MCFormalTask ----------------------------
(***************************************************************************)
(* The sessions TLC checks: properties as trees, the problems the lowering *)
(* makes of them, and the tasks asked for.                                 *)
(***************************************************************************)
EXTENDS FormalTask, PropertyLowering

Invariantly(p) == Node("always", <<p>>)
Finally == [Node("eventually", <<Atom>>) EXCEPT !.unbounded = TRUE]
SafetyAndLiveness == Node("conjunction", <<Invariantly(Atom), Finally>>)
Response == Node("implication", <<Atom, Sequence("delay", FALSE)>>)

\* The problem of a directive in an environment of assumptions, on a design.
Problem(directive, p, environment, stateful, clocks, wide, fails) ==
  LET parts == ModelParts(Kinds(directive, p, environment)) IN
    [cover |-> directive = "cover", stateful |-> stateful,
     temporal |-> Temporal(p), unbounded |-> UnboundedLiveness(p),
     recurrence |-> Recurrence(p), fairness |-> Fairness(p),
     nonAtomic |-> NonAtomic(p), clocks |-> clocks, parts |-> parts,
     wide |-> wide \cap parts, fails |-> fails \cap parts]

Request(e, b) == [engine |-> e, backend |-> b]
Auto == Request("auto", "auto")

KindSession(kind, tasks, action, expected, p) ==
  [kind |-> kind, tasks |-> tasks, action |-> action, expected |-> expected, problem |-> p]

Session(tasks, action, expected, p) == KindSession("auto", tasks, action, expected, p)

\* Both parts, decided in parallel.
InParallel ==
  {Session(<<Auto>>, "prove", x, Problem("assert", SafetyAndLiveness, {}, TRUE, c, {"safety"}, f)) :
     x \in {"default", "counterexample"}, c \in {1, 2}, f \in SUBSET Partitions}

\* A back end and an engine asked for by name, for a safety property, a property
\* with both parts, and a liveness property.
ByName ==
  {Session(<<Request(e, b)>>, "prove", "default", Problem("assert", p, {}, TRUE, c, {}, f)) :
     e \in Engines, b \in Backends, c \in {1, 2}, f \in {{}, Partitions},
     p \in {Invariantly(Atom), SafetyAndLiveness, Finally}}

\* Covers, by the engine of the router or by IC3/PDR; the second has an
\* assumption that needs an automaton.
Covers ==
  {Session(<<Request(e, "auto")>>, a, "default", Problem("cover", p, n, TRUE, 1, {}, f)) :
     e \in {"auto", "pdr"}, a \in {"prove", "cover"}, p \in {Atom, Response},
     n \in {{}, {Invariantly(Atom)}}, f \in SUBSET Partitions}

\* A design without state: the SMT engine.
Stateless ==
  {Session(<<Auto>>, "prove", x, Problem(d, p, {}, FALSE, 1, {}, f)) :
     x \in {"default", "proved", "any"}, d \in {"assert", "cover"},
     p \in {Atom, Response}, f \in {{}, {"safety"}}}
  \cup
  {Session(<<Request("smt", "auto")>>, "prove", "any", Problem("cover", Atom, {}, FALSE, 1, {}, {}))}

\* A matrix: the first task may end in every way, the second in several.
Matrices ==
  {KindSession("performance", <<Auto, Request("pdr", "auto")>>, "prove", "default",
     Problem("assert", Finally, {}, TRUE, 1, {}, f)) : f \in {{}, {"liveness"}}}
  \cup
  {KindSession("liveness", <<Request("kind", "auto"), Request("pdr", "abc")>>, "prove", "proved",
     Problem("assert", Invariantly(Atom), {}, TRUE, 1, {}, f)) : f \in {{}, {"safety"}}}

AllSessions == InParallel \cup ByName \cup Covers \cup Stateless \cup Matrices
=============================================================================
