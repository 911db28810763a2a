------------------------------ MODULE MCMonitors ------------------------------
(***************************************************************************)
(* The shapes of implications and the automata TLC checks.                 *)
(***************************************************************************)
EXTENDS ImplicationMonitor, AutomatonMonitor

Shape(lo, hi, overlapped, always, atom, edge) ==
  [lo |-> lo, hi |-> hi, overlapped |-> overlapped, always |-> always,
   atom |-> atom, edge |-> edge]

Delayed ==
  {Shape(d[1], d[2], o, w, FALSE, "posedge") :
     d \in {<<0, 0>>, <<1, 1>>, <<0, 2>>, <<1, 2>>}, o \in BOOLEAN, w \in BOOLEAN}

Atomic ==
  {Shape(0, 0, o, TRUE, TRUE, e) : o \in BOOLEAN, e \in {"posedge", "negedge", "any"}}

\* |=> between atoms, without an always around it.
Bare == {Shape(0, 0, FALSE, FALSE, TRUE, "posedge")}

AllShapes == Delayed \cup Atomic \cup {Shape(0, 0, TRUE, FALSE, TRUE, "posedge")}

Machine(states, accepting, det, edges) ==
  [states |-> states, initial |-> 0, accepting |-> accepting, det |-> det, edges |-> edges]
Edge(from, to, guard) == [from |-> from, to |-> to, guard |-> guard]
Atoms == {"neither", "a", "b"}

\* No run goes on: the automaton of those that stand still.
Never == Machine(1, {0}, TRUE, <<Edge(0, 0, {})>>)

AllAutomata ==
  {\* a again and again
   Machine(2, {1}, TRUE, <<Edge(0, 0, Atoms \ {"a"}), Edge(0, 1, {"a"}),
                           Edge(1, 0, Atoms \ {"a"}), Edge(1, 1, {"a"})>>),
   \* at last a for ever: when, is guessed
   Machine(2, {1}, FALSE, <<Edge(0, 0, Atoms), Edge(0, 1, {"a"}), Edge(1, 1, {"a"})>>),
   Never,
   \* never a
   Machine(1, {0}, TRUE, <<Edge(0, 0, Atoms \ {"a"})>>),
   \* runs that part and meet, and that end
   Machine(3, {2}, FALSE, <<Edge(0, 1, {"a", "b"}), Edge(0, 2, {"b"}), Edge(1, 2, Atoms),
                            Edge(2, 0, {"neither"}), Edge(2, 2, {"a", "b"})>>)}

\* Either an implication is monitored, or the automaton of a property; the
\* other one stands still.
NoImplication ==
  /\ prop = CHOOSE p \in Properties : TRUE
  /\ ~initialized /\ ~clock /\ ~a /\ ~b /\ ~disable /\ ~previous
NoAutomaton ==
  automaton = Never /\ ~sampled /\ ~disabled /\ letter = "a" /\ choice = 1

MonitorsInit == Init /\ MonitorInit /\ (NoImplication \/ NoAutomaton)
MonitorsNext ==
  \/ NoAutomaton /\ Step /\ UNCHANGED monitorVars
  \/ NoImplication /\ automaton # Never /\ MonitorStep /\ UNCHANGED vars
MonitorsSpec == MonitorsInit /\ [][MonitorsNext]_<<vars, monitorVars>>
=============================================================================
