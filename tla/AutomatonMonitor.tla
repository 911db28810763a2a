-------------------------- MODULE AutomatonMonitor --------------------------
(***************************************************************************)
(* The registers of a property that needs an automaton: one bit for each   *)
(* of its states (compiler/btor2/lib/Lowering/Formal/LTL/                  *)
(* buchi_monitor.cpp).  A step is a step of the transition system emitted: *)
(* the design gives the atoms, the sample event and the disable condition  *)
(* any values, an input chooses among the edges of an automaton that is    *)
(* not deterministic, and a constraint cuts off runs that cannot go on.    *)
(***************************************************************************)
EXTENDS Naturals, Sequences

CONSTANTS
  Letters,   \* the valuations of the atoms
  Automata,  \* what Spot made of properties
  MaxWord    \* bound: samples since the last disable

\* States are numbered from 0; a guard is the set of letters it holds for.  Of
\* a deterministic automaton, guards of two edges of a state do not overlap.  An
\* automaton without states or edges gets no registers.
States(m) == 0..m.states - 1

ASSUME AutomataAssumption ==
  \A m \in Automata :
    /\ m.states \in Nat /\ m.initial \in States(m) /\ m.accepting \subseteq States(m)
    /\ m.det \in BOOLEAN /\ m.edges # <<>>
    /\ m.edges \in Seq([from : States(m), to : States(m), guard : SUBSET Letters])
    /\ m.det =>
         \A i, j \in 1..Len(m.edges) :
           /\ m.edges[i].from = m.edges[j].from
           /\ m.edges[i].guard \cap m.edges[j].guard # {}
           => i = j
ASSUME WordAssumption == MaxWord \in Nat

VARIABLES
  automaton,
  sampled, disabled,  \* inputs of the step: the sample event, the disable condition,
  letter, choice,     \* the atoms, and the edge to be taken
  running,            \* the registers state_0, state_1, ...
  word                \* history: the letters sampled since the last disable

monitorInputs == <<sampled, disabled, letter, choice>>
monitorVars == <<automaton, monitorInputs, running, word>>

-----------------------------------------------------------------------------
(* The combinational part.                                                 *)

Moves == sampled /\ ~disabled
Edges == 1..Len(automaton.edges)

\* Numbers of edges, and one for all numbers of the input that are none's.
Choices(m) == 1..Len(m.edges) + 1

\* The edges taken, if the atoms have the values l and the input is c.
Selected(l, c) ==
  {i \in Edges :
     /\ running[automaton.edges[i].from]
     /\ automaton.det \/ c = i
     /\ l \in automaton.edges[i].guard}

\* No run is looked at that cannot go on: the constraint of the transition.
GoesOn(l, c) == Selected(l, c) # {}
Transition == Moves => GoesOn(letter, choice)

\* The registers after a sample.
Entered(l, c) == [q \in States(automaton) |-> \E i \in Selected(l, c) : automaton.edges[i].to = q]

Begun(m) == [q \in States(m) |-> q = m.initial]

\* The justice condition: a run that visits accepting states again and again.
Justice == Moves /\ \E q \in automaton.accepting : running[q]

-----------------------------------------------------------------------------
Inputs ==
  /\ sampled \in BOOLEAN /\ disabled \in BOOLEAN /\ letter \in Letters
  /\ choice \in Choices(automaton)

MonitorInit ==
  /\ automaton \in Automata
  /\ Inputs
  /\ running = Begun(automaton) /\ word = <<>>
  /\ Transition

\* Mutant: a disable condition does not begin the run again.
RunsOn ==
  running' = IF Moves THEN Entered(letter, choice) ELSE running

Runs ==
  running' = IF disabled THEN Begun(automaton)
             ELSE IF sampled THEN Entered(letter, choice)
             ELSE running

MonitorStep ==
  /\ Moves => Len(word) < MaxWord
  /\ UNCHANGED automaton
  /\ sampled' \in BOOLEAN /\ disabled' \in BOOLEAN /\ letter' \in Letters
  /\ choice' \in Choices(automaton)
  /\ Runs
  /\ word' = IF disabled THEN <<>> ELSE IF sampled THEN Append(word, letter) ELSE word
  /\ Transition'

MonitorSpec == MonitorInit /\ [][MonitorStep]_monitorVars

-----------------------------------------------------------------------------
(* What the registers owe the automaton.                                   *)

MonitorTypeOK ==
  /\ automaton \in Automata /\ Inputs
  /\ running \in [States(automaton) -> BOOLEAN]
  /\ word \in Seq(Letters) /\ Len(word) <= MaxWord

\* run goes through the automaton along the word.
IsRun(run, m, w) ==
  /\ run[0] = m.initial
  /\ \A k \in 1..Len(w) :
       \E i \in 1..Len(m.edges) :
         /\ m.edges[i].from = run[k - 1] /\ m.edges[i].to = run[k]
         /\ w[k] \in m.edges[i].guard

\* The states that runs along the word end in.
Ends(m, w) ==
  {q \in States(m) : \E run \in [0..Len(w) -> States(m)] : IsRun(run, m, w) /\ run[Len(w)] = q}

Only(q) == [p \in States(automaton) |-> p = q]

\* Where the edges lead that are open in q.
Onwards(q, l) ==
  {automaton.edges[i].to : i \in {j \in Edges : automaton.edges[j].from = q /\ l \in automaton.edges[j].guard}}

(***************************************************************************)
(* The registers follow one run of the automaton over what was sampled     *)
(* since the last disable: exactly one is set, for a state such a run ends *)
(* in; the steps that the constraint leaves open lead on to every state    *)
(* an open edge leads to and to no other, so that no run is lost and none  *)
(* made up; and the justice condition holds at exactly the samples the run *)
(* is accepting at.                                                        *)
(***************************************************************************)
RunFollowed ==
  \E q \in Ends(automaton, word) :
    /\ running = Only(q)
    /\ \A l \in Letters :
         {Entered(l, c) : c \in {d \in Choices(automaton) : GoesOn(l, d)}} = {Only(p) : p \in Onwards(q, l)}
    /\ Justice <=> Moves /\ q \in automaton.accepting
=============================================================================
