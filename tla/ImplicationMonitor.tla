------------------------- MODULE ImplicationMonitor -------------------------
(***************************************************************************)
(* The registers a bounded implication is lowered to:                      *)
(*                                                                         *)
(*     a |-> ##[lo:hi] b      a |=> ##[lo:hi] b      always (...)          *)
(*                                                                         *)
(* compiler/btor2/lib/Lowering/Formal/monitor.cpp emits a transition       *)
(* system with one register per age of an attempt, and lower_sva.cpp       *)
(* handles what counts as instantaneous without registers.  A step here is *)
(* a step of that transition system: the design gives a, b, the clock and  *)
(* the disable condition any values, and the registers take the values     *)
(* computed in the step before.                                            *)
(***************************************************************************)
EXTENDS Naturals, Sequences

CONSTANTS
  Properties,  \* the implications, by their shape
  MaxSamples   \* bound: samples since the last disable

\* atom: the consequent is b itself, without a delay.
ASSUME PropertiesAssumption ==
  \A p \in Properties :
    /\ p.lo \in Nat /\ p.hi \in Nat /\ p.lo <= p.hi
    /\ p.overlapped \in BOOLEAN /\ p.always \in BOOLEAN
    /\ p.atom \in BOOLEAN /\ (p.atom => p.hi = 0)
    /\ p.edge \in {"posedge", "negedge", "any"}
ASSUME SamplesAssumption == MaxSamples \in Nat

VARIABLES
  prop,         \* the property that is lowered
  initialized,  \* formal_initialized: this is not the first step
  clock,        \* inputs of the step
  a, b,
  disable,
  previous,     \* the register clock_previous
  active,       \* the registers age_1, age_2, ...
  trace         \* history: the samples since the last disable

inputs == <<clock, a, b, disable>>
vars == <<prop, initialized, inputs, previous, active, trace>>

-----------------------------------------------------------------------------
(* The combinational part: functions of registers and inputs.              *)

\* Mutant: |=> adds nothing to the delay.
SameCycle(p) == 0

\* A consequent of |=> starts one sample later.
Shift(p) == IF p.overlapped THEN 0 ELSE 1

Minimum == prop.lo + Shift(prop)
Maximum == prop.hi + Shift(prop)

\* Without an outer always, an implication between atoms is instantaneous:
\* lower_sva.cpp takes it for the disjunction of ~a and b, and for a cover too.
Instantaneous == prop.atom /\ ~prop.always

Ages == IF Instantaneous THEN {} ELSE 1..Maximum

\* Mutant: the level of the clock instead of its edge.
SampleAtLevel ==
  CASE prop.edge = "posedge" -> clock
    [] prop.edge = "negedge" -> ~clock
    [] OTHER -> TRUE

Sample ==
  CASE prop.edge = "posedge" -> ~previous /\ clock
    [] prop.edge = "negedge" -> previous /\ ~clock
    [] OTHER -> TRUE

Enabled == Sample /\ ~disable

Violation ==
  /\ Enabled
  /\ ~b
  /\ IF Instantaneous \/ Maximum = 0 THEN a ELSE active[Maximum]

Ripe(k) == k >= Minimum

Match ==
  /\ Enabled
  /\ IF Instantaneous
     THEN a => b
     ELSE b /\ \/ Minimum = 0 /\ a
               \/ \E k \in Ages : Ripe(k) /\ active[k]

-----------------------------------------------------------------------------
(* The registers.                                                          *)

\* What age k + 1 takes over from age k; age 0 is the attempt that starts.
Advanced(k) ==
  /\ IF k = 0 THEN a ELSE active[k]
  /\ k >= Minimum => ~b

\* Mutant: the disable condition counts only at a sample.
ResetAtSample(old, new) ==
  IF ~Sample THEN old ELSE IF disable THEN FALSE ELSE new

Register(old, new) ==
  IF disable THEN FALSE ELSE IF Sample THEN new ELSE old

\* The constraint initial_clock: no edge at the first step.
InitialClock == initialized \/ previous = clock

Init ==
  /\ prop \in Properties
  /\ initialized = FALSE
  /\ clock \in BOOLEAN /\ a \in BOOLEAN /\ b \in BOOLEAN /\ disable \in BOOLEAN
  /\ previous \in BOOLEAN /\ InitialClock
  /\ active = [k \in Ages |-> FALSE]
  /\ trace = <<>>

Record ==
  trace' = IF disable THEN <<>>
           ELSE IF Sample THEN Append(trace, [a |-> a, b |-> b])
           ELSE trace

Step ==
  /\ Enabled => Len(trace) < MaxSamples
  /\ initialized' = TRUE
  /\ clock' \in BOOLEAN /\ a' \in BOOLEAN /\ b' \in BOOLEAN /\ disable' \in BOOLEAN
  /\ previous' = clock /\ InitialClock'
  /\ active' = [k \in Ages |-> Register(active[k], Advanced(k - 1))]
  /\ Record
  /\ UNCHANGED prop

Next == Step

Spec == Init /\ [][Next]_vars

---------------------------------------------------------------------------
(* What the monitor owes the directive. *)

\* The window in which the consequent of an attempt must hold.
First == IF prop.overlapped THEN prop.lo ELSE prop.lo + 1
Last  == IF prop.overlapped THEN prop.hi ELSE prop.hi + 1

\* The registers and the history have their types; there is one register for
\* each sample an attempt can live.
TypeOK ==
  /\ prop \in Properties
  /\ initialized \in BOOLEAN
  /\ clock \in BOOLEAN /\ a \in BOOLEAN /\ b \in BOOLEAN /\ disable \in BOOLEAN
  /\ previous \in BOOLEAN
  /\ active \in [1..(IF Instantaneous THEN 0 ELSE Last) -> BOOLEAN]
  /\ trace \in Seq([a : BOOLEAN, b : BOOLEAN]) /\ Len(trace) <= MaxSamples

(***************************************************************************)
(* The meaning of the property, over the samples taken since the last      *)
(* disable and the present one: an attempt starts at every sample at which *)
(* a holds, and b must hold at one of the samples first to last after it.  *)
(***************************************************************************)
Samples == Append(trace, [a |-> a, b |-> b])

\* The attempt that started at sample s has not been answered before sample n.
Unanswered(s, n) ==
  Samples[s].a /\ \A i \in s + First .. n - 1 : ~Samples[i].b

AttemptFails ==
  LET n == Len(Samples) IN
    \E s \in 1..n : n = s + Last /\ Unanswered(s, n) /\ ~b

AttemptMatches ==
  LET n == Len(Samples) IN
    \E s \in 1..n : n \in s + First .. s + Last /\ Unanswered(s, n) /\ b

\* The solver's bad state is the failure of an attempt, no more and no less,
\* however the attempts overlap and whenever the property is disabled.
ViolationExact == Violation <=> Enabled /\ AttemptFails

\* A cover is reached by the first answer to an attempt and by nothing else; an
\* instantaneous one also by a sample at which no attempt starts.
MatchExact ==
  Match <=> Enabled /\ (AttemptMatches \/ (Instantaneous /\ ~a))

\* Both: the two nodes the monitor makes of its registers say what they are for.
VerdictsExact == ViolationExact /\ MatchExact

Rises == ~clock /\ clock'
Falls == clock /\ ~clock'

\* A sample is an edge of the clock; the first step is none, whatever value the
\* register of the previous clock starts with.
SamplesAreEdges ==
  /\ prop.edge # "any" => ~Sample
  /\ [][/\ prop.edge = "posedge" => (Sample' <=> Rises)
        /\ prop.edge = "negedge" => (Sample' <=> Falls)]_vars
=============================================================================
