---------------------------- MODULE MonitorProofs ----------------------------
(***************************************************************************)
(* Proofs about the registers of monitors.                                 *)
(*                                                                         *)
(* The registers of a bounded implication report exactly the failures and  *)
(* the matches of its attempts, for every window, clock edge and length of *)
(* the run.  The invariant says what each register stands for: age k is    *)
(* set if an attempt started k samples ago and has had no answer since.    *)
(*                                                                         *)
(* The registers of an automaton follow one run of it over what was        *)
(* sampled, for every automaton.  The invariant says that one of them is   *)
(* set, for a state that a run ends in.                                    *)
(***************************************************************************)
EXTENDS ImplicationMonitor, AutomatonMonitor, WellFoundedInduction, TLAPS

\* No property is a bare |=> between atoms, which is lowered as if it were |->.
DelaysKept ==
  \A p \in Properties : p.atom /\ ~p.always => p.overlapped

\* The samples t hold an attempt that started k samples ago, without an answer.
Pending(t, k) ==
  /\ k <= Len(t)
  /\ t[Len(t) - k + 1].a
  /\ \A i \in First .. k - 1 : ~t[Len(t) - k + 1 + i].b

RegistersRight == \A k \in Ages : active[k] <=> Pending(trace, k)

IInv == TypeOK /\ RegistersRight

-----------------------------------------------------------------------------
\* The window of the lowering is the window of the property.
LEMMA Window ==
  ASSUME prop \in Properties
  PROVE  /\ First \in Nat /\ Last \in Nat /\ First <= Last
         /\ Minimum = First /\ Maximum = Last
         /\ Ages = 1..(IF Instantaneous THEN 0 ELSE Last)
         /\ Instantaneous => prop.hi = 0
<1>1. /\ prop.lo \in Nat /\ prop.hi \in Nat /\ prop.lo <= prop.hi
      /\ prop.overlapped \in BOOLEAN /\ (prop.atom => prop.hi = 0)
  BY PropertiesAssumption
<1>2. /\ First \in Nat /\ Last \in Nat /\ First <= Last
      /\ Minimum = First /\ Maximum = Last
  BY <1>1 DEF First, Last, Minimum, Maximum, Shift
<1>3. Ages = 1..(IF Instantaneous THEN 0 ELSE Last)
  BY <1>2 DEF Ages
<1>4. QED BY <1>1, <1>2, <1>3 DEF Instantaneous

\* A sample more: an attempt of age k was one of age k - 1, or starts with it.
LEMMA OneSampleMore ==
  ASSUME NEW t \in Seq([a : BOOLEAN, b : BOOLEAN]),
         NEW r \in [a : BOOLEAN, b : BOOLEAN],
         NEW k \in Nat, k >= 1, First \in Nat
  PROVE  Pending(Append(t, r), k) <=>
           /\ IF k = 1 THEN r.a ELSE Pending(t, k - 1)
           /\ k - 1 >= First => ~r.b
<1> DEFINE n == Len(t)
           u == Append(t, r)
<1>1. n \in Nat /\ Len(u) = n + 1 /\ u[n + 1] = r /\ \A i \in 1..n : u[i] = t[i]
  OBVIOUS
<1>2. Pending(u, k) <=> /\ k <= n + 1
                        /\ u[n + 2 - k].a
                        /\ \A i \in First .. k - 1 : ~u[n + 2 - k + i].b
  <2>1. Len(u) - k + 1 = n + 2 - k
    BY <1>1
  <2>2. QED BY <1>1, <2>1 DEF Pending
<1>3. CASE k = 1
  <2>1. Pending(u, k) <=> r.a /\ \A i \in First .. 0 : ~u[n + 1 + i].b
    BY <1>1, <1>2, <1>3
  <2>2. (\A i \in First .. 0 : ~u[n + 1 + i].b) <=> (0 >= First => ~r.b)
    <3>1. CASE First = 0
      <4>1. First .. 0 = {0}
        BY <3>1
      <4>2. u[n + 1 + 0] = r
        BY <1>1
      <4>3. QED BY <3>1, <4>1, <4>2
    <3>2. CASE First # 0
      <4>1. First .. 0 = {} /\ ~(0 >= First)
        BY <3>2
      <4>2. QED BY <4>1
    <3>3. QED BY <3>1, <3>2
  <2>3. QED BY <1>3, <2>1, <2>2
<1>4. CASE k > 1
  <2>1. Pending(t, k - 1) <=> /\ k - 1 <= n
                              /\ t[n + 2 - k].a
                              /\ \A i \in First .. k - 2 : ~t[n + 2 - k + i].b
    <3>1. n - (k - 1) + 1 = n + 2 - k /\ (k - 1) - 1 = k - 2
      BY <1>1
    <3>2. QED BY <3>1 DEF Pending
  <2>2. ASSUME k <= n + 1
        PROVE  /\ u[n + 2 - k] = t[n + 2 - k]
               /\ \A i \in First .. k - 2 : u[n + 2 - k + i] = t[n + 2 - k + i]
               /\ u[n + 2 - k + (k - 1)] = r
    <3>1. n + 2 - k \in 1..n
      BY <1>1, <1>4, <2>2
    <3>2. \A i \in First .. k - 2 : n + 2 - k + i \in 1..n
      BY <1>1, <1>4, <2>2
    <3>3. n + 2 - k + (k - 1) = n + 1
      BY <1>1
    <3>4. QED BY <1>1, <3>1, <3>2, <3>3
  <2>3. CASE k <= n + 1
    <3>1. (\A i \in First .. k - 1 : ~u[n + 2 - k + i].b)
            <=> /\ \A i \in First .. k - 2 : ~t[n + 2 - k + i].b
                /\ k - 1 >= First => ~r.b
      <4>1. \A i : i \in First .. k - 1
                     <=> i \in First .. k - 2 \/ (k - 1 >= First /\ i = k - 1)
        BY <1>4
      <4>2. QED BY <2>2, <2>3, <4>1
    <3>2. (k <= n + 1) /\ (k - 1 <= n) /\ k # 1
      BY <1>1, <1>4, <2>3
    <3>3. u[n + 2 - k].a <=> t[n + 2 - k].a
      BY <2>2, <2>3
    <3>4. QED BY <1>2, <2>1, <3>1, <3>2, <3>3, Zenon
  <2>4. CASE ~(k <= n + 1)
    BY <1>1, <1>2, <1>4, <2>1, <2>4
  <2>5. QED BY <2>3, <2>4
<1>5. QED BY <1>3, <1>4

-----------------------------------------------------------------------------
LEMMA InitInvariant == Init => IInv
<1> SUFFICES ASSUME Init PROVE IInv
  OBVIOUS
<1>1. TypeOK
  <2>1. <<>> \in Seq([a : BOOLEAN, b : BOOLEAN]) /\ Len(<<>>) = 0
    OBVIOUS
  <2>2. prop \in Properties
    BY DEF Init
  <2>3. active \in [1..(IF Instantaneous THEN 0 ELSE Last) -> BOOLEAN]
    BY <2>2, Window DEF Init
  <2>4. trace \in Seq([a : BOOLEAN, b : BOOLEAN]) /\ Len(trace) <= MaxSamples
    BY <2>1, SamplesAssumption DEF Init
  <2>5. /\ initialized \in BOOLEAN /\ previous \in BOOLEAN
        /\ clock \in BOOLEAN /\ a \in BOOLEAN /\ b \in BOOLEAN /\ disable \in BOOLEAN
    BY DEF Init
  <2>6. QED BY <2>2, <2>3, <2>4, <2>5 DEF TypeOK
<1>2. RegistersRight
  <2>1. trace = <<>> /\ Len(trace) = 0 /\ prop \in Properties
    BY DEF Init
  <2>2. ASSUME NEW k \in Ages PROVE ~active[k] /\ ~Pending(trace, k)
    <3>1. k >= 1
      BY <2>1, <2>2, Window
    <3>2. k \in Nat
      BY <2>1, <2>2, Window
    <3>3. QED BY <2>1, <3>1, <3>2 DEF Init, Pending
  <2>3. QED BY <2>2 DEF RegistersRight
<1>3. QED BY <1>1, <1>2 DEF IInv

\* What the definitions of the window depend on does not change.
LEMMA WindowStays ==
  ASSUME Step, prop \in Properties
  PROVE  /\ prop' = prop /\ Instantaneous' = Instantaneous /\ Ages' = Ages
         /\ First' = First /\ Last' = Last /\ Minimum' = Minimum
BY DEF Step, Instantaneous, Ages, First, Last, Minimum, Maximum, Shift

LEMMA StepTypes == TypeOK /\ Step => TypeOK'
<1> SUFFICES ASSUME TypeOK, Step PROVE TypeOK'
  OBVIOUS
<1>1. prop \in Properties /\ prop' = prop /\ Ages' = Ages
      /\ Instantaneous' = Instantaneous /\ Last' = Last
  BY WindowStays DEF TypeOK
<1>2. Ages = 1..(IF Instantaneous THEN 0 ELSE Last) /\ Last \in Nat /\ First \in Nat
  BY <1>1, Window
<1>3. active' \in [Ages -> BOOLEAN]
  <2>1. ASSUME NEW k \in Ages
        PROVE  Register(active[k], Advanced(k - 1)) \in BOOLEAN
    BY <1>2 DEF TypeOK, Register, Advanced
  <2>2. QED BY <2>1 DEF Step
<1>4. trace' \in Seq([a : BOOLEAN, b : BOOLEAN]) /\ Len(trace') <= MaxSamples
  <2>1. [a |-> a, b |-> b] \in [a : BOOLEAN, b : BOOLEAN]
    BY DEF TypeOK
  <2>2. CASE disable
    BY <2>2, SamplesAssumption DEF Step, Record
  <2>3. CASE ~disable /\ Sample
    BY <2>1, <2>3, SamplesAssumption DEF Step, Record, TypeOK, Enabled
  <2>4. CASE ~disable /\ ~Sample
    BY <2>4 DEF Step, Record, TypeOK
  <2>5. QED BY <2>2, <2>3, <2>4
<1>5. QED BY <1>1, <1>2, <1>3, <1>4 DEF TypeOK, Step

\* A step makes of each register what the samples of the next step ask for.
LEMMA StepRegisters == IInv /\ Step => RegistersRight'
<1> SUFFICES ASSUME IInv, Step, NEW k \in Ages
             PROVE  active'[k] <=> Pending(trace, k)'
  BY WindowStays DEF RegistersRight, IInv, TypeOK
<1> DEFINE r == [a |-> a, b |-> b]
<1>1. /\ prop \in Properties /\ First' = First
      /\ trace \in Seq([a : BOOLEAN, b : BOOLEAN])
      /\ r \in [a : BOOLEAN, b : BOOLEAN]
  BY WindowStays DEF IInv, TypeOK
<1>2. /\ First \in Nat /\ Minimum = First /\ k \in Nat /\ k >= 1
      /\ k > 1 => k - 1 \in Ages
  BY <1>1, Window
<1>3. Pending(trace, k)' <=> Pending(trace', k)
  BY <1>1 DEF Pending
<1>4. active'[k] = Register(active[k], Advanced(k - 1))
  BY DEF Step
<1>5. active[k] <=> Pending(trace, k)
  BY DEF IInv, RegistersRight
<1>6. CASE disable
  <2>1. ~active'[k]
    BY <1>4, <1>6 DEF Register
  <2>2. trace' = <<>> /\ Len(trace') = 0
    BY <1>6 DEF Step, Record
  <2>3. ~Pending(trace', k)
    BY <1>2, <2>2 DEF Pending
  <2>4. QED BY <1>3, <2>1, <2>3
<1>7. CASE ~disable /\ ~Sample
  <2>1. active'[k] = active[k] /\ trace' = trace
    BY <1>4, <1>7 DEF Register, Step, Record
  <2>2. QED BY <1>3, <1>5, <2>1
<1>8. CASE ~disable /\ Sample
  <2>1. trace' = Append(trace, r)
    BY <1>8 DEF Step, Record
  <2>2. active'[k] = Advanced(k - 1)
    BY <1>4, <1>8 DEF Register
  <2>3. Pending(trace', k) <=> /\ IF k = 1 THEN r.a ELSE Pending(trace, k - 1)
                               /\ k - 1 >= First => ~r.b
    BY <1>1, <1>2, <2>1, OneSampleMore
  <2>4. k > 1 => (active[k - 1] <=> Pending(trace, k - 1))
    BY <1>2 DEF IInv, RegistersRight
  <2>5. Advanced(k - 1) <=> /\ IF k = 1 THEN r.a ELSE Pending(trace, k - 1)
                            /\ k - 1 >= First => ~r.b
    BY <1>2, <2>4 DEF Advanced
  <2>6. QED BY <1>3, <2>2, <2>3, <2>5
<1>9. QED BY <1>6, <1>7, <1>8

\* The invariant holds in every step of the transition system.
THEOREM Invariance == Spec => []IInv
<1>1. Init => IInv
  BY InitInvariant
<1>2. IInv /\ [Next]_vars => IInv'
  <2> SUFFICES ASSUME IInv, [Next]_vars PROVE IInv'
    OBVIOUS
  <2>1. CASE Step
    BY <2>1, StepTypes, StepRegisters DEF IInv
  <2>2. CASE UNCHANGED vars
    BY <2>2 DEF IInv, TypeOK, RegistersRight, Pending, vars, inputs, Ages, First, Last,
                Instantaneous, Maximum, Shift
  <2>3. QED BY <2>1, <2>2 DEF Next
<1>3. QED BY <1>1, <1>2, PTL DEF Spec

\* Types; one register for each sample an attempt can live.
THEOREM TypeCorrect == Spec => []TypeOK
<1>1. IInv => TypeOK
  BY DEF IInv
<1>2. QED BY <1>1, Invariance, PTL

-----------------------------------------------------------------------------
(* What the registers report, in a state the invariant describes.          *)

\* An attempt of age k began k samples before the present one.
LEMMA PendingIsUnanswered ==
  ASSUME TypeOK, NEW k \in Nat, k >= 1
  PROVE  LET n == Len(Samples) IN
           Pending(trace, k) <=> n - k >= 1 /\ Unanswered(n - k, n)
<1> DEFINE n == Len(Samples)
           m == Len(trace)
<1>1. /\ m \in Nat /\ n = m + 1 /\ \A i \in 1..m : Samples[i] = trace[i]
  BY DEF TypeOK, Samples
<1>2. First \in Nat
  BY Window DEF TypeOK
<1>3. CASE k <= m
  <2>1. m - k + 1 = n - k /\ n - k \in 1..m
    BY <1>1, <1>3
  <2>2. ASSUME NEW i \in First .. k - 1
        PROVE  Samples[n - k + i] = trace[n - k + i] /\ n - k + i \in n - k + First .. n - 1
    BY <1>1, <1>2, <1>3, <2>2
  <2>3. ASSUME NEW j \in n - k + First .. n - 1
        PROVE  j - (n - k) \in First .. k - 1 /\ n - k + (j - (n - k)) = j
    BY <1>1, <1>2, <1>3, <2>3
  <2>4. (\A i \in First .. k - 1 : ~trace[n - k + i].b)
          <=> (\A j \in n - k + First .. n - 1 : ~Samples[j].b)
    BY <2>2, <2>3
  <2>5. Samples[n - k].a <=> trace[n - k].a
    BY <1>1, <2>1
  <2>6. QED BY <1>1, <1>3, <2>1, <2>4, <2>5 DEF Pending, Unanswered
<1>4. CASE ~(k <= m)
  BY <1>1, <1>4 DEF Pending
<1>5. QED BY <1>3, <1>4

\* An attempt that starts at the present sample has no answer before it.
LEMMA PresentIsUnanswered ==
  ASSUME TypeOK
  PROVE  LET n == Len(Samples) IN
           /\ n \in Nat /\ n >= 1
           /\ Unanswered(n, n) <=> a
<1> DEFINE n == Len(Samples)
<1>1. n \in Nat /\ n >= 1 /\ Samples[n] = [a |-> a, b |-> b]
  BY DEF TypeOK, Samples
<1>2. First \in Nat
  BY Window DEF TypeOK
<1>3. n + First .. n - 1 = {}
  BY <1>1, <1>2
<1>4. QED BY <1>1, <1>3 DEF Unanswered

\* The solver's bad state is the failure of an attempt, for every window that
\* keeps its delay.
THEOREM ViolationRight ==
  ASSUME DelaysKept
  PROVE  Spec => []ViolationExact
<1>1. IInv => ViolationExact
  <2> SUFFICES ASSUME IInv PROVE ViolationExact
    OBVIOUS
  <2> DEFINE n == Len(Samples)
  <2>1. TypeOK /\ prop \in Properties /\ RegistersRight
    BY DEF IInv, TypeOK
  <2>2. /\ First \in Nat /\ Last \in Nat /\ Maximum = Last
        /\ Ages = 1..(IF Instantaneous THEN 0 ELSE Last)
    BY <2>1, Window
  <2>3. n \in Nat /\ n >= 1 /\ (Unanswered(n, n) <=> a)
    BY <2>1, PresentIsUnanswered
  <2>4. AttemptFails <=> n - Last >= 1 /\ Unanswered(n - Last, n) /\ ~b
    <3>1. \A s \in 1..n : n = s + Last <=> (s = n - Last)
      BY <2>2, <2>3
    <3>2. n - Last >= 1 <=> n - Last \in 1..n
      BY <2>2, <2>3
    <3>3. QED BY <3>1, <3>2 DEF AttemptFails
  <2>5. CASE Last = 0
    <3>1. Violation <=> Enabled /\ ~b /\ a
      BY <2>2, <2>5 DEF Violation
    <3>2. n - Last = n
      BY <2>3, <2>5
    <3>3. QED BY <2>3, <2>4, <3>1, <3>2 DEF ViolationExact
  <2>6. CASE Last # 0
    <3>1. ~Instantaneous
      <4>1. Instantaneous => prop.overlapped /\ prop.hi = 0
        BY <2>1, Window DEF DelaysKept, Instantaneous
      <4>2. QED BY <2>6, <4>1 DEF Last
    <3>2. Last \in Ages /\ Last >= 1
      BY <2>2, <2>6, <3>1
    <3>3. Violation <=> Enabled /\ ~b /\ active[Last]
      BY <2>2, <2>6, <3>1 DEF Violation
    <3>4. active[Last] <=> Pending(trace, Last)
      BY <2>1, <3>2 DEF RegistersRight
    <3>5. Pending(trace, Last) <=> n - Last >= 1 /\ Unanswered(n - Last, n)
      BY <2>1, <2>2, <3>2, PendingIsUnanswered
    <3>6. QED BY <2>4, <3>3, <3>4, <3>5 DEF ViolationExact
  <2>7. QED BY <2>5, <2>6
<1>2. QED BY <1>1, Invariance, PTL

\* A cover is reached by the first answer to an attempt.
THEOREM MatchRight ==
  ASSUME DelaysKept
  PROVE  Spec => []MatchExact
<1>1. IInv => MatchExact
  <2> SUFFICES ASSUME IInv PROVE MatchExact
    OBVIOUS
  <2> DEFINE n == Len(Samples)
             Answers(s) == n \in s + First .. s + Last /\ Unanswered(s, n)
  <2>1. TypeOK /\ prop \in Properties /\ RegistersRight
    BY DEF IInv, TypeOK
  <2>2. /\ First \in Nat /\ Last \in Nat /\ First <= Last
        /\ Minimum = First /\ Maximum = Last
        /\ Ages = 1..(IF Instantaneous THEN 0 ELSE Last)
    BY <2>1, Window
  <2>3. n \in Nat /\ n >= 1 /\ (Unanswered(n, n) <=> a)
    BY <2>1, PresentIsUnanswered
  <2>4. AttemptMatches <=> b /\ \E s \in 1..n : Answers(s)
    BY DEF AttemptMatches
  <2>5. Answers(n) <=> First = 0 /\ a
    BY <2>2, <2>3
  <2>6. \A s \in 1..n : s < n =>
          (Answers(s) <=> /\ n - s \in 1..Last /\ n - s >= First
                          /\ Pending(trace, n - s))
    <3> SUFFICES ASSUME NEW s \in 1..n, s < n
                 PROVE  Answers(s) <=> /\ n - s \in 1..Last /\ n - s >= First
                                       /\ Pending(trace, n - s)
      OBVIOUS
    <3>1. n - s \in Nat /\ n - s >= 1 /\ n - (n - s) = s /\ s >= 1
      BY <2>3
    <3>2. Pending(trace, n - s) <=> Unanswered(s, n)
      BY <2>1, <3>1, PendingIsUnanswered
    <3>3. n \in s + First .. s + Last <=> n - s \in 1..Last /\ n - s >= First
      BY <2>2, <2>3, <3>1
    <3>4. QED BY <3>2, <3>3
  <2>7. (\E s \in 1..n : Answers(s))
          <=> \/ First = 0 /\ a
              \/ \E k \in 1..Last : k >= First /\ Pending(trace, k)
    <3>1. ASSUME NEW k \in 1..Last, k >= First, Pending(trace, k)
          PROVE  n - k \in 1..n /\ n - k < n /\ n - (n - k) = k
      <4>1. k \in Nat /\ k >= 1
        BY <2>2
      <4>2. n - k >= 1
        BY <2>1, <3>1, <4>1, PendingIsUnanswered
      <4>3. QED BY <2>3, <4>1, <4>2
    <3>2. ASSUME NEW k \in 1..Last, k >= First, Pending(trace, k)
          PROVE  \E s \in 1..n : Answers(s)
      BY <2>6, <3>1, <3>2
    <3>3. n \in 1..n /\ \A s \in 1..n : s = n \/ s < n
      BY <2>3
    <3>4. QED BY <2>5, <2>6, <3>2, <3>3
  <2>8. CASE Instantaneous
    <3>1. prop.overlapped /\ prop.hi = 0
      BY <2>1, <2>8, Window DEF DelaysKept, Instantaneous
    <3>2. Last = 0
      BY <3>1 DEF Last
    <3>3. First = 0 /\ 1..Last = {}
      BY <2>2, <3>2
    <3>4. AttemptMatches <=> b /\ a
      BY <2>4, <2>7, <3>3
    <3>5. Match <=> Enabled /\ (a => b)
      BY <2>8 DEF Match
    <3>6. QED BY <2>8, <3>4, <3>5 DEF MatchExact
  <2>9. CASE ~Instantaneous
    <3>1. Ages = 1..Last
      BY <2>2, <2>9
    <3>2. (\E k \in Ages : Ripe(k) /\ active[k])
            <=> \E k \in 1..Last : k >= First /\ Pending(trace, k)
      BY <2>1, <2>2, <3>1 DEF RegistersRight, Ripe
    <3>3. Match <=> /\ Enabled /\ b
                    /\ \/ First = 0 /\ a
                       \/ \E k \in 1..Last : k >= First /\ Pending(trace, k)
      BY <2>2, <2>9, <3>2 DEF Match
    <3>4. QED BY <2>4, <2>7, <2>9, <3>3 DEF MatchExact
  <2>10. QED BY <2>8, <2>9
<1>2. QED BY <1>1, Invariance, PTL

\* Bad state and cover together.
THEOREM VerdictsRight ==
  ASSUME DelaysKept
  PROVE  Spec => []VerdictsExact
BY ViolationRight, MatchRight, PTL DEF VerdictsExact

\* A sample is an edge of the clock, and the first step has none.
THEOREM SamplesRight == Spec => SamplesAreEdges
<1> DEFINE OnEdges == /\ prop.edge = "posedge" => (Sample' <=> Rises)
                      /\ prop.edge = "negedge" => (Sample' <=> Falls)
           First0 == prop.edge # "any" => ~Sample
<1>1. Init => First0
  <2> SUFFICES ASSUME Init, prop.edge # "any" PROVE ~Sample
    OBVIOUS
  <2>1. previous = clock /\ prop.edge \in {"posedge", "negedge"}
    BY PropertiesAssumption DEF Init, InitialClock
  <2>2. QED BY <2>1 DEF Sample
<1>2. Step => OnEdges
  <2> SUFFICES ASSUME Step PROVE OnEdges
    OBVIOUS
  <2>1. prop' = prop /\ previous' = clock
    BY DEF Step
  <2>2. QED BY <2>1 DEF Sample, Rises, Falls
<1>3. [Next]_vars => [OnEdges]_vars
  BY <1>2 DEF Next
<1>4. QED BY <1>1, <1>3, PTL DEF Spec, SamplesAreEdges

-----------------------------------------------------------------------------
(***************************************************************************)
(* The automaton.  One register is set: for a deterministic automaton      *)
(* because no two edges of a state are open, for another because the input *)
(* names one edge; and the constraint sees to it that one is taken.        *)
(***************************************************************************)
OneRun == \E q \in Ends(automaton, word) : running = Only(q)
MonitorInv == MonitorTypeOK /\ OneRun /\ Transition

EdgeRecords(m) == [from : States(m), to : States(m), guard : SUBSET Letters]

LEMMA AutomatonParts ==
  ASSUME NEW m \in Automata
  PROVE  /\ m.states \in Nat /\ m.initial \in States(m) /\ m.accepting \subseteq States(m)
         /\ m.edges \in Seq(EdgeRecords(m)) /\ Len(m.edges) \in Nat
         /\ \A i \in 1..Len(m.edges) :
              m.edges[i].from \in States(m) /\ m.edges[i].to \in States(m)
         /\ m.det => \A i, j \in 1..Len(m.edges) :
                       /\ m.edges[i].from = m.edges[j].from
                       /\ m.edges[i].guard \cap m.edges[j].guard # {}
                       => i = j
<1>1. m.edges \in Seq(EdgeRecords(m))
  BY AutomataAssumption DEF EdgeRecords
<1>2. \A i \in 1..Len(m.edges) : m.edges[i] \in EdgeRecords(m)
  BY <1>1
<1>3. \A i \in 1..Len(m.edges) : m.edges[i].from \in States(m) /\ m.edges[i].to \in States(m)
  BY <1>2 DEF EdgeRecords
<1>4. Len(m.edges) \in Nat
  BY <1>1
<1>5. /\ m.states \in Nat /\ m.initial \in States(m) /\ m.accepting \subseteq States(m)
      /\ m.det => \A i, j \in 1..Len(m.edges) :
                    /\ m.edges[i].from = m.edges[j].from
                    /\ m.edges[i].guard \cap m.edges[j].guard # {}
                    => i = j
  BY AutomataAssumption, Zenon
<1> QED BY <1>1, <1>3, <1>4, <1>5, Zenon

\* Where one register is set, one edge is taken, or none.
LEMMA OneEdge ==
  ASSUME MonitorTypeOK, NEW q \in States(automaton), running = Only(q), NEW l \in Letters, NEW c,
         NEW i \in Selected(l, c)
  PROVE  /\ i \in Edges /\ automaton.edges[i].from = q /\ l \in automaton.edges[i].guard
         /\ automaton.edges[i].to \in States(automaton)
         /\ Entered(l, c) = Only(automaton.edges[i].to)
<1>0. automaton \in Automata
  BY DEF MonitorTypeOK
<1>1. \A j \in Selected(l, c) :
        /\ j \in Edges /\ automaton.edges[j].from = q /\ l \in automaton.edges[j].guard
        /\ automaton.det \/ c = j
  BY <1>0, AutomatonParts DEF Selected, Only, Edges
<1>2. \A j \in Selected(l, c) : j = i
  <2> SUFFICES ASSUME NEW j \in Selected(l, c) PROVE j = i
    OBVIOUS
  <2>1. CASE automaton.det
    <3>1. l \in automaton.edges[i].guard \cap automaton.edges[j].guard
      BY <1>1
    <3>2. automaton.edges[i].from = automaton.edges[j].from
      BY <1>1
    <3>3. i \in 1..Len(automaton.edges) /\ j \in 1..Len(automaton.edges)
      BY <1>1 DEF Edges
    <3> QED BY <1>0, <2>1, <3>1, <3>2, <3>3, AutomatonParts
  <2>2. CASE ~automaton.det
    BY <1>1, <2>2
  <2> QED BY <2>1, <2>2
<1>3. automaton.edges[i].to \in States(automaton)
  BY <1>0, <1>1, AutomatonParts DEF Edges
<1>4. Entered(l, c) = Only(automaton.edges[i].to)
  BY <1>2 DEF Entered, Only
<1> QED BY <1>1, <1>3, <1>4

\* An open edge is taken when its number is chosen.
LEMMA OpenEdge ==
  ASSUME MonitorTypeOK, NEW q \in States(automaton), running = Only(q), NEW l \in Letters,
         NEW i \in Edges, automaton.edges[i].from = q, l \in automaton.edges[i].guard
  PROVE  i \in Selected(l, i) /\ i \in Choices(automaton)
<1>1. automaton \in Automata
  BY DEF MonitorTypeOK
<1>2. Len(automaton.edges) \in Nat
  BY <1>1, AutomatonParts
<1>3. i \in Choices(automaton)
  BY <1>2 DEF Choices, Edges
<1>4. running[q]
  BY DEF Only
<1> QED BY <1>3, <1>4 DEF Selected

\* A run goes on over an edge that is open.
LEMMA RunGoesOn ==
  ASSUME NEW m \in Automata, NEW w \in Seq(Letters), NEW l \in Letters, NEW i \in 1..Len(m.edges),
         m.edges[i].from \in Ends(m, w), l \in m.edges[i].guard
  PROVE  m.edges[i].to \in Ends(m, Append(w, l))
<1> DEFINE n == Len(w)
           u == Append(w, l)
<1>1. PICK run \in [0..n -> States(m)] : IsRun(run, m, w) /\ run[n] = m.edges[i].from
  BY DEF Ends
<1> DEFINE next == [k \in 0..n + 1 |-> IF k = n + 1 THEN m.edges[i].to ELSE run[k]]
<1>2. n \in Nat /\ Len(u) = n + 1 /\ u[n + 1] = l /\ \A k \in 1..n : u[k] = w[k]
  OBVIOUS
<1>3. m.edges[i].to \in States(m)
  BY AutomatonParts
<1>4. next \in [0..n + 1 -> States(m)] /\ next[n + 1] = m.edges[i].to
      /\ \A k \in 0..n : next[k] = run[k]
  BY <1>2, <1>3
<1> HIDE DEF next
<1>5. IsRun(next, m, u)
  <2>1. next[0] = m.initial
    BY <1>1, <1>2, <1>4 DEF IsRun
  <2>2. ASSUME NEW k \in 1..n + 1
        PROVE  \E j \in 1..Len(m.edges) :
                 /\ m.edges[j].from = next[k - 1] /\ m.edges[j].to = next[k]
                 /\ u[k] \in m.edges[j].guard
    <3>1. CASE k = n + 1
      <4>1. k - 1 = n /\ n \in 0..n
        BY <1>2, <3>1
      <4> QED BY <1>1, <1>2, <1>4, <3>1, <4>1
    <3>2. CASE k # n + 1
      <4>1. k \in 1..n /\ k \in 0..n /\ k - 1 \in 0..n
        BY <1>2, <3>2
      <4>2. next[k - 1] = run[k - 1] /\ next[k] = run[k] /\ u[k] = w[k]
        BY <1>2, <1>4, <4>1
      <4>3. PICK j \in 1..Len(m.edges) :
              m.edges[j].from = run[k - 1] /\ m.edges[j].to = run[k] /\ w[k] \in m.edges[j].guard
        BY <1>1, <4>1 DEF IsRun
      <4> HIDE DEF u, n
      <4> QED BY <4>2, <4>3
    <3> QED BY <3>1, <3>2
  <2>3. 1..Len(u) = 1..n + 1
    BY <1>2
  <2> HIDE DEF u
  <2> QED BY <2>1, <2>2, <2>3, Zenon DEF IsRun
<1> QED BY <1>2, <1>3, <1>4, <1>5 DEF Ends

\* Before the first sample the run is where it begins.
LEMMA RunBegins ==
  ASSUME NEW m \in Automata
  PROVE  m.initial \in Ends(m, <<>>)
<1> DEFINE run == [k \in 0..0 |-> m.initial]
<1>1. m.initial \in States(m)
  BY AutomatonParts
<1>2. run \in [0..Len(<<>>) -> States(m)] /\ run[0] = m.initial /\ run[Len(<<>>)] = m.initial
  BY <1>1
<1>3. IsRun(run, m, <<>>)
  BY <1>2 DEF IsRun
<1> QED BY <1>1, <1>2, <1>3 DEF Ends

LEMMA MonitorBegins == MonitorInit => MonitorInv
<1> SUFFICES ASSUME MonitorInit PROVE MonitorInv
  OBVIOUS
<1>1. automaton \in Automata /\ Inputs /\ running = Begun(automaton) /\ word = <<>> /\ Transition
  BY DEF MonitorInit
<1>2. automaton.initial \in Ends(automaton, word) /\ Begun(automaton) = Only(automaton.initial)
  BY <1>1, RunBegins DEF Begun, Only
<1>3. running \in [States(automaton) -> BOOLEAN]
  BY <1>1 DEF Begun
<1>4. word \in Seq(Letters) /\ Len(word) <= MaxWord
  BY <1>1, WordAssumption
<1> QED BY <1>1, <1>2, <1>3, <1>4 DEF MonitorInv, MonitorTypeOK, OneRun

LEMMA MonitorGoesOn == MonitorInv /\ MonitorStep => MonitorInv'
<1> SUFFICES ASSUME MonitorInv, MonitorStep PROVE MonitorInv'
  OBVIOUS
<1>1. PICK q \in Ends(automaton, word) : running = Only(q)
  BY DEF MonitorInv, OneRun
<1>2. /\ MonitorTypeOK /\ q \in States(automaton) /\ automaton \in Automata /\ letter \in Letters
      /\ automaton' = automaton /\ Transition' /\ Inputs' /\ word \in Seq(Letters) /\ Transition
  BY DEF MonitorInv, MonitorTypeOK, MonitorStep, Ends, Inputs
<1>3. CASE disabled
  <2>1. running' = Only(automaton.initial) /\ word' = <<>>
    BY <1>3 DEF MonitorStep, Runs, Begun, Only
  <2>2. automaton.initial \in Ends(automaton, <<>>)
    BY <1>2, RunBegins
  <2>3. OneRun'
    BY <1>2, <2>1, <2>2 DEF OneRun, Only
  <2>4. MonitorTypeOK'
    BY <1>2, <2>1, WordAssumption DEF MonitorTypeOK, Only
  <2> QED BY <1>2, <2>3, <2>4 DEF MonitorInv
<1>4. CASE ~disabled /\ sampled
  <2>1. running' = Entered(letter, choice) /\ word' = Append(word, letter) /\ Len(word) < MaxWord
    BY <1>4 DEF MonitorStep, Runs, Moves
  <2>2. PICK i \in Selected(letter, choice) : TRUE
    BY <1>2, <1>4 DEF Transition, Moves, GoesOn
  <2>3. /\ i \in Edges /\ automaton.edges[i].from = q /\ letter \in automaton.edges[i].guard
        /\ automaton.edges[i].to \in States(automaton)
        /\ running' = Only(automaton.edges[i].to)
    BY <1>1, <1>2, <2>1, <2>2, OneEdge
  <2>4. automaton.edges[i].to \in Ends(automaton, word')
    BY <1>1, <1>2, <2>1, <2>3, RunGoesOn DEF Edges
  <2>5. OneRun'
    BY <1>2, <2>3, <2>4 DEF OneRun, Only
  <2>6. word' \in Seq(Letters) /\ Len(word') <= MaxWord
    BY <1>2, <2>1, WordAssumption
  <2>7. MonitorTypeOK'
    BY <1>2, <2>3, <2>6 DEF MonitorTypeOK, Only
  <2> QED BY <1>2, <2>5, <2>7 DEF MonitorInv
<1>5. CASE ~disabled /\ ~sampled
  <2>1. running' = running /\ word' = word
    BY <1>5 DEF MonitorStep, Runs
  <2>2. OneRun'
    BY <1>1, <1>2, <2>1 DEF OneRun, Only
  <2>3. MonitorTypeOK'
    BY <1>2, <2>1 DEF MonitorTypeOK
  <2> QED BY <1>2, <2>2, <2>3 DEF MonitorInv
<1> QED BY <1>3, <1>4, <1>5

LEMMA MonitorInvariant == MonitorSpec => []MonitorInv
<1>1. MonitorInv /\ UNCHANGED monitorVars => MonitorInv'
  BY DEF MonitorInv, MonitorTypeOK, OneRun, Transition, Moves, GoesOn, Selected, Edges, Inputs, Only,
         monitorVars, monitorInputs
<1> QED BY <1>1, MonitorBegins, MonitorGoesOn, PTL DEF MonitorSpec

(***************************************************************************)
(* For every automaton, deterministic or not, and any number of samples,   *)
(* disabled in between or not: the registers follow one run, the choices   *)
(* left open are its continuations, and the justice condition is its       *)
(* acceptance (BuchiMonitor::lower).                                       *)
(***************************************************************************)
THEOREM RunAlwaysFollowed == MonitorSpec => []RunFollowed
<1>1. MonitorInv => RunFollowed
  <2> SUFFICES ASSUME MonitorInv PROVE RunFollowed
    OBVIOUS
  <2>1. PICK q \in Ends(automaton, word) : running = Only(q)
    BY DEF MonitorInv, OneRun
  <2>2. MonitorTypeOK /\ q \in States(automaton) /\ automaton \in Automata
    BY DEF MonitorInv, MonitorTypeOK, Ends
  <2>3. ASSUME NEW l \in Letters, NEW c \in Choices(automaton), GoesOn(l, c)
        PROVE  Entered(l, c) \in {Only(p) : p \in Onwards(q, l)}
    <3>1. PICK i \in Selected(l, c) : TRUE
      BY <2>3 DEF GoesOn
    <3> QED BY <2>1, <2>2, <3>1, OneEdge DEF Onwards
  <2>4. ASSUME NEW l \in Letters, NEW p \in Onwards(q, l)
        PROVE  \E c \in Choices(automaton) : GoesOn(l, c) /\ Entered(l, c) = Only(p)
    <3>1. PICK i \in Edges : /\ automaton.edges[i].from = q /\ l \in automaton.edges[i].guard
                             /\ automaton.edges[i].to = p
      BY <2>4 DEF Onwards
    <3>2. i \in Selected(l, i) /\ i \in Choices(automaton)
      BY <2>1, <2>2, <3>1, OpenEdge
    <3>3. Entered(l, i) = Only(p)
      BY <2>1, <2>2, <3>1, <3>2, OneEdge
    <3> QED BY <3>2, <3>3 DEF GoesOn
  <2>5. ASSUME NEW l \in Letters
        PROVE  {Entered(l, c) : c \in {d \in Choices(automaton) : GoesOn(l, d)}}
               = {Only(p) : p \in Onwards(q, l)}
    BY <2>3, <2>4
  <2>6. Justice <=> Moves /\ q \in automaton.accepting
    <3>1. automaton.accepting \subseteq States(automaton)
      BY <2>2, AutomatonParts
    <3> QED BY <2>1, <3>1 DEF Justice, Only
  <2> QED BY <2>1, <2>5, <2>6 DEF RunFollowed
<1> QED BY <1>1, MonitorInvariant, PTL

\* A deterministic automaton has one run along a word: of two runs, look at the
\* first place at which they part.
LEMMA RunsAgree ==
  ASSUME NEW m \in Automata, m.det, NEW w \in Seq(Letters),
         NEW one \in [0..Len(w) -> States(m)], IsRun(one, m, w),
         NEW other \in [0..Len(w) -> States(m)], IsRun(other, m, w)
  PROVE  one = other
<1> DEFINE parted == {k \in 0..Len(w) : one[k] # other[k]}
<1>1. Len(w) \in Nat
  OBVIOUS
<1>2. CASE parted = {}
  <2>1. \A k \in 0..Len(w) : one[k] = other[k]
    BY <1>2
  <2> QED BY <2>1
<1>3. CASE parted # {}
  <2>1. parted \subseteq Nat
    OBVIOUS
  <2>2. PICK k \in parted : \A l \in parted : ~ (<<l, k>> \in OpToRel(<, Nat))
    <3> HIDE DEF parted
    <3> QED BY <1>3, <2>1, WFMin, NatLessThanWellFounded, Zenon
  <2>3. k \in 0..Len(w) /\ one[k] # other[k] /\ k \in Nat
    OBVIOUS
  <2>4. k # 0
    BY <2>3 DEF IsRun
  <2>5. k - 1 \in 0..Len(w) /\ k \in 1..Len(w) /\ k - 1 < k /\ k - 1 \in Nat
    BY <1>1, <2>3, <2>4
  <2>6. k - 1 \notin parted
    <3> HIDE DEF parted
    <3> QED BY <2>2, <2>3, <2>5 DEF OpToRel
  <2>7. one[k - 1] = other[k - 1]
    BY <2>5, <2>6
  <2>8. PICK i \in 1..Len(m.edges) :
          m.edges[i].from = one[k - 1] /\ m.edges[i].to = one[k] /\ w[k] \in m.edges[i].guard
    BY <2>5 DEF IsRun
  <2>9. PICK j \in 1..Len(m.edges) :
          m.edges[j].from = other[k - 1] /\ m.edges[j].to = other[k] /\ w[k] \in m.edges[j].guard
    BY <2>5 DEF IsRun
  <2>10. i = j
    <3>1. m.edges[i].guard \cap m.edges[j].guard # {}
      BY <2>8, <2>9
    <3> QED BY <2>7, <2>8, <2>9, <3>1, AutomatonParts
  <2> QED BY <2>3, <2>8, <2>9, <2>10
<1> QED BY <1>2, <1>3

(***************************************************************************)
(* Where Spot's automaton is deterministic, the registers are at the end   *)
(* of the only run there is, so that no choice of the solver is behind a   *)
(* verdict (BuchiMonitor::lower adds no input then).                       *)
(***************************************************************************)
THEOREM NothingChosen ==
  MonitorSpec => [](automaton.det => \A q \in Ends(automaton, word) : running = Only(q))
<1>1. MonitorInv => (automaton.det => \A q \in Ends(automaton, word) : running = Only(q))
  <2> SUFFICES ASSUME MonitorInv, automaton.det, NEW q \in Ends(automaton, word)
               PROVE  running = Only(q)
    OBVIOUS
  <2>1. automaton \in Automata /\ word \in Seq(Letters)
    BY DEF MonitorInv, MonitorTypeOK
  <2>2. PICK p \in Ends(automaton, word) : running = Only(p)
    BY DEF MonitorInv, OneRun
  <2>3. PICK one \in [0..Len(word) -> States(automaton)] :
          IsRun(one, automaton, word) /\ one[Len(word)] = p
    BY DEF Ends
  <2>4. PICK other \in [0..Len(word) -> States(automaton)] :
          IsRun(other, automaton, word) /\ other[Len(word)] = q
    BY DEF Ends
  <2>5. one = other
    BY <2>1, <2>3, <2>4, RunsAgree
  <2> QED BY <2>2, <2>3, <2>4, <2>5
<1> QED BY <1>1, MonitorInvariant, PTL
=============================================================================
