--------------------------- MODULE PropertyLowering -------------------------
(***************************************************************************)
(* What becomes of the properties of a design: the features by which the   *)
(* router chooses an engine, the components a directive is decomposed to,  *)
(* and the bad states, constraints and justice conditions these are        *)
(* lowered to.                                                             *)
(*                                                                         *)
(* A property is a tree: its operator, its operands, and of the remaining  *)
(* fields of frontend/SVA/Model/property.h those the lowering looks at.    *)
(***************************************************************************)
EXTENDS Naturals, Sequences, SequencesExt

Node(kind, operands) ==
  [kind |-> kind, operands |-> operands, sequence |-> "none", unbounded |-> FALSE,
   strong |-> FALSE, alternatives |-> <<>>]

\* A sequence is an atom, a delay before an atom, or another one.
Sequence(form, unbounded) ==
  [Node("sequence", <<>>) EXCEPT !.sequence = form, !.unbounded = unbounded]
Atom == Sequence("atom", FALSE)

Left(p) == p.operands[1]
Right(p) == p.operands[2]

Some(p, Test(_)) == \E i \in DOMAIN p.operands : Test(p.operands[i])
All(p, Test(_)) == \A i \in DOMAIN p.operands : Test(p.operands[i])

Sampled == {"negation", "conjunction", "disjunction", "iff"}

-----------------------------------------------------------------------------
(* PropertyProfile.cpp: the features of a directive.                       *)

RECURSIVE Temporal(_)
Temporal(p) ==
  \/ p.kind \in {"nexttime", "always", "eventually", "until"}
  \/ p.kind = "sequence" /\ p.sequence # "atom"
  \/ Some(p, Temporal)

RECURSIVE UnboundedLiveness(_)
UnboundedLiveness(p) ==
  \/ p.kind = "eventually" /\ p.unbounded
  \/ p.kind = "until" /\ p.strong
  \/ Some(p, UnboundedLiveness)

RECURSIVE Recurrence(_)
Recurrence(p) ==
  \/ p.kind = "always" /\ Left(p).kind = "eventually"
  \/ p.kind = "eventually" /\ Left(p).kind = "always"
  \/ Some(p, Recurrence)

Fairness(p) == p.kind = "implication" /\ All(p, Recurrence)

\* engine.cpp: what the SMT engine refuses.
RECURSIVE NonAtomic(_)
NonAtomic(p) ==
  \/ p.kind \notin Sampled \cup {"sequence"}
  \/ p.kind = "sequence" /\ p.sequence # "atom"
  \/ Some(p, NonAtomic)

-----------------------------------------------------------------------------
(* SVAToHIR.cpp: classes and components.                                   *)

Obligation(p) ==
  p.kind = "disjunction" /\ Left(p).kind = "always" /\ Right(p).kind = "eventually"

RECURSIVE Reactivity(_)
Reactivity(p) ==
  \/ /\ p.kind = "always" /\ Left(p).kind = "implication"
     /\ Right(Left(p)).kind = "eventually"
  \/ p.kind = "conjunction" /\ Some(p, Reactivity)

Class(p) ==
  IF p.kind = "always" /\ Left(p).kind = "eventually" THEN "recurrence"
  ELSE IF p.kind = "eventually" /\ Left(p).kind = "always" THEN "persistence"
  ELSE IF Reactivity(p) THEN "reactivity"
  ELSE IF Obligation(p) THEN "obligation"
  ELSE IF p.kind = "eventually" THEN "guarantee" ELSE "safety"

RECURSIVE Decompose(_)
Decompose(p) ==
  IF p.kind = "conjunction"
  THEN Decompose(Left(p)) \o Decompose(Right(p))
  ELSE <<[class |-> Class(p), formula |-> p]>>

\* PropertySimplification.cpp: a double negation, and an operator in itself; the
\* operator keeps its own bounds.
RECURSIVE Simplify(_)
Simplify(p) ==
  LET q == [p EXCEPT !.operands = [i \in DOMAIN p.operands |-> Simplify(p.operands[i])],
                     !.alternatives = [i \in DOMAIN @ |-> Simplify(@[i])]] IN
    CASE q.kind = "negation" /\ Left(q).kind = "negation" -> Left(Left(q))
      [] q.kind \in {"always", "eventually"} /\ Left(q).kind = q.kind ->
           [q EXCEPT !.operands = Left(q).operands]
      [] OTHER -> q

\* ComponentDeduplication.cpp: the first of equal components stays.
Components(p) ==
  LET parts == Decompose(p)
      simple == [i \in DOMAIN parts |->
                   [parts[i] EXCEPT !.formula = Simplify(parts[i].formula)]] IN
    SelectSeq(
      [i \in DOMAIN simple |-> [first |-> \A k \in 1 .. i - 1 : simple[k] # simple[i],
                                component |-> simple[i]]],
      LAMBDA c : c.first)

-----------------------------------------------------------------------------
(* monitor.cpp and lower_sva.cpp: how a component is lowered.              *)

RECURSIVE Instantaneous(_)
Instantaneous(p) ==
  \/ p.kind = "sequence" /\ p.sequence = "atom"
  \/ p.kind \in Sampled \cup {"implication"} /\ All(p, Instantaneous)

\* Under an always, an implication needs its registers.
RECURSIVE Combinational(_)
Combinational(p) ==
  \/ p.kind = "sequence" /\ p.sequence = "atom"
  \/ p.kind \in Sampled /\ All(p, Combinational)

BoundedImplication(p) ==
  /\ p.kind = "implication"
  /\ Left(p).kind = "sequence" /\ Left(p).sequence = "atom"
  /\ Right(p).kind = "sequence" /\ Right(p).sequence \in {"atom", "delay"}
  /\ ~Right(p).unbounded

\* The kinds of BTOR2 properties of a directive: assert, assume or cover.
Emitted(directive, p) ==
  LET core == IF p.kind = "always" THEN Left(p) ELSE p
      target == IF directive = "assume" THEN "constraint" ELSE "bad" IN
    IF \/ Instantaneous(p)
       \/ /\ directive # "assume"
          /\ (p.kind = "always" /\ Combinational(core)) \/ BoundedImplication(core)
    THEN {target} ELSE {"constraint", "justice"}

\* HIRToIR.cpp: the environment, and the components of the property selected.
Kinds(directive, p, environment) ==
  UNION {Emitted("assume", e) : e \in environment} \cup
  UNION {Emitted(directive, c.component.formula) : c \in ToSet(Components(p))}

\* PropertyPartition.cpp: what a part of the model has to be about.
ModelParts(kinds) ==
  (IF "bad" \in kinds THEN {"safety"} ELSE {}) \cup
  (IF "justice" \in kinds THEN {"liveness"} ELSE {})
=============================================================================
