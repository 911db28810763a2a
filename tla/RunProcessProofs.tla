-------------------------- MODULE RunProcessProofs --------------------------
(***************************************************************************)
(* Proofs about RunProcess, for any number of jobs, any pipe and any       *)
(* number of lines, with failing system calls or without.                  *)
(***************************************************************************)
EXTENDS RunProcess, TLAPS

(***************************************************************************)
(* The inductive invariant.  Where the caller stands tells whether there   *)
(* is a child (Placed); the lines in the pipe are those that are not yet   *)
(* in the result, in order (Kept).                                         *)
(***************************************************************************)
Polling == {"read", "reap", "timer", "grace", "escalate", "kill"}

Placed ==
  \A j \in Jobs :
    /\ pc[j] \in {"idle", "fork"} => stage[j] = "none"
    /\ pc[j] = "adopt" \/ pc[j] \in Polling => stage[j] \notin {"none", "reaped"}
    /\ pc[j] \in {"drain", "returned"} => stage[j] = "reaped"
    /\ pc[j] \in Polling => group[j]
    /\ pc[j] = "returned" => pipe[j] = <<>>

\* o is 1, 2, ..., and p holds, between progress lines, the rest up to n.
InOrder(o, p, n) ==
  /\ Len(o) <= n
  /\ \A i \in 1..Len(o) : o[i] = i
  /\ \A i \in 1..Len(p) : p[i] # Progress => p[i] \in Len(o) + 1 .. n
  /\ \A m \in Len(o) + 1 .. n : \E i \in 1..Len(p) : p[i] = m
  /\ \A i, k \in 1..Len(p) :
       i < k /\ p[i] # Progress /\ p[k] # Progress => p[i] < p[k]

Kept == \A j \in Jobs : InOrder(output[j], pipe[j], lines[j])

IInv == TypeOK /\ Placed /\ Kept /\ TimeoutsReach /\ NoSolverLeftAlone

USE JobsAssumption, SizesAssumption, HwcIsNoJob

-----------------------------------------------------------------------------
(* Lines keep their order.                                                 *)

\* The first line of the pipe, if it counts, is the next of the result.
LEMMA CollectInOrder ==
  ASSUME NEW o \in Seq(Nat), NEW p \in Seq(Nat), NEW n \in Nat,
         InOrder(o, p, n), p # <<>>
  PROVE  InOrder(IF Head(p) = Progress THEN o ELSE Append(o, Head(p)), Tail(p), n)
<1>1. /\ Len(p) \in Nat /\ Len(p) >= 1 /\ Head(p) = p[1] /\ p[1] \in Nat
      /\ Tail(p) \in Seq(Nat) /\ Len(Tail(p)) = Len(p) - 1
      /\ \A i \in 1..Len(Tail(p)) : Tail(p)[i] = p[i + 1]
  OBVIOUS
<1>2. CASE Head(p) = Progress
  <2>1. \A m \in Len(o) + 1 .. n : \E i \in 1..Len(Tail(p)) : Tail(p)[i] = m
    <3> TAKE m \in Len(o) + 1 .. n
    <3>1. PICK i \in 1..Len(p) : p[i] = m
      BY DEF InOrder
    <3>2. i # 1
      BY <1>1, <1>2, <3>1 DEF Progress
    <3>3. i - 1 \in 1..Len(Tail(p)) /\ Tail(p)[i - 1] = m
      BY <1>1, <3>1, <3>2
    <3> QED BY <3>3
  <2>2. /\ \A i \in 1..Len(Tail(p)) : Tail(p)[i] # Progress => Tail(p)[i] \in Len(o) + 1 .. n
        /\ \A i, k \in 1..Len(Tail(p)) :
             i < k /\ Tail(p)[i] # Progress /\ Tail(p)[k] # Progress
               => Tail(p)[i] < Tail(p)[k]
    BY <1>1 DEF InOrder
  <2> QED BY <1>2, <2>1, <2>2 DEF InOrder
<1>3. CASE Head(p) # Progress
  <2> DEFINE a == Append(o, Head(p))
  <2>1. /\ Len(o) \in Nat /\ Len(a) = Len(o) + 1
        /\ \A i \in 1..Len(o) : a[i] = o[i]
        /\ a[Len(o) + 1] = p[1]
    BY <1>1
  <2>2. p[1] = Len(o) + 1
    <3>1. p[1] \in Len(o) + 1 .. n
      BY <1>1, <1>3 DEF InOrder
    <3>2. PICK i \in 1..Len(p) : p[i] = Len(o) + 1
      <4>1. Len(o) + 1 \in Len(o) + 1 .. n
        BY <2>1, <3>1
      <4> QED BY <4>1, Zenon DEF InOrder
    <3>3. i # 1 => p[1] < p[i]
      BY <1>1, <1>3, <2>1, <3>2 DEF InOrder, Progress
    <3> QED BY <2>1, <3>1, <3>2, <3>3
  <2> HIDE DEF a
  <2>3. Len(a) <= n /\ \A i \in 1..Len(a) : a[i] = i
    <3>1. Len(o) + 1 \in Len(o) + 1 .. n /\ n \in Nat
      BY <1>1, <1>3, <2>2 DEF InOrder
    <3>2. \A i \in 1..Len(o) : o[i] = i
      BY <1>1 DEF InOrder
    <3>3. ASSUME NEW i \in 1..Len(a) PROVE a[i] = i
      <4>1. CASE i = Len(o) + 1
        BY <4>1, <2>1, <2>2
      <4>2. CASE i # Len(o) + 1
        <5>1. i \in 1..Len(o)
          BY <4>2, <2>1
        <5> QED BY <5>1, <2>1, <3>2
      <4> QED BY <4>1, <4>2
    <3> QED BY <2>1, <3>1, <3>3
  <2>4. \A i \in 1..Len(Tail(p)) : Tail(p)[i] # Progress => Tail(p)[i] \in Len(a) + 1 .. n
    <3> SUFFICES ASSUME NEW i \in 1..Len(Tail(p)), Tail(p)[i] # Progress
                 PROVE  Tail(p)[i] \in Len(a) + 1 .. n
      OBVIOUS
    <3>1. i + 1 \in 1..Len(p) /\ 1 \in 1..Len(p) /\ 1 < i + 1
      BY <1>1
    <3>2. p[i + 1] # Progress /\ Tail(p)[i] = p[i + 1]
      BY <1>1
    <3>3. p[1] < p[i + 1] /\ p[i + 1] \in Len(o) + 1 .. n
      BY <1>1, <1>3, <3>1, <3>2 DEF InOrder
    <3> QED BY <2>1, <2>2, <3>2, <3>3
  <2>5. \A m \in Len(a) + 1 .. n : \E i \in 1..Len(Tail(p)) : Tail(p)[i] = m
    <3> TAKE m \in Len(a) + 1 .. n
    <3>1. PICK i \in 1..Len(p) : p[i] = m
      <4>1. m \in Len(o) + 1 .. n
        BY <2>1
      <4> QED BY <4>1, Zenon DEF InOrder
    <3>2. i # 1
      BY <2>1, <2>2, <3>1
    <3>3. i - 1 \in 1..Len(Tail(p)) /\ Tail(p)[i - 1] = m
      BY <1>1, <3>1, <3>2
    <3> QED BY <3>3
  <2>6. \A i, k \in 1..Len(Tail(p)) :
          i < k /\ Tail(p)[i] # Progress /\ Tail(p)[k] # Progress
            => Tail(p)[i] < Tail(p)[k]
    BY <1>1 DEF InOrder
  <2>7. InOrder(a, Tail(p), n)
    BY <2>3, <2>4, <2>5, <2>6 DEF InOrder
  <2> QED BY <1>3, <2>7 DEF a
<1> QED BY <1>2, <1>3

\* A progress line changes nothing.
LEMMA ChatInOrder ==
  ASSUME NEW o \in Seq(Nat), NEW p \in Seq(Nat), NEW n \in Nat, InOrder(o, p, n)
  PROVE  InOrder(o, Append(p, Progress), n)
<1> DEFINE a == Append(p, Progress)
<1>1. /\ Len(p) \in Nat /\ Len(a) = Len(p) + 1
      /\ \A i \in 1..Len(p) : a[i] = p[i]
      /\ a[Len(p) + 1] = Progress
  BY DEF Progress
<1> HIDE DEF a
<1>2. \A m \in Len(o) + 1 .. n : \E i \in 1..Len(a) : a[i] = m
  <2> TAKE m \in Len(o) + 1 .. n
  <2>1. PICK i \in 1..Len(p) : p[i] = m
    BY DEF InOrder
  <2>2. i \in 1..Len(a) /\ a[i] = m
    BY <1>1, <2>1
  <2> QED BY <2>2
<1>3. ASSUME NEW i \in 1..Len(a), a[i] # Progress
      PROVE  i \in 1..Len(p) /\ a[i] = p[i]
  <2>1. i # Len(p) + 1
    BY <1>1, <1>3
  <2>2. i \in 1..Len(p)
    BY <1>1, <2>1
  <2> QED BY <1>1, <2>2
<1>4. InOrder(o, a, n)
  BY <1>2, <1>3 DEF InOrder
<1> QED BY <1>4 DEF a

\* The next line goes behind all others.
LEMMA WriteInOrder ==
  ASSUME NEW o \in Seq(Nat), NEW p \in Seq(Nat), NEW n \in Nat, InOrder(o, p, n)
  PROVE  InOrder(o, Append(p, n + 1), n + 1)
<1> DEFINE a == Append(p, n + 1)
<1>1. /\ Len(p) \in Nat /\ Len(a) = Len(p) + 1
      /\ \A i \in 1..Len(p) : a[i] = p[i] /\ p[i] \in Nat
      /\ a[Len(p) + 1] = n + 1
      /\ Len(o) \in Nat /\ Len(o) <= n
  BY DEF InOrder
<1> HIDE DEF a
<1>2. \A m \in Len(o) + 1 .. n + 1 : \E i \in 1..Len(a) : a[i] = m
  <2> TAKE m \in Len(o) + 1 .. n + 1
  <2>1. CASE m = n + 1
    <3>1. Len(p) + 1 \in 1..Len(a)
      BY <1>1
    <3> QED BY <1>1, <2>1, <3>1
  <2>2. CASE m # n + 1
    <3>1. m \in Len(o) + 1 .. n
      BY <1>1, <2>2
    <3>2. PICK i \in 1..Len(p) : p[i] = m
      BY <3>1 DEF InOrder
    <3>3. i \in 1..Len(a) /\ a[i] = m
      BY <1>1, <3>2
    <3> QED BY <3>3
  <2> QED BY <2>1, <2>2
<1>3. \A i \in 1..Len(a) : i \in 1..Len(p) \/ i = Len(p) + 1
  BY <1>1
<1>4. \A i \in 1..Len(a) : a[i] # Progress => a[i] \in Len(o) + 1 .. n + 1
  <2> SUFFICES ASSUME NEW i \in 1..Len(a), a[i] # Progress
               PROVE  a[i] \in Len(o) + 1 .. n + 1
    OBVIOUS
  <2>1. CASE i \in 1..Len(p)
    <3>1. p[i] \in Len(o) + 1 .. n
      BY <1>1, <2>1, Zenon DEF InOrder
    <3> QED BY <1>1, <2>1, <3>1
  <2>2. CASE i = Len(p) + 1
    BY <1>1, <2>2
  <2> QED BY <1>3, <2>1, <2>2
<1>5. \A i, k \in 1..Len(a) :
        i < k /\ a[i] # Progress /\ a[k] # Progress => a[i] < a[k]
  <2> SUFFICES ASSUME NEW i \in 1..Len(a), NEW k \in 1..Len(a),
                      i < k, a[i] # Progress, a[k] # Progress
               PROVE  a[i] < a[k]
    OBVIOUS
  <2>1. i \in 1..Len(p) /\ a[i] = p[i]
    BY <1>1
  <2>2. p[i] \in Len(o) + 1 .. n
    BY <2>1 DEF InOrder
  <2>3. CASE k \in 1..Len(p)
    BY <1>1, <2>1, <2>3 DEF InOrder
  <2>4. CASE k = Len(p) + 1
    BY <1>1, <2>1, <2>2, <2>4
  <2> QED BY <1>3, <2>3, <2>4
<1>6. \A i \in 1..Len(o) : o[i] = i
  BY DEF InOrder
<1>7. InOrder(o, a, n + 1)
  BY <1>1, <1>2, <1>4, <1>5, <1>6 DEF InOrder
<1> QED BY <1>7 DEF a

-----------------------------------------------------------------------------
(* Every step keeps the invariant.                                         *)

\* Types.
LEMMA TypeStep ==
  ASSUME TypeOK, [Next]_vars
  PROVE  TypeOK'
<1> USE DEF At, GoTo, procVars, pipeVars, callVars, TypeOK, Callers, Stages,
        Starting, Running, Signals, Codes, Signalled, Progress
<1>1. ASSUME NEW j \in Jobs, MakePipe(j) PROVE TypeOK'
  BY <1>1 DEF MakePipe
<1>2. ASSUME NEW j \in Jobs, Fork(j) PROVE TypeOK'
  BY <1>2 DEF Fork
<1>3. ASSUME NEW j \in Jobs, Adopt(j) PROVE TypeOK'
  BY <1>3 DEF Adopt, Groups
<1>4. ASSUME NEW j \in Jobs, Read(j) PROVE TypeOK'
  BY <1>4 DEF Read, Collect
<1>5. ASSUME NEW j \in Jobs, NothingToRead(j) PROVE TypeOK'
  BY <1>5 DEF NothingToRead
<1>6. ASSUME NEW j \in Jobs, Reap(j) PROVE TypeOK'
  <2>1. stage' \in [Jobs -> Stages]
    <3>1. CASE stage[j] = "zombie"
      <4>1. stage' = [stage EXCEPT ![j] = "reaped"]
        BY <1>6, <3>1 DEF Reap, Reaped, Finish
      <4> QED BY <4>1
    <3>2. CASE stage[j] # "zombie"
      <4>1. stage' = stage
        BY <1>6, <3>2 DEF Reap, Reaped, Finish
      <4> QED BY <4>1
    <3> QED BY <1>6, <3>1, <3>2 DEF Reap
  <2>2. pc' \in [Jobs -> Callers]
    <3>1. CASE stage[j] = "zombie"
      <4>1. pc' = [pc EXCEPT ![j] = "drain"]
        BY <1>6, <3>1 DEF Reap, Reaped, Finish
      <4> QED BY <4>1
    <3>2. CASE stage[j] # "zombie"
      <4>1. pc' = [pc EXCEPT ![j] = "timer"]
        BY <1>6, <3>2 DEF Reap, Reaped, Finish
      <4> QED BY <4>1
    <3> QED BY <1>6, <3>1, <3>2 DEF Reap
  <2>3. UNCHANGED <<alive, group, sent, status, pipeVars, callVars, late>>
    BY <1>6 DEF Reap, Reaped, Finish
  <2> QED BY <2>1, <2>2, <2>3
<1>7. ASSUME NEW j \in Jobs, InTime(j) PROVE TypeOK'
  BY <1>7 DEF InTime, TimeIsUp
<1>8. ASSUME NEW j \in Jobs, Expire(j) PROVE TypeOK'
  BY <1>8 DEF Expire, Signal, TimeIsUp
<1>9. ASSUME NEW j \in Jobs, ReapInGrace(j) PROVE TypeOK'
  BY <1>9 DEF ReapInGrace, Reaped, Finish, Graced
<1>10. ASSUME NEW j \in Jobs, GraceOver(j) PROVE TypeOK'
  BY <1>10 DEF GraceOver
<1>11. ASSUME NEW j \in Jobs, KillGroup(j) PROVE TypeOK'
  BY <1>11 DEF KillGroup, Signal
<1>12. ASSUME NEW j \in Jobs, ReapKilled(j) PROVE TypeOK'
  BY <1>12 DEF ReapKilled, Reaped, Finish
<1>13. ASSUME NEW j \in Jobs, Drain(j) PROVE TypeOK'
  BY <1>13 DEF Drain, Collect
<1>14. ASSUME NEW j \in Jobs, Return(j) PROVE TypeOK'
  BY <1>14 DEF Return, Empty
<1>15. ASSUME NEW j \in Jobs, CannotStart(j) PROVE TypeOK'
  BY <1>15 DEF CannotStart
<1>16. ASSUME NEW j \in Jobs, PollFails(j) PROVE TypeOK'
  BY <1>16 DEF PollFails
<1>17. ASSUME NEW j \in Jobs, LeadGroup(j) PROVE TypeOK'
  BY <1>17 DEF LeadGroup, Becomes
<1>18. ASSUME NEW j \in Jobs, Arm(j) PROVE TypeOK'
  BY <1>18 DEF Arm, Becomes
<1>19. ASSUME NEW j \in Jobs, CheckParent(j) PROVE TypeOK'
  <2>1. stage' \in [Jobs -> Stages]
    <3>1. CASE ParentThere
      <4>1. stage' = [stage EXCEPT ![j] = "checked"]
        BY <1>19, <3>1 DEF CheckParent, Becomes, Exit
      <4> QED BY <4>1
    <3>2. CASE ~ParentThere
      <4>1. stage' = [stage EXCEPT ![j] = "zombie"]
        BY <1>19, <3>2 DEF CheckParent, Becomes, Exit
      <4> QED BY <4>1
    <3> QED BY <1>19, <3>1, <3>2 DEF CheckParent
  <2>2. status' \in [Jobs -> Codes \cup {Signalled}]
    <3>1. CASE ParentThere
      <4>1. status' = status
        BY <1>19, <3>1 DEF CheckParent, Becomes, Exit
      <4> QED BY <4>1
    <3>2. CASE ~ParentThere
      <4>1. status' = [status EXCEPT ![j] = 143]
        BY <1>19, <3>2 DEF CheckParent, Becomes, Exit
      <4> QED BY <4>1
    <3> QED BY <1>19, <3>1, <3>2 DEF CheckParent
  <2>3. holders' \in [Jobs -> SUBSET (Jobs \cup {Hwc})]
    BY <1>19 DEF CheckParent, Becomes, Exit
  <2>4. UNCHANGED <<alive, pc, group, sent, pipe, lines, callVars, late>>
    BY <1>19 DEF CheckParent, Becomes, Exit
  <2> QED BY <2>1, <2>2, <2>3, <2>4
<1>20. ASSUME NEW j \in Jobs, Exec(j) PROVE TypeOK'
  <2>1. stage' \in [Jobs -> Stages]
    <3>1. CASE Becomes(j, "checked", "solver")
      <4>1. stage' = [stage EXCEPT ![j] = "solver"]
        BY <1>20, <3>1 DEF Exec, Becomes, Exit
      <4> QED BY <4>1
    <3>2. CASE \E code \in {126, 127} : sent[j] = {} /\ Exit(j, code)
      <4>1. stage' = [stage EXCEPT ![j] = "zombie"]
        BY <1>20, <3>2 DEF Exec, Becomes, Exit
      <4> QED BY <4>1
    <3> QED BY <1>20, <3>1, <3>2 DEF Exec
  <2>2. status' \in [Jobs -> Codes \cup {Signalled}]
    <3>1. CASE Becomes(j, "checked", "solver")
      <4>1. status' = status
        BY <1>20, <3>1 DEF Exec, Becomes, Exit
      <4> QED BY <4>1
    <3>2. CASE \E code \in {126, 127} : sent[j] = {} /\ Exit(j, code)
      <4>1. \E code \in {126, 127} : status' = [status EXCEPT ![j] = code]
        BY <1>20, <3>2 DEF Exec, Becomes, Exit
      <4> QED BY <4>1
    <3> QED BY <1>20, <3>1, <3>2 DEF Exec
  <2>3. holders' \in [Jobs -> SUBSET (Jobs \cup {Hwc})]
    BY <1>20 DEF Exec, Becomes, Exit
  <2>4. UNCHANGED <<alive, pc, group, sent, pipe, lines, callVars, late>>
    BY <1>20 DEF Exec, Becomes, Exit
  <2> QED BY <2>1, <2>2, <2>3, <2>4
<1>21. ASSUME NEW j \in Jobs, Write(j) PROVE TypeOK'
  BY <1>21 DEF Write
<1>22. ASSUME NEW j \in Jobs, Chat(j) PROVE TypeOK'
  BY <1>22 DEF Chat
<1>23. ASSUME NEW j \in Jobs, End(j) PROVE TypeOK'
  BY <1>23 DEF End, Exit
<1>24. ASSUME NEW j \in Jobs, DieOfSignal(j) PROVE TypeOK'
  BY <1>24 DEF DieOfSignal, Exit
<1>25. ASSUME NEW j \in Jobs, TimePasses(j) PROVE TypeOK'
  <2>1. late' \in [Jobs -> {"early", "late", "over"}]
    <3>1. CASE pc[j] = "grace"
      <4>1. late' = [late EXCEPT ![j] = "over"]
        BY <1>25, <3>1 DEF TimePasses
      <4> QED BY <4>1
    <3>2. CASE pc[j] # "grace"
      <4>1. late' = [late EXCEPT ![j] = "late"]
        BY <1>25, <3>2 DEF TimePasses
      <4> QED BY <4>1
    <3> QED BY <1>25, <3>1, <3>2 DEF TimePasses
  <2>2. UNCHANGED <<alive, pc, procVars, pipeVars, callVars>>
    BY <1>25 DEF TimePasses
  <2> QED BY <2>1, <2>2
<1>26. ASSUME NEW j \in Jobs, ThreadEnds(j) PROVE TypeOK'
  BY <1>26 DEF ThreadEnds
<1>27. CASE Crash
  <2>1. sent' \in [Jobs -> SUBSET Signals]
    BY <1>27 DEF Crash
  <2>2. holders' \in [Jobs -> SUBSET (Jobs \cup {Hwc})]
    BY <1>27 DEF Crash
  <2> QED BY <1>27, <2>1, <2>2 DEF Crash
<1>28. CASE UNCHANGED vars
  BY <1>28 DEF vars
<1>29. ASSUME NEW j \in Jobs, BreakOff(j) PROVE TypeOK'
  BY <1>29 DEF BreakOff
<1> QED BY <1>1, <1>2, <1>3, <1>4, <1>5, <1>6, <1>7, <1>8, <1>9, <1>10, <1>11,
        <1>12, <1>13, <1>14, <1>15, <1>16, <1>17, <1>18, <1>19, <1>20, <1>21,
        <1>22, <1>23, <1>24, <1>25, <1>26, <1>27, <1>28, <1>29
        DEF Next, Caller, Failure, Starts

\* Where the caller stands tells whether there is a child.
LEMMA PlacedStep ==
  ASSUME TypeOK, Placed, [Next]_vars
  PROVE  Placed'
<1> USE DEF At, GoTo, procVars, pipeVars, callVars, TypeOK, Placed, Polling,
        Starting, Running
<1>1. ASSUME NEW j \in Jobs, MakePipe(j) PROVE Placed'
  BY <1>1 DEF MakePipe
<1>2. ASSUME NEW j \in Jobs, Fork(j) PROVE Placed'
  BY <1>2 DEF Fork
<1>3. ASSUME NEW j \in Jobs, Adopt(j) PROVE Placed'
  BY <1>3 DEF Adopt, Groups
<1>4. ASSUME NEW j \in Jobs, Read(j) PROVE Placed'
  BY <1>4 DEF Read, Collect
<1>5. ASSUME NEW j \in Jobs, NothingToRead(j) PROVE Placed'
  BY <1>5 DEF NothingToRead
<1>6. ASSUME NEW j \in Jobs, Reap(j) PROVE Placed'
  <2>1. CASE stage[j] = "zombie"
    BY <1>6, <2>1 DEF Reap, Reaped, Finish
  <2>2. CASE stage[j] # "zombie"
    BY <1>6, <2>2 DEF Reap, Reaped, Finish
  <2> QED BY <1>6, <2>1, <2>2 DEF Reap
<1>7. ASSUME NEW j \in Jobs, InTime(j) PROVE Placed'
  BY <1>7 DEF InTime, TimeIsUp
<1>8. ASSUME NEW j \in Jobs, Expire(j) PROVE Placed'
  BY <1>8 DEF Expire, Signal, TimeIsUp
<1>9. ASSUME NEW j \in Jobs, ReapInGrace(j) PROVE Placed'
  BY <1>9 DEF ReapInGrace, Reaped, Finish, Graced
<1>10. ASSUME NEW j \in Jobs, GraceOver(j) PROVE Placed'
  BY <1>10 DEF GraceOver
<1>11. ASSUME NEW j \in Jobs, KillGroup(j) PROVE Placed'
  BY <1>11 DEF KillGroup, Signal
<1>12. ASSUME NEW j \in Jobs, ReapKilled(j) PROVE Placed'
  BY <1>12 DEF ReapKilled, Reaped, Finish
<1>13. ASSUME NEW j \in Jobs, Drain(j) PROVE Placed'
  BY <1>13 DEF Drain, Collect
<1>14. ASSUME NEW j \in Jobs, Return(j) PROVE Placed'
  BY <1>14 DEF Return, Empty
<1>15. ASSUME NEW j \in Jobs, CannotStart(j) PROVE Placed'
  BY <1>15 DEF CannotStart
<1>16. ASSUME NEW j \in Jobs, PollFails(j) PROVE Placed'
  BY <1>16 DEF PollFails
<1>17. ASSUME NEW j \in Jobs, LeadGroup(j) PROVE Placed'
  BY <1>17 DEF LeadGroup, Becomes
<1>18. ASSUME NEW j \in Jobs, Arm(j) PROVE Placed'
  BY <1>18 DEF Arm, Becomes
<1>19. ASSUME NEW j \in Jobs, CheckParent(j) PROVE Placed'
  <2>1. CASE ParentThere
    BY <1>19, <2>1 DEF CheckParent, Becomes, Exit
  <2>2. CASE ~ParentThere
    BY <1>19, <2>2 DEF CheckParent, Becomes, Exit
  <2> QED BY <1>19, <2>1, <2>2 DEF CheckParent
<1>20. ASSUME NEW j \in Jobs, Exec(j) PROVE Placed'
  <2>1. CASE Becomes(j, "checked", "solver")
    BY <1>20, <2>1 DEF Exec, Becomes, Exit
  <2>2. CASE \E code \in {126, 127} : stage[j] = "checked" /\ sent[j] = {} /\ Exit(j, code)
    BY <1>20, <2>2 DEF Exec, Becomes, Exit
  <2> QED BY <1>20, <2>1, <2>2 DEF Exec
<1>21. ASSUME NEW j \in Jobs, Write(j) PROVE Placed'
  BY <1>21 DEF Write
<1>22. ASSUME NEW j \in Jobs, Chat(j) PROVE Placed'
  BY <1>22 DEF Chat
<1>23. ASSUME NEW j \in Jobs, End(j) PROVE Placed'
  BY <1>23 DEF End, Exit
<1>24. ASSUME NEW j \in Jobs, DieOfSignal(j) PROVE Placed'
  BY <1>24 DEF DieOfSignal, Exit
<1>25. ASSUME NEW j \in Jobs, TimePasses(j) PROVE Placed'
  <2>1. CASE pc[j] = "grace"
    BY <1>25, <2>1 DEF TimePasses
  <2>2. CASE pc[j] # "grace"
    BY <1>25, <2>2 DEF TimePasses
  <2> QED BY <1>25, <2>1, <2>2 DEF TimePasses
<1>26. ASSUME NEW j \in Jobs, ThreadEnds(j) PROVE Placed'
  BY <1>26 DEF ThreadEnds
<1>27. CASE Crash
  BY <1>27 DEF Crash
<1>28. CASE UNCHANGED vars
  BY <1>28 DEF vars
<1>29. ASSUME NEW j \in Jobs, BreakOff(j) PROVE Placed'
  BY <1>29 DEF BreakOff
<1> QED BY <1>1, <1>2, <1>3, <1>4, <1>5, <1>6, <1>7, <1>8, <1>9, <1>10, <1>11,
        <1>12, <1>13, <1>14, <1>15, <1>16, <1>17, <1>18, <1>19, <1>20, <1>21,
        <1>22, <1>23, <1>24, <1>25, <1>26, <1>27, <1>28, <1>29
        DEF Next, Caller, Failure, Starts

\* The signals are in.
LEMMA ReachStep ==
  ASSUME TypeOK, Placed, TimeoutsReach, [Next]_vars
  PROVE  TimeoutsReach'
<1> USE DEF At, GoTo, procVars, pipeVars, callVars, TypeOK, Placed, Polling,
        Starting, Running, TimeoutsReach
<1>1. ASSUME NEW j \in Jobs, MakePipe(j) PROVE TimeoutsReach'
  BY <1>1 DEF MakePipe
<1>2. ASSUME NEW j \in Jobs, Fork(j) PROVE TimeoutsReach'
  BY <1>2 DEF Fork
<1>3. ASSUME NEW j \in Jobs, Adopt(j) PROVE TimeoutsReach'
  BY <1>3 DEF Adopt, Groups
<1>4. ASSUME NEW j \in Jobs, Read(j) PROVE TimeoutsReach'
  BY <1>4 DEF Read, Collect
<1>5. ASSUME NEW j \in Jobs, NothingToRead(j) PROVE TimeoutsReach'
  BY <1>5 DEF NothingToRead
<1>6. ASSUME NEW j \in Jobs, Reap(j) PROVE TimeoutsReach'
  <2>1. CASE stage[j] = "zombie"
    BY <1>6, <2>1 DEF Reap, Reaped, Finish
  <2>2. CASE stage[j] # "zombie"
    BY <1>6, <2>2 DEF Reap, Reaped, Finish
  <2> QED BY <1>6, <2>1, <2>2 DEF Reap
<1>7. ASSUME NEW j \in Jobs, InTime(j) PROVE TimeoutsReach'
  BY <1>7 DEF InTime, TimeIsUp
<1>8. ASSUME NEW j \in Jobs, Expire(j) PROVE TimeoutsReach'
  BY <1>8 DEF Expire, Signal, TimeIsUp
<1>9. ASSUME NEW j \in Jobs, ReapInGrace(j) PROVE TimeoutsReach'
  BY <1>9 DEF ReapInGrace, Reaped, Finish, Graced
<1>10. ASSUME NEW j \in Jobs, GraceOver(j) PROVE TimeoutsReach'
  BY <1>10 DEF GraceOver
<1>11. ASSUME NEW j \in Jobs, KillGroup(j) PROVE TimeoutsReach'
  BY <1>11 DEF KillGroup, Signal
<1>12. ASSUME NEW j \in Jobs, ReapKilled(j) PROVE TimeoutsReach'
  BY <1>12 DEF ReapKilled, Reaped, Finish
<1>13. ASSUME NEW j \in Jobs, Drain(j) PROVE TimeoutsReach'
  BY <1>13 DEF Drain, Collect
<1>14. ASSUME NEW j \in Jobs, Return(j) PROVE TimeoutsReach'
  BY <1>14 DEF Return, Empty
<1>15. ASSUME NEW j \in Jobs, CannotStart(j) PROVE TimeoutsReach'
  BY <1>15 DEF CannotStart
<1>16. ASSUME NEW j \in Jobs, PollFails(j) PROVE TimeoutsReach'
  BY <1>16 DEF PollFails
<1>17. ASSUME NEW j \in Jobs, LeadGroup(j) PROVE TimeoutsReach'
  BY <1>17 DEF LeadGroup, Becomes
<1>18. ASSUME NEW j \in Jobs, Arm(j) PROVE TimeoutsReach'
  BY <1>18 DEF Arm, Becomes
<1>19. ASSUME NEW j \in Jobs, CheckParent(j) PROVE TimeoutsReach'
  <2>1. CASE ParentThere
    BY <1>19, <2>1 DEF CheckParent, Becomes, Exit
  <2>2. CASE ~ParentThere
    BY <1>19, <2>2 DEF CheckParent, Becomes, Exit
  <2> QED BY <1>19, <2>1, <2>2 DEF CheckParent
<1>20. ASSUME NEW j \in Jobs, Exec(j) PROVE TimeoutsReach'
  <2>1. CASE Becomes(j, "checked", "solver")
    BY <1>20, <2>1 DEF Exec, Becomes, Exit
  <2>2. CASE \E code \in {126, 127} : stage[j] = "checked" /\ sent[j] = {} /\ Exit(j, code)
    BY <1>20, <2>2 DEF Exec, Becomes, Exit
  <2> QED BY <1>20, <2>1, <2>2 DEF Exec
<1>21. ASSUME NEW j \in Jobs, Write(j) PROVE TimeoutsReach'
  BY <1>21 DEF Write
<1>22. ASSUME NEW j \in Jobs, Chat(j) PROVE TimeoutsReach'
  BY <1>22 DEF Chat
<1>23. ASSUME NEW j \in Jobs, End(j) PROVE TimeoutsReach'
  BY <1>23 DEF End, Exit
<1>24. ASSUME NEW j \in Jobs, DieOfSignal(j) PROVE TimeoutsReach'
  BY <1>24 DEF DieOfSignal, Exit
<1>25. ASSUME NEW j \in Jobs, TimePasses(j) PROVE TimeoutsReach'
  <2>1. CASE pc[j] = "grace"
    BY <1>25, <2>1 DEF TimePasses
  <2>2. CASE pc[j] # "grace"
    BY <1>25, <2>2 DEF TimePasses
  <2> QED BY <1>25, <2>1, <2>2 DEF TimePasses
<1>26. ASSUME NEW j \in Jobs, ThreadEnds(j) PROVE TimeoutsReach'
  BY <1>26 DEF ThreadEnds
<1>27. CASE Crash
  BY <1>27 DEF Crash
<1>28. CASE UNCHANGED vars
  BY <1>28 DEF vars
<1>29. ASSUME NEW j \in Jobs, BreakOff(j) PROVE TimeoutsReach'
  BY <1>29 DEF BreakOff
<1> QED BY <1>1, <1>2, <1>3, <1>4, <1>5, <1>6, <1>7, <1>8, <1>9, <1>10, <1>11,
        <1>12, <1>13, <1>14, <1>15, <1>16, <1>17, <1>18, <1>19, <1>20, <1>21,
        <1>22, <1>23, <1>24, <1>25, <1>26, <1>27, <1>28, <1>29
        DEF Next, Caller, Failure, Starts

\* Nobody is left alone.
LEMMA AloneStep ==
  ASSUME TypeOK, NoSolverLeftAlone, [Next]_vars
  PROVE  NoSolverLeftAlone'
<1> USE DEF At, GoTo, procVars, pipeVars, callVars, TypeOK, NoSolverLeftAlone,
        Starting, Running
<1>1. ASSUME NEW j \in Jobs, MakePipe(j) PROVE NoSolverLeftAlone'
  BY <1>1 DEF MakePipe
<1>2. ASSUME NEW j \in Jobs, Fork(j) PROVE NoSolverLeftAlone'
  BY <1>2 DEF Fork
<1>3. ASSUME NEW j \in Jobs, Adopt(j) PROVE NoSolverLeftAlone'
  BY <1>3 DEF Adopt, Groups
<1>4. ASSUME NEW j \in Jobs, Read(j) PROVE NoSolverLeftAlone'
  BY <1>4 DEF Read, Collect
<1>5. ASSUME NEW j \in Jobs, NothingToRead(j) PROVE NoSolverLeftAlone'
  BY <1>5 DEF NothingToRead
<1>6. ASSUME NEW j \in Jobs, Reap(j) PROVE NoSolverLeftAlone'
  <2>1. CASE stage[j] = "zombie"
    BY <1>6, <2>1 DEF Reap, Reaped, Finish
  <2>2. CASE stage[j] # "zombie"
    BY <1>6, <2>2 DEF Reap, Reaped, Finish
  <2> QED BY <1>6, <2>1, <2>2 DEF Reap
<1>7. ASSUME NEW j \in Jobs, InTime(j) PROVE NoSolverLeftAlone'
  BY <1>7 DEF InTime, TimeIsUp
<1>8. ASSUME NEW j \in Jobs, Expire(j) PROVE NoSolverLeftAlone'
  BY <1>8 DEF Expire, Signal, TimeIsUp
<1>9. ASSUME NEW j \in Jobs, ReapInGrace(j) PROVE NoSolverLeftAlone'
  BY <1>9 DEF ReapInGrace, Reaped, Finish, Graced
<1>10. ASSUME NEW j \in Jobs, GraceOver(j) PROVE NoSolverLeftAlone'
  BY <1>10 DEF GraceOver
<1>11. ASSUME NEW j \in Jobs, KillGroup(j) PROVE NoSolverLeftAlone'
  BY <1>11 DEF KillGroup, Signal
<1>12. ASSUME NEW j \in Jobs, ReapKilled(j) PROVE NoSolverLeftAlone'
  BY <1>12 DEF ReapKilled, Reaped, Finish
<1>13. ASSUME NEW j \in Jobs, Drain(j) PROVE NoSolverLeftAlone'
  BY <1>13 DEF Drain, Collect
<1>14. ASSUME NEW j \in Jobs, Return(j) PROVE NoSolverLeftAlone'
  BY <1>14 DEF Return, Empty
<1>15. ASSUME NEW j \in Jobs, CannotStart(j) PROVE NoSolverLeftAlone'
  BY <1>15 DEF CannotStart
<1>16. ASSUME NEW j \in Jobs, PollFails(j) PROVE NoSolverLeftAlone'
  BY <1>16 DEF PollFails
<1>17. ASSUME NEW j \in Jobs, LeadGroup(j) PROVE NoSolverLeftAlone'
  BY <1>17 DEF LeadGroup, Becomes
<1>18. ASSUME NEW j \in Jobs, Arm(j) PROVE NoSolverLeftAlone'
  BY <1>18 DEF Arm, Becomes
<1>19. ASSUME NEW j \in Jobs, CheckParent(j) PROVE NoSolverLeftAlone'
  <2>1. CASE ParentThere
    BY <1>19, <2>1 DEF CheckParent, Becomes, Exit, ParentThere, ParentPid
  <2>2. CASE ~ParentThere
    BY <1>19, <2>2 DEF CheckParent, Becomes, Exit, ParentThere, ParentPid
  <2> QED BY <1>19, <2>1, <2>2 DEF CheckParent
<1>20. ASSUME NEW j \in Jobs, Exec(j) PROVE NoSolverLeftAlone'
  <2>1. CASE Becomes(j, "checked", "solver")
    BY <1>20, <2>1 DEF Exec, Becomes, Exit
  <2>2. CASE \E code \in {126, 127} : stage[j] = "checked" /\ sent[j] = {} /\ Exit(j, code)
    BY <1>20, <2>2 DEF Exec, Becomes, Exit
  <2> QED BY <1>20, <2>1, <2>2 DEF Exec
<1>21. ASSUME NEW j \in Jobs, Write(j) PROVE NoSolverLeftAlone'
  BY <1>21 DEF Write
<1>22. ASSUME NEW j \in Jobs, Chat(j) PROVE NoSolverLeftAlone'
  BY <1>22 DEF Chat
<1>23. ASSUME NEW j \in Jobs, End(j) PROVE NoSolverLeftAlone'
  BY <1>23 DEF End, Exit
<1>24. ASSUME NEW j \in Jobs, DieOfSignal(j) PROVE NoSolverLeftAlone'
  BY <1>24 DEF DieOfSignal, Exit
<1>25. ASSUME NEW j \in Jobs, TimePasses(j) PROVE NoSolverLeftAlone'
  <2>1. CASE pc[j] = "grace"
    BY <1>25, <2>1 DEF TimePasses
  <2>2. CASE pc[j] # "grace"
    BY <1>25, <2>2 DEF TimePasses
  <2> QED BY <1>25, <2>1, <2>2 DEF TimePasses
<1>26. ASSUME NEW j \in Jobs, ThreadEnds(j) PROVE NoSolverLeftAlone'
  BY <1>26 DEF ThreadEnds
<1>27. CASE Crash
  BY <1>27 DEF Crash
<1>28. CASE UNCHANGED vars
  BY <1>28 DEF vars
<1>29. ASSUME NEW j \in Jobs, BreakOff(j) PROVE NoSolverLeftAlone'
  BY <1>29 DEF BreakOff
<1> QED BY <1>1, <1>2, <1>3, <1>4, <1>5, <1>6, <1>7, <1>8, <1>9, <1>10, <1>11,
        <1>12, <1>13, <1>14, <1>15, <1>16, <1>17, <1>18, <1>19, <1>20, <1>21,
        <1>22, <1>23, <1>24, <1>25, <1>26, <1>27, <1>28, <1>29
        DEF Next, Caller, Failure, Starts

LEMMA CollectKeeps ==
  ASSUME TypeOK, Kept, NEW j \in Jobs, Collect(j)
  PROVE  Kept'
<1> SUFFICES ASSUME NEW k \in Jobs PROVE InOrder(output'[k], pipe'[k], lines'[k])
  BY DEF Kept
<1>1. /\ output[k] \in Seq(Nat) /\ pipe[k] \in Seq(Nat) /\ lines[k] \in Nat
      /\ InOrder(output[k], pipe[k], lines[k])
  BY DEF TypeOK, Kept
<1>2. lines' = lines
  BY DEF Collect
<1>3. CASE k # j
  <2>1. output'[k] = output[k] /\ pipe'[k] = pipe[k]
    BY <1>3 DEF Collect, TypeOK
  <2> QED BY <1>1, <1>2, <2>1
<1>4. CASE k = j
  <2>1. /\ pipe[k] # <<>> /\ pipe'[k] = Tail(pipe[k])
        /\ output'[k] = IF Head(pipe[k]) = Progress THEN output[k]
                        ELSE Append(output[k], Head(pipe[k]))
    BY <1>4 DEF Collect, TypeOK
  <2> QED BY <1>1, <1>2, <2>1, CollectInOrder
<1> QED BY <1>3, <1>4

LEMMA WriteKeeps ==
  ASSUME TypeOK, Kept, NEW j \in Jobs, Write(j) \/ Chat(j)
  PROVE  Kept'
<1> SUFFICES ASSUME NEW k \in Jobs PROVE InOrder(output'[k], pipe'[k], lines'[k])
  BY DEF Kept
<1>1. /\ output[k] \in Seq(Nat) /\ pipe[k] \in Seq(Nat) /\ lines[k] \in Nat
      /\ InOrder(output[k], pipe[k], lines[k])
  BY DEF TypeOK, Kept
<1>2. output' = output
  BY DEF Write, Chat, callVars
<1>3. CASE k # j
  <2>1. lines'[k] = lines[k] /\ pipe'[k] = pipe[k]
    BY <1>3 DEF Write, Chat, TypeOK
  <2> QED BY <1>1, <1>2, <2>1
<1>4. CASE k = j /\ Write(j)
  <2>1. lines'[k] = lines[k] + 1 /\ pipe'[k] = Append(pipe[k], lines'[k])
    BY <1>4 DEF Write, TypeOK
  <2> QED BY <1>1, <1>2, <2>1, WriteInOrder
<1>5. CASE k = j /\ Chat(j)
  <2>1. lines'[k] = lines[k] /\ pipe'[k] = Append(pipe[k], Progress)
    BY <1>5 DEF Chat, TypeOK
  <2> QED BY <1>1, <1>2, <2>1, ChatInOrder
<1> QED BY <1>3, <1>4, <1>5

LEMMA OthersKeep == Kept /\ UNCHANGED <<output, pipe, lines>> => Kept'
BY DEF Kept

\* The lines stay in order.
LEMMA KeptStep ==
  ASSUME TypeOK, Kept, [Next]_vars
  PROVE  Kept'
<1> USE DEF pipeVars, callVars
<1>1. ASSUME NEW j \in Jobs, MakePipe(j) PROVE Kept'
  BY <1>1, OthersKeep DEF MakePipe
<1>2. ASSUME NEW j \in Jobs, Fork(j) PROVE Kept'
  BY <1>2, OthersKeep DEF Fork
<1>3. ASSUME NEW j \in Jobs, Adopt(j) PROVE Kept'
  BY <1>3, OthersKeep DEF Adopt
<1>4. ASSUME NEW j \in Jobs, Read(j) PROVE Kept'
  BY <1>4, CollectKeeps DEF Read
<1>5. ASSUME NEW j \in Jobs, NothingToRead(j) PROVE Kept'
  BY <1>5, OthersKeep DEF NothingToRead
<1>6. ASSUME NEW j \in Jobs, Reap(j) PROVE Kept'
  BY <1>6, OthersKeep DEF Reap, Reaped
<1>7. ASSUME NEW j \in Jobs, InTime(j) PROVE Kept'
  BY <1>7, OthersKeep DEF InTime
<1>8. ASSUME NEW j \in Jobs, Expire(j) PROVE Kept'
  BY <1>8, OthersKeep DEF Expire, Signal
<1>9. ASSUME NEW j \in Jobs, ReapInGrace(j) PROVE Kept'
  BY <1>9, OthersKeep DEF ReapInGrace, Reaped
<1>10. ASSUME NEW j \in Jobs, GraceOver(j) PROVE Kept'
  BY <1>10, OthersKeep DEF GraceOver
<1>11. ASSUME NEW j \in Jobs, KillGroup(j) PROVE Kept'
  BY <1>11, OthersKeep DEF KillGroup, Signal
<1>12. ASSUME NEW j \in Jobs, ReapKilled(j) PROVE Kept'
  BY <1>12, OthersKeep DEF ReapKilled, Reaped
<1>13. ASSUME NEW j \in Jobs, Drain(j) PROVE Kept'
  BY <1>13, CollectKeeps DEF Drain
<1>14. ASSUME NEW j \in Jobs, Return(j) PROVE Kept'
  BY <1>14, OthersKeep DEF Return
<1>15. ASSUME NEW j \in Jobs, CannotStart(j) PROVE Kept'
  BY <1>15, OthersKeep DEF CannotStart
<1>16. ASSUME NEW j \in Jobs, PollFails(j) PROVE Kept'
  BY <1>16, OthersKeep DEF PollFails
<1>17. ASSUME NEW j \in Jobs, LeadGroup(j) PROVE Kept'
  BY <1>17, OthersKeep DEF LeadGroup, Becomes
<1>18. ASSUME NEW j \in Jobs, Arm(j) PROVE Kept'
  BY <1>18, OthersKeep DEF Arm, Becomes
<1>19. ASSUME NEW j \in Jobs, CheckParent(j) PROVE Kept'
  BY <1>19, OthersKeep DEF CheckParent, Becomes, Exit
<1>20. ASSUME NEW j \in Jobs, Exec(j) PROVE Kept'
  BY <1>20, OthersKeep DEF Exec, Becomes, Exit
<1>21. ASSUME NEW j \in Jobs, Write(j) PROVE Kept'
  BY <1>21, WriteKeeps
<1>22. ASSUME NEW j \in Jobs, Chat(j) PROVE Kept'
  BY <1>22, WriteKeeps
<1>23. ASSUME NEW j \in Jobs, End(j) PROVE Kept'
  BY <1>23, OthersKeep DEF End, Exit
<1>24. ASSUME NEW j \in Jobs, DieOfSignal(j) PROVE Kept'
  BY <1>24, OthersKeep DEF DieOfSignal, Exit
<1>25. ASSUME NEW j \in Jobs, TimePasses(j) PROVE Kept'
  BY <1>25, OthersKeep DEF TimePasses
<1>26. ASSUME NEW j \in Jobs, ThreadEnds(j) PROVE Kept'
  BY <1>26, OthersKeep DEF ThreadEnds
<1>27. CASE Crash
  BY <1>27, OthersKeep DEF Crash
<1>28. CASE UNCHANGED vars
  BY <1>28, OthersKeep DEF vars
<1>29. ASSUME NEW j \in Jobs, BreakOff(j) PROVE Kept'
  BY <1>29, OthersKeep DEF BreakOff
<1> QED BY <1>1, <1>2, <1>3, <1>4, <1>5, <1>6, <1>7, <1>8, <1>9, <1>10, <1>11,
        <1>12, <1>13, <1>14, <1>15, <1>16, <1>17, <1>18, <1>19, <1>20, <1>21,
        <1>22, <1>23, <1>24, <1>25, <1>26, <1>27, <1>28, <1>29
        DEF Next, Caller, Failure, Starts

LEMMA InitIInv == Init => IInv
<1> SUFFICES ASSUME Init PROVE IInv
  OBVIOUS
<1>1. TypeOK
  <2>1. \A j \in Jobs : pipe[j] = <<>> /\ Len(pipe[j]) <= PipeSize
    BY DEF Init
  <2> QED BY <2>1 DEF Init, TypeOK, Callers, Stages, Codes
<1>2. Placed /\ TimeoutsReach /\ NoSolverLeftAlone
  BY DEF Init, Placed, Polling, TimeoutsReach, NoSolverLeftAlone
<1>3. Kept
  BY DEF Init, Kept, InOrder
<1> QED BY <1>1, <1>2, <1>3 DEF IInv

LEMMA StepIInv == IInv /\ [Next]_vars => IInv'
BY TypeStep, PlacedStep, ReachStep, AloneStep, KeptStep DEF IInv

\* In every reachable state of run_process the invariant holds.
THEOREM Invariance == Spec => []IInv
BY InitIInv, StepIInv, PTL DEF Spec

\* Callers, children, pipes and results keep their types, and a call without a
\* timeout is never reported timed out.
THEOREM TypeCorrect == Spec => []TypeOK
<1>1. IInv => TypeOK
  BY DEF IInv
<1> QED BY <1>1, Invariance, PTL

\* The signal of a timeout reaches its child, wherever the child had got to.
THEOREM SignalsReach == Spec => []TimeoutsReach
<1>1. IInv => TimeoutsReach
  BY DEF IInv
<1> QED BY <1>1, Invariance, PTL

\* However many solvers run when the compiler dies, each is told or sees it,
\* provided that orphans go to init.
THEOREM NobodyLeftAlone == Spec => []NoSolverLeftAlone
<1>1. IInv => NoSolverLeftAlone
  BY DEF IInv
<1> QED BY <1>1, Invariance, PTL

-----------------------------------------------------------------------------
\* Signals are for children that are there.
LEMMA SignalStep ==
  ASSUME IInv, [Next]_vars
  PROVE  \A k \in Jobs : sent'[k] # sent[k] => stage[k] \notin {"none", "reaped"}
<1> USE DEF At, GoTo, procVars, pipeVars, callVars, IInv, TypeOK, Placed,
        Polling
<1>1. ASSUME NEW j \in Jobs, MakePipe(j) PROVE \A k \in Jobs : sent'[k] # sent[k] => stage[k] \notin {"none", "reaped"}
  BY <1>1 DEF MakePipe
<1>2. ASSUME NEW j \in Jobs, Fork(j) PROVE \A k \in Jobs : sent'[k] # sent[k] => stage[k] \notin {"none", "reaped"}
  BY <1>2 DEF Fork
<1>3. ASSUME NEW j \in Jobs, Adopt(j) PROVE \A k \in Jobs : sent'[k] # sent[k] => stage[k] \notin {"none", "reaped"}
  BY <1>3 DEF Adopt, Groups
<1>4. ASSUME NEW j \in Jobs, Read(j) PROVE \A k \in Jobs : sent'[k] # sent[k] => stage[k] \notin {"none", "reaped"}
  BY <1>4 DEF Read, Collect
<1>5. ASSUME NEW j \in Jobs, NothingToRead(j) PROVE \A k \in Jobs : sent'[k] # sent[k] => stage[k] \notin {"none", "reaped"}
  BY <1>5 DEF NothingToRead
<1>6. ASSUME NEW j \in Jobs, Reap(j) PROVE \A k \in Jobs : sent'[k] # sent[k] => stage[k] \notin {"none", "reaped"}
  <2>1. CASE stage[j] = "zombie"
    BY <1>6, <2>1 DEF Reap, Reaped, Finish
  <2>2. CASE stage[j] # "zombie"
    BY <1>6, <2>2 DEF Reap, Reaped, Finish
  <2> QED BY <1>6, <2>1, <2>2 DEF Reap
<1>7. ASSUME NEW j \in Jobs, InTime(j) PROVE \A k \in Jobs : sent'[k] # sent[k] => stage[k] \notin {"none", "reaped"}
  BY <1>7 DEF InTime, TimeIsUp
<1>8. ASSUME NEW j \in Jobs, Expire(j) PROVE \A k \in Jobs : sent'[k] # sent[k] => stage[k] \notin {"none", "reaped"}
  BY <1>8 DEF Expire, Signal, TimeIsUp
<1>9. ASSUME NEW j \in Jobs, ReapInGrace(j) PROVE \A k \in Jobs : sent'[k] # sent[k] => stage[k] \notin {"none", "reaped"}
  BY <1>9 DEF ReapInGrace, Reaped, Finish, Graced
<1>10. ASSUME NEW j \in Jobs, GraceOver(j) PROVE \A k \in Jobs : sent'[k] # sent[k] => stage[k] \notin {"none", "reaped"}
  BY <1>10 DEF GraceOver
<1>11. ASSUME NEW j \in Jobs, KillGroup(j) PROVE \A k \in Jobs : sent'[k] # sent[k] => stage[k] \notin {"none", "reaped"}
  BY <1>11 DEF KillGroup, Signal
<1>12. ASSUME NEW j \in Jobs, ReapKilled(j) PROVE \A k \in Jobs : sent'[k] # sent[k] => stage[k] \notin {"none", "reaped"}
  BY <1>12 DEF ReapKilled, Reaped, Finish
<1>13. ASSUME NEW j \in Jobs, Drain(j) PROVE \A k \in Jobs : sent'[k] # sent[k] => stage[k] \notin {"none", "reaped"}
  BY <1>13 DEF Drain, Collect
<1>14. ASSUME NEW j \in Jobs, Return(j) PROVE \A k \in Jobs : sent'[k] # sent[k] => stage[k] \notin {"none", "reaped"}
  BY <1>14 DEF Return, Empty
<1>15. ASSUME NEW j \in Jobs, CannotStart(j) PROVE \A k \in Jobs : sent'[k] # sent[k] => stage[k] \notin {"none", "reaped"}
  BY <1>15 DEF CannotStart
<1>16. ASSUME NEW j \in Jobs, PollFails(j) PROVE \A k \in Jobs : sent'[k] # sent[k] => stage[k] \notin {"none", "reaped"}
  BY <1>16 DEF PollFails
<1>17. ASSUME NEW j \in Jobs, LeadGroup(j) PROVE \A k \in Jobs : sent'[k] # sent[k] => stage[k] \notin {"none", "reaped"}
  BY <1>17 DEF LeadGroup, Becomes
<1>18. ASSUME NEW j \in Jobs, Arm(j) PROVE \A k \in Jobs : sent'[k] # sent[k] => stage[k] \notin {"none", "reaped"}
  BY <1>18 DEF Arm, Becomes
<1>19. ASSUME NEW j \in Jobs, CheckParent(j) PROVE \A k \in Jobs : sent'[k] # sent[k] => stage[k] \notin {"none", "reaped"}
  <2>1. CASE ParentThere
    BY <1>19, <2>1 DEF CheckParent, Becomes, Exit
  <2>2. CASE ~ParentThere
    BY <1>19, <2>2 DEF CheckParent, Becomes, Exit
  <2> QED BY <1>19, <2>1, <2>2 DEF CheckParent
<1>20. ASSUME NEW j \in Jobs, Exec(j) PROVE \A k \in Jobs : sent'[k] # sent[k] => stage[k] \notin {"none", "reaped"}
  <2>1. CASE Becomes(j, "checked", "solver")
    BY <1>20, <2>1 DEF Exec, Becomes, Exit
  <2>2. CASE \E code \in {126, 127} : stage[j] = "checked" /\ sent[j] = {} /\ Exit(j, code)
    BY <1>20, <2>2 DEF Exec, Becomes, Exit
  <2> QED BY <1>20, <2>1, <2>2 DEF Exec
<1>21. ASSUME NEW j \in Jobs, Write(j) PROVE \A k \in Jobs : sent'[k] # sent[k] => stage[k] \notin {"none", "reaped"}
  BY <1>21 DEF Write
<1>22. ASSUME NEW j \in Jobs, Chat(j) PROVE \A k \in Jobs : sent'[k] # sent[k] => stage[k] \notin {"none", "reaped"}
  BY <1>22 DEF Chat
<1>23. ASSUME NEW j \in Jobs, End(j) PROVE \A k \in Jobs : sent'[k] # sent[k] => stage[k] \notin {"none", "reaped"}
  BY <1>23 DEF End, Exit
<1>24. ASSUME NEW j \in Jobs, DieOfSignal(j) PROVE \A k \in Jobs : sent'[k] # sent[k] => stage[k] \notin {"none", "reaped"}
  BY <1>24 DEF DieOfSignal, Exit
<1>25. ASSUME NEW j \in Jobs, TimePasses(j) PROVE \A k \in Jobs : sent'[k] # sent[k] => stage[k] \notin {"none", "reaped"}
  <2>1. CASE pc[j] = "grace"
    BY <1>25, <2>1 DEF TimePasses
  <2>2. CASE pc[j] # "grace"
    BY <1>25, <2>2 DEF TimePasses
  <2> QED BY <1>25, <2>1, <2>2 DEF TimePasses
<1>26. ASSUME NEW j \in Jobs, ThreadEnds(j) PROVE \A k \in Jobs : sent'[k] # sent[k] => stage[k] \notin {"none", "reaped"}
  BY <1>26 DEF ThreadEnds
<1>27. CASE Crash
  BY <1>27 DEF Crash
<1>28. CASE UNCHANGED vars
  BY <1>28 DEF vars
<1>29. ASSUME NEW j \in Jobs, BreakOff(j) PROVE \A k \in Jobs : sent'[k] # sent[k] => stage[k] \notin {"none", "reaped"}
  BY <1>29 DEF BreakOff
<1> QED BY <1>1, <1>2, <1>3, <1>4, <1>5, <1>6, <1>7, <1>8, <1>9, <1>10, <1>11,
        <1>12, <1>13, <1>14, <1>15, <1>16, <1>17, <1>18, <1>19, <1>20, <1>21,
        <1>22, <1>23, <1>24, <1>25, <1>26, <1>27, <1>28, <1>29
        DEF Next, Caller, Failure, Starts

\* No signal is sent to the number of a process that has been reaped.
THEOREM SignalsMeet == Spec => SignalsMeetChild
<1>1. IInv /\ [Next]_vars =>
        [\A j \in Jobs : sent'[j] # sent[j] => stage[j] \notin {"none", "reaped"}]_vars
  BY SignalStep
<1> QED BY <1>1, Invariance, PTL DEF Spec, SignalsMeetChild

-----------------------------------------------------------------------------
(* The implementation of ToolCall.                                         *)

AnswerOf(j) ==
  IF pc[j] = "returned"
  THEN <<[output |-> output[j], status |-> status[j], timedOut |-> timedOut[j]]>>
  ELSE <<>>

\* What the back ends see of job j.
Seen(j) == <<Stage(stage[j]), lines[j], status[j], AnswerOf(j)>>

\* A step that changes nothing they see is a stutter.
LEMMA Stutters ==
  ASSUME TypeOK, TypeOK', \A k \in Jobs : Seen(k)' = Seen(k)
  PROVE  UNCHANGED Tool!toolVars
<1>1. /\ \A k \in Jobs : Stage(stage[k])' = Stage(stage[k])
      /\ \A k \in Jobs : lines'[k] = lines[k]
      /\ \A k \in Jobs : status'[k] = status[k]
      /\ \A k \in Jobs : AnswerOf(k)' = AnswerOf(k)
  BY DEF Seen
<1>2. lines' = lines /\ status' = status
  BY <1>1 DEF TypeOK
<1>3. [k \in Jobs |-> Stage(stage[k])]' = [k \in Jobs |-> Stage(stage[k])]
  BY <1>1
<1>4. [k \in Jobs |-> AnswerOf(k)]' = [k \in Jobs |-> AnswerOf(k)]
  BY <1>1
<1> QED BY <1>2, <1>3, <1>4 DEF Tool!toolVars, AnswerOf

LEMMA StageOf ==
  /\ Stage("none") = "none"
  /\ \A s \in Running : Stage(s) = "running"
  /\ Stage("zombie") = "ended" /\ Stage("reaped") = "ended"
BY DEF Stage, Running, Starting

LEMMA StageMoves ==
  ASSUME TypeOK, NEW j \in Jobs, NEW s, stage' = [stage EXCEPT ![j] = s]
  PROVE  [k \in Jobs |-> Stage(stage[k])]'
           = [[k \in Jobs |-> Stage(stage[k])] EXCEPT ![j] = Stage(s)]
<1>1. \A k \in Jobs : stage'[k] = IF k = j THEN s ELSE stage[k]
  BY DEF TypeOK
<1>2. \A k \in Jobs : Stage(stage'[k]) = IF k = j THEN Stage(s) ELSE Stage(stage[k])
  BY <1>1
<1> DEFINE f == [k \in Jobs |-> Stage(stage[k])]
           g == [k \in Jobs |-> Stage(stage'[k])]
<1>3. g = [f EXCEPT ![j] = Stage(s)]
  BY <1>2
<1> QED BY <1>3

LEMMA ForkStarts ==
  ASSUME IInv, NEW j \in Jobs, Fork(j)
  PROVE  Tool!Start(j)
<1>1. stage[j] = "none" /\ stage' = [stage EXCEPT ![j] = "forked"]
  BY DEF Fork, At, IInv, Placed
<1>2. [k \in Jobs |-> Stage(stage[k])]' = [[k \in Jobs |-> Stage(stage[k])] EXCEPT ![j] = "running"]
  <2>1. Stage("forked") = "running"
    BY StageOf DEF Running, Starting
  <2> QED BY <1>1, <2>1, StageMoves DEF IInv
<1>3. UNCHANGED <<lines, status, output, timedOut>>
  BY DEF Fork, callVars
<1>4. \A k \in Jobs : pc'[k] = "returned" <=> pc[k] = "returned"
  BY DEF Fork, At, GoTo, IInv, TypeOK
<1>5. Stage(stage[j]) = "none"
  BY <1>1, StageOf
<1>6. \A k \in Jobs : AnswerOf(k)' = AnswerOf(k)
  BY <1>3, <1>4 DEF AnswerOf
<1>7. [k \in Jobs |-> AnswerOf(k)]' = [k \in Jobs |-> AnswerOf(k)]
  BY <1>6
<1> QED BY <1>2, <1>3, <1>5, <1>7 DEF Tool!Start, AnswerOf

LEMMA ExitStops ==
  ASSUME IInv, TypeOK', NEW j \in Jobs, stage[j] \in Running,
         NEW code \in Nat, Exit(j, code)
  PROVE  Tool!Stop(j)
<1>1. [k \in Jobs |-> Stage(stage[k])]' = [[k \in Jobs |-> Stage(stage[k])] EXCEPT ![j] = "ended"]
  BY StageOf, StageMoves DEF Exit, IInv
<1>2. Stage(stage[j]) = "running"
  BY DEF Stage, Running, Starting
<1>3. UNCHANGED <<pc, lines, output, timedOut>>
  BY DEF Exit, callVars
<1>4. pc[j] # "returned"
  BY DEF IInv, Placed, Running, Starting
<1>5. status' \in [Jobs -> Nat] /\ \A k \in Jobs \ {j} : status'[k] = status[k]
  <2>1. status' = [status EXCEPT ![j] = code]
    BY DEF Exit
  <2>2. status \in [Jobs -> Nat]
    <3>1. Codes \cup {Signalled} \subseteq Nat
      BY DEF Codes, Signalled
    <3>2. \A k \in Jobs : status[k] \in Nat
      BY <3>1 DEF IInv, TypeOK
    <3> QED BY <3>2 DEF IInv, TypeOK
  <2> QED BY <2>1, <2>2
<1> QED BY <1>1, <1>2, <1>3, <1>4, <1>5 DEF Tool!Stop

LEMMA WriteSays ==
  ASSUME IInv, NEW j \in Jobs, Write(j)
  PROVE  Tool!Say(j)
<1>1. stage[j] = "solver" /\ lines' = [lines EXCEPT ![j] = @ + 1]
  BY DEF Write
<1>2. UNCHANGED <<pc, stage, status, output, timedOut>>
  BY DEF Write, callVars, procVars
<1> QED BY <1>1, <1>2 DEF Tool!Say, Stage, Running

\* With the pipe empty the result is complete.
LEMMA Complete ==
  ASSUME NEW o \in Seq(Nat), NEW n \in Nat, InOrder(o, <<>>, n)
  PROVE  o = [i \in 1..n |-> i]
<1>1. Len(o) \in Nat /\ Len(o) <= n /\ \A i \in 1..Len(o) : o[i] = i
  BY DEF InOrder
<1>2. \A m \in Len(o) + 1 .. n : FALSE
  BY DEF InOrder
<1>3. Len(o) = n
  BY <1>1, <1>2
<1>4. o = [i \in 1..Len(o) |-> o[i]]
  OBVIOUS
<1> QED BY <1>1, <1>3, <1>4

LEMMA ReturnAnswers ==
  ASSUME IInv, NEW j \in Jobs, Return(j)
  PROVE  Tool!Answer(j)
<1>1. /\ stage[j] = "reaped" /\ pc[j] = "drain" /\ pipe[j] = <<>>
      /\ pc' = [pc EXCEPT ![j] = "returned"]
      /\ UNCHANGED <<stage, lines, status, output, timedOut>>
  BY DEF Return, At, GoTo, Empty, IInv, Placed, procVars, pipeVars, callVars
<1>2. output[j] = [i \in 1..lines[j] |-> i]
  BY <1>1, Complete DEF IInv, TypeOK, Kept
<1>3. timedOut[j] \in BOOLEAN /\ (timedOut[j] => j \in Limited)
  BY DEF IInv, TypeOK
<1>4. [k \in Jobs |-> AnswerOf(k)]' =
        [[k \in Jobs |-> AnswerOf(k)] EXCEPT ![j] =
           <<[output |-> [i \in 1..lines[j] |-> i], status |-> status[j],
              timedOut |-> timedOut[j]]>>]
  BY <1>1, <1>2 DEF AnswerOf, IInv, TypeOK
<1>5. Stage(stage[j]) = "ended" /\ AnswerOf(j) = <<>>
  BY <1>1 DEF Stage, AnswerOf, Running, Starting
<1> QED BY <1>1, <1>3, <1>4, <1>5 DEF Tool!Answer, Tool!Pending, AnswerOf

\* All other steps are stutters: the child is where the back ends believe it.
LEMMA StepImplements ==
  ASSUME IInv, [Next]_vars
  PROVE  [Tool!Next]_(Tool!toolVars)
<1>0. TypeOK /\ TypeOK'
  BY TypeStep DEF IInv
<1> USE <1>0
<1> USE DEF At, GoTo, procVars, pipeVars, callVars, IInv, TypeOK, Placed,
        Polling, Seen, AnswerOf, Stage, Running, Starting
<1>1. ASSUME NEW j \in Jobs, MakePipe(j) PROVE [Tool!Next]_(Tool!toolVars)
  <2>1. \A k \in Jobs : Seen(k)' = Seen(k)
    BY <1>1 DEF MakePipe
  <2> QED BY <2>1, Stutters
<1>2. ASSUME NEW j \in Jobs, Fork(j) PROVE [Tool!Next]_(Tool!toolVars)
  BY <1>2, ForkStarts DEF Tool!Next
<1>3. ASSUME NEW j \in Jobs, Adopt(j) PROVE [Tool!Next]_(Tool!toolVars)
  <2>1. \A k \in Jobs : Seen(k)' = Seen(k)
    BY <1>3 DEF Adopt
  <2> QED BY <2>1, Stutters
<1>4. ASSUME NEW j \in Jobs, Read(j) PROVE [Tool!Next]_(Tool!toolVars)
  <2>1. \A k \in Jobs : Seen(k)' = Seen(k)
    BY <1>4 DEF Read, Collect
  <2> QED BY <2>1, Stutters
<1>5. ASSUME NEW j \in Jobs, NothingToRead(j) PROVE [Tool!Next]_(Tool!toolVars)
  <2>1. \A k \in Jobs : Seen(k)' = Seen(k)
    BY <1>5 DEF NothingToRead
  <2> QED BY <2>1, Stutters
<1>6. ASSUME NEW j \in Jobs, Reap(j) PROVE [Tool!Next]_(Tool!toolVars)
  <2>1. CASE stage[j] = "zombie"
    <3>1. \A k \in Jobs : Seen(k)' = Seen(k)
      <4>1. /\ stage' = [stage EXCEPT ![j] = "reaped"] /\ pc' = [pc EXCEPT ![j] = "drain"]
            /\ pc[j] = "reap" /\ UNCHANGED <<lines, status, output, timedOut>>
        BY <1>6, <2>1 DEF Reap, Reaped, Finish
      <4> QED BY <2>1, <4>1
    <3> QED BY <3>1, Stutters
  <2>2. CASE stage[j] # "zombie"
    <3>1. \A k \in Jobs : Seen(k)' = Seen(k)
      BY <1>6, <2>2 DEF Reap, Reaped
    <3> QED BY <3>1, Stutters
  <2> QED BY <2>1, <2>2
<1>7. ASSUME NEW j \in Jobs, InTime(j) PROVE [Tool!Next]_(Tool!toolVars)
  <2>1. \A k \in Jobs : Seen(k)' = Seen(k)
    BY <1>7 DEF InTime
  <2> QED BY <2>1, Stutters
<1>8. ASSUME NEW j \in Jobs, Expire(j) PROVE [Tool!Next]_(Tool!toolVars)
  <2>1. \A k \in Jobs : Seen(k)' = Seen(k)
    BY <1>8 DEF Expire, Signal
  <2> QED BY <2>1, Stutters
<1>9. ASSUME NEW j \in Jobs, ReapInGrace(j) PROVE [Tool!Next]_(Tool!toolVars)
  <2>1. \A k \in Jobs : Seen(k)' = Seen(k)
    BY <1>9 DEF ReapInGrace, Reaped, Finish, Graced
  <2> QED BY <2>1, Stutters
<1>10. ASSUME NEW j \in Jobs, GraceOver(j) PROVE [Tool!Next]_(Tool!toolVars)
  <2>1. \A k \in Jobs : Seen(k)' = Seen(k)
    BY <1>10 DEF GraceOver
  <2> QED BY <2>1, Stutters
<1>11. ASSUME NEW j \in Jobs, KillGroup(j) PROVE [Tool!Next]_(Tool!toolVars)
  <2>1. \A k \in Jobs : Seen(k)' = Seen(k)
    BY <1>11 DEF KillGroup, Signal
  <2> QED BY <2>1, Stutters
<1>12. ASSUME NEW j \in Jobs, ReapKilled(j) PROVE [Tool!Next]_(Tool!toolVars)
  <2>1. \A k \in Jobs : Seen(k)' = Seen(k)
    BY <1>12 DEF ReapKilled, Reaped, Finish
  <2> QED BY <2>1, Stutters
<1>13. ASSUME NEW j \in Jobs, Drain(j) PROVE [Tool!Next]_(Tool!toolVars)
  <2>1. \A k \in Jobs : Seen(k)' = Seen(k)
    BY <1>13 DEF Drain, Collect
  <2> QED BY <2>1, Stutters
<1>14. ASSUME NEW j \in Jobs, Return(j) PROVE [Tool!Next]_(Tool!toolVars)
  BY <1>14, ReturnAnswers DEF Tool!Next
<1>15. ASSUME NEW j \in Jobs, CannotStart(j) PROVE [Tool!Next]_(Tool!toolVars)
  <2>1. \A k \in Jobs : Seen(k)' = Seen(k)
    BY <1>15 DEF CannotStart
  <2> QED BY <2>1, Stutters
<1>16. ASSUME NEW j \in Jobs, PollFails(j) PROVE [Tool!Next]_(Tool!toolVars)
  <2>1. \A k \in Jobs : Seen(k)' = Seen(k)
    BY <1>16 DEF PollFails
  <2> QED BY <2>1, Stutters
<1>17. ASSUME NEW j \in Jobs, LeadGroup(j) PROVE [Tool!Next]_(Tool!toolVars)
  <2>1. \A k \in Jobs : Seen(k)' = Seen(k)
    BY <1>17 DEF LeadGroup, Becomes
  <2> QED BY <2>1, Stutters
<1>18. ASSUME NEW j \in Jobs, Arm(j) PROVE [Tool!Next]_(Tool!toolVars)
  <2>1. \A k \in Jobs : Seen(k)' = Seen(k)
    BY <1>18 DEF Arm, Becomes
  <2> QED BY <2>1, Stutters
<1>19. ASSUME NEW j \in Jobs, CheckParent(j) PROVE [Tool!Next]_(Tool!toolVars)
  <2>1. CASE ParentThere
    <3>1. /\ stage[j] = "armed" /\ stage' = [stage EXCEPT ![j] = "checked"]
          /\ UNCHANGED <<pc, lines, status, output, timedOut>>
      BY <1>19, <2>1 DEF CheckParent, Becomes
    <3>2. \A k \in Jobs : Seen(k)' = Seen(k)
      BY <3>1
    <3> QED BY <3>2, Stutters
  <2>2. CASE ~ParentThere
    BY <1>19, <2>2, ExitStops DEF CheckParent, Tool!Next
  <2> QED BY <2>1, <2>2
<1>20. ASSUME NEW j \in Jobs, Exec(j) PROVE [Tool!Next]_(Tool!toolVars)
  <2>1. CASE Becomes(j, "checked", "solver") /\ UNCHANGED <<lines, status, output, timedOut, pc>>
    <3>1. \A k \in Jobs : Seen(k)' = Seen(k)
      BY <1>20, <2>1 DEF Becomes
    <3> QED BY <3>1, Stutters
  <2>2. ASSUME NEW code \in {126, 127}, stage[j] = "checked", Exit(j, code)
        PROVE  [Tool!Next]_(Tool!toolVars)
    <3>1. stage[j] \in Running /\ code \in Nat
      BY <2>2
    <3>2. Tool!Stop(j)
      BY <2>2, <3>1, ExitStops
    <3> QED BY <3>2 DEF Tool!Next
  <2> QED BY <1>20, <2>1, <2>2 DEF Exec
<1>21. ASSUME NEW j \in Jobs, Write(j) PROVE [Tool!Next]_(Tool!toolVars)
  BY <1>21, WriteSays DEF Tool!Next
<1>22. ASSUME NEW j \in Jobs, Chat(j) PROVE [Tool!Next]_(Tool!toolVars)
  <2>1. \A k \in Jobs : Seen(k)' = Seen(k)
    BY <1>22 DEF Chat
  <2> QED BY <2>1, Stutters
<1>23. ASSUME NEW j \in Jobs, End(j) PROVE [Tool!Next]_(Tool!toolVars)
  BY <1>23, ExitStops DEF End, Tool!Next
<1>24. ASSUME NEW j \in Jobs, DieOfSignal(j) PROVE [Tool!Next]_(Tool!toolVars)
  <2>1. stage[j] \in Running /\ Exit(j, Signalled)
    BY <1>24 DEF DieOfSignal
  <2>2. Signalled \in Nat
    BY DEF Signalled
  <2>3. Tool!Stop(j)
    BY <2>1, <2>2, ExitStops
  <2> QED BY <2>3 DEF Tool!Next
<1>25. ASSUME NEW j \in Jobs, TimePasses(j) PROVE [Tool!Next]_(Tool!toolVars)
  <2>1. \A k \in Jobs : Seen(k)' = Seen(k)
    BY <1>25 DEF TimePasses
  <2> QED BY <2>1, Stutters
<1>26. ASSUME NEW j \in Jobs, ThreadEnds(j) PROVE [Tool!Next]_(Tool!toolVars)
  <2>1. \A k \in Jobs : Seen(k)' = Seen(k)
    BY <1>26 DEF ThreadEnds
  <2> QED BY <2>1, Stutters
<1>27. CASE Crash
  <2>1. \A k \in Jobs : Seen(k)' = Seen(k)
    BY <1>27 DEF Crash
  <2> QED BY <2>1, Stutters
<1>28. CASE UNCHANGED vars
  <2>1. \A k \in Jobs : Seen(k)' = Seen(k)
    BY <1>28 DEF vars
  <2> QED BY <2>1, Stutters
<1>29. ASSUME NEW j \in Jobs, BreakOff(j) PROVE [Tool!Next]_(Tool!toolVars)
  <2>1. \A k \in Jobs : Seen(k)' = Seen(k)
    BY <1>29 DEF BreakOff
  <2> QED BY <2>1, Stutters
<1> QED BY <1>1, <1>2, <1>3, <1>4, <1>5, <1>6, <1>7, <1>8, <1>9, <1>10, <1>11,
        <1>12, <1>13, <1>14, <1>15, <1>16, <1>17, <1>18, <1>19, <1>20, <1>21,
        <1>22, <1>23, <1>24, <1>25, <1>26, <1>27, <1>28, <1>29
        DEF Next, Caller, Failure, Starts

LEMMA InitImplements == Init => Tool!Init
<1> SUFFICES ASSUME Init PROVE Tool!Init
  OBVIOUS
<1>1. \A k \in Jobs : stage[k] = "none" /\ pc[k] = "idle"
  BY DEF Init
<1>2. \A k \in Jobs : Stage(stage[k]) = "none"
  BY <1>1, StageOf
<1> QED BY <1>1, <1>2 DEF Init, Tool!Init, Tool!Pending

\* run_process keeps the promise the back ends rely on: an answer is complete,
\* in order, with the final status, and comes after the end of the solver.
THEOREM Implementation == Spec => ImplementsToolCall
<1>1. IInv /\ [Next]_vars => [Tool!Next]_(Tool!toolVars)
  BY StepImplements
<1> QED BY <1>1, InitImplements, Invariance, PTL
        DEF Spec, ImplementsToolCall, Tool!Spec

=============================================================================
