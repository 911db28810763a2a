-------------------------- MODULE FormalTaskProofs --------------------------
(***************************************************************************)
(* Proofs about FormalTask, for any sessions and any number of tasks, with *)
(* time limits and faults or without.                                      *)
(***************************************************************************)
EXTENDS FormalTask, TLAPS

(***************************************************************************)
(* The inductive invariant.  Where the thread of the task is tells which   *)
(* jobs there are (Placed).                                                *)
(***************************************************************************)
Finished == {"stored", Threw}

Placed ==
  /\ pc = "over" <=> task = Len(session.tasks) + 1
  /\ pc \in {"route", "lower", "over"} => \A j \in Jobs : job[j] = "idle"
  /\ pc \notin {"route", "over"} => engine \in Engines
  /\ pc = "whole" =>
       /\ engine # "smt" /\ ~Parallel /\ job["whole"] \notin {"idle", "stored"}
       /\ \A j \in Partitions : job[j] = "idle"
  /\ pc \in {"launch", "safety", "liveness", "unwind"} =>
       Parallel /\ job["whole"] = "idle" /\ job["safety"] # "idle"
  /\ pc = "launch" => job["liveness"] = "idle"
  /\ pc \in {"safety", "liveness"} => job["liveness"] # "idle"
  /\ pc = "liveness" => job["safety"] = "stored"
  /\ pc = "report" =>
       /\ result["top"] \in Results
       /\ job["whole"] \in {"idle", "answered"}
       /\ \/ \A j \in Partitions : job[j] = "idle"
          \/ Parallel /\ job["whole"] = "idle" /\ \A j \in Partitions : job[j] = "stored"
  /\ \A j \in Jobs : job[j] \in {"answered", "stored"} => result[j] \in Results

Typed == TypeOK /\ Placed

-----------------------------------------------------------------------------
LEMMA SessionFacts ==
  ASSUME session \in Sessions
  PROVE  /\ session.tasks \in Seq(Requests) /\ Len(session.tasks) \in 1..MaxTasks
         /\ \A i \in Tasks : session.tasks[i] \in Requests
         /\ MaxTasks \in Nat
         /\ session.expected \in Results \cup {"default", "any"}
         /\ session.kind \in TaskKinds \cup {"auto"}
         /\ problem.cover \in BOOLEAN /\ problem.clocks \in Nat
         /\ problem.parts \subseteq Partitions
         /\ problem.wide \subseteq problem.parts /\ problem.fails \subseteq problem.parts
<1>1. /\ session.tasks \in Seq(Requests) /\ Len(session.tasks) \in 1..MaxTasks
      /\ session.expected \in Results \cup {"default", "any"}
      /\ session.kind \in TaskKinds \cup {"auto"}
  BY SessionsAssumption
<1>2. \A i \in Tasks : session.tasks[i] \in Requests
  BY <1>1 DEF Tasks
<1>3. /\ problem.cover \in BOOLEAN /\ problem.clocks \in Nat
      /\ problem.parts \subseteq Partitions
      /\ problem.wide \subseteq problem.parts /\ problem.fails \subseteq problem.parts
  BY SessionsAssumption DEF problem
<1> QED BY <1>1, <1>2, <1>3, TasksAssumption

\* The record of a call keeps its types, whatever the call does.
ToolTypes ==
  /\ tool \in [Calls -> {"none", "running", "ended"}]
  /\ wrote \in [Calls -> 0..1]
  /\ exit \in [Calls -> Nat]
  /\ answer \in [Calls -> Seq([output : {<<>>, <<1>>}, status : Nat, timedOut : BOOLEAN])]
  /\ \A c \in Calls : Len(answer[c]) <= 1

LEMMA AnswerTyped ==
  ASSUME ToolTypes, NEW c \in Calls, Tool!Answer(c)
  PROVE  /\ ToolTypes'
         /\ tool[c] = "ended" /\ answer[c] = <<>>
         /\ UNCHANGED <<tool, wrote, exit>>
         /\ \E t \in BOOLEAN, o \in {<<>>, <<1>>} :
              /\ t => Timeouts
              /\ o = <<>> <=> wrote[c] = 0
              /\ answer' = [answer EXCEPT ![c] =
                   <<[output |-> o, status |-> exit[c], timedOut |-> t]>>]
<1>1. /\ tool[c] = "ended" /\ answer[c] = <<>>
      /\ UNCHANGED <<tool, wrote, exit>>
  BY DEF Tool!Answer, Tool!Pending
<1>2. PICK t \in BOOLEAN :
        /\ t => c \in (IF Timeouts THEN Calls ELSE {})
        /\ answer' = [answer EXCEPT ![c] =
            <<[output |-> [i \in 1..wrote[c] |-> i], status |-> exit[c], timedOut |-> t]>>]
  BY DEF Tool!Answer
<1> DEFINE o == [i \in 1..wrote[c] |-> i]
<1>3. o \in {<<>>, <<1>>} /\ (o = <<>> <=> wrote[c] = 0)
  <2>1. CASE wrote[c] = 0
    <3>1. o = <<>>
      BY <2>1
    <3> QED BY <2>1, <3>1
  <2>2. CASE wrote[c] = 1
    <3>1. o = <<1>>
      BY <2>2
    <3> QED BY <2>2, <3>1
  <2> QED BY <2>1, <2>2 DEF ToolTypes
<1>4. exit[c] \in Nat
  BY DEF ToolTypes
<1> HIDE DEF o
<1> DEFINE a == <<[output |-> o, status |-> exit[c], timedOut |-> t]>>
<1>5. a \in Seq([output : {<<>>, <<1>>}, status : Nat, timedOut : BOOLEAN]) /\ Len(a) = 1
  BY <1>3, <1>4
<1>6. answer' = [answer EXCEPT ![c] = a]
  BY <1>2 DEF o
<1> HIDE DEF a
<1>7. ToolTypes'
  <2>1. answer' \in [Calls -> Seq([output : {<<>>, <<1>>}, status : Nat, timedOut : BOOLEAN])]
    BY <1>5, <1>6 DEF ToolTypes
  <2>2. \A d \in Calls : Len(answer'[d]) <= 1
    <3> TAKE d \in Calls
    <3>1. CASE d = c
      <4>1. answer'[c] = a
        BY <1>6 DEF ToolTypes
      <4>2. Len(a) <= 1
        BY <1>5
      <4> QED BY <3>1, <4>1, <4>2, Zenon
    <3>2. CASE d # c
      BY <1>6, <3>2 DEF ToolTypes
    <3> QED BY <3>1, <3>2
  <2> QED BY <1>1, <2>1, <2>2 DEF ToolTypes
<1> QED BY <1>1, <1>2, <1>3, <1>6, <1>7 DEF a

LEMMA AnswerGiven ==
  ASSUME ToolTypes, NEW c \in Calls, Tool!Answer(c)
  PROVE  /\ answer[c] = <<>> /\ answer'[c] # <<>>
         /\ \A d \in Calls : d # c => answer'[d] = answer[d]
<1>1. PICK a : answer' = [answer EXCEPT ![c] = <<a>>]
  BY DEF Tool!Answer
<1>2. answer[c] = <<>> /\ <<a>> # <<>>
  BY DEF Tool!Answer, Tool!Pending
<1> QED BY <1>1, <1>2 DEF ToolTypes

\* A call that starts, speaks or ends.
LEMMA SolverTyped ==
  ASSUME ToolTypes, NEW c \in Calls, Speak(c) \/ End(c) \/ Tool!Start(c)
  PROVE  ToolTypes'
<1>1. CASE Speak(c)
  BY <1>1 DEF ToolTypes, Speak, Tool!Say
<1>2. CASE End(c)
  BY <1>2 DEF ToolTypes, End, Tool!Stop
<1>3. CASE Tool!Start(c)
  BY <1>3 DEF ToolTypes, Tool!Start
<1> QED BY <1>1, <1>2, <1>3

\* The loop goes to the next task, if there is one.
LEMMA ThrowTyped ==
  ASSUME Typed, pc # "over", Throw, UNCHANGED <<session, reports, toolVars>>
  PROVE  Typed'
<1>1. task \in Tasks /\ Len(session.tasks) \in Nat /\ Tasks \subseteq 1..MaxTasks
  BY SessionFacts DEF Typed, TypeOK, Placed, Tasks
<1>2. TypeOK'
  <2>1. /\ session' \in Sessions /\ task' \in 1 .. Len(session'.tasks) + 1
        /\ pc' \in Places /\ engine' \in Engines \cup {None}
    BY <1>1 DEF Typed, TypeOK, Throw, NextTask, Places, Tasks
  <2>2. /\ job' \in [Jobs -> Stages]
        /\ found' \in [Jobs -> {"fails", "holds", "open", None}]
        /\ result' \in [Jobs \cup {"top"} -> Results \cup {None}]
    BY DEF Throw, NextTask, Stages, Idle, NoResult
  <2>3. outcome' \in [1..MaxTasks -> Results \cup {None, Threw}] /\ passed' \in BOOLEAN
    BY <1>1 DEF Typed, TypeOK, Throw
  <2> QED BY <2>1, <2>2, <2>3 DEF Typed, TypeOK, toolVars
<1>3. Placed'
  BY <1>1, SessionFacts
  DEF Typed, TypeOK, Placed, Throw, NextTask, toolVars, Idle, NoResult, Tasks, Results, None
<1> QED BY <1>2, <1>3 DEF Typed

LEMMA TypedRoute == Typed /\ Route => Typed'
<1> SUFFICES ASSUME Typed, Route PROVE Typed'
  OBVIOUS
<1>1. CASE Throw
  BY <1>1, ThrowTyped DEF Route
<1>2. CASE ~Throw
  <2>1. PICK e \in Engines : engine' = e /\ pc' = "lower"
               /\ UNCHANGED <<task, job, found, result, outcome, passed>>
    <3>1. request \in Requests /\ session.kind \in TaskKinds \cup {"auto"}
      BY SessionFacts DEF Typed, TypeOK, Placed, Route, request, Tasks
    <3> QED BY <1>2, <3>1
      DEF Route, Requests, Engines, Recommended, Classify, TaskKinds
  <2> QED BY <2>1 DEF Route, Typed, TypeOK, Placed, Places, toolVars
<1> QED BY <1>1, <1>2

LEMMA TypedLaunch ==
  Typed /\ (SolveOnce \/ Single \/ LaunchSafety \/ LaunchLiveness) => Typed'
<1> SUFFICES ASSUME Typed, SolveOnce \/ Single \/ LaunchSafety \/ LaunchLiveness
             PROVE  Typed'
  OBVIOUS
<1>1. CASE SolveOnce
  <2>1. CASE Throw
    BY <1>1, <2>1, ThrowTyped DEF SolveOnce
  <2>2. CASE ~Throw
    <3>1. PICK r \in {"proved", "counterexample", "unknown"} :
            result' = [result EXCEPT !["top"] = r]
      BY <1>1, <2>2 DEF SolveOnce
    <3> QED BY <1>1, <2>2, <3>1
      DEF SolveOnce, Typed, TypeOK, Placed, Places, toolVars, Results, Jobs, Partitions
  <2> QED BY <2>1, <2>2
<1>2. CASE Single
  BY <1>2 DEF Single, Typed, TypeOK, Placed, Places, Stages, toolVars, Jobs, Partitions, Parallel, request, problem
<1>3. CASE LaunchSafety
  BY <1>3 DEF LaunchSafety, Typed, TypeOK, Placed, Places, Stages, toolVars, Jobs, Partitions, Parallel, request, problem
<1>4. CASE LaunchLiveness
  BY <1>4 DEF LaunchLiveness, Typed, TypeOK, Placed, Places, Stages, toolVars, Jobs, Partitions, Parallel, request, problem
<1> QED BY <1>1, <1>2, <1>3, <1>4

LEMMA VerdictTyped ==
  ASSUME NEW b, NEW a, NEW said
  PROVE  Verdict(b, a, said) \in {"proved", "bounded", "counterexample", "unknown", "timeout"}
BY DEF Verdict, PonoVerdict, BtormcVerdict, VerdictSaid, Ric3Verdict, AvrVerdict, AigerVerdict

\* What a job may do to the record of its task.
LEMMA JobTyped ==
  ASSUME Typed, NEW j \in Jobs, Job(j)
  PROVE  /\ Typed'
         /\ job[j] \in {"running", "converting", "converted", "solving"}
<1> DEFINE c == <<task, j>>
           v == <<task, "convert">>
<1>1. /\ job[j] \in {"running", "converting", "converted", "solving"}
      /\ UNCHANGED <<session, task, pc, engine, reports, outcome, passed>>
  BY DEF Job, Begin, Converted, Solve, Answered
<1>2. task \in 1..MaxTasks /\ c \in Calls /\ v \in Calls
  <2>1. pc # "over"
    BY <1>1 DEF Typed, Placed
  <2>2. task \in 1..MaxTasks
    BY <2>1, SessionFacts DEF Typed, TypeOK, Placed
  <2> QED BY <2>2 DEF Calls
<1>3. ToolTypes
  BY DEF Typed, TypeOK, ToolTypes
<1>4. ToolTypes'
  BY <1>2, <1>3, SolverTyped, AnswerTyped
  DEF Job, Begin, Fail, Converted, Solve, Answered, ToolTypes, toolVars
<1>5. \E f \in {"fails", "holds", "open"} :
        UNCHANGED found \/ found' = [found EXCEPT ![j] = f]
  BY DEF Job, Begin, Fail, Converted, Solve, Answered, Findings
<1>6. \/ /\ UNCHANGED result
         /\ \E s \in {Threw, "converting", "converted", "solving"} :
              job' = [job EXCEPT ![j] = s]
      \/ /\ \E r \in Results : result' = [result EXCEPT ![j] = r]
         /\ job' = [job EXCEPT ![j] = "answered"]
  BY VerdictTyped DEF Job, Begin, Fail, Converted, Solve, Answered, Results
<1> HIDE DEF c, v
<1>7. /\ found' \in [Jobs -> {"fails", "holds", "open", None}]
      /\ result' \in [Jobs \cup {"top"} -> Results \cup {None}]
      /\ \A i \in Jobs \cup {"top"} : i # j => result'[i] = result[i]
  <2>1. /\ found \in [Jobs -> {"fails", "holds", "open", None}]
        /\ result \in [Jobs \cup {"top"} -> Results \cup {None}]
    BY DEF Typed, TypeOK
  <2>2. PICK f \in {"fails", "holds", "open"} :
          UNCHANGED found \/ found' = [found EXCEPT ![j] = f]
    BY <1>5
  <2>3. \/ UNCHANGED result
        \/ \E r \in Results : result' = [result EXCEPT ![j] = r]
    BY <1>6
  <2> QED BY <2>1, <2>2, <2>3
<1>8. /\ job' \in [Jobs -> Stages]
      /\ \A i \in Jobs : i # j => job'[i] = job[i]
      /\ job'[j] \in {Threw, "converting", "converted", "solving", "answered"}
      /\ job'[j] = "answered" => result'[j] \in Results
  <2>1. job \in [Jobs -> Stages] /\ result \in [Jobs \cup {"top"} -> Results \cup {None}]
    BY DEF Typed, TypeOK
  <2> QED BY <1>6, <2>1 DEF Stages, Threw
<1>9. TypeOK'
  BY <1>1, <1>4, <1>7, <1>8 DEF Typed, TypeOK, ToolTypes
<1>10. Placed'
  <2>1. \A i \in Jobs : job'[i] \in {"answered", "stored"} => result'[i] \in Results
    BY <1>7, <1>8 DEF Typed, Placed, Threw
  <2>2. Parallel' <=> Parallel
    BY <1>1 DEF Parallel, request, problem
  <2> QED BY <1>1, <1>7, <1>8, <2>1, <2>2 DEF Typed, Placed, Jobs, Partitions, Threw
<1> QED BY <1>1, <1>9, <1>10 DEF Typed

LEMMA TypedStore ==
  ASSUME Typed, NEW j \in Jobs, Store(j)
  PROVE  Typed'
<1>1. /\ j \in Partitions /\ job[j] = "answered"
      /\ UNCHANGED <<session, task, pc, engine, found, result, outcome, passed, toolVars>>
  BY DEF Store, Jobs
<1>2. pc \notin {"route", "over"} /\ task \in 1..MaxTasks /\ engine \in Engines
      /\ result[j] \in Results
  BY <1>1, SessionFacts DEF Typed, TypeOK, Placed
<1>3. /\ job' \in [Jobs -> Stages]
      /\ \A i \in Jobs : i # j => job'[i] = job[i]
      /\ job'[j] \in {Threw, "stored"}
  BY <1>1 DEF Store, Typed, TypeOK, Stages
<1>4. reports' \in [(1..MaxTasks) \X ({"top"} \cup Partitions) ->
                     {<<>>} \cup {<<r>> : r \in ReportFiles}]
  <2> DEFINE file ==
        [result |-> result[j], engine |-> engine, met |-> ExpectationMet(result[j])]
  <2>1. file \in ReportFiles
    BY <1>2 DEF ReportFiles, ExpectationMet
  <2>2. UNCHANGED reports \/ reports' = [reports EXCEPT ![<<task, j>>] = <<file>>]
    BY DEF Store
  <2>3. <<file>> \in {<<r>> : r \in ReportFiles}
    BY <2>1
  <2> HIDE DEF file
  <2> DEFINE dom == (1..MaxTasks) \X ({"top"} \cup Partitions)
             files == {<<>>} \cup {<<r>> : r \in ReportFiles}
             x == <<task, j>>
             y == <<file>>
  <2>4. x \in dom /\ y \in files /\ reports \in [dom -> files]
        /\ (UNCHANGED reports \/ reports' = [reports EXCEPT ![x] = y])
    BY <1>1, <1>2, <2>2, <2>3 DEF Typed, TypeOK
  <2> HIDE DEF dom, files, x, y
  <2>5. reports' \in [dom -> files]
    BY <2>4
  <2> QED BY <2>5 DEF dom, files
<1>5. TypeOK'
  BY <1>1, <1>3, <1>4 DEF Typed, TypeOK, toolVars
<1>6. Placed'
  <2>1. Parallel' <=> Parallel
    BY <1>1 DEF Parallel, request, problem
  <2> QED BY <1>1, <1>2, <1>3, <2>1 DEF Typed, Placed, Jobs, Partitions, Threw
<1> QED BY <1>5, <1>6 DEF Typed

LEMMA CombineTyped ==
  ASSUME NEW s, NEW l
  PROVE  Combine(s, l) \in Results
BY DEF Combine, Results

LEMMA TypedJoin ==
  Typed /\ (JoinWhole \/ JoinSafety \/ JoinLiveness \/ Unwind) => Typed'
<1> SUFFICES ASSUME Typed, JoinWhole \/ JoinSafety \/ JoinLiveness \/ Unwind
             PROVE  Typed'
  OBVIOUS
<1>1. CASE JoinWhole
  <2>1. CASE Throw
    BY <1>1, <2>1, ThrowTyped DEF JoinWhole
  <2>2. CASE ~Throw
    <3>1. CoverResult(result["whole"]) \in Results
      BY <1>1, <2>2 DEF JoinWhole, CoverResult, Typed, Placed, Jobs, Results
    <3> QED BY <1>1, <2>2, <3>1
      DEF JoinWhole, Typed, TypeOK, Placed, Places, toolVars, Jobs, Partitions
  <2> QED BY <2>1, <2>2
<1>2. CASE JoinSafety
  BY <1>2 DEF JoinSafety, Typed, TypeOK, Placed, Places, Threw, toolVars, Parallel, request, problem
<1>3. CASE JoinLiveness
  BY <1>3, CombineTyped
  DEF JoinLiveness, Typed, TypeOK, Placed, Places, Threw, toolVars, Parallel, request, problem,
      Jobs, Partitions
<1>4. CASE Unwind
  BY <1>4, ThrowTyped DEF Unwind
<1> QED BY <1>1, <1>2, <1>3, <1>4

\* What is reported of a task, and that the loop goes on.
LEMMA TypedReport ==
  Typed /\ Report => Typed'
<1> SUFFICES ASSUME Typed, Report PROVE Typed'
  OBVIOUS
<1>1. /\ task \in Tasks /\ Len(session.tasks) \in Nat /\ Tasks \subseteq 1..MaxTasks
      /\ engine \in Engines /\ result["top"] \in Results
  BY SessionFacts DEF Typed, TypeOK, Placed, Tasks, Report
<1>2. reports' \in [(1..MaxTasks) \X ({"top"} \cup Partitions) ->
                     {<<>>} \cup {<<r>> : r \in ReportFiles}]
  <2>1. [result |-> result["top"], engine |-> engine,
         met |-> ExpectationMet(result["top"])] \in ReportFiles
    BY <1>1 DEF ReportFiles, ExpectationMet
  <2> QED BY <1>1, <2>1 DEF Report, Typed, TypeOK
<1>3. /\ session' \in Sessions /\ task' \in 1 .. Len(session'.tasks) + 1
      /\ pc' \in Places /\ engine' \in Engines \cup {None}
  BY <1>1 DEF Typed, TypeOK, Report, NextTask, Places, Tasks
<1>4. /\ job' \in [Jobs -> Stages]
      /\ found' \in [Jobs -> {"fails", "holds", "open", None}]
      /\ result' \in [Jobs \cup {"top"} -> Results \cup {None}]
  BY DEF Report, NextTask, Stages, Idle, NoResult
<1>5. outcome' \in [1..MaxTasks -> Results \cup {None, Threw}] /\ passed' \in BOOLEAN
  <2>1. outcome' \in [1..MaxTasks -> Results \cup {None, Threw}]
    BY <1>1 DEF Typed, TypeOK, Report
  <2> QED BY <2>1 DEF Report
<1>6. TypeOK'
  BY <1>2, <1>3, <1>4, <1>5 DEF Typed, TypeOK, Report, toolVars
<1>7. Placed'
  BY <1>1 DEF Placed, Report, NextTask, Idle, NoResult, Results, None, Tasks
<1> QED BY <1>6, <1>7 DEF Typed

LEMMA TypedSolver ==
  ASSUME Typed, NEW c \in Calls, Solver(c)
  PROVE  Typed'
<1>1. ToolTypes'
  BY SolverTyped DEF Solver, Typed, TypeOK, ToolTypes
<1> QED BY <1>1 DEF Solver, taskVars, Typed, TypeOK, ToolTypes, Placed, Parallel, request, problem

LEMMA TypedInit == Init => Typed
<1> SUFFICES ASSUME Init PROVE Typed
  OBVIOUS
<1>1. ToolTypes
  BY DEF Init, Tool!Init, Tool!Pending, ToolTypes
<1>2. session \in Sessions /\ Len(session.tasks) \in 1..MaxTasks
  BY SessionFacts DEF Init
<1>3. TypeOK
  BY <1>1, <1>2
  DEF Init, TypeOK, ToolTypes, Places, Stages, Idle, NoResult
<1>4. Placed
  BY <1>2 DEF Init, Placed, Idle, NoResult
<1> QED BY <1>3, <1>4 DEF Typed

LEMMA TypedNext == Typed /\ [Next]_vars => Typed'
<1> SUFFICES ASSUME Typed, [Next]_vars PROVE Typed'
  OBVIOUS
<1>1. CASE Main
  <2>1. CASE Fault
    BY <2>1, ThrowTyped DEF Fault
  <2> QED BY <1>1, <2>1, TypedRoute, TypedLaunch, TypedJoin, TypedReport DEF Main
<1>2. CASE \E j \in Jobs : Job(j) \/ Store(j)
  BY <1>2, JobTyped, TypedStore
<1>3. CASE \E c \in Calls : Solver(c)
  BY <1>3, TypedSolver
<1>4. CASE UNCHANGED vars
  BY <1>4 DEF vars, taskVars, toolVars, Typed, TypeOK, Placed, Parallel, request, problem
<1> QED BY <1>1, <1>2, <1>3, <1>4 DEF Next

\* Every variable has its type.
THEOREM TypesKept == Spec => []TypeOK
<1>1. Typed => TypeOK
  BY DEF Typed
<1> QED BY <1>1, TypedInit, TypedNext, PTL DEF Spec

-----------------------------------------------------------------------------
(***************************************************************************)
(* Every solver is somebody's (Matched): it runs only while the job that   *)
(* called it waits for it.                                                 *)
(***************************************************************************)
Waits(c) ==
  /\ c[1] = task
  /\ \/ c[2] \in Jobs /\ job[c[2]] = "solving"
     \/ c[2] = "convert" /\ job["whole"] = "converting"

Matched ==
  /\ \A c \in Calls :
       IF Waits(c) THEN tool[c] # "none" /\ answer[c] = <<>>
                   ELSE tool[c] # "none" <=> answer[c] # <<>>
  /\ \A c \in Calls : tool[c] = "none" => wrote[c] = 0
  /\ \A j \in Partitions : job[j] \notin {"converting", "converted"}

\* Nobody waits in a task that is over.
LEMMA QuietIsKept ==
  ASSUME Matched, UNCHANGED toolVars, NextTask,
         \A j \in Jobs : job[j] \notin {"converting", "solving"}
  PROVE  Matched'
<1>1. \A j \in Jobs : job'[j] = "idle"
  BY DEF NextTask, Idle
<1>2. \A c \in Calls : ~Waits(c) /\ ~Waits(c)'
  BY <1>1 DEF Waits, Jobs
<1> QED BY <1>1, <1>2 DEF Matched, toolVars, Jobs

LEMMA MatchedMain == Typed /\ Matched /\ Main => Matched'
<1> SUFFICES ASSUME Typed, Matched, Main PROVE Matched'
  OBVIOUS
<1>1. UNCHANGED toolVars
  BY DEF Main, Route, SolveOnce, Single, LaunchSafety, LaunchLiveness, JoinWhole,
         JoinSafety, JoinLiveness, Unwind, Report, Fault
<1>2. CASE NextTask
  <2>1. \A j \in Jobs : job[j] \notin {"converting", "solving"}
    <3>1. pc \notin {"launch", "safety", "liveness"}
      BY <1>2 DEF NextTask, Main, Route, SolveOnce, Single, LaunchSafety, LaunchLiveness,
        JoinWhole, JoinSafety, JoinLiveness, Unwind, Report, Fault
    <3>2. pc = "whole" => job["whole"] \in {"answered", Threw}
      BY <1>2 DEF Main, Route, SolveOnce, Single, LaunchSafety, LaunchLiveness,
        JoinWhole, JoinSafety, JoinLiveness, Unwind, Report, Fault
    <3>3. pc = "unwind" => \A j \in Jobs : job[j] \in {"idle", "stored", Threw}
      BY DEF Main, Route, SolveOnce, Single, LaunchSafety, LaunchLiveness,
        JoinWhole, JoinSafety, JoinLiveness, Unwind, Report, Fault
    <3> QED BY <3>1, <3>2, <3>3 DEF Typed, TypeOK, Placed, Places, Jobs, Partitions, Threw
  <2> QED BY <1>1, <1>2, <2>1, QuietIsKept
<1>3. CASE ~NextTask
  <2>1. /\ task' = task
        /\ \/ UNCHANGED job
           \/ \E j \in Jobs : job[j] = "idle" /\ job' = [job EXCEPT ![j] = "running"]
    BY <1>3 DEF Main, Route, SolveOnce, Single, LaunchSafety, LaunchLiveness,
        JoinWhole, JoinSafety, JoinLiveness, Unwind, Report, Fault, Throw, Typed, Placed,
        Jobs, Partitions
  <2>2. job \in [Jobs -> Stages]
    BY DEF Typed, TypeOK
  <2>3. /\ \A j \in Jobs : job'[j] = job[j] \/ (job[j] = "idle" /\ job'[j] = "running")
    BY <2>1, <2>2
  <2>4. \A c \in Calls : Waits(c)' <=> Waits(c)
    BY <2>1, <2>3 DEF Waits, Jobs
  <2> QED BY <1>1, <2>3, <2>4 DEF Matched, toolVars, Jobs
<1> QED BY <1>2, <1>3

\* Only the single job of a task asked for by name converts its model.
LEMMA PartsDoNotConvert ==
  ASSUME Typed, NEW j \in Partitions, job[j] # "idle", pc # "report"
  PROVE  Parallel /\ SelectBackend(j) \notin Aiger
<1>1. Parallel
  BY DEF Typed, TypeOK, Placed, Places, Jobs, Partitions
<1> QED BY <1>1 DEF Parallel, SelectBackend, Aiger

LEMMA JobPlace ==
  ASSUME Typed, NEW j \in Jobs, Job(j)
  PROVE  /\ UNCHANGED <<session, task, engine>>
         /\ \A i \in Jobs : <<task, i>> \in Calls
         /\ <<task, "convert">> \in Calls
<1>1. UNCHANGED <<session, task, engine>>
  BY DEF Job
<1>2. pc # "over"
  BY JobTyped DEF Typed, Placed
<1>3. task \in 1..MaxTasks
  BY <1>2, SessionFacts DEF Typed, TypeOK, Placed
<1> QED BY <1>1, <1>3 DEF Calls

LEMMA MatchedJob ==
  ASSUME Typed, Matched, NEW j \in Jobs, Job(j)
  PROVE  Matched'
<1> DEFINE c == <<task, j>>
           v == <<task, "convert">>
<1>1. /\ job \in [Jobs -> Stages] /\ tool \in [Calls -> {"none", "running", "ended"}]
      /\ wrote \in [Calls -> 0..1] /\ DOMAIN answer = Calls
      /\ task' = task /\ c \in Calls /\ v \in Calls /\ "convert" \notin Jobs
  <2>1. /\ job \in [Jobs -> Stages] /\ tool \in [Calls -> {"none", "running", "ended"}]
        /\ wrote \in [Calls -> 0..1] /\ DOMAIN answer = Calls
    BY DEF Typed, TypeOK
  <2>2. c \in Calls /\ v \in Calls
    BY JobPlace
  <2>3. task' = task /\ "convert" \notin Jobs
    BY DEF Job, Jobs, Partitions
  <2> QED BY <2>1, <2>2, <2>3
<1>2. job[j] \in {"running", "converting", "converted", "solving"} /\ pc # "report"
  <2>1. job[j] \in {"running", "converting", "converted", "solving"}
    BY JobTyped
  <2> QED BY <2>1 DEF Typed, Placed, Jobs, Partitions
<1>3. j \in Partitions => SelectBackend(j) \notin Aiger
  BY <1>2, PartsDoNotConvert
<1>4. CASE UNCHANGED toolVars
  <2>1. job' = [job EXCEPT ![j] = Threw] /\ job[j] \in {"running", "converted"}
    <3>1. ~Converted(j) /\ ~Answered(j) /\ ~Tool!Start(c)
      <4>1. ToolTypes
        BY DEF Typed, TypeOK, ToolTypes
      <4>2. ~Tool!Answer(c) /\ ~Tool!Answer(v)
        BY <1>1, <1>4, <4>1, AnswerGiven DEF toolVars
      <4>3. ~Tool!Start(c)
        BY <1>1, <1>4 DEF toolVars, Tool!Start
      <4> QED BY <4>2, <4>3 DEF Converted, Answered
    <3>2. Begin(j) \/ Solve(j)
      BY <3>1 DEF Job
    <3> QED BY <1>1, <1>4, <3>1, <3>2 DEF Begin, Solve, Fail, toolVars, Tool!Start
  <2>2. \A d \in Calls : Waits(d)' <=> Waits(d)
    BY <1>1, <2>1 DEF Waits, Threw, Jobs
  <2> QED BY <1>1, <1>4, <2>1, <2>2 DEF Matched, toolVars, Threw, Partitions, Jobs
<1>5. ASSUME Tool!Start(c), job[j] \in {"running", "converted"},
             job' = [job EXCEPT ![j] = "solving"]
      PROVE  Matched'
  <2>1. \A d \in Calls : Waits(d)' <=> Waits(d) \/ d = c
    <3> TAKE d \in Calls
    <3>1. d = <<d[1], d[2]>>
      BY DEF Calls
    <3> QED BY <1>1, <1>5, <3>1 DEF Waits, Jobs
  <2> QED BY <1>1, <1>5, <2>1 DEF Matched, Tool!Start, Jobs, Partitions
<1>6. ASSUME Tool!Start(v), job[j] = "running", j = "whole",
             job' = [job EXCEPT ![j] = "converting"]
      PROVE  Matched'
  <2>1. \A d \in Calls : Waits(d)' <=> Waits(d) \/ d = v
    <3> TAKE d \in Calls
    <3>1. d = <<d[1], d[2]>>
      BY DEF Calls
    <3> QED BY <1>1, <1>6, <3>1 DEF Waits, Jobs
  <2> QED BY <1>1, <1>6, <2>1 DEF Matched, Tool!Start, Jobs, Partitions
<1>7. ASSUME NEW d \in {c, v}, Tool!Answer(d), Waits(d), NEW s \in {Threw, "converted", "answered"},
             job' = [job EXCEPT ![j] = s], s = "converted" => j = "whole",
             d = c => job[j] = "solving", d = v => j = "whole" /\ job[j] = "converting"
      PROVE  Matched'
  <2>1. /\ UNCHANGED <<tool, wrote>> /\ tool[d] = "ended"
        /\ answer'[d] # <<>> /\ \A e \in Calls : e # d => answer'[e] = answer[e]
    <3>1. ToolTypes
      BY DEF Typed, TypeOK, ToolTypes
    <3> QED BY <1>1, <1>7, <3>1, AnswerGiven DEF Tool!Answer
  <2>2. \A e \in Calls : Waits(e)' <=> Waits(e) /\ e # d
    <3> TAKE e \in Calls
    <3>1. e = <<e[1], e[2]>>
      BY DEF Calls
    <3> QED BY <1>1, <1>7, <3>1 DEF Waits, Jobs, Threw
  <2> QED BY <1>1, <1>7, <2>1, <2>2 DEF Matched, Jobs, Partitions, Threw
<1>8. CASE ~UNCHANGED toolVars
  <2>1. CASE Begin(j)
    <3>1. \/ Tool!Start(c) /\ job' = [job EXCEPT ![j] = "solving"]
          \/ /\ Tool!Start(v) /\ job' = [job EXCEPT ![j] = "converting"]
             /\ SelectBackend(j) \in Aiger
      BY <1>8, <2>1 DEF Begin, Fail
    <3>2. job[j] = "running"
      BY <2>1 DEF Begin
    <3> QED BY <1>3, <1>5, <1>6, <3>1, <3>2 DEF Jobs
  <2>2. CASE Converted(j)
    <3>1. j = "whole" /\ Waits(v)
      BY <2>2 DEF Converted, Matched, Waits, Jobs
    <3>2. \E s \in {Threw, "converted"} : job' = [job EXCEPT ![j] = s]
      BY <2>2 DEF Converted
    <3> QED BY <1>1, <1>7, <2>2, <3>1, <3>2 DEF Converted
  <2>3. CASE Solve(j)
    BY <1>5, <1>8, <2>3 DEF Solve, Fail
  <2>4. CASE Answered(j)
    <3>1. Waits(c) /\ Tool!Answer(c) /\ job[j] = "solving"
      BY <2>4 DEF Answered, Waits
    <3>2. \E s \in {Threw, "answered"} : job' = [job EXCEPT ![j] = s]
      BY <2>4 DEF Answered
    <3> QED BY <1>1, <1>7, <3>1, <3>2 DEF Threw
  <2> QED BY <2>1, <2>2, <2>3, <2>4 DEF Job
<1> QED BY <1>4, <1>8

LEMMA MatchedNext == Typed /\ Matched /\ [Next]_vars => Matched'
<1> SUFFICES ASSUME Typed, Matched, [Next]_vars PROVE Matched'
  OBVIOUS
<1>1. ASSUME NEW j \in Jobs, Store(j) PROVE Matched'
  <2>1. job \in [Jobs -> Stages] /\ job[j] = "answered" /\ UNCHANGED <<task, toolVars>>
        /\ \E s \in Finished : job' = [job EXCEPT ![j] = s]
    BY <1>1 DEF Store, Typed, TypeOK, Finished
  <2>2. \A c \in Calls : Waits(c)' <=> Waits(c)
    BY <2>1 DEF Waits, Finished, Threw, Jobs
  <2> QED BY <2>1, <2>2 DEF Matched, toolVars, Finished, Threw, Jobs, Partitions
<1>2. ASSUME NEW c \in Calls, Solver(c) PROVE Matched'
  <2>1. \A d \in Calls : Waits(d)' <=> Waits(d)
    BY <1>2 DEF Solver, taskVars, Waits
  <2> QED BY <1>2, <2>1
    DEF Typed, TypeOK, Matched, Solver, Speak, End, Tool!Say, Tool!Stop, taskVars
<1>3. CASE UNCHANGED vars
  BY <1>3 DEF vars, taskVars, toolVars, Matched, Waits
<1> QED BY <1>1, <1>2, <1>3, MatchedMain, MatchedJob DEF Next

LEMMA MatchedInit == Init => Matched
BY DEF Init, Matched, Waits, Idle, Tool!Init, Tool!Pending, Jobs, Partitions

\* A task leaves no solver behind.
THEOREM NothingLeft == Spec => []NothingLeftRunning
<1>1. Typed /\ Matched => NothingLeftRunning
  <2> SUFFICES ASSUME Typed, Matched, NEW c \in Calls,
                      pc \in {"route", "over"} \/ c[1] # task
               PROVE  tool[c] # "none" <=> answer[c] # <<>>
    BY DEF NothingLeftRunning
  <2>1. ~Waits(c)
    BY DEF Waits, Typed, Placed, Jobs
  <2> QED BY <2>1 DEF Matched
<1> QED BY <1>1, TypedInit, TypedNext, MatchedInit, MatchedNext, PTL DEF Spec

-----------------------------------------------------------------------------
(***************************************************************************)
(* What a back end makes of its solver's status and text is what the       *)
(* solver found out (Decided), however the solver ended.                   *)
(***************************************************************************)
Decided ==
  \A j \in Jobs :
    /\ job[j] \in {"converting", "converted", "solving", "answered", "stored"} => ~Refused(j)
    /\ job[j] = "solving" =>
         /\ found[j] \in Findings(j)
         /\ wrote[<<task, j>>] = 1 => Speaks(SelectBackend(j), found[j])
         /\ tool[<<task, j>>] = "ended" => exit[<<task, j>>] \in Statuses(<<task, j>>)
    /\ job[j] \in {"answered", "stored"} =>
         /\ result[j] # "covered"
         /\ result[j] = "proved" /\ SelectBackend(j) # "btormc" =>
              Checked(j) \cap problem.fails = {}
         /\ result[j] = "counterexample" => Checked(j) \cap problem.fails # {}

LEMMA VerdictRight ==
  ASSUME NEW b, NEW f \in {"fails", "holds", "open"}, NEW w \in 0..1, NEW a,
         w = 1 => Speaks(b, f),
         \/ a.status = 137
         \/ a.status = 127 /\ w = 0 /\ b \in Aiger
         \/ a.status \in FinalStatuses(b, f) /\ (Speaks(b, f) => w = 1),
         b \in Backends \ {"smtbmc"}
  PROVE  LET r == Verdict(b, a, IF w = 0 THEN None ELSE f) IN
           /\ r = "proved" /\ b # "btormc" => f = "holds"
           /\ r = "counterexample" => f = "fails"
<1> DEFINE said == IF w = 0 THEN None ELSE f
           r == Verdict(b, a, said)
<1>1. said \in {"fails", "holds", "open", "none"} /\ (said # "none" => said = f)
  BY DEF None
<1>2. CASE b = "pono"
  BY <1>1, <1>2 DEF Verdict, PonoVerdict, FinalStatuses, Aiger
<1>3. CASE b = "btormc"
  <2>1. a.status = 0 /\ f = "fails" => said = "fails"
    BY <1>3 DEF FinalStatuses, Speaks, Aiger
  <2> QED BY <1>1, <1>3, <2>1 DEF Verdict, BtormcVerdict
<1>4. CASE b = "ric3"
  BY <1>1, <1>4 DEF Verdict, Ric3Verdict, VerdictSaid
<1>5. CASE b = "avr"
  BY <1>1, <1>5 DEF Verdict, AvrVerdict, VerdictSaid
<1>6. CASE b = "avy"
  BY <1>1, <1>6 DEF Verdict, AigerVerdict, FinalStatuses
<1>7. CASE b \in {"abc", "suprove"}
  BY <1>1, <1>7 DEF Verdict, AigerVerdict, VerdictSaid
<1> HIDE DEF r
<1> QED BY <1>2, <1>3, <1>4, <1>5, <1>6, <1>7 DEF r, Backends, Aiger

\* What a job is asked does not change while its task runs.
LEMMA SameTask ==
  ASSUME UNCHANGED <<session, task, engine>>, NEW j \in Jobs
  PROVE  /\ SelectBackend(j)' = SelectBackend(j)
         /\ Refused(j)' = Refused(j)
         /\ Checked(j)' = Checked(j)
         /\ Findings(j)' = Findings(j)
         /\ problem' = problem
<1>1. problem' = problem /\ request' = request /\ engine' = engine
  BY DEF problem, request
<1>2. Parts(j)' = Parts(j) /\ Justice(j)' = Justice(j) /\ Wide(j)' = Wide(j)
  BY <1>1 DEF Parts, Justice, Wide
<1>3. SelectBackend(j)' = SelectBackend(j)
  BY <1>1, <1>2 DEF SelectBackend
<1>4. Checked(j)' = Checked(j)
  BY <1>2, <1>3 DEF Checked
<1>5. Refused(j)' = Refused(j)
  BY <1>1, <1>2, <1>3 DEF Refused
<1>6. Findings(j)' = Findings(j)
  BY <1>1, <1>4 DEF Findings
<1> QED BY <1>1, <1>3, <1>4, <1>5, <1>6

LEMMA SameEnds ==
  ASSUME UNCHANGED <<session, task, engine>>, NEW j \in Jobs,
         found'[j] = found[j], wrote'[<<task, j>>] = wrote[<<task, j>>]
  PROVE  /\ Speaks(SelectBackend(j), found[j])' = Speaks(SelectBackend(j), found[j])
         /\ Statuses(<<task, j>>)' = Statuses(<<task, j>>)
<1>1. SelectBackend(j)' = SelectBackend(j) /\ engine' = engine /\ task' = task
  BY SameTask
<1>2. Speaks(SelectBackend(j), found[j])' = Speaks(SelectBackend(j), found[j])
  BY <1>1 DEF Speaks
<1>3. FinalStatuses(SelectBackend(j), found[j])' = FinalStatuses(SelectBackend(j), found[j])
  BY <1>1 DEF FinalStatuses
<1> QED BY <1>1, <1>2, <1>3 DEF Statuses

\* What Decided says of one job.
DecidedJob(j) ==
  /\ job[j] \in {"converting", "converted", "solving", "answered", "stored"} => ~Refused(j)
  /\ job[j] = "solving" =>
       /\ found[j] \in Findings(j)
       /\ wrote[<<task, j>>] = 1 => Speaks(SelectBackend(j), found[j])
       /\ tool[<<task, j>>] = "ended" => exit[<<task, j>>] \in Statuses(<<task, j>>)
  /\ job[j] \in {"answered", "stored"} =>
       /\ result[j] # "covered"
       /\ result[j] = "proved" /\ SelectBackend(j) # "btormc" =>
            Checked(j) \cap problem.fails = {}
       /\ result[j] = "counterexample" => Checked(j) \cap problem.fails # {}

\* A job that nothing happens to.
LEMMA DecidedKept ==
  ASSUME NEW j \in Jobs, DecidedJob(j), UNCHANGED <<session, task, engine>>,
         job'[j] = job[j], found'[j] = found[j], result'[j] = result[j],
         wrote'[<<task, j>>] = wrote[<<task, j>>], tool'[<<task, j>>] = tool[<<task, j>>],
         exit'[<<task, j>>] = exit[<<task, j>>]
  PROVE  DecidedJob(j)'
<1>1. task' = task
  OBVIOUS
<1>2. /\ Speaks(SelectBackend(j), found[j])' = Speaks(SelectBackend(j), found[j])
      /\ Statuses(<<task, j>>)' = Statuses(<<task, j>>)
  BY SameEnds
<1>3. /\ Refused(j)' = Refused(j) /\ Checked(j)' = Checked(j) /\ Findings(j)' = Findings(j)
      /\ problem' = problem /\ SelectBackend(j)' = SelectBackend(j)
  BY SameTask
<1> QED BY <1>1, <1>2, <1>3 DEF DecidedJob

LEMMA DecidedMain ==
  Typed /\ (\A j \in Jobs : DecidedJob(j)) /\ Main => \A j \in Jobs : DecidedJob(j)'
<1> SUFFICES ASSUME Typed, \A j \in Jobs : DecidedJob(j), Main, NEW j \in Jobs
             PROVE  DecidedJob(j)'
  OBVIOUS
<1>1. CASE job'[j] \in {"idle", "running"}
  BY <1>1 DEF DecidedJob
<1>2. CASE job'[j] \notin {"idle", "running"}
  <2>1. ~NextTask
    BY <1>2 DEF NextTask, Idle
  <2>2. /\ UNCHANGED <<session, task, found, toolVars>>
        /\ \/ UNCHANGED job
           \/ \E i \in Jobs : job' = [job EXCEPT ![i] = "running"]
        /\ UNCHANGED engine \/ (pc = "route" /\ UNCHANGED job)
        /\ UNCHANGED result \/ \E r : result' = [result EXCEPT !["top"] = r]
    BY <2>1 DEF Main, Route, SolveOnce, Single, LaunchSafety, LaunchLiveness, JoinWhole,
      JoinSafety, JoinLiveness, Unwind, Report, Fault, Throw, Jobs, Partitions
  <2>3. job'[j] = job[j]
    BY <1>2, <2>2 DEF Typed, TypeOK
  <2>4. engine' = engine
    BY <1>2, <2>2, <2>3 DEF Typed, Placed
  <2>5. result'[j] = result[j]
    BY <2>2 DEF Typed, TypeOK, Jobs, Partitions
  <2> QED BY <2>2, <2>3, <2>4, <2>5, DecidedKept DEF toolVars
<1> QED BY <1>1, <1>2

\* The step of a job is not seen by the others.
LEMMA DecidedOthers ==
  ASSUME Typed, NEW j \in Jobs, Job(j), NEW i \in Jobs, i # j, DecidedJob(i)
  PROVE  DecidedJob(i)'
<1> DEFINE c == <<task, j>>
           v == <<task, "convert">>
           d == <<task, i>>
<1>1. /\ UNCHANGED <<session, task, engine>> /\ d # c /\ d # v
      /\ c \in Calls /\ v \in Calls /\ d \in Calls
  BY JobPlace DEF Jobs, Partitions
<1>2. job'[i] = job[i] /\ found'[i] = found[i] /\ result'[i] = result[i]
  <2>1. /\ UNCHANGED job \/ \E s : job' = [job EXCEPT ![j] = s]
        /\ UNCHANGED found \/ \E f : found' = [found EXCEPT ![j] = f]
        /\ UNCHANGED result \/ \E r : result' = [result EXCEPT ![j] = r]
    BY DEF Job, Begin, Fail, Converted, Solve, Answered
  <2> QED BY <2>1 DEF Typed, TypeOK
<1>3. wrote' = wrote /\ exit' = exit /\ tool'[d] = tool[d]
  BY <1>1 DEF Job, Begin, Fail, Converted, Solve, Answered, Tool!Start, Tool!Answer, toolVars,
    Typed, TypeOK
<1> HIDE DEF c, v
<1> QED BY <1>1, <1>2, <1>3, DecidedKept

LEMMA DecidedSelf ==
  ASSUME Typed, Matched, NEW j \in Jobs, DecidedJob(j), Job(j)
  PROVE  DecidedJob(j)'
<1> DEFINE c == <<task, j>>
<1>1. /\ UNCHANGED <<session, task, engine>> /\ c \in Calls
      /\ job \in [Jobs -> Stages] /\ found \in [Jobs -> {"fails", "holds", "open", None}]
      /\ result \in [Jobs \cup {"top"} -> Results \cup {None}]
      /\ tool \in [Calls -> {"none", "running", "ended"}] /\ wrote \in [Calls -> 0..1]
      /\ ToolTypes
  BY JobPlace DEF Typed, TypeOK, ToolTypes
<1>2. /\ Refused(j)' = Refused(j) /\ Findings(j)' = Findings(j) /\ Checked(j)' = Checked(j)
      /\ problem' = problem /\ SelectBackend(j)' = SelectBackend(j)
  BY <1>1, SameTask
<1>3. CASE Begin(j) \/ Solve(j)
  <2>1. CASE job' = [job EXCEPT ![j] = Threw]
    BY <1>1, <2>1 DEF DecidedJob, Threw
  <2>2. CASE job' = [job EXCEPT ![j] = "converting"]
    <3>1. ~Refused(j)
      BY <1>1, <1>3, <2>2 DEF Begin, Solve, Fail, Threw
    <3> QED BY <1>1, <1>2, <2>2, <3>1 DEF DecidedJob
  <2>3. CASE job' = [job EXCEPT ![j] = "solving"]
    <3>1. ~Refused(j) /\ Tool!Start(c)
          /\ \E f \in Findings(j) : found' = [found EXCEPT ![j] = f]
      BY <1>1, <1>3, <2>3 DEF Begin, Solve, Fail, Threw, DecidedJob
    <3>2. found'[j] \in Findings(j)' /\ tool'[c] = "running" /\ wrote'[c] = 0
      BY <1>1, <1>2, <3>1 DEF Tool!Start, Matched
    <3>3. job'[j] = "solving" /\ <<task', j>> = c
      BY <1>1, <2>3
    <3> QED BY <1>1, <1>2, <3>1, <3>2, <3>3 DEF DecidedJob
  <2> QED BY <1>3, <2>1, <2>2, <2>3 DEF Begin, Solve, Fail
<1>4. CASE Converted(j)
  BY <1>1, <1>2, <1>4 DEF Converted, DecidedJob, Threw
<1>5. CASE Answered(j)
  <2>1. PICK t \in BOOLEAN, o \in {<<>>, <<1>>} :
          /\ o = <<>> <=> wrote[c] = 0
          /\ answer' = [answer EXCEPT ![c] =
               <<[output |-> o, status |-> exit[c], timedOut |-> t]>>]
    BY <1>1, <1>5, AnswerTyped DEF Answered
  <2> DEFINE a == [output |-> o, status |-> exit[c], timedOut |-> t]
             b == SelectBackend(j)
             said == IF wrote[c] = 0 THEN None ELSE found[j]
  <2>2. answer'[c][1] = a
    BY <1>1, <2>1 DEF ToolTypes
  <2>3. \/ job' = [job EXCEPT ![j] = Threw]
        \/ /\ ~(a.status = 127 /\ b \notin Aiger)
           /\ job' = [job EXCEPT ![j] = "answered"]
           /\ result' = [result EXCEPT ![j] = Verdict(b, a, said)]
    <3>1. a.output = <<>> <=> wrote[c] = 0
      BY <2>1
    <3> HIDE DEF a
    <3> QED BY <1>5, <2>2, <3>1 DEF Answered
  <2>4. CASE job' = [job EXCEPT ![j] = Threw]
    BY <1>1, <2>4 DEF DecidedJob, Threw
  <2>5. CASE job' # [job EXCEPT ![j] = Threw]
    <3> DEFINE r == Verdict(b, a, said)
    <3>1. job'[j] = "answered" /\ result'[j] = r /\ ~(a.status = 127 /\ b \notin Aiger)
      BY <1>1, <2>3, <2>5
    <3>2. /\ job[j] = "solving" /\ tool[c] = "ended" /\ ~Refused(j) /\ found[j] \in Findings(j)
          /\ wrote[c] = 1 => Speaks(b, found[j])
          /\ exit[c] \in Statuses(c)
      BY <1>5 DEF Answered, Tool!Answer, DecidedJob
    <3>3. b \in Backends \ {"smtbmc"} /\ found[j] \in {"fails", "holds", "open"}
      <4>1. request.backend \in Backends \cup {"auto"}
        <5>1. request \in Requests
          BY <3>2, SessionFacts DEF Typed, TypeOK, Placed, Tasks, request
        <5> QED BY <5>1 DEF Requests
      <4> QED BY <3>2, <4>1 DEF SelectBackend, Backends, Aiger, Refused, Findings
    <3>4. wrote[c] \in 0..1 /\ a.status = exit[c] /\ c[2] = j /\ j # "convert"
      BY <1>1 DEF Jobs, Partitions
    <3>5. \/ a.status = 137
          \/ a.status = 127 /\ wrote[c] = 0
          \/ a.status \in FinalStatuses(b, found[j]) /\ (Speaks(b, found[j]) => wrote[c] = 1)
      BY <3>2, <3>4, Zenon DEF Statuses
    <3>6. \/ a.status = 137
          \/ a.status = 127 /\ wrote[c] = 0 /\ b \in Aiger
          \/ a.status \in FinalStatuses(b, found[j]) /\ (Speaks(b, found[j]) => wrote[c] = 1)
      BY <3>1, <3>5
    <3>7. r # "covered"
      BY VerdictTyped
    <3> HIDE DEF a, b, c
    <3>8. /\ r = "proved" /\ b # "btormc" => found[j] = "holds"
          /\ r = "counterexample" => found[j] = "fails"
      BY <3>2, <3>3, <3>4, <3>6, VerdictRight
    <3> HIDE DEF r
    <3>9. /\ r = "proved" /\ b # "btormc" => Checked(j) \cap problem.fails = {}
          /\ r = "counterexample" => Checked(j) \cap problem.fails # {}
      BY <3>2, <3>8 DEF Findings
    <3> QED BY <1>2, <3>1, <3>2, <3>7, <3>9 DEF DecidedJob, b
  <2> QED BY <2>4, <2>5
<1> QED BY <1>3, <1>4, <1>5 DEF Job

LEMMA DecidedNext == Typed /\ Matched /\ Decided /\ [Next]_vars => Decided'
<1> SUFFICES ASSUME Typed, Matched, \A j \in Jobs : DecidedJob(j), [Next]_vars
             PROVE  \A j \in Jobs : DecidedJob(j)'
  BY DEF Decided, DecidedJob
<1>1. ASSUME NEW j \in Jobs, Job(j) PROVE \A i \in Jobs : DecidedJob(i)'
  BY <1>1, DecidedSelf, DecidedOthers
<1>2. ASSUME NEW j \in Jobs, Store(j), NEW i \in Jobs PROVE DecidedJob(i)'
  <2>1. /\ UNCHANGED <<session, task, engine, found, result, toolVars>>
        /\ job[j] = "answered" /\ job \in [Jobs -> Stages]
        /\ \E s \in Finished : job' = [job EXCEPT ![j] = s]
    BY <1>2 DEF Store, Finished, Typed, TypeOK
  <2>2. CASE i # j
    BY <2>1, <2>2, DecidedKept DEF toolVars
  <2>3. CASE i = j
    <3>1. Refused(j)' = Refused(j) /\ Checked(j)' = Checked(j) /\ problem' = problem
          /\ SelectBackend(j)' = SelectBackend(j)
      BY <2>1, SameTask
    <3> QED BY <2>1, <2>3, <3>1 DEF DecidedJob, Finished, Threw
  <2> QED BY <2>2, <2>3
<1>3. ASSUME NEW c \in Calls, Solver(c), NEW i \in Jobs PROVE DecidedJob(i)'
  <2> DEFINE d == <<task, i>>
  <2>1. UNCHANGED <<session, task, engine, job, found, result>>
    BY <1>3 DEF Solver, taskVars
  <2>2. CASE d # c \/ job[i] # "solving"
    <3>1. d # c /\ d \in Calls => wrote'[d] = wrote[d] /\ tool'[d] = tool[d]
      BY <1>3 DEF Solver, Speak, End, Tool!Say, Tool!Stop, Typed, TypeOK
    <3>2. d # c /\ d \in Calls => exit'[d] = exit[d]
      BY <1>3 DEF Solver, Speak, End, Tool!Say, Tool!Stop
    <3>3. job[i] = "solving" => d \in Calls
      <4> SUFFICES ASSUME job[i] = "solving" PROVE d \in Calls
        OBVIOUS
      <4>1. pc # "over"
        BY DEF Typed, Placed
      <4>2. task \in 1..MaxTasks
        BY <4>1, SessionFacts DEF Typed, TypeOK, Placed
      <4> QED BY <4>2 DEF Calls
    <3>4. CASE job[i] = "solving"
      BY <2>1, <2>2, <3>1, <3>2, <3>3, <3>4, DecidedKept
    <3>5. CASE job[i] # "solving"
      <4>1. Refused(i)' = Refused(i) /\ Checked(i)' = Checked(i) /\ problem' = problem
            /\ SelectBackend(i)' = SelectBackend(i)
        BY <2>1, SameTask
      <4> QED BY <2>1, <3>5, <4>1 DEF DecidedJob
    <3> QED BY <3>4, <3>5
  <2>3. CASE d = c /\ job[i] = "solving"
    <3>1. /\ ~Refused(i) /\ found[i] \in Findings(i)
          /\ wrote[c] = 1 => Speaks(SelectBackend(i), found[i])
          /\ tool[c] = "ended" => exit[c] \in Statuses(c)
      BY <2>3 DEF DecidedJob
    <3>2. /\ Refused(i)' = Refused(i) /\ Findings(i)' = Findings(i)
          /\ SelectBackend(i)' = SelectBackend(i) /\ engine' = engine
      BY <2>1, SameTask
    <3>3. Speaks(SelectBackend(i), found[i])' = Speaks(SelectBackend(i), found[i])
      BY <2>1, <3>2 DEF Speaks
    <3>4. CASE Speak(c)
      <4>1. /\ Speaks(SelectBackend(i), found[i])
            /\ tool'[c] = "running" /\ c[1] = task /\ c[2] = i
        BY <2>3, <3>4 DEF Speak, Tool!Say
      <4> QED BY <2>1, <2>3, <3>1, <3>2, <3>3, <4>1 DEF DecidedJob
    <3>5. CASE End(c)
      <4>1. /\ wrote' = wrote
            /\ exit'[c] \in Statuses(c)
        BY <3>5 DEF End, Tool!Stop, Typed, TypeOK
      <4>2. Statuses(c)' = Statuses(c)
        BY <2>1, <2>3, <4>1, SameEnds
      <4> QED BY <2>1, <2>3, <3>1, <3>2, <3>3, <4>1, <4>2 DEF DecidedJob
    <3> QED BY <1>3, <3>4, <3>5 DEF Solver
  <2> QED BY <2>2, <2>3
<1>4. CASE UNCHANGED vars
  BY <1>4, DecidedKept DEF vars, taskVars, toolVars
<1> QED BY <1>1, <1>2, <1>3, <1>4, DecidedMain DEF Next

LEMMA DecidedInit == Init => Decided
BY DEF Init, Decided, Idle

-----------------------------------------------------------------------------
(***************************************************************************)
(* What is reported (Reporting) is what the parts say, and the tasks that  *)
(* are over keep what they reported (Past).                                *)
(***************************************************************************)
Reporting ==
  pc = "report" =>
    /\ result["top"] = "proved" /\ engine = "pdr" /\ request.backend # "pono" =>
         problem.fails = {}
    /\ result["top"] = "covered" => problem.cover /\ problem.fails # {}
    /\ result["top"] = "counterexample" =>
         problem.fails # {} \/ (problem.cover /\ engine = "smt")
    /\ job["safety"] = "stored" =>
         result["top"] = Combine(result["safety"], result["liveness"])

Past ==
  /\ \A i \in 1..MaxTasks : i >= task => outcome[i] = None /\ reports[<<i, "top">>] = <<>>
  /\ \A i \in 1..MaxTasks, j \in Partitions : i > task => reports[<<i, j>>] = <<>>
  /\ task \in 1..MaxTasks => \A j \in Partitions :
       IF job[j] = "stored"
       THEN reports[<<task, j>>] # <<>> /\ reports[<<task, j>>][1].result = result[j]
       ELSE reports[<<task, j>>] = <<>>

LEMMA StepKind ==
  ASSUME Typed, [Next]_vars
  PROVE  \/ Report
         \/ Throw /\ pc # "over" /\ UNCHANGED <<session, reports>>
         \/ /\ UNCHANGED <<session, task, outcome, passed>>
            /\ UNCHANGED reports \/ \E j \in Jobs : Store(j)
<1>1. CASE Main
  BY <1>1 DEF Main, Route, SolveOnce, Single, LaunchSafety, LaunchLiveness, JoinWhole,
      JoinSafety, JoinLiveness, Unwind, Fault
<1>2. CASE ~Main
  BY <1>2 DEF Next, Job, Store, Solver, vars, taskVars
<1> QED BY <1>1, <1>2

\* A proof by the single job is one of every part.
LEMMA WholeCovers ==
  ASSUME Typed, DecidedJob("whole"), job["whole"] = "answered", ~Parallel,
         result["whole"] = "proved", engine = "pdr", request.backend # "pono"
  PROVE  problem.fails = {}
<1>1. ~Refused("whole") /\ Checked("whole") \cap problem.fails = {}
  <2>1. ~Refused("whole") /\ SelectBackend("whole") # "btormc"
    BY DEF DecidedJob, Refused
  <2> QED BY <2>1 DEF DecidedJob
<1>2. problem.fails \subseteq problem.parts /\ problem.parts \subseteq Partitions
  BY SessionFacts DEF Typed, TypeOK
<1>3. Parts("whole") = problem.parts
  BY DEF Parts
<1>4. CASE request.backend = "auto"
  <2>1. problem.parts # Partitions
    BY <1>4 DEF Parallel
  <2>2. Justice("whole") => SelectBackend("whole") = "pono"
    BY <1>4 DEF SelectBackend
  <2> QED BY <1>1, <1>2, <1>3, <2>1, <2>2 DEF Checked, Justice, Partitions
<1>5. CASE request.backend # "auto"
  <2>1. request.backend \in {"ric3", "avr"} \cup Aiger
    <3>1. request \in Requests
      BY SessionFacts DEF Typed, TypeOK, Placed, Tasks, request, Jobs
    <3> QED BY <1>1, <1>5, <3>1 DEF Requests, Backends, Refused, SelectBackend, Aiger
  <2>2. ~Justice("whole")
    BY <1>1, <2>1 DEF Refused
  <2> QED BY <1>1, <1>2, <1>3, <2>2 DEF Checked, Justice, Partitions
<1> QED BY <1>4, <1>5

\* Two proofs in parallel are one of every part.
LEMMA PartsCover ==
  ASSUME Typed, DecidedJob("safety"), DecidedJob("liveness"), Parallel,
         job["safety"] = "stored", job["liveness"] = "stored",
         result["safety"] = "proved", result["liveness"] = "proved"
  PROVE  problem.fails = {}
<1>1. /\ Checked("safety") \cap problem.fails = {}
      /\ Checked("liveness") \cap problem.fails = {}
  <2>1. SelectBackend("safety") # "btormc" /\ SelectBackend("liveness") # "btormc"
    BY DEF Parallel, SelectBackend
  <2> QED BY <2>1 DEF DecidedJob
<1>2. Checked("safety") = {"safety"}
  BY DEF Checked, Justice, Parts
<1>3. Checked("liveness") = {"liveness"}
  <2>1. Justice("liveness") /\ SelectBackend("liveness") = "pono"
    BY DEF Parallel, SelectBackend, Justice, Parts
  <2> QED BY <2>1 DEF Checked
<1>4. problem.fails \subseteq Partitions
  BY SessionFacts DEF Typed, TypeOK
<1> QED BY <1>1, <1>2, <1>3, <1>4 DEF Partitions

LEMMA ReportingNext ==
  Typed /\ Decided /\ Reporting /\ [Next]_vars => Reporting'
<1> SUFFICES ASSUME Typed, \A j \in Jobs : DecidedJob(j), Reporting, [Next]_vars,
                    pc' = "report"
             PROVE  Reporting'
  BY DEF Decided, DecidedJob, Reporting
<1>1. CASE pc = "report"
  <2>1. UNCHANGED <<session, task, engine, result>> /\ job'["safety"] = job["safety"]
    <3>1. ~Main
      BY <1>1 DEF Main, Route, SolveOnce, Single, LaunchSafety, LaunchLiveness, JoinWhole,
        JoinSafety, JoinLiveness, Unwind, Report, Fault, Throw, NextTask
    <3>2. ASSUME NEW j \in Jobs PROVE ~Job(j) /\ ~Store(j)
      BY <1>1, JobTyped DEF Store, Typed, Placed, Jobs, Partitions
    <3> QED BY <3>1, <3>2 DEF Next, Solver, vars, taskVars
  <2> QED BY <1>1, <2>1 DEF Reporting, problem, request
<1>2. CASE pc # "report"
  <2>1. UNCHANGED <<session, task, engine>> /\ (SolveOnce \/ JoinWhole \/ JoinLiveness)
        /\ ~Throw
    BY <1>2 DEF Next, Main, Job, Store, Solver, vars, taskVars, Route, SolveOnce, Single,
      LaunchSafety, LaunchLiveness, JoinWhole, JoinSafety, JoinLiveness, Unwind, Report,
      Fault, Throw, NextTask
  <2>2. problem' = problem /\ request' = request /\ engine' = engine
    BY <2>1 DEF problem, request
  <2>3. CASE SolveOnce
    <3>1. PICK r \in {"proved", "counterexample", "unknown"} :
            /\ ~problem.cover => (r = "counterexample" => problem.fails # {})
            /\ result' = [result EXCEPT !["top"] = r]
      BY <2>1, <2>3 DEF SolveOnce
    <3>2. engine = "smt" /\ job' = job /\ job["safety"] = "idle"
      BY <2>1, <2>3 DEF SolveOnce, Typed, Placed, Jobs, Partitions
    <3>3. problem.cover \in BOOLEAN /\ result'["top"] = r
      BY <3>1, SessionFacts DEF Typed, TypeOK
    <3> QED BY <2>2, <3>1, <3>2, <3>3 DEF Reporting
  <2>4. CASE JoinWhole
    <3> DEFINE r == result["whole"]
    <3>1. /\ job["whole"] = "answered" /\ job' = job /\ job["safety"] = "idle" /\ ~Parallel
          /\ result' = [result EXCEPT !["top"] = CoverResult(r)]
      BY <2>1, <2>4 DEF JoinWhole, Typed, Placed, Partitions
    <3>2. result'["top"] = CoverResult(r) /\ problem.cover \in BOOLEAN
      BY <3>1, SessionFacts DEF Typed, TypeOK
    <3>3. r # "covered" /\ (r = "counterexample" => problem.fails # {})
      BY <3>1 DEF DecidedJob, Jobs
    <3>4. r = "proved" /\ engine = "pdr" /\ request.backend # "pono" => problem.fails = {}
      BY <3>1, WholeCovers DEF Jobs
    <3> QED BY <2>2, <3>1, <3>2, <3>3, <3>4 DEF Reporting, CoverResult
  <2>5. CASE JoinLiveness
    <3> DEFINE s == result["safety"]
               l == result["liveness"]
    <3>1. /\ job["safety"] = "stored" /\ job["liveness"] = "stored" /\ Parallel
          /\ result' = [result EXCEPT !["top"] = Combine(s, l)]
      BY <1>2, <2>5 DEF JoinLiveness, Typed, Placed
    <3>2. /\ result'["top"] = Combine(s, l)
          /\ result'["safety"] = s /\ result'["liveness"] = l
      BY <3>1 DEF Typed, TypeOK, Jobs, Partitions
    <3>3. "counterexample" \in {s, l} => problem.fails # {}
      BY <3>1 DEF DecidedJob, Jobs, Partitions
    <3>4. s = "proved" /\ l = "proved" => problem.fails = {}
      BY <3>1, PartsCover DEF Jobs, Partitions
    <3>5. /\ Combine(s, l) = "proved" => s = "proved" /\ l = "proved"
          /\ Combine(s, l) = "counterexample" => "counterexample" \in {s, l}
          /\ Combine(s, l) # "covered"
      BY DEF Combine
    <3> QED BY <2>2, <3>2, <3>3, <3>4, <3>5 DEF Reporting
  <2> QED BY <2>1, <2>3, <2>4, <2>5
<1> QED BY <1>1, <1>2

LEMMA PastNext == Typed /\ Past /\ [Next]_vars => Past'
<1> SUFFICES ASSUME Typed, Past, [Next]_vars PROVE Past'
  OBVIOUS
<1> DEFINE Files == (1..MaxTasks) \X ({"top"} \cup Partitions)
<1>0. /\ task \in Nat /\ MaxTasks \in Nat /\ DOMAIN reports = Files
      /\ DOMAIN outcome = 1..MaxTasks
      /\ \A j \in Jobs : job[j] # "idle" => task \in 1..MaxTasks
  <2>1. pc # "over" => task \in 1..MaxTasks
    BY SessionFacts DEF Typed, TypeOK, Placed
  <2> QED BY <2>1, SessionFacts DEF Typed, TypeOK, Placed
<1>1. ASSUME NextTask,
             \A i \in 1..MaxTasks : i # task => outcome'[i] = outcome[i],
             \A x \in Files : x # <<task, "top">> => reports'[x] = reports[x]
      PROVE  Past'
  <2>1. task' = task + 1 /\ \A j \in Partitions : job'[j] = "idle"
    BY <1>1 DEF NextTask, Idle, Jobs
  <2> QED BY <1>0, <1>1, <2>1 DEF Past, Partitions
<1>2. CASE Report
  BY <1>0, <1>1, <1>2 DEF Report
<1>3. CASE Throw /\ UNCHANGED reports
  BY <1>0, <1>1, <1>3 DEF Throw
<1>4. ASSUME NEW j \in Jobs, Store(j) PROVE Past'
  <2> DEFINE x == <<task, j>>
  <2>1. /\ UNCHANGED <<task, outcome, result>> /\ j \in Partitions /\ job[j] = "answered"
        /\ x \in Files
    BY <1>0, <1>4 DEF Store, Jobs
  <2>2. \/ job' = [job EXCEPT ![j] = Threw] /\ UNCHANGED reports
        \/ \E f : /\ job' = [job EXCEPT ![j] = "stored"]
                  /\ f.result = result[j] /\ reports' = [reports EXCEPT ![x] = <<f>>]
    BY <1>4 DEF Store
  <2>3. job \in [Jobs -> Stages] /\ "top" \notin Partitions /\ Partitions \subseteq Jobs
    BY DEF Typed, TypeOK, Partitions, Jobs
  <2>4. CASE job' = [job EXCEPT ![j] = Threw] /\ UNCHANGED reports
    BY <2>1, <2>3, <2>4 DEF Past, Threw
  <2>5. CASE job' = [job EXCEPT ![j] = "stored"]
    <3>1. PICK f : f.result = result[j] /\ reports' = [reports EXCEPT ![x] = <<f>>]
      BY <2>2, <2>3, <2>5 DEF Threw
    <3>2. /\ reports'[x] = <<f>> /\ reports'[x] # <<>> /\ reports'[x][1] = f
          /\ \A y \in Files : y # x => reports'[y] = reports[y]
      BY <1>0, <2>1, <3>1
    <3>3. /\ \A i \in 1..MaxTasks : <<i, "top">> \in Files /\ <<i, "top">> # x
          /\ \A i \in 1..MaxTasks, k \in Partitions :
               <<i, k>> \in Files /\ (i # task \/ k # j => <<i, k>> # x)
      BY <2>1, <2>3
    <3> HIDE DEF x, Files
    <3>4. \A k \in Partitions : k # j => job'[k] = job[k]
      BY <2>3, <2>5
    <3>5. job'[j] = "stored"
      BY <2>1, <2>3, <2>5
    <3>6. \A k \in Partitions : task \in 1..MaxTasks =>
            IF job'[k] = "stored"
            THEN reports'[<<task, k>>] # <<>> /\ reports'[<<task, k>>][1].result = result[k]
            ELSE reports'[<<task, k>>] = <<>>
      <4> TAKE k \in Partitions
      <4>1. CASE k = j
        BY <3>1, <3>2, <3>5, <4>1 DEF x
      <4>2. CASE k # j
        BY <3>2, <3>3, <3>4, <4>2 DEF Past
      <4> QED BY <4>1, <4>2
    <3> QED BY <1>0, <2>1, <3>2, <3>3, <3>6 DEF Past
  <2> QED BY <2>2, <2>4, <2>5
<1>5. CASE UNCHANGED <<task, outcome, reports>> /\ ~(\E j \in Jobs : Store(j)) /\ ~Throw
  <2>1. \A j \in Partitions : job'[j] = "stored" <=> job[j] = "stored"
    <3>1. CASE Main
      <4>1. ~NextTask
        BY <1>0, <1>5 DEF NextTask
      <4>2. \/ UNCHANGED job
            \/ \E i \in Jobs : job[i] = "idle" /\ job' = [job EXCEPT ![i] = "running"]
        BY <3>1, <4>1 DEF Main, Route, SolveOnce, Single, LaunchSafety, LaunchLiveness,
          JoinWhole, JoinSafety, JoinLiveness, Unwind, Report, Fault, Throw, Typed, Placed,
          Jobs, Partitions
      <4> QED BY <4>2 DEF Typed, TypeOK, Jobs, Partitions
    <3>2. ASSUME NEW i \in Jobs, Job(i) PROVE \A j \in Partitions : job'[j] = "stored" <=> job[j] = "stored"
      <4>1. \E s \in {Threw, "converting", "converted", "solving", "answered"} :
              job' = [job EXCEPT ![i] = s]
        BY <3>2 DEF Job, Begin, Fail, Converted, Solve, Answered
      <4>2. job[i] # "stored"
        BY <3>2, JobTyped
      <4> QED BY <4>1, <4>2 DEF Typed, TypeOK, Threw, Jobs
    <3>3. CASE UNCHANGED job
      BY <3>3
    <3> QED BY <1>5, <3>1, <3>2, <3>3 DEF Next, Solver, vars, taskVars
  <2>2. \A j \in Partitions : job'[j] = "stored" => result'[j] = result[j]
    <3>1. CASE Main
      <4>1. ~NextTask
        BY <1>0, <1>5 DEF NextTask
      <4>2. UNCHANGED result \/ \E r : result' = [result EXCEPT !["top"] = r]
        BY <3>1, <4>1 DEF Main, Route, SolveOnce, Single, LaunchSafety, LaunchLiveness,
          JoinWhole, JoinSafety, JoinLiveness, Unwind, Report, Fault, Throw
      <4> QED BY <4>2 DEF Typed, TypeOK, Jobs, Partitions
    <3>2. ASSUME NEW i \in Jobs, Job(i) PROVE \A j \in Partitions : job'[j] = "stored" => result'[j] = result[j]
      <4>1. UNCHANGED result \/ \E r : result' = [result EXCEPT ![i] = r]
        BY <3>2 DEF Job, Begin, Fail, Converted, Solve, Answered
      <4>2. job[i] # "stored"
        BY <3>2, JobTyped
      <4> QED BY <2>1, <4>1, <4>2 DEF Typed, TypeOK, Jobs
    <3>3. CASE UNCHANGED result
      BY <3>3
    <3> QED BY <1>5, <3>1, <3>2, <3>3 DEF Next, Solver, vars, taskVars
  <2> QED BY <1>0, <1>5, <2>1, <2>2 DEF Past
<1> QED BY <1>2, <1>3, <1>4, <1>5, StepKind

LEMMA PastInit == Init => Past /\ Reporting
BY DEF Init, Past, Reporting, Idle, Jobs, Partitions

IInv == Typed /\ Matched /\ Decided /\ Reporting /\ Past

\* The strengthening of what follows is inductive.
THEOREM Inductive == Spec => []IInv
<1>1. Init => IInv
  BY TypedInit, MatchedInit, DecidedInit, PastInit DEF IInv
<1>2. IInv /\ [Next]_vars => IInv'
  BY TypedNext, MatchedNext, DecidedNext, ReportingNext, PastNext DEF IInv
<1> QED BY <1>1, <1>2, PTL DEF Spec

-----------------------------------------------------------------------------
(* What the tasks that are over have reported.                             *)

\* How the end of a task shows in its records.
LEMMA TaskEnds ==
  ASSUME IInv, [Next]_vars
  PROVE  /\ session' = session /\ problem' = problem
         /\ \A i \in Tasks : i \in 1..MaxTasks
         /\ \/ /\ Report /\ task \in Tasks
               /\ outcome'[task] = result["top"] /\ result["top"] \in Results
               /\ reports'[<<task, "top">>] =
                    <<[result |-> result["top"], engine |-> engine,
                       met |-> ExpectationMet(result["top"])]>>
               /\ \A i \in 1..MaxTasks : i # task =>
                    outcome'[i] = outcome[i] /\ reports'[<<i, "top">>] = reports[<<i, "top">>]
               /\ \A i \in 1..MaxTasks, j \in Partitions :
                    reports'[<<i, j>>] = reports[<<i, j>>]
            \/ /\ ~Report /\ Throw /\ pc # "over" /\ task \in Tasks
               /\ reports' = reports /\ outcome'[task] = Threw
               /\ \A i \in 1..MaxTasks : i # task => outcome'[i] = outcome[i]
            \/ /\ ~Report /\ UNCHANGED <<task, outcome, passed>>
               /\ \A i \in 1..MaxTasks : reports'[<<i, "top">>] = reports[<<i, "top">>]
               /\ \A i \in 1..MaxTasks, j \in Partitions :
                    i # task => reports'[<<i, j>>] = reports[<<i, j>>]
<1> DEFINE Files == (1..MaxTasks) \X ({"top"} \cup Partitions)
<1>1. Typed
  BY DEF IInv
<1>2. /\ Len(session.tasks) \in 1..MaxTasks /\ MaxTasks \in Nat
      /\ DOMAIN outcome = 1..MaxTasks /\ DOMAIN reports = Files
      /\ pc # "over" => task \in Tasks
  BY <1>1, SessionFacts DEF Typed, TypeOK, Placed, Tasks
<1>3. \A i \in Tasks : i \in 1..MaxTasks
  BY <1>2 DEF Tasks
<1>4. session' = session /\ problem' = problem
  BY <1>1, StepKind DEF Report, problem
<1>5. CASE Report
  <2>1. task \in Tasks /\ result["top"] \in Results
    BY <1>1, <1>2, <1>5 DEF Report, Typed, Placed
  <2>2. /\ <<task, "top">> \in Files
        /\ \A i \in 1..MaxTasks, j \in Partitions : <<i, j>> # <<task, "top">>
        /\ \A i \in 1..MaxTasks, j \in {"top"} \cup Partitions : <<i, j>> \in Files
    BY <1>3, <2>1 DEF Partitions
  <2> DEFINE file == <<[result |-> result["top"], engine |-> engine,
                        met |-> ExpectationMet(result["top"])]>>
             x == <<task, "top">>
  <2>3. reports' = [reports EXCEPT ![x] = file]
    BY <1>5 DEF Report
  <2> HIDE DEF file, Files, x
  <2>4. reports'[x] = file /\ \A y \in Files : y # x => reports'[y] = reports[y]
    BY <1>2, <2>2, <2>3 DEF x
  <2>5. /\ \A i \in 1..MaxTasks : i # task => reports'[<<i, "top">>] = reports[<<i, "top">>]
        /\ \A i \in 1..MaxTasks, j \in Partitions : reports'[<<i, j>>] = reports[<<i, j>>]
    BY <2>2, <2>4 DEF x
  <2>6. /\ outcome'[task] = result["top"]
        /\ \A i \in 1..MaxTasks : i # task => outcome'[i] = outcome[i]
    BY <1>2, <1>3, <1>5, <2>1 DEF Report
  <2> QED BY <1>3, <1>4, <1>5, <2>1, <2>4, <2>5, <2>6 DEF file, x
<1>6. CASE ~Report /\ Throw /\ pc # "over" /\ UNCHANGED reports
  <2>1. /\ outcome'[task] = Threw
        /\ \A i \in 1..MaxTasks : i # task => outcome'[i] = outcome[i]
    BY <1>2, <1>3, <1>6 DEF Throw
  <2> QED BY <1>2, <1>3, <1>4, <1>6, <2>1
<1>7. CASE /\ ~Report /\ UNCHANGED <<session, task, outcome, passed>>
           /\ UNCHANGED reports \/ \E j \in Jobs : Store(j)
  <2>1. UNCHANGED reports \/ \E j \in Partitions : \E f : reports' = [reports EXCEPT ![<<task, j>>] = f]
    BY <1>7 DEF Store, Jobs
  <2>2. \A i \in 1..MaxTasks : reports'[<<i, "top">>] = reports[<<i, "top">>]
    BY <1>2, <2>1 DEF Partitions
  <2>3. \A i \in 1..MaxTasks, j \in Partitions :
          i # task => reports'[<<i, j>>] = reports[<<i, j>>]
    BY <1>2, <2>1
  <2> QED BY <1>3, <1>4, <1>7, <2>2, <2>3
<1> QED BY <1>1, <1>5, <1>6, <1>7, StepKind

\* An unbounded proof is one of every part of the model.
THEOREM ProofsCover == Spec => []ProofCoversAllParts
<1>1. Init => ProofCoversAllParts
  BY SessionFacts DEF Init, ProofCoversAllParts, Tasks, None
<1>2. IInv /\ ProofCoversAllParts /\ [Next]_vars => ProofCoversAllParts'
  <2> SUFFICES ASSUME IInv, ProofCoversAllParts, [Next]_vars, NEW i \in Tasks,
                      outcome'[i] = "proved", reports'[<<i, "top">>][1].engine = "pdr",
                      session.tasks[i].backend # "pono"
               PROVE  problem.fails = {}
    BY TaskEnds DEF ProofCoversAllParts, Tasks
  <2>1. CASE Report /\ i = task
    <3>1. outcome'[i] = result["top"] /\ reports'[<<i, "top">>][1].engine = engine
      BY <2>1, TaskEnds
    <3>2. result["top"] = "proved" /\ engine = "pdr" /\ request.backend # "pono"
      BY <2>1, <3>1 DEF request
    <3> QED BY <2>1, <3>2 DEF IInv, Reporting, Report
  <2>2. CASE ~(Report /\ i = task)
    <3>1. outcome[i] = "proved" /\ reports[<<i, "top">>] = reports'[<<i, "top">>]
      BY <2>2, TaskEnds DEF Threw
    <3> QED BY <3>1 DEF ProofCoversAllParts
  <2> QED BY <2>1, <2>2
<1> QED BY <1>1, <1>2, Inductive, PTL DEF Spec

\* A counterexample, or a covered target, is one.
THEOREM CounterexamplesAreReal == Spec => []CounterexampleIsReal
<1>1. Init => CounterexampleIsReal
  BY SessionFacts DEF Init, CounterexampleIsReal, Tasks, None
<1>2. IInv /\ CounterexampleIsReal /\ [Next]_vars => CounterexampleIsReal'
  <2> SUFFICES ASSUME IInv, CounterexampleIsReal, [Next]_vars, NEW i \in Tasks
               PROVE  /\ outcome'[i] = "covered" => problem.cover /\ problem.fails # {}
                      /\ outcome'[i] = "counterexample" =>
                           \/ problem.fails # {}
                           \/ problem.cover /\ reports'[<<i, "top">>][1].engine = "smt"
    BY TaskEnds DEF CounterexampleIsReal, Tasks
  <2>1. CASE Report /\ i = task
    <3>1. outcome'[i] = result["top"] /\ reports'[<<i, "top">>][1].engine = engine
      BY <2>1, TaskEnds
    <3> QED BY <2>1, <3>1 DEF IInv, Reporting, Report
  <2>2. CASE ~(Report /\ i = task)
    <3>1. \/ outcome'[i] = Threw
          \/ outcome'[i] = outcome[i] /\ reports[<<i, "top">>] = reports'[<<i, "top">>]
      BY <2>2, TaskEnds
    <3> QED BY <3>1 DEF CounterexampleIsReal, Threw
  <2> QED BY <2>1, <2>2
<1> QED BY <1>1, <1>2, Inductive, PTL DEF Spec

\* The tasks before this one have ended, and passed says how.
Tried ==
  /\ \A i \in 1 .. task - 1 : outcome[i] # None
  /\ passed <=> \A i \in 1 .. task - 1 : outcome[i] # Threw /\ Expected(outcome[i])

\* Each task of a matrix is tried, and the matrix passes if they all do.
THEOREM AllTried == Spec => []EveryTaskTried
<1>1. Init => Tried
  BY DEF Init, Tried
<1>2. IInv /\ Tried /\ [Next]_vars => Tried'
  <2> SUFFICES ASSUME IInv, Tried, [Next]_vars PROVE Tried'
    OBVIOUS
  <2>1. /\ session' = session /\ task \in Nat /\ passed \in BOOLEAN
        /\ task >= 1 /\ \A i \in 1 .. task - 1 : i # task /\ i \in 1..MaxTasks
    BY TaskEnds, SessionFacts DEF IInv, Typed, TypeOK
  <2>2. \A r : Expected(r)' <=> Expected(r)
    BY <2>1 DEF Expected
  <2>3. CASE Report
    <3>1. /\ task' = task + 1 /\ outcome'[task] = result["top"] /\ result["top"] \in Results
          /\ \A i \in 1 .. task - 1 : outcome'[i] = outcome[i]
          /\ passed' <=> passed /\ Expected(result["top"])
      BY <2>1, <2>3, TaskEnds DEF Report, NextTask
    <3>2. \A i : i \in 1 .. task' - 1 <=> i \in 1 .. task - 1 \/ i = task
      BY <2>1, <3>1, SessionFacts DEF IInv, Typed, TypeOK
    <3>3. result["top"] # None /\ result["top"] # Threw
      BY <3>1 DEF Results, None, Threw
    <3>4. \A i \in 1 .. task' - 1 : outcome'[i] # None
      BY <3>1, <3>2, <3>3 DEF Tried
    <3>5. passed' <=> \A i \in 1 .. task' - 1 : outcome'[i] # Threw /\ Expected(outcome'[i])
      BY <3>1, <3>2, <3>3 DEF Tried
    <3> QED BY <2>2, <3>4, <3>5 DEF Tried
  <2>4. CASE ~Report /\ Throw /\ pc # "over"
    <3>1. /\ task' = task + 1 /\ outcome'[task] = Threw /\ ~passed'
          /\ \A i \in 1 .. task - 1 : outcome'[i] = outcome[i]
          /\ task \in 1 .. task' - 1
      <4>1. task \in Tasks
        BY <2>4, SessionFacts DEF IInv, Typed, TypeOK, Placed, Tasks
      <4>2. task' = task + 1 /\ ~passed' /\ outcome' = [outcome EXCEPT ![task] = Threw]
        BY <2>4 DEF Throw, NextTask
      <4>3. outcome'[task] = Threw /\ \A i \in 1 .. task - 1 : outcome'[i] = outcome[i]
        BY <2>1, <4>1, <4>2, TaskEnds DEF IInv, Typed, TypeOK
      <4>4. task \in 1 .. task' - 1
        BY <2>1, <4>1, <4>2 DEF Tasks
      <4> QED BY <4>2, <4>3, <4>4
    <3>2. \A i : i \in 1 .. task' - 1 <=> i \in 1 .. task - 1 \/ i = task
      BY <2>1, <3>1, SessionFacts DEF IInv, Typed, TypeOK
    <3>3. \A i \in 1 .. task' - 1 : outcome'[i] # None
      BY <3>1, <3>2 DEF Tried, None, Threw
    <3> QED BY <3>1, <3>3 DEF Tried
  <2>5. CASE UNCHANGED <<task, outcome, passed>>
    BY <2>2, <2>5 DEF Tried
  <2> QED BY <2>3, <2>4, <2>5, TaskEnds
<1>3. IInv /\ Tried => EveryTaskTried
  <2> SUFFICES ASSUME IInv, Tried, pc = "over"
               PROVE  /\ \A i \in Tasks : outcome[i] # None
                      /\ passed <=> \A i \in Tasks : outcome[i] # Threw /\ Expected(outcome[i])
    BY DEF EveryTaskTried
  <2>1. task - 1 = Len(session.tasks)
    BY SessionFacts DEF IInv, Typed, TypeOK, Placed
  <2> QED BY <2>1 DEF Tried, Tasks
<1> QED BY <1>1, <1>2, <1>3, Inductive, PTL DEF Spec

LEMMA CombineRight ==
  ASSUME NEW s \in Results, NEW l \in Results
  PROVE  /\ Combine(s, l) = "proved" <=> {s, l} = {"proved"}
         /\ Combine(s, l) = "counterexample" <=> "counterexample" \in {s, l}
BY DEF Combine

\* What ReportsAgree says of one task.
Agrees(i) ==
  /\ Stored(i, "top") <=> outcome[i] \notin {None, Threw}
  /\ Stored(i, "top") =>
       /\ StoredResult(i, "top") = outcome[i]
       /\ reports[<<i, "top">>][1].met \/ ~passed
       /\ Stored(i, "safety") <=> Stored(i, "liveness")
       /\ Stored(i, "safety") =>
            LET parts == {StoredResult(i, "safety"), StoredResult(i, "liveness")} IN
              /\ outcome[i] = "proved" <=> parts = {"proved"}
              /\ outcome[i] = "counterexample" <=> "counterexample" \in parts

\* The reports of a task agree with each other and with what it returned.
THEOREM ReportsRight == Spec => []ReportsAgree
<1>1. Init => ReportsAgree
  <2> SUFFICES ASSUME Init, NEW i \in Tasks
               PROVE  ~Stored(i, "top") /\ outcome[i] = None
    BY DEF ReportsAgree
  <2> QED BY SessionFacts DEF Init, Stored, Tasks
<1>2. IInv /\ ReportsAgree /\ [Next]_vars => ReportsAgree'
  <2> SUFFICES ASSUME IInv, \A i \in Tasks : Agrees(i), [Next]_vars, NEW i \in Tasks
               PROVE  Agrees(i)'
    BY TaskEnds DEF ReportsAgree, Agrees, Tasks
  <2>1. i \in 1..MaxTasks /\ passed \in BOOLEAN
    BY TaskEnds DEF IInv, Typed, TypeOK
  <2>2. CASE i # task
    <3>1. /\ outcome'[i] = outcome[i]
          /\ \A j \in {"top"} \cup Partitions : reports'[<<i, j>>] = reports[<<i, j>>]
      BY <2>1, <2>2, TaskEnds
    <3>2. passed' => passed
      BY <2>1, TaskEnds DEF Report, Throw
    <3>3. Agrees(i)
      OBVIOUS
    <3> QED BY <3>1, <3>2, <3>3 DEF Agrees, Stored, StoredResult, Partitions
  <2>3. CASE i = task /\ ~Report
    <3>1. reports'[<<i, "top">>] = <<>> /\ outcome'[i] \in {None, Threw}
      <4>1. reports[<<i, "top">>] = <<>> /\ outcome[i] = None
        BY <2>1, <2>3 DEF IInv, Past
      <4> QED BY <2>1, <2>3, <4>1, TaskEnds
    <3> QED BY <3>1 DEF Agrees, Stored
  <2>4. CASE i = task /\ Report
    <3> DEFINE r == result["top"]
    <3>1. /\ outcome'[i] = r /\ r \in Results
          /\ reports'[<<i, "top">>] = <<[result |-> r, engine |-> engine, met |-> ExpectationMet(r)]>>
          /\ \A j \in Partitions : reports'[<<i, j>>] = reports[<<i, j>>]
      BY <2>1, <2>4, TaskEnds
    <3>2. /\ reports'[<<i, "top">>] # <<>> /\ reports'[<<i, "top">>][1].result = r
          /\ reports'[<<i, "top">>][1].met = ExpectationMet(r)
      BY <3>1
    <3>3. ExpectationMet(r) \/ ~passed'
      BY <2>4 DEF Report, Expected, ExpectationMet
    <3>4. r \notin {None, Threw}
      BY <3>1 DEF Results, None, Threw
    <3>5. \A j \in Partitions :
            IF job[j] = "stored"
            THEN reports[<<i, j>>] # <<>> /\ reports[<<i, j>>][1].result = result[j]
            ELSE reports[<<i, j>>] = <<>>
      BY <2>1, <2>4 DEF IInv, Past
    <3>6. job["safety"] = "stored" <=> job["liveness"] = "stored"
      BY <2>4 DEF Report, IInv, Typed, Placed, Partitions
    <3>7. CASE job["safety"] # "stored"
      <4>1. reports'[<<i, "safety">>] = <<>> /\ reports'[<<i, "liveness">>] = <<>>
        BY <3>1, <3>5, <3>6, <3>7 DEF Partitions
      <4> QED BY <3>1, <3>2, <3>3, <3>4, <4>1 DEF Agrees, Stored, StoredResult
    <3>8. CASE job["safety"] = "stored"
      <4> DEFINE s == result["safety"]
                 l == result["liveness"]
      <4>1. /\ reports'[<<i, "safety">>] # <<>> /\ reports'[<<i, "safety">>][1].result = s
            /\ reports'[<<i, "liveness">>] # <<>> /\ reports'[<<i, "liveness">>][1].result = l
        BY <3>1, <3>5, <3>6, <3>8 DEF Partitions
      <4>2. r = Combine(s, l)
        BY <2>4, <3>8 DEF Report, IInv, Reporting
      <4>3. s \in Results /\ l \in Results
        BY <3>6, <3>8 DEF IInv, Typed, Placed, Jobs, Partitions
      <4>4. /\ r = "proved" <=> {s, l} = {"proved"}
            /\ r = "counterexample" <=> "counterexample" \in {s, l}
        BY <4>2, <4>3, CombineRight
      <4> HIDE DEF r, s, l
      <4> QED BY <3>1, <3>2, <3>3, <3>4, <4>1, <4>4 DEF Agrees, Stored, StoredResult
    <3> QED BY <3>7, <3>8
  <2> QED BY <2>2, <2>3, <2>4
<1> QED BY <1>1, <1>2, Inductive, PTL DEF Spec
=============================================================================
