----------------------------- MODULE FormalTask -----------------------------
(***************************************************************************)
(* Formal tasks: tools/main.cpp runs one or, for a matrix, several tasks.  *)
(* A task is routed to an engine (formal/router), its property is lowered  *)
(* to a model, a back end (formal/solver) has a solver decide the model,   *)
(* and the verdict is reported (formal/engine, formal/task).  A model with *)
(* a safety and a liveness part may be decided by two jobs in parallel.    *)
(*                                                                         *)
(* A solver is called through run_process, of which ToolCall says what is  *)
(* promised here.                                                          *)
(***************************************************************************)
EXTENDS Naturals, Sequences

CONSTANTS
  Sessions,  \* what may be asked for: tasks, expectation, property, design
  MaxTasks,  \* bound: tasks of a session
  Timeouts,  \* whether solvers have a time limit
  Faults     \* whether files, threads and the lowering may fail

TaskKinds == {"safety", "liveness", "fairness", "reachability", "performance"}
Engines == {"smt", "bmc", "kind", "pdr"}
Aiger == {"abc", "avy", "suprove"}
Backends == {"pono", "btormc", "ric3", "avr", "smtbmc"} \cup Aiger
Results ==
  {"proved", "bounded", "covered", "counterexample", "unknown", "timeout", "error"}
Partitions == {"safety", "liveness"}
None == "none"
Threw == "threw"

(***************************************************************************)
(* The tasks of a matrix differ in engine and back end and have the rest   *)
(* in common.  problem: the features the router sees, what the SMT engine takes for    *)
(* temporal, the clocks, the parts of the model, those of them with a wide *)
(* or an array sort, and those whose bad state or fair lasso is reachable. *)
(***************************************************************************)
Requests == [engine : Engines \cup {"auto"}, backend : Backends \cup {"auto"}]

ASSUME SessionsAssumption ==
  \A s \in Sessions :
    /\ s.tasks \in Seq(Requests) /\ Len(s.tasks) \in 1..MaxTasks
    /\ s.kind \in TaskKinds \cup {"auto"} /\ s.action \in {"prove", "cover"}
    /\ s.expected \in (Results \ {"error"}) \cup {"default", "any"}
    /\ LET p == s.problem IN
         /\ p.cover \in BOOLEAN /\ p.stateful \in BOOLEAN /\ p.temporal \in BOOLEAN
         /\ p.unbounded \in BOOLEAN /\ p.recurrence \in BOOLEAN
         /\ p.fairness \in BOOLEAN /\ p.nonAtomic \in BOOLEAN
         /\ p.clocks \in Nat /\ p.parts \subseteq Partitions
         /\ p.wide \subseteq p.parts /\ p.fails \subseteq p.parts
ASSUME TasksAssumption == MaxTasks \in Nat
ASSUME SwitchesAssumption == Timeouts \in BOOLEAN /\ Faults \in BOOLEAN

Jobs == {"whole"} \cup Partitions
Calls == (1..MaxTasks) \X (Jobs \cup {"convert"})

VARIABLES
  session,   \* what was asked for
  task,      \* the task that is run
  pc,        \* where the thread that runs it is
  engine,    \* the engine it was routed to
  job,       \* where each job of the task is
  found,     \* what the solver of a job finds out
  result,    \* what each job, and the task, has for a result
  reports,   \* the report.json files: of a task, and of its jobs
  outcome,   \* how each task ended
  passed,    \* whether all went as expected
  tool, wrote, exit, answer  \* of ToolCall

taskVars == <<session, task, pc, engine, job, found, result, reports, outcome, passed>>
toolVars == <<tool, wrote, exit, answer>>
vars == <<taskVars, toolVars>>

Tool == INSTANCE ToolCall WITH
  Jobs <- Calls, Limited <- IF Timeouts THEN Calls ELSE {}

problem == session.problem
request == session.tasks[task]

-----------------------------------------------------------------------------
(* The router.                                                             *)

\* Every other temporal property is a bounded response (PropertyProfile.cpp:100),
\* so the exception for one that is not cannot come.
Classify(p) ==
  IF p.cover THEN "reachability"
  ELSE IF p.fairness THEN "fairness"
  ELSE IF p.unbounded \/ p.recurrence THEN "liveness"
  ELSE "safety"

Recommended(kind, p) ==
  CASE kind = "safety" -> IF p.stateful THEN "pdr" ELSE "smt"
    [] kind \in {"liveness", "fairness"} -> "pdr"
    [] kind \in {"reachability", "performance"} -> "bmc"

\* The bound of a performance task is never zero here: main.cpp refuses it.
Valid(e, kind, p) ==
  /\ e = "smt" => ~p.stateful /\ ~p.temporal
  /\ e = "kind" => kind \notin {"liveness", "fairness"}

-----------------------------------------------------------------------------
(* The end of a task.                                                      *)

\* formal.cpp: whether run_formal returns true.
Expected(r) ==
  CASE session.expected = "any" -> TRUE
    [] session.expected = "default" ->
         IF session.action = "cover" THEN r = "covered" ELSE r \in {"proved", "bounded"}
    [] OTHER -> r = session.expected

\* Artifacts.cpp: what the report says about it.
ExpectationMet(r) == session.expected \in {"default", "any", r}

Idle == [j \in Jobs |-> "idle"]
NoResult == [j \in Jobs \cup {"top"} |-> None]

NextTask ==
  /\ task' = task + 1
  /\ pc' = IF task = Len(session.tasks) THEN "over" ELSE "route"
  /\ engine' = None /\ job' = Idle /\ result' = NoResult
  /\ found' = [j \in Jobs |-> None]

\* The loop over the tasks catches what a task throws.
Throw ==
  /\ outcome' = [outcome EXCEPT ![task] = Threw]
  /\ passed' = FALSE
  /\ NextTask

\* write_task_artifacts for the task, and the return from run_formal.
Report ==
  /\ pc = "report"
  /\ reports' = [reports EXCEPT ![<<task, "top">>] =
       <<[result |-> result["top"], engine |-> engine,
          met |-> ExpectationMet(result["top"])]>>]
  /\ outcome' = [outcome EXCEPT ![task] = result["top"]]
  /\ passed' = (passed /\ Expected(result["top"]))
  /\ NextTask
  /\ UNCHANGED <<session, toolVars>>

\* The property is not found or its lowering not supported, or the model or a
\* report cannot be written.
Fault ==
  /\ Faults /\ pc \in {"route", "lower", "report"} /\ Throw
  /\ UNCHANGED <<session, reports, toolVars>>

-----------------------------------------------------------------------------
(* One task, up to its jobs.                                               *)

Route ==
  /\ pc = "route"
  /\ LET kind == IF session.kind = "auto" THEN Classify(problem) ELSE session.kind
         e == IF request.engine = "auto" THEN Recommended(kind, problem)
              ELSE request.engine IN
       IF Valid(e, kind, problem)
       THEN /\ engine' = e /\ pc' = "lower"
            /\ UNCHANGED <<task, job, found, result, outcome, passed>>
       ELSE Throw
  /\ UNCHANGED <<session, reports, toolVars>>

\* The SMT engine asks Z3 whether the property holds for every input, with no
\* solver process and no time limit, and takes a cover for an assertion.
SolveOnce ==
  /\ pc = "lower" /\ engine = "smt"
  /\ IF problem.nonAtomic \/ problem.stateful
     THEN Throw
     ELSE /\ \E r \in {"proved", "counterexample", "unknown"} :
               /\ ~problem.cover => /\ r = "proved" => problem.fails = {}
                                    /\ r = "counterexample" => problem.fails # {}
               /\ result' = [result EXCEPT !["top"] = r]
          /\ pc' = "report"
          /\ UNCHANGED <<task, engine, job, found, outcome, passed>>
  /\ UNCHANGED <<session, reports, toolVars>>

Parallel == engine = "pdr" /\ request.backend = "auto" /\ problem.parts = Partitions

Single ==
  /\ pc = "lower" /\ engine # "smt" /\ ~Parallel
  /\ job' = [job EXCEPT !["whole"] = "running"]
  /\ pc' = "whole"
  /\ UNCHANGED <<session, task, engine, found, result, reports, outcome, passed, toolVars>>

\* std::async for the safety part.
LaunchSafety ==
  /\ pc = "lower" /\ Parallel
  /\ job' = [job EXCEPT !["safety"] = "running"]
  /\ pc' = "launch"
  /\ UNCHANGED <<session, task, engine, found, result, reports, outcome, passed, toolVars>>

\* std::async for the liveness part, which may find no thread.
LaunchLiveness ==
  /\ pc = "launch"
  /\ \/ job' = [job EXCEPT !["liveness"] = "running"] /\ pc' = "safety"
     \/ Faults /\ pc' = "unwind" /\ UNCHANGED job
  /\ UNCHANGED <<session, task, engine, found, result, reports, outcome, passed, toolVars>>

-----------------------------------------------------------------------------
(* A job: one run of a back end.                                           *)

Parts(j) == IF j = "whole" THEN problem.parts ELSE {j}
Justice(j) == "liveness" \in Parts(j)
Wide(j) == problem.wide \cap Parts(j) # {}

\* Mutant: the automatic choice does not look for justice.
SelectForSafety(j) ==
  IF request.backend # "auto" THEN request.backend
  ELSE IF engine \in {"bmc", "kind"} THEN "btormc"
  ELSE IF problem.clocks > 1 THEN "pono"
  ELSE IF Wide(j) THEN "avr" ELSE "ric3"

\* select_backend, when it does not throw.
SelectBackend(j) ==
  IF request.backend # "auto" THEN request.backend
  ELSE IF engine \in {"bmc", "kind"} THEN "btormc"
  ELSE IF problem.clocks > 1 \/ Justice(j) THEN "pono"
  ELSE IF Wide(j) THEN "avr" ELSE "ric3"

\* What select_backend or the back end throws at.
Refused(j) ==
  LET b == SelectBackend(j) IN
    \/ request.backend \in {"ric3", "avr"} \cup Aiger /\ Justice(j)
    \/ b \in {"ric3", "avr"} \cup Aiger /\ engine # "pdr"
    \/ b = "btormc" /\ engine = "pdr"
    \/ b = "avr" /\ problem.clocks > 1
    \/ b = "smtbmc"

(***************************************************************************)
(* What a solver looks at, and so may find out: Pono is asked for the      *)
(* justice condition if there is one; the others decide bad states.  A     *)
(* bounded search finds no proof.                                          *)
(***************************************************************************)
Checked(j) ==
  IF SelectBackend(j) = "pono" /\ Justice(j) THEN {"liveness"}
  ELSE Parts(j) \cap {"safety"}

Findings(j) ==
  {f \in {"fails", "holds", "open"} :
     /\ f = "fails" => Checked(j) \cap problem.fails # {}
     /\ f = "holds" => engine # "bmc" /\ Checked(j) \cap problem.fails = {}}

Fail(j) ==
  /\ job' = [job EXCEPT ![j] = Threw]
  /\ UNCHANGED <<found, result, toolVars>>

\* The back end is chosen; the AIGER back ends convert the model first.
Begin(j) ==
  /\ job[j] = "running"
  /\ \/ (Refused(j) \/ Faults) /\ Fail(j)
     \/ /\ ~Refused(j) /\ SelectBackend(j) \in Aiger
        /\ Tool!Start(<<task, "convert">>)
        /\ job' = [job EXCEPT ![j] = "converting"]
        /\ UNCHANGED <<found, result>>
     \/ /\ ~Refused(j) /\ SelectBackend(j) \notin Aiger
        /\ Tool!Start(<<task, j>>)
        /\ job' = [job EXCEPT ![j] = "solving"]
        /\ \E f \in Findings(j) : found' = [found EXCEPT ![j] = f]
        /\ UNCHANGED result

Converted(j) ==
  /\ job[j] = "converting"
  /\ Tool!Answer(<<task, "convert">>)
  /\ LET a == answer'[<<task, "convert">>][1] IN
       job' = [job EXCEPT ![j] =
         IF a.timedOut \/ a.status # 0 THEN Threw ELSE "converted"]
  /\ UNCHANGED <<found, result>>

Solve(j) ==
  /\ job[j] = "converted"
  /\ \/ Faults /\ Fail(j)
     \/ /\ Tool!Start(<<task, j>>)
        /\ job' = [job EXCEPT ![j] = "solving"]
        /\ \E f \in Findings(j) : found' = [found EXCEPT ![j] = f]
        /\ UNCHANGED result

(***************************************************************************)
(* The verdicts of the back ends from the answer a of run_process; said is *)
(* what the text, or the result file of AVR, holds of a verdict.           *)
(***************************************************************************)
PonoVerdict(a) ==
  CASE a.status = 0 -> "counterexample"
    [] a.status = 1 -> "proved"
    [] a.status = 255 /\ engine = "bmc" -> "bounded"
    [] OTHER -> "unknown"

BtormcVerdict(a, said) ==
  IF a.status # 0 THEN "unknown"
  ELSE IF said = "fails" THEN "counterexample"
  ELSE IF engine = "kind" THEN "proved" ELSE "bounded"

VerdictSaid(said) ==
  CASE said = "fails" -> "counterexample"
    [] said = "holds" -> "proved"
    [] OTHER -> "unknown"

Ric3Verdict(a, said) == IF a.status # 0 THEN "unknown" ELSE VerdictSaid(said)

AvrVerdict(a, said) == IF a.status # 0 THEN "unknown" ELSE VerdictSaid(said)

AigerVerdict(b, a, said) ==
  IF b # "avy" THEN VerdictSaid(said)
  ELSE CASE a.status = 0 -> "proved"
         [] a.status = 1 -> "counterexample"
         [] OTHER -> "unknown"

Verdict(b, a, said) ==
  IF a.timedOut THEN "timeout" ELSE
  CASE b = "pono" -> PonoVerdict(a)
    [] b = "btormc" -> BtormcVerdict(a, said)
    [] b = "ric3" -> Ric3Verdict(a, said)
    [] b = "avr" -> AvrVerdict(a, said)
    [] OTHER -> AigerVerdict(b, a, said)

\* The witness of a counterexample, or the result file, may not be readable.
Answered(j) ==
  /\ job[j] = "solving"
  /\ Tool!Answer(<<task, j>>)
  /\ LET a == answer'[<<task, j>>][1]
         b == SelectBackend(j)
         said == IF a.output = <<>> THEN None ELSE found[j]
         started == a.status = 127 => b \in Aiger IN
       \/ /\ Faults \/ ~started
          /\ job' = [job EXCEPT ![j] = Threw] /\ UNCHANGED result
       \/ /\ started /\ job' = [job EXCEPT ![j] = "answered"]
          /\ result' = [result EXCEPT ![j] = Verdict(b, a, said)]
  /\ UNCHANGED found

Job(j) ==
  /\ Begin(j) \/ Converted(j) \/ Solve(j) \/ Answered(j)
  /\ UNCHANGED <<session, task, pc, engine, reports, outcome, passed>>

\* A job of a thread of its own writes its own report.
Store(j) ==
  /\ j # "whole" /\ job[j] = "answered"
  /\ \/ /\ job' = [job EXCEPT ![j] = "stored"]
        /\ reports' = [reports EXCEPT ![<<task, j>>] =
             <<[result |-> result[j], engine |-> engine,
                met |-> ExpectationMet(result[j])]>>]
     \/ Faults /\ job' = [job EXCEPT ![j] = Threw] /\ UNCHANGED reports
  /\ UNCHANGED <<session, task, pc, engine, found, result, outcome, passed, toolVars>>

-----------------------------------------------------------------------------
(* The jobs are joined.                                                    *)

\* Mutant: one proof is enough.
CombineAny(s, l) ==
  IF "counterexample" \in {s, l} THEN "counterexample"
  ELSE IF "error" \in {s, l} THEN "error"
  ELSE IF "timeout" \in {s, l} THEN "timeout"
  ELSE IF "proved" \in {s, l} THEN "proved" ELSE "unknown"

\* The verdict of the task from those of its two parts.
Combine(s, l) ==
  IF "counterexample" \in {s, l} THEN "counterexample"
  ELSE IF "error" \in {s, l} THEN "error"
  ELSE IF "timeout" \in {s, l} THEN "timeout"
  ELSE IF {s, l} = {"proved"} THEN "proved" ELSE "unknown"

\* Mutant: a search to the bound counts for a cover.
CoverDecided(r) ==
  IF ~problem.cover THEN r
  ELSE IF r \in {"counterexample", "bounded"} THEN "covered" ELSE "unknown"

\* A back end knows no covers: it finds a counterexample to one, or does not.
CoverResult(r) ==
  IF ~problem.cover THEN r ELSE IF r = "counterexample" THEN "covered" ELSE "unknown"

JoinWhole ==
  /\ pc = "whole"
  /\ \/ /\ job["whole"] = "answered"
        /\ result' = [result EXCEPT !["top"] = CoverResult(result["whole"])]
        /\ pc' = "report"
        /\ UNCHANGED <<task, engine, job, found, outcome, passed>>
     \/ job["whole"] = Threw /\ Throw
  /\ UNCHANGED <<session, reports, toolVars>>

JoinSafety ==
  /\ pc = "safety" /\ job["safety"] \in {"stored", Threw}
  /\ pc' = IF job["safety"] = Threw THEN "unwind" ELSE "liveness"
  /\ UNCHANGED <<session, task, engine, job, found, result, reports, outcome, passed, toolVars>>

JoinLiveness ==
  /\ pc = "liveness"
  /\ \/ /\ job["liveness"] = "stored"
        /\ result' = [result EXCEPT !["top"] = Combine(result["safety"], result["liveness"])]
        /\ pc' = "report" /\ UNCHANGED job
     \/ /\ job["liveness"] = Threw
        /\ pc' = "unwind" /\ UNCHANGED <<job, result>>
  /\ UNCHANGED <<session, task, engine, found, reports, outcome, passed, toolVars>>

\* Mutant: the exception leaves before the other job has ended.
UnwindAtOnce ==
  /\ pc = "unwind" /\ Throw
  /\ UNCHANGED <<session, reports, toolVars>>

\* Mutant: waits for a job that was not launched, too.
UnwindBoth ==
  /\ pc = "unwind" /\ \A j \in Partitions : job[j] \in {"stored", Threw}
  /\ Throw
  /\ UNCHANGED <<session, reports, toolVars>>

\* The destructors of the futures wait for the jobs.
Unwind ==
  /\ pc = "unwind" /\ \A j \in Jobs : job[j] \in {"idle", "stored", Threw}
  /\ Throw
  /\ UNCHANGED <<session, reports, toolVars>>

-----------------------------------------------------------------------------
(* The solvers.                                                            *)

\* The back ends whose solver ends with a status for its verdict, not a text.
\* Nothing tells the statuses of a k-induction that is left open apart.
FinalStatuses(b, f) ==
  CASE b = "pono" -> {CASE f = "fails" -> 0 [] f = "holds" -> 1 [] OTHER -> 255}
    [] b = "avy" -> {CASE f = "fails" -> 1 [] f = "holds" -> 0 [] OTHER -> 2}
    [] b = "btormc" /\ engine = "kind" /\ f = "open" -> {0, 1}
    [] OTHER -> {0}

Speaks(b, f) ==
  \/ b = "btormc" /\ f = "fails"
  \/ b \in {"ric3", "avr", "abc", "suprove"} /\ f # "open"

\* The converter may find the model beyond it; a solver ends with its verdict,
\* or it could not be started, or it is killed.
Statuses(c) ==
  {137} \cup
  IF c[2] = "convert" THEN {0, 1, 127}
  ELSE LET b == SelectBackend(c[2])
           f == found[c[2]] IN
         (IF Speaks(b, f) => wrote[c] = 1 THEN FinalStatuses(b, f) ELSE {})
         \cup (IF wrote[c] = 0 THEN {127} ELSE {})

Speak(c) ==
  /\ c[1] = task /\ c[2] # "convert" /\ tool[c] = "running" /\ wrote[c] = 0
  /\ Speaks(SelectBackend(c[2]), found[c[2]])
  /\ Tool!Say(c)

End(c) ==
  /\ c[1] = task /\ tool[c] = "running"
  /\ \E s \in Statuses(c) : exit' = [exit EXCEPT ![c] = s]
  /\ Tool!Stop(c)

Solver(c) == (Speak(c) \/ End(c)) /\ UNCHANGED taskVars

-----------------------------------------------------------------------------
Init ==
  /\ session \in Sessions
  /\ task = 1 /\ pc = "route" /\ engine = None
  /\ job = Idle /\ found = [j \in Jobs |-> None] /\ result = NoResult
  /\ reports = [r \in (1..MaxTasks) \X ({"top"} \cup Partitions) |-> <<>>]
  /\ outcome = [i \in 1..MaxTasks |-> None] /\ passed = TRUE
  /\ Tool!Init

Main ==
  \/ Route \/ SolveOnce \/ Single \/ LaunchSafety \/ LaunchLiveness
  \/ JoinWhole \/ JoinSafety \/ JoinLiveness \/ Unwind \/ Report \/ Fault

Next ==
  \/ Main
  \/ \E j \in Jobs : Job(j) \/ Store(j)
  \/ \E c \in Calls : Solver(c)

Spec == Init /\ [][Next]_vars

\* The threads are scheduled; a solver ends by itself or by its time limit.
FairSpec ==
  /\ Spec /\ WF_vars(Main)
  /\ \A j \in Jobs : WF_vars(Job(j) \/ Store(j))
  /\ \A c \in Calls : WF_vars(End(c) /\ UNCHANGED taskVars)

---------------------------------------------------------------------------
(***************************************************************************)
(* What a session of formal tasks must not get wrong.                      *)
(***************************************************************************)

Stages ==
  {"idle", "running", "converting", "converted", "solving", "answered", "stored", Threw}
Places ==
  {"route", "lower", "launch", "whole", "safety", "liveness", "unwind", "report", "over"}
ReportFiles == [result : Results, engine : Engines, met : BOOLEAN]

\* Every variable has its type.
TypeOK ==
  /\ session \in Sessions
  /\ task \in 1 .. Len(session.tasks) + 1
  /\ pc \in Places /\ engine \in Engines \cup {None}
  /\ job \in [Jobs -> Stages]
  /\ found \in [Jobs -> {"fails", "holds", "open", None}]
  /\ result \in [Jobs \cup {"top"} -> Results \cup {None}]
  /\ reports \in [(1..MaxTasks) \X ({"top"} \cup Partitions) ->
                    {<<>>} \cup {<<r>> : r \in ReportFiles}]
  /\ outcome \in [1..MaxTasks -> Results \cup {None, Threw}]
  /\ passed \in BOOLEAN
  /\ tool \in [Calls -> {"none", "running", "ended"}]
  /\ wrote \in [Calls -> 0..1]
  /\ exit \in [Calls -> Nat]
  /\ answer \in [Calls -> Seq([output : {<<>>, <<1>>}, status : Nat, timedOut : BOOLEAN])]
  /\ \A c \in Calls : Len(answer[c]) <= 1

Tasks == 1..Len(session.tasks)
Stored(i, r) == reports[<<i, r>>] # <<>>
StoredResult(i, r) == reports[<<i, r>>][1].result

(***************************************************************************)
(* An unbounded proof is reported only of a property no part of which can  *)
(* fail, whichever back ends decided the parts.  Asked for by name, Pono   *)
(* looks at the justice condition alone.                                   *)
(***************************************************************************)
ProofCoversAllParts ==
  \A i \in Tasks :
    /\ outcome[i] = "proved" /\ reports[<<i, "top">>][1].engine = "pdr"
    /\ session.tasks[i].backend # "pono"
    => problem.fails = {}

\* A counterexample or a covered target is one that a part of the model has;
\* the SMT engine takes a cover for an assertion.
CounterexampleIsReal ==
  \A i \in Tasks :
    /\ outcome[i] = "covered" => problem.cover /\ problem.fails # {}
    /\ outcome[i] = "counterexample" =>
         \/ problem.fails # {}
         \/ problem.cover /\ reports[<<i, "top">>][1].engine = "smt"

\* When a task has ended, with a result or by an exception of one of its jobs,
\* none of its solvers is running or waited for.
NothingLeftRunning ==
  \A c \in Calls :
    pc \in {"route", "over"} \/ c[1] # task => (tool[c] # "none" <=> answer[c] # <<>>)

\* The report of a task is there if and only if the task returned, agrees with
\* what it returned, with the reports of its jobs, and with the exit status of
\* the tool where it says that the expectation was not met.
ReportsAgree ==
  \A i \in Tasks :
    /\ Stored(i, "top") <=> outcome[i] \notin {None, Threw}
    /\ Stored(i, "top") =>
         /\ StoredResult(i, "top") = outcome[i]
         /\ reports[<<i, "top">>][1].met \/ ~passed
         /\ Stored(i, "safety") <=> Stored(i, "liveness")
         /\ Stored(i, "safety") =>
              LET parts == {StoredResult(i, "safety"), StoredResult(i, "liveness")} IN
                /\ outcome[i] = "proved" <=> parts = {"proved"}
                /\ outcome[i] = "counterexample" <=> "counterexample" \in parts

\* Each task of a matrix is tried, whatever became of the others, and the matrix
\* passes exactly if each returned what was expected.
EveryTaskTried ==
  pc = "over" =>
    /\ \A i \in Tasks : outcome[i] # None
    /\ passed <=> \A i \in Tasks : outcome[i] # Threw /\ Expected(outcome[i])

\* A session ends: nobody waits for a job that does not come.
SessionEnds == <>(pc = "over")
=============================================================================
