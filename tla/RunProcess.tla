----------------------------- MODULE RunProcess -----------------------------
(***************************************************************************)
(* How the compiler runs an external solver: run_process, by several jobs  *)
(* at once.                                                                *)
(*                                                                         *)
(* compiler/formal/solver/process.cpp makes a pipe, forks, puts the child  *)
(* into a process group of its own, and then polls: read what is there,    *)
(* ask whether the child has ended, look at the clock.  A job whose time   *)
(* is up terminates the group, waits out a grace period without reading,   *)
(* kills the group, and in every case reads the rest of the pipe once the  *)
(* child is reaped.  The safety and the liveness job of one property do    *)
(* this in two threads, so a child may inherit the pipe of the other job.  *)
(*                                                                         *)
(* A line of output is its number, a progress line is 0 and is not kept;   *)
(* the solver itself writes, ends and reacts to SIGTERM as it likes.       *)
(***************************************************************************)
EXTENDS Naturals, FiniteSets, Sequences

CONSTANTS
  Jobs,      \* the calls of run_process that are under way together
  Limited,   \* the jobs with a timeout
  PipeSize,  \* lines the pipe holds; a writer that finds it full waits
  MaxLines,  \* bound, for each job: lines of its solver that count
  Chatty,    \* the jobs whose solver writes progress lines, as many as it likes
  Errors,    \* TRUE: pipe, fork, read and waitpid may fail
  CompilerPid, \* the number of the compiler's process
  Adopter    \* the number of the process that adopts its orphans: init, unless a
             \* session manager or the init of a container takes its place

ASSUME JobsAssumption ==
  Limited \subseteq Jobs /\ Chatty \subseteq Jobs /\ Errors \in BOOLEAN
ASSUME PidsAssumption == CompilerPid \in Nat \ {0} /\ Adopter \in Nat
ASSUME SizesAssumption == PipeSize \in Nat \ {0} /\ MaxLines \in [Jobs -> Nat]

Hwc == "hwc"
ASSUME HwcIsNoJob == Hwc \notin Jobs

VARIABLES
  alive,     \* the compiler's process exists
  pc,        \* where the caller of the job stands in run_process
  stage,     \* what the child of the job is doing
  group,     \* the child leads a process group of its own
  sent,      \* the signals the child has received
  status,    \* the exit status of a child that has ended
  pipe,      \* the lines in the pipe, not yet read
  holders,   \* who holds the write end of the pipe: Hwc, or a child by its job
  lines,     \* history: how many lines the solver has written
  output,    \* result.output
  timedOut,  \* result.timed_out
  late       \* the clock: in time, past the timeout, past the grace period

procVars == <<stage, group, sent, status>>
pipeVars == <<pipe, holders, lines>>
callVars == <<output, timedOut>>
vars == <<alive, pc, procVars, pipeVars, callVars, late>>

Callers == {"idle", "fork", "adopt", "read", "reap", "timer", "grace",
            "escalate", "kill", "drain", "returned", "failed"}
Starting == {"forked", "grouped", "armed", "checked"}
Stages == Starting \cup {"none", "solver", "zombie", "reaped"}
Running == Starting \cup {"solver"}
Signals == {"TERM", "KILL"}
Codes == {0, 1, 126, 127, 143}
Progress == 0
Signalled == 999   \* the child did not exit by itself: status -1

Init ==
  /\ alive = TRUE
  /\ pc = [j \in Jobs |-> "idle"]
  /\ stage = [j \in Jobs |-> "none"]
  /\ group = [j \in Jobs |-> FALSE]
  /\ sent = [j \in Jobs |-> {}]
  /\ status = [j \in Jobs |-> 0]
  /\ pipe = [j \in Jobs |-> <<>>]
  /\ holders = [j \in Jobs |-> {}]
  /\ lines = [j \in Jobs |-> 0]
  /\ output = [j \in Jobs |-> <<>>]
  /\ timedOut = [j \in Jobs |-> FALSE]
  /\ late = [j \in Jobs |-> "early"]

At(j, here) == alive /\ pc[j] = here
GoTo(j, there) == pc' = [pc EXCEPT ![j] = there]

-----------------------------------------------------------------------------
(* Starting a solver.                                                      *)

MakePipe(j) ==
  /\ At(j, "idle") /\ GoTo(j, "fork")
  /\ holders' = [holders EXCEPT ![j] = {Hwc}]
  /\ UNCHANGED <<alive, procVars, pipe, lines, callVars, late>>

\* The child inherits every write end that is open in this process.
Fork(j) ==
  /\ At(j, "fork") /\ GoTo(j, "adopt")
  /\ stage' = [stage EXCEPT ![j] = "forked"]
  /\ holders' = [k \in Jobs |-> IF Hwc \in holders[k] THEN holders[k] \cup {j}
                                ELSE holders[k]]
  /\ UNCHANGED <<alive, group, sent, status, pipe, lines, callVars, late>>

\* Mutant: the parent leaves setpgid to the child.
GroupsLater(j) == group

Groups(j) == [group EXCEPT ![j] = TRUE]

\* close(pipes[1]), setpgid(child, child), O_NONBLOCK.
Adopt(j) ==
  /\ At(j, "adopt") /\ GoTo(j, "read")
  /\ holders' = [holders EXCEPT ![j] = @ \ {Hwc}]
  /\ group' = Groups(j)
  /\ UNCHANGED <<alive, stage, sent, status, pipe, lines, callVars, late>>

\* pipe or fork fails: the call throws; after fork the pipe stays open.
CannotStart(j) ==
  /\ Errors /\ (At(j, "idle") \/ At(j, "fork"))
  /\ GoTo(j, "failed")
  /\ UNCHANGED <<alive, procVars, pipeVars, callVars, late>>

-----------------------------------------------------------------------------
(* The polling loop.                                                       *)

\* The lines go to the end of the result.
Collect(j) ==
  /\ pipe[j] # <<>>
  /\ output' = IF Head(pipe[j]) = Progress THEN output
               ELSE [output EXCEPT ![j] = Append(@, Head(pipe[j]))]
  /\ pipe' = [pipe EXCEPT ![j] = Tail(@)]
  /\ UNCHANGED <<alive, procVars, holders, lines, timedOut, late>>

Read(j) == At(j, "read") /\ Collect(j) /\ UNCHANGED pc

\* EAGAIN, EINTR or end of file.
NothingToRead(j) ==
  /\ At(j, "read") /\ pipe[j] = <<>>
  /\ GoTo(j, "reap")
  /\ UNCHANGED <<alive, procVars, pipeVars, callVars, late>>

Reaped(j) ==
  /\ stage[j] = "zombie"
  /\ stage' = [stage EXCEPT ![j] = "reaped"]
  /\ UNCHANGED <<alive, group, sent, status, pipeVars, callVars, late>>

\* Mutant: what the child wrote since the last read is not collected.
FinishAtOnce(j) == GoTo(j, "returned")

Finish(j) == GoTo(j, "drain")

\* waitpid(WNOHANG).
Reap(j) ==
  \/ At(j, "reap") /\ Reaped(j) /\ Finish(j)
  \/ /\ At(j, "reap") /\ stage[j] # "zombie" /\ GoTo(j, "timer")
     /\ UNCHANGED <<alive, procVars, pipeVars, callVars, late>>

\* read or waitpid fails: the pipe is closed, the child stays.
PollFails(j) ==
  /\ Errors /\ (At(j, "read") \/ At(j, "reap"))
  /\ GoTo(j, "failed")
  /\ UNCHANGED <<alive, procVars, pipeVars, callVars, late>>

\* kill(-child, s): reaches the child if it leads its group.
Signal(j, s) ==
  /\ sent' = [sent EXCEPT ![j] = IF group[j] THEN @ \cup {s} ELSE @]
  /\ UNCHANGED <<alive, stage, group, status, pipeVars, output, late>>

TimeIsUp(j) == j \in Limited /\ late[j] # "early"

InTime(j) ==
  /\ At(j, "timer") /\ ~TimeIsUp(j)
  /\ GoTo(j, "read")
  /\ UNCHANGED <<alive, procVars, pipeVars, callVars, late>>

Expire(j) ==
  /\ At(j, "timer") /\ TimeIsUp(j)
  /\ timedOut' = [timedOut EXCEPT ![j] = TRUE]
  /\ Signal(j, "TERM")
  /\ GoTo(j, "grace")

\* Mutant: the loop goes on to SIGKILL although the child was reaped.
KillAnyway(j) == GoTo(j, "escalate")

Graced(j) == Finish(j)

\* Within the grace period: waitpid(WNOHANG) every 10 ms, no read.
ReapInGrace(j) == At(j, "grace") /\ Reaped(j) /\ Graced(j)

GraceOver(j) ==
  /\ At(j, "grace") /\ late[j] = "over"
  /\ GoTo(j, "escalate")
  /\ UNCHANGED <<alive, procVars, pipeVars, callVars, late>>

KillGroup(j) ==
  /\ At(j, "escalate")
  /\ Signal(j, "KILL")
  /\ UNCHANGED timedOut
  /\ GoTo(j, "kill")

\* The blocking waitpid after SIGKILL.
ReapKilled(j) == At(j, "kill") /\ Reaped(j) /\ Finish(j)

Drain(j) == At(j, "drain") /\ Collect(j) /\ UNCHANGED pc

\* A last read that fails ends the loop, and so does, with the status it has, a
\* waitpid that fails after SIGKILL: the call returns, nobody learns that it failed.
BreakOff(j) ==
  /\ Errors /\ (At(j, "kill") \/ At(j, "drain"))
  /\ GoTo(j, "failed")
  /\ UNCHANGED <<alive, procVars, pipeVars, callVars, late>>

\* Mutant: the last read waits for the end of the file.
EmptyAndClosed(j) == pipe[j] = <<>> /\ holders[j] = {}

Empty(j) == pipe[j] = <<>>

\* Nothing there, whoever else may still hold the write end: close and return.
Return(j) ==
  /\ At(j, "drain") /\ Empty(j)
  /\ GoTo(j, "returned")
  /\ UNCHANGED <<alive, procVars, pipeVars, callVars, late>>

Caller(j) ==
  \/ MakePipe(j) \/ Fork(j) \/ Adopt(j)
  \/ Read(j) \/ NothingToRead(j) \/ Reap(j)
  \/ InTime(j) \/ Expire(j)
  \/ ReapInGrace(j) \/ GraceOver(j) \/ KillGroup(j) \/ ReapKilled(j)
  \/ Drain(j) \/ Return(j)

Failure(j) == CannotStart(j) \/ PollFails(j) \/ BreakOff(j)

-----------------------------------------------------------------------------
(* The child.                                                              *)

\* The child reaches its next step unless a signal ends it first.
Becomes(j, from, to) ==
  /\ stage[j] = from /\ sent[j] = {}
  /\ stage' = [stage EXCEPT ![j] = to]

Exit(j, code) ==
  /\ stage' = [stage EXCEPT ![j] = "zombie"]
  /\ status' = [status EXCEPT ![j] = code]
  /\ holders' = [k \in Jobs |-> holders[k] \ {j}]
  /\ UNCHANGED <<alive, pc, group, sent, pipe, lines, callVars, late>>

\* setpgid(0, 0).
LeadGroup(j) ==
  /\ Becomes(j, "forked", "grouped")
  /\ group' = [group EXCEPT ![j] = TRUE]
  /\ UNCHANGED <<alive, pc, sent, status, pipeVars, callVars, late>>

\* prctl(PR_SET_PDEATHSIG, SIGTERM): no signal for a parent already gone.
Arm(j) ==
  /\ Becomes(j, "grouped", "armed")
  /\ UNCHANGED <<alive, pc, group, sent, status, pipeVars, callVars, late>>

\* Mutant: getppid is not looked at.
TakesForGranted == TRUE

\* getppid() == 1: the parent is taken for gone if its number is that of init.
InitPid == 1
ParentPid == IF alive THEN CompilerPid ELSE Adopter
ParentThere == ParentPid # InitPid

CheckParent(j) ==
  \/ /\ ParentThere /\ Becomes(j, "armed", "checked")
     /\ UNCHANGED <<alive, pc, group, sent, status, pipeVars, callVars, late>>
  \/ ~ParentThere /\ stage[j] = "armed" /\ sent[j] = {} /\ Exit(j, 143)

\* dup2, chdir, execv.
Exec(j) ==
  \/ /\ Becomes(j, "checked", "solver")
     /\ UNCHANGED <<alive, pc, group, sent, status, pipeVars, callVars, late>>
  \/ \E code \in {126, 127} :
       stage[j] = "checked" /\ sent[j] = {} /\ Exit(j, code)

Starts(j) == LeadGroup(j) \/ Arm(j) \/ CheckParent(j) \/ Exec(j)

\* Nobody reads any more: the write raises SIGPIPE instead.
Write(j) ==
  /\ stage[j] = "solver" /\ alive /\ pc[j] # "failed"
  /\ Len(pipe[j]) < PipeSize /\ lines[j] < MaxLines[j]
  /\ lines' = [lines EXCEPT ![j] = @ + 1]
  /\ pipe' = [pipe EXCEPT ![j] = Append(@, lines'[j])]
  /\ UNCHANGED <<alive, pc, procVars, holders, callVars, late>>

Chat(j) ==
  /\ j \in Chatty
  /\ stage[j] = "solver" /\ alive /\ pc[j] # "failed"
  /\ Len(pipe[j]) < PipeSize
  /\ pipe' = [pipe EXCEPT ![j] = Append(@, Progress)]
  /\ UNCHANGED <<alive, pc, procVars, holders, lines, callVars, late>>

End(j) == stage[j] = "solver" /\ \E code \in {0, 1} : Exit(j, code)

\* SIGTERM ends a child that has not started the solver; a solver may handle
\* or ignore it.  SIGKILL ends any.
DieOfSignal(j) == stage[j] \in Running /\ sent[j] # {} /\ Exit(j, Signalled)

-----------------------------------------------------------------------------
(* The world.                                                              *)

TimePasses(j) ==
  /\ alive
  /\ \/ pc[j] \in {"read", "reap", "timer"} /\ late[j] = "early"
        /\ late' = [late EXCEPT ![j] = "late"]
     \/ pc[j] = "grace" /\ late[j] = "late"
        /\ late' = [late EXCEPT ![j] = "over"]
  /\ UNCHANGED <<alive, pc, procVars, pipeVars, callVars>>

\* The compiler is killed: its threads and descriptors are gone, and children
\* that asked for it get SIGTERM.
Crash ==
  /\ alive /\ alive' = FALSE
  /\ sent' = [j \in Jobs |-> IF stage[j] \in {"armed", "checked", "solver"}
                             THEN sent[j] \cup {"TERM"} ELSE sent[j]]
  /\ holders' = [j \in Jobs |-> holders[j] \ {Hwc}]
  /\ UNCHANGED <<pc, stage, group, status, pipe, lines, callVars, late>>

\* The signal of PR_SET_PDEATHSIG also comes when the thread that forked ends,
\* as the thread of a job does after its call failed.
ThreadEnds(j) ==
  /\ At(j, "failed") /\ stage[j] \in {"armed", "checked", "solver"}
  /\ sent' = [sent EXCEPT ![j] = @ \cup {"TERM"}]
  /\ UNCHANGED <<alive, pc, stage, group, status, pipeVars, callVars, late>>

Next ==
  \/ \E j \in Jobs : Caller(j) \/ Failure(j)
  \/ \E j \in Jobs : Starts(j) \/ Write(j) \/ Chat(j) \/ End(j) \/ DieOfSignal(j)
  \/ \E j \in Jobs : TimePasses(j) \/ ThreadEnds(j)
  \/ Crash

Spec == Init /\ [][Next]_vars

\* The threads are scheduled, the kernel delivers signals, time goes on; a
\* solver need not do anything.
MustDie(j) == (stage[j] \in Starting \/ "KILL" \in sent[j]) /\ DieOfSignal(j)

Fairness ==
  \A j \in Jobs : /\ WF_vars(Caller(j)) /\ WF_vars(Starts(j))
                  /\ WF_vars(MustDie(j)) /\ WF_vars(TimePasses(j))

FairSpec == Spec /\ Fairness

\* The solvers that are not chatty end, after they have written what they have.
Ends(j) == \/ Write(j)
           \/ End(j) /\ lines[j] = MaxLines[j]
Patient == FairSpec /\ \A j \in Jobs \ (Chatty \cup Limited) : WF_vars(Ends(j))

---------------------------------------------------------------------------
(***************************************************************************)
(* What must hold of the solver processes.                                 *)
(***************************************************************************)

\* Callers, children, pipes and results have their types; a pipe holds no more
\* than its capacity, and only a call with a timeout is reported timed out.
TypeOK ==
  /\ alive \in BOOLEAN
  /\ pc \in [Jobs -> Callers]
  /\ stage \in [Jobs -> Stages]
  /\ group \in [Jobs -> BOOLEAN]
  /\ sent \in [Jobs -> SUBSET Signals]
  /\ status \in [Jobs -> Codes \cup {Signalled}]
  /\ pipe \in [Jobs -> Seq(Nat)] /\ \A j \in Jobs : Len(pipe[j]) <= PipeSize
  /\ holders \in [Jobs -> SUBSET (Jobs \cup {Hwc})]
  /\ lines \in [Jobs -> Nat] /\ \A j \in Jobs : lines[j] <= MaxLines[j]
  /\ output \in [Jobs -> Seq(Nat)]
  /\ timedOut \in [Jobs -> BOOLEAN] /\ \A j \in Jobs \ Limited : ~timedOut[j]
  /\ late \in [Jobs -> {"early", "late", "over"}]

\* A timeout does not miss its child: whatever the child had reached when kill
\* was called on its group, before or after its own setpgid, the signal is in.
TimeoutsReach ==
  \A j \in Jobs :
    /\ pc[j] = "grace" => "TERM" \in sent[j]
    /\ pc[j] = "kill" => "KILL" \in sent[j]

\* No signal goes to a number that waitpid has given back to the system, where
\* it could meet a process of somebody else.
SignalsMeetChild ==
  [][\A j \in Jobs : sent'[j] # sent[j] => stage[j] \notin {"none", "reaped"}]_vars

\* A crash of the compiler leaves no solver behind that was not told to stop: a
\* child that started too late for the signal still sees that it is alone.  This
\* is so where init adopts orphans; another adopter is not told from a parent.
NoSolverLeftAlone ==
  Adopter = InitPid /\ ~alive =>
            \A j \in Jobs :
              stage[j] \in {"checked", "solver"} => "TERM" \in sent[j]

Stage(s) == CASE s = "none" -> "none"
              [] s \in Running -> "running"
              [] s \in {"zombie", "reaped"} -> "ended"

Tool == INSTANCE ToolCall WITH
  tool <- [j \in Jobs |-> Stage(stage[j])],
  wrote <- lines,
  exit <- status,
  answer <- [j \in Jobs |->
    IF pc[j] = "returned"
    THEN <<[output |-> output[j], status |-> status[j], timedOut |-> timedOut[j]]>>
    ELSE <<>>]

\* An answer of a call that did not fail holds every line the solver wrote, once and in order, and its final
\* status, although the last lines come between the last read and the exit,
\* during the grace period, or as the other job forks.
ImplementsToolCall == Tool!Spec

\* A call with a timeout returns, whatever its solver does: hang, fill the pipe,
\* or ignore SIGTERM.
TimeoutsReturn ==
  \A j \in Limited : pc[j] # "idle" ~> (pc[j] \in {"returned", "failed"} \/ ~alive)

\* The same of a solver that goes quiet, however much progress it reported: it
\* may hang, fill the pipe, and ignore SIGTERM.  A call without a timeout
\* returns once its solver ends: the solver is not kept waiting on a full pipe,
\* and the solver of another job, which holds the write end of the pipe if it
\* was forked in between and which a call that failed has left running for ever,
\* does not keep the call.
Comes(j) == pc[j] # "idle" ~> (pc[j] \in {"returned", "failed"} \/ ~alive)

CallsReturn ==
  /\ \A j \in Limited : (<>[][~Chat(j)]_vars) => Comes(j)
  /\ \A j \in Jobs \ (Chatty \cup Limited) : Comes(j)
=============================================================================
