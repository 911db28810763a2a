------------------------------ MODULE RunPhase ------------------------------
(***************************************************************************)
(* What the run phase promises the bodies of the processes, without the    *)
(* delta loop that delivers it: a discrete-event machine.  Any ready       *)
(* process may be picked at any moment, one runs at a time, time moves     *)
(* only when nobody is ready and then to the earliest wake time, and the   *)
(* phase ends for one of the four reasons of Over.  UvmProcess implements  *)
(* this specification; its snapshots, iterations and objection latch do    *)
(* not show here.                                                          *)
(***************************************************************************)
EXTENDS Naturals, FiniteSets

CONSTANTS MaxProcs, Events, Clk, MaxTime, Delays, None

VARIABLES
  status,      \* absent, ready, waiting_time, waiting_event or done
  wake, event, \* what a waiting process waits for
  now,
  running,     \* the process whose body executes, or None
  objections,
  raised,      \* an objection has been raised
  over         \* "none" while the phase lasts, else how it ended

pvars == <<status, wake, event, now, running, objections, raised, over>>

Procs == 1..MaxProcs
In(s) == {p \in Procs : status[p] = s}

PInit ==
  /\ status = [p \in Procs |-> "absent"]
  /\ wake = [p \in Procs |-> 0]
  /\ event = [p \in Procs |-> None]
  /\ now = 0 /\ running = None
  /\ objections = 0 /\ raised = FALSE
  /\ over = "none"

Lasts == over = "none"

\* A new process is ready; it does not run before the body that made it ends.
Make(p) ==
  /\ Lasts
  /\ status[p] = "absent"
  /\ status' = [status EXCEPT ![p] = "ready"]
  /\ UNCHANGED <<wake, event, now, running, objections, raised, over>>

Object ==
  /\ Lasts
  /\ objections' = objections + 1 /\ raised' = TRUE
  /\ UNCHANGED <<status, wake, event, now, running, over>>

Withdraw ==
  /\ Lasts
  /\ objections > 0
  /\ objections' = objections - 1
  /\ UNCHANGED <<status, wake, event, now, running, raised, over>>

Signalled(s, e) ==
  [p \in Procs |-> IF s[p] = "waiting_event" /\ event[p] = e
                   THEN "ready" ELSE s[p]]

Signal(e) ==
  /\ running # None
  /\ status' = Signalled(status, e)
  /\ UNCHANGED <<wake, event, now, running, objections, raised, over>>

Pick(p) ==
  /\ Lasts /\ running = None
  /\ status[p] = "ready"
  /\ running' = p
  /\ UNCHANGED <<status, wake, event, now, objections, raised, over>>

Suspend(s) ==
  /\ running # None
  /\ status' = [status EXCEPT ![running] = s]
  /\ running' = None
  /\ UNCHANGED <<now, objections, raised, over>>

Sleep(d) ==
  /\ Suspend("waiting_time")
  /\ wake' = [wake EXCEPT ![running] = (now + d) % (MaxTime + 1)]
  /\ UNCHANGED event

Await(e) ==
  /\ Suspend("waiting_event")
  /\ event' = [event EXCEPT ![running] = e]
  /\ UNCHANGED wake

Return == \E s \in {"ready", "done"} : Suspend(s) /\ UNCHANGED <<wake, event>>

\* Nobody runs and nobody could.
Idle == Lasts /\ running = None /\ In("ready") = {}

\* The earliest wake time arrives, with a clock edge; nobody is passed over.
Elapse(t) ==
  /\ Idle
  /\ \E p \in In("waiting_time") : wake[p] = t
  /\ \A p \in In("waiting_time") : t <= wake[p]
  /\ t >= now
  /\ now' = t
  /\ LET woken == [p \in Procs |-> IF p \in In("waiting_time") /\ wake[p] = t
                                   THEN "ready" ELSE status[p]]
     IN  status' = Signalled(woken, Clk)
  /\ UNCHANGED <<wake, event, running, objections, raised, over>>

\* The last objection is gone: every process is stopped where it stands.
EndAll ==
  /\ Lasts /\ running = None
  /\ raised /\ objections = 0
  /\ status' = [p \in Procs |-> IF status[p] = "absent" THEN "absent" ELSE "done"]
  /\ over' = "drained"
  /\ UNCHANGED <<wake, event, now, running, objections, raised>>

\* Nobody is left.
EndEmpty ==
  /\ Lasts /\ running = None
  /\ \A p \in Procs : status[p] \in {"absent", "done"}
  /\ over' = "drained"
  /\ UNCHANGED <<status, wake, event, now, running, objections, raised>>

\* Somebody is left and nothing can ever wake them.
EndStuck ==
  /\ Idle
  /\ \E p \in Procs : status[p] \notin {"absent", "done"}
  /\ \A p \in In("waiting_time") : wake[p] = MaxTime
  /\ over' = "deadlock"
  /\ UNCHANGED <<status, wake, event, now, running, objections, raised>>

\* An exception, perhaps of the clock tick at a new time, or the step limit.
EndFailed(o) ==
  /\ Lasts
  /\ o \in {"thrown", "limit"}
  /\ over' = o
  /\ running' = None
  /\ now' = now \/ (Idle /\ now' >= now)
  /\ UNCHANGED <<status, wake, event, objections, raised>>

PNext ==
  \/ \E p \in Procs : Make(p) \/ Pick(p)
  \/ Object \/ Withdraw
  \/ \E e \in Events : Signal(e) \/ Await(e)
  \/ \E d \in Delays : Sleep(d)
  \/ Return
  \/ \E t \in 0..MaxTime : Elapse(t)
  \/ EndAll \/ EndEmpty \/ EndStuck
  \/ EndFailed("thrown") \/ EndFailed("limit")

PSpec == PInit /\ [][PNext]_pvars
=============================================================================
