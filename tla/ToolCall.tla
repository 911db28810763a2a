------------------------------ MODULE ToolCall ------------------------------
(***************************************************************************)
(* What the solver back ends expect of run_process.                        *)
(*                                                                         *)
(* pono.cpp, btormc.cpp, ric3.cpp, avr.cpp and aiger.cpp read the verdict  *)
(* from the exit status and from the text of the solver, and a time-out    *)
(* before either: an answer must hold all that the solver wrote, in order, *)
(* and its final status, and it must not come before the solver is gone.   *)
(***************************************************************************)
EXTENDS Naturals, Sequences

CONSTANTS
  Jobs,     \* the calls
  Limited   \* the calls with a timeout

VARIABLES
  tool,    \* the solver of a call: not there yet, running, or ended
  wrote,   \* how many lines it has written
  exit,    \* the exit status of a solver that has ended
  answer   \* what the call has returned, <<>> before that

toolVars == <<tool, wrote, exit, answer>>

Pending == <<>>

Init ==
  /\ tool = [j \in Jobs |-> "none"]
  /\ wrote = [j \in Jobs |-> 0]
  /\ exit = [j \in Jobs |-> 0]
  /\ answer = [j \in Jobs |-> Pending]

Start(j) ==
  /\ tool[j] = "none" /\ tool' = [tool EXCEPT ![j] = "running"]
  /\ UNCHANGED <<wrote, exit, answer>>

Say(j) ==
  /\ tool[j] = "running" /\ wrote' = [wrote EXCEPT ![j] = @ + 1]
  /\ UNCHANGED <<tool, exit, answer>>

Stop(j) ==
  /\ tool[j] = "running" /\ tool' = [tool EXCEPT ![j] = "ended"]
  /\ exit' \in [Jobs -> Nat] /\ \A k \in Jobs \ {j} : exit'[k] = exit[k]
  /\ UNCHANGED <<wrote, answer>>

Answer(j) ==
  /\ tool[j] = "ended" /\ answer[j] = Pending
  /\ \E t \in BOOLEAN :
       /\ t => j \in Limited
       /\ answer' = [answer EXCEPT ![j] =
            <<[output |-> [i \in 1..wrote[j] |-> i], status |-> exit[j], timedOut |-> t]>>]
  /\ UNCHANGED <<tool, wrote, exit>>

Next == \E j \in Jobs : Start(j) \/ Say(j) \/ Stop(j) \/ Answer(j)

Spec == Init /\ [][Next]_toolVars
=============================================================================
