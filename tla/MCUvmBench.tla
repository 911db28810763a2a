----------------------------- MODULE MCUvmBench -----------------------------
(***************************************************************************)
(* Benches for TLC, shaped after the UVM tests of the repository.          *)
(***************************************************************************)
EXTENDS UvmBench, TLC

CONSTANTS test, drv, mon, scb, seq, seq2,
          clk, tlm_scb, seq_default, afterAp, agentAp, scb_fifo, sqr, v0

Op(o)      == <<[op |-> o, arg |-> None]>>
Arg1(o, a) == <<[op |-> o, arg |-> a]>>

AllEvents == {clk, tlm_scb, seq_default}
AllFifos == {scb_fifo}
AllLinks == (afterAp :> {agentAp}) @@ (agentAp :> {scb_fifo}) @@ (scb_fifo :> {})
AllEventOf == (scb_fifo :> tlm_scb) @@ (sqr :> seq_default)
OneValue == {v0}
AllDelays == {1}
BodyName == {"body"}
PollName == {"poll"}
BothNames == BodyName \cup PollName

\* tests/uart_uvm: a test that polls coverage, a driver fed by a sequence, a
\* monitor on the clock and a scoreboard on the monitor's FIFO; the monitor also
\* starts a task whose loop never suspends of its own accord.
UartTree == <<test, drv, mon, scb>>
UartComponents == {test, drv, mon, scb, seq, seq2}
UartBody ==
  (test :> Op("raise") \o Arg1("start", seq)
           \o Forever(3, Arg1("delay", 1) \o Arg1("either", 6)) \o Op("drop")) @@
  (drv :> Forever(1, Arg1("get", sqr) \o Arg1("edge", clk) \o Arg1("store", v0))) @@
  (mon :> Arg1("call", "poll")
          \o Forever(2, Arg1("edge", clk) \o Arg1("either", 2) \o Arg1("write", afterAp))) @@
  ("poll" :> Forever(1, Arg1("either", 2))) @@
  (scb :> Forever(1, Arg1("get", scb_fifo))) @@
  ("body" :> Op("item") \o Op("item"))

\* Two producers, one of them a task the test calls again while it may still
\* run, and two consumers on the same FIFO; every delay may be cut short.
ShareTree == <<test, drv, mon, scb>>
ShareComponents == {test, drv, mon, scb}
ShareBody ==
  (test :> Op("raise") \o Arg1("call", "poll") \o Arg1("either", 5) \o Arg1("delay", 1)
           \o Arg1("call", "poll") \o Arg1("delay", 1) \o Op("drop")) @@
  ("poll" :> Arg1("either", 3) \o Arg1("delay", 1) \o Arg1("write", agentAp)
             \o Arg1("either", 6) \o Arg1("write", afterAp)) @@
  (drv :> Forever(1, Arg1("either", 3) \o Arg1("delay", 1) \o Arg1("write", afterAp)
                     \o Arg1("delay", 1))) @@
  (mon :> Forever(1, Arg1("get", scb_fifo) \o Arg1("either", 1) \o Arg1("delay", 1))) @@
  (scb :> Forever(1, Arg1("get", scb_fifo)))
=============================================================================
