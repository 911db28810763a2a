------------------------------- MODULE MCHost -------------------------------
(***************************************************************************)
(* A clock and an input driven by an output; a test that has *)
(* every phase, and an item made by it or by its processes that has three. *)
(***************************************************************************)
EXTENDS Host

MCInputs == <<"clk", "fed">>
MCOutputs == <<"q", "r">>
MCResults == {[v \in {"q", "r"} |-> x] : x \in {0, 1}}
MCDerived == [v \in {"fed"} |-> "q"]
MCHas == [t \in {"test", "item"} |->
             IF t = "test" THEN {"build_phase", "connect_phase", "run_phase", "check_phase"}
             ELSE {"build_phase", "run_phase", "check_phase"}]
=============================================================================
