------------------------------ MODULE Lockstep ------------------------------
(***************************************************************************)
(* What a host may rely on when it exchanges signals with the device: the  *)
(* device answers what the host offers at that moment, all inputs of it,   *)
(* and what the host holds of the outputs are all those of one answer.     *)
(***************************************************************************)
CONSTANTS Offers, Results   \* the values of all inputs, of all outputs
          , FirstOffer, FirstResult

VARIABLES offered, result,  \* the inputs as the host has them, the outputs it holds
          asked,            \* the inputs the last answer was given for
          excused           \* the host went on after an error

vars == <<offered, result, asked, excused>>

Init == /\ offered = FirstOffer /\ asked = FirstOffer
        /\ result = FirstResult /\ excused = FALSE

Load == /\ offered' = FirstOffer /\ asked' = FirstOffer
        /\ result' = FirstResult /\ excused' = FALSE

\* The host computes, or goes on after an error.
Work == /\ offered' \in Offers
        /\ excused' \in {excused, TRUE}
        /\ UNCHANGED <<result, asked>>

Answer == /\ asked' \in Offers
          /\ excused \/ asked' = offered
          /\ result' \in Results
          /\ UNCHANGED <<offered, excused>>

Next == Load \/ Work \/ Answer

Spec == Init /\ [][Next]_vars
=============================================================================
