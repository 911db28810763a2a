---------------------------- MODULE MCRunProcess ----------------------------
(***************************************************************************)
(* The two jobs of one property for TLC.                                   *)
(***************************************************************************)
EXTENDS RunProcess

CONSTANTS safety, liveness

BothJobs == {safety, liveness}
OneJob == {safety}
\* Progress lines fill the pipe of a chatty solver as well.
TwoOrOne == [j \in Jobs |-> IF j \in Chatty THEN 1 ELSE 2]
=============================================================================
