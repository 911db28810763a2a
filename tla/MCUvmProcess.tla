---------------------------- MODULE MCUvmProcess ----------------------------
(***************************************************************************)
(* The instances of UvmProcess that TLC checks.                            *)
(***************************************************************************)
EXTENDS UvmProcess

CONSTANTS test, env, body, other, clk, fifo, v0, v1

AllComponents == {test, env}
OneComponent == {test}
AllNames == {body, other}
OneName == {body}
BothEvents == {clk, fifo}
TwoDelays == {0, 2}
ZeroDelay == {0}
WrapDelays == {1, 2, 3}
TwoValues == {v0, v1}
OneValue == {v0}
=============================================================================
