-------------------------- MODULE MCOperatorLedger --------------------------
(* Two instances that append in both ways, for TLC.                          *)
EXTENDS OperatorLedger

CONSTANTS i1, i2
=============================================================================
