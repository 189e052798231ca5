-------------------------- MODULE MCFleetConsensus --------------------------
(* Two instances, the freeze of one of them operated, and one screen for TLC. *)
EXTENDS FleetConsensus

CONSTANTS i1, i2, s1
=============================================================================
