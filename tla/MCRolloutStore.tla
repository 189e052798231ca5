--------------------------- MODULE MCRolloutStore ---------------------------
(* Two updates and two request slots for TLC.  The first update may be taken  *)
(* all the way to COMPLETE, with one commit to spare; the second one is there *)
(* to compete with it.                                                        *)
EXTENDS RolloutStore, TLC

CONSTANTS u1, u2, q1, q2

MCUpdates == {u1, u2}
MCMaxVersion == [u \in MCUpdates |-> IF u = u1 THEN 7 ELSE 2]

MCSymmetry == Permutations({q1, q2})
=============================================================================
