--------------------------- MODULE MCSocialWorker ---------------------------
(* Three jobs, of which a run selects two: the first two are of one venue,   *)
(* and can hold both places up when it is not provisioned; the third is of   *)
(* another.                                                                  *)
EXTENDS SocialWorker

CONSTANTS i1, t1, t2

VenueOf == [j \in Jobs |-> IF j < 3 THEN t1 ELSE t2]
=============================================================================
