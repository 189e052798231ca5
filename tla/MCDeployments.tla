--------------------------- MODULE MCDeployments ---------------------------
EXTENDS Deployments, TLC

CONSTANTS g1, g2, g3, v1, v2

\* g1 went through every stage with v1; then v2 was published to it, and v1 to g2 and g3.
MCHistory == [i \in 1..9 |->
  [group |-> IF i =< 7 THEN g1 ELSE IF i = 8 THEN g2 ELSE g3,
   version |-> IF i = 7 THEN v2 ELSE v1,
   stage |-> IF i =< 6 THEN i - 1 ELSE Shadow,
   at |-> i,
   by |-> IF i \in 2..6 THEN "advance" ELSE "publish"]]

Symmetry == Permutations({g2, g3}) \cup Permutations(Requests)

=============================================================================
