-------------------------- MODULE RolloutLifecycle --------------------------
(***************************************************************************)
(* What the OTA rollout component promises, whatever the number of backend *)
(* instances and requests behind it (OTA_GOVERNANCE.md section 2): updates *)
(* live one at a time, each walks the ring state machine one legal step at *)
(* a time, and a frozen update resumes in the ring it was frozen in.       *)
(* RolloutStore is shown to implement this specification.                  *)
(***************************************************************************)
EXTENDS RolloutState

CONSTANTS Updates        \* update ids

VARIABLES phase,         \* phase[u]: the state of update u, "ABSENT" before it exists
          frozenIn       \* frozenIn[u]: the ring a FROZEN u came from

lifecycleVars == <<phase, frozenIn>>

Init == /\ phase = [u \in Updates |-> "ABSENT"]
        /\ frozenIn = [u \in Updates |-> NoRing]

IsLive(u) == phase[u] \notin Terminal \cup {"ABSENT"}

\* An update is registered while no other one is in flight.
Register(u) ==
  /\ phase[u] = "ABSENT"
  /\ \A v \in Updates : ~IsLive(v)
  /\ phase' = [phase EXCEPT ![u] = "PENDING"]
  /\ UNCHANGED frozenIn

\* A live update takes one step of the ring state machine; leaving FROZEN is a
\* return to the ring it was frozen in.
Step(u, to) ==
  /\ IsLive(u)
  /\ to \in ALLOWED_TRANSITIONS[phase[u]]
  /\ phase[u] = "FROZEN" => to = frozenIn[u]
  /\ phase' = [phase EXCEPT ![u] = to]
  /\ frozenIn' = [frozenIn EXCEPT ![u] = IF to = "FROZEN" THEN phase[u] ELSE NoRing]

Next == \E u \in Updates : Register(u) \/ \E to \in States : Step(u, to)

Spec == Init /\ [][Next]_lifecycleVars
=============================================================================
