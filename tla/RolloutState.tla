---------------------------- MODULE RolloutState ----------------------------
(***************************************************************************)
(* The OTA ring state machine of src/lib/rollout-state.js: what one        *)
(* RolloutState object does when transition(), promoteRing(), rollback()   *)
(* and liftFreeze() are called on it.  The module has no variables: an     *)
(* object is a record, a method is an operator from record to record.      *)
(*                                                                         *)
(* A rollout is [state, frozenFrom, enteredAt, history]:                   *)
(*   frozenFrom   the ring a FROZEN rollout came from, NoRing for null     *)
(*   enteredAt    ringEnteredAt ?? startedAt, the instant the observation  *)
(*                window of the present state starts                       *)
(*   history      the states entered so far, oldest first (from, at and    *)
(*                reason of an entry are derivable or free text)           *)
(* previousState (never assigned), adoptionLog and the event emission are  *)
(* left out: nothing in the code reads them back.                          *)
(***************************************************************************)
EXTENDS Integers, Sequences

CONSTANTS ObservationWindow,   \* ota.observation_window_ms, in clock ticks
          RollbackWindow       \* ota.rollback_window_ms, in clock ticks

ASSUME WindowAssumption == /\ ObservationWindow \in Nat
                           /\ RollbackWindow \in Nat

NoRing == "NO_RING"

States == {"PENDING", "STAGING", "RING_0", "RING_1", "RING_2", "RING_3",
           "COMPLETE", "ROLLED_BACK", "FROZEN"}

Terminal == {"COMPLETE", "ROLLED_BACK"}

\* The only states ALLOWED_TRANSITIONS lets a rollout freeze from.
Freezable == {"RING_0", "RING_1", "RING_2"}

ALLOWED_TRANSITIONS ==
  [s \in States |->
     CASE s = "PENDING"     -> {"STAGING"}
       [] s = "STAGING"     -> {"RING_0", "RING_1"}
       [] s = "RING_0"      -> {"RING_1", "ROLLED_BACK", "FROZEN"}
       [] s = "RING_1"      -> {"RING_2", "ROLLED_BACK", "FROZEN"}
       [] s = "RING_2"      -> {"RING_3", "ROLLED_BACK", "FROZEN"}
       [] s = "RING_3"      -> {"COMPLETE", "ROLLED_BACK"}
       [] s = "FROZEN"      -> {"RING_0", "RING_1", "RING_2", "RING_3"}
       [] s = "COMPLETE"    -> {}
       [] s = "ROLLED_BACK" -> {"PENDING"}]

\* Mutant: the canary ring is left out, along an edge the table does have.
NextRingStateNoCanary ==
  [s \in States |->
     CASE s = "STAGING" -> "RING_1"
       [] s = "RING_1"  -> "RING_2"
       [] s = "RING_2"  -> "RING_3"
       [] s = "RING_3"  -> "COMPLETE"
       [] OTHER         -> NoRing]

\* _nextRingState(), and _nextTargetState() of the store, which is the same table.
NextRingState ==
  [s \in States |->
     CASE s = "STAGING" -> "RING_0"
       [] s = "RING_0"  -> "RING_1"
       [] s = "RING_1"  -> "RING_2"
       [] s = "RING_2"  -> "RING_3"
       [] s = "RING_3"  -> "COMPLETE"
       [] OTHER         -> NoRing]

RequiredWindow(s) == IF s = "RING_3" THEN RollbackWindow ELSE ObservationWindow

Permitted(r, to) == to \in ALLOWED_TRANSITIONS[r.state]

\* Mutant: this.state is assigned before this.frozenFrom reads it.
TransitionFrozenLast(r, to, now) ==
  IF Permitted(r, to)
  THEN [r EXCEPT !.state      = to,
                 !.frozenFrom = IF to = "FROZEN" THEN to ELSE @,
                 !.enteredAt  = now,
                 !.history    = Append(@, to)]
  ELSE r

\* Mutant: ringEnteredAt is not restarted.
TransitionKeepsClock(r, to, now) ==
  IF Permitted(r, to)
  THEN [r EXCEPT !.state      = to,
                 !.frozenFrom = IF to = "FROZEN" THEN r.state ELSE @,
                 !.history    = Append(@, to)]
  ELSE r

\* transition(): a refused transition changes nothing, and promoteRing() below
\* ignores the refusal.
Transition(r, to, now) ==
  IF Permitted(r, to)
  THEN [r EXCEPT !.state      = to,
                 !.frozenFrom = IF to = "FROZEN" THEN r.state ELSE @,
                 !.enteredAt  = now,
                 !.history    = Append(@, to)]
  ELSE r

-----------------------------------------------------------------------------
(***************************************************************************)
(* What promoteRing() reads of the metrics in a request body: does any of  *)
(* RT1-RT4 fire, does any of FC1-FC5 hold, is the ring health score at     *)
(* least 0.85.  RT2 and RT4 are also FC4 and FC5, but rollback triggers    *)
(* are looked at first, so the three answers are independent.              *)
(***************************************************************************)
Metrics == [rollbackTrigger : BOOLEAN, freezeCondition : BOOLEAN, scoreOk : BOOLEAN]

NotPromotable == {"FROZEN", "COMPLETE", "ROLLED_BACK", "PENDING"}

\* promoteRing(): the outcome it reports, in the order of its early returns.
PromoteOutcome(r, m, externallyFrozen, now) ==
  IF r.state \in NotPromotable                             THEN "refused"
  ELSE IF externallyFrozen                                 THEN "frozen"
  ELSE IF m.rollbackTrigger                                THEN "rollback"
  ELSE IF m.freezeCondition                                THEN "frozen"
  ELSE IF now - r.enteredAt < RequiredWindow(r.state)      THEN "observing"
  ELSE IF ~m.scoreOk                                       THEN "low_score"
  ELSE "promoted"

\* promoteRing(): the object afterwards.  The freeze and the rollback go through
\* transition(), whose refusal leaves the object as it was.
Promote(r, m, externallyFrozen, now) ==
  LET outcome == PromoteOutcome(r, m, externallyFrozen, now)
  IN CASE outcome = "frozen"   -> Transition(r, "FROZEN", now)
       [] outcome = "rollback" -> Transition(r, "ROLLED_BACK", now)
       [] outcome = "promoted" -> Transition(r, NextRingState[r.state], now)
       [] OTHER                -> r

\* Mutant: frozenFrom survives the resume.
LiftFreezeKeepsOrigin(r, now) == Transition(r, r.frozenFrom, now)

\* liftFreeze() on a FROZEN rollout: frozenFrom is cleared before the transition.
LiftFreeze(r, now) ==
  Transition([r EXCEPT !.frozenFrom = NoRing], r.frozenFrom, now)
=============================================================================
