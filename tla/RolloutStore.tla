---------------------------- MODULE RolloutStore ----------------------------
(***************************************************************************)
(* The durable OTA rollout: table rollout_state, the RolloutStore methods  *)
(* of src/lib/rollout-store.js and the handlers of src/routes/ota.js that  *)
(* call them, executed by several requests at once on any number of        *)
(* backend instances.                                                      *)
(*                                                                         *)
(* A request holds a private copy of the row between its SELECT and its    *)
(* UPDATE ... WHERE version = $8; a step of the model is what runs between *)
(* two awaits.  A request may fail or its process may die at any await.    *)
(*                                                                         *)
(* Left free, because other components decide them: the flag rollout_frozen*)
(* in governance_state (FleetConsensus), an instance's in-memory copy of   *)
(* it, the drift registry on disk, the answer of the promotion policy and  *)
(* the metrics of the request body.                                        *)
(***************************************************************************)
EXTENDS RolloutState, FiniteSets

CONSTANTS Updates,           \* update ids
          Requests,          \* request slots: that many handlers run at once
          NoUpdate,          \* "no update", not a member of Updates
          StagingCaller,     \* does a caller outside src/ ever call transition('STAGING')?
          MaxVersion,        \* bound: update u is loaded for change below version MaxVersion[u]
          MaxTime            \* bound: the clock stops here

ASSUME StoreAssumption == /\ NoUpdate \notin Updates
                          /\ StagingCaller \in BOOLEAN
                          /\ MaxVersion \in [Updates -> Nat]
                          /\ MaxTime \in Nat

VARIABLES rows,          \* table rollout_state, by update_id
          fleetFrozen,   \* governance_state.rollout_frozen is present and not '0'
          reqs,          \* the requests in progress
          openSeen,      \* history: was the fleet flag open at some instant of the request?
          now            \* wall clock

vars == <<rows, fleetFrozen, reqs, openSeen, now>>

-----------------------------------------------------------------------------
(* Rows and requests *)

NoRow == [state |-> "ABSENT", frozenFrom |-> NoRing, enteredAt |-> 0,
          history |-> <<>>, version |-> 0]

Row == [state      : States \cup {"ABSENT"},
        frozenFrom : Freezable \cup {NoRing},
        enteredAt  : Nat,
        history    : Seq(States),
        version    : Nat]

\* idle; about to INSERT the rollout; about to read the freeze flag; about to UPDATE
\* the row.
Stages == {"idle", "insert", "decide", "persist"}

\* What a promotion is told; "none" is every other answer.  Once the request is over
\* only a refusal is remembered.
Replies == {"none", "promoted", "refused"}

Request == [stage : Stages, update : Updates \cup {NoUpdate}, copy : Row,
            reply : Replies]

Idle == [stage |-> "idle", update |-> NoUpdate, copy |-> NoRow, reply |-> "none"]

TypeOK == /\ rows \in [Updates -> Row]
          /\ fleetFrozen \in BOOLEAN
          /\ reqs \in [Requests -> Request]
          /\ openSeen \in [Requests -> BOOLEAN]
          /\ now \in Nat

Active(u) == rows[u].state \notin Terminal \cup {"ABSENT"}

NoneActive == \A u \in Updates : ~Active(u)

Init == /\ rows = [u \in Updates |-> NoRow]
        /\ fleetFrozen = FALSE
        /\ reqs = [q \in Requests |-> Idle]
        /\ openSeen = [q \in Requests |-> FALSE]
        /\ now = 0

\* Slot q starts a request whose first await leaves it at the given stage.
Begin(q, stage, u, copy) ==
  /\ reqs[q].stage = "idle"
  /\ reqs' = [reqs EXCEPT ![q] = [stage |-> stage, update |-> u, copy |-> copy,
                                  reply |-> "none"]]
  /\ openSeen' = [openSeen EXCEPT ![q] = ~fleetFrozen]

Finish(q) == /\ reqs' = [reqs EXCEPT ![q] = Idle]
             /\ openSeen' = [openSeen EXCEPT ![q] = FALSE]

-----------------------------------------------------------------------------
(* POST /ota/upload: RolloutStore.create().  The package row is inserted after it; no *)
(* method of the store reads that table.                                             *)

\* create() finds no active rollout (if it finds one it throws: 409).
UploadCheck(q, u) ==
  /\ NoneActive
  /\ Begin(q, "insert", u, NoRow)
  /\ UNCHANGED <<rows, fleetFrozen, now>>

\* Mutant: no partial unique index; the check of create() is the only one.
UploadInsertUnindexed(q) ==
  LET u == reqs[q].update
  IN /\ reqs[q].stage = "insert"
     /\ IF rows[u].state = "ABSENT"
        THEN rows' = [rows EXCEPT ![u] = [NoRow EXCEPT !.state = "PENDING",
                                                       !.enteredAt = now,
                                                       !.version = 1]]
        ELSE UNCHANGED rows
     /\ Finish(q)
     /\ UNCHANGED <<fleetFrozen, now>>

\* INSERT INTO rollout_state, under idx_one_active_rollout and UNIQUE (update_id).
UploadInsert(q) ==
  LET u == reqs[q].update
  IN /\ reqs[q].stage = "insert"
     /\ IF NoneActive /\ rows[u].state = "ABSENT"
        THEN rows' = [rows EXCEPT ![u] = [NoRow EXCEPT !.state = "PENDING",
                                                       !.enteredAt = now,
                                                       !.version = 1]]
        ELSE UNCHANGED rows
     /\ Finish(q)
     /\ UNCHANGED <<fleetFrozen, now>>

-----------------------------------------------------------------------------
(***************************************************************************)
(* Handlers that load the active row, change the copy in memory and then   *)
(* persist it.  loadActive() and the synchronous change are one step: the  *)
(* process does nothing else in between.  A refused change answers 400 and *)
(* persists nothing, so it is no step at all.                              *)
(***************************************************************************)
Loadable(u) == Active(u) /\ rows[u].version < MaxVersion[u]

LoadAndChange(q, u, changed) ==
  /\ Begin(q, "persist", u, changed)
  /\ UNCHANGED <<rows, fleetFrozen, now>>

\* POST /ota/rollback
Rollback(q, u) ==
  /\ Loadable(u)
  /\ Permitted(rows[u], "ROLLED_BACK")
  /\ LoadAndChange(q, u, Transition(rows[u], "ROLLED_BACK", now))

\* POST /ota/freeze
Freeze(q, u) ==
  /\ Loadable(u)
  /\ Permitted(rows[u], "FROZEN")
  /\ LoadAndChange(q, u, Transition(rows[u], "FROZEN", now))

\* POST /ota/unfreeze
Unfreeze(q, u) ==
  /\ Loadable(u)
  /\ rows[u].state = "FROZEN"
  /\ Permitted(rows[u], rows[u].frozenFrom)
  /\ LoadAndChange(q, u, LiftFreeze(rows[u], now))

\* store.transition('STAGING'), the use src/lib/rollout-state.js documents.  No
\* handler of src/ makes this call.
Stage(q, u) ==
  /\ StagingCaller
  /\ Loadable(u)
  /\ Permitted(rows[u], "STAGING")
  /\ LoadAndChange(q, u, Transition(rows[u], "STAGING", now))

-----------------------------------------------------------------------------
(* POST /ota/promote *)

\* loadActive(), then evaluatePromotion() allows the promotion (a denial answers
\* 403 and changes nothing); the next await is the read of the freeze flag.
PromoteLoad(q, u) ==
  /\ Loadable(u)
  /\ Begin(q, "decide", u, rows[u])
  /\ UNCHANGED <<rows, fleetFrozen, now>>

\* Mutant: isRolloutFrozen(), the in-memory flag of an instance nobody told.
isRolloutFrozen == FALSE

\* The strong read of the flag, never the copy of the instance.
isRolloutFrozenFromDb == fleetFrozen

DRIFT_GATED_PROMOTIONS == {"RING_1", "RING_2", "RING_3", "COMPLETE"}

\* promoteRing() of the store after its read of the freeze flag: it stops when
\* frozen or when an unwaived SEVERE drift gates the next ring; otherwise it asks
\* the state machine, and persists a promotion, or any outcome once the rollout
\* has a history.
PromoteDecide(q) ==
  LET c == reqs[q].copy
  IN /\ reqs[q].stage = "decide"
     /\ \E m \in Metrics, externallyFrozen, severeDrift \in BOOLEAN :
          LET outcome == PromoteOutcome(c, m, externallyFrozen, now)
              changed == Promote(c, m, externallyFrozen, now)
              gated   == \/ isRolloutFrozenFromDb
                         \/ severeDrift /\ NextRingState[c.state] \in DRIFT_GATED_PROMOTIONS
              reply   == IF outcome \in Replies THEN outcome ELSE "none"
          IN IF ~gated /\ (outcome = "promoted" \/ changed.history # <<>>)
             THEN /\ reqs' = [reqs EXCEPT ![q].stage = "persist", ![q].copy = changed,
                                          ![q].reply = reply]
                  /\ UNCHANGED openSeen
             ELSE /\ reqs' = [reqs EXCEPT ![q] = [Idle EXCEPT !.reply =
                                 IF ~gated /\ outcome = "refused" THEN "refused" ELSE "none"]]
                  /\ openSeen' = [openSeen EXCEPT ![q] = FALSE]
     /\ UNCHANGED <<rows, fleetFrozen, now>>

-----------------------------------------------------------------------------
(* _persist(): optimistic concurrency on the version column *)

\* Mutant: UPDATE ... WHERE id = $7.
PersistAnyVersion(q) ==
  LET u == reqs[q].update
      c == reqs[q].copy
  IN /\ reqs[q].stage = "persist"
     /\ rows' = [rows EXCEPT ![u] = [c EXCEPT !.version = @ + 1]]
     /\ Finish(q)
     /\ UNCHANGED <<fleetFrozen, now>>

\* UPDATE ... WHERE id = $7 AND version = $8 found the row.
PersistWins(q) ==
  LET u == reqs[q].update
      c == reqs[q].copy
  IN /\ reqs[q].stage = "persist"
     /\ rows[u].version = c.version
     /\ rows' = [rows EXCEPT ![u] = [c EXCEPT !.version = @ + 1]]
     /\ Finish(q)
     /\ UNCHANGED <<fleetFrozen, now>>

\* It did not: OptimisticConcurrencyError, 500.
PersistLoses(q) ==
  /\ reqs[q].stage = "persist"
  /\ rows[reqs[q].update].version # reqs[q].copy.version
  /\ Finish(q)
  /\ UNCHANGED <<rows, fleetFrozen, now>>

\* A query of the request throws, or its process dies; what it has not sent is lost.
Abort(q) ==
  /\ reqs[q].stage # "idle"
  /\ Finish(q)
  /\ UNCHANGED <<rows, fleetFrozen, now>>

-----------------------------------------------------------------------------
(* Environment *)

\* Some instance's fleet-consensus writes rollout_frozen.
FleetFlagWrite ==
  /\ fleetFrozen' = ~fleetFrozen
  /\ openSeen' = [q \in Requests |-> reqs[q].stage # "idle" /\ (openSeen[q] \/ fleetFrozen)]
  /\ UNCHANGED <<rows, reqs, now>>

Tick ==
  /\ now < MaxTime
  /\ now' = now + 1
  /\ UNCHANGED <<rows, fleetFrozen, reqs, openSeen>>

Next ==
  \/ \E q \in Requests, u \in Updates :
       \/ UploadCheck(q, u) \/ Rollback(q, u) \/ Freeze(q, u) \/ Unfreeze(q, u)
       \/ Stage(q, u) \/ PromoteLoad(q, u)
  \/ \E q \in Requests :
       \/ UploadInsert(q) \/ PromoteDecide(q)
       \/ PersistWins(q) \/ PersistLoses(q) \/ Abort(q)
  \/ FleetFlagWrite
  \/ Tick

Spec == Init /\ [][Next]_vars

-----------------------------------------------------------------------------
(* What the rollout promises *)

\* At most one rollout is in flight, however the SELECT of one upload and the INSERT
\* of another interleave (create(), idx_one_active_rollout of migrate_003.sql).
AtMostOneActive == \A u, v \in Updates : Active(u) /\ Active(v) => u = v

\* The durable history of a rollout is never rewritten: a commit appends one entry,
\* naming the state it moves to, or leaves history and state alone.  A promotion, freeze
\* or rollback computed from an old copy of the row never erases a newer one.
HistoryNeverRewritten ==
  [][\A u \in Updates :
       rows[u].state # "ABSENT" =>
         \/ /\ rows[u]'.history = rows[u].history
            /\ rows[u]'.state = rows[u].state
         \/ rows[u]'.history = Append(rows[u].history, rows[u]'.state)]_vars

RingBefore == [s \in {"RING_1", "RING_2", "RING_3", "COMPLETE"} |->
                 CASE s = "RING_1" -> "RING_0" [] s = "RING_2" -> "RING_1"
                   [] s = "RING_3" -> "RING_2" [] s = "COMPLETE" -> "RING_3"]

\* No ring is skipped: the fleet gets an update only after the canary ring and every
\* ring in between, although ALLOWED_TRANSITIONS has the edge STAGING -> RING_1 and
\* leaves FROZEN for any ring.
NoRingSkipped ==
  \A u \in Updates :
    \A i \in DOMAIN rows[u].history :
      rows[u].history[i] \in DOMAIN RingBefore =>
        \E j \in 1..i - 1 : rows[u].history[j] = RingBefore[rows[u].history[i]]

\* OTA_GOVERNANCE.md 2.1: no promotion during the observation window of a ring, the
\* window starting again when a freeze is lifted and RING_3 having the longer one.
WindowBetweenRings ==
  [][\A u \in Updates :
       /\ rows[u].state \in States
       /\ rows[u]'.state = NextRingState[rows[u].state]
       => rows[u]'.enteredAt - rows[u].enteredAt >= RequiredWindow(rows[u].state)]_vars

\* A promotion that starts after a fleet freeze was written, on whatever instance,
\* never commits, even where the in-memory copy of the flag still says open.
FreezeBlocksPromotion ==
  [][\A q \in Requests :
       /\ reqs[q].stage = "persist"
       /\ reqs[q].reply = "promoted"
       /\ rows' # rows
       /\ reqs[q]' # reqs[q]
       => openSeen[q]]_vars

\* However many instances and requests work on it, the table behaves as
\* RolloutLifecycle: every commit is one legal step of the live update.
Lifecycle == INSTANCE RolloutLifecycle
               WITH phase    <- [u \in Updates |-> rows[u].state],
                    frozenIn <- [u \in Updates |-> rows[u].frozenFrom]

ImplementsLifecycle == Lifecycle!Spec
=============================================================================
