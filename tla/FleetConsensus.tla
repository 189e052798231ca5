--------------------------- MODULE FleetConsensus ---------------------------
(***************************************************************************)
(* Fleet authority: src/lib/fleet-consensus.js on every backend instance,  *)
(* the keys authority_epoch and rollout_frozen of table governance_state,  *)
(* the startup of src/index.js, the heartbeat and the reply of             *)
(* GET /manifest, and the freeze checks POST /ota/promote makes.           *)
(*                                                                         *)
(* Instances start, crash and restart; screens poll any instance and echo  *)
(* the last epoch they were given.  _setFreeze(), _clearFreeze() and       *)
(* unfreezeRollout() write the flag without waiting: such a write is in    *)
(* flight until it is delivered, in any order, or lost.                    *)
(*                                                                         *)
(* Abstracted: which heartbeats are older than STALE_THRESHOLD_MS, whether *)
(* the active screens report more than SPLIT_BRAIN_THRESHOLD manifest      *)
(* hashes, and whether fewer than QUORUM_PCT of them are on the current    *)
(* generation are free choices of every getStatus(); the eviction at       *)
(* MAX_SCREENS, freeze_reason and freeze_epoch are left out.  A heartbeat  *)
(* row is written at once or never.                                        *)
(***************************************************************************)
EXTENDS Integers, FiniteSets

CONSTANTS Instances,            \* backend processes
          Operated,             \* those on which freezeStrong() and unfreezeRollout() are called
          Screens,              \* screen ids
          SPLIT_BRAIN_THRESHOLD,
          FailClosed,           \* is DB_FREEZE_FAILURE_POLICY other than FAIL_OPEN?
          MaxLives,             \* bound: this many process starts
          MaxWrites             \* bound: this many equal flag writes in flight

ASSUME FleetAssumption == /\ Operated \subseteq Instances
                          /\ SPLIT_BRAIN_THRESHOLD \in Nat
                          /\ FailClosed \in BOOLEAN
                          /\ MaxLives \in Nat
                          /\ MaxWrites \in Nat

VARIABLES db,          \* governance_state and screen_heartbeats
          proc,        \* the process of each instance
          heartbeats,  \* heartbeats[i][s]: the epoch s last reported to i, 0 for no record
          screen,      \* the epoch each screen was last given, 0 before the first reply
          inFlight,    \* flag writes sent and not yet delivered
          strong,      \* where freezeStrong() is on each instance
          promotion,   \* where POST /ota/promote is on each instance
          lives,       \* how many processes were ever started
          undisturbed, \* history: the strong freezes begun with no '0' in flight or sent since
          held,        \* history: such a strong freeze was confirmed
          operatorFreeze \* history: a strong freeze was confirmed and never lifted by hand

vars == <<db, proc, heartbeats, screen, inFlight, strong, promotion, lives, undisturbed,
          held, operatorFreeze>>

-----------------------------------------------------------------------------
(* States *)

CONSENSUS_STATES == {"HEALTHY", "DEGRADED", "SPLIT_BRAIN", "AUTHORITY_LOSS", "STALE_SCREEN"}

\* down; listening before the epoch is incremented; the increment sent; started.
ProcStatus == {"down", "serving", "counting", "up"}

\* ticket is the epoch the database answered; knew tells whether initFromDb() found one;
\* heard, whether some screen was given the ticket since, and healthy, whether getStatus()
\* ever returned HEALTHY for the epoch held now, are history.
Process == [status : ProcStatus, epoch : Nat, ticket : Nat, knew : BOOLEAN,
            frozen : BOOLEAN, heard : BOOLEAN, healthy : BOOLEAN]

Down == [status |-> "down", epoch |-> 0, ticket |-> 0, knew |-> FALSE, frozen |-> FALSE,
         heard |-> FALSE, healthy |-> FALSE]

\* epoch 0 stands for an absent authority_epoch.
Database == [epoch : Nat, frozen : {"absent", "0", "1"}, rows : [Screens -> Nat]]

Alive(i) == proc[i].status # "down"

TypeOK == /\ db \in Database
          /\ proc \in [Instances -> Process]
          /\ \A i \in Instances : Alive(i) => proc[i].epoch >= 1
          /\ heartbeats \in [Instances -> [Screens -> Nat]]
          /\ screen \in [Screens -> Nat]
          /\ inFlight \in [{"0", "1"} -> Nat]
          /\ strong \in [Instances -> {"none", "writing", "confirming"}]
          /\ promotion \in [Instances -> {"none", "reading"}]
          /\ lives \in Nat
          /\ undisturbed \in SUBSET Instances
          /\ held \in BOOLEAN
          /\ operatorFreeze \in BOOLEAN

NoRecords == [s \in Screens |-> 0]

Init == /\ \E e \in {0, 1} : db = [epoch |-> e, frozen |-> "absent", rows |-> NoRecords]
        /\ proc = [i \in Instances |-> Down]
        /\ heartbeats = [i \in Instances |-> NoRecords]
        /\ screen = [s \in Screens |-> 0]
        /\ inFlight = [v \in {"0", "1"} |-> 0]
        /\ strong = [i \in Instances |-> "none"]
        /\ promotion = [i \in Instances |-> "none"]
        /\ lives = 0
        /\ undisturbed = {}
        /\ held = FALSE
        /\ operatorFreeze = FALSE

-----------------------------------------------------------------------------
(* Startup of src/index.js: initFromDb(), listen, incrementEpoch() *)

\* Mutant: an absent authority_epoch gets no default.
StartWithoutDefault(i) ==
  /\ ~Alive(i)
  /\ lives < MaxLives
  /\ lives' = lives + 1
  /\ proc' = [proc EXCEPT ![i] =
                [Down EXCEPT !.status = "serving", !.epoch = db.epoch,
                             !.knew = db.epoch # 0, !.frozen = db.frozen = "1"]]
  /\ heartbeats' = [heartbeats EXCEPT ![i] = db.rows]
  /\ UNCHANGED <<db, screen, inFlight, strong, promotion, undisturbed, held,
                 operatorFreeze>>

\* The heartbeat table may be unreadable: the instance then starts without records.
Start(i) ==
  /\ ~Alive(i)
  /\ lives < MaxLives
  /\ lives' = lives + 1
  /\ proc' = [proc EXCEPT ![i] =
                [Down EXCEPT !.status = "serving",
                             !.epoch  = IF db.epoch = 0 THEN 1 ELSE db.epoch,
                             !.knew   = db.epoch # 0,
                             !.frozen = db.frozen = "1"]]
  /\ \E records \in {db.rows, NoRecords} : heartbeats' = [heartbeats EXCEPT ![i] = records]
  /\ UNCHANGED <<db, screen, inFlight, strong, promotion, undisturbed, held,
                 operatorFreeze>>

\* incrementInt(): one atomic increment in the database, answered later.
IncrementSent(i) ==
  /\ proc[i].status = "serving"
  /\ db' = [db EXCEPT !.epoch = @ + 1]
  /\ proc' = [proc EXCEPT ![i].status = "counting", ![i].ticket = db.epoch + 1]
  /\ UNCHANGED <<heartbeats, screen, inFlight, strong, promotion, lives, undisturbed,
                 held, operatorFreeze>>

\* Mutant: the new value is read back by a second query instead of RETURNING.
IncrementDoneReread(i) ==
  /\ proc[i].status = "counting"
  /\ proc' = [proc EXCEPT ![i].status = "up", ![i].epoch = db.epoch,
                         ![i].healthy = FALSE]
  /\ UNCHANGED <<db, heartbeats, screen, inFlight, strong, promotion, lives,
                 undisturbed, held, operatorFreeze>>

IncrementDone(i) ==
  /\ proc[i].status = "counting"
  /\ proc' = [proc EXCEPT ![i].status = "up", ![i].epoch = proc[i].ticket,
                         ![i].healthy = FALSE]
  /\ UNCHANGED <<db, heartbeats, screen, inFlight, strong, promotion, lives,
                 undisturbed, held, operatorFreeze>>

\* A crash, a redeploy, or process.exit(1) when the increment fails.
Crash(i) ==
  /\ Alive(i)
  /\ proc' = [proc EXCEPT ![i] = Down]
  /\ heartbeats' = [heartbeats EXCEPT ![i] = NoRecords]
  /\ strong' = [strong EXCEPT ![i] = "none"]
  /\ promotion' = [promotion EXCEPT ![i] = "none"]
  /\ undisturbed' = undisturbed \ {i}
  /\ UNCHANGED <<db, screen, inFlight, lives, held, operatorFreeze>>

-----------------------------------------------------------------------------
(* GET /manifest *)

\* recordHeartbeat(), if the screen has anything to report, and the reply, which may fail.
\* The reply carries the epoch of the moment it is sent: a reply after a long read of the
\* manifest is a poll without reply followed by this one, as the screen has not changed.
Poll(s, i) ==
  /\ Alive(i)
  /\ IF screen[s] = 0
     THEN UNCHANGED <<heartbeats, db>>
     ELSE /\ heartbeats' = [heartbeats EXCEPT ![i][s] = screen[s]]
          /\ \E written \in BOOLEAN :
               db' = IF written THEN [db EXCEPT !.rows[s] = screen[s]] ELSE db
  /\ \/ UNCHANGED <<screen, proc>>
     \/ /\ screen' = [screen EXCEPT ![s] = proc[i].epoch]
        /\ proc' = [j \in Instances |->
                      [proc[j] EXCEPT !.heard = @ \/ proc[j].ticket = proc[i].epoch]]
  /\ UNCHANGED <<inFlight, strong, promotion, lives, undisturbed, held,
                 operatorFreeze>>

-----------------------------------------------------------------------------
(* getStatus() *)

Recorded(i) == {s \in Screens : heartbeats[i][s] # 0}

\* Mutant: any active screen counts as one on the current epoch.
StatusAnyEpoch(i, stale, split, behind) ==
  LET active == Recorded(i) \ stale
  IN IF Recorded(i) = {} THEN "AUTHORITY_LOSS"
     ELSE IF Cardinality(active) > SPLIT_BRAIN_THRESHOLD /\ split THEN "SPLIT_BRAIN"
     ELSE IF active # {} /\ behind THEN "DEGRADED"
     ELSE IF Recorded(i) \cap stale # {} THEN "STALE_SCREEN"
     ELSE "HEALTHY"

\* The status, in the order of the tests; stale, split and behind are the answers of
\* the clock, of the manifest hashes and of the generation quorum.
Status(i, stale, split, behind) ==
  LET active == Recorded(i) \ stale
      onCurrentEpoch == {s \in active : heartbeats[i][s] = proc[i].epoch}
  IN IF Recorded(i) = {} \/ (active # {} /\ onCurrentEpoch = {}) THEN "AUTHORITY_LOSS"
     ELSE IF Cardinality(active) > SPLIT_BRAIN_THRESHOLD /\ split THEN "SPLIT_BRAIN"
     ELSE IF active # {} /\ behind THEN "DEGRADED"
     ELSE IF Recorded(i) \cap stale # {} THEN "STALE_SCREEN"
     ELSE "HEALTHY"

\* The flag value getStatus() sends off: '0' on every HEALTHY, '1' on a first freeze.
FlagSent(i, status) ==
  CASE status = "HEALTHY" -> {"0"}
    [] status \in {"SPLIT_BRAIN", "AUTHORITY_LOSS"} /\ Recorded(i) # {} /\ ~proc[i].frozen
                          -> {"1"}
    [] OTHER              -> {}

FrozenAfter(i, status) ==
  IF status = "HEALTHY" THEN FALSE ELSE proc[i].frozen \/ FlagSent(i, status) # {}

Send(values) == /\ \A v \in values : inFlight[v] < MaxWrites
                /\ inFlight' = [v \in {"0", "1"} |->
                                  IF v \in values THEN inFlight[v] + 1 ELSE inFlight[v]]

\* A '0' on its way disturbs every strong freeze.
Disturb(values) == IF "0" \in values THEN undisturbed' = {} /\ held' = FALSE
                                     ELSE UNCHANGED <<undisturbed, held>>

GetStatus(i, status) ==
  /\ Send(FlagSent(i, status))
  /\ Disturb(FlagSent(i, status))
  /\ proc' = [proc EXCEPT ![i].frozen = FrozenAfter(i, status),
                         ![i].healthy = @ \/ status = "HEALTHY"]

-----------------------------------------------------------------------------
(* POST /ota/promote, as far as the freeze goes *)

\* What getStatus() may return now.
Statuses(i) == {Status(i, stale, split, behind) :
                  stale \in SUBSET Recorded(i), split \in BOOLEAN, behind \in BOOLEAN}

\* getStatus() and then the policy, which denies a split or lost fleet and a frozen
\* instance; a promotion the policy allows goes on to read the flag.
PromoteBegin(i) ==
  /\ Alive(i)
  /\ promotion[i] = "none"
  /\ \E status \in Statuses(i) :
       LET allowed == status \notin {"SPLIT_BRAIN", "AUTHORITY_LOSS"} /\ ~FrozenAfter(i, status)
       IN /\ GetStatus(i, status)
          /\ promotion' = [promotion EXCEPT ![i] = IF allowed THEN "reading" ELSE "none"]
  /\ UNCHANGED <<db, heartbeats, screen, strong, lives, operatorFreeze>>

\* isRolloutFrozenFromDb(): open unless the flag is there and is not '0'.
isRolloutFrozenFromDb == db.frozen \notin {"absent", "0"}

\* The strong read, then the freezeCheck of the rollout, which is the flag in memory.
PromotePasses(i) ==
  /\ promotion[i] = "reading"
  /\ ~isRolloutFrozenFromDb
  /\ ~proc[i].frozen
  /\ promotion' = [promotion EXCEPT ![i] = "none"]
  /\ UNCHANGED <<db, proc, heartbeats, screen, inFlight, strong, lives, undisturbed, held,
                 operatorFreeze>>

\* A frozen rollout asks for the status once more; a read that fails blocks as well.
PromoteBlocked(i) ==
  /\ promotion[i] = "reading"
  /\ \/ /\ isRolloutFrozenFromDb
        /\ \E status \in Statuses(i) : GetStatus(i, status)
     \/ UNCHANGED <<proc, inFlight, undisturbed, held>>
  /\ promotion' = [promotion EXCEPT ![i] = "none"]
  /\ UNCHANGED <<db, heartbeats, screen, strong, lives, operatorFreeze>>

-----------------------------------------------------------------------------
(* freezeStrong() and unfreezeRollout() *)

StrongBegin(i) ==
  /\ Alive(i)
  /\ strong[i] = "none"
  /\ ~proc[i].frozen
  /\ strong' = [strong EXCEPT ![i] = "writing"]
  /\ undisturbed' = IF inFlight["0"] = 0 THEN undisturbed \cup {i} ELSE undisturbed
  /\ UNCHANGED <<db, proc, heartbeats, screen, inFlight, promotion, lives, held,
                 operatorFreeze>>

\* Mutant: the write is not awaited.
StrongWrittenInBackground(i) ==
  /\ strong[i] = "writing"
  /\ Send({"1"})
  /\ strong' = [strong EXCEPT ![i] = "confirming"]
  /\ UNCHANGED <<db, proc, heartbeats, screen, promotion, lives, undisturbed, held,
                 operatorFreeze>>

\* setTextValue('rollout_frozen', '1') is done; freeze_reason and freeze_epoch follow.
StrongWritten(i) ==
  /\ strong[i] = "writing"
  /\ db' = [db EXCEPT !.frozen = "1"]
  /\ strong' = [strong EXCEPT ![i] = "confirming"]
  /\ UNCHANGED <<proc, heartbeats, screen, inFlight, promotion, lives, undisturbed,
                 held, operatorFreeze>>

\* Only now does the memory follow.
StrongConfirmed(i) ==
  /\ strong[i] = "confirming"
  /\ proc' = [proc EXCEPT ![i].frozen = TRUE]
  /\ strong' = [strong EXCEPT ![i] = "none"]
  /\ undisturbed' = undisturbed \ {i}
  /\ held' = (held \/ i \in undisturbed)
  /\ operatorFreeze' = TRUE
  /\ UNCHANGED <<db, heartbeats, screen, inFlight, promotion, lives>>

\* A query of it failed: DB_FREEZE_FAILURE_POLICY decides about the memory.
StrongFailed(i) ==
  /\ strong[i] # "none"
  /\ proc' = [proc EXCEPT ![i].frozen = @ \/ FailClosed]
  /\ strong' = [strong EXCEPT ![i] = "none"]
  /\ undisturbed' = undisturbed \ {i}
  /\ UNCHANGED <<db, heartbeats, screen, inFlight, promotion, lives, held,
                 operatorFreeze>>

Unfreeze(i) ==
  /\ Alive(i)
  /\ Send({"0"})
  /\ Disturb({"0"})
  /\ proc' = [proc EXCEPT ![i].frozen = FALSE]
  /\ operatorFreeze' = FALSE
  /\ UNCHANGED <<db, heartbeats, screen, strong, promotion, lives>>

-----------------------------------------------------------------------------
(* The connection pool *)

FlagDelivered(v) ==
  /\ inFlight[v] > 0
  /\ inFlight' = [inFlight EXCEPT ![v] = @ - 1]
  /\ db' = [db EXCEPT !.frozen = v]
  /\ UNCHANGED <<proc, heartbeats, screen, strong, promotion, lives, undisturbed, held,
                 operatorFreeze>>

FlagLost(v) ==
  /\ inFlight[v] > 0
  /\ inFlight' = [inFlight EXCEPT ![v] = @ - 1]
  /\ UNCHANGED <<db, proc, heartbeats, screen, strong, promotion, lives, undisturbed,
                 held, operatorFreeze>>

Next ==
  \/ \E i \in Instances :
       \/ Start(i) \/ IncrementSent(i) \/ IncrementDone(i) \/ Crash(i)
       \/ PromoteBegin(i) \/ PromotePasses(i) \/ PromoteBlocked(i)
  \/ \E i \in Operated :
       \/ StrongBegin(i) \/ StrongWritten(i) \/ StrongConfirmed(i) \/ StrongFailed(i)
       \/ Unfreeze(i)
  \/ \E s \in Screens, i \in Instances : Poll(s, i)
  \/ \E v \in {"0", "1"} : FlagDelivered(v) \/ FlagLost(v)

Spec == Init /\ [][Next]_vars

-----------------------------------------------------------------------------
(* Properties *)

\* Two running processes that have finished their start never hold the same epoch, so an
\* echoed epoch names the start that issued it (incrementEpoch(), law A1).
EpochsUnique ==
  \A i, j \in Instances :
    /\ proc[i].status = "up"
    /\ proc[j].status = "up"
    /\ proc[i].epoch = proc[j].epoch
    => i = j

\* A process that has finished its start judges the fleet HEALTHY only if some screen was
\* given its new epoch since: no heartbeat restored from the database, and no reply of an
\* earlier start, hides a restart (AUTHORITY_LOSS, fleet-consensus.js:9).  The very first
\* epoch of a database is excepted, since 1 is also what is served before it is issued.
HealthyMeansAnswered ==
  \A i \in Instances :
    proc[i].status = "up" /\ proc[i].knew /\ proc[i].healthy => proc[i].heard

\* A strong freeze that began with no '0' in flight, and after which none was sent, is in
\* the database, whatever crashes and late '1's there are.
StrongFreezeDurable == held => db.frozen = "1"

\* No process serves an epoch the database has not issued, once there is one to read.
EpochsComeFromDb ==
  \A i \in Instances : Alive(i) /\ proc[i].knew => proc[i].epoch =< db.epoch

\* A held strong freeze blocks every promotion on every instance, and is held until a '0' is
\* sent: by a HEALTHY evaluation somewhere, or by unfreezeRollout().
HeldFreezeBlocks ==
  [][held => /\ ~\E i \in Instances : PromotePasses(i)
             /\ held' \/ inFlight'["0"] > inFlight["0"]]_vars

\* fleet-consensus.js:460 "requires explicit call", GOVERNANCE_INVARIANTS.md F4: while a
\* confirmed strong freeze was not lifted by unfreezeRollout(), no promotion passes the
\* freeze checks.
PromotionRespectsFreeze == [][\A i \in Instances : PromotePasses(i) => ~operatorFreeze]_vars
=============================================================================
