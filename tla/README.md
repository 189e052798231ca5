# Formal model of the ClubHub backend

The ClubHub backend decides what the screens of a venue show and which player software they run. It is a
Node.js server (`src/src`), run as one or several instances that share a PostgreSQL database; the screens
poll it over HTTP. This directory models the parts of it where the state of several processes and of the
database has to stay consistent: the OTA rollout, the authority of the fleet, the manifest of a screen, the
ledger of operator actions, the remote commands between the CMS API and the player on the device, what the
player keeps on its card, the canary deployments of the CMS API and the posts to social media.

Each model is TLA+ translated from the code; `PROJECT.json` (`map`) names the lines every definition stands
for. TLC checks small instances, TLAPS proves the theorems for every value of the constants.

    tlc -workers 2 -config MCRolloutStore.cfg MCRolloutStore     # likewise the other MC modules
    tlapm RolloutStoreProofs.tla                                 # likewise the other *Proofs modules

Contents: 1 the system, 2 the modules, 3 the runs, 4 the fairness, 5 the proofs, 6 what the checks
disagree with, 7 what is not modelled, 8 the order of the work.

---

## 1. The system

### 1.1 What runs

| process | code | concurrency |
|---|---|---|
| backend instance | `src/src/index.js` and below | one event loop; every `await` lets other requests run; several instances may share the database; background writes (`.catch(() => {})`) are not awaited |
| PostgreSQL | migrations in `src/migrations`, pool in `src/src/db.js` (20 connections, 5 s to get one) | READ COMMITTED transactions, row locks, advisory locks, unique indexes |
| screen | `src/player` | polls `GET /manifest/:screenId`, echoes the epoch, the manifest version and the generation it has |
| operator | HTTP | promotes, freezes, rolls back, edits content and schedules |
| player | `src/player-runtime` | one event loop on the device; two pollers of the corpus, downloads in the background, files on a card that may lose power |
| satellite services | `src/services/*` | one HTTP server each; `cms-api` keeps deployments and remote commands |

What crosses a process boundary is small: rows of shared tables, epochs and generations that screens echo,
and the freeze flag. What makes the system hard is that most of that state is kept twice, in the memory of
an instance and in the database, that the copies are brought together with different strength (awaited, in
the background, once at start-up), and that instances start, die and race.

### 1.2 The components

For each: its state; its operations; who it works with; what is hard; what makes it correct.

**Rollout state machine and store** (`lib/rollout-state.js`, `lib/rollout-store.js`). State: the table
`rollout_state` (state, frozen_from, ring_entered_at, history, version); one `RolloutState` object per
request. Operations: create, loadActive, transition, promoteRing, rollback, freeze, liftFreeze; every
change is computed on a copy and written with `UPDATE ... WHERE version = n`. Works with: the OTA routes,
the freeze flag of the fleet, the policy engine, the drift registry. Hard: two operators change copies of one
row; two uploads race; the freeze flag is also cached in memory. Correct: one rollout in flight, no commit
lost, no ring skipped, the observation window kept, no promotion after a freeze, every commit a legal step.

**Fleet consensus** (`lib/fleet-consensus.js`, `lib/governance-db.js`). State: in memory the epoch, the
manifest generation, the heartbeat of every screen and a freeze flag; in the database `authority_epoch`,
`manifest_generation`, `rollout_frozen` and `screen_heartbeats`. Operations: initFromDb, incrementEpoch,
recordHeartbeat, getStatus (which freezes and unfreezes as a side effect), freezeStrong, unfreezeRollout.
Works with: start-up, the manifest route, the OTA routes, the policy engine. Hard: restarts with restored
heartbeats, flag writes sent in the background, several instances with memories of their own. Correct:
epochs unique and issued by the database, a restart is never hidden, a strong freeze is durable and holds.

**Manifest engine and cache** (`lib/manifestEngine.js`, `routes/manifest.js`). State: one row of
`manifest_cache` per screen, `manifest_generation`. Operations: getManifest, computeManifest (reads outside
of the transaction, `FOR UPDATE`, a second connection for the generation, upsert), and the cache busts of the
content and schedule routes. Hard: the first computation has no row to lock; edits between read and write;
holders of the row lock wait for a connection while waiters for the lock hold all of them. Correct: the
version a transaction decided is not overtaken, every change has its generation, busts work, polls are
answered, the screen converges.

**Operator ledger** (`lib/operator-ledger.js`). State: the hash chain in memory, a counter for action ids,
the table `operator_ledger_entries`. Operations: initFromDb, appendEntry (insert in the background),
appendEntryLinearized (advisory lock, authoritative last row, insert, commit), verifyIntegrity, compaction.
Hard: two instances number entries independently; background inserts arrive late, out of order or never; an
unanswered commit. Correct: linearized entries never fork, answered entries are there, the lock is always
released.

**Incident orchestrator** (`lib/incident-orchestrator.js`). State: a map of incidents per instance, table
`incidents` with a version. Operations: createIncident, transition (background upsert), transitionStrong
(advisory lock and a version check), resolveIncident, archiveResolvedIncidents. The server's start-up calls
`initFromDb?.()` on the module, which exports only the class, so nothing is loaded, and no code of
the server makes an instance. Hard: the background upsert writes the whole incident and
leaves the version alone, so the version check of the strong path cannot see it. Correct: only legal
transitions; no transition that was committed is undone.

**Distributed authority** (`lib/distributed-authority.js`). State: a lease row with holder, epoch and expiry.
Operations: acquire, renew, release. Hard: expiry against the clocks of the instances. Correct: one holder
at a time, epochs grow with every change of holder. No code of `src/src` uses the class yet.

**Governed configuration** (`lib/governed-config.js`). State: values and a version in memory and in a table.
Operations: update, rollback. Hard: each instance counts versions itself. Correct: a version names one value.

**Operator sessions and overrides** (`lib/operator-sessions.js`, `lib/operator-overrides.js`,
`middleware/operatorAuth.js`). State: sessions and revocations, cached per instance. Hard: a revocation one
instance has not heard of. Correct: a revoked session is not accepted; an override ends when it expires.

**Screen enrolment** (`routes/screens.js`, `middleware/screenAuth.js`). State: one-time tokens, screen
session tokens. Hard: a token is checked and consumed in two statements. Correct: one token enrols one screen.

**Autonomous rollout, policy engine** (`lib/autonomous-rollout.js`, `lib/policy-engine.js`). No state: functions of
the metrics in the request and of the fleet's status, called once by `POST /ota/promote`. Hard: a decision taken
from a status that has changed since. Correct: what they allow, the store still checks for itself.

**Social worker** (`lib/social-worker.js`, `lib/cognito-bridge.js`). State: tables `social_jobs` and
`cognito_mappings`; the rows each run holds. Operations: POST /content enqueues jobs; a timer selects the ten oldest
pending ones and posts them one by one; POST /tenants provisions a venue without waiting. No retries. Hard: the timer
does not wait for the run before, nothing claims a row, the outcome is recorded after the post. Correct: a job is
posted once and concluded.

**Lineage, events, forensics, clock** (`lib/event-lineage.js`, `lib/events.js`, ...). Bounded reports in memory;
nothing is decided from them.

**Remote commands** (`services/cms-api/src/routes/remote-commands.ts`, `player-runtime/src/remote-command-poller.ts`).
State: table `remote_commands`; on the device an append-only history file, of which only the last line of each
command counts. Operations: POST (check, then insert), GET of the oldest pending command, PATCH of its status
(check, then update); the player polls, reads its history, writes a line before and after it executes, and
reports without minding the answer. Hard: crashes between two lines, lines cut short, histories that cannot be
read, reports that are late, lost or refused. Correct: attempts are bounded, a concluded command is not executed
again, what the table has as COMPLETED is COMPLETED on the device, every offer is concluded.

**Player runtime, content** (`player-runtime/src`: `orchestrator.ts`, `corpus-cache.ts`,
`asset-download-manager.ts`, `asset-manager.ts`, `asset-verifier.ts`, `poll-scheduler.ts`). State: three snapshot
files, the media files and their temporary files, the registry of playable assets, the corpus in memory and the state
shown. Operations: poll the corpus, apply it (write, rename, rename), download what is missing, roll back, derive the
state, boot. Hard: two pollers; passes that outlive their corpus; a kill or a power cut between any two file
operations; a rollback that changes the corpus and not the assets. Correct: the corpus promoted last is the one loaded, what
may be played is whole, no asset is forgotten, the player ends at the server's corpus with its assets. Not so: HEALTHY
means complete (section 6), and the assets after a rollback.

**Canary deployments** (`services/cms-api/src/routes/deployment-approval.ts`, `corpus-rollback.ts`). State: the
append-only table `corpus_deployments`, of which the newest row of a group counts; the active freeze. Operations:
advance (five queries, then the INSERT), abort, rollback. Hard: every check is a query of its own, and `deployed_at`
is the time the transaction began. Correct: no stage skipped, no more canaries and rollbacks than allowed, no advance
in a freeze, each request as good as atomic.

**CMS API, the rest, and other services** (`src/services/*`). Maintenance mode, re-enrolment, heartbeats, approvals of
assets; the replay log of replay-service is append-only. Single statements, or state no other route reads.

**PRE substrate, governance kernel, plugins, interfaces, simulators, tooling**. Evaluation libraries, copies
and facades of the modules above, user interfaces and tests; see 7.

### 1.3 How they interact

    operator --POST /ota/*--> rollout store --UPDATE ... version--> rollout_state
                                  |  strong read                       
                                  v                                    
                      governance_state.rollout_frozen <--background or awaited-- fleet consensus
                                                                          ^ heartbeats, status
    screen --GET /manifest--> manifest route --recordHeartbeat------------+
                                  |
                                  v
                      manifest engine --FOR UPDATE / upsert--> manifest_cache <--DELETE-- content, schedules
                                  |  second connection
                                  v
                      governance_state.manifest_generation

    operator --POST--> remote_commands <--GET, PATCH-- remote-command poller --append--> history file

    operator --advance, abort, rollback--> corpus_deployments   (which the corpus route does not read)
    corpus route <--poll-- orchestrator --apply--> snapshots on the card; --sync--> asset downloads --> registry
    POST /content --> social_jobs <--SELECT, UPDATE-- social worker --post--> posting service

    any governed operation --appendEntry / appendEntryLinearized--> operator_ledger_entries

The freeze flag is where the two largest components meet. `RolloutStore` leaves it free (any instance may
write it at any time), so what is shown of the store holds whatever the fleet does; `FleetConsensus` models
who writes it and reduces the promotion to its two freeze checks.

---

## 2. The modules

| module | models | kind |
|---|---|---|
| `RolloutState` | the ring state machine: transition, promoteRing, liftFreeze | operators, no variables |
| `RolloutStore` | the rollout table under concurrent requests, and the OTA routes that use it | state machine |
| `RolloutLifecycle` | what a rollout promises: one live update moves along the legal edges | abstract specification |
| `RolloutStoreProofs` | theorems of `RolloutStore` | proofs |
| `FleetConsensus` | epochs, heartbeats, status and freezes of several instances and screens | state machine |
| `FleetConsensusProofs` | theorems of `FleetConsensus` | proofs |
| `ManifestCache` | one screen's manifest: cache row, lock, pool, generation, edits | state machine |
| `ManifestCacheProofs` | theorems of `ManifestCache` | proofs |
| `OperatorLedger` | both ways to append, by several instances | state machine |
| `AtomicLedger` | what the table of the ledger promises: each append adds its row in one step | abstract specification |
| `OperatorLedgerProofs` | theorems of `OperatorLedger` | proofs |
| `RemoteCommands` | the commands of one screen: routes, status requests, poller, history file | state machine |
| `RemoteCommandsProofs` | theorems of `RemoteCommands` | proofs |
| `Corpora` | what a corpus is to a player: a set of assets | constants |
| `CorpusCache` | the snapshot files of a player and the steps of `apply()` | operators and actions over its variables |
| `AssetDownloads` | media files, temporary files, download passes, the registry | operators and actions over its variables |
| `PlayerRuntime` | a player: composes the two with the pollers, the state shown, commands and restarts | state machine |
| `PlayerRuntimeProofs` | theorems of `PlayerRuntime` | proofs |
| `Deployments` | canary deployments: advance, abort, rollback of several groups by overlapping requests | state machine |
| `DeploymentsProofs` | theorems of `Deployments` | proofs |
| `SocialWorker` | jobs, venues, overlapping runs of several instances | state machine |
| `SocialWorkerProofs` | theorems of `SocialWorker` | proofs |
| `MC...` | the constants for TLC | instances |

All state machines follow one convention: *a step is what an instance does between two awaits*. A handler
with n awaits is n actions and a phase; what it holds in local variables over an await is part of its record.

### 2.1 RolloutState, RolloutStore, RolloutLifecycle

| TLA+ | code |
|---|---|
| `rows[u]` | the row of `rollout_state`; `ABSENT` before the INSERT |
| `reqs[q]` | a request in progress with its private copy of the row |
| `fleetFrozen` | `governance_state.rollout_frozen`, written by `FleetFlagWrite` (any instance) |
| `openSeen[q]` | history: the flag was open at some instant of the request |
| `now` | the clock the observation windows are measured with |

`UploadCheck`/`UploadInsert` are the two queries of `create()`; `Rollback`, `Freeze`, `Unfreeze`, `Stage`
load the row and change the copy; `PromoteLoad`/`PromoteDecide` are `promoteRing()` around its strong read of
the flag; `PersistWins`/`PersistLoses` are the two outcomes of `UPDATE ... WHERE version`; `Abort` is a
query that throws or a process that dies, at any await. Requests stand for handlers on any instance: an
instance keeps no rollout state of its own between requests.

Free choices: the metrics of the request body (three independent answers), the in-memory freeze flag, the
drift registry and the promotion policy. `Stage` models a caller of `transition('STAGING')`: the doc comment
of `rollout-state.js` shows the call, no handler makes it, so the constant `StagingCaller` says whether one
exists. With FALSE (the routes of `src/` alone) no rollout ever leaves PENDING: theorem
`RoutesNeverLeavePending` proves it. Everything else is checked with TRUE.

`RolloutLifecycle` has two variables, the phase of each update and the ring it is frozen in. `RolloutStore`
implements it with `phase[u] = rows[u].state` and `frozenIn[u] = rows[u].frozenFrom`
(`ImplementsLifecycle`), checked by TLC and proved.

### 2.2 FleetConsensus

| TLA+ | code |
|---|---|
| `db` | `authority_epoch`, `rollout_frozen`, the epochs in `screen_heartbeats` |
| `proc[i]` | the process: start-up phase, `_epoch`, `_rolloutFrozen`, and two history fields |
| `heartbeats[i][s]` | `_screens` of instance i: the epoch s last reported |
| `screen[s]` | the epoch the screen was last given |
| `inFlight[v]` | background writes of `rollout_frozen` sent and not yet delivered |
| `strong[i]`, `promotion[i]` | where `freezeStrong()` and `POST /ota/promote` are |

Start-up has three actions, as `index.js` listens between `initFromDb()` and the answer of
`incrementEpoch()`; the instance serves polls in all of them. `Poll` is heartbeat and reply. `GetStatus` is
`getStatus()` with its side effects; `stale`, `split` and `behind` (what the clock, the manifest hashes and
the quorum of generations say) are free choices of each call, so the properties hold whatever they are. A
background write is delivered in any order (`FlagDelivered`) or lost (`FlagLost`).

### 2.3 ManifestCache

One screen, any number of polls. Phases of a request: reading (cache of no use), connecting, begun, counting
(second connection), writing. `lock` is the row lock; there is none when there is no row, as in PostgreSQL.
`Free` counts the connections held by transactions. Edits come in three kinds, as the routes do: change then
bust (schedules, PATCH content), bust then change (DELETE content), and changes that bust nothing (a schedule
window opens, content expires, a schedule of a group or of all screens). `excused` is a history variable that remembers
why a row may be stale by design. What the schedules select is one value of `Contents`.

### 2.4 OperatorLedger

`rows` is the committed table; a transaction's own row is in `txn[i]` until `Commit`. `seq` numbers are taken
when an INSERT runs and are never given back (a BIGSERIAL), also by a rolled back or conflicting one.
`sent` holds the inserts of `appendEntry()`, delivered in any order or lost. `Commit`, `CommitUnanswered`,
`Fail` and `Crash` are the four ways a transaction ends. A hash is a number nobody else has.

`AtomicLedger` has one variable, the committed rows, and no lock, memory, request or instance: a linearized row is added in
one step, after all linearized rows, and follows the last of them or a background row after it; a background row comes
after all rows there are. `OperatorLedger` implements it with the same `rows` (`ImplementsAtomicLedger`, proved): between
the read of the last row and the commit of a linearized append, background inserts and failures of any instance run, and
no reader of the table can tell.

### 2.5 RemoteCommands

| TLA+ | code |
|---|---|
| `row[c]`, `expired` | `remote_commands`: status, and whether `expires_at` is past; c is the place in `created_at` order |
| `asked` | operators between the check and the INSERT of POST |
| `requests` | PATCH requests under way, before or after (`checked`) the test for a terminal state |
| `saved[c]`, `tail` | the history file: the last line of each command, and what follows the last newline |
| `phase`, `command`, `known` | `handleCommand()`: where it is, and what `loadHistory()` told it |
| `executed`, `forgotten` | history: executions, and how often lines were unreadable or lost with the power |

A line cut short is `torn`, or `whole` when only its newline is missing: that one is read, and is lost with the
line appended to it. `AppendFails` is a write that throws (which `poll()` catches) or in which the process dies;
`PowerCut` takes lines that were appended but not yet on the disk, as the file is never synced. Whether a command
is late is a free choice of the player, whose clock is its own. The player makes no difference between
ACKNOWLEDGED, EXECUTING and FAILED lines (`open`), nor do the routes between ACKNOWLEDGED and EXECUTING rows.
A status request can always fail; under the trigger of migration V7 every UPDATE does, which is one behaviour of
the model, and no property needs one to succeed.

### 2.6 Corpora, CorpusCache, AssetDownloads, PlayerRuntime

| TLA+ | code |
|---|---|
| `disk` | `corpus.current.json`, `.previous`, `.next`: the corpus in the file, and whether its checksum matches |
| `dest[a]`, `tmp` | the file of an asset (none, part, whole) and which temporary files there are |
| `pass[p]` | one call of `downloadAll()`: what is left, the asset it writes, and where its open file is by now |
| `registry`, `required`, `downloading` | the fields of `AssetDownloadManager` |
| `running`, `health` | `state.corpus_cache`, `state.constitutional_state` |
| `poll[p]` | `pollCorpus()` of the scheduler and of FORCE_SYNC: waiting, inside `apply()`, or waiting for the playlist |
| `promoted`, `spoiled`, `survived`, `failed`, `rolledBack` | history: the last corpus applied, assets two passes wrote or the power tore, a pass that outlived its corpus, a download that failed, a rollback since the last sync |
| `budget` | what is left of the bounds; each behaviour begins with one of `Budgets` |

`apply()` is synchronous, so no callback of the player runs inside it (`Applying`), but the process may die between
any two of its file operations, which are `Stage`, `RotateStep` and `PromoteStep`; a write or a rename that throws ends it
where it is (`StageFails`, `RenameFails`), and the player goes on. An open file follows the rename:
two passes that write one temporary file write one inode, the second to open it truncates it, and the first to
finish renames it under the feet of the other. `Restart` is a kill or a power cut: nothing is synced, so any file may
be damaged; then the boot scan and `load()`. `Readiness` compares the sizes of two sets, as the code does.
Only what the snapshots hold is a corpus: its version is the set of assets it needs.

### 2.7 Deployments

| TLA+ | code |
|---|---|
| `table` | `corpus_deployments` in the order of commits; `at` is `deployed_at` |
| `clock`, `hour`, `week` | stamps in the order transactions begin, and which of them are past the two windows of the queries |
| `freeze` | the view `constitutional_freeze_active`, with the rows there were when it began |
| `request[q]` | a handler between two awaits: how many checks it has passed, and what it read |

A `Commit` may come after that of a transaction that began later, so the newest row need not be the one with the
largest `deployed_at`; the queries order by `deployed_at`, and so does `LatestOf`. `HealthTable` says whether the
table `player_state` exists, which the health gate reads and no migration creates: FALSE is the repository as it is
(theorem `NoneAdvances`), TRUE is what the rest is checked with. The gate itself is a free choice of `Refuse`.
Publications, freezes and the passing of an hour or a week come from outside. `Pause` ages all rows at once, where the
windows of the SQL slide row by row; the limits only count what is inside a window, and fewer rows there break neither. `History` is what the table holds at
the start.

### 2.8 SocialWorker

`status[j]` is the row of a job, `run[r]` a run of an instance with the rows it has still to handle, in the order of
`created_at`. `Post`, `Accept`/`Refuse`, `MarkSent`/`MarkFailed` are the awaits of `processJob()`; an answer may be
lost whatever happened at the other end, and a statement that throws may have been executed (`Perhaps`). `MarkFails`
stays inside the try block, `Abandon` leaves it and ends the run. `configured` is whether the service key is set;
it does not change while the process runs. `exposed` and `faults` are history variables: the jobs two runs held at once or
whose run ended between the post and its record, which the code may post more than once, and the number of faults, which
bounds how often.

---

## 3. The runs

| run | shows | bounds | size |
|---|---|---|---|
| `rollout` | one rollout in flight, history never rewritten, no ring skipped, windows kept, freeze respected, implements `RolloutLifecycle` | 2 updates, 2 requests, 7 and 2 commits, clock to 6, windows 1 and 2 | 1.6 M states |
| `fleet` | epochs unique and from the database, no restart hidden, undisturbed strong freezes survive | 2 instances, 1 operated, 1 screen, 2 starts, 1 equal write in flight | 3.1 M states |
| `fleet_freeze_holds` | violation: a HEALTHY status lifts an operator's freeze | as `fleet` | |
| `manifest` | row lock protects the version, every version has its generation, busts work; polls are answered and the screen converges | 2 requests, pool of 2, 2 contents, 2 edits, 1 fault | 0.1 M states, liveness |
| `manifest_version` | violation: version 1 written over version 2 | 2 requests, pool of 3, 1 edit, 1 fault | |
| `ledger` | linearized entries never fork, answered ids are in the table, every append ends | 2 instances, 3 appends, 2 entries in memory, 1 fault | 0.7 M states, liveness |
| `ledger_exactly_once` | violation: an answered entry that is not in the ledger | as `ledger` | |
| `commands` | attempts bounded, conclusions kept, reports about what is recorded; every offer is concluded | 2 commands, 2 attempts, 1 request under way, 1 fault | 0.9 M states, liveness |
| `player` | the corpus promoted last is kept, what is registered is whole, no asset is forgotten; the player ends at the server's corpus, and with its assets unless a download failed or a rollback came after the last sync | 2 assets (4 corpora), 2 passes; three budgets: 1 publication, fault, restart and command each; 2 publications and 1 command; 1 publication and 2 commands | 1.7 M states, liveness |
| `player_healthy` | violation: HEALTHY without an asset the corpus needs | as `player`, the first budget | |
| `deployments` | ladder, both limits, freeze, atomicity of requests nobody overtakes | 3 groups, 2 versions, 2 requests, limits of 1, 9 rows to start with, 3 more, 1 event | 4.3 M states |
| `social` | a job is posted at most as often as runs fit beside each other, and once more by each run a fault sets free; every job is concluded unless starved | 3 jobs, 2 venues, 2 runs at once, LIMIT 2, 1 deletion, 1 fault | 0.7 M states, liveness |

Each passing run checks one type invariant and then only properties a plausible bug of the code breaks:
`PROJECT.json` (`mutants`) names for each such a bug, as an operator beside the definition it changes (a
dropped `FOR UPDATE`, an UPDATE without its version, an epoch counted in memory, a session lock in place of a
transaction lock), and TLC finds the property violated when the definition is replaced by it.

Why the bounds are enough:

- **rollout.** Two requests are the smallest number that races; a third would only repeat the loser's role,
  as a request interacts with others only through one row and its version. `MaxVersion` 7 is the shortest path
  to COMPLETE (upload, STAGING, four rings, COMPLETE) with the second update left two commits, enough to try
  to be active at the same time and to start after the first has ended. Time 6 lets every window pass: three
  rings of window 1 and one of window 2. A freeze takes commits of the same budget, so the long paths with a
  freeze end before COMPLETE; the theorems have no such bound.
- **fleet.** Two starts are a restart of one instance (same screens, restored heartbeats) or two instances
  side by side. One screen is enough for AUTHORITY_LOSS and HEALTHY, and with `SPLIT_BRAIN_THRESHOLD` 0 (a
  constant of the code, 2 there) for SPLIT_BRAIN. One '0' and one '1' in flight already reorder.
- **manifest.** Two requests, one of which finds no row, are what the unlocked case needs; with a pool of 2
  they exhaust it. `manifest_version` needs two computations and an expiry in between, hence a pool that is
  not exhausted. `PoolSize` 2 stands for the 20 connections of `db.js` with 20 pollers.
- **ledger.** Three entries are enough for a chain with one foreign entry in the middle; 2 entries in memory
  let compaction happen on the third.
- **commands.** Two attempts tell a counted retry from the first and leave the third to POISON. The second command
  has its lines run into the first one's. One operator is enough to have both offered at once, as a CANCEL passes
  the check like a second operator does. One fault tears a line, kills the device or hides the history; combined
  faults, late requests overtaking each other and more attempts are left to the theorems, which have no such bound.

- **player.** Two assets give four corpora: none in common, one in the other, the same, the empty one. Two passes
  are the smallest number that shares a file. `FirstCorpora` are a corpus of one asset and of both (a model of the server
  starts with either); the other two are published. The first budget has one of everything, so that the late answer, the
  rollback, the power cut and the failure happen in any order. The second has a corpus replaced and published again around a
  rollback, the third a late answer to FORCE_SYNC with a rollback after it: the two shortest ways to a player that runs the
  server's corpus with the assets of another, which the first budget cannot reach. `Factory` is no corpus, as nothing writes
  that snapshot.
- **deployments.** One group has been through every stage and has a new version; the other two are at its beginning. Two
  requests race; the third group is what the count of "other" canaries needs when the race is between two groups.
  Limits of 1 (2 and 5 in the code) are reached with 3 new rows. The groups at the beginning and the requests are
  interchangeable (symmetry); all properties of the run are safety.
- **social.** The first two jobs are of one venue and can hold both places of the LIMIT, the third is of another; two
  runs at once are the overlap, of one instance or of two, as runs share nothing but the tables; with one fault a job can be
  posted four times, which is the bound `PostsBounded` gives. `configured` and
  the venues mapped at the start take every value.

`CHECK_DEADLOCK FALSE`: the fleet, ledger, rollout, command, player and social models stop at their bounds (starts,
appends, clock, commands, jobs); `manifest` and `deployments` check deadlock.

## 4. The fairness

Rollout, fleet and deployments: none, all their properties are safety. Operators may stop at any time.

`ManifestCache!Fairness`: a screen polls for ever (weak fairness of `Serve`/`Miss`). Steps that wait for the
row lock or a connection have strong fairness, since PostgreSQL queues lock waiters and `pg` queues clients in order of
arrival, so a waiter is not overtaken for ever although its step is disabled again and again. A time-out and
the TTL happen (weak). Edits and faults need not happen. `Converges` keeps an exception the code does not
exclude: polls that exhaust the pool while one of them holds the lock may time out one after the other, for ever. TLC
finds that behaviour when the exception is dropped, which is the hazard at `db.js:22`.

`OperatorLedger!Fairness`: the advisory lock is queued (strong fairness of `Lock`), the database answers
(weak fairness of the steps of a transaction). Restarts and background deliveries need not happen.

`RemoteCommands!FairSpec`: the poller goes on, its polls reach the server from time to time and the device starts
again (weak fairness of `Handle` and `Restart`): `poll()` always schedules the next one, an execution ends at its
timeout, and a supervisor restarts the process. Nothing is assumed of operators, clocks, status requests or the disk.

`PlayerRuntime!Fairness`: the scheduler polls for ever (weak fairness of `Answer`), a poll goes on (`PollStep`: the event
loop, and the time-out of 10 s of a request), a download ends (`Download`: its time-out of 5 min). Publications, commands,
faults and restarts need not happen and are bounded. `Converges` has two exceptions, and TLC refutes it without either.
`failed`: nothing repeats a download that failed, and the player is short of an asset for ever. `rolledBack`: a rollback
synchronizes nothing, and when the server goes back to the corpus that was rolled back to, the player is already on this
version and keeps the assets of the other one for ever.

`SocialWorker!Fairness`: the timer of each instance goes on (weak fairness of `Tick`), a run goes on (weak fairness of
`processJob`: statements are answered or throw, requests end after 15 s). Provisioning, enqueuing, faults and deletions
need not happen; faults are bounded. `Concluded` has the exception `Starved`, and TLC refutes it without either of its
disjuncts.

## 5. The proofs

All theorems hold for every set of updates, requests, instances, screens or contents and every window and
bound, under the `ASSUME`s of the modules (types of the constants, and that "no update", "no content", "no
request" are not members), which TLC evaluates in the runs.

**`RolloutStoreProofs`.** No invariant the runs check is inductive: nothing in them relates the private copy of
a request to the row it overwrites. `Inv` adds
- `CopiesFollowRows`: no copy has a version its row has not reached, and *while the versions are equal* the copy
  is the row as loaded, or (`Derived`) the row after one legal step, with its window kept. This is what
  optimistic concurrency buys, and every safety property follows from it;
- `Origins`: a row has a ring to return to exactly while it is frozen, so the edge FROZEN -> any ring is taken
  only back to where the freeze came from;
- `OpenSeen`: a request about to persist a promotion has seen the flag open.

`RingsVisited` is the strengthening of `NoRingSkipped`: the ring a row is in, or is frozen in, is in its history.
Theorems: `TypeCorrect`, `OneRolloutInFlight`, `HistorySafe`, `WindowsKept`, `FreezeRespected`,
`NoRingIsSkipped`, `Refinement` (every step is a step of `RolloutLifecycle` or a stutter) and
`RoutesNeverLeavePending` (with `StagingCaller` FALSE every row stays
PENDING).

**`FleetConsensusProofs`.** `EpochInv` ties every epoch in sight to the counter of the database: tickets are
distinct values it has reached; what a process, a screen, a heartbeat or a stored row holds is no later (or is 1,
which an instance serves while the database has none); and a ticket no screen was given is echoed nowhere. From
it `EpochsAreUnique`, `EpochsAreIssued` and `RestartsAreSeen`. `FreezeInv`: no '0' is in flight while a strong
freeze is undisturbed, and once its write is done the flag is set. From it `StrongFreezesLast` and, for every step,
`HeldFreezesBlock`: while a strong freeze is held no promotion passes on any instance, and what ends it is a '0' that is
sent. `fleet_freeze_holds` shows who sends one unasked.

**`ManifestCacheProofs`.** The version of a row and the generation that covers it are decided in one step and
written in another. `IInv` carries the proof from the one to the other: a computation that found a row still
holds its lock, nobody else holds it, and the row is still what it found. From it `LockProtectsRow`,
`GenerationsCoverVersions`, `BustsAreEffective` and `RowLockNeverOrphaned`; the last is what is left of
`RequestsAnswered` without time: no failure, time-out or bust leaves the row locked by nobody. The pool plays no part: they
hold for any size of it. `VersionsNameContents` says for every write over a row what the lock is for, and names its one
exception, a computation that found no row; `VersionsGrowAlone` is the claim that `manifest_version` refutes, for polls of
a screen that come one at a time: there `NothingAppeared` holds, that a computation that found no row writes where there
still is none.

**`OperatorLedgerProofs`.** What a linearized append decides under the advisory lock it writes later, while
background inserts go on. `IInv`: only the holder of the lock has read the last row; from then to its end every
linearized row is at or before the row it read (`ReadIsLast`), since nobody else commits one and what background
inserts add is not linearized; an uncommitted row has a seq and an id no other row has (`RowsWait`), since an INSERT
of the same id waits; an insert without a row found its id in the table (`EntriesChained`). From it
`ChainNeverForks`, `AnsweredIdsStay` and `LockNeverOrphaned`. That the id in the table is that of the *answered entry* does
not follow, and is false (`ledger_exactly_once`). `RecordedWhenAlone` says what it takes to break it: for one instance that
does not restart it is true, as its counter then names every id of the table (`CountedAlone`).

`LedgerIsAtomic` maps each commit of a linearized append to `AppendLinearized`, each background insert to
`AppendBackground`, and every other step to a stutter. It needs two invariants more: no hash in sight is that of
another entry (`HashesNew`), and the row a transaction read is still there, with no linearized row after it
(`ReadStays`), up to the commit.

**`RemoteCommandsProofs`.** Executions cannot be compared with what `loadHistory()` returns alone, as a line may be read
now and lost later. `IInv` compares them with the line that would be left (`SavedCounts`), the one that would be lost
(`TailCounts`) and what the player read before either changed (`KnownCounts`), and shows that two lines before an
execution are what makes this work: the first may be swallowed by an unended line, but it ends that one, so the second is
in the file (`StartRecorded`). From it `AttemptsLimited`: MAX_ATTEMPTS executions, and as many again for each lost
history. `OpenAtHand` and `RequestsRecorded` give `ConclusionsStay` and `ReportsAreRecorded`. `SavedCounts` gives
`ExecutionsAreWrittenAhead`: the attempt is in the file before the command runs. `RetiredCommandsStay` is about every
step: a command that was answered or has expired, and that the player is done with, is not offered or executed again, even
when its history is lost. `PendingIsLimited` counts the pending commands and the operators past their check together, as
the bound of "one pending at a time"; it assumes that nobody cancels, since CANCEL skips the check.

**`PlayerRuntimeProofs`.** `ApplyInv` relates the pollers to the files: at most one is inside `apply()`, and its staging
file is there, whole, until it is promoted. From it `TypeCorrect` and `PromotedIsKept`. `FilesInv` follows every open file to
where it is: an asset that is not `spoiled` has one writer, which writes to the temporary file and found nobody in it, so
what it renames is whole (`RegisteredAreWhole`). `SyncInv`: while no pass has outlived its corpus, registry and passes are
about `required`; so equal sizes mean equal sets (a lemma on cardinalities), which is `ReadyAreComplete`, and with it
`HealthyMeansReady`, which says that a pass that outlives its corpus is the only way to the state
`player_healthy` finds. `PassInv` follows the passes: every required asset that is not registered is somewhere in one, until
a download fails (`NoAssetForgotten`); and while no pass has outlived its corpus there is
one at most, and the flag `downloadInProgress` tells of it, so that DEFICIT means a failure (`DeficitsAreFailures`). `OnlyRollbackDesyncs`: once something was synchronized, the
assets asked for are those of the corpus that runs, unless a rollback came after. With `NoAssetForgotten` it is the safety
half of `Converges`, and says why its exceptions are enough.
`ApplyAtomic` says for every step what a start would load after it. Three kinds of steps change that: the last
step of `apply()`, to the corpus applied; power that damages the current snapshot; and the rotation of a snapshot that was
damaged before over the previous one, to the factory snapshot, which is the case the comment of `apply()` leaves out.

**`DeploymentsProofs`.** What a request has read stays in the table, which is append-only; that it is still the latest is
not kept. `LadderInv`: a request past its first read has the row it read in the table, of the stage below and, once its
transaction began, earlier than its own stamp. `LimitInv` counts what is there with what is still to come: the groups with a
canary and the groups of advances past the count together; the rollbacks of the hour and the requests past the rate
check; the advances since the freeze and those past its check. `AtomicInv`: while nobody of its group has committed since a
request first read the table, everything its route has checked still holds (`ReliesOn`). `NoneAdvances` assumes that
`HealthTable` is FALSE. `AbortsRestore` also follows from `LadderInv`: the baseline an abort has read is still in the table,
and earlier, when its row is inserted. With one request at a time (`Cardinality(Requests) = 1`) the bounds of
`CanariesLimited` and `RollbacksLimited` are the limits of the code.

**`SocialWorkerProofs`.** `IInv` has, for every job that is not `exposed`: one run at most holds it (`Alone`); until
that run has sent a post, the job is pending (or deleted) and was not posted (`Fresh`); once it has an answer it was
posted exactly once and is not recorded yet (`Answered`). From it `PostsOnce` and `OutcomesStay`: the outcome of such a job
is recorded once, and only the catch block overrules it. What holds of the exposed jobs too is a bound, `PostsAreBounded`,
without any assumption on overlaps, instances or faults. Its invariant adds to the posts of a job the number of runs that may
still post it (`MayPost`: all those that have not posted it without recording that, until an outcome is recorded; then only
those that hold it). A post moves one run out of that set; recording an outcome closes it; only a fault puts runs back, one
for a statement that fails, all of an instance for a crash.

**What a theorem says that no run checks.** The runs check the properties that could be wrong in the code; the theorems
about them say when the refuted ones hold (`RecordedWhenAlone`, `VersionsGrowAlone`, `HeldFreezesBlock`,
`HealthyMeansReady`, `PendingIsLimited`, `PostsOnce`), what is left of liveness without time
(`RowLockNeverOrphaned`, `LockNeverOrphaned`, `OnlyRollbackDesyncs`, `DeficitsAreFailures`), and what is promised of every
step (`LedgerIsAtomic`, `VersionsNameContents`, `ExecutionsAreWrittenAhead`, `RetiredCommandsStay`, `ApplyAtomic`,
`AbortsRestore`, `OutcomesStay`, and earlier `EpochsAreIssued`, `RoutesNeverLeavePending`, `NoneAdvances`). Their
properties stand with the others in the modules, but in no configuration file.

Only model-checked: liveness (`Converges` of both modules, `RequestsAnswered`, `AppendsEnd`, `OfferConcludes`,
`Concluded`), which the prover does not reach since it has no rule for ENABLED, and the violations, which are single
behaviours. Every other property of the runs is stated by a theorem.

## 6. Where the code and its documents disagree

Four runs expect a violation; `PROJECT.json` (`findings`) quotes the lines of these and of the disagreements met while
reading.

- `fleet_freeze_holds`: an operator's strong freeze "requires explicit call" to be lifted; `getStatus()`, which
  the promotion itself calls first, lifts it on every HEALTHY evaluation.
- `manifest_version`: the row lock is to prevent that one request "overwrites a valid increment with a stale version
  number"; with no row there is no lock.
- `ledger_exactly_once`: "Exactly-once: guaranteed by unique action_id constraint"; the constraint makes the
  insert do nothing, and the append is answered as if it had happened.
- `player_healthy`: "transition to HEALTHY only when all assets verified"; the code compares counts, and a pass that
  outlives its corpus registers an asset the new one does not need.

Without runs, the ones that matter most:

- rollout: an upload answers "Use POST /ota/promote to begin staging"; promote refuses PENDING, and no code calls
  `transition('STAGING')`.
- remote commands: the timeline says "Command expired - never executed" of every row that is PENDING past its expiry; a
  row is PENDING when no report was applied. The trigger of V7 refuses the updates the route counts on; a late request
  may overwrite a terminal status; two operators may both issue; CANCEL cancels nothing.
- player: between its two renames `apply()` leaves nothing to load when the current snapshot was damaged before; a failed
  download is not repeated; ROLLBACK_CORPUS is undone by the next poll, which also overwrites the
  snapshot it went back to; or, when the server goes back to that corpus as well, it is not undone, and the assets stay those
  of the corpus that was rolled back; two passes write one temporary file.
- deployments: the health gate reads a table no migration creates; a group that once had a canary can never be rolled
  back; the count of canaries counts rows, also of aborted ones; an abort is undone by an advance that overlaps it; and
  the corpus a screen receives does not depend on the table at all.
- social worker: ten jobs of venues that were not provisioned stop all posts; a run that ends late writes `failed`
  over `sent`.
- start-up: the incident orchestrator is never loaded, as `initFromDb?.` is called on a module without it.

## 7. What is not modelled, and why

- *Data*: metrics, health scores, manifests, hashes, signatures. The models keep what the control flow asks
  of them: an answer, or an identity.
- *The quorum of generations and the eviction of heartbeats at MAX_SCREENS*: free choices of `getStatus()`.
- *The bodies of the policy and of the drift registry*: a promotion they deny changes nothing, so the store
  is shown to be right whatever they answer.
- *Lineage, events, forensics, logs, middleware*: they record or filter; the one hazard there (a handler that continues
  after its time-out was answered) is listed.
- *PRE substrate*: pure evaluation with replay tests of its own; *governance kernel, duplicate backend tree*:
  copies of modelled code; *plugins, SDK, control plane*: not reached from the server's start-up; *interfaces,
  simulators, tooling*: presentation and tests.
- *What a remote command does*: an execution is counted, its effect is not modelled; one that loses the race with its timeout
  may still go on.
- *The player beside its content* (watchdog, Chromium launcher, emergency renderer, replay cache, maintenance flag): the
  watchdog sets flags that nothing acts upon (see findings); the others start processes or write reports.
- *What the CMS API keeps beside commands and deployments* (re-enrolment, heartbeats, maintenance, approvals): each
  route is one statement, or its table is read by no other route. The corpus route appears in `PlayerRuntime` as the
  server's answer.
- *Incidents and the authority lease*: no code the server runs makes an instance of these classes, so
  their races cannot happen in it.
- *Governed configuration, operator sessions, screen enrolment*: small modules with one hazard each, listed without a
  property. The other models do not depend on them: thresholds are constants, operators may act, screens are enrolled.
- *The posting service, and the text of a post*: it accepts or refuses.

## 8. The order of the work

Done, in this order: rollout, fleet, manifest, ledger, remote commands, player content, canary deployments, social
worker; proofs of the safety properties of all eight; the refinement of `AtomicLedger`; the conditional forms of the
claims the violation runs refute, and the safety halves of what the liveness runs check (section 5).

What could follow, most important first:

1. `Enrolment` and `OperatorSessions`: the one-time token checked and consumed in two steps, the cache of revoked
   sessions per process. The hazards are listed.
2. `GovernedConfig`: a version that names two values when two instances count it.
3. `manifest_generation` and its quorum in `FleetConsensus`, composed with `ManifestCache`.
4. `AuthorityLease` and `IncidentOrchestrator`, once a route uses them; abstract specification of the former: at most
   one holder per epoch.
