---------------------------- MODULE PlayerRuntime ----------------------------
(***************************************************************************)
(* The content of one player: orchestrator.ts of src/player-runtime, which *)
(* asks the server for the corpus of the screen, applies it to the         *)
(* snapshots (CorpusCache), has its assets downloaded (AssetDownloads) and *)
(* derives the state it shows.                                             *)
(*                                                                         *)
(* pollCorpus() has two callers, the scheduler and the command FORCE_SYNC, *)
(* and nothing keeps them apart: the answer of one may be older than the   *)
(* corpus the other has applied. Between two awaits the player is one      *)
(* thread; while apply() writes its files only the card, the power and the *)
(* server can act.                                                         *)
(*                                                                         *)
(* Abstracted: an answer takes its content from the server at once;        *)
(* back-off changes no interval (orchestrator.ts:267-272) and is left out, *)
(* as is the playlist itself: a poll of it only succeeds or finds nothing  *)
(* to play. Maintenance mode, heartbeats and logs are left out.            *)
(***************************************************************************)
EXTENDS CorpusCache, AssetDownloads

CONSTANTS FirstCorpora,   \* the corpora the server may have for a new player
          Budgets         \* bounds: each allows some number of changes of the corpus at
                          \* the server (publishes), of requests, writes and files that
                          \* fail (faults), of restarts of the player, and of FORCE_SYNC
                          \* and ROLLBACK_CORPUS (commands)

Budget == [publishes : Nat, faults : Nat, restarts : Nat, commands : Nat]

ASSUME PlayerAssumption == /\ FirstCorpora \subseteq Corpora
                           /\ Budgets \subseteq Budget

VARIABLES server,     \* the corpus the server answers with
          running,    \* state.corpus_cache
          rolledBack, \* history: a rollback changed running since the last sync
          health,     \* state.constitutional_state
          poll,       \* where the two callers of pollCorpus() are
          budget      \* what is left of the budget this behaviour began with

playerVars == <<server, running, rolledBack, health, poll, budget>>
vars == <<disk, promoted, dest, tmp, pass, registry, required, downloading,
          spoiled, survived, failed, server, running, rolledBack, health, poll,
          budget>>

-----------------------------------------------------------------------------
(* States *)

Pollers == {"schedule", "command"}

\* answered: the corpus is on its way; staged, rotated: inside apply();
\* playlist: waits for the playlist.
Phases == {"idle", "answered", "staged", "rotated", "playlist"}
Poll == [phase : Phases, got : Corpora \cup {NoCorpus}]
IdlePoll == [phase |-> "idle", got |-> NoCorpus]

Health == {"INITIALIZING", "HEALTHY", "DEGRADED"}

TypeOK == /\ CacheTypeOK
          /\ DownloadsTypeOK
          /\ server \in Corpora
          /\ running \in Corpora \cup {NoCorpus}
          /\ rolledBack \in BOOLEAN
          /\ health \in Health
          /\ poll \in [Pollers -> Poll]
          /\ \A p \in Pollers : poll[p].got = NoCorpus <=> poll[p].phase \in {"idle", "playlist"}
          /\ budget \in Budget

Init == /\ CacheInit
        /\ DownloadsInit
        /\ server \in FirstCorpora
        /\ running = Factory
        /\ rolledBack = FALSE
        /\ health = "INITIALIZING"
        /\ poll = [p \in Pollers |-> IdlePoll]
        /\ budget \in Budgets

\* apply() occupies the thread.
Applying == \E p \in Pollers : poll[p].phase \in {"staged", "rotated"}

Spend(kind) == /\ budget[kind] > 0
               /\ budget' = [budget EXCEPT ![kind] = @ - 1]

Step(p, phase) == poll' = [poll EXCEPT ![p].phase = phase]

\* What the server answers is what it publishes then; it may be looked at later.
Hear(p) == poll' = [poll EXCEPT ![p] = [phase |-> "answered", got |-> server]]

\* pollCorpus() has returned: the caller goes on to pollPlaylist().
Return(p) == poll' = [poll EXCEPT ![p] = [phase |-> "playlist", got |-> NoCorpus]]

-----------------------------------------------------------------------------
(* pollCorpus() *)

\* fetch(): PollScheduler skips a tick while the last one runs, and the command poller
\* runs one FORCE_SYNC at a time.
Ask(p) == /\ ~Applying
          /\ poll[p].phase = "idle"

Answer ==
  /\ Ask("schedule")
  /\ Hear("schedule")
  /\ UNCHANGED <<cacheVars, assetVars, server, running, rolledBack, health, budget>>

ForceSync ==
  /\ Ask("command")
  /\ Spend("commands")
  /\ Hear("command") \/ Return("command")
  /\ UNCHANGED <<cacheVars, assetVars, server, running, rolledBack, health>>

NoAnswer ==
  /\ Ask("schedule")
  /\ Spend("faults")
  /\ Return("schedule")
  /\ UNCHANGED <<cacheVars, assetVars, server, running, rolledBack, health>>

\* Mutant: compares with the file of the current snapshot, not with what runs.
SameVersionOnDisk(p) == poll[p].got = disk["current"].corpus

SameVersion(p) == poll[p].got = running

\* Already on this version: only a player that has synchronized nothing yet does.
Skip(p) ==
  /\ ~Applying
  /\ poll[p].phase = "answered"
  /\ SameVersion(p)
  /\ IF required = {} THEN /\ CanSync(poll[p].got)
                          /\ Sync(poll[p].got)
                          /\ rolledBack' = FALSE
                     ELSE UNCHANGED <<assetVars, rolledBack>>
  /\ Return(p)
  /\ UNCHANGED <<cacheVars, server, running, health, budget>>

Stage(p) ==
  /\ ~Applying
  /\ poll[p].phase = "answered"
  /\ ~SameVersion(p)
  /\ CanSync(poll[p].got)
  /\ WriteStaging(poll[p].got)
  /\ Step(p, "staged")
  /\ UNCHANGED <<assetVars, server, running, rolledBack, health, budget>>

StageFails(p) ==
  /\ ~Applying
  /\ poll[p].phase = "answered"
  /\ ~SameVersion(p)
  /\ Spend("faults")
  /\ StagingFails
  /\ Return(p)
  /\ UNCHANGED <<assetVars, server, running, rolledBack, health>>

RotateStep(p) ==
  /\ poll[p].phase = "staged"
  /\ Rotate
  /\ Step(p, "rotated")
  /\ UNCHANGED <<assetVars, server, running, rolledBack, health, budget>>

\* apply() ends; the assets of the new corpus are synchronized and it becomes the state's.
PromoteStep(p) ==
  /\ poll[p].phase = "rotated"
  /\ Promote
  /\ Sync(poll[p].got)
  /\ running' = poll[p].got
  /\ rolledBack' = FALSE
  /\ Return(p)
  /\ UNCHANGED <<server, health, budget>>

\* One of the renames throws: apply() is left where it is, and the player goes on.
RenameFails(p) ==
  /\ poll[p].phase \in {"staged", "rotated"}
  /\ Spend("faults")
  /\ Return(p)
  /\ UNCHANGED <<cacheVars, assetVars, server, running, rolledBack, health>>

\* pollPlaylist() ends, with something to play or not; then, on the schedule only,
\* syncContentReadiness().
PlaylistDone(p) ==
  /\ ~Applying
  /\ poll[p].phase = "playlist"
  /\ \E played \in BOOLEAN :
       LET before == IF played THEN health ELSE "DEGRADED"
       IN health' = IF p # "schedule" THEN before
                    ELSE IF Readiness = "READY" THEN "HEALTHY"
                    ELSE IF Readiness = "DEFICIT" /\ before = "HEALTHY" THEN "DEGRADED"
                    ELSE before
  /\ Step(p, "idle")
  /\ UNCHANGED <<cacheVars, assetVars, server, running, rolledBack, budget>>

-----------------------------------------------------------------------------
(* Commands, the server, faults *)

\* ROLLBACK_CORPUS: memory only. The corpus on disk has no asset_urls, so the assets
\* are not synchronized.
Rollback ==
  /\ ~Applying
  /\ Spend("commands")
  /\ TryLoad(disk, "previous") # NoCorpus
  /\ running' = TryLoad(disk, "previous")
  /\ rolledBack' = TRUE
  /\ UNCHANGED <<cacheVars, assetVars, server, health, poll>>

Download(p) ==
  /\ ~Applying
  /\ Open(p) \/ Complete(p)
  /\ UNCHANGED <<cacheVars, playerVars>>

DownloadFails(p) ==
  /\ ~Applying
  /\ Spend("faults")
  /\ FetchFails(p) \/ WriteFails(p)
  /\ UNCHANGED <<cacheVars, server, running, rolledBack, health, poll>>

Publish ==
  /\ Spend("publishes")
  /\ server' \in Corpora \ {server}
  /\ UNCHANGED <<cacheVars, assetVars, running, rolledBack, health, poll>>

\* Killed, or without power, at any moment; then start(): boot scan, load(), and the
\* state begins anew.
Restart ==
  /\ Spend("restarts")
  /\ \E lost \in SUBSET {f \in Snapshots : disk[f].ok},
        torn \in SUBSET {a \in Assets : Verified(a)} : \E empty \in SUBSET torn :
       /\ disk' = Torn(lost)
       /\ running' = Load(disk')
       /\ Reboot(torn, empty)
  /\ rolledBack' = FALSE
  /\ health' = "INITIALIZING"
  /\ poll' = [p \in Pollers |-> IdlePoll]
  /\ UNCHANGED <<promoted, server>>

-----------------------------------------------------------------------------
(* Specification *)

PollStep(p) ==
  \/ Skip(p) \/ Stage(p) \/ StageFails(p) \/ RotateStep(p)
  \/ PromoteStep(p) \/ RenameFails(p) \/ PlaylistDone(p)

Next == \/ Answer \/ NoAnswer \/ ForceSync \/ Rollback \/ Publish \/ Restart
        \/ \E p \in Pollers : PollStep(p)
        \/ \E p \in Passes : Download(p) \/ DownloadFails(p)

Spec == Init /\ [][Next]_vars

\* The timer of the scheduler, the timeout of a request (10 s), the event loop and the
\* timeout of a download (5 min).
Fairness == /\ WF_vars(Answer)
            /\ \A p \in Pollers : WF_vars(PollStep(p))
            /\ \A p \in Passes : WF_vars(Download(p))

FairSpec == Spec /\ Fairness

-----------------------------------------------------------------------------
(* Properties *)

\* Whatever was lost, restarted or answered late, once changes and faults are over the
\* player runs the server's corpus. The assets it has are those of the last sync, unless one
\* of their downloads failed: then nothing retries it. The last sync was for the server's
\* corpus, unless a rollback came after it: when the server then goes back to the corpus that
\* was rolled back to, the player is already on this version and never synchronizes it
\* (orchestrator.ts:152-169, 307-319; asset-download-manager.ts:127-151).
Converges == <>[](/\ running = server
                  /\ required = server \/ rolledBack
                  /\ failed \/ required \subseteq registry)

\* The assets asked for are those of the corpus that runs, from the first sync on and as
\* long as no rollback comes in between (orchestrator.ts:152-169, 307-346).
SyncedUnlessRolledBack == required \in {{}, running} \/ rolledBack

\* orchestrator.ts:629: "transition to HEALTHY only when all assets verified".
HealthyOnlyWhenAllVerified ==
  [][health' = "HEALTHY" /\ health # "HEALTHY" => required \subseteq registry]_vars

\* What it amounts to in the code: a player turns HEALTHY with every asset of the last
\* corpus registered unless a pass outlived the corpus it was started for; a rollback of
\* the running corpus changes nothing of that (orchestrator.ts:609-644).
HealthyMeansVerified ==
  [][health' = "HEALTHY" /\ health # "HEALTHY" /\ ~survived => required \subseteq registry]_vars

\* corpus-cache.ts:76-89: apply() is atomic. What a start would load changes only when
\* apply() ends, to the corpus applied; when the power damages the current snapshot, to
\* an older one; and, which the comment does not say, when apply() moves a current
\* snapshot that is already damaged over the previous one, to the factory's.
ApplyIsAtomic ==
  [][\/ Load(disk') = Load(disk)
     \/ \E p \in Pollers : PromoteStep(p) /\ Load(disk') = poll[p].got
     \/ Restart /\ Load(disk') \in {TryLoad(disk, "previous"), Factory}
     \/ \E p \in Pollers : /\ RotateStep(p)
                           /\ Exists("current") /\ ~disk["current"].ok
                           /\ Load(disk') = Factory]_vars
=============================================================================
