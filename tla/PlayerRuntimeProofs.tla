------------------------ MODULE PlayerRuntimeProofs ------------------------
(***************************************************************************)
(* Proofs about PlayerRuntime, for any set of assets, any factory snapshot *)
(* and any bounds.                                                         *)
(***************************************************************************)
EXTENDS PlayerRuntime, FiniteSetTheorems, TLAPS

-----------------------------------------------------------------------------
(* Types *)

LEMMA NoCorpusIsNone == NoCorpus \notin Corpora
  BY CorporaAssumption DEF Corpora, NoCorpus

LEMMA BudgetSpent ==
  ASSUME budget \in Budget, NEW kind \in {"publishes", "faults", "restarts", "commands"}, Spend(kind)
  PROVE  budget' \in Budget
  BY DEF Budget, Spend

LEMMA AfterType ==
  ASSUME NEW q \in Pass
  PROVE  After(q) \in Pass
  BY DEF After, Pass, NoPass

\* syncFromCorpus() keeps the types of the asset variables.
LEMMA SyncType ==
  ASSUME DownloadsTypeOK, NEW assets \in Corpora, Sync(assets)
  PROVE  DownloadsTypeOK'
  <1> DEFINE missing == assets \ {a \in assets : Verified(a)}
  <1>1. missing \subseteq Assets /\ registry' \subseteq Assets /\ required' \subseteq Assets
    BY DEF Sync, Corpora
  <1>2. pass' \in [Passes -> Pass]
    <2>1. CASE UNCHANGED pass
      BY <2>1 DEF DownloadsTypeOK
    <2>2. CASE ~UNCHANGED pass
      <3>1. PICK p \in Passes : pass' = [pass EXCEPT ![p] = [NoPass EXCEPT !.left = missing]]
        BY <2>2 DEF Sync, FreePasses
      <3>2. [NoPass EXCEPT !.left = missing] \in Pass
        BY <1>1 DEF NoPass, Pass
      <3> QED BY <3>1, <3>2 DEF DownloadsTypeOK
    <2> QED BY <2>1, <2>2
  <1>3. downloading' \in BOOLEAN /\ survived' \in BOOLEAN /\ failed' \in BOOLEAN
    BY DEF Sync, DownloadsTypeOK
  <1> QED BY <1>1, <1>2, <1>3 DEF Sync, DownloadsTypeOK

LEMMA OpenType ==
  ASSUME DownloadsTypeOK, NEW p \in Passes, Open(p)
  PROVE  DownloadsTypeOK'
  <1>1. PICK a \in pass[p].left :
          LET others == {q \in Passes \ {p} : Writing(q, a)}
              truncated == {q \in others : pass[q].to = "tmp"}
          IN /\ tmp' = tmp \cup {a}
             /\ pass' = [q \in Passes |->
                           IF q = p THEN [left |-> pass[p].left \ {a}, at |-> a, to |-> "tmp", clean |-> TRUE]
                           ELSE IF q \in truncated THEN [pass[q] EXCEPT !.clean = FALSE]
                           ELSE pass[q]]
             /\ spoiled' = IF others = {} THEN spoiled ELSE spoiled \cup {a}
    BY DEF Open
  <1>2. a \in Assets
    BY DEF DownloadsTypeOK, Pass
  <1>3. pass' \in [Passes -> Pass]
    BY <1>1, <1>2 DEF DownloadsTypeOK, Pass
  <1> QED BY <1>1, <1>2, <1>3 DEF Open, DownloadsTypeOK

LEMMA CompleteType ==
  ASSUME DownloadsTypeOK, NEW p \in Passes, Complete(p)
  PROVE  DownloadsTypeOK'
  <1>1. pass[p].at \in Assets /\ After(pass[p]) \in Pass
    BY AfterType DEF Complete, DownloadsTypeOK, Pass
  <1>2. pass' \in [Passes -> Pass]
    BY <1>1 DEF Complete, DownloadsTypeOK, Pass
  <1>3. dest' \in [Assets -> Content]
    BY DEF Complete, DownloadsTypeOK, Content, Written
  <1> QED BY <1>1, <1>2, <1>3 DEF Complete, Finished, DownloadsTypeOK

LEMMA FailType ==
  ASSUME DownloadsTypeOK, NEW p \in Passes, FetchFails(p) \/ WriteFails(p)
  PROVE  DownloadsTypeOK'
  <1>1. CASE FetchFails(p)
    <2>1. PICK a \in pass[p].left :
            /\ pass' = [pass EXCEPT ![p] = After([pass[p] EXCEPT !.left = pass[p].left \ {a}])]
            /\ downloading' = (downloading /\ [pass[p] EXCEPT !.left = pass[p].left \ {a}].left # {})
      BY <1>1 DEF FetchFails
    <2>2. [pass[p] EXCEPT !.left = pass[p].left \ {a}] \in Pass
      BY DEF DownloadsTypeOK, Pass
    <2> QED BY <1>1, <2>1, <2>2, AfterType DEF FetchFails, DownloadsTypeOK
  <1>2. CASE WriteFails(p)
    <2>1. After(pass[p]) \in Pass
      BY AfterType DEF DownloadsTypeOK
    <2>2. pass' \in [Passes -> Pass]
      BY <1>2, <2>1 DEF WriteFails, DownloadsTypeOK, Pass
    <2> QED BY <1>2, <2>2 DEF WriteFails, Finished, DownloadsTypeOK
  <1> QED BY <1>1, <1>2

LEMMA RebootType ==
  ASSUME DownloadsTypeOK, NEW torn, NEW empty, Reboot(torn, empty)
  PROVE  DownloadsTypeOK'
  BY DEF Reboot, DownloadsTypeOK, Content, Pass, NoPass, Passes

\* The steps of the snapshots keep the types of the cache variables.
LEMMA CacheType ==
  ASSUME CacheTypeOK,
         (\E c \in Corpora : WriteStaging(c)) \/ StagingFails \/ Rotate
           \/ (Exists("next") /\ Promote)
           \/ (UNCHANGED promoted /\ \E lost \in SUBSET Snapshots : disk' = Torn(lost))
  PROVE  CacheTypeOK'
  <1> USE NoCorpusIsNone DEF CacheTypeOK, Snapshots, File, Absent, Exists
  <1>1. CASE \E c \in Corpora : WriteStaging(c)
    BY <1>1 DEF WriteStaging, Whole
  <1>2. CASE StagingFails
    BY <1>2 DEF StagingFails
  <1>3. CASE Rotate
    BY <1>3 DEF Rotate, Renamed
  <1>4. CASE Exists("next") /\ Promote
    BY <1>4 DEF Promote, Renamed
  <1>5. CASE UNCHANGED promoted /\ \E lost \in SUBSET Snapshots : disk' = Torn(lost)
    <2>1. PICK lost \in SUBSET Snapshots : disk' = Torn(lost)
      BY <1>5
    <2>2. ASSUME NEW f \in Snapshots
          PROVE  disk'[f] \in File /\ (disk'[f].ok => disk'[f].corpus # NoCorpus)
      BY <2>1 DEF Torn
    <2>3. disk' = [f \in Snapshots |-> disk'[f]]
      BY <2>1 DEF Torn
    <2> QED BY <1>5, <2>2, <2>3
  <1> QED BY <1>1, <1>2, <1>3, <1>4, <1>5

-----------------------------------------------------------------------------
(* The invariant of apply() *)

InApply(p) == poll[p].phase \in {"staged", "rotated"}

\* Only one caller is inside apply(), and the staging file is its corpus.
OneApplies == \A p, q \in Pollers : InApply(p) /\ InApply(q) => p = q
StagedIsWhole == \A p \in Pollers : InApply(p) => disk["next"] = Whole(poll[p].got)

ApplyInv == /\ TypeOK
            /\ OneApplies
            /\ StagedIsWhole
            /\ SnapshotKept

\* A step that touches no file and enters no apply().
QuietStep == /\ UNCHANGED cacheVars
             /\ TypeOK'
             /\ \A p \in Pollers : InApply(p)' => InApply(p) /\ poll'[p].got = poll[p].got

LEMMA QuietKeeps ==
  ASSUME ApplyInv, QuietStep
  PROVE  ApplyInv'
  <1>1. OneApplies'
    BY DEF ApplyInv, OneApplies, QuietStep
  <1>2. StagedIsWhole'
    BY DEF ApplyInv, StagedIsWhole, QuietStep, cacheVars, Whole
  <1>3. SnapshotKept'
    BY DEF ApplyInv, SnapshotKept, QuietStep, cacheVars, Holder, Exists, Load
  <1> QED BY <1>1, <1>2, <1>3 DEF ApplyInv, QuietStep

\* The caller p of pollCorpus() goes to phase ph with got = c.
LEMMA PollType ==
  ASSUME TypeOK, NEW p \in Pollers, NEW ph \in Phases, NEW c \in Corpora \cup {NoCorpus},
         c = NoCorpus <=> ph \in {"idle", "playlist"},
         poll' = [poll EXCEPT ![p] = [phase |-> ph, got |-> c]]
  PROVE  /\ poll' \in [Pollers -> Poll]
         /\ \A q \in Pollers : poll'[q].got = NoCorpus <=> poll'[q].phase \in {"idle", "playlist"}
         /\ \A q \in Pollers : q # p => poll'[q] = poll[q]
         /\ poll'[p] = [phase |-> ph, got |-> c]
  BY DEF TypeOK, Poll

LEMMA ReturnType ==
  ASSUME TypeOK, NEW p \in Pollers, Return(p)
  PROVE  /\ poll' \in [Pollers -> Poll]
         /\ \A q \in Pollers : poll'[q].got = NoCorpus <=> poll'[q].phase \in {"idle", "playlist"}
         /\ \A q \in Pollers : q # p => poll'[q] = poll[q]
         /\ poll'[p] = [phase |-> "playlist", got |-> NoCorpus]
  BY PollType DEF Return, Phases

LEMMA StepType ==
  ASSUME TypeOK, NEW p \in Pollers, NEW ph \in Phases, Step(p, ph),
         poll[p].got = NoCorpus <=> ph \in {"idle", "playlist"}
  PROVE  /\ poll' \in [Pollers -> Poll]
         /\ \A q \in Pollers : poll'[q].got = NoCorpus <=> poll'[q].phase \in {"idle", "playlist"}
         /\ \A q \in Pollers : q # p => poll'[q] = poll[q]
         /\ poll'[p] = [phase |-> ph, got |-> poll[p].got]
  BY DEF TypeOK, Poll, Step

LEMMA HearType ==
  ASSUME TypeOK, NEW p \in Pollers, Hear(p)
  PROVE  /\ poll' \in [Pollers -> Poll]
         /\ \A q \in Pollers : poll'[q].got = NoCorpus <=> poll'[q].phase \in {"idle", "playlist"}
         /\ \A q \in Pollers : q # p => poll'[q] = poll[q]
         /\ poll'[p] = [phase |-> "answered", got |-> server]
  <1>1. server \in Corpora /\ server # NoCorpus
    BY NoCorpusIsNone DEF TypeOK
  <1> QED BY <1>1, PollType DEF Hear, Phases

LEMMA DownloadsSame ==
  ASSUME DownloadsTypeOK, UNCHANGED assetVars
  PROVE  DownloadsTypeOK'
  BY DEF DownloadsTypeOK, assetVars

LEMMA CacheSame ==
  ASSUME CacheTypeOK, UNCHANGED cacheVars
  PROVE  CacheTypeOK'
  BY DEF CacheTypeOK, cacheVars, Exists

-----------------------------------------------------------------------------
(* Every step keeps it *)

LEMMA InitApply == Init => ApplyInv
  <1> SUFFICES ASSUME Init PROVE ApplyInv
    OBVIOUS
  <1>1. CacheTypeOK
    BY NoCorpusIsNone DEF Init, CacheInit, CacheTypeOK, File, Absent, Exists
  <1>2. DownloadsTypeOK
    BY DEF Init, DownloadsInit, DownloadsTypeOK, Content, Pass, NoPass
  <1>3. /\ server \in Corpora
        /\ running \in Corpora \cup {NoCorpus}
        /\ rolledBack \in BOOLEAN
        /\ health \in Health
        /\ budget \in Budget
    BY PlayerAssumption, CacheAssumption DEF Init, Health
  <1>4. /\ poll \in [Pollers -> Poll]
        /\ \A p \in Pollers : poll[p].got = NoCorpus <=> poll[p].phase \in {"idle", "playlist"}
    BY DEF Init, Poll, IdlePoll, Phases
  <1>5. \A p \in Pollers : ~InApply(p)
    BY DEF Init, InApply, IdlePoll
  <1>6. SnapshotKept
    BY DEF Init, CacheInit, SnapshotKept
  <1> QED BY <1>1, <1>2, <1>3, <1>4, <1>5, <1>6 DEF ApplyInv, TypeOK, OneApplies, StagedIsWhole

LEMMA AnswerKeeps == ASSUME ApplyInv, Answer \/ ForceSync \/ NoAnswer PROVE ApplyInv'
  <1>1. PICK p \in Pollers : Hear(p) \/ Return(p)
    BY DEF Answer, ForceSync, NoAnswer, Pollers
  <1>2. /\ UNCHANGED <<cacheVars, assetVars, server, running, rolledBack, health>>
        /\ budget' \in Budget
    BY BudgetSpent DEF Answer, ForceSync, NoAnswer, ApplyInv, TypeOK
  <1>3. TypeOK'
    BY <1>1, <1>2, HearType, ReturnType, DownloadsSame, CacheSame DEF ApplyInv, TypeOK
  <1>4. \A q \in Pollers : InApply(q)' => InApply(q) /\ poll'[q].got = poll[q].got
    BY <1>1, HearType, ReturnType DEF ApplyInv, InApply
  <1> QED BY <1>2, <1>3, <1>4, QuietKeeps DEF QuietStep

LEMMA SkipKeeps == ASSUME ApplyInv, NEW p \in Pollers, Skip(p) PROVE ApplyInv'
  <1>1. poll[p].got \in Corpora
    BY DEF ApplyInv, TypeOK, Skip, Poll
  <1>2. DownloadsTypeOK'
    BY <1>1, SyncType, DownloadsSame DEF Skip, ApplyInv, TypeOK
  <1>3. TypeOK'
    BY <1>2, ReturnType, CacheSame DEF Skip, ApplyInv, TypeOK
  <1>4. \A q \in Pollers : InApply(q)' => InApply(q) /\ poll'[q].got = poll[q].got
    BY ReturnType DEF Skip, ApplyInv, InApply
  <1> QED BY <1>3, <1>4, QuietKeeps DEF QuietStep, Skip

LEMMA StageKeeps == ASSUME ApplyInv, NEW p \in Pollers, Stage(p) PROVE ApplyInv'
  <1>1. poll[p].got \in Corpora /\ poll[p].got # NoCorpus
    BY DEF ApplyInv, TypeOK, Stage, Poll
  <1>2. CacheTypeOK'
    BY <1>1, CacheType DEF Stage, ApplyInv, TypeOK
  <1>3. "staged" \in Phases
    BY DEF Phases
  <1>4. TypeOK'
    BY <1>1, <1>2, <1>3, StepType, DownloadsSame DEF Stage, ApplyInv, TypeOK
  <1>5. /\ \A q \in Pollers : q # p => poll'[q] = poll[q]
        /\ poll'[p] = [phase |-> "staged", got |-> poll[p].got]
    BY <1>1, <1>3, StepType DEF Stage, ApplyInv, TypeOK
  <1>6. \A q \in Pollers : InApply(q)' => q = p
    BY <1>5 DEF Stage, Applying, InApply
  <1>7. disk'["next"] = Whole(poll[p].got) /\ \A f \in Snapshots \ {"next"} : disk'[f] = disk[f]
    BY DEF Stage, WriteStaging, ApplyInv, TypeOK, CacheTypeOK, Snapshots
  <1>8. StagedIsWhole' /\ OneApplies'
    <2>1. OneApplies'
      BY <1>6 DEF OneApplies
    <2>2. ASSUME NEW q \in Pollers, InApply(q)'
          PROVE  disk'["next"] = Whole(poll'[q].got)
      BY <1>5, <1>6, <1>7, <2>2
    <2> QED BY <2>1, <2>2 DEF StagedIsWhole, Whole
  <1>9. SnapshotKept'
    BY <1>7 DEF ApplyInv, SnapshotKept, Holder, Exists, Load, Snapshots, Stage, WriteStaging
  <1> QED BY <1>4, <1>8, <1>9 DEF ApplyInv

LEMMA StageFailsKeeps == ASSUME ApplyInv, NEW p \in Pollers, StageFails(p) PROVE ApplyInv'
  <1>1. CacheTypeOK' /\ budget' \in Budget
    BY CacheType, BudgetSpent DEF StageFails, ApplyInv, TypeOK
  <1>2. TypeOK'
    BY <1>1, ReturnType, DownloadsSame DEF StageFails, ApplyInv, TypeOK
  <1>3. \A q \in Pollers : ~InApply(q)'
    BY ReturnType DEF StageFails, ApplyInv, Applying, InApply
  <1>4. \A f \in Snapshots \ {"next"} : disk'[f] = disk[f]
    BY DEF StageFails, StagingFails, ApplyInv, TypeOK, CacheTypeOK, Snapshots
  <1>5. SnapshotKept'
    BY <1>4 DEF ApplyInv, SnapshotKept, Holder, Exists, Load, Snapshots, StageFails, StagingFails
  <1> QED BY <1>2, <1>3, <1>5 DEF ApplyInv, OneApplies, StagedIsWhole

LEMMA RotateKeeps == ASSUME ApplyInv, NEW p \in Pollers, RotateStep(p) PROVE ApplyInv'
  <1>1. CacheTypeOK'
    BY CacheType DEF RotateStep, ApplyInv, TypeOK
  <1>2. "rotated" \in Phases /\ poll[p].got # NoCorpus
    BY DEF Phases, RotateStep, ApplyInv, TypeOK
  <1>3. TypeOK'
    BY <1>1, <1>2, StepType, DownloadsSame DEF RotateStep, ApplyInv, TypeOK
  <1>4. /\ \A q \in Pollers : q # p => poll'[q] = poll[q]
        /\ poll'[p] = [phase |-> "rotated", got |-> poll[p].got]
    BY <1>2, StepType DEF RotateStep, ApplyInv, TypeOK
  <1>5. disk'["next"] = disk["next"]
    BY DEF RotateStep, Rotate, Renamed, ApplyInv, TypeOK, CacheTypeOK, Snapshots
  <1>6. StagedIsWhole' /\ OneApplies'
    BY <1>4, <1>5 DEF ApplyInv, StagedIsWhole, OneApplies, Whole, InApply, RotateStep
  <1>7. SnapshotKept'
    <2>1. CASE Exists("current")
      <3>1. disk'["current"] = Absent /\ disk'["previous"] = disk["current"]
        BY <2>1 DEF RotateStep, Rotate, Renamed, ApplyInv, TypeOK, CacheTypeOK, Snapshots
      <3> QED BY <2>1, <3>1 DEF ApplyInv, SnapshotKept, Holder, Exists, Load, Absent, RotateStep, Rotate
    <2>2. CASE ~Exists("current")
      BY <2>2 DEF ApplyInv, SnapshotKept, Holder, Exists, Load, RotateStep, Rotate
    <2> QED BY <2>1, <2>2
  <1> QED BY <1>3, <1>6, <1>7 DEF ApplyInv

LEMMA PromoteKeeps == ASSUME ApplyInv, NEW p \in Pollers, PromoteStep(p) PROVE ApplyInv'
  <1>1. poll[p].got \in Corpora /\ poll[p].got # NoCorpus
    BY DEF ApplyInv, TypeOK, PromoteStep, Poll
  <1>2. disk["next"] = Whole(poll[p].got) /\ Exists("next")
    BY <1>1 DEF ApplyInv, StagedIsWhole, InApply, PromoteStep, Whole, Exists
  <1>3. CacheTypeOK' /\ DownloadsTypeOK'
    BY <1>1, <1>2, CacheType, SyncType DEF PromoteStep, ApplyInv, TypeOK
  <1>4. TypeOK'
    BY <1>1, <1>3, ReturnType DEF PromoteStep, ApplyInv, TypeOK
  <1>5. \A q \in Pollers : ~InApply(q)'
    BY ReturnType DEF PromoteStep, ApplyInv, OneApplies, InApply
  <1>6. disk'["current"] = Whole(poll[p].got) /\ promoted' = poll[p].got
    <2>1. disk'["current"] = disk["next"] /\ promoted' = disk["next"].corpus
      BY DEF PromoteStep, Promote, Renamed, ApplyInv, TypeOK, CacheTypeOK, Snapshots
    <2> QED BY <1>2, <2>1 DEF Whole
  <1>7. SnapshotKept'
    BY <1>1, <1>6 DEF SnapshotKept, Holder, Exists, Load, Whole
  <1> QED BY <1>4, <1>5, <1>7 DEF ApplyInv, OneApplies, StagedIsWhole

LEMMA RenameFailsKeeps == ASSUME ApplyInv, NEW p \in Pollers, RenameFails(p) PROVE ApplyInv'
  <1>1. UNCHANGED <<cacheVars, assetVars, server, running, rolledBack, health>> /\ budget' \in Budget
    BY BudgetSpent DEF RenameFails, ApplyInv, TypeOK
  <1>2. TypeOK'
    BY <1>1, ReturnType, DownloadsSame, CacheSame DEF RenameFails, ApplyInv, TypeOK
  <1>3. \A q \in Pollers : InApply(q)' => InApply(q) /\ poll'[q].got = poll[q].got
    BY ReturnType DEF RenameFails, ApplyInv, InApply
  <1> QED BY <1>1, <1>2, <1>3, QuietKeeps DEF QuietStep

LEMMA PlaylistKeeps == ASSUME ApplyInv, NEW p \in Pollers, PlaylistDone(p) PROVE ApplyInv'
  <1>1. "idle" \in Phases /\ poll[p].got = NoCorpus
    BY DEF Phases, PlaylistDone, ApplyInv, TypeOK
  <1>2. health' \in Health
    BY DEF PlaylistDone, ApplyInv, TypeOK, Health
  <1>3. TypeOK'
    BY <1>1, <1>2, StepType, DownloadsSame, CacheSame DEF PlaylistDone, ApplyInv, TypeOK
  <1>4. \A q \in Pollers : InApply(q)' => InApply(q) /\ poll'[q].got = poll[q].got
    <2>1. /\ \A q \in Pollers : q # p => poll'[q] = poll[q]
          /\ poll'[p] = [phase |-> "idle", got |-> poll[p].got]
      BY <1>1, StepType DEF PlaylistDone, ApplyInv
    <2>2. ~InApply(p)'
      BY <2>1 DEF InApply
    <2>3. \A q \in Pollers : q # p => (InApply(q)' => InApply(q))
      BY <2>1 DEF InApply
    <2> QED BY <2>1, <2>2, <2>3
  <1> QED BY <1>3, <1>4, QuietKeeps DEF QuietStep, PlaylistDone

LEMMA DownloadKeeps ==
  ASSUME ApplyInv, NEW p \in Passes, Download(p) \/ DownloadFails(p)
  PROVE  ApplyInv'
  <1>1. DownloadsTypeOK' /\ budget' \in Budget
    BY OpenType, CompleteType, FailType, BudgetSpent
    DEF Download, DownloadFails, ApplyInv, TypeOK, playerVars
  <1>2. UNCHANGED <<cacheVars, server, running, rolledBack, health, poll>>
    BY DEF Download, DownloadFails, playerVars
  <1>3. TypeOK'
    BY <1>1, <1>2, CacheSame DEF ApplyInv, TypeOK
  <1> QED BY <1>2, <1>3, QuietKeeps DEF QuietStep, InApply

LEMMA OutsideKeeps == ASSUME ApplyInv, Rollback \/ Publish PROVE ApplyInv'
  <1>1. budget' \in Budget /\ UNCHANGED <<cacheVars, assetVars, health, poll>>
    BY BudgetSpent DEF Rollback, Publish, ApplyInv, TypeOK
  <1>2. server' \in Corpora /\ running' \in Corpora \cup {NoCorpus} /\ rolledBack' \in BOOLEAN
    BY DEF Rollback, Publish, ApplyInv, TypeOK, CacheTypeOK, TryLoad, Snapshots, File
  <1>3. TypeOK'
    BY <1>1, <1>2, CacheSame, DownloadsSame DEF ApplyInv, TypeOK
  <1> QED BY <1>1, <1>3, QuietKeeps DEF QuietStep, InApply

LEMMA RestartKeeps == ASSUME ApplyInv, Restart PROVE ApplyInv'
  <1>1. PICK lost \in SUBSET Snapshots : disk' = Torn(lost)
    BY DEF Restart
  <1>2. PICK torn, empty : Reboot(torn, empty)
    BY DEF Restart
  <1>3. CacheTypeOK' /\ DownloadsTypeOK' /\ budget' \in Budget
    BY <1>1, <1>2, CacheType, RebootType, BudgetSpent DEF Restart, ApplyInv, TypeOK
  <1>4. running' \in Corpora \cup {NoCorpus}
    <2>1. running' = Load(disk')
      BY DEF Restart
    <2> QED BY <1>3, <2>1, CacheAssumption DEF CacheTypeOK, Load, File, Snapshots
  <1>5. /\ poll' \in [Pollers -> Poll]
        /\ \A p \in Pollers : poll'[p].got = NoCorpus /\ poll'[p].phase = "idle"
    BY DEF Restart, Poll, IdlePoll, Phases
  <1>6. TypeOK'
    BY <1>3, <1>4, <1>5 DEF TypeOK, ApplyInv, Restart, Health
  <1>7. \A p \in Pollers : ~InApply(p)'
    BY <1>5 DEF InApply
  <1>8. \A f \in Snapshots : disk'[f].corpus = disk[f].corpus /\ (disk'[f].ok => disk[f].ok)
    BY <1>1 DEF Torn, ApplyInv, TypeOK, CacheTypeOK, File
  <1>9. SnapshotKept'
    BY <1>3, <1>8 DEF ApplyInv, TypeOK, CacheTypeOK, SnapshotKept, Holder, Exists, Load, Restart, Snapshots
  <1> QED BY <1>6, <1>7, <1>9 DEF ApplyInv, OneApplies, StagedIsWhole

LEMMA ApplyStep == ApplyInv /\ [Next]_vars => ApplyInv'
  <1> SUFFICES ASSUME ApplyInv, [Next]_vars PROVE ApplyInv'
    OBVIOUS
  <1>1. CASE UNCHANGED vars
    <2>1. /\ UNCHANGED <<cacheVars, assetVars>>
          /\ UNCHANGED <<server, running, rolledBack, health, poll, budget>>
      BY <1>1 DEF vars, cacheVars, assetVars
    <2>2. TypeOK'
      BY <2>1, CacheSame, DownloadsSame DEF ApplyInv, TypeOK
    <2> QED BY <2>1, <2>2, QuietKeeps DEF QuietStep, InApply
  <1>2. CASE Answer \/ NoAnswer \/ ForceSync
    BY <1>2, AnswerKeeps
  <1>3. CASE Rollback \/ Publish
    BY <1>3, OutsideKeeps
  <1>4. CASE Restart
    BY <1>4, RestartKeeps
  <1>5. CASE \E p \in Pollers : PollStep(p)
    BY <1>5, SkipKeeps, StageKeeps, StageFailsKeeps, RotateKeeps, PromoteKeeps,
       RenameFailsKeeps, PlaylistKeeps
    DEF PollStep
  <1>6. CASE \E p \in Passes : Download(p) \/ DownloadFails(p)
    BY <1>6, DownloadKeeps
  <1> QED BY <1>1, <1>2, <1>3, <1>4, <1>5, <1>6 DEF Next

\* PlayerRuntime.tla:TypeOK, for any bounds: it needs that only one caller is inside
\* apply() and that the staging file is there when it is promoted.
THEOREM TypeCorrect == Spec => []TypeOK
  <1>1. ApplyInv => TypeOK
    BY DEF ApplyInv
  <1> QED BY <1>1, InitApply, ApplyStep, PTL DEF Spec

\* The corpus promoted last survives every crash in the middle of the next apply(): it is
\* in the first file load() looks at (corpus-cache.ts:88-122).
THEOREM PromotedIsKept == Spec => []SnapshotKept
  <1>1. ApplyInv => SnapshotKept
    BY DEF ApplyInv
  <1> QED BY <1>1, InitApply, ApplyStep, PTL DEF Spec

-----------------------------------------------------------------------------
(* The invariant of the downloads *)

\* An asset that was never spoiled has one writer, whose temporary file is its own.
OneWriter == \A a \in Assets \ spoiled : \A p, q \in Passes :
               pass[p].at = a /\ pass[q].at = a => p = q
CleanWriter == \A a \in Assets \ spoiled : \A p \in Passes :
                 pass[p].at = a => pass[p].to = "tmp" /\ pass[p].clean
NeverPart == \A a \in Assets \ spoiled : dest[a] # "part"
RegisteredExists == \A a \in registry : dest[a] # "none"

FilesInv == OneWriter /\ CleanWriter /\ NeverPart /\ RegisteredExists

\* While no pass has outlived its corpus, passes and registry belong to the last sync.
SyncInv == ~survived => /\ registry \subseteq required
                        /\ \A p \in Passes : /\ pass[p].left \subseteq required
                                             /\ pass[p].at \in required \cup {NoAsset}

LEMMA AfterFree ==
  ASSUME NEW q \in Pass
  PROVE  After(q).at = NoAsset /\ After(q).left \subseteq q.left
  BY DEF After, Pass, NoPass

\* What syncFromCorpus() does to the passes: nothing, or a new one in a free place.
LEMMA SyncPasses ==
  ASSUME DownloadsTypeOK, NEW assets \in Corpora, Sync(assets)
  PROVE  /\ UNCHANGED <<dest, tmp, spoiled>>
         /\ required' = assets
         /\ registry' = {a \in assets : dest[a] # "none"}
         /\ survived' = (survived \/ \E p \in Passes : Active(p))
         /\ \A p \in Passes : \/ pass'[p] = pass[p]
                              \/ /\ ~Active(p)
                                 /\ pass'[p].at = NoAsset
                                 /\ pass'[p].left \subseteq assets
  <1> DEFINE missing == assets \ {a \in assets : Verified(a)}
  <1>1. CASE UNCHANGED pass
    BY <1>1 DEF Sync, Verified
  <1>2. CASE ~UNCHANGED pass
    <2>1. PICK p \in FreePasses : pass' = [pass EXCEPT ![p] = [NoPass EXCEPT !.left = missing]]
      BY <1>2 DEF Sync
    <2>2. p \in Passes /\ ~Active(p) /\ missing \subseteq assets
      BY DEF FreePasses
    <2>3. pass'[p] = [NoPass EXCEPT !.left = missing]
      BY <2>1, <2>2 DEF DownloadsTypeOK
    <2>4. pass'[p].at = NoAsset /\ pass'[p].left \subseteq assets
      BY <2>2, <2>3 DEF NoPass
    <2>5. \A q \in Passes : q # p => pass'[q] = pass[q]
      BY <2>1, <2>2 DEF DownloadsTypeOK
    <2> QED BY <2>2, <2>4, <2>5 DEF Sync, Verified
  <1> QED BY <1>1, <1>2

LEMMA SyncKeeps ==
  ASSUME DownloadsTypeOK, FilesInv, SyncInv, NEW assets \in Corpora, Sync(assets)
  PROVE  FilesInv' /\ SyncInv'
  <1> USE SyncPasses
  <1>1. NoAsset \notin Assets
    BY CorporaAssumption
  <1>2. OneWriter' /\ CleanWriter'
    BY <1>1 DEF FilesInv, OneWriter, CleanWriter
  <1>3. NeverPart' /\ RegisteredExists'
    BY DEF FilesInv, NeverPart, RegisteredExists
  <1>4. SyncInv'
    BY DEF SyncInv, Active
  <1> QED BY <1>2, <1>3, <1>4 DEF FilesInv

LEMMA OpenKeeps ==
  ASSUME DownloadsTypeOK, FilesInv, SyncInv, NEW p \in Passes, Open(p)
  PROVE  FilesInv' /\ SyncInv'
  <1> DEFINE others(a) == {q \in Passes \ {p} : Writing(q, a)}
             truncated(a) == {q \in others(a) : pass[q].to = "tmp"}
  <1>1. PICK a \in pass[p].left :
          /\ pass' = [q \in Passes |->
                        IF q = p THEN [left |-> pass[p].left \ {a}, at |-> a, to |-> "tmp", clean |-> TRUE]
                        ELSE IF q \in truncated(a) THEN [pass[q] EXCEPT !.clean = FALSE]
                        ELSE pass[q]]
          /\ spoiled' = IF others(a) = {} THEN spoiled ELSE spoiled \cup {a}
    BY DEF Open
  <1>2. /\ pass'[p] = [left |-> pass[p].left \ {a}, at |-> a, to |-> "tmp", clean |-> TRUE]
        /\ \A q \in Passes \ {p} : /\ pass'[q].at = pass[q].at
                                   /\ pass'[q].left = pass[q].left
                                   /\ pass[q].at # a => pass'[q] = pass[q]
    BY <1>1 DEF DownloadsTypeOK, Pass, Writing
  <1>3. spoiled \subseteq spoiled' /\ UNCHANGED <<dest, registry, required, survived>>
    BY <1>1 DEF Open
  <1>4. a \notin spoiled' => \A q \in Passes \ {p} : pass[q].at # a
    BY <1>1 DEF Writing
  <1>5. OneWriter'
    BY <1>2, <1>3, <1>4 DEF FilesInv, OneWriter
  <1>6. CleanWriter'
    BY <1>2, <1>3, <1>4 DEF FilesInv, CleanWriter
  <1>7. NeverPart' /\ RegisteredExists'
    BY <1>3 DEF FilesInv, NeverPart, RegisteredExists
  <1>8. SyncInv'
    BY <1>2, <1>3 DEF SyncInv
  <1> QED BY <1>5, <1>6, <1>7, <1>8 DEF FilesInv

LEMMA CompleteKeeps ==
  ASSUME DownloadsTypeOK, FilesInv, SyncInv, NEW p \in Passes, Complete(p)
  PROVE  FilesInv' /\ SyncInv'
  <1> DEFINE a == pass[p].at
             moves == pass[p].to = "tmp" \/ a \in tmp
  <1>1. a \in Assets /\ pass[p] \in Pass /\ NoAsset \notin Assets
    BY CorporaAssumption DEF Complete, DownloadsTypeOK, Pass
  <1>2. /\ pass'[p] = After(pass[p])
        /\ \A q \in Passes \ {p} : /\ pass'[q].at = pass[q].at
                                   /\ pass'[q].left = pass[q].left
                                   /\ pass[q].at # a => pass'[q] = pass[q]
    BY DEF Complete, DownloadsTypeOK, Pass
  <1>3. pass'[p].at = NoAsset /\ pass'[p].left \subseteq pass[p].left
    BY <1>1, <1>2, AfterFree
  <1>4. UNCHANGED <<spoiled, required, survived>> /\ registry' \subseteq registry \cup {a}
    BY DEF Complete
  <1>5. \A b \in Assets : b # a => dest'[b] = dest[b]
    BY DEF Complete, DownloadsTypeOK
  <1>6. a \notin spoiled => dest'[a] = "whole"
    BY <1>1 DEF Complete, FilesInv, CleanWriter, Written, DownloadsTypeOK
  <1>7. a \in registry' => dest'[a] # "none"
    BY <1>1 DEF Complete, FilesInv, RegisteredExists, Written, DownloadsTypeOK
  <1>8. OneWriter' /\ CleanWriter'
    <2>1. \A b \in Assets \ spoiled, q \in Passes :
             pass'[q].at = b => q # p /\ pass[q].at = b
      BY <1>1, <1>2, <1>3
    <2>2. OneWriter'
      BY <1>4, <2>1 DEF FilesInv, OneWriter
    <2>3. \A q \in Passes \ {p} : a \notin spoiled => pass[q].at # a
      BY <1>1 DEF FilesInv, OneWriter
    <2>4. \A b \in Assets \ spoiled, q \in Passes :
             pass'[q].at = b => pass'[q] = pass[q] /\ pass[q].at = b
      BY <1>2, <2>1, <2>3
    <2>5. CleanWriter'
      BY <1>4, <2>4 DEF FilesInv, CleanWriter
    <2> QED BY <2>2, <2>5
  <1>9. NeverPart'
    BY <1>4, <1>5, <1>6 DEF FilesInv, NeverPart
  <1>10. RegisteredExists'
    BY <1>4, <1>5, <1>7 DEF FilesInv, RegisteredExists, DownloadsTypeOK
  <1>11. SyncInv'
    BY <1>1, <1>2, <1>3, <1>4 DEF SyncInv
  <1> QED BY <1>8, <1>9, <1>10, <1>11 DEF FilesInv

LEMMA FailKeeps ==
  ASSUME DownloadsTypeOK, FilesInv, SyncInv, NEW p \in Passes, FetchFails(p) \/ WriteFails(p)
  PROVE  FilesInv' /\ SyncInv'
  <1>1. UNCHANGED <<dest, registry, required, spoiled, survived>> /\ NoAsset \notin Assets
    BY CorporaAssumption DEF FetchFails, WriteFails
  <1>2. pass'[p].at = NoAsset /\ pass'[p].left \subseteq pass[p].left
    <2>1. CASE FetchFails(p)
      <3>1. PICK a \in pass[p].left :
              pass' = [pass EXCEPT ![p] = After([pass[p] EXCEPT !.left = pass[p].left \ {a}])]
        BY <2>1 DEF FetchFails
      <3> DEFINE q == [pass[p] EXCEPT !.left = pass[p].left \ {a}]
      <3>2. q \in Pass /\ q.left \subseteq pass[p].left
        BY DEF DownloadsTypeOK, Pass
      <3>3. pass'[p] = After(q)
        BY <3>1 DEF DownloadsTypeOK
      <3> QED BY <3>2, <3>3, AfterFree
    <2>2. CASE WriteFails(p)
      <3>1. pass'[p] = After(pass[p]) /\ pass[p] \in Pass
        BY <2>2 DEF WriteFails, DownloadsTypeOK
      <3> QED BY <3>1, AfterFree
    <2> QED BY <2>1, <2>2
  <1>3. \A q \in Passes \ {p} : /\ pass'[q].at = pass[q].at
                                /\ pass'[q].left = pass[q].left
                                /\ pass[q].at \notin {pass[p].at} \cap Assets => pass'[q] = pass[q]
    <2>1. CASE FetchFails(p)
      BY <2>1 DEF FetchFails, DownloadsTypeOK
    <2>2. CASE WriteFails(p)
      <3>1. \A q \in Passes \ {p} :
              pass'[q] = IF pass[q].at = pass[p].at /\ pass[q].to = "tmp"
                         THEN [pass[q] EXCEPT !.to = "gone"] ELSE pass[q]
        BY <2>2 DEF WriteFails
      <3>2. pass[p].at \in Assets
        BY <2>2 DEF WriteFails, DownloadsTypeOK, Pass
      <3>3. \A q \in Passes : pass[q] \in Pass
        BY DEF DownloadsTypeOK
      <3> QED BY <3>1, <3>2, <3>3 DEF Pass
    <2> QED BY <2>1, <2>2
  <1>4. \A b \in Assets \ spoiled, q \in Passes :
           pass'[q].at = b => q # p /\ pass[q].at = b /\ pass'[q] = pass[q]
    <2>1. \A q \in Passes \ {p} : pass[q].at \in Assets \ spoiled => pass[q].at # pass[p].at
      BY DEF FilesInv, OneWriter
    <2> QED BY <1>1, <1>2, <1>3, <2>1
  <1>5. OneWriter' /\ CleanWriter'
    BY <1>1, <1>4 DEF FilesInv, OneWriter, CleanWriter
  <1>6. NeverPart' /\ RegisteredExists'
    BY <1>1 DEF FilesInv, NeverPart, RegisteredExists
  <1>7. SyncInv'
    BY <1>1, <1>2, <1>3 DEF SyncInv
  <1> QED BY <1>5, <1>6, <1>7 DEF FilesInv

LEMMA RebootKeeps ==
  ASSUME DownloadsTypeOK, FilesInv, NEW torn, NEW empty, Reboot(torn, empty)
  PROVE  FilesInv' /\ SyncInv'
  <1>1. \A p \in Passes : pass'[p].at = NoAsset /\ pass'[p].left = {}
    BY DEF Reboot, NoPass
  <1>2. NeverPart'
    BY DEF Reboot, FilesInv, NeverPart
  <1>3. RegisteredExists'
    BY DEF Reboot, RegisteredExists
  <1>4. OneWriter' /\ CleanWriter' /\ SyncInv'
    BY <1>1, CorporaAssumption DEF OneWriter, CleanWriter, SyncInv, Reboot
  <1> QED BY <1>2, <1>3, <1>4 DEF FilesInv

-----------------------------------------------------------------------------
(* The theorems about assets *)

IInv == ApplyInv /\ FilesInv /\ SyncInv

LEMMA InitInv == Init => IInv
  <1> SUFFICES ASSUME Init PROVE IInv
    OBVIOUS
  <1>1. FilesInv /\ SyncInv
    BY CorporaAssumption
    DEF Init, DownloadsInit, NoPass, FilesInv, OneWriter, CleanWriter, NeverPart, RegisteredExists, SyncInv
  <1> QED BY <1>1, InitApply DEF IInv

LEMMA AssetsSame ==
  ASSUME FilesInv, SyncInv, UNCHANGED assetVars
  PROVE  FilesInv' /\ SyncInv'
  BY DEF assetVars, FilesInv, OneWriter, CleanWriter, NeverPart, RegisteredExists, SyncInv

LEMMA StepInv == IInv /\ [Next]_vars => IInv'
  <1> SUFFICES ASSUME IInv, [Next]_vars PROVE FilesInv' /\ SyncInv'
    BY ApplyStep DEF IInv
  <1> USE DEF IInv, ApplyInv, TypeOK
  <1>1. CASE UNCHANGED vars
    BY <1>1, AssetsSame DEF vars, assetVars
  <1>2. CASE Answer \/ NoAnswer \/ ForceSync \/ Rollback \/ Publish
    BY <1>2, AssetsSame DEF Answer, NoAnswer, ForceSync, Rollback, Publish
  <1>3. CASE Restart
    BY <1>3, RebootKeeps DEF Restart
  <1>4. ASSUME NEW p \in Pollers, PollStep(p)
        PROVE  FilesInv' /\ SyncInv'
    <2>1. CASE Skip(p) \/ PromoteStep(p)
      <3>1. poll[p].got \in Corpora
        BY <2>1 DEF Skip, PromoteStep, Poll
      <3> QED BY <2>1, <3>1, SyncKeeps, AssetsSame DEF Skip, PromoteStep
    <2>2. CASE Stage(p) \/ StageFails(p) \/ RotateStep(p) \/ RenameFails(p) \/ PlaylistDone(p)
      BY <2>2, AssetsSame DEF Stage, StageFails, RotateStep, RenameFails, PlaylistDone
    <2> QED BY <1>4, <2>1, <2>2 DEF PollStep
  <1>5. CASE \E p \in Passes : Download(p) \/ DownloadFails(p)
    BY <1>5, OpenKeeps, CompleteKeeps, FailKeeps DEF Download, DownloadFails
  <1> QED BY <1>1, <1>2, <1>3, <1>4, <1>5 DEF Next

LEMMA ReadyMeans ==
  ASSUME IInv
  PROVE  ReadyIsComplete
  <1> SUFFICES ASSUME Readiness = "READY", ~survived
               PROVE  required \subseteq registry
    BY DEF ReadyIsComplete
  <1>1. registry \subseteq required /\ required \subseteq Assets
    BY DEF IInv, SyncInv, ApplyInv, TypeOK, DownloadsTypeOK
  <1>2. IsFiniteSet(required)
    BY <1>1, CorporaAssumption, FS_Subset
  <1>3. Cardinality(registry) = Cardinality(required)
    BY DEF Readiness
  <1> QED BY <1>1, <1>2, <1>3, FS_Subset

\* A registered asset is a whole file unless two passes wrote it at once or the power tore
\* it: the rename after the download is what keeps every other failure out
\* (asset-download-manager.ts:158-192).
THEOREM RegisteredAreWhole == Spec => []RegisteredIsWhole
  <1>1. IInv => RegisteredIsWhole
    <2> SUFFICES ASSUME IInv, NEW a \in registry \ spoiled
                 PROVE  dest[a] = "whole"
      BY DEF RegisteredIsWhole
    <2>1. a \in Assets /\ dest[a] \in Content
      BY DEF IInv, ApplyInv, TypeOK, DownloadsTypeOK
    <2> QED BY <2>1 DEF IInv, FilesInv, RegisteredExists, NeverPart, Content
  <1> QED BY <1>1, InitInv, StepInv, PTL DEF Spec

\* The comparison of two numbers in syncContentReadiness() is enough as long as no pass
\* outlives its corpus (orchestrator.ts:609-617).
THEOREM ReadyAreComplete == Spec => []ReadyIsComplete
  <1> QED BY ReadyMeans, InitInv, StepInv, PTL DEF Spec

\* What HEALTHY means although G-10 does not hold: no two numbers are equal by accident
\* unless a pass outlived its corpus (orchestrator.ts:609-644).
THEOREM HealthyMeansReady == Spec => HealthyMeansVerified
  <1> DEFINE A == health' = "HEALTHY" /\ health # "HEALTHY" /\ ~survived => required \subseteq registry
  <1>1. IInv /\ [Next]_vars => [A]_vars
    <2> SUFFICES ASSUME IInv, Next, health' = "HEALTHY", health # "HEALTHY", ~survived
                 PROVE  required \subseteq registry
      OBVIOUS
    <2>1. PICK p \in Pollers : PlaylistDone(p)
      BY DEF Next, Answer, NoAnswer, ForceSync, Rollback, Publish, Restart, PollStep, Skip, Stage,
             StageFails, RotateStep, PromoteStep, RenameFails, Download, DownloadFails, playerVars
    <2>2. Readiness = "READY"
      BY <2>1 DEF PlaylistDone
    <2> QED BY <2>2, ReadyMeans DEF ReadyIsComplete
  <1> QED BY <1>1, InitInv, StepInv, PTL DEF Spec, HealthyMeansVerified

-----------------------------------------------------------------------------
(* The atomicity of apply() *)

\* Staging touches neither file that load() looks at.
LEMMA StagingIsUnseen ==
  ASSUME TypeOK, StagingFails \/ \E c \in Corpora : WriteStaging(c)
  PROVE  Load(disk') = Load(disk)
  BY DEF TypeOK, CacheTypeOK, StagingFails, WriteStaging, Load, Snapshots

\* Between the two renames load() falls back on the snapshot that was current.
LEMMA RotateLoads ==
  ASSUME TypeOK, Rotate
  PROVE  \/ Load(disk') = Load(disk)
         \/ Exists("current") /\ ~disk["current"].ok /\ Load(disk') = Factory
  <1>1. CASE Exists("current")
    <2>1. disk'["current"] = Absent /\ disk'["previous"] = disk["current"]
      BY <1>1 DEF Rotate, Renamed, TypeOK, CacheTypeOK, Snapshots
    <2> QED BY <1>1, <2>1 DEF Load, Absent
  <1>2. CASE ~Exists("current")
    BY <1>2 DEF Rotate
  <1> QED BY <1>1, <1>2

LEMMA PromoteLoads ==
  ASSUME ApplyInv, NEW p \in Pollers, PromoteStep(p)
  PROVE  Load(disk') = poll[p].got
  <1>1. disk["next"] = Whole(poll[p].got)
    BY DEF ApplyInv, StagedIsWhole, InApply, PromoteStep
  <1>2. disk'["current"] = disk["next"]
    BY DEF PromoteStep, Promote, Renamed, ApplyInv, TypeOK, CacheTypeOK, Snapshots
  <1> QED BY <1>1, <1>2 DEF Load, Whole

LEMMA RestartLoads ==
  ASSUME ApplyInv, Restart
  PROVE  \/ Load(disk') = Load(disk)
         \/ Load(disk') \in {TryLoad(disk, "previous"), Factory}
  <1>1. PICK lost \in SUBSET Snapshots : disk' = Torn(lost)
    BY DEF Restart
  <1>2. \A f \in Snapshots : /\ disk'[f].corpus = disk[f].corpus
                             /\ disk'[f].ok => disk[f].ok
    BY <1>1 DEF Torn, ApplyInv, TypeOK, CacheTypeOK, File
  <1>3. "current" \in Snapshots /\ "previous" \in Snapshots
    BY DEF Snapshots
  <1> QED BY <1>2, <1>3 DEF Load, TryLoad

\* apply() is atomic for every kill between its file operations, and the one case in which
\* it is not is the one the comment leaves out (corpus-cache.ts:76-122).
THEOREM ApplyAtomic == Spec => ApplyIsAtomic
  <1> DEFINE A == \/ Load(disk') = Load(disk)
                  \/ \E p \in Pollers : PromoteStep(p) /\ Load(disk') = poll[p].got
                  \/ Restart /\ Load(disk') \in {TryLoad(disk, "previous"), Factory}
                  \/ \E p \in Pollers : /\ RotateStep(p)
                                        /\ Exists("current") /\ ~disk["current"].ok
                                        /\ Load(disk') = Factory
  <1>1. ApplyInv /\ [Next]_vars => [A]_vars
    <2> SUFFICES ASSUME ApplyInv, Next PROVE A
      OBVIOUS
    <2>1. CASE Answer \/ NoAnswer \/ ForceSync \/ Rollback \/ Publish
      BY <2>1 DEF Answer, NoAnswer, ForceSync, Rollback, Publish, cacheVars
    <2>2. CASE Restart
      BY <2>2, RestartLoads
    <2>3. ASSUME NEW p \in Pollers, PollStep(p)
          PROVE  A
      <3>1. CASE Skip(p) \/ RenameFails(p) \/ PlaylistDone(p)
        BY <3>1 DEF Skip, RenameFails, PlaylistDone, cacheVars
      <3>2. CASE Stage(p) \/ StageFails(p)
        <4>1. StagingFails \/ WriteStaging(poll[p].got)
          BY <3>2 DEF Stage, StageFails
        <4>2. Stage(p) => poll[p].got \in Corpora
          BY DEF Stage, ApplyInv, TypeOK, Poll
        <4> QED BY <3>2, <4>1, <4>2, StagingIsUnseen DEF ApplyInv, Stage, StageFails
      <3>3. CASE RotateStep(p)
        BY <3>3, RotateLoads DEF RotateStep, ApplyInv
      <3>4. CASE PromoteStep(p)
        BY <3>4, PromoteLoads
      <3> QED BY <2>3, <3>1, <3>2, <3>3, <3>4 DEF PollStep
    <2>4. CASE \E p \in Passes : Download(p) \/ DownloadFails(p)
      BY <2>4 DEF Download, DownloadFails, cacheVars
    <2> QED BY <2>1, <2>2, <2>3, <2>4 DEF Next
  <1> QED BY <1>1, InitApply, ApplyStep, PTL DEF Spec, ApplyIsAtomic

-----------------------------------------------------------------------------
(* The invariant of the passes *)

\* While no pass has outlived its corpus there is at most one, and the flag tells of it.
FlagExact == ~survived => /\ downloading <=> \E p \in Passes : Active(p)
                          /\ \A p, q \in Passes : Active(p) /\ Active(q) => p = q

PassInv == FlagExact /\ NoneForgotten

\* downloadAll() goes on: what is left stays left.
LEMMA AfterLeaves ==
  ASSUME NEW q \in Pass
  PROVE  After(q).at = NoAsset /\ After(q).left = q.left
  BY DEF After, Pass, NoPass

\* syncFromCorpus() leaves every missing asset to a new pass, or there is none.
LEMMA SyncLeaves ==
  ASSUME DownloadsTypeOK, NEW assets \in Corpora, Sync(assets)
  PROVE  \/ /\ required' \subseteq registry'
            /\ UNCHANGED <<pass, downloading>>
         \/ \E p \in Passes : /\ required' \ registry' = pass'[p].left
                              /\ pass'[p].left # {}
                              /\ \A q \in Passes \ {p} : pass'[q] = pass[q]
                              /\ downloading'
  <1> DEFINE missing == assets \ {a \in assets : Verified(a)}
  <1>1. required' \ registry' = missing
    BY DEF Sync
  <1>2. CASE missing = {}
    BY <1>1, <1>2 DEF Sync
  <1>3. CASE missing # {}
    <2>1. PICK p \in Passes : pass' = [pass EXCEPT ![p] = [NoPass EXCEPT !.left = missing]]
      BY <1>3 DEF Sync, FreePasses
    <2>2. /\ pass'[p] = [NoPass EXCEPT !.left = missing]
          /\ \A q \in Passes \ {p} : pass'[q] = pass[q]
      BY <2>1 DEF DownloadsTypeOK
    <2>3. pass'[p].left = missing
      BY <2>2 DEF NoPass
    <2>4. downloading' = TRUE
      BY <1>3 DEF Sync
    <2> QED BY <1>1, <1>3, <2>2, <2>3, <2>4
  <1> QED BY <1>2, <1>3

LEMMA SyncPassKeeps ==
  ASSUME DownloadsTypeOK, PassInv, NEW assets \in Corpora, Sync(assets)
  PROVE  PassInv'
  <1>1. ~survived' => ~survived /\ \A p \in Passes : ~Active(p)
    BY DEF Sync
  <1>2. CASE required' \subseteq registry' /\ UNCHANGED <<pass, downloading>>
    BY <1>1, <1>2 DEF PassInv, FlagExact, NoneForgotten, Active
  <1>3. CASE \E p \in Passes : /\ required' \ registry' = pass'[p].left
                               /\ pass'[p].left # {}
                               /\ \A q \in Passes \ {p} : pass'[q] = pass[q]
                               /\ downloading'
    <2>1. PICK p \in Passes : /\ required' \ registry' = pass'[p].left
                              /\ pass'[p].left # {}
                              /\ \A q \in Passes \ {p} : pass'[q] = pass[q]
                              /\ downloading'
      BY <1>3
    <2>2. FlagExact'
      BY <1>1, <2>1 DEF FlagExact, Active
    <2>3. NoneForgotten'
      BY <2>1 DEF NoneForgotten
    <2> QED BY <2>2, <2>3 DEF PassInv
  <1> QED BY <1>2, <1>3, SyncLeaves

LEMMA OpenPassKeeps ==
  ASSUME DownloadsTypeOK, PassInv, NEW p \in Passes, Open(p)
  PROVE  PassInv'
  <1> DEFINE truncated(a) == {q \in {q \in Passes \ {p} : Writing(q, a)} : pass[q].to = "tmp"}
  <1>1. PICK a \in pass[p].left :
          pass' = [q \in Passes |->
                     IF q = p THEN [left |-> pass[p].left \ {a}, at |-> a, to |-> "tmp", clean |-> TRUE]
                     ELSE IF q \in truncated(a) THEN [pass[q] EXCEPT !.clean = FALSE]
                     ELSE pass[q]]
    BY DEF Open
  <1>2. /\ pass'[p].left = pass[p].left \ {a} /\ pass'[p].at = a
        /\ \A q \in Passes \ {p} : pass'[q].at = pass[q].at /\ pass'[q].left = pass[q].left
    BY <1>1 DEF DownloadsTypeOK, Pass
  <1>3. a \in Assets /\ NoAsset \notin Assets
    BY CorporaAssumption DEF DownloadsTypeOK, Pass
  <1>4. \A q \in Passes : Active(q)' <=> Active(q)
    BY <1>2, <1>3 DEF Active
  <1>5. FlagExact'
    BY <1>4 DEF PassInv, FlagExact, Open
  <1>6. NoneForgotten'
    <2>1. UNCHANGED <<required, registry, failed>>
      BY DEF Open
    <2>2. ASSUME NEW b, NEW q \in Passes, b \in pass[q].left \/ pass[q].at = b, b # NoAsset
          PROVE  b \in pass'[q].left \/ pass'[q].at = b
      BY <1>2, <2>2 DEF Open
    <2>3. required \subseteq Assets
      BY DEF DownloadsTypeOK
    <2> QED BY <1>3, <2>1, <2>2, <2>3 DEF PassInv, NoneForgotten
  <1> QED BY <1>5, <1>6 DEF PassInv

\* A pass ends its asset: the flag falls with the last one.
LEMMA FlagKept ==
  ASSUME FlagExact, NEW p \in Passes, Active(p), UNCHANGED survived,
         \A q \in Passes \ {p} : Active(q)' <=> Active(q),
         downloading' = (downloading /\ Active(p)')
  PROVE  FlagExact'
  BY DEF FlagExact

LEMMA CompletePassKeeps ==
  ASSUME DownloadsTypeOK, PassInv, NEW p \in Passes, Complete(p)
  PROVE  PassInv'
  <1> DEFINE a == pass[p].at
             moves == pass[p].to = "tmp" \/ a \in tmp
  <1>1. pass[p] \in Pass
    BY DEF DownloadsTypeOK
  <1>2. /\ pass'[p] = After(pass[p])
        /\ \A q \in Passes \ {p} : pass'[q].at = pass[q].at /\ pass'[q].left = pass[q].left
    BY DEF Complete, DownloadsTypeOK, Pass
  <1>3. pass'[p].at = NoAsset /\ pass'[p].left = pass[p].left
    BY <1>1, <1>2, AfterLeaves
  <1>4. /\ registry' = IF moves THEN registry \cup {a} ELSE registry
        /\ failed' = (failed \/ ~moves)
        /\ UNCHANGED <<required, survived>>
        /\ downloading' = (downloading /\ pass[p].left # {})
        /\ pass[p].at # NoAsset
    BY DEF Complete, Finished
  <1>5. FlagExact'
    BY <1>2, <1>3, <1>4, FlagKept DEF PassInv, Active
  <1>6. NoneForgotten'
    BY <1>2, <1>3, <1>4 DEF PassInv, NoneForgotten
  <1> QED BY <1>5, <1>6 DEF PassInv

LEMMA FailPassKeeps ==
  ASSUME DownloadsTypeOK, PassInv, NEW p \in Passes, FetchFails(p) \/ WriteFails(p)
  PROVE  PassInv'
  <1>1. failed' /\ UNCHANGED survived /\ Active(p)
    BY DEF FetchFails, WriteFails, Active
  <1>2. FlagExact'
    <2>1. CASE FetchFails(p)
      <3>1. PICK a \in pass[p].left :
              /\ pass' = [pass EXCEPT ![p] = After([pass[p] EXCEPT !.left = pass[p].left \ {a}])]
              /\ downloading' = (downloading /\ [pass[p] EXCEPT !.left = pass[p].left \ {a}].left # {})
        BY <2>1 DEF FetchFails
      <3> DEFINE q == [pass[p] EXCEPT !.left = pass[p].left \ {a}]
      <3>2. q \in Pass
        BY DEF DownloadsTypeOK, Pass
      <3>3. pass'[p] = After(q) /\ \A r \in Passes \ {p} : pass'[r] = pass[r]
        BY <3>1 DEF DownloadsTypeOK
      <3>4. Active(p)' <=> q.left # {}
        BY <3>2, <3>3, AfterLeaves DEF Active
      <3>5. downloading' = (downloading /\ Active(p)')
        BY <3>1, <3>4 DEF DownloadsTypeOK
      <3> QED BY <1>1, <3>3, <3>5, FlagKept DEF PassInv, Active
    <2>2. CASE WriteFails(p)
      <3>1. pass[p] \in Pass
        BY DEF DownloadsTypeOK
      <3>2. /\ pass'[p] = After(pass[p])
            /\ \A q \in Passes \ {p} : pass'[q].at = pass[q].at /\ pass'[q].left = pass[q].left
        BY <2>2 DEF WriteFails, DownloadsTypeOK, Pass
      <3>3. Active(p)' <=> pass[p].left # {}
        BY <3>1, <3>2, AfterLeaves DEF Active
      <3>4. downloading' = (downloading /\ Active(p)')
        BY <2>2, <3>3 DEF WriteFails, Finished, DownloadsTypeOK
      <3> QED BY <1>1, <3>2, <3>4, FlagKept DEF PassInv, Active
    <2> QED BY <2>1, <2>2
  <1>3. NoneForgotten'
    BY <1>1 DEF NoneForgotten
  <1> QED BY <1>2, <1>3 DEF PassInv

LEMMA RebootPassKeeps ==
  ASSUME NEW torn, NEW empty, Reboot(torn, empty)
  PROVE  PassInv'
  <1>1. \A p \in Passes : ~Active(p)'
    BY DEF Reboot, NoPass, Active
  <1> QED BY <1>1 DEF Reboot, PassInv, FlagExact, NoneForgotten

LEMMA PassesSame ==
  ASSUME PassInv, UNCHANGED assetVars
  PROVE  PassInv'
  BY DEF assetVars, PassInv, FlagExact, NoneForgotten, Active

LEMMA InitPass == Init => PassInv
  BY DEF Init, DownloadsInit, NoPass, PassInv, FlagExact, NoneForgotten, Active

LEMMA StepPass == IInv /\ PassInv /\ [Next]_vars => PassInv'
  <1> SUFFICES ASSUME IInv, PassInv, [Next]_vars PROVE PassInv'
    OBVIOUS
  <1> USE DEF IInv, ApplyInv, TypeOK
  <1>1. CASE UNCHANGED vars
    BY <1>1, PassesSame DEF vars, assetVars
  <1>2. CASE Answer \/ NoAnswer \/ ForceSync \/ Rollback \/ Publish
    BY <1>2, PassesSame DEF Answer, NoAnswer, ForceSync, Rollback, Publish
  <1>3. CASE Restart
    BY <1>3, RebootPassKeeps DEF Restart
  <1>4. ASSUME NEW p \in Pollers, PollStep(p)
        PROVE  PassInv'
    <2>1. CASE Skip(p) \/ PromoteStep(p)
      <3>1. poll[p].got \in Corpora
        BY <2>1 DEF Skip, PromoteStep, Poll
      <3> QED BY <2>1, <3>1, SyncPassKeeps, PassesSame DEF Skip, PromoteStep
    <2>2. CASE Stage(p) \/ StageFails(p) \/ RotateStep(p) \/ RenameFails(p) \/ PlaylistDone(p)
      BY <2>2, PassesSame DEF Stage, StageFails, RotateStep, RenameFails, PlaylistDone
    <2> QED BY <1>4, <2>1, <2>2 DEF PollStep
  <1>5. CASE \E p \in Passes : Download(p) \/ DownloadFails(p)
    BY <1>5, OpenPassKeeps, CompletePassKeeps, FailPassKeeps DEF Download, DownloadFails
  <1> QED BY <1>1, <1>2, <1>3, <1>4, <1>5 DEF Next

\* No asset of the last corpus drops out of the downloads without a failure, however the
\* passes of several corpora overlap: the safety half of Converges
\* (asset-download-manager.ts:127-192).
THEOREM NoAssetForgotten == Spec => []NoneForgotten
  <1>1. PassInv => NoneForgotten
    BY DEF PassInv
  <1> QED BY <1>1, InitInv, StepInv, InitPass, StepPass, PTL DEF Spec

\* Nothing retries a download, so DEFICIT must not be reported while one is still to come:
\* it is not, unless a pass outlived its corpus (orchestrator.ts:609-625).
THEOREM DeficitsAreFailures == Spec => []DeficitMeansFailed
  <1>1. IInv /\ PassInv => DeficitMeansFailed
    <2> SUFFICES ASSUME IInv, PassInv, Readiness = "DEFICIT", ~survived, ~failed
                 PROVE  FALSE
      BY DEF DeficitMeansFailed
    <2>1. ~downloading /\ Cardinality(registry) # Cardinality(required)
      BY DEF Readiness
    <2>2. \A p \in Passes : pass[p].left = {} /\ pass[p].at = NoAsset
      BY <2>1 DEF PassInv, FlagExact, Active
    <2>3. required \subseteq Assets /\ NoAsset \notin Assets
      BY CorporaAssumption DEF IInv, ApplyInv, TypeOK, DownloadsTypeOK
    <2>4. required \subseteq registry
      BY <2>2, <2>3 DEF PassInv, NoneForgotten
    <2>5. registry \subseteq required
      BY DEF IInv, SyncInv
    <2> QED BY <2>1, <2>4, <2>5
  <1> QED BY <1>1, InitInv, StepInv, InitPass, StepPass, PTL DEF Spec

-----------------------------------------------------------------------------
(* What was asked for last *)

LEMMA SyncAsks == ASSUME NEW c \in Corpora, Sync(c) PROVE required' = c
  BY DEF Sync

\* Only a rollback separates the corpus that runs from the assets asked for: the safety half
\* of what Converges says of required (orchestrator.ts:152-169, 307-346).
THEOREM OnlyRollbackDesyncs == Spec => []SyncedUnlessRolledBack
  <1>1. Init => SyncedUnlessRolledBack
    BY DEF Init, DownloadsInit, SyncedUnlessRolledBack
  <1>2. ApplyInv /\ SyncedUnlessRolledBack /\ [Next]_vars => SyncedUnlessRolledBack'
    <2> SUFFICES ASSUME ApplyInv, SyncedUnlessRolledBack, [Next]_vars
                 PROVE  SyncedUnlessRolledBack'
      OBVIOUS
    <2>1. CASE UNCHANGED vars
      BY <2>1 DEF vars, SyncedUnlessRolledBack
    <2>2. CASE Answer \/ NoAnswer \/ ForceSync \/ Publish
      BY <2>2 DEF Answer, NoAnswer, ForceSync, Publish, assetVars, SyncedUnlessRolledBack
    <2>3. CASE Rollback
      BY <2>3 DEF Rollback, SyncedUnlessRolledBack
    <2>4. CASE Restart
      BY <2>4 DEF Restart, Reboot, SyncedUnlessRolledBack
    <2>5. ASSUME NEW p \in Pollers, PollStep(p)
          PROVE  SyncedUnlessRolledBack'
      <3>1. CASE Skip(p)
        <4>1. poll[p].got \in Corpora
          BY <3>1 DEF Skip, ApplyInv, TypeOK, Poll
        <4>2. CASE required = {}
          BY <3>1, <4>1, <4>2, SyncAsks DEF Skip, SameVersion, SyncedUnlessRolledBack
        <4>3. CASE required # {}
          BY <3>1, <4>3 DEF Skip, assetVars, SyncedUnlessRolledBack
        <4> QED BY <4>2, <4>3
      <3>2. CASE PromoteStep(p)
        <4>1. poll[p].got \in Corpora
          BY <3>2 DEF PromoteStep, ApplyInv, TypeOK, Poll
        <4> QED BY <3>2, <4>1, SyncAsks DEF PromoteStep, SyncedUnlessRolledBack
      <3>3. CASE Stage(p) \/ StageFails(p) \/ RotateStep(p) \/ RenameFails(p) \/ PlaylistDone(p)
        BY <3>3 DEF Stage, StageFails, RotateStep, RenameFails, PlaylistDone, assetVars,
           SyncedUnlessRolledBack
      <3> QED BY <2>5, <3>1, <3>2, <3>3 DEF PollStep
    <2>6. CASE \E p \in Passes : Download(p) \/ DownloadFails(p)
      BY <2>6 DEF Download, DownloadFails, Open, Complete, FetchFails, WriteFails, playerVars,
         SyncedUnlessRolledBack
    <2> QED BY <2>1, <2>2, <2>3, <2>4, <2>5, <2>6 DEF Next
  <1> QED BY <1>1, <1>2, InitApply, ApplyStep, PTL DEF Spec

=============================================================================
