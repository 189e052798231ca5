----------------------------- MODULE CorpusCache -----------------------------
(***************************************************************************)
(* The corpus snapshots a player keeps on its SD card: CorpusCacheManager  *)
(* of src/player-runtime/src/corpus-cache.ts.                              *)
(*                                                                         *)
(* apply() is a sequence of file operations (write the staging file, move  *)
(* current to previous, move staging to current) in one synchronous block: *)
(* no other callback of the player runs in between, but the process or the *)
(* power may go at any of them, and so each is a step here.                *)
(*                                                                         *)
(* The checksum of a file is its flag ok. Nothing calls fsync: a power cut *)
(* may damage any file.                                                    *)
(***************************************************************************)
EXTENDS Corpora

CONSTANT Factory   \* what commissioning wrote to corpus.factory.json, or NoCorpus

ASSUME CacheAssumption == Factory \in Corpora \cup {NoCorpus}

VARIABLES disk,      \* the snapshot files
          promoted   \* history: the corpus of the last apply() that got to its last step

cacheVars == <<disk, promoted>>

-----------------------------------------------------------------------------
(* Files *)

Snapshots == {"current", "previous", "next"}

File == [corpus : Corpora \cup {NoCorpus}, ok : BOOLEAN]

\* Mutant: a file that is missing passes for a valid one.
AbsentIsValid == [corpus |-> NoCorpus, ok |-> TRUE]

Absent == [corpus |-> NoCorpus, ok |-> FALSE]
Whole(c) == [corpus |-> c, ok |-> TRUE]

Exists(f) == disk[f].corpus # NoCorpus

CacheTypeOK == /\ disk \in [Snapshots -> File]
               /\ promoted \in Corpora \cup {NoCorpus}
               /\ \A f \in Snapshots : disk[f].ok => Exists(f)

CacheInit == /\ disk = [f \in Snapshots |-> Absent]
             /\ promoted = NoCorpus

\* rename(2), which replaces the target.
Renamed(from, to) == [disk EXCEPT ![to] = disk[from], ![from] = Absent]

\* tryLoad(): a file whose checksum does not match is rejected.
TryLoad(files, f) == IF files[f].ok THEN files[f].corpus ELSE NoCorpus

\* load(): current, else previous, else factory.
Load(files) ==
  IF files["current"].ok THEN files["current"].corpus
  ELSE IF files["previous"].ok THEN files["previous"].corpus
  ELSE Factory

-----------------------------------------------------------------------------
(* apply() *)

\* writeFileSync(stagingPath); what is read back has the right checksum.
WriteStaging(c) ==
  /\ disk' = [disk EXCEPT !["next"] = Whole(c)]
  /\ UNCHANGED promoted

\* writeFileSync throws, or the check fails: the staging file is of no use.
StagingFails ==
  /\ disk' = [disk EXCEPT !["next"] = Absent]
  /\ UNCHANGED promoted

\* Mutant: the previous snapshot is dropped before its replacement is in place.
RotateByUnlink ==
  /\ disk' = [disk EXCEPT !["current"] = Absent]
  /\ UNCHANGED promoted

\* renameSync(current, previous), if there is a current.
Rotate ==
  /\ disk' = IF Exists("current") THEN Renamed("current", "previous") ELSE disk
  /\ UNCHANGED promoted

\* renameSync(staging, current).
Promote ==
  /\ disk' = Renamed("next", "current")
  /\ promoted' = disk["next"].corpus

-----------------------------------------------------------------------------
(* The card *)

\* The files that lose their content (external: the card, or the power).
Torn(files) == [f \in Snapshots |-> IF f \in files THEN [disk[f] EXCEPT !.ok = FALSE] ELSE disk[f]]

-----------------------------------------------------------------------------
(* Property *)

\* The file that holds the corpus promoted last: current, except between the two renames.
Holder == IF Exists("current") THEN "current" ELSE "previous"

\* At every instant, so also at the moment the player is killed in the middle of
\* apply(), the corpus promoted last is in the first file load() looks at; the player
\* starts with it unless that very file is damaged (corpus-cache.ts:9-19, 78-86).
SnapshotKept ==
  promoted # NoCorpus => /\ disk[Holder].corpus = promoted
                         /\ disk[Holder].ok => Load(disk) = promoted
=============================================================================
