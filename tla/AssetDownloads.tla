---------------------------- MODULE AssetDownloads ----------------------------
(***************************************************************************)
(* The media files of a player: AssetDownloadManager of                    *)
(* src/player-runtime/src/asset-download-manager.ts, and the boot scan of  *)
(* asset-manager.ts.                                                       *)
(*                                                                         *)
(* syncFromCorpus() starts a pass over the missing assets in the           *)
(* background and returns. Nothing waits for an earlier pass: a corpus     *)
(* that arrives while one runs starts another, which shares the registry,  *)
(* the flag downloadInProgress and the temporary file of each asset.       *)
(*                                                                         *)
(* A file is none, part or whole. Two writers of one temporary file write  *)
(* to the same inode: who opens last truncates it, and the rename of one   *)
(* takes the inode away from the other. verify() is called without a       *)
(* checksum: it looks only at the presence of the file.                    *)
(***************************************************************************)
EXTENDS Corpora

CONSTANT MaxPasses   \* bound: passes that run at the same time

ASSUME DownloadsAssumption == MaxPasses \in Nat \ {0}

VARIABLES dest,        \* the file of each asset
          tmp,         \* the assets with a temporary file
          pass,        \* the passes of downloadAll()
          registry,    \* the assets that may be played
          required,    \* the assets of the last sync
          downloading, \* downloadInProgress
          spoiled,     \* history: assets that two passes wrote at once, or the power tore
          survived,    \* history: a pass was running when another sync came
          failed       \* history: a download failed since the last sync

assetVars == <<dest, tmp, pass, registry, required, downloading, spoiled, survived, failed>>

-----------------------------------------------------------------------------
(* States *)

Passes == 1 .. MaxPasses

Content == {"none", "part", "whole"}

\* left: still to do; at: the asset being written; to: where the file it writes is now
\* (gone: without a name); clean: nobody truncated that file since it was opened.
Pass == [left : SUBSET Assets, at : Assets \cup {NoAsset}, to : {"tmp", "dest", "gone"}, clean : BOOLEAN]
NoPass == [left |-> {}, at |-> NoAsset, to |-> "gone", clean |-> FALSE]

DownloadsTypeOK ==
  /\ dest \in [Assets -> Content]
  /\ tmp \subseteq Assets
  /\ pass \in [Passes -> Pass]
  /\ registry \subseteq Assets
  /\ required \subseteq Assets
  /\ downloading \in BOOLEAN
  /\ spoiled \subseteq Assets
  /\ survived \in BOOLEAN
  /\ failed \in BOOLEAN

DownloadsInit ==
  /\ dest = [a \in Assets |-> "none"]
  /\ tmp = {}
  /\ pass = [p \in Passes |-> NoPass]
  /\ registry = {}
  /\ required = {}
  /\ downloading = FALSE
  /\ spoiled = {}
  /\ survived = FALSE
  /\ failed = FALSE

Active(p) == pass[p].left # {} \/ pass[p].at # NoAsset
Writing(p, a) == pass[p].at = a
FreePasses == {p \in Passes : ~Active(p)}

\* AssetVerifier.verify() without an expected checksum.
Verified(a) == dest[a] # "none"

-----------------------------------------------------------------------------
(* syncFromCorpus() *)

\* Mutant: no second pass is started while one runs.
SyncUnlessBusy(assets) ==
  LET present == {a \in assets : Verified(a)}
      missing == assets \ present
  IN /\ registry' = present
     /\ required' = assets
     /\ survived' = (survived \/ \E p \in Passes : Active(p))
     /\ failed' = FALSE
     /\ IF missing = {} \/ downloading THEN UNCHANGED <<pass, downloading>>
        ELSE /\ downloading' = TRUE
             /\ pass' = [pass EXCEPT ![1] = [NoPass EXCEPT !.left = missing]]
     /\ UNCHANGED <<dest, tmp, spoiled>>

Sync(assets) ==
  LET present == {a \in assets : Verified(a)}
      missing == assets \ present
  IN /\ registry' = present
     /\ required' = assets
     /\ survived' = (survived \/ \E p \in Passes : Active(p))
     /\ failed' = FALSE
     /\ IF missing = {} THEN UNCHANGED <<pass, downloading>>
        ELSE /\ downloading' = TRUE
             /\ \E p \in FreePasses :
                  /\ \A q \in FreePasses : p <= q
                  /\ pass' = [pass EXCEPT ![p] = [NoPass EXCEPT !.left = missing]]
     /\ UNCHANGED <<dest, tmp, spoiled>>

\* syncFromCorpus() with the bound on passes: it is not asked for one too many.
CanSync(assets) == FreePasses # {} \/ \A a \in assets : Verified(a)

-----------------------------------------------------------------------------
(* downloadAll() and downloadOne() *)

\* downloadAll() goes on to its next asset, or is done; finally clears downloadInProgress.
After(q) == IF q.left = {} THEN NoPass ELSE [q EXCEPT !.at = NoAsset, !.to = "gone", !.clean = FALSE]
Finished(p) == downloading' = (downloading /\ pass[p].left # {})

\* fetch() answers and createWriteStream() opens the temporary file, truncating it.
Open(p) ==
  /\ pass[p].at = NoAsset
  /\ \E a \in pass[p].left :
       LET others == {q \in Passes \ {p} : Writing(q, a)}
           truncated == {q \in others : pass[q].to = "tmp"}
       IN /\ tmp' = tmp \cup {a}
          /\ pass' = [q \in Passes |->
                        IF q = p THEN [left |-> pass[p].left \ {a}, at |-> a, to |-> "tmp", clean |-> TRUE]
                        ELSE IF q \in truncated THEN [pass[q] EXCEPT !.clean = FALSE]
                        ELSE pass[q]]
          /\ spoiled' = IF others = {} THEN spoiled ELSE spoiled \cup {a}
  /\ UNCHANGED <<dest, registry, required, downloading, survived, failed>>

\* fetch() throws, or the status is not 2xx: logged, and the asset is given up.
FetchFails(p) ==
  /\ pass[p].at = NoAsset
  /\ \E a \in pass[p].left :
       LET q == [pass[p] EXCEPT !.left = pass[p].left \ {a}]
       IN /\ pass' = [pass EXCEPT ![p] = After(q)]
          /\ downloading' = (downloading /\ q.left # {})
  /\ failed' = TRUE
  /\ UNCHANGED <<dest, tmp, registry, required, spoiled, survived>>

\* What the file p wrote contains when its stream ends: the bytes another pass cut off
\* may or may not have been written again.
Written(p) == IF pass[p].clean THEN {"whole"} ELSE {"part", "whole"}

\* The stream ends and the temporary file, mine or not, is moved over the asset's;
\* verify() finds a file and the asset is registered. If another pass has taken the
\* temporary file away, rename throws and the error is logged.
Complete(p) ==
  /\ pass[p].at # NoAsset
  /\ LET a == pass[p].at
         mine == pass[p].to = "tmp"
         moves == mine \/ a \in tmp
     IN /\ \E content \in Written(p) :
             dest' = [dest EXCEPT ![a] = IF mine THEN content
                                         ELSE IF moves THEN "part"
                                         ELSE IF pass[p].to = "dest" THEN content
                                         ELSE dest[a]]
        /\ tmp' = tmp \ {a}
        /\ pass' = [q \in Passes |->
                      IF q = p THEN After(pass[p])
                      ELSE IF moves /\ pass[q].at = a
                           THEN [pass[q] EXCEPT !.to = IF pass[q].to = "tmp" THEN "dest" ELSE "gone"]
                      ELSE pass[q]]
        /\ registry' = IF moves THEN registry \cup {a} ELSE registry
        /\ failed' = (failed \/ ~moves)
  /\ Finished(p)
  /\ UNCHANGED <<required, spoiled, survived>>

\* Mutant: the error of the stream is caught and not thrown again.
WriteErrorSwallowed(p) ==
  /\ pass[p].at # NoAsset
  /\ LET a == pass[p].at
     IN /\ tmp' = tmp \ {a}
        /\ dest' = [dest EXCEPT ![a] = "part"]
        /\ registry' = registry \cup {a}
        /\ pass' = [q \in Passes |->
                      IF q = p THEN After(pass[p])
                      ELSE IF pass[q].at = a /\ pass[q].to = "tmp" THEN [pass[q] EXCEPT !.to = "gone"]
                      ELSE pass[q]]
  /\ failed' = TRUE
  /\ Finished(p)
  /\ UNCHANGED <<required, spoiled, survived>>

\* The stream fails: the temporary file, mine or not, is removed.
WriteFails(p) ==
  /\ pass[p].at # NoAsset
  /\ LET a == pass[p].at
     IN /\ tmp' = tmp \ {a}
        /\ pass' = [q \in Passes |->
                      IF q = p THEN After(pass[p])
                      ELSE IF pass[q].at = a /\ pass[q].to = "tmp" THEN [pass[q] EXCEPT !.to = "gone"]
                      ELSE pass[q]]
  /\ failed' = TRUE
  /\ Finished(p)
  /\ UNCHANGED <<dest, registry, required, spoiled, survived>>

-----------------------------------------------------------------------------
(* Readiness: syncContentReadiness() *)

Readiness ==
  IF required = {} THEN "UNKNOWN"
  ELSE IF Cardinality(registry) = Cardinality(required) THEN "READY"
  ELSE IF downloading THEN "DOWNLOADING"
  ELSE "DEFICIT"

-----------------------------------------------------------------------------
(* A restart *)

\* The process is gone and starts again. The power took some of the content of the
\* assets of torn, and all of it of those of empty; the boot scan removes the temporary files and
\* the empty ones. Memory starts anew.
Reboot(torn, empty) ==
  /\ torn \subseteq {a \in Assets : Verified(a)}
  /\ empty \subseteq torn
  /\ dest' = [a \in Assets |-> IF a \in empty THEN "none"
                               ELSE IF a \in torn THEN "part"
                               ELSE dest[a]]
  /\ tmp' = {}
  /\ pass' = [p \in Passes |-> NoPass]
  /\ registry' = {}
  /\ required' = {}
  /\ downloading' = FALSE
  /\ spoiled' = spoiled \cup torn
  /\ survived' = FALSE
  /\ failed' = FALSE

-----------------------------------------------------------------------------
(* Properties *)

\* A registered asset, which is what the playlist may show, is a whole file, with two
\* exceptions: two passes have written it at once, or the power tore it
\* (asset-download-manager.ts:13-17, ADR-002: only verified local assets are played).
RegisteredIsWhole == \A a \in registry \ spoiled : dest[a] = "whole"

\* If no pass outlived the corpus it was started for, READY means that every asset of
\* the last corpus is registered, although the code compares only two numbers
\* (orchestrator.ts:612-617).
ReadyIsComplete == Readiness = "READY" /\ ~survived => required \subseteq registry

\* No asset of the last corpus is forgotten: until a download fails, each one that is
\* not registered is left to a pass or written by one, whatever corpora came in between
\* and however their passes overlap (asset-download-manager.ts:127-192).
NoneForgotten ==
  ~failed => \A a \in required \ registry : \E p \in Passes : a \in pass[p].left \/ pass[p].at = a

\* The player does not report DEFICIT while a download can still help: if no pass
\* outlived its corpus, a download has failed since (orchestrator.ts:609-625; that
\* downloadInProgress says so is asset-download-manager.ts:103-125).
DeficitMeansFailed == Readiness = "DEFICIT" /\ ~survived => failed
=============================================================================
