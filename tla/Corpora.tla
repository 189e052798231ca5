------------------------------- MODULE Corpora -------------------------------
(* The corpora a screen may be given. The server names a corpus by a hash of its     *)
(* sorted asset ids (cms-api, routes/corpus.ts:85-101): a corpus is its set of assets. *)
EXTENDS Integers, FiniteSets

CONSTANTS Assets,   \* the assets a corpus may need
          NoAsset   \* not an asset

ASSUME CorporaAssumption == /\ NoAsset \notin Assets
                            /\ IsFiniteSet(Assets)

Corpora == SUBSET Assets
NoCorpus == {NoAsset}
=============================================================================
