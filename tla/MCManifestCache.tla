-------------------------- MODULE MCManifestCache --------------------------
(* Two overlapping polls and a pool they can exhaust, for TLC.               *)
EXTENDS ManifestCache

CONSTANTS r1, r2, c1, c2
=============================================================================
