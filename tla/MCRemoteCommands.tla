-------------------------- MODULE MCRemoteCommands --------------------------
(* One screen and its commands, for TLC. One operator is enough to have two  *)
(* commands offered at once: a CANCEL passes the check as a race would.      *)
EXTENDS RemoteCommands

CONSTANT o1
=============================================================================
