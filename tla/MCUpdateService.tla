-------------------------- MODULE MCUpdateService ---------------------------
(* Small instances of UpdateService for TLC.                               *)
EXTENDS UpdateService

MCStage == 1 .. 2
=============================================================================
