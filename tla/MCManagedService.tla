-------------------------- MODULE MCManagedService --------------------------
(* A small instance of ManagedService for TLC.                             *)
EXTENDS ManagedService
=============================================================================
