------------------------------ MODULE MCBackups ------------------------------
(* Instances of Backups for TLC. *)
EXTENDS Backups

CONSTANTS request, command
=============================================================================
