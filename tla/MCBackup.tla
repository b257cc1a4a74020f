------------------------------ MODULE MCBackup ------------------------------
(* Instances of Backup for TLC. *)
EXTENDS Backup

CONSTANTS w1, w2

MCWorker == {w1, w2}
=============================================================================
