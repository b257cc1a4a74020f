---------------------------- MODULE MCMigration ----------------------------
(* Instances of Migration for TLC. *)
EXTENDS Migration

CONSTANTS w1, w2

MCWorker == {w1, w2}
=============================================================================
