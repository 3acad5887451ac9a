--------------------------- MODULE MCBackupEgress ---------------------------
(* BackupEgress on a small instance: the sizes come from the cfg. *)
EXTENDS BackupEgress
=============================================================================
