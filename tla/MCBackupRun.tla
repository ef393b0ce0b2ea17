---------------------------- MODULE MCBackupRun ----------------------------
(* BackupRun for TLC.                                                      *)
EXTENDS BackupRun
=============================================================================
