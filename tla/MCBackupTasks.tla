--------------------------- MODULE MCBackupTasks ----------------------------
(* Small instances of BackupTasks for TLC. *)
EXTENDS BackupTasks

CONSTANTS c1

Backup(p, dry) ==
    [type |-> "backup", source |-> "events", target |-> NoTable,
     path |-> p, dryRun |-> dry]
Restore(t) ==
    [type |-> "restore", source |-> "events", target |-> t,
     path |-> "weekly", dryRun |-> FALSE]

(* Restores of one table to one target. *)
OneTarget == {Restore("copy")}

(* Backups to the default path, dry or not, beside scheduled ones. *)
Defaults == {Backup(Manual, FALSE), Backup(Manual, TRUE)}

=============================================================================
