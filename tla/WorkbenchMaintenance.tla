------------------------ MODULE WorkbenchMaintenance ------------------------
(***************************************************************************)
(* The maintenance command line beside the server: backup, restore and the *)
(* rollout check, file by file.  The database is in WAL mode: what it      *)
(* holds is its main file and the log that belongs to it, and a server     *)
(* that was killed leaves the log.  The -shm file holds nothing of its own *)
(* and is left out.  docs/ui.md has the server stopped during a restore;   *)
(* a command may meet an error or be killed at any step.                   *)
(***************************************************************************)
EXTENDS Naturals, Sequences

CONSTANTS
    Row,          \* what the server's transactions write
    MaxBackups,   \* backups taken, at most
    MaxRestores,  \* restores begun, at most
    MaxFaults     \* errors in a command and kills, at most

ASSUME MaintenanceAssumption == MaxBackups \in Nat /\ MaxRestores \in Nat /\ MaxFaults \in Nat

VARIABLES
    serverUp,   \* is a server running
    live,       \* workbench.sqlite3 and its -wal
    old,        \* their quarantined names, of the last restore
    temp,       \* the .tmp file of a restore
    backups,    \* .seektalent/backups: each one's rows, and has it metadata
    command,    \* the command at work
    file,       \* how many database files were made (identities)
    restores, errors

fileVars == <<serverUp, live, old, temp, backups, command, file, restores, errors>>

NoFile == [id |-> 0, rows |-> {}]
NoFiles == [db |-> NoFile, wal |-> NoFile]
Exists(f) == f.id # 0

\* A log that does not belong to the file beside it is not read.
Rows(files) ==
    files.db.rows \cup (IF files.wal.id = files.db.id THEN files.wal.rows ELSE {})

NoCommand == [step |-> "idle", backup |-> 0, original |-> {}, failed |-> "no"]

FilesInit ==
    /\ serverUp = TRUE
    /\ live = [db |-> [id |-> 1, rows |-> {}], wal |-> [id |-> 1, rows |-> {}]]
    /\ old = NoFiles /\ temp = NoFile
    /\ backups = <<>>
    /\ command = NoCommand
    /\ file = 1 /\ restores = 0 /\ errors = 0

AtStep(step) == command.step = step
StepTo(step) == command' = [command EXCEPT !.step = step]

----------------------------------------------------------------------------
(* The server.                                                             *)

\* A connection to a file that is not there makes an empty database.
Start ==
    /\ ~serverUp /\ command.step \in {"idle", "describe", "audit backup"}
    /\ serverUp' = TRUE
    /\ IF Exists(live.db)
       THEN /\ live' = [live EXCEPT !.wal = [id |-> live.db.id, rows |-> Rows(live) \ live.db.rows]]
            /\ UNCHANGED file
       ELSE /\ live' = [db |-> [id |-> file + 1, rows |-> {}], wal |-> [id |-> file + 1, rows |-> {}]]
            /\ file' = file + 1
    /\ UNCHANGED <<old, temp, backups, command, restores, errors>>

Write(w) ==
    /\ serverUp /\ w \notin Rows(live)
    /\ live' = [live EXCEPT !.wal.rows = @ \cup {w}]
    /\ UNCHANGED <<serverUp, old, temp, backups, command, file, restores, errors>>

\* The last connection to close writes the log into the file and removes it.
Settled(f) == [db |-> [f.db EXCEPT !.rows = Rows(f)], wal |-> NoFile]

Stop ==
    /\ serverUp
    /\ serverUp' = FALSE
    /\ \/ live' = Settled(live)
       \/ live' = live            \* killed
    /\ UNCHANGED <<old, temp, backups, command, file, restores, errors>>

----------------------------------------------------------------------------
(* backup_workbench.                                                       *)

\* The schema is right, and SQLite's backup reads one state of file and log.
Copy ==
    /\ AtStep("idle") /\ Exists(live.db) /\ Len(backups) < MaxBackups
    /\ backups' = Append(backups, [rows |-> Rows(live), described |-> FALSE])
    /\ StepTo("describe")
    /\ UNCHANGED <<serverUp, live, old, temp, file, restores, errors>>

\* The metadata file comes last; a backup without it is refused.
Describe ==
    /\ AtStep("describe")
    /\ backups' = [backups EXCEPT ![Len(backups)].described = TRUE]
    /\ StepTo("audit backup")
    /\ UNCHANGED <<serverUp, live, old, temp, file, restores, errors>>

\* _record_maintenance_audit: a transaction of a WorkbenchStore of its own.
Audited(files, row) ==
    LET written == [files EXCEPT !.wal = [id |-> files.db.id,
                        rows |-> (Rows(files) \ files.db.rows) \cup {row}]]
    IN  IF serverUp THEN written ELSE Settled(written)

AuditBackup ==
    /\ AtStep("audit backup")
    /\ live' = Audited(live, <<"backup", Len(backups)>>)
    /\ command' = NoCommand
    /\ UNCHANGED <<serverUp, old, temp, backups, file, restores, errors>>

----------------------------------------------------------------------------
(* restore_workbench.                                                      *)

\* The backup is verified, copied beside the target and verified again.
BeginRestore(b) ==
    /\ AtStep("idle") /\ ~serverUp /\ restores < MaxRestores
    /\ backups[b].described
    /\ temp' = [id |-> file + 1, rows |-> backups[b].rows]
    /\ file' = file + 1 /\ restores' = restores + 1
    /\ old' = NoFiles
    /\ command' = [step |-> "quarantine db", backup |-> b, original |-> Rows(live), failed |-> "no"]
    /\ UNCHANGED <<serverUp, live, backups, errors>>

QuarantineDb ==
    /\ AtStep("quarantine db")
    /\ old' = [old EXCEPT !.db = live.db]
    /\ live' = [live EXCEPT !.db = NoFile]
    /\ StepTo("quarantine wal")
    /\ UNCHANGED <<serverUp, temp, backups, file, restores, errors>>

\* Wrong variant: the log stays where it is.
LeaveWal ==
    /\ AtStep("quarantine wal")
    /\ StepTo("replace")
    /\ UNCHANGED <<serverUp, live, old, temp, backups, file, restores, errors>>

QuarantineWal ==
    /\ AtStep("quarantine wal")
    /\ old' = [old EXCEPT !.wal = live.wal]
    /\ live' = [live EXCEPT !.wal = NoFile]
    /\ StepTo("replace")
    /\ UNCHANGED <<serverUp, temp, backups, file, restores, errors>>

\* Wrong variant: the quarantine is given up with the replacement.
ReplaceForGood ==
    /\ AtStep("replace")
    /\ live' = [live EXCEPT !.db = temp]
    /\ temp' = NoFile
    /\ old' = NoFiles
    /\ StepTo("audit restore")
    /\ UNCHANGED <<serverUp, backups, file, restores, errors>>

ReplaceDb ==
    /\ AtStep("replace")
    /\ live' = [live EXCEPT !.db = temp]
    /\ temp' = NoFile
    /\ StepTo("audit restore")
    /\ UNCHANGED <<serverUp, old, backups, file, restores, errors>>

AuditRestore ==
    /\ AtStep("audit restore")
    /\ live' = Audited(live, <<"restore", restores>>)
    /\ StepTo("delete")
    /\ UNCHANGED <<serverUp, old, temp, backups, file, restores, errors>>

\* The main file goes first.
DeleteOld ==
    /\ AtStep("delete")
    /\ IF Exists(old.db)
       THEN old' = [old EXCEPT !.db = NoFile] /\ UNCHANGED command
       ELSE old' = NoFiles /\ StepTo("restored")
    /\ UNCHANGED <<serverUp, live, temp, backups, file, restores, errors>>

\* _restore_quarantined_sqlite_files: every live name is unlinked, then what was
\* quarantined moves back, the main file first.
Unlink ==
    /\ AtStep("unlink")
    /\ live' = NoFiles
    /\ StepTo("move back")
    /\ UNCHANGED <<serverUp, old, temp, backups, file, restores, errors>>

MoveBack ==
    /\ AtStep("move back")
    /\ IF Exists(old.db)
       THEN /\ live' = [live EXCEPT !.db = old.db]
            /\ old' = [old EXCEPT !.db = NoFile]
            /\ UNCHANGED <<command, temp>>
       ELSE /\ live' = [live EXCEPT !.wal = old.wal]
            /\ old' = NoFiles
            /\ temp' = NoFile
            /\ StepTo("raised")
    /\ UNCHANGED <<serverUp, backups, file, restores, errors>>

\* How the command ended has been seen; the next one or a server may start.
Return ==
    /\ command.step \in {"restored", "raised", "killed"}
    /\ command' = NoCommand
    /\ UNCHANGED <<serverUp, live, old, temp, backups, file, restores, errors>>

----------------------------------------------------------------------------
(* Errors and kills.                                                       *)

Quarantining == {"quarantine db", "quarantine wal"}
Guarded == Quarantining \cup {"replace", "audit restore"}

\* An OSError or an sqlite3.Error.  One of a backup ends it; one before the database
\* was replaced and audited puts the original back; one of the deletion, or of putting
\* back, is raised all the same.  The audit may have begun a log before it failed.
Error ==
    /\ errors < MaxFaults
    /\ \/ /\ command.step \in {"describe", "audit backup"}
          /\ command' = NoCommand
          /\ UNCHANGED <<live, temp>>
       \/ /\ command.step \in Guarded
          /\ command' = [command EXCEPT !.step = "unlink", !.failed = command.step]
          /\ \/ UNCHANGED live
             \/ AtStep("audit restore") /\ live' = [live EXCEPT !.wal = [id |-> live.db.id, rows |-> {}]]
          /\ UNCHANGED temp
       \/ /\ command.step \in {"delete", "unlink", "move back"}
          /\ command' = [command EXCEPT !.step = "raised",
                             !.failed = IF AtStep("delete") THEN "delete"
                                        ELSE IF command.failed \in Quarantining THEN @ ELSE "undo"]
          /\ temp' = NoFile
          /\ UNCHANGED live
    /\ errors' = errors + 1
    /\ UNCHANGED <<serverUp, old, backups, file, restores>>

\* A killed command leaves its files; the next one has another pid.
Kill ==
    /\ errors < MaxFaults /\ command.step \notin {"idle", "killed", "restored", "raised"}
    /\ StepTo("killed")
    /\ errors' = errors + 1
    /\ UNCHANGED <<serverUp, live, old, temp, backups, file, restores>>

ServerStep == Start \/ (\E w \in Row : Write(w)) \/ Stop
BackupStep == Copy \/ Describe \/ AuditBackup
RestoreStep ==
    \/ \E b \in DOMAIN backups : BeginRestore(b)
    \/ QuarantineDb \/ QuarantineWal \/ ReplaceDb \/ AuditRestore \/ DeleteOld
    \/ Unlink \/ MoveBack \/ Return
FilesNext == ServerStep \/ BackupStep \/ RestoreStep \/ Error \/ Kill

FilesSpec == FilesInit /\ [][FilesNext]_fileVars

----------------------------------------------------------------------------
Steps ==
    {"idle", "describe", "audit backup", "delete", "unlink", "move back", "restored", "raised",
     "killed"} \cup Guarded

\* Every file is one that was made, and a command is somewhere in its steps.
MaintenanceTypeOK ==
    /\ \A f \in {live.db, live.wal, old.db, old.wal, temp} : f.id \in 0..file
    /\ command.step \in Steps /\ command.backup \in 0..Len(backups)
    /\ restores \in 0..MaxRestores /\ errors \in 0..MaxFaults
    /\ ~Exists(live.db) /\ command.step \in {"idle", "describe", "audit backup"} => ~serverUp

Restored == Rows(live) = backups[command.backup].rows \cup {<<"restore", restores>>}

\* _restore_database_file: a restore that returns has put the whole backup in place, with
\* its audit row, and one whose replacement or audit failed has put back the whole
\* original, the log a killed server left included.
RestoreIsWhole ==
    /\ AtStep("restored") => Restored
    /\ AtStep("raised") /\ command.failed = "delete" => Restored
    /\ AtStep("raised") /\ command.failed \in {"replace", "audit restore"} => Rows(live) = command.original

\* Wherever a restore is, or was killed, the backup is in place or the files still hold the
\* original, database and log, under one of their names.  The failed quarantine is
\* excepted: FailedRestoreKeepsOriginal.
OriginalOrBackup ==
    command.backup # 0 /\ command.failed \notin Quarantining =>
        \/ backups[command.backup].rows \subseteq Rows(live) /\ ~Exists(temp)
        \/ \E db \in {live.db, old.db}, wal \in {live.wal, old.wal} :
              Rows([db |-> db, wal |-> wal]) = command.original

\* Both, of files that were made: after a kill, an error or a return, the rows of one whole
\* database are there (restore_workbench, _restore_database_file).
RestoreKeepsADatabase == MaintenanceTypeOK /\ RestoreIsWhole /\ OriginalOrBackup

\* docs/ui.md:226 "quarantines the stopped target database plus SQLite sidecars, replaces
\* the target, writes the restore audit row, and restores the original database if the
\* post-replace step fails"; and a restore that fails before is not to touch it at all.
FailedRestoreKeepsOriginal ==
    AtStep("raised") /\ command.failed \notin {"delete", "undo"} => Rows(live) = command.original

=============================================================================
