------------------------------- MODULE Backup -------------------------------
(***************************************************************************)
(* `fstore archive` and `fstore restore`.  An archive is a dump of the     *)
(* database followed by an rsync of objects/, over the previous archive and*)
(* while the server and `fstore prune` go on.  A restore is an rsync of the*)
(* archive over the store's home, followed by a restore of the dump; the   *)
(* server is stopped for it.                                               *)
(*                                                                         *)
(* Files in objects/ never change (ObjectsNeverChange in ObjectStore), so a*)
(* copied file is the file.  pg_dump and pg_restore are taken to work as a *)
(* whole or not at all; rsync stops anywhere.                              *)
(***************************************************************************)
EXTENDS Naturals

CONSTANTS
    ObjectIds,
    NoDump,         \* there is no dump file
    Pruning,        \* whether `fstore prune` is run
    MaxArchives,    \* bound: archives made
    MaxFaults       \* bound: failures of rsync, of a dump and of a restore

ASSUME BackupConstants == Pruning \in BOOLEAN /\ MaxArchives \in Nat /\ MaxFaults \in Nat

VARIABLES
    \* The store.
    rows,           \* data.object
    files,          \* objects/
    coming,         \* objects whose part has still to be renamed
    drawn,          \* ids that have been used
    pruned,         \* objects prune deleted whose files it has still to remove
    dump_file,      \* the rows in <home>/fstore.dump
    \* The archive directory.
    archive_dump, archive_files,
    \* The commands.
    archive_pc,
    listed,         \* what rsync found in objects/ when it started
    todo,           \* ids rsync has still to compare
    dump_copied,
    vanished,       \* whether a listed file was gone when its turn came
    restore_pc,
    \* Bookkeeping and history.
    archives, faults,
    excused         \* objects the archive need not have the file of

storeVars == <<rows, files, coming, drawn, pruned>>
archiveVars == <<archive_dump, archive_files>>
rsyncVars == <<listed, todo, dump_copied, vanished>>
vars == <<storeVars, dump_file, archiveVars, archive_pc, rsyncVars, restore_pc,
          archives, faults, excused>>

Rows == (SUBSET ObjectIds) \union {NoDump}

\* Every variable keeps its range.
BackupTypeOK ==
    /\ rows \subseteq drawn /\ files \subseteq drawn /\ coming \subseteq drawn
    /\ drawn \subseteq ObjectIds /\ pruned \subseteq ObjectIds \ rows
    /\ dump_file \in Rows /\ archive_dump \in Rows /\ archive_files \subseteq ObjectIds
    /\ archive_pc \in {"idle", "dumped", "syncing", "done", "failed"}
    /\ listed \subseteq ObjectIds /\ todo \subseteq ObjectIds
    /\ dump_copied \in BOOLEAN /\ vanished \in BOOLEAN
    /\ restore_pc \in {"idle", "syncing", "synced", "done", "failed"}
    /\ archives \in 0..MaxArchives /\ faults \in 0..MaxFaults
    /\ excused \subseteq ObjectIds

\* A store in service that was never archived.
Init ==
    /\ rows \in SUBSET ObjectIds
    /\ files = rows /\ drawn = rows
    /\ coming = {} /\ pruned = {}
    /\ dump_file = NoDump /\ archive_dump = NoDump /\ archive_files = {}
    /\ archive_pc = "idle" /\ restore_pc = "idle"
    /\ listed = {} /\ todo = {} /\ dump_copied = FALSE /\ vanished = FALSE
    /\ archives = 0 /\ faults = 0 /\ excused = {}

Archiving == archive_pc \in {"dumped", "syncing"}

-----------------------------------------------------------------------------
(* What goes on in the store while no restore does                         *)

storeOnly == <<dump_file, archiveVars, archive_pc, rsyncVars, restore_pc, archives, faults>>

AddRow(o) ==
    /\ restore_pc = "idle" /\ o \notin drawn
    /\ rows' = rows \union {o}
    /\ coming' = coming \union {o}
    /\ drawn' = drawn \union {o}
    /\ UNCHANGED <<files, pruned, excused, storeOnly>>

PlaceFile(o) ==
    /\ restore_pc = "idle" /\ o \in coming
    /\ files' = files \union {o}
    /\ coming' = coming \ {o}
    /\ UNCHANGED <<rows, drawn, pruned, excused, storeOnly>>

\* Mutated form: the rows are deleted after their files.
PruneDelete_last ==
    /\ Pruning /\ restore_pc = "idle" /\ pruned = {}
    /\ \E orphans \in (SUBSET rows) \ {{}} :
          /\ pruned' = orphans
          /\ excused' = IF Archiving THEN excused \union orphans ELSE excused
    /\ UNCHANGED <<rows, files, coming, drawn, storeOnly>>

\* What prune deletes while an archive is made, the archive need not keep.
PruneDelete ==
    /\ Pruning /\ restore_pc = "idle" /\ pruned = {}
    /\ \E orphans \in (SUBSET rows) \ {{}} :
          /\ rows' = rows \ orphans
          /\ pruned' = orphans
          /\ excused' = IF Archiving THEN excused \union orphans ELSE excused
    /\ UNCHANGED <<files, coming, drawn, storeOnly>>

PruneFile(o) ==
    /\ restore_pc = "idle" /\ o \in pruned
    /\ files' = files \ {o}
    /\ pruned' = pruned \ {o}
    /\ UNCHANGED <<rows, coming, drawn, excused, storeOnly>>

-----------------------------------------------------------------------------
(* fstore archive                                                          *)

\* db.dump: the rows of one moment.
Dump ==
    /\ ~Archiving /\ restore_pc = "idle" /\ archives < MaxArchives
    /\ archives' = archives + 1
    /\ dump_file' = rows
    /\ excused' = rows \ files
    /\ archive_pc' = "dumped"
    /\ UNCHANGED <<storeVars, archiveVars, rsyncVars, restore_pc, faults>>

\* rsync --archive --delete <dump_file> <home>/objects <archive>
List ==
    /\ archive_pc = "dumped"
    /\ listed' = files
    /\ todo' = files \union archive_files
    /\ dump_copied' = FALSE /\ vanished' = FALSE
    /\ archive_pc' = "syncing"
    /\ UNCHANGED <<storeVars, dump_file, archiveVars, restore_pc, archives, faults, excused>>

\* Mutated form: the database is dumped after the files were listed.
CopyDump_late ==
    /\ archive_pc = "syncing" /\ ~dump_copied
    /\ archive_dump' = rows
    /\ dump_copied' = TRUE
    /\ UNCHANGED <<storeVars, dump_file, archive_files, archive_pc, listed, todo, vanished,
                   restore_pc, archives, faults, excused>>

CopyDump ==
    /\ archive_pc = "syncing" /\ ~dump_copied
    /\ archive_dump' = dump_file
    /\ dump_copied' = TRUE
    /\ UNCHANGED <<storeVars, dump_file, archive_files, archive_pc, listed, todo, vanished,
                   restore_pc, archives, faults, excused>>

\* A listed file is copied, unless it was removed since; one that is not listed
\* is deleted from the archive.
Transfer(o) ==
    /\ archive_pc = "syncing" /\ o \in todo
    /\ todo' = todo \ {o}
    /\ archive_files' = IF o \notin listed THEN archive_files \ {o}
                        ELSE archive_files \union ({o} \intersect files)
    /\ vanished' = (vanished \/ o \in listed \ files)
    /\ UNCHANGED <<storeVars, dump_file, archive_dump, archive_pc, listed, dump_copied,
                   restore_pc, archives, faults, excused>>

\* rsync exits: with 24, an error to sync, if a file vanished.  The dump file
\* is removed after a success only.
FinishArchive ==
    /\ archive_pc = "syncing" /\ todo = {} /\ dump_copied
    /\ archive_pc' = IF vanished THEN "failed" ELSE "done"
    /\ dump_file' = IF vanished THEN dump_file ELSE NoDump
    /\ UNCHANGED <<storeVars, archiveVars, rsyncVars, restore_pc, archives, faults, excused>>

Archive ==
    \/ Dump
    \/ List
    \/ CopyDump
    \/ \E o \in ObjectIds : Transfer(o)
    \/ FinishArchive

-----------------------------------------------------------------------------
(* fstore restore                                                          *)

\* rsync --archive --delete <archive>/ <home> also deletes what is in parts/.
StartRestore ==
    /\ restore_pc = "idle" /\ ~Archiving
    /\ todo' = files \union archive_files
    /\ dump_copied' = FALSE
    /\ coming' = {} /\ pruned' = {}
    /\ restore_pc' = "syncing"
    /\ UNCHANGED <<rows, files, drawn, dump_file, archiveVars, archive_pc, listed, vanished,
                   archives, faults, excused>>

TransferBack(o) ==
    /\ restore_pc = "syncing" /\ o \in todo
    /\ todo' = todo \ {o}
    /\ files' = IF o \in archive_files THEN files \union {o} ELSE files \ {o}
    /\ UNCHANGED <<rows, coming, drawn, pruned, dump_file, archiveVars, archive_pc, listed,
                   dump_copied, vanished, restore_pc, archives, faults, excused>>

CopyDumpBack ==
    /\ restore_pc = "syncing" /\ ~dump_copied
    /\ dump_file' = archive_dump
    /\ dump_copied' = TRUE
    /\ UNCHANGED <<storeVars, archiveVars, archive_pc, listed, todo, vanished, restore_pc,
                   archives, faults, excused>>

FinishSync ==
    /\ restore_pc = "syncing" /\ todo = {} /\ dump_copied
    /\ restore_pc' = "synced"
    /\ UNCHANGED <<storeVars, dump_file, archiveVars, archive_pc, rsyncVars, archives, faults, excused>>

\* db.restore of the dump in the home directory, if there is one.
RestoreDatabase ==
    /\ restore_pc = "synced"
    /\ \/ /\ dump_file # NoDump
          /\ rows' = dump_file
          /\ restore_pc' = "done"
       \/ /\ dump_file = NoDump
          /\ restore_pc' = "failed"
          /\ UNCHANGED rows
    /\ UNCHANGED <<files, coming, drawn, pruned, dump_file, archiveVars, archive_pc, rsyncVars,
                   archives, faults, excused>>

Restore ==
    \/ StartRestore
    \/ \E o \in ObjectIds : TransferBack(o)
    \/ CopyDumpBack
    \/ FinishSync
    \/ RestoreDatabase

-----------------------------------------------------------------------------
\* pg_dump, rsync or pg_restore fails, or is killed with the command; a failed
\* restore may be tried again.
ArchiveFails ==
    /\ Archiving
    /\ archive_pc' = "failed"
    /\ UNCHANGED <<restore_pc, todo>>

\* Mutated form: the exit status of rsync is not looked at.
RestoreFails_unchecked ==
    /\ restore_pc \in {"syncing", "synced"}
    /\ restore_pc' = "synced"
    /\ UNCHANGED <<archive_pc, todo>>

RestoreFails ==
    /\ restore_pc \in {"syncing", "synced"}
    /\ restore_pc' = "failed"
    /\ UNCHANGED <<archive_pc, todo>>

RestoreAgain ==
    /\ restore_pc = "failed"
    /\ restore_pc' = "syncing"
    /\ todo' = files \union archive_files
    /\ dump_copied' = FALSE
    /\ UNCHANGED <<storeVars, dump_file, archiveVars, archive_pc, listed, vanished, archives,
                   faults, excused>>

Fault ==
    /\ faults < MaxFaults
    /\ faults' = faults + 1
    /\ ArchiveFails \/ RestoreFails
    /\ UNCHANGED <<storeVars, dump_file, archiveVars, listed, dump_copied, vanished, archives, excused>>

Next ==
    \/ \E o \in ObjectIds : AddRow(o) \/ PlaceFile(o) \/ PruneFile(o)
    \/ PruneDelete
    \/ Archive
    \/ Restore
    \/ RestoreAgain
    \/ Fault

Spec == Init /\ [][Next]_vars

-----------------------------------------------------------------------------
(* Properties                                                              *)

\* A finished archive has the file of every object in its dump, except objects
\* whose part had still to be renamed when the database was dumped, and objects
\* pruned between the dump and the copy: whatever was uploaded meanwhile, and
\* whatever an earlier archive that failed midway left in the directory.
ArchiveComplete ==
    archive_pc = "done" => archive_dump \ excused \subseteq archive_files

\* A finished restore of a finished archive is the store of that archive, with
\* those files, also when an earlier attempt failed midway; and the store that
\* was overwritten leaves no file behind.
RestoreComplete ==
    (restore_pc = "done" /\ archive_pc = "done") =>
        /\ rows = archive_dump /\ files = archive_files
        /\ rows \ excused \subseteq files
=============================================================================
