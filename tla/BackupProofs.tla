---------------------------- MODULE BackupProofs ----------------------------
(***************************************************************************)
(* Why an archive is complete and a restore brings it back, for any objects*)
(* and any number of archives and failures: the inductive invariant behind *)
(* the properties of Backup, and its proof.                                *)
(***************************************************************************)
EXTENDS Backup, TLAPS

\* Nobody comes upon an id again: not the dumps, not the archive, not prune.
Drawn ==
    /\ dump_file \in (SUBSET drawn) \union {NoDump}
    /\ archive_dump \in (SUBSET drawn) \union {NoDump}
    /\ archive_files \subseteq drawn /\ listed \subseteq drawn /\ todo \subseteq drawn
    /\ pruned \subseteq drawn

\* An archive and a restore are not under way together, and a store being
\* restored has no prune in progress.
Stopped == restore_pc # "idle" => ~Archiving /\ pruned = {}

\* What the dump has and the archive must have is there, and prune is not
\* about to remove it: victims of before the dump have no row in it.
Kept ==
    Archiving =>
        /\ dump_file \in SUBSET drawn
        /\ dump_file \ excused \subseteq files \ pruned

\* rsync saw all of that, and has copied or has still to copy it.
Synced ==
    archive_pc = "syncing" =>
        /\ dump_file \ excused \subseteq listed
        /\ dump_file \ excused \subseteq todo \union archive_files
        /\ dump_copied => archive_dump = dump_file

Archived ==
    archive_pc = "done" =>
        /\ archive_dump \in SUBSET drawn
        /\ archive_dump \ excused \subseteq archive_files

\* What is no longer to be compared is in the home as it is in the archive.
Restoring ==
    /\ restore_pc = "syncing" =>
          /\ \A o \in ObjectIds \ todo : o \in files <=> o \in archive_files
          /\ dump_copied => dump_file = archive_dump
    /\ restore_pc \in {"synced", "done"} => files = archive_files /\ dump_file = archive_dump
    /\ restore_pc = "done" => rows = archive_dump

BackupInv ==
    /\ BackupTypeOK
    /\ Drawn
    /\ Stopped
    /\ Kept
    /\ Synced
    /\ Archived
    /\ Restoring

-----------------------------------------------------------------------------
(* One lemma for each part: the steps that can disturb it, and the others   *)

\* Every step keeps the ranges.
LEMMA TypeNext ==
    ASSUME BackupTypeOK, Drawn, Stopped, [Next]_vars PROVE BackupTypeOK'
<1>. USE BackupConstants DEF storeVars, archiveVars, rsyncVars, storeOnly
<1>. USE DEF BackupTypeOK, Drawn
<1>1. ASSUME NEW o \in ObjectIds, AddRow(o) \/ PlaceFile(o) \/ PruneFile(o) PROVE BackupTypeOK'
  BY <1>1 DEF AddRow, PlaceFile, PruneFile
<1>2. CASE PruneDelete
  BY <1>2 DEF PruneDelete
<1>3. CASE Dump
  <2>1. rows \in Rows
    BY DEF Rows
  <2>. QED  BY <1>3, <2>1 DEF Dump
<1>4. CASE List
  BY <1>4 DEF List
<1>5. CASE CopyDump
  BY <1>5 DEF CopyDump
<1>6. CASE FinishArchive
  <2>1. NoDump \in Rows
    BY DEF Rows
  <2>. QED  BY <1>6, <2>1 DEF FinishArchive
<1>7. ASSUME NEW o \in ObjectIds, Transfer(o) \/ TransferBack(o) PROVE BackupTypeOK'
  BY <1>7 DEF Transfer, TransferBack
<1>8. CASE StartRestore \/ RestoreAgain
  BY <1>8 DEF StartRestore, RestoreAgain
<1>9. CASE CopyDumpBack \/ FinishSync
  BY <1>9 DEF CopyDumpBack, FinishSync
<1>10. CASE RestoreDatabase
  <2>1. rows' \subseteq drawn
    BY <1>10 DEF RestoreDatabase
  <2>2. pruned = {}
    BY <1>10 DEF RestoreDatabase, Stopped
  <2>. QED  BY <1>10, <2>1, <2>2 DEF RestoreDatabase
<1>11. CASE Fault
  BY <1>11 DEF Fault, ArchiveFails, RestoreFails
<1>12. CASE UNCHANGED vars
  BY <1>12 DEF vars
<1>. QED  BY <1>1, <1>2, <1>3, <1>4, <1>5, <1>6, <1>7, <1>8, <1>9, <1>10, <1>11, <1>12
          DEF Next, Archive, Restore

\* Ids come into dumps, archives and lists only from rows and files that are drawn.
LEMMA DrawnNext ==
    ASSUME BackupTypeOK, Drawn, [Next]_vars PROVE Drawn'
<1>. USE DEF storeVars, archiveVars, rsyncVars, storeOnly, BackupTypeOK, Drawn
<1>1. ASSUME NEW o \in ObjectIds, AddRow(o) \/ PlaceFile(o) \/ PruneFile(o) PROVE Drawn'
  BY <1>1 DEF AddRow, PlaceFile, PruneFile
<1>2. CASE PruneDelete \/ Dump \/ List
  BY <1>2 DEF PruneDelete, Dump, List
<1>3. CASE CopyDump \/ FinishArchive
  BY <1>3 DEF CopyDump, FinishArchive
<1>4. ASSUME NEW o \in ObjectIds, Transfer(o) \/ TransferBack(o) PROVE Drawn'
  BY <1>4 DEF Transfer, TransferBack
<1>5. CASE StartRestore \/ CopyDumpBack \/ FinishSync \/ RestoreDatabase \/ RestoreAgain
  BY <1>5 DEF StartRestore, CopyDumpBack, FinishSync, RestoreDatabase, RestoreAgain
<1>6. CASE Fault
  BY <1>6 DEF Fault, ArchiveFails, RestoreFails
<1>7. CASE UNCHANGED vars
  BY <1>7 DEF vars
<1>. QED  BY <1>1, <1>2, <1>3, <1>4, <1>5, <1>6, <1>7 DEF Next, Archive, Restore

\* A restore starts only where no archive and no prune is under way, and keeps them out.
LEMMA StoppedNext ==
    ASSUME Stopped, [Next]_vars PROVE Stopped'
<1>. USE DEF storeVars, archiveVars, rsyncVars, storeOnly, Stopped, Archiving
<1>1. ASSUME NEW o \in ObjectIds, AddRow(o) \/ PlaceFile(o) \/ PruneFile(o) PROVE Stopped'
  BY <1>1 DEF AddRow, PlaceFile, PruneFile
<1>2. CASE PruneDelete \/ Archive
  BY <1>2 DEF PruneDelete, Archive, Dump, List, CopyDump, Transfer, FinishArchive
<1>3. CASE Restore \/ RestoreAgain
  BY <1>3 DEF Restore, StartRestore, TransferBack, CopyDumpBack, FinishSync, RestoreDatabase, RestoreAgain
<1>4. CASE Fault
  BY <1>4 DEF Fault, ArchiveFails, RestoreFails
<1>5. CASE UNCHANGED vars
  BY <1>5 DEF vars
<1>. QED  BY <1>1, <1>2, <1>3, <1>4, <1>5 DEF Next

\* A restore has an archive to itself; and none of its steps ends or starts one.
LEMMA KeptNext ==
    ASSUME BackupTypeOK, Drawn, Stopped, Kept, [Next]_vars PROVE Kept'
<1>. USE DEF storeVars, archiveVars, rsyncVars, storeOnly, Kept
<1>1. ASSUME NEW o \in ObjectIds, AddRow(o) \/ PlaceFile(o) \/ PruneFile(o) PROVE Kept'
  BY <1>1 DEF AddRow, PlaceFile, PruneFile, Archiving
<1>2. CASE PruneDelete
  BY <1>2 DEF PruneDelete, Archiving
<1>3. CASE Dump
  BY <1>3 DEF Dump, BackupTypeOK
<1>4. CASE List \/ CopyDump \/ FinishArchive \/ \E o \in ObjectIds : Transfer(o)
  BY <1>4 DEF List, CopyDump, FinishArchive, Transfer, Archiving
<1>5. CASE Restore \/ RestoreAgain
  BY <1>5 DEF Restore, StartRestore, TransferBack, CopyDumpBack, FinishSync, RestoreDatabase,
              RestoreAgain, Stopped, Archiving
<1>6. CASE Fault
  BY <1>6 DEF Fault, ArchiveFails, RestoreFails, Archiving
<1>7. CASE UNCHANGED vars
  BY <1>7 DEF vars, Archiving
<1>. QED  BY <1>1, <1>2, <1>3, <1>4, <1>5, <1>6, <1>7 DEF Next, Archive

\* rsync takes off its list only what it has copied, or what is excused.
LEMMA SyncedNext ==
    ASSUME Stopped, Kept, Synced, [Next]_vars PROVE Synced'
<1>. USE DEF storeVars, archiveVars, rsyncVars, storeOnly, Synced
<1>1. ASSUME NEW o \in ObjectIds, AddRow(o) \/ PlaceFile(o) \/ PruneFile(o) PROVE Synced'
  BY <1>1 DEF AddRow, PlaceFile, PruneFile
<1>2. CASE PruneDelete
  BY <1>2 DEF PruneDelete, Archiving
<1>3. CASE List
  BY <1>3 DEF List, Kept, Archiving
<1>4. ASSUME NEW o \in ObjectIds, Transfer(o) PROVE Synced'
  BY <1>4 DEF Transfer, Kept, Archiving
<1>5. CASE Dump \/ CopyDump \/ FinishArchive
  BY <1>5 DEF Dump, CopyDump, FinishArchive
<1>6. CASE Restore \/ RestoreAgain
  BY <1>6 DEF Restore, StartRestore, TransferBack, CopyDumpBack, FinishSync, RestoreDatabase,
              RestoreAgain, Stopped, Archiving
<1>7. CASE Fault
  BY <1>7 DEF Fault, ArchiveFails, RestoreFails, Stopped, Archiving
<1>8. CASE UNCHANGED vars
  BY <1>8 DEF vars
<1>. QED  BY <1>1, <1>2, <1>3, <1>4, <1>5, <1>6, <1>7, <1>8 DEF Next, Archive

\* An archive that is done is left alone until the next one starts.
LEMMA ArchivedNext ==
    ASSUME Kept, Synced, Archived, [Next]_vars PROVE Archived'
<1>. USE DEF storeVars, archiveVars, rsyncVars, storeOnly, Archived
<1>1. ASSUME NEW o \in ObjectIds, AddRow(o) \/ PlaceFile(o) \/ PruneFile(o) PROVE Archived'
  BY <1>1 DEF AddRow, PlaceFile, PruneFile
<1>2. CASE PruneDelete
  BY <1>2 DEF PruneDelete, Archiving
<1>3. CASE FinishArchive
  BY <1>3 DEF FinishArchive, Kept, Synced, Archiving
<1>4. CASE Dump \/ List \/ CopyDump \/ \E o \in ObjectIds : Transfer(o)
  BY <1>4 DEF Dump, List, CopyDump, Transfer
<1>5. CASE Restore \/ RestoreAgain
  BY <1>5 DEF Restore, StartRestore, TransferBack, CopyDumpBack, FinishSync, RestoreDatabase, RestoreAgain
<1>6. CASE Fault
  BY <1>6 DEF Fault, ArchiveFails, RestoreFails
<1>7. CASE UNCHANGED vars
  BY <1>7 DEF vars
<1>. QED  BY <1>1, <1>2, <1>3, <1>4, <1>5, <1>6, <1>7 DEF Next, Archive

\* Each entry a restore is done with is as in the archive, which nobody changes meanwhile.
LEMMA RestoringNext ==
    ASSUME BackupTypeOK, Stopped, Restoring, [Next]_vars PROVE Restoring'
<1>. USE DEF storeVars, archiveVars, rsyncVars, storeOnly, Restoring
<1>1. ASSUME NEW o \in ObjectIds, AddRow(o) \/ PlaceFile(o) \/ PruneFile(o) PROVE Restoring'
  BY <1>1 DEF AddRow, PlaceFile, PruneFile, Stopped
<1>2. CASE PruneDelete \/ Archive
  BY <1>2 DEF PruneDelete, Archive, Dump, List, CopyDump, Transfer, FinishArchive, Stopped, Archiving
<1>3. CASE StartRestore \/ RestoreAgain
  BY <1>3 DEF StartRestore, RestoreAgain
<1>4. ASSUME NEW o \in ObjectIds, TransferBack(o) PROVE Restoring'
  BY <1>4 DEF TransferBack
<1>5. CASE FinishSync
  <2>1. files = archive_files
    BY <1>5 DEF FinishSync, BackupTypeOK
  <2>. QED  BY <1>5, <2>1 DEF FinishSync
<1>6. CASE CopyDumpBack \/ RestoreDatabase
  BY <1>6 DEF CopyDumpBack, RestoreDatabase
<1>7. CASE Fault
  BY <1>7 DEF Fault, ArchiveFails, RestoreFails, Stopped
<1>8. CASE UNCHANGED vars
  BY <1>8 DEF vars
<1>. QED  BY <1>1, <1>2, <1>3, <1>4, <1>5, <1>6, <1>7, <1>8 DEF Next, Restore

-----------------------------------------------------------------------------
(* The properties                                                          *)

\* The parts are true at first, and every step keeps them together.
THEOREM BackupInvariant == Spec => []BackupInv
<1>1. Init => BackupInv
  <2>. SUFFICES ASSUME Init PROVE BackupInv
    OBVIOUS
  <2>1. NoDump \in Rows /\ NoDump \in (SUBSET drawn) \union {NoDump}
    BY DEF Rows
  <2>2. BackupTypeOK
    <3>1. archives \in 0..MaxArchives /\ faults \in 0..MaxFaults
      BY BackupConstants DEF Init
    <3>2. dump_file \in Rows /\ archive_dump \in Rows
      BY <2>1 DEF Init
    <3>. QED  BY <3>1, <3>2 DEF Init, BackupTypeOK
  <2>3. Drawn
    BY <2>1 DEF Init, Drawn
  <2>4. Stopped /\ Kept /\ Synced /\ Archived /\ Restoring
    BY DEF Init, Stopped, Kept, Synced, Archived, Restoring, Archiving
  <2>. QED  BY <2>2, <2>3, <2>4 DEF BackupInv
<1>2. BackupInv /\ [Next]_vars => BackupInv'
  BY TypeNext, DrawnNext, StoppedNext, KeptNext, SyncedNext, ArchivedNext, RestoringNext DEF BackupInv
<1>. QED  BY <1>1, <1>2, PTL DEF Spec

\* Every variable of archive, restore, and the store beside them keeps its range.
THEOREM BackupTypeOKHolds == Spec => []BackupTypeOK
<1>1. BackupInv => BackupTypeOK
  BY DEF BackupInv
<1>. QED  BY <1>1, BackupInvariant, PTL

\* A finished archive lacks only files that were not there when the database was
\* dumped, or were pruned since, whatever archives, failures and uploads there were.
THEOREM ArchiveCompleteHolds == Spec => []ArchiveComplete
<1>1. BackupInv => ArchiveComplete
  BY DEF BackupInv, Archived, ArchiveComplete
<1>. QED  BY <1>1, BackupInvariant, PTL

\* A finished restore of a finished archive is the store of that archive, after
\* any number of attempts that failed.
THEOREM RestoreCompleteHolds == Spec => []RestoreComplete
<1>1. BackupInv => RestoreComplete
  BY DEF BackupInv, Archived, Restoring, RestoreComplete
<1>. QED  BY <1>1, BackupInvariant, PTL
=============================================================================
