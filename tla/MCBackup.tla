------------------------------ MODULE MCBackup ------------------------------
(* Archive and restore, for TLC.                                           *)
EXTENDS Backup, TLC

Symmetry == Permutations(ObjectIds)
=============================================================================
