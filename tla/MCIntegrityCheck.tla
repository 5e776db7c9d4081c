-------------------------- MODULE MCIntegrityCheck --------------------------
(* The integrity check for TLC.                                            *)
EXTENDS IntegrityCheck, TLC

Symmetry == Permutations(ObjectIds)
=============================================================================
