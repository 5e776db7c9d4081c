------------------------- MODULE MCBucketCommands -------------------------
(* The bucket commands, with the catalogue they work on, for TLC.          *)
EXTENDS BucketCommands, TLC

Symmetry ==
    Permutations(BucketIds) \union Permutations(Names) \union Permutations(ObjectIds)
        \union Permutations(Commands)
=============================================================================
