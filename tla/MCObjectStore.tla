--------------------------- MODULE MCObjectStore ---------------------------
(* The object store, its invariants and its abstract promise, for TLC.     *)
EXTENDS StoreInvariant, StoreRefinement, TLC

\* Uploads, readers, buckets and chunks are interchangeable everywhere; ids are
\* while no client names one.  Not for liveness.
Symmetry ==
    Permutations(Uploads) \union Permutations(Readers) \union Permutations(BucketIds)
        \union Permutations(Chunks) \union Permutations(Names)
        \union (IF RequestIds = {} THEN Permutations(ObjectIds) ELSE {})
=============================================================================
