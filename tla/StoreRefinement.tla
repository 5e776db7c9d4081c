-------------------------- MODULE StoreRefinement --------------------------
(***************************************************************************)
(* The object store implements BucketStore: rows stand for known contents, *)
(* rows with a file in objects/ for available ones, and bucket_object for  *)
(* what the buckets hold.                                                  *)
(***************************************************************************)
EXTENDS ObjectStore

HashesOf(objects) == {object[o].hash : o \in objects}

Abstract == INSTANCE BucketStore WITH
    Buckets   <- BucketIds,
    Contents  <- {row.hash : row \in RowsUpTo(MaxBytes)},
    open      <- Buckets,
    holds     <- [b \in BucketIds |-> HashesOf(bucket_contents(b))],
    known     <- HashesOf(Objects),
    available <- HashesOf({o \in Objects : object_dir[o] # Null}),
    doomed    <- IF prune_pc = "deleting" THEN HashesOf(orphans) ELSE {}

\* Every step of uploads, removals, prune and faults is one of the promise or
\* changes nothing a client could see: in particular a second upload of known
\* contents adds a reference and nothing else, no upload or crash makes
\* anything unavailable, and prune takes nothing beyond its first choice.
ImplementsBucketStore == Abstract!StoreSpec
=============================================================================
