------------------------------ MODULE Database ------------------------------
(***************************************************************************)
(* The PostgreSQL side of fstore: the four tables of data.sql and the      *)
(* functions of api.sql, called through db::connection.  A call is one     *)
(* statement outside a transaction block, so it either takes effect as a   *)
(* whole or not at all; the one exception is remove_orphan_objects, whose  *)
(* single DELETE chooses its victims by the snapshot it started with and   *)
(* removes them later, and which is therefore two operators here.          *)
(***************************************************************************)
EXTENDS Content, FiniteSets, FiniteSetsExt

CONSTANTS
    BucketIds,  \* the ids a bucket can have
    Names       \* the names a bucket can have

VARIABLES
    bucket,         \* data.bucket: the name of each bucket that exists
    object,         \* data.object: the row of each object that exists
    bucket_object,  \* data.bucket_object: which bucket holds which object
    object_error    \* data.object_error: objects the last check found broken

dbVars == <<bucket, object, bucket_object, object_error>>

ASSUME NullIsNoId == Null \notin Names \union ObjectIds \union BucketIds
ASSUME FiniteTables == IsFiniteSet(BucketIds)

DbTypeOK ==
    /\ bucket \in [BucketIds -> Names \union {Null}]
    /\ object \in [ObjectIds -> Row \union {Null}]
    /\ bucket_object \subseteq BucketIds \X ObjectIds
    /\ object_error \subseteq ObjectIds

Buckets == {b \in BucketIds : bucket[b] # Null}
Objects == {o \in ObjectIds : object[o] # Null}

-----------------------------------------------------------------------------
(* Views and queries                                                       *)

bucket_contents(b) == {o \in Objects : <<b, o>> \in bucket_object}

\* get_object: the row, if the bucket holds the object.
get_object(b, o) == IF o \in bucket_contents(b) THEN object[o] ELSE Null

NotFound(b, o) == get_object(b, o) = Null

reference_count(o) == Cardinality({b \in BucketIds : <<b, o>> \in bucket_object})

space(objects) == MapThenSumSet(LAMBDA o : object[o].size, objects)

\* Mutated form: inner joins, which drop the buckets that hold nothing.
Listed_inner == {b \in Buckets : bucket_contents(b) # {}}

\* The buckets with a row in the view `bucket`: all, for its joins are outer.
Listed == Buckets

bucket_view(b) ==
    [object_count |-> Cardinality(bucket_contents(b)),
     space_used   |-> space(bucket_contents(b))]

fetch_store_totals ==
    [buckets    |-> Cardinality(Buckets),
     objects    |-> Cardinality(Objects),
     space_used |-> space(Objects)]

-----------------------------------------------------------------------------
(* Buckets                                                                 *)

NameTaken(name) == \E b \in BucketIds : bucket[b] = name

\* The id is fresh (gen_random_uuid); a taken name is a unique violation.
create_bucket(b, name) ==
    /\ bucket[b] = Null
    /\ ~NameTaken(name)
    /\ bucket' = [bucket EXCEPT ![b] = name]
    /\ UNCHANGED <<object, bucket_object, object_error>>

\* Another bucket has the name.  A bucket may be renamed to the one it has, and
\* a bucket that is gone is updated nowhere.
RenameRejected(b, name) ==
    bucket[b] # Null /\ \E c \in BucketIds \ {b} : bucket[c] = name

\* Mutated form: the names are not UNIQUE.
rename_bucket_unchecked(b, name) ==
    /\ bucket' = [bucket EXCEPT ![b] = IF @ = Null THEN Null ELSE name]
    /\ UNCHANGED <<object, bucket_object, object_error>>

\* Mutated form: a bucket that is gone is inserted again.
rename_bucket_upsert(b, name) ==
    /\ ~NameTaken(name)
    /\ bucket' = [bucket EXCEPT ![b] = name]
    /\ UNCHANGED <<object, bucket_object, object_error>>

rename_bucket(b, name) ==
    /\ ~RenameRejected(b, name)
    /\ bucket' = [bucket EXCEPT ![b] = IF @ = Null THEN Null ELSE name]
    /\ UNCHANGED <<object, bucket_object, object_error>>

\* Mutated form: the foreign key does not cascade.
remove_bucket_only(b) ==
    /\ bucket' = [bucket EXCEPT ![b] = Null]
    /\ UNCHANGED <<object, bucket_object, object_error>>

\* ON DELETE CASCADE drops what the bucket held, never the objects themselves.
remove_bucket(b) ==
    /\ bucket' = [bucket EXCEPT ![b] = Null]
    /\ bucket_object' = {r \in bucket_object : r[1] # b}
    /\ UNCHANGED <<object, object_error>>

-----------------------------------------------------------------------------
(* Objects                                                                 *)

HashTaken(row) == \E o \in Objects : object[o].hash = row.hash

\* Mutated form: ON CONFLICT DO UPDATE.
create_object_upsert(o, row) == [object EXCEPT ![o] = row]

\* INSERT ... ON CONFLICT DO NOTHING: a taken id or a taken hash keeps the
\* table as it is.
create_object(o, row) ==
    IF o \in Objects \/ HashTaken(row) THEN object ELSE [object EXCEPT ![o] = row]

\* SELECT object_id ... WHERE hash = a_hash, after the insertion: at most one
\* id, and none when the insertion lost to a row with this id and another hash.
IdsForHash(objects, row) ==
    {o \in ObjectIds : objects[o] # Null /\ objects[o].hash = row.hash}

\* Mutated form: a missing bucket is never reported.
AddRejected_anyBucket(b, o, row) == IdsForHash(create_object(o, row), row) = {}

\* The bucket is missing (foreign key) or there is no id for the hash (NOT
\* NULL): the whole call is rolled back.
AddRejected(b, o, row) ==
    bucket[b] = Null \/ IdsForHash(create_object(o, row), row) = {}

\* The answer is the row `id`, which has the hash the caller sent.
add_object(b, o, row, id) ==
    /\ bucket[b] # Null
    /\ id \in IdsForHash(create_object(o, row), row)
    /\ object' = create_object(o, row)
    /\ bucket_object' = bucket_object \union {<<b, id>>}
    /\ UNCHANGED <<bucket, object_error>>

\* Returns the row it unlinks; with nothing to unlink the caller sees not_found.
remove_object(b, o) ==
    /\ <<b, o>> \in bucket_object
    /\ bucket_object' = bucket_object \ {<<b, o>>}
    /\ UNCHANGED <<bucket, object, object_error>>

remove_objects(b, objects) ==
    /\ bucket_object' = bucket_object \ ({b} \X objects)
    /\ UNCHANGED <<bucket, object, object_error>>

\* Mutated form: what was requested is counted, not what was deleted.
remove_result_requested(b, objects) ==
    [objects_removed |-> Cardinality(objects), space_freed |-> space(objects \intersect Objects)]

remove_result(b, objects) ==
    LET deleted == {o \in objects : <<b, o>> \in bucket_object}
    IN  [objects_removed |-> Cardinality(deleted), space_freed |-> space(deleted)]

\* Mutated form: an object in one bucket counts as an orphan.
orphans_offByOne == {o \in Objects : reference_count(o) <= 1}

\* The victims remove_orphan_objects sees when its statement starts ...
orphans_of_snapshot == {o \in Objects : reference_count(o) = 0}

\* ... and their removal.  A reference another session commits in between only
\* locks the row, so the row still goes and takes the reference with it.
delete_objects(objects) ==
    /\ object' = [o \in ObjectIds |-> IF o \in objects THEN Null ELSE object[o]]
    /\ bucket_object' = {r \in bucket_object : r[2] \notin objects}
    /\ object_error' = object_error \ objects
    /\ UNCHANGED bucket

\* One batch of check results: the sound objects and the broken ones.  A broken
\* object that is gone is a foreign key violation, and nothing is written.
update_object_errors(sound, broken) ==
    /\ broken \subseteq Objects
    /\ object_error' = (object_error \ sound) \union broken
    /\ UNCHANGED <<bucket, object, bucket_object>>

-----------------------------------------------------------------------------
(* What goes on in the tables besides the bucket commands.                 *)

\* Rows an uploader can send: those of the contents up to the size n.
RowsUpTo(n) == {describe(b) : b \in UNION {[1..k -> Chunks] : k \in 0..n}}

ObjectCalls(rows) ==
    \/ \E b \in BucketIds, o, id \in ObjectIds, row \in rows : add_object(b, o, row, id)
    \/ \E b \in BucketIds, o \in ObjectIds : remove_object(b, o)
    \/ \E b \in BucketIds, objects \in SUBSET ObjectIds : remove_objects(b, objects)
    \/ delete_objects(orphans_of_snapshot)
    \/ \E sound \in SUBSET Objects, broken \in SUBSET Objects :
          sound \intersect broken = {} /\ update_object_errors(sound, broken)

-----------------------------------------------------------------------------
(* Properties                                                              *)

\* What the constraints of data.sql keep across every sequence of calls: no
\* reference and no error entry outlives its bucket or object, one name is one
\* bucket, and one hash is one object, so that equal contents are stored once.
Constraints ==
    /\ \A r \in bucket_object : r[1] \in Buckets /\ r[2] \in Objects
    /\ object_error \subseteq Objects
    /\ \A b, c \in Buckets : bucket[b] = bucket[c] => b = c
    /\ \A o, p \in Objects : object[o].hash = object[p].hash => o = p

\* The totals remove_objects reports to a client are what the bucket view
\* (object_count, space_used) loses in the same step, with ids in the request
\* that the bucket does not hold counted for nothing.
ReportMatchesView ==
    [][\A b \in BucketIds, objects \in SUBSET ObjectIds :
         remove_objects(b, objects) =>
            /\ bucket_view(b).object_count
                 = bucket_view(b)'.object_count + remove_result(b, objects).objects_removed
            /\ bucket_view(b).space_used
                 = bucket_view(b)'.space_used + remove_result(b, objects).space_freed]_dbVars

\* Deleting the orphans of a snapshot nobody wrote since is invisible in every
\* bucket view, and leaves no byte in the store totals (fetch_store_totals) that
\* some bucket does not account for.
PruneKeepsViews ==
    [][delete_objects(orphans_of_snapshot) =>
         /\ \A b \in BucketIds : bucket_view(b)' = bucket_view(b)
         /\ (fetch_store_totals.space_used
               <= MapThenSumSet(LAMBDA b : bucket_view(b).space_used, BucketIds))']_dbVars
=============================================================================
