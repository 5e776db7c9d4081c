-------------------------- MODULE RefinementProofs --------------------------
(***************************************************************************)
(* The object store implements BucketStore, for any numbers of buckets,    *)
(* uploads, readers and faults, while the server draws every part id or    *)
(* nothing is pruned, however clients share and resume parts: the initial  *)
(* states are initial ones there, and every step is one of the promise or  *)
(* changes nothing that a client could see.                                *)
(***************************************************************************)
EXTENDS StoreRefinement, StoreProofs

USE DEF vars, dbVars, fsVars, uploadVars, pruneVars

-----------------------------------------------------------------------------
(* The invariant                                                           *)

\* No part outgrows the bound, and neither does what was read or kept of one, so
\* that every digest is one of the contents.
Small ==
    /\ \A u \in Uploads : Len(data[u]) <= MaxBytes
    /\ \A u \in Uploads : sent[u] # Null => sent[u] \in RowsUpTo(MaxBytes)
    /\ \A o \in Objects : object[o] \in RowsUpTo(MaxBytes)

\* prune's victims are still there when its DELETE takes them: nothing else
\* deletes objects.
VictimsThere == prune_pc = "deleting" => orphans \subseteq Objects

\* The files prune removes are no row's.
Swept == prune_pc = "removing" => \A o \in orphans : object[o] = Null

\* There is no file yet where the row an upload may add would have one.
NotYetStored ==
    \A u \in Uploads : pc[u] = "adding" /\ part_id[u] \notin Objects => object_dir[part_id[u]] = Null

PromiseInv ==
    /\ TypeInv
    /\ Constraints
    /\ Small
    /\ VictimsThere
    /\ Swept
    /\ NotYetStored

\* The digest of a part within the bound is one of the contents.
LEMMA DescribeSmall ==
    ASSUME NEW bytes \in Bytes, Len(bytes) <= MaxBytes
    PROVE  describe(bytes) \in RowsUpTo(MaxBytes)
<1>1. Len(bytes) \in 0..MaxBytes /\ bytes \in [1..Len(bytes) -> Chunks]
  BY ConstantsOK DEF Bytes
<1>. QED  BY <1>1 DEF RowsUpTo

\* Only a write changes a file, and stops at the bound; what a handler reads, and
\* what the database keeps of it, is within the bound with it.
LEMMA SmallNext ==
    ASSUME TypeInv, Small, [Next]_vars PROVE Small'
<1>. USE DEF Small
<1>1. ASSUME NEW u \in Uploads, NEW chunk \in Chunks, Write(u, chunk) PROVE Small'
  <2>1. out[u] \in Uploads /\ data \in [Uploads -> Bytes]
    BY <1>1 DEF Write, TypeInv, TypeOK, FsTypeOK, Equipped
  <2>2. /\ Len(data[out[u]]) < MaxBytes
        /\ data' = [data EXCEPT ![out[u]] = Append(@, chunk)]
    BY <1>1 DEF Write, write
  <2>3. Len(data'[out[u]]) <= MaxBytes
    BY <2>1, <2>2, ConstantsOK DEF Bytes
  <2>4. \A v \in Uploads : Len(data'[v]) <= MaxBytes
    BY <2>1, <2>2, <2>3
  <2>5. UNCHANGED <<object, sent>>
    BY <1>1 DEF Write
  <2>. QED  BY <2>4, <2>5 DEF Objects
<1>2. ASSUME NEW u \in Uploads, ReadPart(u) PROVE Small'
  <2>1. UNCHANGED <<object, data>>
    BY <1>2 DEF ReadPart
  <2>2. ASSUME NEW v \in Uploads, sent'[v] # Null PROVE sent'[v] \in RowsUpTo(MaxBytes)
    <3>1. CASE sent'[v] = sent[v]
      BY <2>2, <3>1
    <3>2. CASE sent'[v] # sent[v]
      <4>1. /\ v = u /\ parts_dir[part_id[u]] # Null
            /\ sent'[v] = describe(data[parts_dir[part_id[u]]])
        BY <1>2, <3>2 DEF ReadPart, TypeInv, TypeOK
      <4>2. PICK file \in Uploads : file = parts_dir[part_id[u]]
        BY <1>2, <4>1 DEF ReadPart, TypeInv, Equipped, TypeOK, FsTypeOK
      <4>3. data[file] \in Bytes /\ Len(data[file]) <= MaxBytes
        BY DEF TypeInv, TypeOK, FsTypeOK
      <4>. QED  BY <4>1, <4>2, <4>3, DescribeSmall
    <3>. QED  BY <3>1, <3>2
  <2>. QED  BY <2>1, <2>2 DEF Objects
<1>3. ASSUME NEW u \in Uploads, AddObject(u) PROVE Small'
  <2>1. PICK b \in BucketIds, p \in ObjectIds, row \in Row, id \in ObjectIds :
          add_object(b, p, row, id) /\ row = sent[u]
    BY <1>3 DEF AddObject, TypeInv, Equipped
  <2>2. \A o \in Objects' : (o \in Objects /\ object'[o] = object[o]) \/ object'[o] = row
    BY <2>1 DEF add_object, create_object, Objects, TypeInv, TypeOK, DbTypeOK
  <2>3. row \in RowsUpTo(MaxBytes)
    BY <2>1, NullIsNoRow
  <2>4. UNCHANGED <<data, sent>>
    BY <1>3 DEF AddObject
  <2>. QED  BY <2>2, <2>3, <2>4
<1>4. ASSUME UNCHANGED <<data, sent>>, \A o \in Objects' : o \in Objects /\ object'[o] = object[o]
      PROVE  Small'
  BY <1>4
<1>5. ASSUME NEW u \in Uploads, Upload(u)
      PROVE  \/ \E chunk \in Chunks : Write(u, chunk)
             \/ ReadPart(u) \/ AddObject(u) \/ UNCHANGED <<object, data, sent>>
  BY <1>5 DEF Upload, Begin, EndStream, RejectObject, RemovePart, MakeObject, RenameFails,
     get_part, remove_part, make_object
<1>6. ASSUME NEW r \in Readers, Reader(r) PROVE UNCHANGED <<object, data, sent>>
  BY <1>6 DEF Reader, Locate, Open, Respond
<1>7. CASE Remove \/ Fault \/ UNCHANGED vars
  <2>1. UNCHANGED <<object, data, sent>>
    BY <1>7 DEF Remove, RemoveObject, RemoveObjects, RemoveBucket, remove_object, remove_objects,
       remove_bucket, Fault, CallFails, Crash, PruneDies
  <2>. QED  BY <1>4, <2>1 DEF Objects
<1>8. CASE Prune
  <2>1. UNCHANGED <<data, sent>>
    BY <1>8 DEF Prune, PruneScan, PruneDelete, PruneRemove, PruneEnd, remove
  <2>2. \A o \in Objects' : o \in Objects /\ object'[o] = object[o]
    BY <1>8 DEF Prune, PruneScan, PruneDelete, PruneRemove, PruneEnd, delete_objects, Objects
  <2>. QED  BY <1>4, <2>1, <2>2
<1>. QED
  <2>1. UNCHANGED <<object, data, sent>> => Small'
    BY <1>4 DEF Objects
  <2>. QED  BY <1>1, <1>2, <1>3, <1>5, <1>6, <1>7, <1>8, <2>1 DEF Next

\* An insertion keeps the rows that are there.
LEMMA RowsStay ==
    ASSUME TypeInv, NEW u \in Uploads, AddObject(u), NEW p \in Objects
    PROVE  object'[p] = object[p] /\ p \in Objects'
<1>1. PICK id \in ObjectIds : add_object(to[u], part_id[u], sent[u], id)
  BY DEF AddObject
<1>2. object'[p] = object[p]
  BY <1>1 DEF add_object, create_object, Objects, TypeInv, TypeOK, DbTypeOK
<1>. QED  BY <1>2 DEF Objects

\* Only prune deletes objects, and one prune at a time.
LEMMA VictimsNext ==
    ASSUME TypeInv, VictimsThere, [Next]_vars PROVE VictimsThere'
<1>. USE DEF VictimsThere
<1>1. ASSUME NEW u \in Uploads, Upload(u) PROVE VictimsThere'
  <2>1. UNCHANGED object \/ AddObject(u)
    BY <1>1 DEF Upload, Begin, Write, EndStream, ReadPart, RejectObject, RemovePart,
       MakeObject, RenameFails
  <2>2. UNCHANGED pruneVars
    BY <1>1 DEF Upload, Begin, Write, EndStream, ReadPart, AddObject, RejectObject, RemovePart,
       MakeObject, RenameFails
  <2>. QED  BY <2>1, <2>2, RowsStay DEF Objects
<1>2. ASSUME NEW r \in Readers, Reader(r) PROVE VictimsThere'
  BY <1>2 DEF Reader, Locate, Open, Respond, Objects
<1>3. CASE Remove
  BY <1>3 DEF Remove, RemoveObject, RemoveObjects, RemoveBucket, remove_object, remove_objects,
     remove_bucket, Objects
<1>4. CASE Prune
  BY <1>4 DEF Prune, PruneScan, PruneDelete, PruneRemove, PruneEnd, orphans_of_snapshot, Objects
<1>5. CASE Fault
  BY <1>5 DEF Fault, CallFails, Crash, PruneDies, Objects
<1>6. CASE UNCHANGED vars
  BY <1>6 DEF Objects
<1>. QED  BY <1>1, <1>2, <1>3, <1>4, <1>5, <1>6 DEF Next

\* Without prune, a file in objects/ has its row.
FilesHaveRows == \A o \in ObjectIds : object_dir[o] # Null => o \in Objects

\* Only a part whose row was answered is renamed, and rows stay.
LEMMA FilesHaveRowsNext ==
    ASSUME ~Pruning, TypeInv, Named, FilesHaveRows, [Next]_vars PROVE FilesHaveRows'
<1>1. \A o \in Objects : o \in Objects'
  BY RowStays DEF Named, Objects
<1>2. CASE UNCHANGED object_dir
  BY <1>1, <1>2 DEF FilesHaveRows
<1>3. ASSUME NEW u \in Uploads, MakeObject(u) PROVE FilesHaveRows'
  <2>1. PICK p \in ObjectIds : p = part_id[u]
    BY <1>3 DEF MakeObject, TypeInv, Equipped
  <2>2. obj[u] = p /\ object_dir' = [object_dir EXCEPT ![p] = parts_dir[p]]
    BY <1>3, <2>1 DEF MakeObject, make_object
  <2>3. p \in Objects
    BY <2>2, NullIsNoId DEF Named
  <2>4. \A o \in ObjectIds \ {p} : object_dir'[o] = object_dir[o]
    BY <2>2 DEF TypeInv, TypeOK, FsTypeOK
  <2>. QED  BY <1>1, <2>3, <2>4 DEF FilesHaveRows
<1>4. ASSUME NEW u \in Uploads, Upload(u) PROVE UNCHANGED object_dir \/ MakeObject(u)
  BY <1>4 DEF Upload, Begin, Write, EndStream, ReadPart, AddObject, RejectObject, RemovePart,
     RenameFails, get_part, write, remove_part
<1>5. ASSUME NEW r \in Readers, Reader(r) PROVE UNCHANGED object_dir
  BY <1>5 DEF Reader, Locate, Open, Respond
<1>6. Remove \/ Fault \/ UNCHANGED vars => UNCHANGED object_dir
  BY DEF Remove, RemoveObject, RemoveObjects, RemoveBucket, Fault, CallFails, Crash, PruneDies
<1>7. ~Prune
  BY DEF Prune, PruneScan, PruneDelete, PruneRemove, PruneEnd, Named
<1>. QED  BY <1>2, <1>3, <1>4, <1>5, <1>6, <1>7 DEF Next

\* Why rows and files do not meet unawares: ids that nobody else knows, or no prune.
LEMMA Unmixed ==
    ASSUME FreshInv \/ (TypeInv /\ Named /\ FilesHaveRows)
    PROVE  Swept /\ NotYetStored
<1>1. CASE FreshInv
  <2>1. Swept
    BY <1>1 DEF FreshInv, PrunedForGood, Swept
  <2>2. ASSUME NEW u \in Uploads, pc[u] = "adding" PROVE object_dir[part_id[u]] = Null
    <3>1. parts_dir[part_id[u]] = u /\ part_id[u] \in ObjectIds
      BY <1>1, <2>2 DEF FreshInv, OwnPart, TypeInv, Equipped
    <3>. QED  BY <1>1, <3>1, NullIsNoFile DEF FreshInv, OwnFiles
  <2>. QED  BY <2>1, <2>2 DEF NotYetStored
<1>2. CASE TypeInv /\ Named /\ FilesHaveRows
  BY <1>2 DEF TypeInv, Equipped, Named, FilesHaveRows, Swept, NotYetStored
<1>. QED  BY <1>1, <1>2

\* The digests stay within the bound, prune's victims where they are, and its
\* files out of the way, if the server draws every part id or nothing is pruned.
THEOREM PromiseInvariant ==
    ASSUME RequestIds = {} \/ ~Pruning
    PROVE  Spec => []PromiseInv
<1>1. Init => Small /\ VictimsThere /\ FilesHaveRows
  BY ConstantsOK DEF Init, FsInit, Small, VictimsThere, FilesHaveRows, Objects
<1>2. TypeInv /\ Small /\ VictimsThere /\ [Next]_vars => Small' /\ VictimsThere'
  BY SmallNext, VictimsNext
<1>3. Swept /\ NotYetStored /\ TypeInv /\ Constraints /\ Small /\ VictimsThere => PromiseInv
  BY DEF PromiseInv
<1>4. Spec => [](TypeInv /\ Constraints /\ Small /\ VictimsThere)
  BY <1>1, <1>2, TypeInvariant, ConstraintsHold, PTL DEF Spec
<1>5. CASE RequestIds = {}
  <2>1. FreshInv => Swept /\ NotYetStored
    BY Unmixed
  <2>2. Spec => []FreshInv
    BY <1>5, FreshInvariant
  <2>. QED  BY <1>3, <1>4, <2>1, <2>2, PTL
<1>6. CASE ~Pruning
  <2>1. TypeInv /\ Named /\ [Next]_vars => Named'
    BY <1>6, NamedNext
  <2>2. TypeInv /\ Named /\ FilesHaveRows /\ [Next]_vars => FilesHaveRows'
    BY <1>6, FilesHaveRowsNext
  <2>3. TypeInv /\ Named /\ FilesHaveRows => Swept /\ NotYetStored
    BY Unmixed
  <2>. QED  BY <1>1, <1>3, <1>4, <2>1, <2>2, <2>3, NamedInit, PTL DEF Spec
<1>. QED  BY <1>5, <1>6

-----------------------------------------------------------------------------
(* What a client can see                                                   *)

Contents == {row.hash : row \in RowsUpTo(MaxBytes)}
Holds == [b \in BucketIds |-> HashesOf(bucket_contents(b))]
Known == HashesOf(Objects)
Placed == {o \in Objects : object_dir[o] # Null}
Stored == HashesOf(Placed)
Doomed == IF prune_pc = "deleting" THEN HashesOf(orphans) ELSE {}

Seen == <<Buckets, Holds, Known, Stored, Doomed>>

\* One hash is one object: hashes differ as the objects do.
LEMMA HashesApart ==
    ASSUME Constraints, NEW S \in SUBSET Objects, NEW T \in SUBSET Objects
    PROVE  HashesOf(S \ T) = HashesOf(S) \ HashesOf(T)
  BY DEF Constraints, HashesOf

\* A step that changes what one bucket holds.
LEMMA HoldsAt ==
    ASSUME NEW b \in BucketIds, NEW hashes, HashesOf(bucket_contents(b))' = hashes,
           \A c \in BucketIds \ {b} : HashesOf(bucket_contents(c))' = HashesOf(bucket_contents(c))
    PROVE  /\ Holds' = [Holds EXCEPT ![b] = hashes]
           /\ Holds[b] = HashesOf(bucket_contents(b))
  BY DEF Holds

\* A step that leaves these tables, what is stored and what is doomed is unseen.
LEMMA Unseen ==
    ASSUME UNCHANGED <<bucket, object, bucket_object>>, UNCHANGED Placed, UNCHANGED Doomed
    PROVE  UNCHANGED Seen
<1>1. Objects' = Objects /\ Buckets' = Buckets /\ \A b : bucket_contents(b)' = bucket_contents(b)
  BY DEF Objects, Buckets, bucket_contents
<1>2. Known' = Known /\ Stored' = Stored
  BY <1>1 DEF Known, Stored, HashesOf
<1>3. Holds' = Holds
  BY <1>1 DEF Holds, HashesOf
<1>. QED  BY <1>1, <1>2, <1>3 DEF Seen

-----------------------------------------------------------------------------
(* Uploads                                                                 *)

\* An object that is added is not stored yet, and is of contents within the bound.
LEMMA AddObjectPuts ==
    ASSUME PromiseInv, NEW u \in Uploads, AddObject(u)
    PROVE  \E b \in BucketIds, d \in Contents :
             /\ b \in Buckets /\ Buckets' = Buckets
             /\ Known' = Known \union {d}
             /\ Holds' = [Holds EXCEPT ![b] = @ \union {d}]
             /\ Stored' = Stored /\ Doomed' = Doomed
<1>. USE DEF PromiseInv
<1>1. PICK b \in BucketIds, o \in ObjectIds, row \in Row, id \in ObjectIds :
        /\ add_object(b, o, row, id)
        /\ o = part_id[u] /\ row = sent[u]
  BY DEF AddObject, TypeInv, Equipped
<1>2. PICK d \in Contents : d = row.hash
  BY <1>1, NullIsNoRow DEF Small, Contents
<1>3. b \in Buckets /\ Buckets' = Buckets
  BY <1>1 DEF add_object, Buckets
<1>4. \A p \in Objects : object'[p] = object[p] /\ p \in Objects'
  BY RowsStay
<1>5. \A p \in Objects' \ Objects : p = o /\ object'[p] = row
  BY <1>1 DEF add_object, create_object, Objects, TypeInv, TypeOK, DbTypeOK
<1>6. id \in Objects' /\ object'[id].hash = d
  BY <1>1, <1>2 DEF add_object, IdsForHash, Objects
<1>7. Known' = Known \union {d}
  BY <1>2, <1>4, <1>5, <1>6 DEF Known, HashesOf
<1>8. Holds' = [Holds EXCEPT ![b] = @ \union {d}]
  <2>1. \A c, p : /\ <<c, p>> \in bucket_object => p \in Objects
                  /\ <<c, p>> \in bucket_object' <=> <<c, p>> \in bucket_object \/ (c = b /\ p = id)
    BY <1>1 DEF add_object, Constraints
  <2>2. bucket_contents(b)' = bucket_contents(b) \union {id}
    BY <1>4, <1>6, <2>1 DEF bucket_contents
  <2>3. \A c \in BucketIds \ {b} : bucket_contents(c)' = bucket_contents(c)
    BY <1>4, <2>1 DEF bucket_contents
  <2>4. \A c : bucket_contents(c) \subseteq Objects
    BY DEF bucket_contents
  <2>5. HashesOf(bucket_contents(b))' = HashesOf(bucket_contents(b)) \union {d}
    BY <1>4, <1>6, <2>2, <2>4 DEF HashesOf
  <2>6. \A c \in BucketIds \ {b} : HashesOf(bucket_contents(c))' = HashesOf(bucket_contents(c))
    BY <1>4, <2>3, <2>4 DEF HashesOf
  <2>. QED  BY <2>5, <2>6, HoldsAt
<1>9. Stored' = Stored
  <2>1. o \notin Objects => object_dir[o] = Null
    BY <1>1 DEF AddObject, NotYetStored
  <2>2. object_dir' = object_dir
    BY DEF AddObject
  <2>3. Placed' = Placed
    BY <1>4, <1>5, <2>1, <2>2 DEF Placed
  <2>. QED  BY <1>4, <2>3 DEF Stored, Placed, HashesOf
<1>10. Doomed' = Doomed
  BY <1>4 DEF AddObject, Doomed, VictimsThere, HashesOf
<1>. QED  BY <1>3, <1>7, <1>8, <1>9, <1>10

\* A part that becomes the file of a row provides its contents.
LEMMA MakeObjectProvides ==
    ASSUME PromiseInv, NEW u \in Uploads, MakeObject(u)
    PROVE  \/ UNCHANGED Seen
           \/ \E d \in Contents :
                 /\ d \in Known /\ Stored' = Stored \union {d}
                 /\ UNCHANGED <<Buckets, Holds, Known, Doomed>>
<1>. DEFINE o == part_id[u]
<1>. USE DEF PromiseInv
<1>1. /\ o \in ObjectIds /\ object_dir' = [object_dir EXCEPT ![o] = parts_dir[o]] /\ parts_dir[o] # Null
      /\ UNCHANGED <<bucket, object, bucket_object, prune_pc, orphans>>
  BY DEF MakeObject, make_object, TypeInv, Equipped
<1>2. UNCHANGED <<Buckets, Holds, Known, Doomed>>
  BY <1>1 DEF Buckets, Holds, Known, Doomed, HashesOf, bucket_contents, Objects
<1>3. CASE o \in Objects
  <2>1. Placed' = Placed \union {o}
    BY <1>1, <1>3 DEF Placed, Objects, TypeInv, TypeOK, FsTypeOK
  <2>2. Stored' = Stored \union {object[o].hash}
    BY <1>1, <2>1 DEF Stored, HashesOf
  <2>3. object[o].hash \in Contents /\ object[o].hash \in Known
    BY <1>3 DEF Small, Contents, Known, HashesOf
  <2>. QED  BY <1>2, <2>2, <2>3
<1>4. CASE o \notin Objects
  <2>1. Placed' = Placed
    BY <1>1, <1>4 DEF Placed, Objects, TypeInv, TypeOK, FsTypeOK
  <2>. QED  BY <1>1, <1>2, <2>1, Unseen
<1>. QED  BY <1>3, <1>4

-----------------------------------------------------------------------------
(* Removals                                                                *)

\* A removal takes the hashes of what it unlinks from the bucket.
LEMMA UnlinkTakes ==
    ASSUME Constraints, NEW b \in BucketIds, NEW gone \in SUBSET bucket_contents(b),
           bucket_object' = bucket_object \ ({b} \X gone),
           UNCHANGED <<object, object_dir, prune_pc, orphans>>
    PROVE  /\ HashesOf(gone) \in SUBSET Holds[b]
           /\ Holds' = [Holds EXCEPT ![b] = @ \ HashesOf(gone)]
           /\ UNCHANGED <<Known, Stored, Doomed>>
<1>1. Objects' = Objects
  BY DEF Objects
<1>2. bucket_contents(b)' = bucket_contents(b) \ gone
  BY <1>1 DEF bucket_contents
<1>3. \A c \in BucketIds \ {b} : bucket_contents(c)' = bucket_contents(c)
  BY <1>1 DEF bucket_contents
<1>4. bucket_contents(b) \in SUBSET Objects /\ gone \in SUBSET Objects
  BY DEF bucket_contents
<1>5. HashesOf(bucket_contents(b))' = HashesOf(bucket_contents(b)) \ HashesOf(gone)
  <2>1. HashesOf(bucket_contents(b))' = HashesOf(bucket_contents(b) \ gone)
    BY <1>2 DEF HashesOf
  <2>. QED  BY <2>1, <1>4, HashesApart
<1>6. \A c \in BucketIds \ {b} : HashesOf(bucket_contents(c))' = HashesOf(bucket_contents(c))
  BY <1>3 DEF HashesOf
<1>7. Holds' = [Holds EXCEPT ![b] = @ \ HashesOf(gone)]
  BY <1>5, <1>6, HoldsAt
<1>8. HashesOf(gone) \in SUBSET Holds[b]
  BY DEF Holds, HashesOf
<1>9. UNCHANGED <<Known, Stored, Doomed>>
  BY <1>1 DEF Known, Stored, Placed, Doomed, HashesOf
<1>. QED  BY <1>7, <1>8, <1>9

\* Every removal does, and a bucket that is dropped loses all it holds.
LEMMA RemoveTakes ==
    ASSUME PromiseInv, Remove
    PROVE  \/ \E b \in BucketIds : \E ds \in SUBSET Holds[b] :
                 /\ Holds' = [Holds EXCEPT ![b] = @ \ ds]
                 /\ UNCHANGED <<Buckets, Known, Stored, Doomed>>
           \/ \E b \in BucketIds :
                 /\ Buckets' = Buckets \ {b}
                 /\ Holds' = [Holds EXCEPT ![b] = {}]
                 /\ UNCHANGED <<Known, Stored, Doomed>>
<1>. USE DEF PromiseInv
<1>1. ASSUME NEW b \in BucketIds, NEW objects \in SUBSET ObjectIds,
             bucket_object' = bucket_object \ ({b} \X objects),
             UNCHANGED <<bucket, object, object_dir, prune_pc, orphans>>
      PROVE  \E ds \in SUBSET Holds[b] :
                 /\ Holds' = [Holds EXCEPT ![b] = @ \ ds]
                 /\ UNCHANGED <<Buckets, Known, Stored, Doomed>>
  <2>. PICK gone \in SUBSET bucket_contents(b) : gone = bucket_contents(b) \intersect objects
    OBVIOUS
  <2>1. bucket_object' = bucket_object \ ({b} \X gone)
    <3>1. \A r \in bucket_object : r \in {b} \X objects => r \in {b} \X gone
      BY DEF Constraints, bucket_contents
    <3>. QED  BY <1>1, <3>1
  <2>2. Buckets' = Buckets
    BY <1>1 DEF Buckets
  <2>3. /\ HashesOf(gone) \in SUBSET Holds[b]
        /\ Holds' = [Holds EXCEPT ![b] = @ \ HashesOf(gone)]
        /\ UNCHANGED <<Known, Stored, Doomed>>
    BY <1>1, <2>1, UnlinkTakes, Zenon
  <2>. QED  BY <2>2, <2>3
<1>2. ASSUME NEW b \in BucketIds, NEW o \in ObjectIds, RemoveObject(b, o)
      PROVE  \E ds \in SUBSET Holds[b] :
                 /\ Holds' = [Holds EXCEPT ![b] = @ \ ds]
                 /\ UNCHANGED <<Buckets, Known, Stored, Doomed>>
  <2>1. bucket_object' = bucket_object \ ({b} \X {o})
    BY <1>2 DEF RemoveObject, remove_object
  <2>2. UNCHANGED <<bucket, object, object_dir, prune_pc, orphans>>
    BY <1>2 DEF RemoveObject, remove_object
  <2>3. {o} \in SUBSET ObjectIds
    OBVIOUS
  <2>. QED  BY <1>1, <2>1, <2>2, <2>3, Zenon
<1>3. ASSUME NEW b \in BucketIds, NEW objects \in SUBSET ObjectIds, RemoveObjects(b, objects)
      PROVE  \E ds \in SUBSET Holds[b] :
                 /\ Holds' = [Holds EXCEPT ![b] = @ \ ds]
                 /\ UNCHANGED <<Buckets, Known, Stored, Doomed>>
  <2>1. bucket_object' = bucket_object \ ({b} \X objects)
    BY <1>3 DEF RemoveObjects, remove_objects
  <2>2. UNCHANGED <<bucket, object, object_dir, prune_pc, orphans>>
    BY <1>3 DEF RemoveObjects, remove_objects
  <2>. QED  BY <1>1, <2>1, <2>2, Zenon
<1>4. ASSUME NEW b \in BucketIds, RemoveBucket(b)
      PROVE  /\ Buckets' = Buckets \ {b}
             /\ Holds' = [Holds EXCEPT ![b] = {}]
             /\ UNCHANGED <<Known, Stored, Doomed>>
  <2>1. Buckets' = Buckets \ {b}
    BY <1>4 DEF RemoveBucket, remove_bucket, Buckets, TypeInv, TypeOK, DbTypeOK
  <2>2. /\ bucket_object' = {r \in bucket_object : r[1] # b}
        /\ UNCHANGED <<object, object_dir, prune_pc, orphans>>
    BY <1>4 DEF RemoveBucket, remove_bucket
  <2>3. Objects' = Objects
    BY <2>2 DEF Objects
  <2>4. bucket_contents(b)' = {}
    BY <2>2 DEF bucket_contents
  <2>5. \A c \in BucketIds \ {b} : bucket_contents(c)' = bucket_contents(c)
    BY <2>2, <2>3 DEF bucket_contents
  <2>6. HashesOf(bucket_contents(b))' = {}
    BY <2>4 DEF HashesOf
  <2>7. \A c \in BucketIds \ {b} : HashesOf(bucket_contents(c))' = HashesOf(bucket_contents(c))
    BY <2>2, <2>5 DEF HashesOf
  <2>8. Holds' = [Holds EXCEPT ![b] = {}]
    BY <2>6, <2>7, HoldsAt
  <2>9. UNCHANGED <<Known, Stored, Doomed>>
    BY <2>2, <2>3 DEF Known, Stored, Placed, Doomed, HashesOf
  <2>. QED  BY <2>1, <2>8, <2>9
<1>. QED  BY <1>2, <1>3, <1>4 DEF Remove

-----------------------------------------------------------------------------
(* prune                                                                   *)

\* The victims of the snapshot are the contents no bucket holds.
LEMMA ScanChooses ==
    ASSUME PromiseInv, PruneScan
    PROVE  /\ Doomed = {}
           /\ Doomed' = {d \in Known : \A b \in BucketIds : d \notin Holds[b]}
           /\ UNCHANGED <<Buckets, Holds, Known, Stored>>
<1>1. /\ prune_pc = "idle" /\ prune_pc' = "deleting" /\ orphans' = orphans_of_snapshot
      /\ UNCHANGED <<bucket, object, bucket_object, object_dir>>
  BY DEF PruneScan
<1>2. UNCHANGED <<Buckets, Holds, Known, Stored>>
  BY <1>1 DEF Buckets, Holds, Known, Stored, Placed, HashesOf, bucket_contents, Objects
<1>3. Doomed = {} /\ Doomed' = HashesOf(orphans_of_snapshot)
  BY <1>1 DEF Doomed, HashesOf
<1>4. ASSUME NEW o \in Objects
      PROVE  o \in orphans_of_snapshot <=> \A b \in BucketIds : object[o].hash \notin Holds[b]
  <2>1. \A b \in BucketIds : object[o].hash \in Holds[b] <=> o \in bucket_contents(b)
    BY DEF PromiseInv, Constraints, Holds, HashesOf, bucket_contents
  <2>2. \A b \in BucketIds : o \in bucket_contents(b) <=> <<b, o>> \in bucket_object
    BY DEF bucket_contents
  <2>3. o \in orphans_of_snapshot <=> reference_count(o) = 0
    BY DEF orphans_of_snapshot
  <2>. QED  BY <2>1, <2>2, <2>3, Unreferenced
<1>5. HashesOf(orphans_of_snapshot) = {d \in Known : \A b \in BucketIds : d \notin Holds[b]}
  <2>1. orphans_of_snapshot \subseteq Objects
    BY DEF orphans_of_snapshot
  <2>. QED  BY <1>4, <2>1 DEF HashesOf, Known
<1>. QED  BY <1>1, <1>2, <1>3, <1>5

\* The deletion takes just them, from the rows and from every bucket.
LEMMA DeleteSweeps ==
    ASSUME PromiseInv, PruneDelete
    PROVE  /\ Holds' = [b \in BucketIds |-> Holds[b] \ Doomed]
           /\ Known' = Known \ Doomed
           /\ Stored' = Stored \ Doomed
           /\ Doomed' = {}
           /\ Buckets' = Buckets
<1>. USE DEF PromiseInv
<1>1. /\ prune_pc = "deleting" /\ prune_pc' = "removing" /\ orphans \in SUBSET Objects
      /\ object' = [o \in ObjectIds |-> IF o \in orphans THEN Null ELSE object[o]]
      /\ bucket_object' = {r \in bucket_object : r[2] \notin orphans}
      /\ UNCHANGED <<bucket, object_dir>>
  BY DEF PruneDelete, delete_objects, VictimsThere
<1>2. Doomed = HashesOf(orphans) /\ Doomed' = {}
  BY <1>1 DEF Doomed
<1>3. Objects' = Objects \ orphans /\ \A o \in Objects \ orphans : object'[o] = object[o]
  BY <1>1 DEF Objects
<1>4. Placed' = Placed \ orphans /\ Placed \in SUBSET Objects
  BY <1>1, <1>3 DEF Placed
<1>5. \A b : bucket_contents(b)' = bucket_contents(b) \ orphans /\ bucket_contents(b) \in SUBSET Objects
  BY <1>1, <1>3 DEF bucket_contents
<1>6. Known' = Known \ Doomed
  <2>1. Known' = HashesOf(Objects \ orphans)
    BY <1>3 DEF Known, HashesOf
  <2>2. HashesOf(Objects \ orphans) = HashesOf(Objects) \ HashesOf(orphans)
    BY <1>1, HashesApart
  <2>. QED  BY <1>2, <2>1, <2>2 DEF Known
<1>7. Stored' = Stored \ Doomed
  <2>1. Stored' = HashesOf(Placed \ orphans)
    BY <1>3, <1>4 DEF Stored, HashesOf
  <2>2. HashesOf(Placed \ orphans) = HashesOf(Placed) \ HashesOf(orphans)
    BY <1>1, <1>4, HashesApart
  <2>. QED  BY <1>2, <2>1, <2>2 DEF Stored
<1>8. Holds' = [b \in BucketIds |-> Holds[b] \ Doomed]
  <2>1. ASSUME NEW b \in BucketIds PROVE HashesOf(bucket_contents(b))' = Holds[b] \ Doomed
    <3>1. HashesOf(bucket_contents(b))' = HashesOf(bucket_contents(b) \ orphans)
      BY <1>3, <1>5 DEF HashesOf
    <3>2. HashesOf(bucket_contents(b) \ orphans) = HashesOf(bucket_contents(b)) \ HashesOf(orphans)
      BY <1>1, <1>5, HashesApart
    <3>. QED  BY <1>2, <3>1, <3>2 DEF Holds
  <2>. QED  BY <2>1 DEF Holds
<1>9. Buckets' = Buckets
  BY <1>1 DEF Buckets
<1>. QED  BY <1>2, <1>6, <1>7, <1>8, <1>9

-----------------------------------------------------------------------------
(* The refinement                                                          *)

\* An empty store is one that promises nothing yet.
LEMMA RefinesInit == Init => Abstract!StoreInit
<1>. SUFFICES ASSUME Init PROVE Abstract!StoreInit
  OBVIOUS
<1>1. Buckets = BucketIds
  BY NullIsNoId DEF Init, Buckets
<1>2. Objects = {} /\ \A b : bucket_contents(b) = {}
  BY DEF Init, Objects, bucket_contents
<1>3. HashesOf({}) = {} /\ {o \in Objects : object_dir[o] # Null} = {}
  BY <1>2 DEF HashesOf
<1>4. prune_pc = "idle"
  BY DEF Init
<1>. QED  BY <1>1, <1>2, <1>3, <1>4 DEF Abstract!StoreInit

\* What is seen is what the promise speaks of.
LEMMA SeenIsPromised ==
    ASSUME UNCHANGED Seen PROVE UNCHANGED Abstract!storeVars
  BY DEF Seen, Known, Holds, Stored, Placed, Doomed, Abstract!storeVars

\* Every step is one of the promise, or changes nothing it speaks of.
LEMMA RefinesNext ==
    ASSUME PromiseInv, [Next]_vars PROVE [Abstract!StoreNext]_Abstract!storeVars
<1>. DEFINE Step == [Abstract!StoreNext]_Abstract!storeVars
<1>1. ASSUME UNCHANGED Seen PROVE Step
  BY <1>1, SeenIsPromised
<1>. USE DEF Abstract!StoreNext
<1>2. ASSUME NEW u \in Uploads, AddObject(u) PROVE Step
  <2>1. PICK b \in BucketIds, d \in Contents :
             /\ b \in Buckets /\ Buckets' = Buckets
             /\ Known' = Known \union {d}
             /\ Holds' = [Holds EXCEPT ![b] = @ \union {d}]
             /\ Stored' = Stored /\ Doomed' = Doomed
    BY <1>2, AddObjectPuts
  <2>2. Abstract!Put(b, d)
    BY <2>1 DEF Abstract!Put, Known, Holds, Stored, Placed, Doomed
  <2>. QED  BY <2>2 DEF Contents
<1>3. ASSUME NEW u \in Uploads, MakeObject(u) PROVE Step
  <2>1. ASSUME NEW d \in Contents, d \in Known, Stored' = Stored \union {d},
               UNCHANGED <<Buckets, Holds, Known, Doomed>>
        PROVE  Step
    <3>1. Abstract!Provide(d)
      BY <2>1 DEF Abstract!Provide, Known, Holds, Stored, Placed, Doomed
    <3>. QED  BY <3>1 DEF Contents
  <2>. QED  BY <1>1, <1>3, <2>1, MakeObjectProvides
<1>4. CASE Remove
  <2>1. ASSUME NEW b \in BucketIds, NEW ds \in SUBSET Holds[b],
               Holds' = [Holds EXCEPT ![b] = @ \ ds], UNCHANGED <<Buckets, Known, Stored, Doomed>>
        PROVE  Step
    <3>1. Abstract!Take(b, ds)
      BY <2>1 DEF Abstract!Take, Known, Holds, Stored, Placed, Doomed
    <3>. QED  BY <3>1 DEF Holds
  <2>2. ASSUME NEW b \in BucketIds, Buckets' = Buckets \ {b}, Holds' = [Holds EXCEPT ![b] = {}],
               UNCHANGED <<Known, Stored, Doomed>>
        PROVE  Step
    <3>1. Abstract!Drop(b)
      BY <2>2 DEF Abstract!Drop, Known, Holds, Stored, Placed, Doomed
    <3>. QED  BY <3>1
  <2>. QED  BY <1>4, <2>1, <2>2, RemoveTakes
<1>5. CASE PruneScan
  <2>1. Abstract!ChooseDoomed
    BY <1>5, ScanChooses DEF Abstract!ChooseDoomed, Known, Holds, Stored, Placed, Doomed
  <2>. QED  BY <2>1
<1>6. CASE PruneDelete
  <2>1. Abstract!Sweep
    BY <1>6, DeleteSweeps DEF Abstract!Sweep, Known, Holds, Stored, Placed, Doomed
  <2>. QED  BY <2>1
<1>7. ASSUME NEW o \in ObjectIds, PruneRemove(o) PROVE Step
  <2>1. object[o] = Null /\ UNCHANGED <<bucket, object, bucket_object>> /\ UNCHANGED prune_pc
        /\ prune_pc = "removing"
    BY <1>7 DEF PruneRemove, PromiseInv, Swept
  <2>2. Placed' = Placed
    BY <1>7, <2>1 DEF PruneRemove, remove, Placed, Objects, PromiseInv, TypeInv, TypeOK, FsTypeOK
  <2>3. Doomed' = Doomed
    BY <2>1 DEF Doomed
  <2>. QED  BY <1>1, <2>1, <2>2, <2>3, Unseen
<1>8. CASE PruneEnd
  <2>1. UNCHANGED <<bucket, object, bucket_object>> /\ Placed' = Placed /\ Doomed' = Doomed
    BY <1>8 DEF PruneEnd, Placed, Objects, Doomed
  <2>. QED  BY <1>1, <2>1, Unseen
<1>9. CASE PruneDies
  <2>1. UNCHANGED <<bucket, object, bucket_object, object_dir>> /\ Doomed' = {}
    BY <1>9 DEF PruneDies, Doomed
  <2>2. UNCHANGED <<Buckets, Holds, Known, Stored>>
    BY <2>1 DEF Buckets, Holds, Known, Stored, Placed, HashesOf, bucket_contents, Objects
  <2>3. Abstract!SpareDoomed
    BY <2>1, <2>2 DEF Abstract!SpareDoomed, Known, Holds, Stored, Placed, Doomed
  <2>. QED  BY <2>3
<1>10. ASSUME UNCHANGED <<bucket, object, bucket_object, object_dir, prune_pc, orphans>> PROVE Step
  <2>1. Placed' = Placed /\ Doomed' = Doomed
    BY <1>10 DEF Placed, Objects, Doomed, HashesOf
  <2>. QED  BY <1>1, <1>10, <2>1, Unseen
<1>11. ASSUME NEW u \in Uploads, Upload(u)
       PROVE  \/ AddObject(u) \/ MakeObject(u)
              \/ UNCHANGED <<bucket, object, bucket_object, object_dir, prune_pc, orphans>>
  BY <1>11 DEF Upload, Begin, Write, EndStream, ReadPart, RejectObject, RemovePart, RenameFails,
     get_part, write, remove_part
<1>12. ASSUME NEW r \in Readers, Reader(r)
       PROVE  UNCHANGED <<bucket, object, bucket_object, object_dir, prune_pc, orphans>>
  BY <1>12 DEF Reader, Locate, Open, Respond
<1>13. CASE Fault
  <2>1. PruneDies \/ UNCHANGED <<bucket, object, bucket_object, object_dir, prune_pc, orphans>>
    BY <1>13 DEF Fault, CallFails, Crash
  <2>. QED  BY <1>9, <1>10, <2>1
<1>14. CASE UNCHANGED vars
  BY <1>10, <1>14
<1>. QED
  BY <1>2, <1>3, <1>4, <1>5, <1>6, <1>7, <1>8, <1>10, <1>11, <1>12, <1>13, <1>14 DEF Next, Prune

\* While the server draws every part id, or nothing is pruned, the object store
\* keeps its promise: uploads, however they share parts, removals, prune, crashes
\* and failures show clients nothing else.
THEOREM ImplementsBucketStoreHolds ==
    ASSUME RequestIds = {} \/ ~Pruning
    PROVE  Spec => ImplementsBucketStore
<1>1. PromiseInv /\ [Next]_vars => [Abstract!StoreNext]_Abstract!storeVars
  BY RefinesNext
<1>. QED
  BY <1>1, RefinesInit, PromiseInvariant, PTL DEF Spec, ImplementsBucketStore, Abstract!StoreSpec
=============================================================================
