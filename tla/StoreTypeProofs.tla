-------------------------- MODULE StoreTypeProofs --------------------------
(***************************************************************************)
(* What holds of the object store for all its clients, those that name     *)
(* part ids and share them included.                                       *)
(***************************************************************************)
EXTENDS StoreInvariant, DatabaseProofs

USE DEF vars, dbVars, fsVars, uploadVars, pruneVars

-----------------------------------------------------------------------------
(* Types                                                                   *)

\* The removals keep the tables well-formed.
LEMMA RemoveType ==
    ASSUME DbTypeOK, Remove
    PROVE  DbTypeOK'
  BY RemoveObjectsType, RemoveBucketType DEF Remove, RemoveObject, RemoveObjects, RemoveBucket

\* The initial store is well-formed.
LEMMA TypeInit == Init => TypeInv
<1> SUFFICES ASSUME Init PROVE TypeInv
  OBVIOUS
<1>1. DbTypeOK
  BY DEF Init, DbTypeOK
<1>2. FsTypeOK
  BY DEF Init, FsInit, FsTypeOK, Bytes
<1>3. faults \in 0..MaxFaults
  BY ConstantsOK DEF Init
<1>4. Equipped
  BY DEF Init, Equipped
<1> QED
  BY <1>1, <1>2, <1>3, <1>4 DEF Init, TypeInv, TypeOK

\* Every step keeps the ranges, and leaves a handler what its next step works on.
LEMMA TypeNext == TypeInv /\ [Next]_vars => TypeInv'
<1> SUFFICES ASSUME TypeInv, [Next]_vars PROVE TypeInv'
  OBVIOUS
<1> USE DEF TypeInv, TypeOK, Active, Closed
<1>1. ASSUME NEW u \in Uploads, NEW b \in BucketIds, NEW id \in ObjectIds, Begin(u, b, id)
      PROVE  TypeInv'
  <2>1. part_file(id, u) \in Uploads
    BY DEF part_file, FsTypeOK
  <2>2. FsTypeOK'
    BY <1>1, <2>1 DEF Begin, get_part, FsTypeOK
  <2>3. DbTypeOK'
    BY <1>1 DEF Begin, DbTypeOK
  <2>4. Equipped'
    BY <1>1, <2>1 DEF Begin, Equipped
  <2> QED
    BY <1>1, <2>1, <2>2, <2>3, <2>4 DEF Begin
<1>2. ASSUME NEW u \in Uploads, NEW chunk \in Chunks, Write(u, chunk)
      PROVE  TypeInv'
  <2>1. FsTypeOK'
    BY <1>2, AppendType DEF Write, write, FsTypeOK
  <2> QED
    BY <1>2, <2>1 DEF Write, DbTypeOK, Equipped
<1>3. ASSUME NEW u \in Uploads, EndStream(u) PROVE TypeInv'
  BY <1>3 DEF EndStream, DbTypeOK, FsTypeOK, Equipped
<1>4. ASSUME NEW u \in Uploads, ReadPart(u) PROVE TypeInv'
  <2> DEFINE file == parts_dir[part_id[u]]
  <2>1. file # Null => describe(data[file]) \in Row
    <3>1. part_id[u] \in ObjectIds
      BY <1>4 DEF ReadPart, Equipped
    <3>2. file # Null => data[file] \in Bytes
      BY <3>1 DEF FsTypeOK
    <3> QED
      BY <3>2, DescribeType
  <2>2. CASE file # Null
    BY <1>4, <2>1, <2>2 DEF ReadPart, DbTypeOK, FsTypeOK, Equipped
  <2>3. CASE file = Null
    BY <1>4, <2>3 DEF ReadPart, DbTypeOK, FsTypeOK, Equipped
  <2> QED
    BY <2>2, <2>3
<1>5. ASSUME NEW u \in Uploads, AddObject(u) PROVE TypeInv'
  <2>1. PICK id \in ObjectIds :
          /\ add_object(to[u], part_id[u], sent[u], id)
          /\ obj' = [obj EXCEPT ![u] = id]
    BY <1>5 DEF AddObject
  <2>2. to[u] \in BucketIds /\ part_id[u] \in ObjectIds /\ sent[u] \in Row
    BY <1>5 DEF AddObject, Equipped
  <2>3. DbTypeOK'
    BY <2>1, <2>2, AddObjectType
  <2>4. Equipped'
    BY <1>5, <2>1 DEF AddObject, Equipped
  <2> QED
    BY <1>5, <2>1, <2>3, <2>4 DEF AddObject, FsTypeOK
<1>6. ASSUME NEW u \in Uploads, RejectObject(u) PROVE TypeInv'
  BY <1>6 DEF RejectObject, DbTypeOK, FsTypeOK, Equipped
<1>7. ASSUME NEW u \in Uploads, RemovePart(u) PROVE TypeInv'
  BY <1>7 DEF RemovePart, remove_part, DbTypeOK, FsTypeOK, Equipped
<1>8. ASSUME NEW u \in Uploads, MakeObject(u) PROVE TypeInv'
  <2>1. FsTypeOK'
    BY <1>8 DEF MakeObject, make_object, FsTypeOK, Equipped
  <2> QED
    BY <1>8, <2>1 DEF MakeObject, DbTypeOK, Equipped
<1>9. ASSUME NEW u \in Uploads, RenameFails(u) PROVE TypeInv'
  BY <1>9 DEF RenameFails, DbTypeOK, FsTypeOK, Equipped
<1>10. ASSUME NEW r \in Readers, Reader(r) PROVE TypeInv'
  <2>1. ASSUME NEW b \in BucketIds, NEW o \in ObjectIds, Locate(r, b, o)
        PROVE  TypeInv'
    <3>1. object[o] \in Row
      BY <2>1 DEF Locate, NotFound, get_object, bucket_contents, Objects, DbTypeOK
    <3> QED
      BY <2>1, <3>1 DEF Locate, NotFound, get_object, Download, DbTypeOK, FsTypeOK, Equipped
  <2>2. CASE Open(r)
    <3>1. reading[r] \in Download
      BY <2>2 DEF Open
    <3>2. reading'[r] \in Download \union {Null}
      BY <2>2, <3>1 DEF Open, Download, FsTypeOK
    <3> QED
      BY <2>2, <3>2 DEF Open, DbTypeOK, FsTypeOK, Equipped
  <2>3. CASE Respond(r)
    BY <2>3 DEF Respond, DbTypeOK, FsTypeOK, Equipped
  <2> QED
    BY <1>10, <2>1, <2>2, <2>3 DEF Reader
<1>11. CASE Remove
  <2>1. DbTypeOK'
    BY <1>11, RemoveType
  <2> QED
    BY <1>11, <2>1 DEF Remove, RemoveObject, RemoveObjects, RemoveBucket, FsTypeOK, Equipped
<1>12. CASE Prune
  <2>1. CASE PruneScan
    BY <2>1 DEF PruneScan, orphans_of_snapshot, Objects, DbTypeOK, FsTypeOK, Equipped
  <2>2. CASE PruneDelete
    <3>1. DbTypeOK'
      BY <2>2, DeleteObjectsType DEF PruneDelete
    <3> QED
      BY <2>2, <3>1 DEF PruneDelete, FsTypeOK, Equipped
  <2>3. ASSUME NEW o \in ObjectIds, PruneRemove(o) PROVE TypeInv'
    BY <2>3 DEF PruneRemove, remove, DbTypeOK, FsTypeOK, Equipped
  <2>4. CASE PruneEnd
    BY <2>4 DEF PruneEnd, DbTypeOK, FsTypeOK, Equipped
  <2> QED
    BY <1>12, <2>1, <2>2, <2>3, <2>4 DEF Prune
<1>13. CASE Fault
  <2>1. faults' \in 0..MaxFaults
    BY <1>13, ConstantsOK DEF Fault
  <2>2. ASSUME NEW u \in Uploads, CallFails(u) PROVE TypeInv'
    BY <2>1, <2>2 DEF CallFails, DbTypeOK, FsTypeOK, Equipped
  <2>3. CASE Crash
    BY <2>1, <2>3 DEF Crash, DbTypeOK, FsTypeOK, Equipped
  <2>4. CASE PruneDies
    BY <2>1, <2>4 DEF PruneDies, DbTypeOK, FsTypeOK, Equipped
  <2> QED
    BY <1>13, <2>2, <2>3, <2>4 DEF Fault
<1>14. CASE UNCHANGED vars
  BY <1>14 DEF DbTypeOK, FsTypeOK, Equipped
<1> QED
  BY <1>1, <1>2, <1>3, <1>4, <1>5, <1>6, <1>7, <1>8, <1>9, <1>10, <1>11, <1>12,
     <1>13, <1>14 DEF Next, Upload

\* Every variable keeps its range, whatever clients, prune and faults do.
THEOREM TypeCorrect == Spec => []TypeOK
<1>1. TypeInv => TypeOK
  BY DEF TypeInv
<1> QED
  BY TypeInit, TypeNext, <1>1, PTL DEF Spec

\* The ranges, with what handlers are equipped with, for later use.
LEMMA TypeInvariant == Spec => []TypeInv
  BY TypeInit, TypeNext, PTL DEF Spec

-----------------------------------------------------------------------------
(* The constraints of the tables                                           *)

\* A store nothing was uploaded to keeps them.
LEMMA ConstraintsInit == Init => Constraints
  BY DEF Init, Constraints, Buckets, Objects

\* Every step keeps them, prune's among them, whose snapshot may be old.
LEMMA ConstraintsNext == TypeInv /\ Constraints /\ [Next]_vars => Constraints'
<1> SUFFICES ASSUME TypeInv, Constraints, [Next]_vars PROVE Constraints'
  OBVIOUS
<1>1. CASE UNCHANGED dbVars
  BY <1>1 DEF Constraints, Buckets, Objects
<1>2. ASSUME NEW u \in Uploads, AddObject(u) PROVE Constraints'
  <2>1. PICK id \in ObjectIds : add_object(to[u], part_id[u], sent[u], id)
    BY <1>2 DEF AddObject
  <2>2. to[u] \in BucketIds /\ part_id[u] \in ObjectIds /\ sent[u] \in Row
    BY <1>2 DEF AddObject, TypeInv, Equipped
  <2> QED
    BY <2>1, <2>2, AddObjectConstraints DEF TypeInv, TypeOK
<1>3. CASE Remove
  BY <1>3, RemoveObjectsConstraints, RemoveBucketConstraints
     DEF Remove, RemoveObject, RemoveObjects, RemoveBucket, TypeInv, TypeOK
<1>4. CASE PruneDelete
  <2>1. delete_objects(orphans)
    BY <1>4 DEF PruneDelete
  <2> QED
    BY <2>1, DeleteObjectsConstraints
<1> QED
  <2>1. ASSUME NEW u \in Uploads, Upload(u) PROVE UNCHANGED dbVars \/ AddObject(u)
    BY <2>1 DEF Upload, Begin, Write, EndStream, ReadPart, RejectObject, RemovePart,
       MakeObject, RenameFails
  <2>2. ASSUME NEW r \in Readers, Reader(r) PROVE UNCHANGED dbVars
    BY <2>2 DEF Reader, Locate, Open, Respond
  <2>3. Prune => UNCHANGED dbVars \/ PruneDelete
    BY DEF Prune, PruneScan, PruneRemove, PruneEnd
  <2>4. Fault => UNCHANGED dbVars
    BY DEF Fault, CallFails, Crash, PruneDies
  <2>5. UNCHANGED vars => UNCHANGED dbVars
    OBVIOUS
  <2> QED
    BY <1>1, <1>2, <1>3, <1>4, <2>1, <2>2, <2>3, <2>4, <2>5 DEF Next

\* References and hashes stay consistent in the database that uploads, removals
\* and a racing prune share: no reference outlives its bucket or its object,
\* and one hash is one object.
THEOREM ConstraintsHold == Spec => []Constraints
  BY TypeInvariant, ConstraintsInit, ConstraintsNext, PTL DEF Spec

-----------------------------------------------------------------------------
(* What an upload is answered                                              *)

\* add_object answers an id whose row, after the call, has the hash it was sent,
\* and leaves the rows that were there as they were.
LEMMA AddObjectAnswer ==
    ASSUME DbTypeOK,
           NEW b \in BucketIds, NEW o \in ObjectIds, NEW row \in Row, NEW id \in ObjectIds,
           add_object(b, o, row, id)
    PROVE  /\ id \in Objects' /\ object'[id].hash = row.hash
           /\ \A p \in Objects : p \in Objects' /\ object'[p] = object[p]
<1>1. id \in Objects' /\ object'[id].hash = row.hash
  BY DEF add_object, IdsForHash, Objects
<1>2. \A p \in Objects : p \in Objects' /\ object'[p] = object[p]
  BY CreateObjectType, NullIsNoRow DEF add_object, create_object, DbTypeOK, Objects
<1> QED
  BY <1>1, <1>2

\* In a new store nothing was answered.
LEMMA NamedInit == Init => Named
  BY DEF Init, Named

\* Without prune rows stay as they are, so that a row stays what an upload was
\* answered; and a handler describes its part no more once it has its answer.
LEMMA NamedNext ==
    ASSUME ~Pruning
    PROVE  TypeInv /\ Named /\ [Next]_vars => Named'
<1> SUFFICES ASSUME TypeInv, Named, [Next]_vars PROVE Named'
  OBVIOUS
<1> USE NullIsNoId DEF TypeInv, TypeOK
<1> DEFINE Before == {"idle", "receiving", "received", "adding"}
<1>1. ASSUME UNCHANGED <<object, sent, obj, prune_pc>>,
             \A u \in Uploads : pc'[u] \in Before => pc[u] \in Before
      PROVE  Named'
  BY <1>1 DEF Named, Objects
<1>2. ASSUME NEW u \in Uploads, Upload(u) PROVE Named'
  <2>1. ASSUME NEW b \in BucketIds, NEW id \in ObjectIds, Begin(u, b, id) PROVE Named'
    BY <2>1, <1>1 DEF Begin, dbVars, pruneVars
  <2>2. ASSUME NEW chunk \in Chunks, Write(u, chunk) PROVE Named'
    BY <2>2, <1>1 DEF Write, dbVars, pruneVars, uploadVars
  <2>3. CASE EndStream(u)
    BY <2>3, <1>1 DEF EndStream, dbVars, pruneVars
  <2>4. CASE ReadPart(u)
    <3>1. pc[u] = "received" /\ obj[u] = Null
      BY <2>4 DEF ReadPart, Named
    <3>2. /\ UNCHANGED <<object, obj, prune_pc>>
          /\ \A v \in Uploads \ {u} : sent'[v] = sent[v] /\ pc'[v] = pc[v]
      BY <2>4 DEF ReadPart, dbVars, pruneVars
    <3> QED
      BY <3>1, <3>2 DEF Named, Objects
  <2>5. CASE AddObject(u)
    <3>1. PICK id \in ObjectIds : add_object(to[u], part_id[u], sent[u], id) /\ obj' = [obj EXCEPT ![u] = id]
      BY <2>5 DEF AddObject
    <3>2. to[u] \in BucketIds /\ part_id[u] \in ObjectIds /\ sent[u] \in Row
      BY <2>5 DEF AddObject, Equipped
    <3>3. /\ id \in Objects' /\ object'[id].hash = sent[u].hash
          /\ \A p \in Objects : p \in Objects' /\ object'[p] = object[p]
      BY <3>1, <3>2, AddObjectAnswer
    <3>4. UNCHANGED <<sent, prune_pc>> /\ pc' = [pc EXCEPT ![u] = "added"]
      BY <2>5 DEF AddObject, pruneVars
    <3> QED
      BY <3>1, <3>3, <3>4 DEF Named
  <2>6. CASE RejectObject(u)
    BY <2>6, <1>1 DEF RejectObject, dbVars, pruneVars
  <2>7. CASE RemovePart(u)
    BY <2>7, <1>1 DEF RemovePart, dbVars, pruneVars
  <2>8. CASE MakeObject(u)
    BY <2>8, <1>1 DEF MakeObject, dbVars, pruneVars
  <2>9. CASE RenameFails(u)
    BY <2>9, <1>1 DEF RenameFails, dbVars, pruneVars
  <2> QED
    BY <1>2, <2>1, <2>2, <2>3, <2>4, <2>5, <2>6, <2>7, <2>8, <2>9 DEF Upload
<1>3. ASSUME NEW r \in Readers, Reader(r) PROVE Named'
  BY <1>3, <1>1 DEF Reader, Locate, Open, Respond, dbVars, uploadVars, pruneVars
<1>4. CASE Remove
  BY <1>4, <1>1 DEF Remove, RemoveObject, RemoveObjects, RemoveBucket, remove_object,
     remove_objects, remove_bucket, uploadVars, pruneVars
<1>5. ~Prune
  BY DEF Named, Prune, PruneScan, PruneDelete, PruneRemove, PruneEnd
<1>6. CASE Fault
  <2>1. ASSUME NEW u \in Uploads, CallFails(u) PROVE Named'
    BY <2>1, <1>1 DEF CallFails, dbVars, pruneVars
  <2>2. CASE Crash
    BY <2>2, <1>1 DEF Crash, Active, dbVars, pruneVars
  <2>3. ~PruneDies
    BY DEF PruneDies, Named
  <2> QED
    BY <1>6, <2>1, <2>2, <2>3 DEF Fault
<1>7. CASE UNCHANGED vars
  BY <1>7, <1>1 DEF vars, dbVars, uploadVars, pruneVars
<1> QED
  BY <1>2, <1>3, <1>4, <1>5, <1>6, <1>7 DEF Next

\* Where nothing is pruned, the object an upload is answered with has the contents
\* its handler read, however many uploads, clients and crashes share a part, and
\* whether or not that part is what becomes of the file (commit_part).
THEOREM AnswerNamesContentHolds ==
    ASSUME ~Pruning
    PROVE  Spec => []AnswerNamesContent
<1>1. Named => AnswerNamesContent
  BY DEF Named, AnswerNamesContent
<1> QED
  BY TypeInvariant, NamedInit, NamedNext, <1>1, PTL DEF Spec
=============================================================================
