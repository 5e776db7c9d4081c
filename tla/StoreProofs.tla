---------------------------- MODULE StoreProofs ----------------------------
(***************************************************************************)
(* What holds of the object store while every part id is drawn by the      *)
(* server, as for all HTTP clients: the parts of FreshInv are inductive    *)
(* together, and the safety properties follow from them.  The second half  *)
(* does the same with ResumeInv for clients that name part ids, and resume *)
(* the parts of failed uploads, but keep an id to one upload at a time.    *)
(* The last section is about both, where no call fails.                    *)
(***************************************************************************)
EXTENDS StoreTypeProofs

USE DEF vars, dbVars, fsVars, uploadVars, pruneVars

\* A store nothing was uploaded to satisfies the invariant.
LEMMA FreshInit == Init => FreshInv
<1> SUFFICES ASSUME Init PROVE FreshInv
  OBVIOUS
<1> USE DEF Init
<1>1. TypeInv
  BY TypeInit
<1>2. OneOwner /\ OwnPart /\ Redundant /\ Answered /\ ReadersLocated /\ AnswerLeavesNoPart
  BY NullIsNoId DEF OneOwner, OwnPart, Redundant, Answered, ReadersLocated, AnswerLeavesNoPart
<1>3. OwnFiles
  BY DEF OwnFiles, FsInit
<1>4. RowsMade /\ PrunedForGood
  BY DEF RowsMade, PrunedForGood, Objects
<1> QED
  BY <1>1, <1>2, <1>3, <1>4 DEF FreshInv

\* What the proofs below use of FreshInv over and over.
LEMMA Owners ==
    ASSUME FreshInv
    PROVE  /\ \A u \in Uploads : pc[u] # "idle" => part_id[u] \in ObjectIds /\ part_id[u] # Null
           /\ \A o \in ObjectIds : parts_dir[o] \in Uploads \union {Null}
           /\ \A o \in ObjectIds : object_dir[o] \in Uploads \union {Null}
           /\ \A u \in Uploads : data[u] \in Bytes
           /\ \A u \in Uploads : describe(data[u]) \in Row
           /\ \A o \in ObjectIds : object[o] \in Row \union {Null}
           /\ \A o \in Objects : o \in ObjectIds /\ object[o] \in Row /\ object[o] # Null
<1> USE NullIsNoId, NullIsNoRow, DescribeType
      DEF FreshInv, TypeInv, TypeOK, DbTypeOK, FsTypeOK, Equipped, Objects
<1> QED
  OBVIOUS

\* An upload's answer stays true: rows of ids that were answered change only by
\* being deleted, and the handler describes its part no more.
LEMMA AnsweredNext ==
    ASSUME FreshInv, [Next]_vars
    PROVE  Answered'
<1> USE DEF FreshInv
<1> DEFINE Before == {"idle", "receiving", "received", "adding"}
<1>1. ASSUME \A u \in Uploads :
                /\ obj'[u] = obj[u] /\ (obj[u] # Null => sent'[u] = sent[u])
                /\ pc'[u] \in Before => pc[u] \in Before,
             \A o \in ObjectIds : Spent(o) => Spent(o)',
             \A o \in Objects' : Spent(o) => o \in Objects /\ object'[o] = object[o]
      PROVE  Answered'
  <2>1. ASSUME NEW u \in Uploads, NEW o \in ObjectIds, obj'[u] = o
        PROVE  Spent(o)' /\ (o \in Objects' => object'[o].hash = sent'[u].hash)
    <3>1. obj[u] = o /\ sent'[u] = sent[u]
      BY <1>1, <2>1, NullIsNoId
    <3>2. Spent(o) /\ (o \in Objects => object[o].hash = sent[u].hash)
      BY <3>1 DEF Answered
    <3> QED
      BY <1>1, <3>1, <3>2
  <2>2. \A u \in Uploads : pc'[u] \in Before => obj'[u] = Null
    BY <1>1 DEF Answered
  <2> QED
    BY <2>1, <2>2 DEF Answered
<1>2. ASSUME UNCHANGED <<part_id, obj>>,
             \A u \in Uploads : obj[u] # Null => sent'[u] = sent[u],
             \A u \in Uploads : /\ pc'[u] \in Before => pc[u] \in Before
                                /\ pc[u] \in Past => pc'[u] \in Past,
             \A o \in Objects' : o \in Objects /\ object'[o] = object[o]
      PROVE  Answered'
  <2>1. ASSUME NEW o \in ObjectIds, Spent(o) PROVE Spent(o)'
    <3>1. PICK u \in Uploads : part_id[u] = o /\ pc[u] \in Past
      BY <2>1 DEF Spent
    <3>2. part_id'[u] = o /\ pc'[u] \in Past
      BY <1>2, <3>1
    <3> QED
      BY <3>2 DEF Spent, Past
  <2>2. \A u \in Uploads : /\ obj'[u] = obj[u] /\ (obj[u] # Null => sent'[u] = sent[u])
                           /\ pc'[u] \in Before => pc[u] \in Before
    BY <1>2
  <2>3. \A o \in Objects' : Spent(o) => o \in Objects /\ object'[o] = object[o]
    BY <1>2
  <2> QED
    BY <1>1, <2>1, <2>2, <2>3
<1>3. ASSUME NEW u \in Uploads, Upload(u) PROVE Answered'
  <2>1. ASSUME NEW b \in BucketIds, NEW id \in ObjectIds, Begin(u, b, id) PROVE Answered'
    <3>1. /\ UNCHANGED <<object, sent, obj>>
          /\ pc[u] = "idle" /\ pc' = [pc EXCEPT ![u] = "receiving"]
          /\ \A v \in Uploads \ {u} : part_id'[v] = part_id[v]
      BY <2>1 DEF Begin
    <3>2. \A o \in ObjectIds : Spent(o) => Spent(o)'
      BY <3>1 DEF Spent, Past, TypeInv, TypeOK
    <3>3. \A v \in Uploads : pc'[v] \in Before => pc[v] \in Before
      BY <3>1 DEF TypeInv, TypeOK
    <3> QED
      BY <1>1, <3>1, <3>2, <3>3 DEF Objects
  <2>2. ASSUME NEW chunk \in Chunks, Write(u, chunk) PROVE Answered'
    BY <1>2, <2>2 DEF Write, Objects
  <2>3. CASE EndStream(u)
    BY <1>2, <2>3 DEF EndStream, Objects, Past, TypeInv, TypeOK
  <2>4. CASE ReadPart(u)
    <3>1. obj[u] = Null /\ \A v \in Uploads \ {u} : sent'[v] = sent[v]
      BY <2>4 DEF ReadPart, Answered, TypeInv, TypeOK
    <3> QED
      BY <1>2, <2>4, <3>1 DEF ReadPart, Objects, Past, TypeInv, TypeOK
  <2>5. CASE AddObject(u)
    <3>1. PICK id \in ObjectIds :
            add_object(to[u], part_id[u], sent[u], id) /\ obj' = [obj EXCEPT ![u] = id]
      BY <2>5 DEF AddObject
    <3>2. to[u] \in BucketIds /\ part_id[u] \in ObjectIds /\ sent[u] \in Row
      BY <2>5 DEF AddObject, TypeInv, Equipped
    <3>3. /\ pc[u] = "adding" /\ pc' = [pc EXCEPT ![u] = "added"]
          /\ UNCHANGED <<part_id, sent>>
      BY <2>5 DEF AddObject
    <3>4. /\ id \in Objects' /\ object'[id].hash = sent[u].hash
          /\ \A p \in Objects : p \in Objects' /\ object'[p] = object[p]
      BY <3>1, <3>2, AddObjectAnswer DEF TypeInv, TypeOK
    <3>5. \A p \in Objects' : p \in Objects \/ p = part_id[u]
      BY <3>1, <3>2 DEF add_object, create_object, Objects
    <3>6. ~Spent(part_id[u])
      BY <3>2, <3>3, NullIsNoId DEF Spent, Past, OneOwner
    <3>7. \A o \in ObjectIds : Spent(o) => Spent(o)'
      BY <3>3 DEF Spent, Past, TypeInv, TypeOK
    <3>8. \A o \in Objects : Spent(o)
      BY DEF RowsMade, MadeBy, Spent
    <3>9. Spent(id)'
      <4>1. CASE id = part_id[u]
        BY <3>3, <4>1 DEF Spent, Past, TypeInv, TypeOK
      <4>2. CASE id # part_id[u]
        BY <3>1, <3>4, <3>5, <3>7, <3>8, <4>2
      <4> QED
        BY <4>1, <4>2
    <3>10. ASSUME NEW v \in Uploads \ {u}
           PROVE  /\ pc'[v] \in Before => obj'[v] = Null
                  /\ \A o \in ObjectIds : obj'[v] = o =>
                        Spent(o)' /\ (o \in Objects' => object'[o].hash = sent'[v].hash)
      <4>1. obj'[v] = obj[v] /\ pc'[v] = pc[v] /\ sent'[v] = sent[v]
        BY <3>1, <3>3
      <4>2. pc[v] \in Before => obj[v] = Null
        BY DEF Answered
      <4>3. ASSUME NEW o \in ObjectIds, obj[v] = o
            PROVE  Spent(o)' /\ (o \in Objects' => object'[o].hash = sent[v].hash)
        <5>1. Spent(o) /\ (o \in Objects => object[o].hash = sent[v].hash)
          BY <4>3 DEF Answered
        <5>2. o # part_id[u]
          BY <3>6, <5>1
        <5> QED
          BY <3>4, <3>5, <3>7, <5>1, <5>2
      <4> QED
        BY <4>1, <4>2, <4>3
    <3>11. pc'[u] = "added" /\ obj'[u] = id /\ sent'[u] = sent[u]
      BY <3>1, <3>3 DEF TypeInv, TypeOK
    <3> QED
      BY <3>4, <3>9, <3>10, <3>11 DEF Answered
  <2>6. CASE RejectObject(u)
    BY <1>2, <2>6 DEF RejectObject, Objects, Past, TypeInv, TypeOK
  <2>7. CASE RemovePart(u)
    BY <1>2, <2>7 DEF RemovePart, Objects, Past, TypeInv, TypeOK
  <2>8. CASE MakeObject(u)
    BY <1>2, <2>8 DEF MakeObject, Objects, Past, TypeInv, TypeOK
  <2>9. CASE RenameFails(u)
    BY <1>2, <2>9 DEF RenameFails, Objects, Past, TypeInv, TypeOK
  <2> QED
    BY <1>3, <2>1, <2>2, <2>3, <2>4, <2>5, <2>6, <2>7, <2>8, <2>9 DEF Upload
<1>4. ASSUME NEW r \in Readers, Reader(r) PROVE Answered'
  BY <1>2, <1>4 DEF Reader, Locate, Open, Respond, Objects
<1>5. CASE Remove
  BY <1>2, <1>5 DEF Remove, RemoveObject, RemoveObjects, RemoveBucket, remove_object,
     remove_objects, remove_bucket, Objects
<1>6. CASE Prune
  <2>1. UNCHANGED <<pc, part_id, sent, obj>>
    BY <1>6 DEF Prune, PruneScan, PruneDelete, PruneRemove, PruneEnd
  <2>2. \A o \in Objects' : o \in Objects /\ object'[o] = object[o]
    BY <1>6 DEF Prune, PruneScan, PruneDelete, PruneRemove, PruneEnd, delete_objects, Objects
  <2> QED
    BY <1>2, <2>1, <2>2
<1>7. CASE Fault
  <2>1. UNCHANGED <<object, part_id, sent, obj>>
    BY <1>7 DEF Fault, CallFails, Crash, PruneDies
  <2>2. \A u \in Uploads : /\ pc'[u] \in Before => pc[u] \in Before
                           /\ pc[u] \in Past => pc'[u] \in Past
    BY <1>7 DEF Fault, CallFails, Crash, PruneDies, Past, Active, TypeInv, TypeOK
  <2> QED
    BY <1>2, <2>1, <2>2 DEF Objects
<1>8. CASE UNCHANGED vars
  BY <1>2, <1>8 DEF Objects
<1> QED
  BY <1>3, <1>4, <1>5, <1>6, <1>7, <1>8 DEF Next

\* A handler that starts owns the id it drew, and a new and empty part.
LEMMA BeginFresh ==
    ASSUME FreshInv, RequestIds = {}, TypeInv', Answered',
           NEW u \in Uploads, NEW b \in BucketIds, NEW id \in ObjectIds, Begin(u, b, id)
    PROVE  FreshInv'
<1> USE Owners, NullIsNoId, NullIsNoFile DEF FreshInv, TypeInv, TypeOK, FsTypeOK
<1>1. /\ part_id[u] = Null
      /\ \A v \in Uploads : part_id[v] # id
      /\ part_id' = [part_id EXCEPT ![u] = id]
      /\ pc' = [pc EXCEPT ![u] = "receiving"] /\ pc[u] = "idle"
  BY DEF Begin, FreshIds, OneOwner
<1>2. parts_dir[id] = Null /\ object_dir[id] = Null
  BY <1>1 DEF OwnFiles
<1>3. /\ parts_dir' = [parts_dir EXCEPT ![id] = u]
      /\ out' = [out EXCEPT ![u] = u]
      /\ UNCHANGED <<object_dir, data, object, sent, obj, reading, prune_pc, orphans>>
  BY <1>2 DEF Begin, get_part, part_file
<1>4. OneOwner'
  BY <1>1 DEF OneOwner
<1>5. OwnFiles'
  BY <1>1, <1>2, <1>3 DEF OwnFiles
<1>6. OwnPart'
  BY <1>1, <1>2, <1>3 DEF OwnPart
<1>7. RowsMade'
  BY <1>1, <1>2, <1>3 DEF RowsMade, MadeBy, Past, Objects
<1>8. Redundant'
  BY <1>1, <1>2, <1>3 DEF Redundant
<1>9. PrunedForGood'
  BY <1>1, <1>2, <1>3 DEF PrunedForGood, Spent, Past
<1>10. ReadersLocated'
  BY <1>1, <1>2, <1>3 DEF ReadersLocated, Located, Past
<1>11. AnswerLeavesNoPart'
  BY <1>1, <1>2, <1>3 DEF AnswerLeavesNoPart
<1> QED
  BY <1>4, <1>5, <1>6, <1>7, <1>8, <1>9, <1>10, <1>11

\* A chunk goes to the part of the handler that received it, which no row describes.
LEMMA WriteFresh ==
    ASSUME FreshInv, TypeInv', Answered', NEW u \in Uploads, NEW chunk \in Chunks, Write(u, chunk)
    PROVE  FreshInv'
<1> USE Owners DEF FreshInv, TypeInv, TypeOK, FsTypeOK
<1>1. /\ pc[u] = "receiving" /\ out[u] = u
      /\ \A v \in Uploads \ {u} : data'[v] = data[v]
      /\ UNCHANGED <<object, parts_dir, object_dir, pc, part_id, out, sent, obj, reading,
                     prune_pc, orphans>>
  BY DEF Write, write, OwnPart
<1>2. \A v \in Uploads : pc[v] # "receiving" => data'[v] = data[v]
  BY <1>1
<1>3. OneOwner' /\ OwnFiles' /\ Redundant' /\ AnswerLeavesNoPart'
  BY <1>1 DEF OneOwner, OwnFiles, Redundant, AnswerLeavesNoPart
<1>4. OwnPart'
  BY <1>1, <1>2 DEF OwnPart
<1>5. RowsMade'
  BY <1>1, <1>2 DEF RowsMade, MadeBy, Past, Objects
<1>6. PrunedForGood'
  BY <1>1 DEF PrunedForGood, Spent
<1>7. ReadersLocated'
  BY <1>1, <1>2 DEF ReadersLocated, Located, Past
<1> QED
  BY <1>3, <1>4, <1>5, <1>6, <1>7

\* Steps of an upload that touch neither database nor files, and only move it on.
LEMMA AdvanceFresh ==
    ASSUME FreshInv, TypeInv', Answered',
           UNCHANGED <<object, parts_dir, object_dir, data, part_id, obj, reading, prune_pc, orphans>>,
           NEW u \in Uploads, NEW next \in {"received", "adding", "failed"},
           pc' = [pc EXCEPT ![u] = next],
           pc[u] \notin {"idle", "done"}, pc[u] \in Past => next = "failed",
           next = "received" => pc[u] = "receiving",
           next = "adding" => pc[u] = "received",
           out'[u] = out[u] \/ next # "receiving",
           \A v \in Uploads \ {u} : out'[v] = out[v] /\ sent'[v] = sent[v],
           next = "adding" => sent'[u] = describe(data[u])
    PROVE  FreshInv'
<1> USE Owners DEF FreshInv, TypeInv, TypeOK
<1>1. OneOwner' /\ OwnFiles' /\ AnswerLeavesNoPart'
  BY DEF OneOwner, OwnFiles, AnswerLeavesNoPart
<1>2. OwnPart'
  BY DEF OwnPart
<1>3. RowsMade'
  BY DEF RowsMade, MadeBy, Past, Objects
<1>4. Redundant'
  BY DEF Redundant
<1>5. PrunedForGood'
  BY DEF PrunedForGood, Spent, Past
<1>6. ReadersLocated'
  BY DEF ReadersLocated, Located, Past
<1> QED
  BY <1>1, <1>2, <1>3, <1>4, <1>5, <1>6

\* add_object makes a row from the handler's part, or answers one made from another.
LEMMA AddObjectFresh ==
    ASSUME FreshInv, TypeInv', Answered', NEW u \in Uploads, AddObject(u)
    PROVE  FreshInv'
<1>0. PICK id \in ObjectIds :
        /\ add_object(to[u], part_id[u], sent[u], id)
        /\ obj' = [obj EXCEPT ![u] = id]
  BY DEF AddObject
<1> USE Owners, NullIsNoRow DEF FreshInv, TypeInv, TypeOK, FsTypeOK, DbTypeOK
<1> DEFINE p == part_id[u]
           row == describe(data[u])
<1>1. /\ pc[u] = "adding" /\ sent[u] = row /\ row \in Row
      /\ p \in ObjectIds /\ parts_dir[p] = u
      /\ pc' = [pc EXCEPT ![u] = "added"]
      /\ UNCHANGED <<parts_dir, object_dir, data, part_id, out, sent, reading, prune_pc, orphans>>
  BY DEF AddObject, OwnPart
<1>2. add_object(to[u], p, row, id) /\ obj' = [obj EXCEPT ![u] = id]
  BY <1>0, <1>1
<1>3. object[p] = Null
  BY <1>1 DEF RowsMade, MadeBy, OneOwner, Past, Objects
<1>4. /\ object' = create_object(p, row)
      /\ id \in IdsForHash(object', row)
  BY <1>2 DEF add_object
<1>5. \A o \in ObjectIds \ {p} : object'[o] = object[o]
  BY <1>4 DEF create_object
<1>6. object'[p] \in {Null, row}
  BY <1>3, <1>4 DEF create_object
<1>7. id # p => object'[p] = Null
  <2> SUFFICES ASSUME id # p, object'[p] # Null PROVE FALSE
    OBVIOUS
  <2>1. ~HashTaken(row)
    BY <1>3, <1>4 DEF create_object
  <2>2. id \in Objects /\ object[id].hash = row.hash
    BY <1>4, <1>5 DEF IdsForHash, Objects
  <2> QED
    BY <2>1, <2>2 DEF HashTaken
<1>8. id = p => object'[p] = row
  BY <1>4, <1>6 DEF IdsForHash
<1>9. OneOwner' /\ OwnFiles' /\ AnswerLeavesNoPart'
  BY <1>1 DEF OneOwner, OwnFiles, AnswerLeavesNoPart
<1>10. OwnPart'
  BY <1>1 DEF OwnPart
<1>11. RowsMade'
  <2> SUFFICES ASSUME NEW o \in Objects' PROVE \E v \in Uploads : MadeBy(o, v)'
    BY DEF RowsMade
  <2>1. CASE o = p
    <3>1. MadeBy(o, u)'
      BY <1>1, <1>6, <2>1 DEF MadeBy, Past, Objects
    <3> QED
      BY <3>1
  <2>2. CASE o # p
    <3>1. o \in Objects
      BY <1>5, <2>2 DEF Objects
    <3>2. PICK v \in Uploads : MadeBy(o, v)
      BY <3>1 DEF RowsMade
    <3>3. MadeBy(o, v)'
      BY <1>1, <1>5, <2>2, <3>1, <3>2 DEF MadeBy, Past
    <3> QED
      BY <3>3
  <2> QED
    BY <2>1, <2>2
<1>12. Redundant'
  <2> SUFFICES ASSUME NEW v \in Uploads, pc'[v] = "added"
               PROVE  IF obj'[v] = part_id[v] THEN parts_dir[part_id[v]] = v
                                              ELSE object'[part_id[v]] = Null
    BY <1>1 DEF Redundant
  <2>1. CASE v = u
    BY <1>1, <1>2, <1>7, <2>1
  <2>2. CASE v # u
    <3>1. pc[v] = "added" /\ part_id[v] # p /\ part_id[v] \in ObjectIds /\ obj'[v] = obj[v]
      BY <1>1, <1>2, <2>2 DEF OneOwner
    <3> QED
      BY <1>5, <3>1 DEF Redundant
  <2> QED
    BY <2>1, <2>2
<1>13. PrunedForGood'
  <2>1. \A o \in ObjectIds : Spent(o) => o # p
    BY <1>1 DEF Spent, Past, OneOwner
  <2>2. \A o \in ObjectIds : Spent(o) => Spent(o)'
    BY <1>1 DEF Spent, Past
  <2> QED
    BY <1>1, <1>5, <2>1, <2>2 DEF PrunedForGood
<1>14. ReadersLocated'
  BY <1>1 DEF ReadersLocated, Located, Past
<1> QED
  BY <1>9, <1>10, <1>11, <1>12, <1>13, <1>14

\* The part commit_part removes is no row's only copy.
LEMMA RemovePartFresh ==
    ASSUME FreshInv, TypeInv', Answered', NEW u \in Uploads, RemovePart(u)
    PROVE  FreshInv'
<1> USE Owners DEF FreshInv, TypeInv, TypeOK, FsTypeOK
<1> DEFINE p == part_id[u]
<1>1. /\ pc[u] = "added" /\ obj[u] # p /\ p \in ObjectIds
      /\ object[p] = Null
      /\ pc' = [pc EXCEPT ![u] = "done"]
      /\ parts_dir' = [parts_dir EXCEPT ![p] = Null]
      /\ UNCHANGED <<object, object_dir, data, part_id, out, sent, obj, reading, prune_pc, orphans>>
  BY DEF RemovePart, remove_part, Redundant
<1>2. OneOwner' /\ OwnFiles' /\ AnswerLeavesNoPart'
  BY <1>1 DEF OneOwner, OwnFiles, AnswerLeavesNoPart
<1>3. \A v \in Uploads \ {u} : pc[v] # "idle" => part_id[v] # p
  BY <1>1 DEF OneOwner
<1>4. OwnPart'
  BY <1>1, <1>3 DEF OwnPart
<1>5. RowsMade'
  BY <1>1 DEF RowsMade, MadeBy, Past, Objects
<1>6. Redundant'
  BY <1>1, <1>3 DEF Redundant
<1>7. PrunedForGood'
  BY <1>1 DEF PrunedForGood, Spent, Past
<1>8. ReadersLocated'
  BY <1>1 DEF ReadersLocated, Located, Past
<1> QED
  BY <1>2, <1>4, <1>5, <1>6, <1>7, <1>8

\* The part commit_part renames is the one its row was made from.
LEMMA MakeObjectFresh ==
    ASSUME FreshInv, TypeInv', Answered', NEW u \in Uploads, MakeObject(u)
    PROVE  FreshInv'
<1> USE Owners, NullIsNoFile DEF FreshInv, TypeInv, TypeOK, FsTypeOK
<1> DEFINE p == part_id[u]
<1>1. /\ pc[u] = "added" /\ obj[u] = p /\ p \in ObjectIds
      /\ parts_dir[p] = u
      /\ pc' = [pc EXCEPT ![u] = "done"]
      /\ parts_dir' = [parts_dir EXCEPT ![p] = Null]
      /\ object_dir' = [object_dir EXCEPT ![p] = u]
      /\ UNCHANGED <<object, data, part_id, out, sent, obj, reading, prune_pc, orphans>>
  BY DEF MakeObject, make_object, Redundant
<1>2. \A v \in Uploads \ {u} : pc[v] # "idle" => part_id[v] # p
  BY <1>1 DEF OneOwner
<1>3. OneOwner' /\ OwnFiles' /\ AnswerLeavesNoPart'
  BY <1>1 DEF OneOwner, OwnFiles, AnswerLeavesNoPart
<1>4. OwnPart'
  BY <1>1, <1>2 DEF OwnPart
<1>5. RowsMade'
  BY <1>1, <1>2 DEF RowsMade, MadeBy, Past, Objects
<1>6. Redundant'
  BY <1>1, <1>2 DEF Redundant
<1>7. PrunedForGood'
  BY <1>1 DEF PrunedForGood, Spent, Past
<1>8. ReadersLocated'
  BY <1>1 DEF ReadersLocated, Located, Past
<1> QED
  BY <1>3, <1>4, <1>5, <1>6, <1>7, <1>8

\* A download opens the file of the row it located, or none.
LEMMA ReaderFresh ==
    ASSUME FreshInv, TypeInv', Answered', NEW r \in Readers, Reader(r)
    PROVE  FreshInv'
<1> USE Owners DEF FreshInv, TypeInv, TypeOK
<1>1. UNCHANGED <<object, parts_dir, object_dir, data, pc, part_id, out, sent, obj, prune_pc, orphans>>
  BY DEF Reader, Locate, Open, Respond
<1>2. OneOwner' /\ OwnFiles' /\ OwnPart' /\ RowsMade' /\ Redundant' /\ PrunedForGood'
        /\ AnswerLeavesNoPart'
  BY <1>1 DEF OneOwner, OwnFiles, OwnPart, RowsMade, MadeBy, Objects, Redundant, PrunedForGood,
     Spent, AnswerLeavesNoPart
<1>3. \A q \in Readers \ {r} : reading'[q] = reading[q]
  BY DEF Reader, Locate, Open, Respond
<1>4. reading'[r] # Null => \E u \in Uploads : Located(r, u)'
  <2>1. ASSUME NEW b \in BucketIds, NEW o \in ObjectIds, Locate(r, b, o)
        PROVE  \E u \in Uploads : Located(r, u)'
    <3>1. /\ o \in Objects
          /\ reading'[r] = [id |-> o, row |-> object[o], fd |-> Null]
      BY <2>1 DEF Locate, NotFound, get_object, bucket_contents
    <3>2. PICK u \in Uploads : MadeBy(o, u)
      BY <3>1 DEF RowsMade
    <3>3. Located(r, u)'
      BY <1>1, <3>1, <3>2 DEF MadeBy, Located
    <3> QED
      BY <3>3
  <2>2. ASSUME Open(r), reading'[r] # Null
        PROVE  \E u \in Uploads : Located(r, u)'
    <3>1. PICK u \in Uploads : Located(r, u)
      BY <2>2 DEF Open, ReadersLocated
    <3>2. reading[r] \in Download
      BY <2>2 DEF Open
    <3> DEFINE file == object_dir[reading[r].id]
    <3>3. file # Null /\ reading'[r] = [reading[r] EXCEPT !.fd = file]
      BY <2>2 DEF Open
    <3>4. file = u
      <4>1. reading[r].id \in ObjectIds
        BY <3>2 DEF Download
      <4>2. part_id[file] = reading[r].id /\ file \in Uploads
        BY <3>3, <4>1 DEF OwnFiles
      <4> QED
        BY <3>1, <4>1, <4>2, NullIsNoId DEF Located, OneOwner
    <3>5. Located(r, u)'
      BY <1>1, <3>1, <3>2, <3>3, <3>4 DEF Located, Download
    <3> QED
      BY <3>5
  <2>3. Respond(r) => reading'[r] = Null
    BY DEF Respond
  <2> QED
    BY <2>1, <2>2, <2>3 DEF Reader
<1>5. ReadersLocated'
  BY <1>1, <1>3, <1>4 DEF ReadersLocated, Located
<1> QED
  BY <1>2, <1>5

\* prune removes rows, and then files of ids that get no row again.
LEMMA PruneFresh ==
    ASSUME FreshInv, TypeInv', Answered', Prune
    PROVE  FreshInv'
<1> USE Owners DEF FreshInv, TypeInv, TypeOK, FsTypeOK, DbTypeOK
<1>1. UNCHANGED <<parts_dir, data, pc, part_id, out, sent, obj, reading>>
  BY DEF Prune, PruneScan, PruneDelete, PruneRemove, PruneEnd, delete_objects, remove
<1>2. OneOwner' /\ AnswerLeavesNoPart' /\ OwnPart' /\ ReadersLocated'
  BY <1>1 DEF OneOwner, AnswerLeavesNoPart, OwnPart, ReadersLocated, Located
<1>3. \A o \in ObjectIds : Spent(o)' <=> Spent(o)
  BY <1>1 DEF Spent
<1>4. CASE PruneScan \/ PruneEnd
  <2>1. UNCHANGED <<object, object_dir>> /\ prune_pc' # "removing"
    BY <1>4 DEF PruneScan, PruneEnd
  <2>2. OwnFiles' /\ RowsMade' /\ Redundant' /\ PrunedForGood'
    BY <1>1, <2>1 DEF OwnFiles, RowsMade, MadeBy, Objects, Redundant, PrunedForGood
  <2> QED
    BY <1>2, <2>2
<1>5. CASE PruneDelete
  <2>1. /\ \A o \in ObjectIds : object'[o] = IF o \in orphans THEN Null ELSE object[o]
        /\ orphans' = orphans \intersect Objects
        /\ UNCHANGED object_dir
    BY <1>5 DEF PruneDelete, delete_objects
  <2>2. OwnFiles' /\ RowsMade' /\ Redundant'
    BY <1>1, <2>1 DEF OwnFiles, RowsMade, MadeBy, Objects, Redundant
  <2>3. \A o \in Objects : Spent(o)
    BY DEF RowsMade, MadeBy, Spent
  <2>4. PrunedForGood'
    BY <1>3, <2>1, <2>3 DEF PrunedForGood
  <2> QED
    BY <1>2, <2>2, <2>4
<1>6. ASSUME NEW o \in ObjectIds, PruneRemove(o) PROVE FreshInv'
  <2>1. /\ object_dir' = [object_dir EXCEPT ![o] = Null]
        /\ prune_pc = "removing" /\ o \in orphans
        /\ orphans' = orphans \ {o}
        /\ UNCHANGED <<object, prune_pc>>
    BY <1>6 DEF PruneRemove, remove
  <2>2. object[o] = Null
    BY <2>1 DEF PrunedForGood
  <2>3. OwnFiles' /\ RowsMade' /\ Redundant'
    BY <1>1, <2>1, <2>2 DEF OwnFiles, RowsMade, MadeBy, Objects, Redundant
  <2>4. PrunedForGood'
    BY <1>3, <2>1 DEF PrunedForGood
  <2> QED
    BY <1>2, <2>3, <2>4
<1> QED
  BY <1>4, <1>5, <1>6 DEF Prune

\* Neither a failed call nor a crash changes a row or a file.
LEMMA FaultFresh ==
    ASSUME FreshInv, TypeInv', Answered', Fault
    PROVE  FreshInv'
<1> USE Owners DEF FreshInv, TypeInv, TypeOK
<1>1. ASSUME NEW u \in Uploads, CallFails(u) PROVE FreshInv'
  BY <1>1, AdvanceFresh DEF CallFails, Past
<1>2. CASE Crash
  <2>1. /\ \A u \in Uploads : pc'[u] = IF pc[u] \in Active THEN "failed" ELSE pc[u]
        /\ \A r \in Readers : reading'[r] = Null
        /\ UNCHANGED <<object, parts_dir, object_dir, data, part_id, obj, prune_pc, orphans>>
    BY <1>2 DEF Crash
  <2>2. \A u \in Uploads : /\ pc[u] \in Past => pc'[u] \in Past
                           /\ pc'[u] \in {"idle", "done", "failed"}
                           /\ pc'[u] \in {"idle", "done"} => pc'[u] = pc[u]
    BY <2>1 DEF Past, Active, Closed
  <2>3. OneOwner' /\ OwnFiles' /\ AnswerLeavesNoPart'
    BY <2>1, <2>2 DEF OneOwner, OwnFiles, AnswerLeavesNoPart
  <2>4. OwnPart' /\ Redundant' /\ ReadersLocated'
    BY <2>1, <2>2 DEF OwnPart, Redundant, ReadersLocated
  <2>5. RowsMade' /\ PrunedForGood'
    BY <2>1, <2>2 DEF RowsMade, MadeBy, Objects, PrunedForGood, Spent
  <2> QED
    BY <2>3, <2>4, <2>5
<1>3. CASE PruneDies
  <2>1. prune_pc' = "idle"
        /\ UNCHANGED <<object, parts_dir, object_dir, data, pc, part_id, out, sent, obj, reading>>
    BY <1>3 DEF PruneDies
  <2> QED
    BY <2>1 DEF OneOwner, OwnFiles, OwnPart, RowsMade, MadeBy, Objects, Redundant, PrunedForGood,
       ReadersLocated, Located, AnswerLeavesNoPart
<1> QED
  BY <1>1, <1>2, <1>3 DEF Fault

\* Every step keeps the invariant.
LEMMA FreshNext ==
    ASSUME RequestIds = {}
    PROVE  FreshInv /\ [Next]_vars => FreshInv'
<1> SUFFICES ASSUME FreshInv, [Next]_vars PROVE FreshInv'
  OBVIOUS
<1>1. TypeInv' /\ Answered'
  BY TypeNext, AnsweredNext DEF FreshInv
<1>2. ASSUME NEW u \in Uploads, Upload(u) PROVE FreshInv'
  <2>1. ASSUME EndStream(u) PROVE FreshInv'
    BY <1>1, <2>1, AdvanceFresh DEF EndStream, Past, FreshInv, TypeInv, TypeOK
  <2>2. ASSUME ReadPart(u) PROVE FreshInv'
    <3>1. parts_dir[part_id[u]] = u /\ u # Null
      BY <2>2, NullIsNoFile DEF ReadPart, FreshInv, OwnPart
    <3>2. sent' = [sent EXCEPT ![u] = describe(data[u])] /\ pc' = [pc EXCEPT ![u] = "adding"]
      BY <2>2, <3>1 DEF ReadPart
    <3> QED
      BY <1>1, <2>2, <3>2, AdvanceFresh DEF ReadPart, Past, FreshInv, TypeInv, TypeOK
  <2>3. ASSUME RejectObject(u) \/ RenameFails(u) PROVE FreshInv'
    BY <1>1, <2>3, AdvanceFresh DEF RejectObject, RenameFails, Past, FreshInv, TypeInv, TypeOK
  <2> QED
    BY <1>1, <1>2, <2>1, <2>2, <2>3, BeginFresh, WriteFresh, AddObjectFresh, RemovePartFresh,
       MakeObjectFresh DEF Upload
<1>3. CASE Remove \/ UNCHANGED vars
  <2>1. UNCHANGED <<object, parts_dir, object_dir, data, pc, part_id, out, sent, obj, reading,
                    prune_pc, orphans>>
    BY <1>3 DEF Remove, RemoveObject, RemoveObjects, RemoveBucket, remove_object, remove_objects,
       remove_bucket
  <2> QED
    BY <1>1, <2>1 DEF FreshInv, OneOwner, OwnFiles, OwnPart, RowsMade, MadeBy, Objects, Redundant,
       PrunedForGood, Spent, ReadersLocated, Located, AnswerLeavesNoPart
<1> QED
  BY <1>1, <1>2, <1>3, ReaderFresh, PruneFresh, FaultFresh DEF Next

\* While the server draws every part id (HTTP clients never name one), the
\* ownership of ids, parts, files and rows is as FreshInv says.
THEOREM FreshInvariant ==
    ASSUME RequestIds = {}
    PROVE  Spec => []FreshInv
  BY FreshInit, FreshNext, PTL DEF Spec

-----------------------------------------------------------------------------
(* The properties that follow                                              *)

\* A response of the file's own size is the whole file.
LEMMA FirstBytesOfAll ==
    ASSUME NEW bytes \in Bytes
    PROVE  firstBytes(bytes, Len(bytes)) = bytes
  BY DEF Bytes, firstBytes

\* What the invariant says of contents, rows and downloads.
LEMMA FreshSafety ==
    ASSUME FreshInv
    PROVE  HashMatchesContents /\ ContentOnDisk /\ ServedIsAsked
<1> USE Owners, NullIsNoFile DEF FreshInv, describe
<1>1. ASSUME NEW o \in Objects
      PROVE  /\ object_dir[o] # Null => FileHas(object_dir[o], object[o])
             /\ FileHas(object_dir[o], object[o]) \/ FileHas(parts_dir[o], object[o])
  <2>1. PICK u \in Uploads : MadeBy(o, u)
    BY DEF RowsMade
  <2>2. object_dir[o] # Null => object_dir[o] = u
    BY <2>1 DEF MadeBy, OwnFiles, OneOwner
  <2> QED
    BY <2>1, <2>2 DEF MadeBy, FileHas
<1>2. ServedIsAsked
  <2> SUFFICES ASSUME NEW r \in Readers, reading[r] # Null, reading[r].fd # Null
               PROVE  sha256sum(firstBytes(data[reading[r].fd], reading[r].row.size))
                        = reading[r].row.hash
    BY DEF ServedIsAsked
  <2>1. PICK u \in Uploads : Located(r, u)
    BY DEF ReadersLocated
  <2>2. reading[r].fd = u /\ reading[r].row = describe(data[u])
    BY <2>1 DEF Located
  <2>3. firstBytes(data[u], Len(data[u])) = data[u]
    BY FirstBytesOfAll
  <2> QED
    BY <2>2, <2>3
<1> QED
  BY <1>1, <1>2 DEF HashMatchesContents, ContentOnDisk

\* While the server draws every part id: a file in objects/ has the contents
\* whose checksum its row gives, through crashes, prune and repeated uploads.
THEOREM HashMatchesContentsHolds ==
    ASSUME RequestIds = {}
    PROVE  Spec => []HashMatchesContents
  BY FreshInvariant, FreshSafety, PTL

\* Likewise, no committed row ever loses its contents before prune deletes it.
THEOREM ContentOnDiskHolds ==
    ASSUME RequestIds = {}
    PROVE  Spec => []ContentOnDisk
  BY FreshInvariant, FreshSafety, PTL

\* Likewise, a download is of what the metadata promised.
THEOREM ServedIsAskedHolds ==
    ASSUME RequestIds = {}
    PROVE  Spec => []ServedIsAsked
  BY FreshInvariant, FreshSafety, PTL

\* Likewise, an answered upload has left parts/.
THEOREM AnswerLeavesNoPartHolds ==
    ASSUME RequestIds = {}
    PROVE  Spec => []AnswerLeavesNoPart
<1>1. FreshInv => AnswerLeavesNoPart
  BY DEF FreshInv
<1> QED
  BY <1>1, FreshInvariant, PTL

\* Likewise, and with prune deleting rows in between: the object an upload is
\* answered with has, while it exists, the contents the handler read.
THEOREM FreshAnswerNamesContent ==
    ASSUME RequestIds = {}
    PROVE  Spec => []AnswerNamesContent
<1>1. FreshInv => AnswerNamesContent
  BY DEF FreshInv, Answered, AnswerNamesContent, Objects, TypeInv, TypeOK
<1> QED
  BY <1>1, FreshInvariant, PTL

\* Only an open stream changes a file, and one whose name is still in parts/.
LEMMA WritesOwnPart ==
    ASSUME FreshInv, [Next]_vars, NEW f \in Uploads, data'[f] # data[f]
    PROVE  pc[f] = "receiving" /\ parts_dir[part_id[f]] = f
<1> USE Owners DEF FreshInv, TypeInv, TypeOK, FsTypeOK
<1>1. data' # data
  OBVIOUS
<1>2. ~Remove /\ ~Prune /\ ~Fault /\ ~UNCHANGED vars
  BY <1>1 DEF Remove, RemoveObject, RemoveObjects, RemoveBucket, Prune, PruneScan, PruneDelete,
     PruneRemove, PruneEnd, remove, Fault, CallFails, Crash, PruneDies
<1>3. \A r \in Readers : ~Reader(r)
  BY <1>1 DEF Reader, Locate, Open, Respond
<1>4. PICK u \in Uploads : Upload(u)
  BY <1>2, <1>3 DEF Next
<1>5. PICK chunk \in Chunks : Write(u, chunk)
  BY <1>1, <1>4 DEF Upload, Begin, EndStream, ReadPart, AddObject, RejectObject, RemovePart,
     MakeObject, RenameFails, get_part, remove_part, make_object
<1>6. pc[u] = "receiving" /\ out[u] = u /\ data' = [data EXCEPT ![u] = Append(@, chunk)]
  BY <1>5 DEF Write, write, OwnPart
<1>7. f = u
  BY <1>6
<1> QED
  BY <1>6, <1>7 DEF OwnPart

\* Part ids are never given back.
LEMMA IdsStay ==
    ASSUME FreshInv, [Next]_vars, NEW u \in Uploads, part_id[u] # Null
    PROVE  part_id'[u] = part_id[u]
<1> USE DEF FreshInv, TypeInv, TypeOK
<1>1. CASE UNCHANGED part_id
  BY <1>1
<1>2. ASSUME NEW v \in Uploads, NEW b \in BucketIds, NEW id \in ObjectIds, Begin(v, b, id)
      PROVE  part_id'[u] = part_id[u]
  BY <1>2 DEF Begin, OneOwner
<1>3. ASSUME NEW v \in Uploads, Upload(v)
      PROVE  UNCHANGED part_id \/ \E b \in BucketIds, id \in ObjectIds : Begin(v, b, id)
  BY <1>3 DEF Upload, Write, EndStream, ReadPart, AddObject, RejectObject, RemovePart, MakeObject,
     RenameFails
<1>4. ASSUME NEW r \in Readers, Reader(r) PROVE UNCHANGED part_id
  BY <1>4 DEF Reader, Locate, Open, Respond
<1>5. Remove \/ Prune \/ Fault \/ UNCHANGED vars => UNCHANGED part_id
  BY DEF Remove, RemoveObject, RemoveObjects, RemoveBucket, Prune, PruneScan, PruneDelete,
     PruneRemove, PruneEnd, Fault, CallFails, Crash, PruneDies
<1> QED
  BY <1>1, <1>2, <1>3, <1>4, <1>5 DEF Next

\* While the server draws every part id, the contents behind an object id never
\* change and are never replaced by others.
THEOREM ObjectsNeverChangeHolds ==
    ASSUME RequestIds = {}
    PROVE  Spec => ObjectsNeverChange
<1>1. FreshInv /\ FreshInv' /\ [Next]_vars =>
        [\A o \in ObjectIds : (object_dir[o] # Null /\ object_dir'[o] # Null) =>
            data'[object_dir'[o]] = data[object_dir[o]]]_vars
  <2> SUFFICES ASSUME FreshInv, FreshInv', [Next]_vars,
                      NEW o \in ObjectIds, object_dir[o] # Null, object_dir'[o] # Null
               PROVE  data'[object_dir'[o]] = data[object_dir[o]]
    OBVIOUS
  <2> DEFINE f == object_dir[o]
             g == object_dir'[o]
  <2>1. f \in Uploads /\ part_id[f] = o /\ part_id[f] # Null
    BY Owners, NullIsNoId DEF FreshInv, OwnFiles
  <2>2. g \in Uploads /\ part_id'[g] = o
    BY DEF FreshInv, OwnFiles, TypeInv, TypeOK, FsTypeOK
  <2>3. part_id'[f] = o
    BY <2>1, IdsStay
  <2>4. f = g
    BY <2>1, <2>2, <2>3 DEF FreshInv, OneOwner
  <2>5. parts_dir[o] = Null
    BY DEF FreshInv, OwnFiles
  <2>6. data'[f] = data[f]
    BY <2>1, <2>5, WritesOwnPart, NullIsNoFile
  <2> QED
    BY <2>4, <2>6
<1> QED
  BY <1>1, FreshInvariant, PTL DEF Spec, ObjectsNeverChange
-----------------------------------------------------------------------------
(* Clients that resume parts                                               *)

\* A store nothing was uploaded to satisfies the invariant.
LEMMA ResumeInit == Init => ResumeInv
<1> SUFFICES ASSUME Init PROVE ResumeInv
  OBVIOUS
<1>1. TypeInv /\ Named
  BY TypeInit, NamedInit
<1>2. NotShared /\ OneName /\ OwnResumed
  BY NullIsNoFile DEF Init, FsInit, NotShared, OneName, OwnResumed
<1>3. RowsCoherent /\ FilesMatch /\ ReadersMatch
  BY DEF Init, FsInit, RowsCoherent, FilesMatch, ReadersMatch, Objects
<1> QED
  BY <1>1, <1>2, <1>3 DEF ResumeInv

\* What the proofs below use of ResumeInv over and over.
LEMMA Resumed ==
    ASSUME ResumeInv
    PROVE  /\ \A u \in Uploads : pc[u] # "idle" => part_id[u] \in ObjectIds /\ part_id[u] # Null
           /\ \A o \in ObjectIds : parts_dir[o] \in Uploads \union {Null}
           /\ \A o \in ObjectIds : object_dir[o] \in Uploads \union {Null}
           /\ \A u \in Uploads : data[u] \in Bytes
           /\ \A o \in Objects : o \in ObjectIds /\ object[o] \in Row /\ object[o] # Null
           /\ \A r \in Readers : reading[r] # Null => reading[r] \in Download
<1> USE NullIsNoId, NullIsNoRow DEF ResumeInv, TypeInv, TypeOK, DbTypeOK, FsTypeOK, Equipped, Objects
<1> QED
  OBVIOUS

\* A handler that starts is the only one at work on its part, new or resumed.
LEMMA BeginResumed ==
    ASSUME ResumeInv, Exclusive, TypeInv', Named',
           NEW u \in Uploads, NEW b \in BucketIds, NEW id \in ObjectIds, Begin(u, b, id)
    PROVE  ResumeInv'
<1> USE Resumed, NullIsNoId, NullIsNoFile DEF ResumeInv, TypeInv, TypeOK, FsTypeOK
<1> DEFINE file == part_file(id, u)
<1>1. /\ pc[u] = "idle"
      /\ pc' = [pc EXCEPT ![u] = "receiving"]
      /\ part_id' = [part_id EXCEPT ![u] = id]
      /\ parts_dir' = [parts_dir EXCEPT ![id] = file]
      /\ out' = [out EXCEPT ![u] = file]
      /\ UNCHANGED <<object_dir, data, object, sent, obj, reading>>
  BY DEF Begin, get_part
<1>2. \A v \in Uploads : part_id[v] = id => pc[v] \in Closed
  BY DEF Begin, FreshIds, Available
<1>3. file \in Uploads /\ file = IF parts_dir[id] = Null THEN u ELSE parts_dir[id]
  BY DEF part_file
<1>4. \A o \in ObjectIds : parts_dir[o] # u /\ object_dir[o] # u
  BY <1>1 DEF OneName
<1>5. NotShared'
  BY <1>1, <1>2 DEF NotShared, Closed
<1>6. OneName'
  BY <1>1, <1>3, <1>4 DEF OneName
<1>7. OwnResumed'
  BY <1>1, <1>2, <1>3 DEF OwnResumed, Closed
<1>8. RowsCoherent' /\ FilesMatch'
  BY <1>1 DEF RowsCoherent, FilesMatch, FileHas, Objects
<1>9. ReadersMatch'
  BY <1>1, <1>3 DEF ReadersMatch, FileHas, Objects
<1> QED
  BY <1>5, <1>6, <1>7, <1>8, <1>9

\* A chunk goes to the handler's part, which no row and no other handler describes.
LEMMA WriteResumed ==
    ASSUME ResumeInv, TypeInv', Named', NEW u \in Uploads, NEW chunk \in Chunks, Write(u, chunk)
    PROVE  ResumeInv'
<1> USE Resumed, NullIsNoFile DEF ResumeInv, TypeInv, TypeOK, FsTypeOK
<1>1. PICK p \in ObjectIds : p = part_id[u]
  BY DEF Write
<1>2. PICK f \in Uploads : f = parts_dir[p]
  BY <1>1 DEF Write, OwnResumed
<1>3. /\ pc[u] = "receiving" /\ out[u] = f
      /\ \A g \in Uploads \ {f} : data'[g] = data[g]
      /\ UNCHANGED <<object, parts_dir, object_dir, pc, part_id, out, sent, obj, reading>>
  BY <1>1, <1>2 DEF Write, write, OwnResumed
<1>4. NotShared' /\ OneName' /\ RowsCoherent'
  BY <1>3 DEF NotShared, OneName, RowsCoherent, Objects
<1>5. OwnResumed'
  <2>1. \A v \in Uploads : pc[v] \in {"adding", "added"} => part_id[v] \in ObjectIds /\ part_id[v] # p
    BY <1>1, <1>3 DEF NotShared, Closed
  <2>2. \A o \in ObjectIds \ {p} : parts_dir[o] # f
    BY <1>2 DEF OneName
  <2> QED
    BY <1>3, <2>1, <2>2 DEF OwnResumed
<1>6. FilesMatch'
  BY <1>2, <1>3 DEF FilesMatch, FileHas, Objects, OneName
<1>7. ReadersMatch'
  BY <1>2, <1>3 DEF ReadersMatch, FileHas, Objects, Download
<1> QED
  BY <1>4, <1>5, <1>6, <1>7

\* Steps of an upload that touch neither database nor files, and only move it on.
LEMMA AdvanceResumed ==
    ASSUME ResumeInv, TypeInv', Named',
           UNCHANGED <<object, parts_dir, object_dir, data, part_id, obj, reading>>,
           NEW u \in Uploads, NEW next \in {"received", "adding", "failed"},
           pc' = [pc EXCEPT ![u] = next], pc[u] \in Active,
           next = "received" => pc[u] = "receiving",
           next = "adding" => /\ pc[u] = "received"
                              /\ parts_dir[part_id[u]] # Null
                              /\ sent'[u] = describe(data[parts_dir[part_id[u]]]),
           \A v \in Uploads \ {u} : out'[v] = out[v] /\ sent'[v] = sent[v]
    PROVE  ResumeInv'
<1> USE Resumed, NullIsNoFile DEF ResumeInv, TypeInv, TypeOK
<1>1. NotShared'
  BY DEF NotShared, Active, Closed
<1>2. OneName'
  BY DEF OneName
<1>3. OwnResumed'
  BY DEF OwnResumed, Active
<1>4. RowsCoherent' /\ FilesMatch'
  BY DEF RowsCoherent, FilesMatch, FileHas, Objects
<1>5. ReadersMatch'
  BY DEF ReadersMatch, FileHas, Objects
<1> QED
  BY <1>1, <1>2, <1>3, <1>4, <1>5

\* add_object leaves the rows there are, and makes one from the handler's part at most.
LEMMA AddObjectResumed ==
    ASSUME ResumeInv, TypeInv', Named', NEW u \in Uploads, AddObject(u)
    PROVE  ResumeInv'
<1> USE Resumed, NullIsNoFile, NullIsNoRow DEF ResumeInv, TypeInv, TypeOK, FsTypeOK, DbTypeOK
<1>1. PICK id \in ObjectIds :
        /\ add_object(to[u], part_id[u], sent[u], id)
        /\ obj' = [obj EXCEPT ![u] = id]
  BY DEF AddObject
<1>2. /\ pc[u] = "adding" /\ pc' = [pc EXCEPT ![u] = "added"]
      /\ UNCHANGED <<parts_dir, object_dir, data, part_id, out, sent, reading>>
  BY DEF AddObject
<1>3. PICK p \in ObjectIds : p = part_id[u]
  BY <1>2
<1>4. PICK f \in Uploads : f = parts_dir[p]
  BY <1>2, <1>3 DEF OwnResumed
<1>5. sent[u] = describe(data[f]) /\ sent[u] \in Row /\ to[u] \in BucketIds
  BY <1>2, <1>3, <1>4 DEF OwnResumed, Equipped
<1>6. \A o \in Objects : o \in Objects' /\ object'[o] = object[o]
  BY <1>1, <1>3, <1>5, AddObjectAnswer
<1>7. \A o \in Objects' : o \in Objects \/ object'[o] = sent[u]
  BY <1>1, <1>3, <1>5 DEF add_object, create_object, Objects
<1>8. NotShared'
  BY <1>2 DEF NotShared, Closed
<1>9. OneName'
  BY <1>2 DEF OneName
<1>10. OwnResumed'
  <2>1. \A v \in Uploads \ {u} : obj'[v] = obj[v] /\ pc'[v] = pc[v]
    BY <1>1, <1>2
  <2> QED
    BY <1>2, <1>3, <1>4, <1>5, <2>1 DEF OwnResumed
<1>11. RowsCoherent'
  <2>1. Coherent(sent[u])
    BY <1>5 DEF Coherent, describe, sha256sum
  <2> QED
    BY <1>6, <1>7, <2>1 DEF RowsCoherent, Coherent
<1>12. FilesMatch'
  BY <1>2, <1>6 DEF FilesMatch, FileHas
<1>13. ReadersMatch'
  <2>1. \A r \in Readers : reading[r] # Null =>
          /\ reading[r].id \in Objects' /\ reading[r].row = object'[reading[r].id]
    BY <1>6 DEF ReadersMatch
  <2> QED
    BY <1>2, <2>1 DEF ReadersMatch, FileHas
<1> QED
  BY <1>8, <1>9, <1>10, <1>11, <1>12, <1>13

\* A part that is removed is nobody else's.
LEMMA RemovePartResumed ==
    ASSUME ResumeInv, TypeInv', Named', NEW u \in Uploads, RemovePart(u)
    PROVE  ResumeInv'
<1> USE Resumed, NullIsNoFile DEF ResumeInv, TypeInv, TypeOK, FsTypeOK
<1>1. PICK p \in ObjectIds : p = part_id[u]
  BY DEF RemovePart
<1>2. /\ pc[u] = "added"
      /\ pc' = [pc EXCEPT ![u] = "done"]
      /\ parts_dir' = [parts_dir EXCEPT ![p] = Null]
      /\ UNCHANGED <<object, object_dir, data, part_id, out, sent, obj, reading>>
  BY <1>1 DEF RemovePart, remove_part
<1>3. \A v \in Uploads \ {u} : pc[v] \in Active => part_id[v] # p
  BY <1>1, <1>2 DEF NotShared, Closed, Active
<1>4. NotShared'
  BY <1>2 DEF NotShared, Closed
<1>5. OneName'
  BY <1>2 DEF OneName
<1>6. OwnResumed'
  BY <1>2, <1>3 DEF OwnResumed, Active
<1>7. RowsCoherent' /\ FilesMatch'
  BY <1>2 DEF RowsCoherent, FilesMatch, FileHas, Objects
<1>8. ReadersMatch'
  BY <1>2 DEF ReadersMatch, FileHas, Objects, Download
<1> QED
  BY <1>4, <1>5, <1>6, <1>7, <1>8

\* The part that is renamed has the contents the row with its id was made from,
\* whichever upload made that row.
LEMMA MakeObjectResumed ==
    ASSUME ResumeInv, TypeInv', Named', NEW u \in Uploads, MakeObject(u)
    PROVE  ResumeInv'
<1> USE Resumed, NullIsNoFile DEF ResumeInv, TypeInv, TypeOK, FsTypeOK
<1>1. PICK p \in ObjectIds : p = part_id[u]
  BY DEF MakeObject
<1>2. PICK f \in Uploads : f = parts_dir[p]
  BY <1>1 DEF MakeObject, OwnResumed
<1>3. /\ pc[u] = "added" /\ obj[u] = p
      /\ pc' = [pc EXCEPT ![u] = "done"]
      /\ parts_dir' = [parts_dir EXCEPT ![p] = Null]
      /\ object_dir' = [object_dir EXCEPT ![p] = f]
      /\ UNCHANGED <<object, data, part_id, out, sent, obj, reading>>
  BY <1>1, <1>2 DEF MakeObject, make_object
<1>4. \A v \in Uploads \ {u} : pc[v] \in Active => part_id[v] # p
  BY <1>1, <1>3 DEF NotShared, Closed, Active
<1>5. p \in Objects /\ FileHas(f, object[p])
  <2>1. p \in Objects /\ object[p].hash = sent[u].hash
    BY <1>3, NullIsNoId DEF Named
  <2>2. sent[u] = describe(data[f])
    BY <1>1, <1>2, <1>3 DEF OwnResumed
  <2> QED
    BY <2>1, <2>2 DEF FileHas, describe
<1>6. NotShared'
  BY <1>3 DEF NotShared, Closed
<1>7. OneName'
  BY <1>2, <1>3 DEF OneName
<1>8. OwnResumed'
  BY <1>3, <1>4 DEF OwnResumed, Active
<1>9. RowsCoherent' /\ FilesMatch'
  BY <1>3, <1>5 DEF RowsCoherent, FilesMatch, FileHas, Objects
<1>10. ReadersMatch'
  BY <1>3 DEF ReadersMatch, FileHas, Objects, Download
<1> QED
  BY <1>6, <1>7, <1>8, <1>9, <1>10

\* A download opens the file of the row it located.
LEMMA ReaderResumed ==
    ASSUME ResumeInv, TypeInv', Named', NEW r \in Readers, Reader(r)
    PROVE  ResumeInv'
<1> USE Resumed, NullIsNoFile DEF ResumeInv, TypeInv, TypeOK
<1>1. /\ UNCHANGED <<object, parts_dir, object_dir, data, pc, part_id, out, sent, obj>>
      /\ \A q \in Readers \ {r} : reading'[q] = reading[q]
  BY DEF Reader, Locate, Open, Respond
<1>2. NotShared' /\ OneName' /\ OwnResumed' /\ RowsCoherent' /\ FilesMatch'
  BY <1>1 DEF NotShared, OneName, OwnResumed, RowsCoherent, FilesMatch, FileHas, Objects
<1>3. reading'[r] # Null =>
        LET got == reading'[r] IN
        /\ got.id \in Objects /\ got.row = object[got.id]
        /\ got.fd # Null =>
              /\ FileHas(got.fd, got.row)
              /\ pc[got.fd] # "idle" /\ \A o \in ObjectIds : parts_dir[o] # got.fd
  <2>1. ASSUME NEW b \in BucketIds, NEW o \in ObjectIds, Locate(r, b, o)
        PROVE  /\ o \in Objects
               /\ reading'[r] = [id |-> o, row |-> object[o], fd |-> Null]
    BY <2>1 DEF Locate, NotFound, get_object, bucket_contents
  <2>2. CASE Open(r) /\ reading'[r] # Null
    <3>1. PICK got \in Download : got = reading[r]
      BY <2>2 DEF Open
    <3>2. /\ object_dir[got.id] # Null
          /\ reading'[r] = [got EXCEPT !.fd = object_dir[got.id]]
      BY <2>2, <3>1 DEF Open
    <3>3. got.id \in Objects /\ got.row = object[got.id] /\ got.id \in ObjectIds
      BY <2>2, <3>1 DEF Open, ReadersMatch
    <3>4. PICK f \in Uploads : f = object_dir[got.id]
      BY <3>2, <3>3
    <3>5. /\ FileHas(f, got.row)
          /\ pc[f] # "idle" /\ \A o \in ObjectIds : parts_dir[o] # f
      BY <3>3, <3>4 DEF FilesMatch, OneName
    <3>6. reading'[r].id = got.id /\ reading'[r].row = got.row /\ reading'[r].fd = f
      BY <3>1, <3>2, <3>4 DEF Download
    <3> QED
      BY <3>3, <3>5, <3>6
  <2>3. Respond(r) => reading'[r] = Null
    BY DEF Respond
  <2> QED
    BY <2>1, <2>2, <2>3 DEF Reader
<1>4. ReadersMatch'
  BY <1>1, <1>3 DEF ReadersMatch, FileHas, Objects
<1> QED
  BY <1>2, <1>4

\* A failed call and a crash end uploads, and change no row and no file.
LEMMA FaultResumed ==
    ASSUME ResumeInv, TypeInv', Named', Fault
    PROVE  ResumeInv'
<1> USE Resumed, NullIsNoFile DEF ResumeInv, TypeInv, TypeOK
<1>1. ASSUME NEW u \in Uploads, CallFails(u) PROVE ResumeInv'
  BY <1>1, AdvanceResumed DEF CallFails, Active
<1>2. CASE Crash
  <2>1. /\ \A u \in Uploads : pc'[u] = IF pc[u] \in Active THEN "failed" ELSE pc[u]
        /\ \A r \in Readers : reading'[r] = Null
        /\ UNCHANGED <<object, parts_dir, object_dir, data, part_id, obj>>
    BY <1>2 DEF Crash
  <2>2. \A u \in Uploads : /\ pc'[u] \in {"idle", "done", "failed"}
                           /\ pc'[u] = "idle" <=> pc[u] = "idle"
    BY <2>1 DEF Active, Closed
  <2>3. NotShared' /\ OneName' /\ OwnResumed'
    BY <2>1, <2>2 DEF NotShared, Closed, OneName, OwnResumed
  <2>4. RowsCoherent' /\ FilesMatch' /\ ReadersMatch'
    BY <2>1 DEF RowsCoherent, FilesMatch, FileHas, Objects, ReadersMatch
  <2> QED
    BY <2>3, <2>4
<1>3. ~PruneDies
  BY DEF PruneDies, Named
<1> QED
  BY <1>1, <1>2, <1>3 DEF Fault

\* Every step keeps the invariant.
LEMMA ResumeNext ==
    ASSUME Exclusive, ~Pruning
    PROVE  ResumeInv /\ [Next]_vars => ResumeInv'
<1> SUFFICES ASSUME ResumeInv, [Next]_vars PROVE ResumeInv'
  OBVIOUS
<1>1. TypeInv' /\ Named'
  BY TypeNext, NamedNext DEF ResumeInv
<1>2. ASSUME NEW u \in Uploads, Upload(u) PROVE ResumeInv'
  <2>1. ASSUME EndStream(u) \/ RejectObject(u) \/ RenameFails(u) PROVE ResumeInv'
    BY <1>1, <2>1, AdvanceResumed
       DEF EndStream, RejectObject, RenameFails, Active, ResumeInv, TypeInv, TypeOK
  <2>2. ASSUME ReadPart(u) PROVE ResumeInv'
    BY <1>1, <2>2, AdvanceResumed DEF ReadPart, Active, ResumeInv, TypeInv, TypeOK
  <2> QED
    BY <1>1, <1>2, <2>1, <2>2, BeginResumed, WriteResumed, AddObjectResumed, RemovePartResumed,
       MakeObjectResumed DEF Upload
<1>3. CASE Remove \/ UNCHANGED vars
  <2>1. UNCHANGED <<object, parts_dir, object_dir, data, pc, part_id, out, sent, obj, reading>>
    BY <1>3 DEF Remove, RemoveObject, RemoveObjects, RemoveBucket, remove_object, remove_objects,
       remove_bucket
  <2> QED
    BY <1>1, <2>1 DEF ResumeInv, NotShared, OneName, OwnResumed, RowsCoherent, FilesMatch, FileHas,
       Objects, ReadersMatch
<1>4. ~Prune
  BY DEF Prune, PruneScan, PruneDelete, PruneRemove, PruneEnd, ResumeInv, Named
<1> QED
  BY <1>1, <1>2, <1>3, <1>4, ReaderResumed, FaultResumed DEF Next

\* Only prune's deletion changes a row.
LEMMA RowStays ==
    ASSUME TypeInv, prune_pc = "idle", [Next]_vars, NEW o \in Objects
    PROVE  object'[o] = object[o]
<1>1. CASE UNCHANGED object
  BY <1>1
<1>2. ASSUME NEW u \in Uploads, AddObject(u) PROVE object'[o] = object[o]
  <2>1. PICK id \in ObjectIds : add_object(to[u], part_id[u], sent[u], id)
    BY <1>2 DEF AddObject
  <2>2. to[u] \in BucketIds /\ part_id[u] \in ObjectIds /\ sent[u] \in Row
    BY <1>2 DEF AddObject, TypeInv, Equipped
  <2> QED
    BY <2>1, <2>2, AddObjectAnswer DEF TypeInv, TypeOK
<1>3. ASSUME NEW u \in Uploads, Upload(u) PROVE UNCHANGED object \/ AddObject(u)
  BY <1>3 DEF Upload, Begin, Write, EndStream, ReadPart, RejectObject, RemovePart, MakeObject,
     RenameFails
<1>4. ASSUME NEW r \in Readers, Reader(r) PROVE UNCHANGED object
  BY <1>4 DEF Reader, Locate, Open, Respond
<1>5. Remove \/ Prune \/ Fault \/ UNCHANGED vars => UNCHANGED object
  BY DEF Remove, RemoveObject, RemoveObjects, RemoveBucket, remove_object, remove_objects,
     remove_bucket, Prune, PruneScan, PruneDelete, PruneRemove, PruneEnd, Fault, CallFails, Crash,
     PruneDies
<1> QED
  BY <1>1, <1>2, <1>3, <1>4, <1>5 DEF Next

\* While clients keep a part id to one upload at a time and nothing is pruned,
\* parts, files, rows and downloads belong together as ResumeInv says.
THEOREM ResumeInvariant ==
    ASSUME Exclusive, ~Pruning
    PROVE  Spec => []ResumeInv
  BY ResumeInit, ResumeNext, PTL DEF Spec

\* What the invariant says of contents and downloads.
LEMMA ResumeSafety ==
    ASSUME ResumeInv
    PROVE  HashMatchesContents /\ ServedIsAsked
<1> USE Resumed DEF ResumeInv
<1>1. HashMatchesContents
  BY DEF HashMatchesContents, FilesMatch
<1>2. ServedIsAsked
  <2> SUFFICES ASSUME NEW r \in Readers, reading[r] # Null, reading[r].fd # Null
               PROVE  sha256sum(firstBytes(data[reading[r].fd], reading[r].row.size))
                        = reading[r].row.hash
    BY DEF ServedIsAsked
  <2>1. PICK got \in Download : got = reading[r]
    OBVIOUS
  <2>2. PICK f \in Uploads : f = got.fd
    BY <2>1 DEF Download
  <2>3. sha256sum(data[f]) = got.row.hash /\ Coherent(got.row)
    BY <2>1, <2>2 DEF ReadersMatch, RowsCoherent, FileHas
  <2>4. got.row.size = Len(data[f])
    BY <2>3 DEF Coherent, sha256sum
  <2> QED
    BY <2>1, <2>2, <2>3, <2>4, FirstBytesOfAll
<1> QED
  BY <1>1, <1>2

\* Clients that resume the parts of failed uploads, one upload at a time, get
\* objects whose contents have the checksum of their rows.
THEOREM ResumedHashMatches ==
    ASSUME Exclusive, ~Pruning
    PROVE  Spec => []HashMatchesContents
  BY ResumeInvariant, ResumeSafety, PTL

\* Likewise, a download is of what the metadata promised.
THEOREM ResumedServedIsAsked ==
    ASSUME Exclusive, ~Pruning
    PROVE  Spec => []ServedIsAsked
  BY ResumeInvariant, ResumeSafety, PTL

\* Likewise, an object that is renamed over by a second upload of its id keeps
\* its contents.
THEOREM ResumedObjectsNeverChange ==
    ASSUME Exclusive, ~Pruning
    PROVE  Spec => ObjectsNeverChange
<1>1. ResumeInv /\ ResumeInv' /\ [Next]_vars =>
        [\A o \in ObjectIds : (object_dir[o] # Null /\ object_dir'[o] # Null) =>
            data'[object_dir'[o]] = data[object_dir[o]]]_vars
  <2> SUFFICES ASSUME ResumeInv, ResumeInv', [Next]_vars,
                      NEW o \in ObjectIds, object_dir[o] # Null, object_dir'[o] # Null
               PROVE  data'[object_dir'[o]] = data[object_dir[o]]
    OBVIOUS
  <2>1. o \in Objects /\ sha256sum(data[object_dir[o]]) = object[o].hash
    BY DEF ResumeInv, FilesMatch, FileHas
  <2>2. o \in Objects' /\ sha256sum(data'[object_dir'[o]]) = object'[o].hash
    BY DEF ResumeInv, FilesMatch, FileHas
  <2>3. object'[o] = object[o]
    BY <2>1, RowStays DEF ResumeInv, Named
  <2> QED
    BY <2>1, <2>2, <2>3 DEF sha256sum
<1> QED
  BY <1>1, ResumeInvariant, PTL DEF Spec, ObjectsNeverChange

-----------------------------------------------------------------------------
(* Where nothing fails                                                     *)

\* A row's file is there, or its upload is about to place it.
RowsPlaced == \A o \in Objects : object_dir[o] # Null \/ BeingPlaced(o)

\* What either invariant says of renames and of prune's removals: a part that is to
\* be renamed is there, and a file that is removed is no row's.
LEMMA Placeable ==
    ASSUME FreshInv \/ ResumeInv
    PROVE  /\ TypeInv
           /\ \A u \in Uploads : pc[u] = "added" /\ obj[u] = part_id[u] => parts_dir[part_id[u]] # Null
           /\ \A o \in ObjectIds : PruneRemove(o) => object[o] = Null
<1>1. CASE FreshInv
  BY <1>1, NullIsNoFile DEF FreshInv, Redundant, PruneRemove, PrunedForGood
<1>2. CASE ResumeInv
  BY <1>2 DEF ResumeInv, OwnResumed, PruneRemove, Named
<1> QED
  BY <1>1, <1>2

\* A row that add_object makes is the row it answers.
LEMMA AddObjectOwnRow ==
    ASSUME DbTypeOK,
           NEW b \in BucketIds, NEW p \in ObjectIds, NEW row \in Row, NEW id \in ObjectIds,
           add_object(b, p, row, id), NEW o \in Objects', o \notin Objects
    PROVE  o = p /\ id = p
<1>1. object' = create_object(p, row) /\ id \in IdsForHash(object', row)
  BY DEF add_object
<1>2. o = p /\ ~HashTaken(row) /\ \A q \in ObjectIds \ {p} : object'[q] = object[q]
  BY <1>1 DEF create_object, Objects, DbTypeOK
<1>3. id # p => id \in Objects /\ object[id].hash = row.hash
  BY <1>1, <1>2 DEF IdsForHash, Objects
<1> QED
  BY <1>2, <1>3 DEF HashTaken

\* A handler that added a row goes on to place its part, unless it fails.
LEMMA RowsPlacedNext ==
    ASSUME MaxFaults = 0, FreshInv \/ ResumeInv, RowsPlaced, [Next]_vars
    PROVE  RowsPlaced'
<1> USE Placeable DEF TypeInv, TypeOK
<1>1. ASSUME \A o \in Objects' : o \in Objects,
             \A o \in Objects' : object_dir[o] # Null => object_dir'[o] # Null,
             \A o \in Objects' : BeingPlaced(o) => object_dir'[o] # Null \/ BeingPlaced(o)'
      PROVE  RowsPlaced'
  BY <1>1 DEF RowsPlaced
<1>2. ASSUME UNCHANGED <<object, object_dir, part_id, obj>>,
             \A u \in Uploads : pc[u] = "added" => pc'[u] = "added" \/ obj[u] # part_id[u]
      PROVE  RowsPlaced'
  <2>1. \A o \in Objects : BeingPlaced(o) => BeingPlaced(o)'
    BY <1>2 DEF BeingPlaced
  <2> QED
    BY <1>1, <1>2, <2>1 DEF Objects
<1>3. ASSUME NEW u \in Uploads, Upload(u) PROVE RowsPlaced'
  <2>1. ASSUME NEW b \in BucketIds, NEW id \in ObjectIds, Begin(u, b, id) PROVE RowsPlaced'
    <3>1. /\ UNCHANGED <<object, object_dir, obj>>
          /\ pc[u] = "idle"
          /\ \A v \in Uploads \ {u} : pc'[v] = pc[v] /\ part_id'[v] = part_id[v]
      BY <2>1 DEF Begin, get_part
    <3>2. \A o \in Objects : BeingPlaced(o) => BeingPlaced(o)'
      BY <3>1 DEF BeingPlaced
    <3> QED
      BY <1>1, <3>1, <3>2 DEF Objects
  <2>2. ASSUME NEW chunk \in Chunks, Write(u, chunk) PROVE RowsPlaced'
    BY <1>2, <2>2 DEF Write, write
  <2>3. CASE EndStream(u)
    BY <1>2, <2>3 DEF EndStream
  <2>4. CASE ReadPart(u)
    BY <1>2, <2>4 DEF ReadPart
  <2>5. CASE AddObject(u)
    <3>1. PICK b \in BucketIds, p \in ObjectIds, row \in Row, id \in ObjectIds :
            add_object(b, p, row, id) /\ p = part_id[u] /\ obj' = [obj EXCEPT ![u] = id]
      BY <2>5 DEF AddObject, Equipped
    <3>2. /\ pc[u] = "adding" /\ pc' = [pc EXCEPT ![u] = "added"]
          /\ UNCHANGED <<object_dir, part_id>>
      BY <2>5 DEF AddObject
    <3>3. ASSUME NEW o \in Objects' PROVE object_dir'[o] # Null \/ BeingPlaced(o)'
      <4>1. CASE o \in Objects
        <5>1. BeingPlaced(o) => BeingPlaced(o)'
          BY <3>1, <3>2 DEF BeingPlaced
        <5> QED
          BY <3>2, <4>1, <5>1 DEF RowsPlaced
      <4>2. CASE o \notin Objects
        <5>1. o = p /\ id = p
          BY <3>1, <4>2, AddObjectOwnRow
        <5>2. pc'[u] = "added" /\ part_id'[u] = o /\ obj'[u] = o
          BY <3>1, <3>2, <5>1
        <5> QED
          BY <5>2 DEF BeingPlaced
      <4> QED
        BY <4>1, <4>2
    <3> QED
      BY <3>3 DEF RowsPlaced
  <2>6. CASE RejectObject(u)
    BY <1>2, <2>6 DEF RejectObject
  <2>7. CASE RemovePart(u)
    BY <1>2, <2>7 DEF RemovePart, remove_part
  <2>8. CASE MakeObject(u)
    <3>1. PICK p \in ObjectIds : p = part_id[u]
      BY <2>8 DEF MakeObject, Equipped
    <3>2. /\ pc[u] = "added" /\ obj[u] = p /\ parts_dir[p] # Null
          /\ pc' = [pc EXCEPT ![u] = "done"]
          /\ object_dir' = [object_dir EXCEPT ![p] = parts_dir[p]]
          /\ UNCHANGED <<object, part_id, obj>>
      BY <2>8, <3>1 DEF MakeObject, make_object
    <3>3. \A o \in ObjectIds : object_dir[o] # Null => object_dir'[o] # Null
      BY <3>2 DEF FsTypeOK
    <3>4. \A o \in ObjectIds : BeingPlaced(o) => object_dir'[o] # Null \/ BeingPlaced(o)'
      BY <3>1, <3>2 DEF BeingPlaced, FsTypeOK
    <3> QED
      BY <1>1, <3>2, <3>3, <3>4 DEF Objects
  <2>9. ~RenameFails(u)
    BY DEF RenameFails
  <2> QED
    BY <1>3, <2>1, <2>2, <2>3, <2>4, <2>5, <2>6, <2>7, <2>8, <2>9 DEF Upload
<1>4. ASSUME NEW r \in Readers, Reader(r) PROVE RowsPlaced'
  BY <1>2, <1>4 DEF Reader, Locate, Open, Respond
<1>5. CASE Remove \/ UNCHANGED vars
  BY <1>2, <1>5 DEF Remove, RemoveObject, RemoveObjects, RemoveBucket, remove_object,
     remove_objects, remove_bucket
<1>6. CASE Prune
  <2>1. UNCHANGED <<pc, part_id, obj>>
    BY <1>6 DEF Prune, PruneScan, PruneDelete, PruneRemove, PruneEnd
  <2>2. \A o \in Objects' : o \in Objects /\ object_dir'[o] = object_dir[o]
    <3>1. CASE PruneScan \/ PruneDelete \/ PruneEnd
      BY <3>1 DEF PruneScan, PruneDelete, PruneEnd, delete_objects, Objects
    <3>2. ASSUME NEW p \in ObjectIds, PruneRemove(p)
          PROVE  \A o \in Objects' : o \in Objects /\ object_dir'[o] = object_dir[o]
      BY <3>2 DEF PruneRemove, remove, Objects, FsTypeOK
    <3> QED
      BY <1>6, <3>1, <3>2 DEF Prune
  <2>3. \A o \in ObjectIds : BeingPlaced(o) => BeingPlaced(o)'
    BY <2>1 DEF BeingPlaced
  <2> QED
    BY <1>1, <2>2, <2>3 DEF Objects
<1>7. ~Fault
  BY DEF Fault
<1> QED
  BY <1>3, <1>4, <1>5, <1>6, <1>7 DEF Next

\* Where no call fails and no process is killed, "this object was uploaded
\* previously" is true of the files as well: an upload gives up its own copy only
\* for an object that is stored or whose upload is about to store it.  It holds
\* beside prune while the server draws the ids, and without prune for clients that
\* keep a part id to one upload at a time.
THEOREM UploadedPreviouslyHolds ==
    ASSUME MaxFaults = 0, RequestIds = {} \/ (Exclusive /\ ~Pruning)
    PROVE  Spec => UploadedPreviously
<1>1. Init => RowsPlaced
  BY DEF Init, RowsPlaced, Objects
<1>2. (FreshInv \/ ResumeInv) /\ RowsPlaced /\ [Next]_vars => RowsPlaced'
  BY RowsPlacedNext
<1>3. RowsPlaced /\ [Next]_vars =>
        [\A u \in Uploads :
          (pc[u] = "added" /\ pc'[u] = "done" /\ obj[u] # part_id[u] /\ obj[u] \in Objects)
             => object_dir[obj[u]] # Null \/ BeingPlaced(obj[u])]_vars
  BY DEF RowsPlaced
<1>4. Spec => [](FreshInv \/ ResumeInv)
  <2>1. CASE RequestIds = {}
    <3>1. Spec => []FreshInv
      BY <2>1, FreshInvariant
    <3> QED
      BY <3>1, PTL
  <2>2. CASE Exclusive /\ ~Pruning
    <3>1. Spec => []ResumeInv
      BY <2>2, ResumeInvariant
    <3> QED
      BY <3>1, PTL
  <2> QED
    BY <2>1, <2>2
<1> QED
  BY <1>1, <1>2, <1>3, <1>4, PTL DEF Spec, UploadedPreviously
=============================================================================
