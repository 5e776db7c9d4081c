--------------------------- MODULE StoreInvariant ---------------------------
(***************************************************************************)
(* Why the object store is right: the inductive invariants behind the      *)
(* properties of ObjectStore, as named parts.                              *)
(***************************************************************************)
EXTENDS ObjectStore

-----------------------------------------------------------------------------
(* For all clients                                                         *)

\* A handler has what its next step works on.
Equipped ==
    \A u \in Uploads :
        /\ pc[u] # "idle" => to[u] \in BucketIds /\ part_id[u] \in ObjectIds
        /\ pc[u] = "receiving" => out[u] \in Uploads
        /\ pc[u] \in {"adding", "added"} => sent[u] \in Row
        /\ pc[u] = "added" => obj[u] \in ObjectIds

TypeInv == TypeOK /\ Equipped

-----------------------------------------------------------------------------
(* For all clients, while nothing is pruned                                *)

\* An answered upload's object is there with the contents the handler read, and
\* neither that row nor what the handler read is written again.
Named ==
    /\ prune_pc = "idle"
    /\ \A u \in Uploads :
          /\ pc[u] \in {"idle", "receiving", "received", "adding"} => obj[u] = Null
          /\ obj[u] # Null => obj[u] \in Objects /\ object[obj[u]].hash = sent[u].hash

-----------------------------------------------------------------------------
(* For clients that leave the choice of part ids to the server             *)

Past == {"added", "done", "failed"}

\* An id belongs to the one upload that drew it.
OneOwner ==
    /\ \A u \in Uploads : pc[u] = "idle" => part_id[u] = Null
    /\ \A u, v \in Uploads : part_id[u] # Null /\ part_id[u] = part_id[v] => u = v

\* A name in parts/ or objects/ leads to the file of the upload that owns the
\* id, and an id is a part or an object, not both.
OwnFiles ==
    \A o \in ObjectIds :
        /\ parts_dir[o] # Null => part_id[parts_dir[o]] = o
        /\ object_dir[o] # Null => part_id[object_dir[o]] = o
        /\ parts_dir[o] = Null \/ object_dir[o] = Null

\* Until its part is placed, a handler's part is there and is its own, and it
\* described that part as it still is.
OwnPart ==
    \A u \in Uploads :
        /\ pc[u] \in {"receiving", "received", "adding"} => parts_dir[part_id[u]] = u
        /\ pc[u] = "receiving" => out[u] = u
        /\ pc[u] = "adding" => sent[u] = describe(data[u])

\* Row o was made from the file of the upload that owns o, whose stream is
\* closed; that file is still named, as the object or as a part.
MadeBy(o, u) ==
    /\ part_id[u] = o /\ pc[u] \in Past
    /\ object[o] = describe(data[u])
    /\ object_dir[o] = u \/ parts_dir[o] = u

RowsMade == \A o \in Objects : \E u \in Uploads : MadeBy(o, u)

\* An upload told that its contents are another object has no row of its own.
Redundant ==
    \A u \in Uploads : pc[u] = "added" =>
        IF obj[u] = part_id[u] THEN parts_dir[part_id[u]] = u ELSE object[part_id[u]] = Null

\* An id that had a row can get none again.
Spent(o) == \E u \in Uploads : part_id[u] = o /\ pc[u] \in Past

\* An upload's answer is an id whose row, while prune leaves it there, has the
\* contents the handler read; once it is gone the id gets no row of other contents.
Answered ==
    \A u \in Uploads :
        /\ pc[u] \in {"idle", "receiving", "received", "adding"} => obj[u] = Null
        /\ \A o \in ObjectIds : obj[u] = o =>
              Spent(o) /\ (o \in Objects => object[o].hash = sent[u].hash)

\* The files prune has left to remove are of objects that are gone for good.
PrunedForGood ==
    prune_pc = "removing" => \A o \in orphans : object[o] = Null /\ Spent(o)

\* A download knows the row of contents that no longer change, and reads them.
Located(r, u) ==
    /\ part_id[u] = reading[r].id /\ pc[u] \in Past
    /\ reading[r].row = describe(data[u])
    /\ reading[r].fd \in {Null, u}

ReadersLocated ==
    \A r \in Readers : reading[r] # Null => \E u \in Uploads : Located(r, u)

FreshInv ==
    /\ TypeInv
    /\ OneOwner
    /\ OwnFiles
    /\ OwnPart
    /\ RowsMade
    /\ Redundant
    /\ Answered
    /\ PrunedForGood
    /\ ReadersLocated
    /\ AnswerLeavesNoPart

-----------------------------------------------------------------------------
(* For clients that keep a part id to one upload at a time, resuming parts *)
(* of failed uploads among them, while nothing is pruned                   *)

\* Of two uploads with one id, one is over.
NotShared ==
    /\ \A u \in Uploads : pc[u] = "idle" => part_id[u] = Null
    /\ \A u, v \in Uploads : u # v /\ part_id[u] # Null /\ part_id[u] = part_id[v] =>
          pc[u] \in Closed \/ pc[v] \in Closed

\* A file in parts/ has no other name, and was created by an upload that began.
OneName ==
    \A o, p \in ObjectIds :
        /\ parts_dir[o] # Null =>
              /\ parts_dir[o] = parts_dir[p] => o = p
              /\ parts_dir[o] # object_dir[p]
              /\ pc[parts_dir[o]] # "idle"
        /\ object_dir[o] # Null => pc[object_dir[o]] # "idle"

\* A handler's part is there until it is placed, whoever wrote its first bytes,
\* and as the handler described it.
OwnResumed ==
    \A u \in Uploads :
        LET file == parts_dir[part_id[u]] IN
        /\ pc[u] \in {"receiving", "received", "adding"} => file # Null
        /\ pc[u] = "receiving" => out[u] = file
        /\ pc[u] = "adding" \/ (pc[u] = "added" /\ obj[u] = part_id[u]) =>
              file # Null /\ sent[u] = describe(data[file])

\* The columns of a row describe the same contents.
Coherent(row) == row.size = Len(row.hash.digest)

RowsCoherent == \A o \in Objects : Coherent(object[o])

FilesMatch ==
    \A o \in ObjectIds : object_dir[o] # Null => o \in Objects /\ FileHas(object_dir[o], object[o])

\* A download has the object's row, and an open file nobody will write to again.
ReadersMatch ==
    \A r \in Readers : reading[r] # Null =>
        LET got == reading[r] IN
        /\ got.id \in Objects /\ got.row = object[got.id]
        /\ got.fd # Null =>
              /\ FileHas(got.fd, got.row)
              /\ pc[got.fd] # "idle" /\ \A o \in ObjectIds : parts_dir[o] # got.fd

ResumeInv ==
    /\ TypeInv
    /\ Named
    /\ NotShared
    /\ OneName
    /\ OwnResumed
    /\ RowsCoherent
    /\ FilesMatch
    /\ ReadersMatch
=============================================================================
