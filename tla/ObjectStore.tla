----------------------------- MODULE ObjectStore -----------------------------
(***************************************************************************)
(* core::object_store with the handlers that drive it: uploads and         *)
(* downloads in the server process, the removals any client may request,   *)
(* and `fstore prune`, which is a process of its own on the same database  *)
(* and directories.                                                        *)
(*                                                                         *)
(* A handler is a coroutine of the server's event loop: what it does       *)
(* between two co_awaits is one action here, and every other process and   *)
(* handler may run in between.                                             *)
(***************************************************************************)
EXTENDS Database, Filesystem

CONSTANTS
    Readers,        \* downloads that can be in progress at the same time
    RequestIds,     \* ids a client may name for its part; HTTP clients never do
    Exclusive,      \* whether clients keep a part id to one upload at a time
    Pruning,        \* whether `fstore prune` is run
    MaxBytes,       \* bound: the size of the largest part
    MaxFaults       \* bound: failed calls, crashes and killed processes

VARIABLES
    \* Uploads, each used for one call of add_object.
    pc,             \* where the handler is
    to,             \* the bucket id of the request
    part_id,        \* the id of its part
    out,            \* the file its stream writes to, while that is open
    sent,           \* the row it describes its part with
    obj,            \* the id of the object the database answered
    \* Downloads.
    reading,        \* the object and row get_object located, and its open file
    \* fstore prune.
    prune_pc,
    orphans,        \* victims of its DELETE, then the objects whose files remain
    \* Bookkeeping of the model.
    faults

uploadVars == <<pc, to, part_id, out, sent, obj>>
pruneVars == <<prune_pc, orphans>>
vars == <<dbVars, fsVars, uploadVars, reading, pruneVars, faults>>

ASSUME ConstantsOK ==
    /\ RequestIds \subseteq ObjectIds
    /\ Exclusive \in BOOLEAN /\ Pruning \in BOOLEAN
    /\ MaxBytes \in Nat /\ MaxFaults \in Nat

Closed == {"done", "failed"}
Active == {"receiving", "received", "adding", "added"}

Download == [id : ObjectIds, row : Row, fd : Uploads \union {Null}]

\* Every variable keeps its range, and a download is of a well-formed row.
TypeOK ==
    /\ DbTypeOK
    /\ FsTypeOK
    /\ pc \in [Uploads -> {"idle"} \union Active \union Closed]
    /\ to \in [Uploads -> BucketIds \union {Null}]
    /\ part_id \in [Uploads -> ObjectIds \union {Null}]
    /\ out \in [Uploads -> Uploads \union {Null}]
    /\ sent \in [Uploads -> Row \union {Null}]
    /\ obj \in [Uploads -> ObjectIds \union {Null}]
    /\ reading \in [Readers -> Download \union {Null}]
    /\ prune_pc \in {"idle", "deleting", "removing"}
    /\ orphans \subseteq ObjectIds
    /\ faults \in 0..MaxFaults

\* A store in service: its buckets were created, nothing was uploaded yet.
Init ==
    /\ bucket \in [BucketIds -> Names]
    /\ \A b, c \in BucketIds : bucket[b] = bucket[c] => b = c
    /\ object = [o \in ObjectIds |-> Null]
    /\ bucket_object = {}
    /\ object_error = {}
    /\ FsInit
    /\ pc = [u \in Uploads |-> "idle"]
    /\ to = [u \in Uploads |-> Null]
    /\ part_id = [u \in Uploads |-> Null]
    /\ out = [u \in Uploads |-> Null]
    /\ sent = [u \in Uploads |-> Null]
    /\ obj = [u \in Uploads |-> Null]
    /\ reading = [r \in Readers |-> Null]
    /\ prune_pc = "idle"
    /\ orphans = {}
    /\ faults = 0

-----------------------------------------------------------------------------
(* Uploading: router_context::add_object, and POST /object/:bucket         *)

\* Mutated form: an id may be drawn twice.
FreshIds_repeated == ObjectIds \ RequestIds

\* UUID::generate never returns an id that was used before.
FreshIds == ObjectIds \ (RequestIds \union {part_id[u] : u \in Uploads})

\* Mutated form: clients share part ids after all.
Available_always(id) == TRUE

\* What a careful client may name: an id no upload of its own is still using.
Available(id) == Exclusive => \A u \in Uploads : part_id[u] = id => pc[u] \in Closed

\* The handler starts: the part is opened before the first chunk is awaited.
Begin(u, b, id) ==
    /\ pc[u] = "idle"
    /\ id \in FreshIds \/ (id \in RequestIds /\ Available(id))
    /\ get_part(id, u)
    /\ pc' = [pc EXCEPT ![u] = "receiving"]
    /\ to' = [to EXCEPT ![u] = b]
    /\ part_id' = [part_id EXCEPT ![u] = id]
    /\ out' = [out EXCEPT ![u] = part_file(id, u)]
    /\ UNCHANGED <<dbVars, sent, obj, reading, pruneVars, faults>>

\* Mutated form: the stream outlives its scope and is flushed at some later time.
Write_unflushed(u, chunk) ==
    /\ pc[u] \notin {"idle", "failed"}
    /\ Len(data[u]) < MaxBytes
    /\ write(u, chunk)
    /\ UNCHANGED <<dbVars, uploadVars, reading, pruneVars, faults>>

\* A chunk arrives and is appended, to wherever the open handle leads.
Write(u, chunk) ==
    /\ pc[u] = "receiving"
    /\ Len(data[out[u]]) < MaxBytes
    /\ write(out[u], chunk)
    /\ UNCHANGED <<dbVars, uploadVars, reading, pruneVars, faults>>

\* The request's body is complete, or its connection ends first and the
\* handler is unwound.  Either way the part is closed and stays in parts/.
EndStream(u) ==
    /\ pc[u] = "receiving"
    /\ \E next \in {"received", "failed"} : pc' = [pc EXCEPT ![u] = next]
    /\ out' = [out EXCEPT ![u] = Null]
    /\ UNCHANGED <<dbVars, fsVars, to, part_id, sent, obj, reading, pruneVars, faults>>

\* commit_part has its connection: it reads the part, in one go, into the
\* arguments of add_object; a part that is gone makes it throw.
ReadPart(u) ==
    /\ pc[u] = "received"
    /\ LET file == parts_dir[part_id[u]] IN
          \/ /\ file # Null
             /\ sent' = [sent EXCEPT ![u] = describe(data[file])]
             /\ pc' = [pc EXCEPT ![u] = "adding"]
          \/ /\ file = Null
             /\ pc' = [pc EXCEPT ![u] = "failed"]
             /\ UNCHANGED sent
    /\ UNCHANGED <<dbVars, fsVars, to, part_id, out, obj, reading, pruneVars, faults>>

\* The database commits the call.
AddObject(u) ==
    /\ pc[u] = "adding"
    /\ \E id \in ObjectIds :
          /\ add_object(to[u], part_id[u], sent[u], id)
          /\ obj' = [obj EXCEPT ![u] = id]
    /\ pc' = [pc EXCEPT ![u] = "added"]
    /\ UNCHANGED <<fsVars, to, part_id, out, sent, reading, pruneVars, faults>>

\* The database rejects the call.  It also does when a running prune deletes
\* the row with this hash after the insertion lost to it and before the
\* reference is inserted.
LostToPrune(u) ==
    prune_pc = "deleting" /\ \E o \in orphans \intersect Objects : object[o].hash = sent[u].hash

RejectObject(u) ==
    /\ pc[u] = "adding"
    /\ AddRejected(to[u], part_id[u], sent[u]) \/ LostToPrune(u)
    /\ pc' = [pc EXCEPT ![u] = "failed"]
    /\ UNCHANGED <<dbVars, fsVars, to, part_id, out, sent, obj, reading, pruneVars, faults>>

\* Mutated form: the part is removed whatever id was answered.
RemovePart_always(u) ==
    /\ pc[u] = "added"
    /\ remove_part(part_id[u])
    /\ pc' = [pc EXCEPT ![u] = "done"]
    /\ UNCHANGED <<dbVars, to, part_id, out, sent, obj, reading, pruneVars, faults>>

\* "This object was uploaded previously": another id was answered, and the
\* part is redundant.  Otherwise the part becomes the object's file.
RemovePart(u) ==
    /\ pc[u] = "added" /\ obj[u] # part_id[u]
    /\ remove_part(part_id[u])
    /\ pc' = [pc EXCEPT ![u] = "done"]
    /\ UNCHANGED <<dbVars, to, part_id, out, sent, obj, reading, pruneVars, faults>>

MakeObject(u) ==
    /\ pc[u] = "added" /\ obj[u] = part_id[u]
    /\ make_object(part_id[u])
    /\ pc' = [pc EXCEPT ![u] = "done"]
    /\ UNCHANGED <<dbVars, to, part_id, out, sent, obj, reading, pruneVars, faults>>

RenameFails(u) ==
    /\ pc[u] = "added" /\ obj[u] = part_id[u]
    /\ parts_dir[part_id[u]] = Null
    /\ pc' = [pc EXCEPT ![u] = "failed"]
    /\ UNCHANGED <<dbVars, fsVars, to, part_id, out, sent, obj, reading, pruneVars, faults>>

Upload(u) ==
    \/ \E b \in BucketIds, id \in ObjectIds : Begin(u, b, id)
    \/ \E chunk \in Chunks : Write(u, chunk)
    \/ EndStream(u)
    \/ ReadPart(u)
    \/ AddObject(u)
    \/ RejectObject(u)
    \/ RemovePart(u)
    \/ MakeObject(u)
    \/ RenameFails(u)

-----------------------------------------------------------------------------
(* Downloading: get_object of both routers                                 *)

\* The metadata is fetched and the connection given back.
Locate(r, b, o) ==
    /\ reading[r] = Null
    /\ ~NotFound(b, o)
    /\ reading' = [reading EXCEPT ![r] = [id |-> o, row |-> get_object(b, o), fd |-> Null]]
    /\ UNCHANGED <<dbVars, fsVars, uploadVars, pruneVars, faults>>

\* Only then is the file opened, and the request fails if it is not there.
Open(r) ==
    /\ reading[r] # Null /\ reading[r].fd = Null
    /\ LET file == object_dir[reading[r].id] IN
          reading' = [reading EXCEPT ![r] = IF file = Null THEN Null ELSE [@ EXCEPT !.fd = file]]
    /\ UNCHANGED <<dbVars, fsVars, uploadVars, pruneVars, faults>>

\* The response is written: as many bytes of the file as the row says.
Respond(r) ==
    /\ reading[r] # Null /\ reading[r].fd # Null
    /\ reading' = [reading EXCEPT ![r] = Null]
    /\ UNCHANGED <<dbVars, fsVars, uploadVars, pruneVars, faults>>

Reader(r) ==
    \/ \E b \in BucketIds, o \in ObjectIds : Locate(r, b, o)
    \/ Open(r)
    \/ Respond(r)

-----------------------------------------------------------------------------
(* Removing                                                                *)

\* DELETE /object/:bucket/:object, and the same request over a socket.
RemoveObject(b, o) ==
    /\ remove_object(b, o)
    /\ UNCHANGED <<fsVars, uploadVars, reading, pruneVars, faults>>

\* DELETE /object/:bucket, with the ids one to a line; lines may be blank and
\* ids repeated.
RemoveObjects(b, objects) ==
    /\ remove_objects(b, objects)
    /\ UNCHANGED <<fsVars, uploadVars, reading, pruneVars, faults>>

\* Only `fstore bucket remove` drops a bucket.
RemoveBucket(b) ==
    /\ remove_bucket(b)
    /\ UNCHANGED <<fsVars, uploadVars, reading, pruneVars, faults>>

Remove ==
    \/ \E b \in BucketIds, o \in ObjectIds : RemoveObject(b, o)
    \/ \E b \in BucketIds, objects \in SUBSET ObjectIds : RemoveObjects(b, objects)
    \/ \E b \in BucketIds : RemoveBucket(b)

-----------------------------------------------------------------------------
(* fstore prune                                                            *)

PruneScan ==
    /\ Pruning /\ prune_pc = "idle"
    /\ prune_pc' = "deleting"
    /\ orphans' = orphans_of_snapshot
    /\ UNCHANGED <<dbVars, fsVars, uploadVars, reading, faults>>

\* The deletion commits and answers the rows it deleted.
PruneDelete ==
    /\ prune_pc = "deleting"
    /\ delete_objects(orphans)
    /\ orphans' = orphans \intersect Objects
    /\ prune_pc' = "removing"
    /\ UNCHANGED <<fsVars, uploadVars, reading, faults>>

\* Mutated form: the object stays on the list.
PruneRemove_again(o) ==
    /\ prune_pc = "removing" /\ o \in orphans
    /\ remove(o)
    /\ UNCHANGED <<dbVars, uploadVars, reading, pruneVars, faults>>

\* The file of one deleted object is removed, if there is one.
PruneRemove(o) ==
    /\ prune_pc = "removing" /\ o \in orphans
    /\ remove(o)
    /\ orphans' = orphans \ {o}
    /\ UNCHANGED <<dbVars, uploadVars, reading, prune_pc, faults>>

PruneEnd ==
    /\ prune_pc = "removing" /\ orphans = {}
    /\ prune_pc' = "idle"
    /\ UNCHANGED <<dbVars, fsVars, uploadVars, reading, orphans, faults>>

Prune ==
    \/ PruneScan
    \/ PruneDelete
    \/ \E o \in ObjectIds : PruneRemove(o)
    \/ PruneEnd

-----------------------------------------------------------------------------
(* Failures                                                                *)

\* A call of commit_part throws: no connection, a query whose reply is lost
\* after the database committed it (pc "added"), a rename that is refused.
\* Nothing cleans up after it.
CallFails(u) ==
    /\ pc[u] \in {"received", "adding", "added"}
    /\ pc' = [pc EXCEPT ![u] = "failed"]
    /\ UNCHANGED <<dbVars, fsVars, to, part_id, out, sent, obj, reading, pruneVars>>

\* The server process is killed and started again.
Crash ==
    /\ pc' = [u \in Uploads |-> IF pc[u] \in Active THEN "failed" ELSE pc[u]]
    /\ out' = [u \in Uploads |-> Null]
    /\ reading' = [r \in Readers |-> Null]
    /\ UNCHANGED <<dbVars, fsVars, to, part_id, sent, obj, pruneVars>>

\* The prune process is killed, or throws at a file it may not remove.
PruneDies ==
    /\ prune_pc # "idle"
    /\ prune_pc' = "idle"
    /\ orphans' = {}
    /\ UNCHANGED <<dbVars, fsVars, uploadVars, reading>>

Fault ==
    /\ faults < MaxFaults
    /\ faults' = faults + 1
    /\ \/ \E u \in Uploads : CallFails(u)
       \/ Crash
       \/ PruneDies

-----------------------------------------------------------------------------
Next ==
    \/ \E u \in Uploads : Upload(u)
    \/ \E r \in Readers : Reader(r)
    \/ Remove
    \/ Prune
    \/ Fault

Spec == Init /\ [][Next]_vars

-----------------------------------------------------------------------------
(* What is true of the store at every step                                 *)

FileHas(file, row) == file # Null /\ sha256sum(data[file]) = row.hash

\* object.hash is the "SHA256 checksum of the object's contents" (data.sql): a
\* file in objects/ has the contents its row was made from, whatever is
\* uploaded, dropped, retried or pruned around it.
HashMatchesContents ==
    \A o \in Objects : object_dir[o] # Null => FileHas(object_dir[o], object[o])

\* A row that is committed never loses its contents: until prune deletes the
\* row, they are the object's file, or at worst a part that was not renamed.
\* In particular the redundant part of a second upload of the same contents is
\* removed (commit_part) only while another copy exists.
ContentOnDisk ==
    \A o \in Objects : FileHas(object_dir[o], object[o]) \/ FileHas(parts_dir[o], object[o])

\* A download answers with contents that hash to the metadata it was located
\* by, although the file is opened later, when the object may have been removed
\* from its bucket, pruned, or uploaded again.
ServedIsAsked ==
    \A r \in Readers : (reading[r] # Null /\ reading[r].fd # Null) =>
        LET got == reading[r].row
        IN  sha256sum(firstBytes(data[reading[r].fd], got.size)) = got.hash

\* An upload that was answered leaves nothing in parts/.
AnswerLeavesNoPart ==
    \A u \in Uploads : pc[u] = "done" => parts_dir[part_id[u]] = Null

\* The object an upload is answered with is, while it exists, one with the
\* contents the handler read, even if the answer is another upload's row.
AnswerNamesContent ==
    \A u \in Uploads : (obj[u] # Null /\ object[obj[u]] # Null) => object[obj[u]].hash = sent[u].hash

\* Some upload is between the database's answer and the rename of its part.
BeingPlaced(o) == \E u \in Uploads : pc[u] = "added" /\ part_id[u] = o /\ obj[u] = o

-----------------------------------------------------------------------------
(* What no step may do                                                     *)

\* Objects are immutable: the file behind an object id keeps its contents and
\* is never replaced by other contents, also when its part is resumed.
ObjectsNeverChange ==
    [][\A o \in ObjectIds : (object_dir[o] # Null /\ object_dir'[o] # Null) =>
          data'[object_dir'[o]] = data[object_dir[o]]]_vars

\* "This object was uploaded previously" (commit_part): an upload gives up its
\* own copy only for an object that is stored or about to be.
UploadedPreviously ==
    [][\A u \in Uploads :
          (pc[u] = "added" /\ pc'[u] = "done" /\ obj[u] # part_id[u] /\ obj[u] \in Objects)
             => object_dir[obj[u]] # Null \/ BeingPlaced(obj[u])]_vars

\* prune is to "remove any objects not referenced by a bucket": a row that goes
\* is not referenced when it goes.
PruneSparesReferenced ==
    [][\A o \in Objects : object'[o] = Null => reference_count(o) = 0]_vars

-----------------------------------------------------------------------------
(* What happens eventually, while nothing fails                            *)

\* The event loop resumes every handler whose result is there, the database
\* answers every call, and a running prune is not suspended.  Nothing is assumed
\* of clients: a body may never be complete, a removal never requested.
Fairness ==
    /\ \A u \in Uploads :
          /\ WF_vars(ReadPart(u))
          /\ WF_vars(AddObject(u) \/ RejectObject(u))
          /\ WF_vars(RemovePart(u) \/ MakeObject(u) \/ RenameFails(u))
    /\ \A r \in Readers : WF_vars(Open(r) \/ Respond(r))
    /\ WF_vars(PruneDelete)
    /\ \A o \in ObjectIds : WF_vars(PruneRemove(o))
    /\ WF_vars(PruneEnd)

FairSpec == Spec /\ Fairness

\* Every upload whose body arrived is answered.
UploadAnswered == \A u \in Uploads : pc[u] = "received" ~> pc[u] \in Closed

\* Two uploads named the same part, one after the other or at once.
Shared(id) == \E u, v \in Uploads : u # v /\ part_id[u] = id /\ part_id[v] = id

\* An answered upload can be downloaded from its bucket at last, also when the
\* answer named an object whose own upload had yet to rename its part.  Only of a
\* part that several uploads named, the last may find nothing to rename.
AnsweredIsServed ==
    \A u \in Uploads : pc[u] = "done" ~>
        (<<to[u], obj[u]>> \in bucket_object => object_dir[obj[u]] # Null \/ Shared(obj[u]))

\* prune ends, and removes the file of each object whose row it deleted: a moment
\* comes, from the deletion on, when there is none.  An upload whose row was among
\* them may still put its part there afterwards; nothing in the code prevents that.
PruneEnds ==
    /\ (prune_pc # "idle") ~> (prune_pc = "idle")
    /\ \A o \in ObjectIds :
          (prune_pc = "removing" /\ o \in orphans) ~> (object_dir[o] = Null)
=============================================================================
