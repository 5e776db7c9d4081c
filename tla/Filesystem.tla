----------------------------- MODULE Filesystem -----------------------------
(***************************************************************************)
(* The directories parts/ and objects/ under the store's home, as          *)
(* fs::filesystem uses them.  A name is an id, what it names is a file     *)
(* (an inode): renaming moves the name, removing drops it, and a handle    *)
(* that is open keeps reaching its file through both.  A file is called    *)
(* after the upload that created it.                                       *)
(***************************************************************************)
EXTENDS Content

CONSTANT Uploads    \* the files, one for each upload that may have to create one

VARIABLES
    parts_dir,  \* parts/<id>: the file it names
    object_dir, \* objects/<xx>/<xx>/<id>: the file it names
    data        \* the contents of each file

fsVars == <<parts_dir, object_dir, data>>

ASSUME NullIsNoFile == Null \notin Uploads

FsTypeOK ==
    /\ parts_dir \in [ObjectIds -> Uploads \union {Null}]
    /\ object_dir \in [ObjectIds -> Uploads \union {Null}]
    /\ data \in [Uploads -> Bytes]

FsInit ==
    /\ parts_dir = [id \in ObjectIds |-> Null]
    /\ object_dir = [id \in ObjectIds |-> Null]
    /\ data = [f \in Uploads |-> <<>>]

\* The file an upload of part `id` writes to: opened for appending, so a part
\* that exists is continued and only a missing one is created (as file `new`).
part_file(id, new) == IF parts_dir[id] = Null THEN new ELSE parts_dir[id]

get_part(id, new) ==
    /\ parts_dir' = [parts_dir EXCEPT ![id] = part_file(id, new)]
    /\ UNCHANGED <<object_dir, data>>

write(f, chunk) ==
    /\ data' = [data EXCEPT ![f] = Append(@, chunk)]
    /\ UNCHANGED <<parts_dir, object_dir>>

\* Mutated form: the part is copied and stays.
make_object_copy(id) ==
    /\ parts_dir[id] # Null
    /\ object_dir' = [object_dir EXCEPT ![id] = parts_dir[id]]
    /\ UNCHANGED <<parts_dir, data>>

\* rename(2) replaces whatever the target named; a missing part is an error.
make_object(id) ==
    /\ parts_dir[id] # Null
    /\ object_dir' = [object_dir EXCEPT ![id] = parts_dir[id]]
    /\ parts_dir' = [parts_dir EXCEPT ![id] = Null]
    /\ UNCHANGED data

\* A part that is not there is only warned about, an object not even that.
remove_part(id) ==
    /\ parts_dir' = [parts_dir EXCEPT ![id] = Null]
    /\ UNCHANGED <<object_dir, data>>

remove(id) ==
    /\ object_dir' = [object_dir EXCEPT ![id] = Null]
    /\ UNCHANGED <<parts_dir, data>>
=============================================================================
