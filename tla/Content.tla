------------------------------ MODULE Content ------------------------------
(***************************************************************************)
(* Object ids, and the contents of files as far as fstore tells them       *)
(* apart: chunks, their SHA-256 digest, a length.  A digest is taken to be *)
(* collision free, which is what the UNIQUE column `hash` relies on; the   *)
(* MIME type is a function of the contents that nothing branches on and is *)
(* left out.                                                               *)
(***************************************************************************)
EXTENDS Sequences, Naturals

CONSTANTS
    ObjectIds,  \* UUIDs: the ids an object, and the part it is made from, can have
    Chunks,     \* what one write to a part appends
    Null        \* no id, no row, no file

Bytes == Seq(Chunks)

sha256sum(bytes) == [digest |-> bytes]

Digests == [digest : Bytes]

\* A row of data.object, with the columns that depend on the contents.
Row == [hash : Digests, size : Nat]

\* Mutated form: a size that is one short.
describe_short(bytes) == [hash |-> sha256sum(bytes), size |-> Len(bytes) - 1]

\* What commit_part finds out about a part before it calls add_object.
describe(bytes) == [hash |-> sha256sum(bytes), size |-> Len(bytes)]

\* What a response carries: the first `size` bytes of the file behind it.
firstBytes(bytes, size) == SubSeq(bytes, 1, IF size < Len(bytes) THEN size ELSE Len(bytes))

ASSUME NullIsNoRow == Null \notin Row
=============================================================================
