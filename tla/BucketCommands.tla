--------------------------- MODULE BucketCommands ---------------------------
(***************************************************************************)
(* `fstore bucket add`, `remove` and `rename`, and `fstore status`:        *)
(* processes of their own that look buckets up, and then change one by its *)
(* id or sum all of them up, one database call after the other and in no   *)
(* transaction, while the server works on the same tables.                 *)
(***************************************************************************)
EXTENDS Database

CONSTANTS
    Commands,   \* invocations of `fstore bucket ...` and `fstore status`
    Padded,     \* whether names are typed with whitespace around them
    MaxBytes    \* bound: the size of the largest contents uploaded

ASSUME CommandConstants == Padded \subseteq BOOLEAN /\ MaxBytes \in Nat

VARIABLES
    pc,
    typed,      \* the command's kind and names, as typed
    found,      \* the id the first look-up answered
    answer,     \* the bucket the command reports
    table,      \* the rows status has printed
    drawn,      \* the ids gen_random_uuid has returned
    \* History, for the properties.
    changed,    \* whether the command changed a bucket
    raced       \* whether others changed what it was working on

commandVars == <<pc, typed, found, answer, table>>
historyVars == <<changed, raced>>
vars == <<dbVars, commandVars, drawn, historyVars>>

\* A name as typed: one of Names or nothing but whitespace, and perhaps padded.
TypedNames == [name : Names \union {Null}, padded : Padded]

\* What is typed; `status` may be given no name, and takes all buckets with -v.
Request == [kind : {"add", "remove", "rename", "status", "status -v"},
            name : TypedNames, new : TypedNames]

\* Every variable keeps its range, and every bucket has an id that was drawn.
CommandTypeOK ==
    /\ DbTypeOK
    /\ pc \in [Commands -> {"idle", "started", "found", "updated", "listed", "done", "failed"}]
    /\ typed \in [Commands -> Request \union {Null}]
    /\ found \in [Commands -> BucketIds \union {Null}]
    /\ answer \in [Commands -> BucketIds \union {Null}]
    /\ \A c \in Commands : table[c] # Null => DOMAIN table[c] \subseteq BucketIds
    /\ drawn \subseteq BucketIds /\ Buckets \subseteq drawn
    /\ changed \in [Commands -> BOOLEAN] /\ raced \in [Commands -> BOOLEAN]

\* A schema with some buckets, of different names, and no objects yet.
Init ==
    /\ bucket \in [BucketIds -> Names \union {Null}]
    /\ \A b, c \in Buckets : bucket[b] = bucket[c] => b = c
    /\ object = [o \in ObjectIds |-> Null]
    /\ bucket_object = {}
    /\ object_error = {}
    /\ pc = [c \in Commands |-> "idle"]
    /\ typed = [c \in Commands |-> Null]
    /\ found = [c \in Commands |-> Null]
    /\ answer = [c \in Commands |-> Null]
    /\ table = [c \in Commands |-> Null]
    /\ drawn = Buckets
    /\ changed = [c \in Commands |-> FALSE]
    /\ raced = [c \in Commands |-> FALSE]

-----------------------------------------------------------------------------
\* process_bucket_name: what is stored of a name, unless that is nothing.
process_bucket_name(name) == name.name
Blank(name) == name.name = Null

\* fetch_bucket compares the name as typed, and stored names are trimmed.
fetch_bucket(name) == {b \in Buckets : bucket[b] = name.name /\ ~name.padded}

fetch_buckets_all == [b \in Listed |-> bucket_view(b)]

\* c changes bucket b: everyone else at work on b is raced.
Changes(c, b) ==
    /\ changed' = [changed EXCEPT ![c] = TRUE]
    /\ raced' = [d \in Commands |->
                    \/ raced[d]
                    \/ d # c /\ found[d] = b /\ pc[d] \in {"found", "updated"}
                    \/ pc[d] = "listed"]

Ends(c, pc_, b) ==
    /\ pc' = [pc EXCEPT ![c] = pc_]
    /\ answer' = [answer EXCEPT ![c] = b]
    /\ UNCHANGED table

Fails(c) == Ends(c, "failed", Null) /\ UNCHANGED <<dbVars, typed, found, drawn, historyVars>>

Start(c) ==
    /\ pc[c] = "idle"
    /\ \E request \in Request :
          /\ request.kind # "rename" => request.new = request.name
          /\ request.kind = "status -v" => Blank(request.name)
          /\ typed' = [typed EXCEPT ![c] = request]
    /\ pc' = [pc EXCEPT ![c] = "started"]
    /\ UNCHANGED <<dbVars, found, answer, table, drawn, historyVars>>

\* add is one call, unless the name is blank or taken.
Add(c) ==
    /\ pc[c] = "started" /\ typed[c].kind = "add"
    /\ LET name == process_bucket_name(typed[c].name) IN
          \/ /\ ~Blank(typed[c].name)
             /\ \E b \in BucketIds \ drawn :
                   /\ create_bucket(b, name)
                   /\ drawn' = drawn \union {b}
                   /\ found' = [found EXCEPT ![c] = b]
                   /\ Changes(c, b)
                   /\ Ends(c, "done", b)
             /\ UNCHANGED typed
          \/ Blank(typed[c].name) /\ Fails(c)
          \/ NameTaken(name) /\ Fails(c)

\* The first call of remove and rename: the bucket of that name, if any.
Find(c) ==
    /\ pc[c] = "started" /\ typed[c].kind \in {"remove", "rename"}
    /\ \/ \E b \in fetch_bucket(typed[c].name) :
             /\ found' = [found EXCEPT ![c] = b]
             /\ pc' = [pc EXCEPT ![c] = "found"]
             /\ UNCHANGED <<dbVars, typed, answer, table, drawn, historyVars>>
       \/ fetch_bucket(typed[c].name) = {} /\ Fails(c)

\* A bucket that is gone by now is as good as removed.
Remove(c) ==
    /\ pc[c] = "found" /\ typed[c].kind = "remove"
    /\ remove_bucket(found[c])
    /\ IF found[c] \in Buckets THEN Changes(c, found[c]) ELSE UNCHANGED historyVars
    /\ Ends(c, "done", found[c])
    /\ UNCHANGED <<typed, found, drawn>>

Rename(c) ==
    /\ pc[c] = "found" /\ typed[c].kind = "rename"
    /\ LET name == process_bucket_name(typed[c].new) IN
          \/ /\ ~Blank(typed[c].new)
             /\ rename_bucket(found[c], name)
             /\ IF found[c] \in Buckets THEN Changes(c, found[c]) ELSE UNCHANGED historyVars
             /\ pc' = [pc EXCEPT ![c] = "updated"]
             /\ UNCHANGED <<typed, found, answer, table, drawn>>
          \/ Blank(typed[c].new) /\ Fails(c)
          \/ ~Blank(typed[c].new) /\ RenameRejected(found[c], name) /\ Fails(c)

\* Mutated form: the old name is looked up again.
Report_old(c) ==
    /\ pc[c] = "updated"
    /\ \/ \E b \in fetch_bucket(typed[c].name) : Ends(c, "done", b)
       \/ fetch_bucket(typed[c].name) = {} /\ Ends(c, "failed", Null)
    /\ UNCHANGED <<dbVars, typed, found, drawn, historyVars>>

\* The last call of rename looks the new name up, to report the bucket.
Report(c) ==
    /\ pc[c] = "updated"
    /\ \/ \E b \in fetch_bucket(typed[c].new) : Ends(c, "done", b)
       \/ fetch_bucket(typed[c].new) = {} /\ Ends(c, "failed", Null)
    /\ UNCHANGED <<dbVars, typed, found, drawn, historyVars>>

\* status prints the buckets it is asked for, and is done if they were named ...
ListNamed(c) ==
    /\ pc[c] = "started" /\ typed[c].kind = "status" /\ ~Blank(typed[c].name)
    /\ pc' = [pc EXCEPT ![c] = "done"]
    /\ UNCHANGED <<dbVars, typed, found, answer, table, drawn, historyVars>>

\* ... and otherwise prints all of them or none, and reads the totals next.
List(c) ==
    /\ pc[c] = "started"
    /\ \/ /\ typed[c].kind = "status" /\ Blank(typed[c].name)
          /\ table' = [table EXCEPT ![c] = <<>>]
       \/ /\ typed[c].kind = "status -v"
          /\ table' = [table EXCEPT ![c] = fetch_buckets_all]
    /\ pc' = [pc EXCEPT ![c] = "listed"]
    /\ UNCHANGED <<dbVars, typed, found, answer, drawn, historyVars>>

Totals(c) ==
    /\ pc[c] = "listed"
    /\ pc' = [pc EXCEPT ![c] = "done"]
    /\ table' = [table EXCEPT ![c] = Null]
    /\ UNCHANGED <<dbVars, typed, found, answer, drawn, historyVars>>

Command(c) ==
    \/ Start(c) \/ Add(c) \/ Find(c) \/ Remove(c) \/ Rename(c) \/ Report(c)
    \/ ListNamed(c) \/ List(c) \/ Totals(c)

\* The server and the other commands, on the objects.
Others ==
    /\ ObjectCalls(RowsUpTo(MaxBytes))
    /\ raced' = [d \in Commands |-> raced[d] \/ pc[d] = "listed"]
    /\ UNCHANGED <<commandVars, drawn, changed>>

Next == (\E c \in Commands : Command(c)) \/ Others

Spec == Init /\ [][Next]_vars

-----------------------------------------------------------------------------
(* Properties                                                              *)

Changing(c) == typed[c] # Null /\ typed[c].kind \in {"add", "remove", "rename"}

\* What a command prints is what it did, unless another one changed the very
\* bucket it was working on: "bucket removed" and "renamed to" are said of the
\* bucket that was found by the old name and changed, a failure of none.  In
\* particular commands that race for one name, or work on other buckets, never
\* make it report the wrong bucket.
TruthfulUnlessRaced ==
    \A c \in Commands : (~raced[c] /\ Changing(c) /\ ~typed[c].new.padded) =>
        /\ pc[c] = "done" => changed[c] /\ answer[c] = found[c]
        /\ pc[c] = "failed" => ~changed[c]

\* A bucket that was removed stays removed: no rename that found it before
\* brings it back, and what it held is not held again under its id.
RemovedForGood ==
    [][\A b \in drawn : bucket[b] = Null =>
          bucket'[b] = Null /\ bucket_contents(b)' = {}]_vars

\* The totals below the table of `status -v` are those of the table, unless the
\* store changed between its two reads: one row for every bucket, and no space
\* that is neither of a listed bucket nor of an orphan.  (Buckets share objects,
\* so the rows may add up to more.)
StatusAddsUp ==
    [][\A c \in Commands : (Totals(c) /\ typed[c].kind = "status -v" /\ ~raced[c]) =>
          /\ fetch_store_totals.buckets = Cardinality(DOMAIN table[c])
          /\ fetch_store_totals.space_used
               <= MapThenSumSet(LAMBDA b : table[c][b].space_used, DOMAIN table[c])
                    + space(orphans_of_snapshot)]_vars

\* A new name with whitespace around it is trimmed and accepted
\* (RenameBucketNameTrimmed): a rename that took effect is not an error.
TrimmedNamesAccepted ==
    \A c \in Commands : changed[c] /\ typed[c].kind = "rename" => pc[c] # "failed"
=============================================================================
