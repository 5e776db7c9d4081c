---------------------------- MODULE BucketProofs ----------------------------
(***************************************************************************)
(* Why the bucket commands report what they did, for any number of them,   *)
(* of buckets and of names: the inductive invariant behind the properties  *)
(* of BucketCommands, and its proof; and that reports, views and totals    *)
(* agree with each other, whatever the store holds.                        *)
(***************************************************************************)
EXTENDS BucketCommands, DatabaseProofs

\* A command's next call is one of its kind.
InKind ==
    \A c \in Commands :
        /\ pc[c] # "idle" => typed[c] \in Request
        /\ pc[c] = "found" => typed[c].kind \in {"remove", "rename"}
        /\ pc[c] = "updated" => typed[c].kind = "rename" /\ typed[c].new.name \in Names
        /\ pc[c] = "listed" => typed[c].kind \in {"status", "status -v"}
        /\ pc[c] \in {"found", "updated"} => found[c] \in BucketIds

\* Unless it is raced, the bucket a command found is there, and after a rename
\* has the name the last call looks up.
FoundIsThere ==
    \A c \in Commands : ~raced[c] =>
        /\ pc[c] = "found" => found[c] \in Buckets
        /\ pc[c] = "updated" => changed[c] /\ bucket[found[c]] = typed[c].new.name

\* A command changes one bucket once.
ChangesOnce ==
    \A c \in Commands : pc[c] \in {"idle", "started", "found"} => ~changed[c]

CommandInv ==
    /\ CommandTypeOK
    /\ DOMAIN table = Commands
    /\ Constraints
    /\ InKind
    /\ FoundIsThere
    /\ ChangesOnce
    /\ TruthfulUnlessRaced

USE DEF vars, dbVars, commandVars, historyVars

-----------------------------------------------------------------------------
(* The database                                                            *)

\* What a step does to the tables is one of the calls of the database, or nothing.
LEMMA TablesNext ==
    ASSUME CommandTypeOK, Constraints, InKind, [Next]_vars
    PROVE  DbTypeOK' /\ Constraints'
<1>1. CASE UNCHANGED dbVars
  BY <1>1 DEF CommandTypeOK, DbTypeOK, Constraints, Buckets, Objects
<1>2. ASSUME NEW c \in Commands, Add(c) PROVE DbTypeOK' /\ Constraints'
  <2>1. typed[c] \in Request
    BY <1>2 DEF Add, InKind
  <2>2. CASE UNCHANGED dbVars
    BY <1>1, <2>2
  <2>3. CASE ~UNCHANGED dbVars
    <3>1. /\ ~Blank(typed[c].name)
          /\ \E b \in BucketIds : create_bucket(b, typed[c].name.name)
      BY <1>2, <2>3 DEF Add, Fails, process_bucket_name
    <3>2. typed[c].name.name \in Names
      BY <2>1, <3>1 DEF Request, TypedNames, Blank
    <3>. QED  BY <3>1, <3>2, BucketNameType, BucketNameConstraints DEF CommandTypeOK
  <2>. QED  BY <2>2, <2>3
<1>3. ASSUME NEW c \in Commands, Rename(c) PROVE DbTypeOK' /\ Constraints'
  <2>1. typed[c] \in Request /\ found[c] \in BucketIds
    BY <1>3 DEF Rename, InKind
  <2>2. CASE UNCHANGED dbVars
    BY <1>1, <2>2
  <2>3. CASE ~UNCHANGED dbVars
    <3>1. ~Blank(typed[c].new) /\ rename_bucket(found[c], typed[c].new.name)
      BY <1>3, <2>3 DEF Rename, Fails, process_bucket_name
    <3>2. typed[c].new.name \in Names
      BY <2>1, <3>1 DEF Request, TypedNames, Blank
    <3>. QED  BY <2>1, <3>1, <3>2, BucketNameType, BucketNameConstraints DEF CommandTypeOK
  <2>. QED  BY <2>2, <2>3
<1>4. ASSUME NEW c \in Commands, Remove(c) PROVE DbTypeOK' /\ Constraints'
  <2>1. found[c] \in BucketIds
    BY <1>4 DEF Remove, InKind
  <2>. QED  BY <1>4, <2>1, RemoveBucketType, RemoveBucketConstraints DEF Remove, CommandTypeOK
<1>5. CASE Others
  BY <1>5, ObjectCallsKeep, CommandConstants DEF Others, CommandTypeOK
<1>6. ASSUME NEW c \in Commands, Command(c) PROVE UNCHANGED dbVars \/ Add(c) \/ Rename(c) \/ Remove(c)
  BY <1>6 DEF Command, Start, Find, Report, ListNamed, List, Totals, Fails
<1>. QED  BY <1>1, <1>2, <1>3, <1>4, <1>5, <1>6 DEF Next

\* Only the commands change buckets, and only one of them at a time.
LEMMA OthersKeepBuckets ==
    ASSUME Others PROVE UNCHANGED bucket
  BY DEF Others, ObjectCalls, add_object, remove_object, remove_objects, delete_objects,
         update_object_errors

-----------------------------------------------------------------------------
(* The commands                                                            *)

\* Every step keeps the ranges, and draws the ids of new buckets once.
LEMMA TypeNext ==
    ASSUME CommandTypeOK, DOMAIN table = Commands, Constraints, InKind, [Next]_vars
    PROVE  CommandTypeOK' /\ DOMAIN table' = Commands
<1>. DEFINE Local ==
       /\ pc \in [Commands -> {"idle", "started", "found", "updated", "listed", "done", "failed"}]
       /\ typed \in [Commands -> Request \union {Null}]
       /\ found \in [Commands -> BucketIds \union {Null}]
       /\ answer \in [Commands -> BucketIds \union {Null}]
     History == changed \in [Commands -> BOOLEAN] /\ raced \in [Commands -> BOOLEAN]
     Tables ==
       /\ DOMAIN table = Commands
       /\ \A c \in Commands : table[c] # Null => DOMAIN table[c] \subseteq BucketIds
     Drawn == drawn \subseteq BucketIds /\ Buckets \subseteq drawn
<1>1. DbTypeOK'
  BY TablesNext
<1>2. Local'
  <2>. USE DEF CommandTypeOK, Fails, Ends
  <2>1. ASSUME NEW c \in Commands, Start(c) PROVE Local'
    BY <2>1, ZenonT(60) DEF Start
  <2>2. ASSUME NEW c \in Commands, Add(c) PROVE Local'
    BY <2>2 DEF Add
  <2>3. ASSUME NEW c \in Commands, Find(c) PROVE Local'
    <3>1. fetch_bucket(typed[c].name) \subseteq BucketIds
      BY DEF fetch_bucket, Buckets
    <3>. QED  BY <2>3, <3>1 DEF Find
  <2>4. ASSUME NEW c \in Commands, Remove(c) \/ Rename(c) PROVE Local'
    BY <2>4 DEF Remove, Rename
  <2>5. ASSUME NEW c \in Commands, Report(c) PROVE Local'
    <3>1. fetch_bucket(typed[c].new) \subseteq BucketIds
      BY DEF fetch_bucket, Buckets
    <3>. QED  BY <2>5, <3>1 DEF Report
  <2>6. ASSUME NEW c \in Commands, ListNamed(c) \/ List(c) \/ Totals(c) PROVE Local'
    BY <2>6 DEF ListNamed, List, Totals
  <2>7. CASE Others
    BY <2>7 DEF Others
  <2>8. CASE UNCHANGED vars
    BY <2>8
  <2>. QED  BY <2>1, <2>2, <2>3, <2>4, <2>5, <2>6, <2>7, <2>8 DEF Next, Command
<1>3. Tables'
  <2>1. ASSUME NEW c \in Commands, List(c) PROVE Tables'
    <3>1. DOMAIN fetch_buckets_all \subseteq BucketIds /\ DOMAIN <<>> \subseteq BucketIds
      BY DEF fetch_buckets_all, Listed, Buckets
    <3>. QED  BY <2>1, <3>1 DEF List, CommandTypeOK
  <2>2. ASSUME NEW c \in Commands, Totals(c) PROVE Tables'
    BY <2>2 DEF Totals, CommandTypeOK
  <2>3. ASSUME UNCHANGED table PROVE Tables'
    BY <2>3 DEF CommandTypeOK
  <2>4. ASSUME NEW c \in Commands, Command(c) PROVE UNCHANGED table \/ List(c) \/ Totals(c)
    BY <2>4 DEF Command, Start, Add, Find, Remove, Rename, Report, ListNamed, Fails, Ends
  <2>5. Others => UNCHANGED table
    BY DEF Others
  <2>. QED  BY <2>1, <2>2, <2>3, <2>4, <2>5 DEF Next
<1>4. Drawn'
  <2>. USE DEF CommandTypeOK, Buckets, DbTypeOK
  <2>1. ASSUME NEW c \in Commands, Add(c) PROVE Drawn'
    BY <2>1 DEF Add, create_bucket, Fails
  <2>2. ASSUME NEW c \in Commands, Remove(c) PROVE Drawn'
    BY <2>2 DEF Remove, remove_bucket
  <2>3. ASSUME NEW c \in Commands, Rename(c) PROVE Drawn'
    BY <2>3 DEF Rename, rename_bucket, Fails
  <2>4. ASSUME UNCHANGED <<bucket, drawn>> PROVE Drawn'
    BY <2>4
  <2>5. ASSUME NEW c \in Commands, Command(c)
        PROVE  UNCHANGED <<bucket, drawn>> \/ Add(c) \/ Remove(c) \/ Rename(c)
    BY <2>5 DEF Command, Start, Find, Report, ListNamed, List, Totals, Fails
  <2>6. Others => UNCHANGED <<bucket, drawn>>
    BY OthersKeepBuckets DEF Others
  <2>. QED  BY <2>1, <2>2, <2>3, <2>4, <2>5, <2>6 DEF Next
<1>5. History'
  <2>1. ASSUME NEW c \in Commands, NEW b, Changes(c, b) PROVE History'
    BY <2>1 DEF Changes, CommandTypeOK
  <2>2. CASE Others
    BY <2>2 DEF Others, CommandTypeOK
  <2>3. ASSUME UNCHANGED historyVars PROVE History'
    BY <2>3 DEF CommandTypeOK
  <2>4. ASSUME NEW c \in Commands, Command(c) PROVE UNCHANGED historyVars \/ \E b : Changes(c, b)
    BY <2>4 DEF Command, Start, Add, Find, Remove, Rename, Report, ListNamed, List, Totals, Fails
  <2>. QED  BY <2>1, <2>2, <2>3, <2>4 DEF Next
<1>. QED  BY <1>1, <1>2, <1>3, <1>4, <1>5 DEF CommandTypeOK

\* A command goes on with a call of its kind only.
LEMMA InKindNext ==
    ASSUME CommandTypeOK, InKind, [Next]_vars PROVE InKind'
<1>. USE DEF CommandTypeOK, InKind, Fails, Ends
<1>1. ASSUME NEW c \in Commands, Start(c) PROVE InKind'
  BY <1>1 DEF Start
<1>2. ASSUME NEW c \in Commands, Add(c) PROVE InKind'
  BY <1>2 DEF Add
<1>3. ASSUME NEW c \in Commands, Find(c) PROVE InKind'
  <2>1. fetch_bucket(typed[c].name) \subseteq BucketIds
    BY DEF fetch_bucket, Buckets
  <2>. QED  BY <1>3, <2>1, ZenonT(60) DEF Find
<1>4. ASSUME NEW c \in Commands, Remove(c) PROVE InKind'
  BY <1>4 DEF Remove
<1>5. ASSUME NEW c \in Commands, Rename(c) PROVE InKind'
  <2>1. typed[c].new.name \in Names \/ Blank(typed[c].new)
    BY <1>5 DEF Rename, Blank, Request, TypedNames
  <2>. QED  BY <1>5, <2>1 DEF Rename
<1>6. ASSUME NEW c \in Commands, Report(c) PROVE InKind'
  BY <1>6 DEF Report
<1>7. ASSUME NEW c \in Commands, ListNamed(c) \/ List(c) \/ Totals(c) PROVE InKind'
  BY <1>7 DEF ListNamed, List, Totals
<1>8. CASE Others
  BY <1>8 DEF Others
<1>9. CASE UNCHANGED vars
  BY <1>9
<1>. QED  BY <1>1, <1>2, <1>3, <1>4, <1>5, <1>6, <1>7, <1>8, <1>9 DEF Next, Command

-----------------------------------------------------------------------------
(* Commands that race                                                      *)

\* Who is not raced by a change was not at work on the bucket.
LEMMA Unraced ==
    ASSUME CommandTypeOK, NEW c \in Commands, NEW b \in BucketIds, Changes(c, b),
           NEW d \in Commands, d # c, ~raced'[d]
    PROVE  /\ ~raced[d] /\ changed'[d] = changed[d]
           /\ pc[d] \in {"found", "updated"} => found[d] # b
  BY DEF Changes, CommandTypeOK

\* A command's own changes do not race it.
LEMMA OwnChange ==
    ASSUME CommandTypeOK, NEW c \in Commands, NEW b \in BucketIds, Changes(c, b), pc[c] # "listed"
    PROVE  changed'[c] /\ (raced'[c] <=> raced[c])
  BY DEF Changes, CommandTypeOK

\* A change of one bucket leaves what the other commands found.
LEMMA FoundStays ==
    ASSUME CommandTypeOK, InKind, FoundIsThere, NEW c \in Commands, NEW b \in BucketIds,
           Changes(c, b), \A a \in BucketIds \ {b} : bucket'[a] = bucket[a],
           \A d \in Commands \ {c} : pc'[d] = pc[d] /\ typed'[d] = typed[d] /\ found'[d] = found[d]
    PROVE  \A d \in Commands \ {c} : ~raced'[d] =>
             /\ pc'[d] = "found" => found'[d] \in Buckets'
             /\ pc'[d] = "updated" => changed'[d] /\ bucket'[found'[d]] = typed'[d].new.name
<1>. SUFFICES ASSUME NEW d \in Commands \ {c}, ~raced'[d]
              PROVE  /\ pc[d] = "found" => found[d] \in Buckets'
                     /\ pc[d] = "updated" => changed'[d] /\ bucket'[found[d]] = typed[d].new.name
  OBVIOUS
<1>1. /\ ~raced[d] /\ changed'[d] = changed[d]
      /\ pc[d] \in {"found", "updated"} => found[d] # b
  BY Unraced
<1>2. pc[d] \in {"found", "updated"} => found[d] \in BucketIds \ {b}
  BY <1>1 DEF InKind
<1>. QED  BY <1>1, <1>2 DEF FoundIsThere, Buckets

\* Only a step that marks a command as raced changes the bucket it found.
LEMMA FoundNext ==
    ASSUME CommandTypeOK, Constraints, InKind, FoundIsThere, ChangesOnce, [Next]_vars
    PROVE  FoundIsThere'
<1>. USE DEF FoundIsThere
<1>1. ASSUME NEW c \in Commands, Start(c) PROVE FoundIsThere'
  BY <1>1 DEF Start, CommandTypeOK, Buckets
<1>2. ASSUME NEW c \in Commands, Add(c) PROVE FoundIsThere'
  <2>1. CASE Fails(c)
    BY <2>1 DEF Fails, Ends, CommandTypeOK, Buckets
  <2>2. ASSUME NEW b \in BucketIds, create_bucket(b, process_bucket_name(typed[c].name)),
               found' = [found EXCEPT ![c] = b], Changes(c, b), Ends(c, "done", b), UNCHANGED typed
        PROVE  FoundIsThere'
    <3>1. \A a \in BucketIds \ {b} : bucket'[a] = bucket[a]
      BY <2>2 DEF create_bucket, CommandTypeOK, DbTypeOK
    <3>2. \A d \in Commands \ {c} : pc'[d] = pc[d] /\ typed'[d] = typed[d] /\ found'[d] = found[d]
      BY <2>2 DEF Ends, CommandTypeOK
    <3>3. pc'[c] = "done"
      BY <2>2 DEF Ends, CommandTypeOK
    <3>. QED  BY <2>2, <3>1, <3>2, <3>3, FoundStays
  <2>. QED  BY <1>2, <2>1, <2>2 DEF Add
<1>3. ASSUME NEW c \in Commands, Find(c) PROVE FoundIsThere'
  <2>1. fetch_bucket(typed[c].name) \subseteq Buckets
    BY DEF fetch_bucket
  <2>. QED  BY <1>3, <2>1 DEF Find, Fails, Ends, CommandTypeOK, Buckets
<1>4. ASSUME NEW c \in Commands, Remove(c) PROVE FoundIsThere'
  <2>1. found[c] \in BucketIds
    BY <1>4 DEF Remove, InKind
  <2>2. \A a \in BucketIds \ {found[c]} : bucket'[a] = bucket[a]
    BY <1>4 DEF Remove, remove_bucket, CommandTypeOK, DbTypeOK
  <2>3. \A d \in Commands \ {c} : pc'[d] = pc[d] /\ typed'[d] = typed[d] /\ found'[d] = found[d]
    BY <1>4 DEF Remove, Ends, CommandTypeOK
  <2>4. pc'[c] = "done"
    BY <1>4 DEF Remove, Ends, CommandTypeOK
  <2>5. CASE found[c] \in Buckets
    BY <1>4, <2>1, <2>2, <2>3, <2>4, <2>5, FoundStays DEF Remove
  <2>6. CASE found[c] \notin Buckets
    <3>1. UNCHANGED historyVars /\ UNCHANGED bucket
      BY <1>4, <2>1, <2>6 DEF Remove, remove_bucket, Buckets, CommandTypeOK, DbTypeOK
    <3>. QED  BY <2>3, <2>4, <3>1 DEF Buckets
  <2>. QED  BY <2>5, <2>6
<1>5. ASSUME NEW c \in Commands, Rename(c) PROVE FoundIsThere'
  <2>1. CASE Fails(c)
    BY <2>1 DEF Fails, Ends, CommandTypeOK, Buckets
  <2>2. CASE ~Fails(c)
    <3>. DEFINE name == typed[c].new.name
    <3>1. /\ found[c] \in BucketIds /\ rename_bucket(found[c], name) /\ pc[c] = "found"
          /\ pc' = [pc EXCEPT ![c] = "updated"] /\ UNCHANGED <<typed, found>>
          /\ IF found[c] \in Buckets THEN Changes(c, found[c]) ELSE UNCHANGED historyVars
      BY <1>5, <2>2 DEF Rename, InKind, process_bucket_name
    <3>2. /\ \A a \in BucketIds \ {found[c]} : bucket'[a] = bucket[a]
          /\ bucket'[found[c]] = IF found[c] \in Buckets THEN name ELSE bucket[found[c]]
      BY <3>1 DEF rename_bucket, Buckets, CommandTypeOK, DbTypeOK
    <3>3. /\ \A d \in Commands \ {c} : pc'[d] = pc[d] /\ typed'[d] = typed[d] /\ found'[d] = found[d]
          /\ pc'[c] = "updated" /\ typed'[c] = typed[c] /\ found'[c] = found[c]
      BY <3>1 DEF CommandTypeOK
    <3>4. CASE found[c] \in Buckets
      BY <3>1, <3>2, <3>3, <3>4, FoundStays, OwnChange
    <3>5. CASE found[c] \notin Buckets
      <4>1. UNCHANGED historyVars /\ UNCHANGED bucket /\ raced[c]
        BY <3>1, <3>5 DEF rename_bucket, Buckets, CommandTypeOK, DbTypeOK
      <4>. QED  BY <3>3, <4>1 DEF Buckets
    <3>. QED  BY <3>4, <3>5
  <2>. QED  BY <2>1, <2>2
<1>6. ASSUME NEW c \in Commands, Report(c) \/ ListNamed(c) \/ List(c) \/ Totals(c) PROVE FoundIsThere'
  <2>1. /\ UNCHANGED <<bucket, found, typed, historyVars>> /\ pc'[c] \in {"done", "failed", "listed"}
        /\ \A d \in Commands \ {c} : pc'[d] = pc[d]
    BY <1>6 DEF Report, ListNamed, List, Totals, Ends, CommandTypeOK
  <2>. QED  BY <2>1 DEF Buckets
<1>7. CASE Others
  <2>1. \A d \in Commands : raced[d] => raced'[d]
    BY <1>7 DEF Others
  <2>. QED  BY <1>7, <2>1, OthersKeepBuckets DEF Others, Buckets
<1>8. CASE UNCHANGED vars
  BY <1>8 DEF Buckets
<1>. QED  BY <1>1, <1>2, <1>3, <1>4, <1>5, <1>6, <1>7, <1>8 DEF Next, Command

\* A command has changed nothing before the call that changes its bucket.
LEMMA ChangesOnceNext ==
    ASSUME CommandTypeOK, InKind, ChangesOnce, [Next]_vars PROVE ChangesOnce'
<1>. USE DEF ChangesOnce
<1>1. ASSUME NEW c \in Commands, NEW b, Changes(c, b), pc'[c] \in {"updated", "done"},
             \A d \in Commands \ {c} : pc'[d] = pc[d]
      PROVE  ChangesOnce'
  BY <1>1 DEF Changes, CommandTypeOK
<1>2. ASSUME NEW c \in Commands, UNCHANGED historyVars,
             pc[c] \in {"idle", "started", "found"} \/ pc'[c] \in {"done", "failed"},
             \A d \in Commands \ {c} : pc'[d] = pc[d]
      PROVE  ChangesOnce'
  BY <1>2
<1>3. ASSUME NEW c \in Commands, Command(c) PROVE \A d \in Commands \ {c} : pc'[d] = pc[d]
  <2>1. \E new : pc' = [pc EXCEPT ![c] = new]
    BY <1>3 DEF Command, Start, Add, Find, Remove, Rename, Report, ListNamed, List, Totals, Fails, Ends
  <2>. QED  BY <2>1 DEF CommandTypeOK
<1>4. ASSUME NEW c \in Commands, Start(c) \/ Find(c) PROVE ChangesOnce'
  <2>1. UNCHANGED historyVars /\ pc[c] \in {"idle", "started"}
    BY <1>4 DEF Start, Find, Fails
  <2>. QED  BY <1>2, <1>3, <1>4, <2>1 DEF Command
<1>5. ASSUME NEW c \in Commands, Report(c) \/ ListNamed(c) \/ Totals(c) \/ Fails(c) PROVE ChangesOnce'
  <2>1. UNCHANGED historyVars /\ pc'[c] \in {"done", "failed"} /\ \A d \in Commands \ {c} : pc'[d] = pc[d]
    BY <1>5 DEF Report, ListNamed, Totals, Fails, Ends, CommandTypeOK
  <2>. QED  BY <1>2, <2>1
<1>6. ASSUME NEW c \in Commands, Add(c) PROVE ChangesOnce'
  <2>1. ASSUME NEW b \in BucketIds, Changes(c, b), Ends(c, "done", b) PROVE ChangesOnce'
    BY <1>1, <1>3, <1>6, <2>1 DEF Command, Ends, CommandTypeOK
  <2>. QED  BY <1>5, <1>6, <2>1 DEF Add
<1>7. ASSUME NEW c \in Commands, Remove(c) PROVE ChangesOnce'
  <2>1. pc'[c] = "done"
    BY <1>7 DEF Remove, Ends, CommandTypeOK
  <2>. QED  BY <1>1, <1>2, <1>3, <1>7, <2>1 DEF Remove, Command
<1>8. ASSUME NEW c \in Commands, Rename(c), ~Fails(c) PROVE ChangesOnce'
  <2>1. pc'[c] = "updated" /\ pc[c] = "found"
    BY <1>8 DEF Rename, CommandTypeOK
  <2>. QED  BY <1>1, <1>2, <1>3, <1>8, <2>1 DEF Rename, Command
<1>9. ASSUME NEW c \in Commands, List(c) PROVE ChangesOnce'
  BY <1>9 DEF List, CommandTypeOK
<1>10. CASE Others
  BY <1>10 DEF Others
<1>11. CASE UNCHANGED vars
  BY <1>11
<1>. QED  BY <1>4, <1>5, <1>6, <1>7, <1>8, <1>9, <1>10, <1>11 DEF Next, Command

\* A command that ends unraced reports the bucket it found and changed, or a failure of none.
LEMMA TruthfulNext ==
    ASSUME CommandInv, CommandTypeOK', [Next]_vars PROVE TruthfulUnlessRaced'
<1>. DEFINE Truthful(c) == (~raced[c] /\ Changing(c) /\ ~typed[c].new.padded) =>
                              /\ pc[c] = "done" => changed[c] /\ answer[c] = found[c]
                              /\ pc[c] = "failed" => ~changed[c]
<1>. USE DEF CommandInv
<1>1. ASSUME NEW d \in Commands, UNCHANGED <<pc[d], typed[d], found[d], answer[d]>>,
             ~raced'[d] => ~raced[d] /\ changed'[d] = changed[d]
      PROVE  Truthful(d)'
  BY <1>1 DEF TruthfulUnlessRaced, Changing
<1>2. ASSUME NEW c \in Commands, NEW d \in Commands \ {c}, Command(c) PROVE Truthful(d)'
  <2>1. UNCHANGED <<pc[d], typed[d], found[d], answer[d]>>
    BY <1>2 DEF Command, Start, Add, Find, Remove, Rename, Report, ListNamed, List, Totals, Fails,
                Ends, CommandTypeOK
  <2>2. UNCHANGED historyVars \/ \E b \in BucketIds : Changes(c, b)
    BY <1>2 DEF Command, Start, Add, Find, Remove, Rename, Report, ListNamed, List, Totals, Fails,
                InKind
  <2>. QED  BY <1>1, <2>1, <2>2, Unraced
<1>3. ASSUME NEW c \in Commands, Start(c) PROVE Truthful(c)'
  BY <1>3 DEF Start, CommandTypeOK
<1>4. ASSUME NEW c \in Commands, Fails(c), pc[c] \in {"started", "found"} PROVE Truthful(c)'
  BY <1>4 DEF Fails, Ends, ChangesOnce, CommandTypeOK
<1>5. ASSUME NEW c \in Commands, Add(c) PROVE Truthful(c)'
  <2>1. ASSUME NEW b \in BucketIds, found' = [found EXCEPT ![c] = b], Changes(c, b), Ends(c, "done", b)
        PROVE  Truthful(c)'
    <3>1. changed'[c] /\ answer'[c] = found'[c] /\ pc'[c] = "done"
      BY <2>1 DEF Changes, Ends, CommandTypeOK
    <3>. QED  BY <3>1
  <2>. QED  BY <1>4, <1>5, <2>1 DEF Add
<1>6. ASSUME NEW c \in Commands, Find(c) PROVE Truthful(c)'
  <2>1. ASSUME pc' = [pc EXCEPT ![c] = "found"] PROVE Truthful(c)'
    BY <2>1 DEF CommandTypeOK
  <2>. QED  BY <1>4, <1>6, <2>1 DEF Find
<1>7. ASSUME NEW c \in Commands, Remove(c) PROVE Truthful(c)'
  <2>1. pc'[c] = "done" /\ answer'[c] = found[c] /\ found'[c] = found[c] /\ found[c] \in BucketIds
    BY <1>7 DEF Remove, Ends, CommandTypeOK, InKind
  <2>2. CASE found[c] \in Buckets
    <3>1. changed'[c]
      BY <1>7, <2>2 DEF Remove, Changes, CommandTypeOK
    <3>. QED  BY <2>1, <3>1
  <2>3. CASE found[c] \notin Buckets
    <3>1. raced[c] /\ UNCHANGED raced
      BY <1>7, <2>3 DEF Remove, FoundIsThere
    <3>. QED  BY <3>1
  <2>. QED  BY <2>2, <2>3
<1>8. ASSUME NEW c \in Commands, Rename(c) PROVE Truthful(c)'
  <2>1. ASSUME pc' = [pc EXCEPT ![c] = "updated"] PROVE Truthful(c)'
    BY <2>1 DEF CommandTypeOK
  <2>. QED  BY <1>4, <1>8, <2>1 DEF Rename
<1>9. ASSUME NEW c \in Commands, Report(c) PROVE Truthful(c)'
  <2>. SUFFICES ASSUME ~raced[c], ~typed[c].new.padded PROVE Truthful(c)'
    BY <1>9 DEF Report
  <2>1. /\ found[c] \in BucketIds /\ changed[c] /\ bucket[found[c]] = typed[c].new.name
        /\ typed[c].new.name # Null
    BY <1>9, NullIsNoId DEF Report, InKind, FoundIsThere
  <2>2. fetch_bucket(typed[c].new) = {found[c]}
    BY <2>1 DEF fetch_bucket, Buckets, Constraints
  <2>3. Ends(c, "done", found[c])
    BY <1>9, <2>2 DEF Report
  <2>. QED  BY <1>9, <2>1, <2>3 DEF Report, Ends, CommandTypeOK
<1>10. ASSUME NEW c \in Commands, ListNamed(c) \/ List(c) \/ Totals(c) PROVE Truthful(c)'
  <2>1. typed[c].kind \in {"status", "status -v"} /\ UNCHANGED typed
    BY <1>10 DEF ListNamed, List, Totals, InKind
  <2>. QED  BY <2>1 DEF Changing
<1>11. ASSUME NEW d \in Commands, Others \/ UNCHANGED vars PROVE Truthful(d)'
  BY <1>1, <1>11 DEF Others
<1>12. ASSUME NEW c \in Commands, Command(c) PROVE Truthful(c)'
  BY <1>3, <1>5, <1>6, <1>7, <1>8, <1>9, <1>10, <1>12 DEF Command
<1>13. \A d \in Commands : Truthful(d)'
  BY <1>2, <1>11, <1>12 DEF Next
<1>. QED  BY <1>13 DEF TruthfulUnlessRaced

-----------------------------------------------------------------------------
(* The properties                                                          *)

\* A new catalogue, with no command run, satisfies the invariant.
LEMMA CommandInit == Init => CommandInv
<1>. SUFFICES ASSUME Init PROVE CommandInv
  OBVIOUS
<1>1. DbTypeOK
  BY DEF Init, DbTypeOK
<1>2. CommandTypeOK
  BY <1>1 DEF Init, CommandTypeOK, Buckets
<1>3. Constraints
  BY DEF Init, Constraints, Buckets, Objects
<1>4. DOMAIN table = Commands /\ InKind /\ FoundIsThere /\ ChangesOnce /\ TruthfulUnlessRaced
  BY DEF Init, InKind, FoundIsThere, ChangesOnce, TruthfulUnlessRaced, Changing
<1>. QED  BY <1>2, <1>3, <1>4 DEF CommandInv

\* Every step keeps the parts of the invariant together.
LEMMA CommandNext == CommandInv /\ [Next]_vars => CommandInv'
<1>. SUFFICES ASSUME CommandInv, [Next]_vars PROVE CommandInv'
  OBVIOUS
<1>1. CommandTypeOK' /\ DOMAIN table' = Commands
  BY TypeNext DEF CommandInv
<1>2. Constraints'
  BY TablesNext DEF CommandInv
<1>3. InKind' /\ FoundIsThere' /\ ChangesOnce'
  BY InKindNext, FoundNext, ChangesOnceNext DEF CommandInv
<1>4. TruthfulUnlessRaced'
  BY <1>1, TruthfulNext
<1>. QED  BY <1>1, <1>2, <1>3, <1>4 DEF CommandInv

\* The parts are true at first, and every step keeps them together.
THEOREM CommandInvariant == Spec => []CommandInv
  BY CommandInit, CommandNext, PTL DEF Spec

\* Every variable of the commands keeps its range; a bucket has an id that was drawn.
THEOREM CommandTypeOKHolds == Spec => []CommandTypeOK
<1>1. CommandInv => CommandTypeOK
  BY DEF CommandInv
<1>. QED  BY <1>1, CommandInvariant, PTL

\* Names stay unique and references keep both ends, although each command looks up
\* first and changes later, in no transaction.
THEOREM BucketConstraintsHold == Spec => []Constraints
<1>1. CommandInv => Constraints
  BY DEF CommandInv
<1>. QED  BY <1>1, CommandInvariant, PTL

\* A command that no other one raced on its bucket reports what it did.
THEOREM TruthfulUnlessRacedHolds == Spec => []TruthfulUnlessRaced
<1>1. CommandInv => TruthfulUnlessRaced
  BY DEF CommandInv
<1>. QED  BY <1>1, CommandInvariant, PTL

\* The step behind the next theorem: a rename that comes late renames nothing,
\* and an id that was drawn is not drawn again.
LEMMA StaysRemoved ==
    ASSUME CommandInv, CommandInv', [Next]_vars, NEW b \in drawn, bucket[b] = Null
    PROVE  bucket'[b] = Null /\ bucket_contents(b)' = {}
<1>. USE DEF CommandInv, CommandTypeOK, DbTypeOK
<1>1. bucket'[b] = Null
  <2>1. ASSUME NEW c \in Commands, Add(c) PROVE bucket'[b] = Null
    BY <2>1 DEF Add, create_bucket, Fails
  <2>2. ASSUME NEW c \in Commands, Remove(c) PROVE bucket'[b] = Null
    BY <2>2 DEF Remove, remove_bucket
  <2>3. ASSUME NEW c \in Commands, Rename(c) PROVE bucket'[b] = Null
    BY <2>3 DEF Rename, rename_bucket, Fails
  <2>4. ASSUME NEW c \in Commands, Command(c)
        PROVE  UNCHANGED bucket \/ Add(c) \/ Remove(c) \/ Rename(c)
    BY <2>4 DEF Command, Start, Find, Report, ListNamed, List, Totals, Fails
  <2>. QED  BY <2>1, <2>2, <2>3, <2>4, OthersKeepBuckets DEF Next
<1>2. \A o \in Objects' : <<b, o>> \notin bucket_object'
  BY <1>1 DEF Constraints, Buckets
<1>. QED  BY <1>1, <1>2 DEF bucket_contents

\* A bucket that was removed stays removed, and empty.
THEOREM RemovedForGoodHolds == Spec => RemovedForGood
<1>1. CommandInv /\ CommandInv' /\ [Next]_vars
        => [\A b \in drawn : bucket[b] = Null => bucket'[b] = Null /\ bucket_contents(b)' = {}]_vars
  BY StaysRemoved
<1>. QED  BY <1>1, CommandInvariant, PTL DEF Spec, RemovedForGood

-----------------------------------------------------------------------------
(* Totals                                                                  *)

\* What a `status -v` that was not raced has printed is still what the views say.
TableIsCurrent ==
    \A c \in Commands : (pc[c] = "listed" /\ typed[c].kind = "status -v" /\ ~raced[c]) =>
        table[c] = fetch_buckets_all

\* There are as many rows as buckets, and every row of the store is of an object
\* that some bucket holds or none.
LEMMA TotalsAddUp ==
    ASSUME DbTypeOK, Constraints, IsFiniteSet(Objects), NEW views, views = fetch_buckets_all
    PROVE  /\ fetch_store_totals.buckets = Cardinality(DOMAIN views)
           /\ fetch_store_totals.space_used
                <= MapThenSumSet(LAMBDA b : views[b].space_used, DOMAIN views)
                     + space(orphans_of_snapshot)
<1>. DEFINE f == Sizes(object)
<1>1. /\ DOMAIN views = Buckets /\ Buckets \in SUBSET BucketIds
      /\ \A b \in Buckets : views[b].space_used = SpaceOf(object, bucket_contents(b))
  BY DEF fetch_buckets_all, Listed, Buckets, bucket_view, space, SpaceOf, MapThenSumSet, MapThenFoldSet
<1>2. PICK part : part = [b \in BucketIds |-> bucket_contents(b)]
  OBVIOUS
<1>3. PICK held, none : held = UNION {part[b] : b \in Buckets} /\ none = orphans_of_snapshot
  OBVIOUS
<1>4. \A b \in Buckets : part[b] \subseteq Objects
  BY <1>1, <1>2 DEF bucket_contents
<1>5. Objects = held \union none /\ held \intersect none = {} /\ Objects \in SUBSET ObjectIds
  <2>1. \A o \in Objects : o \in none <=> \A b \in BucketIds : <<b, o>> \notin bucket_object
    BY <1>3, Unreferenced DEF orphans_of_snapshot
  <2>2. \A o \in Objects : o \in held <=> \E b \in Buckets : <<b, o>> \in bucket_object
    <3>1. \A b \in Buckets : part[b] = {o \in Objects : <<b, o>> \in bucket_object}
      BY <1>1, <1>2 DEF bucket_contents
    <3>2. \A o : o \in held <=> \E b \in Buckets : o \in part[b]
      BY <1>3
    <3>. QED  BY <3>1, <3>2
  <2>3. \A r \in bucket_object : r[1] \in Buckets
    BY DEF Constraints
  <2>4. held \subseteq Objects /\ none \subseteq Objects
    BY <1>3, <1>4 DEF orphans_of_snapshot
  <2>5. \A o \in Objects : o \in held <=> o \notin none
    BY <1>1, <2>1, <2>2, <2>3
  <2>. QED  BY <2>4, <2>5 DEF Objects
<1>6. IsFiniteSet(held) /\ IsFiniteSet(none) /\ IsFiniteSet(Buckets)
  BY <1>1, <1>5, FiniteTables, FS_Subset
<1>7. \A o \in Objects : f[o] \in Nat
  BY SizesAreNat
<1>. HIDE DEF f
<1>8. Sum(f, Objects) = Sum(f, held) + Sum(f, none)
  <2>1. \A o \in held \union none : f[o] \in Nat
    BY <1>5, <1>7
  <2>2. Sum(f, held \union none) = Sum(f, held) + Sum(f, none)
    BY <1>5, <1>6, <2>1, SumUnion
  <2>. QED  BY <1>5, <2>2
<1>9. Sum(f, held) <= Sum(Used(views), Buckets)
  <2>1. ASSUME NEW b \in Buckets PROVE Used(views)[b] = Sum(f, part[b])
    <3>1. part[b] \in SUBSET ObjectIds /\ IsFiniteSet(part[b])
      BY <1>4, <1>5, FS_Subset
    <3>2. Used(views)[b] = SpaceOf(object, part[b])
      BY <1>1, <1>2 DEF Used
    <3>. QED  BY <3>1, <3>2, SpaceIsSum DEF f
  <2>. QED  BY <1>3, <1>4, <1>6, <1>7, <2>1, SumCovers
<1>10. fetch_store_totals.space_used = Sum(f, Objects) /\ space(none) = Sum(f, none)
  <2>1. none \in SUBSET ObjectIds
    BY <1>5
  <2>2. fetch_store_totals.space_used = SpaceOf(object, Objects) /\ space(none) = SpaceOf(object, none)
    BY DEF fetch_store_totals, space, SpaceOf, MapThenSumSet, MapThenFoldSet
  <2>. QED  BY <1>5, <1>6, <2>1, <2>2, SpaceIsSum DEF f
<1>11. MapThenSumSet(LAMBDA b : views[b].space_used, DOMAIN views) = Sum(Used(views), Buckets)
  <2>1. MapThenSumSet(LAMBDA b : views[b].space_used, DOMAIN views) = SpaceUsed(views, DOMAIN views)
    BY DEF SpaceUsed, MapThenSumSet, MapThenFoldSet
  <2>. QED  BY <1>1, <2>1, SpaceUsedIsSum
<1>12. Sum(f, held) \in Nat /\ Sum(f, none) \in Nat /\ Sum(Used(views), Buckets) \in Nat
  <2>1. (\A o \in held : f[o] \in Nat) /\ (\A o \in none : f[o] \in Nat)
    BY <1>5, <1>7
  <2>2. \A b \in Buckets : Used(views)[b] \in Nat
    <3>1. ASSUME NEW b \in Buckets PROVE Used(views)[b] \in Nat
      <4>1. part[b] \in SUBSET ObjectIds /\ IsFiniteSet(part[b]) /\ \A o \in part[b] : f[o] \in Nat
        BY <1>4, <1>5, <1>7, FS_Subset
      <4>2. Used(views)[b] = SpaceOf(object, part[b])
        BY <1>1, <1>2 DEF Used
      <4>. QED  BY <4>1, <4>2, SpaceIsSum, SumType DEF f
    <3>. QED  BY <3>1
  <2>. QED  BY <1>6, <2>1, <2>2, SumType
<1>13. fetch_store_totals.buckets = Cardinality(DOMAIN views)
  BY <1>1 DEF fetch_store_totals
<1>14. fetch_store_totals.space_used
         <= MapThenSumSet(LAMBDA b : views[b].space_used, DOMAIN views) + space(none)
  BY <1>8, <1>9, <1>10, <1>11, <1>12
<1>. QED  BY <1>3, <1>13, <1>14

\* Each call inserts one row at most.
LEMMA FiniteNext ==
    ASSUME CommandTypeOK, IsFiniteSet(Objects), [Next]_vars PROVE IsFiniteSet(Objects)'
<1>1. ASSUME NEW o, Objects' \subseteq Objects \union {o} PROVE IsFiniteSet(Objects)'
  BY <1>1, FS_AddElement, FS_Subset
<1>2. ASSUME Objects' \subseteq Objects PROVE IsFiniteSet(Objects)'
  BY <1>2, FS_Subset
<1>3. CASE Others
  <2>1. ASSUME NEW b, NEW o, NEW row, NEW id, add_object(b, o, row, id) PROVE IsFiniteSet(Objects)'
    <3>1. Objects' \subseteq Objects \union {o}
      BY <2>1 DEF add_object, create_object, Objects
    <3>. QED  BY <1>1, <3>1
  <2>2. ASSUME delete_objects(orphans_of_snapshot) PROVE IsFiniteSet(Objects)'
    BY <1>2, <2>2 DEF delete_objects, Objects
  <2>3. ASSUME UNCHANGED object PROVE IsFiniteSet(Objects)'
    BY <1>2, <2>3 DEF Objects
  <2>. QED
    BY <1>3, <2>1, <2>2, <2>3 DEF Others, ObjectCalls, remove_object, remove_objects, update_object_errors
<1>4. ASSUME NEW c \in Commands, Command(c) PROVE UNCHANGED object
  BY <1>4 DEF Command, Start, Add, Find, Remove, Rename, Report, ListNamed, List, Totals, Fails,
     create_bucket, remove_bucket, rename_bucket
<1>5. UNCHANGED object => IsFiniteSet(Objects)'
  BY <1>2 DEF Objects
<1>. QED  BY <1>3, <1>4, <1>5 DEF Next

\* A step that does not race a command which has printed its table leaves the
\* buckets, the references and the objects.
LEMMA ViewsStay ==
    ASSUME CommandInv, [Next]_vars, NEW c \in Commands, pc[c] = "listed", ~raced'[c]
    PROVE  Buckets' = Buckets /\ UNCHANGED <<object, bucket_object>>
<1>. USE DEF CommandInv
<1>. DEFINE Stay == Buckets' = Buckets /\ UNCHANGED <<object, bucket_object>>
<1>1. ASSUME UNCHANGED dbVars PROVE Stay
  BY <1>1 DEF Buckets
<1>2. ~\E d \in Commands, b \in BucketIds : Changes(d, b)
  BY DEF Changes
<1>3. ASSUME NEW d \in Commands, Add(d) PROVE Stay
  BY <1>1, <1>2, <1>3 DEF Add, Fails
<1>4. ASSUME NEW d \in Commands, Remove(d) PROVE Stay
  <2>1. found[d] \in BucketIds /\ found[d] \notin Buckets
    BY <1>2, <1>4 DEF Remove, InKind
  <2>2. bucket' = [bucket EXCEPT ![found[d]] = Null] /\ bucket[found[d]] = Null
    BY <1>4, <2>1 DEF Remove, remove_bucket, Buckets
  <2>3. \A r \in bucket_object : r[1] # found[d]
    BY <2>1 DEF Constraints
  <2>4. UNCHANGED <<object, bucket_object>>
    BY <1>4, <2>3 DEF Remove, remove_bucket
  <2>5. Buckets' = Buckets
    BY <2>1, <2>2 DEF Buckets, CommandTypeOK, DbTypeOK
  <2>. QED  BY <2>4, <2>5
<1>5. ASSUME NEW d \in Commands, Rename(d) PROVE Stay
  <2>1. CASE Fails(d)
    BY <1>1, <2>1 DEF Fails
  <2>2. CASE ~Fails(d)
    <3>1. found[d] \in BucketIds /\ found[d] \notin Buckets
      BY <1>2, <1>5, <2>2 DEF Rename, InKind
    <3>2. rename_bucket(found[d], process_bucket_name(typed[d].new)) /\ bucket[found[d]] = Null
      BY <1>5, <2>2, <3>1 DEF Rename, Buckets
    <3>3. Buckets' = Buckets
      BY <3>1, <3>2 DEF rename_bucket, Buckets, CommandTypeOK, DbTypeOK
    <3>. QED  BY <3>2, <3>3 DEF rename_bucket
  <2>. QED  BY <2>1, <2>2
<1>6. ~Others
  BY DEF Others
<1>7. ASSUME NEW d \in Commands, Command(d) PROVE UNCHANGED dbVars \/ Add(d) \/ Remove(d) \/ Rename(d)
  BY <1>7 DEF Command, Start, Find, Report, ListNamed, List, Totals, Fails
<1>8. CASE UNCHANGED vars
  BY <1>1, <1>8
<1>. QED  BY <1>1, <1>3, <1>4, <1>5, <1>6, <1>7, <1>8 DEF Next

\* Hence what it printed stays current.
LEMMA TableNext ==
    ASSUME CommandInv, TableIsCurrent, [Next]_vars PROVE TableIsCurrent'
<1>. SUFFICES ASSUME NEW c \in Commands, pc'[c] = "listed", typed'[c].kind = "status -v", ~raced'[c]
              PROVE  table'[c] = fetch_buckets_all'
  BY DEF TableIsCurrent
<1>. USE DEF CommandInv
<1>1. ASSUME Buckets' = Buckets, UNCHANGED <<object, bucket_object>>
      PROVE  fetch_buckets_all' = fetch_buckets_all
  <2>1. ASSUME NEW b PROVE bucket_contents(b)' = bucket_contents(b)
    BY <1>1 DEF bucket_contents, Objects
  <2>2. ASSUME NEW b PROVE bucket_view(b)' = bucket_view(b)
    <3>1. /\ bucket_view(b) = [object_count |-> Cardinality(bucket_contents(b)),
                                space_used |-> SpaceOf(object, bucket_contents(b))]
          /\ bucket_view(b)' = [object_count |-> Cardinality(bucket_contents(b)'),
                                 space_used |-> SpaceOf(object', bucket_contents(b)')]
      BY DEF bucket_view, space, SpaceOf, MapThenSumSet, MapThenFoldSet
    <3>. QED  BY <1>1, <2>1, <3>1
  <2>. QED  BY <1>1, <2>2 DEF fetch_buckets_all, Listed
<1>2. CASE pc[c] = "listed"
  <2>1. fetch_buckets_all' = fetch_buckets_all
    BY <1>1, <1>2, ViewsStay
  <2>2. ~raced[c] /\ UNCHANGED <<typed[c], table[c]>>
    <3>1. ASSUME NEW d \in Commands, Command(d), d # c PROVE ~raced[c] /\ UNCHANGED <<typed[c], table[c]>>
      <4>1. UNCHANGED historyVars \/ \E b \in BucketIds : Changes(d, b)
        BY <3>1 DEF Command, Start, Add, Find, Remove, Rename, Report, ListNamed, List, Totals, Fails,
           InKind
      <4>2. ~raced[c]
        BY <3>1, <4>1, Unraced
      <4>3. UNCHANGED <<typed[c], table[c]>>
        BY <3>1 DEF Command, Start, Add, Find, Remove, Rename, Report, ListNamed, List, Totals, Fails,
           Ends, CommandTypeOK
      <4>. QED  BY <4>2, <4>3
    <3>2. ASSUME Command(c) PROVE FALSE
      BY <1>2, <3>2 DEF Command, Start, Add, Find, Remove, Rename, Report, ListNamed, List, Totals,
         CommandTypeOK
    <3>3. ~Others
      BY <1>2 DEF Others
    <3>. QED  BY <3>1, <3>2, <3>3 DEF Next
  <2>. QED  BY <1>2, <2>1, <2>2 DEF TableIsCurrent
<1>3. CASE pc[c] # "listed"
  <2>1. List(c)
    <3>1. ASSUME NEW d \in Commands, Command(d), ~List(c) PROVE pc'[c] = pc[c] \/ pc'[c] # "listed"
      BY <3>1 DEF Command, Start, Add, Find, Remove, Rename, Report, ListNamed, List, Totals, Fails,
         Ends, CommandTypeOK
    <3>2. Others \/ UNCHANGED vars => pc' = pc
      BY DEF Others
    <3>. QED  BY <1>3, <3>1, <3>2 DEF Next
  <2>2. table'[c] = fetch_buckets_all /\ UNCHANGED dbVars
    BY <2>1 DEF List
  <2>3. Buckets' = Buckets
    BY <2>2 DEF Buckets
  <2>. QED  BY <1>1, <2>2, <2>3
<1>. QED  BY <1>2, <1>3

TotalsInv == CommandInv /\ IsFiniteSet(Objects) /\ TableIsCurrent

\* The store has finitely many rows, and a table printed by status is current
\* until the command is raced.
THEOREM TotalsInvariant == Spec => []TotalsInv
<1>1. Init => IsFiniteSet(Objects) /\ TableIsCurrent
  <2>. SUFFICES ASSUME Init PROVE IsFiniteSet(Objects) /\ TableIsCurrent
    OBVIOUS
  <2>1. Objects = {}
    BY DEF Init, Objects
  <2>. QED  BY <2>1, FS_EmptySet DEF Init, TableIsCurrent
<1>2. CommandInv /\ IsFiniteSet(Objects) /\ TableIsCurrent /\ [Next]_vars
        => IsFiniteSet(Objects)' /\ TableIsCurrent'
  BY FiniteNext, TableNext DEF CommandInv
<1>3. CommandInv /\ IsFiniteSet(Objects) /\ TableIsCurrent => TotalsInv
  BY DEF TotalsInv
<1>. QED  BY <1>1, <1>2, <1>3, CommandInvariant, PTL DEF Spec

\* The totals remove_objects reports are what the view of the bucket loses, also
\* for ids the bucket does not hold.
THEOREM ReportMatchesViewHolds == Spec => ReportMatchesView
<1>. DEFINE Matches ==
        \A b \in BucketIds, objects \in SUBSET ObjectIds :
           remove_objects(b, objects) =>
              /\ bucket_view(b).object_count
                   = bucket_view(b)'.object_count + remove_result(b, objects).objects_removed
              /\ bucket_view(b).space_used
                   = bucket_view(b)'.space_used + remove_result(b, objects).space_freed
<1>1. TotalsInv => [Matches]_dbVars
  BY RemovedIsReported DEF TotalsInv, CommandInv, CommandTypeOK
<1>. QED  BY <1>1, TotalsInvariant, PTL DEF ReportMatchesView

\* A prune that deletes what nobody references is invisible in every view, and
\* leaves no space that no bucket accounts for.
THEOREM PruneKeepsViewsHolds == Spec => PruneKeepsViews
<1>. DEFINE Keeps ==
        delete_objects(orphans_of_snapshot) =>
         /\ \A b \in BucketIds : bucket_view(b)' = bucket_view(b)
         /\ (fetch_store_totals.space_used
               <= MapThenSumSet(LAMBDA b : bucket_view(b).space_used, BucketIds))'
<1>1. TotalsInv => [Keeps]_dbVars
  BY PruneIsUnseen DEF TotalsInv, CommandInv, CommandTypeOK
<1>. QED  BY <1>1, TotalsInvariant, PTL DEF PruneKeepsViews

\* The totals `status -v` prints account for the rows of its table, unless the
\* store changed in between.
THEOREM StatusAddsUpHolds == Spec => StatusAddsUp
<1>. DEFINE AddsUp ==
        \A c \in Commands : (Totals(c) /\ typed[c].kind = "status -v" /\ ~raced[c]) =>
          /\ fetch_store_totals.buckets = Cardinality(DOMAIN table[c])
          /\ fetch_store_totals.space_used
               <= MapThenSumSet(LAMBDA b : table[c][b].space_used, DOMAIN table[c])
                    + space(orphans_of_snapshot)
<1>1. TotalsInv => [AddsUp]_vars
  <2>. SUFFICES ASSUME TotalsInv, NEW c \in Commands, Totals(c), typed[c].kind = "status -v", ~raced[c]
       PROVE  /\ fetch_store_totals.buckets = Cardinality(DOMAIN table[c])
              /\ fetch_store_totals.space_used
                   <= MapThenSumSet(LAMBDA b : table[c][b].space_used, DOMAIN table[c])
                        + space(orphans_of_snapshot)
    OBVIOUS
  <2>1. table[c] = fetch_buckets_all
    BY DEF TotalsInv, TableIsCurrent, Totals
  <2>. QED  BY <2>1, TotalsAddUp DEF TotalsInv, CommandInv, CommandTypeOK
<1>. QED  BY <1>1, TotalsInvariant, PTL DEF StatusAddsUp
=============================================================================
