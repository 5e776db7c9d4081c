--------------------------- MODULE IntegrityCheck ---------------------------
(***************************************************************************)
(* `fstore check`: object_store::check walks all objects in batches, has a *)
(* thread pool compare each file with its row, and writes the verdicts to  *)
(* object_error in one transaction.  It runs as a process of its own, while*)
(* the server goes on adding objects and `fstore prune` deletes some.      *)
(*                                                                         *)
(* Unlike in Database, statements are taken apart here where they wait for *)
(* one another: a new entry of object_error locks the row of its object    *)
(* until the check's transaction ends, and prune's DELETE locks one row    *)
(* after the other.                                                        *)
(***************************************************************************)
EXTENDS Integers, FiniteSets

CONSTANTS
    ObjectIds,
    BatchSize,      \* --batch: how many rows a round trip fetches
    Quiet,          \* --quiet: no progress is printed
    Pruning,        \* whether `fstore prune` is run meanwhile, once
    MaxAdded        \* bound: how many objects may be added meanwhile

ASSUME CheckConstants ==
    /\ IsFiniteSet(ObjectIds)
    /\ BatchSize \in Nat \ {0} /\ Quiet \in BOOLEAN /\ Pruning \in BOOLEAN
    /\ MaxAdded \in Nat

VARIABLES
    objects,        \* the rows of data.object
    file,           \* how the file in objects/ compares with the row
    object_error,   \* data.object_error, as committed
    \* The check.
    check_pc,
    snapshot,       \* the rows its portal lists
    portal,         \* those it has still to fetch
    more,           \* whether the portal may have more rows
    tasks,          \* objects given to the thread pool
    results,        \* verdicts the event loop has not resumed yet
    in, out,        \* the two vectors of verdicts
    cleared,        \* entries its transaction removed
    written,        \* entries its transaction added or changed
    progress,
    \* The command, which starts the check and prints its progress.
    printer,        \* the coroutine that prints, while it runs
    shown,          \* the number in the line it printed last
    \* fstore prune.
    prune_pc,
    victims,        \* rows its DELETE has still to lock
    deleted         \* rows it has locked, then objects whose files remain

storeVars == <<objects, file, object_error>>
taskVars == <<tasks, results, in, progress>>
txVars == <<cleared, written>>
printerVars == <<printer, shown>>
checkVars == <<check_pc, snapshot, portal, more, taskVars, out, txVars, printerVars>>
pruneVars == <<prune_pc, victims, deleted>>
vars == <<storeVars, checkVars, pruneVars>>

\* What check_object says of an object: no message, or one.
Verdict == [id : ObjectIds, broken : BOOLEAN]

ids(verdicts) == {v.id : v \in verdicts}

\* Every variable keeps its range.
CheckTypeOK ==
    /\ objects \subseteq ObjectIds
    /\ file \in [ObjectIds -> {"unused", "coming", "sound", "damaged", "missing"}]
    /\ object_error \subseteq ObjectIds
    /\ check_pc \in {"idle", "connected", "fetching", "waiting", "updating", "done", "reported", "failed"}
    /\ snapshot \subseteq ObjectIds /\ portal \subseteq snapshot /\ more \in BOOLEAN
    /\ tasks \subseteq ObjectIds /\ results \subseteq Verdict
    /\ in \subseteq Verdict /\ out \subseteq Verdict
    /\ cleared \subseteq ObjectIds /\ written \subseteq ObjectIds
    /\ progress \in [success : Nat, errors : Nat, total : Nat]
    /\ printer \in {"none", "waiting", "ended"} /\ shown \in Nat
    /\ prune_pc \in {"idle", "deleting", "removing", "done", "failed"}
    /\ victims \subseteq ObjectIds /\ deleted \subseteq ObjectIds

\* A store some of whose files were damaged, and some of whose objects an
\* earlier check found broken.
Init ==
    /\ file \in [ObjectIds -> {"unused", "sound", "damaged"}]
    /\ objects = {o \in ObjectIds : file[o] # "unused"}
    /\ Cardinality(ObjectIds \ objects) <= MaxAdded
    /\ object_error \in SUBSET objects
    /\ check_pc = "idle" /\ snapshot = {} /\ portal = {} /\ more = FALSE
    /\ tasks = {} /\ results = {} /\ in = {} /\ out = {}
    /\ cleared = {} /\ written = {}
    /\ progress = [success |-> 0, errors |-> 0, total |-> 0]
    /\ printer = (IF Quiet THEN "none" ELSE "waiting") /\ shown = 0
    /\ prune_pc = "idle" /\ victims = {} /\ deleted = {}

-----------------------------------------------------------------------------
(* object_store::check                                                     *)

\* The number of objects is read before, and apart from, the objects.
Start ==
    /\ check_pc = "idle"
    /\ progress' = [progress EXCEPT !.total = Cardinality(objects)]
    /\ check_pc' = "connected"
    /\ UNCHANGED <<storeVars, snapshot, portal, more, tasks, results, in, out, txVars, printerVars, pruneVars>>

\* get_objects lists every row there is.
get_objects == objects

\* The transaction begins and the portal is opened; what is added from now on
\* is not checked.
OpenPortal ==
    /\ check_pc = "connected"
    /\ snapshot' = get_objects /\ portal' = get_objects /\ more' = TRUE
    /\ check_pc' = "fetching"
    /\ UNCHANGED <<storeVars, taskVars, out, txVars, printerVars, pruneVars>>

\* Mutated form: the last batch is known before it is fetched.
Fetch_last(batch) ==
    /\ check_pc = "fetching"
    /\ Cardinality(batch) = IF Cardinality(portal) < BatchSize THEN Cardinality(portal) ELSE BatchSize
    /\ portal' = portal \ batch
    /\ more' = (portal \ batch # {} /\ Cardinality(portal \ batch) >= BatchSize)
    /\ tasks' = tasks \union batch
    /\ check_pc' = "waiting"
    /\ UNCHANGED <<storeVars, snapshot, results, in, out, txVars, progress, printerVars, pruneVars>>

\* A batch arrives and each of its objects becomes a task.  The portal is known
\* to be at its end only when it returns fewer rows than it was asked for.
Fetch(batch) ==
    /\ check_pc = "fetching"
    /\ Cardinality(batch) = IF Cardinality(portal) < BatchSize THEN Cardinality(portal) ELSE BatchSize
    /\ portal' = portal \ batch
    /\ more' = (Cardinality(batch) = BatchSize)
    /\ tasks' = tasks \union batch
    /\ check_pc' = "waiting"
    /\ UNCHANGED <<storeVars, snapshot, results, in, out, txVars, progress, printerVars, pruneVars>>

\* A file that is missing, or whose hash is not the row's, is a message.
check_object(o) == [id |-> o, broken |-> file[o] # "sound"]

\* A thread of the pool runs it.
CheckObject(o) ==
    /\ o \in tasks
    /\ tasks' = tasks \ {o}
    /\ results' = results \union {check_object(o)}
    /\ UNCHANGED <<storeVars, check_pc, snapshot, portal, more, in, out, txVars, progress, printerVars, pruneVars>>

\* What is shown as progress, out of progress.total.
completed == progress.success + progress.errors

\* Mutated form: progress counts down from the total that was read before.
Record_remaining(v) ==
    /\ v \in results
    /\ results' = results \ {v}
    /\ in' = in \union {v}
    /\ progress' = [progress EXCEPT !.total = @ - 1]
    /\ UNCHANGED <<storeVars, check_pc, snapshot, portal, more, tasks, out, txVars, printerVars, pruneVars>>

\* check_object_task is resumed, at any time check is suspended.
Record(v) ==
    /\ v \in results
    /\ results' = results \ {v}
    /\ in' = in \union {v}
    /\ progress' = IF v.broken THEN [progress EXCEPT !.errors = @ + 1]
                               ELSE [progress EXCEPT !.success = @ + 1]
    /\ UNCHANGED <<storeVars, check_pc, snapshot, portal, more, tasks, out, txVars, printerVars, pruneVars>>

\* counter: the tasks that have not ended.
InFlight == Cardinality(tasks) + Cardinality(results)

\* Mutated form: the last batch is not waited for.
Await_threshold ==
    /\ check_pc = "waiting"
    /\ InFlight <= BatchSize \div 2
    /\ in' = out /\ out' = in
    /\ check_pc' = "updating"
    /\ UNCHANGED <<storeVars, snapshot, portal, more, tasks, results, txVars, progress, printerVars, pruneVars>>

\* Mutated form: the limit itself is one too many.
Await_below ==
    /\ check_pc = "waiting"
    /\ InFlight < IF more THEN BatchSize \div 2 ELSE 0
    /\ in' = out /\ out' = in
    /\ check_pc' = "updating"
    /\ UNCHANGED <<storeVars, snapshot, portal, more, tasks, results, txVars, progress, printerVars, pruneVars>>

\* Mutated form: the verdicts are copied, not swapped.
Await_copy ==
    /\ check_pc = "waiting"
    /\ InFlight <= IF more THEN BatchSize \div 2 ELSE 0
    /\ out' = in
    /\ check_pc' = "updating"
    /\ UNCHANGED <<storeVars, snapshot, portal, more, tasks, results, in, txVars, progress, printerVars, pruneVars>>

\* Mutated form: the next batch is fetched without waiting.
Await_never ==
    /\ check_pc = "waiting"
    /\ more \/ InFlight = 0
    /\ in' = out /\ out' = in
    /\ check_pc' = "updating"
    /\ UNCHANGED <<storeVars, snapshot, portal, more, tasks, results, txVars, progress, printerVars, pruneVars>>

\* Enough tasks have ended, all of them if there is no further batch: the
\* vectors are swapped.
Await ==
    /\ check_pc = "waiting"
    /\ InFlight <= IF more THEN BatchSize \div 2 ELSE 0
    /\ in' = out /\ out' = in
    /\ check_pc' = "updating"
    /\ UNCHANGED <<storeVars, snapshot, portal, more, tasks, results, txVars, progress, printerVars, pruneVars>>

\* Mutated form: object_error does not reference data.object.
Update_unreferenced(v) ==
    /\ check_pc = "updating" /\ v \in out
    /\ out' = out \ {v}
    /\ cleared' = IF v.broken THEN cleared ELSE cleared \union {v.id}
    /\ written' = IF v.broken THEN written \union {v.id} ELSE written
    /\ UNCHANGED <<storeVars, check_pc, snapshot, portal, more, taskVars, printerVars, pruneVars>>

\* update_object_errors takes one verdict, those without a message first.  A new
\* entry of a broken object needs its row: while prune is about to delete that,
\* the statement waits.  An entry there is already only gets another message, which
\* asks nothing of the row it refers to.
Update(v) ==
    /\ check_pc = "updating" /\ v \in out
    /\ out' = out \ {v}
    /\ \/ /\ ~v.broken
          /\ cleared' = cleared \union {v.id}
          /\ UNCHANGED written
       \/ /\ \A w \in out : w.broken
          /\ v.id \notin object_error =>
                v.id \in objects /\ (prune_pc = "deleting" => v.id \notin deleted)
          /\ written' = written \union {v.id}
          /\ UNCHANGED cleared
    /\ UNCHANGED <<storeVars, check_pc, snapshot, portal, more, taskVars, printerVars, pruneVars>>

Proceed ==
    /\ check_pc = "updating" /\ out = {} /\ more
    /\ check_pc' = "fetching"
    /\ UNCHANGED <<storeVars, snapshot, portal, more, taskVars, out, txVars, printerVars, pruneVars>>

Commit ==
    /\ check_pc = "updating" /\ out = {} /\ ~more
    /\ object_error' = (object_error \ cleared) \union written
    /\ check_pc' = "done"
    /\ UNCHANGED <<objects, file, snapshot, portal, more, taskVars, out, txVars, printerVars, pruneVars>>

\* A line with what is completed, and none for an empty store.
print_progress == IF progress.total = 0 THEN shown ELSE completed

\* Mutated form: the check is looked at before the line is printed.
PrintProgress_first ==
    /\ printer = "waiting"
    /\ IF check_pc = "done" THEN printer' = "ended" /\ UNCHANGED shown
                            ELSE shown' = print_progress /\ UNCHANGED printer
    /\ UNCHANGED <<storeVars, check_pc, snapshot, portal, more, taskVars, out, txVars, pruneVars>>

\* The timer has run out: the printer prints, and waits again unless the check is
\* ready by now.  Neither suspends it.
PrintProgress ==
    /\ printer = "waiting"
    /\ shown' = print_progress
    /\ printer' = IF check_pc = "done" THEN "ended" ELSE "waiting"
    /\ UNCHANGED <<storeVars, check_pc, snapshot, portal, more, taskVars, out, txVars, pruneVars>>

\* The command awaits the check, then the printer, and prints the result.
Report ==
    /\ check_pc = "done" /\ printer # "waiting"
    /\ check_pc' = "reported"
    /\ UNCHANGED <<storeVars, snapshot, portal, more, taskVars, out, txVars, printerVars, pruneVars>>

\* check throws: its transaction is rolled back and its process ends.  Tasks
\* still in flight refer to vectors that are gone; nothing here reads them.
Abandon ==
    /\ check_pc' = "failed"
    /\ cleared' = {} /\ written' = {}
    /\ printer' = "none"
    /\ UNCHANGED <<storeVars, snapshot, portal, more, taskVars, out, shown>>

\* The row of a broken object is gone: a foreign key violation.
MissReference ==
    /\ check_pc = "updating"
    /\ \A w \in out : w.broken
    /\ \E v \in out : v.id \notin objects
    /\ Abandon
    /\ UNCHANGED pruneVars

Check ==
    \/ Start
    \/ OpenPortal
    \/ \E batch \in SUBSET portal : Fetch(batch)
    \/ \E o \in ObjectIds : CheckObject(o)
    \/ \E v \in Verdict : Record(v)
    \/ Await
    \/ \E v \in Verdict : Update(v)
    \/ Proceed
    \/ Commit
    \/ PrintProgress
    \/ Report
    \/ MissReference

-----------------------------------------------------------------------------
(* What goes on meanwhile                                                  *)

\* An upload commits its row, and renames its part later.
AddRow(o) ==
    /\ file[o] = "unused"
    /\ file' = [file EXCEPT ![o] = "coming"]
    /\ objects' = objects \union {o}
    /\ UNCHANGED <<object_error, checkVars, pruneVars>>

PlaceFile(o) ==
    /\ file[o] = "coming"
    /\ file' = [file EXCEPT ![o] = "sound"]
    /\ UNCHANGED <<objects, object_error, checkVars, pruneVars>>

\* prune's DELETE: some objects have become orphans.
PruneScan ==
    /\ Pruning /\ prune_pc = "idle"
    /\ \E orphans \in SUBSET objects : orphans # {} /\ victims' = orphans
    /\ deleted' = {}
    /\ prune_pc' = "deleting"
    /\ UNCHANGED <<storeVars, checkVars>>

\* Mutated form: the finished check leaves its transaction open.
LockedRows_kept == written

\* Entries the check's open transaction holds a lock on, and the rows that those
\* it added refer to.
LockedEntries == IF check_pc \in {"done", "reported"} THEN {} ELSE written \union (cleared \intersect object_error)
LockedRows == IF check_pc \in {"done", "reported"} THEN {} ELSE written \ object_error

PruneRow(o) ==
    /\ prune_pc = "deleting" /\ o \in victims \ LockedRows
    /\ victims' = victims \ {o}
    /\ deleted' = deleted \union {o}
    /\ UNCHANGED <<storeVars, checkVars, prune_pc>>

\* ON DELETE CASCADE removes the entries, and the deletion commits.
PruneCommit ==
    /\ prune_pc = "deleting" /\ victims = {} /\ deleted \intersect LockedEntries = {}
    /\ objects' = objects \ deleted
    /\ object_error' = object_error \ deleted
    /\ prune_pc' = "removing"
    /\ UNCHANGED <<file, checkVars, victims, deleted>>

PruneFile(o) ==
    /\ prune_pc = "removing" /\ o \in deleted
    /\ file' = [file EXCEPT ![o] = IF @ = "coming" THEN @ ELSE "missing"]
    /\ deleted' = deleted \ {o}
    /\ UNCHANGED <<objects, object_error, checkVars, prune_pc, victims>>

PruneEnd ==
    /\ prune_pc = "removing" /\ deleted = {}
    /\ prune_pc' = "done"
    /\ UNCHANGED <<storeVars, checkVars, victims, deleted>>

Prune ==
    \/ PruneScan
    \/ \E o \in ObjectIds : PruneRow(o)
    \/ PruneCommit
    \/ \E o \in ObjectIds : PruneFile(o)
    \/ PruneEnd

-----------------------------------------------------------------------------
(* PostgreSQL ends a deadlock by failing one of the two statements.        *)

CheckWaits ==
    /\ check_pc = "updating" /\ prune_pc = "deleting"
    /\ (ids(out) \intersect deleted) \ object_error # {}
    /\ \A w \in out : w.broken

PruneWaits ==
    /\ prune_pc = "deleting"
    /\ \/ victims \intersect LockedRows # {}
       \/ victims = {} /\ deleted \intersect LockedEntries # {}

ResolveDeadlock ==
    /\ CheckWaits /\ PruneWaits
    /\ \/ Abandon /\ UNCHANGED pruneVars
       \/ /\ prune_pc' = "failed" /\ victims' = {} /\ deleted' = {}
          /\ UNCHANGED <<storeVars, checkVars>>

Next ==
    \/ Check
    \/ \E o \in ObjectIds : AddRow(o) \/ PlaceFile(o)
    \/ Prune
    \/ ResolveDeadlock

\* The pool's threads, the event loop and the database all make progress.
Fairness ==
    /\ WF_vars(Start \/ OpenPortal \/ Await \/ Proceed \/ Commit \/ MissReference)
    /\ WF_vars(PrintProgress) /\ WF_vars(Report)
    /\ WF_vars(\E batch \in SUBSET portal : Fetch(batch))
    /\ \A o \in ObjectIds : WF_vars(CheckObject(o))
    /\ \A v \in Verdict : WF_vars(Record(v)) /\ WF_vars(Update(v))
    /\ \A o \in ObjectIds : WF_vars(PruneRow(o)) /\ WF_vars(PruneFile(o))
    /\ WF_vars(PruneCommit) /\ WF_vars(PruneEnd)
    /\ WF_vars(ResolveDeadlock)

Spec == Init /\ [][Next]_vars
FairSpec == Spec /\ Fairness

-----------------------------------------------------------------------------
(* Properties                                                              *)

Running == check_pc \in {"fetching", "waiting", "updating", "done", "reported"}

\* Through the vectors that tasks fill while the other one is being written,
\* every object listed has exactly one verdict, or one task on the way to it,
\* or is still to be fetched; and the counters shown as progress agree.
EachOnce ==
    LET places == <<portal, tasks, ids(results), ids(in), ids(out), cleared, written>>
    IN  Running =>
          /\ snapshot = UNION {places[i] : i \in DOMAIN places}
          /\ \A i, j \in DOMAIN places : i # j => places[i] \intersect places[j] = {}
          /\ completed
               = Cardinality(in) + Cardinality(out) + Cardinality(cleared) + Cardinality(written)

\* A check that commits has left nothing behind: no task still running that
\* would write to the vectors of the finished check, no verdict that was not
\* stored, no batch that was not fetched.
NothingLeft ==
    check_pc \in {"done", "reported"} => portal = {} /\ tasks = {} /\ results = {} /\ in = {} /\ out = {}

\* However fast batches are fetched, the tasks in flight stay within one and a
\* half batches.
InFlightBounded == InFlight <= BatchSize + BatchSize \div 2

\* No verdict about an object outlives it, although the check writes it in one
\* transaction and prune deletes the object in another.
ErrorsHaveObjects == object_error \subseteq objects

\* The last line of progress that is left standing above the result of the check
\* has the number of objects the result has: the printer wakes up at moments of its
\* own and stops only after it has seen the end (run_progress_printer).
LastLineIsFinal ==
    check_pc = "reported" /\ ~Quiet /\ progress.total # 0 => shown = completed

\* The command comes to its result or fails, whatever the check and the printer
\* wait for.
CheckEnds == check_pc = "connected" ~> check_pc \in {"reported", "failed"}

\* prune ends too, although it waits for the check's locks.
PruneEnds == prune_pc = "deleting" ~> prune_pc \in {"done", "failed"}
=============================================================================
