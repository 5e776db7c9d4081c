# fstore in TLA+

fstore keeps files, called *objects*, in *buckets*: rows in PostgreSQL and files
in a directory, written by a server, and by command-line tools that are
processes of their own on the same database and the same directory. Objects are
immutable, contents that are uploaded twice are stored once, and nothing but
`fstore prune` deletes a file. The hard part is that a row and its file are
changed by two different systems and in no common transaction, while other
handlers and other processes run.

This directory models the parts of fstore that change that state, checks them
with TLC on small instances, and proves nearly all of their safety properties
with TLAPS for all instances.

    tlc -config store_core.cfg MCObjectStore      # one run; see "Runs"
    tlapm StoreProofs.tla                         # the proofs of one module

## Inventory

| Component | State it keeps | Operations | Interacts with | Modelled in |
|---|---|---|---|---|
| Object store (`libcore/object_store.cpp`) | none of its own; a handler's locals between two `co_await`s | `get_part`, `commit_part`, `get_object`, removals, `prune`, `check`, bucket calls | calls catalogue and file system | `ObjectStore` (and the rows below) |
| Catalogue (`share/fstore/db/*.sql`, `libcore/db/connection.cpp`) | tables `bucket`, `object`, `bucket_object`, `object_error` | the functions of `api.sql` | shared by server and commands | `Database` |
| File system (`libcore/fs/`) | `parts/`, `objects/`, open handles | open for append, write, rename, remove, open, rsync | shared by server and commands | `Filesystem`, `Content` |
| Zipline and HTTP routers (`libserver/`) | one coroutine per request | the calls of clients | call the object store | `Protocol`, `Server`; what a call does: `ObjectStore` |
| Client library (`libfstore/`) | a connection, the call in progress | one method per call, over either transport | the routers; the caller's function writes an upload | `Protocol`, `Server` |
| Connection pool (`libcore/db/pool.cpp`, `database.cpp`) | open connections with their statements | check out, give back | shared by the handlers of a process | `ConnectionPool`, `Server` |
| `fstore prune` | rows the deletion returned | delete orphans, then their files | races uploads, check, archive | `ObjectStore`, `IntegrityCheck`, `Backup` |
| `fstore check` | portal, two vectors of verdicts, progress and its printer, thread pool, transaction | compare every file with its row | races uploads and prune; row locks | `IntegrityCheck` |
| `fstore bucket`, `fstore status` | the id or rows they read first | add, remove, rename; list and sum up | race each other and the server | `BucketCommands` |
| `fstore archive`, `fstore restore` | dump file, archive directory | dump and rsync; rsync and restore | archive races uploads and prune | `Backup` |
| Start, signals, shutdown (`commands/start.cpp`, `libserver/**/server.cpp`) | two lists of listeners, their sessions | start, close, join | sessions refer to routers and store | `Server`; a kill and a restart: `ObjectStore` |
| Configuration, `errors`, `init`, `migrate` | none that outlives a call, or a library's | | external libraries | not modelled |

What is hard about them, and what makes each one right:

* **Uploads.** Part, row and file are three steps with suspensions, failures and
  crashes between them; ids can be chosen by clients and parts resumed; two
  uploads of the same contents share a row that only one of them places.
  Right: a row's hash is that of its file, a row never loses its contents, an
  object never changes, an upload that is answered leaves no part and can be
  downloaded at last.
* **Downloads.** The file is opened after the metadata was read. Right: what is
  served is what was asked for, or nothing.
* **Catalogue.** Right: constraints hold through every order of calls, and what
  a call reports agrees with the views.
* **prune.** Its DELETE chooses rows by a snapshot and its files go later.
  Right: it ends, disturbs no download, and takes nothing that is referenced
  (this last one it does not keep, see "Findings").
* **check.** Verdicts come back in any order into a vector that is swapped while
  it is written; its locks outlive its statements. Right: each object is judged
  once, nothing is left behind, its memory is bounded, it ends beside a prune.
* **Bucket commands.** Look up, then change. Right: they report what they did.
* **Archive and restore.** A dump and a copy taken at different moments, over an
  older archive, with failures midway. Right: what an archive lists it has, and a
  restore brings it back.
* **Calls.** Client and server agree on a call by a number or a path, on an answer
  by its type, and on where a stream ends by counting. Right: an answer is that
  of the call, and the two stay in step when uploads are cut short or fail.
* **Connections.** A handler waits for a connection that others hold; statements
  are run by name. Right: no connection is shared or lost, and every statement
  that is run was prepared.
* **Shutdown.** A signal comes at any time, sessions are in the middle of calls.
  Right: nothing they use goes before they do, and the process ends.

`PROJECT.json` lists each hazard at its line with the property that would catch
it going wrong, or the reason why none does.

## Modules

| Module | What it is |
|---|---|
| `Content` | ids, chunks, digests, rows; what commit_part finds out about a part |
| `Database` | the four tables, one operator per function of `api.sql`, the constraints |
| `Filesystem` | names, files (inodes) and what each call of `fs::filesystem` does to them |
| `ObjectStore` | the composition: upload and download handlers, removals, prune, faults |
| `BucketStore` | what the store promises its clients, without database, files or processes |
| `StoreRefinement` | the mapping of `ObjectStore` to `BucketStore` |
| `StoreInvariant` | the inductive invariants of the object store, as named parts |
| `DatabaseProofs` | what each call of the database preserves, for whoever makes it; what the folds of the views compute |
| `StoreTypeProofs`, `StoreProofs` | the theorems about the object store |
| `RefinementProofs` | that it implements `BucketStore` |
| `BucketCommands` | bucket and status commands over `Database` |
| `IntegrityCheck` | check, with prune beside it, down to the row locks |
| `Backup` | archive and restore |
| `Protocol` | the calls, by number and by path, at the client's end and at the server's |
| `ConnectionPool` | connections, their statements, who holds them |
| `Server` | the composition of the two: the process, its sessions, their clients |
| `BucketProofs`, `BackupProofs` | their invariants with the proofs |
| `CheckInvariant`, `CheckProofs` | the inductive invariant of the check, and its proof |
| `ServerInvariant`, `ServerProofs` | the same for the server |
| `MCObjectStore`, `MCBucketCommands`, `MCIntegrityCheck`, `MCBackup` | symmetry, and what a run checks, for TLC |

`ObjectStore` extends `Database` and `Filesystem`, whose operators are whole
calls; its actions are what a coroutine does between two suspensions:

| Code | Variables and actions |
|---|---|
| `router_context::add_object`, `POST /object/:bucket` | `pc[u]`, `to`, `part_id`, `out`: `Begin`, `Write`, `EndStream` |
| `commit_part` up to `co_await db.add_object` | `ReadPart` puts the row it sends into `sent[u]` |
| the call in the database | `AddObject` (the answer goes to `obj[u]`), `RejectObject` |
| the rest of `commit_part` | `RemovePart` or `MakeObject`, `RenameFails` |
| `get_object` of both routers | `reading[r]`: `Locate`, `Open`, `Respond` |
| `remove_object`, `remove_objects`, `remove_bucket` | `RemoveObject`, `RemoveObjects`, `RemoveBucket` |
| `prune` | `prune_pc`, `orphans`: `PruneScan`, `PruneDelete`, `PruneRemove`, `PruneEnd` |
| an exception at a suspension, a kill and restart, a prune that dies | `CallFails`, `Crash`, `PruneDies` |

`pc[u]` of an upload is "idle", "receiving" (its stream is open), "received"
(waiting for a connection), "adding" (waiting for the database), "added" (the
database has committed, the handler has not gone on), "done" or "failed".

`Server` extends `Protocol` and `ConnectionPool`. It knows of a handler only what
its session waits for, and leaves to `ObjectStore` what it does to rows and files:

| Code | Variables and actions |
|---|---|
| `internal::start` | `phase`, `listening`, `signalled`: `ListenHttp`, `Listen`, `JoinServers`, `JoinHttp` |
| `handle_signals`, and a signal before it runs | `Signal`, `Kill` |
| `fstore::object_store`, `sync::http::object_store` | `client[s]`: `Connect`, `Call`, `Throws`, `Receive`, `Lost`, `Leave`; `astray` |
| the function given to `add_object`, `part::write` | `Write`, `Wrote` |
| both routers | `session[s]`: `Route`, `RouteBytes`, `Read`, `ReadCall`, `EndStream`, `Respond`, `Hangup`, `IdleTimeout` |
| a handler's use of the database | `Checkout`, `Execute`, `ProvideFails`, `ExecuteFails`, over `prepared`, `idle`, `held` |

`up[s]` and `down[s]` are the two directions of a session. What was sent before
its sender went away can still be read.

A function that is given to `add_object` may throw, and so may the stream a download is
written to. The exception leaves `client` and its socket as they are (`Throws`), and
nothing keeps the caller from making another call: `connected` and `failed` ask the socket
only. `Call` from there puts the session into `astray`. The server may then read the call
as bytes of the unfinished stream (`ReadCall`) and what remains of it as a call (`RouteBytes`), and
the client may take an answer that is not its own, in part or with what follows
(`Receive`). `InStep`, `AnswerFitsCall` and `CallEnds` are stated for the sessions that
are not in `astray` (`InOrder`); with `InOrder(s) == TRUE` TLC finds each of them
violated. One such behaviour is

    Connect, Call add_object of one byte, Throws, Call,
    Route, ReadCall, EndStream, Checkout, Execute, Respond, Receive

where the second call gets the upload's answer. No document or comment promises
anything for that second call, so that it is a hazard in `PROJECT.json` and no finding.

The other systems are separate because they need a finer or a coarser
view. `IntegrityCheck` takes statements apart where they wait for each other's
row locks and knows of a file only how it compares with its row. `Backup` takes
from `ObjectStore` that objects never change, so that a copied file is the file.
`BucketCommands` needs bucket ids that are drawn and names that are changed,
which `ObjectStore` leaves fixed.

### Abstractions

* SHA-256 has no collisions. MIME types, dates and message texts are left out.
  Contents are sequences of chunks; their length stands for the size.
* `UUID::generate` never repeats an id. An upload is used for one request.
* A database call takes effect as a whole or not at all. A call that is under
  way when the server dies has either committed before or never does. Row
  locks are modelled where one call waits for another in the middle of its
  work: prune's DELETE, and the check's transaction.
* Reading a part for its hash, size and type is one step: the code does not
  suspend in between. A download in progress is one open file; it may be read
  at any time until `Respond`.
* A kill keeps what was written. Power loss, a full disk and write errors of a
  stream are not modelled.
* The check lists its portal's snapshot; one prune runs beside it. A damaged
  file is damaged from the start.
* netcore, zipline, the HTTP library and ext::pool are not in the repository. They
  are modelled by what the code relies on: a closed list accepts nobody and lets
  its sessions go on, a list is joined when it is closed and its sessions are
  over (their handlers refer to locals of `start` that go next), an error outside
  `error_list` is answered by a general one or ends the session. A session has one
  call at a time. Bytes stand for chunks. A call that is read as bytes is worth
  one, and leaves any number.
* pg_dump and pg_restore work whole or not at all; rsync copies or deletes one
  entry at a time, may be stopped anywhere and exits with an error (24) if a
  listed file vanished. The server is stopped during a restore.

## Runs

All runs of `ObjectStore` use one chunk value: contents then differ by their
length, which is enough for two uploads to agree or to differ. Bounds are
constants: `MaxBytes` the chunks in a part, `MaxFaults` the failures, `MaxArchives`
the archives, `MaxAdded` the objects added during a check, `MaxCalls` and `MaxSize` the calls of a run of the server and the
bytes an upload announces.

| Run | Instance | Question and answer |
|---|---|---|
| `store_core` | 3 uploads, 3 ids, 1 bucket, 1 reader, prune, 1 fault; the server draws the ids | Do rows, files, downloads and the abstract promise hold? Yes. |
| `store_resume` | 3 uploads of up to 2 chunks, of which any may name part o1, one at a time; 2 faults | Does resuming a part keep rows, files and answers in agreement? Yes. |
| `store_live` | 2 uploads that may share part o1, 1 reader, prune, no faults, `FairSpec` | Is every complete upload answered, and at last downloadable; does prune end, having removed the file of each object it deleted? Yes. |
| `buckets` | 2 commands, 2 buckets, 2 names, 2 objects, the server's calls | Do constraints and accounts hold, and do commands report what they did? Yes. |
| `check_safety` | 4 objects of which 1 may be added meanwhile, batches of 2, prune | One verdict each, nothing left behind, no entry of an object that is gone, what is in flight bounded? Yes. |
| `check_live` | 2 objects, batches of 1, prune, progress printed, `FairSpec` | Do check and prune end although they wait for each other? Is the last line of progress final? Yes. |
| `service` | a zipline and an HTTP session, 1 connection, 2 calls, uploads of up to 1 byte, 1 failure, `FairSpec` | Do calls get their own answers and come to an end, unless their client was called again after a throw? Does a signal end the process, and nothing go before those who use it? Yes. |
| `backup` | 3 objects, 2 archives, 2 failures, prune, a restore with retries | Is an archive complete, and does a restore bring it back? Yes. |
| `shared_part`, `prune_race`, `lost_rename`, `untrimmed_rename` | the smallest instance that shows it | The four findings. |

Why these bounds are enough to be interesting: an upload interacts with at most
one other through a shared hash (the row it is answered) or id (the part), and
with one prune; a third upload lets contents come back after both of these. One
fault reaches every crash point. In `check_safety` four objects in batches of
two make two full batches and an empty one, three a full batch and a short one; the threshold is one
there, so that the second batch is fetched while a verdict of the first is to come, and without
it four tasks would be in flight, one more than `InFlightBounded` allows. In `check_live` two batches are needed for the check to hold a lock while it
asks for another. Two archives are needed for one to go over another, and two
failures for both commands to fail or for one to fail twice. `Padded` in
`buckets` leaves out names typed with whitespace, which have the run
`untrimmed_rename`. In `service` two calls are two of one client, for what one leaves behind for the
next, or one of each, for the wait for the one connection; one byte is enough to
write too little and to throw before the end, and every handler can be called over both transports.
Symmetry is used for safety only, and for ids only where no
client names one. Deadlock checking is on for the object store and the bucket
commands, where a removal or a new request is always possible; a check, an archive and a
server do stop, and their runs say so.

### Fairness

`ObjectStore!Fairness`: weak fairness of the steps a handler takes by itself
(the event loop resumes every coroutine whose result is there, and the database
answers), and of prune's. None of clients: a body may never be complete and a
download never requested. `store_live` runs without faults, since a handler
that died answers nobody. `AnsweredIsServed` excludes objects
whose part several uploads named: the last of them may find nothing to rename. `IntegrityCheck!Fairness` adds the pool's threads, the
granting of a lock that is free, the resolution of deadlocks by PostgreSQL, and
the printer's timer.
`Server!Fairness` is weak fairness of the process, of each session's steps with
the timer of an idle one, and of the client's library taking what has come.
Nothing is asked of its callers, so that an upload may stall for ever: `CallEnds`
is about requests that were written to the end, and `StopsAtSignal` excludes a
client that stalls. Weak fairness is enough for the wait for a connection because
calls are bounded; with endless calls the pool's queue would have to be fair.

### Findings

1. `shared_part`: get_part opens a part for appending and nothing excludes a
   second upload with the same id: an object's file can grow after its hash was
   committed.
2. `prune_race`: an upload that is answered while prune's DELETE runs may lose
   its new reference and the object with it.
3. `lost_rename`: after a crash between the commit and the rename, the row
   stays without a file, and later uploads of the same contents are answered with
   it and drop their copy.
4. `untrimmed_rename`: `fstore bucket rename` with whitespace around the new
   name renames the bucket and then fails.

## Proofs

TLC checks the instances above; the theorems hold for every set of ids,
buckets, uploads, readers, chunks, commands, sessions and connections, for every
bound, and from the named assumptions only: `NullIsNoRow`, `NullIsNoId`,
`NullIsNoFile`, `NullIsNoConnection` (the value for "nothing" is none of the
others), `FiniteTables` and part of `CheckConstants` (what is counted is finite), and
`ConstantsOK`, `ServerConstants`, `CheckConstants`, `BackupConstants`,
`CommandConstants` (bounds are numbers, switches Booleans). Each module of proofs
has one inductive invariant, a conjunction of named parts. TLC found each of
them to hold before it was proved: `FreshInv` and `ResumeInv` are invariants of
runs, the others were put in the place of the invariants of `check_safety`,
`check_live`, `service`, `backup`, `buckets`, `store_core` and `store_resume` (without
faults for `RowsPlaced`).

### The object store

For all clients: `TypeCorrect` (`Spec => []TypeOK`), `ConstraintsHold`
(`Spec => []Constraints`), and, while nothing is pruned,
`AnswerNamesContentHolds`: an upload is answered with an object of the contents
its handler read, also when clients share a part. (With prune and chosen ids the
row may be deleted and its id given other contents; with prune and ids the server
draws it cannot, `FreshAnswerNamesContent`.) `TypeOK` is not
inductive: a handler that is "added" must have an object to go on with, so
`TypeInv` adds `Equipped`. The invariant behind the last one is `Named`: rows
stay, and an answered handler describes its part no more.

With `RequestIds = {}` (the server draws every part id, as it does for every
HTTP client): `FreshInvariant`, and from it `HashMatchesContentsHolds`,
`ContentOnDiskHolds`, `ServedIsAskedHolds`, `AnswerLeavesNoPartHolds`,
`FreshAnswerNamesContent` and `ObjectsNeverChangeHolds`. `HashMatchesContents` is not inductive either. That no
step changes the file behind a row follows from who may write to it, which is a
matter of ids. So `FreshInv` says that an id belongs to the one upload that drew
it (`OneOwner`); that a name in either directory leads to the file of the id's
owner, and is in one directory only (`OwnFiles`); that a handler's part is there
and as it was described until it is placed (`OwnPart`); that each row was made
from the file of the owner of its id, which has closed its stream and is still
named (`RowsMade`); that an upload that was answered with another row has none
(`Redundant`, so that the part it removes is no row's contents); that the id an
upload was answered had a row of the contents it sent, and is spent: while there is
a row with it, it is that one (`Answered`); that a file
prune has still to remove is of an id that cannot get a row again
(`PrunedForGood`, which is why a prune that goes on while contents are uploaded
again does no harm); and that a download located contents that no longer change
(`ReadersLocated`). The proof has a lemma per action and a step per conjunct.

With `Exclusive` and `~Pruning` (clients name part ids and resume the parts of
failed uploads, one upload at a time): `ResumeInvariant`, and from it
`ResumedHashMatches`, `ResumedServedIsAsked` and `ResumedObjectsNeverChange`. An
id has no owner here: bytes of several uploads are in one file, a second upload
may find a row with its id, made by an attempt that failed later, and rename its
part over an object. `ResumeInv` says instead that of two uploads with one id one
is over (`NotShared`); that a file in parts/ has no other name (`OneName`); that a
handler's part is there until it is placed, and as described (`OwnResumed`);
that files in objects/ agree with their rows (`FilesMatch`, with `RowsCoherent`);
and that nobody will write to what a download has open (`ReadersMatch`). That a
rename over an object keeps its contents then follows from `Named`: a row with
the handler's own id has the hash the handler sent.

One of the two hypotheses is needed: with parts that are shared,
`HashMatchesContents` fails (finding 1). What a prune does to objects whose
ids are chosen again is not covered by either.

With `MaxFaults = 0`, under either hypothesis: `UploadedPreviouslyHolds`. Every row
has its file or an upload that is about to place it (`RowsPlaced`): a handler that
made a row is answered that row (`AddObjectOwnRow`), and its rename finds its part.
So an upload that drops its copy because "this object was uploaded previously" is
right. That nothing fails is needed: the run `lost_rename` breaks the property
with one fault (finding 3).

`ImplementsBucketStoreHolds`, with `RequestIds = {}` or `~Pruning`: the store implements
`BucketStore`, and without prune it does for all clients, those that share parts
included. (With both, `AddObject` may make a row whose id still has the file of the
pruned object, and TLC finds that the contents are then available too early.)
The initial states map to initial states; for each action there is a
lemma that says which step of the promise it is: `AddObject` is `Put`, `MakeObject`
is `Provide`, the removals are `Take` and `Drop`, prune's scan and deletion are
`ChooseDoomed` and `Sweep`, its death `SpareDoomed`, everything else changes nothing that is mapped. It
takes from `Constraints` that one digest is one object (so that to delete rows is to
delete digests). The rest of `PromiseInv` is that digests stay within the bound, in
files, messages and rows (`Small`); that what the snapshot chose is there until the
deletion (`VictimsThere`); that a file prune removes is of no row (`Swept`); and that
a row that may be added has no file yet (`NotYetStored`). The last two follow from
`FreshInv` where ids are drawn; without prune, from `Named` and from the fact that a
file in objects/ has a row (`FilesHaveRows`).

### The other systems

* `ServerProofs`, `ServerInv`: for any number of sessions of both transports and
  any connections, `PoolSoundHolds`, `InStepHolds`, `AnswerFitsCallHolds`,
  `StoreOutlivesHandlersHolds` and `ServerTypeOKHolds`. `InStep` looks at what the
  server reads next; what makes it hold is an account of bytes in each session:
  those on their way and those the client has still to write are what the server
  expects to read (`Counted`, `InCall`), and an answer or a task is that of the
  client's present call (`Fits`). `SessionInv` asks this of a session for as long as its client
  has not gone astray (`Ordered`); a throw alone keeps it, since what is owed is owed
  still, and what an astray session does changes no other (`OnlyAstray`). `HeldWhileExecuting` ties connections to
  handlers, `Joined` the end of the process to the end of its sessions.
* `CheckProofs`, `CheckInv`: for any objects and batch size, `CheckTypeOKHolds`, `EachOnceHolds`,
  `NothingLeftHolds`, `InFlightBoundedHolds`, `ErrorsHaveObjectsHolds` and
  `LastLineIsFinalHolds`. What was listed is always in exactly one place: the portal, a
  task, the queue of results, one of the two vectors, or the table (`Listed`,
  `Apart`), with one verdict each (`Verdicts`), and is counted once
  (`Tallied`). `LastBatch` says what the short batch leaves, `Threshold` what may be
  in flight when the next batch is fetched.
* `BackupProofs`, `BackupInv`: for any number of archives, failures and attempts to restore,
  `ArchiveCompleteHolds`, `RestoreCompleteHolds` and `BackupTypeOKHolds`. From the dump on,
  what is in it is there or excused (`Kept`), and rsync has copied it or has it
  still to copy (`Synced`); in a restore, what it need not compare any more agrees
  (`Restoring`).
* `BucketProofs`, `CommandInv`: for any number of commands, buckets and names,
  `TruthfulUnlessRacedHolds`, `RemovedForGoodHolds`, `BucketConstraintsHold` and
  `CommandTypeOKHolds`. Unless it was raced, the bucket a command found is there and,
  after its rename, has the name it is about to look up (`FoundIsThere`). With
  `TotalsInv` (finitely many rows, and a listed table that is current until the
  command is raced, `TableIsCurrent`) also `ReportMatchesViewHolds`, `PruneKeepsViewsHolds`
  and `StatusAddsUpHolds`: what remove_objects reports, the bucket view and the
  totals agree, for objects of any number and size.

The last three are about sums over sets of objects. The model computes them with
`MapThenSumSet`, a fold, and the induction theorems of the library, whose parameter
is an operator, are out of the provers' reach. The section "Sums" of `DatabaseProofs`
does without: of the finite sets that would be a counterexample there is a
smallest one (`SmallestSet`, from the theorem that a set of finite sets has minimal elements
under the subset order), and one element less gives the contradiction. In this way the
function the fold defines exists, is the only one (`FoldExists`, `FoldUnique`), and
does not depend on the order in which CHOOSE takes the elements (`SumStep`); that
sums of disjoint sets add up (`SumUnion`) and that a set covered by
others has at most the sum of their sums (`SumCovers`) follow, and from these what the calls do to the
views.

### Only model-checked

Liveness and ENABLED are beyond the prover: `UploadAnswered`, `AnsweredIsServed`,
`PruneEnds`, `CheckEnds`, `CallEnds`, `StopsAtSignal`. Every invariant and every
action property of the passing runs is a theorem. What holds of chosen ids with
prune, beyond types and constraints, is checked only as far as `store_live` goes.

## Not modelled

* `fstore errors`, `init`, `migrate`, the configuration and the command line: one
  read, one call into a library, or no state at all.
* Daemonizing and the pid file, permissions, the copies of files no code makes.
* Power loss: no write is synced, and the code makes no claim of what is there
  afterwards. `Filesystem` would need contents that are written and not yet synced.
* Bytes of a stream that cannot be written on a full disk; a file that is shorter
  than its row when it is sent.
* What a detached task of a check does to the vectors of a check that threw.

## Plan

Done: the modules and theorems above. What could follow:

1. *Power loss* in `Filesystem`, and what `check` then finds.
2. *Chosen ids with prune*: which of the properties hold when a pruned object's
   id is named again, and an invariant for them.
3. *Restore beside a running server*, which the program does not exclude.
