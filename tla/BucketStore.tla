---------------------------- MODULE BucketStore ----------------------------
(***************************************************************************)
(* What fstore promises its clients, with no database, files or processes: *)
(* buckets hold contents, named by their digest, and contents that can be  *)
(* downloaded stay available.  Contents become available some time after   *)
(* they were first put into a bucket, and only a sweep takes them away     *)
(* again, having chosen them while no bucket held them.                    *)
(***************************************************************************)
CONSTANTS
    Buckets,    \* the buckets there can be
    Contents    \* digests of all contents

VARIABLES
    open,       \* the buckets that exist
    holds,      \* the contents each bucket holds
    known,      \* the contents the store has accepted
    available,  \* those a download can be answered with
    doomed      \* the contents a running sweep has chosen

storeVars == <<open, holds, known, available, doomed>>

StoreInit ==
    /\ open = Buckets
    /\ holds = [b \in Buckets |-> {}]
    /\ known = {}
    /\ available = {}
    /\ doomed = {}

\* Contents the store knows already are only held once more.
Put(b, d) ==
    /\ b \in open
    /\ known' = known \union {d}
    /\ holds' = [holds EXCEPT ![b] = @ \union {d}]
    /\ UNCHANGED <<open, available, doomed>>

Provide(d) ==
    /\ d \in known
    /\ available' = available \union {d}
    /\ UNCHANGED <<open, holds, known, doomed>>

Take(b, ds) ==
    /\ holds' = [holds EXCEPT ![b] = @ \ ds]
    /\ UNCHANGED <<open, known, available, doomed>>

\* A dropped bucket takes its references along, and accepts nothing any more.
Drop(b) ==
    /\ open' = open \ {b}
    /\ holds' = [holds EXCEPT ![b] = {}]
    /\ UNCHANGED <<known, available, doomed>>

ChooseDoomed ==
    /\ doomed = {}
    /\ doomed' = {d \in known : \A b \in Buckets : d \notin holds[b]}
    /\ UNCHANGED <<open, holds, known, available>>

\* What was put back since then goes all the same.
Sweep ==
    /\ holds' = [b \in Buckets |-> holds[b] \ doomed]
    /\ known' = known \ doomed
    /\ available' = available \ doomed
    /\ doomed' = {}
    /\ UNCHANGED open

SpareDoomed ==
    /\ doomed' = {}
    /\ UNCHANGED <<open, holds, known, available>>

StoreNext ==
    \/ \E b \in Buckets, d \in Contents : Put(b, d)
    \/ \E d \in Contents : Provide(d)
    \/ \E b \in Buckets : \E ds \in SUBSET holds[b] : Take(b, ds)
    \/ \E b \in Buckets : Drop(b)
    \/ ChooseDoomed
    \/ Sweep
    \/ SpareDoomed

StoreSpec == StoreInit /\ [][StoreNext]_storeVars
=============================================================================
