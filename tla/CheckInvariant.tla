--------------------------- MODULE CheckInvariant ---------------------------
(***************************************************************************)
(* Why a check loses no verdict: the inductive invariant behind the safety *)
(* properties of IntegrityCheck, as named parts.                           *)
(***************************************************************************)
EXTENDS IntegrityCheck

Before == check_pc \in {"idle", "connected"}
Ready == check_pc \in {"done", "reported"}

\* Nothing is under way before the portal is opened.
Untouched ==
    Before =>
        /\ snapshot = {} /\ portal = {} /\ tasks = {} /\ results = {} /\ in = {} /\ out = {}
        /\ cleared = {} /\ written = {} /\ completed = 0

\* No place has two verdicts about one object.
OneVerdict(verdicts) == \A v, w \in verdicts : v.id = w.id => v = w

\* From the portal on, what is listed moves from place to place.
Listed ==
    Running => snapshot = portal \union tasks \union ids(results) \union ids(in) \union ids(out)
                            \union cleared \union written

\* Each place is apart from those before it.
Apart ==
    Running =>
        /\ portal \intersect tasks = {}
        /\ (portal \union tasks) \intersect ids(results) = {}
        /\ (portal \union tasks \union ids(results)) \intersect ids(in) = {}
        /\ (portal \union tasks \union ids(results) \union ids(in)) \intersect ids(out) = {}
        /\ (portal \union tasks \union ids(results) \union ids(in) \union ids(out)) \intersect cleared = {}
        /\ (portal \union tasks \union ids(results) \union ids(in) \union ids(out) \union cleared)
              \intersect written = {}

Verdicts == Running => OneVerdict(results) /\ OneVerdict(in) /\ OneVerdict(out)

Tallied ==
    Running => completed = Cardinality(in) + Cardinality(out) + Cardinality(cleared) + Cardinality(written)

\* One vector is written out while the other is filled; what a check that has
\* fetched its last batch waits for leaves nothing but the vector written out.
LastBatch ==
    /\ check_pc \in {"fetching", "waiting"} => out = {}
    /\ check_pc = "fetching" => more
    /\ Running /\ ~more => portal = {}
    /\ check_pc = "updating" /\ ~more => tasks = {} /\ results = {} /\ in = {}
    /\ Ready => ~more /\ tasks = {} /\ results = {} /\ in = {} /\ out = {}

\* Half a batch may still be in flight when the next one is fetched.
Threshold ==
    /\ check_pc \in {"fetching", "updating"} => InFlight <= BatchSize \div 2
    /\ InFlight <= BatchSize + BatchSize \div 2

\* The entries the open transaction wrote are locked, and hold prune back.
WrittenHaveObjects ==
    check_pc \in {"fetching", "waiting", "updating"} => written \subseteq objects

\* The printer ends after the check, and has then printed once more.
PrinterLast ==
    /\ printer = "ended" => Ready /\ (progress.total # 0 => shown = completed)
    /\ printer = "none" /\ ~Quiet => check_pc = "failed"
    /\ check_pc = "reported" => printer # "waiting"

CheckInv ==
    /\ CheckTypeOK
    /\ Untouched
    /\ Listed
    /\ Apart
    /\ Verdicts
    /\ Tallied
    /\ LastBatch
    /\ Threshold
    /\ ErrorsHaveObjects
    /\ WrittenHaveObjects
    /\ PrinterLast
=============================================================================
