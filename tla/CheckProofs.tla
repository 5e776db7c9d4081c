---------------------------- MODULE CheckProofs ----------------------------
(***************************************************************************)
(* The invariant of CheckInvariant is inductive: proofs of the safety      *)
(* properties of `fstore check` for any number of objects and any batches. *)
(***************************************************************************)
EXTENDS CheckInvariant, FiniteSetTheorems, TLAPS

-----------------------------------------------------------------------------
(* Verdicts                                                                *)

\* One verdict more is about one id more.
LEMMA IdsAdd ==
    ASSUME NEW S, NEW v PROVE ids(S \union {v}) = ids(S) \union {v.id}
BY DEF ids

\* Of verdicts with different ids, one taken out takes its id along.
LEMMA IdsRemove ==
    ASSUME NEW S, OneVerdict(S), NEW v \in S PROVE ids(S \ {v}) = ids(S) \ {v.id}
BY DEF ids, OneVerdict

\* No verdicts are about no ids.
LEMMA IdsEmpty == ids({}) = {}
BY DEF ids

\* What check_object answers for an object is a verdict about it.
LEMMA CheckedIsVerdict ==
    ASSUME NEW o \in ObjectIds
    PROVE  check_object(o) \in Verdict /\ check_object(o).id = o
BY DEF check_object, Verdict

\* Sets of objects can be counted.
LEMMA FiniteObjects ==
    ASSUME NEW S \in SUBSET ObjectIds PROVE IsFiniteSet(S) /\ Cardinality(S) \in Nat
BY CheckConstants, FS_Subset, FS_CardinalityType

\* Sets of verdicts can be counted: there are two about each object at most.
LEMMA FiniteVerdicts ==
    ASSUME NEW S \in SUBSET Verdict PROVE IsFiniteSet(S) /\ Cardinality(S) \in Nat
<1>1. IsFiniteSet(ObjectIds \X BOOLEAN)
  <2>1. IsFiniteSet({TRUE})
    BY FS_Singleton
  <2>2. IsFiniteSet({TRUE} \union {FALSE})
    BY <2>1, FS_AddElement
  <2>3. BOOLEAN = {TRUE} \union {FALSE}
    OBVIOUS
  <2>4. IsFiniteSet(BOOLEAN)
    BY <2>2, <2>3, Zenon
  <2>. QED  BY <2>4, CheckConstants, FS_Product
<1>. DEFINE verdict == [p \in ObjectIds \X BOOLEAN |-> [id |-> p[1], broken |-> p[2]]]
<1>2. verdict \in Surjection(ObjectIds \X BOOLEAN, Verdict)
  <2>1. \A p \in ObjectIds \X BOOLEAN : verdict[p] \in Verdict
    BY DEF Verdict
  <2>2. \A v \in Verdict : \E p \in ObjectIds \X BOOLEAN : verdict[p] = v
    <3>1. ASSUME NEW v \in Verdict
          PROVE  <<v.id, v.broken>> \in ObjectIds \X BOOLEAN /\ verdict[<<v.id, v.broken>>] = v
      BY DEF Verdict
    <3>. QED  BY <3>1
  <2>. QED  BY <2>1, <2>2 DEF Surjection
<1>3. IsFiniteSet(Verdict)
  BY <1>1, <1>2, FS_Surjection
<1>. QED  BY <1>3, FS_Subset, FS_CardinalityType

-----------------------------------------------------------------------------
(* Every variable keeps its range                                          *)

\* A store that was never checked is well-formed.
LEMMA TypeInit == Init => CheckTypeOK
<1>. SUFFICES ASSUME Init PROVE CheckTypeOK
  OBVIOUS
<1>1. /\ file \in [ObjectIds -> {"unused", "coming", "sound", "damaged", "missing"}]
      /\ objects \subseteq ObjectIds /\ object_error \subseteq ObjectIds
  BY DEF Init
<1>2. progress \in [success : Nat, errors : Nat, total : Nat]
  BY DEF Init
<1>3. printer \in {"none", "waiting", "ended"} /\ shown \in Nat /\ more \in BOOLEAN
  BY DEF Init
<1>4. /\ snapshot \subseteq ObjectIds /\ portal \subseteq snapshot /\ tasks \subseteq ObjectIds
      /\ results \subseteq Verdict /\ in \subseteq Verdict /\ out \subseteq Verdict
      /\ cleared \subseteq ObjectIds /\ written \subseteq ObjectIds
      /\ victims \subseteq ObjectIds /\ deleted \subseteq ObjectIds
  BY DEF Init
<1>5. check_pc = "idle" /\ prune_pc = "idle"
  BY DEF Init
<1>. QED  BY <1>1, <1>2, <1>3, <1>4, <1>5 DEF CheckTypeOK

\* Every step keeps the ranges.
LEMMA TypeNext == CheckTypeOK /\ [Next]_vars => CheckTypeOK'
<1>. SUFFICES ASSUME CheckTypeOK, [Next]_vars PROVE CheckTypeOK'
  OBVIOUS
<1>. USE DEF CheckTypeOK, storeVars, taskVars, txVars, printerVars, checkVars, pruneVars
<1>1. CASE Start
  <2>1. Cardinality(objects) \in Nat
    BY FiniteObjects
  <2>. QED  BY <1>1, <2>1 DEF Start
<1>2. CASE OpenPortal
  BY <1>2 DEF OpenPortal, get_objects
<1>3. ASSUME NEW batch \in SUBSET portal, Fetch(batch) PROVE CheckTypeOK'
  BY <1>3 DEF Fetch
<1>4. ASSUME NEW o \in ObjectIds, CheckObject(o) PROVE CheckTypeOK'
  BY <1>4, CheckedIsVerdict DEF CheckObject
<1>5. ASSUME NEW v \in Verdict, Record(v) PROVE CheckTypeOK'
  BY <1>5 DEF Record
<1>6. CASE Await
  BY <1>6 DEF Await
<1>7. ASSUME NEW v \in Verdict, Update(v) PROVE CheckTypeOK'
  <2>1. v.id \in ObjectIds
    BY DEF Verdict
  <2>. QED  BY <1>7, <2>1 DEF Update
<1>8. CASE Proceed
  BY <1>8 DEF Proceed
<1>9. CASE Commit
  BY <1>9 DEF Commit
<1>10. CASE PrintProgress
  BY <1>10 DEF PrintProgress, print_progress, completed
<1>11. CASE Report
  BY <1>11 DEF Report
<1>12. ASSUME Abandon, UNCHANGED pruneVars PROVE CheckTypeOK'
  BY <1>12 DEF Abandon
<1>13. ASSUME NEW o \in ObjectIds, AddRow(o) \/ PlaceFile(o) PROVE CheckTypeOK'
  BY <1>13 DEF AddRow, PlaceFile
<1>14. CASE Prune
  <2>1. CASE PruneScan
    BY <2>1 DEF PruneScan
  <2>2. ASSUME NEW o \in ObjectIds, PruneRow(o) PROVE CheckTypeOK'
    BY <2>2 DEF PruneRow
  <2>3. CASE PruneCommit
    BY <2>3 DEF PruneCommit
  <2>4. ASSUME NEW o \in ObjectIds, PruneFile(o) PROVE CheckTypeOK'
    BY <2>4 DEF PruneFile
  <2>5. CASE PruneEnd
    BY <2>5 DEF PruneEnd
  <2>. QED  BY <1>14, <2>1, <2>2, <2>3, <2>4, <2>5 DEF Prune
<1>15. CASE ResolveDeadlock
  BY <1>12, <1>15 DEF ResolveDeadlock
<1>16. CASE UNCHANGED vars
  BY <1>16 DEF vars
<1>. QED  BY <1>1, <1>2, <1>3, <1>4, <1>5, <1>6, <1>7, <1>8, <1>9, <1>10, <1>11, <1>12, <1>13,
            <1>14, <1>15, <1>16 DEF Next, Check, MissReference

-----------------------------------------------------------------------------
(* Verdicts move from place to place                                       *)

\* What the steps of the check proper do to the places, and all others leave alone.
Places == <<snapshot, portal, more, tasks, results, in, out, cleared, written>>

\* The steps that change neither a place nor the stage of the check.
LEMMA OtherSteps ==
    ASSUME CheckTypeOK, [Next]_vars,
           ~ \/ Start \/ OpenPortal \/ Await \/ Proceed \/ Commit \/ Report
             \/ \E batch \in SUBSET portal : Fetch(batch)
             \/ \E o \in ObjectIds : CheckObject(o)
             \/ \E v \in Verdict : Record(v) \/ Update(v),
           check_pc' # "failed" \/ check_pc = "failed"
    PROVE  check_pc' = check_pc /\ UNCHANGED Places /\ UNCHANGED progress
<1>. USE DEF storeVars, taskVars, txVars, printerVars, checkVars, pruneVars, Places
<1>1. CASE PrintProgress
  BY <1>1 DEF PrintProgress
<1>2. CASE MissReference \/ ResolveDeadlock
  BY <1>2 DEF MissReference, ResolveDeadlock, Abandon, CheckWaits
<1>3. ASSUME NEW o \in ObjectIds, AddRow(o) \/ PlaceFile(o)
      PROVE  check_pc' = check_pc /\ UNCHANGED Places /\ UNCHANGED progress
  BY <1>3 DEF AddRow, PlaceFile
<1>4. CASE Prune
  BY <1>4 DEF Prune, PruneScan, PruneRow, PruneCommit, PruneFile, PruneEnd
<1>5. CASE UNCHANGED vars
  BY <1>5 DEF vars
<1>. QED  BY <1>1, <1>2, <1>3, <1>4, <1>5 DEF Next, Check

\* Nothing is listed, judged or counted before the portal is opened.
LEMMA UntouchedNext ==
    ASSUME CheckTypeOK, Untouched, [Next]_vars PROVE Untouched'
<1>. USE DEF Untouched, Before
<1>1. CASE Start
  BY <1>1 DEF Start, CheckTypeOK, completed, txVars
<1>2. CASE OpenPortal \/ Await \/ Proceed \/ Commit \/ Report \/ \E batch \in SUBSET portal : Fetch(batch)
  BY <1>2 DEF OpenPortal, Await, Proceed, Commit, Report, Fetch
<1>3. ASSUME NEW o \in ObjectIds, CheckObject(o) PROVE Untouched'
  BY <1>3 DEF CheckObject
<1>4. ASSUME NEW v \in Verdict, Record(v) \/ Update(v) PROVE Untouched'
  BY <1>4 DEF Record, Update
<1>5. CASE check_pc' = "failed"
  BY <1>5
<1>6. ASSUME check_pc' = check_pc, UNCHANGED Places, UNCHANGED progress PROVE Untouched'
  BY <1>6 DEF Places, completed
<1>. QED  BY <1>1, <1>2, <1>3, <1>4, <1>5, <1>6, OtherSteps

\* A verdict that is resumed leaves the results and enters one vector.
LEMMA VerdictsNext ==
    ASSUME CheckTypeOK, Untouched, Apart, Verdicts, [Next]_vars PROVE Verdicts'
<1>. SUFFICES ASSUME Running' PROVE Verdicts'
  BY DEF Verdicts
<1>1. ASSUME NEW o \in ObjectIds, CheckObject(o) PROVE Verdicts'
  <2>1. /\ results' = results \union {check_object(o)} /\ in' = in /\ out' = out /\ o \in tasks
        /\ Running
    BY <1>1 DEF CheckObject, Running
  <2>2. o \notin ids(results) /\ OneVerdict(results) /\ OneVerdict(in) /\ OneVerdict(out)
    BY <2>1 DEF Apart, Verdicts
  <2>3. OneVerdict(results)'
    BY <2>1, <2>2, CheckedIsVerdict DEF OneVerdict, ids
  <2>. QED  BY <2>1, <2>2, <2>3 DEF Verdicts, OneVerdict
<1>2. ASSUME NEW v \in Verdict, Record(v) PROVE Verdicts'
  <2>1. v \in results /\ results' = results \ {v} /\ in' = in \union {v} /\ out' = out /\ Running
    BY <1>2 DEF Record, Running
  <2>2. v.id \notin ids(in) /\ OneVerdict(results) /\ OneVerdict(in) /\ OneVerdict(out)
    BY <2>1 DEF Apart, Verdicts, ids
  <2>. QED  BY <2>1, <2>2 DEF Verdicts, OneVerdict, ids
<1>3. ASSUME NEW v \in Verdict, Update(v) PROVE Verdicts'
  BY <1>3 DEF Update, taskVars, Verdicts, OneVerdict, Running
<1>4. CASE Await
  BY <1>4 DEF Await, Verdicts, OneVerdict, Running
<1>5. CASE Start \/ OpenPortal
  BY <1>5 DEF Start, OpenPortal, taskVars, Verdicts, OneVerdict, Untouched, Before
<1>6. CASE Proceed \/ Commit \/ Report \/ \E batch \in SUBSET portal : Fetch(batch)
  BY <1>6 DEF Proceed, Commit, Report, Fetch, taskVars, Verdicts, OneVerdict, Running
<1>7. ASSUME UNCHANGED Places, check_pc' = check_pc PROVE Verdicts'
  BY <1>7 DEF Places, Verdicts, OneVerdict, Running
<1>8. check_pc' # "failed"
  BY DEF Running
<1>. QED  BY <1>1, <1>2, <1>3, <1>4, <1>5, <1>6, <1>7, <1>8, OtherSteps

\* So does an object: with Listed and Apart, it is in one place at each moment.
LEMMA PlacesNext ==
    ASSUME CheckTypeOK, Untouched, Listed, Apart, Verdicts, LastBatch, [Next]_vars
    PROVE  Listed' /\ Apart'
<1>. SUFFICES ASSUME Running' PROVE Listed' /\ Apart'
  BY DEF Listed, Apart
<1>1. CASE OpenPortal
  <2>1. /\ snapshot' = objects /\ portal' = objects /\ tasks' = {} /\ results' = {} /\ in' = {}
        /\ out' = {} /\ cleared' = {} /\ written' = {}
    BY <1>1 DEF OpenPortal, get_objects, taskVars, txVars, Untouched, Before
  <2>2. ids(results)' = {} /\ ids(in)' = {} /\ ids(out)' = {}
    BY <2>1 DEF ids
  <2>3. Listed'
    BY <2>1, <2>2 DEF Listed
  <2>4. Apart'
    BY <2>1, <2>2 DEF Apart
  <2>. QED  BY <2>3, <2>4
<1>2. ASSUME NEW batch \in SUBSET portal, Fetch(batch) PROVE Listed' /\ Apart'
  <2>1. /\ Running /\ portal' = portal \ batch /\ tasks' = tasks \union batch
        /\ ids(results)' = ids(results) /\ ids(in)' = ids(in) /\ ids(out)' = ids(out)
        /\ UNCHANGED <<snapshot, cleared, written>>
    BY <1>2 DEF Fetch, Running, txVars
  <2>. QED  BY <2>1 DEF Listed, Apart
<1>3. ASSUME NEW o \in ObjectIds, CheckObject(o) PROVE Listed' /\ Apart'
  <2>1. /\ Running /\ o \in tasks /\ tasks' = tasks \ {o} /\ ids(results)' = ids(results) \union {o}
        /\ ids(in)' = ids(in) /\ ids(out)' = ids(out)
        /\ UNCHANGED <<snapshot, portal, cleared, written>>
    BY <1>3, IdsAdd, CheckedIsVerdict DEF CheckObject, Running, txVars
  <2>. QED  BY <2>1 DEF Listed, Apart
<1>4. ASSUME NEW v \in Verdict, Record(v) PROVE Listed' /\ Apart'
  <2>1. /\ Running /\ v \in results /\ results' = results \ {v} /\ in' = in \union {v} /\ out' = out
        /\ UNCHANGED <<snapshot, portal, tasks, cleared, written>>
    BY <1>4 DEF Record, Running, txVars
  <2>2. ids(results)' = ids(results) \ {v.id} /\ ids(in)' = ids(in) \union {v.id} /\ ids(out)' = ids(out)
    BY <2>1, IdsAdd, IdsRemove DEF Verdicts
  <2>3. v.id \in ids(results)
    BY <2>1 DEF ids
  <2>4. Listed'
    <3>1. snapshot = portal \union tasks \union ids(results) \union ids(in)
                       \union ids(out) \union cleared \union written
      BY <2>1 DEF Listed
    <3>2. (ids(results) \ {v.id}) \union (ids(in) \union {v.id}) = ids(results) \union ids(in)
      BY <2>3
    <3>3. (portal \union tasks \union ids(results) \union ids(in))'
             = portal \union tasks \union ids(results) \union ids(in)
      BY <2>1, <2>2, <3>2
    <3>. QED  BY <2>1, <2>2, <3>1, <3>3, Zenon DEF Listed
  <2>5. Apart'
    <3>1. v.id \notin portal \union tasks \union ids(in) \union ids(out) \union cleared \union written
      BY <2>1, <2>3 DEF Apart
    <3>2. /\ (portal \intersect tasks = {})'
          /\ ((portal \union tasks) \intersect ids(results) = {})'
          /\ ((portal \union tasks \union ids(results)) \intersect ids(in) = {})'
      BY <2>1, <2>2, <3>1 DEF Apart
    <3>3. /\ ((portal \union tasks \union ids(results) \union ids(in)) \intersect ids(out) = {})'
          /\ ((portal \union tasks \union ids(results) \union ids(in) \union ids(out))
                 \intersect cleared = {})'
          /\ ((portal \union tasks \union ids(results) \union ids(in) \union ids(out) \union cleared)
                 \intersect written = {})'
      BY <2>1, <2>2, <2>3 DEF Apart
    <3>. QED  BY <3>2, <3>3 DEF Apart
  <2>. QED  BY <2>4, <2>5
<1>5. CASE Await
  <2>1. /\ Running /\ ids(in)' = ids(out) /\ ids(out)' = ids(in) /\ ids(results)' = ids(results)
        /\ UNCHANGED <<snapshot, portal, tasks, cleared, written>>
    BY <1>5 DEF Await, Running, txVars
  <2>. QED  BY <2>1 DEF Listed, Apart
<1>6. ASSUME NEW v \in Verdict, Update(v) PROVE Listed' /\ Apart'
  <2>1. /\ Running /\ v \in out /\ out' = out \ {v} /\ in' = in /\ results' = results
        /\ \/ cleared' = cleared \union {v.id} /\ UNCHANGED written
           \/ written' = written \union {v.id} /\ UNCHANGED cleared
        /\ UNCHANGED <<snapshot, portal, tasks>>
    BY <1>6 DEF Update, Running, taskVars
  <2>2. ids(out)' = ids(out) \ {v.id} /\ ids(in)' = ids(in) /\ ids(results)' = ids(results)
    BY <2>1, IdsRemove DEF Verdicts
  <2>3. v.id \in ids(out)
    BY <2>1 DEF ids
  <2>. QED  BY <2>1, <2>2, <2>3 DEF Listed, Apart
<1>7. CASE Proceed \/ Commit \/ Report
  BY <1>7 DEF Proceed, Commit, Report, Listed, Apart, Running, taskVars, txVars, ids
<1>8. ASSUME UNCHANGED Places, check_pc' = check_pc PROVE Listed' /\ Apart'
  BY <1>8 DEF Places, Listed, Apart, Running, ids
<1>9. check_pc' # "failed" /\ ~Start
  BY DEF Running, Start
<1>. QED  BY <1>1, <1>2, <1>3, <1>4, <1>5, <1>6, <1>7, <1>8, <1>9, OtherSteps

\* The counters of the progress follow the verdicts, and only them.
LEMMA TalliedNext ==
    ASSUME CheckTypeOK, Untouched, Apart, Verdicts, LastBatch, Tallied, [Next]_vars
    PROVE  Tallied'
<1>. SUFFICES ASSUME Running' PROVE Tallied'
  BY DEF Tallied
<1>. DEFINE tally == Cardinality(in) + Cardinality(out) + Cardinality(cleared) + Cardinality(written)
<1>0. /\ IsFiniteSet(in) /\ IsFiniteSet(out) /\ IsFiniteSet(cleared) /\ IsFiniteSet(written)
      /\ Cardinality(in) \in Nat /\ Cardinality(out) \in Nat
      /\ Cardinality(cleared) \in Nat /\ Cardinality(written) \in Nat
  BY FiniteVerdicts, FiniteObjects DEF CheckTypeOK
<1>1. CASE OpenPortal
  <2>1. in' = {} /\ out' = {} /\ cleared' = {} /\ written' = {} /\ completed' = 0
    BY <1>1 DEF OpenPortal, taskVars, txVars, Untouched, Before, completed
  <2>. QED  BY <2>1, FS_EmptySet DEF Tallied
<1>2. ASSUME NEW v \in Verdict, Record(v) PROVE Tallied'
  <2>1. /\ Running /\ v \in results /\ in' = in \union {v} /\ UNCHANGED <<out, cleared, written>>
        /\ completed' = completed + 1
    BY <1>2 DEF Record, Running, txVars, completed, CheckTypeOK
  <2>2. v \notin in
    BY <2>1 DEF Apart, ids
  <2>3. Cardinality(in') = Cardinality(in) + 1
    BY <1>0, <2>1, <2>2, FS_AddElement
  <2>4. completed = tally
    BY <2>1 DEF Tallied
  <2>. QED  BY <1>0, <2>1, <2>3, <2>4 DEF Tallied
<1>3. CASE Await
  <2>1. Running /\ in' = out /\ out' = in /\ UNCHANGED <<cleared, written>> /\ completed' = completed
    BY <1>3 DEF Await, Running, txVars, completed
  <2>. QED  BY <1>0, <2>1 DEF Tallied
<1>4. ASSUME NEW v \in Verdict, Update(v) PROVE Tallied'
  <2>1. /\ Running /\ v \in out /\ out' = out \ {v} /\ in' = in /\ completed' = completed
        /\ \/ cleared' = cleared \union {v.id} /\ UNCHANGED written
           \/ written' = written \union {v.id} /\ UNCHANGED cleared
    BY <1>4 DEF Update, Running, taskVars, completed
  <2>2. v.id \notin cleared /\ v.id \notin written
    BY <2>1 DEF Apart, ids
  <2>3. Cardinality(out') = Cardinality(out) - 1
    BY <1>0, <2>1, FS_RemoveElement
  <2>4. /\ Cardinality(cleared') + Cardinality(written') = Cardinality(cleared) + Cardinality(written) + 1
        /\ Cardinality(cleared') \in Nat /\ Cardinality(written') \in Nat
    <3>1. CASE cleared' = cleared \union {v.id} /\ written' = written
      <4>1. Cardinality(cleared') = Cardinality(cleared) + 1
        BY <1>0, <2>2, <3>1, FS_AddElement
      <4>. QED  BY <1>0, <3>1, <4>1
    <3>2. CASE written' = written \union {v.id} /\ cleared' = cleared
      <4>1. Cardinality(written') = Cardinality(written) + 1
        BY <1>0, <2>2, <3>2, FS_AddElement
      <4>. QED  BY <1>0, <3>2, <4>1
    <3>. QED  BY <2>1, <3>1, <3>2
  <2>5. completed = tally
    BY <2>1 DEF Tallied
  <2>. QED  BY <1>0, <2>1, <2>3, <2>4, <2>5 DEF Tallied
<1>5. CASE Proceed \/ Commit \/ Report \/ \E batch \in SUBSET portal : Fetch(batch)
  BY <1>5 DEF Proceed, Commit, Report, Fetch, Tallied, Running, taskVars, txVars, completed
<1>6. ASSUME NEW o \in ObjectIds, CheckObject(o) PROVE Tallied'
  BY <1>6 DEF CheckObject, Tallied, Running, txVars, completed
<1>7. ASSUME UNCHANGED Places, check_pc' = check_pc, UNCHANGED progress PROVE Tallied'
  BY <1>7 DEF Places, Tallied, Running, completed
<1>8. check_pc' # "failed" /\ ~Start
  BY DEF Running, Start
<1>. QED  BY <1>1, <1>2, <1>3, <1>4, <1>5, <1>6, <1>7, <1>8, OtherSteps

-----------------------------------------------------------------------------
(* Batches                                                                 *)

\* What is in flight can be counted.
LEMMA FlightNat == CheckTypeOK => InFlight \in Nat /\ Cardinality(tasks) \in Nat /\ Cardinality(results) \in Nat
BY FiniteVerdicts, FiniteObjects DEF CheckTypeOK, InFlight

\* Who starts no task and ends none leaves what is in flight.
LEMMA FlightElsewhere ==
    ASSUME [Next]_vars,
           ~ \/ \E batch \in SUBSET portal : Fetch(batch)
             \/ \E o \in ObjectIds : CheckObject(o)
             \/ \E v \in Verdict : Record(v)
    PROVE  tasks' = tasks /\ results' = results
<1>. USE DEF checkVars, taskVars
<1>1. CASE Start \/ OpenPortal \/ Await \/ Proceed \/ Commit \/ PrintProgress \/ Report
  BY <1>1 DEF Start, OpenPortal, Await, Proceed, Commit, PrintProgress, Report
<1>2. ASSUME NEW v \in Verdict, Update(v) PROVE tasks' = tasks /\ results' = results
  BY <1>2 DEF Update
<1>3. CASE MissReference \/ ResolveDeadlock
  BY <1>3 DEF MissReference, ResolveDeadlock, Abandon
<1>4. ASSUME NEW o \in ObjectIds, AddRow(o) \/ PlaceFile(o)
      PROVE  tasks' = tasks /\ results' = results
  BY <1>4 DEF AddRow, PlaceFile
<1>5. CASE Prune
  BY <1>5 DEF Prune, PruneScan, PruneRow, PruneCommit, PruneFile, PruneEnd
<1>6. CASE UNCHANGED vars
  BY <1>6 DEF vars
<1>. QED  BY <1>1, <1>2, <1>3, <1>4, <1>5, <1>6 DEF Next, Check

\* Nothing in flight is no task and no result.
LEMMA FlightOver ==
    ASSUME CheckTypeOK, InFlight <= 0 PROVE tasks = {} /\ results = {}
<1>1. Cardinality(tasks) = 0 /\ Cardinality(results) = 0
  BY FlightNat DEF InFlight
<1>. QED  BY <1>1, FiniteVerdicts, FiniteObjects, FS_EmptySet DEF CheckTypeOK

\* A batch that is short of what was asked for is the rest of the portal.
LEMMA ShortBatch ==
    ASSUME CheckTypeOK, NEW batch \in SUBSET portal, Fetch(batch), ~more'
    PROVE  batch = portal
<1>1. IsFiniteSet(portal) /\ Cardinality(portal) \in Nat
  BY FiniteObjects DEF CheckTypeOK
<1>2. Cardinality(batch) = Cardinality(portal)
  BY <1>1, CheckConstants DEF Fetch
<1>. QED  BY <1>1, <1>2, FS_Subset

\* The short batch is waited for to the last verdict, a full one only to the threshold.
LEMMA LastBatchNext ==
    ASSUME CheckTypeOK, Untouched, LastBatch, [Next]_vars
    PROVE  LastBatch'
<1>. USE DEF LastBatch, Running, Ready
<1>1. CASE Start
  BY <1>1 DEF Start
<1>2. CASE OpenPortal
  BY <1>2 DEF OpenPortal, Untouched, Before
<1>3. ASSUME NEW batch \in SUBSET portal, Fetch(batch) PROVE LastBatch'
  <2>1. check_pc = "fetching" /\ check_pc' = "waiting" /\ portal' = portal \ batch /\ out' = out
    BY <1>3 DEF Fetch
  <2>2. ~more' => portal' = {}
    BY <1>3, <2>1, ShortBatch
  <2>. QED  BY <2>1, <2>2
<1>4. ASSUME NEW o \in ObjectIds, CheckObject(o) PROVE LastBatch'
  BY <1>4 DEF CheckObject
<1>5. ASSUME NEW v \in Verdict, Record(v) PROVE LastBatch'
  BY <1>5 DEF Record
<1>6. CASE Await
  <2>1. /\ check_pc = "waiting" /\ check_pc' = "updating" /\ in' = out
        /\ UNCHANGED <<portal, more, tasks, results>> /\ out = {}
    BY <1>6 DEF Await
  <2>2. ~more => InFlight <= 0
    BY <1>6 DEF Await
  <2>3. ~more => tasks = {} /\ results = {}
    BY <2>2, FlightOver
  <2>. QED  BY <2>1, <2>3
<1>7. ASSUME NEW v \in Verdict, Update(v) PROVE LastBatch'
  BY <1>7 DEF Update, taskVars
<1>8. CASE Proceed \/ Commit \/ Report
  BY <1>8 DEF Proceed, Commit, Report, taskVars
<1>9. ASSUME UNCHANGED Places, check_pc' = check_pc PROVE LastBatch'
  BY <1>9 DEF Places
<1>10. CASE check_pc' = "failed"
  BY <1>10
<1>. QED  BY <1>1, <1>2, <1>3, <1>4, <1>5, <1>6, <1>7, <1>8, <1>9, <1>10, OtherSteps

\* A batch is fetched only when half of one is in flight at most.
LEMMA ThresholdNext ==
    ASSUME CheckTypeOK, Untouched, LastBatch, Threshold, [Next]_vars
    PROVE  Threshold'
<1>. DEFINE half == BatchSize \div 2
<1>0. /\ half \in Nat /\ BatchSize \in Nat
      /\ IsFiniteSet(tasks) /\ IsFiniteSet(results) /\ IsFiniteSet(portal)
      /\ Cardinality(tasks) \in Nat /\ Cardinality(results) \in Nat /\ Cardinality(portal) \in Nat
      /\ InFlight \in Nat
  BY CheckConstants, FiniteVerdicts, FiniteObjects, FlightNat DEF CheckTypeOK
<1>1. check_pc \in {"fetching", "updating"} => InFlight <= half
  BY DEF Threshold
<1>2. InFlight <= BatchSize + half
  BY DEF Threshold
<1>3. SUFFICES /\ check_pc' \in {"fetching", "updating"} => InFlight' <= half
               /\ InFlight' <= BatchSize + half
  BY DEF Threshold
<1>. HIDE DEF half
<1>4. CASE Start
  BY <1>0, <1>2, <1>4 DEF Start, InFlight
<1>5. CASE OpenPortal
  <2>1. tasks' = {} /\ results' = {}
    BY <1>5 DEF OpenPortal, taskVars, Untouched, Before
  <2>2. InFlight' = 0
    BY <2>1, FS_EmptySet DEF InFlight
  <2>. QED  BY <1>0, <2>2
<1>6. ASSUME NEW batch \in SUBSET portal, Fetch(batch)
      PROVE  check_pc' = "waiting" /\ InFlight' <= BatchSize + half
  <2>1. /\ check_pc = "fetching" /\ check_pc' = "waiting"
        /\ tasks' = tasks \union batch /\ results' = results
    BY <1>6 DEF Fetch
  <2>2. Cardinality(batch) <= BatchSize
    BY <1>0, <1>6 DEF Fetch
  <2>3. IsFiniteSet(batch) /\ Cardinality(batch) \in Nat
    BY <1>0, FS_Subset, FS_CardinalityType
  <2>4. Cardinality(tasks') <= Cardinality(tasks) + Cardinality(batch) /\ Cardinality(tasks') \in Nat
    <3>1. /\ Cardinality(tasks \union batch)
               = Cardinality(tasks) + Cardinality(batch) - Cardinality(tasks \intersect batch)
          /\ IsFiniteSet(tasks \union batch)
      BY <1>0, <2>3, FS_Union
    <3>2. Cardinality(tasks \intersect batch) \in Nat /\ Cardinality(tasks \union batch) \in Nat
      BY <1>0, <3>1, FS_Intersection, FS_CardinalityType
    <3>. QED  BY <1>0, <2>1, <2>3, <3>1, <3>2
  <2>5. Cardinality(tasks) + Cardinality(results) <= half
    BY <1>1, <2>1 DEF InFlight
  <2>6. InFlight' = Cardinality(tasks') + Cardinality(results)
    BY <2>1 DEF InFlight
  <2>. QED  BY <1>0, <2>1, <2>2, <2>3, <2>4, <2>5, <2>6
<1>7. ASSUME NEW o \in ObjectIds, CheckObject(o)
      PROVE  check_pc' = check_pc /\ InFlight' <= InFlight /\ InFlight' \in Nat
  <2>1. /\ o \in tasks /\ tasks' = tasks \ {o} /\ results' = results \union {check_object(o)}
        /\ check_pc' = check_pc
    BY <1>7 DEF CheckObject
  <2>2. Cardinality(tasks') = Cardinality(tasks) - 1
    BY <1>0, <2>1, FS_RemoveElement
  <2>3. Cardinality(results') <= Cardinality(results) + 1 /\ Cardinality(results') \in Nat
    <3>1. Cardinality(results \union {check_object(o)})
            = IF check_object(o) \in results THEN Cardinality(results) ELSE Cardinality(results) + 1
      BY <1>0, FS_AddElement
    <3>. QED  BY <1>0, <2>1, <3>1
  <2>4. Cardinality(tasks') \in Nat
    BY <1>0, <2>1, FS_RemoveElement, FS_CardinalityType
  <2>. QED  BY <1>0, <2>1, <2>2, <2>3, <2>4 DEF InFlight
<1>8. ASSUME NEW v \in Verdict, Record(v)
      PROVE  check_pc' = check_pc /\ InFlight' <= InFlight /\ InFlight' \in Nat
  <2>1. v \in results /\ results' = results \ {v} /\ tasks' = tasks /\ check_pc' = check_pc
    BY <1>8 DEF Record
  <2>2. Cardinality(results') = Cardinality(results) - 1 /\ Cardinality(results') \in Nat
    BY <1>0, <2>1, FS_RemoveElement, FS_CardinalityType
  <2>. QED  BY <1>0, <2>1, <2>2 DEF InFlight
<1>9. CASE Await
  <2>1. InFlight' = InFlight /\ InFlight <= IF more THEN half ELSE 0
    BY <1>9 DEF Await, InFlight, half
  <2>. QED  BY <1>0, <2>1
<1>10. ASSUME NEW v \in Verdict, Update(v)
       PROVE  check_pc' = check_pc /\ InFlight' = InFlight
  BY <1>10 DEF Update, taskVars, InFlight
<1>11. CASE Proceed \/ Commit \/ Report
  <2>1. InFlight' = InFlight /\ (check_pc' = "fetching" => check_pc = "updating") /\ check_pc' # "updating"
    BY <1>11 DEF Proceed, Commit, Report, taskVars, InFlight
  <2>. QED  BY <1>1, <1>2, <2>1
<1>12. CASE check_pc' = "failed"
  <2>1. CASE ~ \/ \E batch \in SUBSET portal : Fetch(batch)
               \/ \E o \in ObjectIds : CheckObject(o)
               \/ \E v \in Verdict : Record(v)
    <3>1. InFlight' = InFlight
      BY <2>1, FlightElsewhere DEF InFlight
    <3>. QED  BY <1>2, <1>12, <3>1
  <2>. QED  BY <1>0, <1>2, <1>6, <1>7, <1>8, <1>12, <2>1
<1>13. ASSUME UNCHANGED Places, check_pc' = check_pc
       PROVE  check_pc' = check_pc /\ InFlight' = InFlight
  BY <1>13 DEF Places, InFlight
<1>14. ASSUME check_pc' = check_pc, InFlight' <= InFlight, InFlight' \in Nat
       PROVE  /\ check_pc' \in {"fetching", "updating"} => InFlight' <= half
              /\ InFlight' <= BatchSize + half
  BY <1>0, <1>1, <1>2, <1>14
<1>. QED  BY <1>0, <1>4, <1>5, <1>6, <1>7, <1>8, <1>9, <1>10, <1>11, <1>12, <1>13, <1>14, OtherSteps

-----------------------------------------------------------------------------
(* What is stored and shown                                                *)

\* An entry the transaction wrote keeps its row until the commit.
LEMMA ErrorsNext ==
    ASSUME CheckTypeOK, Untouched, LastBatch, ErrorsHaveObjects, WrittenHaveObjects, [Next]_vars
    PROVE  ErrorsHaveObjects' /\ WrittenHaveObjects'
<1>. USE DEF ErrorsHaveObjects, WrittenHaveObjects
<1>1. CASE Start
  BY <1>1 DEF Start, storeVars
<1>2. CASE OpenPortal
  BY <1>2 DEF OpenPortal, storeVars, txVars, Untouched, Before
<1>3. ASSUME NEW batch \in SUBSET portal, Fetch(batch)
      PROVE  ErrorsHaveObjects' /\ WrittenHaveObjects'
  BY <1>3 DEF Fetch, storeVars, txVars
<1>4. ASSUME NEW o \in ObjectIds, CheckObject(o)
      PROVE  ErrorsHaveObjects' /\ WrittenHaveObjects'
  BY <1>4 DEF CheckObject, storeVars, txVars
<1>5. ASSUME NEW v \in Verdict, Record(v)
      PROVE  ErrorsHaveObjects' /\ WrittenHaveObjects'
  BY <1>5 DEF Record, storeVars, txVars
<1>6. CASE Await \/ Proceed \/ Report \/ PrintProgress
  BY <1>6 DEF Await, Proceed, Report, PrintProgress, storeVars, txVars
<1>7. ASSUME NEW v \in Verdict, Update(v)
      PROVE  ErrorsHaveObjects' /\ WrittenHaveObjects'
  BY <1>7 DEF Update, storeVars
<1>8. CASE Commit
  BY <1>8 DEF Commit, txVars
<1>9. CASE MissReference \/ ResolveDeadlock
  BY <1>9 DEF MissReference, ResolveDeadlock, Abandon, CheckWaits, storeVars, checkVars, txVars
<1>10. ASSUME NEW o \in ObjectIds, AddRow(o) \/ PlaceFile(o)
       PROVE  ErrorsHaveObjects' /\ WrittenHaveObjects'
  BY <1>10 DEF AddRow, PlaceFile, checkVars, txVars
<1>11. CASE Prune
  <2>1. CASE PruneCommit
    <3>1. /\ objects' = objects \ deleted /\ object_error' = object_error \ deleted
          /\ deleted \intersect LockedEntries = {} /\ UNCHANGED checkVars
      BY <2>1 DEF PruneCommit
    <3>2. check_pc \in {"fetching", "waiting", "updating"} => deleted \intersect written = {}
      BY <3>1 DEF LockedEntries
    <3>. QED  BY <3>1, <3>2 DEF checkVars, txVars
  <2>2. CASE ~PruneCommit
    BY <1>11, <2>2 DEF Prune, PruneScan, PruneRow, PruneFile, PruneEnd, storeVars, checkVars, txVars
  <2>. QED  BY <2>1, <2>2
<1>12. CASE UNCHANGED vars
  BY <1>12 DEF vars, storeVars, checkVars, txVars
<1>. QED  BY <1>1, <1>2, <1>3, <1>4, <1>5, <1>6, <1>7, <1>8, <1>9, <1>10, <1>11, <1>12 DEF Next, Check

\* Once the check is ready, nothing that is counted changes any more.
LEMMA PrinterNext ==
    ASSUME CheckTypeOK, LastBatch, PrinterLast, [Next]_vars
    PROVE  PrinterLast'
<1>. USE DEF PrinterLast, Ready, printerVars
<1>1. CASE Start
  BY <1>1 DEF Start
<1>2. ASSUME NEW v \in Verdict, Record(v) PROVE PrinterLast'
  BY <1>2 DEF Record, LastBatch
<1>3. ASSUME NEW o \in ObjectIds, CheckObject(o) PROVE PrinterLast'
  BY <1>3 DEF CheckObject, completed
<1>4. ASSUME NEW v \in Verdict, Update(v) PROVE PrinterLast'
  BY <1>4 DEF Update, taskVars, completed
<1>5. ASSUME NEW batch \in SUBSET portal, Fetch(batch) PROVE PrinterLast'
  BY <1>5 DEF Fetch
<1>6. CASE OpenPortal \/ Await \/ Proceed \/ Commit
  BY <1>6 DEF OpenPortal, Await, Proceed, Commit, taskVars
<1>7. CASE PrintProgress
  BY <1>7 DEF PrintProgress, print_progress, taskVars, completed
<1>8. CASE Report
  BY <1>8 DEF Report, taskVars, completed
<1>9. CASE MissReference \/ ResolveDeadlock
  BY <1>9 DEF MissReference, ResolveDeadlock, Abandon, checkVars, taskVars, completed
<1>10. ASSUME NEW o \in ObjectIds, AddRow(o) \/ PlaceFile(o) PROVE PrinterLast'
  BY <1>10 DEF AddRow, PlaceFile, checkVars, taskVars, completed
<1>11. CASE Prune
  BY <1>11 DEF Prune, PruneScan, PruneRow, PruneCommit, PruneFile, PruneEnd, checkVars, taskVars, completed
<1>12. CASE UNCHANGED vars
  BY <1>12 DEF vars, checkVars, taskVars, completed
<1>. QED  BY <1>1, <1>2, <1>3, <1>4, <1>5, <1>6, <1>7, <1>8, <1>9, <1>10, <1>11, <1>12 DEF Next, Check

-----------------------------------------------------------------------------
(* The invariant, and what follows from it                                 *)

\* A store that was never checked satisfies the invariant.
LEMMA CheckInvInit == Init => CheckInv
<1>. SUFFICES ASSUME Init PROVE CheckInv
  OBVIOUS
<1>1. /\ check_pc = "idle" /\ snapshot = {} /\ portal = {} /\ tasks = {} /\ results = {} /\ in = {}
      /\ out = {} /\ cleared = {} /\ written = {}
      /\ progress = [success |-> 0, errors |-> 0, total |-> 0]
      /\ object_error \subseteq objects
      /\ printer = (IF Quiet THEN "none" ELSE "waiting")
  BY DEF Init
<1>2. InFlight = 0 /\ BatchSize \div 2 \in Nat /\ BatchSize \in Nat
  BY <1>1, FS_EmptySet, CheckConstants DEF InFlight
<1>3. Threshold
  BY <1>1, <1>2 DEF Threshold
<1>4. completed = 0
  BY <1>1 DEF completed
<1>5. Untouched /\ Listed /\ Apart /\ Verdicts /\ Tallied /\ LastBatch
  BY <1>1, <1>4 DEF Untouched, Listed, Apart, Verdicts, Tallied, LastBatch, Running, Ready, Before
<1>6. ErrorsHaveObjects /\ WrittenHaveObjects /\ PrinterLast
  BY <1>1 DEF ErrorsHaveObjects, WrittenHaveObjects, PrinterLast
<1>. QED  BY <1>3, <1>5, <1>6, TypeInit DEF CheckInv

\* Every step keeps the parts of the invariant together.
LEMMA CheckInvNext == CheckInv /\ [Next]_vars => CheckInv'
BY TypeNext, UntouchedNext, PlacesNext, VerdictsNext, TalliedNext, LastBatchNext, ThresholdNext,
   ErrorsNext, PrinterNext DEF CheckInv

\* Of every behaviour of a check, beside prune and uploads, the invariant holds.
LEMMA CheckInvHolds == Spec => []CheckInv
BY CheckInvInit, CheckInvNext, PTL DEF Spec

\* Type correctness of the check, for any number of objects and any batches.
THEOREM CheckTypeOKHolds == Spec => []CheckTypeOK
<1>1. CheckInv => CheckTypeOK
  BY DEF CheckInv
<1>. QED  BY <1>1, CheckInvHolds, PTL

\* Every object listed is in one place, and the progress counts them.
THEOREM EachOnceHolds == Spec => []EachOnce
<1>1. CheckInv => EachOnce
  <2>. SUFFICES ASSUME CheckInv, Running PROVE EachOnce
    BY DEF EachOnce
  <2>. DEFINE places == <<portal, tasks, ids(results), ids(in), ids(out), cleared, written>>
  <2>1. DOMAIN places = 1 .. 7
    OBVIOUS
  <2>2. /\ places[1] = portal /\ places[2] = tasks /\ places[3] = ids(results) /\ places[4] = ids(in)
        /\ places[5] = ids(out) /\ places[6] = cleared /\ places[7] = written
    OBVIOUS
  <2>3. \A i \in 1 .. 7 : i = 1 \/ i = 2 \/ i = 3 \/ i = 4 \/ i = 5 \/ i = 6 \/ i = 7
    OBVIOUS
  <2>. HIDE DEF places
  <2>4. snapshot = UNION {places[i] : i \in DOMAIN places}
    <3>1. UNION {places[i] : i \in 1 .. 7}
            = places[1] \union places[2] \union places[3] \union places[4] \union places[5]
                \union places[6] \union places[7]
      BY <2>3
    <3>. QED  BY <2>1, <2>2, <3>1 DEF CheckInv, Listed
  <2>5. \A i, j \in 1 .. 7 : i < j => places[i] \intersect places[j] = {}
    <3>1. /\ \A i \in 1 .. 7 : i < 2 => places[i] \intersect places[2] = {}
          /\ \A i \in 1 .. 7 : i < 3 => places[i] \intersect places[3] = {}
          /\ \A i \in 1 .. 7 : i < 4 => places[i] \intersect places[4] = {}
      BY <2>2, <2>3 DEF CheckInv, Apart
    <3>2. /\ \A i \in 1 .. 7 : i < 5 => places[i] \intersect places[5] = {}
          /\ \A i \in 1 .. 7 : i < 6 => places[i] \intersect places[6] = {}
          /\ \A i \in 1 .. 7 : i < 7 => places[i] \intersect places[7] = {}
      BY <2>2, <2>3 DEF CheckInv, Apart
    <3>. QED  BY <2>3, <3>1, <3>2
  <2>6. \A i, j \in DOMAIN places : i # j => places[i] \intersect places[j] = {}
    <3>1. \A i, j \in 1 .. 7 : i # j => i < j \/ j < i
      OBVIOUS
    <3>. QED  BY <2>1, <2>5, <3>1
  <2>7. completed = Cardinality(in) + Cardinality(out) + Cardinality(cleared) + Cardinality(written)
    BY DEF CheckInv, Tallied
  <2>. QED  BY <2>4, <2>6, <2>7 DEF EachOnce, places
<1>. QED  BY <1>1, CheckInvHolds, PTL

\* A check that commits has left nothing behind.
THEOREM NothingLeftHolds == Spec => []NothingLeft
<1>1. CheckInv => NothingLeft
  BY DEF CheckInv, LastBatch, Running, Ready, NothingLeft
<1>. QED  BY <1>1, CheckInvHolds, PTL

\* The tasks in flight are bounded by the batch, not by the store.
THEOREM InFlightBoundedHolds == Spec => []InFlightBounded
<1>1. CheckInv => InFlightBounded
  BY DEF CheckInv, Threshold, InFlightBounded
<1>. QED  BY <1>1, CheckInvHolds, PTL

\* No verdict outlives its object, whenever prune runs.
THEOREM ErrorsHaveObjectsHolds == Spec => []ErrorsHaveObjects
<1>1. CheckInv => ErrorsHaveObjects
  BY DEF CheckInv
<1>. QED  BY <1>1, CheckInvHolds, PTL

\* The progress that is left on the screen agrees with the result.
THEOREM LastLineIsFinalHolds == Spec => []LastLineIsFinal
<1>1. CheckInv => LastLineIsFinal
  <2>. SUFFICES ASSUME CheckInv, check_pc = "reported", ~Quiet, progress.total # 0
                PROVE  shown = completed
    BY DEF LastLineIsFinal
  <2>1. printer \in {"none", "waiting", "ended"}
    BY DEF CheckInv, CheckTypeOK
  <2>. QED  BY <2>1 DEF CheckInv, PrinterLast
<1>. QED  BY <1>1, CheckInvHolds, PTL
=============================================================================
