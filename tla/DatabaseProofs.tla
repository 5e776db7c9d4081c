--------------------------- MODULE DatabaseProofs ---------------------------
(***************************************************************************)
(* What each call of the database keeps, whoever makes it: the types of the*)
(* tables and the constraints between them; and what the views and totals  *)
(* add up to, with what the folds they are made of compute.                *)
(***************************************************************************)
EXTENDS Database, SequenceTheorems, FiniteSetTheorems, WellFoundedInduction, TLAPS

-----------------------------------------------------------------------------
(* Contents                                                                *)

\* What commit_part finds out about a part is a well-formed row.
LEMMA DescribeType ==
    ASSUME NEW bytes \in Bytes
    PROVE  describe(bytes) \in Row
  BY DEF Bytes, describe, sha256sum, Row, Digests

\* A row tells which contents it was made from (no collisions).
LEMMA DescribeInjective ==
    ASSUME NEW x \in Bytes, NEW y \in Bytes, sha256sum(x) = sha256sum(y)
    PROVE  x = y
  BY DEF sha256sum

\* A write keeps the contents of files a sequence of chunks.
LEMMA AppendType ==
    ASSUME NEW bytes \in Bytes, NEW chunk \in Chunks
    PROVE  Append(bytes, chunk) \in Bytes
  BY DEF Bytes

\* The rows of contents of some size are rows.
LEMMA RowsType ==
    ASSUME NEW n \in Nat, NEW row \in RowsUpTo(n)
    PROVE  row \in Row
<1>1. PICK k \in 0..n : \E bytes \in [1..k -> Chunks] : row = describe(bytes)
  BY DEF RowsUpTo
<1>2. PICK bytes \in [1..k -> Chunks] : row = describe(bytes)
  BY <1>1
<1>3. bytes \in Bytes
  BY <1>2, SeqDef DEF Bytes
<1>. QED  BY <1>2, <1>3, DescribeType

-----------------------------------------------------------------------------
(* Types                                                                   *)

\* An insertion, or one that is skipped, keeps the rows well-formed.
LEMMA CreateObjectType ==
    ASSUME NEW o \in ObjectIds, NEW row \in Row,
           object \in [ObjectIds -> Row \union {Null}]
    PROVE  create_object(o, row) \in [ObjectIds -> Row \union {Null}]
  BY DEF create_object

\* add_object keeps the tables well-formed.
LEMMA AddObjectType ==
    ASSUME DbTypeOK,
           NEW b \in BucketIds, NEW o \in ObjectIds, NEW row \in Row, NEW id \in ObjectIds,
           add_object(b, o, row, id)
    PROVE  DbTypeOK'
  BY CreateObjectType DEF DbTypeOK, add_object

\* So does prune's deletion.
LEMMA DeleteObjectsType ==
    ASSUME DbTypeOK, NEW objects, delete_objects(objects)
    PROVE  DbTypeOK'
  BY DEF DbTypeOK, delete_objects

\* So do removals from a bucket.
LEMMA RemoveObjectsType ==
    ASSUME DbTypeOK,
           \/ \E b \in BucketIds, o \in ObjectIds : remove_object(b, o)
           \/ \E b \in BucketIds, objects \in SUBSET ObjectIds : remove_objects(b, objects)
    PROVE  DbTypeOK'
  BY DEF DbTypeOK, remove_object, remove_objects

\* So does the removal of one.
LEMMA RemoveBucketType ==
    ASSUME DbTypeOK, NEW b \in BucketIds, remove_bucket(b)
    PROVE  DbTypeOK'
  BY DEF DbTypeOK, remove_bucket

\* So do a new bucket and a new name.
LEMMA BucketNameType ==
    ASSUME DbTypeOK, NEW b \in BucketIds, NEW name \in Names,
           create_bucket(b, name) \/ rename_bucket(b, name)
    PROVE  DbTypeOK'
  BY DEF DbTypeOK, create_bucket, rename_bucket

\* So does a batch of check results.
LEMMA ErrorsType ==
    ASSUME DbTypeOK, NEW sound, NEW broken, update_object_errors(sound, broken)
    PROVE  DbTypeOK'
  BY DEF DbTypeOK, update_object_errors, Objects

-----------------------------------------------------------------------------
(* Constraints                                                             *)

\* A reference add_object inserts has both ends, and a row it inserts a hash of its own.
LEMMA AddObjectConstraints ==
    ASSUME DbTypeOK, Constraints,
           NEW b \in BucketIds, NEW o \in ObjectIds, NEW row \in Row, NEW id \in ObjectIds,
           add_object(b, o, row, id)
    PROVE  Constraints'
<1> USE NullIsNoRow DEF Buckets, Objects
<1>1. Objects \subseteq Objects' /\ \A p \in Objects : object'[p] = object[p]
  BY CreateObjectType DEF add_object, create_object, DbTypeOK
<1>2. id \in Objects'
  BY DEF add_object, IdsForHash
<1>3. \A p \in Objects' \ Objects : p = o /\ object'[p] = row /\ ~HashTaken(row)
  BY DEF add_object, create_object, DbTypeOK
<1>4. \A p, q \in Objects' : object'[p].hash = object'[q].hash => p = q
  BY <1>1, <1>3 DEF Constraints, HashTaken
<1>5. \A r \in bucket_object' : r[1] \in Buckets' /\ r[2] \in Objects'
  BY <1>1, <1>2 DEF Constraints, add_object
<1>6. object_error' \subseteq Objects'
  BY <1>1 DEF Constraints, add_object
<1>7. \A c, d \in Buckets' : bucket'[c] = bucket'[d] => c = d
  BY DEF Constraints, add_object
<1> QED
  BY <1>4, <1>5, <1>6, <1>7 DEF Constraints

\* prune's deletion takes references and entries with the rows, those too that
\* came after its snapshot.
LEMMA DeleteObjectsConstraints ==
    ASSUME Constraints, NEW objects, delete_objects(objects)
    PROVE  Constraints'
  BY DEF delete_objects, Constraints, Buckets, Objects

\* Removals only take references away,
LEMMA RemoveObjectsConstraints ==
    ASSUME Constraints,
           \/ \E b \in BucketIds, o \in ObjectIds : remove_object(b, o)
           \/ \E b \in BucketIds, objects \in SUBSET ObjectIds : remove_objects(b, objects)
    PROVE  Constraints'
  BY DEF remove_object, remove_objects, Constraints, Buckets, Objects

\* and the removal of a bucket takes all of its own.
LEMMA RemoveBucketConstraints ==
    ASSUME DbTypeOK, Constraints, NEW b \in BucketIds, remove_bucket(b)
    PROVE  Constraints'
  BY DEF remove_bucket, Constraints, Buckets, Objects, DbTypeOK

\* A name that is taken is neither given to a new bucket nor to another one.
LEMMA BucketNameConstraints ==
    ASSUME DbTypeOK, Constraints, NEW b \in BucketIds, NEW name \in Names,
           create_bucket(b, name) \/ rename_bucket(b, name)
    PROVE  Constraints'
<1>. USE DEF Buckets, Objects
<1>1. name # Null
  BY NullIsNoId
<1>2. \A c \in BucketIds : bucket'[c] = bucket[c] \/ (c = b /\ bucket'[c] = name)
  BY DEF create_bucket, rename_bucket, DbTypeOK
<1>3. Buckets \subseteq Buckets'
  BY <1>1, <1>2
<1>4. \A c \in Buckets' \ {b} : bucket'[b] # Null /\ bucket[c] = bucket'[b] => FALSE
  BY <1>2 DEF create_bucket, rename_bucket, DbTypeOK, NameTaken, RenameRejected, Constraints
<1>5. \A c, d \in Buckets' : bucket'[c] = bucket'[d] => c = d
  BY <1>2, <1>4 DEF Constraints
<1>6. UNCHANGED <<object, bucket_object, object_error>>
  BY DEF create_bucket, rename_bucket
<1>. QED  BY <1>3, <1>5, <1>6 DEF Constraints

\* A broken object that is gone is refused.
LEMMA ErrorsConstraints ==
    ASSUME Constraints, NEW sound, NEW broken, update_object_errors(sound, broken)
    PROVE  Constraints'
  BY DEF update_object_errors, Constraints, Buckets, Objects

-----------------------------------------------------------------------------
\* The server's calls and the other commands' keep both.
LEMMA ObjectCallsKeep ==
    ASSUME DbTypeOK, Constraints, NEW n \in Nat, ObjectCalls(RowsUpTo(n))
    PROVE  DbTypeOK' /\ Constraints'
<1>1. ASSUME NEW b \in BucketIds, NEW o \in ObjectIds, NEW id \in ObjectIds, NEW row \in RowsUpTo(n),
             add_object(b, o, row, id)
      PROVE  DbTypeOK' /\ Constraints'
  BY <1>1, RowsType, AddObjectType, AddObjectConstraints
<1>2. ASSUME \/ \E b \in BucketIds, o \in ObjectIds : remove_object(b, o)
             \/ \E b \in BucketIds, objects \in SUBSET ObjectIds : remove_objects(b, objects)
      PROVE  DbTypeOK' /\ Constraints'
  BY <1>2, RemoveObjectsType, RemoveObjectsConstraints
<1>3. ASSUME delete_objects(orphans_of_snapshot) PROVE DbTypeOK' /\ Constraints'
  BY <1>3, DeleteObjectsType, DeleteObjectsConstraints
<1>4. ASSUME NEW sound \in SUBSET Objects, NEW broken \in SUBSET Objects,
             update_object_errors(sound, broken)
      PROVE  DbTypeOK' /\ Constraints'
  BY <1>4, ErrorsType, ErrorsConstraints
<1>. QED  BY <1>1, <1>2, <1>3, <1>4 DEF ObjectCalls

-----------------------------------------------------------------------------
(* Sums.  The views add up sizes with MapThenSumSet, a fold that takes the  *)
(* elements of a set one by one as CHOOSE has it.  What it computes is     *)
(* shown here to be a sum, whatever the order: by way of a smallest set    *)
(* that would be a counterexample, for sets are finite and hence cannot    *)
(* shrink forever.                                                         *)

Choice(s) == CHOOSE x \in s : TRUE

\* The function that the definition of the fold recurs over.
IsFold(h, f, S) ==
    h = [s \in SUBSET S |-> IF s = {} THEN 0 ELSE f[Choice(s)] + h[s \ {Choice(s)}]]

\* The sum of f[x] over the elements x of S.
Sum(f, S) == (CHOOSE h : IsFold(h, f, S))[S]

\* Among finite sets there is one that none of the others is a part of.
LEMMA SmallestSet ==
    ASSUME NEW T, T # {}, \A X \in T : IsFiniteSet(X)
    PROVE  \E X \in T : \A Y \in T : Y \subseteq X => Y = X
<1>. DEFINE U == UNION T
            R == StrictSubsetOrdering(U)
<1>1. T \subseteq FiniteSubsetsOf(U)
  BY DEF FiniteSubsetsOf
<1>2. IsWellFoundedOn(R, FiniteSubsetsOf(U))
  BY FS_StrictSubsetOrderingWellFounded
<1>3. PICK X \in T : \A Y \in T : ~(<<Y, X>> \in R)
  <2>. HIDE DEF R, U
  <2>. QED  BY <1>1, <1>2, WFMin
<1>4. ASSUME NEW Y \in T, Y \subseteq X PROVE Y = X
  <2>1. <<Y, X>> \notin R
    <3>. HIDE DEF R
    <3>. QED  BY <1>3
  <2>. QED  BY <1>4, <2>1 DEF StrictSubsetOrdering
<1>. QED  BY <1>4

\* Two such functions agree wherever both are defined,
LEMMA FoldUnique ==
    ASSUME NEW f, NEW S, NEW R, NEW g, NEW h, IsFold(g, f, S), IsFold(h, f, R),
           NEW s, s \subseteq S, s \subseteq R, IsFiniteSet(s)
    PROVE  g[s] = h[s]
<1>. SUFFICES ASSUME g[s] # h[s] PROVE FALSE
  OBVIOUS
<1>. DEFINE T == {t \in SUBSET s : g[t] # h[t]}
<1>1. T # {} /\ \A X \in T : IsFiniteSet(X)
  BY FS_Subset
<1>2. PICK X \in T : \A Y \in T : Y \subseteq X => Y = X
  <2>. HIDE DEF T
  <2>. QED  BY <1>1, SmallestSet
<1>3. /\ g[X] = IF X = {} THEN 0 ELSE f[Choice(X)] + g[X \ {Choice(X)}]
      /\ h[X] = IF X = {} THEN 0 ELSE f[Choice(X)] + h[X \ {Choice(X)}]
  BY Zenon DEF IsFold
<1>4. X # {} => X \ {Choice(X)} \subseteq X /\ X \ {Choice(X)} # X
  BY DEF Choice
<1>. QED  BY <1>2, <1>3, <1>4

\* and on a finite set there is one, put together from those of its subsets.
LEMMA FoldExists ==
    ASSUME NEW f, NEW S, IsFiniteSet(S)
    PROVE  \E h : IsFold(h, f, S)
<1>. SUFFICES ASSUME ~\E h : IsFold(h, f, S) PROVE FALSE
  OBVIOUS
<1>. DEFINE T == {t \in SUBSET S : ~\E h : IsFold(h, f, t)}
            H(t) == CHOOSE h : IsFold(h, f, t)
<1>1. T # {} /\ \A X \in T : IsFiniteSet(X)
  BY FS_Subset
<1>2. PICK X \in T : \A Y \in T : Y \subseteq X => Y = X
  <2>. HIDE DEF T
  <2>. QED  BY <1>1, SmallestSet
<1>3. \A t \in SUBSET X : t # X => IsFold(H(t), f, t) /\ IsFiniteSet(t)
  BY <1>1, <1>2, FS_Subset
<1>. DEFINE v == [s \in SUBSET X |->
                    IF s = {} THEN 0 ELSE f[Choice(s)] + H(s \ {Choice(s)})[s \ {Choice(s)}]]
<1>. HIDE DEF H
<1>4. ASSUME NEW t \in SUBSET X, t # X PROVE v[t] = H(t)[t]
  <2>1. IsFold(H(t), f, t) /\ IsFiniteSet(t)
    BY <1>3, <1>4
  <2>2. H(t)[t] = IF t = {} THEN 0 ELSE f[Choice(t)] + H(t)[t \ {Choice(t)}]
    BY <2>1, Zenon DEF IsFold
  <2>3. v[t] = IF t = {} THEN 0 ELSE f[Choice(t)] + H(t \ {Choice(t)})[t \ {Choice(t)}]
    OBVIOUS
  <2>4. ASSUME t # {} PROVE H(t)[t \ {Choice(t)}] = H(t \ {Choice(t)})[t \ {Choice(t)}]
    <3>1. t \ {Choice(t)} \in SUBSET X /\ t \ {Choice(t)} # X /\ t \ {Choice(t)} \subseteq t
      BY <1>4 DEF Choice
    <3>2. IsFold(H(t \ {Choice(t)}), f, t \ {Choice(t)}) /\ IsFiniteSet(t \ {Choice(t)})
      BY <1>3, <3>1
    <3>. QED  BY <2>1, <3>1, <3>2, FoldUnique
  <2>. QED  BY <2>2, <2>3, <2>4
<1>5. IsFold(v, f, X)
  <2>1. ASSUME NEW s \in SUBSET X, s # {}
        PROVE  H(s \ {Choice(s)})[s \ {Choice(s)}] = v[s \ {Choice(s)}]
    <3>1. s \ {Choice(s)} \in SUBSET X /\ s \ {Choice(s)} # X
      BY <2>1 DEF Choice
    <3>. HIDE DEF v
    <3>. QED  BY <1>4, <3>1
  <2>2. v = [s \in SUBSET X |-> IF s = {} THEN 0 ELSE f[Choice(s)] + v[s \ {Choice(s)}]]
    BY <2>1, Zenon
  <2>. QED  BY <2>2 DEF IsFold
<1>. QED  BY <1>2, <1>5

\* Hence the recursion that the definition means does take place.
LEMMA SumStep ==
    ASSUME NEW f, NEW S, IsFiniteSet(S)
    PROVE  Sum(f, S) = IF S = {} THEN 0 ELSE f[Choice(S)] + Sum(f, S \ {Choice(S)})
<1>. DEFINE h == CHOOSE h : IsFold(h, f, S)
            R == S \ {Choice(S)}
            g == CHOOSE g : IsFold(g, f, R)
<1>1. IsFiniteSet(R) /\ R \subseteq S
  BY FS_Subset
<1>2. IsFold(h, f, S) /\ IsFold(g, f, R)
  BY <1>1, FoldExists
<1>3. Sum(f, S) = h[S] /\ Sum(f, R) = g[R]
  BY DEF Sum
<1>. HIDE DEF h, g
<1>4. h[S] = IF S = {} THEN 0 ELSE f[Choice(S)] + h[R]
  BY <1>2, Zenon DEF IsFold
<1>5. h[R] = g[R]
  <2>. HIDE DEF R
  <2>. QED  BY <1>1, <1>2, FoldUnique
<1>. QED  BY <1>3, <1>4, <1>5
\* Nothing adds up to zero.
LEMMA SumEmpty == ASSUME NEW f PROVE Sum(f, {}) = 0
  BY SumStep, FS_EmptySet

\* A sum of natural numbers is one.
LEMMA SumType ==
    ASSUME NEW f, NEW S, IsFiniteSet(S), \A x \in S : f[x] \in Nat
    PROVE  Sum(f, S) \in Nat
<1>. SUFFICES ASSUME Sum(f, S) \notin Nat PROVE FALSE
  OBVIOUS
<1>. DEFINE T == {t \in SUBSET S : Sum(f, t) \notin Nat}
<1>1. T # {} /\ \A X \in T : IsFiniteSet(X)
  BY FS_Subset
<1>2. PICK X \in T : \A Y \in T : Y \subseteq X => Y = X
  <2>. HIDE DEF T
  <2>. QED  BY <1>1, SmallestSet
<1>3. Sum(f, X) = IF X = {} THEN 0 ELSE f[Choice(X)] + Sum(f, X \ {Choice(X)})
  BY <1>1, SumStep
<1>4. X # {} => f[Choice(X)] \in Nat /\ Sum(f, X \ {Choice(X)}) \in Nat
  <2>. SUFFICES ASSUME X # {} PROVE f[Choice(X)] \in Nat /\ Sum(f, X \ {Choice(X)}) \in Nat
    OBVIOUS
  <2>1. Choice(X) \in X /\ Choice(X) \in S
    BY DEF Choice
  <2>2. X \ {Choice(X)} \in SUBSET S /\ X \ {Choice(X)} \subseteq X /\ X \ {Choice(X)} # X
    BY <2>1
  <2>. QED  BY <1>2, <2>1, <2>2
<1>. QED  BY <1>3, <1>4

\* Whichever element is taken first, the sum is the same.
LEMMA SumAdd ==
    ASSUME NEW f, NEW S, IsFiniteSet(S), NEW a, a \notin S, \A x \in S \union {a} : f[x] \in Nat
    PROVE  Sum(f, S \union {a}) = Sum(f, S) + f[a]
<1>. DEFINE Adds(t, b) == Sum(f, t \union {b}) = Sum(f, t) + f[b]
            T == {t \in SUBSET (S \union {a}) : \E b \in (S \union {a}) \ t : ~Adds(t, b)}
<1>. SUFFICES ASSUME ~Adds(S, a) PROVE FALSE
  OBVIOUS
<1>0. IsFiniteSet(S \union {a})
  BY FS_AddElement
<1>1. T # {} /\ \A X \in T : IsFiniteSet(X)
  <2>1. S \in T
    OBVIOUS
  <2>. QED  BY <1>0, <2>1, FS_Subset
<1>2. PICK X \in T : \A Y \in T : Y \subseteq X => Y = X
  <2>. HIDE DEF T
  <2>. QED  BY <1>1, SmallestSet
<1>3. PICK b \in (S \union {a}) \ X : ~Adds(X, b)
  OBVIOUS
<1>. HIDE DEF T
<1>4. X \in SUBSET (S \union {a}) /\ IsFiniteSet(X)
  BY <1>1 DEF T
<1>5. \A t \in SUBSET X : t # X => \A c \in (S \union {a}) \ t : Adds(t, c)
  BY <1>2, <1>4 DEF T
<1>. HIDE DEF Adds
<1>. DEFINE Y == X \union {b}
            p == Choice(Y)
<1>6. p \in Y /\ Y # {}
  BY DEF Choice
<1>7. IsFiniteSet(Y)
  BY <1>4, FS_AddElement
<1>8. Sum(f, Y) = f[p] + Sum(f, Y \ {p})
  BY <1>6, <1>7, SumStep
<1>9. CASE p = b
  <2>1. Y \ {p} = X
    BY <1>9, <1>3
  <2>2. Sum(f, X) \in Nat /\ f[b] \in Nat
    BY <1>3, <1>4, SumType
  <2>3. Sum(f, Y) = f[b] + Sum(f, X)
    BY <1>8, <1>9, <2>1
  <2>4. Sum(f, Y) = Sum(f, X) + f[b]
    BY <2>2, <2>3
  <2>. QED  BY <1>3, <2>4 DEF Adds
<1>10. CASE p # b
  <2>. DEFINE Z == X \ {p}
  <2>1. p \in X /\ Z \in SUBSET X /\ Z # X /\ Y \ {p} = Z \union {b} /\ b \notin Z /\ p \notin Z
        /\ Z \union {p} = X
    BY <1>3, <1>6, <1>10
  <2>2. Sum(f, Z \union {b}) = Sum(f, Z) + f[b]
    BY <1>3, <1>5, <2>1 DEF Adds
  <2>3. Sum(f, Z \union {p}) = Sum(f, Z) + f[p]
    BY <1>4, <1>5, <2>1 DEF Adds
  <2>4. IsFiniteSet(Z) /\ Sum(f, Z) \in Nat /\ f[b] \in Nat /\ f[p] \in Nat
    <3>1. IsFiniteSet(Z)
      BY <1>4, <2>1, FS_Subset
    <3>2. \A x \in Z : f[x] \in Nat
      BY <1>4
    <3>. QED  BY <1>3, <1>4, <2>1, <3>1, <3>2, SumType
  <2>5. Sum(f, X) = Sum(f, Z) + f[p] /\ Sum(f, Y) = f[p] + (Sum(f, Z) + f[b])
    BY <1>8, <2>1, <2>2, <2>3
  <2>6. Sum(f, Y) = Sum(f, X) + f[b]
    BY <2>4, <2>5
  <2>. QED  BY <1>3, <2>6 DEF Adds
<1>. QED  BY <1>9, <1>10

\* The sums of two sets without a common element add up.
LEMMA SumUnion ==
    ASSUME NEW f, NEW S, NEW R, IsFiniteSet(S), IsFiniteSet(R), S \intersect R = {},
           \A x \in S \union R : f[x] \in Nat
    PROVE  Sum(f, S \union R) = Sum(f, S) + Sum(f, R)
<1>. DEFINE Adds(t) == Sum(f, S \union t) = Sum(f, S) + Sum(f, t)
            T == {t \in SUBSET R : ~Adds(t)}
<1>. SUFFICES ASSUME ~Adds(R) PROVE FALSE
  OBVIOUS
<1>1. T # {} /\ \A X \in T : IsFiniteSet(X)
  BY FS_Subset
<1>2. PICK X \in T : \A Y \in T : Y \subseteq X => Y = X
  <2>. HIDE DEF T
  <2>. QED  BY <1>1, SmallestSet
<1>3. Sum(f, S) \in Nat /\ S \union {} = S
  BY SumType
<1>4. X # {}
  BY <1>3, SumEmpty
<1>5. PICK a : a \in X
  BY <1>4
<1>. DEFINE Y == X \ {a}
<1>6. /\ Y \in SUBSET R /\ Y # X /\ a \notin Y /\ Y \union {a} = X
      /\ a \notin S \union Y /\ (S \union Y) \union {a} = S \union X
  BY <1>5
<1>7. IsFiniteSet(Y) /\ IsFiniteSet(S \union Y)
  BY <1>6, FS_Subset, FS_Union
<1>8. Adds(Y)
  BY <1>2, <1>6
<1>9. Sum(f, X) = Sum(f, Y) + f[a] /\ Sum(f, S \union X) = Sum(f, S \union Y) + f[a]
  <2>. HIDE DEF Y, T, Adds
  <2>1. X \in SUBSET R
    BY DEF T
  <2>2. /\ Sum(f, Y \union {a}) = Sum(f, Y) + f[a]
        /\ Sum(f, (S \union Y) \union {a}) = Sum(f, S \union Y) + f[a]
    <3>1. (\A x \in Y \union {a} : f[x] \in Nat) /\ (\A x \in (S \union Y) \union {a} : f[x] \in Nat)
      BY <1>6, <2>1
    <3>. QED  BY <1>6, <1>7, <3>1, SumAdd
  <2>. QED  BY <1>6, <2>2
<1>10. Sum(f, Y) \in Nat /\ f[a] \in Nat
  BY <1>5, <1>6, <1>7, SumType
<1>11. Sum(f, S \union X) = Sum(f, S) + Sum(f, X)
  BY <1>3, <1>8, <1>9, <1>10
<1>. QED  BY <1>11

\* A sum depends on the elements of its set only.
LEMMA SumCong ==
    ASSUME NEW f, NEW g, NEW S, IsFiniteSet(S), \A x \in S : f[x] = g[x]
    PROVE  Sum(f, S) = Sum(g, S)
<1>. SUFFICES ASSUME Sum(f, S) # Sum(g, S) PROVE FALSE
  OBVIOUS
<1>. DEFINE T == {t \in SUBSET S : Sum(f, t) # Sum(g, t)}
<1>1. T # {} /\ \A X \in T : IsFiniteSet(X)
  BY FS_Subset
<1>2. PICK X \in T : \A Y \in T : Y \subseteq X => Y = X
  <2>. HIDE DEF T
  <2>. QED  BY <1>1, SmallestSet
<1>3. /\ Sum(f, X) = IF X = {} THEN 0 ELSE f[Choice(X)] + Sum(f, X \ {Choice(X)})
      /\ Sum(g, X) = IF X = {} THEN 0 ELSE g[Choice(X)] + Sum(g, X \ {Choice(X)})
  BY <1>1, SumStep
<1>4. X # {} => /\ Choice(X) \in S
                /\ X \ {Choice(X)} \in SUBSET S /\ X \ {Choice(X)} \subseteq X /\ X \ {Choice(X)} # X
  BY DEF Choice
<1>5. X # {} => f[Choice(X)] = g[Choice(X)] /\ Sum(f, X \ {Choice(X)}) = Sum(g, X \ {Choice(X)})
  BY <1>2, <1>4
<1>. QED  BY <1>3, <1>5

\* A part sums up to no more than the whole.
LEMMA SumMonotone ==
    ASSUME NEW f, NEW S, NEW R, IsFiniteSet(S), R \subseteq S, \A x \in S : f[x] \in Nat
    PROVE  Sum(f, R) <= Sum(f, S)
<1>1. IsFiniteSet(R) /\ IsFiniteSet(S \ R) /\ R \union (S \ R) = S /\ R \intersect (S \ R) = {}
  BY FS_Subset
<1>2. Sum(f, R) \in Nat /\ Sum(f, S \ R) \in Nat
  BY <1>1, SumType
<1>3. Sum(f, S) = Sum(f, R) + Sum(f, S \ R)
  <2>1. Sum(f, R \union (S \ R)) = Sum(f, R) + Sum(f, S \ R)
    BY <1>1, SumUnion
  <2>. QED  BY <1>1, <2>1
<1>. QED  BY <1>2, <1>3

\* Sets that overlap sum up to no less than their union.
LEMMA SumCovers ==
    ASSUME NEW f, NEW S, IsFiniteSet(S), \A x \in S : f[x] \in Nat,
           NEW B, IsFiniteSet(B), NEW part, \A b \in B : part[b] \subseteq S,
           NEW w, \A b \in B : w[b] = Sum(f, part[b])
    PROVE  Sum(f, UNION {part[b] : b \in B}) <= Sum(w, B)
<1>. DEFINE All(t) == UNION {part[b] : b \in t}
            T == {t \in SUBSET B : ~(Sum(f, All(t)) <= Sum(w, t))}
<1>. SUFFICES ASSUME ~(Sum(f, All(B)) <= Sum(w, B)) PROVE FALSE
  OBVIOUS
<1>1. T # {} /\ \A X \in T : IsFiniteSet(X)
  BY FS_Subset
<1>2. PICK X \in T : \A Y \in T : Y \subseteq X => Y = X
  <2>. HIDE DEF T
  <2>. QED  BY <1>1, SmallestSet
<1>3. \A b \in B : IsFiniteSet(part[b]) /\ w[b] \in Nat
  BY FS_Subset, SumType
<1>4. X # {}
  <2>1. All({}) = {}
    OBVIOUS
  <2>2. Sum(f, {}) = 0 /\ Sum(w, {}) = 0
    BY SumEmpty
  <2>. HIDE DEF All
  <2>. QED  BY <2>1, <2>2
<1>5. PICK a : a \in X
  BY <1>4
<1>. DEFINE Y == X \ {a}
            rest == part[a] \ All(Y)
<1>6. /\ Y \in SUBSET B /\ Y # X /\ Y \subseteq X /\ a \notin Y /\ Y \union {a} = X /\ X \in SUBSET B
      /\ a \in B
  BY <1>5
<1>7. Sum(f, All(Y)) <= Sum(w, Y)
  BY <1>2, <1>6
<1>8. /\ All(X) = All(Y) \union rest /\ All(Y) \intersect rest = {}
      /\ All(Y) \subseteq S /\ rest \subseteq part[a] /\ rest \subseteq S /\ All(X) \subseteq S
  BY <1>6
<1>. HIDE DEF All, rest
<1>9. IsFiniteSet(Y) /\ IsFiniteSet(All(Y)) /\ IsFiniteSet(rest)
  BY <1>6, <1>8, FS_Subset
<1>10. Sum(f, All(X)) = Sum(f, All(Y)) + Sum(f, rest)
  <2>1. \A x \in All(Y) \union rest : f[x] \in Nat
    BY <1>8
  <2>2. Sum(f, All(Y) \union rest) = Sum(f, All(Y)) + Sum(f, rest)
    BY <1>8, <1>9, <2>1, SumUnion
  <2>. QED  BY <1>8, <2>2
<1>11. Sum(f, rest) <= w[a]
  <2>1. Sum(f, rest) <= Sum(f, part[a])
    BY <1>3, <1>6, <1>8, SumMonotone
  <2>. QED  BY <1>6, <2>1
<1>12. Sum(w, X) = Sum(w, Y) + w[a]
  <2>. HIDE DEF Y
  <2>1. \A x \in Y \union {a} : w[x] \in Nat
    BY <1>3, <1>6
  <2>2. Sum(w, Y \union {a}) = Sum(w, Y) + w[a]
    BY <1>6, <1>9, <2>1, SumAdd
  <2>. QED  BY <1>6, <2>2
<1>13. Sum(f, All(Y)) \in Nat /\ Sum(f, rest) \in Nat /\ Sum(w, Y) \in Nat /\ w[a] \in Nat
  <2>1. (\A x \in All(Y) : f[x] \in Nat) /\ (\A x \in rest : f[x] \in Nat)
    BY <1>8
  <2>. QED  BY <1>3, <1>6, <1>9, <2>1, SumType
<1>14. Sum(f, All(X)) <= Sum(w, X)
  BY <1>7, <1>10, <1>11, <1>12, <1>13
<1>. QED  BY <1>14

\* A function of which the definition of a fold speaks yields the sum.
LEMMA FoldIsSum ==
    ASSUME NEW f, NEW S, IsFiniteSet(S), NEW h, IsFold(h, f, S)
    PROVE  h[S] = Sum(f, S)
  BY FoldExists, FoldUnique DEF Sum

-----------------------------------------------------------------------------
(* Views and totals                                                        *)

\* space, of any table, and the space of the rows a table of views has.
SpaceOf(table, objects) == MapThenSumSet(LAMBDA o : table[o].size, objects)
SpaceUsed(views, buckets) == MapThenSumSet(LAMBDA b : views[b].space_used, buckets)

Sizes(table) == [o \in ObjectIds |-> table[o].size]
Used(views) == [b \in BucketIds |-> views[b].space_used]

\* The space of some objects is the sum of their sizes.
LEMMA SpaceIsSum ==
    ASSUME NEW table, NEW S \in SUBSET ObjectIds, IsFiniteSet(S)
    PROVE  SpaceOf(table, S) = Sum(Sizes(table), S)
<1>. DEFINE Recursion(h) == h = [s \in SUBSET S |->
                    IF s = {} THEN 0 ELSE table[Choice(s)].size + h[s \ {Choice(s)}]]
            fold == CHOOSE h : Recursion(h)
<1>1. SpaceOf(table, S) = fold[S]
  BY Zenon DEF SpaceOf, MapThenSumSet, MapThenFoldSet, Choice
<1>2. ASSUME NEW h PROVE Recursion(h) <=> IsFold(h, Sizes(table), S)
  <2>1. \A s \in SUBSET S : s # {} => Sizes(table)[Choice(s)] = table[Choice(s)].size
    BY DEF Choice, Sizes
  <2>. QED  BY <2>1, Zenon DEF IsFold
<1>3. \E h : Recursion(h)
  BY <1>2, FoldExists
<1>4. IsFold(fold, Sizes(table), S)
  BY <1>2, <1>3
<1>. HIDE DEF fold
<1>. QED  BY <1>1, <1>4, FoldIsSum

\* The rows of a table of views add up likewise.
LEMMA SpaceUsedIsSum ==
    ASSUME NEW views, NEW B \in SUBSET BucketIds
    PROVE  SpaceUsed(views, B) = Sum(Used(views), B)
<1>. DEFINE Recursion(h) == h = [s \in SUBSET B |->
                    IF s = {} THEN 0 ELSE views[Choice(s)].space_used + h[s \ {Choice(s)}]]
            fold == CHOOSE h : Recursion(h)
<1>0. IsFiniteSet(B)
  BY FiniteTables, FS_Subset
<1>1. SpaceUsed(views, B) = fold[B]
  BY Zenon DEF SpaceUsed, MapThenSumSet, MapThenFoldSet, Choice
<1>2. ASSUME NEW h PROVE Recursion(h) <=> IsFold(h, Used(views), B)
  <2>1. \A s \in SUBSET B : s # {} => Used(views)[Choice(s)] = views[Choice(s)].space_used
    BY DEF Choice, Used
  <2>. QED  BY <2>1, Zenon DEF IsFold
<1>3. \E h : Recursion(h)
  BY <1>0, <1>2, FoldExists
<1>4. IsFold(fold, Used(views), B)
  BY <1>2, <1>3
<1>. HIDE DEF fold
<1>. QED  BY <1>0, <1>1, <1>4, FoldIsSum

\* So do those of the view `bucket`, after a step.
LEMMA ViewsAddUp ==
    ASSUME NEW w, w = [b \in BucketIds |-> SpaceOf(object', bucket_contents(b)')]
    PROVE  MapThenSumSet(LAMBDA b : bucket_view(b).space_used, BucketIds)' = Sum(w, BucketIds)
<1>. DEFINE Recursion(h) == h = [s \in SUBSET BucketIds |->
                    IF s = {} THEN 0 ELSE bucket_view(Choice(s))'.space_used + h[s \ {Choice(s)}]]
            fold == CHOOSE h : Recursion(h)
<1>1. MapThenSumSet(LAMBDA b : bucket_view(b).space_used, BucketIds)' = fold[BucketIds]
  BY Zenon DEF MapThenSumSet, MapThenFoldSet, Choice
<1>2. ASSUME NEW h PROVE Recursion(h) <=> IsFold(h, w, BucketIds)
  <2>1. ASSUME NEW b PROVE bucket_view(b)'.space_used = SpaceOf(object', bucket_contents(b)')
    BY DEF bucket_view, space, SpaceOf, MapThenSumSet, MapThenFoldSet
  <2>2. \A s \in SUBSET BucketIds : s # {} => w[Choice(s)] = bucket_view(Choice(s))'.space_used
    BY <2>1 DEF Choice
  <2>. QED  BY <2>2, Zenon DEF IsFold
<1>3. \E h : Recursion(h)
  BY <1>2, FiniteTables, FoldExists
<1>4. IsFold(fold, w, BucketIds)
  BY <1>2, <1>3
<1>. HIDE DEF fold
<1>. QED  BY <1>1, <1>4, FiniteTables, FoldIsSum

\* An object without references is one that no bucket holds.
LEMMA Unreferenced ==
    ASSUME NEW o
    PROVE  reference_count(o) = 0 <=> \A b \in BucketIds : <<b, o>> \notin bucket_object
<1>. DEFINE holders == {b \in BucketIds : <<b, o>> \in bucket_object}
<1>1. IsFiniteSet(holders)
  BY FiniteTables, FS_Subset
<1>2. Cardinality(holders) = 0 <=> holders = {}
  BY <1>1, FS_EmptySet
<1>. QED  BY <1>2 DEF reference_count

\* Every row has a size.
LEMMA SizesAreNat ==
    ASSUME DbTypeOK PROVE \A o \in Objects : Sizes(object)[o] \in Nat
  BY DEF DbTypeOK, Objects, Row, Sizes

\* What remove_objects reports is what the view loses.
LEMMA RemovedIsReported ==
    ASSUME DbTypeOK, Constraints, IsFiniteSet(Objects),
           NEW b \in BucketIds, NEW objects \in SUBSET ObjectIds, remove_objects(b, objects)
    PROVE  /\ bucket_view(b).object_count
                = bucket_view(b)'.object_count + remove_result(b, objects).objects_removed
           /\ bucket_view(b).space_used
                = bucket_view(b)'.space_used + remove_result(b, objects).space_freed
<1>1. PICK held, left, gone :
        /\ held = bucket_contents(b) /\ left = bucket_contents(b)'
        /\ gone = {o \in objects : <<b, o>> \in bucket_object}
  OBVIOUS
<1>2. /\ held = left \union gone /\ left \intersect gone = {}
      /\ held \subseteq Objects /\ left \subseteq held /\ gone \subseteq held
      /\ Objects \subseteq ObjectIds
  BY <1>1 DEF remove_objects, bucket_contents, Objects, Constraints
<1>3. IsFiniteSet(held) /\ IsFiniteSet(left) /\ IsFiniteSet(gone)
  BY <1>2, FS_Subset
<1>4. Cardinality(held) = Cardinality(left) + Cardinality(gone)
  <2>1. Cardinality(left \union gone)
          = Cardinality(left) + Cardinality(gone) - Cardinality(left \intersect gone)
    BY <1>3, FS_Union
  <2>2. Cardinality(left) \in Nat /\ Cardinality(gone) \in Nat /\ Cardinality({}) = 0
    BY <1>3, FS_CardinalityType, FS_EmptySet
  <2>3. Cardinality(left \intersect gone) = 0
    BY <1>2, <2>2
  <2>4. Cardinality(held) = Cardinality(left \union gone)
    BY <1>2
  <2>. QED  BY <2>1, <2>2, <2>3, <2>4
<1>5. SpaceOf(object, held) = SpaceOf(object, left) + SpaceOf(object, gone)
  <2>1. \A o \in left \union gone : Sizes(object)[o] \in Nat
    BY <1>2, SizesAreNat
  <2>2. Sum(Sizes(object), left \union gone) = Sum(Sizes(object), left) + Sum(Sizes(object), gone)
    BY <1>2, <1>3, <2>1, SumUnion
  <2>3. /\ held \in SUBSET ObjectIds /\ left \in SUBSET ObjectIds /\ gone \in SUBSET ObjectIds
    BY <1>2
  <2>4. /\ SpaceOf(object, held) = Sum(Sizes(object), held)
        /\ SpaceOf(object, left) = Sum(Sizes(object), left)
        /\ SpaceOf(object, gone) = Sum(Sizes(object), gone)
    BY <1>3, <2>3, SpaceIsSum
  <2>. QED  BY <1>2, <2>2, <2>4
<1>6. object' = object
  BY DEF remove_objects
<1>7. /\ bucket_view(b).object_count = Cardinality(held)
      /\ bucket_view(b)'.object_count = Cardinality(left)
      /\ remove_result(b, objects).objects_removed = Cardinality(gone)
  BY <1>1 DEF bucket_view, remove_result
<1>8. /\ bucket_view(b).space_used = SpaceOf(object, held)
      /\ bucket_view(b)'.space_used = SpaceOf(object, left)
      /\ remove_result(b, objects).space_freed = SpaceOf(object, gone)
  BY <1>1, <1>6 DEF bucket_view, remove_result, space, SpaceOf, MapThenSumSet, MapThenFoldSet
<1>. QED  BY <1>4, <1>5, <1>7, <1>8

\* Without its orphans, the store has no more than its buckets hold.
LEMMA PruneIsUnseen ==
    ASSUME DbTypeOK, Constraints, IsFiniteSet(Objects), delete_objects(orphans_of_snapshot)
    PROVE  /\ \A b \in BucketIds : bucket_view(b)' = bucket_view(b)
           /\ (fetch_store_totals.space_used
                 <= MapThenSumSet(LAMBDA b : bucket_view(b).space_used, BucketIds))'
<1>1. /\ \A o \in Objects : o \in Objects' => object'[o] = object[o]
      /\ Objects' = Objects \ orphans_of_snapshot
      /\ Objects \subseteq ObjectIds
  BY DEF delete_objects, Objects
<1>2. \A o \in Objects : o \in orphans_of_snapshot <=> \A b \in BucketIds : <<b, o>> \notin bucket_object
  BY Unreferenced DEF orphans_of_snapshot
<1>3. \A b \in BucketIds : bucket_contents(b)' = bucket_contents(b)
  BY <1>1, <1>2 DEF bucket_contents, delete_objects
<1>4. \A b \in BucketIds : bucket_contents(b)' \in SUBSET (Objects')
  BY DEF bucket_contents
<1>5. IsFiniteSet(Objects') /\ Objects' \in SUBSET ObjectIds
  BY <1>1, FS_Subset
<1>6. ASSUME NEW b \in BucketIds PROVE bucket_view(b)' = bucket_view(b)
  <2>1. PICK held \in SUBSET (Objects') : held = bucket_contents(b) /\ held = bucket_contents(b)'
    BY <1>3, <1>4
  <2>2. IsFiniteSet(held) /\ held \in SUBSET ObjectIds /\ held \subseteq Objects
    BY <1>1, <1>5, FS_Subset
  <2>3. \A o \in held : Sizes(object')[o] = Sizes(object)[o]
    BY <1>1, <2>2 DEF Sizes
  <2>4. SpaceOf(object', held) = SpaceOf(object, held)
    BY <2>2, <2>3, SpaceIsSum, SumCong
  <2>5. /\ bucket_view(b) = [object_count |-> Cardinality(held), space_used |-> SpaceOf(object, held)]
        /\ bucket_view(b)' = [object_count |-> Cardinality(held), space_used |-> SpaceOf(object', held)]
    BY <2>1 DEF bucket_view, space, SpaceOf, MapThenSumSet, MapThenFoldSet
  <2>. QED  BY <2>4, <2>5
<1>7. PICK part : part = [b \in BucketIds |-> bucket_contents(b)']
  OBVIOUS
<1>8. PICK w : w = [b \in BucketIds |-> SpaceOf(object', bucket_contents(b)')]
  OBVIOUS
<1>9. Objects' = UNION {part[b] : b \in BucketIds}
  <2>1. \A o \in Objects' : \E b \in BucketIds : o \in part[b]
    BY <1>1, <1>2, <1>3, <1>7 DEF bucket_contents
  <2>2. \A b \in BucketIds : part[b] \subseteq Objects'
    BY <1>4, <1>7
  <2>. QED  BY <2>1, <2>2
<1>10. Sum(Sizes(object'), Objects') <= Sum(w, BucketIds)
  <2>1. \A b \in BucketIds : part[b] \subseteq Objects'
    BY <1>4, <1>7
  <2>2. \A b \in BucketIds : w[b] = Sum(Sizes(object'), part[b])
    <3>1. ASSUME NEW b \in BucketIds PROVE w[b] = Sum(Sizes(object'), part[b])
      <4>1. part[b] \in SUBSET ObjectIds /\ IsFiniteSet(part[b])
        BY <1>5, <2>1, FS_Subset
      <4>2. w[b] = SpaceOf(object', part[b])
        BY <1>7, <1>8
      <4>. QED  BY <4>1, <4>2, SpaceIsSum
    <3>. QED  BY <3>1
  <2>3. \A o \in Objects' : Sizes(object')[o] \in Nat
    BY <1>1, SizesAreNat DEF Sizes
  <2>4. Sum(Sizes(object'), UNION {part[b] : b \in BucketIds}) <= Sum(w, BucketIds)
    BY <1>5, <2>1, <2>2, <2>3, FiniteTables, SumCovers
  <2>. QED  BY <1>9, <2>4
<1>11. fetch_store_totals.space_used' = Sum(Sizes(object'), Objects')
  <2>1. fetch_store_totals.space_used' = SpaceOf(object', Objects')
    BY DEF fetch_store_totals, space, SpaceOf, MapThenSumSet, MapThenFoldSet
  <2>. QED  BY <1>5, <2>1, SpaceIsSum
<1>12. MapThenSumSet(LAMBDA b : bucket_view(b).space_used, BucketIds)' = Sum(w, BucketIds)
  BY <1>8, ViewsAddUp
<1>. QED  BY <1>6, <1>10, <1>11, <1>12
=============================================================================
