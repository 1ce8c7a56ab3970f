---------------------------- MODULE ReplicasProofs ----------------------------
(***************************************************************************)
(* One share on a hub and any number of spokes, for any number of files,   *)
(* edits, deletes, restores, lost connections and crashes, with scans that *)
(* overlap passes or not: no file is destroyed.  Between two nodes that    *)
(* both may change it, no pass takes a row back, and a version identifies  *)
(* a content.  On the way, what holds of the version vectors alone and of  *)
(* the decisions two ends make about one path.                             *)
(***************************************************************************)
EXTENDS Replicas, TLAPS

-----------------------------------------------------------------------------
(* What reconcile.go's comments promise of the version-vector algebra, for *)
(* every set of nodes and every pair of maps, with or without explicit     *)
(* zeros.                                                                  *)

\* The order the algebra implements, read pointwise with missing keys as zero.
Leq(a, b) == \A k \in Node : At(a, k) <= At(b, k)

\* A vector's domain is a set of nodes and every counter read from it is a
\* natural number, whether the key is there or not.
LEMMA VectorType ==
    ASSUME NEW v \in VersionVector
    PROVE  /\ DOMAIN v \subseteq Node
           /\ \A k \in DOMAIN v : v[k] \in Nat
           /\ \A k : At(v, k) \in Nat
           /\ \A k : k \notin DOMAIN v => At(v, k) = 0
           /\ \A k \in DOMAIN v : At(v, k) = v[k]
  <1>1. PICK S \in SUBSET Node : v \in [S -> Nat]
    BY DEF VersionVector
  <1>2. DOMAIN v = S /\ \A k \in S : v[k] \in Nat
    BY <1>1
  <1>3. QED
    BY <1>2 DEF At

\* Equal compares the two maps key by key over the union of their keys, so
\* it agrees with pointwise equality over all nodes.
LEMMA EqualPointwise ==
    ASSUME NEW a \in VersionVector, NEW b \in VersionVector
    PROVE  Equal(a, b) <=> \A k \in Node : At(a, k) = At(b, k)
  <1>1. ASSUME Equal(a, b), NEW k \in Node PROVE At(a, k) = At(b, k)
    BY <1>1, VectorType DEF Equal
  <1>2. ASSUME \A k \in Node : At(a, k) = At(b, k) PROVE Equal(a, b)
    BY <1>2, VectorType DEF Equal
  <1>3. QED
    BY <1>1, <1>2

\* Dominates is the strict pointwise order although its strictness flag is
\* set only while ranging over the keys of its first argument.
LEMMA DominatesPointwise ==
    ASSUME NEW a \in VersionVector, NEW b \in VersionVector
    PROVE  Dominates(a, b) <=> Leq(b, a) /\ \E k \in Node : At(a, k) > At(b, k)
  <1>1. ASSUME Dominates(a, b), NEW k \in Node PROVE At(b, k) <= At(a, k)
    <2>1. CASE k \in DOMAIN a
      BY <1>1, <2>1, VectorType DEF Dominates
    <2>2. CASE k \in DOMAIN b \ DOMAIN a
      BY <1>1, <2>2, VectorType DEF Dominates
    <2>3. CASE k \notin DOMAIN a /\ k \notin DOMAIN b
      BY <2>3, VectorType
    <2>4. QED
      BY <2>1, <2>2, <2>3
  <1>2. ASSUME Dominates(a, b) PROVE \E k \in Node : At(a, k) > At(b, k)
    BY <1>2, VectorType DEF Dominates
  <1>3. ASSUME Leq(b, a), NEW j \in Node, At(a, j) > At(b, j)
        PROVE  Dominates(a, b)
    <2>1. j \in DOMAIN a
      BY <1>3, VectorType
    <2>2. \A k \in DOMAIN a : a[k] >= At(b, k)
      BY <1>3, VectorType DEF Leq
    <2>3. ASSUME NEW k \in DOMAIN b \ DOMAIN a PROVE ~(At(a, k) < b[k])
      <3>1. k \in Node /\ At(a, k) = 0 /\ At(b, k) = b[k] /\ b[k] \in Nat
        BY VectorType
      <3>2. At(b, k) <= At(a, k)
        BY <1>3, <3>1 DEF Leq
      <3>3. QED
        BY <3>1, <3>2
    <2>4. a[j] > At(b, j)
      BY <1>3, <2>1, VectorType
    <2>5. QED
      BY <2>1, <2>2, <2>3, <2>4 DEF Dominates
  <1>4. QED
    BY <1>1, <1>2, <1>3 DEF Leq

\* Covers is the weak pointwise order: dominates-or-equals.
LEMMA CoversPointwise ==
    ASSUME NEW a \in VersionVector, NEW b \in VersionVector
    PROVE  Covers(a, b) <=> Leq(b, a)
  <1>1. Covers(a, b) => Leq(b, a)
    BY EqualPointwise, DominatesPointwise, VectorType DEF Covers, Leq
  <1>2. ASSUME Leq(b, a) PROVE Covers(a, b)
    <2>1. CASE \E k \in Node : At(a, k) > At(b, k)
      BY <1>2, <2>1, DominatesPointwise DEF Covers
    <2>2. CASE ~\E k \in Node : At(a, k) > At(b, k)
      <3>1. ASSUME NEW k \in Node PROVE At(a, k) = At(b, k)
        <4>1. At(a, k) \in Nat /\ At(b, k) \in Nat
          BY VectorType
        <4>2. QED
          BY <1>2, <2>2, <4>1 DEF Leq
      <3>2. QED
        BY <3>1, EqualPointwise DEF Covers
    <2>3. QED
      BY <2>1, <2>2
  <1>3. QED
    BY <1>1, <1>2

\* Concurrent's comment in reconcile.go: "For any pair of vectors, exactly
\* one of Equal(a,b), Dominates(a,b), Dominates(b,a), Concurrent(a,b)
\* holds", the case split reconcileOne's switch rests on.
THEOREM ExactlyOneRelation ==
    ASSUME NEW a \in VersionVector, NEW b \in VersionVector
    PROVE  /\ Equal(a, b) \/ Dominates(a, b) \/ Dominates(b, a) \/ Concurrent(a, b)
           /\ ~(Equal(a, b) /\ Dominates(a, b))
           /\ ~(Equal(a, b) /\ Dominates(b, a))
           /\ ~(Dominates(a, b) /\ Dominates(b, a))
           /\ Concurrent(a, b) => ~Equal(a, b) /\ ~Dominates(a, b) /\ ~Dominates(b, a)
  <1>1. ~(Equal(a, b) /\ Dominates(a, b))
    BY EqualPointwise, DominatesPointwise, VectorType
  <1>2. ~(Equal(a, b) /\ Dominates(b, a))
    BY EqualPointwise, DominatesPointwise, VectorType
  <1>3. ~(Dominates(a, b) /\ Dominates(b, a))
    BY DominatesPointwise, VectorType DEF Leq
  <1>4. QED
    BY <1>1, <1>2, <1>3 DEF Concurrent

\* Merge's result is a map over nodes whose every counter is the larger of
\* the two, although the code only visits the keys the maps hold.
LEMMA MergePointwise ==
    ASSUME NEW a \in VersionVector, NEW b \in VersionVector
    PROVE  /\ Merge(a, b) \in VersionVector
           /\ \A k \in Node : At(Merge(a, b), k) =
                IF At(b, k) > At(a, k) THEN At(b, k) ELSE At(a, k)
  <1> DEFINE D == DOMAIN a \cup {j \in DOMAIN b : b[j] > At(a, j)}
             m == [k \in D |-> IF At(b, k) > At(a, k) THEN At(b, k) ELSE At(a, k)]
  <1>1. Merge(a, b) = m
    BY DEF Merge
  <1>2. D \in SUBSET Node
    BY VectorType
  <1>3. m \in [D -> Nat]
    BY VectorType
  <1>4. m \in VersionVector
    BY <1>2, <1>3 DEF VersionVector
  <1>5. ASSUME NEW k \in Node
        PROVE  At(m, k) = IF At(b, k) > At(a, k) THEN At(b, k) ELSE At(a, k)
    <2>1. CASE k \in D
      BY <2>1 DEF At
    <2>2. CASE k \notin D
      <3>1. At(m, k) = 0
        BY <2>2 DEF At
      <3>2. At(a, k) = 0 /\ ~(At(b, k) > At(a, k))
        BY <2>2, VectorType
      <3>3. QED
        BY <3>1, <3>2
    <2>3. QED
      BY <2>1, <2>2
  <1>6. QED
    BY <1>1, <1>4, <1>5

\* Merge's comment: "Merge is commutative and associative, and Merge(a, b)
\* always dominates-or-equals both a and b"; it is moreover the least such
\* vector, so resolving a conflict claims nothing that neither side saw.
THEOREM MergeIsLeastUpperBound ==
    ASSUME NEW a \in VersionVector, NEW b \in VersionVector, NEW c \in VersionVector
    PROVE  /\ Equal(Merge(a, b), Merge(b, a))
           /\ Equal(Merge(Merge(a, b), c), Merge(a, Merge(b, c)))
           /\ Covers(Merge(a, b), a) /\ Covers(Merge(a, b), b)
           /\ Covers(c, a) /\ Covers(c, b) => Covers(c, Merge(a, b))
  <1>1. /\ Merge(a, b) \in VersionVector /\ Merge(b, a) \in VersionVector
        /\ Merge(b, c) \in VersionVector
        /\ Merge(Merge(a, b), c) \in VersionVector
        /\ Merge(a, Merge(b, c)) \in VersionVector
    BY MergePointwise
  <1>2. \A k \in Node : At(a, k) \in Nat /\ At(b, k) \in Nat /\ At(c, k) \in Nat
    BY VectorType
  <1>3. Equal(Merge(a, b), Merge(b, a))
    <2>1. ASSUME NEW k \in Node PROVE At(Merge(a, b), k) = At(Merge(b, a), k)
      <3>1. At(Merge(a, b), k) = IF At(b, k) > At(a, k) THEN At(b, k) ELSE At(a, k)
        BY MergePointwise
      <3>2. At(Merge(b, a), k) = IF At(a, k) > At(b, k) THEN At(a, k) ELSE At(b, k)
        BY MergePointwise
      <3>3. QED
        BY <1>2, <3>1, <3>2
    <2>2. QED
      BY <1>1, <2>1, EqualPointwise
  <1>4. Equal(Merge(Merge(a, b), c), Merge(a, Merge(b, c)))
    <2>1. ASSUME NEW k \in Node
          PROVE  At(Merge(Merge(a, b), c), k) = At(Merge(a, Merge(b, c)), k)
      <3> DEFINE Larger(x, y) == IF y > x THEN y ELSE x
      <3>1. At(Merge(a, b), k) = Larger(At(a, k), At(b, k))
        BY MergePointwise
      <3>2. At(Merge(b, c), k) = Larger(At(b, k), At(c, k))
        BY MergePointwise
      <3>3. At(Merge(Merge(a, b), c), k) = Larger(At(Merge(a, b), k), At(c, k))
        BY <1>1, MergePointwise
      <3>4. At(Merge(a, Merge(b, c)), k) = Larger(At(a, k), At(Merge(b, c), k))
        BY <1>1, MergePointwise
      <3>5. QED
        BY <1>2, <3>1, <3>2, <3>3, <3>4
    <2>2. QED
      BY <1>1, <2>1, EqualPointwise
  <1>5. Covers(Merge(a, b), a) /\ Covers(Merge(a, b), b)
    <2>1. Leq(a, Merge(a, b)) /\ Leq(b, Merge(a, b))
      BY <1>2, MergePointwise DEF Leq
    <2>2. QED
      BY <1>1, <2>1, CoversPointwise
  <1>6. ASSUME Covers(c, a), Covers(c, b) PROVE Covers(c, Merge(a, b))
    <2>1. Leq(a, c) /\ Leq(b, c)
      BY <1>6, CoversPointwise
    <2>2. Leq(Merge(a, b), c)
      BY <1>2, <2>1, MergePointwise DEF Leq
    <2>3. QED
      BY <1>1, <2>2, CoversPointwise
  <1>7. QED
    BY <1>3, <1>4, <1>5, <1>6

\* A bump by a node makes a version that strictly dominates the one it was
\* made from, and no other node's counter moves.
THEOREM BumpDominates ==
    ASSUME NEW v \in VersionVector, NEW n \in Node
    PROVE  /\ Bump(v, n) \in VersionVector
           /\ Dominates(Bump(v, n), v)
           /\ At(Bump(v, n), n) = At(v, n) + 1
           /\ \A k \in Node \ {n} : At(Bump(v, n), k) = At(v, k)
  <1> DEFINE D == DOMAIN v \cup {n}
             w == [k \in D |-> IF k = n THEN At(v, n) + 1 ELSE v[k]]
  <1>1. Bump(v, n) = w
    BY DEF Bump
  <1>2. D \in SUBSET Node /\ w \in [D -> Nat]
    BY VectorType
  <1>3. w \in VersionVector
    BY <1>2 DEF VersionVector
  <1>4. At(w, n) = At(v, n) + 1 /\ \A k \in Node \ {n} : At(w, k) = At(v, k)
    BY VectorType DEF At
  <1>5. Leq(v, w) /\ \E k \in Node : At(w, k) > At(v, k)
    <2>1. \A k \in Node : At(v, k) \in Nat
      BY VectorType
    <2> HIDE DEF D, w
    <2>2. ASSUME NEW k \in Node PROVE At(v, k) <= At(w, k)
      <3>1. CASE k = n
        BY <1>4, <2>1, <3>1
      <3>2. CASE k # n
        BY <1>4, <2>1, <3>2
      <3>3. QED
        BY <3>1, <3>2
    <2>3. At(w, n) > At(v, n)
      BY <1>4, <2>1
    <2>4. QED
      BY <2>2, <2>3 DEF Leq
  <1>6. QED
    BY <1>1, <1>3, <1>4, <1>5, DominatesPointwise

\* The version reconcileConcurrent writes, Bump(Merge(l, r), nodeID),
\* strictly dominates both sides of the conflict it resolves.
THEOREM ResolutionDominatesBoth ==
    ASSUME NEW l \in VersionVector, NEW r \in VersionVector, NEW n \in Node
    PROVE  /\ Dominates(Bump(Merge(l, r), n), l)
           /\ Dominates(Bump(Merge(l, r), n), r)
  <1>1. Merge(l, r) \in VersionVector /\ Leq(l, Merge(l, r)) /\ Leq(r, Merge(l, r))
    BY MergePointwise, VectorType DEF Leq
  <1>2. /\ Bump(Merge(l, r), n) \in VersionVector
        /\ Leq(Merge(l, r), Bump(Merge(l, r), n))
        /\ At(Bump(Merge(l, r), n), n) = At(Merge(l, r), n) + 1
    BY <1>1, BumpDominates, DominatesPointwise
  <1>3. \A k \in Node : /\ At(l, k) \in Nat /\ At(r, k) \in Nat
                        /\ At(Merge(l, r), k) \in Nat
                        /\ At(Bump(Merge(l, r), n), k) \in Nat
    BY <1>1, <1>2, VectorType
  <1>4. /\ Leq(l, Bump(Merge(l, r), n)) /\ At(Bump(Merge(l, r), n), n) > At(l, n)
        /\ Leq(r, Bump(Merge(l, r), n)) /\ At(Bump(Merge(l, r), n), n) > At(r, n)
    BY <1>1, <1>2, <1>3 DEF Leq
  <1>5. QED
    BY <1>2, <1>4, DominatesPointwise

-----------------------------------------------------------------------------

(* Functions from paths. *)

AllIn(f, S) == \A p \in DOMAIN f : f[p] \in S

LEMMA AllInFacts ==
    ASSUME NEW f, NEW g, NEW S, NEW p, NEW x \in S, AllIn(f, S), AllIn(g, S)
    PROVE  /\ AllIn(Put(f, p, x), S) /\ AllIn(Without(f, p), S) /\ AllIn(Over(f, g), S)
           /\ AllIn(Only(p, x), S)
BY DEF AllIn, Put, Without, Over, Only

LEMMA AllInEmpty == ASSUME NEW S PROVE AllIn(<<>>, S)
<1>1. DOMAIN <<>> = {}
    OBVIOUS
<1> QED
    BY <1>1 DEF AllIn

LEMMA AllInGrows == ASSUME NEW f, NEW S, NEW T, AllIn(f, S), S \subseteq T PROVE AllIn(f, T)
BY DEF AllIn

-----------------------------------------------------------------------------
(* Types: rows and files are of contents that users wrote. *)

Rows(e) == [type : {"file"}, deleted : BOOLEAN, ver : VersionVector, sha : 1..e, mtime : MTimes]
Found(e) == [sha : 1..e, mtime : MTimes]

ActionKind == {"Pull", "Delete", "Resurrect", "ConflictCopy", "LocallyModified"}

\* What a pass has to do about a path.
ActionOK(a, e) ==
    /\ a.kind \in ActionKind /\ a.resolved \in Rows(e)
    /\ a.kind = "ConflictCopy" => a.cinfo \in Rows(e) /\ a.cpath.mark # NoMark

DiskOK == /\ DOMAIN disk = Node /\ DOMAIN trash = Node
          /\ \A n \in Node : /\ AllIn(disk[n], Found(count.edits))
                             /\ \A t \in trash[n] : t[2] \in Found(count.edits)
FilesOK == /\ DOMAIN files = Node /\ DOMAIN peerFiles = Link
           /\ \A n \in Node : AllIn(files[n], Rows(count.edits))
           /\ \A l \in Link : AllIn(peerFiles[l], Rows(count.edits))
ScanOK == /\ DOMAIN scan = Node
          /\ \A n \in Node :
                /\ scan[n] = [phase |-> scan[n].phase, rows |-> scan[n].rows]
                /\ scan[n].phase \in {"idle", "listed", "walked"}
                /\ AllIn(scan[n].rows, Rows(count.edits))
PassRecord(x) == x = [todo |-> x.todo, applied |-> x.applied, running |-> x.running]
PassOK == /\ DOMAIN pass = Link
          /\ \A l \in Link :
                /\ PassRecord(pass[l])
                /\ pass[l].running => DOMAIN pass[l].todo \cup DOMAIN pass[l].applied # {}
                /\ \A p \in DOMAIN pass[l].todo : ActionOK(pass[l].todo[p], count.edits)
                /\ \A p \in DOMAIN pass[l].applied : AllIn(pass[l].applied[p], Rows(count.edits))
CountOK == /\ count \in [edits : Nat, removes : Nat, faults : Nat, restores : Nat]
           /\ owed \subseteq Link /\ superseded \subseteq 1..count.edits

Typed == DiskOK /\ FilesOK /\ ScanOK /\ PassOK /\ CountOK

LEMMA Links ==
    /\ \A l \in Link : l[1] \in Node /\ l[2] \in Node /\ l = <<l[1], l[2]>> /\ <<l[2], l[1]>> \in Link
    /\ Editor \subseteq Node /\ Hub \in Node /\ Spoke \subseteq Node
BY ReplicasAssumption DEF Link

LEMMA RowFacts ==
    ASSUME NEW e \in Nat, NEW r \in Rows(e), NEW v \in VersionVector
    PROVE  /\ WithVersion(r, v) \in Rows(e) /\ WithVersion(r, v).ver = v
           /\ [r EXCEPT !.deleted = TRUE, !.ver = v] \in Rows(e)
<1> DEFINE V == VersionVector
<1>1. r \in [type : {"file"}, deleted : BOOLEAN, ver : V, sha : 1..e, mtime : MTimes] /\ v \in V
    BY DEF Rows
<1> HIDE DEF V
<1>2. Rows(e) = [type : {"file"}, deleted : BOOLEAN, ver : V, sha : 1..e, mtime : MTimes]
    BY DEF Rows, V
<1>3. WithVersion(r, v) \in Rows(e) /\ WithVersion(r, v).ver = v
    BY <1>1, <1>2 DEF WithVersion
<1>4. [r EXCEPT !.deleted = TRUE, !.ver = v] \in Rows(e)
    BY <1>1, <1>2
<1> QED
    BY <1>3, <1>4

LEMMA RowFields ==
    ASSUME NEW e, NEW r \in Rows(e)
    PROVE  Content(r) \in Found(e) /\ r.ver \in VersionVector /\ r.deleted \in BOOLEAN
<1>1. Content(r) \in Found(e)
    BY DEF Content, Found, Rows
<1>2. r.ver \in VersionVector /\ r.deleted \in BOOLEAN
    BY DEF Rows
<1> QED
    BY <1>1, <1>2

LEMMA FileRowFacts ==
    ASSUME NEW e \in Nat, NEW f \in Found(e), NEW v \in VersionVector
    PROVE  FileRow(f, v) \in Rows(e) /\ FileRow(f, v).ver = v
<1> DEFINE V == VersionVector
<1>1. v \in V
    OBVIOUS
<1> HIDE DEF V
<1>2. FileRow(f, v) \in [type : {"file"}, deleted : BOOLEAN, ver : V, sha : 1..e, mtime : MTimes]
    BY <1>1 DEF FileRow, Found
<1> QED
    BY <1>2 DEF Rows, V, FileRow

LEMMA Grows == ASSUME NEW e \in Nat PROVE Rows(e) \subseteq Rows(e + 1) /\ Found(e) \subseteq Found(e + 1)
<1>1. 1..e \subseteq 1..(e + 1)
    OBVIOUS
<1> DEFINE V == VersionVector
<1> HIDE DEF V
<1>2. [type : {"file"}, deleted : BOOLEAN, ver : V, sha : 1..e, mtime : MTimes]
        \subseteq [type : {"file"}, deleted : BOOLEAN, ver : V, sha : 1..(e + 1), mtime : MTimes]
    BY <1>1
<1> QED
    BY <1>1, <1>2 DEF Rows, Found, V

-----------------------------------------------------------------------------
(* What a pass decides. *)

\* Every action a pass works on is one of the kinds applyAction knows, for a
\* row that one of the two sides has.
LEMMA Decisions ==
    ASSUME NEW e \in Nat, NEW p, NEW n \in Node, NEW dir, NEW now,
           NEW l \in Rows(e) \cup {NoRow}, NEW r \in Rows(e) \cup {NoRow},
           Works(reconcileOne(p, l, r, n, dir, now))
    PROVE  ActionOK(reconcileOne(p, l, r, n, dir, now), e)
<1> DEFINE a == reconcileOne(p, l, r, n, dir, now)
<1>1. r # NoRow /\ ~dir.inBlocked
    BY DEF reconcileOne, KeepLocal, Works
<1>2. r \in Rows(e) /\ r.ver \in VersionVector
    BY <1>1, RowFields
<1>3. Adopt(r).kind \in {"Delete", "Pull"} /\ Adopt(r).resolved = r
    BY DEF Adopt, ActionDelete, ActionPull
<1>4. ActionOK(Adopt(r), e)
    BY <1>2, <1>3 DEF ActionOK, ActionKind
<1>5. CASE l = NoRow
    <2>1. a = Adopt(r)
        BY <1>1, <1>5 DEF reconcileOne, Works
    <2> QED
        BY <1>4, <2>1
<1>6. CASE l # NoRow
    <2>1. l \in Rows(e) /\ l.ver \in VersionVector
        BY <1>6, RowFields
    <2>2. a = Adopt(r) \/ a = reconcileConcurrent(p, l, r, n, dir, now)
        BY <1>1, <1>6 DEF reconcileOne, Works, KeepLocal
    <2> DEFINE merged == Bump(Merge(l.ver, r.ver), n)
    <2>3. Merge(l.ver, r.ver) \in VersionVector /\ merged \in VersionVector
        <3>1. Merge(l.ver, r.ver) \in VersionVector
            BY <1>2, <2>1, MergePointwise
        <3> QED
            BY <3>1, BumpDominates
    <2> HIDE DEF merged
    <2>4. /\ WithVersion(r, merged) \in Rows(e) /\ WithVersion(l, merged) \in Rows(e)
          /\ WithVersion(l, Merge(l.ver, r.ver)) \in Rows(e)
        BY <1>2, <2>1, <2>3, RowFacts
    <2>5. ActionOK(RevertLocallyModified(r), e)
        BY <1>2 DEF RevertLocallyModified, ActionOK, ActionKind
    <2>6. ActionOK(ResolveDelete(l, r, merged), e) /\ ActionOK(ActionDelete(WithVersion(r, merged)), e)
        BY <2>4 DEF ResolveDelete, ActionResurrect, ActionDelete, ActionOK, ActionKind
    <2>7. ActionOK(reconcileIdenticalContent(l, r), e)
        BY <2>4 DEF reconcileIdenticalContent, ActionPull, ActionOK, ActionKind
    <2>8. ActionOK(ResolveContent(p, l, r, n, now, merged), e)
        <3>1. \A x : loserConflictRelPath(p, x, n, now).mark # NoMark
            BY DEF loserConflictRelPath, ConflictRelPath, NoMark
        <3> QED
            BY <1>2, <2>1, <2>4, <3>1 DEF ResolveContent, ActionConflictCopy, ActionOK, ActionKind
    <2>9. ActionOK(reconcileConcurrent(p, l, r, n, dir, now), e)
        BY <2>5, <2>6, <2>7, <2>8 DEF reconcileConcurrent, merged
    <2> QED
        BY <1>4, <2>2, <2>9
<1> QED
    BY <1>5, <1>6

-----------------------------------------------------------------------------
(* What an action does to a folder. *)

\* Every file of n's folder is in the folder d, perhaps elsewhere, or in t.
Keeps(n, d, t) ==
    \A q \in DOMAIN disk[n] : \/ \E k \in DOMAIN d : d[k] = disk[n][q]
                              \/ \E x \in t : x[2] = disk[n][q]

EffectOK(n, x, e) ==
    /\ AllIn(x.disk, Found(e)) /\ AllIn(x.rows, Rows(e))
    /\ \A t \in x.trashed : t[1] \in DOMAIN disk[n] /\ t[2] = disk[n][t[1]]
    /\ Keeps(n, x.disk, x.trashed)

LEMMA EffectFields ==
    ASSUME NEW d, NEW rows, NEW t
    PROVE  Effect(d, rows, t).disk = d /\ Effect(d, rows, t).rows = rows /\ Effect(d, rows, t).trashed = t
BY DEF Effect

LEMMA TrashFacts ==
    ASSUME NEW n, NEW p
    PROVE  /\ p \in DOMAIN disk[n] => \E t \in Trashed(n, p) : t[2] = disk[n][p]
           /\ \A t \in Trashed(n, p) : p \in DOMAIN disk[n] /\ t = <<p, disk[n][p]>>
BY DEF Trashed

\* Putting a file where another was, which goes to the trash, loses nothing.
LEMMA PutKeeps ==
    ASSUME NEW n, NEW p, NEW x
    PROVE  /\ Keeps(n, Put(disk[n], p, x), Trashed(n, p)) /\ Keeps(n, Without(disk[n], p), Trashed(n, p))
           /\ Keeps(n, disk[n], {})
<1>1. ASSUME NEW q \in DOMAIN disk[n], q # p
      PROVE  /\ q \in DOMAIN Put(disk[n], p, x) /\ Put(disk[n], p, x)[q] = disk[n][q]
             /\ q \in DOMAIN Without(disk[n], p) /\ Without(disk[n], p)[q] = disk[n][q]
    BY <1>1 DEF Put, Without
<1> QED
    BY <1>1, TrashFacts DEF Keeps

\* Nor does moving a file aside to where another was.
LEMMA MoveKeeps ==
    ASSUME NEW n, NEW p \in DOMAIN disk[n], NEW c, NEW x
    PROVE  LET moved == Put(Without(disk[n], p), c, disk[n][p])
           IN  /\ Keeps(n, moved, Trashed(n, c))
               /\ Keeps(n, Put(moved, p, x), Trashed(n, c))
               /\ Keeps(n, Without(Put(moved, p, x), p), Trashed(n, c))
<1> DEFINE moved == Put(Without(disk[n], p), c, disk[n][p])
           put == Put(moved, p, x)
           out == Without(put, p)
<1>1. /\ DOMAIN moved = (DOMAIN disk[n] \ {p}) \cup {c} /\ moved[c] = disk[n][p]
      /\ \A q \in DOMAIN disk[n] \ {p, c} : moved[q] = disk[n][q]
    BY DEF Put, Without
<1> HIDE DEF moved
<1>2. /\ DOMAIN put = DOMAIN moved \cup {p} /\ put[p] = x
      /\ \A q \in DOMAIN moved \ {p} : put[q] = moved[q]
    BY DEF Put
<1> HIDE DEF put
<1>3. DOMAIN out = DOMAIN put \ {p} /\ \A q \in DOMAIN put \ {p} : out[q] = put[q]
    BY DEF Without
<1> HIDE DEF out
<1>4. ASSUME NEW q \in DOMAIN disk[n], q # c, q # p
      PROVE  /\ q \in DOMAIN moved /\ moved[q] = disk[n][q]
             /\ q \in DOMAIN put /\ put[q] = disk[n][q]
             /\ q \in DOMAIN out /\ out[q] = disk[n][q]
    BY <1>1, <1>2, <1>3, <1>4
<1>5. c \in DOMAIN disk[n] => \E t \in Trashed(n, c) : t[2] = disk[n][c]
    BY TrashFacts
<1>6. c \in DOMAIN moved /\ moved[c] = disk[n][p]
    BY <1>1
<1>7. c # p => /\ c \in DOMAIN put /\ put[c] = disk[n][p]
               /\ c \in DOMAIN out /\ out[c] = disk[n][p]
    BY <1>2, <1>3, <1>6
<1>8. Keeps(n, moved, Trashed(n, c)) /\ Keeps(n, put, Trashed(n, c)) /\ Keeps(n, out, Trashed(n, c))
    BY <1>4, <1>5, <1>6, <1>7 DEF Keeps
<1> QED
    BY <1>8 DEF moved, put, out

LEMMA Actions ==
    ASSUME NEW e \in Nat, NEW n, NEW m, NEW p, NEW a, ActionOK(a, e), AllIn(disk[n], Found(e))
    PROVE  EffectOK(n, applyAction(n, m, p, a), e)
<1> DEFINE d == disk[n]
           Sane(x) == EffectOK(n, x, e)
<1>1. a.resolved \in Rows(e) /\ Content(a.resolved) \in Found(e)
    BY RowFields DEF ActionOK
<1>2. ASSUME NEW c PROVE \A t \in Trashed(n, c) : t[1] \in DOMAIN d /\ t[2] = d[t[1]]
    BY TrashFacts
<1>3. AllIn(Only(p, a.resolved), Rows(e)) /\ AllIn(<<>>, Rows(e))
    BY <1>1, AllInFacts, AllInEmpty
<1>10. ASSUME NEW f, NEW rows, NEW t, AllIn(f, Found(e)), AllIn(rows, Rows(e)),
             \A x \in t : x[1] \in DOMAIN d /\ x[2] = d[x[1]], Keeps(n, f, t)
      PROVE  Sane(Effect(f, rows, t))
    BY <1>10, EffectFields DEF EffectOK
<1>4. Sane(Effect(d, Only(p, a.resolved), {})) /\ Sane(Effect(d, <<>>, {}))
    BY <1>3, PutKeeps, EffectFields DEF EffectOK
<1>5. Sane(applyDelete(n, p, a))
    <2>1. AllIn(Without(d, p), Found(e))
        BY DEF AllIn, Without
    <2> QED
        BY <1>10, <1>2, <1>3, <2>1, PutKeeps DEF applyDelete
<1>6. Sane(PullAndInstall(n, m, p, a))
    <2>1. AllIn(Put(d, p, Content(a.resolved)), Found(e))
        BY <1>1 DEF AllIn, Put
    <2>2. Keeps(n, Put(d, p, Content(a.resolved)), Trashed(n, p))
        BY PutKeeps
    <2>3. Sane(Effect(Put(d, p, Content(a.resolved)), Only(p, a.resolved), Trashed(n, p)))
        BY <1>10, <1>2, <1>3, <2>1, <2>2
    <2> QED
        BY <1>4, <2>3 DEF PullAndInstall
<1>7. ASSUME a.kind = "ConflictCopy" PROVE Sane(CopyRemoteLoser(n, m, p, a))
    <2>1. a.cinfo \in Rows(e) /\ Content(a.cinfo) \in Found(e)
        BY <1>7, RowFields DEF ActionOK
    <2>2. AllIn(Put(d, a.cpath, Content(a.cinfo)), Found(e))
        BY <2>1 DEF AllIn, Put
    <2>3. AllIn(Put(Only(a.cpath, a.cinfo), p, a.resolved), Rows(e))
        BY <1>1, <2>1 DEF AllIn, Put, Only
    <2>4. Keeps(n, Put(d, a.cpath, Content(a.cinfo)), Trashed(n, a.cpath))
        BY PutKeeps
    <2>5. Sane(Effect(Put(d, a.cpath, Content(a.cinfo)),
                      Put(Only(a.cpath, a.cinfo), p, a.resolved), Trashed(n, a.cpath)))
        BY <1>10, <1>2, <2>2, <2>3, <2>4
    <2> QED
        BY <1>4, <2>5 DEF CopyRemoteLoser
<1>8. ASSUME a.kind = "ConflictCopy" PROVE Sane(CopyLocalLoser(n, m, p, a))
    <2> DEFINE gone == Trashed(n, a.cpath)
               moved == Put(Without(d, p), a.cpath, d[p])
               loser == Only(a.cpath, a.cinfo)
    <2>1. AllIn(loser, Rows(e))
        BY <1>8 DEF ActionOK, AllIn, Only
    <2>2. AllIn(Put(loser, p, a.resolved), Rows(e))
        BY <1>1, <2>1, AllInFacts
    <2>3. CASE p \notin DOMAIN d
        <3>1. AllIn(Without(d, a.cpath), Found(e))
            BY DEF AllIn, Without
        <3>2. Sane(Effect(Without(d, a.cpath), <<>>, gone))
            BY <1>2, <1>3, <3>1, PutKeeps, EffectFields DEF EffectOK
        <3> QED
            BY <2>3, <3>2 DEF CopyLocalLoser
    <2>4. CASE p \in DOMAIN d
        <3>1. AllIn(moved, Found(e))
            BY <2>4 DEF AllIn, Put, Without
        <3>2. AllIn(Put(moved, p, Content(a.resolved)), Found(e))
            BY <1>1, <3>1, AllInFacts
        <3>3. Keeps(n, moved, gone) /\ Keeps(n, Put(moved, p, Content(a.resolved)), gone)
            BY <2>4, MoveKeeps
        <3>4. Sane(Effect(moved, loser, gone))
            BY <1>2, <2>1, <3>1, <3>3, EffectFields DEF EffectOK
        <3>5. Sane(Effect(Put(moved, p, Content(a.resolved)), Put(loser, p, a.resolved), gone))
            BY <1>2, <2>2, <3>2, <3>3, EffectFields DEF EffectOK
        <3> QED
            BY <2>4, <3>4, <3>5 DEF CopyLocalLoser
    <2> QED
        BY <2>3, <2>4
<1> HIDE DEF Sane
<1>9. Sane(applyAction(n, m, p, a))
    BY <1>4, <1>5, <1>6, <1>7, <1>8 DEF applyAction, ActionOK, ActionKind
<1> QED
    BY <1>9 DEF Sane

\* An action that stops just before its last rename loses nothing either.
LEMMA Interrupted ==
    ASSUME NEW e \in Nat, NEW n, NEW m, NEW p, NEW a, ActionOK(a, e), AllIn(disk[n], Found(e))
    PROVE  /\ AllIn(BeforeRename(n, m, p, a), Found(e))
           /\ Keeps(n, BeforeRename(n, m, p, a), applyAction(n, m, p, a).trashed)
<1> DEFINE d == disk[n]
           x == applyAction(n, m, p, a)
           w == Without(x.disk, p)
           kept == [q \in DOMAIN d \ {t[1] : t \in x.trashed} |-> d[q]]
           b == BeforeRename(n, m, p, a)
<1>1. EffectOK(n, x, e)
    BY Actions
<1> HIDE DEF x
<1>2. AllIn(w, Found(e))
    BY <1>1 DEF EffectOK, AllIn, Without
<1>3. AllIn(kept, Found(e))
    BY DEF AllIn
<1>4. Keeps(n, kept, x.trashed)
    BY <1>1 DEF EffectOK, Keeps
<1>5. ASSUME a.kind = "ConflictCopy", a.source = "Remote", p \in DOMAIN x.rows
      PROVE  Keeps(n, w, x.trashed)
    <2> DEFINE gone == Trashed(n, a.cpath)
               moved == Put(Without(d, p), a.cpath, d[p])
               loser == Only(a.cpath, a.cinfo)
    <2>1. x = CopyLocalLoser(n, m, p, a)
        BY <1>5 DEF applyAction, x
    <2>2. p \in DOMAIN d
        <3>1. DOMAIN <<>> = {}
            OBVIOUS
        <3> QED
            BY <1>5, <2>1, <3>1, EffectFields DEF CopyLocalLoser
    <2>3. CASE x = Effect(Put(moved, p, Content(a.resolved)), Put(loser, p, a.resolved), gone)
        <3>1. x.disk = Put(moved, p, Content(a.resolved)) /\ x.trashed = gone
            BY <2>3, EffectFields
        <3>2. Keeps(n, Without(Put(moved, p, Content(a.resolved)), p), gone)
            BY <2>2, MoveKeeps
        <3> QED
            BY <3>1, <3>2
    <2>4. CASE x = Effect(moved, loser, gone)
        <3>1. x.disk = moved /\ x.rows = loser /\ x.trashed = gone
            BY <2>4, EffectFields
        <3>2. a.cpath = p
            BY <1>5, <3>1 DEF Only
        <3>3. ASSUME NEW q \in DOMAIN d, q # p PROVE q \in DOMAIN w /\ w[q] = d[q]
            BY <3>1, <3>2, <3>3 DEF Put, Without
        <3> QED
            BY <2>2, <3>1, <3>2, <3>3, TrashFacts DEF Keeps
    <2> QED
        BY <2>1, <2>2, <2>3, <2>4 DEF CopyLocalLoser
<1>6. \/ b = w /\ a.kind = "ConflictCopy" /\ a.source = "Remote" /\ p \in DOMAIN x.rows
      \/ b = kept
    BY DEF BeforeRename, x
<1> HIDE DEF w, kept, b
<1> QED
    BY <1>2, <1>3, <1>4, <1>5, <1>6 DEF b, x

-----------------------------------------------------------------------------
(* Every step keeps the types. *)

LEMMA TypedInit == Init => Typed
<1> SUFFICES ASSUME Init PROVE Typed
    OBVIOUS
<1>1. \A S : AllIn(<<>>, S)
    BY AllInEmpty
<1>2. DOMAIN <<>> = {}
    OBVIOUS
<1>3. DiskOK /\ FilesOK
    BY <1>1 DEF Init, DiskOK, FilesOK
<1>4. ScanOK
    BY <1>1 DEF Init, ScanOK, NoScan
<1>5. PassOK
    BY <1>2 DEF Init, PassOK, PassRecord, NoPass
<1>6. CountOK
    BY DEF Init, CountOK
<1> QED
    BY <1>3, <1>4, <1>5, <1>6 DEF Typed

LEMMA EditTyped == ASSUME Typed, NEW n \in Node, NEW p, NEW t \in MTimes, Edit(n, p, t) PROVE Typed'
<1> DEFINE e == count.edits
<1>1. e \in Nat /\ count' \in [edits : Nat, removes : Nat, faults : Nat, restores : Nat] /\ count'.edits = e + 1
    BY DEF Typed, CountOK, Edit
<1>2. Rows(e) \subseteq Rows(e + 1) /\ Found(e) \subseteq Found(e + 1)
    BY <1>1, Grows
<1>3. UNCHANGED <<files, peerFiles, owed, pass, scan, trash>>
    BY DEF Edit
<1>4. FilesOK' /\ ScanOK'
    <2>1. FilesOK /\ ScanOK
        BY DEF Typed
    <2>2. \A f : AllIn(f, Rows(e)) => AllIn(f, Rows(e + 1))
        BY <1>2, AllInGrows
    <2> QED
        BY <1>1, <1>3, <2>1, <2>2 DEF FilesOK, ScanOK
<1>5. PassOK'
    <2>1. PassOK
        BY DEF Typed
    <2>2. \A f : AllIn(f, Rows(e)) => AllIn(f, Rows(e + 1))
        BY <1>2, AllInGrows
    <2>3. \A a : ActionOK(a, e) => ActionOK(a, e + 1)
        BY <1>2 DEF ActionOK
    <2> QED
        BY <1>1, <1>3, <2>1, <2>2, <2>3 DEF PassOK
<1>6. DiskOK'
    <2> DEFINE f == [sha |-> e + 1, mtime |-> t]
    <2>1. f \in Found(e + 1)
        BY <1>1 DEF Found
    <2> HIDE DEF f
    <2>2. disk' = [disk EXCEPT ![n] = Put(disk[n], p, f)] /\ DOMAIN disk = Node
        BY DEF Edit, f, Typed, DiskOK
    <2>3. ASSUME NEW k \in Node PROVE AllIn(disk[k], Found(e + 1))
        BY <1>2, AllInGrows DEF Typed, DiskOK
    <2>4. AllIn(Put(disk[n], p, f), Found(e + 1))
        BY <2>1, <2>3, AllInFacts
    <2>5. \A k \in Node : AllIn(disk'[k], Found(e + 1))
        BY <2>2, <2>3, <2>4
    <2>6. \A k \in Node : \A x \in trash[k] : x[2] \in Found(e + 1)
        BY <1>2 DEF Typed, DiskOK
    <2> QED
        BY <1>1, <1>3, <2>2, <2>5, <2>6 DEF DiskOK, Typed
<1>7. CountOK'
    <2>1. owed' \subseteq Link
        BY <1>3 DEF Typed, CountOK
    <2>2. Replaced(n, p) \subseteq 1..e
        BY DEF Replaced, Typed, DiskOK, AllIn, Found
    <2>3. superseded' \subseteq 1..(e + 1)
        BY <1>1, <2>2 DEF Edit, Typed, CountOK
    <2> QED
        BY <1>1, <2>1, <2>3 DEF CountOK
<1> QED
    BY <1>4, <1>5, <1>6, <1>7 DEF Typed

LEMMA RemoveTyped == ASSUME Typed, NEW n \in Node, NEW p, Remove(n, p) PROVE Typed'
<1> DEFINE e == count.edits
<1>1. e \in Nat /\ count' \in [edits : Nat, removes : Nat, faults : Nat, restores : Nat] /\ count'.edits = e
    BY DEF Typed, CountOK, Remove
<1>2. UNCHANGED <<files, peerFiles, owed, pass, scan, trash>>
    BY DEF Remove
<1>3. FilesOK' /\ ScanOK' /\ PassOK'
    BY <1>1, <1>2 DEF Typed, FilesOK, ScanOK, PassOK
<1>4. DiskOK'
    <2>1. disk' = [disk EXCEPT ![n] = Without(disk[n], p)] /\ DiskOK
        BY DEF Remove, Typed
    <2>2. AllIn(Without(disk[n], p), Found(e))
        BY <2>1 DEF DiskOK, AllIn, Without
    <2> QED
        BY <1>1, <1>2, <2>1, <2>2 DEF DiskOK
<1>5. CountOK'
    <2>1. Replaced(n, p) \subseteq 1..e
        BY DEF Replaced, Typed, DiskOK, AllIn, Found
    <2> QED
        BY <1>1, <1>2, <2>1 DEF Remove, Typed, CountOK
<1> QED
    BY <1>3, <1>4, <1>5 DEF Typed

\* What a scan makes of a row it finds a file for, or does not.
LEMMA ScanRowTyped ==
    ASSUME NEW e \in Nat, NEW n \in Node, NEW old \in Rows(e) \cup {NoRow}, NEW f \in Found(e) \cup {NoRow},
           old \in Rows(e) \/ f # NoRow
    PROVE  ScanRow(n, old, f) \in Rows(e)
<1>1. carriedVersion(old) \in VersionVector
    <2>1. EmptyVector \in VersionVector
        BY DEF EmptyVector, VersionVector
    <2> QED
        BY <2>1, RowFields DEF carriedVersion
<1>2. Bump(carriedVersion(old), n) \in VersionVector
    BY <1>1, BumpDominates
<1>3. old \in Rows(e) => old.ver \in VersionVector
    BY RowFields
<1>4. old \in Rows(e) => Bump(old.ver, n) \in VersionVector
    BY <1>3, BumpDominates
<1>5. ASSUME f # NoRow, NEW v \in VersionVector PROVE FileRow(f, v) \in Rows(e)
    BY <1>5, FileRowFacts
<1>6. ASSUME old \in Rows(e)
      PROVE  [old EXCEPT !.deleted = TRUE, !.ver = Bump(old.ver, n)] \in Rows(e)
    BY <1>4, <1>6, RowFacts
<1>7. CASE f = NoRow
    <2>1. ScanRow(n, old, f) \in {old, [old EXCEPT !.deleted = TRUE, !.ver = Bump(old.ver, n)]}
        BY <1>7 DEF ScanRow
    <2> QED
        BY <1>6, <1>7, <2>1
<1>8. CASE f # NoRow
    <2>1. \/ ScanRow(n, old, f) = FileRow(f, Bump(carriedVersion(old), n))
          \/ old # NoRow /\ ScanRow(n, old, f) = FileRow(f, old.ver)
        BY <1>8 DEF ScanRow
    <2> QED
        BY <1>2, <1>3, <1>5, <1>8, <2>1
<1> QED
    BY <1>7, <1>8

LEMMA ScanTyped == ASSUME Typed, NEW n \in Node, ScanStep(n) PROVE Typed'
<1> DEFINE e == count.edits
<1>1. /\ e \in Nat /\ DiskOK /\ FilesOK /\ ScanOK /\ PassOK /\ CountOK
      /\ UNCHANGED <<disk, peerFiles, owed, pass, trash, count, superseded>>
    BY DEF Typed, CountOK, ScanStep, ScanList, ScanWalk, ApplyScanResult
<1>2. DiskOK' /\ PassOK' /\ CountOK'
    BY <1>1 DEF DiskOK, PassOK, CountOK
<1>3. ASSUME NEW r, AllIn(r, Rows(e)), NEW phase \in {"idle", "listed", "walked"},
             scan' = [scan EXCEPT ![n] = [phase |-> phase, rows |-> r]]
      PROVE  ScanOK'
    BY <1>1, <1>3 DEF ScanOK
<1>4. CASE ScanList(n)
    <2>1. FilesOK' /\ AllIn(files[n], Rows(e))
        BY <1>1, <1>4 DEF ScanList, FilesOK
    <2>2. ScanOK'
        BY <1>3, <1>4, <2>1 DEF ScanList
    <2> QED
        BY <1>2, <2>1, <2>2 DEF Typed
<1>5. CASE ScanWalk(n)
    <2> DEFINE old == scan[n].rows
               new == [p \in DOMAIN old \cup DOMAIN disk[n] |->
                          ScanRow(n, RowAt(old, p), FoundAt(disk[n], p))]
               changed == {p \in DOMAIN new : p \notin DOMAIN old \/ new[p] # old[p]}
               rows == [p \in changed |-> new[p]]
    <2>1. FilesOK'
        BY <1>1, <1>5 DEF ScanWalk, FilesOK
    <2>2. ASSUME NEW p \in DOMAIN old \cup DOMAIN disk[n]
          PROVE  ScanRow(n, RowAt(old, p), FoundAt(disk[n], p)) \in Rows(e)
        <3>1. RowAt(old, p) \in Rows(e) \cup {NoRow} /\ (p \in DOMAIN old => RowAt(old, p) \in Rows(e))
            BY <1>1 DEF ScanOK, AllIn, RowAt
        <3>2. /\ FoundAt(disk[n], p) \in Found(e) \cup {NoRow}
              /\ p \in DOMAIN disk[n] => FoundAt(disk[n], p) \in Found(e)
            BY <1>1 DEF DiskOK, AllIn, FoundAt
        <3>3. NoRow \notin Found(e)
            <4>1. Found(e) \subseteq [sha : Nat, mtime : Nat]
                <5>1. MTimes \subseteq Nat /\ 1..e \subseteq Nat
                    BY <1>1, ReplicasAssumption
                <5> QED
                    BY <5>1 DEF Found
            <4> QED
                BY <4>1, ReplicasAssumption
        <3> QED
            BY <1>1, <2>2, <3>1, <3>2, <3>3, ScanRowTyped
    <2>3. AllIn(rows, Rows(e))
        BY <2>2 DEF AllIn
    <2>4. \/ scan' = [scan EXCEPT ![n] = [phase |-> "idle", rows |-> <<>>]]
          \/ scan' = [scan EXCEPT ![n] = [phase |-> "walked", rows |-> rows]]
        BY <1>5 DEF ScanWalk, NoScan
    <2> HIDE DEF rows
    <2>5. ScanOK'
        BY <1>3, <2>3, <2>4, AllInEmpty
    <2> QED
        BY <1>2, <2>1, <2>5 DEF Typed
<1>6. CASE ApplyScanResult(n)
    <2>1. /\ files' = [files EXCEPT ![n] = Over(scan[n].rows, files[n])]
          /\ scan' = [scan EXCEPT ![n] = [phase |-> "idle", rows |-> <<>>]]
        BY <1>6 DEF ApplyScanResult, NoScan
    <2>2. AllIn(Over(scan[n].rows, files[n]), Rows(e))
        BY <1>1 DEF ScanOK, FilesOK, AllIn, Over
    <2>3. FilesOK'
        BY <1>1, <2>1, <2>2 DEF FilesOK
    <2>4. ScanOK'
        BY <1>3, <2>1, AllInEmpty
    <2> QED
        BY <1>2, <2>3, <2>4 DEF Typed
<1> QED
    BY <1>4, <1>5, <1>6 DEF ScanStep

LEMMA DeliverTyped == ASSUME Typed, NEW l \in Link, Deliver(l[1], l[2]) PROVE Typed'
<1>1. /\ UNCHANGED <<disk, files, pass, scan, trash, count, superseded>>
      /\ peerFiles' = [peerFiles EXCEPT ![l] = files[l[2]]] /\ owed' = owed \cup {l}
    BY Links DEF Deliver
<1>2. DiskOK' /\ ScanOK' /\ PassOK'
    BY <1>1 DEF Typed, DiskOK, ScanOK, PassOK
<1>3. FilesOK'
    BY <1>1, Links DEF Typed, FilesOK
<1>4. CountOK'
    BY <1>1 DEF Typed, CountOK
<1> QED
    BY <1>2, <1>3, <1>4 DEF Typed

\* A pass with a link's new record in it.
LEMMA PassSet ==
    ASSUME PassOK, NEW l \in Link, NEW x, pass' = [pass EXCEPT ![l] = x], count'.edits = count.edits,
           PassRecord(x), x.running => DOMAIN x.todo \cup DOMAIN x.applied # {},
           \A p \in DOMAIN x.todo : ActionOK(x.todo[p], count.edits),
           \A p \in DOMAIN x.applied : AllIn(x.applied[p], Rows(count.edits))
    PROVE  PassOK'
<1>1. DOMAIN pass' = Link /\ pass'[l] = x /\ \A k \in Link \ {l} : pass'[k] = pass[k]
    BY DEF PassOK
<1> QED
    BY <1>1 DEF PassOK

LEMMA PassBeginTyped == ASSUME Typed, NEW l \in Link, PassBegin(l[1], l[2]) PROVE Typed'
<1> DEFINE n == l[1]
           e == count.edits
           plan == ReconcileShare(files[n], peerFiles[l], n, Direction(n), 0, {})
           todo == {p \in DOMAIN plan : Works(plan[p])}
           x == [todo |-> [p \in todo |-> plan[p]], applied |-> <<>>, running |-> TRUE]
<1>1. l = <<l[1], l[2]>> /\ n \in Node /\ e \in Nat /\ FilesOK /\ PassOK /\ CountOK
    BY Links DEF Typed, CountOK
<1>2. /\ UNCHANGED <<disk, files, peerFiles, scan, trash, count, superseded>> /\ owed' \subseteq owed
      /\ pass' = [pass EXCEPT ![l] = NoPass] \/ (todo # {} /\ pass' = [pass EXCEPT ![l] = x])
    BY <1>1 DEF PassBegin
<1>3. DiskOK' /\ ScanOK' /\ FilesOK' /\ CountOK'
    BY <1>2 DEF Typed, DiskOK, ScanOK, FilesOK, CountOK
<1>4. ASSUME NEW p \in todo PROVE ActionOK(plan[p], e)
    <2>1. /\ RowAt(files[n], p) \in Rows(e) \cup {NoRow}
          /\ RowAt(peerFiles[l], p) \in Rows(e) \cup {NoRow}
        BY <1>1 DEF FilesOK, AllIn, RowAt
    <2>2. plan[p] = reconcileOne(p, RowAt(files[n], p), RowAt(peerFiles[l], p), n, Direction(n), 0)
        BY <1>4 DEF ReconcileShare
    <2>3. Works(plan[p])
        OBVIOUS
    <2> HIDE DEF plan, todo
    <2> QED
        BY <1>1, <2>1, <2>2, <2>3, Decisions
<1>5. CASE pass' = [pass EXCEPT ![l] = NoPass]
    <2>1. PassRecord(NoPass) /\ ~NoPass.running /\ DOMAIN NoPass.todo = {} /\ DOMAIN NoPass.applied = {}
        BY DEF NoPass, PassRecord
    <2>2. PassOK'
        BY <1>1, <1>2, <1>5, <2>1, PassSet
    <2> QED
        BY <1>3, <2>2 DEF Typed
<1>6. CASE todo # {} /\ pass' = [pass EXCEPT ![l] = x]
    <2> HIDE DEF plan, todo
    <2>1. /\ PassRecord(x) /\ DOMAIN x.todo = todo /\ DOMAIN x.applied = {}
          /\ \A p \in todo : x.todo[p] = plan[p]
        BY DEF PassRecord
    <2> HIDE DEF x
    <2>2. PassOK'
        BY <1>1, <1>2, <1>4, <1>6, <2>1, PassSet
    <2> QED
        BY <1>3, <2>2 DEF Typed
<1> QED
    BY <1>2, <1>5, <1>6

LEMMA ApplyTyped == ASSUME Typed, NEW l \in Link, NEW p, Apply(l[1], l[2], p) PROVE Typed'
<1> DEFINE n == l[1]
           e == count.edits
           a == pass[l].todo[p]
           z == applyAction(n, l[2], p, a)
           x == [pass[l] EXCEPT !.todo = Without(pass[l].todo, p), !.applied = Put(pass[l].applied, p, z.rows)]
<1>1. l = <<l[1], l[2]>> /\ n \in Node /\ e \in Nat /\ DiskOK /\ PassOK
    BY Links DEF Typed, CountOK
<1>2. /\ UNCHANGED <<files, peerFiles, owed, scan, count, superseded>> /\ p \in DOMAIN pass[l].todo
      /\ disk' = [disk EXCEPT ![n] = z.disk] /\ trash' = [trash EXCEPT ![n] = @ \cup z.trashed]
      /\ pass' = [pass EXCEPT ![l] = x]
    BY <1>1 DEF Apply
<1>3. EffectOK(n, z, e)
    BY <1>1, <1>2, Actions DEF PassOK, DiskOK
<1> HIDE DEF z
<1>4. FilesOK' /\ ScanOK' /\ CountOK'
    BY <1>2 DEF Typed, ScanOK, FilesOK, CountOK
<1>5. DiskOK'
    <2>1. AllIn(z.disk, Found(e)) /\ \A t \in z.trashed : t[2] \in Found(e)
        BY <1>1, <1>3 DEF EffectOK, DiskOK, AllIn
    <2> QED
        BY <1>1, <1>2, <2>1 DEF DiskOK
<1>6. PassOK'
    <2>1. /\ PassRecord(x) /\ x.todo = Without(pass[l].todo, p)
          /\ x.applied = Put(pass[l].applied, p, z.rows)
        <3> DEFINE y == pass[l]
                   t == Without(pass[l].todo, p)
                   u == Put(pass[l].applied, p, z.rows)
        <3>1. PassRecord(y) /\ x = [y EXCEPT !.todo = t, !.applied = u]
            BY <1>1 DEF PassOK
        <3> HIDE DEF y, t, u, x
        <3>2. PICK old, done, running : y = [todo |-> old, applied |-> done, running |-> running]
            BY <3>1 DEF PassRecord
        <3>3. y \in [todo : {old}, applied : {done}, running : {running}]
            BY <3>2
        <3>4. x \in [todo : {t}, applied : {u}, running : {running}]
            BY <3>1, <3>3
        <3>5. x = [todo |-> t, applied |-> u, running |-> running]
            BY <3>4
        <3> QED
            BY <3>5 DEF t, u, PassRecord
    <2> HIDE DEF x
    <2>2. /\ p \in DOMAIN x.applied
          /\ \A q \in DOMAIN x.todo : q \in DOMAIN pass[l].todo /\ x.todo[q] = pass[l].todo[q]
          /\ \A q \in DOMAIN x.applied : x.applied[q] = z.rows
                                          \/ (q \in DOMAIN pass[l].applied /\ x.applied[q] = pass[l].applied[q])
        BY <2>1 DEF Put, Without
    <2>3. \A q \in DOMAIN x.todo : ActionOK(x.todo[q], e)
        BY <1>1, <2>2 DEF PassOK
    <2>4. \A q \in DOMAIN x.applied : AllIn(x.applied[q], Rows(e))
        BY <1>1, <1>3, <2>2 DEF PassOK, EffectOK
    <2> QED
        BY <1>1, <1>2, <2>1, <2>2, <2>3, <2>4, PassSet
<1> QED
    BY <1>4, <1>5, <1>6 DEF Typed

LEMMA PersistTyped == ASSUME Typed, NEW l \in Link, NEW p, Persist(l[1], l[2], p) PROVE Typed'
<1> DEFINE n == l[1]
           e == count.edits
           rest == Without(pass[l].applied, p)
           x == [pass[l] EXCEPT !.applied = rest]
<1>1. l = <<l[1], l[2]>> /\ n \in Node /\ e \in Nat /\ FilesOK /\ PassOK
    BY Links DEF Typed, CountOK
<1>2. /\ UNCHANGED <<disk, peerFiles, owed, scan, trash, count, superseded>> /\ p \in DOMAIN pass[l].applied
      /\ files' = [files EXCEPT ![n] = Over(pass[l].applied[p], files[n])]
      /\ \/ pass' = [pass EXCEPT ![l] = NoPass]
         \/ pass' = [pass EXCEPT ![l] = x] /\ ~(DOMAIN pass[l].todo = {} /\ DOMAIN rest = {})
    BY <1>1 DEF Persist
<1>3. DiskOK' /\ ScanOK' /\ CountOK'
    BY <1>2 DEF Typed, ScanOK, DiskOK, CountOK
<1>4. FilesOK'
    <2>1. AllIn(Over(pass[l].applied[p], files[n]), Rows(e))
        BY <1>1, <1>2 DEF FilesOK, PassOK, AllIn, Over
    <2> QED
        BY <1>1, <1>2, <2>1 DEF FilesOK
<1>5. PassOK'
    <2>1. CASE pass' = [pass EXCEPT ![l] = NoPass]
        <3>1. PassRecord(NoPass) /\ ~NoPass.running /\ DOMAIN NoPass.todo = {} /\ DOMAIN NoPass.applied = {}
            BY DEF NoPass, PassRecord
        <3> QED
            BY <1>1, <1>2, <2>1, <3>1, PassSet
    <2>2. CASE pass' = [pass EXCEPT ![l] = x] /\ ~(DOMAIN pass[l].todo = {} /\ DOMAIN rest = {})
        <3>1. PassRecord(x) /\ x.todo = pass[l].todo /\ x.applied = rest
            BY <1>1 DEF PassOK, PassRecord
        <3> HIDE DEF x
        <3>2. \A q \in DOMAIN rest : q \in DOMAIN pass[l].applied /\ rest[q] = pass[l].applied[q]
            BY DEF Without
        <3> HIDE DEF rest
        <3>3. \A q \in DOMAIN x.applied : AllIn(x.applied[q], Rows(e))
            BY <1>1, <3>1, <3>2 DEF PassOK
        <3>4. \A q \in DOMAIN x.todo : ActionOK(x.todo[q], e)
            BY <1>1, <3>1 DEF PassOK
        <3>5. DOMAIN x.todo \cup DOMAIN x.applied # {}
            BY <2>2, <3>1
        <3> QED
            BY <1>1, <1>2, <2>2, <3>1, <3>3, <3>4, <3>5, PassSet
    <2> QED
        BY <1>2, <2>1, <2>2
<1> QED
    BY <1>3, <1>4, <1>5 DEF Typed

\* Losing the sessions of some links stops their passes.
LEMMA SessionsLost ==
    ASSUME Typed, NEW links \in SUBSET Link, LoseSessions(links), count'.edits = count.edits
    PROVE  PassOK' /\ owed' \subseteq Link
<1> DEFINE both == links \cup {<<l[2], l[1]>> : l \in links}
<1>1. both \subseteq Link
    BY Links
<1>2. DOMAIN pass' = Link /\ \A l \in Link : pass'[l] = NoPass \/ pass'[l] = pass[l]
    BY DEF LoseSessions
<1>3. PassRecord(NoPass) /\ ~NoPass.running /\ DOMAIN NoPass.todo = {} /\ DOMAIN NoPass.applied = {}
    BY DEF NoPass, PassRecord
<1>4. PassOK'
    BY <1>2, <1>3 DEF Typed, PassOK
<1>5. owed' \subseteq Link
    BY <1>1 DEF LoseSessions, Typed, CountOK
<1> QED
    BY <1>4, <1>5

LEMMA FaultTyped == ASSUME Typed, NEW l \in Link, Fault(l[1], l[2]) PROVE Typed'
<1> DEFINE n == l[1]
           e == count.edits
<1>1. l = <<l[1], l[2]>> /\ n \in Node /\ e \in Nat /\ DiskOK /\ FilesOK /\ ScanOK /\ PassOK /\ CountOK
    BY Links DEF Typed, CountOK
<1>2. /\ UNCHANGED <<files, peerFiles, superseded>> /\ count' = [count EXCEPT !.faults = @ + 1]
      /\ \E links \in SUBSET Link : LoseSessions(links)
    BY <1>1 DEF Fault, Drop, Crash
<1>3. count' \in [edits : Nat, removes : Nat, faults : Nat, restores : Nat] /\ count'.edits = e
    BY <1>1, <1>2 DEF CountOK
<1>4. PassOK' /\ owed' \subseteq Link
    BY <1>2, <1>3, SessionsLost
<1>5. FilesOK' /\ CountOK'
    BY <1>1, <1>2, <1>3, <1>4 DEF FilesOK, CountOK
<1>6. CASE Drop(l[1], l[2])
    <2>1. UNCHANGED <<disk, scan, trash>>
        BY <1>6 DEF Drop
    <2>2. DiskOK' /\ ScanOK'
        BY <1>1, <1>3, <2>1 DEF DiskOK, ScanOK
    <2> QED
        BY <1>4, <1>5, <2>2 DEF Typed
<1>7. ASSUME NEW p \in DOMAIN pass[l].todo, Crash(l[1], l[2], p) PROVE Typed'
    <2> DEFINE a == pass[l].todo[p]
               b == BeforeRename(n, l[2], p, a)
               gone == applyAction(n, l[2], p, a).trashed
    <2>1. /\ disk' = [disk EXCEPT ![n] = b] /\ trash' = [trash EXCEPT ![n] = @ \cup gone]
          /\ scan' = [scan EXCEPT ![n] = NoScan]
        BY <1>1, <1>7 DEF Crash
    <2>2. ActionOK(a, e) /\ AllIn(disk[n], Found(e))
        BY <1>1, <1>7 DEF PassOK, DiskOK
    <2> HIDE DEF a
    <2>3. AllIn(b, Found(e))
        BY <1>1, <2>2, Interrupted
    <2>4. \A t \in gone : t[2] \in Found(e)
        <3>1. EffectOK(n, applyAction(n, l[2], p, a), e)
            BY <1>1, <2>2, Actions
        <3> QED
            BY <2>2, <3>1 DEF EffectOK, AllIn
    <2> HIDE DEF b, gone
    <2>5. DiskOK'
        BY <1>1, <1>3, <2>1, <2>3, <2>4 DEF DiskOK
    <2>6. ScanOK'
        BY <1>1, <1>3, <2>1, AllInEmpty DEF ScanOK, NoScan
    <2> QED
        BY <1>4, <1>5, <2>5, <2>6 DEF Typed
<1> QED
    BY <1>1, <1>6, <1>7 DEF Fault

LEMMA RestoreTyped == ASSUME Typed, NEW n \in Node, NEW p, NEW f, Restore(n, p, f) PROVE Typed'
<1> DEFINE e == count.edits
           old == RowAt(files[n], p)
           row == FileRow(f, Bump(carriedVersion(old), n))
<1>1. e \in Nat /\ DiskOK /\ FilesOK /\ ScanOK /\ PassOK /\ CountOK
    BY DEF Typed, CountOK
<1>2. /\ <<p, f>> \in trash[n] /\ count' = [count EXCEPT !.restores = @ + 1]
      /\ disk' = [disk EXCEPT ![n] = Put(disk[n], p, f)]
      /\ files' = [files EXCEPT ![n] = Put(files[n], p, row)]
      /\ trash' = [trash EXCEPT ![n] = (trash[n] \ {<<p, f>>}) \cup Trashed(n, p)]
      /\ superseded' = (superseded \cup Replaced(n, p)) \ {f.sha}
      /\ UNCHANGED <<peerFiles, owed, pass, scan>>
    BY DEF Restore
<1>3. count' \in [edits : Nat, removes : Nat, faults : Nat, restores : Nat] /\ count'.edits = e
    BY <1>1, <1>2 DEF CountOK
<1>4. ScanOK' /\ PassOK'
    BY <1>1, <1>2, <1>3 DEF ScanOK, PassOK
<1>5. f \in Found(e)
    BY <1>1, <1>2 DEF DiskOK
<1>6. row \in Rows(e)
    <2>1. EmptyVector \in VersionVector
        BY DEF EmptyVector, VersionVector
    <2>2. old \in Rows(e) \/ old = NoRow
        BY <1>1 DEF FilesOK, AllIn, RowAt
    <2>3. carriedVersion(old) \in VersionVector
        BY <2>1, <2>2, RowFields DEF carriedVersion
    <2>4. Bump(carriedVersion(old), n) \in VersionVector
        BY <2>3, BumpDominates
    <2> QED
        BY <1>1, <1>5, <2>4, FileRowFacts
<1> HIDE DEF row
<1>7. DiskOK'
    <2>1. AllIn(Put(disk[n], p, f), Found(e))
        BY <1>1, <1>5 DEF DiskOK, AllIn, Put
    <2>2. \A t \in Trashed(n, p) : t[2] \in Found(e)
        BY <1>1, TrashFacts DEF DiskOK, AllIn
    <2> QED
        BY <1>1, <1>2, <1>3, <2>1, <2>2 DEF DiskOK
<1>8. FilesOK'
    <2>1. AllIn(Put(files[n], p, row), Rows(e))
        BY <1>1, <1>6 DEF FilesOK, AllIn, Put
    <2> QED
        BY <1>1, <1>2, <1>3, <2>1 DEF FilesOK
<1>9. CountOK'
    <2>1. Replaced(n, p) \subseteq 1..e
        BY <1>1 DEF Replaced, DiskOK, AllIn, Found
    <2> QED
        BY <1>1, <1>2, <1>3, <2>1 DEF CountOK
<1> QED
    BY <1>4, <1>7, <1>8, <1>9 DEF Typed

LEMMA TypedNext == ASSUME Typed, [Next]_vars PROVE Typed'
<1>1. CASE UNCHANGED vars
    BY <1>1 DEF vars, Typed, DiskOK, FilesOK, ScanOK, PassOK, CountOK
<1>2. ASSUME NEW n \in Editor, UserStep(n) PROVE Typed'
    BY <1>2, Links, EditTyped, RemoveTyped, RestoreTyped DEF UserStep
<1>3. ASSUME NEW n \in Node, ScanStep(n) PROVE Typed'
    BY <1>3, ScanTyped
<1>4. ASSUME NEW l \in Link, \/ Deliver(l[1], l[2]) \/ PassBegin(l[1], l[2]) \/ ApplyStep(l[1], l[2])
                             \/ PersistStep(l[1], l[2]) \/ Fault(l[1], l[2])
      PROVE  Typed'
    BY <1>4, DeliverTyped, PassBeginTyped, ApplyTyped, PersistTyped, FaultTyped DEF ApplyStep, PersistStep
<1> QED
    BY <1>1, <1>2, <1>3, <1>4 DEF Next

\* Every index, mirror, scan result, folder and trash describes contents some
\* user wrote, whatever reconcileOne decided and whatever the pass, the scan or
\* the restore then did about it; and a pass in progress has an action left to
\* apply or a row left to persist, so that its end is always reached by
\* applyAndPersist.
THEOREM TypesAlways == Spec => []TypeOK
<1>1. Typed => TypeOK
    <2> SUFFICES ASSUME Typed PROVE TypeOK
        OBVIOUS
    <2>1. ASSUME NEW n \in Node
          PROVE  /\ \A p \in DOMAIN disk[n] : disk[n][p].sha \in 1..count.edits
                 /\ \A p \in DOMAIN files[n] : files[n][p].sha \in 1..count.edits
                 /\ scan[n].phase \in {"idle", "listed", "walked"}
        <3>1. \A p \in DOMAIN disk[n] : disk[n][p] \in Found(count.edits)
            BY DEF Typed, DiskOK, AllIn
        <3>2. \A p \in DOMAIN files[n] : files[n][p] \in Rows(count.edits)
            BY DEF Typed, FilesOK, AllIn
        <3>3. \A p \in DOMAIN files[n] : files[n][p].sha \in 1..count.edits
            BY <3>2 DEF Rows
        <3> QED
            BY <3>1, <3>3 DEF Found, Typed, ScanOK
    <2> QED
        BY <2>1 DEF TypeOK, Typed, PassOK, CountOK
<1> QED
    BY <1>1, TypedInit, TypedNext, PTL DEF Spec

-----------------------------------------------------------------------------
(* No content is destroyed. *)

Held(x) == \E n \in Node : \/ \E p \in DOMAIN disk[n] : disk[n][p].sha = x
                           \/ \E t \in trash[n] : t[2].sha = x

Survives == \A x \in 1..count.edits : Held(x) \/ x \in superseded

\* A folder whose files are all kept, there or in the trash.
LEMMA StillHeld ==
    ASSUME DiskOK, NEW n \in Node, NEW d, NEW t, Keeps(n, d, t),
           disk' = [disk EXCEPT ![n] = d], trash' = [trash EXCEPT ![n] = @ \cup t]
    PROVE  \A x : Held(x) => Held(x)'
<1>1. /\ disk'[n] = d /\ trash'[n] = trash[n] \cup t
      /\ \A k \in Node \ {n} : disk'[k] = disk[k] /\ trash'[k] = trash[k]
    BY DEF DiskOK
<1> SUFFICES ASSUME NEW x, NEW k \in Node,
                    \/ \E p \in DOMAIN disk[k] : disk[k][p].sha = x
                    \/ \E y \in trash[k] : y[2].sha = x
             PROVE  \/ \E p \in DOMAIN disk'[k] : disk'[k][p].sha = x
                    \/ \E y \in trash'[k] : y[2].sha = x
    BY DEF Held
<1>2. CASE k # n
    BY <1>1, <1>2
<1>3. CASE k = n
    BY <1>1, <1>3 DEF Keeps
<1> QED
    BY <1>2, <1>3

LEMMA EditSurvives ==
    ASSUME Typed, Survives, NEW n \in Node, NEW p, NEW t, Edit(n, p, t) PROVE Survives'
<1> DEFINE e == count.edits
           f == [sha |-> e + 1, mtime |-> t]
<1>1. e \in Nat /\ count'.edits = e + 1 /\ DiskOK
    BY DEF Typed, CountOK, Edit
<1>2. /\ disk'[n] = Put(disk[n], p, f) /\ (\A k \in Node \ {n} : disk'[k] = disk[k])
      /\ trash' = trash /\ superseded' = superseded \cup Replaced(n, p)
    BY <1>1 DEF Edit, DiskOK
<1>3. /\ p \in DOMAIN disk'[n] /\ disk'[n][p].sha = e + 1
      /\ \A q \in DOMAIN disk[n] \ {p} : q \in DOMAIN disk'[n] /\ disk'[n][q] = disk[n][q]
    BY <1>2 DEF Put
<1>4. ASSUME NEW x, x = e + 1 PROVE Held(x)'
    BY <1>3, <1>4 DEF Held
<1>5. ASSUME NEW x \in 1..e PROVE Held(x)' \/ x \in superseded'
    <2>1. CASE x \in superseded
        BY <1>2, <2>1
    <2>2. ASSUME NEW k \in Node, NEW q \in DOMAIN disk[k], disk[k][q].sha = x
          PROVE  Held(x)' \/ x \in superseded'
        <3>1. CASE k = n /\ q = p
            BY <1>2, <2>2, <3>1 DEF Replaced
        <3>2. CASE k # n \/ q # p
            BY <1>2, <1>3, <2>2, <3>2 DEF Held
        <3> QED
            BY <3>1, <3>2
    <2>3. ASSUME NEW k \in Node, NEW y \in trash[k], y[2].sha = x PROVE Held(x)'
        BY <1>2, <2>3 DEF Held
    <2> QED
        BY <1>5, <2>1, <2>2, <2>3 DEF Survives, Held
<1>6. \A x \in 1..(e + 1) : x \in 1..e \/ x = e + 1
    BY <1>1
<1>7. \A x \in 1..(e + 1) : Held(x)' \/ x \in superseded'
    BY <1>4, <1>5, <1>6
<1> QED
    BY <1>1, <1>7 DEF Survives

LEMMA RemoveSurvives == ASSUME Typed, Survives, NEW n \in Node, NEW p, Remove(n, p) PROVE Survives'
<1>1. count'.edits = count.edits /\ DiskOK
    BY DEF Typed, CountOK, Remove
<1>2. /\ disk'[n] = Without(disk[n], p) /\ (\A k \in Node \ {n} : disk'[k] = disk[k])
      /\ trash' = trash /\ superseded' = superseded \cup Replaced(n, p)
    BY <1>1 DEF Remove, DiskOK
<1>3. \A q \in DOMAIN disk[n] \ {p} : q \in DOMAIN disk'[n] /\ disk'[n][q] = disk[n][q]
    BY <1>2 DEF Without
<1>4. ASSUME NEW x, Held(x) PROVE Held(x)' \/ x \in superseded'
    <2>1. ASSUME NEW k \in Node, NEW q \in DOMAIN disk[k], disk[k][q].sha = x
          PROVE  Held(x)' \/ x \in superseded'
        <3>1. CASE k = n /\ q = p
            BY <1>2, <2>1, <3>1 DEF Replaced
        <3>2. CASE k # n \/ q # p
            BY <1>2, <1>3, <2>1, <3>2 DEF Held
        <3> QED
            BY <3>1, <3>2
    <2>2. ASSUME NEW k \in Node, NEW y \in trash[k], y[2].sha = x PROVE Held(x)'
        BY <1>2, <2>2 DEF Held
    <2> QED
        BY <1>4, <2>1, <2>2 DEF Held
<1> QED
    BY <1>1, <1>2, <1>4 DEF Survives

\* What a restore takes out of the trash is in the folder, and what was in its
\* place is in the trash.
LEMMA RestoreSurvives ==
    ASSUME Typed, Survives, NEW n \in Node, NEW p, NEW f, Restore(n, p, f) PROVE Survives'
<1>1. count'.edits = count.edits /\ DiskOK
    BY DEF Typed, CountOK, Restore
<1>2. /\ disk'[n] = Put(disk[n], p, f) /\ trash'[n] = (trash[n] \ {<<p, f>>}) \cup Trashed(n, p)
      /\ (\A k \in Node \ {n} : disk'[k] = disk[k] /\ trash'[k] = trash[k])
      /\ superseded' = (superseded \cup Replaced(n, p)) \ {f.sha}
    BY <1>1 DEF Restore, DiskOK
<1>3. /\ p \in DOMAIN disk'[n] /\ disk'[n][p] = f
      /\ \A q \in DOMAIN disk[n] \ {p} : q \in DOMAIN disk'[n] /\ disk'[n][q] = disk[n][q]
      /\ p \in DOMAIN disk[n] => \E y \in trash'[n] : y[2] = disk[n][p]
    BY <1>2, TrashFacts DEF Put
<1>4. Held(f.sha)'
    BY <1>3 DEF Held
<1>5. ASSUME NEW x, Held(x) PROVE Held(x)'
    <2>1. ASSUME NEW k \in Node, NEW q \in DOMAIN disk[k], disk[k][q].sha = x PROVE Held(x)'
        <3>1. CASE k = n /\ q = p
            BY <1>3, <2>1, <3>1 DEF Held
        <3>2. CASE k # n \/ q # p
            BY <1>2, <1>3, <2>1, <3>2 DEF Held
        <3> QED
            BY <3>1, <3>2
    <2>2. ASSUME NEW k \in Node, NEW y \in trash[k], y[2].sha = x PROVE Held(x)'
        <3>1. CASE k = n /\ y = <<p, f>>
            BY <1>4, <2>2, <3>1
        <3>2. CASE k # n \/ y # <<p, f>>
            BY <1>2, <2>2, <3>2 DEF Held
        <3> QED
            BY <3>1, <3>2
    <2> QED
        BY <1>5, <2>1, <2>2 DEF Held
<1> QED
    BY <1>1, <1>2, <1>4, <1>5 DEF Survives

LEMMA SurvivesNext == ASSUME Typed, Survives, [Next]_vars PROVE Survives'
<1>1. ASSUME \A x : Held(x) => Held(x)', count'.edits = count.edits, superseded' = superseded PROVE Survives'
    BY <1>1 DEF Survives
<1>2. CASE UNCHANGED <<disk, trash, count, superseded>>
    BY <1>2 DEF Survives, Held
<1>3. ASSUME NEW n \in Editor, UserStep(n) PROVE Survives'
    BY <1>3, Links, EditSurvives, RemoveSurvives, RestoreSurvives DEF UserStep
<1>4. ASSUME NEW n \in Node, ScanStep(n) PROVE Survives'
    BY <1>2, <1>4 DEF ScanStep, ScanList, ScanWalk, ApplyScanResult
<1>5. ASSUME NEW l \in Link, Deliver(l[1], l[2]) \/ PassBegin(l[1], l[2]) PROVE Survives'
    BY <1>2, <1>5 DEF Deliver, PassBegin
<1>6. ASSUME NEW l \in Link, PersistStep(l[1], l[2]) PROVE Survives'
    BY <1>2, <1>6 DEF PersistStep, Persist
<1>7. ASSUME NEW l \in Link, NEW p, Apply(l[1], l[2], p) PROVE Survives'
    <2> DEFINE n == l[1]
               z == applyAction(n, l[2], p, pass[l].todo[p])
    <2>1. l = <<l[1], l[2]>> /\ n \in Node /\ count.edits \in Nat /\ DiskOK /\ PassOK
        BY Links DEF Typed, CountOK
    <2>2. /\ disk' = [disk EXCEPT ![n] = z.disk] /\ trash' = [trash EXCEPT ![n] = @ \cup z.trashed]
          /\ UNCHANGED <<count, superseded>> /\ p \in DOMAIN pass[l].todo
        BY <1>7, <2>1 DEF Apply
    <2>3. Keeps(n, z.disk, z.trashed)
        BY <2>1, <2>2, Actions DEF EffectOK, PassOK, DiskOK
    <2> HIDE DEF z
    <2> QED
        BY <1>1, <2>1, <2>2, <2>3, StillHeld
<1>8. ASSUME NEW l \in Link, Fault(l[1], l[2]) PROVE Survives'
    <2> DEFINE n == l[1]
    <2>1. l = <<l[1], l[2]>> /\ n \in Node /\ count.edits \in Nat /\ DiskOK /\ PassOK
        BY Links DEF Typed, CountOK
    <2>2. count'.edits = count.edits /\ UNCHANGED superseded
        BY <1>8 DEF Fault, Drop, Crash, Typed, CountOK
    <2>3. CASE Drop(l[1], l[2])
        BY <2>2, <2>3 DEF Drop, Survives, Held
    <2>4. ASSUME NEW p \in DOMAIN pass[l].todo, Crash(l[1], l[2], p) PROVE Survives'
        <3> DEFINE a == pass[l].todo[p]
                   b == BeforeRename(n, l[2], p, a)
                   gone == applyAction(n, l[2], p, a).trashed
        <3>1. disk' = [disk EXCEPT ![n] = b] /\ trash' = [trash EXCEPT ![n] = @ \cup gone]
            BY <2>1, <2>4 DEF Crash
        <3>2. Keeps(n, b, gone)
            BY <2>1, <2>4, Interrupted DEF PassOK, DiskOK
        <3> HIDE DEF b, gone
        <3> QED
            BY <1>1, <2>1, <2>2, <3>1, <3>2, StillHeld
    <2> QED
        BY <1>8, <2>1, <2>3, <2>4 DEF Fault
<1> QED
    BY <1>2, <1>3, <1>4, <1>5, <1>6, <1>7, <1>8 DEF Next, ApplyStep, vars

\* Nothing a pass, a conflict copy, a restore, a lost connection or a crash does
\* destroys a file: a content no user replaced or deleted is in some folder or
\* some trash (pullAndInstall and applyConflictCopy, which trash what is in the
\* way before they rename; applyDelete; RestoreTrash).
THEOREM NothingDestroyedAlways == Spec => []NothingDestroyed
<1>1. Init => Survives
    BY DEF Init, Survives
<1>2. Survives => NothingDestroyed
    <2>1. \A x : Held(x) => x \in OnDisk \cup InTrash
        BY DEF Held, OnDisk, InTrash
    <2> QED
        BY <2>1 DEF Survives, NothingDestroyed
<1> QED
    BY <1>1, <1>2, TypedInit, TypedNext, SurvivesNext, PTL DEF Spec

-----------------------------------------------------------------------------
(* No pass takes a row back. *)

\* A share both sides may change, without restores, on nodes whose scans and
\* passes exclude each other.
TwoWayShare ==
    /\ ~ScansOverlap /\ MaxRestores = 0
    /\ Permission = "read-write" /\ \A s \in Spoke : Mode[s] = "mirror"

\* n's only link: every spoke's, and the hub's when it has one spoke.
Sole(l) == \A k \in Link : k[1] = l[1] => k = l

\* A version that covers the row of p in index f, if there is one.
Ahead(f, p, v) == p.mark = NoMark /\ p \in DOMAIN f => Covers(v, f[p].ver)

\* What the pass has to do, and what it has done, is ahead of the index.
Forward(l) ==
    LET f == files[l[1]]
        todo == pass[l].todo
        applied == pass[l].applied
    IN  /\ DOMAIN todo # {} \/ DOMAIN applied # {} => pass[l].running
        /\ pass[l].running => scan[l[1]].phase = "idle"
        /\ DOMAIN todo \cap DOMAIN applied = {}
        /\ \A p \in DOMAIN todo : Ahead(f, p, todo[p].resolved.ver)
        /\ \A p \in DOMAIN applied :
              /\ \A q \in DOMAIN applied[p] : q # p => q.mark # NoMark
              /\ p \in DOMAIN applied[p] => Ahead(f, p, applied[p][p].ver)

Advancing == \A l \in Link : Sole(l) => Forward(l)

LEMMA NotARow == ASSUME NEW e \in Nat PROVE NoRow \notin Rows(e)
<1>1. MTimes \subseteq Nat /\ NoRow \notin FileInfo /\ 1..e \subseteq Nat
    BY ReplicasAssumption
<1> DEFINE V == VersionVector
<1> HIDE DEF V
<1>2. [type : {"file"}, deleted : BOOLEAN, ver : V, sha : 1..e, mtime : MTimes]
        \subseteq [type : {"file", "dir", "symlink"}, deleted : BOOLEAN, ver : V, sha : Nat, mtime : Nat]
    BY <1>1
<1> QED
    BY <1>1, <1>2 DEF Rows, FileInfo, V

\* What a pass decides about a path it has a row for covers that row.
LEMMA DecisionsAhead ==
    ASSUME NEW e \in Nat, NEW p, NEW n \in Node, NEW dir, NEW now, ~dir.outBlocked,
           NEW l \in Rows(e), NEW r \in Rows(e) \cup {NoRow},
           Works(reconcileOne(p, l, r, n, dir, now))
    PROVE  Covers(reconcileOne(p, l, r, n, dir, now).resolved.ver, l.ver)
<1> DEFINE a == reconcileOne(p, l, r, n, dir, now)
           merged == Bump(Merge(l.ver, r.ver), n)
<1>1. r # NoRow /\ ~dir.inBlocked
    BY DEF reconcileOne, KeepLocal, Works
<1>2. r \in Rows(e) /\ r.ver \in VersionVector /\ l.ver \in VersionVector /\ l # NoRow
    BY <1>1, RowFields, NotARow
<1>3. \/ a = Adopt(r) /\ Dominates(r.ver, l.ver)
      \/ a = reconcileConcurrent(p, l, r, n, dir, now)
    BY <1>1, <1>2 DEF reconcileOne, Works, KeepLocal
<1>4. CASE a = Adopt(r) /\ Dominates(r.ver, l.ver)
    <2>1. Adopt(r).resolved = r
        BY DEF Adopt, ActionDelete, ActionPull
    <2> QED
        BY <1>4, <2>1 DEF Covers
<1>5. CASE a = reconcileConcurrent(p, l, r, n, dir, now)
    <2>1. Merge(l.ver, r.ver) \in VersionVector
        BY <1>2, MergePointwise
    <2>2. merged \in VersionVector
        BY <2>1, BumpDominates
    <2>3. Covers(Merge(l.ver, r.ver), l.ver) /\ Covers(merged, l.ver)
        <3>1. Covers(Merge(l.ver, r.ver), l.ver)
            BY <1>2, MergeIsLeastUpperBound
        <3>2. Dominates(merged, l.ver)
            BY <1>2, ResolutionDominatesBoth
        <3> QED
            BY <3>1, <3>2 DEF Covers
    <2> HIDE DEF merged
    <2>4. /\ WithVersion(r, merged).ver = merged /\ WithVersion(l, merged).ver = merged
          /\ WithVersion(l, Merge(l.ver, r.ver)).ver = Merge(l.ver, r.ver)
        BY <1>2, <2>1, <2>2, RowFacts
    <2>5. a.resolved \in {WithVersion(r, merged), WithVersion(l, merged), WithVersion(l, Merge(l.ver, r.ver))}
        BY <1>5 DEF reconcileConcurrent, merged, ResolveDelete, ActionResurrect, ActionDelete,
                    reconcileIdenticalContent, ActionPull, ResolveContent, ActionConflictCopy
    <2> HIDE DEF a
    <2>6. a.resolved.ver \in {merged, Merge(l.ver, r.ver)}
        BY <2>4, <2>5
    <2>7. Covers(a.resolved.ver, l.ver)
        BY <2>3, <2>6
    <2> QED
        BY <2>7 DEF a
<1> QED
    BY <1>3, <1>4, <1>5

\* An action returns the row it resolved to, and rows of conflict copies.
LEMMA ActionRows ==
    ASSUME NEW e, NEW n, NEW m, NEW p, NEW a, ActionOK(a, e)
    PROVE  LET rows == applyAction(n, m, p, a).rows
           IN  /\ \A q \in DOMAIN rows : q # p => q.mark # NoMark
               /\ p.mark = NoMark /\ p \in DOMAIN rows => rows[p] = a.resolved
<1> DEFINE Sane(x) == /\ \A q \in DOMAIN x.rows : q # p => q.mark # NoMark
                      /\ p.mark = NoMark /\ p \in DOMAIN x.rows => x.rows[p] = a.resolved
           own == Only(p, a.resolved)
           loser == Only(a.cpath, a.cinfo)
           both == Put(loser, p, a.resolved)
<1>1. DOMAIN own = {p} /\ own[p] = a.resolved /\ DOMAIN <<>> = {}
    BY DEF Only
<1>2. ASSUME NEW d, NEW t PROVE Sane(Effect(d, own, t)) /\ Sane(Effect(d, <<>>, t))
    BY <1>1, EffectFields
<1>3. ASSUME a.kind = "ConflictCopy", NEW d, NEW t PROVE Sane(Effect(d, both, t)) /\ Sane(Effect(d, loser, t))
    <2>1. /\ DOMAIN loser = {a.cpath} /\ DOMAIN both = {a.cpath, p} /\ both[p] = a.resolved
          /\ a.cpath.mark # NoMark
        BY <1>3 DEF Only, Put, ActionOK
    <2> HIDE DEF loser, both
    <2> QED
        BY <2>1, EffectFields
<1> HIDE DEF Sane
<1>4. Sane(applyDelete(n, p, a)) /\ Sane(PullAndInstall(n, m, p, a))
    BY <1>2 DEF applyDelete, PullAndInstall
<1>5. ASSUME a.kind = "ConflictCopy" PROVE Sane(CopyRemoteLoser(n, m, p, a)) /\ Sane(CopyLocalLoser(n, m, p, a))
    BY <1>2, <1>3, <1>5 DEF CopyRemoteLoser, CopyLocalLoser
<1>6. Sane(applyAction(n, m, p, a))
    BY <1>2, <1>4, <1>5 DEF applyAction, ActionOK, ActionKind
<1> QED
    BY <1>6 DEF Sane

LEMMA NoPassForward ==
    ASSUME NEW l \in Link PROVE /\ pass[l] = NoPass => Forward(l)
                                /\ pass'[l] = NoPass => Forward(l)'
<1>1. ~NoPass.running /\ DOMAIN NoPass.todo = {} /\ DOMAIN NoPass.applied = {}
    BY DEF NoPass
<1> QED
    BY <1>1 DEF Forward

\* A step that leaves a link's pass, its node's index and scan phase alone.
LEMMA SameForward ==
    ASSUME NEW l \in Link, Forward(l), pass'[l] = pass[l], files'[l[1]] = files[l[1]],
           scan'[l[1]].phase = scan[l[1]].phase
    PROVE  Forward(l)'
BY DEF Forward, Ahead

\* Scans of a node do nothing while it runs a pass.
LEMMA ScanForward ==
    ASSUME TwoWayShare, Typed, Advancing, NEW n \in Node, ScanStep(n) PROVE Advancing'
<1> SUFFICES ASSUME NEW l \in Link, Sole(l) PROVE Forward(l)'
    BY DEF Advancing, Sole
<1>1. Forward(l) /\ ScanOK /\ FilesOK
    BY DEF Advancing, Typed
<1>2. /\ pass' = pass
      /\ \A k \in Node \ {n} : files'[k] = files[k] /\ scan'[k] = scan[k]
      /\ scan[n].phase # "idle" \/ Idle(n)
    BY <1>1 DEF ScanStep, ScanList, ScanWalk, ApplyScanResult, ScanOK, FilesOK, TwoWayShare
<1>3. CASE l[1] # n
    BY <1>1, <1>2, <1>3, Links, SameForward
<1>4. CASE l[1] = n
    <2>1. ~pass[l].running
        BY <1>1, <1>2, <1>4 DEF Forward, Idle
    <2>2. DOMAIN pass[l].todo = {} /\ DOMAIN pass[l].applied = {}
        BY <1>1, <2>1 DEF Forward
    <2> QED
        BY <1>2, <2>1, <2>2 DEF Forward
<1> QED
    BY <1>3, <1>4

\* A pass begins with its node's scan idle and with decisions about the index
\* as it is.
LEMMA PassBeginForward ==
    ASSUME TwoWayShare, Typed, NEW l \in Link, Forward(l), PassBegin(l[1], l[2]) PROVE Forward(l)'
<1> DEFINE n == l[1]
           e == count.edits
           plan == ReconcileShare(files[n], peerFiles[l], n, Direction(n), 0, {})
           todo == {p \in DOMAIN plan : Works(plan[p])}
           x == [todo |-> [p \in todo |-> plan[p]], applied |-> <<>>, running |-> TRUE]
<1>1. l = <<l[1], l[2]>> /\ n \in Node /\ e \in Nat /\ FilesOK /\ PassOK
    BY Links DEF Typed, CountOK
<1>2. /\ files' = files /\ scan' = scan /\ scan[n].phase = "idle"
      /\ pass'[l] = NoPass \/ pass'[l] = x
    BY <1>1 DEF PassBegin, PassOK, TwoWayShare
<1>3. ~Direction(n).outBlocked
    <2>1. CASE n = Hub
        BY <2>1 DEF Direction, DirectionFor
    <2>2. CASE n # Hub
        <3>1. n \in Spoke
            BY <1>1, <2>2, ReplicasAssumption
        <3>2. Mode[n] = "mirror" /\ Permission = "read-write"
            BY <3>1 DEF TwoWayShare
        <3> QED
            BY <2>2, <3>2 DEF Direction, DirectionFor, subscriberDirection
    <2> QED
        BY <2>1, <2>2
<1>4. ASSUME NEW p \in todo PROVE Ahead(files[n], p, plan[p].resolved.ver)
    <2> SUFFICES ASSUME p \in DOMAIN files[n] PROVE Covers(plan[p].resolved.ver, files[n][p].ver)
        BY DEF Ahead
    <2>1. /\ RowAt(files[n], p) = files[n][p] /\ files[n][p] \in Rows(e)
          /\ RowAt(peerFiles[l], p) \in Rows(e) \cup {NoRow}
        BY <1>1 DEF FilesOK, AllIn, RowAt
    <2>2. plan[p] = reconcileOne(p, files[n][p], RowAt(peerFiles[l], p), n, Direction(n), 0)
        BY <1>4, <2>1 DEF ReconcileShare
    <2>3. Works(plan[p])
        OBVIOUS
    <2> HIDE DEF plan, todo
    <2> QED
        BY <1>1, <1>3, <2>1, <2>2, <2>3, DecisionsAhead
<1>5. CASE pass'[l] = x
    <2> HIDE DEF plan, todo
    <2>1. /\ DOMAIN x.todo = todo /\ DOMAIN x.applied = {} /\ x.running
          /\ \A p \in todo : x.todo[p] = plan[p]
        OBVIOUS
    <2> HIDE DEF x
    <2> QED
        BY <1>2, <1>4, <1>5, <2>1 DEF Forward
<1> QED
    BY <1>2, <1>5, NoPassForward

LEMMA ApplyForward ==
    ASSUME Typed, NEW l \in Link, Forward(l), NEW p, Apply(l[1], l[2], p) PROVE Forward(l)'
<1> DEFINE n == l[1]
           a == pass[l].todo[p]
           z == applyAction(n, l[2], p, a)
           t == Without(pass[l].todo, p)
           u == Put(pass[l].applied, p, z.rows)
<1>1. l = <<l[1], l[2]>> /\ PassOK
    BY Links DEF Typed
<1>2. /\ files' = files /\ scan' = scan /\ p \in DOMAIN pass[l].todo
      /\ pass'[l] = [pass[l] EXCEPT !.todo = t, !.applied = u]
    BY <1>1 DEF Apply, PassOK
<1>3. ActionOK(a, count.edits) /\ pass[l].running
    BY <1>1, <1>2 DEF PassOK, Forward
<1>4. /\ \A q \in DOMAIN z.rows : q # p => q.mark # NoMark
      /\ p.mark = NoMark /\ p \in DOMAIN z.rows => z.rows[p] = a.resolved
    BY <1>3, ActionRows
<1>5. Ahead(files[n], p, a.resolved.ver)
    BY <1>2 DEF Forward
<1> HIDE DEF z
<1>6. /\ DOMAIN t = DOMAIN pass[l].todo \ {p} /\ \A q \in DOMAIN t : t[q] = pass[l].todo[q]
      /\ DOMAIN u = DOMAIN pass[l].applied \cup {p} /\ u[p] = z.rows
      /\ \A q \in DOMAIN pass[l].applied \ {p} : u[q] = pass[l].applied[q]
    BY DEF Put, Without
<1> HIDE DEF t, u
<1>7. pass'[l].todo = t /\ pass'[l].applied = u /\ pass'[l].running
    <2> DEFINE y == pass[l]
               x == pass'[l]
    <2>1. PassRecord(y) /\ x = [y EXCEPT !.todo = t, !.applied = u] /\ y.running
        BY <1>1, <1>2, <1>3 DEF PassOK
    <2> HIDE DEF y, x
    <2>2. PICK old, done, running : y = [todo |-> old, applied |-> done, running |-> running]
        BY <2>1 DEF PassRecord
    <2>3. y \in [todo : {old}, applied : {done}, running : {running}] /\ running
        BY <2>1, <2>2
    <2>4. x \in [todo : {t}, applied : {u}, running : {running}]
        BY <2>1, <2>3
    <2>5. x = [todo |-> t, applied |-> u, running |-> running]
        BY <2>4
    <2>6. x.todo = t /\ x.applied = u /\ x.running
        BY <2>3, <2>5
    <2> QED
        BY <2>6 DEF x
<1>8. ASSUME NEW q \in DOMAIN u
      PROVE  /\ \A k \in DOMAIN u[q] : k # q => k.mark # NoMark
             /\ q \in DOMAIN u[q] => Ahead(files[n], q, u[q][q].ver)
    <2>1. CASE q = p
        BY <1>4, <1>5, <1>6, <2>1 DEF Ahead
    <2>2. CASE q # p
        BY <1>6, <1>8, <2>2 DEF Forward
    <2> QED
        BY <2>1, <2>2
<1>9. \A q \in DOMAIN t : Ahead(files[n], q, t[q].resolved.ver)
    BY <1>6 DEF Forward
<1>10. DOMAIN t \cap DOMAIN u = {} /\ scan[n].phase = "idle"
    BY <1>3, <1>6 DEF Forward
<1> QED
    BY <1>2, <1>7, <1>8, <1>9, <1>10 DEF Forward

\* Writing the rows of one action disturbs no other path the pass decided on.
LEMMA PersistForward ==
    ASSUME Typed, NEW l \in Link, Forward(l), NEW p, Persist(l[1], l[2], p) PROVE Forward(l)'
<1> DEFINE n == l[1]
           rows == pass[l].applied[p]
           rest == Without(pass[l].applied, p)
<1>1. l = <<l[1], l[2]>> /\ n \in Node /\ PassOK /\ FilesOK
    BY Links DEF Typed
<1>2. /\ scan' = scan /\ p \in DOMAIN pass[l].applied /\ files'[n] = Over(rows, files[n])
      /\ pass'[l] = NoPass \/ pass'[l] = [pass[l] EXCEPT !.applied = rest]
    BY <1>1 DEF Persist, PassOK, FilesOK
<1>3. CASE pass'[l] = [pass[l] EXCEPT !.applied = rest]
    <2>1. pass'[l].todo = pass[l].todo /\ pass'[l].applied = rest /\ pass'[l].running = pass[l].running
        BY <1>1, <1>3 DEF PassOK, PassRecord
    <2>2. DOMAIN rest = DOMAIN pass[l].applied \ {p} /\ \A q \in DOMAIN rest : rest[q] = pass[l].applied[q]
        BY DEF Without
    <2> HIDE DEF rest
    <2>3. /\ pass[l].running /\ scan[n].phase = "idle" /\ DOMAIN pass[l].todo \cap DOMAIN pass[l].applied = {}
          /\ \A q \in DOMAIN rows : q # p => q.mark # NoMark
        BY <1>2 DEF Forward
    <2>4. ASSUME NEW q, q # p, NEW v, Ahead(files[n], q, v) PROVE Ahead(files'[n], q, v)
        <3> SUFFICES ASSUME q.mark = NoMark, q \in DOMAIN files'[n]
                     PROVE  q \in DOMAIN files[n] /\ files'[n][q] = files[n][q]
            BY <2>4 DEF Ahead
        <3>1. q \notin DOMAIN rows
            BY <2>3, <2>4
        <3> HIDE DEF rows
        <3> QED
            BY <1>2, <3>1 DEF Over
    <2>5. \A q \in DOMAIN pass[l].todo : Ahead(files'[n], q, pass[l].todo[q].resolved.ver)
        BY <1>2, <2>3, <2>4 DEF Forward
    <2>6. ASSUME NEW q \in DOMAIN rest
          PROVE  /\ \A k \in DOMAIN rest[q] : k # q => k.mark # NoMark
                 /\ q \in DOMAIN rest[q] => Ahead(files'[n], q, rest[q][q].ver)
        BY <2>2, <2>4, <2>6 DEF Forward
    <2> QED
        BY <1>2, <2>1, <2>2, <2>3, <2>5, <2>6 DEF Forward
<1> QED
    BY <1>2, <1>3, NoPassForward

LEMMA AdvancingNext == ASSUME TwoWayShare, Typed, Advancing, [Next]_vars PROVE Advancing'
<1>1. ASSUME UNCHANGED <<files, pass, scan>> PROVE Advancing'
    BY <1>1, SameForward DEF Advancing, Sole
<1>2. ASSUME NEW n \in Editor, UserStep(n) PROVE Advancing'
    <2>1. ASSUME NEW p, NEW f, Restore(n, p, f) PROVE FALSE
        BY <2>1 DEF Restore, TwoWayShare, Typed, CountOK
    <2> QED
        BY <1>1, <1>2, <2>1 DEF UserStep, Edit, Remove
<1>3. ASSUME NEW n \in Node, ScanStep(n) PROVE Advancing'
    BY <1>3, ScanForward
<1>4. ASSUME NEW l \in Link, Deliver(l[1], l[2]) PROVE Advancing'
    BY <1>1, <1>4 DEF Deliver
\* One link's pass moves on; the other sole links belong to other nodes.
<1>5. ASSUME NEW l \in Link, NEW x, pass' = [pass EXCEPT ![l] = x], scan' = scan,
             \A k \in Node \ {l[1]} : files'[k] = files[k], Forward(l) => Forward(l)'
      PROVE  Advancing'
    <2> SUFFICES ASSUME NEW k \in Link, Sole(k) PROVE Forward(k)'
        BY DEF Advancing, Sole
    <2>1. Forward(k) /\ PassOK
        BY DEF Advancing, Typed
    <2>2. CASE k = l
        BY <1>5, <2>1, <2>2
    <2>3. CASE k # l
        <3>1. k[1] # l[1]
            BY <2>3 DEF Sole
        <3>2. pass'[k] = pass[k] /\ files'[k[1]] = files[k[1]]
            BY <1>5, <2>1, <2>3, <3>1, Links DEF PassOK
        <3> QED
            BY <1>5, <2>1, <3>2, SameForward
    <2> QED
        BY <2>2, <2>3
<1>6. ASSUME NEW l \in Link, PassBegin(l[1], l[2]) PROVE Advancing'
    <2>1. l = <<l[1], l[2]>>
        BY Links
    <2>2. Forward(l) => Forward(l)'
        BY <1>6, PassBeginForward
    <2>3. files' = files /\ scan' = scan /\ \E x : pass' = [pass EXCEPT ![l] = x]
        BY <1>6, <2>1 DEF PassBegin
    <2> QED
        BY <1>5, <2>2, <2>3
<1>7. ASSUME NEW l \in Link, NEW p, Apply(l[1], l[2], p) PROVE Advancing'
    <2>1. l = <<l[1], l[2]>>
        BY Links
    <2>2. Forward(l) => Forward(l)'
        BY <1>7, ApplyForward
    <2>3. files' = files /\ scan' = scan /\ \E x : pass' = [pass EXCEPT ![l] = x]
        BY <1>7, <2>1 DEF Apply
    <2> QED
        BY <1>5, <2>2, <2>3
<1>8. ASSUME NEW l \in Link, NEW p, Persist(l[1], l[2], p) PROVE Advancing'
    <2>1. l = <<l[1], l[2]>> /\ FilesOK
        BY Links DEF Typed
    <2>2. Forward(l) => Forward(l)'
        BY <1>8, PersistForward
    <2>3. /\ \A k \in Node \ {l[1]} : files'[k] = files[k]
          /\ scan' = scan /\ \E x : pass' = [pass EXCEPT ![l] = x]
        BY <1>8, <2>1 DEF Persist, FilesOK
    <2> QED
        BY <1>5, <2>2, <2>3
<1>9. ASSUME NEW l \in Link, Fault(l[1], l[2]) PROVE Advancing'
    <2> SUFFICES ASSUME NEW k \in Link, Sole(k) PROVE Forward(k)'
        BY DEF Advancing, Sole
    <2>1. Forward(k) /\ ScanOK /\ k[1] \in Node
        BY Links DEF Advancing, Typed
    <2>2. /\ files' = files
          /\ pass'[k] = NoPass \/ pass'[k] = pass[k]
          /\ scan' = scan \/ (scan' = [scan EXCEPT ![l[1]] = NoScan] /\ (k[1] = l[1] => pass'[k] = NoPass))
        BY <1>9 DEF Fault, Drop, Crash, LoseSessions
    <2>3. CASE pass'[k] = pass[k] /\ k[1] # l[1]
        <3>1. scan'[k[1]] = scan[k[1]]
            BY <2>1, <2>2, <2>3 DEF ScanOK
        <3> QED
            BY <2>1, <2>2, <2>3, <3>1, SameForward
    <2>4. CASE pass'[k] = pass[k] /\ scan' = scan
        BY <2>1, <2>2, <2>4, SameForward
    <2> QED
        BY <2>2, <2>3, <2>4, NoPassForward
<1> QED
    BY <1>1, <1>2, <1>3, <1>4, <1>6, <1>7, <1>8, <1>9 DEF Next, ApplyStep, PersistStep, vars

LEMMA AdvancingInit == Init => Advancing
BY NoPassForward DEF Init, Advancing

\* The row a pass may write next, on its node's only link, is ahead.
LEMMA WritesAhead ==
    ASSUME NEW l \in Link, Forward(l), NEW p \in DOMAIN pass[l].applied, p.mark = NoMark,
           p \in DOMAIN pass[l].applied[p] \cap DOMAIN files[l[1]]
    PROVE  Covers(pass[l].applied[p][p].ver, files[l[1]][p].ver)
BY DEF Forward, Ahead

\* Between two nodes that both may change the share, no row applyAndPersist
\* writes for a path reconcileOne decided on takes back what the node had
\* recorded there, whatever the users, the scans, the peer, lost connections
\* and crashes did between the decision and the write: the version written
\* covers the one it replaces.  The hypotheses are what it needs.  A restore or
\* a scan in between bumps the row past the decision, a second pass of the hub,
\* with another spoke, writes it past the decision, and a receive-only
\* subscriber reverts to the offerer's version on purpose.
THEOREM PassesNeverRegressAlways ==
    ASSUME TwoWayShare, NEW s, Spoke = {s} PROVE Spec => PassesNeverRegress
<1>1. \A l \in Link : Sole(l)
    BY ReplicasAssumption DEF Link, Sole
<1>2. Advancing => \A l \in Link : \A p \in DOMAIN pass[l].applied :
          (/\ Persist(l[1], l[2], p) /\ p.mark = NoMark
           /\ p \in DOMAIN pass[l].applied[p] \cap DOMAIN files[l[1]])
            => Covers(pass[l].applied[p][p].ver, files[l[1]][p].ver)
    BY <1>1, WritesAhead DEF Advancing
<1>3. Init => Typed /\ Advancing
    BY TypedInit, AdvancingInit
<1>4. Typed /\ Advancing /\ [Next]_vars => (Typed /\ Advancing)'
    BY TypedNext, AdvancingNext
<1> QED
    BY <1>2, <1>3, <1>4, PTL DEF Spec, PassesNeverRegress

\* The same of the spokes alone, the hub serving any number of them.
SpokesNeverRegress ==
    [][\A l \in Link : \A p \in DOMAIN pass[l].applied :
          (/\ l[1] \in Spoke /\ Persist(l[1], l[2], p) /\ p.mark = NoMark
           /\ p \in DOMAIN pass[l].applied[p] \cap DOMAIN files[l[1]])
            => Covers(pass[l].applied[p][p].ver, files[l[1]][p].ver)]_vars

\* However many spokes the hub has, no pass of a spoke takes a row of the spoke
\* back: a spoke has one session, hence one applyAndPersist per path at a time.
THEOREM SpokesNeverRegressAlways == ASSUME TwoWayShare PROVE Spec => SpokesNeverRegress
<1>1. \A l \in Link : l[1] \in Spoke => Sole(l)
    BY ReplicasAssumption DEF Link, Sole
<1>2. Advancing => \A l \in Link : \A p \in DOMAIN pass[l].applied :
          (/\ l[1] \in Spoke /\ Persist(l[1], l[2], p) /\ p.mark = NoMark
           /\ p \in DOMAIN pass[l].applied[p] \cap DOMAIN files[l[1]])
            => Covers(pass[l].applied[p][p].ver, files[l[1]][p].ver)
    BY <1>1, WritesAhead DEF Advancing
<1>3. Init => Typed /\ Advancing
    BY TypedInit, AdvancingInit
<1>4. Typed /\ Advancing /\ [Next]_vars => (Typed /\ Advancing)'
    BY TypedNext, AdvancingNext
<1> QED
    BY <1>2, <1>3, <1>4, PTL DEF Spec, SpokesNeverRegress

-----------------------------------------------------------------------------
(* The two ends of one path: each decides from its own row and the other's *)
(* without asking, so their decisions must fit together.                   *)

\* A share both ends may change.
BothWays == DirectionFor("read-write", "mirror")

\* A path and the rows of two ends that neither of them rejects.
Wellformed(p, l, r) ==
    /\ p \notin InvalidPath
    /\ l \in FileInfo /\ l.type # "symlink"
    /\ r \in FileInfo /\ r.type # "symlink"

LEMMA FileFields ==
    ASSUME NEW f \in FileInfo
    PROVE  /\ f # NoRow /\ f.ver \in VersionVector /\ f.deleted \in BOOLEAN
           /\ f.sha \in Nat /\ f.mtime \in Nat
           /\ \A v \in VersionVector :
                /\ WithVersion(f, v) \in FileInfo /\ WithVersion(f, v).ver = v
                /\ WithVersion(f, v).type = f.type /\ WithVersion(f, v).deleted = f.deleted
                /\ WithVersion(f, v).sha = f.sha /\ WithVersion(f, v).mtime = f.mtime
<1>1. f # NoRow
    BY ReplicasAssumption
<1> DEFINE V == VersionVector
<1> HIDE DEF V
<1>2. f \in [type : {"file", "dir", "symlink"}, deleted : BOOLEAN, ver : V, sha : Nat, mtime : Nat]
    BY DEF FileInfo, V
<1>3. ASSUME NEW v \in V
      PROVE  /\ WithVersion(f, v) \in [type : {"file", "dir", "symlink"}, deleted : BOOLEAN,
                                       ver : V, sha : Nat, mtime : Nat]
             /\ WithVersion(f, v).ver = v
             /\ WithVersion(f, v).type = f.type /\ WithVersion(f, v).deleted = f.deleted
             /\ WithVersion(f, v).sha = f.sha /\ WithVersion(f, v).mtime = f.mtime
    BY <1>2 DEF WithVersion
<1> QED
    BY <1>1, <1>2, <1>3 DEF V, FileInfo

\* The relations between two versions, seen from the other end.
LEMMA ConcurrentBothWays ==
    ASSUME NEW a \in VersionVector, NEW b \in VersionVector
    PROVE  /\ Concurrent(a, b) <=> Concurrent(b, a)
           /\ Equal(a, b) <=> Equal(b, a)
BY DEF Concurrent, Equal

\* Which branch reconcileOne takes about two rows of a share both may change.
LEMMA BranchTaken ==
    ASSUME NEW p, NEW l, NEW r, Wellformed(p, l, r), NEW n, NEW now
    PROVE  /\ Equal(l.ver, r.ver) => reconcileOne(p, l, r, n, BothWays, now) = ActionNone
           /\ Dominates(r.ver, l.ver) => reconcileOne(p, l, r, n, BothWays, now) = Adopt(r)
           /\ Dominates(l.ver, r.ver) => reconcileOne(p, l, r, n, BothWays, now) = ActionNone
           /\ Concurrent(l.ver, r.ver) => reconcileOne(p, l, r, n, BothWays, now)
                                            = reconcileConcurrent(p, l, r, n, BothWays, now)
<1>1. /\ l # NoRow /\ r # NoRow /\ l.ver \in VersionVector /\ r.ver \in VersionVector
      /\ ~Malformed(p, r) /\ ~BothWays.inBlocked /\ ~BothWays.outBlocked
    BY FileFields DEF Wellformed, Malformed, BothWays, DirectionFor
<1>2. /\ ~(Equal(l.ver, r.ver) /\ Dominates(l.ver, r.ver))
      /\ ~(Equal(l.ver, r.ver) /\ Dominates(r.ver, l.ver))
      /\ ~(Dominates(l.ver, r.ver) /\ Dominates(r.ver, l.ver))
    BY <1>1, ExactlyOneRelation
<1>3. KeepLocal(BothWays) = ActionNone
    BY <1>1 DEF KeepLocal
<1> QED
    BY <1>1, <1>2, <1>3 DEF reconcileOne, Concurrent

\* The branches of reconcileConcurrent in a share both may change.
LEMMA ConcurrentBranch ==
    ASSUME NEW p, NEW l, NEW r, Wellformed(p, l, r), Concurrent(l.ver, r.ver), NEW n, NEW now
    PROVE  LET action == reconcileOne(p, l, r, n, BothWays, now)
               merged == Bump(Merge(l.ver, r.ver), n)
           IN  /\ l.deleted /\ r.deleted => action = ActionDelete(WithVersion(r, merged))
               /\ l.deleted /\ ~r.deleted => action = ActionResurrect(WithVersion(r, merged), "Remote", r.ver)
               /\ ~l.deleted /\ r.deleted => action = ActionResurrect(WithVersion(l, merged), "Local", l.ver)
               /\ ~l.deleted /\ ~r.deleted =>
                    action = IF l.sha = r.sha THEN reconcileIdenticalContent(l, r)
                             ELSE ResolveContent(p, l, r, n, now, merged)
<1> DEFINE merged == Bump(Merge(l.ver, r.ver), n)
<1>1. l.deleted \in BOOLEAN /\ r.deleted \in BOOLEAN
    BY FileFields DEF Wellformed
<1>2. BothWays.outBlocked = FALSE
    BY DEF BothWays, DirectionFor
<1>3. reconcileOne(p, l, r, n, BothWays, now)
        = IF l.deleted # r.deleted THEN ResolveDelete(l, r, merged)
          ELSE IF l.deleted THEN ActionDelete(WithVersion(r, merged))
          ELSE IF l.sha = r.sha THEN reconcileIdenticalContent(l, r)
          ELSE ResolveContent(p, l, r, n, now, merged)
    BY <1>2, BranchTaken DEF reconcileConcurrent
<1> QED
    BY <1>1, <1>3 DEF ResolveDelete

\* reconcileOne, run at both ends of a share both may change: when one row
\* is newer, the end that has the older one takes it exactly as it is and
\* the other end does nothing; when they are equal nobody does anything.  A
\* plain change is never taken from both ends at once, and never lost.
THEOREM NewerIsTakenOnce ==
    ASSUME NEW p, NEW l, NEW r, Wellformed(p, l, r), NEW n, NEW m, NEW t, NEW u
    PROVE  LET here  == reconcileOne(p, l, r, n, BothWays, t)
               there == reconcileOne(p, r, l, m, BothWays, u)
           IN  /\ Equal(l.ver, r.ver) => here = ActionNone /\ there = ActionNone
               /\ Dominates(r.ver, l.ver) => /\ here.kind \in {"Pull", "Delete"}
                                             /\ here.resolved = r /\ there = ActionNone
               /\ Dominates(l.ver, r.ver) => /\ there.kind \in {"Pull", "Delete"}
                                             /\ there.resolved = l /\ here = ActionNone
<1>1. Wellformed(p, r, l) /\ l.ver \in VersionVector /\ r.ver \in VersionVector
    BY FileFields DEF Wellformed
<1>2. Equal(l.ver, r.ver) <=> Equal(r.ver, l.ver)
    BY <1>1, ConcurrentBothWays
<1>3. ASSUME NEW f PROVE Adopt(f).kind \in {"Pull", "Delete"} /\ Adopt(f).resolved = f
    BY DEF Adopt, ActionDelete, ActionPull
<1> QED
    BY <1>1, <1>2, <1>3, BranchTaken

\* Two ends that resolve one conflict at the same time, each with its own
\* bump, make two versions that are concurrent again.
LEMMA BumpsConcurrent ==
    ASSUME NEW a \in VersionVector, NEW b \in VersionVector,
           NEW n \in Node, NEW m \in Node, n # m
    PROVE  /\ Bump(Merge(a, b), n) \in VersionVector
           /\ Bump(Merge(b, a), m) \in VersionVector
           /\ Concurrent(Bump(Merge(a, b), n), Bump(Merge(b, a), m))
<1> DEFINE x == Merge(a, b)
           y == Merge(b, a)
           v == Bump(x, n)
           w == Bump(y, m)
<1>1. x \in VersionVector /\ y \in VersionVector /\ Equal(x, y)
    BY MergePointwise, MergeIsLeastUpperBound
<1>2. \A k \in Node : At(x, k) = At(y, k) /\ At(x, k) \in Nat
    BY <1>1, EqualPointwise, VectorType
<1> HIDE DEF x, y
<1>3. /\ v \in VersionVector /\ w \in VersionVector
      /\ At(v, n) = At(x, n) + 1 /\ At(w, m) = At(y, m) + 1
      /\ At(v, m) = At(x, m) /\ At(w, n) = At(y, n)
    BY <1>1, BumpDominates
<1> HIDE DEF v, w
<1>4. At(v, n) > At(w, n) /\ At(w, m) > At(v, m) /\ At(w, n) \in Nat /\ At(v, m) \in Nat
    BY <1>2, <1>3
<1>5. ~Equal(v, w)
    BY <1>3, <1>4, EqualPointwise
<1>6. ~Dominates(v, w)
    BY <1>3, <1>4, DominatesPointwise, VectorType DEF Leq
<1>7. ~Dominates(w, v)
    BY <1>3, <1>4, DominatesPointwise, VectorType DEF Leq
<1> QED
    BY <1>3, <1>5, <1>6, <1>7 DEF Concurrent, v, w, x, y

\* conflictWinnerIsRemote's comment: mtime, then sha256, is "a total order
\* that both sides can compute identically".  Of two different contents one
\* end says the remote one wins and the other end the local one.
LEMMA OneWinner ==
    ASSUME NEW l \in FileInfo, NEW r \in FileInfo, l.sha # r.sha
    PROVE  conflictWinnerIsRemote(l, r) <=> ~conflictWinnerIsRemote(r, l)
BY FileFields DEF conflictWinnerIsRemote

\* A copy of a path that is not itself a copy is named after the loser
\* alone, whoever resolves the conflict and whenever.
LEMMA CopyName ==
    ASSUME NEW p, p.mark = NoMark, NEW f, f.sha \in Nat \ {0}, NEW n, NEW now
    PROVE  loserConflictRelPath(p, f, n, now)
             = ConflictRelPath(p, f.sha \div ShasPerPrefix, f.mtime)
<1> DEFINE q == ConflictRelPath(p, f.sha \div ShasPerPrefix, f.mtime)
<1>1. q.mark # NoMark
    BY DEF ConflictRelPath, NoMark
<1>2. q # p
    BY <1>1
<1> QED
    BY <1>2 DEF loserConflictRelPath

\* Two contents that were changed concurrently: what the two ends find.
Conflict(p, l, r) ==
    /\ Wellformed(p, l, r) /\ p.mark = NoMark
    /\ Concurrent(l.ver, r.ver)
    /\ ~l.deleted /\ ~r.deleted
    /\ l.sha # r.sha /\ l.sha # 0 /\ r.sha # 0

\* ResolveContent at both ends of a content conflict: they keep the same
\* winner and set the same loser aside under the same name, although each
\* has its own id and its own clock; exactly one of them takes the winner
\* from the other.  No content is dropped and none is duplicated.
THEOREM ConflictsAgree ==
    ASSUME NEW p, NEW l, NEW r, Conflict(p, l, r), NEW n \in Node, NEW m \in Node, NEW t, NEW u
    PROVE  LET here  == reconcileOne(p, l, r, n, BothWays, t)
               there == reconcileOne(p, r, l, m, BothWays, u)
           IN  /\ here.kind = "ConflictCopy" /\ there.kind = "ConflictCopy"
               /\ here.resolved = WithVersion(IF conflictWinnerIsRemote(l, r) THEN r ELSE l,
                                              Bump(Merge(l.ver, r.ver), n))
               /\ there.resolved = WithVersion(IF conflictWinnerIsRemote(l, r) THEN r ELSE l,
                                               Bump(Merge(r.ver, l.ver), m))
               /\ here.cpath = there.cpath /\ here.cinfo = there.cinfo
               /\ here.cinfo.sha # here.resolved.sha
               /\ here.source = "Remote" <=> there.source # "Remote"
<1> DEFINE here  == reconcileOne(p, l, r, n, BothWays, t)
           there == reconcileOne(p, r, l, m, BothWays, u)
           v == Bump(Merge(l.ver, r.ver), n)
           w == Bump(Merge(r.ver, l.ver), m)
<1>1. /\ l \in FileInfo /\ r \in FileInfo /\ Wellformed(p, l, r) /\ Wellformed(p, r, l)
      /\ Concurrent(l.ver, r.ver) /\ l.ver \in VersionVector /\ r.ver \in VersionVector
      /\ l.sha \in Nat \ {0} /\ r.sha \in Nat \ {0} /\ l.sha # r.sha
      /\ ~l.deleted /\ ~r.deleted /\ p.mark = NoMark
    BY FileFields DEF Conflict, Wellformed
<1>2. Concurrent(r.ver, l.ver)
    BY <1>1, ConcurrentBothWays
<1>3. v \in VersionVector /\ w \in VersionVector
    BY <1>1, MergePointwise, BumpDominates
<1>4. /\ here = ResolveContent(p, l, r, n, t, v)
      /\ there = ResolveContent(p, r, l, m, u, w)
    BY <1>1, <1>2, ConcurrentBranch
<1>5. ASSUME NEW f \in {l, r}, NEW x, NEW now
      PROVE  loserConflictRelPath(p, f, x, now) = ConflictRelPath(p, f.sha \div ShasPerPrefix, f.mtime)
    BY <1>1, CopyName
<1>6. ASSUME NEW x \in VersionVector
      PROVE  WithVersion(l, x).sha = l.sha /\ WithVersion(r, x).sha = r.sha
    BY <1>1, FileFields
<1>7. conflictWinnerIsRemote(l, r) <=> ~conflictWinnerIsRemote(r, l)
    BY <1>1, OneWinner
<1> HIDE DEF here, there, v, w
<1>8. CASE conflictWinnerIsRemote(l, r)
    <2>1. here = ActionConflictCopy(WithVersion(r, v), "Remote", r.ver,
                     ConflictRelPath(p, l.sha \div ShasPerPrefix, l.mtime), l)
        BY <1>4, <1>5, <1>8 DEF ResolveContent
    <2>2. there = ActionConflictCopy(WithVersion(r, w), "Local", r.ver,
                     ConflictRelPath(p, l.sha \div ShasPerPrefix, l.mtime), l)
        BY <1>4, <1>5, <1>7, <1>8 DEF ResolveContent
    <2>3. /\ here.kind = "ConflictCopy" /\ there.kind = "ConflictCopy"
          /\ here.resolved = WithVersion(r, v) /\ there.resolved = WithVersion(r, w)
          /\ here.cpath = there.cpath /\ here.cinfo = l /\ there.cinfo = l
          /\ here.source = "Remote" /\ there.source = "Local"
        BY <2>1, <2>2 DEF ActionConflictCopy
    <2> QED
        BY <1>1, <1>3, <1>6, <1>8, <2>3 DEF here, there, v, w
<1>9. CASE ~conflictWinnerIsRemote(l, r)
    <2>1. here = ActionConflictCopy(WithVersion(l, v), "Local", l.ver,
                     ConflictRelPath(p, r.sha \div ShasPerPrefix, r.mtime), r)
        BY <1>4, <1>5, <1>9 DEF ResolveContent
    <2>2. there = ActionConflictCopy(WithVersion(l, w), "Remote", l.ver,
                     ConflictRelPath(p, r.sha \div ShasPerPrefix, r.mtime), r)
        BY <1>4, <1>5, <1>7, <1>9 DEF ResolveContent
    <2>3. /\ here.kind = "ConflictCopy" /\ there.kind = "ConflictCopy"
          /\ here.resolved = WithVersion(l, v) /\ there.resolved = WithVersion(l, w)
          /\ here.cpath = there.cpath /\ here.cinfo = r /\ there.cinfo = r
          /\ here.source = "Local" /\ there.source = "Remote"
        BY <2>1, <2>2 DEF ActionConflictCopy
    <2> QED
        BY <1>1, <1>3, <1>6, <1>9, <2>3 DEF here, there, v, w
<1> QED
    BY <1>8, <1>9

\* reconcileIdenticalContent's comment: both ends "land on one *equal* vector
\* after this single round and the whole thing stops for good".  Each keeps
\* its own content and moves nothing, and the next exchange does nothing.
THEOREM SameContentSettles ==
    ASSUME NEW p, NEW l, NEW r, Wellformed(p, l, r), Concurrent(l.ver, r.ver),
           ~l.deleted, ~r.deleted, l.sha = r.sha,
           NEW n, NEW m, NEW t, NEW u
    PROVE  LET here  == reconcileOne(p, l, r, n, BothWays, t)
               there == reconcileOne(p, r, l, m, BothWays, u)
           IN  /\ here.kind = "Pull" /\ here.source = "None"
               /\ there.kind = "Pull" /\ there.source = "None"
               /\ here.resolved.sha = l.sha /\ there.resolved.sha = l.sha
               /\ Equal(here.resolved.ver, there.resolved.ver)
               /\ reconcileOne(p, here.resolved, there.resolved, n, BothWays, t) = ActionNone
               /\ reconcileOne(p, there.resolved, here.resolved, m, BothWays, u) = ActionNone
<1> DEFINE here  == reconcileOne(p, l, r, n, BothWays, t)
           there == reconcileOne(p, r, l, m, BothWays, u)
           v == Merge(l.ver, r.ver)
           w == Merge(r.ver, l.ver)
<1>1. /\ l \in FileInfo /\ r \in FileInfo /\ Wellformed(p, r, l)
      /\ l.ver \in VersionVector /\ r.ver \in VersionVector
    BY FileFields DEF Wellformed
<1>2. Concurrent(r.ver, l.ver)
    BY <1>1, ConcurrentBothWays
<1>3. /\ v \in VersionVector /\ w \in VersionVector /\ Equal(v, w) /\ Equal(w, v)
    BY <1>1, MergePointwise, MergeIsLeastUpperBound
<1>4. here = ActionPull(WithVersion(l, v), "None", r.ver) /\ there = ActionPull(WithVersion(r, w), "None", l.ver)
    BY <1>1, <1>2, ConcurrentBranch DEF reconcileIdenticalContent
<1> HIDE DEF here, there, v, w
<1>5. /\ here.kind = "Pull" /\ here.source = "None" /\ here.resolved = WithVersion(l, v)
      /\ there.kind = "Pull" /\ there.source = "None" /\ there.resolved = WithVersion(r, w)
    BY <1>4 DEF ActionPull
<1>6. /\ here.resolved \in FileInfo /\ here.resolved.ver = v /\ here.resolved.type = l.type
      /\ here.resolved.sha = l.sha
    BY <1>1, <1>3, <1>5, FileFields
<1>7. /\ there.resolved \in FileInfo /\ there.resolved.ver = w /\ there.resolved.type = r.type
      /\ there.resolved.sha = l.sha
    BY <1>1, <1>3, <1>5, FileFields
<1>8. Wellformed(p, here.resolved, there.resolved) /\ Wellformed(p, there.resolved, here.resolved)
    BY <1>6, <1>7 DEF Wellformed
<1>9. /\ reconcileOne(p, here.resolved, there.resolved, n, BothWays, t) = ActionNone
      /\ reconcileOne(p, there.resolved, here.resolved, m, BothWays, u) = ActionNone
    BY <1>3, <1>6, <1>7, <1>8, BranchTaken
<1> QED
    BY <1>3, <1>5, <1>6, <1>7, <1>9 DEF here, there

\* Both ends resolved one divergence at the same time to one live content.
\* Their versions are concurrent, which the next exchange settles.
LEMMA ResolvedAlikeSettles ==
    ASSUME NEW p, p \notin InvalidPath, NEW f \in FileInfo, f.type # "symlink", ~f.deleted,
           NEW a \in VersionVector, NEW b \in VersionVector,
           NEW n \in Node, NEW m \in Node, n # m, NEW t, NEW u
    PROVE  LET l == WithVersion(f, Bump(Merge(a, b), n))
               r == WithVersion(f, Bump(Merge(b, a), m))
               here  == reconcileOne(p, l, r, n, BothWays, t)
               there == reconcileOne(p, r, l, m, BothWays, u)
           IN  /\ here.kind = "Pull" /\ here.source = "None"
               /\ there.kind = "Pull" /\ there.source = "None"
               /\ here.resolved.sha = f.sha /\ there.resolved.sha = f.sha
               /\ Equal(here.resolved.ver, there.resolved.ver)
<1> DEFINE v == Bump(Merge(a, b), n)
           w == Bump(Merge(b, a), m)
           l == WithVersion(f, v)
           r == WithVersion(f, w)
<1>1. v \in VersionVector /\ w \in VersionVector /\ Concurrent(v, w)
    BY BumpsConcurrent
<1> HIDE DEF v, w
<1>2. /\ l \in FileInfo /\ l.ver = v /\ l.type = f.type /\ l.deleted = f.deleted /\ l.sha = f.sha
      /\ r \in FileInfo /\ r.ver = w /\ r.type = f.type /\ r.deleted = f.deleted /\ r.sha = f.sha
    BY <1>1, FileFields
<1> HIDE DEF l, r
<1>3. Wellformed(p, l, r) /\ Concurrent(l.ver, r.ver) /\ ~l.deleted /\ ~r.deleted /\ l.sha = r.sha
    BY <1>1, <1>2 DEF Wellformed
<1> QED
    BY <1>2, <1>3, SameContentSettles DEF l, r, v, w

\* A content conflict that both ends resolve at the same time, neither
\* knowing of the other's resolution: one more exchange, in which no content
\* moves and no further copy is made, and both hold the winner under equal
\* versions.  reconcileConcurrent's bumps do not chase each other.
THEOREM ConflictsSettle ==
    ASSUME NEW p, NEW l, NEW r, Conflict(p, l, r),
           NEW n \in Node, NEW m \in Node, n # m, NEW t, NEW u, NEW t2, NEW u2
    PROVE  LET mine   == reconcileOne(p, l, r, n, BothWays, t).resolved
               theirs == reconcileOne(p, r, l, m, BothWays, u).resolved
               here   == reconcileOne(p, mine, theirs, n, BothWays, t2)
               there  == reconcileOne(p, theirs, mine, m, BothWays, u2)
           IN  /\ Concurrent(mine.ver, theirs.ver)
               /\ here.kind = "Pull" /\ here.source = "None"
               /\ there.kind = "Pull" /\ there.source = "None"
               /\ here.resolved.sha = mine.sha /\ there.resolved.sha = mine.sha
               /\ Equal(here.resolved.ver, there.resolved.ver)
<1> DEFINE f == IF conflictWinnerIsRemote(l, r) THEN r ELSE l
           v == Bump(Merge(l.ver, r.ver), n)
           w == Bump(Merge(r.ver, l.ver), m)
           mine   == reconcileOne(p, l, r, n, BothWays, t).resolved
           theirs == reconcileOne(p, r, l, m, BothWays, u).resolved
<1>1. /\ p \notin InvalidPath /\ f \in FileInfo /\ f.type # "symlink" /\ ~f.deleted
      /\ l.ver \in VersionVector /\ r.ver \in VersionVector
    BY FileFields DEF Conflict, Wellformed
<1>2. mine = WithVersion(f, v) /\ theirs = WithVersion(f, w)
    BY ConflictsAgree
<1>3. v \in VersionVector /\ w \in VersionVector /\ Concurrent(v, w)
    BY <1>1, BumpsConcurrent
<1>4. mine.ver = v /\ theirs.ver = w /\ mine.sha = f.sha
    <2> HIDE DEF f, v, w, mine, theirs
    <2> QED
        BY <1>1, <1>2, <1>3, FileFields
<1> HIDE DEF f, mine, theirs
<1>5. LET here  == reconcileOne(p, mine, theirs, n, BothWays, t2)
          there == reconcileOne(p, theirs, mine, m, BothWays, u2)
      IN  /\ here.kind = "Pull" /\ here.source = "None"
          /\ there.kind = "Pull" /\ there.source = "None"
          /\ here.resolved.sha = f.sha /\ there.resolved.sha = f.sha
          /\ Equal(here.resolved.ver, there.resolved.ver)
    BY <1>1, <1>2, ResolvedAlikeSettles
<1> QED
    BY <1>3, <1>4, <1>5 DEF mine, theirs

\* Delete against modify, the first branch of reconcileConcurrent ("modify
\* wins, unconditionally"): both ends keep the live content, only the end
\* that had deleted it takes it from the other, and when both did so at the
\* same time one more exchange settles their versions.
THEOREM ModifyBeatsDelete ==
    ASSUME NEW p, NEW l, NEW r, Wellformed(p, l, r), Concurrent(l.ver, r.ver),
           l.deleted, ~r.deleted,
           NEW n \in Node, NEW m \in Node, n # m, NEW t, NEW u, NEW t2, NEW u2
    PROVE  LET mine   == reconcileOne(p, l, r, n, BothWays, t)
               theirs == reconcileOne(p, r, l, m, BothWays, u)
               here   == reconcileOne(p, mine.resolved, theirs.resolved, n, BothWays, t2)
               there  == reconcileOne(p, theirs.resolved, mine.resolved, m, BothWays, u2)
           IN  /\ mine.kind = "Resurrect" /\ mine.source = "Remote" /\ mine.wire = r.ver
               /\ theirs.kind = "Resurrect" /\ theirs.source = "Local"
               /\ here.kind = "Pull" /\ here.source = "None"
               /\ there.kind = "Pull" /\ there.source = "None"
               /\ here.resolved.sha = r.sha /\ there.resolved.sha = r.sha
               /\ Equal(here.resolved.ver, there.resolved.ver)
<1> DEFINE mine   == reconcileOne(p, l, r, n, BothWays, t)
           theirs == reconcileOne(p, r, l, m, BothWays, u)
           v == Bump(Merge(l.ver, r.ver), n)
           w == Bump(Merge(r.ver, l.ver), m)
<1>1. /\ p \notin InvalidPath /\ r \in FileInfo /\ r.type # "symlink" /\ Wellformed(p, r, l)
      /\ l.ver \in VersionVector /\ r.ver \in VersionVector
    BY FileFields DEF Wellformed
<1>2. Concurrent(r.ver, l.ver)
    BY <1>1, ConcurrentBothWays
<1>3. mine = ActionResurrect(WithVersion(r, v), "Remote", r.ver)
    BY ConcurrentBranch
<1>4. theirs = ActionResurrect(WithVersion(r, w), "Local", r.ver)
    BY <1>1, <1>2, ConcurrentBranch
<1> HIDE DEF mine, theirs
<1>5. /\ mine.kind = "Resurrect" /\ mine.source = "Remote" /\ mine.wire = r.ver
      /\ theirs.kind = "Resurrect" /\ theirs.source = "Local"
      /\ mine.resolved = WithVersion(r, v) /\ theirs.resolved = WithVersion(r, w)
    BY <1>3, <1>4 DEF ActionResurrect
<1>6. LET here  == reconcileOne(p, mine.resolved, theirs.resolved, n, BothWays, t2)
          there == reconcileOne(p, theirs.resolved, mine.resolved, m, BothWays, u2)
      IN  /\ here.kind = "Pull" /\ here.source = "None"
          /\ there.kind = "Pull" /\ there.source = "None"
          /\ here.resolved.sha = r.sha /\ there.resolved.sha = r.sha
          /\ Equal(here.resolved.ver, there.resolved.ver)
    BY <1>1, <1>5, ResolvedAlikeSettles
<1> QED
    BY <1>5, <1>6 DEF mine, theirs

\* Tombstone against tombstone is bumped at both ends and has no such second
\* round: two ends that resolve it at the same time hold concurrent tombstones
\* again, of which the same is true.  Nothing but a round in which only one end
\* acts ends it.
THEOREM TombstonesStayConcurrent ==
    ASSUME NEW p, NEW l, NEW r, Wellformed(p, l, r), Concurrent(l.ver, r.ver),
           l.deleted, r.deleted,
           NEW n \in Node, NEW m \in Node, n # m, NEW t, NEW u
    PROVE  LET here  == reconcileOne(p, l, r, n, BothWays, t)
               there == reconcileOne(p, r, l, m, BothWays, u)
           IN  /\ here.kind = "Delete" /\ there.kind = "Delete"
               /\ Wellformed(p, here.resolved, there.resolved)
               /\ here.resolved.deleted /\ there.resolved.deleted
               /\ Concurrent(here.resolved.ver, there.resolved.ver)
               /\ Dominates(here.resolved.ver, l.ver) /\ Dominates(there.resolved.ver, r.ver)
<1> DEFINE here  == reconcileOne(p, l, r, n, BothWays, t)
           there == reconcileOne(p, r, l, m, BothWays, u)
           v == Bump(Merge(l.ver, r.ver), n)
           w == Bump(Merge(r.ver, l.ver), m)
<1>1. /\ p \notin InvalidPath /\ Wellformed(p, r, l)
      /\ l \in FileInfo /\ l.type # "symlink" /\ l.ver \in VersionVector
      /\ r \in FileInfo /\ r.type # "symlink" /\ r.ver \in VersionVector
    BY FileFields DEF Wellformed
<1>2. Concurrent(r.ver, l.ver)
    BY <1>1, ConcurrentBothWays
<1>3. here = ActionDelete(WithVersion(r, v)) /\ there = ActionDelete(WithVersion(l, w))
    BY <1>1, <1>2, ConcurrentBranch
<1>4. v \in VersionVector /\ w \in VersionVector /\ Concurrent(v, w)
    BY <1>1, BumpsConcurrent
<1>5. Dominates(v, l.ver) /\ Dominates(w, r.ver)
    BY <1>1, ResolutionDominatesBoth
<1> HIDE DEF here, there, v, w
<1>6. /\ here.kind = "Delete" /\ there.kind = "Delete"
      /\ here.resolved = WithVersion(r, v) /\ there.resolved = WithVersion(l, w)
    BY <1>3 DEF ActionDelete
<1>7. /\ here.resolved \in FileInfo /\ here.resolved.ver = v /\ here.resolved.type = r.type
      /\ here.resolved.deleted = r.deleted
      /\ there.resolved \in FileInfo /\ there.resolved.ver = w /\ there.resolved.type = l.type
      /\ there.resolved.deleted = l.deleted
    <2>1. /\ WithVersion(r, v) \in FileInfo /\ WithVersion(r, v).ver = v
          /\ WithVersion(r, v).type = r.type /\ WithVersion(r, v).deleted = r.deleted
        BY <1>1, <1>4, FileFields
    <2>2. /\ WithVersion(l, w) \in FileInfo /\ WithVersion(l, w).ver = w
          /\ WithVersion(l, w).type = l.type /\ WithVersion(l, w).deleted = l.deleted
        BY <1>1, <1>4, FileFields
    <2> QED
        BY <1>6, <2>1, <2>2
<1>8. Wellformed(p, here.resolved, there.resolved)
    BY <1>1, <1>7 DEF Wellformed
<1> QED
    BY <1>4, <1>5, <1>6, <1>7, <1>8 DEF here, there

-----------------------------------------------------------------------------
(* A version identifies what it is a version of.                           *)
(*                                                                         *)
(* Between two nodes, a version is two counters.  The invariant claims a   *)
(* ledger of the path's past: what every bump of a node recorded, and      *)
(* which counter of the other node it knew.  The ledger is no variable of  *)
(* the model; each step that writes a bumped row shows how to extend it.   *)

Pair == \E s : Spoke = {s}

Other(n) == CHOOSE m \in Node : m # n

\* What a row says of a path.
Says(r) == <<r.deleted, r.sha>>
Sayings == BOOLEAN \X Nat

\* known[n][i]: the other node's counter when n made its bump i.  said[n][i]:
\* what the bump recorded.  T: how far the counters have come.
Ledger(known, said, T) ==
    /\ T \in [Node -> Nat]
    /\ known \in [Node -> [Nat -> Nat]] /\ said \in [Node -> [Nat -> Sayings]]
    /\ \A n \in Node : /\ known[n][0] = 0
                       /\ \A i \in 0..T[n] : known[n][i] <= T[Other(n)]
                       /\ \A i, j \in 0..T[n] : i <= j => known[n][i] <= known[n][j]

\* A version made of n's bump x and the other node's bump y, where the bump x
\* knew less than y: what the later of the two recorded, which knew the other,
\* or, if neither knew the other, what both of them recorded.
Explains(known, said, v, c, n) ==
    LET x == At(v, n)
        y == At(v, Other(n))
    IN  /\ known[n][x] <= y
        /\ known[n][x] = y => c = said[n][x]
        /\ known[n][x] < y /\ known[Other(n)][y] < x => c = said[n][x]

Explained(known, said, v, c) == \A n \in Node : Explains(known, said, v, c, n)

Within(v, T) == \A k \in Node : At(v, k) <= T[k]

LEMMA Others ==
    ASSUME Pair
    PROVE  \A n \in Node : /\ Other(n) \in Node /\ Other(n) # n /\ Other(Other(n)) = n
                           /\ \A k \in Node : k = n \/ k = Other(n)
<1>1. PICK s : Spoke = {s}
    BY DEF Pair
<1>2. Node = {Hub, s} /\ Hub # s
    BY <1>1, ReplicasAssumption
<1>3. Other(Hub) = s
    BY <1>2 DEF Other
<1>4. Other(s) = Hub
    BY <1>2 DEF Other
<1> QED
    BY <1>2, <1>3, <1>4

\* Equal versions that one ledger explains say the same.
LEMMA SameSaid ==
    ASSUME Pair, NEW known, NEW said, NEW T, Ledger(known, said, T),
           NEW v \in VersionVector, NEW w \in VersionVector, NEW c, NEW d,
           Explained(known, said, v, c), Explained(known, said, w, d), Equal(v, w)
    PROVE  c = d
<1> DEFINE n == Hub
           m == Other(n)
           x == At(v, n)
           y == At(v, m)
<1>1. n \in Node /\ m \in Node /\ Other(m) = n
    BY Links, Others
<1>2. x = At(w, n) /\ y = At(w, m) /\ x \in Nat /\ y \in Nat
    BY <1>1, EqualPointwise, VectorType
<1>3. /\ known[n][x] \in Nat /\ known[m][y] \in Nat
    BY <1>1, <1>2 DEF Ledger
<1>4. /\ Explains(known, said, v, c, n) /\ Explains(known, said, v, c, m)
      /\ Explains(known, said, w, d, n) /\ Explains(known, said, w, d, m)
    BY <1>1 DEF Explained
<1> HIDE DEF n, m, x, y
<1>5. /\ known[n][x] <= y
      /\ known[n][x] = y => c = said[n][x]
      /\ known[n][x] < y /\ known[m][y] < x => c = said[n][x]
      /\ known[n][x] = y => d = said[n][x]
      /\ known[n][x] < y /\ known[m][y] < x => d = said[n][x]
    BY <1>2, <1>4 DEF Explains, x, y, m
<1>6. /\ known[m][y] <= x
      /\ known[m][y] = x => c = said[m][y]
      /\ known[m][y] = x => d = said[m][y]
    BY <1>1, <1>2, <1>4 DEF Explains, x, y
<1> QED
    BY <1>2, <1>3, <1>5, <1>6

\* What bump x of n recorded is what version v says, if there is another
\* version that says the same and has fewer of n's bumps, more of the other's.
LEMMA SaidByBump ==
    ASSUME Pair, NEW known, NEW said, NEW T, Ledger(known, said, T),
           NEW v \in VersionVector, NEW w \in VersionVector, NEW c, NEW n \in Node,
           Within(v, T), Within(w, T),
           Explained(known, said, v, c), Explained(known, said, w, c),
           At(w, n) < At(v, n), At(v, Other(n)) < At(w, Other(n))
    PROVE  /\ c = said[n][At(v, n)]
           /\ known[n][At(v, n)] <= At(v, Other(n))
           /\ known[Other(n)][At(w, Other(n))] <= At(w, n)
<1> DEFINE m == Other(n)
           x == At(v, n)
           a == At(v, m)
           b == At(w, n)
           y == At(w, m)
<1>1. m \in Node /\ Other(m) = n
    BY Others
<1>2. x \in Nat /\ a \in Nat /\ b \in Nat /\ y \in Nat /\ b < x /\ a < y /\ y <= T[m] /\ T[m] \in Nat
    BY <1>1, VectorType DEF Within, Ledger
<1>3. /\ Explains(known, said, v, c, n) /\ Explains(known, said, v, c, m)
      /\ Explains(known, said, w, c, m)
    BY <1>1 DEF Explained
<1>4. known[n][x] \in Nat /\ known[m][a] \in Nat /\ known[m][y] \in Nat
    BY <1>1, <1>2 DEF Ledger
<1>5. known[m][a] <= known[m][y]
    <2>1. a \in 0..T[m] /\ y \in 0..T[m] /\ a <= y
        BY <1>2
    <2> QED
        BY <1>1, <2>1 DEF Ledger
<1> HIDE DEF m, x, a, b, y
<1>6. /\ known[n][x] <= a
      /\ known[n][x] = a => c = said[n][x]
      /\ known[n][x] < a /\ known[m][a] < x => c = said[n][x]
    BY <1>3 DEF Explains, x, a, m
<1>7. known[m][a] <= x /\ known[m][y] <= b
    BY <1>1, <1>3 DEF Explains, x, a, b, y
<1>8. known[m][a] < x
    BY <1>2, <1>4, <1>5, <1>7
<1>9. c = said[n][x]
    BY <1>2, <1>4, <1>6, <1>8
<1> QED
    BY <1>6, <1>7, <1>9 DEF x, a, b, y, m

\* Merge without a bump, as reconcileIdenticalContent makes it, is explained.
LEMMA MergeExplained ==
    ASSUME Pair, NEW known, NEW said, NEW T, Ledger(known, said, T),
           NEW v \in VersionVector, NEW w \in VersionVector, NEW c, NEW n \in Node,
           Within(v, T), Within(w, T),
           Explained(known, said, v, c), Explained(known, said, w, c),
           At(w, n) < At(v, n), At(v, Other(n)) < At(w, Other(n)),
           NEW z \in VersionVector, At(z, n) = At(v, n), At(z, Other(n)) = At(w, Other(n))
    PROVE  Explained(known, said, z, c)
<1> DEFINE m == Other(n)
           x == At(v, n)
           a == At(v, m)
           b == At(w, n)
           y == At(w, m)
<1>1. m \in Node /\ Other(m) = n /\ \A k \in Node : k = n \/ k = m
    BY Others
<1>2. /\ c = said[n][x] /\ known[n][x] <= a /\ known[m][y] <= b
    BY SaidByBump
<1>3. c = said[m][y]
    BY <1>1, SaidByBump
<1>4. x \in Nat /\ a \in Nat /\ b \in Nat /\ y \in Nat /\ b < x /\ a < y
    BY <1>1, VectorType
<1>5. known[n][x] \in Nat /\ known[m][y] \in Nat
    BY <1>1, <1>4 DEF Ledger
<1> HIDE DEF m, x, a, b, y
<1>6. At(z, n) = x /\ At(z, m) = y
    BY DEF m, x, y
<1>7. known[n][x] < y /\ known[m][y] < x
    BY <1>2, <1>4, <1>5
<1>8. Explains(known, said, z, c, n)
    BY <1>2, <1>4, <1>5, <1>6, <1>7 DEF Explains, m
<1>9. Explains(known, said, z, c, m)
    BY <1>1, <1>3, <1>4, <1>5, <1>6, <1>7 DEF Explains
<1> QED
    BY <1>1, <1>8, <1>9 DEF Explained

\* A bump by n, which knows as much as n's last one, extends the ledger.
LEMMA LedgerExtends ==
    ASSUME Pair, NEW known, NEW said, NEW T, Ledger(known, said, T), NEW n \in Node,
           NEW v \in VersionVector, At(v, n) = T[n] + 1, At(v, Other(n)) <= T[Other(n)],
           known[n][T[n]] <= At(v, Other(n)), NEW c \in Sayings
    PROVE  LET known2 == [known EXCEPT ![n][T[n] + 1] = At(v, Other(n))]
               said2  == [said EXCEPT ![n][T[n] + 1] = c]
               T2     == [T EXCEPT ![n] = T[n] + 1]
           IN  /\ Ledger(known2, said2, T2) /\ Explained(known2, said2, v, c)
               /\ \A w \in VersionVector : Within(w, T) =>
                    /\ Within(w, T2)
                    /\ \A d : Explained(known, said, w, d) => Explained(known2, said2, w, d)
<1> DEFINE m == Other(n)
           i == T[n] + 1
           y == At(v, m)
           known2 == [known EXCEPT ![n][i] = y]
           said2  == [said EXCEPT ![n][i] = c]
           T2     == [T EXCEPT ![n] = i]
<1>1. m \in Node /\ m # n /\ Other(m) = n /\ \A k \in Node : k = n \/ k = m
    BY Others
<1>2. y \in Nat /\ y <= T[m] /\ i \in Nat /\ T[n] \in Nat /\ T[m] \in Nat
    BY <1>1, VectorType DEF Ledger
<1>3. /\ T2 \in [Node -> Nat] /\ known2 \in [Node -> [Nat -> Nat]] /\ said2 \in [Node -> [Nat -> Sayings]]
    <2> HIDE DEF i, y
    <2> QED
        BY <1>2 DEF Ledger
<1>4. /\ T2[n] = i /\ T2[m] = T[m]
      /\ known2[m] = known[m] /\ said2[m] = said[m]
      /\ known2[n][i] = y /\ said2[n][i] = c
      /\ \A j \in Nat : j # i => known2[n][j] = known[n][j] /\ said2[n][j] = said[n][j]
    <2> HIDE DEF i, y
    <2> QED
        BY <1>1, <1>2 DEF Ledger
<1>5. /\ known[n][0] = 0 /\ known[m][0] = 0
      /\ \A j \in 0..T[n] : known[n][j] <= T[m]
      /\ \A j \in 0..T[m] : known[m][j] <= T[n]
      /\ \A j, k \in 0..T[n] : j <= k => known[n][j] <= known[n][k]
      /\ \A j, k \in 0..T[m] : j <= k => known[m][j] <= known[m][k]
      /\ \A j \in Nat : known[n][j] \in Nat /\ known[m][j] \in Nat
    BY <1>1 DEF Ledger
<1>6. known[n][T[n]] <= y
    OBVIOUS
<1>7. At(v, n) = i
    OBVIOUS
<1> HIDE DEF known2, said2, T2
<1>8. Ledger(known2, said2, T2)
    <2>1. known2[n][0] = 0 /\ known2[m][0] = 0
        BY <1>2, <1>4, <1>5
    <2>2. ASSUME NEW j \in 0..T2[n] PROVE known2[n][j] <= T2[m]
        BY <1>2, <1>4, <1>5, <2>2
    <2>3. ASSUME NEW j \in 0..T2[m] PROVE known2[m][j] <= T2[n]
        BY <1>2, <1>4, <1>5, <2>3
    <2>4. ASSUME NEW j \in 0..T2[n], NEW k \in 0..T2[n], j <= k PROVE known2[n][j] <= known2[n][k]
        <3>1. CASE k # i
            <4>1. j \in 0..T[n] /\ k \in 0..T[n]
                BY <1>2, <1>4, <2>4, <3>1
            <4> QED
                BY <1>2, <1>4, <1>5, <2>4, <4>1
        <3>2. CASE k = i /\ j # i
            <4>1. j \in 0..T[n] /\ T[n] \in 0..T[n] /\ j <= T[n]
                BY <1>2, <1>4, <2>4, <3>2
            <4>2. known[n][j] <= known[n][T[n]] /\ known[n][j] \in Nat /\ known[n][T[n]] \in Nat
                BY <1>5, <4>1
            <4>3. known2[n][j] = known[n][j] /\ known2[n][k] = y
                BY <1>4, <3>2, <4>1
            <4> QED
                BY <1>2, <1>6, <4>2, <4>3
        <3>3. CASE k = i /\ j = i
            BY <1>2, <1>4, <3>3
        <3> QED
            BY <3>1, <3>2, <3>3
    <2>5. ASSUME NEW j \in 0..T2[m], NEW k \in 0..T2[m], j <= k PROVE known2[m][j] <= known2[m][k]
        BY <1>4, <1>5, <2>5
    <2> QED
        BY <1>1, <1>3, <2>1, <2>2, <2>3, <2>4, <2>5 DEF Ledger
<1>9. known[m][y] <= T[n] /\ known[m][y] \in Nat
    BY <1>2, <1>5
<1>10. Explained(known2, said2, v, c)
    <2>1. Explains(known2, said2, v, c, n)
        BY <1>2, <1>4, <1>7 DEF Explains
    <2>2. Explains(known2, said2, v, c, m)
        BY <1>1, <1>2, <1>4, <1>7, <1>9 DEF Explains
    <2> QED
        BY <1>1, <2>1, <2>2 DEF Explained
<1>11. ASSUME NEW w \in VersionVector, Within(w, T) PROVE Within(w, T2)
    <2>1. At(w, n) <= T[n] /\ At(w, m) <= T[m] /\ At(w, n) \in Nat
        BY <1>1, <1>11, VectorType DEF Within
    <2>2. At(w, n) <= T2[n] /\ At(w, m) <= T2[m]
        BY <1>2, <1>4, <2>1
    <2> QED
        BY <1>1, <2>2 DEF Within
<1>12. ASSUME NEW w \in VersionVector, Within(w, T), NEW d, Explained(known, said, w, d)
       PROVE  Explained(known2, said2, w, d)
    <2>1. /\ At(w, n) \in Nat /\ At(w, m) \in Nat /\ At(w, n) # i
        BY <1>1, <1>2, <1>12, VectorType DEF Within
    <2>2. Explains(known, said, w, d, n) /\ Explains(known, said, w, d, m)
        BY <1>1, <1>12 DEF Explained
    <2>3. Explains(known2, said2, w, d, n)
        BY <1>1, <1>4, <2>1, <2>2 DEF Explains
    <2>4. Explains(known2, said2, w, d, m)
        BY <1>1, <1>4, <2>1, <2>2 DEF Explains
    <2> QED
        BY <1>1, <2>3, <2>4 DEF Explained
<1> QED
    BY <1>8, <1>10, <1>11, <1>12 DEF known2, said2, T2

\* How far n's own counter of p has come, going by its row of p.
TopOf(n, own) == IF own = NoRow THEN 0 ELSE At(own.ver, n)
Tops(p) == [n \in Node |-> TopOf(n, RowAt(files[n], p))]

Recorded(known, said, T, r) == Within(r.ver, T) /\ Explained(known, said, r.ver, Says(r))

\* A row n may write for a path it has the row own of: it takes nothing back,
\* and it is new by n's bump or else explained already.
Writable(known, said, T, n, own, r) ==
    /\ At(r.ver, Other(n)) <= T[Other(n)]
    /\ own # NoRow => At(own.ver, Other(n)) <= At(r.ver, Other(n))
    /\ \/ At(r.ver, n) = T[n] + 1
       \/ At(r.ver, n) = T[n] /\ Explained(known, said, r.ver, Says(r))

\* r is a row of p in an index or in a mirror of one.
Published(p, r) ==
    /\ r # NoRow
    /\ \/ \E n \in Node : r = RowAt(files[n], p)
       \/ \E l \in Link : r = RowAt(peerFiles[l], p)

\* r is what n's scan or its pass is about to write for p.
Awaits(n, p, r) ==
    \/ \E l \in Link :
          /\ l[1] = n
          /\ \/ p \in DOMAIN pass[l].todo /\ r = pass[l].todo[p].resolved
             \/ p \in DOMAIN pass[l].applied /\ p \in DOMAIN pass[l].applied[p] /\ r = pass[l].applied[p][p]
    \/ scan[n].phase = "walked" /\ p \in DOMAIN scan[n].rows /\ r = scan[n].rows[p]

Chronicle(p, known, said) ==
    /\ Ledger(known, said, Tops(p))
    /\ \A r : Published(p, r) => Recorded(known, said, Tops(p), r)
    /\ \A n \in Node : \A r :
          Awaits(n, p, r) => Writable(known, said, Tops(p), n, RowAt(files[n], p), r)

\* Every file's path has a ledger, and a scan that has listed the index still
\* has it as it is.
Chronicled == \A p : p.mark = NoMark => \E known, said : Chronicle(p, known, said)
Listed == \A n \in Node : scan[n].phase = "listed" => scan[n].rows = files[n]

LEMMA RowsKnown ==
    ASSUME FilesOK, count.edits \in Nat, NEW p
    PROVE  /\ \A n \in Node : RowAt(files[n], p) \in Rows(count.edits) \cup {NoRow}
           /\ \A l \in Link : RowAt(peerFiles[l], p) \in Rows(count.edits) \cup {NoRow}
           /\ \A n \in Node : p \in DOMAIN files[n] <=> RowAt(files[n], p) # NoRow
           /\ \A r : Published(p, r) => r \in Rows(count.edits)
<1>1. /\ \A n \in Node : RowAt(files[n], p) \in Rows(count.edits) \cup {NoRow}
      /\ \A l \in Link : RowAt(peerFiles[l], p) \in Rows(count.edits) \cup {NoRow}
    BY DEF FilesOK, AllIn, RowAt
<1>2. \A n \in Node : p \in DOMAIN files[n] <=> RowAt(files[n], p) # NoRow
    BY NotARow DEF FilesOK, AllIn, RowAt
<1>3. \A r : Published(p, r) => r \in Rows(count.edits)
    BY <1>1 DEF Published
<1> QED
    BY <1>1, <1>2, <1>3

LEMMA SaysFacts ==
    ASSUME NEW e \in Nat, NEW r \in Rows(e)
    PROVE  /\ Says(r) \in Sayings /\ r.ver \in VersionVector
           /\ \A v \in VersionVector : Says(WithVersion(r, v)) = Says(r)
<1> DEFINE V == VersionVector
<1> HIDE DEF V
<1>1. r \in [type : {"file"}, deleted : BOOLEAN, ver : V, sha : 1..e, mtime : MTimes]
    BY DEF Rows, V
<1>2. r.deleted \in BOOLEAN /\ r.sha \in Nat /\ r.ver \in V
    BY <1>1
<1>3. \A v \in V : WithVersion(r, v).deleted = r.deleted /\ WithVersion(r, v).sha = r.sha
    BY <1>1 DEF WithVersion
<1> QED
    BY <1>2, <1>3 DEF Says, Sayings, V

\* A step that writes no row of p: mirrors copy rows, and what a node awaits
\* to write it awaited before or may write.
LEMMA CalmChronicle ==
    ASSUME NEW p, NEW known, NEW said, Chronicle(p, known, said),
           \A n \in Node : RowAt(files'[n], p) = RowAt(files[n], p),
           \A r : Published(p, r)' => Published(p, r),
           \A n \in Node : \A r : Awaits(n, p, r)' =>
              Awaits(n, p, r) \/ Writable(known, said, Tops(p), n, RowAt(files[n], p), r)
    PROVE  Chronicle(p, known, said)'
<1>1. Tops(p)' = Tops(p)
    BY DEF Tops
<1> QED
    BY <1>1 DEF Chronicle

\* n writes a row of p that it awaited to, and awaits nothing more for p.
LEMMA WrittenChronicle ==
    ASSUME Pair, Typed, Typed', NEW p, NEW known, NEW said, Chronicle(p, known, said),
           NEW n \in Node, NEW r, Awaits(n, p, r), r # NoRow, RowAt(files'[n], p) = r,
           \A k \in Node \ {n} : RowAt(files'[k], p) = RowAt(files[k], p),
           peerFiles' = peerFiles,
           \A q : ~Awaits(n, p, q)',
           \A k \in Node \ {n} : \A q : Awaits(k, p, q)' => Awaits(k, p, q)
    PROVE  \E known2, said2 : Chronicle(p, known2, said2)'
<1> DEFINE m == Other(n)
           T == Tops(p)
           own == RowAt(files[n], p)
<1>1. m \in Node /\ m # n /\ Other(m) = n /\ \A k \in Node : k = n \/ k = m
    BY Others
<1>2. /\ FilesOK /\ count.edits \in Nat /\ FilesOK' /\ count'.edits \in Nat
    BY DEF Typed, CountOK
<1>3. /\ r \in Rows(count'.edits) /\ r.ver \in VersionVector /\ Says(r) \in Sayings
    <2>1. r \in Rows(count'.edits)
        BY <1>2 DEF FilesOK, AllIn, RowAt
    <2> QED
        BY <1>2, <2>1, SaysFacts
<1>4. \A q : Published(p, q) => q.ver \in VersionVector
    BY <1>2, RowsKnown, SaysFacts
<1>5. \A q : Published(p, q)' => q = r \/ Published(p, q)
    BY DEF Published
<1>6. /\ Ledger(known, said, T) /\ T \in [Node -> Nat] /\ T[n] \in Nat
      /\ Writable(known, said, T, n, own, r)
      /\ \A q : Published(p, q) => Recorded(known, said, T, q)
    BY DEF Chronicle, Ledger
<1>7. T[n] = TopOf(n, own) /\ Tops(p)' = [T EXCEPT ![n] = At(r.ver, n)]
    BY DEF Tops, TopOf
<1> HIDE DEF T, own, m
<1>8. CASE At(r.ver, n) = T[n] /\ Explained(known, said, r.ver, Says(r))
    <2>1. Tops(p)' = T
        BY <1>6, <1>7, <1>8
    <2>2. Within(r.ver, T)
        BY <1>1, <1>6, <1>8 DEF Within, Writable, m
    <2>3. \A q : Published(p, q)' => Recorded(known, said, T, q)
        BY <1>5, <1>6, <1>8, <2>2 DEF Recorded
    <2>4. ASSUME NEW k \in Node, NEW q, Awaits(k, p, q)'
          PROVE  Writable(known, said, T, k, RowAt(files'[k], p), q)
        BY <2>4 DEF Chronicle, T
    <2>5. Chronicle(p, known, said)'
        BY <1>6, <2>1, <2>3, <2>4 DEF Chronicle
    <2> QED
        BY <2>5
<1>9. CASE At(r.ver, n) = T[n] + 1
    <2> DEFINE T2 == [T EXCEPT ![n] = T[n] + 1]
    <2>1. At(r.ver, m) <= T[m] /\ (own # NoRow => At(own.ver, m) <= At(r.ver, m))
        BY <1>6 DEF Writable, m
    <2>2. known[n][T[n]] <= At(r.ver, m)
        <3>1. CASE own = NoRow
            <4>1. T[n] = 0 /\ known[n][0] = 0 /\ At(r.ver, m) \in Nat
                BY <1>3, <1>6, <1>7, <3>1, VectorType DEF TopOf, Ledger
            <4> QED
                BY <4>1
        <3>2. CASE own # NoRow
            <4>1. Published(p, own)
                BY <3>2 DEF Published, own
            <4>2. Explains(known, said, own.ver, Says(own), n) /\ own.ver \in VersionVector
                BY <1>4, <1>6, <4>1 DEF Recorded, Explained
            <4>3. T[n] = At(own.ver, n)
                BY <1>7, <3>2 DEF TopOf
            <4>4. known[n][T[n]] <= At(own.ver, m)
                BY <4>2, <4>3 DEF Explains, m
            <4>5. known[n][T[n]] \in Nat /\ At(own.ver, m) \in Nat /\ At(r.ver, m) \in Nat
                BY <1>3, <1>6, <4>2, VectorType DEF Ledger
            <4> QED
                BY <2>1, <3>2, <4>4, <4>5
        <3> QED
            BY <3>1, <3>2
    <2>3. PICK known2, said2 :
          /\ Ledger(known2, said2, T2) /\ Explained(known2, said2, r.ver, Says(r))
          /\ \A w \in VersionVector : Within(w, T) =>
               /\ Within(w, T2)
               /\ \A d : Explained(known, said, w, d) => Explained(known2, said2, w, d)
        <3> DEFINE a == [known EXCEPT ![n][T[n] + 1] = At(r.ver, m)]
                   b == [said EXCEPT ![n][T[n] + 1] = Says(r)]
        <3>1. /\ Ledger(a, b, T2) /\ Explained(a, b, r.ver, Says(r))
              /\ \A w \in VersionVector : Within(w, T) =>
                   /\ Within(w, T2)
                   /\ \A d : Explained(known, said, w, d) => Explained(a, b, w, d)
            BY <1>3, <1>6, <1>9, <2>1, <2>2, LedgerExtends DEF m
        <3> HIDE DEF a, b, T2
        <3> QED
            BY <3>1
    <2>4. T2[n] = T[n] + 1 /\ T2[m] = T[m]
        BY <1>1, <1>6
    <2>5. Tops(p)' = T2
        BY <1>7, <1>9
    <2> HIDE DEF T2
    <2>6. Within(r.ver, T2)
        BY <1>1, <1>6, <1>9, <2>1, <2>4 DEF Within
    <2>7. \A q : Published(p, q)' => Recorded(known2, said2, T2, q)
        BY <1>4, <1>5, <1>6, <2>3, <2>6 DEF Recorded
    <2>8. ASSUME NEW k \in Node, NEW q, Awaits(k, p, q)'
          PROVE  Writable(known2, said2, T2, k, RowAt(files'[k], p), q)
        <3>1. k = m /\ Awaits(m, p, q) /\ RowAt(files'[m], p) = RowAt(files[m], p)
            BY <1>1, <2>8
        <3>2. Writable(known, said, T, m, RowAt(files[m], p), q)
            BY <1>1, <3>1 DEF Chronicle, T
        <3>3. q.ver \in VersionVector
            <4>1. PassOK /\ ScanOK
                BY DEF Typed
            <4>2. q \in Rows(count.edits)
                BY <1>1, <3>1, <4>1 DEF Awaits, PassOK, ScanOK, ActionOK, AllIn
            <4> QED
                BY <1>2, <4>2, SaysFacts
        <3>4. /\ At(q.ver, n) <= T[n] /\ At(q.ver, n) \in Nat
              /\ RowAt(files[m], p) # NoRow => At(RowAt(files[m], p).ver, n) <= At(q.ver, n)
              /\ \/ At(q.ver, m) = T[m] + 1
                 \/ At(q.ver, m) = T[m] /\ Explained(known, said, q.ver, Says(q))
            BY <1>1, <3>2, <3>3, VectorType DEF Writable
        <3>5. CASE At(q.ver, m) = T[m] + 1
            BY <1>1, <1>6, <2>4, <3>1, <3>4, <3>5 DEF Writable
        <3>6. CASE At(q.ver, m) = T[m] /\ Explained(known, said, q.ver, Says(q))
            <4>1. Within(q.ver, T)
                BY <1>1, <1>6, <3>4, <3>6 DEF Within
            <4>2. Explained(known2, said2, q.ver, Says(q))
                BY <2>3, <3>3, <3>6, <4>1
            <4> QED
                BY <1>1, <1>6, <2>4, <3>1, <3>4, <3>6, <4>2 DEF Writable
        <3> QED
            BY <3>4, <3>5, <3>6
    <2>9. Chronicle(p, known2, said2)'
        BY <2>3, <2>5, <2>7, <2>8 DEF Chronicle
    <2> QED
        BY <2>9
<1> QED
    BY <1>6, <1>8, <1>9 DEF Writable

\* A row with a version n has just bumped may be written by n.
LEMMA BumpWritable ==
    ASSUME Pair, NEW known, NEW said, NEW T, T \in [Node -> Nat], NEW n \in Node, NEW own,
           NEW v \in VersionVector, At(v, n) = T[n], At(v, Other(n)) <= T[Other(n)],
           own # NoRow => At(own.ver, Other(n)) <= At(v, Other(n)),
           NEW r, r.ver = Bump(v, n)
    PROVE  Writable(known, said, T, n, own, r)
<1>1. Other(n) \in Node /\ Other(n) # n
    BY Others
<1>2. At(Bump(v, n), n) = T[n] + 1 /\ At(Bump(v, n), Other(n)) = At(v, Other(n))
    BY <1>1, BumpDominates
<1> QED
    BY <1>2 DEF Writable

\* What a pass decides from recorded rows its node may write.
LEMMA DecisionWritable ==
    ASSUME Pair, NEW known, NEW said, NEW T, Ledger(known, said, T),
           NEW e \in Nat, NEW p, NEW n \in Node, NEW dir, NEW now, ~dir.outBlocked,
           NEW own \in Rows(e) \cup {NoRow}, NEW r \in Rows(e) \cup {NoRow},
           T[n] = TopOf(n, own),
           own # NoRow => Recorded(known, said, T, own), r # NoRow => Recorded(known, said, T, r),
           Works(reconcileOne(p, own, r, n, dir, now))
    PROVE  Writable(known, said, T, n, own, reconcileOne(p, own, r, n, dir, now).resolved)
<1> DEFINE a == reconcileOne(p, own, r, n, dir, now)
           m == Other(n)
           merged == Merge(own.ver, r.ver)
<1>1. r # NoRow /\ ~dir.inBlocked
    BY DEF reconcileOne, KeepLocal, Works
<1>2. r \in Rows(e) /\ r.ver \in VersionVector
    BY <1>1, RowFields
<1>3. m \in Node /\ m # n /\ Other(m) = n /\ \A k \in Node : k = n \/ k = m
    BY Others
<1>4. /\ T[n] \in Nat /\ T[m] \in Nat /\ T \in [Node -> Nat]
      /\ At(r.ver, n) \in Nat /\ At(r.ver, m) \in Nat
    BY <1>2, <1>3, VectorType DEF Ledger
<1>5. /\ At(r.ver, n) <= T[n] /\ At(r.ver, m) <= T[m]
      /\ Explained(known, said, r.ver, Says(r))
    BY <1>1, <1>3 DEF Recorded, Within
<1>6. Adopt(r).resolved = r
    BY DEF Adopt, ActionDelete, ActionPull
<1>7. CASE own = NoRow
    <2>1. a = Adopt(r)
        BY <1>1, <1>7 DEF reconcileOne, Works
    <2>2. At(r.ver, n) = T[n]
        BY <1>4, <1>5, <1>7 DEF TopOf
    <2> QED
        BY <1>5, <1>6, <1>7, <2>1, <2>2 DEF Writable
<1>8. CASE own # NoRow
    <2>1. own \in Rows(e) /\ own.ver \in VersionVector /\ At(own.ver, n) = T[n]
        BY <1>8, RowFields DEF TopOf
    <2>2. /\ Within(own.ver, T) /\ Explained(known, said, own.ver, Says(own))
          /\ At(own.ver, m) <= T[m] /\ At(own.ver, m) \in Nat
        BY <1>3, <1>8, <2>1, VectorType DEF Recorded, Within
    <2>3. \/ a = Adopt(r) /\ Dominates(r.ver, own.ver)
          \/ a = reconcileConcurrent(p, own, r, n, dir, now) /\ Concurrent(own.ver, r.ver)
        BY <1>1, <1>8 DEF reconcileOne, Works, KeepLocal, Concurrent
    <2>4. CASE a = Adopt(r) /\ Dominates(r.ver, own.ver)
        <3>1. At(own.ver, n) <= At(r.ver, n) /\ At(own.ver, m) <= At(r.ver, m)
            BY <1>2, <1>3, <2>1, <2>4, DominatesPointwise DEF Leq
        <3>2. At(r.ver, n) = T[n]
            BY <1>4, <1>5, <2>1, <3>1
        <3> QED
            BY <1>5, <1>6, <2>4, <3>1, <3>2 DEF Writable
    <2>5. CASE a = reconcileConcurrent(p, own, r, n, dir, now) /\ Concurrent(own.ver, r.ver)
        <3>1. /\ merged \in VersionVector
              /\ At(merged, n) = IF At(r.ver, n) > At(own.ver, n) THEN At(r.ver, n) ELSE At(own.ver, n)
              /\ At(merged, m) = IF At(r.ver, m) > At(own.ver, m) THEN At(r.ver, m) ELSE At(own.ver, m)
            BY <1>2, <1>3, <2>1, MergePointwise
        <3>2. Bump(merged, n) \in VersionVector
            BY <3>1, BumpDominates
        <3> HIDE DEF merged
        <3>3. At(merged, n) = T[n] /\ At(merged, m) <= T[m] /\ At(own.ver, m) <= At(merged, m)
            BY <1>4, <1>5, <2>1, <2>2, <3>1
        <3>4. \/ a.resolved \in {WithVersion(r, Bump(merged, n)), WithVersion(own, Bump(merged, n))}
              \/ a.resolved = WithVersion(own, merged) /\ Says(own) = Says(r)
            <4>1. own.deleted \in BOOLEAN /\ r.deleted \in BOOLEAN
                BY <1>2, <2>1, RowFields
            <4>2. CASE own.deleted = r.deleted /\ ~own.deleted /\ own.sha = r.sha
                <5>1. a = reconcileIdenticalContent(own, r)
                    BY <2>5, <4>2 DEF reconcileConcurrent
                <5>2. a.resolved = WithVersion(own, merged)
                    BY <5>1 DEF reconcileIdenticalContent, ActionPull, merged
                <5>3. Says(own) = Says(r)
                    BY <4>2 DEF Says
                <5> QED
                    BY <5>2, <5>3
            <4>3. CASE ~(own.deleted = r.deleted /\ ~own.deleted /\ own.sha = r.sha)
                <5>1. \/ a = ResolveDelete(own, r, Bump(merged, n))
                      \/ a = ActionDelete(WithVersion(r, Bump(merged, n)))
                      \/ a = ResolveContent(p, own, r, n, now, Bump(merged, n))
                    BY <2>5, <4>1, <4>3 DEF reconcileConcurrent, merged
                <5> HIDE DEF a
                <5>2. a.resolved \in {WithVersion(r, Bump(merged, n)), WithVersion(own, Bump(merged, n))}
                    BY <5>1 DEF ResolveDelete, ActionResurrect, ActionDelete, ResolveContent, ActionConflictCopy
                <5> QED
                    BY <5>2
            <4> QED
                BY <4>2, <4>3
        <3> HIDE DEF a
        <3>5. CASE a.resolved \in {WithVersion(r, Bump(merged, n)), WithVersion(own, Bump(merged, n))}
            <4>1. a.resolved.ver = Bump(merged, n)
                BY <1>2, <2>1, <3>2, <3>5, RowFacts
            <4>2. Writable(known, said, T, n, own, a.resolved)
                BY <1>4, <3>1, <3>3, <4>1, BumpWritable
            <4> QED
                BY <4>2 DEF a
        <3>6. CASE a.resolved = WithVersion(own, merged) /\ Says(own) = Says(r)
            <4>1. a.resolved.ver = merged /\ Says(a.resolved) = Says(own)
                BY <2>1, <3>1, <3>6, RowFacts, SaysFacts
            <4>2. At(r.ver, n) < At(own.ver, n) /\ At(own.ver, m) < At(r.ver, m)
                <5>1. At(r.ver, n) <= At(own.ver, n)
                    BY <1>5, <2>1
                <5>2. ~Leq(r.ver, own.ver)
                    <6>1. ~Covers(own.ver, r.ver)
                        BY <2>5 DEF Concurrent, Covers
                    <6> QED
                        BY <1>2, <2>1, <6>1, CoversPointwise
                <5>3. ~(At(r.ver, m) <= At(own.ver, m))
                    BY <1>3, <5>1, <5>2 DEF Leq
                <5>4. ~Leq(own.ver, r.ver)
                    <6>1. ~Covers(r.ver, own.ver)
                        BY <1>2, <2>1, <2>5, ConcurrentBothWays DEF Concurrent, Covers
                    <6> QED
                        BY <1>2, <2>1, <6>1, CoversPointwise
                <5>5. At(own.ver, m) < At(r.ver, m)
                    BY <1>4, <2>2, <5>3
                <5>6. ~(At(own.ver, n) <= At(r.ver, n))
                    BY <1>3, <1>4, <2>2, <5>4, <5>5 DEF Leq
                <5> QED
                    BY <1>4, <2>1, <5>5, <5>6
            <4>3. At(merged, m) = At(r.ver, m) /\ At(merged, n) = At(own.ver, n)
                BY <1>4, <2>1, <2>2, <3>1, <4>2
            <4>4. Within(r.ver, T)
                BY <1>1 DEF Recorded
            <4>5. Explained(known, said, merged, Says(own))
                BY <1>2, <1>5, <2>1, <2>2, <3>1, <3>6, <4>2, <4>3, <4>4, MergeExplained
            <4>6. Writable(known, said, T, n, own, a.resolved)
                BY <3>3, <4>1, <4>5 DEF Writable
            <4> QED
                BY <4>6 DEF a
        <3> QED
            BY <3>4, <3>5, <3>6
    <2> QED
        BY <2>3, <2>4, <2>5
<1> QED
    BY <1>7, <1>8

\* What a scan makes of a recorded row its node may write.
LEMMA ScanWritable ==
    ASSUME Pair, NEW known, NEW said, NEW T, Ledger(known, said, T),
           NEW e \in Nat, NEW n \in Node,
           NEW own \in Rows(e) \cup {NoRow}, NEW f \in Found(e) \cup {NoRow}, own # NoRow \/ f # NoRow,
           T[n] = TopOf(n, own), own # NoRow => Recorded(known, said, T, own)
    PROVE  Writable(known, said, T, n, own, ScanRow(n, own, f))
<1> DEFINE m == Other(n)
           v == carriedVersion(own)
<1>1. m \in Node /\ T \in [Node -> Nat] /\ T[m] \in Nat
    BY Others DEF Ledger
<1>2. /\ v \in VersionVector /\ At(v, n) = T[n] /\ At(v, m) <= T[m]
      /\ own # NoRow => own \in Rows(e) /\ v = own.ver
    <2>1. CASE own = NoRow
        <3>1. EmptyVector \in VersionVector /\ At(EmptyVector, n) = 0 /\ At(EmptyVector, m) = 0
            <4>1. EmptyVector \in [{} -> Nat] /\ DOMAIN EmptyVector = {}
                BY DEF EmptyVector
            <4> QED
                BY <4>1 DEF VersionVector, At
        <3> QED
            BY <1>1, <2>1, <3>1 DEF carriedVersion, TopOf
    <2>2. CASE own # NoRow
        <3>1. own \in Rows(e) /\ own.ver \in VersionVector /\ At(own.ver, n) = T[n]
            BY <2>2, RowFields DEF TopOf
        <3> QED
            BY <1>1, <2>2, <3>1 DEF Recorded, Within, carriedVersion
    <2> QED
        BY <2>1, <2>2
<1>3. Bump(v, n) \in VersionVector /\ At(v, m) \in Nat
    BY <1>2, BumpDominates, VectorType
<1> HIDE DEF v
<1>4. ASSUME NEW x, x.ver = Bump(v, n) PROVE Writable(known, said, T, n, own, x)
    BY <1>1, <1>2, <1>3, <1>4, BumpWritable
<1>5. ASSUME NEW x, own # NoRow, x.ver = v, Says(x) = Says(own) PROVE Writable(known, said, T, n, own, x)
    BY <1>2, <1>3, <1>5 DEF Writable, Recorded
<1>6. CASE f = NoRow
    <2>1. own # NoRow /\ own \in Rows(e) /\ own.ver = v /\ own.deleted \in BOOLEAN
        BY <1>2, <1>6, RowFields
    <2>2. CASE own.deleted
        <3>1. ScanRow(n, own, f) = own
            BY <1>6, <2>2 DEF ScanRow
        <3> QED
            BY <1>5, <2>1, <3>1
    <2>3. CASE ~own.deleted
        <3>1. ScanRow(n, own, f) = [own EXCEPT !.deleted = TRUE, !.ver = Bump(v, n)]
            BY <1>6, <2>1, <2>3 DEF ScanRow
        <3>2. [own EXCEPT !.deleted = TRUE, !.ver = Bump(v, n)].ver = Bump(v, n)
            <4> DEFINE V == VersionVector
                       b == Bump(v, n)
            <4>1. own \in [type : {"file"}, deleted : BOOLEAN, ver : V, sha : 1..e, mtime : MTimes] /\ b \in V
                BY <1>3, <2>1 DEF Rows
            <4> HIDE DEF V, b
            <4>2. [own EXCEPT !.deleted = TRUE, !.ver = b].ver = b
                BY <4>1
            <4> QED
                BY <4>2 DEF b
        <3> QED
            BY <1>4, <3>1, <3>2
    <2> QED
        BY <2>2, <2>3
<1>7. CASE f # NoRow
    <2>1. FileRow(f, v).ver = v /\ FileRow(f, Bump(v, n)).ver = Bump(v, n) /\ FileRow(f, v).deleted = FALSE
        /\ FileRow(f, v).sha = f.sha
        BY DEF FileRow
    <2>2. CASE own = NoRow \/ own.deleted \/ own.sha # f.sha
        <3>1. ScanRow(n, own, f) = FileRow(f, Bump(v, n))
            BY <1>7, <2>2 DEF ScanRow, v
        <3> QED
            BY <1>4, <2>1, <3>1
    <2>3. CASE ~(own = NoRow \/ own.deleted \/ own.sha # f.sha)
        <3>1. own.deleted = FALSE /\ own.sha = f.sha
            BY <1>2, <2>3, RowFields
        <3>2. ScanRow(n, own, f) = FileRow(f, v)
            BY <1>2, <1>7, <2>3 DEF ScanRow
        <3>3. Says(FileRow(f, v)) = Says(own)
            BY <2>1, <3>1 DEF Says
        <3> QED
            BY <1>5, <2>1, <2>3, <3>2, <3>3
    <2> QED
        BY <2>2, <2>3
<1> QED
    BY <1>6, <1>7

\* Steps that write no index and give nobody a new row to write.
LEMMA QuietChronicle ==
    ASSUME Chronicled, files' = files,
           \A p, r : Published(p, r)' => Published(p, r),
           \A p : p.mark = NoMark => \A n \in Node : \A r : Awaits(n, p, r)' => Awaits(n, p, r)
    PROVE  Chronicled'
<1> SUFFICES ASSUME NEW p, p.mark = NoMark PROVE \E known, said : Chronicle(p, known, said)'
    BY DEF Chronicled
<1>1. PICK known, said : Chronicle(p, known, said)
    BY DEF Chronicled
<1>2. Chronicle(p, known, said)'
    BY <1>1, CalmChronicle
<1> QED
    BY <1>2

LEMMA SameAwaits ==
    ASSUME pass' = pass, scan' = scan PROVE \A n \in Node : \A p, r : Awaits(n, p, r)' => Awaits(n, p, r)
BY DEF Awaits

LEMMA PairLinks ==
    ASSUME Pair
    PROVE  /\ \A l \in Link : Sole(l)
           /\ \A n \in Node : n = Hub \/ n \in Spoke
<1>1. PICK s : Spoke = {s}
    BY DEF Pair
<1>2. Hub # s /\ Node = {Hub, s} /\ Link = {<<Hub, s>>, <<s, Hub>>}
    BY <1>1, ReplicasAssumption DEF Link
<1>3. <<Hub, s>>[1] = Hub /\ <<s, Hub>>[1] = s
    OBVIOUS
<1> QED
    BY <1>1, <1>2, <1>3 DEF Sole

LEMMA DeliverChronicle ==
    ASSUME Typed, Chronicled, Listed, NEW l \in Link, Deliver(l[1], l[2])
    PROVE  Chronicled' /\ Listed'
<1>1. l = <<l[1], l[2]>> /\ l[2] \in Node /\ FilesOK
    BY Links DEF Typed
<1>2. /\ files' = files /\ pass' = pass /\ scan' = scan
      /\ peerFiles' = [peerFiles EXCEPT ![l] = files[l[2]]]
    BY <1>1 DEF Deliver
<1>3. \A k \in Link : peerFiles'[k] = peerFiles[k] \/ peerFiles'[k] = files[l[2]]
    BY <1>1, <1>2 DEF FilesOK
<1>4. \A p, r : Published(p, r)' => Published(p, r)
    BY <1>1, <1>2, <1>3 DEF Published
<1>5. Chronicled'
    BY <1>2, <1>4, SameAwaits, QuietChronicle
<1> QED
    BY <1>2, <1>5 DEF Listed

LEMMA FaultChronicle ==
    ASSUME Typed, Chronicled, Listed, NEW l \in Link, Fault(l[1], l[2])
    PROVE  Chronicled' /\ Listed'
<1>1. l[1] \in Node /\ ScanOK
    BY Links DEF Typed
<1>2. /\ files' = files /\ peerFiles' = peerFiles
      /\ \A k \in Link : pass'[k] = NoPass \/ pass'[k] = pass[k]
      /\ scan' = scan \/ scan' = [scan EXCEPT ![l[1]] = NoScan]
    BY DEF Fault, Drop, Crash, LoseSessions
<1>3. \A n \in Node : scan'[n] = NoScan \/ scan'[n] = scan[n]
    BY <1>1, <1>2 DEF ScanOK
<1>4. /\ DOMAIN NoPass.todo = {} /\ DOMAIN NoPass.applied = {} /\ NoScan.phase = "idle"
    BY DEF NoPass, NoScan
<1>5. \A n \in Node : \A p, r : Awaits(n, p, r)' => Awaits(n, p, r)
    BY <1>2, <1>3, <1>4 DEF Awaits
<1>6. \A p, r : Published(p, r)' => Published(p, r)
    BY <1>2 DEF Published
<1>7. Chronicled'
    BY <1>2, <1>5, <1>6, QuietChronicle
<1>8. Listed'
    BY <1>2, <1>3, <1>4 DEF Listed
<1> QED
    BY <1>7, <1>8

\* An action that has been applied awaits its row as it did when planned.
LEMMA ApplyChronicle ==
    ASSUME Typed, Chronicled, Listed, NEW l \in Link, NEW p, Apply(l[1], l[2], p)
    PROVE  Chronicled' /\ Listed'
<1> DEFINE a == pass[l].todo[p]
           z == applyAction(l[1], l[2], p, a)
           t == Without(pass[l].todo, p)
           u == Put(pass[l].applied, p, z.rows)
<1>1. l = <<l[1], l[2]>> /\ PassOK
    BY Links DEF Typed
<1>2. /\ files' = files /\ peerFiles' = peerFiles /\ scan' = scan /\ p \in DOMAIN pass[l].todo
      /\ pass' = [pass EXCEPT ![l].todo = t, ![l].applied = u]
    BY <1>1 DEF Apply
<1>3. ActionOK(a, count.edits)
    BY <1>1, <1>2 DEF PassOK
<1>4. p.mark = NoMark /\ p \in DOMAIN z.rows => z.rows[p] = a.resolved
    BY <1>3, ActionRows
<1> HIDE DEF z
<1>5. /\ DOMAIN t = DOMAIN pass[l].todo \ {p} /\ \A q \in DOMAIN t : t[q] = pass[l].todo[q]
      /\ DOMAIN u = DOMAIN pass[l].applied \cup {p} /\ u[p] = z.rows
      /\ \A q \in DOMAIN pass[l].applied \ {p} : u[q] = pass[l].applied[q]
    BY DEF Put, Without
<1> HIDE DEF t, u, a
<1>6. /\ pass'[l].todo = t /\ pass'[l].applied = u
      /\ \A k \in Link \ {l} : pass'[k] = pass[k]
    <2>1. /\ DOMAIN pass = Link /\ PassRecord(pass[l])
        BY <1>1 DEF PassOK
    <2>2. pass'[l] = [pass[l] EXCEPT !.todo = t, !.applied = u]
        BY <1>2, <2>1
    <2> DEFINE x == pass[l]
               y == pass'[l]
    <2>3. PassRecord(x) /\ y = [x EXCEPT !.todo = t, !.applied = u]
        BY <2>1, <2>2
    <2> HIDE DEF x, y
    <2>4. PICK old, done, running : x = [todo |-> old, applied |-> done, running |-> running]
        BY <2>3 DEF PassRecord
    <2>5. x \in [todo : {old}, applied : {done}, running : {running}]
        BY <2>4
    <2>6. y \in [todo : {t}, applied : {u}, running : {running}]
        BY <2>3, <2>5
    <2>7. y.todo = t /\ y.applied = u
        BY <2>6
    <2> QED
        BY <1>2, <2>1, <2>7 DEF y
<1>7. ASSUME NEW q, q.mark = NoMark, NEW n \in Node, NEW r, Awaits(n, q, r)' PROVE Awaits(n, q, r)
    <2>1. CASE scan[n].phase = "walked" /\ q \in DOMAIN scan[n].rows /\ r = scan[n].rows[q]
        BY <2>1 DEF Awaits
    <2>2. CASE ~(scan[n].phase = "walked" /\ q \in DOMAIN scan[n].rows /\ r = scan[n].rows[q])
        <3>1. PICK k \in Link :
                 /\ k[1] = n
                 /\ \/ q \in DOMAIN pass'[k].todo /\ r = pass'[k].todo[q].resolved
                    \/ q \in DOMAIN pass'[k].applied /\ q \in DOMAIN pass'[k].applied[q] /\ r = pass'[k].applied[q][q]
            BY <1>2, <1>7, <2>2 DEF Awaits
        <3>2. CASE k # l
            BY <1>6, <3>1, <3>2 DEF Awaits
        <3>3. CASE k = l /\ q # p
            BY <1>5, <1>6, <3>1, <3>3 DEF Awaits
        <3>4. CASE k = l /\ q = p
            <4>1. r = a.resolved
                BY <1>4, <1>5, <1>6, <1>7, <3>1, <3>4
            <4> QED
                BY <1>2, <3>1, <3>4, <4>1 DEF Awaits, a
        <3> QED
            BY <3>2, <3>3, <3>4
    <2> QED
        BY <2>1, <2>2
<1>8. \A q, r : Published(q, r)' => Published(q, r)
    BY <1>2 DEF Published
<1>9. Chronicled'
    BY <1>2, <1>7, <1>8, QuietChronicle
<1> QED
    BY <1>2, <1>9 DEF Listed

LEMMA PassBeginChronicle ==
    ASSUME Pair, TwoWayShare, Typed, Chronicled, Listed, NEW l \in Link, PassBegin(l[1], l[2])
    PROVE  Chronicled' /\ Listed'
<1> DEFINE n == l[1]
           e == count.edits
           plan == ReconcileShare(files[n], peerFiles[l], n, Direction(n), 0, {})
           todo == {p \in DOMAIN plan : Works(plan[p])}
           x == [todo |-> [p \in todo |-> plan[p]], applied |-> <<>>, running |-> TRUE]
<1>1. l = <<l[1], l[2]>> /\ n \in Node /\ e \in Nat /\ FilesOK /\ PassOK
    BY Links DEF Typed, CountOK
<1>2. /\ files' = files /\ peerFiles' = peerFiles /\ scan' = scan
      /\ pass'[l] = NoPass \/ pass'[l] = x
      /\ \A k \in Link \ {l} : pass'[k] = pass[k]
    BY <1>1 DEF PassBegin, PassOK
<1>3. ~Direction(n).outBlocked
    <2>1. CASE n = Hub
        BY <2>1 DEF Direction, DirectionFor
    <2>2. CASE n # Hub
        <3>1. Mode[n] = "mirror" /\ Permission = "read-write"
            BY <1>1, <2>2, PairLinks DEF TwoWayShare
        <3> QED
            BY <2>2, <3>1 DEF Direction, DirectionFor, subscriberDirection
    <2> QED
        BY <2>1, <2>2
<1>4. Listed'
    BY <1>2 DEF Listed
<1> SUFFICES ASSUME NEW p, p.mark = NoMark PROVE \E known, said : Chronicle(p, known, said)'
    BY <1>4 DEF Chronicled
<1>5. PICK known, said : Chronicle(p, known, said)
    BY DEF Chronicled
<1> DEFINE own == RowAt(files[n], p)
           r == RowAt(peerFiles[l], p)
           T == Tops(p)
<1>6. /\ own \in Rows(e) \cup {NoRow} /\ r \in Rows(e) \cup {NoRow}
      /\ Ledger(known, said, T) /\ T[n] = TopOf(n, own)
      /\ own # NoRow => Recorded(known, said, T, own)
      /\ r # NoRow => Recorded(known, said, T, r)
    <2>1. own \in Rows(e) \cup {NoRow} /\ r \in Rows(e) \cup {NoRow}
        BY <1>1, RowsKnown
    <2>2. /\ own # NoRow => Published(p, own)
          /\ r # NoRow => Published(p, r)
        BY <1>1 DEF Published
    <2>3. T[n] = TopOf(n, own)
        BY <1>1 DEF Tops
    <2> QED
        BY <1>5, <2>1, <2>2, <2>3 DEF Chronicle
<1>7. ASSUME p \in todo PROVE Writable(known, said, T, n, own, plan[p].resolved)
    <2>1. plan[p] = reconcileOne(p, own, r, n, Direction(n), 0) /\ Works(plan[p])
        BY <1>7 DEF ReconcileShare
    <2> HIDE DEF plan, todo, own, r, T
    <2> QED
        BY <1>1, <1>3, <1>6, <2>1, DecisionWritable
<1>8. ASSUME NEW k \in Node, NEW q, Awaits(k, p, q)'
      PROVE  Awaits(k, p, q) \/ Writable(known, said, T, k, RowAt(files[k], p), q)
    <2> HIDE DEF plan, todo, T
    <2>1. CASE pass'[l] = NoPass
        <3>1. DOMAIN NoPass.todo = {} /\ DOMAIN NoPass.applied = {}
            BY DEF NoPass
        <3> QED
            BY <1>2, <1>8, <2>1, <3>1 DEF Awaits
    <2>2. CASE pass'[l] = x
        <3>1. DOMAIN x.todo = todo /\ DOMAIN x.applied = {} /\ (p \in todo => x.todo[p] = plan[p])
            OBVIOUS
        <3> HIDE DEF x
        <3>2. Awaits(k, p, q) \/ (k = n /\ p \in todo /\ q = plan[p].resolved)
            BY <1>2, <1>8, <2>2, <3>1 DEF Awaits
        <3> QED
            BY <1>7, <3>2
    <2> QED
        BY <1>2, <2>1, <2>2
<1>9. \A q : Published(p, q)' => Published(p, q)
    BY <1>2 DEF Published
<1>10. Chronicle(p, known, said)'
    BY <1>2, <1>5, <1>8, <1>9, CalmChronicle
<1> QED
    BY <1>10

LEMMA ScanChronicle ==
    ASSUME Pair, TwoWayShare, Typed, Typed', Advancing, Chronicled, Listed, NEW n \in Node, ScanStep(n)
    PROVE  Chronicled' /\ Listed'
<1> DEFINE e == count.edits
<1>1. FilesOK /\ ScanOK /\ DiskOK /\ e \in Nat
    BY DEF Typed, CountOK
<1>2. CASE ScanList(n)
    <2>1. /\ files' = files /\ peerFiles' = peerFiles /\ pass' = pass
          /\ scan'[n] = [phase |-> "listed", rows |-> files[n]]
          /\ \A k \in Node \ {n} : scan'[k] = scan[k]
        BY <1>1, <1>2 DEF ScanList, ScanOK
    <2>2. \A k \in Node : \A p, r : Awaits(k, p, r)' => Awaits(k, p, r)
        <3>1. scan'[n].phase # "walked"
            BY <2>1
        <3> QED
            BY <2>1, <3>1 DEF Awaits
    <2>3. \A p, r : Published(p, r)' => Published(p, r)
        BY <2>1 DEF Published
    <2>4. Chronicled'
        BY <2>1, <2>2, <2>3, QuietChronicle
    <2>5. Listed'
        BY <2>1 DEF Listed
    <2> QED
        BY <2>4, <2>5
<1>3. CASE ScanWalk(n)
    <2> DEFINE old == scan[n].rows
               new == [p \in DOMAIN old \cup DOMAIN disk[n] |->
                          ScanRow(n, RowAt(old, p), FoundAt(disk[n], p))]
               changed == {p \in DOMAIN new : p \notin DOMAIN old \/ new[p] # old[p]}
               x == [phase |-> "walked", rows |-> [p \in changed |-> new[p]]]
    <2>1. /\ files' = files /\ peerFiles' = peerFiles /\ pass' = pass
          /\ scan[n].phase = "listed" /\ (scan'[n] = NoScan \/ scan'[n] = x)
          /\ \A k \in Node \ {n} : scan'[k] = scan[k]
        BY <1>1, <1>3 DEF ScanWalk, ScanOK
    <2>2. old = files[n]
        BY <2>1 DEF Listed
    <2>3. NoScan.phase = "idle" /\ x.phase = "walked"
        BY DEF NoScan
    <2>4. Listed'
        <3> HIDE DEF x
        <3> QED
            BY <2>1, <2>3 DEF Listed
    <2> SUFFICES ASSUME NEW p, p.mark = NoMark PROVE \E known, said : Chronicle(p, known, said)'
        BY <2>4 DEF Chronicled
    <2>5. PICK known, said : Chronicle(p, known, said)
        BY DEF Chronicled
    <2> DEFINE own == RowAt(files[n], p)
               f == FoundAt(disk[n], p)
               T == Tops(p)
    <2>6. /\ own \in Rows(e) \cup {NoRow} /\ Ledger(known, said, T) /\ T[n] = TopOf(n, own)
          /\ own # NoRow => Recorded(known, said, T, own)
        <3>1. own \in Rows(e) \cup {NoRow}
            BY <1>1, RowsKnown
        <3>2. own # NoRow => Published(p, own)
            BY DEF Published
        <3>3. T[n] = TopOf(n, own)
            BY DEF Tops
        <3> QED
            BY <2>5, <3>1, <3>2, <3>3 DEF Chronicle
    <2>7. ASSUME p \in changed PROVE Writable(known, said, T, n, own, new[p])
        <3>1. f \in Found(e) \cup {NoRow}
            BY <1>1 DEF FoundAt, DiskOK, AllIn
        <3>2. own # NoRow \/ f # NoRow
            <4>1. NoRow \notin Found(e)
                <5>1. MTimes \subseteq Nat /\ 1..e \subseteq Nat /\ NoRow \notin [sha : Nat, mtime : Nat]
                    BY ReplicasAssumption
                <5> QED
                    BY <5>1 DEF Found
            <4>2. p \in DOMAIN files[n] \/ p \in DOMAIN disk[n]
                BY <2>2, <2>7
            <4>3. p \in DOMAIN files[n] => own # NoRow
                BY <1>1, RowsKnown
            <4>4. p \in DOMAIN disk[n] => f # NoRow
                BY <1>1, <4>1 DEF FoundAt, DiskOK, AllIn
            <4> QED
                BY <4>2, <4>3, <4>4
        <3>3. new[p] = ScanRow(n, own, f)
            BY <2>2, <2>7
        <3> HIDE DEF new, own, f, T, changed
        <3> QED
            BY <1>1, <2>6, <3>1, <3>2, <3>3, ScanWritable
    <2>8. ASSUME NEW k \in Node, NEW q, Awaits(k, p, q)'
          PROVE  Awaits(k, p, q) \/ Writable(known, said, T, k, RowAt(files[k], p), q)
        <3>1. DOMAIN x.rows = changed /\ (p \in changed => x.rows[p] = new[p])
            OBVIOUS
        <3> HIDE DEF x, new, changed, T
        <3>2. Awaits(k, p, q) \/ (k = n /\ p \in changed /\ q = new[p])
            BY <2>1, <2>3, <2>8, <3>1 DEF Awaits
        <3> QED
            BY <2>7, <3>2
    <2>9. \A q : Published(p, q)' => Published(p, q)
        BY <2>1 DEF Published
    <2>10. Chronicle(p, known, said)'
        BY <2>1, <2>5, <2>8, <2>9, CalmChronicle
    <2> QED
        BY <2>10
<1>4. CASE ApplyScanResult(n)
    <2> DEFINE rows == scan[n].rows
    <2>1. /\ peerFiles' = peerFiles /\ pass' = pass /\ scan[n].phase = "walked"
          /\ files'[n] = Over(rows, files[n]) /\ scan'[n] = NoScan
          /\ \A k \in Node \ {n} : scan'[k] = scan[k] /\ files'[k] = files[k]
        BY <1>1, <1>4 DEF ApplyScanResult, ScanOK, FilesOK
    <2>2. NoScan.phase = "idle"
        BY DEF NoScan
    <2>3. Listed'
        BY <2>1, <2>2 DEF Listed
    <2>4. ASSUME NEW l \in Link, l[1] = n PROVE DOMAIN pass[l].todo = {} /\ DOMAIN pass[l].applied = {}
        <3>1. Forward(l)
            BY PairLinks DEF Advancing
        <3> QED
            BY <2>1, <2>4, <3>1 DEF Forward
    <2>5. \A p, q : ~Awaits(n, p, q)'
        BY <2>1, <2>2, <2>4 DEF Awaits
    <2>6. \A k \in Node \ {n} : \A p, q : Awaits(k, p, q)' => Awaits(k, p, q)
        BY <2>1 DEF Awaits
    <2> SUFFICES ASSUME NEW p, p.mark = NoMark PROVE \E known, said : Chronicle(p, known, said)'
        BY <2>3 DEF Chronicled
    <2>7. PICK known, said : Chronicle(p, known, said)
        BY DEF Chronicled
    <2>8. CASE p \in DOMAIN rows
        <3>1. PICK r : r = rows[p]
            OBVIOUS
        <3>2. Awaits(n, p, r) /\ RowAt(files'[n], p) = r
            BY <2>1, <2>8, <3>1 DEF Awaits, RowAt, Over
        <3>3. r # NoRow
            BY <1>1, <2>8, <3>1, NotARow DEF ScanOK, AllIn
        <3> QED
            BY <2>1, <2>5, <2>6, <2>7, <3>2, <3>3, WrittenChronicle
    <2>9. CASE p \notin DOMAIN rows
        <3>1. \A k \in Node : RowAt(files'[k], p) = RowAt(files[k], p)
            BY <2>1, <2>9 DEF RowAt, Over
        <3>2. \A q : Published(p, q)' => Published(p, q)
            BY <2>1, <3>1 DEF Published
        <3>3. \A k \in Node : \A q : Awaits(k, p, q)' => Awaits(k, p, q)
            BY <2>5, <2>6
        <3>4. Chronicle(p, known, said)'
            BY <2>7, <3>1, <3>2, <3>3, CalmChronicle
        <3> QED
            BY <3>4
    <2> QED
        BY <2>8, <2>9
<1> QED
    BY <1>2, <1>3, <1>4 DEF ScanStep

LEMMA PersistChronicle ==
    ASSUME Pair, Typed, Typed', Advancing, Chronicled, Listed,
           NEW l \in Link, NEW p, Persist(l[1], l[2], p)
    PROVE  Chronicled' /\ Listed'
<1> DEFINE n == l[1]
           rows == pass[l].applied[p]
           rest == Without(pass[l].applied, p)
<1>1. /\ l = <<l[1], l[2]>> /\ n \in Node /\ PassOK /\ FilesOK /\ Forward(l) /\ Sole(l)
      /\ count.edits \in Nat
    BY Links, PairLinks DEF Typed, Advancing, CountOK
<1>2. /\ scan' = scan /\ peerFiles' = peerFiles /\ p \in DOMAIN pass[l].applied
      /\ files'[n] = Over(rows, files[n])
      /\ \A k \in Node \ {n} : files'[k] = files[k]
      /\ \A k \in Link \ {l} : pass'[k] = pass[k]
      /\ pass'[l] = NoPass \/ pass'[l] = [pass[l] EXCEPT !.applied = rest]
    BY <1>1 DEF Persist, PassOK, FilesOK
<1>3. /\ scan[n].phase = "idle" /\ p \notin DOMAIN pass[l].todo
      /\ \A q \in DOMAIN rows : q # p => q.mark # NoMark
    BY <1>1, <1>2 DEF Forward
<1>4. Listed'
    BY <1>2, <1>3 DEF Listed
<1>5. /\ DOMAIN rest = DOMAIN pass[l].applied \ {p}
      /\ \A q \in DOMAIN rest : rest[q] = pass[l].applied[q]
    BY DEF Without
<1> HIDE DEF rest
<1>6. /\ DOMAIN pass'[l].todo \subseteq DOMAIN pass[l].todo
      /\ \A q \in DOMAIN pass'[l].todo : pass'[l].todo[q] = pass[l].todo[q]
      /\ DOMAIN pass'[l].applied \subseteq DOMAIN rest
      /\ \A q \in DOMAIN pass'[l].applied : pass'[l].applied[q] = rest[q]
    <2>1. CASE pass'[l] = NoPass
        <3>1. DOMAIN NoPass.todo = {} /\ DOMAIN NoPass.applied = {}
            BY DEF NoPass
        <3> QED
            BY <2>1, <3>1
    <2>2. CASE pass'[l] = [pass[l] EXCEPT !.applied = rest]
        <3>1. pass'[l].todo = pass[l].todo /\ pass'[l].applied = rest
            BY <1>1, <2>2 DEF PassOK, PassRecord
        <3> QED
            BY <3>1
    <2> QED
        BY <1>2, <2>1, <2>2
<1>7. ASSUME NEW k \in Node, NEW q, NEW r, Awaits(k, q, r)' PROVE Awaits(k, q, r) /\ ~(k = n /\ q = p)
    <2>1. CASE k # n
        <3>1. \A j \in Link : j[1] = k => pass'[j] = pass[j]
            BY <1>2, <2>1
        <3> QED
            BY <1>2, <1>7, <2>1, <3>1 DEF Awaits
    <2>2. CASE k = n
        <3>1. PICK j \in Link :
                 /\ j[1] = n
                 /\ \/ q \in DOMAIN pass'[j].todo /\ r = pass'[j].todo[q].resolved
                    \/ q \in DOMAIN pass'[j].applied /\ q \in DOMAIN pass'[j].applied[q] /\ r = pass'[j].applied[q][q]
            BY <1>2, <1>3, <1>7, <2>2 DEF Awaits
        <3>2. j = l
            BY <1>1, <3>1 DEF Sole
        <3>3. q # p
            BY <1>3, <1>5, <1>6, <3>1, <3>2
        <3>4. \/ q \in DOMAIN pass[l].todo /\ r = pass[l].todo[q].resolved
              \/ q \in DOMAIN pass[l].applied /\ q \in DOMAIN pass[l].applied[q] /\ r = pass[l].applied[q][q]
            BY <1>5, <1>6, <3>1, <3>2
        <3>5. Awaits(n, q, r)
            BY <3>4 DEF Awaits
        <3> QED
            BY <2>2, <3>3, <3>5
    <2> QED
        BY <2>1, <2>2
<1> SUFFICES ASSUME NEW q, q.mark = NoMark PROVE \E known, said : Chronicle(q, known, said)'
    BY <1>4 DEF Chronicled
<1>8. PICK known, said : Chronicle(q, known, said)
    BY DEF Chronicled
<1>9. CASE q \in DOMAIN rows
    <2>1. q = p
        BY <1>3, <1>9
    <2>2. PICK r : r = rows[p]
        OBVIOUS
    <2>3. Awaits(n, p, r)
        BY <1>2, <1>9, <2>1, <2>2 DEF Awaits
    <2>4. RowAt(files'[n], p) = r
        BY <1>2, <1>9, <2>1, <2>2 DEF RowAt, Over
    <2>5. r # NoRow
        BY <1>1, <1>2, <1>9, <2>1, <2>2, NotARow DEF PassOK, AllIn
    <2>6. \A k \in Node \ {n} : RowAt(files'[k], p) = RowAt(files[k], p)
        BY <1>2
    <2>7. \A z : ~Awaits(n, p, z)'
        BY <1>1, <1>7
    <2>8. \A k \in Node \ {n} : \A z : Awaits(k, p, z)' => Awaits(k, p, z)
        BY <1>7
    <2> QED
        BY <1>1, <1>2, <1>8, <2>1, <2>3, <2>4, <2>5, <2>6, <2>7, <2>8, WrittenChronicle
<1>10. CASE q \notin DOMAIN rows
    <2>1. \A k \in Node : RowAt(files'[k], q) = RowAt(files[k], q)
        BY <1>2, <1>10 DEF RowAt, Over
    <2>2. \A z : Published(q, z)' => Published(q, z)
        BY <1>2, <2>1 DEF Published
    <2>3. Chronicle(q, known, said)'
        BY <1>7, <1>8, <2>1, <2>2, CalmChronicle
    <2> QED
        BY <2>3
<1> QED
    BY <1>9, <1>10

LEMMA ChronicleInit == ASSUME Pair PROVE Init => Chronicled /\ Listed
<1> SUFFICES ASSUME Init PROVE Chronicled /\ Listed
    OBVIOUS
<1>1. /\ DOMAIN <<>> = {} /\ DOMAIN NoPass.todo = {} /\ DOMAIN NoPass.applied = {} /\ NoScan.phase = "idle"
    BY DEF NoPass, NoScan
<1>2. /\ \A n \in Node : files[n] = <<>> /\ scan[n] = NoScan
      /\ \A l \in Link : peerFiles[l] = <<>> /\ pass[l] = NoPass
    BY DEF Init
<1>3. Listed
    BY <1>1, <1>2 DEF Listed
<1> SUFFICES ASSUME NEW p PROVE \E known, said : Chronicle(p, known, said)
    BY <1>3 DEF Chronicled
<1> DEFINE known == [n \in Node |-> [i \in Nat |-> 0]]
           said == [n \in Node |-> [i \in Nat |-> <<FALSE, 0>>]]
<1>4. \A n \in Node : RowAt(files[n], p) = NoRow
    BY <1>1, <1>2 DEF RowAt
<1>5. \A l \in Link : RowAt(peerFiles[l], p) = NoRow
    BY <1>1, <1>2 DEF RowAt
<1>6. Tops(p) = [n \in Node |-> 0]
    BY <1>4 DEF Tops, TopOf
<1>7. <<FALSE, 0>> \in Sayings
    BY DEF Sayings
<1>8. Ledger(known, said, Tops(p))
    BY <1>6, <1>7, Others DEF Ledger
<1> HIDE DEF known, said
<1>9. \A r : ~Published(p, r)
    BY <1>4, <1>5 DEF Published
<1>10. \A n \in Node : \A r : ~Awaits(n, p, r)
    BY <1>1, <1>2 DEF Awaits
<1> QED
    BY <1>8, <1>9, <1>10 DEF Chronicle

LEMMA ChronicleNext ==
    ASSUME Pair, TwoWayShare, Typed, Typed', Advancing, Chronicled, Listed, [Next]_vars
    PROVE  Chronicled' /\ Listed'
<1>1. ASSUME UNCHANGED <<files, peerFiles, pass, scan>> PROVE Chronicled' /\ Listed'
    <2>1. \A p, r : Published(p, r)' => Published(p, r)
        BY <1>1 DEF Published
    <2>2. Chronicled'
        BY <1>1, <2>1, SameAwaits, QuietChronicle
    <2> QED
        BY <1>1, <2>2 DEF Listed
<1>2. ASSUME NEW n \in Editor, UserStep(n) PROVE Chronicled' /\ Listed'
    <2>1. ASSUME NEW p, NEW f, Restore(n, p, f) PROVE FALSE
        BY <2>1 DEF Restore, TwoWayShare, Typed, CountOK
    <2> QED
        BY <1>1, <1>2, <2>1 DEF UserStep, Edit, Remove
<1>3. ASSUME NEW n \in Node, ScanStep(n) PROVE Chronicled' /\ Listed'
    BY <1>3, ScanChronicle
<1>4. ASSUME NEW l \in Link, Deliver(l[1], l[2]) PROVE Chronicled' /\ Listed'
    BY <1>4, DeliverChronicle
<1>5. ASSUME NEW l \in Link, PassBegin(l[1], l[2]) PROVE Chronicled' /\ Listed'
    BY <1>5, PassBeginChronicle
<1>6. ASSUME NEW l \in Link, NEW p, Apply(l[1], l[2], p) PROVE Chronicled' /\ Listed'
    BY <1>6, ApplyChronicle
<1>7. ASSUME NEW l \in Link, NEW p, Persist(l[1], l[2], p) PROVE Chronicled' /\ Listed'
    BY <1>7, PersistChronicle
<1>8. ASSUME NEW l \in Link, Fault(l[1], l[2]) PROVE Chronicled' /\ Listed'
    BY <1>8, FaultChronicle
<1> QED
    BY <1>1, <1>2, <1>3, <1>4, <1>5, <1>6, <1>7, <1>8 DEF Next, ApplyStep, PersistStep, vars

\* What one ledger explains is identified by its version.
LEMMA ChronicleIdentifies == ASSUME Pair, Typed, Chronicled PROVE VersionIdentifiesContent
<1> SUFFICES ASSUME NEW p, p.mark = NoMark, NEW r \in RowsAt(p), NEW s \in RowsAt(p), Equal(r.ver, s.ver)
             PROVE  r.deleted = s.deleted /\ r.sha = s.sha
    BY DEF VersionIdentifiesContent, SameVersionSameContent
<1>1. PICK known, said : Chronicle(p, known, said)
    BY DEF Chronicled
<1>2. FilesOK /\ count.edits \in Nat
    BY DEF Typed, CountOK
<1>3. ASSUME NEW q \in RowsAt(p) PROVE Published(p, q) /\ q \in Rows(count.edits)
    <2>1. \/ \E n \in Node : p \in DOMAIN files[n] /\ q = files[n][p]
          \/ \E l \in Link : p \in DOMAIN peerFiles[l] /\ q = peerFiles[l][p]
        BY <1>3 DEF RowsAt
    <2>2. q \in Rows(count.edits)
        BY <1>2, <2>1 DEF FilesOK, AllIn
    <2> QED
        BY <1>2, <2>1, <2>2, NotARow DEF Published, RowAt
<1>4. /\ r.ver \in VersionVector /\ s.ver \in VersionVector
      /\ Explained(known, said, r.ver, Says(r)) /\ Explained(known, said, s.ver, Says(s))
      /\ Ledger(known, said, Tops(p))
    BY <1>1, <1>2, <1>3, SaysFacts DEF Chronicle, Recorded
<1>5. Says(r) = Says(s)
    BY <1>4, SameSaid
<1> QED
    BY <1>5 DEF Says

\* VersionIdentifiesContent, between two nodes that both may change the share:
\* in both indexes and both mirrors, rows of a file that compare Equal agree on
\* whether it is there and on its content, whatever users, scans, passes, lost
\* connections and crashes do.  reconcileOne may skip such rows; a counter is
\* never used twice for two contents, and a merge without a bump never names a
\* content that a bump of either side recorded under the same counters.
THEOREM VersionsIdentifyAlways ==
    ASSUME TwoWayShare, Pair PROVE Spec => []VersionIdentifiesContent
<1> DEFINE Inv == Typed /\ Advancing /\ Chronicled /\ Listed
<1>1. Init => Inv
    BY TypedInit, AdvancingInit, ChronicleInit
<1>2. Inv /\ [Next]_vars => Inv'
    BY TypedNext, AdvancingNext, ChronicleNext
<1>3. Inv => VersionIdentifiesContent
    BY ChronicleIdentifies
<1> QED
    BY <1>1, <1>2, <1>3, PTL DEF Spec
=============================================================================
