--------------------------- MODULE VersionVectors ---------------------------
(***************************************************************************)
(* The version-vector algebra of internal/sync/reconcile.go: Equal,        *)
(* Dominates, Concurrent, Merge and Bump over protocol.VersionVector, a Go *)
(* map from a node's short id to its counter.                              *)
(*                                                                         *)
(* A vector is a function whose domain is ANY subset of Node, as a Go map  *)
(* is: a missing key and an explicit zero are different maps that every    *)
(* operator here must treat alike.  Counters are natural numbers; the      *)
(* code's uint64 cannot be driven to 2^64 one local change at a time.      *)
(***************************************************************************)
EXTENDS Naturals

CONSTANT Node  \* short ids of the nodes that may bump a counter

\* protocol.VersionVector: every map from some of the nodes to counters.
VersionVector == UNION {[S -> Nat] : S \in SUBSET Node}

\* The nil or empty map.
EmptyVector == [k \in {} |-> 0]

\* v[k]: Go's map indexing, which yields zero for a key that is missing.
At(v, k) == IF k \in DOMAIN v THEN v[k] ELSE 0

Equal(a, b) ==
    /\ \A k \in DOMAIN a : At(b, k) = a[k]
    /\ \A k \in DOMAIN b : At(a, k) = b[k]

\* "strict" can only be set by a key of a; a key of b alone can only refute.
Dominates(a, b) ==
    /\ \A k \in DOMAIN a : a[k] >= At(b, k)
    /\ \A k \in DOMAIN b \ DOMAIN a : ~(At(a, k) < b[k])
    /\ \E k \in DOMAIN a : a[k] > At(b, k)

Concurrent(a, b) == ~Equal(a, b) /\ ~Dominates(a, b) /\ ~Dominates(b, a)

\* All of a, then every key of b whose counter is larger than what is there.
Merge(a, b) ==
    [k \in DOMAIN a \cup {j \in DOMAIN b : b[j] > At(a, j)} |->
        IF At(b, k) > At(a, k) THEN At(b, k) ELSE At(a, k)]

Bump(v, n) ==
    [k \in DOMAIN v \cup {n} |-> IF k = n THEN At(v, n) + 1 ELSE v[k]]

\* Dominates or Equal: what a vector must be to have seen everything in b.
Covers(a, b) == Dominates(a, b) \/ Equal(a, b)
=============================================================================
