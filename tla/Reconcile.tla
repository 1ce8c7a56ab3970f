------------------------------ MODULE Reconcile ------------------------------
(***************************************************************************)
(* The pure decision layer of internal/sync/reconcile.go: what a node does *)
(* about one path, given its own index row, the row a peer advertises, and *)
(* the direction the share allows changes to flow.                         *)
(*                                                                         *)
(* A path is a base name with at most one conflict marker, because         *)
(* ConflictRelPath strips the old marker before it adds a new one.  A      *)
(* digest is a natural number (0 is the empty digest of a directory), an   *)
(* mtime a natural number of which MTimesPerSecond share a second, and     *)
(* ShasPerPrefix digests share the short prefix that names a copy, so two  *)
(* different losers can collide on one name as they can in the code.       *)
(***************************************************************************)
EXTENDS VersionVectors

CONSTANTS InvalidPath,      \* paths ValidateRelPath rejects
          MTimesPerSecond,  \* mtimes that format to the same timestamp
          ShasPerPrefix,    \* digests that share conflictIDLen leading bytes
          NoRow             \* "not in this index"

ASSUME ReconcileAssumption ==
    /\ MTimesPerSecond \in Nat \ {0}
    /\ ShasPerPrefix \in Nat \ {0}

\* protocol.FileInfo, as far as a decision can depend on it.
FileInfo == [type : {"file", "dir", "symlink"}, deleted : BOOLEAN,
             ver : VersionVector, sha : Nat, mtime : Nat]

WithVersion(row, v) == [row EXCEPT !.ver = v]

DirectionFor(permission, mode) ==
    [inBlocked |-> permission = "read-only", outBlocked |-> mode = "receive-only"]

-----------------------------------------------------------------------------
(* Conflict-copy names. *)

NoMark == <<>>

PathOf(base) == [base |-> base, mark |-> NoMark]

\* Strip any marker the name carries, then append the new one.
ConflictRelPath(p, id, time) ==
    [base |-> p.base, mark |-> <<time \div MTimesPerSecond, id>>]

\* Named after the losing version; after the resolving node and its clock
\* only when the loser has no digest or the name would be p itself.
loserConflictRelPath(p, loser, n, now) ==
    LET byLoser == ConflictRelPath(p, loser.sha \div ShasPerPrefix, loser.mtime)
    IN  IF loser.sha > 0 /\ byLoser # p THEN byLoser ELSE ConflictRelPath(p, n, now)

-----------------------------------------------------------------------------
(* Actions. *)

ActionNone == [kind |-> "None"]

ActionPull(r, source, wireVer) ==
    [kind |-> "Pull", resolved |-> r, source |-> source, wire |-> wireVer]

ActionDelete(r) == [kind |-> "Delete", resolved |-> r]

ActionResurrect(r, source, wireVer) ==
    [kind |-> "Resurrect", resolved |-> r, source |-> source, wire |-> wireVer]

ActionConflictCopy(winner, source, wireVer, cpath, loser) ==
    [kind |-> "ConflictCopy", resolved |-> winner, source |-> source,
     wire |-> wireVer, cpath |-> cpath, cinfo |-> loser]

\* Flagged only: the offerer has nothing to revert to.
FlagLocallyModified == [kind |-> "LocallyModified", source |-> "None"]

\* Mutant of RevertLocallyModified: a receive-only change is flagged, never
\* reverted.
NeverRevert(r) == FlagLocallyModified

\* Reverted to what the offerer holds.
RevertLocallyModified(r) ==
    [kind |-> "LocallyModified", source |-> "Remote", resolved |-> r, wire |-> r.ver]

\* Mutant of conflictWinnerIsRemote: no tie-break on equal mtimes.
NewerWinsOnly(l, r) == r.mtime > l.mtime

conflictWinnerIsRemote(l, r) ==
    IF r.mtime # l.mtime THEN r.mtime > l.mtime ELSE r.sha > l.sha

\* Merge without a bump: both sides land on one equal vector.
reconcileIdenticalContent(l, r) ==
    ActionPull(WithVersion(l, Merge(l.ver, r.ver)), "None", r.ver)

\* Mutant of ResolveContent: a winner keeps the version it came with.
WinnerKeepsVersion(p, l, r, n, now, merged) ==
    IF conflictWinnerIsRemote(l, r)
    THEN ActionConflictCopy(r, "Remote", r.ver, loserConflictRelPath(p, l, n, now), l)
    ELSE ActionConflictCopy(l, "Local", l.ver, loserConflictRelPath(p, r, n, now), r)

ResolveContent(p, l, r, n, now, merged) ==
    IF conflictWinnerIsRemote(l, r)
    THEN ActionConflictCopy(WithVersion(r, merged), "Remote", r.ver,
                            loserConflictRelPath(p, l, n, now), l)
    ELSE ActionConflictCopy(WithVersion(l, merged), "Local", l.ver,
                            loserConflictRelPath(p, r, n, now), r)

\* Delete against modify: the live side wins.
ResolveDelete(l, r, merged) ==
    IF l.deleted THEN ActionResurrect(WithVersion(r, merged), "Remote", r.ver)
                 ELSE ActionResurrect(WithVersion(l, merged), "Local", l.ver)

reconcileConcurrent(p, l, r, n, dir, now) ==
    LET merged == Bump(Merge(l.ver, r.ver), n)
    IN  IF dir.outBlocked /\ ~l.deleted THEN RevertLocallyModified(r)
        ELSE IF l.deleted # r.deleted THEN ResolveDelete(l, r, merged)
        ELSE IF l.deleted THEN ActionDelete(WithVersion(r, merged))
        ELSE IF l.sha = r.sha THEN reconcileIdenticalContent(l, r)
        ELSE ResolveContent(p, l, r, n, now, merged)

\* Take what the peer has: a tombstone or live content.
Adopt(r) == IF r.deleted THEN ActionDelete(r) ELSE ActionPull(r, "Remote", r.ver)

\* Nothing to take: the peer will pull from us, unless we may never propose.
KeepLocal(dir) == IF dir.outBlocked THEN FlagLocallyModified ELSE ActionNone

Malformed(p, r) == r # NoRow /\ (p \in InvalidPath \/ r.type = "symlink")

reconcileOne(p, l, r, n, dir, now) ==
    IF Malformed(p, r) \/ dir.inBlocked THEN ActionNone
    ELSE IF r = NoRow THEN KeepLocal(dir)
    ELSE IF l = NoRow THEN Adopt(r)
    ELSE IF Equal(l.ver, r.ver) THEN ActionNone
    ELSE IF Dominates(r.ver, l.ver) THEN Adopt(r)
    ELSE IF Dominates(l.ver, r.ver) THEN KeepLocal(dir)
    ELSE reconcileConcurrent(p, l, r, n, dir, now)

\* An index is a function from the paths it has rows for.
RowAt(index, p) == IF p \in DOMAIN index THEN index[p] ELSE NoRow

\* One action per path either side knows.  An ignored path is decided before
\* the version algebra, but never masks a malformed one.
ReconcileShare(local, remote, n, dir, now, ignored) ==
    [p \in DOMAIN local \cup DOMAIN remote |->
        IF ~Malformed(p, RowAt(remote, p)) /\ p \in ignored THEN ActionNone
        ELSE reconcileOne(p, RowAt(local, p), RowAt(remote, p), n, dir, now)]
=============================================================================
