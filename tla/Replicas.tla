------------------------------ MODULE Replicas ------------------------------
(***************************************************************************)
(* One share on a hub (the offerer) and its spokes (the subscribers): the  *)
(* folder on disk, the files index, the mirror of each peer's index and    *)
(* the trash of every node, driven by users, scans, reconcile passes and   *)
(* restores from the trash.                                                *)
(*                                                                         *)
(* A scan lists the index, walks the folder and applies its result in      *)
(* three steps.  A pass reads the index and the mirror, then applies its   *)
(* actions one by one, each in two steps: the disk first, the index row    *)
(* after.  Every node runs its scan and one pass per session concurrently. *)
(*                                                                         *)
(* Deliver(n, m) stands for the index exchange of module IndexExchange:    *)
(* whenever m's index has moved past n's mirror of it, the rows reach n    *)
(* and a pass is owed.  A pass is also owed when a session comes up.       *)
(***************************************************************************)
EXTENDS Reconcile, FiniteSets

CONSTANTS Hub, Spoke,      \* the offerer, and the set of subscribers
          Permission,      \* the share's permission on the hub
          Mode,            \* each spoke's subscription mode
          Editor,          \* the nodes whose users change files
          Base,            \* names of the files users create
          MTimes,          \* mtimes an edit may stamp on a file
          ScansOverlap,    \* may a scan overlap a pass or a restore of its node?
          MaxCounter,      \* version counters a pass may reach
          MaxEdits,        \* user edits in a behaviour
          MaxRemoves,      \* user deletes in a behaviour
          MaxFaults,       \* connections lost and nodes killed
          MaxRestores      \* restores from the trash

ASSUME ReplicasAssumption ==
    /\ Node = {Hub} \cup Spoke /\ Hub \notin Spoke
    /\ Editor \subseteq Node
    /\ Mode \in [Spoke -> {"mirror", "receive-only"}]
    /\ Permission \in {"read-write", "read-only"}
    /\ MTimes \subseteq Nat /\ MaxCounter \in Nat /\ MaxEdits \in Nat /\ MaxRemoves \in Nat
    /\ MaxFaults \in Nat /\ MaxRestores \in Nat
    /\ ScansOverlap \in BOOLEAN
    /\ NoRow \notin [sha : Nat, mtime : Nat] /\ NoRow \notin FileInfo

VARIABLES disk,        \* disk[n]: path -> [sha, mtime] of the file there
          files,       \* files[n]: path -> index row
          peerFiles,   \* peerFiles[<<n, m>>]: path -> row m last told n
          owed,        \* links <<n, m>> on which n owes itself a pass
          pass,        \* pass[<<n, m>>]: the pass n is running against m
          scan,        \* scan[n]: the scan n is running
          trash,       \* trash[n]: <<path, file>> pairs the trash holds
          count,       \* how often each bounded event has happened
          superseded   \* digests a user replaced or deleted having them there

vars == <<disk, files, peerFiles, owed, pass, scan, trash, count, superseded>>

Link == {<<Hub, s>> : s \in Spoke} \cup {<<s, Hub>> : s \in Spoke}

\* A read-only share blocks a spoke's outbound changes whatever its mode.
subscriberDirection(permission, mode) ==
    [DirectionFor("", mode) EXCEPT !.outBlocked = @ \/ permission = "read-only"]

Direction(n) == IF n = Hub THEN DirectionFor(Permission, "")
                ELSE subscriberDirection(Permission, Mode[n])

NoPass == [todo |-> <<>>, applied |-> <<>>, running |-> FALSE]
NoScan == [phase |-> "idle", rows |-> <<>>]

Init ==
    /\ disk = [n \in Node |-> <<>>]
    /\ files = [n \in Node |-> <<>>]
    /\ peerFiles = [l \in Link |-> <<>>]
    /\ owed = {}
    /\ pass = [l \in Link |-> NoPass]
    /\ scan = [n \in Node |-> NoScan]
    /\ trash = [n \in Node |-> {}]
    /\ count = [edits |-> 0, removes |-> 0, faults |-> 0, restores |-> 0]
    /\ superseded = {}

\* Functions from paths: with x at p, without p, f over g, and x at p alone.
Put(f, p, x) == [q \in DOMAIN f \cup {p} |-> IF q = p THEN x ELSE f[q]]
Without(f, p) == [q \in DOMAIN f \ {p} |-> f[q]]
Over(f, g) == [q \in DOMAIN f \cup DOMAIN g |-> IF q \in DOMAIN f THEN f[q] ELSE g[q]]
Only(p, x) == [q \in {p} |-> x]

Content(row) == [sha |-> row.sha, mtime |-> row.mtime]
FoundAt(d, p) == IF p \in DOMAIN d THEN d[p] ELSE NoRow

\* What moving the file at p, if any, into the trash adds to it.
Trashed(n, p) == IF p \in DOMAIN disk[n] THEN {<<p, disk[n][p]>>} ELSE {}
Replaced(n, p) == IF p \in DOMAIN disk[n] THEN {disk[n][p].sha} ELSE {}

-----------------------------------------------------------------------------
(* The user. *)

\* A file is created, or one that is there (a conflict copy too) rewritten.
Edit(n, p, t) ==
    /\ count.edits < MaxEdits
    /\ count' = [count EXCEPT !.edits = @ + 1]
    /\ superseded' = superseded \cup Replaced(n, p)
    /\ disk' = [disk EXCEPT ![n] = Put(@, p, [sha |-> count.edits + 1, mtime |-> t])]
    /\ UNCHANGED <<files, peerFiles, owed, pass, scan, trash>>

Remove(n, p) ==
    /\ count.removes < MaxRemoves
    /\ p \in DOMAIN disk[n]
    /\ count' = [count EXCEPT !.removes = @ + 1]
    /\ superseded' = superseded \cup Replaced(n, p)
    /\ disk' = [disk EXCEPT ![n] = Without(@, p)]
    /\ UNCHANGED <<files, peerFiles, owed, pass, scan, trash>>

-----------------------------------------------------------------------------
(* The scanner, and the gate that runs one scan of a share at a time. *)

carriedVersion(old) == IF old = NoRow THEN EmptyVector ELSE old.ver

FileRow(f, v) ==
    [type |-> "file", deleted |-> FALSE, ver |-> v, sha |-> f.sha, mtime |-> f.mtime]

\* Mutant of ScanRow: a change recorded without a bump.
ScanRowForgetsBump(n, old, f) ==
    IF f = NoRow
    THEN IF old = NoRow \/ old.deleted THEN old
         ELSE [old EXCEPT !.deleted = TRUE, !.ver = Bump(@, n)]
    ELSE FileRow(f, IF old = NoRow THEN Bump(EmptyVector, n) ELSE old.ver)

\* What a scan that finds f at a path (NoRow if nothing is there) makes of
\* the existing row: added, changed and deleted files are bumped by n, a
\* metadata-only change is recorded under the version the row has.
ScanRow(n, old, f) ==
    IF f = NoRow
    THEN IF old = NoRow \/ old.deleted THEN old
         ELSE [old EXCEPT !.deleted = TRUE, !.ver = Bump(@, n)]
    ELSE IF old = NoRow \/ old.deleted \/ old.sha # f.sha
         THEN FileRow(f, Bump(carriedVersion(old), n))
         ELSE FileRow(f, old.ver)

Idle(n) == \A l \in Link : l[1] = n => ~pass[l].running

ScanList(n) ==
    /\ scan[n].phase = "idle"
    /\ ScansOverlap \/ Idle(n)
    /\ scan' = [scan EXCEPT ![n] = [phase |-> "listed", rows |-> files[n]]]
    /\ UNCHANGED <<disk, files, peerFiles, owed, pass, trash, count, superseded>>

\* The walk and the tail loop that tombstones what it did not see; only rows
\* that differ from the listing are in the result.
ScanWalk(n) ==
    LET old == scan[n].rows
        new == [p \in DOMAIN old \cup DOMAIN disk[n] |->
                   ScanRow(n, RowAt(old, p), FoundAt(disk[n], p))]
        changed == {p \in DOMAIN new : p \notin DOMAIN old \/ new[p] # old[p]}
    IN  /\ scan[n].phase = "listed"
        /\ scan' = [scan EXCEPT ![n] = IF changed = {} THEN NoScan
                       ELSE [phase |-> "walked", rows |-> [p \in changed |-> new[p]]]]
        /\ UNCHANGED <<disk, files, peerFiles, owed, pass, trash, count, superseded>>

ApplyScanResult(n) ==
    /\ scan[n].phase = "walked"
    /\ files' = [files EXCEPT ![n] = Over(scan[n].rows, @)]
    /\ scan' = [scan EXCEPT ![n] = NoScan]
    /\ UNCHANGED <<disk, peerFiles, owed, pass, trash, count, superseded>>

-----------------------------------------------------------------------------
(* The index exchange, and reconcile passes. *)

Deliver(n, m) ==
    /\ ~Direction(m).outBlocked /\ ~Direction(n).inBlocked
    /\ peerFiles[<<n, m>>] # files[m]
    /\ peerFiles' = [peerFiles EXCEPT ![<<n, m>>] = files[m]]
    /\ owed' = owed \cup {<<n, m>>}
    /\ UNCHANGED <<disk, files, pass, scan, trash, count, superseded>>

Works(a) == a # ActionNone /\ a # FlagLocallyModified

PassBegin(n, m) ==
    LET plan == ReconcileShare(files[n], peerFiles[<<n, m>>], n, Direction(n), 0, {})
        todo == {p \in DOMAIN plan : Works(plan[p])}
    IN  /\ <<n, m>> \in owed
        /\ ~pass[<<n, m>>].running
        /\ ScansOverlap \/ scan[n].phase = "idle"
        /\ \A p \in todo : \A k \in Node : At(plan[p].resolved.ver, k) <= MaxCounter
        /\ owed' = owed \ {<<n, m>>}
        /\ pass' = [pass EXCEPT ![<<n, m>>] =
                      IF todo = {} THEN NoPass
                      ELSE [todo |-> [p \in todo |-> plan[p]], applied |-> <<>>,
                            running |-> TRUE]]
        /\ UNCHANGED <<disk, files, peerFiles, scan, trash, count, superseded>>

\* A FileRequest for version v of p succeeds only if m's row still has that
\* version and m's file still hashes to the digest the row advertised.
Served(m, p, v, sha) ==
    /\ ~Direction(m).outBlocked
    /\ p \in DOMAIN files[m] /\ ~files[m][p].deleted
    /\ Equal(files[m][p].ver, v)
    /\ p \in DOMAIN disk[m] /\ disk[m][p].sha = files[m][p].sha
    /\ disk[m][p].sha = sha

\* An action's effect on n: its folder after it, the rows it returns to be
\* persisted, and what went to the trash on the way.
Effect(d, rows, discarded) == [disk |-> d, rows |-> rows, trashed |-> discarded]

\* Mutant of PullAndInstall: what is in the way is overwritten, not trashed.
InstallWithoutTrash(n, m, p, a) ==
    IF Served(m, p, a.wire, a.resolved.sha)
    THEN Effect(Put(disk[n], p, Content(a.resolved)), Only(p, a.resolved), {})
    ELSE Effect(disk[n], <<>>, {})

\* pullAndInstall: pull, check, trash what is in the way, rename into place.
PullAndInstall(n, m, p, a) ==
    IF Served(m, p, a.wire, a.resolved.sha)
    THEN Effect(Put(disk[n], p, Content(a.resolved)), Only(p, a.resolved), Trashed(n, p))
    ELSE Effect(disk[n], <<>>, {})

applyDelete(n, p, a) == Effect(Without(disk[n], p), Only(p, a.resolved), Trashed(n, p))

\* The local file won and stays; the loser is pulled to the conflict path.
CopyRemoteLoser(n, m, p, a) ==
    IF Served(m, p, a.cinfo.ver, a.cinfo.sha)
    THEN Effect(Put(disk[n], a.cpath, Content(a.cinfo)),
                Put(Only(a.cpath, a.cinfo), p, a.resolved), Trashed(n, a.cpath))
    ELSE Effect(disk[n], Only(p, a.resolved), {})

\* Mutant of CopyLocalLoser: the copy's row is built from the winner's info.
CopyLocalLoserMixedUp(n, m, p, a) ==
    LET gone  == Trashed(n, a.cpath)
        moved == Put(Without(disk[n], p), a.cpath, disk[n][p])
        loser == Only(a.cpath, WithVersion(a.resolved, a.cinfo.ver))
    IN  IF p \notin DOMAIN disk[n] THEN Effect(Without(disk[n], a.cpath), <<>>, gone)
        ELSE IF Served(m, p, a.wire, a.resolved.sha)
        THEN Effect(Put(moved, p, Content(a.resolved)), Put(loser, p, a.resolved), gone)
        ELSE Effect(moved, loser, gone)

\* The remote file won: what the conflict path holds is trashed, the local
\* file is renamed there, then the winner is pulled.  The rename stands even
\* if the pull fails; if there is no local file left the rename fails.
CopyLocalLoser(n, m, p, a) ==
    LET gone  == Trashed(n, a.cpath)
        moved == Put(Without(disk[n], p), a.cpath, disk[n][p])
        loser == Only(a.cpath, a.cinfo)
    IN  IF p \notin DOMAIN disk[n] THEN Effect(Without(disk[n], a.cpath), <<>>, gone)
        ELSE IF Served(m, p, a.wire, a.resolved.sha)
        THEN Effect(Put(moved, p, Content(a.resolved)), Put(loser, p, a.resolved), gone)
        ELSE Effect(moved, loser, gone)

applyAction(n, m, p, a) ==
    CASE a.kind = "Delete" -> applyDelete(n, p, a)
      [] a.kind = "ConflictCopy" -> IF a.source = "Local" THEN CopyRemoteLoser(n, m, p, a)
                                                          ELSE CopyLocalLoser(n, m, p, a)
      [] a.kind \in {"Pull", "Resurrect", "LocallyModified"} ->
           IF a.source = "Remote" THEN PullAndInstall(n, m, p, a)
                                  ELSE Effect(disk[n], Only(p, a.resolved), {})

\* The disk half of applyAndPersist, on any of the pass's workers.
Apply(n, m, p) ==
    LET l == <<n, m>>
        e == applyAction(n, m, p, pass[l].todo[p])
    IN  /\ p \in DOMAIN pass[l].todo
        /\ disk' = [disk EXCEPT ![n] = e.disk]
        /\ trash' = [trash EXCEPT ![n] = @ \cup e.trashed]
        /\ pass' = [pass EXCEPT ![l].todo = Without(@, p),
                                ![l].applied = Put(@, p, e.rows)]
        /\ UNCHANGED <<files, peerFiles, owed, scan, count, superseded>>

\* Mutant of Persist: the pass is never released.
PersistNeverReleases(n, m, p) ==
    LET l == <<n, m>>
    IN  /\ p \in DOMAIN pass[l].applied
        /\ files' = [files EXCEPT ![n] = Over(pass[l].applied[p], @)]
        /\ pass' = [pass EXCEPT ![l].applied = Without(@, p)]
        /\ UNCHANGED <<disk, peerFiles, owed, scan, trash, count, superseded>>

\* The index half: PutFile for every row the action returned.
Persist(n, m, p) ==
    LET l == <<n, m>>
        rest == Without(pass[l].applied, p)
    IN  /\ p \in DOMAIN pass[l].applied
        /\ files' = [files EXCEPT ![n] = Over(pass[l].applied[p], @)]
        /\ pass' = [pass EXCEPT ![l] =
                      IF DOMAIN pass[l].todo = {} /\ DOMAIN rest = {} THEN NoPass
                      ELSE [@ EXCEPT !.applied = rest]]
        /\ UNCHANGED <<disk, peerFiles, owed, scan, trash, count, superseded>>

-----------------------------------------------------------------------------
(* Restores, lost connections and crashes. *)

\* Exclusive with every action in flight (the apply lock), and atomic for
\* everything that takes that lock.  What is in the way goes to the trash.
Restore(n, p, f) ==
    /\ count.restores < MaxRestores
    /\ <<p, f>> \in trash[n]
    /\ \A l \in Link : l[1] = n => DOMAIN pass[l].applied = {}
    /\ ScansOverlap \/ scan[n].phase = "idle"
    /\ count' = [count EXCEPT !.restores = @ + 1]
    /\ disk' = [disk EXCEPT ![n] = Put(@, p, f)]
    /\ files' = [files EXCEPT ![n] =
                   Put(@, p, FileRow(f, Bump(carriedVersion(RowAt(@, p)), n)))]
    /\ trash' = [trash EXCEPT ![n] = (@ \ {<<p, f>>}) \cup Trashed(n, p)]
    /\ superseded' = (superseded \cup Replaced(n, p)) \ {f.sha}
    /\ UNCHANGED <<peerFiles, owed, pass, scan>>

\* The session on a link is gone at both ends: unfinished actions stop and a
\* row not yet written stays unwritten, because PutFile takes the session's
\* context.  startSyncing runs a pass at both ends once it is back.
LoseSessions(links) ==
    LET both == links \cup {<<l[2], l[1]>> : l \in links}
    IN  /\ pass' = [l \in Link |-> IF l \in both THEN NoPass ELSE pass[l]]
        /\ owed' = owed \cup both

Drop(n, m) ==
    /\ count.faults < MaxFaults
    /\ count' = [count EXCEPT !.faults = @ + 1]
    /\ LoseSessions({<<n, m>>})
    /\ UNCHANGED <<disk, files, peerFiles, scan, trash, superseded>>

\* The folder when an action stops just before its last rename: what is in
\* the way is in the trash, and nothing has taken its place.
BeforeRename(n, m, p, a) ==
    LET e == applyAction(n, m, p, a)
    IN  IF a.kind = "ConflictCopy" /\ a.source = "Remote" /\ p \in DOMAIN e.rows
        THEN Without(e.disk, p)
        ELSE [q \in DOMAIN disk[n] \ {t[1] : t \in e.trashed} |-> disk[n][q]]

\* The node is killed in the middle of an action and restarted.
Crash(n, m, p) ==
    LET a == pass[<<n, m>>].todo[p]
    IN  /\ count.faults < MaxFaults
        /\ p \in DOMAIN pass[<<n, m>>].todo
        /\ count' = [count EXCEPT !.faults = @ + 1]
        /\ disk' = [disk EXCEPT ![n] = BeforeRename(n, m, p, a)]
        /\ trash' = [trash EXCEPT ![n] = @ \cup applyAction(n, m, p, a).trashed]
        /\ scan' = [scan EXCEPT ![n] = NoScan]
        /\ LoseSessions({l \in Link : l[1] = n})
        /\ UNCHANGED <<files, peerFiles, superseded>>

-----------------------------------------------------------------------------

Path == {PathOf(b) : b \in Base}
            \cup UNION {DOMAIN disk[n] \cup DOMAIN files[n] : n \in Node}

UserStep(n) ==
    \/ \E p \in {PathOf(b) : b \in Base} \cup DOMAIN disk[n], t \in MTimes : Edit(n, p, t)
    \/ \E p \in DOMAIN disk[n] : Remove(n, p)
    \/ \E e \in trash[n] : Restore(n, e[1], e[2])

ScanStep(n) == ScanList(n) \/ ScanWalk(n) \/ ApplyScanResult(n)

Fault(n, m) ==
    \/ Drop(n, m)
    \/ \E p \in DOMAIN pass[<<n, m>>].todo : Crash(n, m, p)

ApplyStep(n, m) == \E p \in DOMAIN pass[<<n, m>>].todo : Apply(n, m, p)
PersistStep(n, m) == \E p \in DOMAIN pass[<<n, m>>].applied : Persist(n, m, p)

Next ==
    \/ (\E n \in Editor : UserStep(n)) \/ (\E n \in Node : ScanStep(n))
    \/ \E l \in Link : \/ Deliver(l[1], l[2])
                       \/ PassBegin(l[1], l[2])
                       \/ ApplyStep(l[1], l[2])
                       \/ PersistStep(l[1], l[2])
                       \/ Fault(l[1], l[2])

\* Periodic scans and the session workers keep running.  A pass and a scan
\* that exclude one another each get their turn, as scans are far apart.
Fairness ==
    /\ \A n \in Node : SF_vars(ScanStep(n))
    /\ \A l \in Link : /\ WF_vars(Deliver(l[1], l[2]))
                       /\ SF_vars(PassBegin(l[1], l[2]))
                       /\ WF_vars(ApplyStep(l[1], l[2]))
                       /\ WF_vars(PersistStep(l[1], l[2]))

Spec == Init /\ [][Next]_vars

FairSpec == Spec /\ Fairness

-----------------------------------------------------------------------------
(* Properties. *)

\* Indexes, mirrors and pending work are what the store and a session hold:
\* rows only ever describe files a user wrote, and a pass in progress has
\* something left to do.
TypeOK ==
    /\ \A n \in Node : /\ \A p \in DOMAIN disk[n] : disk[n][p].sha \in 1..count.edits
                       /\ \A p \in DOMAIN files[n] : files[n][p].sha \in 1..count.edits
                       /\ scan[n].phase \in {"idle", "listed", "walked"}
    /\ owed \subseteq Link
    /\ \A l \in Link : pass[l].running =>
          DOMAIN pass[l].todo \cup DOMAIN pass[l].applied # {}
    /\ superseded \subseteq 1..count.edits

\* Every row of path p in any index or any mirror of one.
RowsAt(p) == {files[n][p] : n \in {k \in Node : p \in DOMAIN files[k]}}
               \cup {peerFiles[l][p] : l \in {k \in Link : p \in DOMAIN peerFiles[k]}}

\* Two rows of one path with equal versions say the same of it.
SameVersionSameContent(p) ==
    \A r, s \in RowsAt(p) : Equal(r.ver, s.ver) => r.deleted = s.deleted /\ r.sha = s.sha

\* In every index and every mirror a version identifies what a path holds.
\* reconcileOne does nothing about rows whose versions compare Equal, so a
\* violation is a divergence nothing repairs.
VersionIdentifiesContent == \A p \in Path : p.mark = NoMark => SameVersionSameContent(p)

\* The same for conflict copies, which SPEC.md calls normal new files.
CopyVersionIdentifiesContent == \A p \in Path : p.mark # NoMark => SameVersionSameContent(p)

OnDisk == UNION {{disk[n][p].sha : p \in DOMAIN disk[n]} : n \in Node}
InTrash == UNION {{e[2].sha : e \in trash[n]} : n \in Node}

\* Nothing a pass, a conflict or a crash does destroys a file: what no user
\* replaced or deleted is in a folder or in a trash.
NothingDestroyed == 1..count.edits \subseteq OnDisk \cup InTrash \cup superseded

\* A row a pass writes for a path it decided on never undoes what this node
\* already recorded there: its version covers the one it replaces.  Conflict
\* copies are left out: two workers of one pass may write one copy's row.
PassesNeverRegress ==
    [][\A l \in Link : \A p \in DOMAIN pass[l].applied :
          (/\ Persist(l[1], l[2], p) /\ p.mark = NoMark
           /\ p \in DOMAIN pass[l].applied[p] \cap DOMAIN files[l[1]])
            => Covers(pass[l].applied[p][p].ver, files[l[1]][p].ver)]_vars

\* All nodes end up with the same files, each indexed as it is.
Agreed ==
    \A n, m \in Node :
        /\ disk[n] = disk[m]
        /\ \A p \in DOMAIN disk[n] :
              p \in DOMAIN files[n] /\ files[n][p].sha = disk[n][p].sha
Converges == <>[]Agreed

\* A receive-only subscriber ends up having seen all the offerer has: its row
\* of every path is the offerer's or a flagged local change made on top of it.
ReceiveOnlyFollows ==
    <>[](\A s \in Spoke : \A p \in DOMAIN files[Hub] :
            p \in DOMAIN files[s] /\ Covers(files[s][p].ver, files[Hub][p].ver))
=============================================================================
