------------------------------ MODULE HoldGuard ------------------------------
(***************************************************************************)
(* The hold: the guard that stops a change that looks like a disaster from *)
(* being recorded or spread.  One share of one node, with the scans of its *)
(* folder and the reconcile passes of its peers, which run concurrently    *)
(* and ask the guard before they apply anything.                           *)
(*                                                                         *)
(* A link is a peer whose changes may be held, or Own for this node's own  *)
(* scans.  A file is just present or absent: deletes are what is counted.  *)
(***************************************************************************)
EXTENDS Naturals, FiniteSets

CONSTANTS File,               \* the files the share may have
          Peer,               \* the peers that sync it
          Own,                \* the link of this node's own scans
          HoldDeletePercent,  \* the share's thresholds
          HoldDeleteMin,
          MayBeTaken,         \* may a foreign .syncat/ appear in the folder?
          MaxFolderChanges,   \* changes to the folder and its root
          MaxPeerChanges,     \* changes to what the peers have deleted
          MaxConfirms,        \* confirmations by the user
          MaxAccessChanges,   \* peers shut out and let in again
          MaxFaults           \* failed store writes and restarts

ASSUME HoldGuardAssumption ==
    /\ IsFiniteSet(File)
    /\ Own \notin Peer
    /\ HoldDeletePercent \in 1..100 /\ HoldDeleteMin \in Nat \ {0}
    /\ MayBeTaken \in BOOLEAN
    /\ MaxFolderChanges \in Nat /\ MaxPeerChanges \in Nat
    /\ MaxConfirms \in Nat /\ MaxAccessChanges \in Nat /\ MaxFaults \in Nat

VARIABLES root,      \* "ok", "missing", or "taken" by a foreign .syncat/
          folder,    \* the files in the folder
          indexed,   \* the files with a live row in the index
          pending,   \* pending[p]: the files peer p's rows say are deleted
          held,      \* held[l]: the hold on l in memory, or NoHold
          stored,    \* stored[l]: the same in the index store
          scan,      \* the scan in progress
          pass,      \* pass[p]: the pass in progress with p
          owed,      \* peers with a pass to run
          access,    \* access[p]: "granted", "revoking" until its session
                     \* hears of it, or "revoked"
          disaster,  \* links held over deletes that nothing has undone yet
          breached,  \* links on which such a disaster went through unconfirmed
          count,     \* how often each bounded event has happened
          faults     \* failed store writes and restarts so far

vars == <<root, folder, indexed, pending, held, stored, scan, pass, owed, access,
          disaster, breached, count, faults>>
guardVars == <<held, stored, disaster, breached, faults>>

Link == Peer \cup {Own}

RootUnavailable == "root-unavailable"
EverythingVanished == "everything-vanished"
BulkDelete == "bulk-delete"
ReservedDirTaken == "reserved-dir-taken"
Reason == {RootUnavailable, EverythingVanished, BulkDelete, ReservedDirTaken}

Hold(reason, deletes, live, confirmed) ==
    [reason |-> reason, deletes |-> deletes, live |-> live, confirmed |-> confirmed]
NoHold == Hold("", 0, 0, FALSE)
Held(l) == held[l].reason # ""

Confirmable(h) == h.reason \notin {RootUnavailable, ReservedDirTaken}

IdleScan == [pc |-> "idle", existing |-> {}, found |-> {}, released |-> FALSE]
IdlePass == [pc |-> "idle", deleting |-> {}, live |-> 0]

Init ==
    /\ root = "ok" /\ folder = File /\ indexed = File
    /\ pending = [p \in Peer |-> {}]
    /\ held = [l \in Link |-> NoHold] /\ stored = [l \in Link |-> NoHold]
    /\ scan = IdleScan /\ pass = [p \in Peer |-> IdlePass] /\ owed = {}
    /\ access = [p \in Peer |-> "granted"]
    /\ disaster = {} /\ breached = {}
    /\ count = [folder |-> 0, peer |-> 0, confirm |-> 0, access |-> 0] /\ faults = 0

-----------------------------------------------------------------------------
(* The guard. *)

trigger(deletes, live) ==
    IF deletes = 0 THEN ""
    ELSE IF live >= 2 /\ deletes >= live THEN EverythingVanished
    ELSE IF deletes >= HoldDeleteMin /\ deletes * 100 >= HoldDeletePercent * live THEN BulkDelete
    ELSE ""

\* Mutant of stillHeld: a change that deletes nothing clears nothing.
NeverClears(heldFor, fresh, deletes) == IF fresh # "" THEN fresh ELSE heldFor

\* Mutant of stillHeld: getting back under the thresholds clears a hold.
ClearsUnderThresholds(heldFor, fresh, deletes) == fresh

stillHeld(heldFor, fresh, deletes) ==
    IF fresh # "" \/ deletes = 0 THEN fresh
    ELSE IF heldFor = ReservedDirTaken THEN ""
    ELSE IF heldFor = RootUnavailable THEN EverythingVanished
    ELSE heldFor

\* The reason a change of so many deletes is held for on l, "" for none.
ReasonOn(l, deletes, live) ==
    LET fresh == trigger(deletes, live)
    IN  IF Held(l) THEN stillHeld(held[l].reason, fresh, deletes) ELSE fresh

MayApply(l, deletes, live) == ReasonOn(l, deletes, live) = "" \/ held[l].confirmed

\* Mutant of Recorded: memory is written before the store, come what may.
RecordedFirst(l, h, ok) ==
    /\ ok \/ (h # held[l] /\ faults < MaxFaults)
    /\ faults' = IF ok THEN faults ELSE faults + 1
    /\ held' = [held EXCEPT ![l] = h]
    /\ stored' = IF ok THEN [stored EXCEPT ![l] = h] ELSE stored

\* PutHold or DeleteHold, where there is anything to write, and memory only
\* if that succeeded; a failure is only logged.
Recorded(l, h, ok) ==
    /\ ok \/ (h # held[l] /\ faults < MaxFaults)
    /\ faults' = IF ok THEN faults ELSE faults + 1
    /\ held' = IF ok THEN [held EXCEPT ![l] = h] ELSE held
    /\ stored' = IF ok THEN [stored EXCEPT ![l] = h] ELSE stored

\* Mutant of Placed: a new measurement keeps the user's confirmation.
PlacedKeepsConfirmed(l, reason, deletes, live) == Hold(reason, deletes, live, held[l].confirmed)

\* placeLocked: the same measurement leaves the hold as it is, a new one
\* replaces it and asks the user again.
Placed(l, reason, deletes, live) ==
    IF held[l].reason = reason /\ held[l].deletes = deletes /\ held[l].live = live
    THEN held[l] ELSE Hold(reason, deletes, live, FALSE)

Place(l, reason, deletes, live, ok) ==
    /\ Recorded(l, Placed(l, reason, deletes, live), ok)
    /\ disaster' = IF ok /\ reason # ReservedDirTaken THEN disaster \cup {l} ELSE disaster
    /\ UNCHANGED breached

\* The half of decide that lets the change through; a hold it cannot delete
\* from the store stays.
Clear(l, deletes, ok) ==
    /\ Recorded(l, NoHold, ok)
    /\ disaster' = IF ok THEN disaster \ {l} ELSE disaster
    /\ breached' = IF l \in disaster /\ deletes > 0 /\ ~held[l].confirmed
                   THEN breached \cup {l} ELSE breached

-----------------------------------------------------------------------------
(* The folder, the peers and the user. *)

Counted(event, bound) ==
    /\ count[event] < bound
    /\ count' = [count EXCEPT ![event] = @ + 1]

FolderChanges ==
    /\ Counted("folder", MaxFolderChanges)
    /\ \/ folder' \in SUBSET File /\ folder' # folder /\ UNCHANGED root
       \/ /\ root' \in {"ok", "missing"} \cup (IF MayBeTaken THEN {"taken"} ELSE {})
          /\ root' # root /\ UNCHANGED folder
    /\ UNCHANGED <<indexed, pending, scan, pass, owed, access, guardVars>>

\* The peer's rows are recorded whatever is on hold, and a pass is owed.
PeerChanges(p) ==
    /\ access[p] # "revoked"
    /\ Counted("peer", MaxPeerChanges)
    /\ \E gone \in SUBSET File : pending' = [pending EXCEPT ![p] = gone]
    /\ owed' = owed \cup {p}
    /\ UNCHANGED <<root, folder, indexed, scan, pass, access, guardVars>>

\* Confirm, and the pass ConfirmHold runs if the peer's session has the
\* share; the scan it runs for Own is any scan.
Confirm(l, ok) ==
    /\ Held(l) /\ Confirmable(held[l])
    /\ Counted("confirm", MaxConfirms)
    /\ Recorded(l, [held[l] EXCEPT !.confirmed = TRUE], ok)
    /\ owed' = IF ok /\ l \in Peer /\ access[l] # "revoked" THEN owed \cup {l} ELSE owed
    /\ UNCHANGED <<root, folder, indexed, pending, scan, pass, access,
                   disaster, breached>>

\* Retain: every hold but those on the links in keep is forgotten, those
\* whose store write fails apart.
Retained(keep, failed) ==
    LET kept == keep \cup failed
    IN  /\ failed = {} \/ faults < MaxFaults
        /\ failed \subseteq {l \in Link \ keep : Held(l)}
        /\ faults' = IF failed = {} THEN faults ELSE faults + 1
        /\ held' = [l \in Link |-> IF l \in kept THEN held[l] ELSE NoHold]
        /\ stored' = [l \in Link |-> IF l \in kept THEN stored[l] ELSE NoHold]
        /\ disaster' = disaster \cap kept
        /\ UNCHANGED breached

Configured == {Own} \cup {p \in Peer : access[p] = "granted"}

\* The configuration no longer gives p the share: its hold is forgotten
\* first, and its session hears of it later.
Revoke(p, failed) ==
    /\ \A q \in Peer : access[q] # "revoking"
    /\ access[p] = "granted"
    /\ Counted("access", MaxAccessChanges)
    /\ access' = [access EXCEPT ![p] = "revoking"]
    /\ Retained(Configured \ {p}, failed)
    /\ UNCHANGED <<root, folder, indexed, pending, scan, pass, owed>>

\* neuterShare: no new pass with p starts; the one running goes on.
NeuterShare(p) ==
    /\ access[p] = "revoking"
    /\ access' = [access EXCEPT ![p] = "revoked"]
    /\ owed' = owed \ {p}
    /\ UNCHANGED <<root, folder, indexed, pending, scan, pass, guardVars, count>>

\* grantShare and startSyncing.
Grant(p, failed) ==
    /\ \A q \in Peer : access[q] # "revoking"
    /\ access[p] = "revoked"
    /\ access' = [access EXCEPT ![p] = "granted"]
    /\ Retained(Configured \cup {p}, failed)
    /\ owed' = owed \cup {p}
    /\ UNCHANGED <<root, folder, indexed, pending, scan, pass, count>>

\* The node restarts: Load reads the holds back, Open forgets those no longer
\* configured, and sessions come up again.
Restart ==
    /\ faults < MaxFaults
    /\ faults' = faults + 1
    /\ access' = [p \in Peer |-> IF access[p] = "granted" THEN "granted" ELSE "revoked"]
    /\ held' = [l \in Link |-> IF l \in Configured THEN stored[l] ELSE NoHold]
    /\ stored' = held'
    /\ disaster' = disaster \cap Configured
    /\ scan' = IdleScan /\ pass' = [p \in Peer |-> IdlePass]
    /\ owed' = Configured \cap Peer
    /\ UNCHANGED <<root, folder, indexed, pending, breached, count>>

-----------------------------------------------------------------------------
(* A scan of the folder. *)

\* EnsureReservedDir fails before anything is listed.
ScanTaken(ok) ==
    /\ scan.pc = "idle" /\ root = "taken"
    /\ Place(Own, ReservedDirTaken, 0, 0, ok)
    /\ UNCHANGED <<root, folder, indexed, pending, scan, pass, owed, access, count>>

ScanList ==
    /\ scan.pc = "idle" /\ root # "taken"
    /\ scan' = [IdleScan EXCEPT !.pc = "listed", !.existing = indexed]
    /\ UNCHANGED <<root, folder, indexed, pending, pass, owed, access, guardVars, count>>

\* The walk fails: ScanFailed holds the share if its root is unavailable.
ScanFailed(ok) ==
    LET live == Cardinality(scan.existing)
    IN  /\ scan.pc = "listed" /\ root = "missing"
        /\ IF live = 0 THEN ok /\ UNCHANGED guardVars
           ELSE Place(Own, RootUnavailable, live, live, ok)
        /\ scan' = IdleScan
        /\ UNCHANGED <<root, folder, indexed, pending, pass, owed, access, count>>

ScanWalk ==
    /\ scan.pc = "listed" /\ root # "missing"
    /\ scan' = [scan EXCEPT !.pc = "walked", !.found = folder]
    /\ UNCHANGED <<root, folder, indexed, pending, pass, owed, access, guardVars, count>>

ScanDecide(ok) ==
    LET deletes == Cardinality(scan.existing \ scan.found)
        live    == Cardinality(scan.existing)
        reason  == ReasonOn(Own, deletes, live)
    IN  /\ scan.pc = "walked"
        /\ IF MayApply(Own, deletes, live)
           THEN /\ Clear(Own, deletes, ok)
                /\ scan' = [scan EXCEPT !.pc = "apply", !.released = ok /\ Held(Own)]
           ELSE /\ Place(Own, reason, deletes, live, ok)
                /\ scan' = IdleScan
        /\ UNCHANGED <<root, folder, indexed, pending, pass, owed, access, count>>

\* Mutant of Resumed: the passes the hold stopped are not run again.
NotResumed == owed

\* Mutant of Resumed: the node's own link is taken for a session.
ResumedOnEveryLink == IF scan.released THEN Link ELSE owed

\* reconcileShareOnSessions, when the scan ended a hold.
Resumed ==
    IF scan.released THEN owed \cup {p \in Peer : access[p] # "revoked"} ELSE owed

\* ApplyScanResult, which may fail, and the passes a released hold owes.  A
\* file found anew has a version no peer's tombstone dominates.
ScanApply(ok) ==
    LET added == scan.found \ scan.existing
    IN  /\ scan.pc = "apply"
        /\ ok \/ faults < MaxFaults
        /\ faults' = IF ok THEN faults ELSE faults + 1
        /\ indexed' = IF ok THEN (indexed \ (scan.existing \ scan.found)) \cup added ELSE indexed
        /\ pending' = IF ok THEN [p \in Peer |-> pending[p] \ added] ELSE pending
        /\ owed' = Resumed
        /\ scan' = IdleScan
        /\ UNCHANGED <<root, folder, pass, access, held, stored, disaster, breached, count>>

-----------------------------------------------------------------------------
(* A reconcile pass with a peer. *)

\* The rows are listed and reconciled: what p deleted and we still have.
PassPlan(p) ==
    /\ p \in owed /\ pass[p].pc = "idle"
    /\ owed' = owed \ {p}
    /\ pass' = [pass EXCEPT ![p] = [pc |-> "planned", deleting |-> pending[p] \cap indexed,
                                    live |-> Cardinality(indexed)]]
    /\ UNCHANGED <<root, folder, indexed, pending, scan, access, guardVars, count>>

\* Guard.Pass looks at the node's own hold first, and lets go of the lock.
PassOwn(p) ==
    /\ pass[p].pc = "planned"
    /\ pass' = [pass EXCEPT ![p] = IF Held(Own) THEN IdlePass ELSE [@ EXCEPT !.pc = "allowed"]]
    /\ UNCHANGED <<root, folder, indexed, pending, scan, owed, access, guardVars, count>>

PassDecide(p, ok) ==
    LET deletes == Cardinality(pass[p].deleting)
        live    == pass[p].live
    IN  /\ pass[p].pc = "allowed"
        /\ IF MayApply(p, deletes, live)
           THEN /\ Clear(p, deletes, ok)
                /\ pass' = [pass EXCEPT ![p].pc = "apply"]
           ELSE /\ Place(p, ReasonOn(p, deletes, live), deletes, live, ok)
                /\ pass' = [pass EXCEPT ![p] = IdlePass]
        /\ UNCHANGED <<root, folder, indexed, pending, scan, owed, access, count>>

\* applyDelete for every file, into the trash.
PassApply(p) ==
    /\ pass[p].pc = "apply"
    /\ folder' = folder \ pass[p].deleting
    /\ indexed' = indexed \ pass[p].deleting
    /\ pass' = [pass EXCEPT ![p] = IdlePass]
    /\ UNCHANGED <<root, pending, scan, owed, access, guardVars, count>>

-----------------------------------------------------------------------------

ScanStep ==
    \/ ScanList \/ ScanWalk
    \/ \E ok \in BOOLEAN : ScanTaken(ok) \/ ScanFailed(ok) \/ ScanDecide(ok) \/ ScanApply(ok)

PassStep(p) ==
    \/ PassPlan(p) \/ PassOwn(p) \/ PassApply(p)
    \/ \E ok \in BOOLEAN : PassDecide(p, ok)

AccessStep(p) ==
    \/ NeuterShare(p)
    \/ \E failed \in SUBSET Link : Revoke(p, failed) \/ Grant(p, failed)

Next ==
    \/ FolderChanges \/ Restart
    \/ \E l \in Link, ok \in BOOLEAN : Confirm(l, ok)
    \/ \E p \in Peer : PeerChanges(p) \/ PassStep(p) \/ AccessStep(p)
    \/ ScanStep

\* Scans are periodic, passes run on live sessions, and a configuration
\* change is carried through.
Fairness ==
    /\ WF_vars(ScanStep)
    /\ \A p \in Peer : WF_vars(PassStep(p)) /\ WF_vars(NeuterShare(p))

Spec == Init /\ [][Next]_vars

FairSpec == Spec /\ Fairness

-----------------------------------------------------------------------------
(* Properties. *)

HoldRecord == [reason : Reason \cup {""}, deletes : Nat, live : Nat, confirmed : BOOLEAN]

GuardTypeOK ==
    /\ held \in [Link -> HoldRecord] /\ stored \in [Link -> HoldRecord]
    /\ disaster \subseteq Link /\ breached \subseteq Link
    /\ faults \in Nat

\* The variables hold what the guard, the store and the workers keep.
TypeOK ==
    /\ GuardTypeOK
    /\ root \in {"ok", "missing", "taken"}
    /\ folder \subseteq File /\ indexed \subseteq File
    /\ pending \in [Peer -> SUBSET File]
    /\ scan \in [pc : {"idle", "listed", "walked", "apply"}, existing : SUBSET File,
                 found : SUBSET File, released : BOOLEAN]
    /\ pass \in [Peer -> [pc : {"idle", "planned", "allowed", "apply"},
                          deleting : SUBSET File, live : Nat]]
    /\ owed \subseteq Peer
    /\ access \in [Peer -> {"granted", "revoking", "revoked"}]
    /\ count \in [folder : Nat, peer : Nat, confirm : Nat, access : Nat]

\* Memory and store agree on every hold, whichever writes failed: a restart
\* neither forgets a hold nor brings one back.
StoreMirrorsMemory == stored = held

\* A confirmation always belongs to a hold there is something to confirm in:
\* a missing root that overtakes a confirmed hold asks the user again.
ConfirmedIsConfirmable ==
    \A l \in Link : held[l].confirmed => Held(l) /\ Confirmable(held[l])

\* Once a link is held over deletes, no change that still deletes something
\* goes through on it unless the user confirms: a folder partly restored
\* stays held (package hold, "getting back under the thresholds is not
\* enough").
NeverPartlyUndone == breached = {}

\* A hold on the node's own copy clears by itself once its folder is back.
FixedFolderClears == <>[](root = "ok" /\ indexed \subseteq folder) => <>[](~Held(Own))

\* What a peer deleted is deleted here in the end, unless its link or the
\* node's own copy is on hold or it has lost the share: no pass a hold
\* stopped is forgotten.
PassesResume ==
    \A p \in Peer :
        <>[](Held(Own) \/ Held(p) \/ access[p] = "revoked" \/ pending[p] \cap indexed = {})
=============================================================================
