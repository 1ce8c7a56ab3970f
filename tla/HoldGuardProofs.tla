--------------------------- MODULE HoldGuardProofs ---------------------------
(***************************************************************************)
(* What the hold guard keeps true for any number of files and peers, any   *)
(* thresholds, and any sequence of changes, scans, passes, confirmations,  *)
(* failed store writes and restarts.                                       *)
(***************************************************************************)
EXTENDS HoldGuard, FiniteSetTheorems, TLAPS

-----------------------------------------------------------------------------
(* Facts about the operators. *)

\* What measure counts is a number.
LEMMA MeasureType == ASSUME NEW S \in SUBSET File PROVE Cardinality(S) \in Nat
BY HoldGuardAssumption, FS_Subset, FS_CardinalityType

\* trigger gives one of its two reasons or none, and stillHeld one of the
\* three reasons that are about deletes.
LEMMA ReasonType ==
    ASSUME GuardTypeOK, NEW l \in Link, NEW deletes \in Nat, NEW live \in Nat
    PROVE  ReasonOn(l, deletes, live) \in (Reason \ {ReservedDirTaken}) \cup {""}
<1> DEFINE fresh == trigger(deletes, live)
<1>1. fresh \in {EverythingVanished, BulkDelete, ""}
    BY DEF trigger
<1>2. held[l].reason \in Reason \cup {""}
    BY DEF GuardTypeOK, HoldRecord
<1>3. stillHeld(held[l].reason, fresh, deletes)
        \in (Reason \ {ReservedDirTaken}) \cup {""}
    BY <1>1, <1>2 DEF stillHeld, Reason, RootUnavailable, EverythingVanished,
                      BulkDelete, ReservedDirTaken
<1> QED
    BY <1>1, <1>3 DEF ReasonOn, Reason, RootUnavailable, EverythingVanished,
                      BulkDelete, ReservedDirTaken

\* decide never lets a change that deletes something through on a link held
\* over deletes, unless the user has confirmed it: stillHeld keeps it.
LEMMA HeldOverDeletesStays ==
    ASSUME NEW l \in Link, NEW deletes \in Nat \ {0}, NEW live \in Nat,
           Held(l), held[l].reason # ReservedDirTaken, ~held[l].confirmed
    PROVE  ~MayApply(l, deletes, live)
<1> DEFINE fresh == trigger(deletes, live)
<1>1. stillHeld(held[l].reason, fresh, deletes) # ""
    BY DEF stillHeld, Held, EverythingVanished, RootUnavailable
<1> QED
    BY <1>1 DEF MayApply, ReasonOn

-----------------------------------------------------------------------------
(* What each way of changing the holds does to them. *)

\* The part of the invariant that is about the guard alone: the types, the
\* store and memory being equal, and every confirmation being of a hold that
\* can be confirmed.
GuardInv == GuardTypeOK /\ StoreMirrorsMemory /\ ConfirmedIsConfirmable

\* A hold that may stand: a hold record, confirmed only if it can be.
Sound(h) == h \in HoldRecord /\ (h.confirmed => h.reason # "" /\ Confirmable(h))

\* The holds of memory and store after placeLocked, clearLocked or Confirm
\* wrote one that may stand, or failed to.
LEMMA RecordedEffect ==
    ASSUME GuardInv, NEW l \in Link, NEW h, Sound(h), NEW ok \in BOOLEAN, Recorded(l, h, ok)
    PROVE  /\ held' \in [Link -> HoldRecord] /\ stored' \in [Link -> HoldRecord]
           /\ faults' \in Nat
           /\ StoreMirrorsMemory' /\ ConfirmedIsConfirmable'
<1>1. CASE ok
    <2>1. held' = [held EXCEPT ![l] = h] /\ stored' = [stored EXCEPT ![l] = h] /\ faults' = faults
        BY <1>1 DEF Recorded
    <2>2. held' \in [Link -> HoldRecord] /\ stored' \in [Link -> HoldRecord]
        BY <2>1 DEF GuardInv, GuardTypeOK, Sound
    <2>3. \A k \in Link : held'[k].confirmed => held'[k].reason # "" /\ Confirmable(held'[k])
        BY <2>1 DEF GuardInv, GuardTypeOK, ConfirmedIsConfirmable, Held, Sound
    <2> QED
        BY <2>1, <2>2, <2>3 DEF GuardInv, GuardTypeOK, StoreMirrorsMemory, ConfirmedIsConfirmable, Held, Confirmable
<1>2. CASE ~ok
    <2>1. held' = held /\ stored' = stored /\ faults' = faults + 1
        BY <1>2 DEF Recorded
    <2>2. ConfirmedIsConfirmable'
        BY <2>1, Zenon DEF GuardInv, ConfirmedIsConfirmable, Held, Confirmable
    <2>3. StoreMirrorsMemory'
        BY <2>1 DEF GuardInv, StoreMirrorsMemory
    <2> QED
        BY <2>1, <2>2, <2>3 DEF GuardInv, GuardTypeOK
<1> QED
    BY <1>1, <1>2

\* A link without a hold is sound: nothing is confirmed on it.
LEMMA NoHoldSound == Sound(NoHold) /\ NoHold.reason = ""
BY DEF NoHold, Hold, HoldRecord, Sound

\* placeLocked writes a hold that may stand: the one there was, or a fresh
\* one that is not confirmed.
LEMMA PlacedSound ==
    ASSUME GuardInv, NEW l \in Link, NEW reason \in Reason, NEW deletes \in Nat, NEW live \in Nat
    PROVE  /\ Sound(Placed(l, reason, deletes, live))
           /\ Placed(l, reason, deletes, live).reason = reason
<1>1. Sound(held[l])
    BY DEF GuardInv, GuardTypeOK, ConfirmedIsConfirmable, Held, Sound
<1>2. Sound(Hold(reason, deletes, live, FALSE)) /\ Hold(reason, deletes, live, FALSE).reason = reason
    BY DEF Sound, Hold, HoldRecord
<1> QED
    BY <1>1, <1>2 DEF Placed

\* placeLocked keeps the guard's invariant.
LEMMA PlaceEffect ==
    ASSUME GuardInv, NEW l \in Link, NEW reason \in Reason, NEW deletes \in Nat, NEW live \in Nat,
           NEW ok \in BOOLEAN, Place(l, reason, deletes, live, ok)
    PROVE  GuardInv'
<1>1. /\ disaster' \subseteq Link /\ breached' \subseteq Link
    BY DEF Place, GuardInv, GuardTypeOK
<1>2. Recorded(l, Placed(l, reason, deletes, live), ok)
    BY DEF Place
<1> QED
    BY <1>1, <1>2, PlacedSound, RecordedEffect DEF GuardInv, GuardTypeOK

\* clearLocked keeps the guard's invariant.
LEMMA ClearEffect ==
    ASSUME GuardInv, NEW l \in Link, NEW deletes \in Nat, NEW ok \in BOOLEAN, Clear(l, deletes, ok)
    PROVE  GuardInv'
<1>1. /\ disaster' \subseteq Link /\ breached' \subseteq Link
    BY DEF Clear, GuardInv, GuardTypeOK
<1>2. Recorded(l, NoHold, ok)
    BY DEF Clear
<1> QED
    BY <1>1, <1>2, NoHoldSound, RecordedEffect DEF GuardInv, GuardTypeOK

\* Retain keeps the guard's invariant.
LEMMA RetainedEffect ==
    ASSUME GuardInv, NEW keep, NEW failed, Retained(keep, failed)
    PROVE  GuardInv'
<1> DEFINE kept == keep \cup failed
<1>1. /\ held' = [l \in Link |-> IF l \in kept THEN held[l] ELSE NoHold]
      /\ stored' = [l \in Link |-> IF l \in kept THEN stored[l] ELSE NoHold]
      /\ disaster' \subseteq Link /\ breached' \subseteq Link
    BY DEF Retained, GuardInv, GuardTypeOK
<1>2. faults' \in Nat
    BY DEF Retained, GuardInv, GuardTypeOK
<1>3. /\ held' \in [Link -> HoldRecord] /\ stored' \in [Link -> HoldRecord] /\ StoreMirrorsMemory'
    BY <1>1, NoHoldSound DEF GuardInv, GuardTypeOK, StoreMirrorsMemory, Sound
<1>4. \A l \in Link : held'[l].confirmed => held'[l].reason # "" /\ Confirmable(held'[l])
    BY <1>1, NoHoldSound DEF GuardInv, ConfirmedIsConfirmable, Held, Sound
<1> QED
    BY <1>1, <1>2, <1>3, <1>4 DEF GuardInv, GuardTypeOK, ConfirmedIsConfirmable, Held, Confirmable

\* An action that leaves the guard alone keeps its invariant.
LEMMA GuardUnchanged == GuardInv /\ UNCHANGED guardVars => GuardInv'
<1> SUFFICES ASSUME GuardInv, UNCHANGED guardVars PROVE GuardInv'
    OBVIOUS
<1>1. ConfirmedIsConfirmable'
    BY Zenon DEF GuardInv, guardVars, ConfirmedIsConfirmable, Held, Confirmable
<1> QED
    BY <1>1 DEF GuardInv, guardVars, GuardTypeOK, StoreMirrorsMemory

-----------------------------------------------------------------------------
(* The invariant. *)

IndInv == TypeOK /\ GuardInv

\* The reasons to hold, as decide and the two failures of a scan give them.
LEMMA Reasons ==
    /\ RootUnavailable \in Reason /\ ReservedDirTaken \in Reason
    /\ "" \notin Reason
BY DEF Reason, RootUnavailable, EverythingVanished, BulkDelete, ReservedDirTaken

\* Every step keeps the guard's invariant, whatever it does to the folder,
\* the scan, the passes and the peers.
LEMMA GuardStep == ASSUME IndInv, [Next]_vars PROVE GuardInv'
<1> USE DEF IndInv
<1>l. Own \in Link /\ Peer \subseteq Link
    BY DEF Link
<1>1. CASE FolderChanges
    BY <1>1, GuardUnchanged DEF FolderChanges
<1>2. CASE Restart
    <2>1. /\ held' = [l \in Link |-> IF l \in Configured THEN stored[l] ELSE NoHold]
          /\ stored' = held' /\ faults' \in Nat
          /\ disaster' \subseteq Link /\ breached' \subseteq Link
        BY <1>2 DEF Restart, GuardInv, GuardTypeOK
    <2>2. held' \in [Link -> HoldRecord]
        BY <2>1, NoHoldSound DEF GuardInv, GuardTypeOK, Sound
    <2>3. \A l \in Link : held'[l].confirmed => held'[l].reason # "" /\ Confirmable(held'[l])
        BY <2>1, NoHoldSound DEF GuardInv, StoreMirrorsMemory, ConfirmedIsConfirmable, Held, Sound
    <2> QED
        BY <2>1, <2>2, <2>3
        DEF GuardInv, GuardTypeOK, StoreMirrorsMemory, ConfirmedIsConfirmable, Held, Confirmable
<1>3. ASSUME NEW l \in Link, NEW ok \in BOOLEAN, Confirm(l, ok) PROVE GuardInv'
    <2> DEFINE h == [held[l] EXCEPT !.confirmed = TRUE]
    <2>1. held[l] \in HoldRecord /\ held[l].reason # "" /\ Confirmable(held[l])
        BY <1>3 DEF Confirm, GuardInv, GuardTypeOK, Held
    <2>2. Sound(h)
        BY <2>1 DEF HoldRecord, Sound, Confirmable
    <2>3. Recorded(l, h, ok) /\ UNCHANGED <<disaster, breached>>
        BY <1>3 DEF Confirm
    <2> QED
        BY <2>2, <2>3, RecordedEffect DEF GuardInv, GuardTypeOK
<1>4. ASSUME NEW p \in Peer, PeerChanges(p) PROVE GuardInv'
    BY <1>4, GuardUnchanged DEF PeerChanges
<1>5. ASSUME NEW p \in Peer, PassStep(p) PROVE GuardInv'
    <2>1. CASE PassPlan(p) \/ PassOwn(p) \/ PassApply(p)
        BY <2>1, GuardUnchanged DEF PassPlan, PassOwn, PassApply
    <2>2. ASSUME NEW ok \in BOOLEAN, PassDecide(p, ok) PROVE GuardInv'
        <3> DEFINE deletes == Cardinality(pass[p].deleting)
                   live    == pass[p].live
        <3>1. deletes \in Nat /\ live \in Nat
            BY MeasureType DEF TypeOK
        <3>2. CASE MayApply(p, deletes, live)
            BY <2>2, <3>1, <3>2, <1>l, ClearEffect DEF PassDecide
        <3>3. CASE ~MayApply(p, deletes, live)
            <4>1. ReasonOn(p, deletes, live) \in Reason
                BY <3>1, <3>3, <1>l, ReasonType DEF MayApply, GuardInv
            <4>2. Place(p, ReasonOn(p, deletes, live), deletes, live, ok)
                BY <2>2, <3>3 DEF PassDecide
            <4> QED
                BY <3>1, <4>1, <4>2, <1>l, PlaceEffect
        <3> QED
            BY <3>2, <3>3
    <2> QED
        BY <1>5, <2>1, <2>2 DEF PassStep
<1>6. ASSUME NEW p \in Peer, AccessStep(p) PROVE GuardInv'
    <2>1. CASE NeuterShare(p)
        BY <2>1, GuardUnchanged DEF NeuterShare
    <2>2. ASSUME NEW failed \in SUBSET Link, Revoke(p, failed) \/ Grant(p, failed) PROVE GuardInv'
        BY <2>2, RetainedEffect DEF Revoke, Grant
    <2> QED
        BY <1>6, <2>1, <2>2 DEF AccessStep
<1>7. CASE ScanStep
    <2>1. CASE ScanList \/ ScanWalk
        BY <2>1, GuardUnchanged DEF ScanList, ScanWalk
    <2>2. ASSUME NEW ok \in BOOLEAN, ScanTaken(ok) PROVE GuardInv'
        BY <2>2, <1>l, Reasons, PlaceEffect DEF ScanTaken
    <2>3. ASSUME NEW ok \in BOOLEAN, ScanFailed(ok) PROVE GuardInv'
        <3> DEFINE live == Cardinality(scan.existing)
        <3>1. live \in Nat
            BY MeasureType DEF TypeOK
        <3>2. UNCHANGED guardVars \/ Place(Own, RootUnavailable, live, live, ok)
            BY <2>3 DEF ScanFailed
        <3> QED
            BY <3>1, <3>2, <1>l, Reasons, PlaceEffect, GuardUnchanged
    <2>4. ASSUME NEW ok \in BOOLEAN, ScanDecide(ok) PROVE GuardInv'
        <3> DEFINE deletes == Cardinality(scan.existing \ scan.found)
                   live    == Cardinality(scan.existing)
        <3>1. deletes \in Nat /\ live \in Nat
            BY MeasureType DEF TypeOK
        <3>2. CASE MayApply(Own, deletes, live)
            BY <2>4, <3>1, <3>2, <1>l, ClearEffect DEF ScanDecide
        <3>3. CASE ~MayApply(Own, deletes, live)
            <4>1. ReasonOn(Own, deletes, live) \in Reason
                BY <3>1, <3>3, <1>l, ReasonType DEF MayApply, GuardInv
            <4>2. Place(Own, ReasonOn(Own, deletes, live), deletes, live, ok)
                BY <2>4, <3>3 DEF ScanDecide
            <4> QED
                BY <3>1, <4>1, <4>2, <1>l, PlaceEffect
        <3> QED
            BY <3>2, <3>3
    <2>5. ASSUME NEW ok \in BOOLEAN, ScanApply(ok) PROVE GuardInv'
        <3>1. UNCHANGED <<held, stored, disaster, breached>> /\ faults' \in Nat
            BY <2>5 DEF ScanApply, GuardInv, GuardTypeOK
        <3>2. ConfirmedIsConfirmable'
            BY <3>1, Zenon DEF GuardInv, ConfirmedIsConfirmable, Held, Confirmable
        <3> QED
            BY <3>1, <3>2 DEF GuardInv, GuardTypeOK, StoreMirrorsMemory
    <2> QED
        BY <1>7, <2>1, <2>2, <2>3, <2>4, <2>5 DEF ScanStep
<1>8. CASE UNCHANGED vars
    BY <1>8, GuardUnchanged DEF vars, guardVars
<1> QED
    BY <1>1, <1>2, <1>3, <1>4, <1>5, <1>6, <1>7, <1>8 DEF Next

\* Every step keeps the types.
LEMMA TypeStep == ASSUME IndInv, [Next]_vars PROVE TypeOK'
<1> USE DEF IndInv
<1>g. GuardTypeOK'
    BY GuardStep DEF GuardInv
<1>1. CASE FolderChanges
    BY <1>1, <1>g DEF FolderChanges, Counted, TypeOK
<1>2. CASE Restart
    BY <1>2, <1>g DEF Restart, TypeOK, IdleScan, IdlePass, Configured
<1>3. ASSUME NEW l \in Link, NEW ok \in BOOLEAN, Confirm(l, ok) PROVE TypeOK'
    BY <1>3, <1>g DEF Confirm, Counted, TypeOK
<1>4. ASSUME NEW p \in Peer, PeerChanges(p) PROVE TypeOK'
    BY <1>4, <1>g DEF PeerChanges, Counted, TypeOK
<1>5. ASSUME NEW p \in Peer, PassStep(p) PROVE TypeOK'
    <2>1. CASE PassPlan(p)
        <3>1. Cardinality(indexed) \in Nat
            BY MeasureType DEF TypeOK
        <3> QED
            BY <2>1, <3>1, <1>g DEF PassPlan, TypeOK
    <2>2. CASE PassOwn(p)
        BY <2>2, <1>g DEF PassOwn, TypeOK, IdlePass
    <2>3. CASE PassApply(p)
        BY <2>3, <1>g DEF PassApply, TypeOK, IdlePass
    <2>4. ASSUME NEW ok \in BOOLEAN, PassDecide(p, ok) PROVE TypeOK'
        <3>1. \/ pass' = [pass EXCEPT ![p].pc = "apply"]
              \/ pass' = [pass EXCEPT ![p] = IdlePass]
            BY <2>4 DEF PassDecide
        <3> QED
            BY <2>4, <3>1, <1>g DEF PassDecide, TypeOK, IdlePass
    <2> QED
        BY <1>5, <2>1, <2>2, <2>3, <2>4 DEF PassStep
<1>6. ASSUME NEW p \in Peer, AccessStep(p) PROVE TypeOK'
    <2>1. CASE NeuterShare(p)
        BY <2>1, <1>g DEF NeuterShare, TypeOK
    <2>2. ASSUME NEW failed \in SUBSET Link, Revoke(p, failed) PROVE TypeOK'
        BY <2>2, <1>g DEF Revoke, Counted, TypeOK
    <2>3. ASSUME NEW failed \in SUBSET Link, Grant(p, failed) PROVE TypeOK'
        BY <2>3, <1>g DEF Grant, TypeOK
    <2> QED
        BY <1>6, <2>1, <2>2, <2>3 DEF AccessStep
<1>7. CASE ScanStep
    <2>1. CASE ScanList
        BY <2>1, <1>g DEF ScanList, TypeOK, IdleScan
    <2>2. CASE ScanWalk
        BY <2>2, <1>g DEF ScanWalk, TypeOK
    <2>3. ASSUME NEW ok \in BOOLEAN, ScanTaken(ok) PROVE TypeOK'
        BY <2>3, <1>g DEF ScanTaken, TypeOK
    <2>4. ASSUME NEW ok \in BOOLEAN, ScanFailed(ok) PROVE TypeOK'
        BY <2>4, <1>g DEF ScanFailed, TypeOK, IdleScan
    <2>5. ASSUME NEW ok \in BOOLEAN, ScanDecide(ok) PROVE TypeOK'
        <3>1. \E b \in BOOLEAN : \/ scan' = [scan EXCEPT !.pc = "apply", !.released = b]
                                \/ scan' = IdleScan
            BY <2>5, Zenon DEF ScanDecide
        <3>2. PICK b \in BOOLEAN : \/ scan' = [scan EXCEPT !.pc = "apply", !.released = b]
                                  \/ scan' = IdleScan
            BY <3>1
        <3>3. scan' = [scan EXCEPT !.pc = "apply", !.released = b]
                => scan' = [pc |-> "apply", existing |-> scan.existing, found |-> scan.found,
                            released |-> b]
            BY DEF TypeOK
        <3>4. scan.existing \in SUBSET File /\ scan.found \in SUBSET File
            BY DEF TypeOK
        <3> DEFINE Scans == [pc : {"idle", "listed", "walked", "apply"}, existing : SUBSET File,
                             found : SUBSET File, released : BOOLEAN]
        <3>5. /\ [pc |-> "apply", existing |-> scan.existing, found |-> scan.found, released |-> b]
                   \in Scans
              /\ IdleScan \in Scans
            BY <3>4, Zenon DEF IdleScan
        <3>6. scan' \in Scans
            BY <3>2, <3>3, <3>5, Zenon
        <3> QED
            BY <2>5, <3>6, <1>g DEF ScanDecide, TypeOK
    <2>6. ASSUME NEW ok \in BOOLEAN, ScanApply(ok) PROVE TypeOK'
        <3>1. owed' \subseteq Peer
            BY <2>6 DEF ScanApply, Resumed, TypeOK
        <3>2. indexed' \subseteq File /\ pending' \in [Peer -> SUBSET File]
            BY <2>6 DEF ScanApply, TypeOK
        <3> QED
            BY <2>6, <3>1, <3>2, <1>g DEF ScanApply, TypeOK, IdleScan
    <2> QED
        BY <1>7, <2>1, <2>2, <2>3, <2>4, <2>5, <2>6 DEF ScanStep
<1>8. CASE UNCHANGED vars
    BY <1>8, <1>g DEF vars, TypeOK
<1> QED
    BY <1>1, <1>2, <1>3, <1>4, <1>5, <1>6, <1>7, <1>8 DEF Next

\* The node starts with nothing on hold.
LEMMA IndInvInit == Init => IndInv
<1> SUFFICES ASSUME Init PROVE IndInv
    OBVIOUS
<1>1. GuardInv
    BY NoHoldSound DEF Init, GuardInv, GuardTypeOK, StoreMirrorsMemory,
                       ConfirmedIsConfirmable, Held, Sound
<1> QED
    BY <1>1 DEF Init, IndInv, GuardInv, TypeOK, IdleScan, IdlePass

\* The invariant holds throughout.
LEMMA IndInvariant == Spec => []IndInv
<1>1. IndInv /\ [Next]_vars => IndInv'
    BY GuardStep, TypeStep DEF IndInv
<1> QED
    BY <1>1, IndInvInit, PTL DEF Spec

-----------------------------------------------------------------------------
(* The theorems. *)

\* The guard, its store, the scans and the passes keep their types.
THEOREM TypeCorrect == Spec => []TypeOK
<1>1. IndInv => TypeOK
    BY DEF IndInv
<1> QED
    BY <1>1, IndInvariant, PTL

\* Whatever writes fail and whenever the node restarts, the guard's memory
\* and its store agree, so Load never forgets or revives a hold.
THEOREM StoreAlwaysMirrored == Spec => []StoreMirrorsMemory
<1>1. IndInv => StoreMirrorsMemory
    BY DEF IndInv, GuardInv
<1> QED
    BY <1>1, IndInvariant, PTL

\* No confirmation outlives the hold it was given for: a root that goes
\* missing, or a reserved directory that is taken, asks the user again.
THEOREM OnlyConfirmableConfirmed == Spec => []ConfirmedIsConfirmable
<1>1. IndInv => ConfirmedIsConfirmable
    BY DEF IndInv, GuardInv
<1> QED
    BY <1>1, IndInvariant, PTL

-----------------------------------------------------------------------------
(* A disaster partly undone. *)

\* While nobody takes .syncat/ away, every link with a disaster that nothing
\* has undone is on hold, for a reason that is about deletes.
DisasterIsHeld ==
    /\ root # "taken"
    /\ \A l \in disaster : Held(l) /\ held[l].reason # ReservedDirTaken

\* Placing a hold over deletes keeps every other link's, and adds its own.
LEMMA PlaceKeepsDisasters ==
    ASSUME GuardInv, \A k \in disaster : Held(k) /\ held[k].reason # ReservedDirTaken,
           NEW l \in Link, NEW reason \in Reason \ {ReservedDirTaken},
           NEW deletes \in Nat, NEW live \in Nat, NEW ok \in BOOLEAN,
           Place(l, reason, deletes, live, ok)
    PROVE  /\ \A k \in disaster' : Held(k)' /\ held'[k].reason # ReservedDirTaken
           /\ breached' = breached
<1> DEFINE h == Placed(l, reason, deletes, live)
<1>1. h.reason = reason
    BY PlacedSound
<1>2. disaster \subseteq Link /\ held \in [Link -> HoldRecord] /\ breached' = breached
    BY DEF GuardInv, GuardTypeOK, Place
<1>3. CASE ok
    <2>1. held' = [held EXCEPT ![l] = h] /\ disaster' = disaster \cup {l}
        BY <1>3 DEF Place, Recorded
    <2>2. reason # "" /\ reason # ReservedDirTaken
        BY Reasons
    <2> QED
        BY <1>1, <1>2, <2>1, <2>2 DEF Held
<1>4. CASE ~ok
    <2>1. held' = held /\ disaster' = disaster
        BY <1>4 DEF Place, Recorded
    <2> QED
        BY <1>2, <2>1 DEF Held
<1> QED
    BY <1>3, <1>4

\* Letting a change through ends the disaster on its own link only, and
\* never one that is held and not confirmed while files are still to go.
LEMMA ClearKeepsDisasters ==
    ASSUME GuardInv, \A k \in disaster : Held(k) /\ held[k].reason # ReservedDirTaken,
           NEW l \in Link, NEW deletes \in Nat, NEW live \in Nat, NEW ok \in BOOLEAN,
           MayApply(l, deletes, live), Clear(l, deletes, ok)
    PROVE  /\ \A k \in disaster' : Held(k)' /\ held'[k].reason # ReservedDirTaken
           /\ breached' = breached
<1>1. disaster \subseteq Link /\ held \in [Link -> HoldRecord]
    BY DEF GuardInv, GuardTypeOK
<1>2. ~(l \in disaster /\ deletes > 0 /\ ~held[l].confirmed)
    BY HeldOverDeletesStays
<1>3. breached' = breached
    BY <1>2 DEF Clear
<1>4. CASE ok
    <2>1. held' = [held EXCEPT ![l] = NoHold] /\ disaster' = disaster \ {l}
        BY <1>4 DEF Clear, Recorded
    <2> QED
        BY <1>1, <1>3, <2>1 DEF Held
<1>5. CASE ~ok
    <2>1. held' = held /\ disaster' = disaster
        BY <1>5 DEF Clear, Recorded
    <2> QED
        BY <1>1, <1>3, <2>1 DEF Held
<1> QED
    BY <1>4, <1>5

\* Forgetting holds forgets their disasters.
LEMMA RetainedKeepsDisasters ==
    ASSUME GuardInv, \A k \in disaster : Held(k) /\ held[k].reason # ReservedDirTaken,
           NEW keep, NEW failed, Retained(keep, failed)
    PROVE  /\ \A k \in disaster' : Held(k)' /\ held'[k].reason # ReservedDirTaken
           /\ breached' = breached
BY DEF Retained, Held, GuardInv, GuardTypeOK

\* Every step keeps DisasterIsHeld, and lets no disaster through.
LEMMA DisasterStep ==
    ASSUME ~MayBeTaken, IndInv, DisasterIsHeld, NeverPartlyUndone, [Next]_vars
    PROVE  DisasterIsHeld' /\ NeverPartlyUndone'
<1> DEFINE Kept == /\ \A k \in disaster' : Held(k)' /\ held'[k].reason # ReservedDirTaken
                   /\ breached' = breached
           Unmoved == UNCHANGED <<held, disaster, breached>>
<1>k. Kept /\ root' # "taken" => DisasterIsHeld' /\ NeverPartlyUndone'
    BY Zenon DEF DisasterIsHeld, NeverPartlyUndone
<1>u. Unmoved => Kept
    BY DEF DisasterIsHeld, Held
<1>g. GuardInv /\ (\A k \in disaster : Held(k) /\ held[k].reason # ReservedDirTaken)
    BY DEF IndInv, DisasterIsHeld
<1>l. Own \in Link /\ Peer \subseteq Link
    BY DEF Link
<1>r. root # "taken"
    BY DEF DisasterIsHeld
<1> HIDE DEF Kept, Unmoved
<1>1. CASE FolderChanges
    <2>1. Unmoved
        BY <1>1 DEF FolderChanges, guardVars, Unmoved
    <2>2. root' # "taken"
        BY <1>1, <1>r DEF FolderChanges
    <2> QED
        BY <2>1, <2>2, <1>k, <1>u
<1>2. CASE Restart
    <2>1. /\ held' = [l \in Link |-> IF l \in Configured THEN stored[l] ELSE NoHold]
          /\ disaster' = disaster \cap Configured /\ breached' = breached /\ root' = root
        BY <1>2 DEF Restart
    <2>2. Kept
        BY <2>1, <1>g DEF Kept, Held, GuardInv, GuardTypeOK, StoreMirrorsMemory
    <2> QED
        BY <2>1, <2>2, <1>k, <1>r
<1>3. ASSUME NEW l \in Link, NEW ok \in BOOLEAN, Confirm(l, ok)
      PROVE  DisasterIsHeld' /\ NeverPartlyUndone'
    <2> DEFINE h == [held[l] EXCEPT !.confirmed = TRUE]
    <2>h. h.reason = held[l].reason
        BY <1>g DEF GuardInv, GuardTypeOK, HoldRecord
    <2>1. /\ held' = held \/ held' = [held EXCEPT ![l] = h]
          /\ disaster' = disaster /\ breached' = breached /\ root' = root
        BY <1>3 DEF Confirm, Recorded
    <2> HIDE DEF h
    <2>2. \A k \in Link : held'[k].reason = held[k].reason
        BY <2>1, <2>h, <1>g DEF GuardInv, GuardTypeOK
    <2>3. disaster \subseteq Link
        BY <1>g DEF GuardInv, GuardTypeOK
    <2>4. Kept
        BY <2>1, <2>2, <2>3, <1>g DEF Kept, Held
    <2> QED
        BY <2>1, <2>4, <1>k, <1>r
<1>4. ASSUME NEW p \in Peer, PeerChanges(p) PROVE DisasterIsHeld' /\ NeverPartlyUndone'
    BY <1>4, <1>k, <1>u, <1>r DEF PeerChanges, guardVars, Unmoved
<1>5. ASSUME NEW p \in Peer, PassStep(p) PROVE DisasterIsHeld' /\ NeverPartlyUndone'
    <2>1. CASE PassPlan(p) \/ PassOwn(p) \/ PassApply(p)
        BY <2>1, <1>k, <1>u, <1>r DEF PassPlan, PassOwn, PassApply, guardVars, Unmoved
    <2>2. ASSUME NEW ok \in BOOLEAN, PassDecide(p, ok) PROVE DisasterIsHeld' /\ NeverPartlyUndone'
        <3> DEFINE deletes == Cardinality(pass[p].deleting)
                   live    == pass[p].live
        <3>1. deletes \in Nat /\ live \in Nat
            BY MeasureType DEF IndInv, TypeOK
        <3>2. root' = root
            BY <2>2 DEF PassDecide
        <3>3. CASE MayApply(p, deletes, live)
            <4>1. Clear(p, deletes, ok)
                BY <2>2, <3>3 DEF PassDecide
            <4> QED
                BY <3>1, <3>2, <3>3, <4>1, <1>l, <1>g, <1>k, <1>r, ClearKeepsDisasters DEF Kept
        <3>4. CASE ~MayApply(p, deletes, live)
            <4>1. ReasonOn(p, deletes, live) \in Reason \ {ReservedDirTaken}
                BY <3>1, <3>4, <1>l, <1>g, ReasonType DEF MayApply, GuardInv
            <4>2. Place(p, ReasonOn(p, deletes, live), deletes, live, ok)
                BY <2>2, <3>4 DEF PassDecide
            <4> QED
                BY <3>1, <3>2, <4>1, <4>2, <1>l, <1>g, <1>k, <1>r, PlaceKeepsDisasters DEF Kept
        <3> QED
            BY <3>3, <3>4
    <2> QED
        BY <1>5, <2>1, <2>2 DEF PassStep
<1>6. ASSUME NEW p \in Peer, AccessStep(p) PROVE DisasterIsHeld' /\ NeverPartlyUndone'
    <2>1. CASE NeuterShare(p)
        BY <2>1, <1>k, <1>u, <1>r DEF NeuterShare, guardVars, Unmoved
    <2>2. ASSUME NEW failed \in SUBSET Link, Revoke(p, failed) \/ Grant(p, failed)
          PROVE  DisasterIsHeld' /\ NeverPartlyUndone'
        BY <2>2, <1>g, <1>k, <1>r, RetainedKeepsDisasters DEF Revoke, Grant, Kept
    <2> QED
        BY <1>6, <2>1, <2>2 DEF AccessStep
<1>7. CASE ScanStep
    <2>1. CASE ScanList \/ ScanWalk
        BY <2>1, <1>k, <1>u, <1>r DEF ScanList, ScanWalk, guardVars, Unmoved
    <2>2. ASSUME NEW ok \in BOOLEAN, ScanTaken(ok) PROVE DisasterIsHeld' /\ NeverPartlyUndone'
        BY <2>2, <1>r DEF ScanTaken
    <2>3. ASSUME NEW ok \in BOOLEAN, ScanFailed(ok) PROVE DisasterIsHeld' /\ NeverPartlyUndone'
        <3> DEFINE live == Cardinality(scan.existing)
        <3>1. live \in Nat /\ root' = root
            BY <2>3, MeasureType DEF IndInv, TypeOK, ScanFailed
        <3>2. CASE UNCHANGED guardVars
            BY <3>1, <3>2, <1>k, <1>u, <1>r DEF guardVars, Unmoved
        <3>3. CASE Place(Own, RootUnavailable, live, live, ok)
            <4>1. RootUnavailable \in Reason \ {ReservedDirTaken}
                BY DEF Reason, RootUnavailable, ReservedDirTaken
            <4> QED
                BY <3>1, <3>3, <4>1, <1>l, <1>g, <1>k, <1>r, PlaceKeepsDisasters DEF Kept
        <3> QED
            BY <2>3, <3>2, <3>3 DEF ScanFailed
    <2>4. ASSUME NEW ok \in BOOLEAN, ScanDecide(ok) PROVE DisasterIsHeld' /\ NeverPartlyUndone'
        <3> DEFINE deletes == Cardinality(scan.existing \ scan.found)
                   live    == Cardinality(scan.existing)
        <3>1. deletes \in Nat /\ live \in Nat
            BY MeasureType DEF IndInv, TypeOK
        <3>2. root' = root
            BY <2>4 DEF ScanDecide
        <3>3. CASE MayApply(Own, deletes, live)
            <4>1. Clear(Own, deletes, ok)
                BY <2>4, <3>3 DEF ScanDecide
            <4> QED
                BY <3>1, <3>2, <3>3, <4>1, <1>l, <1>g, <1>k, <1>r, ClearKeepsDisasters DEF Kept
        <3>4. CASE ~MayApply(Own, deletes, live)
            <4>1. ReasonOn(Own, deletes, live) \in Reason \ {ReservedDirTaken}
                BY <3>1, <3>4, <1>l, <1>g, ReasonType DEF MayApply, GuardInv
            <4>2. Place(Own, ReasonOn(Own, deletes, live), deletes, live, ok)
                BY <2>4, <3>4 DEF ScanDecide
            <4> QED
                BY <3>1, <3>2, <4>1, <4>2, <1>l, <1>g, <1>k, <1>r, PlaceKeepsDisasters DEF Kept
        <3> QED
            BY <3>3, <3>4
    <2>5. ASSUME NEW ok \in BOOLEAN, ScanApply(ok) PROVE DisasterIsHeld' /\ NeverPartlyUndone'
        BY <2>5, <1>k, <1>u, <1>r DEF ScanApply, Unmoved
    <2> QED
        BY <1>7, <2>1, <2>2, <2>3, <2>4, <2>5 DEF ScanStep
<1>8. CASE UNCHANGED vars
    BY <1>8, <1>k, <1>u, <1>r DEF vars, Unmoved
<1> QED
    BY <1>1, <1>2, <1>3, <1>4, <1>5, <1>6, <1>7, <1>8 DEF Next

\* As long as no foreign .syncat/ appears, a hold over deletes lets nothing
\* that still deletes a file through unless the user confirms it, however
\* the folder is restored in parts and whatever scans and passes race it.
THEOREM DisasterStaysHeld == ASSUME ~MayBeTaken PROVE Spec => []NeverPartlyUndone
<1>1. Init => DisasterIsHeld /\ NeverPartlyUndone
    BY DEF Init, DisasterIsHeld, NeverPartlyUndone
<1>2. IndInv /\ DisasterIsHeld /\ NeverPartlyUndone /\ [Next]_vars
        => DisasterIsHeld' /\ NeverPartlyUndone'
    BY DisasterStep
<1> QED
    BY <1>1, <1>2, IndInvariant, PTL DEF Spec
=============================================================================
