--------------------------- MODULE ScanGateProofs ---------------------------
(***************************************************************************)
(* The scans of a share for any number of callers, edits, folders and      *)
(* faults: one scan at a time, callers that see what they asked for, no    *)
(* rows of a folder that is gone, and the refinement of Coalesce.          *)
(***************************************************************************)
EXTENDS ScanGate, TLAPS

-----------------------------------------------------------------------------
(* The inductive invariant. *)

\* The steps of a scan that hold the gate.
Inside == {"scan", "check", "apply"}

Control == {"idle", "start", "wait", "tell", "end"} \cup Inside

\* Types, as far as the proofs need them; no counter is ahead of the folder
\* or of the folders there have been.
ScanTypeOK ==
    /\ disk \in Nat /\ folders \in Nat /\ watch \in Nat /\ pass \in Nat /\ told \in Nat
    /\ index \in [of : Nat, at : Nat]
    /\ scan \in [Scanner -> [pc : Control, root : Nat, saw : Nat, since : Nat]]
    /\ running \in BOOLEAN /\ dirty \in BOOLEAN /\ late \in BOOLEAN
    /\ conf \in {"on", "stopping", "off"} /\ life \in {"open", "closing", "closed"}
    /\ \A a \in Scanner : /\ scan[a].root <= folders
                          /\ scan[a].saw <= disk /\ scan[a].since <= disk

\* The gate's holder is the one scan that is under way (runShareScan).
GateHeld ==
    /\ \A a \in Scanner : a \in gate <=> scan[a].pc \in Inside
    /\ \A a, b \in gate : a = b

\* The loop's goroutine exists exactly while shareScan.running says so.
LoopRuns == running <=> scan["loop"].pc # "idle"

\* A watch and a pass are of the folder the share lives in now, and while its
\* rows are forgotten there is neither.
Current ==
    /\ watch \in {0, folders} /\ (watch # 0 => conf = "on")
    /\ pass \in {0, folders} /\ (pass # 0 => conf # "off")

\* A walk that has ended has seen everything up to its call, of a folder that
\* was watched.
Walked ==
    \A a \in Scanner : scan[a].pc \in {"check", "apply", "tell"} =>
        scan[a].saw >= scan[a].since /\ scan[a].root # 0

\* What a scan has seen that began after c's was applied is not older.
Later ==
    \A b, c \in Scanner : scan[b].pc \in {"check", "apply"} /\ scan[c].pc = "tell" =>
        scan[b].saw >= scan[c].since /\ scan[b].root >= scan[c].root

\* The rows of the current folder stay until they are forgotten.
RowsKept ==
    \A c \in Scanner : scan[c].pc = "tell" /\ scan[c].root = folders =>
        index.of = folders \/ conf = "off"

\* Every scanner that has applied a scan sees its call in the index.
ScannerSees ==
    \A c \in Scanner : scan[c].pc = "tell" /\ index.of = scan[c].root =>
        index.at >= scan[c].since

\* A scan that made its last check is about the current folder.
CheckedCurrent ==
    late \/ \A a \in Scanner : scan[a].pc = "apply" => scan[a].root = folders /\ conf = "on"

ScanInv ==
    /\ ScanTypeOK /\ GateHeld /\ LoopRuns /\ Current
    /\ Walked /\ Later /\ RowsKept /\ ScannerSees
    /\ CheckedCurrent /\ NothingResurrected

-----------------------------------------------------------------------------
(* Steps that leave every scan where it is. *)

\* The invariant speaks of few variables: steps of the watcher that only
\* count edits and events keep it.
LEMMA EditKeeps == ASSUME ScanInv, Edit PROVE ScanInv'
<1> USE DEF ScanInv, Edit, gateVars, shareVars
<1>1. ScanTypeOK'
    BY DEF ScanTypeOK
<1>2. GateHeld' /\ LoopRuns' /\ Current'
    BY DEF GateHeld, LoopRuns, Current
<1>3. Walked' /\ Later' /\ RowsKept' /\ ScannerSees'
    BY DEF Walked, Later, RowsKept, ScannerSees
<1>4. CheckedCurrent' /\ NothingResurrected'
    BY DEF CheckedCurrent, NothingResurrected
<1> QED
    BY <1>1, <1>2, <1>3, <1>4

\* A trigger starts the loop's goroutine or marks it dirty.
LEMMA TriggerKeeps ==
    ASSUME ScanInv, rescanShareAsync,
           UNCHANGED <<disk, watch, folders, shareVars, index, told, life>>
    PROVE  ScanInv'
<1> USE DEF ScanInv, shareVars
<1>1. CASE running
    <2> USE <1>1 DEF rescanShareAsync
    <2>1. ScanTypeOK'
        BY DEF ScanTypeOK
    <2>2. GateHeld' /\ LoopRuns' /\ Current'
        BY DEF GateHeld, LoopRuns, Current
    <2>3. Walked' /\ Later' /\ RowsKept' /\ ScannerSees'
        BY DEF Walked, Later, RowsKept, ScannerSees
    <2>4. CheckedCurrent' /\ NothingResurrected'
        BY DEF CheckedCurrent, NothingResurrected
    <2> QED
        BY <2>1, <2>2, <2>3, <2>4
<1>2. CASE ~running
    <2>1. /\ "loop" \in Scanner /\ scan["loop"].pc = "idle"
          /\ running' = TRUE /\ dirty' = dirty /\ gate' = gate
          /\ scan' = [scan EXCEPT !["loop"].pc = "start"]
        BY <1>2 DEF rescanShareAsync, LoopRuns, ScanTypeOK, Moves, Scanner
    <2>2. /\ scan'["loop"].pc = "start"
          /\ scan' \in [Scanner -> [pc : Control, root : Nat, saw : Nat, since : Nat]]
          /\ \A a \in Scanner : /\ scan'[a].root = scan[a].root /\ scan'[a].saw = scan[a].saw
                                /\ scan'[a].since = scan[a].since
                                /\ a # "loop" => scan'[a].pc = scan[a].pc
        BY <2>1 DEF ScanTypeOK, Control
    <2>3. ScanTypeOK'
        BY <2>1, <2>2 DEF ScanTypeOK
    <2>4. GateHeld' /\ LoopRuns' /\ Current'
        BY <2>1, <2>2 DEF GateHeld, LoopRuns, Current, Inside
    <2>5. Walked' /\ Later' /\ RowsKept' /\ ScannerSees'
        BY <2>1, <2>2 DEF Walked, Later, RowsKept, ScannerSees
    <2>6. CheckedCurrent' /\ NothingResurrected'
        BY <2>1, <2>2 DEF CheckedCurrent, NothingResurrected
    <2> QED
        BY <2>3, <2>4, <2>5, <2>6
<1> QED
    BY <1>1, <1>2

\* The other steps of the watcher, and the node that begins to close, leave
\* alone what the invariant speaks of.
LEMMA QuietKeeps ==
    ASSUME ScanInv, life' \in {"open", "closing", "closed"},
           UNCHANGED <<disk, watch, folders, gateVars, shareVars, index, told>>
    PROVE  ScanInv'
<1> USE DEF ScanInv, gateVars, shareVars
<1>1. ScanTypeOK'
    BY DEF ScanTypeOK
<1>2. GateHeld' /\ LoopRuns' /\ Current'
    BY DEF GateHeld, LoopRuns, Current
<1>3. Walked' /\ Later' /\ RowsKept' /\ ScannerSees'
    BY DEF Walked, Later, RowsKept, ScannerSees
<1>4. CheckedCurrent' /\ NothingResurrected'
    BY DEF CheckedCurrent, NothingResurrected
<1> QED
    BY <1>1, <1>2, <1>3, <1>4

\* The pass, the subscription and the end of Close: the scans stay where they
\* are, the folder, its rows and the pass change around them.
LEMMA ShareKeeps ==
    ASSUME ScanInv,
           \/ RunPass \/ EndPass \/ RemoveSubscription \/ RemovePeer
           \/ ForgetSubscription \/ AddSubscription \/ Closed
    PROVE  ScanInv'
<1> USE DEF ScanInv, watcherVars, gateVars, shareVars, stopShareWatch
<1>1. CASE RunPass
    BY <1>1 DEF RunPass, ScanTypeOK, GateHeld, LoopRuns, Current, Walked, Later, RowsKept,
                ScannerSees, CheckedCurrent, NothingResurrected
<1>2. CASE EndPass
    <2>1. pass = folders /\ conf # "off"
        BY <1>2 DEF EndPass, Current
    <2>2. index' = index \/ (index' = [of |-> folders, at |-> 0] /\ index.of # folders)
        BY <1>2, <2>1 DEF EndPass
    <2>3. ScanTypeOK' /\ GateHeld' /\ LoopRuns' /\ Current' /\ Walked' /\ Later' /\ CheckedCurrent'
        BY <1>2, <2>2 DEF EndPass, ScanTypeOK, GateHeld, LoopRuns, Current, Walked, Later,
                          CheckedCurrent
    <2>4. RowsKept' /\ ScannerSees'
        BY <1>2, <2>1, <2>2 DEF EndPass, RowsKept, ScannerSees
    <2>5. NothingResurrected'
        BY <1>2, <2>1, <2>2 DEF EndPass, NothingResurrected
    <2> QED
        BY <2>3, <2>4, <2>5
<1>3. CASE RemoveSubscription \/ RemovePeer
    <2>1. /\ conf' = "stopping" /\ watch' = 0 /\ folders' = folders /\ disk' = disk
          /\ pass' \in {0, pass} /\ UNCHANGED <<gateVars, index, told, life>>
          /\ late' = (late \/ \E a \in Scanner : At(a, "apply"))
        BY <1>3 DEF RemoveSubscription, RemovePeer
    <2>2. late' \in BOOLEAN
        BY <2>1
    <2>3. ScanTypeOK' /\ GateHeld' /\ LoopRuns' /\ Current'
        BY <2>1, <2>2 DEF ScanTypeOK, GateHeld, LoopRuns, Current
    <2>4. Walked' /\ Later' /\ RowsKept' /\ ScannerSees'
        <3>1. conf # "off"
            BY <1>3 DEF RemoveSubscription, RemovePeer
        <3> QED
            BY <2>1, <3>1 DEF Walked, Later, RowsKept, ScannerSees
    <2>5. CheckedCurrent'
        <3>1. late' \/ \A a \in Scanner : scan[a].pc # "apply"
            BY <2>1 DEF At
        <3> QED
            BY <2>1, <3>1 DEF CheckedCurrent
    <2>6. NothingResurrected'
        BY <2>1 DEF NothingResurrected
    <2> QED
        BY <2>3, <2>4, <2>5, <2>6
<1>4. CASE ForgetSubscription
    <2>1. ScanTypeOK' /\ GateHeld' /\ LoopRuns' /\ Current' /\ Walked' /\ Later' /\ RowsKept'
        BY <1>4 DEF ForgetSubscription, Nothing, ScanTypeOK, GateHeld, LoopRuns, Current, Walked,
                    Later, RowsKept
    <2>2. ScannerSees'
        BY <1>4 DEF ForgetSubscription, Nothing, ScannerSees, Walked
    <2>3. CheckedCurrent' /\ NothingResurrected'
        BY <1>4 DEF ForgetSubscription, Nothing, CheckedCurrent, NothingResurrected
    <2> QED
        BY <2>1, <2>2, <2>3
<1>5. CASE AddSubscription
    <2>1. ScanTypeOK' /\ GateHeld' /\ LoopRuns' /\ Current' /\ Walked' /\ Later' /\ ScannerSees'
        BY <1>5 DEF AddSubscription, ScanTypeOK, GateHeld, LoopRuns, Current, Walked, Later,
                    ScannerSees
    <2>2. RowsKept'
        BY <1>5 DEF AddSubscription, RowsKept, ScanTypeOK
    <2>3. CheckedCurrent' /\ NothingResurrected'
        BY <1>5 DEF AddSubscription, Nothing, CheckedCurrent, NothingResurrected, ScanTypeOK
    <2> QED
        BY <2>1, <2>2, <2>3
<1>6. CASE Closed
    BY <1>6 DEF Closed, ScanTypeOK, GateHeld, LoopRuns, Current, Walked, Later, RowsKept,
                ScannerSees, CheckedCurrent, NothingResurrected
<1> QED
    BY <1>1, <1>2, <1>3, <1>4, <1>5, <1>6

-----------------------------------------------------------------------------
(* Steps that move one scanner. *)

\* What the update of one scanner's record means, field by field.
LEMMA MoveEffect ==
    ASSUME ScanTypeOK, NEW a \in Scanner,
           NEW r \in [pc : Control, root : Nat, saw : Nat, since : Nat],
           scan' = [scan EXCEPT ![a] = r]
    PROVE  /\ scan' \in [Scanner -> [pc : Control, root : Nat, saw : Nat, since : Nat]]
           /\ scan'[a] = r /\ \A b \in Scanner \ {a} : scan'[b] = scan[b]
BY DEF ScanTypeOK

\* A scanner outside the gate moves on outside it: it waits for the gate, or
\* is done with what it applied.
LEMMA OutsideKeeps ==
    ASSUME ScanInv, NEW a \in Scanner,
           NEW r \in [pc : Control, root : Nat, saw : Nat, since : Nat],
           scan' = [scan EXCEPT ![a] = r],
           scan[a].pc \notin Inside, r.pc \notin Inside, r.pc # "tell",
           r.root <= folders, r.saw <= disk, r.since <= disk,
           running' \in BOOLEAN, dirty' \in BOOLEAN, told' \in Nat,
           a = "loop" => (running' <=> r.pc # "idle"),
           a # "loop" => running' = running,
           UNCHANGED <<disk, watch, folders, gate, shareVars, index, life>>
    PROVE  ScanInv'
<1> USE DEF ScanInv, shareVars
<1>1. /\ scan' \in [Scanner -> [pc : Control, root : Nat, saw : Nat, since : Nat]]
      /\ scan'[a] = r /\ \A b \in Scanner \ {a} : scan'[b] = scan[b]
    BY MoveEffect
<1>2. ScanTypeOK'
    BY <1>1 DEF ScanTypeOK
<1>3. GateHeld' /\ Current'
    BY <1>1 DEF GateHeld, Current
<1>4. LoopRuns'
    <2>1. "loop" \in Scanner
        BY DEF Scanner
    <2> QED
        BY <1>1, <2>1 DEF LoopRuns
<1>5. Walked' /\ Later' /\ RowsKept' /\ ScannerSees'
    BY <1>1 DEF Walked, Later, RowsKept, ScannerSees, Inside
<1>6. CheckedCurrent' /\ NothingResurrected'
    BY <1>1 DEF CheckedCurrent, NothingResurrected, Inside
<1> QED
    BY <1>2, <1>3, <1>4, <1>5, <1>6

\* The gate is free when a scanner takes it (runShareScan).
LEMMA LockKeeps == ASSUME ScanInv, NEW a \in Scanner, Lock(a) PROVE ScanInv'
<1> USE DEF ScanInv, watcherVars, shareVars
<1> DEFINE r == [scan[a] EXCEPT !.pc = "scan"]
<1>1. /\ gate = {} /\ gate' = {a} /\ scan[a].pc = "wait" /\ running' = running
      /\ UNCHANGED <<disk, watch, folders, shareVars, index, told, life>>
    BY DEF Lock, At
<1>2. dirty' \in BOOLEAN
    BY DEF Lock, ScanTypeOK
<1>3. /\ r \in [pc : Control, root : Nat, saw : Nat, since : Nat]
      /\ r.pc = "scan" /\ r.root = scan[a].root /\ r.saw = scan[a].saw /\ r.since = scan[a].since
      /\ scan' = [scan EXCEPT ![a] = r]
    BY DEF Lock, Moves, ScanTypeOK, Control, Inside
<1>4. /\ scan' \in [Scanner -> [pc : Control, root : Nat, saw : Nat, since : Nat]]
      /\ scan'[a] = r /\ \A b \in Scanner \ {a} : scan'[b] = scan[b]
    BY <1>3, MoveEffect
<1> HIDE DEF r
<1>5. ScanTypeOK'
    BY <1>1, <1>2, <1>3, <1>4 DEF ScanTypeOK
<1>6. GateHeld' /\ LoopRuns' /\ Current'
    BY <1>1, <1>3, <1>4 DEF GateHeld, LoopRuns, Current, Inside, Scanner
<1>7. Walked' /\ Later' /\ RowsKept' /\ ScannerSees'
    BY <1>1, <1>3, <1>4 DEF Walked, Later, RowsKept, ScannerSees
<1>8. CheckedCurrent' /\ NothingResurrected'
    BY <1>1, <1>3, <1>4 DEF CheckedCurrent, NothingResurrected
<1> QED
    BY <1>5, <1>6, <1>7, <1>8

\* A scan that applies nothing lets go of the gate.
LEMMA AbandonKeeps ==
    ASSUME ScanInv, NEW a \in Scanner, scan[a].pc \in Inside, Abandon(a),
           UNCHANGED <<watcherVars, shareVars, index, told, life>>
    PROVE  ScanInv'
<1> USE DEF ScanInv, watcherVars, shareVars
<1> DEFINE r == [Idle EXCEPT !.pc = "end"]
<1>1. /\ gate' = gate \ {a} /\ running' = running /\ dirty' = dirty
      /\ UNCHANGED <<disk, watch, folders, shareVars, index, told, life>>
    BY DEF Abandon
<1>2. /\ r \in [pc : Control, root : Nat, saw : Nat, since : Nat]
      /\ r.pc = "end" /\ r.root = 0 /\ r.saw = 0 /\ r.since = 0
      /\ scan' = [scan EXCEPT ![a] = r]
    BY DEF Abandon, Ends, Idle, Control
<1>3. /\ scan' \in [Scanner -> [pc : Control, root : Nat, saw : Nat, since : Nat]]
      /\ scan'[a] = r /\ \A b \in Scanner \ {a} : scan'[b] = scan[b]
    BY <1>2, MoveEffect
<1> HIDE DEF r
<1>4. ScanTypeOK'
    BY <1>1, <1>2, <1>3 DEF ScanTypeOK
<1>5. GateHeld' /\ LoopRuns' /\ Current'
    BY <1>1, <1>2, <1>3 DEF GateHeld, LoopRuns, Current, Inside, Scanner
<1>6. Walked' /\ Later' /\ RowsKept' /\ ScannerSees'
    BY <1>1, <1>2, <1>3 DEF Walked, Later, RowsKept, ScannerSees
<1>7. CheckedCurrent' /\ NothingResurrected'
    BY <1>1, <1>2, <1>3 DEF CheckedCurrent, NothingResurrected
<1> QED
    BY <1>4, <1>5, <1>6, <1>7

\* A walk sees the folder that is watched, as it is now: no scan that has been
\* applied has seen more of it, and no folder is newer (scanShareLocked).
LEMMA WalkKeeps == ASSUME ScanInv, NEW a \in Scanner, Walk(a) PROVE ScanInv'
<1> USE DEF ScanInv, watcherVars, shareVars
<1>1. scan[a].pc = "scan"
    BY DEF Walk, At
<1>2. CASE Abandon(a)
    BY <1>1, <1>2, AbandonKeeps DEF Walk, Inside
<1>3. CASE /\ watch # 0
           /\ scan' = [scan EXCEPT ![a] = [@ EXCEPT !.pc = "check", !.root = watch, !.saw = disk]]
           /\ UNCHANGED <<running, dirty, gate>>
    <2> DEFINE r == [scan[a] EXCEPT !.pc = "check", !.root = watch, !.saw = disk]
    <2>1. UNCHANGED <<disk, watch, folders, shareVars, index, told, life>>
        BY DEF Walk
    <2>2. /\ r \in [pc : Control, root : Nat, saw : Nat, since : Nat]
          /\ r.pc = "check" /\ r.root = watch /\ r.saw = disk /\ r.since = scan[a].since
          /\ scan' = [scan EXCEPT ![a] = r]
        BY <1>3 DEF ScanTypeOK, Control, Inside
    <2>3. /\ scan' \in [Scanner -> [pc : Control, root : Nat, saw : Nat, since : Nat]]
          /\ scan'[a] = r /\ \A b \in Scanner \ {a} : scan'[b] = scan[b]
        BY <2>2, MoveEffect
    <2> HIDE DEF r
    <2>4. watch = folders
        BY <1>3 DEF Current
    <2>5. ScanTypeOK'
        BY <1>3, <2>1, <2>2, <2>3, <2>4 DEF ScanTypeOK
    <2>6. GateHeld' /\ LoopRuns' /\ Current'
        BY <1>1, <1>3, <2>1, <2>2, <2>3 DEF GateHeld, LoopRuns, Current, Inside, Scanner
    <2>7. Walked' /\ RowsKept' /\ ScannerSees'
        BY <1>3, <2>1, <2>2, <2>3 DEF Walked, RowsKept, ScannerSees, ScanTypeOK
    <2>8. Later'
        BY <2>1, <2>2, <2>3, <2>4 DEF Later, ScanTypeOK
    <2>9. CheckedCurrent' /\ NothingResurrected'
        BY <2>1, <2>2, <2>3 DEF CheckedCurrent, NothingResurrected
    <2> QED
        BY <2>5, <2>6, <2>7, <2>8, <2>9
<1> QED
    BY <1>2, <1>3 DEF Walk

\* The last check finds the watch the walk began with, so the folder is the
\* one the share lives in (scanShareLocked).
LEMMA CheckKeeps == ASSUME ScanInv, NEW a \in Scanner, Check(a) PROVE ScanInv'
<1> USE DEF ScanInv, watcherVars, shareVars
<1>1. scan[a].pc = "check" /\ scan[a].root # 0
    BY DEF Check, At, Walked
<1>2. CASE Abandon(a)
    BY <1>1, <1>2, AbandonKeeps DEF Check, Inside
<1>3. CASE watch = scan[a].root /\ Moves(a, "apply") /\ UNCHANGED <<running, dirty, gate>>
    <2> DEFINE r == [scan[a] EXCEPT !.pc = "apply"]
    <2>1. UNCHANGED <<disk, watch, folders, shareVars, index, told, life>>
        BY DEF Check
    <2>2. /\ r \in [pc : Control, root : Nat, saw : Nat, since : Nat]
          /\ r.pc = "apply" /\ r.root = scan[a].root /\ r.saw = scan[a].saw
          /\ r.since = scan[a].since /\ scan' = [scan EXCEPT ![a] = r]
        BY <1>3 DEF Moves, ScanTypeOK, Control, Inside
    <2>3. /\ scan' \in [Scanner -> [pc : Control, root : Nat, saw : Nat, since : Nat]]
          /\ scan'[a] = r /\ \A b \in Scanner \ {a} : scan'[b] = scan[b]
        BY <2>2, MoveEffect
    <2> HIDE DEF r
    <2>4. scan[a].root = folders /\ conf = "on"
        BY <1>1, <1>3 DEF Current
    <2>5. ScanTypeOK'
        BY <1>3, <2>1, <2>2, <2>3 DEF ScanTypeOK
    <2>6. GateHeld' /\ LoopRuns' /\ Current'
        BY <1>1, <1>3, <2>1, <2>2, <2>3 DEF GateHeld, LoopRuns, Current, Inside, Scanner
    <2>7. Walked' /\ RowsKept' /\ ScannerSees'
        BY <1>1, <2>1, <2>2, <2>3 DEF Walked, RowsKept, ScannerSees
    <2>8. Later'
        BY <1>1, <2>1, <2>2, <2>3 DEF Later
    <2>9. CheckedCurrent' /\ NothingResurrected'
        BY <2>1, <2>2, <2>3, <2>4 DEF CheckedCurrent, NothingResurrected
    <2> QED
        BY <2>5, <2>6, <2>7, <2>8, <2>9
<1> QED
    BY <1>2, <1>3 DEF Check

\* Applying a scan takes no scanner's rows back: the gate was held since the
\* walk, so every scan applied before it saw no more (ApplyScanResult).
LEMMA ApplyKeeps == ASSUME ScanInv, NEW a \in Scanner, Apply(a) PROVE ScanInv'
<1> USE DEF ScanInv, watcherVars, shareVars
<1> DEFINE r == IF index' = index THEN [Idle EXCEPT !.pc = "end"] ELSE [scan[a] EXCEPT !.pc = "tell"]
           found == [of |-> scan[a].root, at |-> scan[a].saw]
<1>1. /\ scan[a].pc = "apply" /\ gate' = gate \ {a} /\ running' = running /\ dirty' = dirty
      /\ UNCHANGED <<disk, watch, folders, shareVars, told, life>>
    BY DEF Apply, At
<1>2. index' \in {index, found}
    BY DEF Apply
<1>3. scan' = [scan EXCEPT ![a] = r]
    BY DEF Apply, Ends, Moves, ScanTypeOK
<1>4. /\ r \in [pc : Control, root : Nat, saw : Nat, since : Nat]
      /\ r.pc \in {"end", "tell"} /\ r.root \in {0, scan[a].root}
      /\ r.saw \in {0, scan[a].saw} /\ r.since \in {0, scan[a].since}
    BY DEF Idle, ScanTypeOK, Control, Inside
<1>5. r.pc = "tell" => index' = found /\ r.root = scan[a].root /\ r.since = scan[a].since
                       /\ r.saw = scan[a].saw
    BY <1>2 DEF Idle, ScanTypeOK
<1>6. /\ scan' \in [Scanner -> [pc : Control, root : Nat, saw : Nat, since : Nat]]
      /\ scan'[a] = r /\ \A b \in Scanner \ {a} : scan'[b] = scan[b]
    BY <1>3, <1>4, MoveEffect
<1> HIDE DEF r
<1>7. ScanTypeOK'
    <2>1. index' \in [of : Nat, at : Nat]
        BY <1>2 DEF ScanTypeOK
    <2> QED
        BY <1>1, <1>4, <1>6, <2>1 DEF ScanTypeOK
<1>8. GateHeld' /\ LoopRuns' /\ Current'
    BY <1>1, <1>4, <1>6 DEF GateHeld, LoopRuns, Current, Inside, Scanner
<1>9. Walked'
    BY <1>1, <1>4, <1>5, <1>6 DEF Walked
<1>10. \A b \in Scanner : scan'[b].pc \notin Inside
    BY <1>1, <1>4, <1>6 DEF GateHeld, Inside
<1>11. Later'
    BY <1>10 DEF Later, Inside
<1>12. RowsKept' /\ ScannerSees'
    <2> SUFFICES ASSUME NEW c \in Scanner, scan'[c].pc = "tell"
                 PROVE  /\ scan'[c].root = folders => index'.of = folders \/ conf = "off"
                        /\ index'.of = scan'[c].root => index'.at >= scan'[c].since
        BY <1>1 DEF RowsKept, ScannerSees
    <2>1. CASE c = a
        <3>1. index'.of = scan'[c].root /\ index'.at = scan[a].saw /\ scan'[c].since = scan[a].since
            BY <1>5, <1>6, <2>1
        <3>2. scan[a].saw >= scan[a].since
            BY <1>1 DEF Walked
        <3> QED
            BY <3>1, <3>2
    <2>2. CASE c # a
        <3>1. scan[c].pc = "tell" /\ scan'[c] = scan[c]
            BY <1>6, <2>2
        <3>2. scan[a].saw >= scan[c].since /\ scan[a].root >= scan[c].root
            BY <1>1, <3>1 DEF Later
        <3>3. CASE index' = index
            BY <3>1, <3>3 DEF RowsKept, ScannerSees
        <3>4. CASE index' = found
            BY <3>1, <3>2, <3>4 DEF ScanTypeOK
        <3> QED
            BY <1>2, <3>3, <3>4
    <2> QED
        BY <2>1, <2>2
<1>13. CheckedCurrent'
    BY <1>1, <1>4, <1>6 DEF CheckedCurrent
<1>14. NothingResurrected'
    BY <1>1, <1>2 DEF CheckedCurrent, NothingResurrected
<1> QED
    BY <1>7, <1>8, <1>9, <1>11, <1>12, <1>13, <1>14

\* What happens outside the gate: the sessions are told, the loop starts, goes
\* round or ends, a caller calls and returns.
LEMMA OutsideStepsKeep ==
    ASSUME ScanInv,
           \/ StartLoop \/ Again
           \/ \E a \in Scanner : propagateShare(a)
           \/ \E c \in Caller : rescanShare(c) \/ Return(c)
    PROVE  ScanInv'
<1> USE DEF watcherVars
<1>1. ScanTypeOK /\ LoopRuns
    BY DEF ScanInv
<1>2. /\ scan \in [Scanner -> [pc : Control, root : Nat, saw : Nat, since : Nat]]
      /\ disk \in Nat /\ folders \in Nat /\ told \in Nat
      /\ running \in BOOLEAN /\ dirty \in BOOLEAN /\ index.at \in Nat
      /\ \A a \in Scanner : /\ scan[a].root <= folders
                            /\ scan[a].saw <= disk /\ scan[a].since <= disk
    BY <1>1 DEF ScanTypeOK
<1>3. Caller \subseteq Scanner \ {"loop"} /\ "loop" \in Scanner
    BY ScanGateAssumption DEF Scanner
<1>4. CASE StartLoop \/ Again
    <2>1. PICK pc \in {"wait", "idle"} : Moves("loop", pc) /\ running' = (pc = "wait")
        <3>1. running = TRUE
            BY <1>1, <1>2, <1>4 DEF LoopRuns, StartLoop, Again, At
        <3> QED
            BY <1>4, <3>1 DEF StartLoop, Again
    <2> DEFINE r == [scan["loop"] EXCEPT !.pc = pc]
    <2>2. /\ r \in [pc : Control, root : Nat, saw : Nat, since : Nat]
          /\ scan' = [scan EXCEPT !["loop"] = r] /\ r.pc = pc
          /\ r.root <= folders /\ r.saw <= disk /\ r.since <= disk
        BY <1>2, <1>3, <2>1 DEF Moves, Control
    <2>3. /\ scan["loop"].pc \in {"start", "end"} /\ dirty' \in BOOLEAN
          /\ UNCHANGED <<disk, watch, folders, gate, shareVars, index, told, life>>
        BY <1>2, <1>4 DEF StartLoop, Again, At
    <2> HIDE DEF r
    <2>4. /\ running' \in BOOLEAN /\ told' \in Nat /\ (running' <=> r.pc # "idle")
          /\ scan["loop"].pc \notin Inside /\ r.pc \notin Inside /\ r.pc # "tell"
        BY <1>2, <2>1, <2>2, <2>3 DEF Inside
    <2> QED
        BY <1>3, <2>2, <2>3, <2>4, OutsideKeeps, Zenon
<1>5. ASSUME NEW a \in Scanner, propagateShare(a) PROVE ScanInv'
    <2> DEFINE r == [Idle EXCEPT !.pc = "end"]
    <2>1. /\ r \in [pc : Control, root : Nat, saw : Nat, since : Nat]
          /\ r.pc = "end" /\ r.root = 0 /\ r.saw = 0 /\ r.since = 0
          /\ scan' = [scan EXCEPT ![a] = r]
        BY <1>5 DEF propagateShare, Ends, Idle, Control
    <2>2. /\ scan[a].pc = "tell" /\ told' \in Nat /\ running' = running /\ dirty' = dirty
          /\ UNCHANGED <<disk, watch, folders, gate, shareVars, index, life>>
        BY <1>2, <1>5 DEF propagateShare, At
    <2> HIDE DEF r
    <2>3. /\ a = "loop" => (running' <=> r.pc # "idle")
          /\ running' \in BOOLEAN /\ dirty' \in BOOLEAN
          /\ r.root <= folders /\ r.saw <= disk /\ r.since <= disk
          /\ scan[a].pc \notin Inside /\ r.pc \notin Inside /\ r.pc # "tell"
        BY <1>1, <1>2, <2>1, <2>2 DEF LoopRuns, Inside
    <2> QED
        BY <2>1, <2>2, <2>3, OutsideKeeps, Zenon
<1>6. ASSUME NEW c \in Caller, rescanShare(c) PROVE ScanInv'
    <2> DEFINE r == [Idle EXCEPT !.pc = "wait", !.since = disk]
    <2>1. /\ r \in [pc : Control, root : Nat, saw : Nat, since : Nat]
          /\ r.pc = "wait" /\ r.root = 0 /\ r.saw = 0 /\ r.since = disk
          /\ scan' = [scan EXCEPT ![c] = r]
        BY <1>2, <1>6 DEF rescanShare, Idle, Control
    <2>2. /\ scan[c].pc = "idle" /\ running' = running /\ dirty' = dirty
          /\ UNCHANGED <<disk, watch, folders, gate, shareVars, index, told, life>>
        BY <1>6 DEF rescanShare, At
    <2> HIDE DEF r
    <2>3. /\ c \in Scanner /\ c # "loop"
          /\ running' \in BOOLEAN /\ dirty' \in BOOLEAN /\ told' \in Nat
          /\ r.root <= folders /\ r.saw <= disk /\ r.since <= disk
          /\ scan[c].pc \notin Inside /\ r.pc \notin Inside /\ r.pc # "tell"
        BY <1>2, <1>3, <2>1, <2>2 DEF Inside
    <2> QED
        BY <2>1, <2>2, <2>3, OutsideKeeps, Zenon
<1>7. ASSUME NEW c \in Caller, Return(c) PROVE ScanInv'
    <2> DEFINE r == [scan[c] EXCEPT !.pc = "idle"]
    <2>1. /\ scan[c].pc = "end" /\ running' = running /\ dirty' = dirty /\ Moves(c, "idle")
          /\ UNCHANGED <<disk, watch, folders, gate, shareVars, index, told, life>>
        BY <1>7 DEF Return, At
    <2>2. /\ r \in [pc : Control, root : Nat, saw : Nat, since : Nat]
          /\ scan' = [scan EXCEPT ![c] = r] /\ r.pc = "idle"
          /\ r.root <= folders /\ r.saw <= disk /\ r.since <= disk
        BY <1>2, <1>3, <2>1 DEF Moves, Control
    <2> HIDE DEF r
    <2>3. /\ c \in Scanner /\ c # "loop"
          /\ running' \in BOOLEAN /\ dirty' \in BOOLEAN /\ told' \in Nat
          /\ scan[c].pc \notin Inside /\ r.pc \notin Inside /\ r.pc # "tell"
        BY <1>2, <1>3, <2>1, <2>2 DEF Inside
    <2> QED
        BY <2>1, <2>2, <2>3, OutsideKeeps, Zenon
<1> QED
    BY <1>4, <1>5, <1>6, <1>7

-----------------------------------------------------------------------------
(* The theorems. *)

\* Every step keeps the invariant.
LEMMA ScanNextKeeps == ASSUME ScanInv, [ScanNext]_scanVars PROVE ScanInv'
<1> USE DEF watcherVars, gateVars
<1>1. CASE Edit
    BY <1>1, EditKeeps
<1>2. CASE eventLoop \/ Close \/ UNCHANGED scanVars
    <2>1. life' \in {"open", "closing", "closed"}
        BY <1>2 DEF ScanInv, ScanTypeOK, eventLoop, Close, scanVars
    <2> QED
        BY <1>2, <2>1, QuietKeeps DEF eventLoop, Close, scanVars
<1>3. CASE Flush \/ periodicLoop
    BY <1>3, TriggerKeeps DEF Flush, periodicLoop
<1>4. CASE StartLoop \/ Again
    BY <1>4, OutsideStepsKeep
<1>5. ASSUME NEW a \in Scanner, Lock(a) \/ scanShareLocked(a) PROVE ScanInv'
    BY <1>5, LockKeeps, WalkKeeps, CheckKeeps, ApplyKeeps, OutsideStepsKeep DEF scanShareLocked
<1>6. ASSUME NEW c \in Caller, rescanShare(c) \/ Return(c) PROVE ScanInv'
    BY <1>6, OutsideStepsKeep
<1>7. CASE \/ RunPass \/ EndPass \/ RemoveSubscription \/ RemovePeer
           \/ ForgetSubscription \/ AddSubscription \/ Closed
    BY <1>7, ShareKeeps
<1> QED
    BY <1>1, <1>2, <1>3, <1>4, <1>5, <1>6, <1>7 DEF ScanNext

LEMMA ScanInitInv == ScanInit => ScanInv
<1> SUFFICES ASSUME ScanInit PROVE ScanInv
    OBVIOUS
<1>1. /\ "loop" \in Scanner /\ Idle \in [pc : Control, root : Nat, saw : Nat, since : Nat]
      /\ Idle.pc = "idle" /\ Idle.root = 0 /\ Idle.saw = 0 /\ Idle.since = 0
    BY DEF Scanner, Idle, Control
<1>2. ScanTypeOK
    <2>1. \A a \in Scanner : scan[a].root = 0 /\ scan[a].saw = 0 /\ scan[a].since = 0
        BY <1>1 DEF ScanInit
    <2>2. index \in [of : Nat, at : Nat]
        BY DEF ScanInit, Nothing
    <2>3. scan \in [Scanner -> [pc : Control, root : Nat, saw : Nat, since : Nat]]
        BY <1>1 DEF ScanInit
    <2>4. disk = 1 /\ folders = 1 /\ watch = 1 /\ pass = 0 /\ told = 0
        BY DEF ScanInit
    <2>5. /\ running \in BOOLEAN /\ dirty \in BOOLEAN /\ late \in BOOLEAN
          /\ conf \in {"on", "stopping", "off"} /\ life \in {"open", "closing", "closed"}
        BY DEF ScanInit
    <2> QED
        BY <2>1, <2>2, <2>3, <2>4, <2>5 DEF ScanTypeOK
<1>3. GateHeld /\ LoopRuns /\ Current /\ NothingResurrected
    BY <1>1 DEF ScanInit, GateHeld, LoopRuns, Inside, Current, NothingResurrected, Nothing
<1>4. Walked /\ Later /\ RowsKept /\ ScannerSees /\ CheckedCurrent
    BY <1>1 DEF ScanInit, Walked, Later, RowsKept, ScannerSees, CheckedCurrent
<1> QED
    BY <1>2, <1>3, <1>4 DEF ScanInv

LEMMA ScanAlways == ScanSpec => []ScanInv
    BY ScanInitInv, ScanNextKeeps, PTL DEF ScanSpec

\* When a scan a caller waited for has been applied, the index describes the
\* folder as it was after the call, whatever other scans, edits, passes and
\* changes of the subscription come between (rescanShare, scanShareLocked).
THEOREM CallerSeesAlways == ScanSpec => []CallerSees
<1>1. ScanInv => CallerSees
    BY DEF ScanInv, ScannerSees, CallerSees, At, Scanner
<1> QED
    BY <1>1, ScanAlways, PTL

\* No row of a folder the share has left is found under it again, unless a
\* scan was past its last check when the watch was stopped (applyConfigChange,
\* scanShareLocked).
THEOREM NothingResurrectedAlways == ScanSpec => []NothingResurrected
<1>1. ScanInv => NothingResurrected
    BY DEF ScanInv
<1> QED
    BY <1>1, ScanAlways, PTL

-----------------------------------------------------------------------------
(* The gate implements Coalesce. *)

\* A step that leaves the loop's scan, its flags and the node's life alone is
\* no step of the abstract work.
LEMMA NotOfTheLoop ==
    ASSUME scan'["loop"].pc = scan["loop"].pc, UNCHANGED <<running, dirty, life>>
    PROVE  UNCHANGED ScanWork!vars
BY DEF ScanWork!vars, Asked, Scanning

\* A scanner other than the loop moves only itself, and Lock clears the
\* triggers only for the loop.
LEMMA CallersStutter ==
    ASSUME ScanInv, NEW c \in Caller,
           Lock(c) \/ scanShareLocked(c) \/ rescanShare(c) \/ Return(c)
    PROVE  UNCHANGED ScanWork!vars
<1>1. c # "loop" /\ c \in Scanner /\ "loop" \in Scanner
    BY ScanGateAssumption DEF Scanner
<1>2. scan \in [Scanner -> [pc : Control, root : Nat, saw : Nat, since : Nat]]
    BY DEF ScanInv, ScanTypeOK
<1>3. UNCHANGED <<running, dirty, life>>
    BY <1>1 DEF Lock, scanShareLocked, Walk, Check, Apply, propagateShare, rescanShare, Return,
                Abandon
<1>4. scan'["loop"].pc = scan["loop"].pc
    <2>1. CASE Lock(c)
        BY <1>1, <1>2, <2>1 DEF Lock, Moves
    <2>2. CASE Walk(c)
        BY <1>1, <1>2, <2>2 DEF Walk, Abandon, Ends
    <2>3. CASE Check(c)
        BY <1>1, <1>2, <2>3 DEF Check, Abandon, Ends, Moves
    <2>4. CASE Apply(c)
        BY <1>1, <1>2, <2>4 DEF Apply, Ends, Moves
    <2>5. CASE propagateShare(c) \/ rescanShare(c) \/ Return(c)
        BY <1>1, <1>2, <2>5 DEF propagateShare, rescanShare, Return, Ends, Moves
    <2> QED
        BY <2>1, <2>2, <2>3, <2>4, <2>5 DEF scanShareLocked
<1> QED
    BY <1>3, <1>4, NotOfTheLoop

\* A trigger is a request, whether it starts the loop or marks it dirty.
LEMMA TriggerRequests ==
    ASSUME ScanInv, rescanShareAsync, UNCHANGED life
    PROVE  ScanWork!Next
<1>1. /\ scan \in [Scanner -> [pc : Control, root : Nat, saw : Nat, since : Nat]]
      /\ "loop" \in Scanner /\ running \in BOOLEAN /\ (running <=> scan["loop"].pc # "idle")
    BY DEF ScanInv, ScanTypeOK, LoopRuns, Scanner
<1>2. Asked' = TRUE /\ Scanning' = Scanning
    <2>1. CASE running
        BY <2>1 DEF rescanShareAsync, Asked, Scanning
    <2>2. CASE ~running
        BY <1>1, <2>2 DEF rescanShareAsync, Asked, Scanning, Moves
    <2> QED
        BY <2>1, <2>2
<1> QED
    BY <1>2 DEF ScanWork!Next, ScanWork!Request

\* The loop itself: it takes the gate where the work begins, lets go of it
\* where the work ends, and drops a request only when the node is closing.
LEMMA LoopSteps ==
    ASSUME ScanInv, StartLoop \/ Again \/ Lock("loop") \/ scanShareLocked("loop")
    PROVE  ScanWork!Next \/ UNCHANGED ScanWork!vars
<1>1. /\ scan \in [Scanner -> [pc : Control, root : Nat, saw : Nat, since : Nat]]
      /\ "loop" \in Scanner /\ (running <=> scan["loop"].pc # "idle")
      /\ running \in BOOLEAN /\ dirty \in BOOLEAN
    BY DEF ScanInv, ScanTypeOK, LoopRuns, Scanner
<1>2. CASE StartLoop
    <2>1. Asked /\ ~Scanning /\ ~Scanning' /\ life' = life /\ (Asked' \/ life # "open")
        BY <1>1, <1>2 DEF StartLoop, At, Moves, Asked, Scanning
    <2> QED
        BY <2>1 DEF ScanWork!Next, ScanWork!Drop, ScanWork!vars
<1>3. CASE Again
    <2>1. /\ ~Scanning /\ ~Scanning' /\ life' = life
          /\ IF dirty /\ life = "open" THEN Asked /\ Asked' ELSE ~Asked' /\ (Asked <=> dirty)
        BY <1>1, <1>3 DEF Again, At, Moves, Asked, Scanning
    <2> QED
        BY <2>1 DEF ScanWork!Next, ScanWork!Drop, ScanWork!vars
<1>4. CASE Lock("loop")
    <2>1. Asked /\ ~Asked' /\ ~Scanning /\ Scanning' /\ life' = life
        BY <1>1, <1>4 DEF Lock, At, Moves, Asked, Scanning
    <2> QED
        BY <2>1 DEF ScanWork!Next, ScanWork!Begin
<1>5. CASE Walk("loop") \/ Check("loop") \/ Apply("loop")
    <2>1. UNCHANGED <<running, dirty, life>>
        BY <1>5 DEF Walk, Check, Apply, Abandon
    <2>2. /\ scan["loop"].pc \in {"scan", "check", "apply"}
          /\ scan'["loop"].pc \in {"check", "apply", "tell", "end"}
        <3>1. CASE Walk("loop")
            BY <1>1, <3>1 DEF Walk, At, Abandon, Ends, Idle
        <3>2. CASE Check("loop")
            BY <1>1, <3>2 DEF Check, At, Abandon, Ends, Moves, Idle
        <3>3. CASE Apply("loop")
            BY <1>1, <3>3 DEF Apply, At, Ends, Moves, Idle
        <3> QED
            BY <1>5, <3>1, <3>2, <3>3
    <2>3. Scanning /\ Asked' = Asked
        BY <2>1, <2>2 DEF Scanning, Asked
    <2> QED
        BY <2>1, <2>3 DEF ScanWork!Next, ScanWork!End, ScanWork!vars
<1>6. CASE propagateShare("loop")
    <2>1. ~Scanning /\ ~Scanning' /\ Asked' = Asked /\ life' = life
        BY <1>1, <1>6 DEF propagateShare, At, Ends, Idle, Asked, Scanning
    <2> QED
        BY <2>1 DEF ScanWork!vars
<1> QED
    BY <1>2, <1>3, <1>4, <1>5, <1>6 DEF scanShareLocked

\* The gate implements Coalesce, for every number of callers and faults: a
\* trigger during a scan leads to one more scan, no two scans of the loop
\* overlap, and a trigger is dropped only once the node closes
\* (rescanShareAsync, runShareScan).
THEOREM GateRefinesCoalesce == ScanSpec => ScanWork!Spec
<1>1. ScanInit => ScanWork!Init
    BY DEF ScanInit, ScanWork!Init, Asked, Scanning, Idle, Scanner
<1>2. ASSUME ScanInv, [ScanNext]_scanVars PROVE [ScanWork!Next]_ScanWork!vars
    <2> USE DEF watcherVars, gateVars
    <2>1. CASE Flush \/ periodicLoop
        BY <1>2, <2>1, TriggerRequests DEF Flush, periodicLoop
    <2>2. CASE StartLoop \/ Again \/ Lock("loop") \/ scanShareLocked("loop")
        BY <1>2, <2>2, LoopSteps
    <2>3. ASSUME NEW c \in Caller,
                 Lock(c) \/ scanShareLocked(c) \/ rescanShare(c) \/ Return(c)
          PROVE  UNCHANGED ScanWork!vars
        BY <1>2, <2>3, CallersStutter
    <2>4. CASE Close
        BY <2>4 DEF Close, Asked, Scanning, ScanWork!Next, ScanWork!Stop
    <2>5. CASE Closed
        BY <2>5 DEF Closed, Asked, Scanning, ScanWork!vars
    <2>6. CASE \/ Edit \/ eventLoop \/ RunPass \/ EndPass \/ RemoveSubscription \/ RemovePeer
               \/ ForgetSubscription \/ AddSubscription \/ UNCHANGED scanVars
        <3>1. UNCHANGED <<gateVars, life>>
            BY <2>6 DEF Edit, eventLoop, RunPass, EndPass, RemoveSubscription, RemovePeer,
                        ForgetSubscription, AddSubscription, scanVars
        <3> QED
            BY <3>1, NotOfTheLoop
    <2> QED
        BY <1>2, <2>1, <2>2, <2>3, <2>4, <2>5, <2>6 DEF ScanNext, Scanner
<1> QED
    BY <1>1, <1>2, ScanAlways, PTL DEF ScanSpec, ScanWork!Spec
=============================================================================
