------------------------------ MODULE ScanGate ------------------------------
(***************************************************************************)
(* The scans of one subscribed share: the watcher that asks for them, the  *)
(* gate that lets one run at a time and coalesces the rest, what a scan    *)
(* applies to the index and tells the peers, and the subscription that may *)
(* be removed and made again, in another folder, while one runs.           *)
(***************************************************************************)
EXTENDS Naturals, FiniteSets

CONSTANTS Share,       \* the share
          Caller,      \* callers of rescanShare: startup, a grant, a confirmed hold
          MaxEdits,    \* bound: changes to the folders
          MaxFolders,  \* bound: folders the share lives in, one after the other
          MaxFaults    \* bound: lost events, failed walks, scans held

ASSUME ScanGateAssumption ==
    /\ "loop" \notin Caller
    /\ MaxEdits \in Nat /\ MaxFolders \in Nat /\ MaxFaults \in Nat

VARIABLES disk,     \* how often the folder has been changed
          event,    \* file system events wait for the event loop ("raised"), or
                    \*   dirty paths for the end of the debounce window ("dirty")
          watch,    \* the folder of shareWatches[share], 0 for none
          folders,  \* folders the share has lived in
          running,  \* shareScan.running
          dirty,    \* shareScan.dirty
          gate,     \* who holds shareScan.mu, {} for nobody
          scan,     \* scan[a]: where a scan of a is
          index,    \* the share's rows: the folder they describe and its changes
          told,     \* the change the peers' sessions last heard of
          pass,     \* the folder of the reconcile pass running, 0 for none
          conf,     \* the subscription: "on", "stopping" or "off"
          late,     \* a scan was about to write rows when its folder went
          faults,
          life      \* the node is "open", "closing" or "closed"

watcherVars == <<disk, event, watch, folders>>
gateVars == <<running, dirty, gate, scan>>
shareVars == <<pass, conf, late>>
scanVars == <<watcherVars, gateVars, shareVars, index, told, faults, life>>

Scanner == {"loop"} \cup Caller
Idle == [pc |-> "idle", root |-> 0, saw |-> 0, since |-> 0]
Nothing == [of |-> 0, at |-> 0]

\* Open: watches are started, then every subscription is scanned.
ScanInit ==
    /\ disk = 1 /\ event = {}
    /\ watch = 1 /\ folders = 1
    /\ running = FALSE /\ dirty = FALSE /\ gate = {}
    /\ scan = [a \in Scanner |-> Idle]
    /\ index = Nothing /\ told = 0
    /\ pass = 0 /\ conf = "on" /\ late = FALSE
    /\ faults = 0 /\ life = "open"

At(a, pc) == scan[a].pc = pc
Moves(a, pc) == scan' = [scan EXCEPT ![a].pc = pc]
Ends(a) == scan' = [scan EXCEPT ![a] = [Idle EXCEPT !.pc = "end"]]
Fault == faults < MaxFaults /\ faults' = faults + 1

----------------------------------------------------------------------------
(* The watcher.                                                            *)

\* The folder changes; fsnotify says so, unless it drops the event.
Edit ==
    /\ life = "open" /\ watch # 0 /\ disk < MaxEdits
    /\ disk' = disk + 1
    /\ \/ event' = event \cup {"raised"} /\ UNCHANGED faults
       \/ Fault /\ UNCHANGED event
    /\ UNCHANGED <<watch, folders, gateVars, shareVars, index, told, life>>

\* The event loop hands what fsnotify reported to the debouncer.
eventLoop ==
    /\ "raised" \in event
    /\ event' = {"dirty"}
    /\ UNCHANGED <<disk, watch, folders, gateVars, shareVars, index, told, faults, life>>

\* A trigger marks the running loop dirty or starts one.
rescanShareAsync ==
    IF running
    THEN dirty' = TRUE /\ UNCHANGED <<running, gate, scan>>
    ELSE running' = TRUE /\ Moves("loop", "start") /\ UNCHANGED <<dirty, gate>>

\* Mutant of Flush: what changes while a scan runs is taken for scanned.
FlushUnlessRunning ==
    /\ "dirty" \in event
    /\ event' = event \ {"dirty"}
    /\ IF running THEN UNCHANGED gateVars ELSE rescanShareAsync
    /\ UNCHANGED <<disk, watch, folders, shareVars, index, told, faults, life>>

\* The debounce window has passed without another mark.
Flush ==
    /\ "dirty" \in event
    /\ event' = event \ {"dirty"}
    /\ rescanShareAsync
    /\ UNCHANGED <<disk, watch, folders, shareVars, index, told, faults, life>>

periodicLoop ==
    /\ watch # 0 /\ life # "closed"
    /\ rescanShareAsync
    /\ UNCHANGED <<watcherVars, shareVars, index, told, faults, life>>

----------------------------------------------------------------------------
(* A scan: one body for the background loop and for callers.               *)

\* goTracked refuses once the node is closing; the loop does not start.
StartLoop ==
    /\ At("loop", "start")
    /\ IF life = "open"
       THEN Moves("loop", "wait") /\ UNCHANGED <<running, dirty, gate>>
       ELSE Moves("loop", "idle") /\ running' = FALSE /\ dirty' = FALSE /\ UNCHANGED gate
    /\ UNCHANGED <<watcherVars, shareVars, index, told, faults, life>>

\* A caller waits for the gate like the loop does.
rescanShare(c) ==
    /\ At(c, "idle") /\ life = "open" /\ conf = "on"
    /\ scan' = [scan EXCEPT ![c] = [Idle EXCEPT !.pc = "wait", !.since = disk]]
    /\ UNCHANGED <<watcherVars, running, dirty, gate, shareVars, index, told, faults, life>>

\* Mutant of Lock: a scan does not wait for the one before it.
LockFree(a) ==
    /\ At(a, "wait")
    /\ gate' = {a} /\ Moves(a, "scan")
    /\ dirty' = IF a = "loop" THEN FALSE ELSE dirty
    /\ UNCHANGED <<watcherVars, running, shareVars, index, told, faults, life>>

\* The gate is taken; the loop forgets the triggers it is about to serve.
Lock(a) ==
    /\ At(a, "wait") /\ gate = {}
    /\ gate' = {a} /\ Moves(a, "scan")
    /\ dirty' = IF a = "loop" THEN FALSE ELSE dirty
    /\ UNCHANGED <<watcherVars, running, shareVars, index, told, faults, life>>

\* A scan that applied nothing is over.
Abandon(a) == gate' = gate \ {a} /\ Ends(a) /\ UNCHANGED <<running, dirty>>

\* scanShareLocked: the watch is looked up, the rows are listed, the folder is
\* walked.  Without a watch, with a foreign .syncat/, an unreadable folder or
\* a cancelled context there is nothing to apply.
Walk(a) ==
    /\ At(a, "scan")
    /\ \/ (watch = 0 \/ life # "open") /\ Abandon(a) /\ UNCHANGED faults
       \/ watch # 0 /\ life = "open" /\ Fault /\ Abandon(a)
       \/ /\ watch # 0 /\ life = "open"
          /\ scan' = [scan EXCEPT ![a] = [@ EXCEPT !.pc = "check", !.root = watch, !.saw = disk]]
          /\ UNCHANGED <<running, dirty, gate, faults>>
    /\ UNCHANGED <<watcherVars, shareVars, index, told, life>>

\* Mutant of Check: the walked folder's watch is not looked up again.
CheckNothing(a) ==
    /\ At(a, "check")
    /\ \/ Fault /\ Abandon(a)
       \/ Moves(a, "apply") /\ UNCHANGED <<running, dirty, gate, faults>>
    /\ UNCHANGED <<watcherVars, shareVars, index, told, life>>

\* The watch must still be the one the scan began with, and no hold drop it.
Check(a) ==
    /\ At(a, "check")
    /\ \/ watch # scan[a].root /\ Abandon(a) /\ UNCHANGED faults
       \/ watch = scan[a].root /\ Fault /\ Abandon(a)
       \/ /\ watch = scan[a].root
          /\ Moves(a, "apply")
          /\ UNCHANGED <<running, dirty, gate, faults>>
    /\ UNCHANGED <<watcherVars, shareVars, index, told, life>>

\* ApplyScanResult, and the gate is released.  A change is told after.
Apply(a) ==
    LET found == [of |-> scan[a].root, at |-> scan[a].saw]
    IN  /\ At(a, "apply")
        /\ index' = IF life = "open" THEN found ELSE index
        /\ gate' = gate \ {a}
        /\ IF index' = index THEN Ends(a) ELSE Moves(a, "tell")
        /\ UNCHANGED <<watcherVars, running, dirty, shareVars, told, faults, life>>

\* propagateShare: the sessions send what the index then holds.
propagateShare(a) ==
    /\ At(a, "tell")
    /\ told' = index.at
    /\ Ends(a)
    /\ UNCHANGED <<watcherVars, running, dirty, gate, shareVars, index, faults, life>>

\* Mutant of Again: the loop ends with its scan.
AgainNever ==
    /\ At("loop", "end")
    /\ Moves("loop", "idle") /\ running' = FALSE /\ dirty' = FALSE
    /\ UNCHANGED <<watcherVars, gate, shareVars, index, told, faults, life>>

\* The loop scans again when it was marked dirty meanwhile.
Again ==
    /\ At("loop", "end")
    /\ IF dirty /\ life = "open"
       THEN Moves("loop", "wait") /\ UNCHANGED <<running, dirty>>
       ELSE Moves("loop", "idle") /\ running' = FALSE /\ dirty' = FALSE
    /\ UNCHANGED <<watcherVars, gate, shareVars, index, told, faults, life>>

Return(c) ==
    /\ At(c, "end")
    /\ Moves(c, "idle")
    /\ UNCHANGED <<watcherVars, running, dirty, gate, shareVars, index, told, faults, life>>

----------------------------------------------------------------------------
(* The subscription, and the passes of its session.                        *)

\* A pass, from an index update or from ReconcileShare, of a session that was
\* granted the share: once reconcileMu is held the share is looked up again,
\* and a neutered one is left alone.
RunPass ==
    /\ conf = "on" /\ pass = 0 /\ life = "open"
    /\ pass' = watch
    /\ UNCHANGED <<watcherVars, gateVars, conf, late, index, told, faults, life>>

\* It has written rows of the folder it pulled into.
EndPass ==
    /\ pass # 0
    /\ index' = IF index.of = pass \/ life = "closed" THEN index ELSE [of |-> pass, at |-> 0]
    /\ pass' = 0
    /\ UNCHANGED <<watcherVars, gateVars, conf, late, told, faults, life>>

\* stopShareWatch: the watcher's goroutines are waited for.
stopShareWatch == watch' = 0 /\ event' = {} /\ UNCHANGED <<disk, folders>>

\* applyConfigChange of a removed subscription: its watch is stopped and the
\* share neutered, ...
RemoveSubscription ==
    /\ conf = "on" /\ life = "open"
    /\ conf' = "stopping"
    /\ stopShareWatch
    /\ late' = (late \/ \E a \in Scanner : At(a, "apply"))
    /\ UNCHANGED <<gateVars, pass, index, told, faults, life>>

\* ... with its peer, whose session's context is cancelled with all its work,
RemovePeer ==
    /\ conf = "on" /\ life = "open"
    /\ conf' = "stopping"
    /\ stopShareWatch
    /\ pass' = 0
    /\ late' = (late \/ \E a \in Scanner : At(a, "apply"))
    /\ UNCHANGED <<gateVars, index, told, faults, life>>

\* ... and after waitShareIdle its rows are forgotten.
ForgetSubscription ==
    /\ conf = "stopping" /\ pass = 0
    /\ conf' = "off"
    /\ index' = Nothing
    /\ UNCHANGED <<watcherVars, gateVars, pass, late, told, faults, life>>

\* AddSubscription, into another folder.
AddSubscription ==
    /\ conf = "off" /\ life = "open" /\ folders < MaxFolders
    /\ conf' = "on"
    /\ watch' = folders + 1 /\ folders' = folders + 1
    /\ UNCHANGED <<disk, event, gateVars, pass, late, index, told, faults, life>>

----------------------------------------------------------------------------
(* Node.Close: the context is cancelled, the loop waited for, the watches  *)
(* and the store closed.                                                   *)

Close ==
    /\ life = "open"
    /\ life' = "closing"
    /\ UNCHANGED <<watcherVars, gateVars, shareVars, index, told, faults>>

Closed ==
    /\ life = "closing"
    /\ scan["loop"].pc \in {"idle", "start"} /\ pass = 0
    /\ life' = "closed"
    /\ stopShareWatch
    /\ UNCHANGED <<gateVars, shareVars, index, told, faults>>

----------------------------------------------------------------------------

scanShareLocked(a) == Walk(a) \/ Check(a) \/ Apply(a) \/ propagateShare(a)

ScanNext ==
    \/ Edit \/ eventLoop \/ Flush \/ periodicLoop
    \/ StartLoop \/ Again
    \/ \E a \in Scanner : Lock(a) \/ scanShareLocked(a)
    \/ \E c \in Caller : rescanShare(c) \/ Return(c)
    \/ RunPass \/ EndPass
    \/ RemoveSubscription \/ RemovePeer \/ ForgetSubscription \/ AddSubscription
    \/ Close \/ Closed

ScanSpec == ScanInit /\ [][ScanNext]_scanVars

\* Goroutines run and walks end, and the gate's mutex serves who waits for it.
\* Nothing is assumed of callers, of the subscription or of periodicLoop.
ScanFairness ==
    /\ WF_scanVars(eventLoop) /\ WF_scanVars(Flush)
    /\ SF_scanVars(Lock("loop"))
    /\ WF_scanVars(StartLoop \/ scanShareLocked("loop") \/ Again)
    /\ \A c \in Caller : WF_scanVars(scanShareLocked(c))

----------------------------------------------------------------------------

Scanning == scan["loop"].pc \in {"scan", "check", "apply"}
Asked == running /\ (scan["loop"].pc \in {"start", "wait"} \/ dirty)

ScanWork == INSTANCE Coalesce WITH
    Key <- {Share},
    asked <- IF Asked THEN {Share} ELSE {},
    busy <- IF Scanning THEN {Share} ELSE {},
    over <- life # "open"

\* The gate keeps what Coalesce promises: a trigger that comes while a scan
\* runs costs one more scan, which begins after it, and none is lost while the
\* node is open (rescanShareAsync).
ScansCoalesce == ScanWork!Spec /\ ScanWork!Served

\* When a scan a caller waited for has been applied, the index describes the
\* folder as it was after the call, whatever other scans were under way
\* (rescanShare).
CallerSees ==
    \A c \in Caller : At(c, "tell") /\ index.of = scan[c].root => index.at >= scan[c].since

\* A removed subscription leaves no rows behind, and a new one into another
\* folder finds none of the old folder's, unless a scan had already made its
\* last check when the watch was stopped (applyConfigChange, scanShareLocked).
NothingResurrected ==
    late \/ /\ conf = "off" => index = Nothing
            /\ conf = "on" => index.of \in {0, folders}

Noticed == told = disk \/ watch = 0 \/ life # "open"

\* A change of the folder reaches the peers: by its event alone when nothing
\* fails, and by the periodic rescan, however often events are lost or scans
\* fail or are held (debouncer, periodicLoop, rescanShareAsync).
EditsNoticed ==
    /\ [](faults = 0) => (event # {} ~> Noticed)
    /\ []<><<periodicLoop>>_scanVars => (told # disk ~> Noticed)
=============================================================================
