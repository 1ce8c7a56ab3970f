---------------------------- MODULE MC_Coalesce ----------------------------
(* The two components that promise Coalesce, in one run: an initial state  *)
(* chooses which of them moves, and the other stays as it begins.          *)
EXTENDS ScanGate, IndexQueue

VARIABLE side

vars == <<side, scanVars, queueVars>>

Init == side \in {"scans", "jobs"} /\ ScanInit /\ QueueInit

Next ==
    \/ side = "scans" /\ ScanNext /\ UNCHANGED <<side, queueVars>>
    \/ side = "jobs" /\ QueueNext /\ UNCHANGED <<side, scanVars>>

Spec == Init /\ [][Next]_vars /\ ScanFairness /\ QueueFairness
=============================================================================
