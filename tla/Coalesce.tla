------------------------------ MODULE Coalesce ------------------------------
(***************************************************************************)
(* What coalesced background work promises: any number of requests for a   *)
(* key cost one run, the run begins after the last of them, runs of one    *)
(* key never overlap, and a request is lost only once work is over.  The   *)
(* scan gate of a share and the index queue of a session both implement    *)
(* it.                                                                     *)
(***************************************************************************)
CONSTANT Key

VARIABLES asked,  \* keys with a request that no run has begun since
          busy,   \* keys whose work is running
          over    \* the owner has shut down

vars == <<asked, busy, over>>

Init == asked = {} /\ busy = {} /\ over = FALSE

Request(k) == asked' = asked \cup {k} /\ UNCHANGED <<busy, over>>

Begin(k) ==
    /\ k \in asked /\ k \notin busy
    /\ asked' = asked \ {k}
    /\ busy' = busy \cup {k}
    /\ UNCHANGED over

End(k) == k \in busy /\ busy' = busy \ {k} /\ UNCHANGED <<asked, over>>

Stop == over' = TRUE /\ UNCHANGED <<asked, busy>>

Drop(k) == over /\ asked' = asked \ {k} /\ UNCHANGED <<busy, over>>

Next == Stop \/ \E k \in Key : Request(k) \/ Begin(k) \/ End(k) \/ Drop(k)

Spec == Init /\ [][Next]_vars

Served == \A k \in Key : k \in asked ~> k \notin asked \/ over
=============================================================================
