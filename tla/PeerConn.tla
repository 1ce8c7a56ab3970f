------------------------------ MODULE PeerConn ------------------------------
(***************************************************************************)
(* Two nodes that have each other configured as peers: the supervisor that *)
(* dials with backoff, the handler of an accepted connection, the v2       *)
(* handshake, the deduplication rule, the adopted connection's teardown,   *)
(* the cached transport client, and a node's shutdown and restart.         *)
(*                                                                         *)
(* Every node runs one supervisor goroutine (sup), one handler goroutine   *)
(* per inbound connection (acc) and one goroutine for the connection it    *)
(* has adopted (run).  What one of them does under peerConn.mu is a step.  *)
(* Durations are left out: a timer may fire whenever it is armed, except   *)
(* that Prompt says no dial outlasts staleInboundGrace.                    *)
(***************************************************************************)
EXTENDS Naturals, FiniteSets

CONSTANTS Node,       \* the two nodes
          Higher,     \* the one with the higher public key
          Slot,       \* connections of one dialer that may exist at once
          None,       \* no connection
          WarnAfter,  \* dedupLossWarnAfter
          Handlers,   \* maxInboundHandshakesPerPeer
          Prompt,     \* does every dial finish within staleInboundGrace?
          MaxEvents   \* dials failed, links cut, nodes killed or shut down, peers removed

ASSUME PeerConnAssumption ==
    /\ IsFiniteSet(Node) /\ Cardinality(Node) = 2 /\ Higher \in Node
    /\ None \notin Node \X Slot
    /\ WarnAfter \in Nat \ {0} /\ Handlers \in Nat \ {0}
    /\ Prompt \in BOOLEAN /\ MaxEvents \in Nat

VARIABLES life,     \* life[n]: how far n is through Open or Close:
                    \*   "starting", "open", "cancelled", "closing", "closed", "crashed"
          removed,  \* removed[n]: n no longer has its peer configured
          session,  \* session[n]: the connection n has adopted, or None
          age,      \* age[n]: is that connection older than the grace ("fresh", "old")
          status,   \* status[n]: the state ("disconnected", "connecting", "connected",
                    \*   "backing_off") and the last error ("", "dial", "dedup") n reports
          losses,   \* losses[n]: dedup losses since a connection was adopted, up to WarnAfter
          sup,      \* sup[n]: where n's supervisor is, and its connection
          run,      \* run[n]: the adopted connection's goroutine: "none", "running", "ended"
          client,   \* client[n]: the client n's transport has cached: "none", "good", "stale"
          link,     \* link[c]: the connection: the frame on it, is it cut, its two ends
          acc,      \* acc[c]: where the handler of an inbound connection is
          events    \* how many of the bounded events have happened

vars == <<life, removed, session, age, status, losses, sup, run, client, link, acc, events>>

\* A connection is named by its dialer and a slot.
Conn == Node \X Slot
Peer(n) == CHOOSE m \in Node : m # n
Acceptor(c) == Peer(c[1])

NoLink == [msg |-> "none", cut |-> FALSE, end |-> [n \in Node |-> "none"]]
At(pc, c) == [pc |-> pc, conn |-> c]
Status(state, err) == [state |-> state, err |-> err]

\* Keys decide which of the two nodes' dials survives.
KeepConnection(n, dialed) == dialed = (n = Higher)

\* n.ctx and pc.ctx.
NodeCtxDone(n) == life[n] \notin {"starting", "open"}
PeerCtxDone(n) == NodeCtxDone(n) \/ removed[n]

Init ==
    /\ life = [n \in Node |-> "open"]
    /\ removed = [n \in Node |-> FALSE]
    /\ session = [n \in Node |-> None]
    /\ age = [n \in Node |-> "fresh"]
    /\ status = [n \in Node |-> Status("disconnected", "")]
    /\ losses = [n \in Node |-> 0]
    /\ sup = [n \in Node |-> At("top", None)]
    /\ run = [n \in Node |-> "none"]
    /\ client = [n \in Node |-> "none"]
    /\ link = [c \in Conn |-> NoLink]
    /\ acc = [c \in Conn |-> "none"]
    /\ events = 0

\* Closing an end; a connection with no end left is forgotten.
Ended(l, n, how) ==
    IF l.end[Peer(n)] = "open" THEN [l EXCEPT !.end[n] = how] ELSE NoLink

CloseEnd(c, n) == link' = [link EXCEPT ![c] = Ended(@, n, "closed")]

\* Connections of n's that nobody refers to any more.
Free(n) == {c \in {n} \X Slot : /\ link[c] = NoLink /\ acc[c] = "none"
                                /\ \A m \in Node : session[m] # c /\ sup[m].conn # c}

Open(c, n) == link[c].end[n] = "open"

\* What n sends on c can reach a peer that still has its end.
Flows(c) == ~link[c].cut /\ \A n \in Node : Open(c, n)

\* n can tell, at once or after a timeout, that c leads nowhere.
Broken(c, n) == link[c].cut \/ ~Open(c, n) \/ ~Open(c, Peer(n))

-----------------------------------------------------------------------------
(* The supervisor: one dial attempt after another. *)

\* Parks on the adopted connection, or starts a dial.
dialAttempt(n) ==
    /\ sup[n].pc = "top"
    /\ sup' = [sup EXCEPT ![n] =
                 IF PeerCtxDone(n) THEN At("stopped", None)
                 ELSE IF session[n] # None THEN At("parked", session[n])
                 ELSE At("connecting", None)]
    /\ UNCHANGED <<life, removed, session, age, status, losses, run, client, link, acc, events>>

\* setState(ConnStateConnecting): a connection may have been adopted since.
setState(n) ==
    /\ sup[n].pc = "connecting"
    /\ status' = [status EXCEPT ![n].state = IF session[n] = None THEN "connecting" ELSE @]
    /\ sup' = [sup EXCEPT ![n] = At("dialing", None)]
    /\ UNCHANGED <<life, removed, session, age, losses, run, client, link, acc, events>>

Listening(n) == life[n] \in {"starting", "open", "cancelled", "closing"}

\* Transport.Dial returns a connection, and our Hello goes out on it.
Dial(n) ==
    /\ sup[n].pc = "dialing"
    /\ Free(n) # {}
    /\ Listening(Peer(n)) /\ client[n] # "stale"
    /\ LET c == CHOOSE c \in Free(n) : TRUE
       IN  /\ link' = [link EXCEPT ![c] = [msg |-> "Hello", cut |-> FALSE,
                                           end |-> [m \in Node |-> "open"]]]
           /\ acc' = [acc EXCEPT ![c] = "arrived"]
           /\ sup' = [sup EXCEPT ![n] = At("shake", c)]
    /\ client' = [client EXCEPT ![n] = "good"]
    /\ UNCHANGED <<life, removed, session, age, status, losses, run, events>>

\* Mutant of DialFails: the client that could not dial stays cached.
DialFailsKeepingClient(n) ==
    /\ sup[n].pc = "dialing"
    /\ IF Listening(Peer(n)) /\ client[n] # "stale" /\ ~PeerCtxDone(n)
       THEN events < MaxEvents /\ events' = events + 1
       ELSE UNCHANGED events
    /\ sup' = [sup EXCEPT ![n] = At("failed", None)]
    /\ UNCHANGED <<life, removed, session, age, status, losses, run, client, link, acc>>

\* Transport.Dial fails, or dialTimeout ends it; its client is discarded.
DialFails(n) ==
    /\ sup[n].pc = "dialing"
    /\ IF Listening(Peer(n)) /\ client[n] # "stale" /\ ~PeerCtxDone(n)
       THEN events < MaxEvents /\ events' = events + 1
       ELSE UNCHANGED events
    /\ client' = [client EXCEPT ![n] = "none"]
    /\ sup' = [sup EXCEPT ![n] = At("failed", None)]
    /\ UNCHANGED <<life, removed, session, age, status, losses, run, link, acc>>

\* supersededByAdoptedConn: a failure while a connection landed is no failure.
Superseded(n) ==
    /\ sup[n].pc = "failed"
    /\ sup' = [sup EXCEPT ![n] = At(IF session[n] # None THEN "top" ELSE "noteFailure", None)]
    /\ UNCHANGED <<life, removed, session, age, status, losses, run, client, link, acc, events>>

noteDialFailure(n) ==
    /\ sup[n].pc = "noteFailure"
    /\ status' = [status EXCEPT ![n] = IF session[n] = None THEN Status("backing_off", "dial") ELSE @]
    /\ sup' = [sup EXCEPT ![n] = At("pause", None)]
    /\ UNCHANGED <<life, removed, session, age, losses, run, client, link, acc, events>>

\* The backoff delay, or dedupLossPause, is over (or the context is).
Supervise(n) ==
    /\ sup[n].pc = "pause"
    /\ sup' = [sup EXCEPT ![n] = At("top", None)]
    /\ UNCHANGED <<life, removed, session, age, status, losses, run, client, link, acc, events>>

\* The connection the supervisor waits on has ended.  One it dialed itself
\* and that lasted less than minConnectionLifetime counts as a failure.
ConnectionEnded(n) ==
    /\ sup[n].pc \in {"parked", "adopted"}
    /\ session[n] # sup[n].conn \/ PeerCtxDone(n)
    /\ \E next \in (IF sup[n].pc = "adopted" THEN {"top", "pause"} ELSE {"top"}) :
          sup' = [sup EXCEPT ![n] = At(next, None)]
    /\ UNCHANGED <<life, removed, session, age, status, losses, run, client, link, acc, events>>

-----------------------------------------------------------------------------
(* The handshake. *)

\* Handlers that hold one of the peer's handshake slots.
Admitted(n) == {c \in Conn : acc[c] \in {"auth", "lookup", "offer", "redial"} /\ Acceptor(c) = n}

\* A tracked handler is started unless the node is shutting down.
onAccept(c) ==
    LET n == Acceptor(c)
    IN  /\ acc[c] = "arrived"
        /\ IF NodeCtxDone(n)
           THEN CloseEnd(c, n) /\ acc' = [acc EXCEPT ![c] = "none"]
           ELSE acc' = [acc EXCEPT ![c] = "hello"] /\ UNCHANGED link
        /\ UNCHANGED <<life, removed, session, age, status, losses, sup, run, client, events>>

\* The responder knows the peer, and the peer has a handshake slot left.
\* Peers are registered at the end of Open.
IsKnownPeer(n) == life[n] # "starting" /\ ~removed[n] /\ Cardinality(Admitted(n)) < Handlers

ReadHello(c) ==
    LET n == Acceptor(c)
    IN  /\ acc[c] = "hello" /\ Flows(c) /\ link[c].msg = "Hello"
        /\ IF IsKnownPeer(n)
           THEN /\ link' = [link EXCEPT ![c].msg = "HelloAuth"]
                /\ acc' = [acc EXCEPT ![c] = "auth"]
           ELSE /\ link' = [link EXCEPT ![c] = Ended([@ EXCEPT !.msg = "Error"], n, "closed")]
                /\ acc' = [acc EXCEPT ![c] = "none"]
        /\ UNCHANGED <<life, removed, session, age, status, losses, sup, run, client, events>>

ReadHelloAuth(n) ==
    LET c == sup[n].conn
    IN  /\ sup[n].pc = "shake" /\ Flows(c) /\ link[c].msg = "HelloAuth"
        /\ link' = [link EXCEPT ![c].msg = "Auth"]
        /\ UNCHANGED <<life, removed, session, age, status, losses, sup, run, client, acc, events>>

ReadAuth(c) ==
    /\ acc[c] = "auth" /\ Flows(c) /\ link[c].msg = "Auth"
    /\ link' = [link EXCEPT ![c].msg = "Finished"]
    /\ acc' = [acc EXCEPT ![c] = "lookup"]
    /\ UNCHANGED <<life, removed, session, age, status, losses, sup, run, client, events>>

\* The peer may have been removed during the handshake, and still may be
\* between this lookup and the offer.
lookupPeer(c) ==
    LET n == Acceptor(c)
    IN  /\ acc[c] = "lookup"
        /\ IF removed[n]
           THEN CloseEnd(c, n) /\ acc' = [acc EXCEPT ![c] = "none"]
           ELSE acc' = [acc EXCEPT ![c] = "offer"] /\ UNCHANGED link
        /\ UNCHANGED <<life, removed, session, age, status, losses, sup, run, client, events>>

\* Finished may be read after the responder has closed the connection.
ReadFinished(n) ==
    LET c == sup[n].conn
    IN  /\ sup[n].pc = "shake" /\ Open(c, n) /\ ~link[c].cut /\ link[c].msg = "Finished"
        /\ link' = [link EXCEPT ![c].msg = "none"]
        /\ sup' = [sup EXCEPT ![n] = At("offer", c)]
        /\ UNCHANGED <<life, removed, session, age, status, losses, run, client, acc, events>>

\* A timeout, a closed or broken connection, or the end of the context.
InitiateFails(n) ==
    LET c == sup[n].conn
    IN  /\ sup[n].pc = "shake"
        /\ Broken(c, n) \/ PeerCtxDone(n)
        /\ CloseEnd(c, n)
        /\ sup' = [sup EXCEPT ![n] = At("failed", None)]
        /\ UNCHANGED <<life, removed, session, age, status, losses, run, client, acc, events>>

AcceptFails(c) ==
    LET n == Acceptor(c)
    IN  /\ acc[c] \in {"hello", "auth"}
        /\ Broken(c, n) \/ NodeCtxDone(n)
        /\ CloseEnd(c, n)
        /\ acc' = [acc EXCEPT ![c] = "none"]
        /\ UNCHANGED <<life, removed, session, age, status, losses, sup, run, client, events>>

-----------------------------------------------------------------------------
(* offer: the deduplication rule, and adoption. *)

\* Mutant of Adopted: the count of dedup losses survives an adoption.
AdoptedKeepingLosses(n, c) ==
    /\ session' = [session EXCEPT ![n] = c]
    /\ age' = [age EXCEPT ![n] = "fresh"]
    /\ status' = [status EXCEPT ![n] = Status("connected", "")]
    /\ UNCHANGED losses
    /\ run' = [run EXCEPT ![n] = IF life[n] \in {"open", "cancelled"} THEN "running" ELSE "none"]

\* The fields set under mu, and the tracked goroutine that will tear the
\* connection down.  goTracked refuses it on a node that is closing.
Adopted(n, c) ==
    /\ session' = [session EXCEPT ![n] = c]
    /\ age' = [age EXCEPT ![n] = "fresh"]
    /\ status' = [status EXCEPT ![n] = Status("connected", "")]
    /\ losses' = [losses EXCEPT ![n] = 0]
    /\ run' = [run EXCEPT ![n] = IF life[n] \in {"open", "cancelled"} THEN "running" ELSE "none"]

Adopts(n, dialed) == KeepConnection(n, dialed) /\ session[n] = None

\* The supervisor offers what it dialed.
OfferDialed(n) ==
    LET c == sup[n].conn
    IN  /\ sup[n].pc = "offer"
        /\ IF Adopts(n, TRUE)
           THEN /\ Adopted(n, c)
                /\ sup' = [sup EXCEPT ![n] = At("adopted", c)]
                /\ UNCHANGED link
           ELSE /\ CloseEnd(c, n)
                /\ sup' = [sup EXCEPT ![n] =
                             At(IF KeepConnection(n, TRUE) THEN "pause" ELSE "noteLoss", None)]
                /\ UNCHANGED <<session, age, status, losses, run>>
        /\ UNCHANGED <<life, removed, client, acc, events>>

\* A handler offers what it accepted.
OfferAccepted(c) ==
    LET n == Acceptor(c)
    IN  /\ acc[c] = "offer"
        /\ IF Adopts(n, FALSE)
           THEN /\ Adopted(n, c)
                /\ acc' = [acc EXCEPT ![c] = "none"]
                /\ UNCHANGED link
           ELSE /\ CloseEnd(c, n)
                /\ acc' = [acc EXCEPT ![c] = "redial"]
                /\ UNCHANGED <<session, age, status, losses, run>>
        /\ UNCHANGED <<life, removed, sup, client, events>>

-----------------------------------------------------------------------------
(* What a connection that was not adopted tells about the one that was. *)

\* Mutant of notePeerRedialed: a connection of any age is taken for dead.
notePeerRedialedAtOnce(c) ==
    LET n == Acceptor(c)
    IN  /\ acc[c] = "redial"
        /\ IF session[n] # None /\ Open(session[n], n)
           THEN CloseEnd(session[n], n) ELSE UNCHANGED link
        /\ acc' = [acc EXCEPT ![c] = "none"]
        /\ UNCHANGED <<life, removed, session, age, status, losses, sup, run, client, events>>

\* The peer dials only when it has no session: ours is dead, unless it is
\* younger than staleInboundGrace.
notePeerRedialed(c) ==
    LET n == Acceptor(c)
    IN  /\ acc[c] = "redial"
        /\ IF session[n] # None /\ age[n] = "old" /\ Open(session[n], n)
           THEN CloseEnd(session[n], n) ELSE UNCHANGED link
        /\ acc' = [acc EXCEPT ![c] = "none"]
        /\ UNCHANGED <<life, removed, session, age, status, losses, sup, run, client, events>>

\* The error is set whether or not a connection was adopted since: the count
\* an adoption resets is what keeps it off an adopted connection.
noteDedupLoss(n) ==
    LET l == IF losses[n] < WarnAfter THEN losses[n] + 1 ELSE losses[n]
    IN  /\ sup[n].pc = "noteLoss"
        /\ losses' = [losses EXCEPT ![n] = l]
        /\ status' = [status EXCEPT ![n].err = IF l = WarnAfter THEN "dedup" ELSE @]
        /\ sup' = [sup EXCEPT ![n] = At("pause", None)]
        /\ UNCHANGED <<life, removed, session, age, run, client, link, acc, events>>

\* staleInboundGrace passes.  Prompt dials and handshakes that began before
\* the connection was adopted have ended by then.
Age(n) ==
    /\ session[n] # None /\ age[n] = "fresh"
    /\ Prompt => /\ sup[Peer(n)].pc \notin {"connecting", "dialing", "shake", "offer"}
                 /\ \A c \in Conn : acc[c] = "none"
    /\ age' = [age EXCEPT ![n] = "old"]
    /\ UNCHANGED <<life, removed, session, status, losses, sup, run, client, link, acc, events>>

-----------------------------------------------------------------------------
(* runConnection: the end of the adopted connection. *)

\* Mutant of Disconnect: the end of the peer's context ends no connection.
DisconnectBroken(n) ==
    LET c == session[n]
    IN  /\ run[n] = "running"
        /\ Broken(c, n)
        /\ IF Open(c, n) THEN CloseEnd(c, n) ELSE UNCHANGED link
        /\ client' = [client EXCEPT ![n] = "none"]
        /\ run' = [run EXCEPT ![n] = "ended"]
        /\ UNCHANGED <<life, removed, session, age, status, losses, sup, acc, events>>

\* The peer closed, the link broke, the keepalive gave up, or this end is
\* being shut down: the session and the connection are closed, and the
\* transport's client is discarded, under a dial that may be using it.
Disconnect(n) ==
    LET c == session[n]
        dialing == IF sup[n].pc \in {"shake", "offer"} THEN {sup[n].conn} ELSE {}
    IN  /\ run[n] = "running"
        /\ Broken(c, n) \/ PeerCtxDone(n)
        /\ link' = [d \in Conn |->
                      IF d = c /\ Open(c, n) THEN Ended(link[c], n, "closed")
                      ELSE IF d \in dialing /\ link[d] # NoLink THEN [link[d] EXCEPT !.cut = TRUE]
                      ELSE link[d]]
        /\ client' = [client EXCEPT ![n] = IF sup[n].pc = "dialing" THEN "stale" ELSE "none"]
        /\ run' = [run EXCEPT ![n] = "ended"]
        /\ UNCHANGED <<life, removed, session, age, status, losses, sup, acc, events>>

\* The fields reset under mu in the section that lets the supervisor redial.
Released(n) ==
    /\ run[n] = "ended"
    /\ session' = [session EXCEPT ![n] = None]
    /\ age' = [age EXCEPT ![n] = "fresh"]
    /\ status' = [status EXCEPT ![n].state = IF @ = "connected" THEN "disconnected" ELSE @]
    /\ run' = [run EXCEPT ![n] = "none"]
    /\ UNCHANGED <<life, removed, losses, sup, client, link, acc, events>>

-----------------------------------------------------------------------------
(* The node's life, and what the network may do to it. *)

\* Open's last steps: the configured peers are registered and dialed.
startConfiguredPeers(n) ==
    /\ life[n] = "starting"
    /\ life' = [life EXCEPT ![n] = "open"]
    /\ sup' = [sup EXCEPT ![n] = At(IF removed[n] THEN "stopped" ELSE "top", None)]
    /\ UNCHANGED <<removed, session, age, status, losses, run, client, link, acc, events>>

\* Close, up to the flag that refuses tracked goroutines.
Cancel(n) ==
    /\ life[n] = "open" /\ events < MaxEvents
    /\ life' = [life EXCEPT ![n] = "cancelled"]
    /\ events' = events + 1
    /\ UNCHANGED <<removed, session, age, status, losses, sup, run, client, link, acc>>

Close(n) ==
    /\ life[n] = "cancelled"
    /\ life' = [life EXCEPT ![n] = "closing"]
    /\ UNCHANGED <<removed, session, age, status, losses, sup, run, client, link, acc, events>>

\* Mutant of Tracked: handlers of accepted connections are not counted.
TrackedDialsOnly(n) == sup[n].pc # "stopped" \/ run[n] # "none"

\* Goroutines of n's that Close waits for.
Tracked(n) ==
    \/ sup[n].pc # "stopped" \/ run[n] # "none"
    \/ \E c \in Conn : Acceptor(c) = n /\ acc[c] \notin {"none", "arrived"}

\* The process is gone: its ends of all connections with it, silently after
\* a crash, and what the peer's transport cached for it leads nowhere.
Gone(n, how) ==
    /\ link' = [c \in Conn |-> IF Open(c, n) THEN Ended(link[c], n, how) ELSE link[c]]
    /\ client' = [client EXCEPT ![n] = "none",
                                ![Peer(n)] = IF @ = "good" THEN "stale" ELSE @]

\* wg.Wait has returned: the store and the transport are closed.
Closed(n) ==
    /\ life[n] = "closing" /\ ~Tracked(n)
    /\ life' = [life EXCEPT ![n] = "closed"]
    /\ Gone(n, "closed")
    /\ acc' = [c \in Conn |-> IF Acceptor(c) = n /\ acc[c] = "arrived" THEN "none" ELSE acc[c]]
    /\ UNCHANGED <<removed, session, age, status, losses, sup, run, events>>

\* A process starts again with nothing but its configuration.
Restart(n) ==
    /\ life[n] \in {"closed", "crashed"}
    /\ life' = [life EXCEPT ![n] = "starting"]
    /\ session' = [session EXCEPT ![n] = None]
    /\ age' = [age EXCEPT ![n] = "fresh"]
    /\ status' = [status EXCEPT ![n] = Status("disconnected", "")]
    /\ losses' = [losses EXCEPT ![n] = 0]
    /\ UNCHANGED <<removed, sup, run, client, link, acc, events>>

Crash(n) ==
    /\ life[n] \notin {"closed", "crashed"} /\ events < MaxEvents
    /\ life' = [life EXCEPT ![n] = "crashed"]
    /\ Gone(n, "gone")
    /\ acc' = [c \in Conn |-> IF Acceptor(c) = n THEN "none" ELSE acc[c]]
    /\ session' = [session EXCEPT ![n] = None]
    /\ status' = [status EXCEPT ![n] = Status("disconnected", "")]
    /\ sup' = [sup EXCEPT ![n] = At("stopped", None)]
    /\ run' = [run EXCEPT ![n] = "none"]
    /\ events' = events + 1
    /\ UNCHANGED <<removed, age, losses>>

\* The network drops a connection's packets from now on.
Cut(c) ==
    /\ Flows(c) /\ events < MaxEvents
    /\ link' = [link EXCEPT ![c].cut = TRUE]
    /\ events' = events + 1
    /\ UNCHANGED <<life, removed, session, age, status, losses, sup, run, client, acc>>

\* The peer leaves the configuration and its context is cancelled.
RemovePeer(n) ==
    /\ life[n] = "open" /\ ~removed[n] /\ events < MaxEvents
    /\ removed' = [removed EXCEPT ![n] = TRUE]
    /\ events' = events + 1
    /\ UNCHANGED <<life, session, age, status, losses, sup, run, client, link, acc>>

-----------------------------------------------------------------------------
Supervisor(n) ==
    \/ dialAttempt(n) \/ setState(n) \/ Dial(n) \/ DialFails(n)
    \/ ReadHelloAuth(n) \/ ReadFinished(n) \/ InitiateFails(n)
    \/ OfferDialed(n) \/ Superseded(n) \/ noteDialFailure(n) \/ noteDedupLoss(n)
    \/ Supervise(n) \/ ConnectionEnded(n)

handleAccept(c) ==
    \/ onAccept(c) \/ ReadHello(c) \/ ReadAuth(c) \/ AcceptFails(c) \/ lookupPeer(c)
    \/ OfferAccepted(c) \/ notePeerRedialed(c)

runConnection(n) == Disconnect(n) \/ Released(n)

Lifecycle(n) == startConfiguredPeers(n) \/ Close(n) \/ Closed(n)

Next ==
    \/ \E n \in Node : Supervisor(n) \/ runConnection(n) \/ Lifecycle(n)
    \/ \E c \in Conn : handleAccept(c)
    \/ \E n \in Node : Age(n) \/ Cancel(n) \/ Restart(n) \/ Crash(n) \/ RemovePeer(n)
    \/ \E c \in Conn : Cut(c)

Spec == Init /\ [][Next]_vars

\* Goroutines run, timers fire and reads see a broken connection.  Nobody has
\* to stop, restart or break anything.
Fairness ==
    /\ \A n \in Node : /\ WF_vars(Supervisor(n)) /\ WF_vars(runConnection(n))
                       /\ WF_vars(Lifecycle(n))
    /\ \A c \in Conn : WF_vars(handleAccept(c))

FairSpec == Spec /\ Fairness

-----------------------------------------------------------------------------
\* A peer is reported connected exactly while a connection to it is adopted,
\* and then without an error, whatever the dial loop was doing meanwhile
\* (setState, noteDialFailure, noteDedupLoss).
StatusTruthful ==
    \A n \in Node :
        /\ session[n] # None <=> status[n].state = "connected"
        /\ session[n] # None => status[n].err = ""

\* Both nodes have adopted connection c, it carries data, and neither is
\* giving it up.
Healthy(c) ==
    /\ Flows(c)
    /\ \A n \in Node : session[n] = c /\ ~PeerCtxDone(n)

\* A connection both nodes have adopted ends only when the network breaks it
\* or one of them stops, is killed or removes the other: a losing or a late
\* dial never takes it down (offer, notePeerRedialed, DiscardPeer).
HealthyKept ==
    [][\A c \in Conn : Healthy(c) => \/ Healthy(c)'
                                     \/ link[c].cut'
                                     \/ \E n \in Node : PeerCtxDone(n)']_vars

\* No goroutine of a node that has closed is left to use its store.
NothingAfterClose ==
    \A n \in Node : life[n] = "closed" =>
        /\ sup[n].pc = "stopped" /\ run[n] = "none"
        /\ \A c \in Conn : Acceptor(c) = n => acc[c] = "none"

\* Two nodes that stay up and configured end up with one connection that both
\* have adopted, whatever was lost, cut or restarted before: dedup, the
\* discarded client and the redial rule together lead there.
Connects ==
    <>[](\A n \in Node : life[n] = "open" /\ ~removed[n]) => <>[](\E c \in Conn : Healthy(c))

\* A teardown finishes, whatever connection or handshake it meets half-way:
\* Close returns, since no goroutine it waits for can block for ever, and a node
\* that removed its peer lets go of the connection to it and adopts no other.
TearsDown ==
    \A n \in Node : /\ life[n] = "cancelled" ~> life[n] \in {"closed", "crashed"}
                    /\ [](removed[n] => <>[](session[n] = None \/ life[n] = "closed"))
=============================================================================
