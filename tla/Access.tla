------------------------------- MODULE Access -------------------------------
(***************************************************************************)
(* One share, the node that offers it and a peer that subscribes to it:    *)
(* the offerer's configuration and approval queue, the peer's subscription,*)
(* the ShareList / SubscribeRequest / AccessUpdate exchange, and the table *)
(* of shares each end's session syncs.                                     *)
(*                                                                         *)
(* An operator's change is one step: mutateConfig holds mutateMu while it  *)
(* swaps the configuration and applies its effects.  Handling a frame is   *)
(* several, because the read loop and the goroutines it starts look at the *)
(* configuration, release cfgMu, and act on what they saw.  Races says     *)
(* whether an operator's change may fall between those steps.              *)
(***************************************************************************)
EXTENDS Naturals, Sequences, FiniteSets

CONSTANTS Approval,     \* what approval_required a share may be given
          Races,        \* may a change fall between reading and acting?
          MaxOps,       \* operator changes, at both nodes together
          MaxConnects   \* connections

ASSUME AccessAssumption ==
    /\ Approval \subseteq BOOLEAN /\ Approval # {} /\ Races \in BOOLEAN
    /\ MaxOps \in Nat /\ MaxConnects \in Nat

VARIABLES share,   \* the offerer's entry for the share, and for the peer in it
          known,   \* does the offerer have the peer configured?
          queued,  \* is the peer in the offerer's pending queue?
          hello,   \* an unknown peer's Hello being recorded
          sub,     \* the peer's subscription
          remote,  \* what the peer last heard: the share list, its access
          conn,    \* the connection both ends have adopted, 0 for none
          table,   \* table[e]: how end e's session of it syncs the share
          asked,   \* SubscribeRequests sent and not read
          lane,    \* the offerer's latest-value frames, oldest first
          wire,    \* the frame that has left the lane and is not handled
          greet,   \* the share list built for a new connection, not yet queued
          deciding,\* the request the offerer's read loop is deciding
          tasks,   \* finishSubscribeRequest goroutines
          holding, \* the AccessUpdate the peer's read loop has looked up
          ops,     \* operator changes so far
          connects \* connections so far

cfg == <<share, known, queued>>
traffic == <<asked, lane, wire, greet>>
work == <<deciding, tasks, holding>>
vars == <<share, known, queued, hello, sub, remote, conn, table, asked, lane,
          wire, greet, deciding, tasks, holding, ops, connects>>

Permission == {"ro", "rw"}
Mode == {"mirror", "receive-only"}
Decision == {"pending", "granted", "denied", "revoked"}
Direction == {"both", "in", "out"}
NoFrame == [key |-> "none", val |-> ""]
NoWork == [access |-> "", perm |-> "", conn |-> 0]
NoHold == [state |-> "", mode |-> "", access |-> "", conn |-> 0]
Idle == [o |-> "unknown", s |-> "unknown"]

\* Any configuration two paired nodes may be started with before a request.
Init ==
    /\ share \in [state : {"new", "offered"}, approval : Approval, perm : Permission,
                  access : {"none"}]
    /\ known = TRUE /\ queued = FALSE /\ hello = FALSE
    /\ sub \in [state : {"none", "running"}, mode : Mode]
    /\ sub.state = "running" => share.state = "offered"
    /\ remote = [perm |-> "", access |-> ""]
    /\ conn = 0 /\ table = Idle
    /\ asked = 0 /\ lane = <<>> /\ wire = NoFrame /\ greet = "none"
    /\ deciding = NoWork /\ tasks = {} /\ holding = NoHold
    /\ ops = 0 /\ connects = 0

----------------------------------------------------------------------------
(* Directions and the session's share table. *)

Offered == share.state = "offered"

\* The offerer's direction, from the share's permission alone.
offeredDirection(perm) == IF perm = "ro" THEN "out" ELSE "both"

\* The peer's, from its mode and the permission it has heard of.
subscriberDirection(perm, mode) ==
    IF mode = "receive-only" \/ perm = "ro" THEN "in" ELSE "both"

\* Session.AddShare and activeShares change together, on the current session.
grantShare(e, c, dir) == IF c = conn THEN [table EXCEPT ![e] = dir] ELSE table

neuterShare(e) == IF conn = 0 THEN table ELSE [table EXCEPT ![e] = "blocked"]

\* Mutant of reconfigureShare: the share need not be active.
reconfigureAny(e, dir) == IF conn = 0 THEN table ELSE [table EXCEPT ![e] = dir]

reconfigureShare(e, dir) ==
    IF table[e] \in Direction THEN [table EXCEPT ![e] = dir] ELSE table

----------------------------------------------------------------------------
(* The frames the offerer sends, by way of the latest-value lane. *)

\* Mutant of enqueueLatest: a frame always queues at the end.
enqueueAlways(l, f) == Append(l, f)

\* A frame whose key is waiting takes that place; another queues at the end.
enqueueLatest(l, f) ==
    IF \E i \in DOMAIN l : l[i].key = f.key
    THEN [i \in DOMAIN l |-> IF l[i].key = f.key THEN f ELSE l[i]]
    ELSE Append(l, f)

\* The entry of a share list that is about this share.
buildShareList(s) == IF s.state = "offered" THEN s.perm ELSE ""

sendShareList(l, perm) == enqueueLatest(l, [key |-> "share-list", val |-> perm])
sendAccessUpdate(l, access) == enqueueLatest(l, [key |-> "access-update", val |-> access])

\* The writer takes the oldest key with the value it has by then.
Transmit ==
    /\ conn # 0 /\ lane # <<>> /\ wire = NoFrame
    /\ wire' = Head(lane) /\ lane' = Tail(lane)
    /\ UNCHANGED <<cfg, hello, sub, remote, conn, table, asked, greet, work, ops, connects>>

----------------------------------------------------------------------------
(* Connections: both ends adopt one, build what they announce, and lose it. *)

\* Mutant of Connect: requestSubscriptions is not called.
ConnectUnasked ==
    /\ conn = 0 /\ known /\ connects < MaxConnects
    /\ connects' = connects + 1 /\ conn' = connects'
    /\ table' = Idle
    /\ greet' = buildShareList(share)
    /\ UNCHANGED <<cfg, hello, sub, remote, asked, lane, wire, work, ops>>

Connect ==
    /\ conn = 0 /\ known /\ connects < MaxConnects
    /\ connects' = connects + 1 /\ conn' = connects'
    /\ table' = Idle
    /\ greet' = buildShareList(share)
    /\ asked' = IF sub.state = "running" THEN 1 ELSE 0
    /\ UNCHANGED <<cfg, hello, sub, remote, lane, wire, work, ops>>

\* offer's own sendShareList, after the list was built.
Greet ==
    /\ conn # 0 /\ greet # "none"
    /\ lane' = sendShareList(lane, greet) /\ greet' = "none"
    /\ UNCHANGED <<cfg, hello, sub, remote, conn, table, asked, wire, work, ops, connects>>

Dropped ==
    /\ conn' = 0 /\ table' = Idle
    /\ asked' = 0 /\ lane' = <<>> /\ wire' = NoFrame /\ greet' = "none"

Disconnect ==
    /\ conn # 0
    /\ Dropped
    /\ UNCHANGED <<cfg, hello, sub, remote, work, ops, connects>>

----------------------------------------------------------------------------
(* The offerer answers a SubscribeRequest. *)

\* Mutant of provisionShareForRequest: only a first request waits for approval.
provisionOnceAsked(s) ==
    IF s.approval /\ s.access = "none" THEN "pending" ELSE "granted"

\* The access a request for share s is given.
provisionShareForRequest(s) ==
    IF ~s.approval THEN "granted"
    ELSE IF s.access = "none" THEN "pending" ELSE s.access

\* The read loop looks at the configuration; an unknown share is rejected.
ReadSubscribeRequest ==
    /\ conn # 0 /\ asked > 0 /\ deciding = NoWork
    /\ asked' = asked - 1
    /\ deciding' = IF Offered
                   THEN [access |-> provisionShareForRequest(share),
                         perm |-> share.perm, conn |-> conn]
                   ELSE NoWork
    /\ UNCHANGED <<cfg, hello, sub, remote, conn, table, lane, wire, greet,
                   tasks, holding, ops, connects>>

\* It grants what it decided to grant, and leaves the rest to a goroutine.
GrantRequest ==
    /\ deciding # NoWork
    /\ table' = IF deciding.access = "granted"
                THEN grantShare("o", deciding.conn, offeredDirection(deciding.perm))
                ELSE table
    /\ tasks' = tasks \cup {[access |-> deciding.access, conn |-> deciding.conn, pc |-> "record"]}
    /\ deciding' = NoWork
    /\ UNCHANGED <<cfg, hello, sub, remote, conn, traffic, holding, ops, connects>>

\* What a change of the peer's access does to its session, when it has one.
applyAccess(access, perm) ==
    IF access = "granted" THEN grantShare("o", conn, offeredDirection(perm))
                          ELSE neuterShare("o")

\* The goroutine records the decision.  A changed one takes effect; one
\* already on record is answered, on the session that asked, in a step of its
\* own: mutateMu has been released.
finishSubscribeRequest(t) ==
    /\ t \in tasks /\ t.pc = "record"
    /\ \/ /\ ~Offered
          /\ tasks' = tasks \ {t}
          /\ UNCHANGED <<share, table, lane>>
       \/ /\ Offered /\ share.access # t.access
          /\ share' = [share EXCEPT !.access = t.access]
          /\ tasks' = tasks \ {t}
          /\ IF known /\ conn # 0
             THEN /\ table' = applyAccess(t.access, share.perm)
                  /\ lane' = sendShareList(sendAccessUpdate(lane, t.access), share.perm)
             ELSE UNCHANGED <<table, lane>>
       \/ /\ Offered /\ share.access = t.access
          /\ tasks' = (tasks \ {t}) \cup {[t EXCEPT !.pc = "answer"]}
          /\ UNCHANGED <<share, table, lane>>
    /\ UNCHANGED <<known, queued, hello, sub, remote, conn, asked, wire, greet,
                   deciding, holding, ops, connects>>

AnswerRequest(t) ==
    /\ t \in tasks /\ t.pc = "answer"
    /\ tasks' = tasks \ {t}
    /\ lane' = IF t.conn = conn THEN sendAccessUpdate(lane, t.access) ELSE lane
    /\ UNCHANGED <<cfg, hello, sub, remote, conn, table, asked, wire, greet,
                   deciding, holding, ops, connects>>

----------------------------------------------------------------------------
(* The peer handles what it is told. *)

\* The list, and with it the direction of a subscription that is active.
ReadShareList ==
    /\ wire.key = "share-list"
    /\ wire' = NoFrame
    /\ remote' = [remote EXCEPT !.perm = wire.val]
    /\ table' = IF sub.state = "running"
                THEN reconfigureShare("s", subscriberDirection(wire.val, sub.mode))
                ELSE table
    /\ UNCHANGED <<cfg, hello, sub, conn, asked, lane, greet, work, ops, connects>>

\* provisionAccessUpdate finds the subscription, or there is nothing to do.
ReadAccessUpdate ==
    /\ wire.key = "access-update"
    /\ holding = NoHold
    /\ wire' = NoFrame
    /\ IF sub.state = "none"
       THEN UNCHANGED <<remote, holding>>
       ELSE /\ remote' = [remote EXCEPT !.access = wire.val]
            /\ holding' = [state |-> sub.state, mode |-> sub.mode,
                           access |-> wire.val, conn |-> conn]
    /\ UNCHANGED <<cfg, hello, sub, conn, table, asked, lane, greet, deciding,
                   tasks, ops, connects>>

\* Mutant of provisionAccessUpdate: a grant is taken up although the
\* subscription is paused.
provisionPaused ==
    /\ holding # NoHold
    /\ holding' = NoHold
    /\ table' = CASE holding.access = "granted" ->
                       grantShare("s", holding.conn, subscriberDirection(remote.perm, holding.mode))
                  [] holding.access \in {"denied", "revoked"} /\ holding.conn = conn ->
                       neuterShare("s")
                  [] OTHER -> table
    /\ UNCHANGED <<cfg, hello, sub, remote, conn, traffic, deciding, tasks, ops, connects>>

\* Then it acts on the subscription it found, on the session that told it.
provisionAccessUpdate ==
    /\ holding # NoHold
    /\ holding' = NoHold
    /\ table' = CASE holding.access = "granted" /\ holding.state = "running" ->
                       grantShare("s", holding.conn, subscriberDirection(remote.perm, holding.mode))
                  [] holding.access \in {"denied", "revoked"} /\ holding.conn = conn ->
                       neuterShare("s")
                  [] OTHER -> table
    /\ UNCHANGED <<cfg, hello, sub, remote, conn, traffic, deciding, tasks, ops, connects>>

----------------------------------------------------------------------------
(* Operators.  Every change is one mutateConfig with its effects. *)

Steady == deciding = NoWork /\ tasks = {} /\ holding = NoHold /\ greet = "none"

\* The changes counted, and when they may be made.
mutateConfig ==
    /\ ops < MaxOps /\ ops' = ops + 1
    /\ Races \/ Steady

\* A change of the share list is announced to a connected peer.
broadcastShareList(l, s) ==
    IF known /\ conn # 0 THEN sendShareList(l, buildShareList(s)) ELSE l

AddShare ==
    /\ mutateConfig
    /\ share.state = "new"
    /\ \E a \in Approval, p \in Permission :
          share' = [share EXCEPT !.state = "offered", !.approval = a, !.perm = p]
    /\ lane' = broadcastShareList(lane, share')
    /\ UNCHANGED <<known, queued, hello, sub, remote, conn, table, asked, wire,
                   greet, work, connects>>

\* The identifier is never used again.
RemoveShare ==
    /\ mutateConfig
    /\ Offered
    /\ share' = [share EXCEPT !.state = "removed"]
    /\ table' = neuterShare("o")
    /\ lane' = broadcastShareList(lane, share')
    /\ UNCHANGED <<known, queued, hello, sub, remote, conn, asked, wire, greet, work, connects>>

\* Any of the share's name, permission, approval setting and the peer's
\* access: the session follows the permission, then the access, and the list
\* is announced once.
updateShare(p, a, acc) ==
    LET named == p = share.perm /\ a = share.approval /\ acc = share.access
        announce == named \/ p # share.perm \/ a # share.approval
        redirected == IF p # share.perm THEN reconfigureShare("o", offeredDirection(p)) ELSE table
        decided == acc # share.access /\ known /\ conn # 0
        told == IF decided THEN sendAccessUpdate(lane, acc) ELSE lane
    IN /\ share' = [share EXCEPT !.perm = p, !.approval = a, !.access = acc]
       /\ table' = IF decided THEN applyAccess(acc, p) ELSE redirected
       /\ lane' = IF announce \/ decided THEN broadcastShareList(told, share') ELSE told

UpdateShare ==
    /\ mutateConfig
    /\ Offered
    /\ \E p \in Permission, a \in Approval, acc \in Decision \cup {share.access} :
          updateShare(p, a, acc)
    /\ UNCHANGED <<known, queued, hello, sub, remote, conn, asked, wire, greet, work, connects>>

\* The operator's answer to a request that waits for approval.
DecideApproval ==
    /\ mutateConfig
    /\ Offered /\ share.access = "pending"
    /\ \E acc \in {"granted", "denied"} : updateShare(share.perm, share.approval, acc)
    /\ UNCHANGED <<known, queued, hello, sub, remote, conn, asked, wire, greet, work, connects>>

AddPeer ==
    /\ mutateConfig
    /\ ~known
    /\ known' = TRUE /\ queued' = FALSE
    /\ UNCHANGED <<share, hello, sub, remote, conn, table, traffic, work, connects>>

ApprovePendingPeer ==
    /\ mutateConfig
    /\ queued /\ ~known
    /\ known' = TRUE /\ queued' = FALSE
    /\ UNCHANGED <<share, hello, sub, remote, conn, table, traffic, work, connects>>

removePendingPeer ==
    /\ mutateConfig
    /\ queued
    /\ queued' = FALSE
    /\ UNCHANGED <<share, known, hello, sub, remote, conn, table, traffic, work, connects>>

\* The peer goes, with its access entry and its connection.
RemovePeer ==
    /\ mutateConfig
    /\ known
    /\ known' = FALSE
    /\ share' = [share EXCEPT !.access = "none"]
    /\ Dropped
    /\ UNCHANGED <<queued, hello, sub, remote, work, connects>>

\* An unknown peer's Hello: the live peers are looked at first,
UnknownHello ==
    /\ ~known /\ ~hello
    /\ hello' = TRUE
    /\ UNCHANGED <<cfg, sub, remote, conn, table, traffic, work, ops, connects>>

\* Mutant of recordPendingPeer: the configuration is not looked at again.
recordUnchecked ==
    /\ hello
    /\ hello' = FALSE
    /\ queued' = TRUE
    /\ UNCHANGED <<share, known, sub, remote, conn, table, traffic, work, ops, connects>>

\* and the configuration again under its lock.
recordPendingPeer ==
    /\ hello
    /\ hello' = FALSE
    /\ queued' = (queued \/ ~known)
    /\ UNCHANGED <<share, known, sub, remote, conn, table, traffic, work, ops, connects>>

\* A subscription that starts asks at once, when the peer is connected.
Subscribed ==
    /\ asked' = IF conn # 0 THEN asked + 1 ELSE asked
    /\ UNCHANGED <<cfg, hello, remote, conn, table, lane, wire, greet, work, connects>>

\* A share's identifier is random, and known once the share exists.
AddSubscription ==
    /\ mutateConfig
    /\ sub.state = "none" /\ share.state # "new"
    /\ \E m \in Mode : sub' = [state |-> "running", mode |-> m]
    /\ Subscribed

Stopped ==
    /\ table' = neuterShare("s")
    /\ UNCHANGED <<cfg, hello, remote, conn, traffic, work, connects>>

RemoveSubscription ==
    /\ mutateConfig
    /\ sub.state # "none"
    /\ sub' = [sub EXCEPT !.state = "none"]
    /\ IF sub.state = "running" THEN Stopped
       ELSE UNCHANGED <<cfg, hello, remote, conn, table, traffic, work, connects>>

PauseSubscription ==
    /\ mutateConfig
    /\ \/ /\ sub.state = "running"
          /\ sub' = [sub EXCEPT !.state = "paused"]
          /\ Stopped
       \/ /\ sub.state = "paused"
          /\ sub' = [sub EXCEPT !.state = "running"]
          /\ Subscribed

Operator ==
    \/ AddShare \/ RemoveShare \/ UpdateShare \/ DecideApproval
    \/ AddPeer \/ ApprovePendingPeer \/ removePendingPeer \/ RemovePeer
    \/ AddSubscription \/ RemoveSubscription \/ PauseSubscription

Handler ==
    \/ Transmit \/ Greet
    \/ ReadSubscribeRequest \/ GrantRequest
    \/ \E t \in tasks : finishSubscribeRequest(t)
    \/ \E t \in tasks : AnswerRequest(t)
    \/ ReadShareList \/ ReadAccessUpdate \/ provisionAccessUpdate
    \/ recordPendingPeer

Next == Operator \/ Handler \/ Connect \/ Disconnect \/ UnknownHello

Spec == Init /\ [][Next]_vars

\* The read loops, the writer and the goroutines run; nothing else must.
FairSpec == Spec /\ WF_vars(Handler)

----------------------------------------------------------------------------
(* Properties. *)

ShareType == [state : {"new", "offered", "removed"}, approval : BOOLEAN,
              perm : Permission, access : Decision \cup {"none"}]
SubType == [state : {"none", "running", "paused"}, mode : Mode]
RemoteType == [perm : Permission \cup {""}, access : Decision \cup {""}]
TableType == [{"o", "s"} -> Direction \cup {"unknown", "blocked"}]
Request == [access : Decision, perm : Permission, conn : 1..MaxConnects]
Task == [access : Decision, conn : 1..MaxConnects, pc : {"record", "answer"}]
Found == [state : {"running", "paused"}, mode : Mode, access : Decision, conn : 1..MaxConnects]
Frame == [key : {"share-list"}, val : Permission \cup {""}]
         \cup [key : {"access-update"}, val : Decision]

\* Every variable keeps its type; in particular the latest-value lane never
\* holds two frames of one key (enqueueLatest), so it is bounded.
TypeOK ==
    /\ share \in ShareType /\ sub \in SubType /\ remote \in RemoteType /\ table \in TableType
    /\ known \in BOOLEAN /\ queued \in BOOLEAN /\ hello \in BOOLEAN
    /\ conn \in 0..MaxConnects /\ asked \in Nat
    /\ lane \in Seq(Frame) /\ Len(lane) <= 2 /\ wire \in Frame \cup {NoFrame}
    /\ greet \in Permission \cup {"", "none"}
    /\ deciding \in Request \cup {NoWork} /\ tasks \subseteq Task
    /\ holding \in Found \cup {NoHold}
    /\ ops \in 0..MaxOps /\ connects \in 0..MaxConnects

\* The offerer's session syncs the share only while it is offered, the peer is
\* configured and its grant is recorded (or is about to be, by the request
\* that was just granted), and in the direction of the share's permission:
\* applyAccess, RemoveShare, RemovePeer and reconfigureShare, whatever frames
\* are in flight.
Authorised ==
    table["o"] \in Direction =>
        /\ Offered /\ known
        /\ share.access = "granted" \/ \E t \in tasks : t.access = "granted" /\ t.conn = conn
        /\ table["o"] = offeredDirection(share.perm)

\* A subscription that is paused or removed is not synced, although an
\* AccessUpdate granting it may arrive at any time (provisionAccessUpdate,
\* PauseSubscription, RemoveSubscription).
StoppedStaysStopped == table["s"] \in Direction => sub.state = "running"

\* A configured peer is not in the approval queue, although its Hello may have
\* been on its way there when it was configured (recordPendingPeer, AddPeer).
QueueIsOfStrangers == ~(known /\ queued)

\* A share that requires approval is granted by an operator and by no request
\* (provisionShareForRequest, finishSubscribeRequest).
ApprovalGates ==
    [][(share.approval /\ share.access # "granted" /\ share'.access = "granted")
          => ops' # ops]_vars

\* When the operators and the network leave them alone, the two sessions agree
\* about a share that is offered and subscribed to: both sync it when the
\* access on record is a grant, in directions that fit each other and the
\* subscription's mode, and neither when it is a refusal; and the peer shows
\* the access on record.
Agreed ==
    (conn # 0 /\ Offered /\ sub.state = "running") =>
        /\ share.access = "granted" =>
              /\ table["o"] = offeredDirection(share.perm)
              /\ table["s"] = subscriberDirection(share.perm, sub.mode)
        /\ share.access \in {"denied", "revoked"} =>
              table["o"] \notin Direction /\ table["s"] \notin Direction
        /\ remote.access = share.access

\* Both ends agree in the end, and for good (sendAccessUpdate, sendShareList,
\* requestSubscriptions, refreshSubscriptionDirections).
Agrees == <>[]Agreed

\* Once an operator has denied or revoked a peer's access, only an operator
\* gives it back: a fresh connection, and the SubscribeRequest the peer sends
\* on it, never does (provisionShareForRequest, finishSubscribeRequest).
RefusalStands ==
    [][(share.access \in {"denied", "revoked"} /\ share'.access # share.access)
          => ops' # ops]_vars

=============================================================================
