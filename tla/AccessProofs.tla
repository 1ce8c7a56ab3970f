---------------------------- MODULE AccessProofs ----------------------------
(***************************************************************************)
(* Access to a share, for any number of operators' changes, connections    *)
(* and requests: the frames' lane stays bounded, nobody is synced with who *)
(* may not be, a stopped subscription stays stopped, and no request grants *)
(* itself what an operator must approve.                                   *)
(***************************************************************************)
EXTENDS Access, TLAPS

-----------------------------------------------------------------------------
(* The lane of latest-value frames. *)

\* No two frames of one key wait in the lane.
OneOfAKey(l) == \A i, j \in DOMAIN l : l[i].key = l[j].key => i = j

LaneOK(l) == l \in Seq(Frame) /\ OneOfAKey(l)

\* A frame replaces the one of its key in place, or is the first of its key.
LEMMA EnqueueKeeps ==
    ASSUME NEW l, LaneOK(l), NEW f \in Frame
    PROVE  LaneOK(enqueueLatest(l, f))
<1> USE DEF LaneOK
<1>1. CASE \E i \in DOMAIN l : l[i].key = f.key
    <2> DEFINE m == [i \in DOMAIN l |-> IF l[i].key = f.key THEN f ELSE l[i]]
    <2>1. enqueueLatest(l, f) = m
        BY <1>1 DEF enqueueLatest
    <2>2. m \in Seq(Frame) /\ DOMAIN m = DOMAIN l
        OBVIOUS
    <2>3. \A i \in DOMAIN l : m[i].key = l[i].key
        OBVIOUS
    <2>4. OneOfAKey(m)
        BY <2>2, <2>3 DEF OneOfAKey
    <2> QED
        BY <2>1, <2>2, <2>4
<1>2. CASE ~ \E i \in DOMAIN l : l[i].key = f.key
    <2>1. enqueueLatest(l, f) = Append(l, f)
        BY <1>2 DEF enqueueLatest
    <2>2. Append(l, f) \in Seq(Frame) /\ OneOfAKey(Append(l, f))
        BY <1>2 DEF OneOfAKey
    <2> QED
        BY <2>1, <2>2
<1> QED
    BY <1>1, <1>2

\* There are two keys, so two frames at the most.
LEMMA LaneBounded == ASSUME NEW l, LaneOK(l) PROVE Len(l) <= 2
<1> SUFFICES ASSUME Len(l) > 2 PROVE FALSE
    BY DEF LaneOK
<1>1. 1 \in DOMAIN l /\ 2 \in DOMAIN l /\ 3 \in DOMAIN l
    BY DEF LaneOK
<1>2. \A i \in {1, 2, 3} : l[i] \in Frame
    BY <1>1 DEF LaneOK
<1>3. \A i \in {1, 2, 3} : l[i].key \in {"share-list", "access-update"}
    BY <1>2 DEF Frame
<1> QED
    BY <1>1, <1>3 DEF LaneOK, OneOfAKey

LEMMA SendKeeps ==
    ASSUME NEW l, LaneOK(l)
    PROVE  /\ \A perm \in Permission \cup {""} : LaneOK(sendShareList(l, perm))
           /\ \A access \in Decision : LaneOK(sendAccessUpdate(l, access))
<1>1. ASSUME NEW perm \in Permission \cup {""} PROVE LaneOK(sendShareList(l, perm))
    <2>1. [key |-> "share-list", val |-> perm] \in Frame
        BY DEF Frame
    <2> QED
        BY <2>1, EnqueueKeeps DEF sendShareList
<1>2. ASSUME NEW access \in Decision PROVE LaneOK(sendAccessUpdate(l, access))
    <2>1. [key |-> "access-update", val |-> access] \in Frame
        BY DEF Frame
    <2> QED
        BY <2>1, EnqueueKeeps DEF sendAccessUpdate
<1> QED
    BY <1>1, <1>2

LEMMA BroadcastKeeps ==
    ASSUME NEW l, LaneOK(l), NEW s \in ShareType
    PROVE  LaneOK(broadcastShareList(l, s))
<1>1. buildShareList(s) \in Permission \cup {""}
    BY DEF buildShareList, ShareType
<1> QED
    BY <1>1, SendKeeps DEF broadcastShareList

-----------------------------------------------------------------------------
(* Types.  They hold whether or not changes race with handlers. *)

LEMMA TableTyped ==
    ASSUME table \in TableType, NEW e \in {"o", "s"}, NEW dir \in Direction, NEW c
    PROVE  /\ grantShare(e, c, dir) \in TableType /\ neuterShare(e) \in TableType
           /\ reconfigureShare(e, dir) \in TableType /\ Idle \in TableType
BY DEF TableType, grantShare, neuterShare, reconfigureShare, Idle, Direction

LEMMA Directed ==
    /\ \A perm : offeredDirection(perm) \in Direction
    /\ \A perm, mode : subscriberDirection(perm, mode) \in Direction
BY DEF offeredDirection, subscriberDirection, Direction

LEMMA ProvisionTyped ==
    ASSUME NEW s \in ShareType PROVE provisionShareForRequest(s) \in Decision
BY DEF ShareType, provisionShareForRequest, Decision

\* A connection's number and the connections that may still be made.
LEMMA Numbers == MaxConnects \in Nat /\ MaxOps \in Nat /\ Approval \subseteq BOOLEAN
BY AccessAssumption

\* The type invariant, with the lane's keys, and no frame without a connection.
Typed == TypeOK /\ OneOfAKey(lane) /\ (conn = 0 => wire = NoFrame)

LEMMA TypedInit == Init => Typed
<1> SUFFICES ASSUME Init PROVE Typed
    OBVIOUS
<1>1. table \in TableType
    <2>1. table = Idle
        BY DEF Init
    <2> QED
        BY <2>1 DEF Idle, Direction, TableType
<1>2. lane \in Seq(Frame) /\ Len(lane) <= 2 /\ OneOfAKey(lane)
    <2>1. lane = <<>>
        BY DEF Init
    <2> QED
        BY <2>1 DEF OneOfAKey
<1>3. share \in ShareType
    BY Numbers DEF Init, ShareType
<1>4. sub \in SubType
    BY DEF Init, SubType
<1>5. remote \in RemoteType
    BY DEF Init, RemoteType
<1>6. /\ conn \in 0..MaxConnects /\ asked \in Nat /\ ops \in 0..MaxOps
      /\ connects \in 0..MaxConnects
    <2>1. conn = 0 /\ asked = 0 /\ ops = 0 /\ connects = 0
        BY DEF Init
    <2> QED
        BY <2>1, Numbers
<1>7. known \in BOOLEAN /\ queued \in BOOLEAN /\ hello \in BOOLEAN
    BY DEF Init
<1> QED
    BY <1>1, <1>2, <1>3, <1>4, <1>5, <1>6, <1>7 DEF Init, Typed, TypeOK

\* The parts of the type invariant the lemmas above speak of.
LEMMA TypedParts ==
    ASSUME Typed
    PROVE  /\ share \in ShareType /\ table \in TableType /\ LaneOK(lane)
           /\ conn \in 0..MaxConnects /\ connects \in 0..MaxConnects /\ asked \in Nat
           /\ ops \in 0..MaxOps
BY DEF Typed, TypeOK, LaneOK

LEMMA IdleTyped == Idle \in TableType
BY DEF Idle, TableType, Direction

LEMMA TypedConnections ==
    ASSUME Typed, Transmit \/ Connect \/ Greet \/ Disconnect
    PROVE  Typed'
<1> USE DEF cfg, traffic, work, Typed
<1>1. /\ share \in ShareType /\ table \in TableType /\ LaneOK(lane)
      /\ conn \in 0..MaxConnects /\ connects \in 0..MaxConnects /\ asked \in Nat
    BY TypedParts
<1>2. CASE Transmit
    <2>1. lane # <<>> /\ lane' = Tail(lane) /\ wire' = Head(lane)
        BY <1>2 DEF Transmit
    <2>2. LaneOK(lane') /\ Len(lane') <= 2 /\ wire' \in Frame
        <3> DEFINE l == lane
        <3>1. l \in Seq(Frame) /\ l # <<>> /\ Len(l) <= 2 /\ OneOfAKey(l)
            BY <1>1, <2>1, LaneBounded DEF LaneOK
        <3>2. \A i \in DOMAIN Tail(l) : Tail(l)[i] = l[i + 1] /\ i + 1 \in DOMAIN l
            BY <3>1
        <3>3. Tail(l) \in Seq(Frame) /\ Len(Tail(l)) <= 2 /\ Head(l) \in Frame
            BY <3>1
        <3>4. OneOfAKey(Tail(l))
            BY <3>1, <3>2, <3>3 DEF OneOfAKey
        <3> QED
            BY <2>1, <3>3, <3>4 DEF LaneOK
    <2> QED
        BY <1>2, <2>2 DEF Transmit, TypeOK, LaneOK
<1>3. CASE Connect
    <2>1. conn' \in 1..MaxConnects /\ connects' \in 0..MaxConnects
        <3>1. connects < MaxConnects /\ connects' = connects + 1 /\ conn' = connects'
            BY <1>3 DEF Connect
        <3> QED
            BY <1>1, <3>1, Numbers
    <2>2. table' = Idle /\ Idle \in TableType
        BY <1>3, IdleTyped DEF Connect
    <2>3. greet' \in Permission \cup {""} /\ asked' \in Nat
        BY <1>1, <1>3 DEF Connect, buildShareList, ShareType
    <2> QED
        BY <1>3, <2>1, <2>2, <2>3 DEF Connect, TypeOK
<1>4. CASE Greet
    <2>1. LaneOK(lane')
        BY <1>1, <1>4, SendKeeps DEF Greet, TypeOK
    <2>2. Len(lane') <= 2
        BY <2>1, LaneBounded
    <2> QED
        BY <1>4, <2>1, <2>2 DEF Greet, TypeOK, LaneOK
<1>5. CASE Disconnect
    <2>1. table' = Idle /\ Idle \in TableType
        BY <1>5, IdleTyped DEF Disconnect, Dropped
    <2>2. lane' = <<>> /\ OneOfAKey(lane')
        BY <1>5 DEF Disconnect, Dropped, OneOfAKey
    <2>3. conn' \in 0..MaxConnects /\ asked' \in Nat /\ lane' \in Seq(Frame) /\ Len(lane') <= 2
        BY <1>5, <2>2, Numbers DEF Disconnect, Dropped
    <2> QED
        BY <1>5, <2>1, <2>2, <2>3 DEF Disconnect, Dropped, TypeOK
<1> QED
    BY <1>2, <1>3, <1>4, <1>5

LEMMA TypedRequests ==
    ASSUME Typed,
           \/ ReadSubscribeRequest \/ GrantRequest
           \/ \E t \in tasks : finishSubscribeRequest(t) \/ AnswerRequest(t)
    PROVE  Typed'
<1> USE DEF cfg, traffic, work, Typed
<1>1. /\ share \in ShareType /\ table \in TableType /\ LaneOK(lane)
      /\ conn \in 0..MaxConnects /\ connects \in 0..MaxConnects /\ asked \in Nat
    BY TypedParts
<1>2. CASE ReadSubscribeRequest
    <2>1. asked' \in Nat
        <3>1. asked > 0 /\ asked' = asked - 1
            BY <1>2 DEF ReadSubscribeRequest
        <3> QED
            BY <1>1, <3>1
    <2>2. conn \in 1..MaxConnects
        BY <1>1, <1>2, Numbers DEF ReadSubscribeRequest
    <2>3. deciding' \in Request \cup {NoWork}
        <3>1. share.perm \in Permission /\ provisionShareForRequest(share) \in Decision
            BY <1>1, ProvisionTyped DEF ShareType
        <3>2. [access |-> provisionShareForRequest(share), perm |-> share.perm, conn |-> conn]
                \in Request
            BY <2>2, <3>1 DEF Request
        <3> QED
            BY <1>2, <3>2 DEF ReadSubscribeRequest
    <2> QED
        BY <1>2, <2>1, <2>3 DEF ReadSubscribeRequest, TypeOK
<1>3. CASE GrantRequest
    <2>1. deciding \in Request
        BY <1>3 DEF GrantRequest, TypeOK
    <2>2. tasks' \subseteq Task
        <3>1. [access |-> deciding.access, conn |-> deciding.conn, pc |-> "record"] \in Task
            BY <2>1 DEF Request, Task
        <3> QED
            BY <1>3, <3>1 DEF GrantRequest, TypeOK
    <2>3. table' \in TableType
        BY <1>1, <1>3, TableTyped, Directed DEF GrantRequest, TableType
    <2> QED
        BY <1>3, <2>2, <2>3 DEF GrantRequest, TypeOK
<1>4. ASSUME NEW t \in tasks, finishSubscribeRequest(t) PROVE Typed'
    <2>1. t \in Task /\ tasks' \subseteq Task
        BY <1>4 DEF finishSubscribeRequest, TypeOK, Task
    <2>2. share' \in ShareType
        BY <1>1, <1>4, <2>1 DEF finishSubscribeRequest, ShareType, Task
    <2>3. applyAccess(t.access, share.perm) \in TableType
        BY <1>1, TableTyped, Directed DEF applyAccess
    <2>4. table' \in TableType
        BY <1>1, <1>4, <2>3 DEF finishSubscribeRequest
    <2>5. LaneOK(sendShareList(sendAccessUpdate(lane, t.access), share.perm))
        <3>1. t.access \in Decision /\ share.perm \in Permission
            BY <1>1, <2>1 DEF Task, ShareType
        <3>2. LaneOK(sendAccessUpdate(lane, t.access))
            BY <1>1, <3>1, SendKeeps
        <3> QED
            BY <3>1, <3>2, SendKeeps
    <2>6. LaneOK(lane')
        BY <1>1, <1>4, <2>5 DEF finishSubscribeRequest
    <2>7. Len(lane') <= 2
        BY <2>6, LaneBounded
    <2> QED
        BY <1>4, <2>1, <2>2, <2>4, <2>6, <2>7
           DEF finishSubscribeRequest, TypeOK, ShareType, TableType, LaneOK
<1>5. ASSUME NEW t \in tasks, AnswerRequest(t) PROVE Typed'
    <2>1. t \in Task /\ tasks' \subseteq Task
        BY <1>5 DEF AnswerRequest, TypeOK
    <2>2. LaneOK(lane')
        BY <1>1, <1>5, <2>1, SendKeeps DEF AnswerRequest, Task
    <2>3. Len(lane') <= 2
        BY <2>2, LaneBounded
    <2> QED
        BY <1>5, <2>1, <2>2, <2>3 DEF AnswerRequest, TypeOK, LaneOK
<1> QED
    BY <1>2, <1>3, <1>4, <1>5

\* What the two kinds of frame carry.
LEMMA FrameCarries ==
    ASSUME NEW f \in Frame \cup {NoFrame}
    PROVE  /\ f.key = "share-list" => f.val \in Permission \cup {""}
           /\ f.key = "access-update" => f.val \in Decision
<1>1. CASE f \in [key : {"share-list"}, val : Permission \cup {""}]
    BY <1>1
<1>2. CASE f \in [key : {"access-update"}, val : Decision]
    BY <1>2
<1>3. CASE f = NoFrame
    BY <1>3 DEF NoFrame
<1> QED
    BY <1>1, <1>2, <1>3 DEF Frame

LEMMA TypedReads ==
    ASSUME Typed,
           \/ ReadShareList \/ ReadAccessUpdate \/ provisionAccessUpdate
           \/ UnknownHello \/ recordPendingPeer
    PROVE  Typed'
<1> USE DEF cfg, traffic, work, Typed
<1>1. /\ table \in TableType /\ conn \in 0..MaxConnects
      /\ sub \in SubType /\ remote \in RemoteType /\ wire \in Frame \cup {NoFrame}
    BY TypedParts DEF TypeOK
<1>2. CASE ReadShareList
    <2>1. wire.val \in Permission \cup {""}
        BY <1>1, <1>2, FrameCarries DEF ReadShareList
    <2>2. remote' \in RemoteType
        BY <1>1, <1>2, <2>1 DEF ReadShareList, RemoteType
    <2>3. table' \in TableType
        BY <1>1, <1>2, TableTyped, Directed DEF ReadShareList
    <2> QED
        BY <1>2, <2>2, <2>3 DEF ReadShareList, TypeOK
<1>3. CASE ReadAccessUpdate
    <2>1. wire.val \in Decision
        BY <1>1, <1>3, FrameCarries DEF ReadAccessUpdate
    <2>2. remote' \in RemoteType
        BY <1>1, <1>3, <2>1 DEF ReadAccessUpdate, RemoteType
    <2>3. conn \in 1..MaxConnects
        <3>1. NoFrame.key = "none"
            BY DEF NoFrame
        <3>2. wire # NoFrame
            BY <1>3, <3>1 DEF ReadAccessUpdate
        <3> QED
            BY <1>1, <3>2, Numbers
    <2>4. sub.state # "none" =>
             [state |-> sub.state, mode |-> sub.mode, access |-> wire.val, conn |-> conn] \in Found
        BY <1>1, <2>1, <2>3 DEF SubType, Found
    <2>5. holding' \in Found \cup {NoHold}
        BY <1>3, <2>4 DEF ReadAccessUpdate, TypeOK
    <2> QED
        BY <1>3, <2>2, <2>5 DEF ReadAccessUpdate, TypeOK
<1>4. CASE provisionAccessUpdate
    <2>1. table' \in TableType
        BY <1>1, <1>4, TableTyped, Directed DEF provisionAccessUpdate
    <2> QED
        BY <1>4, <2>1 DEF provisionAccessUpdate, TypeOK
<1>5. CASE UnknownHello \/ recordPendingPeer
    <2>1. hello' \in BOOLEAN /\ queued' \in BOOLEAN
        BY <1>5 DEF UnknownHello, recordPendingPeer, TypeOK
    <2> QED
        BY <1>5, <2>1 DEF UnknownHello, recordPendingPeer, TypeOK
<1> QED
    BY <1>2, <1>3, <1>4, <1>5

\* The share after a change of its settings is a share, and what the change
\* does to the session and the lane keeps their types.
LEMMA TypedUpdate ==
    ASSUME Typed, NEW p \in Permission, NEW a \in BOOLEAN,
           NEW acc \in Decision \cup {share.access}, updateShare(p, a, acc)
    PROVE  share' \in ShareType /\ table' \in TableType /\ LaneOK(lane')
<1>1. share \in ShareType /\ table \in TableType /\ LaneOK(lane)
    BY TypedParts
<1>2. share' \in ShareType
    BY <1>1 DEF updateShare, ShareType
<1>3. table' \in TableType
    <2>1. applyAccess(acc, p) \in TableType
        BY <1>1, TableTyped, Directed DEF applyAccess
    <2>2. reconfigureShare("o", offeredDirection(p)) \in TableType
        BY <1>1, TableTyped, Directed
    <2> QED
        BY <1>1, <2>1, <2>2 DEF updateShare
<1>4. LaneOK(lane')
    <2> DEFINE told == IF acc # share.access /\ known /\ conn # 0
                       THEN sendAccessUpdate(lane, acc) ELSE lane
    <2>1. LaneOK(told)
        BY <1>1, SendKeeps
    <2>2. LaneOK(broadcastShareList(told, share'))
        BY <1>2, <2>1, BroadcastKeeps
    <2>3. lane' \in {told, broadcastShareList(told, share')}
        BY DEF updateShare
    <2> QED
        BY <2>1, <2>2, <2>3
<1> QED
    BY <1>2, <1>3, <1>4

LEMMA TypedOperator == ASSUME Typed, Operator PROVE Typed'
<1> USE DEF cfg, traffic, work, Typed
<1>1. /\ share \in ShareType /\ table \in TableType /\ LaneOK(lane)
      /\ conn \in 0..MaxConnects /\ asked \in Nat
    BY TypedParts
<1>2. ops' \in 0..MaxOps
    <2>1. ops \in 0..MaxOps
        BY TypedParts
    <2>2. ops < MaxOps /\ ops' = ops + 1
        BY DEF Operator, AddShare, RemoveShare, UpdateShare, DecideApproval, AddPeer,
               ApprovePendingPeer, removePendingPeer, RemovePeer, AddSubscription,
               RemoveSubscription, PauseSubscription, mutateConfig
    <2> QED
        BY <2>1, <2>2, Numbers
<1>3. CASE AddShare \/ RemoveShare
    <2>1. share' \in ShareType
        <3>1. CASE AddShare
            <4>1. PICK a \in Approval, p \in Permission :
                     share' = [share EXCEPT !.state = "offered", !.approval = a, !.perm = p]
                BY <3>1 DEF AddShare
            <4>2. a \in BOOLEAN
                BY Numbers
            <4> QED
                BY <1>1, <4>1, <4>2 DEF ShareType
        <3>2. CASE RemoveShare
            BY <1>1, <3>2 DEF RemoveShare, ShareType
        <3> QED
            BY <1>3, <3>1, <3>2
    <2>2. table' \in TableType
        BY <1>1, <1>3, TableTyped, Directed DEF AddShare, RemoveShare
    <2>3. LaneOK(lane')
        BY <1>1, <1>3, <2>1, BroadcastKeeps DEF AddShare, RemoveShare
    <2>4. Len(lane') <= 2
        BY <2>3, LaneBounded
    <2> QED
        BY <1>2, <1>3, <2>1, <2>2, <2>3, <2>4 DEF AddShare, RemoveShare, TypeOK, LaneOK
<1>4. CASE UpdateShare \/ DecideApproval
    <2>1. share' \in ShareType /\ table' \in TableType /\ LaneOK(lane')
        <3>1. CASE UpdateShare
            BY <3>1, Numbers, TypedUpdate DEF UpdateShare
        <3>2. CASE DecideApproval
            <4>1. share.perm \in Permission /\ share.approval \in BOOLEAN
                BY <1>1 DEF ShareType
            <4>2. PICK acc \in {"granted", "denied"} : updateShare(share.perm, share.approval, acc)
                BY <3>2 DEF DecideApproval
            <4>3. acc \in Decision
                BY DEF Decision
            <4> QED
                BY <4>1, <4>2, <4>3, TypedUpdate
        <3> QED
            BY <1>4, <3>1, <3>2
    <2>2. Len(lane') <= 2
        BY <2>1, LaneBounded
    <2> QED
        BY <1>2, <1>4, <2>1, <2>2 DEF UpdateShare, DecideApproval, TypeOK, LaneOK
<1>5. CASE AddPeer \/ ApprovePendingPeer \/ removePendingPeer
    <2>1. known' \in BOOLEAN /\ queued' \in BOOLEAN
        BY <1>5 DEF AddPeer, ApprovePendingPeer, removePendingPeer, TypeOK
    <2> QED
        BY <1>2, <1>5, <2>1 DEF AddPeer, ApprovePendingPeer, removePendingPeer, TypeOK
<1>6. CASE RemovePeer
    <2>1. share' \in ShareType
        BY <1>1, <1>6 DEF RemovePeer, ShareType
    <2>2. table' \in TableType /\ lane' = <<>> /\ OneOfAKey(lane')
        BY <1>6, IdleTyped DEF RemovePeer, Dropped, OneOfAKey
    <2>3. conn' \in 0..MaxConnects /\ asked' \in Nat /\ lane' \in Seq(Frame) /\ Len(lane') <= 2
        BY <1>6, <2>2, Numbers DEF RemovePeer, Dropped
    <2>4. known' \in BOOLEAN
        BY <1>6 DEF RemovePeer
    <2> QED
        BY <1>2, <1>6, <2>1, <2>2, <2>3, <2>4 DEF RemovePeer, Dropped, TypeOK
<1>7. CASE AddSubscription \/ RemoveSubscription \/ PauseSubscription
    <2>1. sub' \in SubType
        <3>1. sub \in SubType
            BY DEF TypeOK
        <3>2. CASE AddSubscription
            BY <3>2 DEF AddSubscription, SubType
        <3>3. CASE RemoveSubscription
            BY <3>1, <3>3 DEF RemoveSubscription, SubType
        <3>4. CASE PauseSubscription
            BY <3>1, <3>4 DEF PauseSubscription, SubType
        <3> QED
            BY <1>7, <3>2, <3>3, <3>4
    <2>2. table' \in TableType
        BY <1>1, <1>7, TableTyped, Directed
           DEF AddSubscription, RemoveSubscription, PauseSubscription, Subscribed, Stopped
    <2>3. asked' \in Nat
        BY <1>1, <1>7
           DEF AddSubscription, RemoveSubscription, PauseSubscription, Subscribed, Stopped
    <2> QED
        BY <1>2, <1>7, <2>1, <2>2, <2>3
           DEF AddSubscription, RemoveSubscription, PauseSubscription, Subscribed, Stopped, TypeOK
<1> QED
    BY <1>3, <1>4, <1>5, <1>6, <1>7 DEF Operator

LEMMA TypedNext == ASSUME Typed, [Next]_vars PROVE Typed'
<1>1. CASE Handler
    BY <1>1, TypedConnections, TypedRequests, TypedReads DEF Handler
<1>2. CASE Operator
    BY <1>2, TypedOperator
<1>3. CASE Connect \/ Disconnect
    BY <1>3, TypedConnections
<1>4. CASE UnknownHello
    BY <1>4, TypedReads
<1>5. CASE UNCHANGED vars
    BY <1>5 DEF vars, Typed, TypeOK
<1> QED
    BY <1>1, <1>2, <1>3, <1>4, <1>5 DEF Next

LEMMA TypedAlways == Spec => []Typed
BY TypedInit, TypedNext, PTL DEF Spec

\* Every variable keeps its type, and the latest-value lane holds at most one
\* frame of a key, however often the configuration changes and whether or not
\* a change falls between reading a frame and acting on it (enqueueLatest).
THEOREM TypesAlways == Spec => []TypeOK
<1>1. Typed => TypeOK
    BY DEF Typed
<1> QED
    BY <1>1, TypedAlways, PTL

-----------------------------------------------------------------------------
(* The approval queue. *)

\* A configured peer is not in the approval queue: the configuration is looked
\* at again under its lock (recordPendingPeer), and configuring the peer takes
\* it out (AddPeer, ApprovePendingPeer).
THEOREM QueueAlways == Spec => []QueueIsOfStrangers
<1>1. Init => QueueIsOfStrangers
    BY DEF Init, QueueIsOfStrangers
<1>2. ASSUME QueueIsOfStrangers, Typed, [Next]_vars PROVE QueueIsOfStrangers'
    <2> USE DEF QueueIsOfStrangers
    <2>1. CASE recordPendingPeer
        BY <1>2, <2>1 DEF recordPendingPeer, Typed, TypeOK
    <2>2. CASE AddPeer \/ ApprovePendingPeer \/ removePendingPeer \/ RemovePeer
        BY <1>2, <2>2 DEF AddPeer, ApprovePendingPeer, removePendingPeer, RemovePeer
    <2>3. CASE UNCHANGED <<known, queued>>
        BY <1>2, <2>3
    <2>4. recordPendingPeer \/ AddPeer \/ ApprovePendingPeer \/ removePendingPeer \/ RemovePeer
          \/ UNCHANGED <<known, queued>>
        BY <1>2 DEF Next, Handler, Operator, Transmit, Greet, ReadSubscribeRequest, GrantRequest,
                    finishSubscribeRequest, AnswerRequest, ReadShareList, ReadAccessUpdate,
                    provisionAccessUpdate, AddShare, RemoveShare, UpdateShare, DecideApproval,
                    AddSubscription, RemoveSubscription, PauseSubscription, Subscribed, Stopped,
                    Connect, Disconnect, UnknownHello, vars, cfg
    <2> QED
        BY <2>1, <2>2, <2>3, <2>4
<1> QED
    BY <1>1, <1>2, TypedAlways, PTL DEF Spec

-----------------------------------------------------------------------------
(* What holds when a change waits for the frame being handled: Steady. *)

\* A session's table belongs to a connection, and a connection to a peer that
\* is configured.
Linked == (conn # 0 => known) /\ (conn = 0 => table = Idle)

\* What a handler saw of the configuration is still so: a decision under way
\* is the one provisionShareForRequest would make now, one that waits to be
\* answered is on record, and the subscription is as it was found.
Undisturbed ==
    /\ deciding # NoWork \/ tasks # {} => Offered
    /\ deciding # NoWork => /\ deciding.access = provisionShareForRequest(share)
                            /\ deciding.perm = share.perm
    /\ \A t \in tasks : /\ t.access = provisionShareForRequest(share)
                        /\ t.pc = "answer" => share.access = t.access
    /\ holding # NoHold => holding.state = sub.state

AccessInv == Typed /\ Linked /\ Undisturbed /\ Authorised /\ StoppedStaysStopped

LEMMA AccessInit == Init => AccessInv
<1> SUFFICES ASSUME Init PROVE AccessInv
    OBVIOUS
<1>1. /\ conn = 0 /\ table = Idle /\ deciding = NoWork /\ tasks = {} /\ holding = NoHold
    BY DEF Init
<1>2. table["o"] = "unknown" /\ table["s"] = "unknown"
    BY <1>1 DEF Idle
<1>3. Linked /\ Undisturbed
    BY <1>1 DEF Linked, Undisturbed
<1>4. Authorised /\ StoppedStaysStopped
    BY <1>2 DEF Authorised, StoppedStaysStopped, Direction
<1> QED
    BY <1>3, <1>4, TypedInit DEF AccessInv

\* What the three changes of the session's table do to its entries.
LEMMA TableEffect ==
    ASSUME Typed, NEW e \in {"o", "s"}, NEW d \in {"o", "s"}, NEW c, NEW dir
    PROVE  /\ grantShare(e, c, dir)[d] = IF d = e /\ c = conn THEN dir ELSE table[d]
           /\ neuterShare(e)[d] = IF d = e /\ conn # 0 THEN "blocked" ELSE table[d]
           /\ reconfigureShare(e, dir)[d] =
                 IF d = e /\ table[e] \in Direction THEN dir ELSE table[d]
<1>1. table \in TableType
    BY TypedParts
<1> QED
    BY <1>1 DEF TableType, grantShare, neuterShare, reconfigureShare

LEMMA NotSynced ==
    /\ "blocked" \notin Direction /\ Idle["o"] \notin Direction /\ Idle["s"] \notin Direction
BY DEF Direction, Idle

\* Steps that touch neither the configuration nor what is decided by it.
LEMMA QuietAccess ==
    ASSUME AccessInv, Typed', known => known',
           UNCHANGED <<share, sub, conn, table, deciding, tasks, holding>>
    PROVE  AccessInv'
<1>1. Linked' /\ Undisturbed'
    BY DEF AccessInv, Linked, Undisturbed, Offered
<1>2. Authorised' /\ StoppedStaysStopped'
    BY DEF AccessInv, Authorised, StoppedStaysStopped, Offered
<1> QED
    BY <1>1, <1>2 DEF AccessInv

\* A connection begins and ends with an empty table.
LEMMA ConnectionAccess ==
    ASSUME AccessInv, Typed', Connect \/ Disconnect PROVE AccessInv'
<1>1. /\ table' = Idle /\ (conn' # 0 => known') /\ UNCHANGED <<share, sub, deciding, tasks, holding>>
    BY DEF Connect, Disconnect, Dropped, cfg, work
<1>2. Linked' /\ Undisturbed'
    BY <1>1 DEF AccessInv, Linked, Undisturbed, Offered
<1>3. Authorised' /\ StoppedStaysStopped'
    BY <1>1, NotSynced DEF Authorised, StoppedStaysStopped
<1> QED
    BY <1>2, <1>3 DEF AccessInv

\* A request is decided by the configuration as it is, and stays decided so:
\* recording a decision does not change what the next one would be.
LEMMA RequestAccess ==
    ASSUME AccessInv, Typed',
           \/ ReadSubscribeRequest \/ GrantRequest
           \/ \E t \in tasks : finishSubscribeRequest(t) \/ AnswerRequest(t)
    PROVE  AccessInv'
<1> USE DEF cfg, traffic, work
<1>1. Typed /\ Linked /\ Undisturbed /\ Authorised /\ StoppedStaysStopped
    BY DEF AccessInv
<1>2. CASE ReadSubscribeRequest
    <2>1. Undisturbed'
        BY <1>1, <1>2 DEF Undisturbed, ReadSubscribeRequest, Offered
    <2>2. Linked' /\ Authorised' /\ StoppedStaysStopped'
        BY <1>1, <1>2
           DEF Linked, Authorised, StoppedStaysStopped, ReadSubscribeRequest, Offered
    <2> QED
        BY <2>1, <2>2 DEF AccessInv
<1>3. CASE GrantRequest
    <2> DEFINE t == [access |-> deciding.access, conn |-> deciding.conn, pc |-> "record"]
    <2>1. /\ deciding # NoWork /\ deciding' = NoWork /\ tasks' = tasks \cup {t}
          /\ UNCHANGED <<share, known, sub, conn, holding>>
        BY <1>3 DEF GrantRequest
    <2>2. /\ Offered /\ deciding.access = provisionShareForRequest(share)
          /\ deciding.perm = share.perm
        BY <1>1, <2>1 DEF Undisturbed
    <2>3. deciding.conn # 0
        <3>1. deciding \in Request
            BY <1>1, <2>1 DEF Typed, TypeOK
        <3> QED
            BY <3>1 DEF Request
    <2>4. t.access = deciding.access /\ t.conn = deciding.conn /\ t.pc = "record"
        OBVIOUS
    <2> HIDE DEF t
    <2>5. Undisturbed'
        BY <1>1, <2>1, <2>2, <2>4 DEF Undisturbed, Offered
    <2>6. /\ table'["s"] = table["s"]
          /\ \/ table'["o"] = table["o"]
             \/ /\ table'["o"] = offeredDirection(share.perm)
                /\ deciding.access = "granted" /\ deciding.conn = conn
        BY <1>1, <1>3, <2>2, TableEffect DEF GrantRequest
    <2>7. conn = 0 => table' = table
        BY <1>3, <2>3 DEF GrantRequest, grantShare
    <2>8. Linked'
        BY <1>1, <2>1, <2>7 DEF Linked
    <2>9. StoppedStaysStopped'
        BY <1>1, <2>1, <2>6 DEF StoppedStaysStopped
    <2>10. Authorised'
        <3>1. CASE table'["o"] = table["o"]
            BY <1>1, <2>1, <3>1 DEF Authorised, Offered
        <3>2. CASE /\ table'["o"] = offeredDirection(share.perm)
                   /\ deciding.access = "granted" /\ deciding.conn = conn
            <4>1. known
                BY <1>1, <2>3, <3>2 DEF Linked
            <4> QED
                BY <2>1, <2>2, <2>4, <3>2, <4>1 DEF Authorised, Offered
        <3> QED
            BY <2>6, <3>1, <3>2
    <2> QED
        BY <2>5, <2>8, <2>9, <2>10 DEF AccessInv
<1>4. ASSUME NEW t \in tasks, finishSubscribeRequest(t) PROVE AccessInv'
    <2>1. /\ t.pc = "record" /\ UNCHANGED <<known, sub, conn, deciding, holding>>
        BY <1>4 DEF finishSubscribeRequest
    <2>2. Offered /\ t.access = provisionShareForRequest(share)
        BY <1>1 DEF Undisturbed
    <2>3. CASE share.access # t.access
        <3>1. /\ share' = [share EXCEPT !.access = t.access] /\ tasks' = tasks \ {t}
              /\ IF known /\ conn # 0 THEN table' = applyAccess(t.access, share.perm)
                                      ELSE UNCHANGED table
            BY <1>4, <2>2, <2>3 DEF finishSubscribeRequest
        <3>2. /\ share'.state = share.state /\ share'.perm = share.perm
              /\ share'.approval = share.approval /\ share'.access = t.access
            BY <1>1, <3>1, TypedParts DEF ShareType
        <3>3. provisionShareForRequest(share') = t.access /\ t.access # "none"
            <4>1. t.access # "none"
                BY <1>1 DEF Typed, TypeOK, Task, Decision
            <4> QED
                BY <2>2, <3>2, <4>1 DEF provisionShareForRequest
        <3>4. Undisturbed'
            BY <1>1, <2>1, <2>2, <3>1, <3>2, <3>3 DEF Undisturbed, Offered
        <3>5. Linked'
            BY <1>1, <2>1, <3>1 DEF Linked
        <3>6. /\ table'["s"] = table["s"]
              /\ table'["o"] \in Direction =>
                    /\ known /\ t.access = "granted"
                    /\ table'["o"] = offeredDirection(share.perm)
            <4>1. CASE known /\ conn # 0
                BY <1>1, <3>1, <4>1, TableEffect, NotSynced DEF applyAccess
            <4>2. CASE ~(known /\ conn # 0)
                BY <1>1, <3>1, <4>2, NotSynced DEF Linked
            <4> QED
                BY <4>1, <4>2
        <3>7. Authorised' /\ StoppedStaysStopped'
            BY <1>1, <2>1, <2>2, <3>2, <3>6 DEF Authorised, StoppedStaysStopped, Offered
        <3> QED
            BY <3>4, <3>5, <3>7 DEF AccessInv
    <2>4. CASE share.access = t.access
        <3>1. /\ tasks' = (tasks \ {t}) \cup {[t EXCEPT !.pc = "answer"]}
              /\ UNCHANGED <<share, table>>
            BY <1>4, <2>2, <2>4 DEF finishSubscribeRequest
        <3>2. /\ [t EXCEPT !.pc = "answer"].access = t.access
              /\ [t EXCEPT !.pc = "answer"].conn = t.conn
            BY <1>1 DEF Typed, TypeOK, Task
        <3>3. Undisturbed'
            BY <1>1, <2>1, <2>2, <2>4, <3>1, <3>2 DEF Undisturbed, Offered
        <3>4. Linked' /\ StoppedStaysStopped'
            BY <1>1, <2>1, <3>1 DEF Linked, StoppedStaysStopped
        <3>5. Authorised'
            BY <1>1, <2>1, <2>4, <3>1 DEF Authorised, Offered
        <3> QED
            BY <3>3, <3>4, <3>5 DEF AccessInv
    <2> QED
        BY <2>3, <2>4
<1>5. ASSUME NEW t \in tasks, AnswerRequest(t) PROVE AccessInv'
    <2>1. /\ t.pc = "answer" /\ tasks' = tasks \ {t}
          /\ UNCHANGED <<share, known, sub, conn, table, deciding, holding>>
        BY <1>5 DEF AnswerRequest
    <2>2. share.access = t.access
        BY <1>1, <2>1 DEF Undisturbed
    <2>3. Undisturbed'
        BY <1>1, <2>1 DEF Undisturbed, Offered
    <2>4. Linked' /\ Authorised' /\ StoppedStaysStopped'
        BY <1>1, <2>1, <2>2 DEF Linked, Authorised, StoppedStaysStopped, Offered
    <2> QED
        BY <2>3, <2>4 DEF AccessInv
<1> QED
    BY <1>2, <1>3, <1>4, <1>5

\* The peer takes up a share only when its subscription, as it found it and as
\* it still is, runs.
LEMMA ReadAccess ==
    ASSUME AccessInv, Typed', ReadShareList \/ ReadAccessUpdate \/ provisionAccessUpdate
    PROVE  AccessInv'
<1> USE DEF cfg, traffic, work
<1>1. Typed /\ Linked /\ Undisturbed /\ Authorised /\ StoppedStaysStopped
    BY DEF AccessInv
<1>2. CASE ReadShareList
    <2>1. UNCHANGED <<share, known, sub, conn, deciding, tasks, holding>>
        BY <1>2 DEF ReadShareList
    <2>2. table'["o"] = table["o"] /\ (table["s"] \notin Direction => table' = table)
        BY <1>1, <1>2, TableEffect DEF ReadShareList, reconfigureShare
    <2>3. Undisturbed' /\ Authorised'
        BY <1>1, <2>1, <2>2 DEF Undisturbed, Authorised, Offered
    <2>4. Linked'
        BY <1>1, <2>1, <2>2, NotSynced DEF Linked
    <2>5. StoppedStaysStopped'
        BY <1>1, <2>1, <2>2 DEF StoppedStaysStopped
    <2> QED
        BY <2>3, <2>4, <2>5 DEF AccessInv
<1>3. CASE ReadAccessUpdate
    <2>1. UNCHANGED <<share, known, sub, conn, table, deciding, tasks>>
        BY <1>3 DEF ReadAccessUpdate
    <2>2. holding' # NoHold => holding'.state = sub.state
        BY <1>1, <1>3 DEF ReadAccessUpdate, Undisturbed
    <2>3. Undisturbed' /\ Linked'
        BY <1>1, <2>1, <2>2 DEF Undisturbed, Linked, Offered
    <2>4. Authorised' /\ StoppedStaysStopped'
        BY <1>1, <2>1 DEF Authorised, StoppedStaysStopped, Offered
    <2> QED
        BY <2>3, <2>4 DEF AccessInv
<1>4. CASE provisionAccessUpdate
    <2>1. /\ UNCHANGED <<share, known, sub, conn, deciding, tasks>>
          /\ holding # NoHold /\ holding' = NoHold
        BY <1>4 DEF provisionAccessUpdate
    <2>2. holding.state = sub.state
        BY <1>1, <2>1 DEF Undisturbed
    <2>3. holding.conn # 0
        <3>1. holding \in Found
            BY <1>1, <2>1 DEF Typed, TypeOK
        <3> QED
            BY <3>1 DEF Found
    <2>4. \/ table' = table
          \/ /\ table' = grantShare("s", holding.conn, subscriberDirection(remote.perm, holding.mode))
             /\ holding.state = "running"
          \/ table' = neuterShare("s")
        BY <1>4 DEF provisionAccessUpdate
    <2>5. /\ table'["o"] = table["o"]
          /\ table'["s"] \in Direction => table["s"] \in Direction \/ sub.state = "running"
        BY <1>1, <2>2, <2>4, TableEffect, NotSynced
    <2>6. conn = 0 => table' = table
        BY <2>3, <2>4 DEF grantShare, neuterShare
    <2>7. Linked'
        BY <1>1, <2>1, <2>6 DEF Linked
    <2>8. Undisturbed' /\ Authorised'
        BY <1>1, <2>1, <2>5 DEF Undisturbed, Authorised, Offered
    <2>9. StoppedStaysStopped'
        BY <1>1, <2>1, <2>5 DEF StoppedStaysStopped
    <2> QED
        BY <2>7, <2>8, <2>9 DEF AccessInv
<1> QED
    BY <1>2, <1>3, <1>4

\* A change of the share's settings: the table follows the access it leaves on
\* record and the permission it sets.
LEMMA UpdateAccess ==
    ASSUME AccessInv, Offered, tasks = {}, NEW p \in Permission, NEW a, NEW acc,
           updateShare(p, a, acc), UNCHANGED <<known, sub, conn, tasks>>
    PROVE  Authorised' /\ StoppedStaysStopped' /\ Linked'
<1>1. Typed /\ Linked /\ Authorised /\ StoppedStaysStopped
    BY DEF AccessInv
<1>2. /\ share'.state = share.state /\ share'.perm = p /\ share'.access = acc
    BY <1>1, TypedParts DEF updateShare, ShareType
<1>3. /\ table["o"] \in Direction =>
            /\ known /\ conn # 0 /\ share.access = "granted"
            /\ table["o"] = offeredDirection(share.perm)
    BY <1>1, NotSynced DEF Authorised, Linked
<1>4. CASE acc # share.access /\ known /\ conn # 0
    <2>1. table' = applyAccess(acc, p)
        BY <1>4 DEF updateShare
    <2>2. /\ table'["s"] = table["s"]
          /\ table'["o"] \in Direction => acc = "granted" /\ table'["o"] = offeredDirection(p)
        BY <1>1, <1>4, <2>1, TableEffect, NotSynced DEF applyAccess
    <2> QED
        BY <1>1, <1>2, <1>4, <2>2 DEF Authorised, StoppedStaysStopped, Linked, Offered
<1>5. CASE ~(acc # share.access /\ known /\ conn # 0)
    <2>1. table' = IF p # share.perm THEN reconfigureShare("o", offeredDirection(p)) ELSE table
        BY <1>5 DEF updateShare
    <2>2. /\ table'["s"] = table["s"]
          /\ table'["o"] \in Direction => /\ table["o"] \in Direction
                                          /\ table'["o"] = offeredDirection(p)
        <3>1. CASE p # share.perm
            BY <1>1, <2>1, <3>1, TableEffect
        <3>2. CASE p = share.perm
            BY <1>3, <2>1, <3>2
        <3> QED
            BY <3>1, <3>2
    <2>3. table'["o"] \in Direction => acc = "granted" /\ known
        BY <1>3, <1>5, <2>2
    <2>4. conn = 0 => table' = table
        BY <1>1, <2>1, NotSynced DEF Linked, reconfigureShare
    <2> QED
        BY <1>1, <1>2, <2>2, <2>3, <2>4 DEF Authorised, StoppedStaysStopped, Linked, Offered
<1> QED
    BY <1>4, <1>5

\* An operator's change, made while no frame is being handled.
LEMMA OperatorAccess == ASSUME ~Races, AccessInv, Typed', Operator PROVE AccessInv'
<1> USE DEF cfg, traffic, work
<1>1. Typed /\ Linked /\ Undisturbed /\ Authorised /\ StoppedStaysStopped
    BY DEF AccessInv
<1>2. /\ deciding = NoWork /\ tasks = {} /\ holding = NoHold
      /\ UNCHANGED <<deciding, tasks, holding>>
    BY DEF Operator, AddShare, RemoveShare, UpdateShare, DecideApproval, AddPeer,
           ApprovePendingPeer, removePendingPeer, RemovePeer, AddSubscription, RemoveSubscription,
           PauseSubscription, Subscribed, Stopped, mutateConfig, Steady
<1>3. Undisturbed'
    BY <1>2 DEF Undisturbed
<1>4. CASE AddPeer \/ ApprovePendingPeer \/ removePendingPeer
    BY <1>4, QuietAccess DEF AddPeer, ApprovePendingPeer, removePendingPeer
<1>5. CASE AddShare
    <2>1. share.state = "new" /\ UNCHANGED <<known, sub, conn, table>>
        BY <1>5 DEF AddShare
    <2>2. table["o"] \notin Direction
        BY <1>1, <2>1 DEF Authorised, Offered
    <2> QED
        BY <1>1, <1>3, <2>1, <2>2 DEF AccessInv, Linked, Authorised, StoppedStaysStopped
<1>6. CASE RemoveShare
    <2>1. table' = neuterShare("o") /\ UNCHANGED <<known, sub, conn>>
        BY <1>6 DEF RemoveShare
    <2>2. table'["o"] \notin Direction /\ table'["s"] = table["s"]
        BY <1>1, <2>1, TableEffect, NotSynced DEF Linked
    <2>3. conn = 0 => table' = table
        BY <2>1 DEF neuterShare
    <2> QED
        BY <1>1, <1>3, <2>1, <2>2, <2>3 DEF AccessInv, Linked, Authorised, StoppedStaysStopped
<1>7. CASE UpdateShare
    BY <1>2, <1>3, <1>7, UpdateAccess DEF UpdateShare, AccessInv
<1>8. CASE DecideApproval
    <2>1. share.perm \in Permission
        BY <1>1, TypedParts DEF ShareType
    <2> QED
        BY <1>2, <1>3, <1>8, <2>1, UpdateAccess DEF DecideApproval, AccessInv
<1>9. CASE RemovePeer
    <2>1. table' = Idle /\ conn' = 0
        BY <1>9 DEF RemovePeer, Dropped
    <2> QED
        BY <1>3, <2>1, NotSynced DEF AccessInv, Linked, Authorised, StoppedStaysStopped
<1>10. CASE AddSubscription \/ RemoveSubscription \/ PauseSubscription
    <2>1. UNCHANGED <<share, known, conn>>
        BY <1>10 DEF AddSubscription, RemoveSubscription, PauseSubscription, Subscribed, Stopped
    <2>2. \/ table' = table /\ (sub'.state = "running" \/ sub.state # "running")
          \/ table' = neuterShare("s")
        <3>1. sub \in SubType
            BY <1>1 DEF Typed, TypeOK
        <3>2. CASE AddSubscription
            BY <3>2 DEF AddSubscription, Subscribed
        <3>3. CASE RemoveSubscription
            BY <3>3 DEF RemoveSubscription, Stopped
        <3>4. CASE PauseSubscription
            BY <3>1, <3>4 DEF PauseSubscription, Subscribed, Stopped, SubType
        <3> QED
            BY <1>10, <3>2, <3>3, <3>4
    <2>3. /\ table'["o"] = table["o"]
          /\ table'["s"] \in Direction => sub'.state = "running"
          /\ conn = 0 => table' = table
        <3>1. CASE table' = neuterShare("s")
            <4>1. conn = 0 => table' = table /\ table["s"] \notin Direction
                BY <1>1, <3>1, NotSynced DEF neuterShare, Linked
            <4>2. table'["o"] = table["o"] /\ (conn # 0 => table'["s"] = "blocked")
                BY <1>1, <3>1, TableEffect
            <4> QED
                BY <4>1, <4>2, NotSynced
        <3>2. CASE table' = table /\ (sub'.state = "running" \/ sub.state # "running")
            BY <1>1, <3>2 DEF StoppedStaysStopped
        <3> QED
            BY <2>2, <3>1, <3>2
    <2>4. Linked' /\ Authorised' /\ StoppedStaysStopped'
        BY <1>1, <1>2, <2>1, <2>3 DEF Linked, Authorised, StoppedStaysStopped, Offered
    <2> QED
        BY <1>3, <2>4 DEF AccessInv
<1> QED
    BY <1>4, <1>5, <1>6, <1>7, <1>8, <1>9, <1>10 DEF Operator

LEMMA AccessNext == ASSUME ~Races, AccessInv, [Next]_vars PROVE AccessInv'
<1> USE DEF cfg, traffic, work
<1>1. Typed'
    BY TypedNext DEF AccessInv
<1>2. CASE Transmit \/ Greet \/ recordPendingPeer \/ UnknownHello \/ UNCHANGED vars
    BY <1>1, <1>2, QuietAccess DEF Transmit, Greet, recordPendingPeer, UnknownHello, vars
<1>3. CASE Connect \/ Disconnect
    BY <1>1, <1>3, ConnectionAccess
<1>4. CASE \/ ReadSubscribeRequest \/ GrantRequest
           \/ \E t \in tasks : finishSubscribeRequest(t) \/ AnswerRequest(t)
    BY <1>1, <1>4, RequestAccess
<1>5. CASE ReadShareList \/ ReadAccessUpdate \/ provisionAccessUpdate
    BY <1>1, <1>5, ReadAccess
<1>6. CASE Operator
    BY <1>1, <1>6, OperatorAccess
<1> QED
    BY <1>2, <1>3, <1>4, <1>5, <1>6 DEF Next, Handler

LEMMA AccessAlways == ASSUME ~Races PROVE Spec => []AccessInv
BY AccessInit, AccessNext, PTL DEF Spec

\* The offerer's session syncs the share only while it is offered, the peer is
\* configured and its grant is recorded or being recorded, and in the
\* direction of the share's permission, whatever requests, answers and old
\* connections are under way, when no change falls between a handler's reading
\* the configuration and acting on it (applyAccess, RemoveShare, RemovePeer).
THEOREM AuthorisedAlways == ASSUME ~Races PROVE Spec => []Authorised
<1>1. AccessInv => Authorised
    BY DEF AccessInv
<1> QED
    BY <1>1, AccessAlways, PTL

\* A subscription that is paused or removed is not synced, under the same
\* condition (provisionAccessUpdate, PauseSubscription, RemoveSubscription).
THEOREM StoppedAlways == ASSUME ~Races PROVE Spec => []StoppedStaysStopped
<1>1. AccessInv => StoppedStaysStopped
    BY DEF AccessInv
<1> QED
    BY <1>1, AccessAlways, PTL

\* A step changes the peer's access only as an operator's change, which is
\* counted, or by recording what provisionShareForRequest makes of it.
LEMMA AccessChanges ==
    ASSUME AccessInv, [Next]_vars
    PROVE  ops' # ops \/ share'.access \in {share.access, provisionShareForRequest(share)}
<1>1. CASE \E t \in tasks : finishSubscribeRequest(t)
    <2>1. PICK t \in tasks : finishSubscribeRequest(t)
        BY <1>1
    <2>2. t.access = provisionShareForRequest(share) /\ share \in ShareType
        BY TypedParts DEF AccessInv, Undisturbed
    <2> QED
        BY <2>1, <2>2 DEF finishSubscribeRequest, ShareType
<1>2. CASE Operator
    <2>1. ops \in Nat
        BY TypedParts, Numbers DEF AccessInv
    <2>2. ops' = ops + 1
        BY <1>2 DEF Operator, AddShare, RemoveShare, UpdateShare, DecideApproval, AddPeer,
                    ApprovePendingPeer, removePendingPeer, RemovePeer, AddSubscription,
                    RemoveSubscription, PauseSubscription, mutateConfig
    <2> QED
        BY <2>1, <2>2
<1>3. CASE share' = share
    BY <1>3
<1>4. (\E t \in tasks : finishSubscribeRequest(t)) \/ Operator \/ share' = share
    BY DEF Next, Handler, Transmit, Greet, ReadSubscribeRequest, GrantRequest, AnswerRequest,
           ReadShareList, ReadAccessUpdate, provisionAccessUpdate, recordPendingPeer, Connect,
           Disconnect, UnknownHello, vars, cfg
<1> QED
    BY <1>1, <1>2, <1>3, <1>4

\* A share that requires approval is granted by an operator and by no request
\* (provisionShareForRequest, finishSubscribeRequest).
THEOREM ApprovalGatesAlways == ASSUME ~Races PROVE Spec => ApprovalGates
<1>1. ASSUME AccessInv, [Next]_vars, share.approval, share.access # "granted",
             share'.access = "granted"
      PROVE  ops' # ops
    BY <1>1, AccessChanges DEF provisionShareForRequest
<1> QED
    BY <1>1, AccessAlways, PTL DEF Spec, ApprovalGates

\* What RefusalStands says, of a share that requires approval: a denied or
\* revoked peer stays so until an operator says otherwise.
RefusalStandsIfApproval ==
    [][(/\ share.approval /\ share.access \in {"denied", "revoked"}
        /\ share'.access # share.access) => ops' # ops]_vars

\* A refusal outlives reconnection and repeated requests where approval is
\* required; where it is not, the next request undoes it, which is what the
\* counterexample to RefusalStands shows (provisionShareForRequest).
THEOREM RefusalStandsAlways == ASSUME ~Races PROVE Spec => RefusalStandsIfApproval
<1>1. ASSUME AccessInv, [Next]_vars, share.approval, share.access \in {"denied", "revoked"},
             share'.access # share.access
      PROVE  ops' # ops
    BY <1>1, AccessChanges DEF provisionShareForRequest
<1> QED
    BY <1>1, AccessAlways, PTL DEF Spec, RefusalStandsIfApproval
=============================================================================
