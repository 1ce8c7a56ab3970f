------------------------------- MODULE Session -------------------------------
(***************************************************************************)
(* The two ends of one live connection: at each, the stream writer with    *)
(* its lanes, the read loop, the keepalive, pulls of the peer's file and   *)
(* serves of the peer's requests, and the session's shutdown.              *)
(*                                                                         *)
(* The connection buffers nothing: a frame being written (hand) is read by *)
(* the peer's read loop or not at all, which is when ends block each other *)
(* most.  Durations are left out.  A timer may fire once its condition can *)
(* last: the keepalive and the write timeout when nothing moves any more,  *)
(* the stall timer of a pull at any time, as a fault, since an answer may  *)
(* be late.                                                                *)
(***************************************************************************)
EXTENDS Naturals, Sequences, FiniteSets

CONSTANTS Node,        \* the two ends
          Watched,     \* the ends progress is stated for; they are alike, so one will do
          Chunks,      \* data chunks of the file each end offers
          PullDepth,   \* pullQueueDepth
          Slots,       \* maxConcurrentPulls and maxConcurrentServes
          UrgentDepth, CtrlDepth, DataDepth, MaxBurst,
          AbortsFull,  \* may a pull give up with more to come than it can queue?
          MaxPulls,    \* pulls one end starts
          MaxWork,     \* pulls and pings, of both ends together
          MaxFaults    \* files changed, writes failed, answers late, links lost

ASSUME SessionAssumption ==
    /\ IsFiniteSet(Node) /\ Cardinality(Node) = 2 /\ Watched \subseteq Node
    /\ AbortsFull \in BOOLEAN
    /\ {Chunks, PullDepth, Slots, UrgentDepth, CtrlDepth, DataDepth, MaxBurst} \subseteq Nat \ {0}
    /\ {MaxPulls, MaxWork, MaxFaults} \subseteq Nat

VARIABLES urgent, ctrl, data, \* the writer's lanes
          burst,    \* control frames written since the last bulk frame
          hand,     \* the frame being written
          rd,       \* the read loop, and the chunk it is handing over
          pull,     \* pull[n][i]: end n's pulls
          serve,    \* serve[n][i]: what n serves of its peer's pull i
          file,     \* file[n]: the version of n's file on disk
          shut,     \* shut[n]: n has closed its end of the connection
          stopped,  \* stopped[n]: n's writer has stopped
          ctx,      \* ctx[n]: the session's context, and whether Close is done
          silent,   \* the link has gone quiet without closing
          work,     \* pulls and pings so far
          faults    \* faults so far

lanes == <<urgent, ctrl, data, burst, hand>>
wires == <<shut, stopped>>
vars == <<urgent, ctrl, data, burst, hand, rd, pull, serve, file, shut, stopped,
          ctx, silent, work, faults>>

Id == 1..MaxPulls
Peer(n) == CHOOSE m \in Node : m # n

Frame(t, i, off, v) == [t |-> t, i |-> i, off |-> off, v |-> v]
NoFrame == Frame("none", 0, 0, 0)
\* A data chunk at offset off, read when the file had version v.
Chunk(i, off, v) == Frame("chunk", i, off, v)
EOF(i) == Frame("eof", i, Chunks, 0)
Error(i) == Frame("error", i, 0, 0)
\* The version every request asks for: the one in the index.
Asked == 1

Reading == [pc |-> "read", f |-> NoFrame]
NoPull == [pc |-> "none", q |-> <<>>, got |-> <<>>]
NoServe == [pc |-> "none", off |-> 0, cancelled |-> FALSE]

Init ==
    /\ urgent = [n \in Node |-> <<>>] /\ ctrl = [n \in Node |-> <<>>]
    /\ data = [n \in Node |-> <<>>] /\ burst = [n \in Node |-> 0]
    /\ hand = [n \in Node |-> NoFrame]
    /\ rd = [n \in Node |-> Reading]
    /\ pull = [n \in Node |-> [i \in Id |-> NoPull]]
    /\ serve = [n \in Node |-> [i \in Id |-> NoServe]]
    /\ file = [n \in Node |-> Asked]
    /\ shut = [n \in Node |-> FALSE] /\ stopped = [n \in Node |-> FALSE]
    /\ ctx = [n \in Node |-> "live"]
    /\ silent = FALSE /\ work = 0 /\ faults = 0

Begin == work < MaxWork /\ work' = work + 1
Fault == faults < MaxFaults /\ faults' = faults + 1

----------------------------------------------------------------------------
(* The writer. *)

\* A terminal failure stops the writer and closes the connection.
fail(n) ==
    /\ stopped' = [stopped EXCEPT ![n] = TRUE]
    /\ shut' = [shut EXCEPT ![n] = TRUE]

\* What is still queued is discarded with it.
Discard(n) ==
    /\ urgent' = [urgent EXCEPT ![n] = <<>>] /\ ctrl' = [ctrl EXCEPT ![n] = <<>>]
    /\ data' = [data EXCEPT ![n] = <<>>] /\ burst' = [burst EXCEPT ![n] = 0]
    /\ hand' = [hand EXCEPT ![n] = NoFrame]

\* A Pong or an Error never waits: a full urgent lane fails the writer.
enqueueUrgent(n, f) ==
    IF stopped[n] THEN UNCHANGED <<urgent, wires>>
    ELSE IF Len(urgent[n]) < UrgentDepth
    THEN urgent' = [urgent EXCEPT ![n] = Append(@, f)] /\ UNCHANGED wires
    ELSE fail(n) /\ UNCHANGED urgent

\* Mutant of enqueueCtrl: a control frame does not wait for room.
enqueueCtrlAnyway(n, f) ==
    /\ ~stopped[n]
    /\ ctrl' = [ctrl EXCEPT ![n] = Append(@, f)]

\* An ordinary control frame waits for room.
enqueueCtrl(n, f) ==
    /\ ~stopped[n] /\ Len(ctrl[n]) < CtrlDepth
    /\ ctrl' = [ctrl EXCEPT ![n] = Append(@, f)]

\* So does a bulk frame, in a lane of its own.
enqueueData(n, f) ==
    /\ ~stopped[n] /\ Len(data[n]) < DataDepth
    /\ data' = [data EXCEPT ![n] = Append(@, f)]

Take(lane, n) ==
    /\ lane[n] # <<>>
    /\ lane' = [lane EXCEPT ![n] = Tail(@)]
    /\ hand' = [hand EXCEPT ![n] = Head(lane[n])]

WriteUrgent(n) == Take(urgent, n) /\ UNCHANGED <<ctrl, data, burst>>

WriteCtrl(n) ==
    /\ Take(ctrl, n)
    /\ burst' = [burst EXCEPT ![n] = IF @ < MaxBurst THEN @ + 1 ELSE @]
    /\ UNCHANGED <<urgent, data>>

WriteData(n) ==
    /\ Take(data, n)
    /\ burst' = [burst EXCEPT ![n] = 0]
    /\ UNCHANGED <<urgent, ctrl>>

\* Mutant of Write: after a burst of control there is no turn for bulk.
WriteStarving(n) ==
    /\ hand[n] = NoFrame /\ ~stopped[n] /\ ~shut[n]
    /\ IF urgent[n] # <<>> THEN WriteUrgent(n)
       ELSE IF burst[n] < MaxBurst THEN WriteCtrl(n) \/ WriteData(n)
       ELSE WriteCtrl(n)
    /\ UNCHANGED <<rd, pull, serve, file, wires, ctx, silent, work, faults>>

\* run: urgent frames first, bulk when control has had its burst, and
\* otherwise whichever lane has something.
Write(n) ==
    /\ hand[n] = NoFrame /\ ~stopped[n] /\ ~shut[n]
    /\ IF urgent[n] # <<>> THEN WriteUrgent(n)
       ELSE IF burst[n] = MaxBurst /\ data[n] # <<>> THEN WriteData(n)
       ELSE WriteCtrl(n) \/ WriteData(n)
    /\ UNCHANGED <<rd, pull, serve, file, wires, ctx, silent, work, faults>>

\* n's read loop waits for room that nobody will make.
Stuck(n) ==
    /\ rd[n].pc = "route" /\ ctx[n] = "live"
    /\ pull[n][rd[n].f.i].pc \in {"done", "failed"}
    /\ Len(pull[n][rd[n].f.i].q) = PullDepth

\* The write fails with the connection, or times out.
WriteFails(n) ==
    /\ ~stopped[n]
    /\ \/ (shut[n] \/ shut[Peer(n)]) /\ (urgent[n] # <<>> \/ ctrl[n] # <<>> \/ data[n] # <<>>)
       \/ hand[n] # NoFrame /\ (shut[n] \/ shut[Peer(n)] \/ silent \/ Stuck(Peer(n)))
    /\ fail(n)
    /\ Discard(n)
    /\ UNCHANGED <<rd, pull, serve, file, ctx, silent, work, faults>>

----------------------------------------------------------------------------
(* Pulling the peer's file. *)

Waiting == {"asking", "pulling", "cancelling"}

\* A finished pull's queue is garbage unless the read loop still holds it.
Finished(n, i, pc, q) ==
    pull' = [pull EXCEPT ![n][i].pc = pc,
                         ![n][i].q = IF rd[n].pc = "route" /\ rd[n].f.i = i THEN q ELSE <<>>]

\* A pull takes a slot and registers its queue.
StartPull(n, i) ==
    /\ ctx[n] = "live" /\ Begin
    /\ pull[n][i].pc = "none" /\ \A j \in Id : j < i => pull[n][j].pc # "none"
    /\ Cardinality({j \in Id : pull[n][j].pc \in Waiting}) < Slots
    /\ pull' = [pull EXCEPT ![n][i].pc = "asking"]
    /\ UNCHANGED <<lanes, rd, serve, file, wires, ctx, silent, faults>>

SendRequest(n, i) ==
    /\ pull[n][i].pc = "asking"
    /\ \/ /\ stopped[n]
          /\ Finished(n, i, "failed", pull[n][i].q)
          /\ UNCHANGED ctrl
       \/ /\ enqueueCtrl(n, Frame("request", i, 0, Asked))
          /\ pull' = [pull EXCEPT ![n][i].pc = "pulling"]
    /\ UNCHANGED <<urgent, data, burst, hand, rd, serve, file, wires, ctx, silent, work, faults>>

\* The next chunk is checked, written to disk, and the last one ends the pull.
Receive(n, i) ==
    LET p == pull[n][i]
        c == Head(p.q)
        rest == [p EXCEPT !.q = Tail(@)]
    IN /\ p.pc = "pulling" /\ p.q # <<>>
       /\ IF c.t = "error" THEN Finished(n, i, "failed", rest.q)
          ELSE IF c.off # Len(p.got)
          THEN pull' = [pull EXCEPT ![n][i] = [rest EXCEPT !.pc = "cancelling"]]
          ELSE \/ /\ c.t = "chunk"
                  /\ pull' = [pull EXCEPT ![n][i] = [rest EXCEPT !.got = Append(@, c.v)]]
               \/ /\ c.t = "eof"
                  /\ Finished(n, i, "done", rest.q)
       /\ UNCHANGED <<lanes, rd, serve, file, wires, ctx, silent, work, faults>>

\* What the peer has still to send fits the queue.
Fits(p) == Chunks + 1 - Len(p.got) <= PullDepth

\* The write to disk failed, the answer is late, the session's context is done,
\* or no answer can come any more and the stall timer fires.
GiveUp(n, i) ==
    /\ pull[n][i].pc = "pulling"
    /\ \/ Fault /\ (AbortsFull \/ Fits(pull[n][i]))
       \/ ctx[n] # "live" /\ UNCHANGED faults
       \/ /\ ctx[n] = "live" /\ pull[n][i].q = <<>> /\ rd[n].pc # "route"
          /\ rd[n].pc = "exited" \/ silent
          /\ UNCHANGED faults
    /\ pull' = [pull EXCEPT ![n][i].pc = "cancelling"]
    /\ UNCHANGED <<lanes, rd, serve, file, wires, ctx, silent, work>>

\* The peer is told, and only then is the pull forgotten.
SendCancel(n, i) ==
    /\ pull[n][i].pc = "cancelling"
    /\ Finished(n, i, "failed", pull[n][i].q)
    /\ \/ stopped[n] /\ UNCHANGED ctrl
       \/ enqueueCtrl(n, Frame("cancel", i, 0, 0))
    /\ UNCHANGED <<urgent, data, burst, hand, rd, serve, file, wires, ctx, silent, work, faults>>

----------------------------------------------------------------------------
(* Serving the peer's requests. *)

\* startBounded: a slot, or the session is overloaded.
Serving(n) == {i \in Id : serve[n][i].pc # "none"}

\* Mutant of ServeStart: the peer is not told of a file that has changed.
ServeStartSilently(n, i) ==
    /\ serve[n][i].pc = "starting"
    /\ serve' = [serve EXCEPT ![n][i].pc = IF file[n] = Asked THEN "streaming" ELSE "ending"]
    /\ UNCHANGED <<lanes, rd, pull, file, wires, ctx, silent, work, faults>>

\* The file is as the index says, or the peer is told it is not.
ServeStart(n, i) ==
    /\ serve[n][i].pc = "starting"
    /\ \/ /\ file[n] = Asked
          /\ serve' = [serve EXCEPT ![n][i].pc = "streaming"]
          /\ UNCHANGED <<urgent, wires>>
       \/ /\ file[n] # Asked
          /\ serve' = [serve EXCEPT ![n][i].pc = "ending"]
          /\ enqueueUrgent(n, Error(i))
    /\ UNCHANGED <<ctrl, data, burst, hand, rd, pull, file, ctx, silent, work, faults>>

\* A chunk is read from disk and queued.
ServeChunk(n, i) ==
    /\ serve[n][i].pc = "streaming" /\ serve[n][i].off < Chunks
    /\ ~serve[n][i].cancelled /\ ctx[n] = "live"
    /\ enqueueData(n, Chunk(i, serve[n][i].off, file[n]))
    /\ serve' = [serve EXCEPT ![n][i].off = @ + 1]
    /\ UNCHANGED <<urgent, ctrl, burst, hand, rd, pull, file, wires, ctx, silent, work, faults>>

\* Mutant of ServeFinish: a file that changed is not looked at again.
ServeFinishUnchecked(n, i) ==
    /\ serve[n][i].pc = "streaming" /\ serve[n][i].off = Chunks
    /\ ~serve[n][i].cancelled /\ ctx[n] = "live"
    /\ serve' = [serve EXCEPT ![n][i].pc = "ending"]
    /\ enqueueData(n, EOF(i))
    /\ UNCHANGED <<urgent, ctrl, burst, hand, rd, pull, file, wires, ctx, silent, work, faults>>

\* After the last one the file must still be what it was at the first.
ServeFinish(n, i) ==
    /\ serve[n][i].pc = "streaming" /\ serve[n][i].off = Chunks
    /\ serve' = [serve EXCEPT ![n][i].pc = "ending"]
    /\ \/ /\ file[n] = Asked
          /\ ~serve[n][i].cancelled /\ ctx[n] = "live"
          /\ enqueueData(n, EOF(i))
          /\ UNCHANGED <<urgent, wires>>
       \/ /\ file[n] # Asked
          /\ enqueueUrgent(n, Error(i))
          /\ UNCHANGED data
    /\ UNCHANGED <<ctrl, burst, hand, rd, pull, file, ctx, silent, work, faults>>

\* A cancelled serve, and one whose session ends, stops without an answer.
ServeCancelled(n, i) ==
    /\ serve[n][i].pc = "streaming"
    /\ serve[n][i].cancelled \/ ctx[n] # "live" \/ stopped[n]
    /\ serve' = [serve EXCEPT ![n][i].pc = "ending"]
    /\ UNCHANGED <<lanes, rd, pull, file, wires, ctx, silent, work, faults>>

\* The goroutine returns and gives its slot back.
ServeRelease(n, i) ==
    /\ serve[n][i].pc = "ending"
    /\ serve' = [serve EXCEPT ![n][i] = NoServe]
    /\ UNCHANGED <<lanes, rd, pull, file, wires, ctx, silent, work, faults>>

FileChanges(n) ==
    /\ Fault /\ file[n] = Asked
    /\ file' = [file EXCEPT ![n] = Asked + 1]
    /\ UNCHANGED <<lanes, rd, pull, serve, wires, ctx, silent, work>>

----------------------------------------------------------------------------
(* The read loop. *)

\* A frame leaves the peer's hands.
ReadFrame(n, f) ==
    /\ rd[n] = Reading /\ ~shut[n] /\ ~silent
    /\ f = hand[Peer(n)] /\ f # NoFrame
    /\ hand' = [hand EXCEPT ![Peer(n)] = NoFrame]

handleKeepaliveFrame(n) ==
    /\ \/ /\ ReadFrame(n, Frame("ping", 0, 0, 0))
          /\ enqueueUrgent(n, Frame("pong", 0, 0, 0))
       \/ /\ ReadFrame(n, Frame("pong", 0, 0, 0))
          /\ UNCHANGED <<urgent, wires>>
    /\ UNCHANGED <<ctrl, data, burst, rd, pull, serve, file, ctx, silent, work, faults>>

\* Without a free slot the session is overloaded: the connection closes and
\* the read loop ends.
handleFileRequestFrame(n, i) ==
    /\ ReadFrame(n, Frame("request", i, 0, Asked))
    /\ \/ /\ Cardinality(Serving(n)) < Slots
          /\ serve' = [serve EXCEPT ![n][i].pc = "starting"]
          /\ UNCHANGED <<rd, shut>>
       \/ /\ Cardinality(Serving(n)) = Slots
          /\ shut' = [shut EXCEPT ![n] = TRUE]
          /\ rd' = [rd EXCEPT ![n] = [pc |-> "exited", f |-> NoFrame]]
          /\ UNCHANGED serve
    /\ UNCHANGED <<urgent, ctrl, data, burst, pull, file, stopped, ctx, silent, work, faults>>

\* A serve that has not registered yet, or has ended, is not there to cancel.
handleCancelTransferFrame(n, i) ==
    /\ ReadFrame(n, Frame("cancel", i, 0, 0))
    /\ serve' = [serve EXCEPT ![n][i].cancelled = (@ \/ serve[n][i].pc = "streaming")]
    /\ UNCHANGED <<urgent, ctrl, data, burst, rd, pull, file, wires, ctx, silent, work, faults>>

\* A chunk or an Error for a pull that is registered; any other is dropped.
routeChunk(n, i) ==
    /\ \E f \in {hand[Peer(n)]} :
          /\ f.t \in {"chunk", "eof", "error"} /\ f.i = i
          /\ ReadFrame(n, f)
          /\ rd' = IF pull[n][i].pc \in Waiting
                   THEN [rd EXCEPT ![n] = [pc |-> "route", f |-> f]]
                   ELSE rd
    /\ UNCHANGED <<urgent, ctrl, data, burst, pull, serve, file, wires, ctx, silent, work, faults>>

\* It waits for room in the pull's queue, and for nothing but the context.
HandOver(n) ==
    LET i == rd[n].f.i
    IN /\ rd[n].pc = "route"
       /\ rd' = [rd EXCEPT ![n] = Reading]
       /\ \/ /\ Len(pull[n][i].q) < PullDepth
             /\ pull' = [pull EXCEPT ![n][i].q =
                            IF pull[n][i].pc \in Waiting THEN Append(@, rd[n].f) ELSE <<>>]
          \/ /\ ctx[n] # "live"
             /\ pull' = [pull EXCEPT ![n][i].q = IF pull[n][i].pc \in Waiting THEN @ ELSE <<>>]
       /\ UNCHANGED <<lanes, serve, file, wires, ctx, silent, work, faults>>

\* Reading fails once either end is closed, and Done is closed.
ReadEnds(n) ==
    /\ rd[n] = Reading /\ (shut[n] \/ shut[Peer(n)])
    /\ rd' = [rd EXCEPT ![n] = [pc |-> "exited", f |-> NoFrame]]
    /\ UNCHANGED <<lanes, pull, serve, file, wires, ctx, silent, work, faults>>

----------------------------------------------------------------------------
(* The keepalive, the owner and the network. *)

Ping(n) ==
    /\ ctx[n] = "live" /\ rd[n].pc # "exited" /\ Begin
    /\ enqueueCtrl(n, Frame("ping", 0, 0, 0))
    /\ UNCHANGED <<urgent, data, burst, hand, rd, pull, serve, file, wires, ctx, silent, faults>>

\* Mutant of Dead: the connection is given up without being closed.
DeadUnclosed(n) == ctx[n] = "live" /\ rd[n].pc # "exited" /\ UNCHANGED vars

\* Nothing has been read for the dead interval: the connection is closed.
Dead(n) ==
    /\ ctx[n] = "live" /\ rd[n].pc # "exited" /\ ~shut[n]
    /\ silent \/ Stuck(n) \/ Stuck(Peer(n))
    /\ shut' = [shut EXCEPT ![n] = TRUE]
    /\ UNCHANGED <<lanes, rd, pull, serve, file, stopped, ctx, silent, work, faults>>

\* The owner closes the session when it is done, or for a reason of its own.
Close(n) ==
    /\ ctx[n] = "live"
    /\ \/ rd[n].pc = "exited" /\ UNCHANGED faults
       \/ rd[n].pc # "exited" /\ Fault
    /\ ctx' = [ctx EXCEPT ![n] = "done"]
    /\ fail(n)
    /\ Discard(n)
    /\ UNCHANGED <<rd, pull, serve, file, silent, work>>

\* It returns when every goroutine of the session has.
Closed(n) ==
    /\ ctx[n] = "done" /\ rd[n].pc = "exited" /\ Serving(n) = {}
    /\ \A i \in Id : pull[n][i].pc \notin Waiting
    /\ ctx' = [ctx EXCEPT ![n] = "closed"]
    /\ UNCHANGED <<lanes, rd, pull, serve, file, wires, silent, work, faults>>

LinkLost ==
    /\ Fault /\ ~silent
    /\ silent' = TRUE
    /\ UNCHANGED <<lanes, rd, pull, serve, file, wires, ctx, work>>

Reader(n) ==
    \/ handleKeepaliveFrame(n) \/ HandOver(n) \/ ReadEnds(n)
    \/ \E i \in Id : handleFileRequestFrame(n, i)
    \/ \E i \in Id : handleCancelTransferFrame(n, i)
    \/ \E i \in Id : routeChunk(n, i)

Writer(n) == Write(n) \/ WriteFails(n)

Puller(n, i) == SendRequest(n, i) \/ Receive(n, i) \/ SendCancel(n, i)

Server(n, i) ==
    \/ ServeStart(n, i) \/ ServeChunk(n, i) \/ ServeFinish(n, i)
    \/ ServeCancelled(n, i) \/ ServeRelease(n, i)

Next ==
    \/ \E n \in Node :
          \/ Reader(n) \/ Writer(n)
          \/ \E i \in Id : StartPull(n, i) \/ Puller(n, i) \/ GiveUp(n, i)
          \/ \E i \in Id : Server(n, i)
          \/ FileChanges(n) \/ Ping(n) \/ Dead(n) \/ Close(n) \/ Closed(n)
    \/ LinkLost

Spec == Init /\ [][Next]_vars

\* Steps that are somebody's to take: no pull or ping is bound to start and no
\* fault to happen.
Progress ==
    \E n \in Node :
        \/ Reader(n) \/ Writer(n) \/ Dead(n) \/ Closed(n)
        \/ rd[n].pc = "exited" /\ Close(n)
        \/ \E i \in Id : Puller(n, i) \/ Server(n, i) \/ (GiveUp(n, i) /\ faults' = faults)

\* Goroutines run, a timer whose condition lasts fires, and the owner closes a
\* session that is done.  One condition for all of them is enough: a frame, a
\* pull and a serve each take a bounded number of steps, so none can keep the
\* others from theirs.
FairSpec == Spec /\ WF_vars(Progress)

----------------------------------------------------------------------------
(* Properties. *)

FrameType ==
    [t : {"ping", "pong", "request", "cancel", "chunk", "eof", "error"},
     i : Id \cup {0}, off : 0..Chunks, v : 0..Asked + 1]

\* Every variable keeps its type and every queue its bound.
TypeOK ==
    /\ \A n \in Node :
          /\ urgent[n] \in Seq(FrameType) /\ Len(urgent[n]) <= UrgentDepth
          /\ ctrl[n] \in Seq(FrameType) /\ Len(ctrl[n]) <= CtrlDepth
          /\ data[n] \in Seq(FrameType) /\ Len(data[n]) <= DataDepth
          /\ \A i \in Id :
                /\ pull[n][i].pc \in Waiting \cup {"none", "done", "failed"}
                /\ pull[n][i].q \in Seq(FrameType) /\ Len(pull[n][i].q) <= PullDepth
                /\ serve[n][i] \in [pc : {"none", "starting", "streaming", "ending"},
                                    off : 0..Chunks, cancelled : BOOLEAN]
          /\ Cardinality(Serving(n)) <= Slots
    /\ burst \in [Node -> 0..MaxBurst]
    /\ hand \in [Node -> FrameType \cup {NoFrame}]
    /\ rd \in [Node -> [pc : {"read", "route", "exited"}, f : FrameType \cup {NoFrame}]]
    /\ file \in [Node -> {Asked, Asked + 1}]
    /\ shut \in [Node -> BOOLEAN] /\ stopped \in [Node -> BOOLEAN]
    /\ ctx \in [Node -> {"live", "done", "closed"}] /\ silent \in BOOLEAN
    /\ work \in 0..MaxWork /\ faults \in 0..MaxFaults

\* A pull that succeeds has the whole file, in order, and all of the version
\* it asked for, although the file may change while it is served (streamFile,
\* pullFile, routeChunk).
PullExact ==
    \A n \in Node, i \in Id :
        pull[n][i].pc = "done" => pull[n][i].got = [k \in 1..Chunks |-> Asked]

\* Every pull ends, although both ends may pull and serve at once over lanes
\* and queues that are full: no end waits for the other to read while the
\* other waits for it (StreamWriter, readLoop).
PullEnds ==
    \A n \in Watched, i \in Id :
        pull[n][i].pc \in Waiting ~> pull[n][i].pc \notin Waiting

\* A session ends: a link gone quiet is found dead; closing the connection, by
\* that rule, a failed write or an overload, ends the read loop and so closes
\* Done; the owner then calls Close, which returns because every goroutine of
\* the session stops (runKeepalive, readLoop, Close).
SessionEnds ==
    \A n \in Watched : silent \/ shut[n] \/ ctx[n] = "done" ~> ctx[n] = "closed"

\* Without a fault every pull succeeds; in particular no session is closed as
\* overloaded by a peer that keeps to the number of pulls it may have at once
\* (handleFileRequestFrame).
PullSucceeds ==
    [](faults = 0) =>
        \A n \in Watched, i \in Id : pull[n][i].pc = "asking" ~> pull[n][i].pc = "done"

=============================================================================
