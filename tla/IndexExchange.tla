---------------------------- MODULE IndexExchange ----------------------------
(***************************************************************************)
(* How one node's index of a share (the sender's) reaches its peer's       *)
(* mirror of it (the receiver's): the change journal and its epoch, the    *)
(* two cursors, journal deltas, snapshots, acknowledgements, requests to   *)
(* sync again, and the IndexUpdate a pass sends when it ends.              *)
(*                                                                         *)
(* The k-th entry of the journal stands for the row it holds, so a row is  *)
(* the pair <<epoch, k>>.  SyncShare is called for every change and on a   *)
(* new session, and the calls run concurrently with each other and with    *)
(* the worker that answers requests: each Answerer is one such goroutine.  *)
(* Their frames share one FIFO lane of the connection.                     *)
(***************************************************************************)
EXTENDS Naturals, Sequences, FiniteSets, SequencesExt, FiniteSetsExt

CONSTANTS Path,          \* the paths of the share
          Pusher,        \* concurrent SyncShare calls
          PageSize,      \* journal rows one delta batch carries
          LaneDepth,     \* frames the bulk lane holds before writers wait
          ReceiverAsks,  \* is the receiver a receive-only subscriber?
          MaxSeq,        \* changes journalled in the first epoch, one fewer in the next
          Events,        \* of "pass", "prune", "ignore", "forget", "drop" and the
                         \* receiver's store writes that may fail
          MaxEvents      \* how many of these happen

ASSUME IndexExchangeAssumption ==
    /\ IsFiniteSet(Pusher) /\ "sync" \notin Pusher
    /\ PageSize \in Nat \ {0} /\ LaneDepth \in Nat \ {0}
    /\ ReceiverAsks \in BOOLEAN
    /\ Events \subseteq {"pass", "prune", "ignore", "forget", "drop",
                          "begin", "stage", "count", "commit", "delta"}
    /\ MaxSeq \in Nat /\ MaxEvents \in Nat

VARIABLES journal,   \* the paths journalled in this epoch, in order
          oldest,    \* the first sequence number retention has left
          epoch,     \* the share's epoch on the sender
          ignored,   \* paths the sender has stopped syncing
          outgoing,  \* the sender's cursor for this peer: [epoch, applied]
          sent,      \* the newest endpoint this session has written
          job,       \* job[a]: what answerer a is doing
          asked,     \* the pending request of the "sync" worker, or NoRequest
          updates,   \* rows of passes that have not reported them yet
          toR,       \* frames on their way to the receiver
          incoming,  \* the receiver's cursor: [epoch, applied, id, batch]
          begun,     \* the SnapshotBegin this session last received, or NoSnapshot
          staging,   \* the staged rows, each with its snapshot's id
          mirror,    \* mirror[p]: the row the receiver has of p, or NoRow
          handling,  \* IndexUpdates a worker of the receiver has yet to apply
          toS,       \* acknowledgements and requests on their way back
          reported,  \* rows an IndexUpdate has ever carried
          events,    \* the events so far, each at most once
          crossed    \* have two answers ever been under way at once?

senderVars == <<journal, oldest, epoch, ignored, outgoing, sent, job, asked, updates, reported,
                crossed>>
receiverVars == <<incoming, begun, staging, mirror, handling>>
vars == <<senderVars, receiverVars, toR, toS, events>>

Answerer == Pusher \cup {"sync"}

NoRow == <<0, 0>>
NoRequest == [epoch |-> 0, applied |-> 0, none |-> TRUE]
Request(e, s) == [epoch |-> e, applied |-> s, none |-> FALSE]
NoCursor == [epoch |-> 0, applied |-> 0]
NoSnapshot == [id |-> 0, epoch |-> 0, high |-> 0]
NothingSent == [epoch |-> 0, high |-> 0, id |-> 0]
Idle == [pc |-> "idle"]
Called == [pc |-> "called"]

high == Len(journal)

\* A writer waits while the bulk lane is full.
Write(frame) == Len(toR) < LaneDepth /\ toR' = Append(toR, frame)

\* The sequence number of the last of the first s entries to name p, or 0.
LatestSeq(s, p) == Max({0} \cup {k \in 1..s : journal[k] = p})

\* ListShare: the row of every path that has one and is not parked.
ListShare == {<<p, <<epoch, LatestSeq(high, p)>>>> :
                 p \in {q \in Path \ ignored : LatestSeq(high, q) > 0}}

Init ==
    /\ journal = <<>> /\ oldest = 1 /\ epoch = 1 /\ ignored = {}
    /\ outgoing = NoCursor /\ sent = NothingSent
    /\ job = [a \in Answerer |-> Idle]
    /\ asked = NoRequest /\ updates = {} /\ reported = {} /\ toR = <<>>
    /\ incoming = [epoch |-> 0, applied |-> 0, id |-> 0, batch |-> 0]
    /\ begun = NoSnapshot /\ staging = {} /\ mirror = [p \in Path |-> NoRow]
    /\ handling = {} /\ toS = <<>>
    /\ events = {} /\ crossed = FALSE

Event(e) ==
    /\ e \in Events \ events /\ Cardinality(events) < MaxEvents
    /\ events' = events \cup {e}

-----------------------------------------------------------------------------
(* What changes the sender's index. *)

\* A scan, a restore or another peer's pass journals a change and then calls
\* SyncShare.
Change(a, p) ==
    /\ epoch + high <= MaxSeq /\ job[a] = Idle
    /\ journal' = Append(journal, p)
    /\ job' = [job EXCEPT ![a] = Called]
    /\ UNCHANGED <<oldest, epoch, ignored, outgoing, sent, asked, updates, reported, crossed, receiverVars,
                   toR, toS, events>>

\* A pass against this very peer journals what it pulled; SyncShare is not
\* called, the peer is told in an IndexUpdate once the pass is over.
PassChange(p) ==
    /\ epoch + high <= MaxSeq /\ Event("pass")
    /\ \A r \in updates : r[1] # p
    /\ journal' = Append(journal, p)
    /\ updates' = updates \cup {<<p, <<epoch, high + 1>>>>}
    /\ UNCHANGED <<oldest, epoch, ignored, outgoing, sent, job, asked, reported, crossed, receiverVars,
                   toR, toS>>

sendIndexUpdate ==
    /\ updates # {}
    /\ Write([type |-> "Update", rows |-> {r \in updates : r[1] \notin ignored}])
    /\ reported' = reported \cup {r[2] : r \in updates}
    /\ updates' = {}
    /\ UNCHANGED <<journal, oldest, epoch, ignored, outgoing, sent, job, asked, crossed, receiverVars,
                   toS, events>>

\* The retention sweep drops the oldest entries, however many.
PruneJournal(k) ==
    /\ Event("prune")
    /\ k \in (oldest + 1)..(high + 1)
    /\ oldest' = k
    /\ UNCHANGED <<journal, epoch, ignored, outgoing, sent, job, asked, updates, reported, crossed, receiverVars,
                   toR, toS>>

\* An ignore rule parks p, without a journal entry.
Ignore(p) ==
    /\ Event("ignore") /\ p \notin ignored
    /\ ignored' = ignored \cup {p}
    /\ UNCHANGED <<journal, oldest, epoch, outgoing, sent, job, asked, updates, reported, crossed, receiverVars,
                   toR, toS>>

\* The sender forgets the share and takes it up again: its next row is the
\* first of a new epoch.  waitShareIdle has let its answers finish.
ForgetSubscription(a) ==
    /\ Event("forget")
    /\ \A b \in Answerer : job[b] = Idle
    /\ updates = {}
    /\ journal' = <<>> /\ oldest' = 1 /\ epoch' = epoch + 1
    /\ outgoing' = NoCursor
    /\ job' = [job EXCEPT ![a] = Called]
    /\ UNCHANGED <<ignored, sent, asked, updates, reported, crossed, receiverVars, toR, toS>>

-----------------------------------------------------------------------------
(* The sender's answers. *)

canAnswerWithDeltas(req, e, h, old) ==
    /\ req.epoch = e /\ req.applied <= h
    /\ req.applied = h \/ (old > 0 /\ old <= req.applied + 1)

Answering == {a \in Answerer : job[a].pc \notin {"idle", "called"}}

\* The decision taken on ShareState and OldestJournalSeq.
Decided(req) ==
    LET old == IF oldest > high THEN 0 ELSE oldest
    IN  [pc |-> IF canAnswerWithDeltas(req, epoch, high, old) THEN "deltas" ELSE "list",
         epoch |-> epoch, high |-> high, applied |-> req.applied]

SyncShare(a) ==
    /\ job[a] = Called
    /\ crossed' = (crossed \/ Answering # {})
    /\ job' = [job EXCEPT ![a] = Decided(Request(outgoing.epoch, outgoing.applied))]
    /\ UNCHANGED <<journal, oldest, epoch, ignored, outgoing, sent, asked, updates, reported, receiverVars,
                   toR, toS, events>>

answerSyncRequest ==
    /\ job["sync"] = Idle /\ asked # NoRequest
    /\ job' = [job EXCEPT !["sync"] = Decided(asked)]
    /\ crossed' = (crossed \/ Answering # {})
    /\ asked' = NoRequest
    /\ UNCHANGED <<journal, oldest, epoch, ignored, outgoing, sent, updates, reported, receiverVars,
                   toR, toS, events>>

\* Mutant of JournalSince: seq > s + 1 where the query says seq > s.
JournalSkips(e, s) ==
    LET first == Max({s + 2, oldest})
        last  == Min({high, first + PageSize - 1})
    IN  IF e # epoch \/ first > high THEN {} ELSE first..last

\* JournalSince: the entries after s of the epoch, at most a page of them.
JournalSince(e, s) ==
    LET first == Max({s + 1, oldest})
        last  == Min({high, first + PageSize - 1})
    IN  IF e # epoch \/ first > high THEN {} ELSE first..last

\* noteSnapshotWritten and noteDeltaWritten.
NoteWritten(e, h, id) ==
    IF sent.epoch # e \/ h >= sent.high THEN [epoch |-> e, high |-> h, id |-> id] ELSE sent

\* One page of sendJournalDeltas.  A page with a path that is now ignored
\* hands the answer over to a snapshot.
sendJournalDeltas(a) ==
    LET j    == job[a]
        page == JournalSince(j.epoch, j.applied)
        last == Max(page)
    IN  /\ j.pc = "deltas"
        /\ \/ /\ page = {}
              /\ job' = [job EXCEPT ![a] = Idle]
              /\ UNCHANGED <<toR, sent>>
           \/ /\ \E k \in page : journal[k] \in ignored
              /\ job' = [job EXCEPT ![a].pc = "list"]
              /\ UNCHANGED <<toR, sent>>
           \/ /\ page # {} /\ \A k \in page : journal[k] \notin ignored
              /\ Write([type |-> "Delta", epoch |-> j.epoch, from |-> Min(page),
                                     paths |-> SubSeq(journal, Min(page), last)])
              /\ sent' = NoteWritten(j.epoch, last, 0)
              /\ job' = [job EXCEPT ![a] = IF Cardinality(page) < PageSize THEN Idle
                                           ELSE [j EXCEPT !.applied = last]]
        /\ UNCHANGED <<journal, oldest, epoch, ignored, outgoing, asked, updates, reported, crossed, receiverVars,
                       toS, events>>

\* The rows are listed some time after the high-water mark was read.
listRows(a) ==
    /\ job[a].pc = "list"
    /\ job' = [job EXCEPT ![a] = [pc |-> "begin", epoch |-> @.epoch, high |-> @.high,
                                  rows |-> ListShare]]
    /\ UNCHANGED <<journal, oldest, epoch, ignored, outgoing, sent, asked, updates, reported, crossed, receiverVars,
                   toR, toS, events>>

\* Ids are random in the code; here, the smallest that nothing still holds.
UsedIDs == {begun.id, incoming.id, sent.id} \cup {r.id : r \in staging}
             \cup {job[a].id : a \in {b \in Answerer : job[b].pc = "batches"}}
             \cup {toR[i].id : i \in {k \in DOMAIN toR : toR[k].type \in {"Begin", "Batch", "End"}}}
             \cup {toS[i].id : i \in {k \in DOMAIN toS : toS[k].type = "Ack"}}
newSnapshotID == Min((1..(Cardinality(UsedIDs) + 1)) \ UsedIDs)

SnapshotBegin(a) ==
    LET j == job[a]
    IN  /\ j.pc = "begin"
        /\ Write([type |-> "Begin", id |-> newSnapshotID, epoch |-> j.epoch,
                               high |-> j.high])
        /\ job' = [job EXCEPT ![a] = [pc |-> "batches", epoch |-> j.epoch, high |-> j.high,
                                      rows |-> j.rows, id |-> newSnapshotID, batch |-> 0]]
        /\ UNCHANGED <<journal, oldest, epoch, ignored, outgoing, sent, asked, updates, reported, crossed,
                       receiverVars, toS, events>>

\* A batch carries one row, so that every share has snapshots of several.
SnapshotBatch(a) ==
    LET j == job[a]
        r == CHOOSE x \in j.rows : TRUE
    IN  /\ j.pc = "batches" /\ j.rows # {}
        /\ Write([type |-> "Batch", id |-> j.id, batch |-> j.batch, row |-> r])
        /\ job' = [job EXCEPT ![a].rows = @ \ {r}, ![a].batch = @ + 1]
        /\ UNCHANGED <<journal, oldest, epoch, ignored, outgoing, sent, asked, updates, reported, crossed,
                       receiverVars, toS, events>>

SnapshotEnd(a) ==
    LET j == job[a]
    IN  /\ j.pc = "batches" /\ j.rows = {}
        /\ Write([type |-> "End", id |-> j.id, batches |-> j.batch])
        /\ sent' = NoteWritten(j.epoch, j.high, j.id)
        /\ job' = [job EXCEPT ![a] = Idle]
        /\ UNCHANGED <<journal, oldest, epoch, ignored, outgoing, asked, updates, reported, crossed, receiverVars,
                       toS, events>>

-----------------------------------------------------------------------------
(* The receiver. *)

\* WriteLatestMessage: a frame replaces the one of its kind that the writer
\* has not taken off the lane yet; one already on the wire stays there.
Latest(lane, m) ==
    LET same == {i \in DOMAIN lane : lane[i].type = m.type}
    IN  {IF same = {} THEN Append(lane, m) ELSE [lane EXCEPT ![Max(same)] = m]}
          \cup (IF Cardinality(same) = 1 THEN {Append(lane, m)} ELSE {})

Ack(e, s, id) == [type |-> "Ack", epoch |-> e, applied |-> s, id |-> id]
AskAgain(c) == [type |-> "Sync", epoch |-> c.epoch, applied |-> c.applied]

\* A write to the receiver's store succeeds, or fails and is passed over.
StoreWrite(write, ok) ==
    \/ ok /\ UNCHANGED events
    \/ ~ok /\ Event(write)

Receive(type) == toR # <<>> /\ Head(toR).type = type /\ toR' = Tail(toR)

CursorAtBegin(m) == [epoch |-> m.epoch, applied |-> 0, id |-> m.id, batch |-> 0]

ReceiveBegin(ok) ==
    LET m == Head(toR)
    IN  /\ Receive("Begin")
        /\ begun' = [id |-> m.id, epoch |-> m.epoch, high |-> m.high]
        /\ StoreWrite("begin", ok)
        /\ incoming' = IF ok THEN CursorAtBegin(m) ELSE incoming
        /\ UNCHANGED <<senderVars, staging, mirror, handling, toS>>

\* StageSnapshotBatch: the first batch clears what other snapshots staged.
StageBatch(m) ==
    {r \in staging : (m.batch = 0 => r.id = m.id) /\ ~(r.id = m.id /\ r.row[1] = m.row[1])}
      \cup {[id |-> m.id, row |-> m.row]}

\* Mutant of OfThisSnapshot: a batch of any snapshot counts.
OfAnySnapshot(m) == begun.id # 0

OfThisSnapshot(m) == begun.id = m.id

\* A batch is staged and then counted; either write may fail.
StageAndCount(m) ==
    \/ \E ok \in BOOLEAN : /\ StoreWrite("count", ok)
                           /\ staging' = StageBatch(m)
                           /\ incoming' = IF ok THEN [incoming EXCEPT !.batch = @ + 1] ELSE incoming
    \/ StoreWrite("stage", FALSE) /\ UNCHANGED <<staging, incoming>>

ReceiveBatch ==
    LET m == Head(toR)
    IN  /\ Receive("Batch")
        /\ \/ /\ ~OfThisSnapshot(m) \/ m.batch < incoming.batch
              /\ UNCHANGED <<incoming, staging, toS, events>>
           \/ /\ OfThisSnapshot(m) /\ m.batch > incoming.batch
              /\ toS' \in Latest(toS, AskAgain(incoming))
              /\ UNCHANGED <<incoming, staging, events>>
           \/ /\ OfThisSnapshot(m) /\ m.batch = incoming.batch
              /\ StageAndCount(m)
              /\ UNCHANGED toS
        /\ UNCHANGED <<senderVars, begun, mirror, handling>>

\* CommitSnapshot: the staged rows of id replace the mirror.
CommitSnapshot(id) ==
    [p \in Path |->
        LET mine == {r.row[2] : r \in {x \in staging : x.id = id /\ x.row[1] = p}}
        IN  IF mine = {} THEN NoRow ELSE CHOOSE r \in mine : TRUE]

ReceiveEnd(ok) ==
    LET m == Head(toR)
        whole == begun.id = m.id /\ incoming.batch = m.batches
    IN  /\ Receive("End")
        /\ IF begun.id = m.id THEN begun' = NoSnapshot ELSE UNCHANGED begun
        /\ IF whole THEN StoreWrite("commit", ok) ELSE ok /\ UNCHANGED events
        /\ IF whole /\ ok
           THEN /\ mirror' = CommitSnapshot(m.id)
                /\ staging' = {}
                /\ incoming' = [epoch |-> begun.epoch, applied |-> begun.high,
                                id |-> 0, batch |-> 0]
                /\ toS' \in Latest(toS, Ack(begun.epoch, begun.high, m.id))
           ELSE UNCHANGED <<mirror, staging, incoming, toS>>
        /\ UNCHANGED <<senderVars, handling>>

Upsert(rows) == [p \in Path |-> IF \E r \in rows : r[1] = p
                                THEN (CHOOSE r \in rows : r[1] = p)[2] ELSE mirror[p]]

\* Mutant of DeltaRows: sequence numbers counted from the wrong end.
DeltaRowsOffByOne(m) ==
    LET idx(p) == {i \in DOMAIN m.paths : m.paths[i] = p}
    IN  {<<p, <<m.epoch, m.from + Max(idx(p))>>>> : p \in Range(m.paths)}

\* Rows of one batch are applied in order: the last row of a path stays.
DeltaRows(m) ==
    LET idx(p) == {i \in DOMAIN m.paths : m.paths[i] = p}
    IN  {<<p, <<m.epoch, m.from + Max(idx(p)) - 1>>>> : p \in Range(m.paths)}

DeltaFits(m) == incoming.epoch = m.epoch /\ m.from = incoming.applied + 1

ReceiveDelta(ok) ==
    LET m  == Head(toR)
        to == m.from + Len(m.paths) - 1
    IN  /\ Receive("Delta")
        /\ IF DeltaFits(m) THEN StoreWrite("delta", ok) ELSE ok /\ UNCHANGED events
        /\ IF DeltaFits(m) /\ ok
           THEN /\ mirror' = Upsert(DeltaRows(m))
                /\ incoming' = [incoming EXCEPT !.applied = to]
                /\ toS' \in Latest(toS, Ack(m.epoch, to, 0))
           ELSE /\ toS' \in Latest(toS, AskAgain(incoming))
                /\ UNCHANGED <<mirror, incoming>>
        /\ UNCHANGED <<senderVars, begun, staging, handling>>

\* The read loop only hands an IndexUpdate to a worker.
ReceiveUpdate ==
    /\ Receive("Update")
    /\ handling' = handling \cup {Head(toR).rows}
    /\ UNCHANGED <<senderVars, incoming, begun, staging, mirror, toS, events>>

handleIndexUpdate(rows) ==
    /\ rows \in handling
    /\ mirror' = Upsert(rows)
    /\ handling' = handling \ {rows}
    /\ UNCHANGED <<senderVars, incoming, begun, staging, toR, toS, events>>

-----------------------------------------------------------------------------
(* The way back, and lost connections. *)

AckAccepted(m) ==
    /\ sent # NothingSent
    /\ m.epoch = sent.epoch /\ m.applied = sent.high /\ m.id = sent.id
    /\ ~(outgoing.epoch = m.epoch /\ outgoing.applied >= m.applied)

acceptIndexAck ==
    LET m == Head(toS)
    IN  /\ toS # <<>> /\ m.type = "Ack"
        /\ toS' = Tail(toS)
        /\ outgoing' = IF AckAccepted(m) THEN [epoch |-> m.epoch, applied |-> m.applied]
                       ELSE outgoing
        /\ UNCHANGED <<journal, oldest, epoch, ignored, sent, job, asked, updates, reported, crossed, receiverVars,
                       toR, events>>

\* enqueueIndex keeps only the last request that is not being answered yet.
ReceiveSyncRequest ==
    /\ toS # <<>> /\ Head(toS).type = "Sync"
    /\ toS' = Tail(toS)
    /\ asked' = Request(Head(toS).epoch, Head(toS).applied)
    /\ UNCHANGED <<journal, oldest, epoch, ignored, outgoing, sent, job, updates, reported, crossed, receiverVars,
                   toR, events>>

\* The session ends and another begins: what was in flight or in memory is
\* gone, and startSyncing calls SyncShare at both ends.
Drop(a) ==
    /\ Event("drop")
    /\ job' = [b \in Answerer |-> IF b = a THEN Called ELSE Idle]
    /\ sent' = NothingSent /\ asked' = NoRequest /\ updates' = {}
    /\ toR' = <<>> /\ begun' = NoSnapshot /\ handling' = {}
    /\ toS' = IF ReceiverAsks THEN <<AskAgain(incoming)>> ELSE <<>>
    /\ UNCHANGED <<journal, oldest, epoch, ignored, outgoing, reported, crossed, incoming, staging,
                   mirror>>

-----------------------------------------------------------------------------

Answer(a) ==
    \/ a # "sync" /\ SyncShare(a)
    \/ a = "sync" /\ answerSyncRequest
    \/ sendJournalDeltas(a) \/ listRows(a)
    \/ SnapshotBegin(a) \/ SnapshotBatch(a) \/ SnapshotEnd(a)

Read ==
    \/ ReceiveBatch \/ ReceiveUpdate
    \/ \E ok \in BOOLEAN : ReceiveBegin(ok) \/ ReceiveEnd(ok) \/ ReceiveDelta(ok)
Return == acceptIndexAck \/ ReceiveSyncRequest

Next ==
    \/ \E a \in Pusher : \/ \E p \in Path \ ignored : Change(a, p)
                         \/ ForgetSubscription(a)
                         \/ Drop(a)
    \/ \E p \in Path : PassChange(p) \/ Ignore(p)
    \/ \E k \in 1..(MaxSeq + 1) : PruneJournal(k)
    \/ sendIndexUpdate
    \/ \E a \in Answerer : Answer(a)
    \/ Read \/ Return
    \/ \E rows \in handling : handleIndexUpdate(rows)

Spec == Init /\ [][Next]_vars

-----------------------------------------------------------------------------
(* Properties. *)

\* Sequence numbers stay within the journal's, and only SyncShare is called.
TypeOK ==
    /\ journal \in Seq(Path) /\ high <= MaxSeq /\ oldest \in 1..(high + 1)
    /\ incoming.applied \in 0..MaxSeq /\ incoming.id \in Nat
    /\ mirror \in [Path -> (0..epoch) \X (0..MaxSeq)]
    /\ \A a \in Answerer : job[a].pc \in {"idle", "called", "deltas", "list", "begin", "batches"}
    /\ job["sync"] # Called

\* The receiver's cursor is a promise: everything up to it is in the mirror,
\* or something later, and nothing before it will be sent again.  Only an
\* IndexUpdate, which does not come with a sequence number, can put an older
\* row back.
CursorSound ==
    incoming.epoch = epoch =>
        /\ incoming.applied <= high
        /\ \A p \in Path \ ignored :
              LET s == LatestSeq(incoming.applied, p)
              IN  s > 0 => \/ mirror[p][1] = epoch /\ mirror[p][2] >= s
                           \/ mirror[p] \in reported

CaughtUp ==
    \A p \in Path \ ignored :
        LET s == LatestSeq(high, p)
        IN  mirror[p] = IF s = 0 THEN NoRow ELSE <<epoch, s>>

\* No call, answer, frame or report is under way.
Quiet ==
    /\ \A a \in Answerer : job[a] = Idle
    /\ asked = NoRequest /\ updates = {} /\ handling = {}
    /\ toR = <<>> /\ toS = <<>>

\* Once all is quiet the mirror is the sender's index, also after a lost
\* connection, an ignore rule or a new epoch.  What may leave it behind until
\* the next change is a failed write, an IndexUpdate out of the journal's
\* order, a sweep of entries a push has decided to send, two answers that
\* cross, or a connection lost while the first snapshot of an epoch is on its
\* way: the cursor is in the new epoch by then, and rows of the old one stay.
QuietMeansCaughtUp ==
    (/\ Quiet /\ ~crossed
     /\ events \in SUBSET {"drop", "ignore"} \cup SUBSET {"forget", "ignore"})
        => CaughtUp
=============================================================================
