---------------------------- MODULE SessionProofs ----------------------------
(***************************************************************************)
(* The two ends of a connection, for files of any size, lanes and queues   *)
(* of any depth and any number of pulls and faults: every queue keeps its  *)
(* bound, and a pull that succeeds has the file it asked for.              *)
(***************************************************************************)
EXTENDS Session, FiniteSetTheorems, TLAPS

LEMMA Peers == ASSUME NEW n \in Node PROVE Peer(n) \in Node /\ Peer(n) # n
<1>1. IsFiniteSet(Node \ {n}) /\ Cardinality(Node \ {n}) = 1
    BY SessionAssumption, FS_RemoveElement
<1>2. PICK m : Node \ {n} = {m}
    BY <1>1, FS_Singleton
<1>3. \E k \in Node : k # n
    BY <1>2
<1> QED
    BY <1>3 DEF Peer

-----------------------------------------------------------------------------
(* Types and bounds. *)

\* Frames of a session: the end of a file is where the file ends, and the
\* urgent and control lanes carry no part of a file.
Frames == {f \in FrameType : f.t = "eof" => f.off = Chunks}
CtrlFrames == {f \in Frames : f.t \notin {"chunk", "eof"}}
PullType == [pc : Waiting \cup {"none", "done", "failed"}, q : Seq(Frames), got : Seq(Nat)]
ServeType == [pc : {"none", "starting", "streaming", "ending"}, off : 0..Chunks, cancelled : BOOLEAN]
ReadType == [pc : {"read", "route", "exited"}, f : Frames \cup {NoFrame}]

UrgentOK == urgent \in [Node -> Seq(CtrlFrames)] /\ \A n \in Node : Len(urgent[n]) <= UrgentDepth
CtrlOK == ctrl \in [Node -> Seq(CtrlFrames)] /\ \A n \in Node : Len(ctrl[n]) <= CtrlDepth
DataOK == data \in [Node -> Seq(Frames)] /\ \A n \in Node : Len(data[n]) <= DataDepth
HandOK == hand \in [Node -> Frames \cup {NoFrame}] /\ burst \in [Node -> 0..MaxBurst]
ReadOK == rd \in [Node -> ReadType] /\ \A n \in Node : rd[n].pc = "route" => rd[n].f.i \in Id
PullOK == /\ pull \in [Node -> [Id -> PullType]]
          /\ \A n \in Node, i \in Id : Len(pull[n][i].q) <= PullDepth
ServeOK == /\ serve \in [Node -> [Id -> ServeType]]
           /\ \A n \in Node : Cardinality(Serving(n)) <= Slots
EndsOK == /\ file \in [Node -> {Asked, Asked + 1}]
          /\ shut \in [Node -> BOOLEAN] /\ stopped \in [Node -> BOOLEAN]
          /\ ctx \in [Node -> {"live", "done", "closed"}] /\ silent \in BOOLEAN
          /\ work \in 0..MaxWork /\ faults \in 0..MaxFaults

Typed == UrgentOK /\ CtrlOK /\ DataOK /\ HandOK /\ ReadOK /\ PullOK /\ ServeOK /\ EndsOK

LEMMA FrameKinds ==
    /\ Frame("ping", 0, 0, 0) \in CtrlFrames /\ Frame("pong", 0, 0, 0) \in CtrlFrames
    /\ \A i \in Id : /\ Frame("request", i, 0, Asked) \in CtrlFrames
                     /\ Frame("cancel", i, 0, 0) \in CtrlFrames /\ Error(i) \in CtrlFrames
                     /\ EOF(i) \in Frames
                     /\ \A off \in 0..Chunks, v \in {Asked, Asked + 1} : Chunk(i, off, v) \in Frames
    /\ CtrlFrames \subseteq Frames /\ NoFrame \notin Frames /\ NoFrame.t = "none"
    /\ \A f \in Frames : f.t # "none"
<1>1. Chunks \in Nat /\ Asked = 1
    BY SessionAssumption DEF Asked
<1>2. \A f \in FrameType : f.t # "none"
    BY DEF FrameType
<1>3. ASSUME NEW t \in {"ping", "pong", "request", "cancel", "chunk", "eof", "error"},
             NEW i \in Id \cup {0}, NEW off \in 0..Chunks, NEW v \in 0..2
      PROVE  Frame(t, i, off, v) \in FrameType /\ Frame(t, i, off, v).t = t
             /\ Frame(t, i, off, v).off = off
    BY <1>1, <1>3 DEF Frame, FrameType
<1>4. 0 \in 0..Chunks /\ Chunks \in 0..Chunks
    BY <1>1
<1>5. /\ Frame("ping", 0, 0, 0) \in CtrlFrames /\ Frame("pong", 0, 0, 0) \in CtrlFrames
    BY <1>3, <1>4 DEF CtrlFrames, Frames
<1>6. ASSUME NEW i \in Id
      PROVE  /\ Frame("request", i, 0, Asked) \in CtrlFrames
             /\ Frame("cancel", i, 0, 0) \in CtrlFrames /\ Error(i) \in CtrlFrames
             /\ EOF(i) \in Frames
    BY <1>1, <1>3, <1>4 DEF CtrlFrames, Frames, Error, EOF
<1>7. ASSUME NEW i \in Id, NEW off \in 0..Chunks, NEW v \in {Asked, Asked + 1}
      PROVE  Chunk(i, off, v) \in Frames
    BY <1>1, <1>3 DEF Frames, Chunk
<1>8. NoFrame.t = "none"
    BY DEF NoFrame, Frame
<1> QED
    BY <1>2, <1>5, <1>6, <1>7, <1>8 DEF CtrlFrames, Frames

\* What the bounds are.
LEMMA Depths ==
    /\ {Chunks, PullDepth, Slots, UrgentDepth, CtrlDepth, DataDepth, MaxBurst} \subseteq Nat \ {0}
    /\ {MaxPulls, MaxWork, MaxFaults} \subseteq Nat
BY SessionAssumption

LEMMA PushUrgent ==
    ASSUME Typed, NEW n \in Node, NEW f \in CtrlFrames, enqueueUrgent(n, f)
    PROVE  UrgentOK' /\ shut' \in [Node -> BOOLEAN] /\ stopped' \in [Node -> BOOLEAN]
<1>1. UrgentOK /\ shut \in [Node -> BOOLEAN] /\ stopped \in [Node -> BOOLEAN]
    BY DEF Typed, EndsOK
<1>4. UrgentOK'
    <2>1. CASE urgent' = urgent
        BY <1>1, <2>1 DEF UrgentOK
    <2>2. CASE urgent' = [urgent EXCEPT ![n] = Append(@, f)] /\ Len(urgent[n]) < UrgentDepth
        BY <1>1, <2>2, Depths DEF UrgentOK
    <2> QED
        BY <2>1, <2>2 DEF enqueueUrgent
<1>2. UNCHANGED wires \/ fail(n)
    BY DEF enqueueUrgent
<1>3. shut' \in [Node -> BOOLEAN] /\ stopped' \in [Node -> BOOLEAN]
    BY <1>1, <1>2 DEF fail, wires
<1> QED
    BY <1>3, <1>4

LEMMA PushCtrl ==
    ASSUME CtrlOK, NEW n \in Node, NEW f \in CtrlFrames, enqueueCtrl(n, f) PROVE CtrlOK'
BY Depths DEF CtrlOK, enqueueCtrl

LEMMA PushData ==
    ASSUME DataOK, NEW n \in Node, NEW f \in Frames, enqueueData(n, f) PROVE DataOK'
BY Depths DEF DataOK, enqueueData

LEMMA TakeTyped ==
    ASSUME NEW lane, NEW next, NEW S, NEW n \in Node, NEW depth \in Nat,
           lane \in [Node -> Seq(S)], \A m \in Node : Len(lane[m]) <= depth,
           lane[n] # <<>>, next = [lane EXCEPT ![n] = Tail(@)]
    PROVE  /\ next \in [Node -> Seq(S)] /\ \A m \in Node : Len(next[m]) <= depth
           /\ Head(lane[n]) \in S
<1>1. lane[n] \in Seq(S)
    OBVIOUS
<1>2. Head(lane[n]) \in S /\ Tail(lane[n]) \in Seq(S) /\ Len(Tail(lane[n])) = Len(lane[n]) - 1
    BY <1>1
<1> QED
    BY <1>2

\* Emptying an end's lanes.
LEMMA DiscardTyped ==
    ASSUME Typed, NEW n \in Node, Discard(n) PROVE UrgentOK' /\ CtrlOK' /\ DataOK' /\ HandOK'
<1>1. <<>> \in Seq(CtrlFrames) /\ <<>> \in Seq(Frames) /\ Len(<<>>) = 0
    OBVIOUS
<1>2. UrgentOK'
    BY <1>1, Depths DEF Typed, UrgentOK, Discard
<1>3. CtrlOK'
    BY <1>1, Depths DEF Typed, CtrlOK, Discard
<1>4. DataOK'
    BY <1>1, Depths DEF Typed, DataOK, Discard
<1>5. HandOK'
    BY Depths DEF Typed, HandOK, Discard
<1> QED
    BY <1>2, <1>3, <1>4, <1>5

LEMMA WriteTyped == ASSUME Typed, NEW n \in Node, Write(n) PROVE Typed'
<1>1. HandOK /\ UrgentOK /\ CtrlOK /\ DataOK /\ CtrlFrames \subseteq Frames
    BY FrameKinds DEF Typed
<1>2. UNCHANGED <<rd, pull, serve, file, shut, stopped, ctx, silent, work, faults>>
    BY DEF Write, wires
<1>3. ReadOK' /\ PullOK' /\ ServeOK' /\ EndsOK'
    BY <1>2 DEF Typed, ReadOK, PullOK, ServeOK, Serving, EndsOK
<1>4. ASSUME NEW f \in Frames, hand' = [hand EXCEPT ![n] = f],
             \E b \in 0..MaxBurst : burst' = burst \/ burst' = [burst EXCEPT ![n] = b]
      PROVE  HandOK'
    BY <1>1, <1>4 DEF HandOK
<1>5. CASE WriteUrgent(n)
    <2>1. /\ urgent[n] # <<>> /\ urgent' = [urgent EXCEPT ![n] = Tail(@)]
          /\ hand' = [hand EXCEPT ![n] = Head(urgent[n])] /\ UNCHANGED <<ctrl, data, burst>>
        BY <1>5 DEF WriteUrgent, Take
    <2>2. UrgentOK' /\ Head(urgent[n]) \in Frames
        BY <1>1, <2>1, Depths, TakeTyped DEF UrgentOK
    <2>3. HandOK'
        <3>1. 0 \in 0..MaxBurst
            BY Depths
        <3> QED
            BY <1>4, <2>1, <2>2, <3>1
    <2>4. CtrlOK' /\ DataOK'
        BY <1>1, <2>1 DEF CtrlOK, DataOK
    <2> QED
        BY <1>3, <2>2, <2>3, <2>4 DEF Typed
<1>6. CASE WriteCtrl(n)
    <2>1. /\ ctrl[n] # <<>> /\ ctrl' = [ctrl EXCEPT ![n] = Tail(@)]
          /\ hand' = [hand EXCEPT ![n] = Head(ctrl[n])] /\ UNCHANGED <<urgent, data>>
          /\ burst' = [burst EXCEPT ![n] = IF burst[n] < MaxBurst THEN burst[n] + 1 ELSE burst[n]]
        BY <1>6 DEF WriteCtrl, Take
    <2>2. CtrlOK' /\ Head(ctrl[n]) \in Frames
        BY <1>1, <2>1, Depths, TakeTyped DEF CtrlOK
    <2>3. (IF burst[n] < MaxBurst THEN burst[n] + 1 ELSE burst[n]) \in 0..MaxBurst
        BY <1>1, Depths DEF HandOK
    <2>4. HandOK'
        BY <1>4, <2>1, <2>2, <2>3
    <2>5. UrgentOK' /\ DataOK'
        BY <1>1, <2>1 DEF UrgentOK, DataOK
    <2> QED
        BY <1>3, <2>2, <2>4, <2>5 DEF Typed
<1>7. CASE WriteData(n)
    <2>1. /\ data[n] # <<>> /\ data' = [data EXCEPT ![n] = Tail(@)]
          /\ hand' = [hand EXCEPT ![n] = Head(data[n])] /\ UNCHANGED <<urgent, ctrl>>
          /\ burst' = [burst EXCEPT ![n] = 0]
        BY <1>7 DEF WriteData, Take
    <2>2. DataOK' /\ Head(data[n]) \in Frames
        BY <1>1, <2>1, Depths, TakeTyped DEF DataOK
    <2>3. HandOK'
        <3>1. 0 \in 0..MaxBurst
            BY Depths
        <3> QED
            BY <1>4, <2>1, <2>2, <3>1
    <2>4. UrgentOK' /\ CtrlOK'
        BY <1>1, <2>1 DEF UrgentOK, CtrlOK
    <2> QED
        BY <1>3, <2>2, <2>3, <2>4 DEF Typed
<1> QED
    BY <1>5, <1>6, <1>7 DEF Write

LEMMA StopTyped == ASSUME Typed, NEW n \in Node, WriteFails(n) \/ Close(n) PROVE Typed'
<1>1. fail(n) /\ Discard(n) /\ UNCHANGED <<rd, pull, serve, file, silent, work>>
    BY DEF WriteFails, Close
<1>2. UrgentOK' /\ CtrlOK' /\ DataOK' /\ HandOK'
    BY <1>1, DiscardTyped
<1>3. ReadOK' /\ PullOK' /\ ServeOK'
    BY <1>1 DEF Typed, ReadOK, PullOK, ServeOK, Serving
<1>4. EndsOK
    BY DEF Typed
<1>5. shut' \in [Node -> BOOLEAN] /\ stopped' \in [Node -> BOOLEAN]
    BY <1>1, <1>4 DEF EndsOK, fail
<1>6. ctx' \in [Node -> {"live", "done", "closed"}]
    BY <1>4 DEF EndsOK, WriteFails, Close
<1>7. faults' \in 0..MaxFaults
    BY <1>4, Depths DEF EndsOK, WriteFails, Close, Fault
<1>8. EndsOK'
    BY <1>1, <1>4, <1>5, <1>6, <1>7 DEF EndsOK
<1> QED
    BY <1>2, <1>3, <1>8 DEF Typed

\* A serve takes a free slot if it had none.
LEMMA ServeTyped ==
    ASSUME ServeOK, NEW n \in Node, NEW i \in Id, NEW s \in ServeType,
           serve' = [serve EXCEPT ![n][i] = s],
           \/ s.pc = "none" \/ serve[n][i].pc # "none" \/ Cardinality(Serving(n)) < Slots
    PROVE  ServeOK'
<1>1. /\ serve' \in [Node -> [Id -> ServeType]] /\ serve'[n][i] = s
      /\ \A m \in Node, j \in Id : m # n \/ j # i => serve'[m][j] = serve[m][j]
    BY DEF ServeOK
<1>2. \A m \in Node : IsFiniteSet(Serving(m)) /\ Cardinality(Serving(m)) \in Nat
    <2>1. IsFiniteSet(Id)
        <3>1. MaxPulls \in Int /\ 1 \in Int
            BY Depths
        <3> QED
            BY <3>1, FS_Interval DEF Id
    <2> QED
        BY <2>1, FS_Subset, FS_CardinalityType DEF Serving
<1>3. \A m \in Node \ {n} : Serving(m)' = Serving(m)
    BY <1>1 DEF Serving
<1>4. Cardinality(Serving(n)') <= Slots
    <2>1. CASE s.pc = "none"
        <3>1. Serving(n)' = Serving(n) \ {i}
            BY <1>1, <2>1 DEF Serving
        <3>2. Cardinality(Serving(n) \ {i}) <= Cardinality(Serving(n))
            BY <1>2, FS_Subset
        <3>3. Cardinality(Serving(n) \ {i}) \in Nat
            BY <1>2, FS_Subset, FS_CardinalityType
        <3> QED
            BY <1>2, <3>1, <3>2, <3>3, Depths DEF ServeOK
    <2>2. CASE s.pc # "none" /\ serve[n][i].pc # "none"
        <3>1. Serving(n)' = Serving(n)
            BY <1>1, <2>2 DEF Serving
        <3> QED
            BY <3>1 DEF ServeOK
    <2>3. CASE s.pc # "none" /\ serve[n][i].pc = "none"
        <3>1. Serving(n)' = Serving(n) \cup {i} /\ i \notin Serving(n)
            BY <1>1, <2>3 DEF Serving
        <3>2. Cardinality(Serving(n) \cup {i}) = Cardinality(Serving(n)) + 1
            BY <1>2, <3>1, FS_AddElement
        <3> QED
            BY <1>2, <2>3, <3>1, <3>2, Depths
    <2> QED
        BY <2>1, <2>2, <2>3
<1> QED
    BY <1>1, <1>3, <1>4 DEF ServeOK

\* Pull i of n gets these fields, and no other changes.
PullTo(n, i, pc, q, got) ==
    /\ pull' \in [Node -> [Id -> PullType]]
    /\ pull'[n][i].pc = pc /\ pull'[n][i].q = q /\ pull'[n][i].got = got
    /\ \A m \in Node, j \in Id : m # n \/ j # i => pull'[m][j] = pull[m][j]

LEMMA PullRecord ==
    ASSUME NEW p \in PullType
    PROVE  /\ \A pc \in Waiting \cup {"none", "done", "failed"} :
                 /\ [p EXCEPT !.pc = pc] \in PullType /\ [p EXCEPT !.pc = pc].pc = pc
                 /\ [p EXCEPT !.pc = pc].q = p.q /\ [p EXCEPT !.pc = pc].got = p.got
           /\ \A q \in Seq(Frames) :
                 /\ [p EXCEPT !.q = q] \in PullType /\ [p EXCEPT !.q = q].pc = p.pc
                 /\ [p EXCEPT !.q = q].q = q /\ [p EXCEPT !.q = q].got = p.got
           /\ \A got \in Seq(Nat) :
                 /\ [p EXCEPT !.got = got] \in PullType /\ [p EXCEPT !.got = got].pc = p.pc
                 /\ [p EXCEPT !.got = got].q = p.q /\ [p EXCEPT !.got = got].got = got
<1> DEFINE A == Waiting \cup {"none", "done", "failed"}
           B == Seq(Frames)
           C == Seq(Nat)
<1>1. p \in [pc : A, q : B, got : C] /\ PullType = [pc : A, q : B, got : C]
    BY DEF PullType
<1> HIDE DEF A, B, C
<1>2. \A pc \in A :
                 /\ [p EXCEPT !.pc = pc] \in PullType /\ [p EXCEPT !.pc = pc].pc = pc
                 /\ [p EXCEPT !.pc = pc].q = p.q /\ [p EXCEPT !.pc = pc].got = p.got
    BY <1>1
<1>3. \A q \in B :
                 /\ [p EXCEPT !.q = q] \in PullType /\ [p EXCEPT !.q = q].pc = p.pc
                 /\ [p EXCEPT !.q = q].q = q /\ [p EXCEPT !.q = q].got = p.got
    BY <1>1
<1>4. \A got \in C :
                 /\ [p EXCEPT !.got = got] \in PullType /\ [p EXCEPT !.got = got].pc = p.pc
                 /\ [p EXCEPT !.got = got].q = p.q /\ [p EXCEPT !.got = got].got = got
    BY <1>1
<1> QED
    BY <1>2, <1>3, <1>4 DEF A, B, C

LEMMA PullSet ==
    ASSUME PullOK, NEW n \in Node, NEW i \in Id, NEW p \in PullType,
           pull' = [pull EXCEPT ![n][i] = p]
    PROVE  PullTo(n, i, p.pc, p.q, p.got)
<1>1. /\ pull' \in [Node -> [Id -> PullType]] /\ pull'[n][i] = p
      /\ \A m \in Node, j \in Id : m # n \/ j # i => pull'[m][j] = pull[m][j]
    BY DEF PullOK
<1> QED
    BY <1>1 DEF PullTo

LEMMA PullFields ==
    ASSUME PullOK, NEW n \in Node, NEW i \in Id, NEW pc \in Waiting \cup {"none", "done", "failed"},
           NEW q \in Seq(Frames), NEW got \in Seq(Nat)
    PROVE  /\ pull' = [pull EXCEPT ![n][i].pc = pc] => PullTo(n, i, pc, pull[n][i].q, pull[n][i].got)
           /\ pull' = [pull EXCEPT ![n][i].q = q] => PullTo(n, i, pull[n][i].pc, q, pull[n][i].got)
           /\ pull' = [pull EXCEPT ![n][i].pc = pc, ![n][i].q = q] =>
                 PullTo(n, i, pc, q, pull[n][i].got)
           /\ pull' = [pull EXCEPT ![n][i] = [[pull[n][i] EXCEPT !.q = q] EXCEPT !.pc = pc]] =>
                 PullTo(n, i, pc, q, pull[n][i].got)
           /\ pull' = [pull EXCEPT ![n][i] = [[pull[n][i] EXCEPT !.q = q] EXCEPT !.got = got]] =>
                 PullTo(n, i, pull[n][i].pc, q, got)
<1>1. pull[n][i] \in PullType
    BY DEF PullOK
<1>2. ASSUME pull' = [pull EXCEPT ![n][i].pc = pc]
      PROVE  PullTo(n, i, pc, pull[n][i].q, pull[n][i].got)
    <2> DEFINE p == [pull[n][i] EXCEPT !.pc = pc]
    <2>1. pull' = [pull EXCEPT ![n][i] = p]
        BY <1>2
    <2>2. p \in PullType /\ p.pc = pc /\ p.q = pull[n][i].q /\ p.got = pull[n][i].got
        BY <1>1, PullRecord, Zenon
    <2> HIDE DEF p
    <2>3. PullTo(n, i, p.pc, p.q, p.got)
        BY <2>1, <2>2, PullSet
    <2> QED
        BY <2>2, <2>3
<1>3. ASSUME pull' = [pull EXCEPT ![n][i].q = q]
      PROVE  PullTo(n, i, pull[n][i].pc, q, pull[n][i].got)
    <2> DEFINE p == [pull[n][i] EXCEPT !.q = q]
    <2>1. pull' = [pull EXCEPT ![n][i] = p]
        BY <1>3
    <2>2. p \in PullType /\ p.pc = pull[n][i].pc /\ p.q = q /\ p.got = pull[n][i].got
        BY <1>1, PullRecord, Zenon
    <2> HIDE DEF p
    <2>3. PullTo(n, i, p.pc, p.q, p.got)
        BY <2>1, <2>2, PullSet
    <2> QED
        BY <2>2, <2>3
<1>4. ASSUME pull' = [pull EXCEPT ![n][i].pc = pc, ![n][i].q = q]
      PROVE  PullTo(n, i, pc, q, pull[n][i].got)
    <2>1. pull' = [pull EXCEPT ![n][i] = [[pull[n][i] EXCEPT !.pc = pc] EXCEPT !.q = q]]
        BY <1>4 DEF PullOK
    <2> DEFINE p == [pull[n][i] EXCEPT !.pc = pc]
    <2>2. p \in PullType /\ p.pc = pc /\ p.got = pull[n][i].got
        BY <1>1, PullRecord, Zenon
    <2> HIDE DEF p
    <2>3. [p EXCEPT !.q = q] \in PullType /\ [p EXCEPT !.q = q].pc = p.pc
          /\ [p EXCEPT !.q = q].q = q /\ [p EXCEPT !.q = q].got = p.got
        BY <2>2, PullRecord, Zenon
    <2> QED
        BY <2>1, <2>2, <2>3, PullSet DEF p
<1>5. [pull[n][i] EXCEPT !.q = q] \in PullType /\ [pull[n][i] EXCEPT !.q = q].pc = pull[n][i].pc
      /\ [pull[n][i] EXCEPT !.q = q].q = q /\ [pull[n][i] EXCEPT !.q = q].got = pull[n][i].got
    BY <1>1, PullRecord, Zenon
<1> DEFINE r == [pull[n][i] EXCEPT !.q = q]
<1> HIDE DEF r
<1>6. /\ [r EXCEPT !.pc = pc] \in PullType /\ [r EXCEPT !.pc = pc].pc = pc
      /\ [r EXCEPT !.pc = pc].q = q /\ [r EXCEPT !.pc = pc].got = pull[n][i].got
      /\ [r EXCEPT !.got = got] \in PullType /\ [r EXCEPT !.got = got].pc = pull[n][i].pc
      /\ [r EXCEPT !.got = got].q = q /\ [r EXCEPT !.got = got].got = got
    BY <1>5, PullRecord, Zenon DEF r
<1>7. ASSUME pull' = [pull EXCEPT ![n][i] = [r EXCEPT !.pc = pc]]
      PROVE  PullTo(n, i, pc, q, pull[n][i].got)
    BY <1>6, <1>7, PullSet
<1>8. ASSUME pull' = [pull EXCEPT ![n][i] = [r EXCEPT !.got = got]]
      PROVE  PullTo(n, i, pull[n][i].pc, q, got)
    BY <1>6, <1>8, PullSet
<1> QED
    BY <1>2, <1>3, <1>4, <1>7, <1>8 DEF r

\* What a step of a pull does to it: it has the same queue or none, or has
\* taken the next frame off it; it is done when that is the end of the file.
PullStep(n, i, pc, q, got) ==
    /\ PullTo(n, i, pc, q, got)
    /\ LET p == pull[n][i]
           c == Head(p.q)
       IN  /\ p.pc # "done"
           /\ \/ q \in {p.q, <<>>} /\ got = p.got /\ pc # "done"
              \/ /\ p.q # <<>> /\ q \in {Tail(p.q), <<>>}
                 /\ \/ got = p.got /\ (pc = "done" => c.t = "eof" /\ c.off = Len(p.got))
                    \/ c.t = "chunk" /\ got = Append(p.got, c.v) /\ pc # "done"

LEMMA PullSteps ==
    ASSUME Typed, NEW n \in Node, NEW i \in Id, StartPull(n, i) \/ Puller(n, i) \/ GiveUp(n, i)
    PROVE  \E pc \in Waiting \cup {"none", "done", "failed"}, q \in Seq(Frames), got \in Seq(Nat) :
              PullStep(n, i, pc, q, got) /\ Len(q) <= PullDepth
<1> DEFINE p == pull[n][i]
           Step(pc, q, got) == PullStep(n, i, pc, q, got)
           Pc == Waiting \cup {"none", "done", "failed"}
<1>1. PullOK /\ p \in PullType /\ Len(p.q) <= PullDepth
    BY DEF Typed, PullOK
<1>2. p.q \in Seq(Frames) /\ p.got \in Seq(Nat)
    BY <1>1 DEF PullType
<1>3. /\ <<>> \in Seq(Frames) /\ Len(<<>>) = 0 /\ 0 <= PullDepth
      /\ {"asking", "pulling", "cancelling", "done", "failed"} \subseteq Pc
    BY Depths DEF Waiting
<1> HIDE DEF Step, Pc, p
<1> SUFFICES \E pc \in Pc, q \in Seq(Frames), got \in Seq(Nat) : Step(pc, q, got) /\ Len(q) <= PullDepth
    BY DEF Step, Pc
<1>4. CASE StartPull(n, i)
    <2>1. pull' = [pull EXCEPT ![n][i].pc = "asking"] /\ p.pc = "none"
        BY <1>4 DEF StartPull, p
    <2>2. PullTo(n, i, "asking", p.q, p.got)
        BY <1>1, <1>2, <1>3, <2>1, PullFields DEF p, Pc
    <2>3. Step("asking", p.q, p.got)
        BY <2>1, <2>2 DEF Step, PullStep, p
    <2> QED
        BY <1>1, <1>2, <1>3, <2>3
<1>5. CASE GiveUp(n, i)
    <2>1. pull' = [pull EXCEPT ![n][i].pc = "cancelling"] /\ p.pc = "pulling"
        BY <1>5 DEF GiveUp, p
    <2>2. PullTo(n, i, "cancelling", p.q, p.got)
        BY <1>1, <1>2, <1>3, <2>1, PullFields DEF p, Pc
    <2>3. Step("cancelling", p.q, p.got)
        BY <2>1, <2>2 DEF Step, PullStep, p
    <2> QED
        BY <1>1, <1>2, <1>3, <2>3
<1>6. ASSUME NEW pc \in Pc, NEW q \in Seq(Frames), Finished(n, i, pc, q)
      PROVE  \E q2 \in {q, <<>>} : PullTo(n, i, pc, q2, p.got)
    <2> DEFINE q2 == IF rd[n].pc = "route" /\ rd[n].f.i = i THEN q ELSE <<>>
    <2>1. pull' = [pull EXCEPT ![n][i].pc = pc, ![n][i].q = q2] /\ q2 \in {q, <<>>}
        BY <1>6 DEF Finished
    <2> HIDE DEF q2
    <2>2. q2 \in Seq(Frames)
        BY <1>3, <2>1
    <2>3. PullTo(n, i, pc, q2, p.got)
        BY <1>1, <1>2, <2>1, <2>2, PullFields DEF p, Pc
    <2> QED
        BY <2>1, <2>3
<1>7. CASE SendRequest(n, i)
    <2>1. p.pc = "asking"
        BY <1>7 DEF SendRequest, p
    <2>2. CASE Finished(n, i, "failed", p.q)
        <3>1. PICK q2 \in {p.q, <<>>} : PullTo(n, i, "failed", q2, p.got)
            BY <1>2, <1>3, <1>6, <2>2
        <3>2. Step("failed", q2, p.got)
            BY <2>1, <3>1 DEF Step, PullStep, p
        <3> QED
            BY <1>1, <1>2, <1>3, <3>2
    <2>3. CASE pull' = [pull EXCEPT ![n][i].pc = "pulling"]
        <3>1. PullTo(n, i, "pulling", p.q, p.got)
            BY <1>1, <1>2, <1>3, <2>3, PullFields DEF p, Pc
        <3>2. Step("pulling", p.q, p.got)
            BY <2>1, <3>1 DEF Step, PullStep, p
        <3> QED
            BY <1>1, <1>2, <1>3, <3>2
    <2> QED
        BY <1>7, <2>2, <2>3 DEF SendRequest, p
<1>8. CASE SendCancel(n, i)
    <2>1. p.pc = "cancelling" /\ Finished(n, i, "failed", p.q)
        BY <1>8 DEF SendCancel, p
    <2>2. PICK q2 \in {p.q, <<>>} : PullTo(n, i, "failed", q2, p.got)
        BY <1>2, <1>3, <1>6, <2>1
    <2>3. Step("failed", q2, p.got)
        BY <2>1, <2>2 DEF Step, PullStep, p
    <2> QED
        BY <1>1, <1>2, <1>3, <2>3
<1>9. CASE Receive(n, i)
    <2> DEFINE c == Head(p.q)
               t == Tail(p.q)
    <2>1. p.pc = "pulling" /\ p.q # <<>>
        BY <1>9 DEF Receive, p
    <2>2. c \in Frames /\ t \in Seq(Frames) /\ Len(t) <= PullDepth
        BY <1>1, <1>2, <2>1, Depths
    <2>3. Append(p.got, c.v) \in Seq(Nat)
        BY <1>2, <2>2 DEF Frames, FrameType, Asked
    <2>4. [p EXCEPT !.q = t].q = t
        BY <1>1 DEF PullType
    <2>5. \/ Finished(n, i, "failed", [p EXCEPT !.q = t].q)
          \/ pull' = [pull EXCEPT ![n][i] = [[p EXCEPT !.q = t] EXCEPT !.pc = "cancelling"]]
          \/ /\ c.t = "chunk"
             /\ pull' = [pull EXCEPT ![n][i] = [[p EXCEPT !.q = t] EXCEPT
                                                   !.got = Append([p EXCEPT !.q = t].got, c.v)]]
          \/ c.t = "eof" /\ c.off = Len(p.got) /\ Finished(n, i, "done", [p EXCEPT !.q = t].q)
        BY <1>9 DEF Receive, p
    <2>6. CASE Finished(n, i, "failed", [p EXCEPT !.q = t].q)
        <3>1. PICK q2 \in {t, <<>>} : PullTo(n, i, "failed", q2, p.got)
            BY <1>3, <1>6, <2>2, <2>4, <2>6
        <3>2. Step("failed", q2, p.got)
            BY <2>1, <3>1 DEF Step, PullStep, p
        <3> QED
            BY <1>2, <1>3, <2>2, <3>2
    <2>7. CASE pull' = [pull EXCEPT ![n][i] = [[p EXCEPT !.q = t] EXCEPT !.pc = "cancelling"]]
        <3>1. PullTo(n, i, "cancelling", t, p.got)
            BY <1>1, <1>2, <1>3, <2>2, <2>7, PullFields DEF p, Pc
        <3>2. Step("cancelling", t, p.got)
            BY <2>1, <3>1 DEF Step, PullStep, p
        <3> QED
            BY <1>2, <1>3, <2>2, <3>2
    <2>8. CASE /\ c.t = "chunk"
               /\ pull' = [pull EXCEPT ![n][i] = [[p EXCEPT !.q = t] EXCEPT
                                                     !.got = Append([p EXCEPT !.q = t].got, c.v)]]
        <3>1. [p EXCEPT !.q = t].got = p.got
            BY <1>1 DEF PullType
        <3>2. PullTo(n, i, "pulling", t, Append(p.got, c.v))
            BY <1>1, <1>3, <2>1, <2>2, <2>3, <2>8, <3>1, PullFields DEF p, Pc
        <3>3. Step("pulling", t, Append(p.got, c.v))
            BY <2>1, <2>8, <3>2 DEF Step, PullStep, p
        <3> QED
            BY <1>3, <2>2, <2>3, <3>3
    <2>9. CASE c.t = "eof" /\ c.off = Len(p.got) /\ Finished(n, i, "done", [p EXCEPT !.q = t].q)
        <3>1. PICK q2 \in {t, <<>>} : PullTo(n, i, "done", q2, p.got)
            BY <1>3, <1>6, <2>2, <2>4, <2>9
        <3>2. Step("done", q2, p.got)
            BY <2>1, <2>9, <3>1 DEF Step, PullStep, p
        <3> QED
            BY <1>2, <1>3, <2>2, <3>2
    <2> QED
        BY <2>5, <2>6, <2>7, <2>8, <2>9
<1> QED
    BY <1>4, <1>5, <1>7, <1>8, <1>9 DEF Puller

\* Every step of a serve keeps its record in its type, and the slots bounded.
LEMMA ServeSteps ==
    ASSUME Typed, NEW n \in Node, NEW i \in Id,
           Server(n, i) \/ handleFileRequestFrame(n, i) \/ handleCancelTransferFrame(n, i)
    PROVE  ServeOK'
<1> DEFINE s == serve[n][i]
<1>1. ServeOK /\ s \in ServeType
    BY DEF Typed, ServeOK
<1>2. ASSUME NEW r \in ServeType, serve' = [serve EXCEPT ![n][i] = r],
             \/ r.pc = "none" \/ s.pc # "none" \/ Cardinality(Serving(n)) < Slots
      PROVE  ServeOK'
    BY <1>1, <1>2, ServeTyped
<1>3. ASSUME NEW pc \in {"starting", "streaming", "ending"}, serve' = [serve EXCEPT ![n][i].pc = pc],
             s.pc # "none" \/ Cardinality(Serving(n)) < Slots
      PROVE  ServeOK'
    <2>1. [s EXCEPT !.pc = pc] \in ServeType
        BY <1>1 DEF ServeType
    <2>2. serve' = [serve EXCEPT ![n][i] = [s EXCEPT !.pc = pc]]
        BY <1>3
    <2> QED
        BY <1>2, <1>3, <2>1, <2>2
<1>4. CASE UNCHANGED serve
    BY <1>1, <1>4 DEF ServeOK, Serving
<1>5. CASE ServeStart(n, i) \/ ServeFinish(n, i) \/ ServeCancelled(n, i)
    BY <1>3, <1>5 DEF ServeStart, ServeFinish, ServeCancelled
<1>6. CASE ServeChunk(n, i)
    <2>1. s.pc = "streaming" /\ s.off < Chunks
        BY <1>6 DEF ServeChunk
    <2>2. [s EXCEPT !.off = s.off + 1] \in ServeType
        BY <1>1, <2>1, Depths DEF ServeType
    <2>3. serve' = [serve EXCEPT ![n][i] = [s EXCEPT !.off = s.off + 1]]
        BY <1>6 DEF ServeChunk
    <2> QED
        BY <1>2, <2>1, <2>2, <2>3
<1>7. CASE ServeRelease(n, i)
    <2>1. NoServe \in ServeType /\ NoServe.pc = "none"
        BY Depths DEF NoServe, ServeType
    <2>2. serve' = [serve EXCEPT ![n][i] = NoServe]
        BY <1>7 DEF ServeRelease
    <2> QED
        BY <1>2, <2>1, <2>2
<1>8. CASE handleFileRequestFrame(n, i)
    BY <1>3, <1>4, <1>8 DEF handleFileRequestFrame
<1>9. CASE handleCancelTransferFrame(n, i)
    <2> DEFINE c == s.cancelled \/ s.pc = "streaming"
               r == [s EXCEPT !.cancelled = c]
    <2>1. serve' = [serve EXCEPT ![n][i] = r]
        BY <1>9 DEF handleCancelTransferFrame
    <2>2. c \in BOOLEAN
        OBVIOUS
    <2> HIDE DEF c
    <2>3. r \in ServeType /\ r.pc = s.pc
        BY <1>1, <2>2 DEF ServeType
    <2> HIDE DEF r
    <2>4. CASE s.pc # "none"
        BY <1>2, <2>1, <2>3, <2>4
    <2>5. CASE s.pc = "none"
        BY <1>2, <2>1, <2>3, <2>5
    <2> QED
        BY <2>4, <2>5
<1> QED
    BY <1>5, <1>6, <1>7, <1>8, <1>9 DEF Server

\* A frame is taken off the peer's hands.
LEMMA ReadTyped ==
    ASSUME Typed, NEW n \in Node, NEW f, ReadFrame(n, f), burst' = burst
    PROVE  /\ HandOK' /\ f \in Frames /\ f = hand[Peer(n)] /\ hand'[Peer(n)] = NoFrame
           /\ \A m \in Node \ {Peer(n)} : hand'[m] = hand[m]
BY Peers DEF Typed, HandOK, ReadFrame

LEMMA HandOverTyped ==
    ASSUME Typed, NEW n \in Node, HandOver(n)
    PROVE  LET i == rd[n].f.i
           IN  /\ i \in Id /\ rd[n].f \in Frames /\ rd' = [rd EXCEPT ![n] = Reading]
               /\ \E q \in Seq(Frames) :
                     /\ PullTo(n, i, pull[n][i].pc, q, pull[n][i].got) /\ Len(q) <= PullDepth
                     /\ q \in {<<>>, pull[n][i].q, Append(pull[n][i].q, rd[n].f)}
<1> DEFINE i == rd[n].f.i
           p == pull[n][i]
<1>1. rd[n].pc = "route" /\ rd' = [rd EXCEPT ![n] = Reading]
    BY DEF HandOver
<1>2. i \in Id /\ rd[n].f \in Frames \cup {NoFrame}
    BY <1>1 DEF Typed, ReadOK, ReadType
<1>3. rd[n].f \in Frames
    <2>1. NoFrame.i = 0
        BY DEF NoFrame, Frame
    <2>2. 0 \notin Id
        BY Depths DEF Id
    <2> QED
        BY <1>2, <2>1, <2>2
<1>4. PullOK /\ p \in PullType /\ Len(p.q) <= PullDepth
    BY <1>2 DEF Typed, PullOK
<1>5. p.q \in Seq(Frames) /\ p.got \in Seq(Nat) /\ p.pc \in Waiting \cup {"none", "done", "failed"}
    BY <1>4 DEF PullType
<1>6. /\ <<>> \in Seq(Frames) /\ Len(<<>>) <= PullDepth /\ Append(p.q, rd[n].f) \in Seq(Frames)
      /\ Len(p.q) < PullDepth => Len(Append(p.q, rd[n].f)) <= PullDepth
    <2> DEFINE q == p.q
               f == rd[n].f
    <2>1. q \in Seq(Frames) /\ f \in Frames
        BY <1>3, <1>5
    <2> HIDE DEF q, f
    <2>2. Append(q, f) \in Seq(Frames) /\ Len(Append(q, f)) = Len(q) + 1 /\ Len(q) \in Nat
        BY <2>1
    <2>3. <<>> \in Seq(Frames) /\ Len(<<>>) <= PullDepth
        BY Depths
    <2>4. Len(q) < PullDepth => Len(Append(q, f)) <= PullDepth
        BY <2>2, Depths
    <2> QED
        BY <2>2, <2>3, <2>4 DEF q, f
<1>7. \/ pull' = [pull EXCEPT ![n][i].q = <<>>]
      \/ pull' = [pull EXCEPT ![n][i].q = p.q]
      \/ pull' = [pull EXCEPT ![n][i].q = Append(p.q, rd[n].f)] /\ Len(p.q) < PullDepth
    BY DEF HandOver
<1> HIDE DEF p, i
<1>8. ASSUME NEW x \in Seq(Frames), pull' = [pull EXCEPT ![n][i].q = x]
      PROVE  PullTo(n, i, p.pc, x, p.got)
    BY <1>2, <1>4, <1>5, <1>8, PullFields DEF p
<1>9. \E x \in Seq(Frames) : /\ PullTo(n, i, p.pc, x, p.got) /\ Len(x) <= PullDepth
                             /\ x \in {<<>>, p.q, Append(p.q, rd[n].f)}
    BY <1>4, <1>5, <1>6, <1>7, <1>8
<1> QED
    BY <1>1, <1>2, <1>3, <1>9 DEF p, i

LEMMA ReaderTyped == ASSUME Typed, NEW n \in Node, Reader(n) PROVE Typed'
<1>0. UrgentOK /\ CtrlOK /\ DataOK /\ HandOK /\ ReadOK /\ PullOK /\ ServeOK /\ EndsOK
    BY DEF Typed
<1>1. Reading \in ReadType /\ Reading.pc # "route"
    BY DEF Reading, ReadType
<1>2. ASSUME NEW r \in ReadType, r.pc = "route" => r.f.i \in Id, rd' = [rd EXCEPT ![n] = r]
      PROVE  ReadOK'
    BY <1>0, <1>2 DEF ReadOK
<1>3. [pc |-> "exited", f |-> NoFrame] \in ReadType
    BY DEF ReadType
<1>4. CASE handleKeepaliveFrame(n)
    <2>1. UNCHANGED <<ctrl, data, burst, rd, pull, serve, file, ctx, silent, work, faults>>
        BY <1>4 DEF handleKeepaliveFrame
    <2>2. HandOK'
        BY <1>4, <2>1, ReadTyped DEF handleKeepaliveFrame
    <2>3. UrgentOK' /\ shut' \in [Node -> BOOLEAN] /\ stopped' \in [Node -> BOOLEAN]
        <3>1. CASE enqueueUrgent(n, Frame("pong", 0, 0, 0))
            BY <3>1, PushUrgent, FrameKinds
        <3>2. CASE UNCHANGED <<urgent, wires>>
            BY <1>0, <3>2 DEF wires, UrgentOK, EndsOK
        <3> QED
            BY <1>4, <3>1, <3>2 DEF handleKeepaliveFrame
    <2>4. CtrlOK' /\ DataOK' /\ ReadOK' /\ PullOK' /\ ServeOK'
        BY <1>0, <2>1 DEF CtrlOK, DataOK, ReadOK, PullOK, ServeOK, Serving
    <2>5. EndsOK'
        BY <1>0, <2>1, <2>3 DEF EndsOK
    <2> QED
        BY <2>2, <2>3, <2>4, <2>5 DEF Typed
<1>5. ASSUME NEW i \in Id, handleFileRequestFrame(n, i) PROVE Typed'
    <2>1. UNCHANGED <<urgent, ctrl, data, burst, pull, file, stopped, ctx, silent, work, faults>>
        BY <1>5 DEF handleFileRequestFrame
    <2>2. HandOK'
        BY <1>5, <2>1, ReadTyped DEF handleFileRequestFrame
    <2>3. ServeOK'
        BY <1>5, ServeSteps
    <2>4. UrgentOK' /\ CtrlOK' /\ DataOK' /\ PullOK'
        BY <1>0, <2>1 DEF UrgentOK, CtrlOK, DataOK, PullOK
    <2>5. ReadOK'
        <3>1. CASE rd' = rd
            BY <1>0, <3>1 DEF ReadOK
        <3>2. CASE rd' = [rd EXCEPT ![n] = [pc |-> "exited", f |-> NoFrame]]
            BY <1>2, <1>3, <3>2
        <3> QED
            BY <1>5, <3>1, <3>2 DEF handleFileRequestFrame
    <2>6. shut' = shut \/ shut' = [shut EXCEPT ![n] = TRUE]
        BY <1>5 DEF handleFileRequestFrame
    <2>7. EndsOK'
        BY <1>0, <2>1, <2>6 DEF EndsOK
    <2> QED
        BY <2>2, <2>3, <2>4, <2>5, <2>7 DEF Typed
<1>6. ASSUME NEW i \in Id, handleCancelTransferFrame(n, i) PROVE Typed'
    <2>1. UNCHANGED <<urgent, ctrl, data, burst, rd, pull, file, shut, stopped, ctx, silent, work, faults>>
        BY <1>6 DEF handleCancelTransferFrame, wires
    <2>2. HandOK'
        BY <1>6, <2>1, ReadTyped DEF handleCancelTransferFrame
    <2>3. ServeOK'
        BY <1>6, ServeSteps
    <2>4. UrgentOK' /\ CtrlOK' /\ DataOK' /\ ReadOK' /\ PullOK' /\ EndsOK'
        BY <1>0, <2>1 DEF UrgentOK, CtrlOK, DataOK, ReadOK, PullOK, EndsOK
    <2> QED
        BY <2>2, <2>3, <2>4 DEF Typed
<1>7. ASSUME NEW i \in Id, routeChunk(n, i) PROVE Typed'
    <2>1. UNCHANGED <<urgent, ctrl, data, burst, pull, serve, file, shut, stopped, ctx, silent, work, faults>>
        BY <1>7 DEF routeChunk, wires
    <2> DEFINE f == hand[Peer(n)]
    <2>2. ReadFrame(n, f) /\ f.i = i
        BY <1>7 DEF routeChunk
    <2>3. HandOK' /\ f \in Frames
        BY <2>1, <2>2, ReadTyped
    <2>4. rd' = rd \/ rd' = [rd EXCEPT ![n] = [pc |-> "route", f |-> f]]
        BY <1>7 DEF routeChunk
    <2> HIDE DEF f
    <2>5. ReadOK'
        <3>1. [pc |-> "route", f |-> f] \in ReadType /\ [pc |-> "route", f |-> f].f = f
            BY <2>3 DEF ReadType
        <3>2. CASE rd' = rd
            BY <1>0, <3>2 DEF ReadOK
        <3> QED
            BY <1>2, <2>2, <2>4, <3>1, <3>2
    <2>6. UrgentOK' /\ CtrlOK' /\ DataOK' /\ PullOK' /\ ServeOK' /\ EndsOK'
        BY <1>0, <2>1 DEF UrgentOK, CtrlOK, DataOK, PullOK, ServeOK, Serving, EndsOK
    <2> QED
        BY <2>3, <2>5, <2>6 DEF Typed
<1>8. CASE HandOver(n)
    <2>1. UNCHANGED <<urgent, ctrl, data, burst, hand, serve, file, shut, stopped, ctx, silent, work, faults>>
        BY <1>8 DEF HandOver, lanes, wires
    <2>2. ReadOK'
        BY <1>1, <1>2, <1>8 DEF HandOver
    <2>3. PullOK'
        <3> PICK i \in Id, q \in Seq(Frames) :
                    PullTo(n, i, pull[n][i].pc, q, pull[n][i].got) /\ Len(q) <= PullDepth
            BY <1>8, HandOverTyped
        <3> QED
            BY <1>0 DEF PullOK, PullTo
    <2>4. UrgentOK' /\ CtrlOK' /\ DataOK' /\ HandOK' /\ ServeOK' /\ EndsOK'
        BY <1>0, <2>1 DEF UrgentOK, CtrlOK, DataOK, HandOK, ServeOK, Serving, EndsOK
    <2> QED
        BY <2>2, <2>3, <2>4 DEF Typed
<1>9. CASE ReadEnds(n)
    <2>1. UNCHANGED <<urgent, ctrl, data, burst, hand, pull, serve, file, shut, stopped, ctx, silent, work, faults>>
        BY <1>9 DEF ReadEnds, lanes, wires
    <2>2. ReadOK'
        BY <1>2, <1>3, <1>9 DEF ReadEnds
    <2>3. UrgentOK' /\ CtrlOK' /\ DataOK' /\ HandOK' /\ PullOK' /\ ServeOK' /\ EndsOK'
        BY <1>0, <2>1 DEF UrgentOK, CtrlOK, DataOK, HandOK, PullOK, ServeOK, Serving, EndsOK
    <2> QED
        BY <2>2, <2>3 DEF Typed
<1> QED
    BY <1>4, <1>5, <1>6, <1>7, <1>8, <1>9 DEF Reader

LEMMA PullerTyped ==
    ASSUME Typed, NEW n \in Node, NEW i \in Id, StartPull(n, i) \/ Puller(n, i) \/ GiveUp(n, i)
    PROVE  Typed'
<1>1. UrgentOK /\ CtrlOK /\ DataOK /\ HandOK /\ ReadOK /\ PullOK /\ ServeOK /\ EndsOK
    BY DEF Typed
<1>2. UNCHANGED <<urgent, data, burst, hand, rd, serve, file, shut, stopped, ctx, silent>>
    BY DEF StartPull, Puller, SendRequest, Receive, SendCancel, GiveUp, lanes, wires
<1>3. PICK pc \in Waiting \cup {"none", "done", "failed"}, q \in Seq(Frames), got \in Seq(Nat) :
              PullStep(n, i, pc, q, got) /\ Len(q) <= PullDepth
    BY PullSteps
<1>4. PullOK'
    BY <1>1, <1>3 DEF PullOK, PullStep, PullTo
<1>5. CtrlOK'
    <2>1. CASE ctrl' = ctrl
        BY <1>1, <2>1 DEF CtrlOK
    <2>2. CASE \E f \in CtrlFrames : enqueueCtrl(n, f)
        BY <1>1, <2>2, PushCtrl
    <2> QED
        BY <2>1, <2>2, FrameKinds DEF StartPull, Puller, SendRequest, Receive, SendCancel, GiveUp, lanes
<1>6. work' \in 0..MaxWork /\ faults' \in 0..MaxFaults
    <2>1. work' = work \/ (work < MaxWork /\ work' = work + 1)
        BY DEF StartPull, Puller, SendRequest, Receive, SendCancel, GiveUp, Begin
    <2>2. faults' = faults \/ (faults < MaxFaults /\ faults' = faults + 1)
        BY DEF StartPull, Puller, SendRequest, Receive, SendCancel, GiveUp, Fault
    <2> QED
        BY <1>1, <2>1, <2>2, Depths DEF EndsOK
<1>7. UrgentOK' /\ DataOK' /\ HandOK' /\ ReadOK' /\ ServeOK'
    BY <1>1, <1>2 DEF UrgentOK, DataOK, HandOK, ReadOK, ServeOK, Serving
<1>8. EndsOK'
    BY <1>1, <1>2, <1>6 DEF EndsOK
<1> QED
    BY <1>4, <1>5, <1>7, <1>8 DEF Typed

LEMMA ServerTyped == ASSUME Typed, NEW n \in Node, NEW i \in Id, Server(n, i) PROVE Typed'
<1>1. UrgentOK /\ CtrlOK /\ DataOK /\ HandOK /\ ReadOK /\ PullOK /\ ServeOK /\ EndsOK
    BY DEF Typed
<1>2. UNCHANGED <<ctrl, burst, hand, rd, pull, file, ctx, silent, work, faults>>
    BY DEF Server, ServeStart, ServeChunk, ServeFinish, ServeCancelled, ServeRelease, lanes
<1>3. UrgentOK' /\ shut' \in [Node -> BOOLEAN] /\ stopped' \in [Node -> BOOLEAN]
    <2>1. CASE UNCHANGED <<urgent, wires>>
        BY <1>1, <2>1 DEF UrgentOK, EndsOK, wires
    <2>2. CASE enqueueUrgent(n, Error(i))
        BY <2>2, PushUrgent, FrameKinds
    <2> QED
        BY <2>1, <2>2 DEF Server, ServeStart, ServeChunk, ServeFinish, ServeCancelled, ServeRelease, lanes
<1>4. DataOK'
    <2>1. CASE data' = data
        BY <1>1, <2>1 DEF DataOK
    <2>2. CASE \E f \in Frames : enqueueData(n, f)
        BY <1>1, <2>2, PushData
    <2>3. CASE ServeChunk(n, i)
        <3>1. serve[n][i].off \in 0..Chunks /\ file[n] \in {Asked, Asked + 1}
            BY <1>1 DEF ServeOK, ServeType, EndsOK
        <3>2. Chunk(i, serve[n][i].off, file[n]) \in Frames
            BY <3>1, FrameKinds
        <3> QED
            BY <2>2, <2>3, <3>2 DEF ServeChunk
    <2>4. CASE ~ServeChunk(n, i)
        <3>1. EOF(i) \in Frames
            BY FrameKinds
        <3> QED
            BY <2>1, <2>2, <2>4, <3>1 DEF Server, ServeStart, ServeFinish, ServeCancelled,
                                          ServeRelease, lanes
    <2> QED
        BY <2>3, <2>4
<1>5. ServeOK'
    BY ServeSteps
<1>6. CtrlOK' /\ HandOK' /\ ReadOK' /\ PullOK'
    BY <1>1, <1>2 DEF CtrlOK, HandOK, ReadOK, PullOK
<1>7. EndsOK'
    BY <1>1, <1>2, <1>3 DEF EndsOK
<1> QED
    BY <1>3, <1>4, <1>5, <1>6, <1>7 DEF Typed

LEMMA OtherTyped ==
    ASSUME Typed, \/ \E n \in Node : FileChanges(n) \/ Ping(n) \/ Dead(n) \/ Closed(n)
                  \/ LinkLost \/ UNCHANGED vars
    PROVE  Typed'
<1>1. UrgentOK /\ CtrlOK /\ DataOK /\ HandOK /\ ReadOK /\ PullOK /\ ServeOK /\ EndsOK
    BY DEF Typed
<1>2. UNCHANGED <<urgent, data, burst, hand, rd, pull, serve, stopped>>
    BY DEF FileChanges, Ping, Dead, Closed, LinkLost, vars, lanes, wires
<1>3. UrgentOK' /\ DataOK' /\ HandOK' /\ ReadOK' /\ PullOK' /\ ServeOK'
    BY <1>1, <1>2 DEF UrgentOK, DataOK, HandOK, ReadOK, PullOK, ServeOK, Serving
<1>4. CtrlOK'
    <2>1. CASE ctrl' = ctrl
        BY <1>1, <2>1 DEF CtrlOK
    <2>2. ASSUME NEW n \in Node, Ping(n) PROVE CtrlOK'
        BY <1>1, <2>2, PushCtrl, FrameKinds DEF Ping
    <2> QED
        BY <2>1, <2>2 DEF FileChanges, Dead, Closed, LinkLost, vars, lanes
<1>5. EndsOK'
    <2>1. \/ \E n \in Node : file' = [file EXCEPT ![n] = Asked + 1]
          \/ file' = file
        BY DEF FileChanges, Ping, Dead, Closed, LinkLost, vars
    <2>2. (\E n \in Node : shut' = [shut EXCEPT ![n] = TRUE]) \/ shut' = shut
        BY DEF FileChanges, Ping, Dead, Closed, LinkLost, vars, wires
    <2>3. (\E n \in Node : ctx' = [ctx EXCEPT ![n] = "closed"]) \/ ctx' = ctx
        BY DEF FileChanges, Ping, Dead, Closed, LinkLost, vars
    <2>4. silent' = TRUE \/ silent' = silent
        BY DEF FileChanges, Ping, Dead, Closed, LinkLost, vars
    <2>5. work' = work \/ (work < MaxWork /\ work' = work + 1)
        BY DEF FileChanges, Ping, Dead, Closed, LinkLost, vars, Begin
    <2>6. faults' = faults \/ (faults < MaxFaults /\ faults' = faults + 1)
        BY DEF FileChanges, Ping, Dead, Closed, LinkLost, vars, Fault
    <2>7. work' \in 0..MaxWork /\ faults' \in 0..MaxFaults
        BY <1>1, <2>5, <2>6, Depths DEF EndsOK
    <2>8. file' \in [Node -> {Asked, Asked + 1}]
        BY <1>1, <2>1 DEF EndsOK
    <2>9. ctx' \in [Node -> {"live", "done", "closed"}]
        BY <1>1, <2>3 DEF EndsOK
    <2>10. shut' \in [Node -> BOOLEAN] /\ stopped' \in [Node -> BOOLEAN]
        BY <1>1, <1>2, <2>2 DEF EndsOK
    <2>11. silent' \in BOOLEAN
        BY <1>1, <2>4, Zenon DEF EndsOK
    <2> QED
        BY <2>7, <2>8, <2>9, <2>10, <2>11 DEF EndsOK
<1> QED
    BY <1>3, <1>4, <1>5 DEF Typed

LEMMA TypedNext == ASSUME Typed, [Next]_vars PROVE Typed'
BY WriteTyped, StopTyped, ReaderTyped, PullerTyped, ServerTyped, OtherTyped DEF Next, Writer

LEMMA TypedInit == Init => Typed
<1> SUFFICES ASSUME Init PROVE Typed
    OBVIOUS
<1>1. <<>> \in Seq(CtrlFrames) /\ <<>> \in Seq(Frames) /\ <<>> \in Seq(Nat) /\ Len(<<>>) = 0
    OBVIOUS
<1>2. UrgentOK /\ CtrlOK /\ DataOK
    BY <1>1, Depths DEF Init, UrgentOK, CtrlOK, DataOK
<1>3. HandOK /\ ReadOK
    <2>1. Reading \in ReadType /\ Reading.pc = "read"
        BY DEF Reading, ReadType
    <2> QED
        BY <2>1, Depths DEF Init, HandOK, ReadOK
<1>4. PullOK
    <2>1. NoPull \in PullType /\ NoPull.q = <<>>
        BY <1>1 DEF NoPull, PullType
    <2> QED
        BY <1>1, <2>1, Depths DEF Init, PullOK
<1>5. ServeOK
    <2>1. NoServe \in ServeType /\ NoServe.pc = "none"
        BY Depths DEF NoServe, ServeType
    <2>2. \A n \in Node : Serving(n) = {}
        BY <2>1 DEF Init, Serving
    <2>3. Cardinality({}) = 0
        BY FS_EmptySet
    <2>4. \A n \in Node : Cardinality(Serving(n)) <= Slots
        BY <2>2, <2>3, Depths
    <2>5. serve \in [Node -> [Id -> ServeType]]
        BY <2>1 DEF Init
    <2> QED
        BY <2>4, <2>5 DEF ServeOK
<1>6. EndsOK
    <2>1. silent \in BOOLEAN
        BY Zenon DEF Init
    <2>2. shut \in [Node -> BOOLEAN] /\ stopped \in [Node -> BOOLEAN]
        BY DEF Init
    <2>3. work \in 0..MaxWork /\ faults \in 0..MaxFaults
        BY Depths DEF Init
    <2>4. file \in [Node -> {Asked, Asked + 1}] /\ ctx \in [Node -> {"live", "done", "closed"}]
        BY DEF Init
    <2> QED
        BY <2>1, <2>2, <2>3, <2>4 DEF EndsOK
<1> QED
    BY <1>2, <1>3, <1>4, <1>5, <1>6 DEF Typed

\* Every queue of the session keeps its bound: the three lanes (pushCtrl,
\* pushData, the urgent lane), a pull's queue (routeChunk) and the serves that
\* run at once (startBounded).
THEOREM QueuesBoundedAlways == Spec => []TypeOK
<1>1. Typed => TypeOK
    <2> SUFFICES ASSUME Typed PROVE TypeOK
        OBVIOUS
    <2>1. CtrlFrames \subseteq FrameType /\ Frames \subseteq FrameType
        BY DEF CtrlFrames, Frames
    <2>2. \A x \in Seq(CtrlFrames) \cup Seq(Frames) : x \in Seq(FrameType)
        BY <2>1
    <2>3. ASSUME NEW n \in Node
          PROVE  /\ urgent[n] \in Seq(FrameType) /\ Len(urgent[n]) <= UrgentDepth
                 /\ ctrl[n] \in Seq(FrameType) /\ Len(ctrl[n]) <= CtrlDepth
                 /\ data[n] \in Seq(FrameType) /\ Len(data[n]) <= DataDepth
                 /\ Cardinality(Serving(n)) <= Slots
        BY <2>2 DEF Typed, UrgentOK, CtrlOK, DataOK, ServeOK
    <2>4. ASSUME NEW n \in Node, NEW i \in Id
          PROVE  /\ pull[n][i].pc \in Waiting \cup {"none", "done", "failed"}
                 /\ pull[n][i].q \in Seq(FrameType) /\ Len(pull[n][i].q) <= PullDepth
                 /\ serve[n][i] \in [pc : {"none", "starting", "streaming", "ending"},
                                     off : 0..Chunks, cancelled : BOOLEAN]
        <3>1. pull[n][i] \in PullType /\ Len(pull[n][i].q) <= PullDepth /\ serve[n][i] \in ServeType
            BY DEF Typed, PullOK, ServeOK
        <3>2. pull[n][i].pc \in Waiting \cup {"none", "done", "failed"} /\ pull[n][i].q \in Seq(Frames)
            BY <3>1 DEF PullType
        <3> QED
            BY <2>2, <3>1, <3>2 DEF ServeType
    <2>5. hand \in [Node -> FrameType \cup {NoFrame}] /\ burst \in [Node -> 0..MaxBurst]
        BY <2>1 DEF Typed, HandOK
    <2>6. rd \in [Node -> [pc : {"read", "route", "exited"}, f : FrameType \cup {NoFrame}]]
        BY <2>1 DEF Typed, ReadOK, ReadType
    <2> QED
        BY <2>3, <2>4, <2>5, <2>6 DEF TypeOK, Typed, EndsOK
<1> QED
    BY <1>1, TypedInit, TypedNext, PTL DEF Spec

-----------------------------------------------------------------------------
(* A file on its way: what has been got, the pull's queue, the frame its read *)
(* loop holds, the one in the peer's hand, and the peer's bulk lane.          *)

Dirty(f, i) == f.t = "chunk" /\ f.i = i /\ f.v # Asked
EndOf(f, i) == f.t = "eof" /\ f.i = i
NoEnd(s, i) == \A k \in DOMAIN s : ~EndOf(s[k], i)

\* No chunk of another version than the one asked for comes before the end.
InOrder(got, q, r, h, d, i) ==
    /\ \A a, b \in DOMAIN d : a < b /\ Dirty(d[a], i) => ~EndOf(d[b], i)
    /\ Dirty(h, i) => NoEnd(d, i)
    /\ Dirty(r, i) => ~EndOf(h, i) /\ NoEnd(d, i)
    /\ \A a \in DOMAIN q : Dirty(q[a], i) =>
          /\ \A b \in DOMAIN q : a < b => ~EndOf(q[b], i)
          /\ ~EndOf(r, i) /\ ~EndOf(h, i) /\ NoEnd(d, i)
    /\ (\E a \in DOMAIN got : got[a] # Asked) =>
          NoEnd(q, i) /\ ~EndOf(r, i) /\ ~EndOf(h, i) /\ NoEnd(d, i)

\* There is no such chunk at all.
Clean(got, q, r, h, d, i) ==
    /\ \A a \in DOMAIN d : ~Dirty(d[a], i)
    /\ ~Dirty(h, i) /\ ~Dirty(r, i)
    /\ \A a \in DOMAIN q : ~Dirty(q[a], i)
    /\ \A a \in DOMAIN got : got[a] = Asked

\* Both, for a peer whose file has version v.
Sound(got, q, r, h, d, v, i) ==
    InOrder(got, q, r, h, d, i) /\ (v = Asked => Clean(got, q, r, h, d, i))

\* Frames are dropped.
LEMMA SoundDrops ==
    ASSUME NEW got, NEW q, NEW r, NEW h, NEW d, NEW v, NEW i, Sound(got, q, r, h, d, v, i)
    PROVE  /\ Sound(got, <<>>, r, h, d, v, i) /\ Sound(got, q, NoFrame, h, d, v, i)
           /\ Sound(got, q, r, NoFrame, d, v, i) /\ Sound(got, q, r, NoFrame, <<>>, v, i)
           /\ Sound(got, <<>>, NoFrame, h, d, v, i)
<1>1. NoFrame.t = "none"
    BY FrameKinds
<1>2. ~Dirty(NoFrame, i) /\ ~EndOf(NoFrame, i)
    BY <1>1 DEF Dirty, EndOf
<1>3. DOMAIN <<>> = {}
    OBVIOUS
<1> QED
    BY <1>2, <1>3 DEF Sound, InOrder, Clean, NoEnd

\* A frame is queued: not the end of the file, or the end while it is as asked.
LEMMA SoundQueued ==
    ASSUME NEW got, NEW q, NEW r, NEW h, NEW d \in Seq(Frames), NEW v, NEW i, NEW f \in Frames,
           Sound(got, q, r, h, d, v, i),
           v = Asked => ~Dirty(f, i), v # Asked => ~EndOf(f, i)
    PROVE  Sound(got, q, r, h, Append(d, f), v, i)
<1> DEFINE e == Append(d, f)
<1>1. /\ DOMAIN e = 1..(Len(d) + 1) /\ DOMAIN d = 1..Len(d) /\ Len(d) \in Nat
      /\ e[Len(d) + 1] = f /\ \A k \in 1..Len(d) : e[k] = d[k]
    OBVIOUS
<1> HIDE DEF e
<1>2. CASE v = Asked
    <2>1. Clean(got, q, r, h, e, i)
        BY <1>1, <1>2 DEF Sound, Clean
    <2>2. InOrder(got, q, r, h, e, i)
        BY <2>1 DEF Clean, InOrder
    <2> QED
        BY <2>1, <2>2 DEF Sound, e
<1>3. CASE v # Asked
    <2>1. NoEnd(d, i) => NoEnd(e, i)
        BY <1>1, <1>3 DEF NoEnd
    <2>2. \A a, b \in DOMAIN e : a < b /\ Dirty(e[a], i) => ~EndOf(e[b], i)
        <3> SUFFICES ASSUME NEW a \in DOMAIN e, NEW b \in DOMAIN e, a < b, Dirty(e[a], i), EndOf(e[b], i)
                     PROVE  FALSE
            OBVIOUS
        <3>1. b # Len(d) + 1
            BY <1>1, <1>3
        <3>2. a \in DOMAIN d /\ b \in DOMAIN d /\ e[a] = d[a] /\ e[b] = d[b]
            BY <1>1, <3>1
        <3> QED
            BY <3>2 DEF Sound, InOrder
    <2>3. InOrder(got, q, r, h, e, i)
        BY <2>1, <2>2 DEF Sound, InOrder
    <2> QED
        BY <1>3, <2>3 DEF Sound, e
<1> QED
    BY <1>2, <1>3

\* The next bulk frame is written.
LEMMA SoundWritten ==
    ASSUME NEW got, NEW q, NEW r, NEW d \in Seq(Frames), NEW v, NEW i, d # <<>>,
           Sound(got, q, r, NoFrame, d, v, i)
    PROVE  Sound(got, q, r, Head(d), Tail(d), v, i)
<1> DEFINE e == Tail(d)
<1>1. /\ DOMAIN d = 1..Len(d) /\ Len(d) \in Nat \ {0} /\ DOMAIN e = 1..(Len(d) - 1)
      /\ Head(d) = d[1] /\ \A k \in 1..(Len(d) - 1) : e[k] = d[k + 1]
    OBVIOUS
<1> HIDE DEF e
<1>2. 1 \in DOMAIN d /\ \A k \in DOMAIN e : k + 1 \in DOMAIN d /\ e[k] = d[k + 1] /\ 1 < k + 1
    BY <1>1
<1>3. NoEnd(d, i) => NoEnd(e, i) /\ ~EndOf(d[1], i)
    BY <1>2 DEF NoEnd
<1>4. Dirty(d[1], i) => NoEnd(e, i)
    BY <1>2 DEF Sound, InOrder, NoEnd
<1>5. \A a, b \in DOMAIN e : a < b /\ Dirty(e[a], i) => ~EndOf(e[b], i)
    <2> SUFFICES ASSUME NEW a \in DOMAIN e, NEW b \in DOMAIN e, a < b, Dirty(e[a], i)
                 PROVE  ~EndOf(e[b], i)
        OBVIOUS
    <2>1. a + 1 \in DOMAIN d /\ b + 1 \in DOMAIN d /\ a + 1 < b + 1
        BY <1>1, <1>2
    <2> QED
        BY <1>2, <2>1 DEF Sound, InOrder
<1>6. InOrder(got, q, r, d[1], e, i)
    BY <1>3, <1>4, <1>5 DEF Sound, InOrder
<1>7. v = Asked => Clean(got, q, r, d[1], e, i)
    BY <1>2 DEF Sound, Clean
<1> QED
    BY <1>1, <1>6, <1>7 DEF Sound, e

\* A frame that is no part of a file is written.
LEMMA SoundPassed ==
    ASSUME NEW got, NEW q, NEW r, NEW d, NEW v, NEW i, NEW f \in CtrlFrames,
           Sound(got, q, r, NoFrame, d, v, i)
    PROVE  Sound(got, q, r, f, d, v, i)
<1>1. f.t \notin {"chunk", "eof"}
    BY DEF CtrlFrames
<1>2. ~Dirty(f, i) /\ ~EndOf(f, i)
    BY <1>1 DEF Dirty, EndOf
<1> QED
    BY <1>2 DEF Sound, InOrder, Clean

\* A frame is read.
LEMMA SoundRead ==
    ASSUME NEW got, NEW q, NEW h, NEW d, NEW v, NEW i, Sound(got, q, NoFrame, h, d, v, i)
    PROVE  Sound(got, q, h, NoFrame, d, v, i)
<1>1. NoFrame.t = "none"
    BY FrameKinds
<1>2. ~Dirty(NoFrame, i) /\ ~EndOf(NoFrame, i)
    BY <1>1 DEF Dirty, EndOf
<1> QED
    BY <1>2 DEF Sound, InOrder, Clean

\* It is handed over.
LEMMA SoundHanded ==
    ASSUME NEW got, NEW q \in Seq(Frames), NEW r \in Frames, NEW h, NEW d, NEW v, NEW i,
           Sound(got, q, r, h, d, v, i)
    PROVE  Sound(got, Append(q, r), NoFrame, h, d, v, i)
<1> DEFINE e == Append(q, r)
<1>1. /\ DOMAIN e = 1..(Len(q) + 1) /\ DOMAIN q = 1..Len(q) /\ Len(q) \in Nat
      /\ e[Len(q) + 1] = r /\ \A k \in 1..Len(q) : e[k] = q[k]
    OBVIOUS
<1> HIDE DEF e
<1>2. NoFrame.t = "none"
    BY FrameKinds
<1>3. ~Dirty(NoFrame, i) /\ ~EndOf(NoFrame, i)
    BY <1>2 DEF Dirty, EndOf
<1>4. ASSUME NEW a \in DOMAIN e, Dirty(e[a], i)
      PROVE  /\ \A b \in DOMAIN e : a < b => ~EndOf(e[b], i)
             /\ ~EndOf(h, i) /\ NoEnd(d, i)
    <2>1. CASE a = Len(q) + 1
        <3>1. \A b \in DOMAIN e : ~(a < b)
            BY <1>1, <2>1
        <3> QED
            BY <1>1, <1>4, <2>1, <3>1 DEF Sound, InOrder
    <2>2. CASE a # Len(q) + 1
        <3>1. a \in DOMAIN q /\ Dirty(q[a], i)
            BY <1>1, <1>4, <2>2
        <3>2. \A b \in DOMAIN e : (b \in DOMAIN q /\ e[b] = q[b]) \/ e[b] = r
            BY <1>1
        <3> QED
            BY <3>1, <3>2 DEF Sound, InOrder
    <2> QED
        BY <2>1, <2>2
<1>5. NoEnd(q, i) /\ ~EndOf(r, i) => NoEnd(e, i)
    BY <1>1 DEF NoEnd
<1>6. InOrder(got, e, NoFrame, h, d, i)
    BY <1>3, <1>4, <1>5 DEF Sound, InOrder
<1>7. v = Asked => Clean(got, e, NoFrame, h, d, i)
    BY <1>1, <1>3 DEF Sound, Clean
<1> QED
    BY <1>6, <1>7 DEF Sound, e

\* The pull takes the next frame, and keeps a chunk of its own.
LEMMA SoundTaken ==
    ASSUME NEW got \in Seq(Nat), NEW q \in Seq(Frames), NEW r, NEW h, NEW d, NEW v, NEW i, q # <<>>,
           Sound(got, q, r, h, d, v, i)
    PROVE  /\ Sound(got, Tail(q), r, h, d, v, i)
           /\ Head(q).t = "chunk" /\ Head(q).i = i =>
                 /\ Sound(Append(got, Head(q).v), Tail(q), r, h, d, v, i)
                 /\ Sound(Append(got, Head(q).v), <<>>, r, h, d, v, i)
           /\ EndOf(Head(q), i) => \A a \in DOMAIN got : got[a] = Asked
<1> DEFINE e == Tail(q)
           c == q[1]
           g == Append(got, c.v)
<1>1. /\ DOMAIN q = 1..Len(q) /\ Len(q) \in Nat \ {0} /\ DOMAIN e = 1..(Len(q) - 1)
      /\ Head(q) = q[1] /\ \A k \in 1..(Len(q) - 1) : e[k] = q[k + 1]
    OBVIOUS
<1> HIDE DEF e
<1>2. 1 \in DOMAIN q /\ \A k \in DOMAIN e : k + 1 \in DOMAIN q /\ e[k] = q[k + 1] /\ 1 < k + 1
    BY <1>1
<1>3. NoEnd(q, i) => NoEnd(e, i)
    BY <1>2 DEF NoEnd
<1>4. ASSUME NEW a \in DOMAIN e, Dirty(e[a], i)
      PROVE  /\ \A b \in DOMAIN e : a < b => ~EndOf(e[b], i)
             /\ ~EndOf(r, i) /\ ~EndOf(h, i) /\ NoEnd(d, i)
    <2>1. a + 1 \in DOMAIN q /\ Dirty(q[a + 1], i)
        BY <1>2, <1>4
    <2>2. \A b \in DOMAIN e : a < b => a + 1 < b + 1 /\ b + 1 \in DOMAIN q /\ e[b] = q[b + 1]
        BY <1>1, <1>2
    <2> QED
        BY <2>1, <2>2 DEF Sound, InOrder
<1>5. Sound(got, e, r, h, d, v, i)
    <2>1. InOrder(got, e, r, h, d, i)
        BY <1>3, <1>4 DEF Sound, InOrder
    <2>2. v = Asked => Clean(got, e, r, h, d, i)
        BY <1>2 DEF Sound, Clean
    <2> QED
        BY <2>1, <2>2 DEF Sound
<1>6. ASSUME c.t = "chunk", c.i = i PROVE Sound(g, e, r, h, d, v, i)
    <2>1. c.v \in Nat
        BY <1>2 DEF Frames, FrameType, Asked
    <2>2. \A a \in DOMAIN g : (a \in DOMAIN got /\ g[a] = got[a]) \/ g[a] = c.v
        BY <2>1
    <2> HIDE DEF g
    <2>3. c.v # Asked => NoEnd(e, i) /\ ~EndOf(r, i) /\ ~EndOf(h, i) /\ NoEnd(d, i)
        BY <1>2, <1>6 DEF Sound, InOrder, Dirty, NoEnd
    <2>4. (\E a \in DOMAIN g : g[a] # Asked) =>
             NoEnd(e, i) /\ ~EndOf(r, i) /\ ~EndOf(h, i) /\ NoEnd(d, i)
        BY <1>3, <2>2, <2>3 DEF Sound, InOrder
    <2>5. InOrder(g, e, r, h, d, i)
        BY <1>5, <2>4 DEF Sound, InOrder
    <2>6. v = Asked => Clean(g, e, r, h, d, i)
        BY <1>2, <1>5, <1>6, <2>2 DEF Sound, Clean, Dirty
    <2> QED
        BY <2>5, <2>6 DEF Sound
<1>7. EndOf(c, i) => \A a \in DOMAIN got : got[a] = Asked
    BY <1>2 DEF Sound, InOrder, NoEnd
<1> QED
    BY <1>1, <1>5, <1>6, <1>7, SoundDrops DEF e

-----------------------------------------------------------------------------
(* Every pull's file on its way is sound. *)

Piped(n, i) ==
    Sound(pull[n][i].got, pull[n][i].q, rd[n].f, hand[Peer(n)], data[Peer(n)], file[Peer(n)], i)

\* A pull's queue holds frames of that pull.
Routed(n, i) == \A k \in DOMAIN pull[n][i].q : pull[n][i].q[k].i = i

Exact(n, i) == pull[n][i].pc = "done" => pull[n][i].got = [k \in 1..Chunks |-> Asked]

Flow == \A n \in Node, i \in Id : Piped(n, i) /\ Routed(n, i) /\ Exact(n, i)

\* Steps that leave the pulls alone.
LEMMA FlowPipes ==
    ASSUME Flow, pull' = pull, \A n \in Node, i \in Id : Piped(n, i)' PROVE Flow'
BY DEF Flow, Routed, Exact

LEMMA WriteFlow == ASSUME Typed, Flow, NEW w \in Node, Write(w) PROVE Flow'
<1>1. UNCHANGED <<rd, pull, file>> /\ hand[w] = NoFrame
    BY DEF Write
<1>2. UrgentOK /\ CtrlOK /\ DataOK /\ HandOK
    BY DEF Typed
<1>3. \/ /\ data' = data
         /\ \E f \in CtrlFrames : hand' = [hand EXCEPT ![w] = f]
      \/ /\ data[w] # <<>> /\ data' = [data EXCEPT ![w] = Tail(@)]
         /\ hand' = [hand EXCEPT ![w] = Head(data[w])]
    <2>1. CASE WriteUrgent(w)
        <3>1. urgent[w] \in Seq(CtrlFrames) /\ urgent[w] # <<>>
            BY <1>2, <2>1 DEF UrgentOK, WriteUrgent, Take
        <3>2. Head(urgent[w]) \in CtrlFrames
            BY <3>1
        <3> QED
            BY <2>1, <3>2 DEF WriteUrgent, Take
    <2>2. CASE WriteCtrl(w)
        <3>1. ctrl[w] \in Seq(CtrlFrames) /\ ctrl[w] # <<>>
            BY <1>2, <2>2 DEF CtrlOK, WriteCtrl, Take
        <3>2. Head(ctrl[w]) \in CtrlFrames
            BY <3>1
        <3> QED
            BY <2>2, <3>2 DEF WriteCtrl, Take
    <2>3. CASE WriteData(w)
        BY <2>3 DEF WriteData, Take
    <2> QED
        BY <2>1, <2>2, <2>3 DEF Write
<1>4. ASSUME NEW n \in Node, NEW i \in Id PROVE Piped(n, i)'
    <2>1. Piped(n, i) /\ Peer(n) \in Node
        BY Peers DEF Flow
    <2>2. CASE Peer(n) # w
        <3>1. hand'[Peer(n)] = hand[Peer(n)] /\ data'[Peer(n)] = data[Peer(n)]
            BY <1>2, <1>3, <2>1, <2>2 DEF HandOK, DataOK
        <3> QED
            BY <1>1, <2>1, <3>1 DEF Piped
    <2>3. CASE Peer(n) = w
        <3>1. CASE \E f \in CtrlFrames : hand'[w] = f /\ data'[w] = data[w]
            BY <1>1, <2>1, <2>3, <3>1, SoundPassed DEF Piped
        <3>2. CASE data[w] # <<>> /\ hand'[w] = Head(data[w]) /\ data'[w] = Tail(data[w])
            <4>1. data[w] \in Seq(Frames)
                BY <1>2 DEF DataOK
            <4> QED
                BY <1>1, <2>1, <2>3, <3>2, <4>1, SoundWritten DEF Piped
        <3> QED
            BY <1>2, <1>3, <3>1, <3>2 DEF HandOK, DataOK
    <2> QED
        BY <2>2, <2>3
<1> QED
    BY <1>1, <1>4, FlowPipes

LEMMA StopFlow == ASSUME Typed, Flow, NEW w \in Node, WriteFails(w) \/ Close(w) PROVE Flow'
<1>1. /\ UNCHANGED <<rd, pull, file>> /\ data' = [data EXCEPT ![w] = <<>>]
      /\ hand' = [hand EXCEPT ![w] = NoFrame]
    BY DEF WriteFails, Close, Discard
<1>2. DataOK /\ HandOK
    BY DEF Typed
<1>3. ASSUME NEW n \in Node, NEW i \in Id PROVE Piped(n, i)'
    <2>1. Piped(n, i) /\ Peer(n) \in Node
        BY Peers DEF Flow
    <2>2. CASE Peer(n) # w
        <3>1. hand'[Peer(n)] = hand[Peer(n)] /\ data'[Peer(n)] = data[Peer(n)]
            BY <1>1, <1>2, <2>1, <2>2 DEF HandOK, DataOK
        <3> QED
            BY <1>1, <2>1, <3>1 DEF Piped
    <2>3. CASE Peer(n) = w
        <3>1. hand'[w] = NoFrame /\ data'[w] = <<>>
            BY <1>1, <1>2 DEF HandOK, DataOK
        <3> QED
            BY <1>1, <2>1, <2>3, <3>1, SoundDrops DEF Piped
    <2> QED
        BY <2>2, <2>3
<1> QED
    BY <1>1, <1>3, FlowPipes

\* The end of a file is queued only while the file is as it was asked for.
LEMMA ServeFlow == ASSUME Typed, Flow, NEW w \in Node, NEW j \in Id, Server(w, j) PROVE Flow'
<1>1. UNCHANGED <<hand, rd, pull, file>>
    BY DEF Server, ServeStart, ServeChunk, ServeFinish, ServeCancelled, ServeRelease, lanes
<1>2. DataOK /\ ServeOK /\ EndsOK
    BY DEF Typed
<1>3. CASE data' = data
    BY <1>1, <1>3, FlowPipes DEF Flow, Piped
<1>4. ASSUME NEW f \in Frames, enqueueData(w, f), file[w] = Asked => f.t = "eof" \/ f.v = Asked,
             file[w] # Asked => f.t # "eof"
      PROVE  Flow'
    <2>1. ASSUME NEW n \in Node, NEW i \in Id PROVE Piped(n, i)'
        <3>1. Piped(n, i) /\ Peer(n) \in Node
            BY Peers DEF Flow
        <3>2. CASE Peer(n) # w
            <4>1. data'[Peer(n)] = data[Peer(n)]
                BY <1>2, <1>4, <3>1, <3>2 DEF DataOK, enqueueData
            <4> QED
                BY <1>1, <3>1, <4>1 DEF Piped
        <3>3. CASE Peer(n) = w
            <4>1. data[w] \in Seq(Frames) /\ data'[w] = Append(data[w], f)
                BY <1>2, <1>4 DEF DataOK, enqueueData
            <4>2. (file[w] = Asked => ~Dirty(f, i)) /\ (file[w] # Asked => ~EndOf(f, i))
                BY <1>4 DEF Dirty, EndOf
            <4> QED
                BY <1>1, <3>1, <3>3, <4>1, <4>2, SoundQueued DEF Piped
        <3> QED
            BY <3>2, <3>3
    <2> QED
        BY <1>1, <2>1, FlowPipes
<1>5. CASE ServeChunk(w, j)
    <2> DEFINE f == Chunk(j, serve[w][j].off, file[w])
    <2>1. serve[w][j].off \in 0..Chunks /\ file[w] \in {Asked, Asked + 1}
        BY <1>2 DEF ServeOK, ServeType, EndsOK
    <2>2. f \in Frames /\ f.t = "chunk" /\ f.v = file[w]
        <3>1. f \in Frames
            BY <2>1, FrameKinds
        <3> QED
            BY <3>1 DEF Chunk, Frame
    <2>3. enqueueData(w, f)
        BY <1>5 DEF ServeChunk
    <2> QED
        BY <1>4, <2>2, <2>3
<1>6. CASE ServeFinish(w, j)
    <2>1. EOF(j) \in Frames /\ EOF(j).t = "eof"
        <3>1. EOF(j) \in Frames
            BY FrameKinds
        <3> QED
            BY <3>1 DEF EOF, Frame
    <2>2. data' = data \/ (file[w] = Asked /\ enqueueData(w, EOF(j)))
        BY <1>6 DEF ServeFinish
    <2> QED
        BY <1>3, <1>4, <2>1, <2>2
<1>7. CASE ServeStart(w, j) \/ ServeCancelled(w, j) \/ ServeRelease(w, j)
    BY <1>3, <1>7 DEF ServeStart, ServeCancelled, ServeRelease, lanes
<1> QED
    BY <1>5, <1>6, <1>7 DEF Server

\* A file changes under a serve, which leaves what was read of it before.
LEMMA OtherFlow ==
    ASSUME Typed, Flow, \/ \E n \in Node : FileChanges(n) \/ Ping(n) \/ Dead(n) \/ Closed(n)
                        \/ LinkLost \/ UNCHANGED vars
    PROVE  Flow'
<1>1. UNCHANGED <<data, hand, rd, pull>>
    BY DEF FileChanges, Ping, Dead, Closed, LinkLost, vars, lanes
<1>2. file' = file \/ \E w \in Node : file' = [file EXCEPT ![w] = Asked + 1]
    BY DEF FileChanges, Ping, Dead, Closed, LinkLost, vars
<1>3. ASSUME NEW m \in Node PROVE file'[m] = Asked => file[m] = Asked
    <2>1. Asked + 1 # Asked
        BY DEF Asked
    <2> QED
        BY <1>2, <2>1 DEF Typed, EndsOK
<1>4. ASSUME NEW n \in Node, NEW i \in Id PROVE Piped(n, i)'
    <2>1. Piped(n, i) /\ Peer(n) \in Node
        BY Peers DEF Flow
    <2> QED
        BY <1>1, <1>3, <2>1 DEF Piped, Sound
<1> QED
    BY <1>1, <1>4, FlowPipes

\* One pull changes, and only in its own fields.
LEMMA FlowOne ==
    ASSUME Flow, NEW n \in Node, NEW i \in Id, NEW pc, NEW q, NEW got, PullTo(n, i, pc, q, got),
           \A m \in Node, j \in Id : m # n \/ j # i => Piped(m, j)',
           Sound(got, q, rd'[n].f, hand'[Peer(n)], data'[Peer(n)], file'[Peer(n)], i),
           \A k \in DOMAIN q : q[k].i = i,
           pc = "done" => got = [k \in 1..Chunks |-> Asked]
    PROVE  Flow'
<1>1. ASSUME NEW m \in Node, NEW j \in Id, m # n \/ j # i
      PROVE  Piped(m, j)' /\ Routed(m, j)' /\ Exact(m, j)'
    <2>1. pull'[m][j] = pull[m][j] /\ Piped(m, j)'
        BY <1>1 DEF PullTo
    <2>2. Routed(m, j) /\ Exact(m, j)
        BY DEF Flow
    <2> QED
        BY <2>1, <2>2 DEF Routed, Exact
<1>2. Piped(n, i)' /\ Routed(n, i)' /\ Exact(n, i)'
    BY DEF PullTo, Piped, Routed, Exact
<1> QED
    BY <1>1, <1>2 DEF Flow

\* Taking frames off a queue, or adding one of the same pull, keeps it routed.
LEMMA RoutedQueues ==
    ASSUME NEW q \in Seq(Frames), NEW i, \A k \in DOMAIN q : q[k].i = i
    PROVE  /\ \A k \in DOMAIN <<>> : <<>>[k].i = i
           /\ q # <<>> => Head(q).i = i /\ \A k \in DOMAIN Tail(q) : Tail(q)[k].i = i
           /\ \A r \in Frames : r.i = i => \A k \in DOMAIN Append(q, r) : Append(q, r)[k].i = i
<1>1. DOMAIN q = 1..Len(q) /\ Len(q) \in Nat /\ DOMAIN <<>> = {}
    OBVIOUS
<1>2. ASSUME q # <<>> PROVE Head(q).i = i /\ \A k \in DOMAIN Tail(q) : Tail(q)[k].i = i
    <2>1. /\ Head(q) = q[1] /\ 1 \in DOMAIN q
          /\ \A k \in DOMAIN Tail(q) : k + 1 \in DOMAIN q /\ Tail(q)[k] = q[k + 1]
        BY <1>1, <1>2
    <2> QED
        BY <2>1
<1>3. ASSUME NEW r \in Frames, r.i = i, NEW k \in DOMAIN Append(q, r) PROVE Append(q, r)[k].i = i
    <2>1. k \in DOMAIN q \/ k = Len(q) + 1
        BY <1>1, <1>3
    <2> QED
        BY <1>1, <1>3, <2>1
<1> QED
    BY <1>1, <1>2, <1>3

\* A pull is done on the end of the file it asked for, at the offset it has
\* got to; by then it has got that many chunks, and none of another version.
LEMMA PullFlow ==
    ASSUME Typed, Flow, NEW n \in Node, NEW i \in Id, StartPull(n, i) \/ Puller(n, i) \/ GiveUp(n, i)
    PROVE  Flow'
<1> DEFINE p == pull[n][i]
           m == Peer(n)
<1>1. UNCHANGED <<data, hand, rd, file>>
    BY DEF StartPull, Puller, SendRequest, Receive, SendCancel, GiveUp, lanes
<1>2. PICK pc \in Waiting \cup {"none", "done", "failed"}, q \in Seq(Frames), got \in Seq(Nat) :
              PullStep(n, i, pc, q, got)
    BY PullSteps
<1>3. PullTo(n, i, pc, q, got)
    BY <1>2 DEF PullStep
<1>4. p.q \in Seq(Frames) /\ p.got \in Seq(Nat)
    BY DEF Typed, PullOK, PullType
<1>5. ASSUME NEW k \in Node, NEW j \in Id, k # n \/ j # i PROVE Piped(k, j)'
    BY <1>1, <1>3, <1>5 DEF Flow, Piped, PullTo
<1>6. Sound(p.got, p.q, rd[n].f, hand[m], data[m], file[m], i) /\ \A k \in DOMAIN p.q : p.q[k].i = i
    BY DEF Flow, Piped, Routed
<1>7. ASSUME Sound(got, q, rd[n].f, hand[m], data[m], file[m], i), \A k \in DOMAIN q : q[k].i = i,
             pc = "done" => got = [k \in 1..Chunks |-> Asked]
      PROVE  Flow'
    BY <1>1, <1>3, <1>5, <1>7, FlowOne
<1>8. CASE q \in {p.q, <<>>} /\ got = p.got /\ pc # "done"
    <2>1. Sound(got, q, rd[n].f, hand[m], data[m], file[m], i)
        BY <1>6, <1>8, SoundDrops
    <2>2. \A k \in DOMAIN q : q[k].i = i
        BY <1>4, <1>6, <1>8, RoutedQueues
    <2> QED
        BY <1>7, <1>8, <2>1, <2>2
<1>9. CASE /\ p.q # <<>> /\ q \in {Tail(p.q), <<>>}
           /\ LET c == Head(p.q)
              IN  \/ got = p.got /\ (pc = "done" => c.t = "eof" /\ c.off = Len(p.got))
                  \/ c.t = "chunk" /\ got = Append(p.got, c.v) /\ pc # "done"
    <2> DEFINE c == Head(p.q)
    <2>1. \A k \in DOMAIN q : q[k].i = i
        <3>1. \A k \in DOMAIN Tail(p.q) : Tail(p.q)[k].i = i
            BY <1>4, <1>6, <1>9, RoutedQueues
        <3>2. \A k \in DOMAIN <<>> : <<>>[k].i = i
            BY <1>4, <1>6, RoutedQueues
        <3> QED
            BY <1>9, <3>1, <3>2
    <2>2. c.i = i /\ c \in Frames
        <3>1. c \in Frames
            BY <1>4, <1>9
        <3> QED
            BY <1>4, <1>6, <1>9, <3>1, RoutedQueues
    <2>3. /\ Sound(p.got, Tail(p.q), rd[n].f, hand[m], data[m], file[m], i)
          /\ c.t = "chunk" =>
                /\ Sound(Append(p.got, c.v), Tail(p.q), rd[n].f, hand[m], data[m], file[m], i)
                /\ Sound(Append(p.got, c.v), <<>>, rd[n].f, hand[m], data[m], file[m], i)
          /\ EndOf(c, i) => \A a \in DOMAIN p.got : p.got[a] = Asked
        BY <1>4, <1>6, <1>9, <2>2, SoundTaken
    <2>4. Sound(p.got, <<>>, rd[n].f, hand[m], data[m], file[m], i)
        BY <1>6, SoundDrops
    <2>5. CASE got = p.got /\ (pc = "done" => c.t = "eof" /\ c.off = Len(p.got))
        <3>1. Sound(got, q, rd[n].f, hand[m], data[m], file[m], i)
            BY <1>9, <2>3, <2>4, <2>5
        <3>2. ASSUME pc = "done" PROVE got = [k \in 1..Chunks |-> Asked]
            <4>1. c.t = "eof" /\ c.off = Len(p.got) /\ EndOf(c, i)
                BY <2>2, <2>5, <3>2 DEF EndOf
            <4>2. Len(p.got) = Chunks
                BY <2>2, <4>1 DEF Frames
            <4>3. \A a \in DOMAIN p.got : p.got[a] = Asked
                BY <2>3, <4>1
            <4>4. DOMAIN p.got = 1..Chunks /\ p.got = [k \in DOMAIN p.got |-> p.got[k]]
                BY <1>4, <4>2
            <4> QED
                BY <2>5, <4>3, <4>4
        <3> QED
            BY <1>7, <2>1, <3>1, <3>2
    <2>6. CASE c.t = "chunk" /\ got = Append(p.got, c.v) /\ pc # "done"
        <3>1. Sound(got, q, rd[n].f, hand[m], data[m], file[m], i)
            BY <1>9, <2>3, <2>6
        <3> QED
            BY <1>7, <2>1, <2>6, <3>1
    <2> QED
        BY <1>9, <2>5, <2>6
<1> QED
    BY <1>2, <1>8, <1>9 DEF PullStep

\* A frame leaves the peer's hand, and the read loop keeps it or does not.
LEMMA ReadFlow ==
    ASSUME Typed, Flow, NEW n \in Node, NEW f, ReadFrame(n, f), UNCHANGED <<data, burst, pull, file>>,
           NEW r, \/ rd' = rd /\ r = NoFrame
                  \/ rd' = [rd EXCEPT ![n] = r] /\ r.f \in {NoFrame, f}
    PROVE  Flow'
<1>1. rd \in [Node -> ReadType] /\ rd[n].f = NoFrame
    BY DEF Typed, ReadOK, ReadFrame, Reading
<1>2. /\ Peer(n) \in Node /\ f = hand[Peer(n)] /\ hand'[Peer(n)] = NoFrame
      /\ \A m \in Node \ {Peer(n)} : hand'[m] = hand[m]
    BY Peers, ReadTyped
<1>3. ASSUME NEW k \in Node, NEW i \in Id PROVE Piped(k, i)'
    <2>1. Piped(k, i) /\ Peer(k) \in Node
        BY Peers DEF Flow
    <2>2. CASE rd'[k] = rd[k]
        <3>1. CASE Peer(k) = Peer(n)
            BY <1>2, <2>1, <2>2, <3>1, SoundDrops DEF Piped
        <3>2. CASE Peer(k) # Peer(n)
            BY <1>2, <2>1, <2>2, <3>2 DEF Piped
        <3> QED
            BY <3>1, <3>2
    <2>3. CASE k = n /\ rd'[n].f = NoFrame
        BY <1>1, <1>2, <2>1, <2>3, SoundDrops DEF Piped
    <2>4. CASE k = n /\ rd'[n].f = f
        BY <1>1, <1>2, <2>1, <2>4, SoundRead DEF Piped
    <2> QED
        BY <1>1, <2>2, <2>3, <2>4
<1> QED
    BY <1>3, FlowPipes

LEMMA HandOverFlow == ASSUME Typed, Flow, NEW n \in Node, HandOver(n) PROVE Flow'
<1> DEFINE i == rd[n].f.i
           p == pull[n][i]
           m == Peer(n)
<1>1. UNCHANGED <<data, hand, file>> /\ rd \in [Node -> ReadType]
    BY DEF HandOver, lanes, Typed, ReadOK
<1>2. i \in Id /\ rd[n].f \in Frames /\ rd' = [rd EXCEPT ![n] = Reading]
    BY HandOverTyped
<1>3. PICK q \in Seq(Frames) : PullTo(n, i, p.pc, q, p.got) /\ q \in {<<>>, p.q, Append(p.q, rd[n].f)}
    BY HandOverTyped
<1>4. rd'[n].f = NoFrame /\ \A k \in Node \ {n} : rd'[k] = rd[k]
    BY <1>1, <1>2 DEF Reading
<1>5. p.q \in Seq(Frames) /\ Piped(n, i) /\ Routed(n, i) /\ Exact(n, i)
    BY <1>2 DEF Typed, PullOK, PullType, Flow
<1>6. ASSUME NEW k \in Node, NEW j \in Id, k # n \/ j # i PROVE Piped(k, j)'
    <2>1. pull'[k][j] = pull[k][j] /\ Piped(k, j)
        BY <1>3, <1>6 DEF PullTo, Flow
    <2>2. CASE k # n
        BY <1>1, <1>4, <2>1, <2>2 DEF Piped
    <2>3. CASE k = n
        BY <1>1, <1>4, <2>1, <2>3, SoundDrops DEF Piped
    <2> QED
        BY <2>2, <2>3
<1>7. Sound(p.got, q, NoFrame, hand[m], data[m], file[m], i)
    <2>1. Sound(p.got, p.q, rd[n].f, hand[m], data[m], file[m], i)
        BY <1>5 DEF Piped
    <2>2. /\ Sound(p.got, <<>>, NoFrame, hand[m], data[m], file[m], i)
          /\ Sound(p.got, p.q, NoFrame, hand[m], data[m], file[m], i)
        BY <2>1, SoundDrops
    <2>3. Sound(p.got, Append(p.q, rd[n].f), NoFrame, hand[m], data[m], file[m], i)
        BY <1>2, <1>5, <2>1, SoundHanded
    <2> QED
        BY <1>3, <2>2, <2>3
<1>8. \A k \in DOMAIN q : q[k].i = i
    <2>1. \A k \in DOMAIN p.q : p.q[k].i = i
        BY <1>5 DEF Routed
    <2>2. \A k \in DOMAIN <<>> : <<>>[k].i = i
        BY <1>5, <2>1, RoutedQueues
    <2>3. \A k \in DOMAIN Append(p.q, rd[n].f) : Append(p.q, rd[n].f)[k].i = i
        <3> DEFINE f == rd[n].f
                   x == p.q
                   id == i
        <3>1. f \in Frames /\ f.i = id /\ x \in Seq(Frames) /\ \A k \in DOMAIN x : x[k].i = id
            BY <1>2, <1>5, <2>1
        <3> HIDE DEF f, x, id
        <3>2. \A k \in DOMAIN Append(x, f) : Append(x, f)[k].i = id
            BY <3>1, RoutedQueues
        <3> QED
            BY <3>2 DEF f, x, id
    <2> QED
        BY <1>3, <2>1, <2>2, <2>3
<1>9. p.pc = "done" => p.got = [k \in 1..Chunks |-> Asked]
    BY <1>5 DEF Exact
<1> HIDE DEF i, p
<1> QED
    BY <1>1, <1>2, <1>3, <1>4, <1>6, <1>7, <1>8, <1>9, FlowOne

LEMMA ReaderFlow == ASSUME Typed, Flow, NEW n \in Node, Reader(n) PROVE Flow'
<1>1. CASE handleKeepaliveFrame(n)
    BY <1>1, ReadFlow DEF handleKeepaliveFrame
<1>2. ASSUME NEW i \in Id, handleFileRequestFrame(n, i) PROVE Flow'
    <2> DEFINE r == [pc |-> "exited", f |-> NoFrame]
    <2>1. ReadFrame(n, Frame("request", i, 0, Asked)) /\ UNCHANGED <<data, burst, pull, file>>
        BY <1>2 DEF handleFileRequestFrame
    <2>2. rd' = rd \/ (rd' = [rd EXCEPT ![n] = r] /\ r.f = NoFrame)
        BY <1>2 DEF handleFileRequestFrame
    <2> HIDE DEF r
    <2> QED
        BY <2>1, <2>2, ReadFlow
<1>3. ASSUME NEW i \in Id, handleCancelTransferFrame(n, i) PROVE Flow'
    BY <1>3, ReadFlow DEF handleCancelTransferFrame
<1>4. ASSUME NEW i \in Id, routeChunk(n, i) PROVE Flow'
    <2> DEFINE f == hand[Peer(n)]
               r == [pc |-> "route", f |-> f]
    <2>1. ReadFrame(n, f) /\ UNCHANGED <<data, burst, pull, file>>
        BY <1>4 DEF routeChunk
    <2>2. rd' = rd \/ (rd' = [rd EXCEPT ![n] = r] /\ r.f = f)
        BY <1>4 DEF routeChunk
    <2> HIDE DEF r, f
    <2> QED
        BY <2>1, <2>2, ReadFlow
<1>5. CASE HandOver(n)
    BY <1>5, HandOverFlow
<1>6. CASE ReadEnds(n)
    <2>1. UNCHANGED <<data, hand, pull, file>> /\ rd \in [Node -> ReadType]
        BY <1>6 DEF ReadEnds, lanes, Typed, ReadOK
    <2>2. \A k \in Node : rd'[k].f = rd[k].f
        BY <1>6, <2>1 DEF ReadEnds, Reading
    <2>3. ASSUME NEW k \in Node, NEW i \in Id PROVE Piped(k, i)'
        BY <2>1, <2>2 DEF Piped, Flow
    <2> QED
        BY <2>1, <2>3, FlowPipes
<1> QED
    BY <1>1, <1>2, <1>3, <1>4, <1>5, <1>6 DEF Reader

LEMMA FlowNext == ASSUME Typed, Flow, [Next]_vars PROVE Flow'
BY WriteFlow, StopFlow, ReaderFlow, PullFlow, ServeFlow, OtherFlow DEF Next, Writer

LEMMA FlowInit == Init => Flow
<1> SUFFICES ASSUME Init, NEW n \in Node, NEW i \in Id PROVE Piped(n, i) /\ Routed(n, i) /\ Exact(n, i)
    BY DEF Flow
<1>1. /\ pull[n][i] = NoPull /\ rd[n].f = NoFrame
      /\ hand[Peer(n)] = NoFrame /\ data[Peer(n)] = <<>>
    BY Peers DEF Init, Reading
<1>2. pull[n][i].pc = "none" /\ pull[n][i].q = <<>> /\ pull[n][i].got = <<>>
    BY <1>1 DEF NoPull
<1>3. NoFrame.t = "none" /\ DOMAIN <<>> = {}
    BY FrameKinds
<1>4. ~Dirty(NoFrame, i) /\ ~EndOf(NoFrame, i)
    BY <1>3 DEF Dirty, EndOf
<1>5. Piped(n, i)
    BY <1>1, <1>2, <1>3, <1>4 DEF Piped, Sound, InOrder, Clean, NoEnd
<1> QED
    BY <1>2, <1>3, <1>5 DEF Routed, Exact

\* A pull that succeeds has the whole file, in order, and all of the version it
\* asked for, although the file may change while it is served and either end
\* may give up, be cancelled, or close at any point (streamFile's second look
\* at the file before the end, pullFile's check of every offset, routeChunk).
THEOREM PullExactAlways == Spec => []PullExact
<1>1. Flow => PullExact
    BY DEF Flow, Exact, PullExact
<1> QED
    BY <1>1, TypedInit, TypedNext, FlowInit, FlowNext, PTL DEF Spec

=============================================================================
