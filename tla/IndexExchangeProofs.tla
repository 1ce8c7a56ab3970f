------------------------ MODULE IndexExchangeProofs ------------------------
(***************************************************************************)
(* Proofs about IndexExchange, for any paths, any number of concurrent     *)
(* SyncShare calls, any page size, lane depth, journal length and number   *)
(* of events: the variables keep their types, and the receiver's cursor is *)
(* sound as long as the cursor a SnapshotBegin writes is stored.           *)
(*                                                                         *)
(* The cursor moves by a delta that continues it or by the end of a        *)
(* snapshot, and both are only as good as what was on the lane before      *)
(* them.  The invariant therefore follows each snapshot from the listing   *)
(* of its rows to its commit: its frames are in order, its rows are as new *)
(* as its high-water mark, and every row it owes is staged, on the lane or *)
(* still to be written, unless a batch has been lost, and then the batch   *)
(* count can never match the one its end carries.                          *)
(***************************************************************************)
EXTENDS IndexExchange, FiniteSetTheorems, SequenceTheorems,
        WellFoundedInduction, TLAPS

-----------------------------------------------------------------------------
(* The types of the variables. *)

RowSet(e) == Path \X ((0..e) \X (0..MaxSeq))

UpdateFrames(e) == [type : {"Update"}, rows : SUBSET RowSet(e)]
DeltaFrames(e) == [type : {"Delta"}, epoch : 0..e, from : Nat \ {0}, paths : Seq(Path)]
BeginFrames(e) == [type : {"Begin"}, id : Nat \ {0}, epoch : 0..e, high : 0..MaxSeq]
BatchFrames(e) == [type : {"Batch"}, id : Nat \ {0}, batch : Nat, row : RowSet(e)]
EndFrames == [type : {"End"}, id : Nat \ {0}, batches : Nat]
Frames(e) == UpdateFrames(e) \cup DeltaFrames(e) \cup BeginFrames(e) \cup BatchFrames(e)
               \cup EndFrames

AnswerJobs(e) == [pc : {"deltas", "list"}, epoch : 0..e, high : 0..MaxSeq, applied : Nat]
BeginJobs(e) == [pc : {"begin"}, epoch : 0..e, high : 0..MaxSeq, rows : SUBSET RowSet(e)]
BatchJobs(e) == [pc : {"batches"}, epoch : 0..e, high : 0..MaxSeq, rows : SUBSET RowSet(e),
                 id : Nat \ {0}, batch : Nat]
Jobs(e) == {Idle, Called} \cup AnswerJobs(e) \cup BeginJobs(e) \cup BatchJobs(e)

Acks == [type : {"Ack"}, epoch : Nat, applied : Nat, id : Nat]
Syncs == [type : {"Sync"}, epoch : Nat, applied : Nat]

SenderTyped ==
    /\ journal \in Seq(Path) /\ high <= MaxSeq /\ oldest \in 1..(high + 1)
    /\ epoch \in Nat \ {0}
    /\ outgoing \in [epoch : Nat, applied : Nat]
    /\ sent \in [epoch : Nat, high : Nat, id : Nat]
    /\ asked \in [epoch : Nat, applied : Nat, none : BOOLEAN]
    /\ updates \subseteq RowSet(epoch)
JobsTyped == job \in [Answerer -> Jobs(epoch)] /\ job["sync"] # Called
LaneTyped ==
    /\ toR \in Seq(Frames(epoch))
    /\ \A x \in DOMAIN toR : toR[x].type = "Delta" =>
          Len(toR[x].paths) >= 1 /\ toR[x].from + Len(toR[x].paths) - 1 <= MaxSeq
ReceiverTyped ==
    /\ incoming \in [epoch : 0..epoch, applied : 0..MaxSeq, id : Nat, batch : Nat]
    /\ begun \in [id : Nat, epoch : 0..epoch, high : 0..MaxSeq]
    /\ staging \subseteq [id : Nat, row : RowSet(epoch)] /\ IsFiniteSet(staging)
    /\ mirror \in [Path -> (0..epoch) \X (0..MaxSeq)]
    /\ handling \subseteq SUBSET RowSet(epoch)
BackTyped == toS \in Seq(Acks \cup Syncs)
Typed == SenderTyped /\ JobsTyped /\ LaneTyped /\ ReceiverTyped /\ BackTyped

-----------------------------------------------------------------------------
(* The invariant. *)

BeginAt(x, i) == toR[x].type = "Begin" /\ toR[x].id = i
BatchAt(x, i) == toR[x].type = "Batch" /\ toR[x].id = i
EndAt(x, i) == toR[x].type = "End" /\ toR[x].id = i
Sends(a, i) == job[a].pc = "batches" /\ job[a].id = i

\* Row r is at least as new as the first h journal entries.
AsNewAs(r, h) == r[2][1] = epoch /\ \A k \in 1..h : journal[k] = r[1] => k <= r[2][2]
\* A snapshot up to h owes the receiver a row of p.
Owed(p, h) == p \notin ignored /\ \E k \in 1..h : journal[k] = p

\* An answer under way is of the current epoch, and the rows a snapshot has
\* listed are new enough and complete.
JobCurrent(a) ==
    job[a].pc \in {"deltas", "list", "begin", "batches"} =>
        /\ job[a].epoch = epoch /\ job[a].high <= high
        /\ job[a].pc \in {"begin", "batches"} => \A r \in job[a].rows : AsNewAs(r, job[a].high)
        /\ job[a].pc = "begin" =>
              \A p \in Path : Owed(p, job[a].high) => \E r \in job[a].rows : r[1] = p
JobsCurrent == \A a \in Answerer : JobCurrent(a)

\* The frames of one snapshot are on the lane in order.
Follows(f, g) ==
    /\ g.type # "Begin" /\ f.type # "End"
    /\ f.type = "Batch" /\ g.type = "Batch" => f.batch < g.batch
    /\ f.type = "Batch" /\ g.type = "End" => f.batch < g.batches
SnapshotFrame(f) == f.type \in {"Begin", "Batch", "End"}
LaneOrdered ==
    \A x, y \in DOMAIN toR :
        (/\ x < y /\ SnapshotFrame(toR[x]) /\ SnapshotFrame(toR[y])
         /\ toR[x].id = toR[y].id) => Follows(toR[x], toR[y])

\* A snapshot that is being written is ahead of the lane and of the receiver.
JobsAhead ==
    /\ \A a \in Answerer : job[a].pc = "batches" =>
          /\ \A x \in DOMAIN toR :
                /\ ~EndAt(x, job[a].id)
                /\ BatchAt(x, job[a].id) => toR[x].batch < job[a].batch
                /\ BeginAt(x, job[a].id) => toR[x].high = job[a].high /\ toR[x].epoch = job[a].epoch
          /\ begun.id = job[a].id => /\ begun.high = job[a].high /\ begun.epoch = job[a].epoch
                                     /\ incoming.batch <= job[a].batch
    /\ \A a, b \in Answerer : job[a].pc = "batches" /\ Sends(b, job[a].id) => a = b

\* The receiver has seen nothing of a snapshot whose begin is on the lane.
BeginsNew ==
    \A x \in DOMAIN toR : toR[x].type = "Begin" =>
        begun.id # toR[x].id /\ \A s \in staging : s.id # toR[x].id

\* Snapshot i, up to h and of this epoch, has begun or is about to.
Open(i, h) ==
    /\ i # 0
    /\ \/ begun.id = i /\ begun.epoch = epoch /\ begun.high = h
       \/ \E x \in DOMAIN toR : BeginAt(x, i) /\ toR[x].epoch = epoch /\ toR[x].high = h

\* The rows of an open snapshot are as new as its high-water mark.
OpenFresh ==
    \A i, h \in Nat : Open(i, h) =>
        /\ h <= high
        /\ \A s \in staging : s.id = i => AsNewAs(s.row, h)
        /\ \A x \in DOMAIN toR : BatchAt(x, i) => AsNewAs(toR[x].row, h)

\* The batch of snapshot i that will be staged next.
Expected(i) == IF begun.id = i THEN incoming.batch ELSE 0

\* A row of p is staged, or will be if no batch of snapshot i is lost.
Reaches(i, p) ==
    \/ \E s \in staging : s.id = i /\ s.row[1] = p
    \/ \E x \in DOMAIN toR : BatchAt(x, i) /\ toR[x].batch >= Expected(i) /\ toR[x].row[1] = p
    \/ \E a \in Answerer : Sends(a, i) /\ \E r \in job[a].rows : r[1] = p

\* A batch has been lost: the count stays below the one the end carries.
Broken(i) ==
    /\ \A x \in DOMAIN toR : /\ BatchAt(x, i) => toR[x].batch # Expected(i)
                             /\ EndAt(x, i) => toR[x].batches > Expected(i)
    /\ \A a \in Answerer : Sends(a, i) => job[a].batch > Expected(i)

OpenComplete ==
    \A i, h \in Nat : Open(i, h) => Broken(i) \/ \A p \in Path : Owed(p, h) => Reaches(i, p)

\* A delta of this epoch holds what the journal does.
ExactDelta(f) ==
    /\ f.from + Len(f.paths) - 1 <= high
    /\ \A k \in 1..Len(f.paths) : f.paths[k] = journal[f.from + k - 1]
DeltasExact ==
    \A x \in DOMAIN toR : toR[x].type = "Delta" /\ toR[x].epoch = epoch => ExactDelta(toR[x])

\* What an IndexUpdate brings is marked as reported.
UpdatesReported ==
    /\ \A x \in DOMAIN toR : toR[x].type = "Update" => \A r \in toR[x].rows : r[2] \in reported
    /\ \A rows \in handling : \A r \in rows : r[2] \in reported

\* CursorSound, entry by entry.
CursorCovers ==
    incoming.epoch = epoch =>
        /\ incoming.applied <= high
        /\ \A p \in Path \ ignored : \A k \in 1..incoming.applied : journal[k] = p =>
              \/ mirror[p][1] = epoch /\ mirror[p][2] >= k
              \/ mirror[p] \in reported

Snapshots == LaneOrdered /\ JobsAhead /\ BeginsNew /\ OpenFresh /\ OpenComplete
IInv == Typed /\ JobsCurrent /\ Snapshots /\ DeltasExact /\ UpdatesReported /\ CursorCovers

-----------------------------------------------------------------------------
(* Operators: least and greatest elements, journal pages, new ids. *)

Less == {ss \in Nat \X Nat : ss[1] < ss[2]}

\* The order on the naturals is well founded.
LEMMA LessWellFounded == IsWellFoundedOn(Less, Nat)
<1>1. Less = OpToRel(<, Nat)
    BY Zenon DEF OpToRel, Less
<1> QED
    BY <1>1, NatLessThanWellFounded, Zenon

\* A nonempty set of naturals has a least element.
LEMMA HasLeast ==
    ASSUME NEW T \in SUBSET Nat, T # {}
    PROVE  \E x \in T : \A y \in T : x <= y
<1>1. PICK x \in T : \A y \in T : ~(<<y, x>> \in Less)
    BY LessWellFounded, WFMin
<1>2. \A z, y \in Nat : <<y, z>> \in Less <=> y < z
    BY DEF Less
<1>3. ASSUME NEW y \in T PROVE x <= y
    <2>1. x \in Nat /\ y \in Nat
        OBVIOUS
    <2>2. ~(y < x)
        BY <1>1, <1>2, <2>1
    <2> QED
        BY <2>1, <2>2
<1> QED
    BY <1>3

\* Min is that element.
LEMMA MinFact ==
    ASSUME NEW T \in SUBSET Nat, T # {}
    PROVE  Min(T) \in T /\ \A y \in T : Min(T) <= y
BY HasLeast DEF Min

\* A nonempty bounded set of naturals has its Max as greatest element.
LEMMA MaxFact ==
    ASSUME NEW T \in SUBSET Nat, T # {}, NEW n \in Nat, \A x \in T : x <= n
    PROVE  Max(T) \in T /\ \A y \in T : y <= Max(T)
<1> DEFINE U == {u \in Nat : \E x \in T : u = n - x}
<1>1. U \in SUBSET Nat /\ U # {}
    <2>1. PICK x \in T : TRUE
        OBVIOUS
    <2>2. n - x \in Nat
        BY <2>1
    <2> QED
        BY <2>1, <2>2
<1>2. PICK u \in U : \A y \in U : u <= y
    BY <1>1, HasLeast
<1>3. PICK x \in T : u = n - x
    BY <1>2
<1>4. ASSUME NEW y \in T PROVE x >= y
    <2>1. n - y \in Nat
        OBVIOUS
    <2>2. n - y \in U
        BY <2>1
    <2>3. n - x <= n - y
        BY <1>2, <1>3, <2>2
    <2> QED
        BY <2>3
<1> QED
    BY <1>3, <1>4 DEF Max

\* LatestSeq names p's last entry up to s, and is 0 when there is none.
LEMMA LatestFact ==
    ASSUME journal \in Seq(Path), NEW s \in 0..high, NEW p
    PROVE  /\ LatestSeq(s, p) \in 0..s
           /\ LatestSeq(s, p) > 0 => journal[LatestSeq(s, p)] = p
           /\ \A k \in 1..s : journal[k] = p => k <= LatestSeq(s, p)
<1> DEFINE T == {0} \cup {k \in 1..s : journal[k] = p}
<1>0. high \in Nat
    BY DEF high
<1>1. T \in SUBSET Nat /\ T # {} /\ s \in Nat /\ \A x \in T : x <= s
    BY <1>0
<1>2. Max(T) \in T /\ \A y \in T : y <= Max(T)
    <2> HIDE DEF T
    <2> QED
        BY <1>1, MaxFact
<1>3. LatestSeq(s, p) = Max(T)
    BY DEF LatestSeq
<1> QED
    BY <1>0, <1>2, <1>3

\* A page of the journal lies within it, and its ends are its own.
LEMMA PageFact ==
    ASSUME journal \in Seq(Path), oldest \in Nat \ {0}, NEW e, NEW s \in Nat,
           JournalSince(e, s) # {}
    PROVE  LET page == JournalSince(e, s)
           IN  /\ e = epoch /\ page \subseteq 1..high
               /\ Min(page) \in 1..high /\ Max(page) \in Min(page)..high
<1> DEFINE page == JournalSince(e, s)
           first == Max({s + 1, oldest})
           last == Min({high, first + PageSize - 1})
<1>0. high \in Nat
    BY DEF high
<1>1. first \in {s + 1, oldest}
    <2> DEFINE T == {s + 1, oldest}
    <2>1. T \in SUBSET Nat /\ T # {} /\ s + 1 + oldest \in Nat /\ \A x \in T : x <= s + 1 + oldest
        OBVIOUS
    <2>2. Max(T) \in T
        <3> HIDE DEF T
        <3> QED
            BY <2>1, MaxFact
    <2> QED
        BY <2>2
<1>2. last \in Nat /\ last <= high
    <2> DEFINE T == {high, first + PageSize - 1}
    <2>1. T \in SUBSET Nat /\ T # {} /\ high \in T
        BY <1>0, <1>1, IndexExchangeAssumption
    <2>2. Min(T) \in T /\ Min(T) <= high
        <3> HIDE DEF T
        <3> QED
            BY <2>1, MinFact
    <2>3. last = Min(T)
        OBVIOUS
    <2> HIDE DEF T, first, last
    <2> QED
        BY <2>1, <2>2, <2>3
<1>3. e = epoch /\ page = first..last
    BY DEF JournalSince
<1> HIDE DEF first, last
<1>4. page \in SUBSET Nat /\ page # {} /\ high \in Nat /\ page \subseteq 1..high
    BY <1>0, <1>1, <1>2, <1>3
<1>5. Min(page) \in page /\ \A y \in page : Min(page) <= y
    <2> HIDE DEF page
    <2> QED
        BY <1>4, MinFact
<1>6. Max(page) \in page
    <2>1. \A x \in page : x <= high
        BY <1>4
    <2> HIDE DEF page
    <2> QED
        BY <1>4, <2>1, MaxFact
<1> HIDE DEF page
<1>7. Min(page) \in 1..high /\ Max(page) \in Min(page)..high
    <2>1. Min(page) \in 1..high /\ Max(page) \in 1..high
        BY <1>4, <1>5, <1>6
    <2>2. Min(page) <= Max(page)
        BY <1>5, <1>6
    <2> QED
        BY <1>0, <2>1, <2>2
<1> QED
    BY <1>3, <1>4, <1>7 DEF page

\* A delta brings, for every path it names, the last entry it holds of it.
LEMMA DeltaRowFact ==
    ASSUME NEW m, m.paths \in Seq(Path)
    PROVE  /\ \A r \in DeltaRows(m) : \E i \in 1..Len(m.paths) :
                 /\ r = <<m.paths[i], <<m.epoch, m.from + i - 1>>>>
                 /\ \A k \in 1..Len(m.paths) : m.paths[k] = m.paths[i] => k <= i
           /\ \A k \in 1..Len(m.paths) : \E r \in DeltaRows(m) : r[1] = m.paths[k]
<1> DEFINE idx(p) == {i \in DOMAIN m.paths : m.paths[i] = p}
           V(p) == <<m.epoch, m.from + Max(idx(p)) - 1>>
<1>1. DeltaRows(m) = {<<p, V(p)>> : p \in Range(m.paths)}
    BY DEF DeltaRows
<1>2. DOMAIN m.paths = 1..Len(m.paths) /\ Len(m.paths) \in Nat
    OBVIOUS
<1>3. ASSUME NEW p \in Range(m.paths)
      PROVE  /\ Max(idx(p)) \in 1..Len(m.paths) /\ m.paths[Max(idx(p))] = p
             /\ \A k \in 1..Len(m.paths) : m.paths[k] = p => k <= Max(idx(p))
    <2> DEFINE T == idx(p)
    <2>1. T \in SUBSET Nat /\ T # {} /\ \A x \in T : x <= Len(m.paths)
        BY <1>2 DEF Range
    <2>2. Max(T) \in T /\ \A y \in T : y <= Max(T)
        <3> HIDE DEF T
        <3> QED
            BY <1>2, <2>1, MaxFact
    <2> QED
        BY <1>2, <2>2
<1>4. ASSUME NEW r \in DeltaRows(m)
      PROVE  \E i \in 1..Len(m.paths) :
                 /\ r = <<m.paths[i], <<m.epoch, m.from + i - 1>>>>
                 /\ \A k \in 1..Len(m.paths) : m.paths[k] = m.paths[i] => k <= i
    <2> HIDE DEF V
    <2>1. PICK p \in Range(m.paths) : r = <<p, V(p)>>
        BY <1>1
    <2>2. r = <<p, <<m.epoch, m.from + Max(idx(p)) - 1>>>>
        BY <2>1 DEF V
    <2> QED
        BY <1>3, <2>2, Zenon
<1>5. ASSUME NEW k \in 1..Len(m.paths) PROVE \E r \in DeltaRows(m) : r[1] = m.paths[k]
    <2> HIDE DEF V
    <2>1. m.paths[k] \in Range(m.paths)
        BY <1>2 DEF Range
    <2>2. <<m.paths[k], V(m.paths[k])>> \in DeltaRows(m)
        BY <1>1, <2>1
    <2>3. <<m.paths[k], V(m.paths[k])>>[1] = m.paths[k]
        OBVIOUS
    <2> QED
        BY <2>2, <2>3
<1> QED
    BY <1>4, <1>5

\* The image of a finite set is finite.
LEMMA FiniteImage ==
    ASSUME NEW S, NEW T, IsFiniteSet(S), NEW f, DOMAIN f = S, f \in [S -> T],
           \A t \in T : \E s \in S : f[s] = t
    PROVE  IsFiniteSet(T)
BY FS_Surjection DEF Surjection

\* A frame is of the kind its type names.
LEMMA FrameKinds ==
    ASSUME NEW e, NEW f \in Frames(e)
    PROVE  /\ f.type \in {"Update", "Delta", "Begin", "Batch", "End"}
           /\ f.type = "Update" => f \in UpdateFrames(e)
           /\ f.type = "Delta" => f \in DeltaFrames(e)
           /\ f.type = "Begin" => f \in BeginFrames(e)
           /\ f.type = "Batch" => f \in BatchFrames(e)
           /\ f.type = "End" => f \in EndFrames
BY DEF Frames, UpdateFrames, DeltaFrames, BeginFrames, BatchFrames, EndFrames

\* A job is of the kind its pc names.
LEMMA JobKinds ==
    ASSUME NEW e, NEW j \in Jobs(e)
    PROVE  /\ j.pc \in {"idle", "called", "deltas", "list", "begin", "batches"}
           /\ j.pc \in {"deltas", "list"} => j \in AnswerJobs(e)
           /\ j.pc = "begin" => j \in BeginJobs(e)
           /\ j.pc = "batches" => j \in BatchJobs(e)
           /\ j.pc = "idle" => j = Idle
           /\ j.pc = "called" => j = Called
BY DEF Jobs, AnswerJobs, BeginJobs, BatchJobs, Idle, Called

\* What the frames of the lane are made of.
LEMMA LaneKinds ==
    ASSUME LaneTyped, NEW x \in DOMAIN toR
    PROVE  /\ toR[x] \in Frames(epoch)
           /\ SnapshotFrame(toR[x]) => toR[x].id \in Nat \ {0}
           /\ toR[x].type = "Batch" => toR[x].batch \in Nat
           /\ toR[x].type = "End" => toR[x].batches \in Nat
           /\ toR[x].type = "Begin" => toR[x].epoch \in 0..epoch /\ toR[x].high \in 0..MaxSeq
<1>1. toR[x] \in Frames(epoch)
    BY DEF LaneTyped
<1> QED
    BY <1>1, FrameKinds DEF SnapshotFrame, BeginFrames, BatchFrames, EndFrames

\* What the jobs are made of.
LEMMA JobRows ==
    ASSUME JobsTyped, NEW a \in Answerer
    PROVE  /\ job[a] \in Jobs(epoch)
           /\ job[a].pc = "batches" => job[a].id \in Nat \ {0} /\ job[a].batch \in Nat
           /\ job[a].pc \in {"begin", "batches"} =>
                 job[a].high \in 0..MaxSeq /\ job[a].epoch \in 0..epoch
<1>1. job[a] \in Jobs(epoch)
    BY DEF JobsTyped
<1> QED
    BY <1>1, JobKinds DEF BeginJobs, BatchJobs

\* A set of naturals with finitely many members leaves out one of the first.
LEMMA LeastUnused ==
    ASSUME NEW U, IsFiniteSet(U)
    PROVE  LET i == Min((1..(Cardinality(U) + 1)) \ U)
           IN  i \in Nat \ {0} /\ i \notin U
<1> DEFINE n == Cardinality(U)
           T == (1..(n + 1)) \ U
<1>1. n \in Nat
    BY FS_CardinalityType
<1>2. IsFiniteSet(1..(n + 1)) /\ Cardinality(1..(n + 1)) = n + 1
    BY <1>1, FS_Interval
<1>3. T # {}
    <2>1. SUFFICES ASSUME (1..(n + 1)) \in SUBSET U PROVE FALSE
        OBVIOUS
    <2>2. Cardinality(1..(n + 1)) <= n
        BY <2>1, FS_Subset
    <2> QED
        BY <1>1, <1>2, <2>2
<1>4. T \in SUBSET Nat
    BY <1>1
<1>5. Min(T) \in T
    <2> HIDE DEF T
    <2> QED
        BY <1>3, <1>4, MinFact
<1> QED
    BY <1>1, <1>5

\* The id of a new snapshot is one that nothing holds any more.
LEMMA NewID ==
    ASSUME Typed
    PROVE  newSnapshotID \in Nat \ {0} /\ newSnapshotID \notin UsedIDs
<1> DEFINE A1 == {r.id : r \in staging}
           D2 == {b \in Answerer : job[b].pc = "batches"}
           A2 == {job[a].id : a \in D2}
           D3 == {k \in DOMAIN toR : toR[k].type \in {"Begin", "Batch", "End"}}
           A3 == {toR[i].id : i \in D3}
           D4 == {k \in DOMAIN toS : toS[k].type = "Ack"}
           A4 == {toS[i].id : i \in D4}
<1>1. IsFiniteSet(A1)
    <2>1. IsFiniteSet(staging)
        BY DEF Typed, ReceiverTyped
    <2> DEFINE f == [r \in staging |-> r.id]
    <2>2. DOMAIN f = staging /\ f \in [staging -> A1] /\ \A t \in A1 : \E s \in staging : f[s] = t
        OBVIOUS
    <2> HIDE DEF f, A1
    <2> QED
        BY <2>1, <2>2, FiniteImage
<1>2. IsFiniteSet(A2)
    <2>1. IsFiniteSet(Answerer)
        BY IndexExchangeAssumption, FS_AddElement DEF Answerer
    <2>2. IsFiniteSet(D2)
        BY <2>1, FS_Subset
    <2> DEFINE f == [a \in D2 |-> job[a].id]
    <2>3. DOMAIN f = D2 /\ f \in [D2 -> A2] /\ \A t \in A2 : \E s \in D2 : f[s] = t
        OBVIOUS
    <2> HIDE DEF f, A2, D2
    <2> QED
        BY <2>2, <2>3, FiniteImage
<1>3. IsFiniteSet(A3)
    <2>1. DOMAIN toR = 1..Len(toR) /\ Len(toR) \in Nat
        BY DEF Typed, LaneTyped
    <2>a. IsFiniteSet(1..Len(toR))
        BY <2>1, FS_Interval
    <2>b. D3 \in SUBSET (1..Len(toR))
        BY <2>1
    <2>2. IsFiniteSet(D3)
        BY <2>a, <2>b, FS_Subset
    <2> DEFINE f == [i \in D3 |-> toR[i].id]
    <2>3. DOMAIN f = D3 /\ f \in [D3 -> A3] /\ \A t \in A3 : \E s \in D3 : f[s] = t
        OBVIOUS
    <2> HIDE DEF f, A3, D3
    <2> QED
        BY <2>2, <2>3, FiniteImage
<1>4. IsFiniteSet(A4)
    <2>1. DOMAIN toS = 1..Len(toS) /\ Len(toS) \in Nat
        BY DEF Typed, BackTyped
    <2>a. IsFiniteSet(1..Len(toS))
        BY <2>1, FS_Interval
    <2>b. D4 \in SUBSET (1..Len(toS))
        BY <2>1
    <2>2. IsFiniteSet(D4)
        BY <2>a, <2>b, FS_Subset
    <2> DEFINE f == [i \in D4 |-> toS[i].id]
    <2>3. DOMAIN f = D4 /\ f \in [D4 -> A4] /\ \A t \in A4 : \E s \in D4 : f[s] = t
        OBVIOUS
    <2> HIDE DEF f, A4, D4
    <2> QED
        BY <2>2, <2>3, FiniteImage
<1>5. IsFiniteSet({begun.id, incoming.id, sent.id})
    <2>1. IsFiniteSet({begun.id})
        BY FS_Singleton
    <2>2. IsFiniteSet({begun.id} \cup {incoming.id})
        BY <2>1, FS_AddElement
    <2>3. IsFiniteSet({begun.id} \cup {incoming.id} \cup {sent.id})
        BY <2>2, FS_AddElement
    <2>4. {begun.id} \cup {incoming.id} \cup {sent.id} = {begun.id, incoming.id, sent.id}
        OBVIOUS
    <2> QED
        BY <2>3, <2>4
<1>6. UsedIDs = {begun.id, incoming.id, sent.id} \cup A1 \cup A2 \cup A3 \cup A4
    BY DEF UsedIDs
<1> HIDE DEF A1, A2, A3, A4
<1>7. IsFiniteSet({begun.id, incoming.id, sent.id} \cup A1)
    BY <1>1, <1>5, FS_Union
<1>8. IsFiniteSet({begun.id, incoming.id, sent.id} \cup A1 \cup A2)
    BY <1>2, <1>7, FS_Union
<1>9. IsFiniteSet({begun.id, incoming.id, sent.id} \cup A1 \cup A2 \cup A3)
    BY <1>3, <1>8, FS_Union
<1>10. IsFiniteSet(UsedIDs)
    BY <1>4, <1>6, <1>9, FS_Union
<1> QED
    BY <1>10, LeastUnused DEF newSnapshotID

\* In particular it is on no frame, job or staged row.
LEMMA NewIDUnused ==
    ASSUME Typed
    PROVE  /\ newSnapshotID \in Nat \ {0} /\ begun.id # newSnapshotID
           /\ \A s \in staging : s.id # newSnapshotID
           /\ \A a \in Answerer : ~Sends(a, newSnapshotID)
           /\ \A x \in DOMAIN toR : SnapshotFrame(toR[x]) => toR[x].id # newSnapshotID
<1> DEFINE n == newSnapshotID
<1>1. n \in Nat \ {0} /\ n \notin UsedIDs
    BY NewID
<1> HIDE DEF n
<1>2. /\ begun.id # n /\ \A s \in staging : s.id # n
      /\ \A a \in Answerer : job[a].pc = "batches" => job[a].id # n
      /\ \A x \in DOMAIN toR : toR[x].type \in {"Begin", "Batch", "End"} => toR[x].id # n
    BY <1>1 DEF UsedIDs
<1> QED
    BY <1>1, <1>2 DEF n, Sends, SnapshotFrame

-----------------------------------------------------------------------------
(* The types are kept. *)

LEMMA InitTyped == Init => Typed
<1>0. MaxSeq \in Nat
    BY IndexExchangeAssumption
<1> SUFFICES ASSUME Init PROVE Typed
    OBVIOUS
<1>1. SenderTyped
    BY <1>0 DEF Init, SenderTyped, high, NoCursor, NothingSent, NoRequest
<1>2. JobsTyped
    <2>1. "sync" \in Answerer /\ Idle # Called
        BY DEF Answerer, Idle, Called
    <2> QED
        BY <2>1 DEF Init, JobsTyped, Jobs
<1>3. LaneTyped /\ BackTyped
    BY DEF Init, LaneTyped, BackTyped
<1>4. ReceiverTyped
    BY <1>0, FS_EmptySet DEF Init, ReceiverTyped, NoSnapshot, NoRow
<1> QED
    BY <1>1, <1>2, <1>3, <1>4 DEF Typed

\* One answerer takes up another job.
LEMMA SetJob ==
    ASSUME JobsTyped, NEW a \in Answerer, NEW j \in Jobs(epoch), a = "sync" => j # Called,
           job' = [job EXCEPT ![a] = j], epoch' = epoch
    PROVE  JobsTyped'
BY DEF JobsTyped

\* A frame is written.
LEMMA WriteFrame ==
    ASSUME LaneTyped, NEW f \in Frames(epoch), toR' = Append(toR, f), epoch' = epoch,
           f.type = "Delta" => Len(f.paths) >= 1 /\ f.from + Len(f.paths) - 1 <= MaxSeq
    PROVE  LaneTyped'
<1>1. toR' \in Seq(Frames(epoch))
    BY DEF LaneTyped
<1>2. \A x \in DOMAIN toR' : toR'[x] = f \/ (x \in DOMAIN toR /\ toR'[x] = toR[x])
    BY DEF LaneTyped
<1> QED
    BY <1>1, <1>2 DEF LaneTyped

\* What the lane is after a frame has been read.
LEMMA ReadFacts ==
    ASSUME LaneTyped, toR # <<>>, toR' = Tail(toR)
    PROVE  /\ 1 \in DOMAIN toR /\ Head(toR) = toR[1] /\ Head(toR) \in Frames(epoch)
           /\ toR' \in Seq(Frames(epoch))
           /\ \A x \in DOMAIN toR' : x \in Nat \ {0} /\ x + 1 \in DOMAIN toR /\ toR'[x] = toR[x + 1]
           /\ \A y \in DOMAIN toR : y # 1 => y \in Nat /\ y - 1 \in DOMAIN toR' /\ toR'[y - 1] = toR[y]
BY DEF LaneTyped

\* A frame is read.
LEMMA ReadFrame ==
    ASSUME LaneTyped, toR # <<>>, toR' = Tail(toR), epoch' = epoch
    PROVE  LaneTyped'
BY ReadFacts DEF LaneTyped

\* A message goes back.
LEMMA WriteBack ==
    ASSUME BackTyped, NEW m \in Acks \cup Syncs, toS' \in Latest(toS, m)
    PROVE  BackTyped'
<1> DEFINE S == Acks \cup Syncs
           n == Len(toS)
<1>1. ASSUME NEW i PROVE [toS EXCEPT ![i] = m] \in Seq(S)
    <2>1. n \in Nat /\ toS \in [1..n -> S]
        BY DEF BackTyped
    <2>2. [toS EXCEPT ![i] = m] \in [1..n -> S]
        BY <2>1
    <2> HIDE DEF n, S
    <2> QED
        BY <2>1, <2>2, SeqDef
<1>2. Append(toS, m) \in Seq(Acks \cup Syncs)
    BY DEF BackTyped
<1> QED
    BY <1>1, <1>2 DEF BackTyped, Latest

\* A decision is an answer's first job.
LEMMA DecidedTyped ==
    ASSUME SenderTyped, NEW r, r.applied \in Nat
    PROVE  Decided(r) \in Jobs(epoch) /\ Decided(r) # Called /\ Decided(r).pc \in {"deltas", "list"}
<1>1. high \in 0..MaxSeq /\ epoch \in 0..epoch
    BY DEF SenderTyped, high
<1>2. Decided(r) \in AnswerJobs(epoch)
    BY <1>1 DEF Decided, AnswerJobs
<1>3. Decided(r).pc \in {"deltas", "list"}
    BY DEF Decided
<1> QED
    BY <1>2, <1>3 DEF Jobs, Called

\* The sets of values grow with the epoch.
LEMMA TypesGrow ==
    ASSUME NEW e \in Nat
    PROVE  /\ RowSet(e) \subseteq RowSet(e + 1) /\ Frames(e) \subseteq Frames(e + 1)
           /\ 0..e \subseteq 0..(e + 1)
<1>1. 0..e \subseteq 0..(e + 1)
    OBVIOUS
<1>2. RowSet(e) \subseteq RowSet(e + 1)
    BY <1>1 DEF RowSet
<1>3. /\ UpdateFrames(e) \subseteq UpdateFrames(e + 1) /\ DeltaFrames(e) \subseteq DeltaFrames(e + 1)
      /\ BeginFrames(e) \subseteq BeginFrames(e + 1) /\ BatchFrames(e) \subseteq BatchFrames(e + 1)
    BY <1>1, <1>2 DEF UpdateFrames, DeltaFrames, BeginFrames, BatchFrames
<1>4. Frames(e) \subseteq Frames(e + 1)
    BY <1>3 DEF Frames
<1> QED
    BY <1>1, <1>2, <1>4

\* What changes the sender's index keeps the types.
LEMMA ChangesTyped ==
    ASSUME Typed
    PROVE  /\ \A a \in Pusher, p \in Path : Change(a, p) => Typed'
           /\ \A p \in Path : PassChange(p) => Typed'
           /\ \A p \in Path : Ignore(p) => Typed'
           /\ \A k \in 1..(MaxSeq + 1) : PruneJournal(k) => Typed'
           /\ sendIndexUpdate => Typed'
<1>0. MaxSeq \in Nat /\ high \in Nat /\ epoch \in Nat \ {0} /\ high <= MaxSeq
    BY IndexExchangeAssumption DEF Typed, SenderTyped, high
<1>1. ASSUME NEW a \in Pusher, NEW p \in Path, Change(a, p) PROVE Typed'
    <2>1. epoch' = epoch /\ job' = [job EXCEPT ![a] = Called] /\ journal' = Append(journal, p)
        BY <1>1 DEF Change
    <2>2. JobsTyped'
        <3>1. a \in Answerer /\ a # "sync" /\ Called \in Jobs(epoch)
            BY IndexExchangeAssumption DEF Answerer, Jobs
        <3> QED
            BY <2>1, <3>1, SetJob DEF Typed
    <2>3. SenderTyped'
        BY <1>0, <1>1, <2>1 DEF Change, Typed, SenderTyped, high
    <2>4. LaneTyped' /\ ReceiverTyped' /\ BackTyped'
        BY <1>1, <2>1 DEF Change, Typed, LaneTyped, ReceiverTyped, BackTyped, receiverVars
    <2> QED
        BY <2>2, <2>3, <2>4 DEF Typed
<1>2. ASSUME NEW p \in Path, PassChange(p) PROVE Typed'
    <2>1. /\ epoch' = epoch /\ journal' = Append(journal, p)
          /\ updates' = updates \cup {<<p, <<epoch, high + 1>>>>} /\ epoch + high <= MaxSeq
        BY <1>2 DEF PassChange
    <2>2. <<p, <<epoch, high + 1>>>> \in RowSet(epoch)
        BY <1>0, <2>1 DEF RowSet
    <2>a. updates' \subseteq RowSet(epoch')
        BY <2>1, <2>2 DEF Typed, SenderTyped
    <2>b. journal' \in Seq(Path) /\ high' = high + 1
        BY <2>1 DEF Typed, SenderTyped, high
    <2>3. SenderTyped'
        BY <1>0, <1>2, <2>1, <2>a, <2>b DEF PassChange, Typed, SenderTyped
    <2>4. LaneTyped' /\ ReceiverTyped' /\ BackTyped' /\ JobsTyped'
        BY <1>2, <2>1 DEF PassChange, Typed, LaneTyped, ReceiverTyped, BackTyped, JobsTyped,
           receiverVars
    <2> QED
        BY <2>3, <2>4 DEF Typed
<1>3. ASSUME NEW p \in Path, Ignore(p) PROVE Typed'
    BY <1>3 DEF Ignore, Typed, SenderTyped, LaneTyped, ReceiverTyped, BackTyped, JobsTyped,
       receiverVars, high
<1>4. ASSUME NEW k \in 1..(MaxSeq + 1), PruneJournal(k) PROVE Typed'
    <2>1. oldest' = k /\ k \in 1..(high + 1) /\ journal' = journal
        BY <1>0, <1>4 DEF PruneJournal, Typed, SenderTyped
    <2> QED
        BY <1>4, <2>1 DEF PruneJournal, Typed, SenderTyped, LaneTyped, ReceiverTyped, BackTyped,
           JobsTyped, receiverVars, high
<1>5. ASSUME sendIndexUpdate PROVE Typed'
    <2> DEFINE f == [type |-> "Update", rows |-> {r \in updates : r[1] \notin ignored}]
    <2>1. f \in Frames(epoch) /\ f.type = "Update"
        BY DEF Typed, SenderTyped, Frames, UpdateFrames
    <2>2. toR' = Append(toR, f) /\ epoch' = epoch /\ updates' = {}
        BY <1>5 DEF sendIndexUpdate, Write
    <2>3. LaneTyped'
        <3> HIDE DEF f
        <3> QED
            BY <2>1, <2>2, WriteFrame DEF Typed
    <2> QED
        BY <1>5, <2>2, <2>3 DEF sendIndexUpdate, Typed, SenderTyped, ReceiverTyped, BackTyped,
           JobsTyped, receiverVars, high
<1> QED
    BY <1>1, <1>2, <1>3, <1>4, <1>5

\* A new epoch keeps the types.
LEMMA ForgetTyped ==
    ASSUME Typed, NEW a \in Pusher, ForgetSubscription(a)
    PROVE  Typed'
<1>0. MaxSeq \in Nat /\ epoch \in Nat \ {0} /\ epoch' = epoch + 1
    BY IndexExchangeAssumption DEF Typed, SenderTyped, ForgetSubscription
<1>1. /\ RowSet(epoch) \subseteq RowSet(epoch') /\ Frames(epoch) \subseteq Frames(epoch')
      /\ 0..epoch \subseteq 0..epoch'
    BY <1>0, TypesGrow
<1>2. SenderTyped'
    BY <1>0, <1>1 DEF ForgetSubscription, Typed, SenderTyped, NoCursor, high
<1>3. JobsTyped'
    <2>1. job \in [Answerer -> {Idle}] /\ job' = [job EXCEPT ![a] = Called]
        BY DEF ForgetSubscription, Typed, JobsTyped
    <2>2. a \in Answerer /\ a # "sync" /\ "sync" \in Answerer /\ Idle # Called
        BY IndexExchangeAssumption DEF Answerer, Idle, Called
    <2>3. job' \in [Answerer -> {Idle, Called}] /\ job'["sync"] = Idle
        BY <2>1, <2>2
    <2> QED
        BY <2>2, <2>3 DEF JobsTyped, Jobs
<1>4. LaneTyped'
    <2>1. toR' = toR
        BY DEF ForgetSubscription
    <2>2. toR \in Seq(Frames(epoch'))
        BY <1>1, SeqMonotonic DEF Typed, LaneTyped
    <2> QED
        BY <2>1, <2>2 DEF Typed, LaneTyped
<1>5. ReceiverTyped' /\ BackTyped'
    BY <1>1 DEF ForgetSubscription, Typed, ReceiverTyped, BackTyped, receiverVars
<1> QED
    BY <1>2, <1>3, <1>4, <1>5 DEF Typed

\* A new session keeps the types.
LEMMA DropTyped ==
    ASSUME Typed, NEW a \in Pusher, Drop(a)
    PROVE  Typed'
<1>1. SenderTyped'
    BY DEF Drop, Typed, SenderTyped, NothingSent, NoRequest, high
<1>2. JobsTyped'
    <2>1. a # "sync" /\ "sync" \in Answerer /\ Idle # Called
        BY IndexExchangeAssumption DEF Answerer, Idle, Called
    <2>2. job' = [b \in Answerer |-> IF b = a THEN Called ELSE Idle]
        BY DEF Drop
    <2>3. \A e : Idle \in Jobs(e) /\ Called \in Jobs(e)
        BY DEF Jobs
    <2> QED
        BY <2>1, <2>2, <2>3 DEF JobsTyped
<1>3. LaneTyped'
    BY DEF Drop, LaneTyped
<1>4. ReceiverTyped'
    BY IndexExchangeAssumption DEF Drop, Typed, ReceiverTyped, SenderTyped, NoSnapshot
<1>5. BackTyped'
    <2>1. AskAgain(incoming) \in Syncs
        BY IndexExchangeAssumption DEF AskAgain, Syncs, Typed, ReceiverTyped, SenderTyped
    <2>2. toS' = <<AskAgain(incoming)>> \/ toS' = <<>>
        BY DEF Drop
    <2> DEFINE S == Acks \cup Syncs
               m == AskAgain(incoming)
    <2>3. m \in S
        BY <2>1
    <2> HIDE DEF S, m
    <2>4. <<m>> \in Seq(S) /\ <<>> \in Seq(S)
        BY <2>3
    <2> QED
        BY <2>2, <2>4 DEF BackTyped, S, m
<1> QED
    BY <1>1, <1>2, <1>3, <1>4, <1>5 DEF Typed

\* The sender's answers keep the types.
LEMMA AnswerTyped ==
    ASSUME Typed, NEW a \in Answerer, Answer(a)
    PROVE  Typed'
<1>0. /\ MaxSeq \in Nat /\ high \in Nat /\ epoch \in Nat \ {0} /\ high <= MaxSeq
      /\ JobsTyped /\ job[a] \in Jobs(epoch) /\ journal \in Seq(Path) /\ oldest \in Nat \ {0}
    BY IndexExchangeAssumption, JobRows DEF Typed, SenderTyped, high
<1>1. CASE a # "sync" /\ SyncShare(a)
    <2> DEFINE j == Decided(Request(outgoing.epoch, outgoing.applied))
    <2>1. j \in Jobs(epoch) /\ j # Called
        BY DecidedTyped DEF Typed, SenderTyped, Request
    <2>2. job' = [job EXCEPT ![a] = j] /\ epoch' = epoch
        BY <1>1 DEF SyncShare
    <2>3. JobsTyped'
        <3> HIDE DEF j
        <3> QED
            BY <1>0, <2>1, <2>2, SetJob
    <2> QED
        BY <1>1, <2>3 DEF SyncShare, Typed, SenderTyped, LaneTyped, ReceiverTyped, BackTyped,
           receiverVars, high
<1>2. CASE a = "sync" /\ answerSyncRequest
    <2> DEFINE j == Decided(asked)
    <2>1. j \in Jobs(epoch) /\ j # Called
        BY DecidedTyped DEF Typed, SenderTyped
    <2>2. job' = [job EXCEPT ![a] = j] /\ epoch' = epoch
        BY <1>2 DEF answerSyncRequest
    <2>3. JobsTyped'
        <3> HIDE DEF j
        <3> QED
            BY <1>0, <2>1, <2>2, SetJob
    <2> QED
        BY <1>2, <2>3 DEF answerSyncRequest, Typed, SenderTyped, LaneTyped, ReceiverTyped, BackTyped,
           receiverVars, high, NoRequest
<1>3. CASE sendJournalDeltas(a)
    <2> DEFINE j == job[a]
               page == JournalSince(j.epoch, j.applied)
               f == [type |-> "Delta", epoch |-> j.epoch, from |-> Min(page),
                     paths |-> SubSeq(journal, Min(page), Max(page))]
    <2>1. j \in AnswerJobs(epoch) /\ j.pc = "deltas" /\ epoch' = epoch /\ j.applied \in Nat
        BY <1>0, <1>3, JobKinds DEF sendJournalDeltas, AnswerJobs
    <2>2. Idle \in Jobs(epoch) /\ Idle # Called
        BY DEF Jobs, Idle, Called
    <2>3. CASE page = {} /\ job' = [job EXCEPT ![a] = Idle] /\ UNCHANGED <<toR, sent>>
        <3>1. JobsTyped'
            BY <1>0, <2>1, <2>2, <2>3, SetJob
        <3> QED
            BY <1>3, <2>3, <3>1 DEF sendJournalDeltas, Typed, SenderTyped, LaneTyped, ReceiverTyped,
               BackTyped, receiverVars, high
    <2>4. CASE job' = [job EXCEPT ![a].pc = "list"] /\ UNCHANGED <<toR, sent>>
        <3> DEFINE l == [j EXCEPT !.pc = "list"]
        <3>1. l \in AnswerJobs(epoch) /\ l.pc = "list"
            BY <2>1 DEF AnswerJobs
        <3>2. l \in Jobs(epoch) /\ l # Called
            BY <3>1 DEF Jobs, Called
        <3>3. job' = [job EXCEPT ![a] = l]
            BY <2>4
        <3>4. JobsTyped'
            <4> HIDE DEF l
            <4> QED
                BY <1>0, <2>1, <3>2, <3>3, SetJob
        <3> QED
            BY <1>3, <2>4, <3>4 DEF sendJournalDeltas, Typed, SenderTyped, LaneTyped, ReceiverTyped,
               BackTyped, receiverVars, high
    <2>5. CASE /\ page # {} /\ Write(f) /\ sent' = NoteWritten(j.epoch, Max(page), 0)
               /\ job' = [job EXCEPT ![a] = IF Cardinality(page) < PageSize THEN Idle
                                            ELSE [j EXCEPT !.applied = Max(page)]]
        <3>1. j.epoch = epoch /\ Min(page) \in 1..high /\ Max(page) \in Min(page)..high
            BY <1>0, <2>1, <2>5, PageFact
        <3>2. f.paths \in Seq(Path) /\ Len(f.paths) = Max(page) - Min(page) + 1
            <4>1. Min(page) \in Int /\ Max(page) \in Int /\ Min(page) <= Max(page) + 1
                BY <1>0, <3>1
            <4>2. \A k \in Min(page)..Max(page) : journal[k] \in Path
                BY <1>0, <3>1 DEF high
            <4> HIDE DEF page
            <4> QED
                BY <4>1, <4>2, SubSeqProperties
        <3>3. f \in DeltaFrames(epoch)
            BY <1>0, <3>1, <3>2 DEF DeltaFrames
        <3>4. Len(f.paths) >= 1 /\ f.from + Len(f.paths) - 1 <= MaxSeq
            BY <1>0, <3>1, <3>2
        <3>5. LaneTyped'
            <4>1. toR' = Append(toR, f) /\ f \in Frames(epoch)
                BY <2>5, <3>3 DEF Write, Frames
            <4> HIDE DEF f
            <4> QED
                BY <2>1, <3>4, <4>1, WriteFrame DEF Typed
        <3>6. JobsTyped'
            <4> DEFINE l == [j EXCEPT !.applied = Max(page)]
            <4>1. l \in AnswerJobs(epoch) /\ l.pc = "deltas"
                BY <1>0, <2>1, <3>1 DEF AnswerJobs
            <4>2. l \in Jobs(epoch) /\ l # Called
                BY <4>1 DEF Jobs, Called
            <4> DEFINE n == IF Cardinality(page) < PageSize THEN Idle ELSE l
            <4>3. n \in Jobs(epoch) /\ n # Called /\ job' = [job EXCEPT ![a] = n]
                BY <2>2, <2>5, <4>2
            <4> HIDE DEF n
            <4> QED
                BY <1>0, <2>1, <4>3, SetJob
        <3>7. sent' \in [epoch : Nat, high : Nat, id : Nat]
            BY <1>0, <2>5, <3>1 DEF Typed, SenderTyped, NoteWritten
        <3> QED
            BY <1>3, <3>5, <3>6, <3>7 DEF sendJournalDeltas, Typed, SenderTyped, ReceiverTyped,
               BackTyped, receiverVars, high
    <2> QED
        BY <1>3, <2>3, <2>4, <2>5 DEF sendJournalDeltas
<1>4. CASE listRows(a)
    <2> DEFINE l == [pc |-> "begin", epoch |-> job[a].epoch, high |-> job[a].high, rows |-> ListShare]
    <2>1. job[a] \in AnswerJobs(epoch)
        BY <1>0, <1>4, JobKinds DEF listRows
    <2>2. ListShare \subseteq RowSet(epoch)
        <3>1. \A p \in Path : LatestSeq(high, p) \in 0..MaxSeq
            BY <1>0, LatestFact
        <3> QED
            BY <1>0, <3>1 DEF ListShare, RowSet
    <2>3. l \in BeginJobs(epoch) /\ l.pc = "begin"
        BY <2>1, <2>2 DEF BeginJobs, AnswerJobs
    <2>4. l \in Jobs(epoch) /\ l # Called
        BY <2>3 DEF Jobs, Called
    <2>5. job' = [job EXCEPT ![a] = l] /\ epoch' = epoch
        BY <1>0, <1>4 DEF listRows, JobsTyped
    <2>6. JobsTyped'
        <3> HIDE DEF l
        <3> QED
            BY <1>0, <2>4, <2>5, SetJob
    <2> QED
        BY <1>4, <2>6 DEF listRows, Typed, SenderTyped, LaneTyped, ReceiverTyped, BackTyped,
           receiverVars, high
<1>5. CASE SnapshotBegin(a)
    <2> DEFINE i == newSnapshotID
               f == [type |-> "Begin", id |-> i, epoch |-> job[a].epoch, high |-> job[a].high]
               l == [pc |-> "batches", epoch |-> job[a].epoch, high |-> job[a].high,
                     rows |-> job[a].rows, id |-> i, batch |-> 0]
    <2>1. job[a] \in BeginJobs(epoch)
        BY <1>0, <1>5, JobKinds DEF SnapshotBegin
    <2>2. i \in Nat \ {0}
        BY NewID
    <2> HIDE DEF i
    <2>3. f \in BeginFrames(epoch) /\ l \in BatchJobs(epoch) /\ f.type = "Begin" /\ l.pc = "batches"
        BY <2>1, <2>2 DEF BeginFrames, BatchJobs, BeginJobs
    <2>4. f \in Frames(epoch) /\ l \in Jobs(epoch) /\ l # Called
        BY <2>3 DEF Frames, Jobs, Called
    <2>5. toR' = Append(toR, f) /\ job' = [job EXCEPT ![a] = l] /\ epoch' = epoch
        BY <1>5 DEF SnapshotBegin, Write, i
    <2>6. LaneTyped' /\ JobsTyped'
        <3> HIDE DEF f, l
        <3> QED
            BY <1>0, <2>3, <2>4, <2>5, SetJob, WriteFrame DEF Typed
    <2> QED
        BY <1>5, <2>6 DEF SnapshotBegin, Typed, SenderTyped, ReceiverTyped, BackTyped,
           receiverVars, high
<1>6. CASE SnapshotBatch(a)
    <2> DEFINE j == job[a]
               r == CHOOSE x \in j.rows : TRUE
               f == [type |-> "Batch", id |-> j.id, batch |-> j.batch, row |-> r]
               l == [j EXCEPT !.rows = @ \ {r}, !.batch = @ + 1]
    <2>1. j \in BatchJobs(epoch) /\ j.rows # {} /\ r \in j.rows
        BY <1>0, <1>6, JobKinds DEF SnapshotBatch
    <2> HIDE DEF r
    <2>2. r \in RowSet(epoch)
        BY <2>1 DEF BatchJobs
    <2>3. f \in BatchFrames(epoch) /\ f.type = "Batch"
        BY <2>1, <2>2 DEF BatchFrames, BatchJobs
    <2>4. l \in BatchJobs(epoch) /\ l.pc = "batches"
        <3>1. /\ j.rows \ {r} \in SUBSET RowSet(epoch) /\ j.batch + 1 \in Nat
            BY <2>1 DEF BatchJobs
        <3>2. l = [j EXCEPT !.rows = j.rows \ {r}, !.batch = j.batch + 1]
            OBVIOUS
        <3> QED
            BY <2>1, <3>1, <3>2 DEF BatchJobs
    <2>5. f \in Frames(epoch) /\ l \in Jobs(epoch) /\ l # Called
        BY <2>3, <2>4 DEF Frames, Jobs, Called
    <2>6. toR' = Append(toR, f) /\ job' = [job EXCEPT ![a] = l] /\ epoch' = epoch
        BY <1>0, <1>6 DEF SnapshotBatch, Write, r, JobsTyped
    <2>7. LaneTyped' /\ JobsTyped'
        <3> HIDE DEF f, l
        <3> QED
            BY <1>0, <2>3, <2>5, <2>6, SetJob, WriteFrame DEF Typed
    <2> QED
        BY <1>6, <2>7 DEF SnapshotBatch, Typed, SenderTyped, ReceiverTyped, BackTyped,
           receiverVars, high
<1>7. CASE SnapshotEnd(a)
    <2> DEFINE j == job[a]
               f == [type |-> "End", id |-> j.id, batches |-> j.batch]
    <2>1. j \in BatchJobs(epoch)
        BY <1>0, <1>7, JobKinds DEF SnapshotEnd
    <2>2. f \in EndFrames /\ f.type = "End"
        BY <2>1 DEF EndFrames, BatchJobs
    <2>3. f \in Frames(epoch) /\ Idle \in Jobs(epoch) /\ Idle # Called
        BY <2>2 DEF Frames, Jobs, Called, Idle
    <2>4. toR' = Append(toR, f) /\ job' = [job EXCEPT ![a] = Idle] /\ epoch' = epoch
        BY <1>7 DEF SnapshotEnd, Write
    <2>5. LaneTyped' /\ JobsTyped'
        <3> HIDE DEF f
        <3> QED
            BY <1>0, <2>2, <2>3, <2>4, SetJob, WriteFrame DEF Typed
    <2>6. sent' \in [epoch : Nat, high : Nat, id : Nat]
        BY <1>0, <1>7, <2>1 DEF SnapshotEnd, Typed, SenderTyped, NoteWritten, BatchJobs
    <2> QED
        BY <1>7, <2>5, <2>6 DEF SnapshotEnd, Typed, SenderTyped, ReceiverTyped, BackTyped,
           receiverVars, high
<1> QED
    BY <1>1, <1>2, <1>3, <1>4, <1>5, <1>6, <1>7 DEF Answer

\* The receiver's steps keep the types.
LEMMA ReadTyped ==
    ASSUME Typed, Read
    PROVE  Typed'
<1>0. /\ MaxSeq \in Nat /\ epoch \in Nat \ {0} /\ LaneTyped /\ BackTyped /\ ReceiverTyped
      /\ SenderTyped /\ JobsTyped
    BY IndexExchangeAssumption DEF Typed, SenderTyped
<1>1. \A t : Receive(t) => toR # <<>> /\ toR' = Tail(toR) /\ Head(toR).type = t
    BY DEF Receive
<1>2. PICK t : Receive(t)
    BY DEF Read, ReceiveBatch, ReceiveUpdate, ReceiveBegin, ReceiveEnd, ReceiveDelta
<1>3. UNCHANGED senderVars
    BY DEF Read, ReceiveBatch, ReceiveUpdate, ReceiveBegin, ReceiveEnd, ReceiveDelta
<1>4. LaneTyped'
    BY <1>0, <1>1, <1>2, <1>3, ReadFrame DEF senderVars
<1>5. SenderTyped' /\ JobsTyped' /\ epoch' = epoch
    BY <1>0, <1>3 DEF senderVars, SenderTyped, JobsTyped, high
<1> DEFINE m == Head(toR)
<1>6. m \in Frames(epoch) /\ m = toR[1] /\ 1 \in DOMAIN toR
    BY <1>0, <1>1, <1>2, ReadFacts
<1>7. SUFFICES ReceiverTyped' /\ BackTyped'
    BY <1>4, <1>5 DEF Typed
<1>8. AskAgain(incoming) \in Syncs
    BY <1>0 DEF AskAgain, Syncs, ReceiverTyped
<1>9. CASE ReceiveBatch
    <2>1. m \in BatchFrames(epoch)
        BY <1>1, <1>6, <1>9, FrameKinds DEF ReceiveBatch
    <2>2. StageBatch(m) \subseteq [id : Nat, row : RowSet(epoch)] /\ IsFiniteSet(StageBatch(m))
        <3>1. [id |-> m.id, row |-> m.row] \in [id : Nat, row : RowSet(epoch)]
            BY <2>1 DEF BatchFrames
        <3> DEFINE K == {r \in staging : (m.batch = 0 => r.id = m.id)
                                         /\ ~(r.id = m.id /\ r.row[1] = m.row[1])}
        <3>2. K \in SUBSET staging /\ IsFiniteSet(staging)
            BY <1>0 DEF ReceiverTyped
        <3>3. StageBatch(m) = K \cup {[id |-> m.id, row |-> m.row]}
            BY DEF StageBatch
        <3> HIDE DEF K
        <3>4. IsFiniteSet(K)
            BY <3>2, FS_Subset
        <3>5. IsFiniteSet(K \cup {[id |-> m.id, row |-> m.row]})
            BY <3>4, FS_AddElement
        <3>6. K \subseteq [id : Nat, row : RowSet(epoch)]
            BY <1>0, <3>2 DEF ReceiverTyped
        <3> QED
            BY <3>1, <3>3, <3>5, <3>6
    <2> HIDE DEF m
    <2>3. staging' \in {staging, StageBatch(m)}
        BY <1>9 DEF ReceiveBatch, StageAndCount, m
    <2>4. incoming' \in {incoming, [incoming EXCEPT !.batch = @ + 1]}
        BY <1>9 DEF ReceiveBatch, StageAndCount
    <2>5. incoming' \in [epoch : 0..epoch, applied : 0..MaxSeq, id : Nat, batch : Nat]
        BY <1>0, <2>4 DEF ReceiverTyped
    <2>6. BackTyped'
        <3>1. toS' = toS \/ toS' \in Latest(toS, AskAgain(incoming))
            BY <1>9 DEF ReceiveBatch
        <3> QED
            BY <1>0, <1>8, <3>1, WriteBack DEF BackTyped
    <2> QED
        BY <1>0, <1>5, <1>9, <2>2, <2>3, <2>5, <2>6 DEF ReceiveBatch, ReceiverTyped
<1>10. CASE ReceiveUpdate
    <2>1. m \in UpdateFrames(epoch)
        BY <1>1, <1>6, <1>10, FrameKinds DEF ReceiveUpdate
    <2>2. handling' = handling \cup {m.rows}
        BY <1>10 DEF ReceiveUpdate
    <2> QED
        BY <1>0, <1>5, <1>10, <2>1, <2>2 DEF ReceiveUpdate, ReceiverTyped, BackTyped, UpdateFrames
<1>11. ASSUME NEW ok \in BOOLEAN, ReceiveBegin(ok) PROVE ReceiverTyped' /\ BackTyped'
    <2>1. m \in BeginFrames(epoch)
        BY <1>1, <1>6, <1>11, FrameKinds DEF ReceiveBegin
    <2>2. begun' = [id |-> m.id, epoch |-> m.epoch, high |-> m.high]
        BY <1>11 DEF ReceiveBegin
    <2>3. incoming' \in {incoming, CursorAtBegin(m)}
        BY <1>11 DEF ReceiveBegin
    <2> HIDE DEF m
    <2>4. incoming' \in [epoch : 0..epoch, applied : 0..MaxSeq, id : Nat, batch : Nat]
        BY <1>0, <2>1, <2>3 DEF ReceiverTyped, CursorAtBegin, BeginFrames
    <2>5. begun' \in [id : Nat, epoch : 0..epoch, high : 0..MaxSeq]
        BY <2>1, <2>2 DEF BeginFrames
    <2> QED
        BY <1>0, <1>5, <1>11, <2>4, <2>5 DEF ReceiveBegin, ReceiverTyped, BackTyped
<1>12. ASSUME NEW ok \in BOOLEAN, ReceiveEnd(ok) PROVE ReceiverTyped' /\ BackTyped'
    <2>1. m \in EndFrames
        BY <1>1, <1>6, <1>12, FrameKinds DEF ReceiveEnd
    <2>2. begun' \in {begun, NoSnapshot}
        BY <1>12 DEF ReceiveEnd
    <2>3. begun' \in [id : Nat, epoch : 0..epoch, high : 0..MaxSeq]
        BY <1>0, <2>2 DEF ReceiverTyped, NoSnapshot
    <2>4. CASE UNCHANGED <<mirror, staging, incoming, toS>>
        BY <1>0, <1>5, <1>12, <2>3, <2>4 DEF ReceiveEnd, ReceiverTyped, BackTyped
    <2>5. CASE /\ mirror' = CommitSnapshot(m.id) /\ staging' = {}
               /\ incoming' = [epoch |-> begun.epoch, applied |-> begun.high, id |-> 0, batch |-> 0]
               /\ toS' \in Latest(toS, Ack(begun.epoch, begun.high, m.id))
        <3>1. Ack(begun.epoch, begun.high, m.id) \in Acks
            BY <1>0, <2>1 DEF Ack, Acks, ReceiverTyped, EndFrames
        <3>2. BackTyped'
            BY <1>0, <2>5, <3>1, WriteBack
        <3>3. CommitSnapshot(m.id) \in [Path -> (0..epoch) \X (0..MaxSeq)]
            <4> SUFFICES ASSUME NEW p \in Path
                         PROVE  CommitSnapshot(m.id)[p] \in (0..epoch) \X (0..MaxSeq)
                BY DEF CommitSnapshot
            <4> DEFINE mine == {r.row[2] : r \in {x \in staging : x.id = m.id /\ x.row[1] = p}}
            <4>1. mine \subseteq (0..epoch) \X (0..MaxSeq)
                BY <1>0 DEF ReceiverTyped, RowSet
            <4>2. CommitSnapshot(m.id)[p] = IF mine = {} THEN NoRow ELSE CHOOSE r \in mine : TRUE
                BY DEF CommitSnapshot
            <4>3. NoRow \in (0..epoch) \X (0..MaxSeq)
                BY <1>0 DEF NoRow
            <4> HIDE DEF mine
            <4> QED
                BY <4>1, <4>2, <4>3
        <3>4. incoming' \in [epoch : 0..epoch, applied : 0..MaxSeq, id : Nat, batch : Nat]
            BY <1>0, <2>5 DEF ReceiverTyped
        <3> HIDE DEF m
        <3> QED
            BY <1>0, <1>5, <1>12, <2>3, <2>5, <3>2, <3>3, <3>4, FS_EmptySet DEF ReceiveEnd, ReceiverTyped
    <2> QED
        BY <1>12, <2>4, <2>5 DEF ReceiveEnd
<1>13. ASSUME NEW ok \in BOOLEAN, ReceiveDelta(ok) PROVE ReceiverTyped' /\ BackTyped'
    <2> DEFINE to == m.from + Len(m.paths) - 1
    <2>1. m \in DeltaFrames(epoch) /\ m.type = "Delta"
        BY <1>1, <1>6, <1>13, FrameKinds DEF ReceiveDelta
    <2>2. Len(m.paths) >= 1 /\ to <= MaxSeq /\ Len(m.paths) \in Nat /\ m.from \in Nat \ {0}
        BY <1>0, <1>6, <2>1 DEF LaneTyped, DeltaFrames
    <2>3. CASE /\ mirror' = Upsert(DeltaRows(m)) /\ incoming' = [incoming EXCEPT !.applied = to]
               /\ toS' \in Latest(toS, Ack(m.epoch, to, 0))
        <3>0. to \in 0..MaxSeq
            BY <1>0, <2>2
        <3>1. Ack(m.epoch, to, 0) \in Acks
            BY <1>0, <2>1, <3>0 DEF Ack, Acks, DeltaFrames
        <3>2. BackTyped'
            <4> HIDE DEF to
            <4> QED
                BY <1>0, <2>3, <3>1, WriteBack
        <3>3. \A r \in DeltaRows(m) : r[2] \in (0..epoch) \X (0..MaxSeq)
            <4> TAKE r \in DeltaRows(m)
            <4>0. m.paths \in Seq(Path)
                BY <2>1 DEF DeltaFrames
            <4>1. PICK i \in 1..Len(m.paths) : r = <<m.paths[i], <<m.epoch, m.from + i - 1>>>>
                <5> HIDE DEF m
                <5> QED
                    BY <4>0, DeltaRowFact
            <4>2. m.epoch \in 0..epoch /\ m.from + i - 1 \in 0..MaxSeq
                BY <1>0, <2>1, <2>2, <4>1 DEF DeltaFrames
            <4> QED
                BY <4>1, <4>2
        <3>4. mirror' \in [Path -> (0..epoch) \X (0..MaxSeq)]
            <4> DEFINE R == DeltaRows(m)
            <4>1. \A r \in R : r[2] \in (0..epoch) \X (0..MaxSeq)
                BY <3>3
            <4>2. mirror' = Upsert(R)
                BY <2>3
            <4> HIDE DEF R
            <4> QED
                BY <1>0, <4>1, <4>2 DEF Upsert, ReceiverTyped
        <3>5. incoming' \in [epoch : 0..epoch, applied : 0..MaxSeq, id : Nat, batch : Nat]
            <4> HIDE DEF to
            <4> QED
                BY <1>0, <2>3, <3>0 DEF ReceiverTyped
        <3> QED
            BY <1>0, <1>5, <1>13, <3>2, <3>4, <3>5 DEF ReceiveDelta, ReceiverTyped
    <2>4. CASE toS' \in Latest(toS, AskAgain(incoming)) /\ UNCHANGED <<mirror, incoming>>
        <3>1. BackTyped'
            BY <1>0, <1>8, <2>4, WriteBack
        <3> QED
            BY <1>0, <1>5, <1>13, <2>4, <3>1 DEF ReceiveDelta, ReceiverTyped
    <2> QED
        BY <1>13, <2>3, <2>4 DEF ReceiveDelta
<1> QED
    BY <1>9, <1>10, <1>11, <1>12, <1>13 DEF Read

\* Applying a report, and what comes back, keep the types.
LEMMA ReturnTyped ==
    ASSUME Typed
    PROVE  /\ \A rows \in handling : handleIndexUpdate(rows) => Typed'
           /\ Return => Typed'
           /\ UNCHANGED vars => Typed'
<1>1. ASSUME NEW rows \in handling, handleIndexUpdate(rows) PROVE Typed'
    <2>1. \A r \in rows : r[2] \in (0..epoch) \X (0..MaxSeq)
        BY DEF Typed, ReceiverTyped, RowSet
    <2>2. mirror' = Upsert(rows) /\ handling' \subseteq handling
        BY <1>1 DEF handleIndexUpdate
    <2>3. mirror' \in [Path -> (0..epoch) \X (0..MaxSeq)]
        BY <2>1, <2>2 DEF Typed, ReceiverTyped, Upsert
    <2> QED
        BY <1>1, <2>2, <2>3 DEF handleIndexUpdate, Typed, SenderTyped, JobsTyped, LaneTyped, ReceiverTyped,
           BackTyped, senderVars, high
<1>2. ASSUME acceptIndexAck PROVE Typed'
    <2> DEFINE m == Head(toS)
    <2>1. m \in Acks \cup Syncs /\ toS' \in Seq(Acks \cup Syncs)
        BY <1>2 DEF acceptIndexAck, Typed, BackTyped
    <2>2. outgoing' \in {outgoing, [epoch |-> m.epoch, applied |-> m.applied]}
        BY <1>2 DEF acceptIndexAck
    <2>3. m.epoch \in Nat /\ m.applied \in Nat
        BY <2>1 DEF Acks, Syncs
    <2> HIDE DEF m
    <2>4. outgoing' \in [epoch : Nat, applied : Nat]
        BY <2>2, <2>3 DEF Typed, SenderTyped
    <2> QED
        BY <1>2, <2>1, <2>4 DEF acceptIndexAck, Typed, SenderTyped, JobsTyped, LaneTyped, ReceiverTyped,
           BackTyped, receiverVars, high
<1>3. ASSUME ReceiveSyncRequest PROVE Typed'
    <2> DEFINE m == Head(toS)
    <2>1. m \in Acks \cup Syncs /\ toS' \in Seq(Acks \cup Syncs)
        BY <1>3 DEF ReceiveSyncRequest, Typed, BackTyped
    <2>2. asked' = Request(m.epoch, m.applied)
        BY <1>3 DEF ReceiveSyncRequest
    <2>3. m.epoch \in Nat /\ m.applied \in Nat
        BY <2>1 DEF Acks, Syncs
    <2> HIDE DEF m
    <2>4. asked' \in [epoch : Nat, applied : Nat, none : BOOLEAN]
        BY <2>2, <2>3 DEF Request
    <2> QED
        BY <1>3, <2>1, <2>4 DEF ReceiveSyncRequest, Typed, SenderTyped, JobsTyped, LaneTyped, ReceiverTyped,
           BackTyped, receiverVars, high
<1>4. ASSUME UNCHANGED vars PROVE Typed'
    BY <1>4 DEF vars, senderVars, receiverVars, Typed, SenderTyped, JobsTyped, LaneTyped, ReceiverTyped,
       BackTyped, high
<1> QED
    BY <1>1, <1>2, <1>3, <1>4 DEF Return

LEMMA NextTyped ==
    ASSUME Typed, [Next]_vars
    PROVE  Typed'
BY ChangesTyped, ForgetTyped, DropTyped, AnswerTyped, ReadTyped, ReturnTyped DEF Next

LEMMA TypedOK ==
    ASSUME Typed
    PROVE  TypeOK
<1>1. \A a \in Answerer : job[a].pc \in {"idle", "called", "deltas", "list", "begin", "batches"}
    BY JobRows, JobKinds DEF Typed
<1> QED
    BY <1>1 DEF Typed, TypeOK, SenderTyped, JobsTyped, ReceiverTyped

\* The variables keep their types: no sequence number leaves the journal's
\* range, whatever is delayed, lost or answered twice, and only SyncShare's
\* own goroutines are ever waiting to be decided.
THEOREM TypesAlways == Spec => []TypeOK
<1>1. Typed /\ [Next]_vars => Typed'
    BY NextTyped
<1> QED
    BY InitTyped, <1>1, TypedOK, PTL DEF Spec

-----------------------------------------------------------------------------
(* Steps that leave the snapshots alone. *)

\* The journal and the parked paths grow, within the epoch.
IndexGrows ==
    /\ epoch' = epoch /\ high <= high' /\ \A k \in 1..high : journal'[k] = journal[k]
    /\ ignored \subseteq ignored'

\* The snapshot frames on the lane are the ones that were, d places nearer.
Shifted(d) ==
    /\ \A x \in DOMAIN toR' : SnapshotFrame(toR'[x]) =>
          x + d \in DOMAIN toR /\ toR'[x] = toR[x + d]
    /\ \A y \in DOMAIN toR : SnapshotFrame(toR[y]) =>
          y - d \in DOMAIN toR' /\ toR'[y - d] = toR[y]

\* Nobody begins, continues or ends a snapshot.
WritersSame ==
    \A a \in Answerer : job[a].pc = "batches" \/ job'[a].pc = "batches" => job'[a] = job[a]

\* Rows stay as new as they were, and nothing more is owed.
LEMMA FreshStays ==
    ASSUME SenderTyped, IndexGrows, NEW h \in Nat, h <= high
    PROVE  /\ \A r : AsNewAs(r, h) => AsNewAs(r, h)'
           /\ \A p : Owed(p, h)' => Owed(p, h)
<1>1. high \in Nat /\ \A k \in 1..h : k \in 1..high
    BY DEF high, SenderTyped
<1>2. \A k \in 1..h : journal'[k] = journal[k]
    BY <1>1 DEF IndexGrows
<1>3. ASSUME NEW r, AsNewAs(r, h) PROVE AsNewAs(r, h)'
    BY <1>2, <1>3 DEF AsNewAs, IndexGrows
<1>4. ASSUME NEW p, Owed(p, h)' PROVE Owed(p, h)
    BY <1>2, <1>4 DEF Owed, IndexGrows
<1> QED
    BY <1>3, <1>4

LEMMA CalmSnapshots ==
    ASSUME Typed, Typed', Snapshots, IndexGrows, WritersSame, NEW d \in {0, 1}, Shifted(d),
           begun' = begun, staging' = staging, incoming'.batch = incoming.batch
    PROVE  Snapshots'
<1>0. /\ DOMAIN toR \subseteq Nat /\ DOMAIN toR' \subseteq Nat /\ SenderTyped /\ epoch' = epoch
      /\ LaneTyped /\ JobsTyped
    BY DEF Typed, LaneTyped, IndexGrows
<1>1. LaneOrdered'
    <2> SUFFICES ASSUME NEW x \in DOMAIN toR', NEW y \in DOMAIN toR', x < y,
                        SnapshotFrame(toR'[x]), SnapshotFrame(toR'[y]), toR'[x].id = toR'[y].id
                 PROVE  Follows(toR'[x], toR'[y])
        BY DEF LaneOrdered, SnapshotFrame, Follows
    <2>1. /\ x + d \in DOMAIN toR /\ toR'[x] = toR[x + d]
          /\ y + d \in DOMAIN toR /\ toR'[y] = toR[y + d]
        BY DEF Shifted
    <2>2. x + d < y + d
        BY <1>0
    <2> QED
        BY <2>1, <2>2 DEF Snapshots, LaneOrdered
<1>2. JobsAhead'
    <2>1. ASSUME NEW a \in Answerer, job'[a].pc = "batches"
          PROVE  job'[a] = job[a] /\ job[a].pc = "batches"
        BY <2>1 DEF WritersSame
    <2>2. ASSUME NEW a \in Answerer, job'[a].pc = "batches", NEW x \in DOMAIN toR'
          PROVE  /\ ~EndAt(x, job[a].id)'
                 /\ BatchAt(x, job[a].id)' => toR'[x].batch < job[a].batch
                 /\ BeginAt(x, job[a].id)' => toR'[x].high = job[a].high /\ toR'[x].epoch = job[a].epoch
        BY <2>1, <2>2 DEF Shifted, Snapshots, JobsAhead, SnapshotFrame, EndAt, BatchAt, BeginAt
    <2> QED
        BY <2>1, <2>2 DEF Snapshots, JobsAhead, Sends, EndAt, BatchAt, BeginAt
<1>3. BeginsNew'
    BY DEF Shifted, Snapshots, BeginsNew, SnapshotFrame
<1>4. ASSUME NEW i \in Nat, NEW h \in Nat, Open(i, h)' PROVE Open(i, h)
    BY <1>0, <1>4 DEF Open, Shifted, SnapshotFrame, BeginAt
<1>5. OpenFresh'
    <2> SUFFICES ASSUME NEW i \in Nat, NEW h \in Nat, Open(i, h)'
                 PROVE  /\ h <= high'
                        /\ \A s \in staging' : s.id = i => AsNewAs(s.row, h)'
                        /\ \A x \in DOMAIN toR' : BatchAt(x, i)' => AsNewAs(toR[x].row, h)'
        BY DEF OpenFresh, AsNewAs
    <2>1. Open(i, h)
        BY <1>4
    <2>2. /\ h <= high /\ \A s \in staging : s.id = i => AsNewAs(s.row, h)
          /\ \A x \in DOMAIN toR : BatchAt(x, i) => AsNewAs(toR[x].row, h)
        BY <2>1 DEF Snapshots, OpenFresh
    <2>3. \A r : AsNewAs(r, h) => AsNewAs(r, h)'
        BY <1>0, <2>2, FreshStays
    <2>4. h <= high'
        BY <1>0, <2>2 DEF IndexGrows, SenderTyped, high, Typed
    <2>5. ASSUME NEW s \in staging', s.id = i PROVE AsNewAs(s.row, h)'
        BY <2>2, <2>3, <2>5
    <2>6. ASSUME NEW x \in DOMAIN toR', BatchAt(x, i)' PROVE AsNewAs(toR[x].row, h)'
        <3>1. x + d \in DOMAIN toR /\ toR'[x] = toR[x + d] /\ BatchAt(x + d, i)
            BY <2>6 DEF Shifted, SnapshotFrame, BatchAt
        <3>2. AsNewAs(toR[x + d].row, h)
            BY <2>2, <3>1
        <3> QED
            BY <2>3, <3>1, <3>2 DEF AsNewAs
    <2> QED
        BY <2>4, <2>5, <2>6
<1>6. OpenComplete'
    <2> SUFFICES ASSUME NEW i \in Nat, NEW h \in Nat, Open(i, h)'
                 PROVE  Broken(i)' \/ \A p \in Path : Owed(p, h)' => Reaches(i, p)'
        BY DEF OpenComplete
    <2>1. Open(i, h)
        BY <1>4
    <2>2. h <= high
        BY <2>1 DEF Snapshots, OpenFresh
    <2>3. \A p : Owed(p, h)' => Owed(p, h)
        BY <1>0, <2>2, FreshStays
    <2>4. Expected(i)' = Expected(i)
        BY DEF Expected
    <2>5. ASSUME Broken(i) PROVE Broken(i)'
        BY <2>4, <2>5 DEF Broken, Shifted, SnapshotFrame, BatchAt, EndAt, Sends, WritersSame
    <2>6. ASSUME NEW p \in Path, Reaches(i, p) PROVE Reaches(i, p)'
        BY <2>4, <2>6 DEF Reaches, Shifted, SnapshotFrame, BatchAt, Sends, WritersSame
    <2> QED
        BY <2>1, <2>3, <2>5, <2>6 DEF Snapshots, OpenComplete
<1> QED
    BY <1>1, <1>2, <1>3, <1>5, <1>6 DEF Snapshots

\* The lane unchanged, a frame that is none of a snapshot's written or read.
LEMMA LaneShifted ==
    ASSUME LaneTyped
    PROVE  /\ toR' = toR => Shifted(0)
           /\ \A f : ~SnapshotFrame(f) /\ toR' = Append(toR, f) => Shifted(0)
           /\ toR # <<>> /\ toR' = Tail(toR) /\ ~SnapshotFrame(Head(toR)) => Shifted(1)
<1>0. DOMAIN toR \subseteq Nat
    BY DEF LaneTyped
<1>1. ASSUME toR' = toR PROVE Shifted(0)
    BY <1>0, <1>1 DEF Shifted
<1>2. ASSUME NEW f, ~SnapshotFrame(f), toR' = Append(toR, f) PROVE Shifted(0)
    <2>1. \A x \in DOMAIN toR' : x \in Nat /\ (toR'[x] = f \/ (x \in DOMAIN toR /\ toR'[x] = toR[x]))
        BY <1>2 DEF LaneTyped
    <2>2. \A y \in DOMAIN toR : y \in DOMAIN toR' /\ toR'[y] = toR[y]
        BY <1>2 DEF LaneTyped
    <2> QED
        BY <1>0, <1>2, <2>1, <2>2 DEF Shifted
<1>3. ASSUME toR # <<>>, toR' = Tail(toR), ~SnapshotFrame(Head(toR)) PROVE Shifted(1)
    BY <1>3, ReadFacts DEF Shifted
<1> QED
    BY <1>1, <1>2, <1>3

-----------------------------------------------------------------------------
(* Writing a snapshot. *)

\* What the lane is after a frame has been written.
LEMMA WriteFacts ==
    ASSUME LaneTyped, NEW f, toR' = Append(toR, f)
    PROVE  \E n \in Nat :
             /\ n \in DOMAIN toR' /\ toR'[n] = f
             /\ \A x \in DOMAIN toR' : x \in Nat /\ (x = n \/ (x \in DOMAIN toR /\ toR'[x] = toR[x] /\ x < n))
             /\ \A y \in DOMAIN toR : y \in Nat /\ y < n /\ y \in DOMAIN toR' /\ toR'[y] = toR[y]
<1>1. Len(toR) + 1 \in Nat
    BY DEF LaneTyped
<1> QED
    BY <1>1 DEF LaneTyped

\* The index and the receiver are as they were.
LEMMA OnlyWritten ==
    ASSUME UNCHANGED <<journal, epoch, ignored, begun, staging, incoming>>
    PROVE  /\ \A r, h : AsNewAs(r, h)' <=> AsNewAs(r, h)
           /\ \A p, h : Owed(p, h)' <=> Owed(p, h)
           /\ \A i : Expected(i)' = Expected(i)
           /\ high' = high
BY DEF AsNewAs, Owed, Expected, high

LEMMA BeginWritten ==
    ASSUME Typed, JobsCurrent, Snapshots, NEW a \in Answerer, SnapshotBegin(a)
    PROVE  Snapshots'
<1> DEFINE i == newSnapshotID
           f == [type |-> "Begin", id |-> i, epoch |-> job[a].epoch, high |-> job[a].high]
           l == [pc |-> "batches", epoch |-> job[a].epoch, high |-> job[a].high,
                 rows |-> job[a].rows, id |-> i, batch |-> 0]
<1>1. /\ i \in Nat \ {0} /\ begun.id # i /\ \A s \in staging : s.id # i
      /\ \A b \in Answerer : ~Sends(b, i)
      /\ \A x \in DOMAIN toR : SnapshotFrame(toR[x]) => toR[x].id # i
    BY NewIDUnused
<1>2. /\ toR' = Append(toR, f) /\ job' = [job EXCEPT ![a] = l] /\ job[a].pc = "begin"
      /\ UNCHANGED <<journal, epoch, ignored, begun, staging, incoming>>
    BY DEF SnapshotBegin, Write, receiverVars
<1> HIDE DEF i
<1>3. /\ f.type = "Begin" /\ f.id = i /\ f.epoch = job[a].epoch /\ f.high = job[a].high
      /\ l.pc = "batches" /\ l.epoch = job[a].epoch /\ l.high = job[a].high
      /\ l.rows = job[a].rows /\ l.id = i
    OBVIOUS
<1>4. job'[a] = l /\ \A b \in Answerer : b # a => job'[b] = job[b]
    BY <1>2 DEF Typed, JobsTyped
<1> HIDE DEF f, l
<1>5. PICK n \in Nat :
          /\ n \in DOMAIN toR' /\ toR'[n] = f
          /\ \A x \in DOMAIN toR' : x \in Nat /\ (x = n \/ (x \in DOMAIN toR /\ toR'[x] = toR[x] /\ x < n))
          /\ \A y \in DOMAIN toR : y \in Nat /\ y < n /\ y \in DOMAIN toR' /\ toR'[y] = toR[y]
    BY <1>2, WriteFacts DEF Typed
<1>6. /\ \A r, h : AsNewAs(r, h)' <=> AsNewAs(r, h)
      /\ \A p, h : Owed(p, h)' <=> Owed(p, h)
      /\ \A k : Expected(k)' = Expected(k)
      /\ high' = high
    BY <1>2, OnlyWritten
<1>7. job[a].epoch = epoch /\ job[a].high <= high
    BY <1>2 DEF JobsCurrent, JobCurrent
<1>8. LaneOrdered'
    BY <1>1, <1>3, <1>5 DEF Snapshots, LaneOrdered, SnapshotFrame, Follows
<1>9. JobsAhead'
    <2>1. ASSUME NEW b \in Answerer, job'[b].pc = "batches", NEW x \in DOMAIN toR'
          PROVE  /\ ~(toR'[x].type = "End" /\ toR'[x].id = job'[b].id)
                 /\ toR'[x].type = "Batch" /\ toR'[x].id = job'[b].id => toR'[x].batch < job'[b].batch
                 /\ toR'[x].type = "Begin" /\ toR'[x].id = job'[b].id =>
                       toR'[x].high = job'[b].high /\ toR'[x].epoch = job'[b].epoch
        <3>1. CASE b = a
            BY <1>1, <1>3, <1>4, <1>5, <2>1, <3>1 DEF SnapshotFrame
        <3>2. CASE b # a
            <4>1. job'[b] = job[b] /\ job[b].id # i
                BY <1>1, <1>4, <2>1, <3>2 DEF Sends
            <4> QED
                BY <1>3, <1>5, <2>1, <4>1 DEF Snapshots, JobsAhead, EndAt, BatchAt, BeginAt
        <3> QED
            BY <3>1, <3>2
    <2>2. ASSUME NEW b \in Answerer, job'[b].pc = "batches", begun'.id = job'[b].id
          PROVE  begun'.high = job'[b].high /\ begun'.epoch = job'[b].epoch /\ incoming'.batch <= job'[b].batch
        BY <1>1, <1>2, <1>3, <1>4, <2>2 DEF Snapshots, JobsAhead
    <2>3. ASSUME NEW b \in Answerer, NEW c \in Answerer, job'[b].pc = "batches", Sends(c, job[b].id)'
          PROVE  b = c
        BY <1>1, <1>3, <1>4, <2>3 DEF Snapshots, JobsAhead, Sends
    <2> QED
        BY <2>1, <2>2, <2>3 DEF JobsAhead, EndAt, BatchAt, BeginAt
<1>10. BeginsNew'
    BY <1>1, <1>2, <1>3, <1>5 DEF Snapshots, BeginsNew
<1>11. ASSUME NEW k \in Nat, NEW h \in Nat, Open(k, h)'
       PROVE  (k = i /\ h = job[a].high) \/ (k # i /\ Open(k, h))
    BY <1>1, <1>2, <1>3, <1>5, <1>11 DEF Open, BeginAt, SnapshotFrame
<1>12. ASSUME NEW x \in DOMAIN toR', NEW k \in Nat, toR'[x].type = "Batch", toR'[x].id = k
       PROVE  x \in DOMAIN toR /\ toR'[x] = toR[x] /\ BatchAt(x, k) /\ k # i
    BY <1>1, <1>3, <1>5, <1>12 DEF BatchAt, SnapshotFrame
<1>13. OpenFresh'
    <2> SUFFICES ASSUME NEW k \in Nat, NEW h \in Nat, Open(k, h)'
                 PROVE  /\ h <= high'
                        /\ \A s \in staging' : s.id = k => AsNewAs(s.row, h)'
                        /\ \A x \in DOMAIN toR' : BatchAt(x, k)' => AsNewAs(toR[x].row, h)'
        BY DEF OpenFresh, AsNewAs
    <2>1. CASE k = i /\ h = job[a].high
        BY <1>1, <1>2, <1>6, <1>7, <1>12, <2>1 DEF BatchAt
    <2>2. CASE k # i /\ Open(k, h)
        <3>1. /\ h <= high /\ \A s \in staging : s.id = k => AsNewAs(s.row, h)
              /\ \A x \in DOMAIN toR : BatchAt(x, k) => AsNewAs(toR[x].row, h)
            BY <2>2 DEF Snapshots, OpenFresh
        <3>2. ASSUME NEW x \in DOMAIN toR', BatchAt(x, k)' PROVE AsNewAs(toR[x].row, h)'
            <4>1. AsNewAs(toR[x].row, h) /\ toR'[x] = toR[x]
                BY <1>12, <3>1, <3>2 DEF BatchAt
            <4> QED
                BY <1>2, <4>1 DEF AsNewAs
        <3> QED
            BY <1>2, <1>6, <3>1, <3>2
    <2> QED
        BY <1>11, <2>1, <2>2
<1>14. OpenComplete'
    <2> SUFFICES ASSUME NEW k \in Nat, NEW h \in Nat, Open(k, h)'
                 PROVE  Broken(k)' \/ \A p \in Path : Owed(p, h)' => Reaches(k, p)'
        BY DEF OpenComplete
    <2>1. CASE k = i /\ h = job[a].high
        <3> SUFFICES ASSUME NEW p \in Path, Owed(p, h) PROVE Reaches(k, p)'
            BY <1>6
        <3>1. \E r \in job[a].rows : r[1] = p
            BY <1>2, <2>1 DEF JobsCurrent, JobCurrent
        <3>2. Sends(a, k)'
            BY <1>3, <1>4, <2>1 DEF Sends
        <3> QED
            BY <1>3, <1>4, <3>1, <3>2 DEF Reaches
    <2>2. CASE k # i /\ Open(k, h)
        <3>1. \A b \in Answerer : Sends(b, k)' <=> Sends(b, k) /\ b # a
            BY <1>2, <1>3, <1>4, <2>2 DEF Sends
        <3>2. ASSUME Broken(k) PROVE Broken(k)'
            BY <1>3, <1>4, <1>5, <1>6, <3>1, <3>2, <2>2 DEF Broken, BatchAt, EndAt
        <3>3. ASSUME NEW p \in Path, Reaches(k, p) PROVE Reaches(k, p)'
            <4>1. \A b \in Answerer : Sends(b, k) => b # a
                BY <1>2 DEF Sends
            <4> QED
                BY <1>2, <1>4, <1>5, <1>6, <3>1, <3>3, <4>1 DEF Reaches, BatchAt
        <3> QED
            BY <1>6, <2>2, <3>2, <3>3 DEF Snapshots, OpenComplete
    <2> QED
        BY <1>11, <2>1, <2>2
<1> QED
    BY <1>8, <1>9, <1>10, <1>13, <1>14 DEF Snapshots

LEMMA BatchWritten ==
    ASSUME Typed, JobsCurrent, Snapshots, NEW a \in Answerer, SnapshotBatch(a)
    PROVE  Snapshots'
<1> DEFINE j == job[a]
           i == j.id
           r == CHOOSE x \in j.rows : TRUE
           f == [type |-> "Batch", id |-> j.id, batch |-> j.batch, row |-> r]
           l == [j EXCEPT !.rows = @ \ {r}, !.batch = @ + 1]
<1>1. /\ j \in BatchJobs(epoch) /\ j.pc = "batches" /\ r \in j.rows
      /\ i \in Nat \ {0} /\ j.batch \in Nat /\ Sends(a, i)
    BY JobRows, JobKinds DEF SnapshotBatch, Typed, Sends
<1>2. /\ toR' = Append(toR, f) /\ job' = [job EXCEPT ![a] = l]
      /\ UNCHANGED <<journal, epoch, ignored, begun, staging, incoming>>
    BY DEF SnapshotBatch, Write, receiverVars, Typed, JobsTyped
<1> HIDE DEF r
<1>3. /\ f.type = "Batch" /\ f.id = i /\ f.batch = j.batch /\ f.row = r
      /\ l.pc = "batches" /\ l.epoch = j.epoch /\ l.high = j.high
      /\ l.rows = j.rows \ {r} /\ l.id = i /\ l.batch = j.batch + 1
    BY <1>1 DEF BatchJobs
<1>4. job'[a] = l /\ \A b \in Answerer : b # a => job'[b] = job[b]
    BY <1>2 DEF Typed, JobsTyped
<1> HIDE DEF f, l
<1>5. PICK n \in Nat :
          /\ n \in DOMAIN toR' /\ toR'[n] = f
          /\ \A x \in DOMAIN toR' : x \in Nat /\ (x = n \/ (x \in DOMAIN toR /\ toR'[x] = toR[x] /\ x < n))
          /\ \A y \in DOMAIN toR : y \in Nat /\ y < n /\ y \in DOMAIN toR' /\ toR'[y] = toR[y]
    BY <1>2, WriteFacts DEF Typed
<1>6. /\ \A q, h : AsNewAs(q, h)' <=> AsNewAs(q, h)
      /\ \A p, h : Owed(p, h)' <=> Owed(p, h)
      /\ \A k : Expected(k)' = Expected(k)
      /\ high' = high
    BY <1>2, OnlyWritten
<1>7. j.epoch = epoch /\ j.high <= high /\ AsNewAs(r, j.high)
    BY <1>1 DEF JobsCurrent, JobCurrent
<1>8. /\ \A x \in DOMAIN toR :
            /\ ~EndAt(x, i)
            /\ BatchAt(x, i) => toR[x].batch < j.batch
            /\ BeginAt(x, i) => toR[x].high = j.high /\ toR[x].epoch = j.epoch
      /\ begun.id = i => begun.high = j.high /\ begun.epoch = j.epoch /\ incoming.batch <= j.batch
      /\ \A b \in Answerer : Sends(b, i) => b = a
    BY <1>1 DEF Snapshots, JobsAhead, Sends
<1>9. Expected(i) \in Nat /\ Expected(i) <= j.batch
    BY <1>1, <1>8 DEF Expected, Typed, ReceiverTyped
<1>10. \A x \in DOMAIN toR : toR[x].type = "Batch" => toR[x].batch \in Nat
    BY LaneKinds DEF Typed
<1> HIDE DEF j, i
<1>11. LaneOrdered'
    BY <1>3, <1>5, <1>8 DEF Snapshots, LaneOrdered, SnapshotFrame, Follows, EndAt, BatchAt
<1>12. JobsAhead'
    <2>1. ASSUME NEW b \in Answerer, job'[b].pc = "batches", NEW x \in DOMAIN toR'
          PROVE  /\ ~(toR'[x].type = "End" /\ toR'[x].id = job'[b].id)
                 /\ toR'[x].type = "Batch" /\ toR'[x].id = job'[b].id => toR'[x].batch < job'[b].batch
                 /\ toR'[x].type = "Begin" /\ toR'[x].id = job'[b].id =>
                       toR'[x].high = job'[b].high /\ toR'[x].epoch = job'[b].epoch
        <3>1. CASE b = a
            BY <1>1, <1>3, <1>4, <1>5, <1>8, <1>10, <2>1, <3>1 DEF EndAt, BatchAt, BeginAt
        <3>2. CASE b # a
            <4>1. job'[b] = job[b] /\ job[b].id # i
                BY <1>4, <1>8, <2>1, <3>2 DEF Sends
            <4> QED
                BY <1>3, <1>5, <2>1, <4>1 DEF Snapshots, JobsAhead, EndAt, BatchAt, BeginAt
        <3> QED
            BY <3>1, <3>2
    <2>2. ASSUME NEW b \in Answerer, job'[b].pc = "batches", begun'.id = job'[b].id
          PROVE  begun'.high = job'[b].high /\ begun'.epoch = job'[b].epoch /\ incoming'.batch <= job'[b].batch
        <3>1. incoming.batch \in Nat
            BY DEF Typed, ReceiverTyped
        <3> QED
            BY <1>1, <1>2, <1>3, <1>4, <1>8, <2>2, <3>1 DEF Snapshots, JobsAhead
    <2>3. ASSUME NEW b \in Answerer, NEW c \in Answerer, job'[b].pc = "batches", Sends(c, job[b].id)'
          PROVE  b = c
        BY <1>3, <1>4, <1>8, <2>3 DEF Snapshots, JobsAhead, Sends
    <2> QED
        BY <2>1, <2>2, <2>3 DEF JobsAhead, EndAt, BatchAt, BeginAt
<1>13. BeginsNew'
    BY <1>2, <1>3, <1>5 DEF Snapshots, BeginsNew
<1>14. ASSUME NEW k \in Nat, NEW h \in Nat, Open(k, h)'
       PROVE  Open(k, h) /\ (k = i => h = j.high)
    BY <1>2, <1>3, <1>5, <1>8, <1>14 DEF Open, BeginAt
<1>15. OpenFresh'
    <2> SUFFICES ASSUME NEW k \in Nat, NEW h \in Nat, Open(k, h)'
                 PROVE  /\ h <= high'
                        /\ \A s \in staging' : s.id = k => AsNewAs(s.row, h)'
                        /\ \A x \in DOMAIN toR' : BatchAt(x, k)' => AsNewAs(toR[x].row, h)'
        BY DEF OpenFresh, AsNewAs
    <2>1. /\ h <= high /\ \A s \in staging : s.id = k => AsNewAs(s.row, h)
          /\ \A x \in DOMAIN toR : BatchAt(x, k) => AsNewAs(toR[x].row, h)
        BY <1>14 DEF Snapshots, OpenFresh
    <2>2. ASSUME NEW x \in DOMAIN toR', BatchAt(x, k)' PROVE AsNewAs(toR[x].row, h)'
        <3>1. CASE x = n
            <4>1. toR'[x].row = r /\ AsNewAs(r, h)
                BY <1>3, <1>5, <1>7, <1>14, <2>2, <3>1 DEF BatchAt
            <4> QED
                BY <1>2, <4>1 DEF AsNewAs
        <3>2. CASE x \in DOMAIN toR /\ toR'[x] = toR[x]
            <4>1. AsNewAs(toR[x].row, h)
                BY <2>1, <2>2, <3>2 DEF BatchAt
            <4> QED
                BY <1>2, <3>2, <4>1 DEF AsNewAs
        <3> QED
            BY <1>5, <3>1, <3>2
    <2> QED
        BY <1>2, <1>6, <2>1, <2>2
<1>16. OpenComplete'
    <2> SUFFICES ASSUME NEW k \in Nat, NEW h \in Nat, Open(k, h)'
                 PROVE  Broken(k)' \/ \A p \in Path : Owed(p, h)' => Reaches(k, p)'
        BY DEF OpenComplete
    <2>1. \A b \in Answerer : Sends(b, k)' <=> Sends(b, k)
        BY <1>1, <1>3, <1>4 DEF Sends, i, j
    <2>2. ASSUME Broken(k) PROVE Broken(k)'
        <3>1. ASSUME NEW x \in DOMAIN toR'
              PROVE  /\ BatchAt(x, k)' => toR'[x].batch # Expected(k)
                     /\ EndAt(x, k)' => toR'[x].batches > Expected(k)
            <4>1. CASE x = n
                <5>1. k = i => j.batch > Expected(k)
                    BY <1>1, <2>2 DEF Broken, j
                <5> QED
                    BY <1>1, <1>3, <1>5, <1>9, <4>1, <5>1 DEF BatchAt, EndAt
            <4>2. CASE x \in DOMAIN toR /\ toR'[x] = toR[x]
                BY <2>2, <4>2 DEF Broken, BatchAt, EndAt
            <4> QED
                BY <1>5, <4>1, <4>2
        <3>2. ASSUME NEW b \in Answerer, Sends(b, k)' PROVE job'[b].batch > Expected(k)
            <4>1. Sends(b, k) /\ job[b].batch > Expected(k)
                BY <2>1, <2>2, <3>2 DEF Broken
            <4>2. CASE b = a
                <5>1. k = i
                    BY <4>1, <4>2 DEF Sends, i, j
                <5> QED
                    BY <1>1, <1>3, <1>4, <1>9, <4>1, <4>2, <5>1 DEF j
            <4> QED
                BY <1>4, <4>1, <4>2
        <3> QED
            BY <1>6, <3>1, <3>2 DEF Broken
    <2>3. ASSUME NEW p \in Path, Reaches(k, p) PROVE Reaches(k, p)'
        <3>1. CASE \E s \in staging : s.id = k /\ s.row[1] = p
            BY <1>2, <3>1 DEF Reaches
        <3>2. CASE \E x \in DOMAIN toR : BatchAt(x, k) /\ toR[x].batch >= Expected(k) /\ toR[x].row[1] = p
            BY <1>5, <1>6, <3>2 DEF Reaches, BatchAt
        <3>3. ASSUME NEW b \in Answerer, Sends(b, k), NEW q \in job[b].rows, q[1] = p PROVE Reaches(k, p)'
            <4>1. CASE b = a /\ q = r
                <5>1. k = i
                    BY <3>3, <4>1 DEF Sends, i, j
                <5> QED
                    BY <1>1, <1>3, <1>5, <1>6, <1>9, <3>3, <4>1, <5>1 DEF Reaches, BatchAt
            <4>2. CASE ~(b = a /\ q = r)
                <5>1. q \in job'[b].rows
                    BY <1>3, <1>4, <3>3, <4>2 DEF j
                <5> QED
                    BY <2>1, <3>3, <5>1 DEF Reaches
            <4> QED
                BY <4>1, <4>2
        <3> QED
            BY <2>3, <3>1, <3>2, <3>3 DEF Reaches
    <2> QED
        BY <1>6, <1>14, <2>2, <2>3 DEF Snapshots, OpenComplete
<1> QED
    BY <1>11, <1>12, <1>13, <1>15, <1>16 DEF Snapshots

LEMMA EndWritten ==
    ASSUME Typed, Snapshots, NEW a \in Answerer, SnapshotEnd(a)
    PROVE  Snapshots'
<1> DEFINE j == job[a]
           i == j.id
           f == [type |-> "End", id |-> j.id, batches |-> j.batch]
<1>1. /\ j.pc = "batches" /\ j.rows = {} /\ i \in Nat \ {0} /\ j.batch \in Nat /\ Sends(a, i)
    BY JobRows DEF SnapshotEnd, Typed, Sends
<1>2. /\ toR' = Append(toR, f) /\ job' = [job EXCEPT ![a] = Idle]
      /\ UNCHANGED <<journal, epoch, ignored, begun, staging, incoming>>
    BY DEF SnapshotEnd, Write, receiverVars
<1>3. f.type = "End" /\ f.id = i /\ f.batches = j.batch
    OBVIOUS
<1>4. job'[a].pc = "idle" /\ \A b \in Answerer : b # a => job'[b] = job[b]
    BY <1>2 DEF Typed, JobsTyped, Idle
<1> HIDE DEF f
<1>5. PICK n \in Nat :
          /\ n \in DOMAIN toR' /\ toR'[n] = f
          /\ \A x \in DOMAIN toR' : x \in Nat /\ (x = n \/ (x \in DOMAIN toR /\ toR'[x] = toR[x] /\ x < n))
          /\ \A y \in DOMAIN toR : y \in Nat /\ y < n /\ y \in DOMAIN toR' /\ toR'[y] = toR[y]
    BY <1>2, WriteFacts DEF Typed
<1>6. /\ \A q, h : AsNewAs(q, h)' <=> AsNewAs(q, h)
      /\ \A p, h : Owed(p, h)' <=> Owed(p, h)
      /\ \A k : Expected(k)' = Expected(k)
      /\ high' = high
    BY <1>2, OnlyWritten
<1>7. /\ \A x \in DOMAIN toR : ~EndAt(x, i) /\ (BatchAt(x, i) => toR[x].batch < j.batch)
      /\ \A b \in Answerer : Sends(b, i) => b = a
    BY <1>1 DEF Snapshots, JobsAhead, Sends
<1> HIDE DEF j, i
<1>8. LaneOrdered'
    BY <1>3, <1>5, <1>7 DEF Snapshots, LaneOrdered, SnapshotFrame, Follows, EndAt, BatchAt
<1>9. ASSUME NEW b \in Answerer, job'[b].pc = "batches"
      PROVE  b # a /\ job'[b] = job[b] /\ job[b].id # i
    BY <1>4, <1>7, <1>9 DEF Sends
<1>10. JobsAhead'
    <2>1. ASSUME NEW b \in Answerer, job'[b].pc = "batches", NEW x \in DOMAIN toR'
          PROVE  /\ ~(toR'[x].type = "End" /\ toR'[x].id = job'[b].id)
                 /\ toR'[x].type = "Batch" /\ toR'[x].id = job'[b].id => toR'[x].batch < job'[b].batch
                 /\ toR'[x].type = "Begin" /\ toR'[x].id = job'[b].id =>
                       toR'[x].high = job'[b].high /\ toR'[x].epoch = job'[b].epoch
        BY <1>3, <1>5, <1>9, <2>1 DEF Snapshots, JobsAhead, EndAt, BatchAt, BeginAt
    <2>2. ASSUME NEW b \in Answerer, job'[b].pc = "batches", begun'.id = job'[b].id
          PROVE  begun'.high = job'[b].high /\ begun'.epoch = job'[b].epoch /\ incoming'.batch <= job'[b].batch
        BY <1>2, <1>9, <2>2 DEF Snapshots, JobsAhead
    <2>3. ASSUME NEW b \in Answerer, NEW c \in Answerer, job'[b].pc = "batches", Sends(c, job[b].id)'
          PROVE  b = c
        BY <1>9, <2>3 DEF Snapshots, JobsAhead, Sends
    <2> QED
        BY <2>1, <2>2, <2>3 DEF JobsAhead, EndAt, BatchAt, BeginAt
<1>11. BeginsNew'
    BY <1>2, <1>3, <1>5 DEF Snapshots, BeginsNew
<1>12. ASSUME NEW k \in Nat, NEW h \in Nat, Open(k, h)' PROVE Open(k, h)
    BY <1>2, <1>3, <1>5, <1>12 DEF Open, BeginAt
<1>13. OpenFresh'
    <2> SUFFICES ASSUME NEW k \in Nat, NEW h \in Nat, Open(k, h)'
                 PROVE  /\ h <= high'
                        /\ \A s \in staging' : s.id = k => AsNewAs(s.row, h)'
                        /\ \A x \in DOMAIN toR' : BatchAt(x, k)' => AsNewAs(toR[x].row, h)'
        BY DEF OpenFresh, AsNewAs
    <2>1. /\ h <= high /\ \A s \in staging : s.id = k => AsNewAs(s.row, h)
          /\ \A x \in DOMAIN toR : BatchAt(x, k) => AsNewAs(toR[x].row, h)
        BY <1>12 DEF Snapshots, OpenFresh
    <2>2. ASSUME NEW x \in DOMAIN toR', BatchAt(x, k)' PROVE AsNewAs(toR[x].row, h)'
        <3>1. toR'[x] = toR[x] /\ AsNewAs(toR[x].row, h)
            BY <1>3, <1>5, <2>1, <2>2 DEF BatchAt
        <3> QED
            BY <1>2, <3>1 DEF AsNewAs
    <2> QED
        BY <1>2, <1>6, <2>1, <2>2
<1>14. OpenComplete'
    <2> SUFFICES ASSUME NEW k \in Nat, NEW h \in Nat, Open(k, h)'
                 PROVE  Broken(k)' \/ \A p \in Path : Owed(p, h)' => Reaches(k, p)'
        BY DEF OpenComplete
    <2>1. \A b \in Answerer : Sends(b, k)' <=> Sends(b, k) /\ b # a
        BY <1>4 DEF Sends
    <2>2. ASSUME Broken(k) PROVE Broken(k)'
        <3>1. k = i => j.batch > Expected(k)
            BY <1>1, <2>2 DEF Broken, j
        <3>2. ASSUME NEW x \in DOMAIN toR'
              PROVE  /\ BatchAt(x, k)' => toR'[x].batch # Expected(k)
                     /\ EndAt(x, k)' => toR'[x].batches > Expected(k)
            BY <1>3, <1>5, <2>2, <3>1 DEF Broken, BatchAt, EndAt
        <3>3. ASSUME NEW b \in Answerer, Sends(b, k)' PROVE job'[b].batch > Expected(k)
            BY <1>4, <2>1, <2>2, <3>3 DEF Broken
        <3> QED
            BY <1>6, <3>2, <3>3 DEF Broken
    <2>3. ASSUME NEW p \in Path, Reaches(k, p) PROVE Reaches(k, p)'
        <3>1. \A b \in Answerer : (Sends(b, k) /\ \E q \in job[b].rows : q[1] = p) => b # a
            BY <1>1 DEF j
        <3> QED
            BY <1>2, <1>4, <1>5, <1>6, <2>1, <2>3, <3>1 DEF Reaches, BatchAt
    <2> QED
        BY <1>6, <1>12, <2>2, <2>3 DEF Snapshots, OpenComplete
<1> QED
    BY <1>8, <1>10, <1>11, <1>13, <1>14 DEF Snapshots

-----------------------------------------------------------------------------
(* Receiving a snapshot. *)

\* Reading a frame disturbs neither the order of the lane nor who writes.
LEMMA ReadOrdered ==
    ASSUME Typed, Snapshots, toR # <<>>, toR' = Tail(toR), job' = job
    PROVE  /\ LaneOrdered'
           /\ \A a \in Answerer : job'[a].pc = "batches" => \A x \in DOMAIN toR' :
                /\ ~EndAt(x, job[a].id)'
                /\ BatchAt(x, job[a].id)' => toR'[x].batch < job'[a].batch
                /\ BeginAt(x, job[a].id)' => toR'[x].high = job'[a].high /\ toR'[x].epoch = job'[a].epoch
           /\ \A a, b \in Answerer : job'[a].pc = "batches" /\ Sends(b, job[a].id)' => a = b
<1>1. \A x \in DOMAIN toR' : x \in Nat \ {0} /\ x + 1 \in DOMAIN toR /\ toR'[x] = toR[x + 1]
    BY ReadFacts DEF Typed
<1>2. LaneOrdered'
    <2> SUFFICES ASSUME NEW x \in DOMAIN toR', NEW y \in DOMAIN toR', x < y,
                        SnapshotFrame(toR'[x]), SnapshotFrame(toR'[y]), toR'[x].id = toR'[y].id
                 PROVE  Follows(toR'[x], toR'[y])
        BY DEF LaneOrdered, SnapshotFrame, Follows
    <2>1. x + 1 < y + 1
        BY <1>1
    <2> QED
        BY <1>1, <2>1 DEF Snapshots, LaneOrdered
<1>3. ASSUME NEW a \in Answerer, job'[a].pc = "batches", NEW x \in DOMAIN toR'
      PROVE  /\ ~EndAt(x, job[a].id)'
             /\ BatchAt(x, job[a].id)' => toR'[x].batch < job'[a].batch
             /\ BeginAt(x, job[a].id)' => toR'[x].high = job'[a].high /\ toR'[x].epoch = job'[a].epoch
    BY <1>1, <1>3 DEF Snapshots, JobsAhead, EndAt, BatchAt, BeginAt
<1>4. ASSUME NEW a \in Answerer, NEW b \in Answerer, job'[a].pc = "batches", Sends(b, job[a].id)'
      PROVE  a = b
    BY <1>4 DEF Snapshots, JobsAhead, Sends
<1> QED
    BY <1>2, <1>3, <1>4

\* After a frame m of snapshot m.id come none of its begin, and none before it.
LEMMA HeadFirst ==
    ASSUME Typed, Snapshots, toR # <<>>, SnapshotFrame(Head(toR))
    PROVE  /\ Head(toR).id \in Nat \ {0}
           /\ \A x \in DOMAIN toR : x # 1 /\ SnapshotFrame(toR[x]) /\ toR[x].id = Head(toR).id =>
                 Follows(Head(toR), toR[x])
<1>1. 1 \in DOMAIN toR /\ Head(toR) = toR[1] /\ \A x \in DOMAIN toR : x \in Nat /\ (x # 1 => 1 < x)
    BY DEF Typed, LaneTyped
<1>2. toR[1].id \in Nat \ {0}
    BY <1>1, LaneKinds DEF Typed
<1> QED
    BY <1>1, <1>2 DEF Snapshots, LaneOrdered

LEMMA BeginRead ==
    ASSUME Typed, Snapshots, "begin" \notin Events, NEW ok \in BOOLEAN, ReceiveBegin(ok)
    PROVE  Snapshots'
<1> DEFINE m == Head(toR)
<1>1. /\ toR # <<>> /\ toR' = Tail(toR) /\ m.type = "Begin"
      /\ begun' = [id |-> m.id, epoch |-> m.epoch, high |-> m.high]
      /\ UNCHANGED <<job, journal, epoch, ignored, staging>>
    BY DEF ReceiveBegin, Receive, senderVars
<1>2. incoming' = CursorAtBegin(m)
    BY DEF ReceiveBegin, StoreWrite, Event
<1>3. incoming'.batch = 0 /\ begun'.id = m.id /\ begun'.epoch = m.epoch /\ begun'.high = m.high
    BY <1>1, <1>2 DEF CursorAtBegin
<1>4. /\ 1 \in DOMAIN toR /\ m = toR[1]
      /\ \A x \in DOMAIN toR' : x \in Nat \ {0} /\ x + 1 \in DOMAIN toR /\ toR'[x] = toR[x + 1]
      /\ \A y \in DOMAIN toR : y # 1 => y \in Nat /\ y - 1 \in DOMAIN toR' /\ toR'[y - 1] = toR[y]
    BY <1>1, ReadFacts DEF Typed
<1>5. /\ m.id \in Nat \ {0}
      /\ \A x \in DOMAIN toR : x # 1 /\ SnapshotFrame(toR[x]) /\ toR[x].id = m.id => Follows(m, toR[x])
    BY <1>1, HeadFirst DEF SnapshotFrame
<1> HIDE DEF m
<1>6. /\ LaneOrdered'
      /\ \A a \in Answerer : job'[a].pc = "batches" => \A x \in DOMAIN toR' :
                /\ ~EndAt(x, job[a].id)'
                /\ BatchAt(x, job[a].id)' => toR'[x].batch < job'[a].batch
                /\ BeginAt(x, job[a].id)' => toR'[x].high = job'[a].high /\ toR'[x].epoch = job'[a].epoch
      /\ \A a, b \in Answerer : job'[a].pc = "batches" /\ Sends(b, job[a].id)' => a = b
    BY <1>1, ReadOrdered
<1>7. JobsAhead'
    <2>1. ASSUME NEW a \in Answerer, job'[a].pc = "batches", begun'.id = job'[a].id
          PROVE  begun'.high = job'[a].high /\ begun'.epoch = job'[a].epoch /\ incoming'.batch <= job'[a].batch
        <3>1. job[a].batch \in Nat
            BY <1>1, <2>1, JobRows DEF Typed
        <3>2. BeginAt(1, job[a].id)
            BY <1>1, <1>3, <1>4, <2>1 DEF BeginAt
        <3> QED
            BY <1>1, <1>3, <1>4, <2>1, <3>1, <3>2 DEF Snapshots, JobsAhead
    <2> QED
        BY <1>6, <2>1 DEF JobsAhead
<1>8. BeginsNew'
    <2> SUFFICES ASSUME NEW x \in DOMAIN toR', toR'[x].type = "Begin"
                 PROVE  begun'.id # toR'[x].id /\ \A s \in staging' : s.id # toR'[x].id
        BY DEF BeginsNew
    <2>1. x + 1 \in DOMAIN toR /\ x + 1 # 1 /\ toR'[x] = toR[x + 1]
        BY <1>4
    <2>2. toR[x + 1].id # m.id
        BY <1>5, <2>1 DEF SnapshotFrame, Follows
    <2> QED
        BY <1>1, <1>3, <2>1, <2>2 DEF Snapshots, BeginsNew
<1>9. ASSUME NEW k \in Nat, NEW h \in Nat, Open(k, h)'
      PROVE  Open(k, h) /\ Expected(k)' = 0 /\ Expected(k) = 0
    <2>1. PICK x \in DOMAIN toR : BeginAt(x, k) /\ toR[x].epoch = epoch /\ toR[x].high = h
        BY <1>1, <1>3, <1>4, <1>9 DEF Open, BeginAt
    <2>2. begun.id # k
        BY <2>1 DEF Snapshots, BeginsNew, BeginAt
    <2> QED
        BY <1>3, <1>9, <2>1, <2>2 DEF Open, Expected
<1>10. OpenFresh'
    <2> SUFFICES ASSUME NEW k \in Nat, NEW h \in Nat, Open(k, h)'
                 PROVE  /\ h <= high'
                        /\ \A s \in staging' : s.id = k => AsNewAs(s.row, h)'
                        /\ \A x \in DOMAIN toR' : BatchAt(x, k)' => AsNewAs(toR[x].row, h)'
        BY DEF OpenFresh, AsNewAs
    <2>1. /\ h <= high /\ \A s \in staging : s.id = k => AsNewAs(s.row, h)
          /\ \A x \in DOMAIN toR : BatchAt(x, k) => AsNewAs(toR[x].row, h)
        BY <1>9 DEF Snapshots, OpenFresh
    <2> QED
        BY <1>1, <1>4, <2>1 DEF AsNewAs, BatchAt, high
<1>11. OpenComplete'
    <2> SUFFICES ASSUME NEW k \in Nat, NEW h \in Nat, Open(k, h)'
                 PROVE  Broken(k)' \/ \A p \in Path : Owed(p, h)' => Reaches(k, p)'
        BY DEF OpenComplete
    <2>1. Open(k, h) /\ Expected(k)' = Expected(k)
        BY <1>9
    <2>2. ASSUME Broken(k) PROVE Broken(k)'
        BY <1>1, <1>4, <2>1, <2>2 DEF Broken, BatchAt, EndAt, Sends
    <2>3. ASSUME NEW p \in Path, Reaches(k, p) PROVE Reaches(k, p)'
        <3>1. \A x \in DOMAIN toR : BatchAt(x, k) => x # 1
            BY <1>1, <1>4 DEF BatchAt
        <3>2. CASE \E y \in DOMAIN toR : BatchAt(y, k) /\ toR[y].batch >= Expected(k) /\ toR[y].row[1] = p
            <4>1. PICK y \in DOMAIN toR : BatchAt(y, k) /\ toR[y].batch >= Expected(k) /\ toR[y].row[1] = p
                BY <3>2
            <4>2. y - 1 \in DOMAIN toR' /\ toR'[y - 1] = toR[y]
                BY <1>4, <3>1, <4>1
            <4> QED
                BY <2>1, <4>1, <4>2 DEF Reaches, BatchAt
        <3>3. CASE \E s \in staging : s.id = k /\ s.row[1] = p
            BY <1>1, <3>3 DEF Reaches
        <3>4. CASE \E a \in Answerer : Sends(a, k) /\ \E r \in job[a].rows : r[1] = p
            BY <1>1, <3>4 DEF Reaches, Sends
        <3> QED
            BY <2>3, <3>2, <3>3, <3>4 DEF Reaches
    <2>4. \A p : Owed(p, h)' <=> Owed(p, h)
        BY <1>1 DEF Owed
    <2> QED
        BY <2>1, <2>2, <2>3, <2>4 DEF Snapshots, OpenComplete
<1> QED
    BY <1>6, <1>7, <1>8, <1>10, <1>11 DEF Snapshots

LEMMA EndRead ==
    ASSUME Typed, Snapshots, NEW ok \in BOOLEAN, ReceiveEnd(ok)
    PROVE  Snapshots'
<1> DEFINE m == Head(toR)
<1>1. /\ toR # <<>> /\ toR' = Tail(toR) /\ m.type = "End"
      /\ UNCHANGED <<job, journal, epoch, ignored>>
      /\ IF begun.id = m.id THEN begun' = NoSnapshot
         ELSE UNCHANGED <<begun, incoming, staging>>
      /\ staging' = {} \/ staging' = staging
    BY DEF ReceiveEnd, Receive, senderVars
<1>2. /\ 1 \in DOMAIN toR /\ m = toR[1]
      /\ \A x \in DOMAIN toR' : x \in Nat \ {0} /\ x + 1 \in DOMAIN toR /\ toR'[x] = toR[x + 1]
      /\ \A y \in DOMAIN toR : y # 1 => y \in Nat /\ y - 1 \in DOMAIN toR' /\ toR'[y - 1] = toR[y]
    BY <1>1, ReadFacts DEF Typed
<1>3. m.id \in Nat \ {0}
    BY <1>1, HeadFirst DEF SnapshotFrame
<1> HIDE DEF m
<1>4. /\ LaneOrdered'
      /\ \A a \in Answerer : job'[a].pc = "batches" => \A x \in DOMAIN toR' :
                /\ ~EndAt(x, job[a].id)'
                /\ BatchAt(x, job[a].id)' => toR'[x].batch < job'[a].batch
                /\ BeginAt(x, job[a].id)' => toR'[x].high = job'[a].high /\ toR'[x].epoch = job'[a].epoch
      /\ \A a, b \in Answerer : job'[a].pc = "batches" /\ Sends(b, job[a].id)' => a = b
    BY <1>1, ReadOrdered
<1>5. NoSnapshot.id = 0
    BY DEF NoSnapshot
<1>6. JobsAhead'
    <2>1. ASSUME NEW a \in Answerer, job'[a].pc = "batches", begun'.id = job'[a].id
          PROVE  begun'.high = job'[a].high /\ begun'.epoch = job'[a].epoch /\ incoming'.batch <= job'[a].batch
        <3>1. job[a].id \in Nat \ {0}
            BY <1>1, <2>1, JobRows DEF Typed
        <3>2. UNCHANGED <<begun, incoming>>
            BY <1>1, <1>5, <2>1, <3>1
        <3> QED
            BY <1>1, <2>1, <3>2 DEF Snapshots, JobsAhead
    <2> QED
        BY <1>4, <2>1 DEF JobsAhead
<1>7. BeginsNew'
    <2> SUFFICES ASSUME NEW x \in DOMAIN toR', toR'[x].type = "Begin"
                 PROVE  begun'.id # toR'[x].id /\ \A s \in staging' : s.id # toR'[x].id
        BY DEF BeginsNew
    <2>1. x + 1 \in DOMAIN toR /\ toR'[x] = toR[x + 1] /\ toR[x + 1].id # 0
        BY <1>2, LaneKinds DEF Typed, SnapshotFrame
    <2> QED
        BY <1>1, <1>5, <2>1 DEF Snapshots, BeginsNew
<1>8. ASSUME NEW k \in Nat, NEW h \in Nat, Open(k, h)'
      PROVE  /\ Open(k, h) /\ Expected(k)' = Expected(k)
             /\ \A s \in staging : s.id = k => s \in staging'
    <2>1. CASE begun.id = m.id
        <3>1. PICK x \in DOMAIN toR : BeginAt(x, k) /\ toR[x].epoch = epoch /\ toR[x].high = h
            BY <1>1, <1>2, <1>5, <1>8, <2>1 DEF Open, BeginAt
        <3>2. begun.id # k /\ \A s \in staging : s.id # k
            BY <3>1 DEF Snapshots, BeginsNew, BeginAt
        <3>3. begun'.id # k
            BY <1>1, <1>5, <1>8, <2>1 DEF Open
        <3> QED
            BY <1>8, <3>1, <3>2, <3>3 DEF Open, Expected
    <2>2. CASE begun.id # m.id
        BY <1>1, <1>2, <1>8, <2>2 DEF Open, BeginAt, Expected
    <2> QED
        BY <2>1, <2>2
<1>9. OpenFresh'
    <2> SUFFICES ASSUME NEW k \in Nat, NEW h \in Nat, Open(k, h)'
                 PROVE  /\ h <= high'
                        /\ \A s \in staging' : s.id = k => AsNewAs(s.row, h)'
                        /\ \A x \in DOMAIN toR' : BatchAt(x, k)' => AsNewAs(toR[x].row, h)'
        BY DEF OpenFresh, AsNewAs
    <2>1. /\ h <= high /\ \A s \in staging : s.id = k => AsNewAs(s.row, h)
          /\ \A x \in DOMAIN toR : BatchAt(x, k) => AsNewAs(toR[x].row, h)
        BY <1>8 DEF Snapshots, OpenFresh
    <2>2. staging' \subseteq staging
        BY <1>1
    <2> QED
        BY <1>1, <1>2, <2>1, <2>2 DEF AsNewAs, BatchAt, high
<1>10. OpenComplete'
    <2> SUFFICES ASSUME NEW k \in Nat, NEW h \in Nat, Open(k, h)'
                 PROVE  Broken(k)' \/ \A p \in Path : Owed(p, h)' => Reaches(k, p)'
        BY DEF OpenComplete
    <2>1. Open(k, h) /\ Expected(k)' = Expected(k) /\ \A s \in staging : s.id = k => s \in staging'
        BY <1>8
    <2>2. ASSUME Broken(k) PROVE Broken(k)'
        BY <1>1, <1>2, <2>1, <2>2 DEF Broken, BatchAt, EndAt, Sends
    <2>3. ASSUME NEW p \in Path, Reaches(k, p) PROVE Reaches(k, p)'
        <3>1. \A x \in DOMAIN toR : BatchAt(x, k) => x # 1
            BY <1>1, <1>2 DEF BatchAt
        <3>2. CASE \E y \in DOMAIN toR : BatchAt(y, k) /\ toR[y].batch >= Expected(k) /\ toR[y].row[1] = p
            <4>1. PICK y \in DOMAIN toR : BatchAt(y, k) /\ toR[y].batch >= Expected(k) /\ toR[y].row[1] = p
                BY <3>2
            <4>2. y - 1 \in DOMAIN toR' /\ toR'[y - 1] = toR[y]
                BY <1>2, <3>1, <4>1
            <4> QED
                BY <2>1, <4>1, <4>2 DEF Reaches, BatchAt
        <3>3. CASE \E s \in staging : s.id = k /\ s.row[1] = p
            BY <2>1, <3>3 DEF Reaches
        <3>4. CASE \E a \in Answerer : Sends(a, k) /\ \E r \in job[a].rows : r[1] = p
            BY <1>1, <3>4 DEF Reaches, Sends
        <3> QED
            BY <2>3, <3>2, <3>3, <3>4 DEF Reaches
    <2>4. \A p : Owed(p, h)' <=> Owed(p, h)
        BY <1>1 DEF Owed
    <2> QED
        BY <2>1, <2>2, <2>3, <2>4 DEF Snapshots, OpenComplete
<1> QED
    BY <1>4, <1>6, <1>7, <1>9, <1>10 DEF Snapshots

LEMMA BatchRead ==
    ASSUME Typed, Snapshots, ReceiveBatch
    PROVE  Snapshots'
<1> DEFINE m == Head(toR)
           Lost == UNCHANGED <<incoming, staging>> /\ m.batch >= incoming.batch
           Skipped == UNCHANGED <<incoming, staging>> /\ (begun.id # m.id \/ m.batch < incoming.batch)
           Taken == m.batch = incoming.batch /\ begun.id = m.id /\ staging' = StageBatch(m)
<1>1. /\ toR # <<>> /\ toR' = Tail(toR) /\ m.type = "Batch"
      /\ UNCHANGED <<job, journal, epoch, ignored, begun>>
    BY DEF ReceiveBatch, Receive, senderVars
<1>2. /\ 1 \in DOMAIN toR /\ m = toR[1]
      /\ \A x \in DOMAIN toR' : x \in Nat \ {0} /\ x + 1 \in DOMAIN toR /\ toR'[x] = toR[x + 1]
      /\ \A y \in DOMAIN toR : y # 1 => y \in Nat /\ y - 1 \in DOMAIN toR' /\ toR'[y - 1] = toR[y]
    BY <1>1, ReadFacts DEF Typed
<1>3. /\ m.id \in Nat \ {0}
      /\ \A x \in DOMAIN toR : x # 1 /\ SnapshotFrame(toR[x]) /\ toR[x].id = m.id => Follows(m, toR[x])
    BY <1>1, HeadFirst DEF SnapshotFrame
<1>4. m.batch \in Nat /\ incoming.batch \in Nat
    BY <1>1, <1>2, LaneKinds DEF Typed, ReceiverTyped
<1>5. \/ Skipped
      \/ begun.id = m.id /\ Lost
      \/ Taken /\ incoming' = incoming
      \/ Taken /\ incoming'.batch = incoming.batch + 1
    <2>1. [incoming EXCEPT !.batch = @ + 1].batch = incoming.batch + 1
        BY DEF Typed, ReceiverTyped
    <2>2. \/ UNCHANGED <<incoming, staging>> /\ (~OfThisSnapshot(m) \/ m.batch < incoming.batch)
          \/ UNCHANGED <<incoming, staging>> /\ OfThisSnapshot(m) /\ m.batch > incoming.batch
          \/ OfThisSnapshot(m) /\ m.batch = incoming.batch /\ StageAndCount(m)
        BY DEF ReceiveBatch
    <2>3. StageAndCount(m) => \/ staging' = StageBatch(m) /\ incoming' = incoming
                              \/ staging' = StageBatch(m) /\ incoming' = [incoming EXCEPT !.batch = @ + 1]
                              \/ UNCHANGED <<incoming, staging>>
        BY DEF StageAndCount
    <2> HIDE DEF m
    <2>4. m.batch > incoming.batch \/ m.batch = incoming.batch => m.batch >= incoming.batch
        BY <1>4
    <2> QED
        BY <2>1, <2>2, <2>3, <2>4 DEF OfThisSnapshot
<1>6. \A s \in StageBatch(m) : s \in staging \/ (s.id = m.id /\ s.row = m.row)
    BY DEF StageBatch
<1>7. \E s \in StageBatch(m) : s.id = m.id /\ s.row[1] = m.row[1]
    <2>1. [id |-> m.id, row |-> m.row] \in StageBatch(m)
        BY DEF StageBatch
    <2> HIDE DEF m
    <2>2. [id |-> m.id, row |-> m.row].id = m.id /\ [id |-> m.id, row |-> m.row].row = m.row
        OBVIOUS
    <2> QED
        BY <2>1, <2>2
<1>8. \A s \in staging : s.id = m.id => s \in StageBatch(m) \/ s.row[1] = m.row[1]
    BY DEF StageBatch
<1> HIDE DEF m
<1>9. /\ LaneOrdered'
      /\ \A a \in Answerer : job'[a].pc = "batches" => \A x \in DOMAIN toR' :
                /\ ~EndAt(x, job[a].id)'
                /\ BatchAt(x, job[a].id)' => toR'[x].batch < job'[a].batch
                /\ BeginAt(x, job[a].id)' => toR'[x].high = job'[a].high /\ toR'[x].epoch = job'[a].epoch
      /\ \A a, b \in Answerer : job'[a].pc = "batches" /\ Sends(b, job[a].id)' => a = b
    BY <1>1, ReadOrdered
\* Whoever still writes this snapshot is ahead of the batch just read.
<1>10. ASSUME NEW a \in Answerer, Sends(a, m.id) PROVE job[a].batch \in Nat /\ m.batch < job[a].batch
    <2>1. BatchAt(1, job[a].id) /\ job[a].pc = "batches"
        BY <1>1, <1>2, <1>10 DEF BatchAt, Sends
    <2> QED
        BY <1>2, <2>1, JobRows DEF Typed, Snapshots, JobsAhead
<1>11. JobsAhead'
    <2>1. ASSUME NEW a \in Answerer, job'[a].pc = "batches", begun'.id = job'[a].id
          PROVE  begun'.high = job'[a].high /\ begun'.epoch = job'[a].epoch /\ incoming'.batch <= job'[a].batch
        <3>1. begun.high = job[a].high /\ begun.epoch = job[a].epoch /\ incoming.batch <= job[a].batch
            BY <1>1, <2>1 DEF Snapshots, JobsAhead
        <3>2. CASE incoming' = incoming
            BY <1>1, <3>1, <3>2
        <3>3. CASE Taken /\ incoming'.batch = incoming.batch + 1
            <4>1. Sends(a, m.id)
                BY <1>1, <2>1, <3>3 DEF Sends
            <4> QED
                BY <1>1, <1>4, <1>10, <3>1, <3>3, <4>1
        <3> QED
            BY <1>5, <3>2, <3>3
    <2> QED
        BY <1>9, <2>1 DEF JobsAhead
<1>12. BeginsNew'
    <2> SUFFICES ASSUME NEW x \in DOMAIN toR', toR'[x].type = "Begin"
                 PROVE  begun'.id # toR'[x].id /\ \A s \in staging' : s.id # toR'[x].id
        BY DEF BeginsNew
    <2>1. x + 1 \in DOMAIN toR /\ toR'[x] = toR[x + 1]
        BY <1>2
    <2>2. begun.id # toR[x + 1].id /\ \A s \in staging : s.id # toR[x + 1].id
        BY <2>1 DEF Snapshots, BeginsNew
    <2> QED
        BY <1>1, <1>5, <1>6, <2>1, <2>2
<1>13. ASSUME NEW k \in Nat, NEW h \in Nat, Open(k, h)'
       PROVE  Open(k, h) /\ (k = m.id => begun.id = k)
              /\ (k # begun.id => \A s \in staging : s.id # k)
    <2>1. Open(k, h)
        BY <1>1, <1>2, <1>13 DEF Open, BeginAt
    <2>2. ASSUME begun.id # k PROVE k # m.id /\ \A s \in staging : s.id # k
        <3>1. PICK x \in DOMAIN toR : BeginAt(x, k)
            BY <2>1, <2>2 DEF Open
        <3>2. x # 1
            BY <1>1, <1>2, <3>1 DEF BeginAt
        <3>3. k # m.id
            BY <1>3, <3>1, <3>2 DEF SnapshotFrame, Follows, BeginAt
        <3> QED
            BY <3>1, <3>3 DEF Snapshots, BeginsNew, BeginAt
    <2> QED
        BY <2>1, <2>2
<1>14. OpenFresh'
    <2> SUFFICES ASSUME NEW k \in Nat, NEW h \in Nat, Open(k, h)'
                 PROVE  /\ h <= high'
                        /\ \A s \in staging' : s.id = k => AsNewAs(s.row, h)'
                        /\ \A x \in DOMAIN toR' : BatchAt(x, k)' => AsNewAs(toR[x].row, h)'
        BY DEF OpenFresh, AsNewAs
    <2>1. /\ h <= high /\ \A s \in staging : s.id = k => AsNewAs(s.row, h)
          /\ \A x \in DOMAIN toR : BatchAt(x, k) => AsNewAs(toR[x].row, h)
        BY <1>13 DEF Snapshots, OpenFresh
    <2>2. \A s \in staging' : s.id = k => AsNewAs(s.row, h)
        <3>1. k = m.id => AsNewAs(m.row, h)
            BY <1>1, <1>2, <2>1 DEF BatchAt
        <3> QED
            BY <1>5, <1>6, <2>1, <3>1
    <2> QED
        BY <1>1, <1>2, <2>1, <2>2 DEF AsNewAs, BatchAt, high
<1>15. OpenComplete'
    <2> SUFFICES ASSUME NEW k \in Nat, NEW h \in Nat, Open(k, h)'
                 PROVE  Broken(k)' \/ \A p \in Path : Owed(p, h)' => Reaches(k, p)'
        BY DEF OpenComplete
    <2>0. Open(k, h) /\ (k = m.id => begun.id = k) /\ (k # begun.id => \A s \in staging : s.id # k)
        BY <1>13
    <2>1. \A p : Owed(p, h)' <=> Owed(p, h)
        BY <1>1 DEF Owed
    <2>2. Broken(k) \/ \A p \in Path : Owed(p, h) => Reaches(k, p)
        BY <2>0 DEF Snapshots, OpenComplete
    <2>3. \A a \in Answerer : Sends(a, k)' <=> Sends(a, k)
        BY <1>1 DEF Sends
    \* The batches that remain, when the one just read is not among them.
    <2>4. ASSUME NEW y \in DOMAIN toR, BatchAt(y, k), y # 1
          PROVE  y - 1 \in DOMAIN toR' /\ BatchAt(y - 1, k)' /\ toR'[y - 1] = toR[y]
        BY <1>2, <2>4 DEF BatchAt
    <2>5. CASE k # m.id \/ Skipped
        <3>1. Expected(k)' = Expected(k)
            BY <1>1, <1>5, <2>5 DEF Expected
        <3>2. ASSUME Broken(k) PROVE Broken(k)'
            BY <1>1, <1>2, <2>3, <3>1, <3>2 DEF Broken, BatchAt, EndAt
        <3>3. ASSUME NEW p \in Path, Reaches(k, p) PROVE Reaches(k, p)'
            <4>1. CASE \E s \in staging : s.id = k /\ s.row[1] = p
                <5>1. staging' = staging
                    BY <1>5, <2>0, <2>5, <4>1
                <5> QED
                    BY <4>1, <5>1 DEF Reaches
            <4>2. ASSUME NEW y \in DOMAIN toR, BatchAt(y, k), toR[y].batch >= Expected(k), toR[y].row[1] = p
                  PROVE  Reaches(k, p)'
                <5>1. y # 1
                    <6>1. SUFFICES ASSUME y = 1 PROVE FALSE
                        OBVIOUS
                    <6>2. k = m.id /\ begun.id = k /\ m.batch < incoming.batch
                        BY <1>2, <2>0, <2>5, <4>2, <6>1 DEF BatchAt
                    <6> QED
                        BY <1>2, <1>4, <4>2, <6>1, <6>2 DEF Expected
                <5> QED
                    BY <2>4, <3>1, <4>2, <5>1 DEF Reaches
            <4>3. CASE \E a \in Answerer : Sends(a, k) /\ \E r \in job[a].rows : r[1] = p
                BY <1>1, <2>3, <4>3 DEF Reaches
            <4> QED
                BY <3>3, <4>1, <4>2, <4>3 DEF Reaches
        <3> QED
            BY <2>1, <2>2, <3>2, <3>3
    <2>6. CASE k = m.id /\ incoming' = incoming /\ m.batch >= incoming.batch
        <3>1. Expected(k)' = incoming.batch
            BY <1>1, <2>0, <2>6 DEF Expected
        <3>2. ASSUME NEW x \in DOMAIN toR'
              PROVE  /\ BatchAt(x, k)' => toR'[x].batch # incoming.batch
                     /\ EndAt(x, k)' => toR'[x].batches > incoming.batch
            <4>1. x + 1 \in DOMAIN toR /\ x + 1 # 1 /\ toR'[x] = toR[x + 1]
                BY <1>2
            <4>2. /\ toR[x + 1].type = "Batch" => toR[x + 1].batch \in Nat
                  /\ toR[x + 1].type = "End" => toR[x + 1].batches \in Nat
                BY <4>1, LaneKinds DEF Typed
            <4>3. SnapshotFrame(toR[x + 1]) /\ toR[x + 1].id = m.id => Follows(m, toR[x + 1])
                BY <1>3, <4>1
            <4> QED
                BY <1>1, <1>4, <2>6, <4>1, <4>2, <4>3 DEF SnapshotFrame, Follows, BatchAt, EndAt
        <3>3. ASSUME NEW a \in Answerer, Sends(a, k)' PROVE job'[a].batch > incoming.batch
            <4>1. Sends(a, m.id)
                BY <2>3, <2>6, <3>3
            <4> QED
                BY <1>1, <1>4, <1>10, <2>6, <4>1
        <3> QED
            BY <3>1, <3>2, <3>3 DEF Broken
    <2>7. CASE k = m.id /\ Taken /\ incoming'.batch = incoming.batch + 1
        <3>1. Expected(k) = incoming.batch /\ Expected(k)' = incoming.batch + 1
            BY <1>1, <2>7 DEF Expected
        <3>2. ~Broken(k)
            BY <1>1, <1>2, <2>7, <3>1 DEF Broken, BatchAt
        <3>3. ASSUME NEW p \in Path, Reaches(k, p) PROVE Reaches(k, p)'
            <4>1. CASE \E s \in staging : s.id = k /\ s.row[1] = p
                BY <1>7, <1>8, <2>7, <4>1 DEF Reaches
            <4>2. ASSUME NEW y \in DOMAIN toR, BatchAt(y, k), toR[y].batch >= Expected(k), toR[y].row[1] = p
                  PROVE  Reaches(k, p)'
                <5>1. CASE y = 1
                    BY <1>2, <1>7, <2>7, <4>2, <5>1 DEF Reaches
                <5>2. CASE y # 1
                    <6>1. m.batch < toR[y].batch /\ toR[y].batch \in Nat
                        BY <1>1, <1>3, <2>7, <4>2, <5>2, LaneKinds DEF SnapshotFrame, Follows, BatchAt, Typed
                    <6>2. toR[y].batch >= incoming.batch + 1
                        BY <1>4, <2>7, <6>1
                    <6> QED
                        BY <2>4, <3>1, <4>2, <5>2, <6>2 DEF Reaches
                <5> QED
                    BY <5>1, <5>2
            <4>3. CASE \E a \in Answerer : Sends(a, k) /\ \E r \in job[a].rows : r[1] = p
                BY <1>1, <2>3, <4>3 DEF Reaches
            <4> QED
                BY <3>3, <4>1, <4>2, <4>3 DEF Reaches
        <3> QED
            BY <2>1, <2>2, <3>2, <3>3
    <2>8. m.batch = incoming.batch => m.batch >= incoming.batch
        BY <1>4
    <2> QED
        BY <1>5, <2>5, <2>6, <2>7, <2>8
<1> QED
    BY <1>9, <1>11, <1>12, <1>14, <1>15 DEF Snapshots

\* A new epoch leaves no snapshot of it open, a new session none at all.
LEMMA RestartSnapshots ==
    ASSUME Typed, Snapshots, NEW a \in Pusher
    PROVE  /\ ForgetSubscription(a) => Snapshots'
           /\ Drop(a) => Snapshots'
<1>1. ASSUME ForgetSubscription(a) PROVE Snapshots'
    <2>1. /\ UNCHANGED <<toR, begun, staging>> /\ epoch' = epoch + 1 /\ epoch \in Nat
          /\ job' = [job EXCEPT ![a] = Called] /\ \A b \in Answerer : job[b] = Idle
        BY <1>1 DEF ForgetSubscription, receiverVars, Typed, SenderTyped
    <2>2. \A b \in Answerer : job'[b].pc # "batches"
        <3>1. \A b \in Answerer : job'[b] = Idle \/ job'[b] = Called
            BY <2>1 DEF Typed, JobsTyped
        <3> QED
            BY <3>1 DEF Idle, Called
    <2>3. \A i, h : ~Open(i, h)'
        <3>1. begun.epoch \in 0..epoch
            BY DEF Typed, ReceiverTyped
        <3>2. \A x \in DOMAIN toR : toR[x].type = "Begin" => toR[x].epoch \in 0..epoch
            BY LaneKinds DEF Typed
        <3>3. begun'.epoch # epoch' /\ \A x \in DOMAIN toR' : toR'[x].type = "Begin" => toR'[x].epoch # epoch'
            BY <2>1, <3>1, <3>2
        <3> QED
            BY <3>3 DEF Open, BeginAt
    <2>4. LaneOrdered' /\ BeginsNew'
        BY <2>1 DEF Snapshots, LaneOrdered, BeginsNew, SnapshotFrame, Follows
    <2>5. JobsAhead'
        BY <2>2 DEF JobsAhead
    <2>6. OpenFresh' /\ OpenComplete'
        BY <2>3 DEF OpenFresh, OpenComplete
    <2> QED
        BY <2>4, <2>5, <2>6 DEF Snapshots
<1>2. ASSUME Drop(a) PROVE Snapshots'
    <2>1. toR' = <<>> /\ begun'.id = 0 /\ \A b \in Answerer : job'[b] = Idle \/ job'[b] = Called
        BY <1>2 DEF Drop, NoSnapshot
    <2>2. \A b \in Answerer : job'[b].pc # "batches"
        BY <2>1 DEF Idle, Called
    <2>3. \A i, h : ~Open(i, h)'
        BY <2>1 DEF Open
    <2>4. LaneOrdered' /\ BeginsNew'
        BY <2>1 DEF LaneOrdered, BeginsNew
    <2>5. JobsAhead'
        BY <2>2 DEF JobsAhead
    <2>6. OpenFresh' /\ OpenComplete'
        BY <2>3 DEF OpenFresh, OpenComplete
    <2> QED
        BY <2>4, <2>5, <2>6 DEF Snapshots
<1> QED
    BY <1>1, <1>2

-----------------------------------------------------------------------------
(* The answers under way. *)

\* An answer stays current while its job is the same.
LEMMA CurrentStays ==
    ASSUME Typed, JobsCurrent, IndexGrows, high' \in Nat, NEW b \in Answerer, job'[b] = job[b]
    PROVE  JobCurrent(b)'
<1> SUFFICES ASSUME job[b].pc \in {"deltas", "list", "begin", "batches"}
             PROVE  JobCurrent(b)'
    BY DEF JobCurrent
<1>1. /\ job[b].epoch = epoch /\ job[b].high <= high
      /\ job[b].pc \in {"begin", "batches"} => \A r \in job[b].rows : AsNewAs(r, job[b].high)
      /\ job[b].pc = "begin" =>
            \A p \in Path : Owed(p, job[b].high) => \E r \in job[b].rows : r[1] = p
    BY DEF JobsCurrent, JobCurrent
<1>a. job[b].high \in Nat
    <2>1. job[b] \in Jobs(epoch)
        BY JobRows DEF Typed
    <2> QED
        BY <2>1, JobKinds DEF AnswerJobs, BeginJobs, BatchJobs
<1>b. PICK h \in Nat : h = job[b].high
    BY <1>a
<1>2. h \in Nat /\ high \in Nat
    BY DEF high, Typed, SenderTyped
<1>3. h = job[b].high /\ h = job'[b].high /\ h <= high
    BY <1>1, <1>b
<1>4. (\A r : AsNewAs(r, h) => AsNewAs(r, h)') /\ \A p : Owed(p, h)' => Owed(p, h)
    BY <1>2, <1>3, FreshStays DEF Typed
<1>5. job'[b].epoch = epoch' /\ h <= high'
    BY <1>1, <1>2, <1>3 DEF IndexGrows
<1>6. (\A r : AsNewAs(r, job[b].high)' <=> AsNewAs(r, h)') /\ (\A p : Owed(p, job[b].high)' <=> Owed(p, h)')
    BY <1>3 DEF AsNewAs, Owed
<1>7. (\A r : AsNewAs(r, job[b].high) <=> AsNewAs(r, h)) /\ (\A p : Owed(p, job[b].high) <=> Owed(p, h))
    BY <1>3 DEF AsNewAs, Owed
<1> QED
    BY <1>1, <1>3, <1>4, <1>5, <1>6, <1>7 DEF JobCurrent

\* One answerer's job changes.
LEMMA OneJobCurrent ==
    ASSUME Typed, Typed', JobsCurrent, IndexGrows, NEW a \in Answerer, NEW j,
           job' = [job EXCEPT ![a] = j], JobCurrent(a)'
    PROVE  JobsCurrent'
<1>1. \A b \in Answerer : b # a => job'[b] = job[b]
    BY DEF Typed, JobsTyped
<1>2. high' \in Nat
    BY DEF Typed, SenderTyped, high
<1> QED
    BY <1>1, <1>2, CurrentStays DEF JobsCurrent

\* Every job is either as it was or waiting.
LEMMA WaitingCurrent ==
    ASSUME Typed, Typed', JobsCurrent,
           \/ IndexGrows /\ \A b \in Answerer : job'[b] \in {Idle, Called, job[b]}
           \/ \A b \in Answerer : job'[b] \in {Idle, Called}
    PROVE  JobsCurrent'
<1>1. high' \in Nat
    BY DEF Typed, SenderTyped, high
<1>2. \A b \in Answerer : job'[b] \in {Idle, Called} => JobCurrent(b)'
    BY DEF JobCurrent, Idle, Called
<1>3. ASSUME IndexGrows, NEW b \in Answerer, job'[b] = job[b] PROVE JobCurrent(b)'
    BY <1>1, <1>3, CurrentStays
<1> QED
    BY <1>2, <1>3 DEF JobsCurrent

\* The steps of an answer keep it current.
LEMMA AnswerCurrent ==
    ASSUME Typed, Typed', JobsCurrent, NEW a \in Answerer, Answer(a)
    PROVE  JobsCurrent' /\ IndexGrows /\ reported' = reported /\ UNCHANGED receiverVars
<1>0. /\ high \in Nat /\ journal \in Seq(Path) /\ job[a] \in Jobs(epoch)
      /\ job \in [Answerer -> Jobs(epoch)]
    <2>1. high \in Nat /\ journal \in Seq(Path)
        BY DEF Typed, SenderTyped, high
    <2>2. job \in [Answerer -> Jobs(epoch)]
        BY DEF Typed, JobsTyped
    <2> QED
        BY <2>1, <2>2
<1>1. UNCHANGED <<journal, epoch, ignored, reported, receiverVars>>
    BY DEF Answer, SyncShare, answerSyncRequest, sendJournalDeltas, listRows, SnapshotBegin,
       SnapshotBatch, SnapshotEnd
<1>2. IndexGrows /\ high' = high
    BY <1>0, <1>1 DEF IndexGrows, high
<1> SUFFICES JobsCurrent'
    BY <1>1, <1>2
<1>3. ASSUME NEW r, job' = [job EXCEPT ![a] = Decided(r)] PROVE JobsCurrent'
    <2>1. job'[a] = Decided(r)
        BY <1>0, <1>3
    <2>2. JobCurrent(a)'
        BY <1>0, <1>1, <1>2, <2>1 DEF JobCurrent, Decided
    <2> QED
        BY <1>2, <1>3, <2>2, OneJobCurrent
<1>4. CASE SyncShare(a) \/ (a = "sync" /\ answerSyncRequest)
    BY <1>3, <1>4 DEF SyncShare, answerSyncRequest
<1>5. ASSUME job' = [job EXCEPT ![a] = Idle] PROVE JobsCurrent'
    <2>1. \A b \in Answerer : job'[b] \in {Idle, Called, job[b]}
        BY <1>0, <1>5
    <2> QED
        BY <1>2, <2>1, WaitingCurrent
<1>6. CASE sendJournalDeltas(a)
    <2> DEFINE j == job[a]
               page == JournalSince(j.epoch, j.applied)
               listing == [j EXCEPT !.pc = "list"]
               further == [j EXCEPT !.applied = Max(page)]
    <2>1. \/ job' = [job EXCEPT ![a] = Idle]
          \/ job' = [job EXCEPT ![a] = listing]
          \/ job' = [job EXCEPT ![a] = further]
        BY <1>6 DEF sendJournalDeltas
    <2>2. j \in AnswerJobs(epoch) /\ j.pc = "deltas"
        BY <1>0, <1>6, JobKinds DEF sendJournalDeltas
    <2>3. j.epoch = epoch /\ j.high <= high
        BY <2>2 DEF JobsCurrent, JobCurrent
    <2>4. ASSUME NEW l, l.pc \in {"deltas", "list"}, l.epoch = j.epoch, l.high = j.high,
                 job' = [job EXCEPT ![a] = l]
          PROVE  JobsCurrent'
        <3>1. job'[a] = l
            BY <1>0, <2>4
        <3>2. JobCurrent(a)'
            BY <1>1, <1>2, <2>3, <2>4, <3>1 DEF JobCurrent
        <3> QED
            BY <1>2, <2>4, <3>2, OneJobCurrent
    <2>5. /\ listing.pc \in {"deltas", "list"} /\ listing.epoch = j.epoch /\ listing.high = j.high
          /\ further.pc \in {"deltas", "list"} /\ further.epoch = j.epoch /\ further.high = j.high
        BY <2>2 DEF AnswerJobs
    <2> HIDE DEF listing, further
    <2> QED
        BY <1>5, <2>1, <2>4, <2>5
<1>7. CASE listRows(a)
    <2> DEFINE h == job[a].high
               l == [pc |-> "begin", epoch |-> job[a].epoch, high |-> h, rows |-> ListShare]
    <2>1. job' = [job EXCEPT ![a] = l] /\ job[a].pc = "list"
        BY <1>0, <1>7 DEF listRows
    <2>2. job[a].epoch = epoch /\ h <= high /\ h \in Nat
        BY <1>0, <2>1, JobKinds DEF JobsCurrent, JobCurrent, AnswerJobs
    <2>3. l.pc = "begin" /\ l.epoch = epoch /\ l.high = h /\ l.rows = ListShare
        BY <2>2
    <2> HIDE DEF l, h
    <2>4. ASSUME NEW r \in ListShare PROVE AsNewAs(r, h)
        <3>1. PICK p \in Path \ ignored : r = <<p, <<epoch, LatestSeq(high, p)>>>>
            BY DEF ListShare
        <3>2. \A k \in 1..high : journal[k] = p => k <= LatestSeq(high, p)
            BY <1>0, LatestFact
        <3> QED
            BY <1>0, <2>2, <3>1, <3>2 DEF AsNewAs
    <2>5. ASSUME NEW p \in Path, Owed(p, h) PROVE \E r \in ListShare : r[1] = p
        <3>1. PICK k \in 1..h : journal[k] = p
            BY <2>5 DEF Owed
        <3>2. LatestSeq(high, p) \in Nat /\ k <= LatestSeq(high, p)
            BY <1>0, <2>2, <3>1, LatestFact
        <3>3. <<p, <<epoch, LatestSeq(high, p)>>>> \in ListShare
            BY <2>2, <2>5, <3>1, <3>2 DEF ListShare, Owed
        <3> QED
            BY <3>3
    <2>6. JobCurrent(a)'
        <3>1. job'[a] = l
            BY <1>0, <2>1
        <3>2. \A r, k : AsNewAs(r, k)' <=> AsNewAs(r, k)
            BY <1>1 DEF AsNewAs
        <3>3. \A p, k : Owed(p, k)' <=> Owed(p, k)
            BY <1>1 DEF Owed
        <3>4. ASSUME NEW r \in job'[a].rows PROVE AsNewAs(r, job[a].high)'
            BY <1>1, <2>3, <2>4, <3>1, <3>4 DEF AsNewAs
        <3>5. ASSUME NEW p \in Path, Owed(p, job[a].high)' PROVE \E r \in job'[a].rows : r[1] = p
            <4>1. Owed(p, h)
                BY <1>1, <2>3, <3>1, <3>5 DEF Owed
            <4> QED
                BY <2>3, <2>5, <3>1, <4>1
        <3> QED
            BY <1>1, <1>2, <2>2, <2>3, <3>1, <3>4, <3>5 DEF JobCurrent
    <2> QED
        BY <1>2, <2>1, <2>6, OneJobCurrent
<1>8. ASSUME NEW l, job' = [job EXCEPT ![a] = l], l.pc = "batches", l.epoch = job[a].epoch,
             l.high = job[a].high, l.rows \subseteq job[a].rows, job[a].pc \in {"begin", "batches"}
      PROVE  JobsCurrent'
    <2>1. job'[a] = l
        BY <1>0, <1>8
    <2>2. job[a].epoch = epoch /\ job[a].high <= high /\ \A r \in job[a].rows : AsNewAs(r, job[a].high)
        BY <1>8 DEF JobsCurrent, JobCurrent
    <2>3. ASSUME NEW r \in job'[a].rows PROVE AsNewAs(r, job[a].high)'
        <3>1. AsNewAs(r, job[a].high)
            BY <1>8, <2>1, <2>2, <2>3
        <3> QED
            BY <1>1, <1>8, <2>1, <3>1 DEF AsNewAs
    <2>4. JobCurrent(a)'
        BY <1>1, <1>2, <1>8, <2>1, <2>2, <2>3 DEF JobCurrent
    <2> QED
        BY <1>2, <1>8, <2>4, OneJobCurrent
<1>9. CASE SnapshotBegin(a)
    <2> DEFINE l == [pc |-> "batches", epoch |-> job[a].epoch, high |-> job[a].high,
                     rows |-> job[a].rows, id |-> newSnapshotID, batch |-> 0]
    <2>1. job' = [job EXCEPT ![a] = l] /\ job[a].pc = "begin"
        BY <1>9 DEF SnapshotBegin
    <2>2. l.pc = "batches" /\ l.epoch = job[a].epoch /\ l.high = job[a].high /\ l.rows = job[a].rows
        OBVIOUS
    <2> HIDE DEF l
    <2> QED
        BY <1>8, <2>1, <2>2
<1>10. CASE SnapshotBatch(a)
    <2> DEFINE j == job[a]
               r == CHOOSE x \in j.rows : TRUE
               l == [j EXCEPT !.rows = @ \ {r}, !.batch = @ + 1]
    <2>1. j \in BatchJobs(epoch) /\ j.pc = "batches"
        BY <1>0, <1>10, JobKinds DEF SnapshotBatch
    <2>2. job' = [job EXCEPT ![a] = l]
        BY <1>0, <1>10 DEF SnapshotBatch
    <2> HIDE DEF r
    <2>3. l.pc = "batches" /\ l.epoch = j.epoch /\ l.high = j.high /\ l.rows = j.rows \ {r}
        BY <2>1 DEF BatchJobs
    <2> HIDE DEF l
    <2> QED
        BY <1>8, <2>1, <2>2, <2>3
<1>11. CASE SnapshotEnd(a)
    BY <1>5, <1>11 DEF SnapshotEnd
<1> QED
    BY <1>1, <1>2, <1>4, <1>6, <1>7, <1>9, <1>10, <1>11 DEF Answer

-----------------------------------------------------------------------------
(* Deltas, reports and the cursor. *)

\* The lane holds frames it held, and possibly f.
FramesFrom(f) ==
    \A x \in DOMAIN toR' : (\E y \in DOMAIN toR : toR'[x] = toR[y]) \/ toR'[x] = f

\* What the lane and the workers hold stays exact and reported.
LEMMA ContentStays ==
    ASSUME Typed, DeltasExact, UpdatesReported, IndexGrows, high' \in Nat, reported \subseteq reported',
           NEW f, FramesFrom(f),
           f.type = "Delta" /\ f.epoch = epoch => f.from \in Nat \ {0} /\ f.paths \in Seq(Path) /\ ExactDelta(f),
           f.type = "Update" => \A r \in f.rows : r[2] \in reported',
           \A rows \in handling' : rows \in handling \/ (\E x \in DOMAIN toR : toR[x].type = "Update" /\ rows = toR[x].rows)
    PROVE  DeltasExact' /\ UpdatesReported'
<1>0. high \in Nat /\ high <= high' /\ epoch' = epoch
    BY DEF Typed, SenderTyped, high, IndexGrows
<1>1. ASSUME NEW x \in DOMAIN toR', toR'[x].type = "Delta", toR'[x].epoch = epoch'
      PROVE  ExactDelta(toR[x])'
    <2>1. PICK g : /\ g = toR'[x] /\ g.from \in Nat \ {0} /\ g.paths \in Seq(Path) /\ ExactDelta(g)
        <3>1. CASE toR'[x] = f
            BY <1>0, <1>1, <3>1
        <3>2. ASSUME NEW y \in DOMAIN toR, toR'[x] = toR[y]
              PROVE  \E g : g = toR'[x] /\ g.from \in Nat \ {0} /\ g.paths \in Seq(Path) /\ ExactDelta(g)
            <4>1. toR[y] \in DeltaFrames(epoch) /\ ExactDelta(toR[y])
                BY <1>0, <1>1, <3>2, LaneKinds, FrameKinds DEF Typed, DeltasExact
            <4> QED
                BY <3>2, <4>1 DEF DeltaFrames
        <3> QED
            BY <3>1, <3>2 DEF FramesFrom
    <2>2. /\ Len(g.paths) \in Nat /\ g.from + Len(g.paths) - 1 <= high
          /\ \A k \in 1..Len(g.paths) : g.paths[k] = journal[g.from + k - 1]
        BY <2>1 DEF ExactDelta
    <2>3. ASSUME NEW k \in 1..Len(g.paths) PROVE g.paths[k] = journal'[g.from + k - 1]
        <3>1. g.from + k - 1 \in 1..high
            BY <1>0, <2>1, <2>2
        <3> QED
            BY <2>2, <3>1 DEF IndexGrows
    <2>4. g.from + Len(g.paths) - 1 <= high'
        BY <1>0, <2>1, <2>2
    <2> QED
        BY <2>1, <2>3, <2>4 DEF ExactDelta
<1>2. ASSUME NEW x \in DOMAIN toR', toR'[x].type = "Update", NEW r \in toR'[x].rows
      PROVE  r[2] \in reported'
    BY <1>2 DEF FramesFrom, UpdatesReported
<1>3. ASSUME NEW rows \in handling', NEW r \in rows PROVE r[2] \in reported'
    BY <1>3 DEF UpdatesReported
<1> QED
    BY <1>1, <1>2, <1>3 DEF DeltasExact, UpdatesReported

\* The lane unchanged, written to or read from.
LEMMA LaneFrames ==
    ASSUME LaneTyped
    PROVE  /\ toR' = toR => \A f : FramesFrom(f)
           /\ \A f : toR' = Append(toR, f) => FramesFrom(f)
           /\ toR # <<>> /\ toR' = Tail(toR) => \A f : FramesFrom(f)
           /\ toR' = <<>> => \A f : FramesFrom(f)
<1>1. ASSUME NEW f, toR' = Append(toR, f) PROVE FramesFrom(f)
    BY <1>1, WriteFacts DEF FramesFrom
<1>2. ASSUME toR # <<>>, toR' = Tail(toR), NEW f PROVE FramesFrom(f)
    BY <1>2, ReadFacts DEF FramesFrom
<1>3. ASSUME toR' = <<>>, NEW f PROVE FramesFrom(f)
    BY <1>3 DEF FramesFrom
<1>4. ASSUME toR' = toR, NEW f PROVE FramesFrom(f)
    BY <1>4 DEF FramesFrom
<1> QED
    BY <1>1, <1>2, <1>3, <1>4

\* While the cursor stays, rows that are newer or reported may replace others.
LEMMA CursorStays ==
    ASSUME Typed, CursorCovers, IndexGrows, high' \in Nat, reported \subseteq reported',
           incoming'.epoch = incoming.epoch, incoming'.applied = incoming.applied,
           \A p \in Path : mirror'[p] = mirror[p] \/ mirror'[p] \in reported
    PROVE  CursorCovers'
<1> SUFFICES ASSUME incoming'.epoch = epoch' PROVE CursorCovers'
    BY DEF CursorCovers
<1>1. /\ epoch' = epoch /\ high \in Nat /\ high <= high' /\ incoming.applied \in Nat
    BY DEF Typed, SenderTyped, ReceiverTyped, high, IndexGrows
<1>2. /\ incoming.applied <= high
      /\ \A p \in Path \ ignored : \A k \in 1..incoming.applied : journal[k] = p =>
            \/ mirror[p][1] = epoch /\ mirror[p][2] >= k
            \/ mirror[p] \in reported
    BY <1>1 DEF CursorCovers
<1>3. \A k \in 1..incoming.applied : journal'[k] = journal[k]
    BY <1>1, <1>2 DEF IndexGrows
<1>4. incoming'.applied <= high'
    BY <1>1, <1>2
<1>5. ASSUME NEW p \in Path \ ignored', NEW k \in 1..incoming'.applied, journal'[k] = p
      PROVE  (mirror'[p][1] = epoch' /\ mirror'[p][2] >= k) \/ mirror'[p] \in reported'
    BY <1>1, <1>2, <1>3, <1>5 DEF IndexGrows
<1> QED
    BY <1>4, <1>5 DEF CursorCovers

\* A cursor at 0 or of another epoch promises nothing.
LEMMA CursorEmpty ==
    ASSUME Typed', incoming'.epoch = epoch' => incoming'.applied = 0
    PROVE  CursorCovers'
BY DEF CursorCovers, Typed, SenderTyped, high

\* A delta that fits moves the cursor by what it brings.
LEMMA DeltaCovers ==
    ASSUME Typed, DeltasExact, CursorCovers, NEW ok \in BOOLEAN, ReceiveDelta(ok)
    PROVE  CursorCovers'
<1> DEFINE m == Head(toR)
           to == m.from + Len(m.paths) - 1
<1>1. /\ toR # <<>> /\ toR' = Tail(toR) /\ m.type = "Delta"
      /\ UNCHANGED <<journal, epoch, ignored, reported>>
    BY DEF ReceiveDelta, Receive, senderVars
<1>2. 1 \in DOMAIN toR /\ m = toR[1] /\ m \in Frames(epoch)
    BY <1>1, ReadFacts DEF Typed
<1>3. /\ m \in DeltaFrames(epoch) /\ m.from \in Nat \ {0} /\ m.paths \in Seq(Path)
      /\ Len(m.paths) \in Nat
    BY <1>1, <1>2, FrameKinds DEF DeltaFrames
<1>4. \/ mirror' = mirror /\ incoming' = incoming
      \/ /\ DeltaFits(m) /\ mirror' = Upsert(DeltaRows(m))
         /\ incoming' = [incoming EXCEPT !.applied = to]
    BY DEF ReceiveDelta
<1>5. IndexGrows /\ high' = high /\ high \in Nat
    BY <1>1 DEF IndexGrows, high, Typed, SenderTyped
<1>6. m.epoch = epoch => ExactDelta(m)
    BY <1>1, <1>2 DEF DeltasExact
<1> HIDE DEF m
<1>7. CASE mirror' = mirror /\ incoming' = incoming
    BY <1>1, <1>5, <1>7, CursorStays
<1>8. CASE /\ DeltaFits(m) /\ mirror' = Upsert(DeltaRows(m))
           /\ incoming' = [incoming EXCEPT !.applied = to]
    <2>1. incoming'.epoch = incoming.epoch /\ incoming'.applied = to
        BY <1>8 DEF Typed, ReceiverTyped
    <2> SUFFICES ASSUME incoming.epoch = epoch PROVE CursorCovers'
        BY <1>1, <2>1 DEF CursorCovers
    <2>2. m.epoch = epoch /\ m.from = incoming.applied + 1 /\ incoming.applied \in Nat
        BY <1>8 DEF DeltaFits, Typed, ReceiverTyped
    <2>3. to <= high /\ \A k \in 1..Len(m.paths) : m.paths[k] = journal[m.from + k - 1]
        BY <1>6, <2>2 DEF ExactDelta
    <2>4. ASSUME NEW p \in Path \ ignored, NEW k \in 1..to, journal[k] = p
          PROVE  (mirror'[p][1] = epoch /\ mirror'[p][2] >= k) \/ mirror'[p] \in reported
        <3> DEFINE R == DeltaRows(m)
        <3>1. mirror'[p] = IF \E r \in R : r[1] = p THEN (CHOOSE r \in R : r[1] = p)[2] ELSE mirror[p]
            BY <1>8 DEF Upsert
        <3>2. /\ \A r \in R : \E i \in 1..Len(m.paths) :
                    /\ r = <<m.paths[i], <<m.epoch, m.from + i - 1>>>>
                    /\ \A n \in 1..Len(m.paths) : m.paths[n] = m.paths[i] => n <= i
              /\ \A n \in 1..Len(m.paths) : \E r \in R : r[1] = m.paths[n]
            BY <1>3, DeltaRowFact
        <3> HIDE DEF R
        <3>3. CASE \E r \in R : r[1] = p
            <4>1. PICK r \in R : r[1] = p /\ mirror'[p] = r[2]
                BY <3>1, <3>3
            <4>2. PICK i \in 1..Len(m.paths) :
                      /\ r = <<m.paths[i], <<m.epoch, m.from + i - 1>>>>
                      /\ \A n \in 1..Len(m.paths) : m.paths[n] = m.paths[i] => n <= i
                BY <3>2, <4>1
            <4>3. m.paths[i] = p /\ mirror'[p] = <<epoch, m.from + i - 1>>
                BY <2>2, <4>1, <4>2
            <4>4. k <= m.from + i - 1
                <5>1. CASE k < m.from
                    BY <1>3, <5>1
                <5>2. CASE k >= m.from
                    <6> DEFINE n == k - m.from + 1
                    <6>1. n \in 1..Len(m.paths) /\ m.from + n - 1 = k
                        BY <1>3, <5>2
                    <6>2. m.paths[n] = p
                        BY <2>3, <2>4, <6>1
                    <6>3. n <= i
                        <7> HIDE DEF n
                        <7> QED
                            BY <4>2, <4>3, <6>1, <6>2
                    <6> QED
                        BY <1>3, <6>3
                <5> QED
                    BY <1>3, <5>1, <5>2
            <4> QED
                BY <1>3, <4>3, <4>4
        <3>4. CASE ~\E r \in R : r[1] = p
            <4>1. mirror'[p] = mirror[p]
                BY <3>1, <3>4
            <4>2. k < m.from
                <5>1. SUFFICES ASSUME k >= m.from PROVE FALSE
                    BY <1>3
                <5> DEFINE n == k - m.from + 1
                <5>2. n \in 1..Len(m.paths) /\ m.from + n - 1 = k
                    BY <1>3, <5>1
                <5>3. m.paths[n] = p
                    BY <2>3, <2>4, <5>2
                <5> HIDE DEF n
                <5> QED
                    BY <3>2, <3>4, <5>2, <5>3
            <4>3. k \in 1..incoming.applied
                BY <1>3, <2>2, <4>2
            <4> QED
                BY <2>4, <4>1, <4>3 DEF CursorCovers
        <3> QED
            BY <3>3, <3>4
    <2> QED
        BY <1>1, <1>5, <2>1, <2>3, <2>4 DEF CursorCovers
<1> QED
    BY <1>4, <1>7, <1>8

\* The end of a snapshot that is whole moves the cursor to its mark: every row
\* it owes is staged, because none is left to come and no batch was lost.
LEMMA EndCovers ==
    ASSUME Typed, Snapshots, CursorCovers, NEW ok \in BOOLEAN, ReceiveEnd(ok)
    PROVE  CursorCovers'
<1> DEFINE m == Head(toR)
<1>1. /\ toR # <<>> /\ toR' = Tail(toR) /\ m.type = "End"
      /\ UNCHANGED <<journal, epoch, ignored, reported>>
    BY DEF ReceiveEnd, Receive, senderVars
<1>2. 1 \in DOMAIN toR /\ m = toR[1]
    BY <1>1, ReadFacts DEF Typed
<1>3. \/ mirror' = mirror /\ incoming' = incoming
      \/ /\ begun.id = m.id /\ incoming.batch = m.batches /\ mirror' = CommitSnapshot(m.id)
         /\ incoming' = [epoch |-> begun.epoch, applied |-> begun.high, id |-> 0, batch |-> 0]
    BY DEF ReceiveEnd
<1>4. /\ m.id \in Nat \ {0}
      /\ \A x \in DOMAIN toR : x # 1 /\ SnapshotFrame(toR[x]) /\ toR[x].id = m.id => Follows(m, toR[x])
    BY <1>1, HeadFirst DEF SnapshotFrame
<1>5. IndexGrows /\ high' = high /\ high \in Nat
    BY <1>1 DEF IndexGrows, high, Typed, SenderTyped
<1> HIDE DEF m
<1>6. CASE mirror' = mirror /\ incoming' = incoming
    BY <1>1, <1>5, <1>6, CursorStays
<1>7. CASE /\ begun.id = m.id /\ incoming.batch = m.batches /\ mirror' = CommitSnapshot(m.id)
           /\ incoming' = [epoch |-> begun.epoch, applied |-> begun.high, id |-> 0, batch |-> 0]
    <2>1. incoming'.epoch = begun.epoch /\ incoming'.applied = begun.high
        BY <1>7
    <2> SUFFICES ASSUME begun.epoch = epoch PROVE CursorCovers'
        BY <1>1, <2>1 DEF CursorCovers
    <2>2. PICK i \in Nat, h \in Nat : i = m.id /\ h = begun.high
        BY <1>4 DEF Typed, ReceiverTyped
    <2>3. Open(i, h)
        BY <1>4, <1>7, <2>2 DEF Open
    <2>4. h <= high /\ \A s \in staging : s.id = i => AsNewAs(s.row, h)
        BY <2>3 DEF Snapshots, OpenFresh
    <2>5. ~Broken(i)
        <3>1. EndAt(1, i) /\ Expected(i) = incoming.batch /\ toR[1].batches = incoming.batch
            BY <1>1, <1>2, <1>7, <2>2 DEF EndAt, Expected
        <3>2. incoming.batch \in Nat
            BY DEF Typed, ReceiverTyped
        <3> QED
            BY <1>2, <3>1, <3>2 DEF Broken
    <2>6. ASSUME NEW p \in Path, Owed(p, h) PROVE \E s \in staging : s.id = i /\ s.row[1] = p
        <3>1. Reaches(i, p)
            BY <2>3, <2>5, <2>6 DEF Snapshots, OpenComplete
        <3>2. \A x \in DOMAIN toR : ~BatchAt(x, i)
            BY <1>1, <1>2, <1>4, <2>2 DEF BatchAt, SnapshotFrame, Follows
        <3>3. \A a \in Answerer : ~Sends(a, i)
            BY <1>1, <1>2, <2>2 DEF Snapshots, JobsAhead, EndAt, Sends
        <3> QED
            BY <3>1, <3>2, <3>3 DEF Reaches
    <2>7. ASSUME NEW p \in Path \ ignored, NEW k \in 1..h, journal[k] = p
          PROVE  mirror'[p][1] = epoch /\ mirror'[p][2] >= k
        <3> DEFINE mine == {r.row[2] : r \in {x \in staging : x.id = i /\ x.row[1] = p}}
        <3>1. Owed(p, h)
            BY <2>7 DEF Owed
        <3>2. mine # {}
            BY <2>6, <3>1
        <3>3. mirror'[p] = CHOOSE v \in mine : TRUE
            BY <1>7, <2>2, <3>2 DEF CommitSnapshot
        <3>4. mirror'[p] \in mine
            <4> HIDE DEF mine
            <4> QED
                BY <3>2, <3>3
        <3>5. PICK s \in staging : s.id = i /\ s.row[1] = p /\ mirror'[p] = s.row[2]
            BY <3>4
        <3>6. AsNewAs(s.row, h) /\ s.row \in RowSet(epoch)
            BY <2>4, <3>5 DEF Typed, ReceiverTyped
        <3> QED
            BY <2>7, <3>5, <3>6 DEF AsNewAs, RowSet
    <2> QED
        BY <1>1, <1>5, <2>1, <2>2, <2>4, <2>7 DEF CursorCovers
<1> QED
    BY <1>3, <1>6, <1>7

-----------------------------------------------------------------------------
(* The invariant is kept. *)

NoFrame == [type |-> "None"]

\* A step that only touches the index, waiting calls, cursors of the sender or
\* the way back keeps all of it.
LEMMA CalmStep ==
    ASSUME IInv, Typed', JobsCurrent', IndexGrows, WritersSame, NEW d \in {0, 1}, Shifted(d),
           UNCHANGED <<begun, staging, incoming, mirror, handling>>, reported \subseteq reported',
           NEW f, FramesFrom(f),
           f.type = "Delta" /\ f.epoch = epoch => f.from \in Nat \ {0} /\ f.paths \in Seq(Path) /\ ExactDelta(f),
           f.type = "Update" => \A r \in f.rows : r[2] \in reported'
    PROVE  IInv'
<1>1. high' \in Nat
    BY DEF Typed, SenderTyped, high
<1>2. Snapshots'
    BY CalmSnapshots DEF IInv
<1>3. DeltasExact' /\ UpdatesReported'
    BY <1>1, ContentStays DEF IInv
<1>4. CursorCovers'
    BY <1>1, CursorStays DEF IInv
<1> QED
    BY <1>2, <1>3, <1>4 DEF IInv

LEMMA InitInv == Init => IInv
<1> SUFFICES ASSUME Init PROVE IInv
    OBVIOUS
<1>1. Typed
    BY InitTyped
<1>2. toR = <<>> /\ handling = {} /\ begun.id = 0 /\ \A a \in Answerer : job[a].pc = "idle"
    BY DEF Init, NoSnapshot, Idle
<1>3. JobsCurrent /\ JobsAhead
    BY <1>2 DEF JobsCurrent, JobCurrent, JobsAhead
<1>4. LaneOrdered /\ BeginsNew /\ DeltasExact /\ UpdatesReported
    BY <1>2 DEF LaneOrdered, BeginsNew, DeltasExact, UpdatesReported
<1>5. \A i, h : ~Open(i, h)
    BY <1>2 DEF Open
<1>6. OpenFresh /\ OpenComplete
    BY <1>5 DEF OpenFresh, OpenComplete
<1>7. CursorCovers
    <2>1. incoming.epoch = 0 /\ epoch = 1
        BY DEF Init
    <2> QED
        BY <2>1 DEF CursorCovers
<1> QED
    BY <1>1, <1>3, <1>4, <1>6, <1>7 DEF IInv, Snapshots

\* The index changes, or what comes back is read.
LEMMA ChangesInv ==
    ASSUME IInv, Typed'
    PROVE  /\ \A a \in Pusher, p \in Path : Change(a, p) => IInv'
           /\ \A p \in Path : PassChange(p) => IInv'
           /\ \A p \in Path : Ignore(p) => IInv'
           /\ \A k \in 1..(MaxSeq + 1) : PruneJournal(k) => IInv'
           /\ sendIndexUpdate => IInv'
           /\ Return => IInv'
           /\ UNCHANGED vars => IInv'
<1>0. /\ Typed /\ LaneTyped /\ journal \in Seq(Path) /\ high \in Nat /\ JobsCurrent
      /\ job \in [Answerer -> Jobs(epoch)]
    <2>1. Typed /\ SenderTyped /\ LaneTyped /\ JobsTyped /\ JobsCurrent
        BY DEF IInv, Typed
    <2>2. journal \in Seq(Path) /\ high \in Nat
        BY <2>1 DEF SenderTyped, high
    <2> QED
        BY <2>1, <2>2 DEF JobsTyped
<1>1. NoFrame.type = "None"
    BY DEF NoFrame
\* The lane as it was, and jobs at most waiting.
<1>2. ASSUME toR' = toR, IndexGrows, reported' = reported, UNCHANGED receiverVars,
             \A b \in Answerer : job'[b] = job[b] \/ (job[b] = Idle /\ job'[b] = Called)
      PROVE  IInv'
    <2>1. WritersSame
        BY <1>2 DEF WritersSame, Idle, Called
    <2>2. JobsCurrent'
        BY <1>0, <1>2, WaitingCurrent
    <2>3. Shifted(0) /\ FramesFrom(NoFrame)
        BY <1>0, <1>2, LaneShifted, LaneFrames
    <2> QED
        BY <1>1, <1>2, <2>1, <2>2, <2>3, CalmStep DEF receiverVars
<1>3. ASSUME NEW p \in Path, journal' = Append(journal, p), epoch' = epoch, ignored' = ignored
      PROVE  IndexGrows
    BY <1>0, <1>3 DEF IndexGrows, high
<1>4. ASSUME journal' = journal, epoch' = epoch, ignored \subseteq ignored' PROVE IndexGrows
    BY <1>0, <1>4 DEF IndexGrows, high
<1>5. ASSUME NEW a \in Pusher, NEW p \in Path, Change(a, p) PROVE IInv'
    <2>1. IndexGrows
        BY <1>3, <1>5 DEF Change
    <2>2. \A b \in Answerer : job'[b] = job[b] \/ (job[b] = Idle /\ job'[b] = Called)
        BY <1>0, <1>5 DEF Change
    <2> QED
        BY <1>2, <1>5, <2>1, <2>2 DEF Change
<1>6. ASSUME NEW p \in Path, PassChange(p) PROVE IInv'
    <2>1. IndexGrows
        BY <1>3, <1>6 DEF PassChange
    <2> QED
        BY <1>2, <1>6, <2>1 DEF PassChange
<1>7. ASSUME NEW p \in Path, Ignore(p) PROVE IInv'
    <2>1. IndexGrows
        BY <1>4, <1>7 DEF Ignore
    <2> QED
        BY <1>2, <1>7, <2>1 DEF Ignore
<1>8. ASSUME NEW k \in 1..(MaxSeq + 1), PruneJournal(k) PROVE IInv'
    <2>1. IndexGrows
        BY <1>4, <1>8 DEF PruneJournal
    <2> QED
        BY <1>2, <1>8, <2>1 DEF PruneJournal
<1>9. ASSUME sendIndexUpdate PROVE IInv'
    <2> DEFINE f == [type |-> "Update", rows |-> {r \in updates : r[1] \notin ignored}]
    <2>1. IndexGrows
        BY <1>4, <1>9 DEF sendIndexUpdate
    <2>2. toR' = Append(toR, f) /\ job' = job /\ UNCHANGED receiverVars /\ reported \subseteq reported'
        BY <1>9 DEF sendIndexUpdate, Write
    <2>3. f.type = "Update" /\ \A r \in f.rows : r[2] \in reported'
        BY <1>9 DEF sendIndexUpdate
    <2>4. ~SnapshotFrame(f)
        BY DEF SnapshotFrame
    <2> HIDE DEF f
    <2>5. Shifted(0) /\ FramesFrom(f)
        BY <1>0, <2>2, <2>4, LaneShifted, LaneFrames
    <2>6. JobsCurrent' /\ WritersSame
        BY <1>0, <2>1, <2>2, WaitingCurrent DEF WritersSame
    <2>7. UNCHANGED <<begun, staging, incoming, mirror, handling>>
        BY <2>2 DEF receiverVars
    <2> QED
        BY <2>1, <2>2, <2>3, <2>5, <2>6, <2>7, CalmStep
<1>10. ASSUME Return PROVE IInv'
    <2>1. UNCHANGED <<journal, epoch, ignored, job, reported, receiverVars, toR>>
        BY <1>10 DEF Return, acceptIndexAck, ReceiveSyncRequest
    <2> QED
        BY <1>2, <1>4, <2>1
<1>11. ASSUME UNCHANGED vars PROVE IInv'
    BY <1>2, <1>4, <1>11 DEF vars, senderVars
<1> QED
    BY <1>5, <1>6, <1>7, <1>8, <1>9, <1>10, <1>11

\* A new epoch or a new session.
LEMMA RestartInv ==
    ASSUME IInv, Typed', NEW a \in Pusher
    PROVE  /\ ForgetSubscription(a) => IInv'
           /\ Drop(a) => IInv'
<1>0. Typed /\ JobsCurrent /\ Snapshots /\ job \in [Answerer -> Jobs(epoch)] /\ epoch \in Nat
    BY DEF IInv, Typed, JobsTyped, SenderTyped
<1>1. ASSUME ForgetSubscription(a) PROVE IInv'
    <2>1. /\ UNCHANGED <<toR, handling, reported, incoming>> /\ epoch' = epoch + 1
          /\ job' = [job EXCEPT ![a] = Called] /\ \A b \in Answerer : job[b] = Idle
        BY <1>1 DEF ForgetSubscription, receiverVars
    <2>2. \A b \in Answerer : job'[b] \in {Idle, Called}
        BY <1>0, <2>1
    <2>3. JobsCurrent'
        BY <1>0, <2>2, WaitingCurrent
    <2>4. Snapshots'
        BY <1>0, <1>1, RestartSnapshots
    <2>5. DeltasExact'
        <3>1. \A x \in DOMAIN toR : toR[x].type = "Delta" => toR[x].epoch \in 0..epoch
            BY LaneKinds, FrameKinds DEF IInv, Typed, DeltaFrames
        <3>2. \A x \in DOMAIN toR : toR[x].type = "Delta" => toR[x].epoch # epoch'
            BY <1>0, <2>1, <3>1
        <3> QED
            BY <2>1, <3>2 DEF DeltasExact
    <2>6. UpdatesReported'
        BY <2>1 DEF IInv, UpdatesReported
    <2>7. CursorCovers'
        <3>1. incoming.epoch \in 0..epoch
            BY DEF IInv, Typed, ReceiverTyped
        <3>2. incoming'.epoch # epoch'
            BY <1>0, <2>1, <3>1
        <3> QED
            BY <3>2 DEF CursorCovers
    <2> QED
        BY <2>3, <2>4, <2>5, <2>6, <2>7 DEF IInv
<1>2. ASSUME Drop(a) PROVE IInv'
    <2>1. /\ toR' = <<>> /\ handling' = {} /\ \A b \in Answerer : job'[b] \in {Idle, Called}
          /\ UNCHANGED <<journal, epoch, ignored, reported, incoming, mirror>>
        BY <1>2 DEF Drop
    <2>2. JobsCurrent'
        BY <1>0, <2>1, WaitingCurrent
    <2>3. Snapshots'
        BY <1>0, <1>2, RestartSnapshots
    <2>4. DeltasExact' /\ UpdatesReported'
        BY <2>1 DEF DeltasExact, UpdatesReported
    <2>5. CursorCovers'
        BY <2>1 DEF IInv, CursorCovers, high
    <2> QED
        BY <2>2, <2>3, <2>4, <2>5 DEF IInv
<1> QED
    BY <1>1, <1>2

\* The sender answers.
LEMMA AnswerInv ==
    ASSUME IInv, Typed', NEW a \in Answerer, Answer(a)
    PROVE  IInv'
<1>0. /\ Typed /\ LaneTyped /\ journal \in Seq(Path) /\ high \in Nat /\ JobsCurrent /\ Snapshots
      /\ job \in [Answerer -> Jobs(epoch)] /\ oldest \in Nat \ {0}
    <2>1. Typed /\ SenderTyped /\ LaneTyped /\ JobsTyped /\ JobsCurrent /\ Snapshots
        BY DEF IInv, Typed
    <2>2. journal \in Seq(Path) /\ high \in Nat /\ oldest \in Nat \ {0}
        BY <2>1 DEF SenderTyped, high
    <2> QED
        BY <2>1, <2>2 DEF JobsTyped
<1>1. JobsCurrent' /\ IndexGrows /\ reported' = reported /\ UNCHANGED receiverVars
    BY <1>0, AnswerCurrent
<1>2. UNCHANGED <<begun, staging, incoming, mirror, handling>>
    BY <1>1 DEF receiverVars
<1>3. high' \in Nat
    BY DEF Typed, SenderTyped, high
<1>4. NoFrame.type = "None"
    BY DEF NoFrame
<1>5. ASSUME Snapshots', NEW f, toR' = Append(toR, f), f.type \notin {"Delta", "Update"} PROVE IInv'
    <2>1. FramesFrom(f)
        BY <1>0, <1>5, LaneFrames
    <2>2. DeltasExact' /\ UpdatesReported'
        BY <1>1, <1>2, <1>3, <1>5, <2>1, ContentStays DEF IInv
    <2>3. CursorCovers'
        BY <1>1, <1>2, <1>3, CursorStays DEF IInv
    <2> QED
        BY <1>1, <1>5, <2>2, <2>3 DEF IInv
<1>6. ASSUME toR' = toR, WritersSame PROVE IInv'
    <2>1. Shifted(0) /\ FramesFrom(NoFrame)
        BY <1>0, <1>6, LaneShifted, LaneFrames
    <2> QED
        BY <1>1, <1>2, <1>4, <1>6, <2>1, CalmStep
\* A job that neither was nor becomes the writing of a snapshot.
<1>7. ASSUME NEW j, job' = [job EXCEPT ![a] = j], j.pc # "batches", job[a].pc # "batches" PROVE WritersSame
    BY <1>0, <1>7 DEF WritersSame
<1>8. CASE SyncShare(a) \/ (a = "sync" /\ answerSyncRequest)
    <2>1. \A r : Decided(r).pc # "batches"
        BY DEF Decided
    <2>2. job[a].pc # "batches"
        BY <1>8 DEF SyncShare, answerSyncRequest, Idle, Called
    <2>3. WritersSame
        BY <1>7, <1>8, <2>1, <2>2 DEF SyncShare, answerSyncRequest
    <2> QED
        BY <1>6, <1>8, <2>3 DEF SyncShare, answerSyncRequest
<1>9. CASE sendJournalDeltas(a)
    <2> DEFINE j == job[a]
               page == JournalSince(j.epoch, j.applied)
               f == [type |-> "Delta", epoch |-> j.epoch, from |-> Min(page),
                     paths |-> SubSeq(journal, Min(page), Max(page))]
               listing == [j EXCEPT !.pc = "list"]
               further == [j EXCEPT !.applied = Max(page)]
    <2>1. \/ job' = [job EXCEPT ![a] = Idle]
          \/ job' = [job EXCEPT ![a] = listing]
          \/ job' = [job EXCEPT ![a] = further]
        BY <1>9 DEF sendJournalDeltas
    <2>2. j \in AnswerJobs(epoch) /\ j.pc = "deltas" /\ j.applied \in Nat
        BY <1>0, <1>9, JobKinds DEF sendJournalDeltas, AnswerJobs
    <2>3. listing.pc # "batches" /\ further.pc # "batches" /\ Idle.pc # "batches"
        BY <2>2 DEF AnswerJobs, Idle
    <2>4. WritersSame
        <3> HIDE DEF listing, further
        <3> QED
            BY <1>7, <2>1, <2>2, <2>3
    <2>5. toR' = toR \/ (page # {} /\ toR' = Append(toR, f))
        BY <1>9 DEF sendJournalDeltas, Write
    <2>6. CASE page # {} /\ toR' = Append(toR, f)
        <3>1. j.epoch = epoch /\ Min(page) \in 1..high /\ Max(page) \in Min(page)..high
            BY <1>0, <2>2, <2>6, PageFact
        <3>2. /\ f.paths \in Seq(Path) /\ Len(f.paths) = Max(page) - Min(page) + 1
              /\ \A k \in 1..(Max(page) - Min(page) + 1) : f.paths[k] = journal[Min(page) + k - 1]
            <4>1. Min(page) \in Int /\ Max(page) \in Int /\ Min(page) <= Max(page)
                BY <1>0, <3>1
            <4>2. \A k \in Min(page)..Max(page) : journal[k] \in Path
                BY <1>0, <3>1 DEF high
            <4> HIDE DEF page
            <4> QED
                BY <4>1, <4>2, SubSeqProperties
        <3>3. f.type = "Delta" /\ f.epoch = epoch /\ f.from = Min(page)
            BY <3>1
        <3> HIDE DEF f, page
        <3>4. f.from \in Nat \ {0} /\ f.paths \in Seq(Path) /\ ExactDelta(f)
            <4>1. f.from \in Nat \ {0} /\ Max(page) \in Nat /\ Max(page) <= high
                BY <1>0, <3>1, <3>3
            <4>2. f.from + Len(f.paths) - 1 = Max(page)
                BY <3>2, <3>3, <4>1
            <4> QED
                BY <3>2, <3>3, <4>1, <4>2 DEF ExactDelta
        <3>5. ~SnapshotFrame(f)
            BY <3>3 DEF SnapshotFrame
        <3>6. Shifted(0) /\ FramesFrom(f)
            BY <1>0, <2>6, <3>5, LaneShifted, LaneFrames
        <3> QED
            BY <1>1, <1>2, <2>4, <3>3, <3>4, <3>6, CalmStep
    <2> QED
        BY <1>6, <2>4, <2>5, <2>6
<1>10. CASE listRows(a)
    <2> DEFINE l == [pc |-> "begin", epoch |-> job[a].epoch, high |-> job[a].high, rows |-> ListShare]
    <2>1. job' = [job EXCEPT ![a] = l] /\ job[a].pc = "list" /\ toR' = toR
        BY <1>0, <1>10 DEF listRows
    <2>2. l.pc = "begin"
        OBVIOUS
    <2> HIDE DEF l
    <2> QED
        BY <1>6, <1>7, <2>1, <2>2
<1>11. CASE SnapshotBegin(a)
    <2> DEFINE f == [type |-> "Begin", id |-> newSnapshotID, epoch |-> job[a].epoch, high |-> job[a].high]
    <2>1. toR' = Append(toR, f) /\ f.type = "Begin"
        BY <1>11 DEF SnapshotBegin, Write
    <2>2. Snapshots'
        BY <1>0, <1>11, BeginWritten
    <2> HIDE DEF f
    <2> QED
        BY <1>5, <2>1, <2>2
<1>12. CASE SnapshotBatch(a)
    <2> DEFINE f == [type |-> "Batch", id |-> job[a].id, batch |-> job[a].batch,
                     row |-> CHOOSE x \in job[a].rows : TRUE]
    <2>1. toR' = Append(toR, f) /\ f.type = "Batch"
        BY <1>12 DEF SnapshotBatch, Write
    <2>2. Snapshots'
        BY <1>0, <1>12, BatchWritten
    <2> HIDE DEF f
    <2> QED
        BY <1>5, <2>1, <2>2
<1>13. CASE SnapshotEnd(a)
    <2> DEFINE f == [type |-> "End", id |-> job[a].id, batches |-> job[a].batch]
    <2>1. toR' = Append(toR, f) /\ f.type = "End"
        BY <1>13 DEF SnapshotEnd, Write
    <2>2. Snapshots'
        BY <1>0, <1>13, EndWritten
    <2> HIDE DEF f
    <2> QED
        BY <1>5, <2>1, <2>2
<1> QED
    BY <1>8, <1>9, <1>10, <1>11, <1>12, <1>13 DEF Answer

\* The receiver reads a frame or applies a report.
LEMMA ReceiverInv ==
    ASSUME IInv, Typed', "begin" \notin Events
    PROVE  /\ Read => IInv'
           /\ \A rows \in handling : handleIndexUpdate(rows) => IInv'
<1>0. /\ Typed /\ LaneTyped /\ journal \in Seq(Path) /\ high \in Nat /\ JobsCurrent /\ Snapshots
      /\ DeltasExact /\ UpdatesReported /\ CursorCovers
    <2>1. /\ Typed /\ SenderTyped /\ LaneTyped /\ JobsCurrent /\ Snapshots
          /\ DeltasExact /\ UpdatesReported /\ CursorCovers
        BY DEF IInv, Typed
    <2>2. journal \in Seq(Path) /\ high \in Nat
        BY <2>1 DEF SenderTyped, high
    <2> QED
        BY <2>1, <2>2
<1>1. high' \in Nat
    BY DEF Typed, SenderTyped, high
<1>2. ASSUME UNCHANGED senderVars
      PROVE  JobsCurrent' /\ IndexGrows /\ WritersSame /\ reported' = reported /\ epoch' = epoch
    <2>1. UNCHANGED <<journal, epoch, ignored, job, reported>>
        BY <1>2 DEF senderVars
    <2>2. IndexGrows /\ WritersSame
        BY <1>0, <2>1 DEF IndexGrows, WritersSame, high
    <2>3. JobsCurrent'
        BY <1>0, <2>1, <2>2, WaitingCurrent
    <2> QED
        BY <2>1, <2>2, <2>3
<1>3. ASSUME UNCHANGED senderVars, toR # <<>>, toR' = Tail(toR),
             \A rows \in handling' : rows \in handling
                 \/ (\E x \in DOMAIN toR : toR[x].type = "Update" /\ rows = toR[x].rows)
      PROVE  DeltasExact' /\ UpdatesReported'
    <2>1. FramesFrom(NoFrame) /\ NoFrame.type = "None"
        BY <1>0, <1>3, LaneFrames DEF NoFrame
    <2> QED
        BY <1>0, <1>1, <1>2, <1>3, <2>1, ContentStays
<1>4. ASSUME UNCHANGED senderVars, incoming'.epoch = incoming.epoch, incoming'.applied = incoming.applied,
             \A p \in Path : mirror'[p] = mirror[p] \/ mirror'[p] \in reported
      PROVE  CursorCovers'
    BY <1>0, <1>1, <1>2, <1>4, CursorStays
<1>5. ASSUME ReceiveBatch PROVE IInv'
    <2>1. toR # <<>> /\ toR' = Tail(toR) /\ UNCHANGED <<senderVars, handling, mirror>>
        BY <1>5 DEF ReceiveBatch, Receive
    <2>2. incoming'.epoch = incoming.epoch /\ incoming'.applied = incoming.applied
        <3>1. incoming' \in {incoming, [incoming EXCEPT !.batch = @ + 1]}
            BY <1>5 DEF ReceiveBatch, StageAndCount
        <3> QED
            BY <1>0, <3>1 DEF Typed, ReceiverTyped
    <2>3. Snapshots'
        BY <1>0, <1>5, BatchRead
    <2> QED
        BY <1>2, <1>3, <1>4, <2>1, <2>2, <2>3 DEF IInv
<1>6. ASSUME ReceiveUpdate PROVE IInv'
    <2>1. /\ toR # <<>> /\ toR' = Tail(toR) /\ Head(toR).type = "Update"
          /\ UNCHANGED <<senderVars, incoming, begun, staging, mirror>>
          /\ handling' = handling \cup {Head(toR).rows}
        BY <1>6 DEF ReceiveUpdate, Receive
    <2>2. 1 \in DOMAIN toR /\ Head(toR) = toR[1]
        BY <1>0, <2>1, ReadFacts
    <2>3. ~SnapshotFrame(Head(toR))
        BY <2>1 DEF SnapshotFrame
    <2>4. Shifted(1)
        BY <1>0, <2>1, <2>3, LaneShifted
    <2>5. Snapshots'
        BY <1>0, <1>2, <2>1, <2>4, CalmSnapshots
    <2>6. DeltasExact' /\ UpdatesReported'
        BY <1>3, <2>1, <2>2
    <2> QED
        BY <1>2, <1>4, <2>1, <2>5, <2>6 DEF IInv
<1>7. ASSUME NEW ok \in BOOLEAN, ReceiveBegin(ok) PROVE IInv'
    <2>1. toR # <<>> /\ toR' = Tail(toR) /\ UNCHANGED <<senderVars, handling, mirror>>
        BY <1>7 DEF ReceiveBegin, Receive
    <2>2. incoming'.applied = 0
        BY <1>7 DEF ReceiveBegin, StoreWrite, Event, CursorAtBegin
    <2>3. Snapshots'
        BY <1>0, <1>7, BeginRead
    <2>4. CursorCovers'
        BY <2>2, CursorEmpty
    <2> QED
        BY <1>2, <1>3, <2>1, <2>3, <2>4 DEF IInv
<1>8. ASSUME NEW ok \in BOOLEAN, ReceiveEnd(ok) PROVE IInv'
    <2>1. toR # <<>> /\ toR' = Tail(toR) /\ UNCHANGED <<senderVars, handling>>
        BY <1>8 DEF ReceiveEnd, Receive
    <2>2. Snapshots' /\ CursorCovers'
        BY <1>0, <1>8, EndRead, EndCovers
    <2> QED
        BY <1>2, <1>3, <2>1, <2>2 DEF IInv
<1>9. ASSUME NEW ok \in BOOLEAN, ReceiveDelta(ok) PROVE IInv'
    <2>1. /\ toR # <<>> /\ toR' = Tail(toR) /\ Head(toR).type = "Delta"
          /\ UNCHANGED <<senderVars, begun, staging, handling>>
        BY <1>9 DEF ReceiveDelta, Receive
    <2>2. incoming'.batch = incoming.batch
        BY <1>0, <1>9 DEF ReceiveDelta, Typed, ReceiverTyped
    <2>3. ~SnapshotFrame(Head(toR))
        BY <2>1 DEF SnapshotFrame
    <2>4. Shifted(1)
        BY <1>0, <2>1, <2>3, LaneShifted
    <2>5. Snapshots'
        BY <1>0, <1>2, <2>1, <2>2, <2>4, CalmSnapshots
    <2>6. CursorCovers'
        BY <1>0, <1>9, DeltaCovers
    <2> QED
        BY <1>2, <1>3, <2>1, <2>5, <2>6 DEF IInv
<1>10. ASSUME NEW rows \in handling, handleIndexUpdate(rows) PROVE IInv'
    <2>1. /\ UNCHANGED <<senderVars, incoming, begun, staging, toR>>
          /\ mirror' = Upsert(rows) /\ handling' \subseteq handling
        BY <1>10 DEF handleIndexUpdate
    <2>2. \A p \in Path : mirror'[p] = mirror[p] \/ mirror'[p] \in reported
        <3>1. \A r \in rows : r[2] \in reported
            BY <1>0 DEF UpdatesReported
        <3> QED
            BY <2>1, <3>1 DEF Upsert
    <2>3. Shifted(0) /\ FramesFrom(NoFrame) /\ NoFrame.type = "None"
        BY <1>0, <2>1, LaneShifted, LaneFrames DEF NoFrame
    <2>4. Snapshots'
        BY <1>0, <1>2, <2>1, <2>3, CalmSnapshots
    <2>5. DeltasExact' /\ UpdatesReported'
        BY <1>0, <1>1, <1>2, <2>1, <2>3, ContentStays
    <2> QED
        BY <1>2, <1>4, <2>1, <2>2, <2>4, <2>5 DEF IInv
<1> QED
    BY <1>5, <1>6, <1>7, <1>8, <1>9, <1>10 DEF Read

LEMMA NextInv ==
    ASSUME "begin" \notin Events, IInv, [Next]_vars
    PROVE  IInv'
<1>1. Typed'
    BY NextTyped DEF IInv
<1> QED
    BY <1>1, ChangesInv, RestartInv, AnswerInv, ReceiverInv DEF Next

\* The entry-by-entry form gives the property the runs check.
LEMMA CoversSound ==
    ASSUME Typed, CursorCovers
    PROVE  CursorSound
<1> SUFFICES ASSUME incoming.epoch = epoch PROVE CursorSound
    BY DEF CursorSound
<1>1. incoming.applied <= high /\ incoming.applied \in 0..high /\ journal \in Seq(Path)
    BY DEF Typed, SenderTyped, ReceiverTyped, CursorCovers, high
<1>2. ASSUME NEW p \in Path \ ignored, LatestSeq(incoming.applied, p) > 0
      PROVE  \/ mirror[p][1] = epoch /\ mirror[p][2] >= LatestSeq(incoming.applied, p)
             \/ mirror[p] \in reported
    <2>1. /\ LatestSeq(incoming.applied, p) \in 1..incoming.applied
          /\ journal[LatestSeq(incoming.applied, p)] = p
        BY <1>1, <1>2, LatestFact
    <2> QED
        BY <2>1 DEF CursorCovers
<1> QED
    BY <1>1, <1>2 DEF CursorSound

\* The receiver's cursor is sound: whatever is lost, delayed, answered twice,
\* ignored, pruned or forgotten, and whichever batch, count, commit or delta
\* the receiver fails to store, everything up to its cursor is in its mirror.
\* The one write it rests on is the cursor's own at SnapshotBegin.
THEOREM CursorSoundAlways ==
    ASSUME "begin" \notin Events
    PROVE  Spec => []CursorSound
<1>1. IInv /\ [Next]_vars => IInv'
    BY NextInv
<1>2. IInv => CursorSound
    BY CoversSound DEF IInv
<1> QED
    BY InitInv, <1>1, <1>2, PTL DEF Spec
=============================================================================
