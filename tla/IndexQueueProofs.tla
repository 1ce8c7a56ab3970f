-------------------------- MODULE IndexQueueProofs --------------------------
(***************************************************************************)
(* The index queue for any keys, workers and bounds: a key is in one place *)
(* at a time, the requeue of a finished job has room, and the queue        *)
(* implements Coalesce.                                                    *)
(***************************************************************************)
EXTENDS IndexQueue, FiniteSetTheorems, TLAPS

\* The channel is no longer than what is pending beside the running key: it
\* holds pending keys, each once (enqueueIndex).
LEMMA ChannelShort ==
    ASSUME QueueTypeOK, OnChannel, InHand, Bounded
    PROVE  RoomReserved
<1> SUFFICES ASSUME NEW w \in Worker, Active(w), worker[w].key \in pending
             PROVE  Len(jobs) < MaxPending
    BY DEF RoomReserved
<1> DEFINE k == worker[w].key
           rest == pending \ {k}
           f == [i \in 1..Len(jobs) |-> jobs[i]]
<1>1. Len(jobs) \in Nat
    BY DEF QueueTypeOK
<1>2. k \in working
    BY DEF InHand, Active
<1>3. \A i \in 1..Len(jobs) : jobs[i] \in rest
    BY <1>2 DEF OnChannel
<1>4. f \in Injection(1..Len(jobs), rest)
    BY <1>3 DEF Injection, IsInjective, OnChannel
<1>5. IsFiniteSet(rest) /\ Cardinality(rest) = Cardinality(pending) - 1
    BY FS_RemoveElement DEF Bounded
<1>6. IsFiniteSet(1..Len(jobs)) /\ Cardinality(1..Len(jobs)) = Len(jobs)
    BY <1>1, FS_Interval
<1>7. Cardinality(1..Len(jobs)) <= Cardinality(rest)
    BY <1>4, <1>5, FS_Injection DEF ExistsInjection
<1>8. Cardinality(pending) \in Nat /\ MaxPending \in Nat
    BY FS_CardinalityType, IndexQueueAssumption DEF Bounded
<1> QED
    BY <1>1, <1>5, <1>6, <1>7, <1>8 DEF Bounded

\* A session starts with an empty queue (NewSession).
LEMMA InitInv == QueueInit => QueueInv
<1> SUFFICES ASSUME QueueInit PROVE QueueInv
    OBVIOUS
<1>1. QueueTypeOK
    <2>1. pending \subseteq Key /\ working \subseteq Key /\ jobs \in Seq(Key)
        BY DEF QueueInit
    <2>2. Free \in [pc : {"free", "took", "slot", "run", "gone"}, key : Key \cup {NoKey}]
        BY DEF Free, Doing
    <2>3. worker \in [Worker -> [pc : {"free", "took", "slot", "run", "gone"}, key : Key \cup {NoKey}]]
        BY <2>2 DEF QueueInit
    <2>4. updates \in Nat
        BY DEF QueueInit
    <2>5. ended \in BOOLEAN
        BY Zenon DEF QueueInit
    <2> QED
        BY <2>1, <2>3, <2>4, <2>5 DEF QueueTypeOK
<1>2. Len(jobs) = 0 /\ \A w \in Worker : worker[w].pc = "free"
    BY DEF QueueInit, Free, Doing
<1>3. OnChannel /\ InHand
    BY <1>2 DEF OnChannel, InHand, Held
<1>4. Bounded
    BY FS_EmptySet, IndexQueueAssumption DEF QueueInit, Bounded
<1> QED
    BY <1>1, <1>3, <1>4, ChannelShort DEF QueueInv

\* Closing an overloaded session leaves the queue as it is (rejectWork).
LEMMA OverloadKeeps ==
    ASSUME QueueInv, Overload
    PROVE  QueueTypeOK' /\ OnChannel' /\ InHand' /\ Bounded'
BY DEF QueueInv, Overload, QueueTypeOK, OnChannel, InHand, Bounded, Held

\* One more key fits under the bound that enqueueIndex tests.
LEMMA AddedFits ==
    ASSUME QueueInv, NEW k, k \notin pending, Cardinality(pending) < MaxPending,
           pending' = pending \cup {k}
    PROVE  Bounded'
<1>1. IsFiniteSet(pending) /\ Cardinality(pending) \in Nat
    BY FS_CardinalityType DEF QueueInv, Bounded
<1>2. IsFiniteSet(pending \cup {k}) /\ Cardinality(pending \cup {k}) = Cardinality(pending) + 1
    BY <1>1, FS_AddElement
<1>3. Cardinality(pending) + 1 <= MaxPending
    BY <1>1, IndexQueueAssumption
<1>4. IsFiniteSet(pending') /\ Cardinality(pending') <= MaxPending
    BY <1>2, <1>3
<1> QED
    BY <1>4 DEF Bounded

\* A request keeps every key in one place: its key joins the channel only
\* when it is neither pending nor running (enqueueIndex).
LEMMA EnqueueKeeps ==
    ASSUME QueueInv, NEW k \in Key, enqueueIndex(k)
    PROVE  QueueTypeOK' /\ OnChannel' /\ InHand' /\ Bounded'
<1> USE DEF QueueInv
<1>1. CASE UNCHANGED queueVars
    BY <1>1 DEF queueVars, QueueTypeOK, OnChannel, InHand, Bounded, Held
<1>2. CASE Overload
    BY <1>2, OverloadKeeps
<1>3. CASE /\ k \notin pending /\ Cardinality(pending) < MaxPending
           /\ pending' = pending \cup {k}
           /\ k \in working /\ jobs' = jobs
           /\ UNCHANGED <<working, worker, updates, ended>>
    <2>1. QueueTypeOK' /\ OnChannel' /\ InHand'
        BY <1>3 DEF QueueTypeOK, OnChannel, InHand, Held
    <2>2. Bounded'
        BY <1>3, AddedFits
    <2> QED
        BY <2>1, <2>2
<1>4. CASE /\ k \notin pending /\ Cardinality(pending) < MaxPending
           /\ pending' = pending \cup {k}
           /\ k \notin working /\ jobs' = Append(jobs, k)
           /\ UNCHANGED <<working, worker, updates, ended>>
    <2>1. QueueTypeOK'
        BY <1>4 DEF QueueTypeOK
    <2>2. /\ Len(jobs') = Len(jobs) + 1 /\ Len(jobs) \in Nat
          /\ \A i \in 1..Len(jobs) : jobs'[i] = jobs[i]
          /\ jobs'[Len(jobs) + 1] = k
        BY <1>4 DEF QueueTypeOK
    <2>3. \A i \in 1..Len(jobs') : i \in 1..Len(jobs) \/ i = Len(jobs) + 1
        BY <2>2
    <2>4. OnChannel'
        BY <1>4, <2>2, <2>3 DEF OnChannel, InHand
    <2>5. InHand'
        BY <1>4 DEF InHand, Held
    <2>6. Bounded'
        BY <1>4, AddedFits
    <2> QED
        BY <2>1, <2>4, <2>5, <2>6
<1> QED
    BY <1>1, <1>2, <1>3, <1>4 DEF enqueueIndex

\* A worker that takes a key off the channel is its only holder
\* (runIndexWorker).
LEMMA TakeKeyKeeps ==
    ASSUME QueueInv, NEW w \in Worker, TakeKey(w)
    PROVE  QueueTypeOK' /\ OnChannel' /\ InHand' /\ Bounded'
<1> USE DEF QueueInv
<1> DEFINE k == Head(jobs)
<1>1. /\ Len(jobs) \in Nat \ {0} /\ k = jobs[1] /\ k \in Key
      /\ Len(jobs') = Len(jobs) - 1
      /\ \A i \in 1..Len(jobs') : jobs'[i] = jobs[i + 1] /\ i + 1 \in 1..Len(jobs)
    BY DEF TakeKey, QueueTypeOK
<1>2. /\ worker'[w] = Doing("took", k) /\ worker' \in [Worker -> [pc : {"free", "took", "slot", "run", "gone"}, key : Key \cup {NoKey}]]
      /\ \A v \in Worker \ {w} : worker'[v] = worker[v]
    BY <1>1 DEF TakeKey, QueueTypeOK, Doing
<1>3. QueueTypeOK'
    BY <1>2 DEF TakeKey, QueueTypeOK
<1>4. k \in pending /\ k \notin working /\ \A i \in 1..Len(jobs') : jobs'[i] # k
    BY <1>1 DEF OnChannel
<1>5. OnChannel'
    <2>1. \A i, j \in 1..Len(jobs') : jobs'[i] = jobs'[j] => i = j
        BY <1>1 DEF OnChannel
    <2>2. \A i \in 1..Len(jobs') : jobs'[i] \in pending' /\ jobs'[i] \notin working'
        BY <1>1 DEF OnChannel, TakeKey
    <2>3. \A v \in Worker : worker'[v].pc = "took" =>
             \A i \in 1..Len(jobs') : jobs'[i] # worker'[v].key
        BY <1>1, <1>2, <1>4 DEF OnChannel, Doing
    <2> QED
        BY <2>1, <2>2, <2>3 DEF OnChannel
<1>6. \A v \in Worker : Held(v) => worker[v].key # k
    BY <1>1, <1>4 DEF OnChannel, InHand, Held
<1>7. InHand'
    BY <1>2, <1>4, <1>6 DEF TakeKey, InHand, Held, Doing
<1> QED
    BY <1>3, <1>5, <1>7 DEF TakeKey, Bounded

\* Its job moves from pending to running, and no other worker has the key.
LEMMA StartJobKeeps ==
    ASSUME QueueInv, NEW w \in Worker, StartJob(w)
    PROVE  QueueTypeOK' /\ OnChannel' /\ InHand' /\ Bounded'
<1> USE DEF QueueInv
<1> DEFINE k == worker[w].key
<1>1. worker[w].pc = "took" /\ k \in pending /\ k \notin working /\ k \in Key
    BY DEF StartJob, InHand, QueueTypeOK
<1>2. /\ pending' = pending \ {k} /\ working' = working \cup {k}
      /\ worker' = [worker EXCEPT ![w] = Doing("slot", k)]
      /\ UNCHANGED <<jobs, updates, ended>>
    BY <1>1 DEF StartJob
<1>3. /\ worker'[w] = Doing("slot", k)
      /\ \A v \in Worker \ {w} : worker'[v] = worker[v]
    BY <1>2 DEF QueueTypeOK
<1>4. QueueTypeOK'
    BY <1>1, <1>2 DEF QueueTypeOK, Doing
<1>5. OnChannel'
    BY <1>1, <1>2, <1>3 DEF OnChannel, Doing
<1>6. \A v \in Worker \ {w} : Held(v) => worker[v].key # k
    BY <1>1 DEF InHand, Held
<1>7. InHand'
    BY <1>1, <1>2, <1>3, <1>6 DEF InHand, Held, Doing
<1>8. Bounded'
    BY <1>1, <1>2, FS_RemoveElement, FS_CardinalityType, IndexQueueAssumption DEF Bounded
<1> QED
    BY <1>4, <1>5, <1>7, <1>8

\* Waiting for a slot moves no key.
LEMMA RunJobKeeps ==
    ASSUME QueueInv, NEW w \in Worker, RunJob(w)
    PROVE  QueueTypeOK' /\ OnChannel' /\ InHand' /\ Bounded'
<1> USE DEF QueueInv
<1>1. /\ worker[w].pc = "slot"
      /\ worker'[w].pc = "run" /\ worker'[w].key = worker[w].key
      /\ \A v \in Worker \ {w} : worker'[v] = worker[v]
    BY DEF RunJob, QueueTypeOK
<1>2. QueueTypeOK'
    BY DEF RunJob, QueueTypeOK
<1>3. OnChannel' /\ InHand'
    BY <1>1 DEF RunJob, OnChannel, InHand, Held
<1> QED
    BY <1>2, <1>3 DEF RunJob, Bounded

\* A finished job's key goes back on the channel only from pending, and its
\* worker lets go of it.
LEMMA FinishJobKeeps ==
    ASSUME QueueInv, NEW w \in Worker, FinishJob(w)
    PROVE  QueueTypeOK' /\ OnChannel' /\ InHand' /\ Bounded'
<1> USE DEF QueueInv
<1> DEFINE k == worker[w].key
<1>1. worker[w].pc = "run" /\ k \in working /\ k \in Key
    BY DEF FinishJob, Active, InHand, QueueTypeOK
<1>2. /\ worker'[w] = Free /\ worker' \in [Worker -> [pc : {"free", "took", "slot", "run", "gone"}, key : Key \cup {NoKey}]]
      /\ \A v \in Worker \ {w} : worker'[v] = worker[v]
      /\ working' = working \ {k} /\ pending' = pending
    BY DEF FinishJob, QueueTypeOK, Free, Doing
<1>3. \A v \in Worker \ {w} : Held(v) => worker[v].key # k
    BY <1>1 DEF InHand, Held
<1>4. \A i \in 1..Len(jobs) : jobs[i] # k
    BY <1>1 DEF OnChannel
<1>5. InHand'
    BY <1>1, <1>2, <1>3 DEF InHand, Held, Free, Doing
<1>6. CASE k \in pending /\ jobs' = Append(jobs, k)
    <2>1. QueueTypeOK'
        BY <1>1, <1>2, <1>6 DEF FinishJob, QueueTypeOK
    <2>2. /\ Len(jobs') = Len(jobs) + 1 /\ Len(jobs) \in Nat
          /\ \A i \in 1..Len(jobs) : jobs'[i] = jobs[i]
          /\ jobs'[Len(jobs) + 1] = k
        BY <1>1, <1>6 DEF QueueTypeOK
    <2>3. \A i \in 1..Len(jobs') : i \in 1..Len(jobs) \/ i = Len(jobs) + 1
        BY <2>2
    <2>4. \A v \in Worker : worker'[v].pc = "took" => v # w /\ worker[v].key # k
        BY <1>2, <1>3 DEF Held, Free, Doing
    <2>5. OnChannel'
        <3>1. \A i \in 1..Len(jobs') : jobs'[i] \in pending' /\ jobs'[i] \notin working'
            BY <1>2, <1>6, <2>2, <2>3 DEF OnChannel
        <3>2. \A i, j \in 1..Len(jobs') : jobs'[i] = jobs'[j] => i = j
            BY <1>4, <2>2, <2>3 DEF OnChannel
        <3>3. \A v \in Worker : worker'[v].pc = "took" =>
                 \A i \in 1..Len(jobs') : jobs'[i] # worker'[v].key
            BY <1>2, <2>2, <2>3, <2>4 DEF OnChannel
        <3> QED
            BY <3>1, <3>2, <3>3 DEF OnChannel
    <2> QED
        BY <1>2, <1>5, <2>1, <2>5 DEF Bounded
<1>7. CASE k \notin pending /\ jobs' = jobs
    <2>1. QueueTypeOK'
        BY <1>2, <1>7 DEF FinishJob, QueueTypeOK
    <2>2. OnChannel'
        BY <1>2, <1>7 DEF OnChannel, Free, Doing
    <2> QED
        BY <1>2, <1>5, <2>1, <2>2 DEF Bounded
<1> QED
    BY <1>6, <1>7 DEF FinishJob

\* A worker that returns leaves the queue as it is.
LEMMA QuitKeeps ==
    ASSUME QueueInv, NEW w \in Worker, Quit(w)
    PROVE  QueueTypeOK' /\ OnChannel' /\ InHand' /\ Bounded'
<1> USE DEF QueueInv
<1>1. /\ worker'[w].pc = "gone" /\ worker'[w].key = worker[w].key
      /\ \A v \in Worker \ {w} : worker'[v] = worker[v]
    BY DEF Quit, QueueTypeOK
<1>2. QueueTypeOK'
    BY DEF Quit, QueueTypeOK
<1>3. OnChannel' /\ InHand'
    BY <1>1 DEF Quit, OnChannel, InHand, Held
<1> QED
    BY <1>2, <1>3 DEF Quit, Bounded

\* Every step of the read loop and of a worker keeps the invariant.
LEMMA NextInv ==
    ASSUME QueueInv, [QueueNext]_queueVars
    PROVE  QueueInv'
<1>1. QueueTypeOK' /\ OnChannel' /\ InHand' /\ Bounded'
    <2>1. ASSUME NEW k \in Key, enqueueIndex(k) PROVE QueueTypeOK' /\ OnChannel' /\ InHand' /\ Bounded'
        BY <2>1, EnqueueKeeps
    <2>2. ASSUME NEW w \in Worker, runIndexWorker(w) PROVE QueueTypeOK' /\ OnChannel' /\ InHand' /\ Bounded'
        BY <2>2, TakeKeyKeeps, StartJobKeeps, RunJobKeeps, FinishJobKeeps, QuitKeeps DEF runIndexWorker
    <2>3. CASE handleIndexUpdateFrame \/ UpdateHandled
        <3>1. CASE Overload
            BY <3>1, OverloadKeeps
        <3>2. CASE UNCHANGED <<pending, working, jobs, worker, ended>> /\ updates' \in Nat
            BY <3>2 DEF QueueInv, QueueTypeOK, OnChannel, InHand, Bounded, Held
        <3> QED
            BY <2>3, <3>1, <3>2 DEF handleIndexUpdateFrame, UpdateHandled, QueueInv, QueueTypeOK
    <2>4. CASE UNCHANGED queueVars
        BY <2>4 DEF queueVars, QueueInv, QueueTypeOK, OnChannel, InHand, Bounded, Held
    <2> QED
        BY <2>1, <2>2, <2>3, <2>4 DEF QueueNext
<1>2. RoomReserved'
    BY <1>1, ChannelShort, PTL
<1> QED
    BY <1>1, <1>2 DEF QueueInv

\* Whatever the read loop asks for, a key is in one place at a time and the
\* requeue of a finished job never waits (enqueueIndex, runIndexWorker).
THEOREM QueueSafe == QueueSpec => []QueueInv
<1>1. QueueInit => QueueInv
    BY InitInv
<1>2. QueueInv /\ [QueueNext]_queueVars => QueueInv'
    BY NextInv
<1> QED
    BY <1>1, <1>2, PTL DEF QueueSpec

\* Every step of the queue is a step Coalesce allows, or none of its business.
LEMMA StepRefines ==
    ASSUME QueueInv, [QueueNext]_queueVars
    PROVE  [QueueWork!Next]_(QueueWork!vars)
<1> USE DEF QueueWork!Next, QueueWork!vars
<1>1. ASSUME Overload PROVE [QueueWork!Next]_(QueueWork!vars)
    BY <1>1 DEF Overload, QueueWork!Stop
<1>2. ASSUME NEW k \in Key, enqueueIndex(k) PROVE [QueueWork!Next]_(QueueWork!vars)
    BY <1>1, <1>2 DEF enqueueIndex, queueVars, QueueWork!Request
<1>3. ASSUME NEW w \in Worker, runIndexWorker(w) PROVE [QueueWork!Next]_(QueueWork!vars)
    <2>1. CASE TakeKey(w) \/ RunJob(w) \/ Quit(w)
        BY <2>1 DEF TakeKey, RunJob, Quit
    <2>2. CASE StartJob(w)
        <3>1. worker[w].key \in Key /\ worker[w].key \in pending /\ worker[w].key \notin working
            BY <2>2 DEF StartJob, QueueInv, InHand, QueueTypeOK
        <3>2. QueueWork!Begin(worker[w].key)
            BY <2>2, <3>1 DEF StartJob, QueueWork!Begin
        <3> QED
            BY <3>1, <3>2
    <2>3. CASE FinishJob(w)
        <3>1. worker[w].key \in Key /\ worker[w].key \in working
            BY <2>3 DEF FinishJob, Active, QueueInv, InHand, QueueTypeOK
        <3>2. QueueWork!End(worker[w].key)
            BY <2>3, <3>1 DEF FinishJob, QueueWork!End
        <3> QED
            BY <3>1, <3>2
    <2> QED
        BY <1>3, <2>1, <2>2, <2>3 DEF runIndexWorker
<1>4. CASE handleIndexUpdateFrame \/ UpdateHandled
    BY <1>1, <1>4 DEF handleIndexUpdateFrame, UpdateHandled
<1>5. CASE UNCHANGED queueVars
    BY <1>5 DEF queueVars
<1> QED
    BY <1>2, <1>3, <1>4, <1>5 DEF QueueNext

\* The index queue implements Coalesce: runs of one key never overlap, any
\* number of requests cost one run, which begins after the last of them, and
\* no request is lost while the session lasts (enqueueIndex, runIndexWorker).
THEOREM QueueImplementsCoalesce == QueueSpec => QueueWork!Spec
<1>1. QueueInit => QueueWork!Init
    BY DEF QueueInit, QueueWork!Init
<1>2. QueueInv /\ [QueueNext]_queueVars => [QueueWork!Next]_(QueueWork!vars)
    BY StepRefines
<1> QED
    BY <1>1, <1>2, QueueSafe, PTL DEF QueueSpec, QueueWork!Spec
=============================================================================
