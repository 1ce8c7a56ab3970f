----------------------------- MODULE IndexQueue -----------------------------
(***************************************************************************)
(* A session's index queue: requests of the read loop for a share's index  *)
(* work, coalesced by key, the workers that run it, and the IndexUpdates   *)
(* that are handled beside it on the same slots.                           *)
(***************************************************************************)
EXTENDS Naturals, Sequences, FiniteSets

CONSTANTS Key,         \* "sync" and "reconcile", of each share
          NoKey,       \* none of them
          Worker,      \* the index workers
          Slots,       \* maxConcurrentIndexJobs
          MaxPending   \* maxPendingIndexKeys

ASSUME IndexQueueAssumption ==
    /\ NoKey \notin Key
    /\ Slots \in Nat \ {0} /\ MaxPending \in Nat \ {0}

VARIABLES pending,   \* indexPending: keys with a job that has not begun
          working,   \* indexRunning: keys whose job has
          jobs,      \* indexJobs: the channel of keys
          worker,    \* worker[w]: what worker w is doing
          updates,   \* IndexUpdates being handled
          ended      \* the read loop has ended

queueVars == <<pending, working, jobs, worker, updates, ended>>

Doing(pc, k) == [pc |-> pc, key |-> k]
Free == Doing("free", NoKey)

QueueInit ==
    /\ pending = {} /\ working = {} /\ jobs = <<>>
    /\ worker = [w \in Worker |-> Free]
    /\ updates = 0 /\ ended = FALSE

Active(w) == worker[w].pc = "run"
SlotFree == Cardinality({w \in Worker : Active(w)}) + updates < Slots

\* Overloaded: the connection is closed and the read loop ends.
Overload == ended' = TRUE /\ UNCHANGED <<pending, working, jobs, worker, updates>>

\* Mutant of enqueueIndex: a key whose job is running is queued at once.
enqueueIndexAtOnce(k) ==
    /\ ~ended
    /\ \/ k \in pending /\ UNCHANGED queueVars
       \/ /\ k \notin pending
          /\ pending' = pending \cup {k}
          /\ jobs' = Append(jobs, k)
          /\ UNCHANGED <<working, worker, updates, ended>>

\* A pending job is replaced; a key whose job is running waits for its end;
\* any other key goes on the channel.
enqueueIndex(k) ==
    /\ ~ended
    /\ \/ k \in pending /\ UNCHANGED queueVars
       \/ k \notin pending /\ Cardinality(pending) >= MaxPending /\ Overload
       \/ /\ k \notin pending /\ Cardinality(pending) < MaxPending
          /\ k \in working
          /\ pending' = pending \cup {k}
          /\ UNCHANGED <<working, jobs, worker, updates, ended>>
       \/ /\ k \notin pending /\ Cardinality(pending) < MaxPending
          /\ k \notin working
          /\ IF Len(jobs) < MaxPending
             THEN /\ pending' = pending \cup {k}
                  /\ jobs' = Append(jobs, k)
                  /\ UNCHANGED <<working, worker, updates, ended>>
             ELSE Overload

\* runIndexWorker: a key comes off the channel, ...
TakeKey(w) ==
    /\ worker[w] = Free /\ jobs # <<>>
    /\ worker' = [worker EXCEPT ![w] = Doing("took", Head(jobs))]
    /\ jobs' = Tail(jobs)
    /\ UNCHANGED <<pending, working, updates, ended>>

\* ... its job leaves the pending ones, ...
StartJob(w) ==
    LET k == worker[w].key
    IN  /\ worker[w].pc = "took"
        /\ IF k \in pending
           THEN /\ pending' = pending \ {k}
                /\ working' = working \cup {k}
                /\ worker' = [worker EXCEPT ![w] = Doing("slot", k)]
           ELSE /\ worker' = [worker EXCEPT ![w] = Free]
                /\ UNCHANGED <<pending, working>>
        /\ UNCHANGED <<jobs, updates, ended>>

\* ... a slot is taken and the job runs.
RunJob(w) ==
    /\ worker[w].pc = "slot" /\ SlotFree
    /\ worker' = [worker EXCEPT ![w].pc = "run"]
    /\ UNCHANGED <<pending, working, jobs, updates, ended>>

\* Mutant of FinishJob: what came in meanwhile is left pending.
FinishJobOnly(w) ==
    /\ Active(w)
    /\ working' = working \ {worker[w].key}
    /\ worker' = [worker EXCEPT ![w] = Free]
    /\ UNCHANGED <<jobs, pending, updates, ended>>

\* When it is over, a job that came in meanwhile goes on the channel, which
\* must have room for it: indexMu is held.
FinishJob(w) ==
    LET k == worker[w].key
    IN  /\ Active(w)
        /\ working' = working \ {k}
        /\ worker' = [worker EXCEPT ![w] = Free]
        /\ IF k \in pending
           THEN Len(jobs) < MaxPending /\ jobs' = Append(jobs, k)
           ELSE UNCHANGED jobs
        /\ UNCHANGED <<pending, updates, ended>>

\* A worker returns when the session's context is done.
Quit(w) ==
    /\ ended /\ worker[w].pc \in {"free", "slot"}
    /\ worker' = [worker EXCEPT ![w].pc = "gone"]
    /\ UNCHANGED <<pending, working, jobs, updates, ended>>

\* An IndexUpdate is handled at once or overloads the session.
handleIndexUpdateFrame ==
    /\ ~ended
    /\ IF SlotFree
       THEN updates' = updates + 1 /\ UNCHANGED <<pending, working, jobs, worker, ended>>
       ELSE Overload

UpdateHandled ==
    /\ updates > 0
    /\ updates' = updates - 1
    /\ UNCHANGED <<pending, working, jobs, worker, ended>>

runIndexWorker(w) == TakeKey(w) \/ StartJob(w) \/ RunJob(w) \/ FinishJob(w) \/ Quit(w)

QueueNext ==
    \/ \E k \in Key : enqueueIndex(k)
    \/ \E w \in Worker : runIndexWorker(w)
    \/ handleIndexUpdateFrame \/ UpdateHandled

QueueSpec == QueueInit /\ [][QueueNext]_queueVars

\* Workers run and jobs end.  A worker that waits for a slot gets one in time:
\* a channel serves its senders in turn.
QueueFairness ==
    /\ \A w \in Worker : /\ WF_queueVars(TakeKey(w) \/ StartJob(w) \/ FinishJob(w))
                         /\ SF_queueVars(RunJob(w))
    /\ WF_queueVars(UpdateHandled)

----------------------------------------------------------------------------

Held(w) == worker[w].pc \in {"took", "slot", "run"}

QueueTypeOK ==
    /\ pending \subseteq Key /\ working \subseteq Key
    /\ jobs \in Seq(Key)
    /\ worker \in [Worker -> [pc : {"free", "took", "slot", "run", "gone"}, key : Key \cup {NoKey}]]
    /\ updates \in Nat /\ ended \in BOOLEAN

\* The channel holds pending keys whose job is not running, each once, and
\* none a worker has taken off it.
OnChannel ==
    /\ \A i \in 1..Len(jobs) : jobs[i] \in pending /\ jobs[i] \notin working
    /\ \A i, j \in 1..Len(jobs) : jobs[i] = jobs[j] => i = j
    /\ \A w \in Worker : worker[w].pc = "took" =>
          \A i \in 1..Len(jobs) : jobs[i] # worker[w].key

\* A key taken off it is still pending; the workers' keys differ.
InHand ==
    /\ \A w \in Worker : worker[w].pc = "took" =>
          worker[w].key \in pending /\ worker[w].key \notin working
    /\ \A w \in Worker : worker[w].pc \in {"slot", "run"} => worker[w].key \in working
    /\ \A w, v \in Worker : Held(w) /\ Held(v) /\ worker[w].key = worker[v].key => w = v

Bounded == IsFiniteSet(pending) /\ Cardinality(pending) <= MaxPending

\* A key that became pending while its job ran fits on the channel, so
\* FinishJob never blocks with indexMu held.
RoomReserved ==
    \A w \in Worker : Active(w) /\ worker[w].key \in pending => Len(jobs) < MaxPending

\* A key is in one place at a time and the requeue of a finished job never
\* waits (enqueueIndex, runIndexWorker: "capacity is reserved by
\* maxPendingIndexKeys").
QueueInv == QueueTypeOK /\ OnChannel /\ InHand /\ Bounded /\ RoomReserved

QueueWork == INSTANCE Coalesce WITH asked <- pending, busy <- working, over <- ended

\* The queue keeps what Coalesce promises: a request made while the key's job
\* runs leads to another job after it, jobs of one key never run at once, and
\* none is lost while the session lasts (enqueueIndex, runIndexWorker).
JobsCoalesce == QueueWork!Spec /\ QueueWork!Served
=============================================================================
