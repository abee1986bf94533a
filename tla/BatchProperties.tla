-------------------------- MODULE BatchProperties --------------------------
(***************************************************************************)
(* What must hold of BatchManager.                                         *)
(***************************************************************************)
EXTENDS BatchManager

\* What a shutdown has taken off the queue and not yet written to the log.
Unwritten(c) == IF pc[c] = "confirm" THEN Tail(taken[c]) ELSE taken[c]

\* Who has events in hand, and which: the queue, the threads that dispatch, and
\* the shutdowns that persist.
Holders ==
  {<<"queue", Worker>>} \cup ({"batch"} \X Threads) \cup ({"shutdown"} \X Callers)
HeldBy(h) ==
  CASE h[1] = "queue" -> queue
    [] h[1] = "batch" -> Unresolved(h[2])
    [] h[1] = "shutdown" -> Unwritten(h[2])
Holding == [h \in Holders |-> HeldBy(h)]

\* The events in a family of sequences, and that each is in one place of one of
\* them.
EventsIn(family) == UNION {ToSet(family[h]) : h \in DOMAIN family}
Once(family) ==
  \A g, h \in DOMAIN family : \A i \in DOMAIN family[g], k \in DOMAIN family[h] :
    family[g][i] = family[h][k] => g = h /\ i = k

HeldEvents == EventsIn(Holding)

OnTheWire == UNION {ToSet(Segment(t)) : t \in {u \in Threads : pc[u] = "post"}}

Gone == {"delivered", "lost", "replayed", "rejected"}

Jobs == [batch : Seq(Event), done : Nat, ends : Seq(Nat), budget : 0 .. MaxSplitSends,
         out : {"ok", "rejected", "transient"}]
CallStates ==
  [op : {"none", "add", "flush", "shutdown"},
   deadline : {"none", "running", "passed"}, ok : BOOLEAN,
   result : {"none", "true", "false"}, owed : SUBSET Event, mine : SUBSET Event]

\* The state of BatchManager (batch.py:88-100) and of its threads is typed.
TypeOK ==
  /\ queue \in Seq(Event) /\ inflight \in Int
  /\ closed \in BOOLEAN /\ finite \in BOOLEAN /\ tickDue \in BOOLEAN
  /\ delivered \in Nat /\ lost \in Nat
  /\ enabled \in BOOLEAN /\ wal \in Seq(Seq(Event)) /\ todo \in Nat
  /\ pc \in [Threads -> Places]
  /\ job \in [Threads -> Jobs]
  /\ call \in [Threads -> CallStates]
  /\ taken \in [Callers -> Seq(Event)]
  /\ submitted \in 0 .. MaxEvents
  /\ fate \in [Event -> Fates]

-----------------------------------------------------------------------------
(* Invariants.                                                             *)

\* An accepted event is never dropped silently and never duplicated: until it
\* is answered for it is in exactly one of the queue, one thread's unresolved
\* batch, and one shutdown's hands, or else in exactly one record of the log; the
\* log and memory share only the batch on the wire
\* (batch.py:17 "Drained-but-undelivered events are never silently dropped").
Conservation ==
  /\ HeldEvents = {e \in Event : fate[e] = "held"} /\ Once(Holding)
  /\ WalEvents \ HeldEvents = {e \in Event : fate[e] = "stored"} /\ Once(wal)
  /\ WalEvents \cap HeldEvents = IF enabled THEN OnTheWire ELSE {}

\* _inflight, which flush() and shutdown() wait on, counts exactly the events
\* of the batches being dispatched (batch.py:316, 365), so that a failed, split
\* or requeued batch neither wakes a flush early nor blocks it for ever.
InflightExact ==
  inflight = Cardinality(UNION {{t} \X DOMAIN job[t].batch : t \in Threads})

\* _deliver's recursion covers its batch exactly once, left to right: the stack
\* of right ends is increasing and ends where the batch does, so that no half is
\* skipped, and the batch is resolved to its end when _send_batch finishes.
Dispatching == {"recover", "replay", "deliver", "post", "finish"}
WellFormed(j, place) ==
  /\ j.done <= Len(j.batch)
  /\ \A i \in DOMAIN j.ends : j.done < j.ends[i] /\ j.ends[i] <= Len(j.batch)
  /\ \A i, k \in DOMAIN j.ends : i < k => j.ends[i] < j.ends[k]
  /\ j.ends = <<>> => j.done = Len(j.batch)
  /\ j.ends # <<>> => j.ends[Len(j.ends)] = Len(j.batch)
  /\ place \notin Dispatching => j.batch = <<>>
  /\ place \in {"deliver", "post"} => j.ends # <<>>
  /\ place = "finish" => j.ends = <<>>
  /\ place \in {"recover", "replay"} => j.done = 0
JobsWellFormed == \A t \in Threads : WellFormed(job[t], pc[t])

\* One batch is replayed or sent at a time (transport.py:111, 140), and what a
\* replay has yet to send is still the oldest part of the log.
OneDelivery ==
  /\ \A t, u \in Threads :
       pc[t] \in {"replay", "post"} /\ pc[u] \in {"replay", "post"} => t = u
  /\ \A t \in Threads : pc[t] = "replay" => todo <= Len(wal)

\* The log is written ahead of the request (transport.py:114): a durable batch
\* on the wire has its record, whatever other threads write meanwhile.  Where no log is
\* kept, as in the child of a fork, nothing is written to one (persistence.py:106).
WriteAhead ==
  IF enabled
    THEN \A t \in Threads : pc[t] = "post" => \E i \in DOMAIN wal : wal[i] = Segment(t)
    ELSE wal = <<>>

\* Events put back by failed sends may exceed max_queue_size, but only by what
\* the dispatching threads had popped (batch.py:147 bounds only add()).  The
\* thread whose add() fills the queue is not dispatching, so that Worker and all
\* callers but one may hold a batch each.
QueueBounded ==
  Len(queue) + Cardinality(UNION {ToSet(Unresolved(t)) : t \in Threads})
    <= MaxQueueSize + FlushSize * Cardinality(Callers)

\* Nothing is left behind in the queue of a manager whose bounded shutdown is
\* over: a send that fails late must not put events back where no thread looks
\* (batch.py:487), unless a shutdown has yet to empty the queue or a later
\* flush() cleared the mark.  Nor does a shutdown return with events in hand, or
\* wait for the worker of a manager that still accepts events.
NothingStranded ==
  /\ finite => /\ closed
               /\ queue # <<>> => \E c \in Callers : pc[c] = "unqueue"
  /\ \A c \in Callers : taken[c] # <<>> <=> pc[c] \in {"persist", "confirm"}
  /\ \A c \in Callers : pc[c] \in {"join", "mark"} => closed

\* While one thread dispatches and no batch is split, the server never receives
\* an event before an older one the SDK still owes it: failed batches go back to
\* the head (batch.py:15-16, 492-494), and the log is replayed first
\* (batch.py:350).  The halves of a split batch are sent one by one whatever
\* becomes of the other (batch.py:450-455), so a 400 ends this guarantee.
SentInOrder ==
  \A e, f \in Event :
    e < f /\ fate[f] \in {"delivered", "replayed"} => fate[e] \notin {"held", "stored"}

-----------------------------------------------------------------------------
(* What a step may never do.                                               *)

FlushReturnsTrue(c) ==
  call[c].op = "flush" /\ call'[c].op = "none" /\ call'[c].result = "true"

\* A flush() that returns True has drained: whatever the SDK owed when it began is
\* neither queued nor in a batch nor in the log, whoever dispatched it meanwhile; it has
\* been answered for, one way or the other, or is what a concurrent shutdown took off
\* the queue.  And what this flush dispatched itself was delivered (batch.py:171-207).
\* That everything else was delivered too is FlushDelivers, below, which does not hold.
FlushDrains ==
  [][\A c \in Callers : FlushReturnsTrue(c) =>
       /\ \A e \in call[c].owed :
            fate'[e] \in Gone \/ \E d \in Callers : e \in ToSet(taken[d])
       /\ \A e \in call[c].mine : fate'[e] = "delivered"]_vars

\* The manager keeps the promise of EventLedger; the custody of an event is
\* read off the places that hold it, not off the history variable, but for what
\* a fork (ForkedManager) has left to the parent.
Custody(e) ==
  IF e > submitted THEN "outside"
  ELSE IF e \in HeldEvents THEN "memory"
  ELSE IF e \in WalEvents THEN "log"
  ELSE IF fate[e] = "parent" THEN "parent" ELSE "settled"

Ledger == INSTANCE EventLedger WITH
  where <- [e \in Event |-> Custody(e)], counted <- delivered + lost

KeepsLedger == Ledger!Spec

-----------------------------------------------------------------------------
(* Liveness.                                                               *)

\* A shutdown's own thread runs, and its deadline passes: nothing is assumed of
\* the network, of the worker or of any other thread.
ShutdownFairness ==
  \A c \in Callers : WF_vars(ShutdownStep(c)) /\ WF_vars(DeadlinePasses(c))

\* Every thread runs, and every request is answered or fails, because attempts
\* and timeouts are finite.  Strong fairness where a thread competes: for the
\* delivery lock, and for the queue or a moment with nothing in flight, which
\* the worker's pause of _WORKER_RETRY_BACKOFF_SECONDS leaves to it.
CallerStep(c) ==
  EnsureWorker(c) \/ FlushStep(c) \/ ShutdownStep(c) \/ Replay(c) \/ Deliver(c)
Locks(t) == ReplayStarts(t) \/ SendStarts(t) \/ SendRefused(t)
ThreadFairness ==
  /\ \A c \in Callers :
       /\ WF_vars(CallerStep(c)) /\ WF_vars(DeadlinePasses(c))
       /\ SF_vars(Locks(c) \/ FlushDone(c) \/ FlushTakes(c) \/ InflightDrained(c))
  /\ WF_vars(WorkerStep \/ Replay(Worker) \/ Deliver(Worker))
  /\ SF_vars(Locks(Worker))

\* The flush timer runs, and the endpoint is not unreachable for ever.
ServiceFairness ==
  /\ WF_vars(Tick)
  /\ \A t \in Threads :
       SF_vars(ReplayAnswered(t) \/ Accepted(t) \/ BatchRejected(t) \/ Rejected(t))

SpecShutdown == Spec /\ ShutdownFairness
SpecThreads == Spec /\ ThreadFairness
SpecService == Spec /\ ThreadFairness /\ ServiceFairness

\* A bounded shutdown returns however the network and the worker behave: it
\* never waits for the delivery lock (batch.py:229-236, transport.py:129-131).
BoundedShutdownReturns ==
  \A c \in Callers :
    (call[c].op = "shutdown" /\ call[c].deadline # "none") ~> (call[c].op = "none")

\* Every flush() and every shutdown() returns, the unbounded ones included, beside
\* concurrent flushes and a failing worker: no wake-up is lost and nothing waits for
\* itself (batch.py:191-193, 289-291).
CallsReturn == \A c \in Callers : call[c].op # "none" ~> call[c].op = "none"

\* With a flush_interval and an endpoint that answers again and again, every
\* accepted event eventually leaves memory, answered for or retained by the log:
\* neither the size trigger nor the timer is lost to a wait that nobody ends
\* (batch.py:303-310), and a failing replay does not block the queue for ever.
EventsLeaveMemory == \A e \in Event : fate[e] = "held" ~> fate[e] \in Gone \cup {"stored"}

-----------------------------------------------------------------------------
(* What the documentation says and the code does not do.                   *)

\* batch.py:158: "Returns True only when the drain finished with every event
\* delivered".  flush() knows the outcome of the batches it sends itself.  What the
\* worker's batch, another flush or the replay of a record finds refused is gone as
\* well, and flush() returns True (batch.py:177-181, transport.py:154).
FlushDelivers ==
  [][\A c \in Callers : FlushReturnsTrue(c) =>
       \A e \in call[c].owed : fate'[e] \in {"delivered", "replayed"}]_vars

\* batch.py:212: "When the deadline expires, queued events are persisted when
\* durability is enabled".  A shutdown takes a record that another thread has
\* replayed since it was written for a failed write, and gives up the rest.
ShutdownPersistsQueue ==
  [][\A c \in Callers : \A e \in ToSet(taken[c]) : fate'[e] # "lost"]_vars

\* batch.py:15-16: "a transient failure re-queues survivors at the head of the
\* queue preserving order".  When both halves of a split batch fail, the left
\* half is put back first, and the right half then goes in front of it.
SurvivorsKeepOrder == \A i, j \in DOMAIN queue : i < j => queue[i] < queue[j]
=============================================================================
