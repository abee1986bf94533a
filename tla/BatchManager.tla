---------------------------- MODULE BatchManager ----------------------------
(***************************************************************************)
(* The queue and batch dispatcher of the SDK (src/alitycs/batch.py), with  *)
(* the two transport entry points it calls back into (send and recover of  *)
(* src/alitycs/transport.py) reduced to what the manager can observe: the  *)
(* delivery lock, the records of the write-ahead log and one final answer  *)
(* per request.                                                            *)
(*                                                                         *)
(* Threads are the application's threads (Callers) and the one flusher     *)
(* thread (Worker).  pc[t] is where a thread is; one action is one         *)
(* `with self._cv` section, one network exchange or one store call.  A     *)
(* thread in a "..._wait" place sleeps in cv.wait and only notify_all, or  *)
(* the time limit of that wait, moves it on.                               *)
(*                                                                         *)
(* A definition marked "mutant" is the next one with a bug put into it; no *)
(* specification uses it.                                                  *)
(*                                                                         *)
(* Events are numbered in the order add() receives them.  fate is a        *)
(* history variable: what the SDK has answered for each event.             *)
(***************************************************************************)
EXTENDS Integers, Sequences, FiniteSets, SequencesExt

CONSTANTS
  Callers,        \* application threads
  Worker,         \* the flusher thread
  MaxEvents,      \* bound: how many events the application ever adds
  FlushSize,      \* _flush_size
  MaxQueueSize,   \* _max_queue_size, also the event limit of the store
  MaxSplitSends,  \* _MAX_SPLIT_SENDS
  Timer,          \* whether a _flush_interval is configured
  Durable,        \* a persistence path is configured
  DiskMayFail,    \* whether writing the persistence file may raise
  Responses,      \* the final answers a request may get, "fail": none in time
  Calls           \* the operations the application uses

ASSUME ManagerAssumption ==
  /\ Worker \notin Callers
  /\ IsFiniteSet(Callers)
  /\ MaxEvents \in Nat
  /\ {FlushSize, MaxQueueSize, MaxSplitSends} \subseteq Nat \ {0}
  /\ {Timer, Durable, DiskMayFail} \subseteq BOOLEAN
  /\ Responses \subseteq {"2xx", "400", "4xx", "fail"}
  /\ Calls \subseteq {"add", "flush", "flush_by", "shutdown", "shutdown_by"}

VARIABLES
  queue,      \* _queue, oldest event first
  inflight,   \* _inflight
  closed,     \* _closed and _stopping, which are only ever set together
  finite,     \* _finite_shutdown_complete
  tickDue,    \* the flush timer has reached _next_tick
  delivered,  \* _delivered_count
  lost,       \* _lost_count
  enabled,    \* the store has a path: a log is kept
  wal,        \* the store's records in insertion order, each a list of events
  todo,       \* how many records of recover()'s snapshot are still to replay
  pc,         \* where each thread is
  job,        \* the batch each thread is dispatching in _send_batch
  call,       \* the operation each caller is executing
  taken,      \* the events each caller's shutdown took off the queue to persist
  submitted,  \* history: how many events add() has received
  fate        \* history: what became of each event

flags == <<closed, finite, tickDue>>
counters == <<delivered, lost>>
log == <<enabled, wal, todo>>
memory == <<queue, inflight, job, taken>>
history == <<submitted, fate>>
control == <<pc, call>>
vars == <<flags, counters, log, memory, history, control>>

Threads == Callers \cup {Worker}
Event == 1 .. MaxEvents

Fates ==
  {"new",       \* not added yet
   "refused",   \* add() returned False because the manager is closed
   "held",      \* accepted, and still the manager's to deliver
   "stored",    \* retained by the write-ahead log, no longer in memory
   "delivered", \* counted in _delivered_count
   "lost",      \* counted in _lost_count
   "replayed",  \* accepted by the server when recover() replayed its record
   "rejected",  \* refused by the server when recover() replayed its record
   "parent"}    \* left to the parent by a fork (ForkedManager)

Places ==
  {"idle", "ensure", "flush", "loop", "loop_wait", "drain", "drain_wait",
   "join", "quiesce", "quiesce_wait", "mark", "unqueue", "persist", "confirm",
   "off", "take", "take_wait", "check", "closing", "exited",
   "recover", "replay", "deliver", "post", "finish"}

NoJob == [batch |-> <<>>, done |-> 0, ends |-> <<>>, budget |-> 0, out |-> "ok"]
NoCall == [op |-> "none", deadline |-> "none", ok |-> TRUE, result |-> "none",
           owed |-> {}, mine |-> {}]

-----------------------------------------------------------------------------
(* Condition variable, delivery lock and store.                            *)

Awake(p) ==
  IF p = "loop_wait" THEN "loop" ELSE IF p = "drain_wait" THEN "drain"
  ELSE IF p = "quiesce_wait" THEN "quiesce" ELSE IF p = "take_wait" THEN "take" ELSE p

\* self._cv.notify_all()
NobodyNotified(places) == places \* mutant
Notified(places) == [t \in Threads |-> Awake(places[t])]

\* _delivery_lock is held while a thread replays the log or posts a batch.
NoLock == TRUE \* mutant
LockFree == \A t \in Threads : pc[t] \notin {"replay", "post"}

WalEvents == UNION {ToSet(wal[i]) : i \in DOMAIN wal}

\* put() fails when the limit on retained events is hit or the write raises.
PutSucceeds(n) == Cardinality(WalEvents) + n <= MaxQueueSize
PutFails(n) == DiskMayFail \/ ~PutSucceeds(n)

SetFate(events, f) == [e \in Event |-> IF e \in events THEN f ELSE fate[e]]

Outstanding == {e \in Event : fate[e] \in {"held", "stored"}}

-----------------------------------------------------------------------------
(* One dispatched batch.  _deliver's recursion over halves walks the batch *)
(* from left to right: done is how many events are resolved, ends the      *)
(* stack of the right ends of the segments still to be sent.               *)

Segment(t) == SubSeq(job[t].batch, job[t].done + 1, Head(job[t].ends))
SegmentLen(t) == Head(job[t].ends) - job[t].done
Unresolved(t) == SubSeq(job[t].batch, job[t].done + 1, Len(job[t].batch))

OnlyTransient(a, b) == IF "transient" \in {a, b} THEN "transient" ELSE "ok" \* mutant
Worse(a, b) ==
  IF "transient" \in {a, b} THEN "transient"
  ELSE IF "rejected" \in {a, b} THEN "rejected" ELSE "ok"

\* The head segment has its outcome: go on with the next one, or finish.
Resolved(t, outcome) ==
  [job EXCEPT ![t].done = Head(job[t].ends), ![t].ends = Tail(@),
              ![t].out = Worse(@, outcome)]

\* One of the sends the batch may cost is used up.
Spent(jobs, t) == [jobs EXCEPT ![t].budget = job[t].budget - 1]

OnlyLeftHalf(t) == "finish" \* mutant
AfterSegment(t) == IF Len(job[t].ends) = 1 THEN "finish" ELSE "deliver"

-----------------------------------------------------------------------------
(* Moving on.                                                              *)

Move(t, place) == pc' = [pc EXCEPT ![t] = place]
MoveAndNotify(t, place) == pc' = [Notified(pc) EXCEPT ![t] = place]

PopCountsFlushSize(t, n) == \* mutant
  /\ queue' = SubSeq(queue, n + 1, Len(queue))
  /\ inflight' = inflight + FlushSize
  /\ job' = [job EXCEPT ![t] = [batch |-> SubSeq(queue, 1, n), done |-> 0,
                                ends |-> <<n>>, budget |-> MaxSplitSends, out |-> "ok"]]

\* _pop, under the condition's lock.
Pop(t, n) ==
  /\ queue' = SubSeq(queue, n + 1, Len(queue))
  /\ inflight' = inflight + n
  /\ job' = [job EXCEPT ![t] = [batch |-> SubSeq(queue, 1, n), done |-> 0,
                                ends |-> <<n>>, budget |-> MaxSplitSends,
                                out |-> "ok"]]

AtMostFlushSize == IF Len(queue) < FlushSize THEN Len(queue) ELSE FlushSize

RequeueAlways(t) == \* mutant
  /\ queue' = Segment(t) \o queue
  /\ MoveAndNotify(t, AfterSegment(t))
  /\ UNCHANGED <<lost, fate>>

RequeueAtTail(t) == \* mutant
  /\ queue' = queue \o Segment(t)
  /\ MoveAndNotify(t, AfterSegment(t))
  /\ UNCHANGED <<lost, fate>>

\* _requeue_at_head of the head segment, and on with the rest of the batch.
RequeueAtHead(t) ==
  /\ IF finite
       THEN /\ lost' = lost + SegmentLen(t)
            /\ fate' = SetFate(ToSet(Segment(t)), "lost")
            /\ UNCHANGED queue
       ELSE /\ queue' = Segment(t) \o queue
            /\ UNCHANGED <<lost, fate>>
  /\ MoveAndNotify(t, AfterSegment(t))

\* flush() returns to the application, or to the unbounded shutdown around it.
FlushReturns(c, result) ==
  IF call[c].op = "flush"
    THEN /\ call' = [call EXCEPT ![c] = [NoCall EXCEPT !.result = result]]
         /\ Move(c, "idle")
    ELSE IF result = "true"
      THEN call' = [call EXCEPT ![c] = NoCall] /\ Move(c, "idle")
      ELSE UNCHANGED call /\ Move(c, "unqueue")

ShutdownReturns(c) == call' = [call EXCEPT ![c] = NoCall] /\ Move(c, "idle")

\* _recover_durable returns to flush() (no batch yet) or to _send_batch.
RecoverSucceeds(t) ==
  /\ Move(t, IF job[t].batch = <<>> THEN "ensure" ELSE "deliver")
  /\ UNCHANGED <<queue, lost, job, call, fate>>
RecoverFails(t) ==
  IF job[t].batch = <<>>
    THEN FlushReturns(t, "false") /\ UNCHANGED <<queue, lost, job, fate>>
    ELSE /\ RequeueAtHead(t)
         /\ job' = Resolved(t, "transient")
         /\ UNCHANGED call

Init ==
  /\ queue = <<>> /\ inflight = 0 /\ closed = FALSE /\ finite = FALSE
  /\ tickDue = FALSE /\ delivered = 0 /\ lost = 0
  /\ enabled = Durable /\ wal = <<>> /\ todo = 0
  /\ pc = [t \in Threads |-> IF t = Worker THEN "off" ELSE "idle"]
  /\ job = [t \in Threads |-> NoJob]
  /\ call = [t \in Threads |-> NoCall]
  /\ taken = [c \in Callers |-> <<>>]
  /\ submitted = 0
  /\ fate = [e \in Event |-> "new"]

-----------------------------------------------------------------------------
(* add                                                                     *)

CanCall(c, operation) == pc[c] = "idle" /\ operation \in Calls

QueueOverfull == Len(queue) > MaxQueueSize \* mutant
QueueFull == Len(queue) >= MaxQueueSize

CanAdd(c) == CanCall(c, "add") /\ submitted < MaxEvents

AddRefused(c) ==
  /\ CanAdd(c)
  /\ closed
  /\ submitted' = submitted + 1
  /\ fate' = SetFate({submitted'}, "refused")
  /\ UNCHANGED <<flags, counters, log, memory, control>>

AddOverflows(c) ==
  /\ CanAdd(c)
  /\ ~closed /\ QueueFull
  /\ submitted' = submitted + 1
  /\ lost' = lost + 1
  /\ fate' = SetFate({submitted'}, "lost")
  /\ UNCHANGED <<flags, log, memory, control, delivered>>

AddAccepted(c) ==
  /\ CanAdd(c)
  /\ ~closed /\ ~QueueFull
  /\ submitted' = submitted + 1
  /\ queue' = Append(queue, submitted')
  /\ fate' = SetFate({submitted'}, "held")
  /\ call' = [call EXCEPT ![c] = [NoCall EXCEPT !.op = "add"]]
  /\ MoveAndNotify(c, "ensure")
  /\ UNCHANGED <<flags, counters, log, inflight, job, taken>>

\* _ensure_worker, the tail of add() and of flush()'s preamble.
EnsureWorker(c) ==
  /\ pc[c] = "ensure"
  /\ LET next == IF call[c].op = "add" THEN "idle" ELSE "loop" IN
     IF ~closed /\ pc[Worker] \in {"off", "exited"}
       THEN pc' = [pc EXCEPT ![c] = next, ![Worker] = "take"]
       ELSE Move(c, next)
  /\ call' = IF call[c].op = "add" THEN [call EXCEPT ![c] = NoCall] ELSE call
  /\ UNCHANGED <<flags, counters, log, memory, history>>

-----------------------------------------------------------------------------
(* flush                                                                   *)

FlushCalled(c) ==
  /\ \E deadline \in {"none", "running"} :
       /\ CanCall(c, IF deadline = "none" THEN "flush" ELSE "flush_by")
       /\ call' = [call EXCEPT ![c] =
                     [NoCall EXCEPT !.op = "flush", !.deadline = deadline]]
  /\ Move(c, "flush")
  /\ UNCHANGED <<flags, counters, log, memory, history>>

FlushStarts(c) ==
  /\ pc[c] = "flush"
  /\ finite' = FALSE
  /\ call' = [call EXCEPT ![c] = [@ EXCEPT !.ok = TRUE, !.owed = Outstanding,
                                          !.mine = {}]]
  /\ Move(c, "recover")
  /\ UNCHANGED <<counters, log, memory, history, closed, tickDue>>

FlushIgnoresInflight(c) == \* mutant
  /\ pc[c] = "loop"
  /\ queue = <<>>
  /\ FlushReturns(c, IF call[c].ok /\ wal = <<>> THEN "true" ELSE "false")
  /\ UNCHANGED <<flags, counters, log, memory, history>>

FlushDone(c) ==
  /\ pc[c] = "loop"
  /\ queue = <<>> /\ inflight = 0
  /\ FlushReturns(c, IF call[c].ok /\ wal = <<>> THEN "true" ELSE "false")
  /\ UNCHANGED <<flags, counters, log, memory, history>>

FlushTakes(c) ==
  /\ pc[c] = "loop"
  /\ queue # <<>>
  /\ call[c].deadline # "passed"
  /\ Pop(c, AtMostFlushSize)
  /\ tickDue' = FALSE
  /\ call' = [call EXCEPT ![c] = [@ EXCEPT !.mine = call[c].mine \cup ToSet(job'[c].batch)]]
  /\ Move(c, "recover")
  /\ UNCHANGED <<counters, log, history, closed, finite, taken>>

\* _wait_for_inflight, of a flush that failed or of an unbounded shutdown.
InflightDrained(c) ==
  /\ inflight = 0
  /\ \/ pc[c] = "drain" /\ FlushReturns(c, "false")
     \/ pc[c] = "quiesce" /\ Move(c, "flush") /\ UNCHANGED call
  /\ UNCHANGED <<flags, counters, log, memory, history>>

WaitTimesOut(c) ==
  /\ \/ pc[c] = "loop" /\ (queue # <<>> \/ inflight > 0)
     \/ pc[c] = "drain" /\ inflight > 0
  /\ call[c].deadline = "passed"
  /\ FlushReturns(c, "false")
  /\ UNCHANGED <<flags, counters, log, memory, history>>

InflightWaits(c) ==
  /\ inflight > 0 /\ call[c].deadline # "passed"
  /\ \/ pc[c] = "loop" /\ queue = <<>> /\ Move(c, "loop_wait")
     \/ pc[c] = "drain" /\ Move(c, "drain_wait")
     \/ pc[c] = "quiesce" /\ Move(c, "quiesce_wait")
  /\ UNCHANGED <<flags, counters, log, memory, history, call>>

-----------------------------------------------------------------------------
(* The transport's recover(): replay the log in order under the delivery   *)
(* lock.  A request already sent may still be answered after the deadline. *)

Deadline(t) == call[t].deadline

ReplayStarts(t) ==
  /\ pc[t] = "recover"
  /\ LockFree /\ Deadline(t) # "passed"
  /\ todo' = Len(wal)
  /\ Move(t, "replay")
  /\ UNCHANGED <<flags, counters, memory, history, enabled, wal, call>>

\* 2xx and every terminal refusal acknowledge the oldest record.
ReplayAnswered(t) ==
  /\ pc[t] = "replay" /\ todo > 0
  /\ \E answer \in Responses \ {"fail"} :
       fate' = SetFate(ToSet(Head(wal)),
                       IF answer = "2xx" THEN "replayed" ELSE "rejected")
  /\ wal' = Tail(wal)
  /\ todo' = todo - 1
  /\ UNCHANGED <<flags, counters, memory, control, submitted, enabled>>

\* The lock is not free in time; or the request fails, or would not be made
\* before the deadline, or a write of the log fails.
ReplayFails(t) ==
  /\ \/ pc[t] = "recover" /\ Deadline(t) = "passed" /\ UNCHANGED todo
     \/ /\ pc[t] = "replay" /\ todo > 0 /\ todo' = 0
        /\ "fail" \in Responses \/ DiskMayFail \/ Deadline(t) = "passed"
  /\ RecoverFails(t)
  /\ UNCHANGED <<flags, inflight, delivered, enabled, wal, taken, submitted>>

ReplayDone(t) ==
  /\ pc[t] = "replay" /\ todo = 0
  /\ RecoverSucceeds(t)
  /\ UNCHANGED <<flags, log, inflight, delivered, taken, submitted>>

-----------------------------------------------------------------------------
(* _deliver: one segment of the batch at a time, through transport.send(). *)

BudgetNotNegative(t) == job[t].budget >= 0 \* mutant
BudgetLeft(t) == job[t].budget > 0

\* Counted as lost: the split budget is spent, or the server refused it.
DropSegment(t) ==
  /\ lost' = lost + SegmentLen(t)
  /\ fate' = SetFate(ToSet(Segment(t)), "lost")
  /\ job' = Resolved(t, "rejected")
  /\ Move(t, AfterSegment(t))

SplitLimitReached(t) ==
  /\ pc[t] = "deliver"
  /\ ~BudgetLeft(t)
  /\ DropSegment(t)
  /\ UNCHANGED <<flags, log, queue, inflight, delivered, call, taken, submitted>>

\* The deadline passes before the lock is taken, or put() raises.
SendRefused(t) ==
  /\ pc[t] = "deliver" /\ BudgetLeft(t)
  /\ Deadline(t) = "passed" \/ (enabled /\ LockFree /\ PutFails(SegmentLen(t)))
  /\ RequeueAtHead(t)
  /\ job' = Spent(Resolved(t, "transient"), t)
  /\ UNCHANGED <<flags, log, inflight, delivered, call, taken, submitted>>

\* put() has written the record ahead of the first attempt.
SendStarts(t) ==
  /\ pc[t] = "deliver" /\ BudgetLeft(t)
  /\ LockFree /\ Deadline(t) # "passed"
  /\ enabled => PutSucceeds(SegmentLen(t))
  /\ wal' = IF enabled THEN Append(wal, Segment(t)) ELSE wal
  /\ job' = Spent(job, t)
  /\ Move(t, "post")
  /\ UNCHANGED <<flags, counters, history, queue, inflight, enabled, todo, call, taken>>

\* acknowledge() of the record being posted.
OldestAcknowledged(t) == IF enabled THEN Tail(wal) ELSE wal \* mutant
WalAcknowledged(t) ==
  IF enabled THEN RemoveAt(wal, CHOOSE i \in DOMAIN wal : wal[i] = Segment(t)) ELSE wal

Accepted(t) ==
  /\ pc[t] = "post" /\ "2xx" \in Responses
  /\ wal' = WalAcknowledged(t)
  /\ delivered' = delivered + SegmentLen(t)
  /\ fate' = SetFate(ToSet(Segment(t)), "delivered")
  /\ job' = Resolved(t, "ok")
  /\ Move(t, AfterSegment(t))
  /\ UNCHANGED <<flags, queue, inflight, lost, enabled, todo, call, taken, submitted>>

BatchRejected(t) ==
  /\ pc[t] = "post" /\ "400" \in Responses
  /\ SegmentLen(t) > 1
  /\ wal' = WalAcknowledged(t)
  /\ LET mid == job[t].done + SegmentLen(t) \div 2
     IN job' = [job EXCEPT ![t] = [@ EXCEPT !.ends = <<mid>> \o job[t].ends]]
  /\ Move(t, "deliver")
  /\ UNCHANGED <<flags, counters, history, queue, inflight, enabled, todo, call, taken>>

Rejected(t) ==
  /\ pc[t] = "post"
  /\ "4xx" \in Responses \/ ("400" \in Responses /\ SegmentLen(t) = 1)
  /\ wal' = WalAcknowledged(t)
  /\ DropSegment(t)
  /\ UNCHANGED <<flags, enabled, todo, queue, inflight, delivered, call, taken, submitted>>

\* Retries exhausted or out of time; a durable batch stays in the log instead
\* of returning to the queue, and so it does when acknowledge() raises.
Failed(t) ==
  /\ pc[t] = "post"
  /\ "fail" \in Responses \/ Deadline(t) = "passed" \/ (enabled /\ DiskMayFail)
  /\ job' = Resolved(t, "transient")
  /\ IF enabled
       THEN /\ fate' = SetFate(ToSet(Segment(t)), "stored")
            /\ Move(t, AfterSegment(t))
            /\ UNCHANGED <<queue, lost>>
       ELSE RequeueAtHead(t)
  /\ UNCHANGED <<flags, log, inflight, delivered, call, taken, submitted>>

\* The end of _send_batch.
Finish(t) ==
  /\ pc[t] = "finish"
  /\ inflight' = inflight - Len(job[t].batch)
  /\ job' = [job EXCEPT ![t] = NoJob]
  /\ MoveAndNotify(t, IF t = Worker
                        THEN (IF job[t].out = "transient" THEN "check" ELSE "take")
                        ELSE (IF job[t].out = "transient" THEN "drain" ELSE "loop"))
  /\ call' = IF t = Worker \/ job[t].out = "ok" THEN call
             ELSE [call EXCEPT ![t] = [@ EXCEPT !.ok = FALSE]]
  /\ UNCHANGED <<flags, counters, log, history, queue, taken>>

-----------------------------------------------------------------------------
(* The worker: _run and _take_batch.                                       *)

WorkerTakes ==
  /\ pc[Worker] = "take"
  /\ queue # <<>>
  /\ closed \/ Len(queue) >= FlushSize \/ tickDue
  /\ Pop(Worker, AtMostFlushSize)
  /\ tickDue' = (tickDue /\ (closed \/ Len(queue) >= FlushSize))
  /\ Move(Worker, "recover")
  /\ UNCHANGED <<counters, log, history, closed, finite, call, taken>>

WorkerSkipsTick ==
  /\ pc[Worker] = "take"
  /\ ~closed /\ queue = <<>> /\ tickDue
  /\ tickDue' = FALSE
  /\ UNCHANGED <<counters, log, memory, history, control, closed, finite>>

WorkerWaits ==
  /\ pc[Worker] = "take"
  /\ ~closed /\ Len(queue) < FlushSize /\ ~tickDue
  /\ Move(Worker, "take_wait")
  /\ UNCHANGED <<flags, counters, log, memory, history, call>>

\* Fully drained and stopping, or stopping after a transient failure.
WorkerStops ==
  /\ closed
  /\ \/ pc[Worker] = "take" /\ queue = <<>>
     \/ pc[Worker] = "check"
  /\ Move(Worker, "closing")
  /\ UNCHANGED <<flags, counters, log, memory, history, call>>

WorkerBacksOff ==
  /\ pc[Worker] = "check" /\ ~closed
  /\ Move(Worker, "take")
  /\ UNCHANGED <<flags, counters, log, memory, history, call>>

WorkerExits ==
  /\ pc[Worker] = "closing"
  /\ MoveAndNotify(Worker, "exited")
  /\ UNCHANGED <<flags, counters, log, memory, history, call>>

-----------------------------------------------------------------------------
(* The clock reaches _next_tick, or the deadline of a call.                *)

TickUnheard == \* mutant
  /\ Timer /\ ~tickDue
  /\ tickDue' = TRUE
  /\ UNCHANGED <<counters, log, memory, history, control, closed, finite>>

Tick ==
  /\ Timer /\ ~tickDue
  /\ tickDue' = TRUE
  /\ pc' = [pc EXCEPT ![Worker] = IF @ = "take_wait" THEN "take" ELSE @]
  /\ UNCHANGED <<counters, log, memory, history, closed, finite, call>>

DeadlinePasses(c) ==
  /\ call[c].deadline = "running"
  /\ call' = [call EXCEPT ![c].deadline = "passed"]
  /\ pc' = [pc EXCEPT ![c] = Awake(@)]
  /\ UNCHANGED <<flags, counters, log, memory, history>>

-----------------------------------------------------------------------------
(* shutdown                                                                *)

ShutdownBegins(c) ==
  /\ \E deadline \in {"none", "running"} :
       /\ CanCall(c, IF deadline = "none" THEN "shutdown" ELSE "shutdown_by")
       /\ call' = [call EXCEPT ![c] =
                     [NoCall EXCEPT !.op = "shutdown", !.deadline = deadline]]
       /\ finite' = (finite /\ deadline # "none")
  /\ closed' = TRUE
  /\ MoveAndNotify(c, "join")
  /\ UNCHANGED <<counters, log, memory, history, tickDue>>

JoinsForEver(c) == \* mutant
  /\ pc[c] = "join" /\ pc[Worker] \in {"off", "exited"}
  /\ Move(c, IF call[c].deadline = "none" THEN "quiesce" ELSE "mark")
  /\ UNCHANGED <<flags, counters, log, memory, history, call>>

ShutdownJoins(c) ==
  /\ pc[c] = "join"
  /\ pc[Worker] \in {"off", "exited"} \/ call[c].deadline = "passed"
  /\ Move(c, IF call[c].deadline = "none" THEN "quiesce" ELSE "mark")
  /\ UNCHANGED <<flags, counters, log, memory, history, call>>

ShutdownMarksFinite(c) ==
  /\ pc[c] = "mark"
  /\ finite' = TRUE
  /\ Move(c, "unqueue")
  /\ UNCHANGED <<counters, log, memory, history, closed, tickDue, call>>

\* _persist_queued_for_shutdown takes the queue ...
ShutdownUnqueues(c) ==
  /\ pc[c] = "unqueue"
  /\ queue' = <<>>
  /\ taken' = [taken EXCEPT ![c] = queue]
  /\ IF queue = <<>> THEN ShutdownReturns(c)
     ELSE UNCHANGED call /\ Move(c, "persist")
  /\ UNCHANGED <<flags, counters, log, history, inflight, job>>

LosesOne(c) == \* mutant
  /\ lost' = lost + 1
  /\ fate' = SetFate({e \in ToSet(taken[c]) : fate[e] = "held"}, "lost")
  /\ taken' = [taken EXCEPT ![c] = <<>>]
  /\ ShutdownReturns(c)

\* ... and counts it as lost, all of it where no log is kept or what is left from
\* some event on: what is counted includes that event, even if recover() has settled
\* it meanwhile.
LosesTaken(c) ==
  /\ lost' = lost + Len(taken[c])
  /\ fate' = SetFate({e \in ToSet(taken[c]) : fate[e] = "held"}, "lost")
  /\ taken' = [taken EXCEPT ![c] = <<>>]
  /\ ShutdownReturns(c)

ShutdownLosesRest(c) ==
  /\ pc[c] = "persist"
  /\ ~enabled \/ PutFails(1)
  /\ LosesTaken(c)
  /\ UNCHANGED <<flags, log, queue, inflight, delivered, job, submitted>>

\* ... or persists it event by event, not waiting for the delivery lock.
ShutdownPersists(c) ==
  /\ pc[c] = "persist" /\ enabled /\ PutSucceeds(1)
  /\ wal' = Append(wal, <<Head(taken[c])>>)
  /\ fate' = SetFate({Head(taken[c])}, "stored")
  /\ Move(c, "confirm")
  /\ UNCHANGED <<flags, counters, memory, enabled, todo, call, submitted>>

\* persist() has written the record and asks the store whether it is there.
ShutdownConfirms(c) ==
  /\ pc[c] = "confirm"
  /\ IF \E i \in DOMAIN wal : wal[i] = <<Head(taken[c])>>
       THEN /\ taken' = [taken EXCEPT ![c] = Tail(@)]
            /\ IF Len(taken[c]) = 1 THEN ShutdownReturns(c)
               ELSE UNCHANGED call /\ Move(c, "persist")
            /\ UNCHANGED <<lost, fate>>
       ELSE LosesTaken(c)
  /\ UNCHANGED <<flags, log, queue, inflight, delivered, job, submitted>>

-----------------------------------------------------------------------------
Add(c) == AddRefused(c) \/ AddOverflows(c) \/ AddAccepted(c)

FlushStep(c) ==
  \/ FlushStarts(c) \/ FlushDone(c) \/ FlushTakes(c) \/ InflightDrained(c)
  \/ WaitTimesOut(c) \/ InflightWaits(c)

ShutdownStep(c) ==
  \/ ShutdownJoins(c) \/ ShutdownMarksFinite(c) \/ ShutdownUnqueues(c)
  \/ ShutdownLosesRest(c) \/ ShutdownPersists(c) \/ ShutdownConfirms(c)

WorkerStep ==
  \/ WorkerTakes \/ WorkerSkipsTick \/ WorkerWaits \/ WorkerStops
  \/ WorkerBacksOff \/ WorkerExits

Replay(t) == ReplayStarts(t) \/ ReplayAnswered(t) \/ ReplayFails(t) \/ ReplayDone(t)

Deliver(t) ==
  \/ SplitLimitReached(t) \/ SendRefused(t) \/ SendStarts(t) \/ Accepted(t)
  \/ BatchRejected(t) \/ Rejected(t) \/ Failed(t) \/ Finish(t)

Next ==
  \/ \E c \in Callers : \/ Add(c) \/ FlushCalled(c) \/ ShutdownBegins(c)
                        \/ EnsureWorker(c) \/ FlushStep(c) \/ ShutdownStep(c)
                        \/ DeadlinePasses(c)
  \/ \E t \in Threads : Replay(t) \/ Deliver(t)
  \/ WorkerStep
  \/ Tick

Spec == Init /\ [][Next]_vars
=====
