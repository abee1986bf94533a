-------------------------- MODULE ClientLifecycle --------------------------
(***************************************************************************)
(* The life of a client with batching off (client.py): inline sends, the   *)
(* pending property, flush() and shutdown(), the registry of live clients, *)
(* the exit and termination handlers, and the repair after fork().  The    *)
(* transport is reduced to its delivery lock, the records of its log and   *)
(* one final answer per request, as in BatchManager.                       *)
(*                                                                         *)
(* A frame is an activation of the SDK: one per thread, and Handler, the   *)
(* signal handler, which runs on top of whatever the main thread was doing *)
(* and owns the locks that thread owns, for they are re-entrant.  After a  *)
(* fork the model follows the child, where only the forking thread exists; *)
(* stuck names the locks that other threads of the parent held.            *)
(***************************************************************************)
EXTENDS Integers, Sequences, FiniteSets, SequencesExt

CONSTANTS
  Threads, Main,  \* application threads, and the one that receives signals
  Handler,
  MaxEvents,      \* bound: how many events the application tracks
  Durable,        \* a persistence path is configured
  DiskMayFail,    \* whether writing the log may raise
  Calls           \* the operations the application and its host use

ASSUME LifecycleAssumption ==
  /\ IsFiniteSet(Threads) /\ Main \in Threads /\ Handler \notin Threads
  /\ MaxEvents \in Nat /\ {Durable, DiskMayFail} \subseteq BOOLEAN
  /\ Calls \subseteq {"track", "flush", "pending", "shutdown", "shutdown_by", "exit",
                      "signal", "fork"}

VARIABLES
  closed,    \* _closed
  inflight,  \* _inline_inflight
  ids,       \* _inline_batch_ids, a batch being named by its event
  live,      \* whether the client is in _LIVE_INSTANCES
  durable,   \* whether the store has a path
  log,       \* the store's records, oldest first
  holders,   \* the frames inside the delivery lock
  frame,     \* what each frame is doing
  handling,  \* a termination signal has arrived
  alive,     \* the process runs
  forked,    \* "no", or whether the child's copy was "repaired" or "inherited"
  stuck,     \* the locks of an inherited copy that nobody will release
  tracked,   \* how many events the application has tracked
  fate       \* history: what became of each event

client == <<closed, inflight, ids, live>>
store == <<durable, log>>
process == <<handling, alive, forked, stuck>>
history == <<tracked, fate>>
vars == <<client, store, holders, frame, process, history>>

Event == 1 .. MaxEvents
Frames == Threads \cup {Handler}
Locks == {"lifecycle",  \* _lifecycle_lock of the client
          "delivery",   \* _delivery_lock of the transport
          "store"}      \* _lock of the store
\* A call that starts at a place: its arguments, and what it owes.
Begun(op, place, event, bounded, owed) ==
  [op |-> op, pc |-> place, event |-> event, bounded |-> bounded, late |-> FALSE,
   todo |-> <<>>, owed |-> owed, seen |-> {}, count |-> 0]
Idle == Begun("none", "idle", 0, FALSE, {})

Init ==
  /\ closed = FALSE /\ inflight = 0 /\ ids = {} /\ live = TRUE
  /\ durable = Durable /\ log = <<>>
  /\ holders = {}
  /\ frame = [f \in Frames |-> Idle]
  /\ handling = FALSE /\ alive = TRUE /\ forked = "no" /\ stuck = {}
  /\ tracked = 0 /\ fate = [e \in Event |-> "new"]

-----------------------------------------------------------------------------
ThreadOf(f) == IF f = Handler THEN Main ELSE f
NoLock(f) == TRUE \* mutant
\* An RLock: free, or held by the same thread.
LockFree(f) == "delivery" \notin stuck /\ \A h \in holders : ThreadOf(h) = ThreadOf(f)

\* The handler suspends the frame of the main thread under it.
Runs(f) == alive /\ (f = Main => ~handling) /\ (f = Handler => handling)
At(f, place) == Runs(f) /\ frame[f].pc = place
Sending(f) == frame[f].op = "track"
CanCall(t, operation) ==
  operation \in Calls /\ t \in Threads /\ At(t, "idle")

Goes(f, place) == frame' = [frame EXCEPT ![f].pc = place]
Becomes(e, what) == fate' = [fate EXCEPT ![e] = what]
AllDropped(e) == <<>> \* mutant
OldestDropped(e) == IF log = <<>> THEN log ELSE Tail(log) \* mutant
Without(e) ==
  IF e \in ToSet(log) THEN RemoveAt(log, CHOOSE i \in DOMAIN log : log[i] = e) ELSE log

\* self._inline_idle.notify_all()
Notified == [f \in Frames |->
  IF frame[f].pc = "drain_wait" THEN [frame[f] EXCEPT !.pc = "drain"] ELSE frame[f]]

-----------------------------------------------------------------------------
(* Inline delivery: admission, send, settling.                             *)

AdmitRefused(t) ==
  /\ CanCall(t, "track") /\ tracked < MaxEvents
  /\ closed /\ "lifecycle" \notin stuck
  /\ tracked' = tracked + 1 /\ Becomes(tracked + 1, "refused")
  /\ UNCHANGED <<client, store, holders, frame, process>>

Admit(t) ==
  /\ CanCall(t, "track") /\ tracked < MaxEvents
  /\ ~closed
  /\ tracked' = tracked + 1 /\ Becomes(tracked + 1, "sending")
  /\ inflight' = inflight + 1 /\ ids' = ids \cup {tracked + 1}
  /\ frame' = [frame EXCEPT ![t] = Begun("track", "lock", tracked + 1, FALSE, {})]
  /\ UNCHANGED <<closed, live, store, holders, process>>

\* send() waits for the delivery lock without a deadline, and writes ahead: nothing
\* that others do not wait for happens between the two.
SendLocked(t) ==
  /\ At(t, "lock") /\ Sending(t)
  /\ LockFree(t)
  /\ holders' = holders \cup {t}
  /\ log' = IF durable THEN Append(log, frame[t].event) ELSE log
  /\ Goes(t, "post")
  /\ UNCHANGED <<client, durable, process, history>>

PutRaises(t) ==
  /\ At(t, "lock") /\ Sending(t)
  /\ LockFree(t) /\ durable /\ DiskMayFail
  /\ Goes(t, "settle") /\ Becomes(frame[t].event, "failed")
  /\ UNCHANGED <<client, store, holders, process, tracked>>

SendOver(t) == Goes(t, "settle") /\ holders' = holders \ {t}

\* A final answer, an acceptance or a refusal, acknowledges the record.
Answered(t) ==
  /\ At(t, "post")
  /\ log' = Without(frame[t].event)
  /\ Becomes(frame[t].event, "answered")
  /\ SendOver(t)
  /\ UNCHANGED <<client, durable, process, tracked>>

\* Retries run out, or the acknowledgement cannot be written.
SendFails(t) ==
  /\ At(t, "post")
  /\ Becomes(frame[t].event, IF durable THEN "stored" ELSE "failed")
  /\ SendOver(t)
  /\ UNCHANGED <<client, store, process, tracked>>

SettledUnheard(t) == [frame EXCEPT ![t] = Idle] \* mutant
SettledNotified(t) == [Notified EXCEPT ![t] = Idle]

Settle(t) ==
  /\ At(t, "settle")
  /\ ids' = ids \ {frame[t].event} /\ inflight' = inflight - 1
  /\ frame' = SettledNotified(t)
  /\ UNCHANGED <<closed, live, store, holders, process, history>>

-----------------------------------------------------------------------------
(* flush(), and the recover() under it.                                    *)

FlushCalled(t, bounded) ==
  /\ CanCall(t, "flush")
  /\ frame' = [frame EXCEPT ![t] = Begun("flush", "lock", 0, bounded, ToSet(log))]
  /\ UNCHANGED <<client, store, holders, process, history>>

\* What flush(), shutdown() or a handler does when its recover() is over.
EndsCall(f) ==
  /\ alive' = ~(frame[f].op = "exit" \/ f = Handler)
  /\ frame' = [frame EXCEPT ![f] = Idle]

\* It returns: a shutdown, or the exit handler's, takes the client out of the registry.
Leaves(f) ==
  /\ live' = (live /\ (frame[f].op = "flush" \/ f = Handler))
  /\ EndsCall(f)

\* It raises.  A flush() raises too, a handler goes on, and shutdown() does not reach
\* the line that takes the client out of the registry.
Raises(f) == UNCHANGED live /\ EndsCall(f)

WaitsForEver(f) == FALSE \* mutant
OutOfTime(f) == frame[f].late

RecoverLocked(f) ==
  /\ At(f, "lock") /\ ~Sending(f)
  /\ LockFree(f) /\ ~OutOfTime(f) /\ "store" \notin stuck
  /\ holders' = holders \cup {f}
  /\ frame' = [frame EXCEPT ![f].pc = "replay", ![f].todo = log]
  /\ UNCHANGED <<client, store, process, history>>

\* Inside the delivery lock, and whatever the deadline, it waits for the store's lock.
SnapshotHangs(f) ==
  /\ At(f, "lock") /\ ~Sending(f)
  /\ LockFree(f) /\ ~OutOfTime(f) /\ "store" \in stuck
  /\ holders' = holders \cup {f}
  /\ Goes(f, "reading")
  /\ UNCHANGED <<client, store, process, history>>

LockTimesOut(f) ==
  /\ At(f, "lock") /\ OutOfTime(f)
  /\ Leaves(f)
  /\ UNCHANGED <<closed, inflight, ids, store, holders, handling, forked, stuck, history>>

Replayed(f) ==
  /\ At(f, "replay") /\ frame[f].todo # <<>>
  /\ LET e == Head(frame[f].todo) IN
       /\ log' = Without(e)
       /\ Becomes(e, "answered")
  /\ frame' = [frame EXCEPT ![f].todo = Tail(@)]
  /\ UNCHANGED <<client, durable, holders, process, tracked>>

SkipsFailed(f) == \* mutant
  /\ At(f, "replay") /\ frame[f].todo # <<>>
  /\ frame' = [frame EXCEPT ![f].todo = Tail(@)]
  /\ UNCHANGED <<client, store, holders, process, history>>

\* The first record that fails ends the replay: recover() returns False ...
ReplayFails(f) ==
  /\ At(f, "replay") /\ frame[f].todo # <<>>
  /\ Leaves(f) /\ holders' = holders \ {f}
  /\ UNCHANGED <<closed, inflight, ids, store, handling, forked, stuck, history>>

\* ... or raises, when the acknowledgement or the pause of the record cannot be written.
ReplayRaises(f) ==
  /\ At(f, "replay") /\ frame[f].todo # <<>>
  /\ durable /\ DiskMayFail
  /\ Raises(f) /\ holders' = holders \ {f}
  /\ UNCHANGED <<closed, inflight, ids, store, handling, forked, stuck, history>>

ReplayDone(f) ==
  /\ At(f, "replay") /\ frame[f].todo = <<>>
  /\ Leaves(f) /\ holders' = holders \ {f}
  /\ UNCHANGED <<closed, inflight, ids, store, handling, forked, stuck, history>>

\* A deadline passes where it is waited for; a replay may fail at any time.
DeadlinePasses(f) ==
  /\ alive /\ frame[f].bounded /\ ~frame[f].late
  /\ frame[f].pc \in {"lock", "drain", "drain_wait"}
  /\ frame' = [frame EXCEPT ![f].late = TRUE,
                            ![f].pc = IF @ = "drain_wait" THEN "drain" ELSE @]
  /\ UNCHANGED <<client, store, holders, process, history>>

-----------------------------------------------------------------------------
(* shutdown(), and the exit handler, which shuts down every live client.   *)

ShutdownCalled(t, bounded) ==
  /\ CanCall(t, IF bounded THEN "shutdown_by" ELSE "shutdown")
  /\ "lifecycle" \notin stuck
  /\ closed' = TRUE
  /\ frame' = [frame EXCEPT ![t] = Begun("shutdown", "drain", 0, bounded, {})]
  /\ UNCHANGED <<inflight, ids, live, store, holders, process, history>>

Exits(t) ==
  /\ CanCall(t, "exit") /\ t = Main
  /\ IF live
       THEN /\ closed' = TRUE /\ UNCHANGED alive
            /\ frame' = [frame EXCEPT ![t] = Begun("exit", "drain", 0, TRUE, {})]
       ELSE alive' = FALSE /\ UNCHANGED <<closed, frame>>
  /\ UNCHANGED <<inflight, ids, live, store, holders, handling, forked, stuck, history>>

ShutdownWaits(t) ==
  /\ At(t, "drain")
  /\ inflight > 0 /\ ~frame[t].late
  /\ Goes(t, "drain_wait")
  /\ UNCHANGED <<client, store, holders, process, history>>

GivesUpAtOnce(t) == TRUE \* mutant
NothingToAwait(t) == inflight = 0 \/ frame[t].late

\* Only an unbounded shutdown replays the log.
ShutdownDrained(t) ==
  /\ At(t, "drain")
  /\ NothingToAwait(t)
  /\ IF frame[t].bounded THEN Leaves(t)
     ELSE Goes(t, "lock") /\ UNCHANGED <<live, alive>>
  /\ UNCHANGED <<closed, inflight, ids, store, holders, handling, forked, stuck, history>>

-----------------------------------------------------------------------------
(* pending: the inline sends, then the log, in two sections.               *)

PendingCounts(t) ==
  /\ CanCall(t, "pending") /\ "lifecycle" \notin stuck
  /\ frame' = [frame EXCEPT ![t] =
       [Begun("pending", "snapshot", 0, FALSE, ids \cup ToSet(log)) EXCEPT
          !.seen = ids, !.count = inflight]]
  /\ UNCHANGED <<client, store, holders, process, history>>

Overlap(t) == Cardinality(frame[t].seen \cap ToSet(log))
OverlapCountedTwice(t) == frame[t].count + Len(log) \* mutant
PendingValue(t) ==
  frame[t].count + Len(log)
    - IF Overlap(t) < frame[t].count THEN Overlap(t) ELSE frame[t].count

\* The second section waits for ever where the store's lock is stuck.
PendingReturns(t) ==
  /\ At(t, "snapshot") /\ "store" \notin stuck
  /\ frame' = [frame EXCEPT ![t] = Idle]
  /\ UNCHANGED <<client, store, holders, process, history>>

\* A call of the child that starts with a section of a lock nobody will release; a
\* deadline does not bound the wait for that lock.
CallHangs(t) ==
  /\ "lifecycle" \in stuck
  /\ \E operation \in {"track", "pending", "shutdown", "shutdown_by"} :
       /\ CanCall(t, operation)
       /\ frame' = [frame EXCEPT ![t] = Begun("hung", "hung", 0, operation = "shutdown_by", {})]
  /\ UNCHANGED <<client, store, holders, process, history>>

-----------------------------------------------------------------------------
(* Termination signals and fork.                                           *)

\* _flush_all_live with its time limit; a client that is not live is left alone.
SignalArrives ==
  /\ "signal" \in Calls /\ alive /\ ~handling
  /\ handling' = TRUE
  /\ frame' = [frame EXCEPT ![Handler] =
       IF live THEN Begun("flush", "lock", 0, TRUE, ToSet(log))
       ELSE Begun("kill", "kill", 0, FALSE, {})]
  /\ UNCHANGED <<client, store, holders, alive, forked, stuck, history>>

Killed ==
  /\ At(Handler, "kill")
  /\ alive' = FALSE
  /\ UNCHANGED <<client, store, holders, frame, handling, forked, stuck, history>>

KeepsCount == UNCHANGED <<inflight, ids>> \* mutant
CountReset == inflight' = 0 /\ ids' = {}

\* _reset_for_child of a live client: fresh locks, no sends, no path.
KeepsRecords == durable' = FALSE /\ UNCHANGED log \* mutant
Detached == durable' = FALSE /\ log' = <<>>

Repaired ==
  CountReset /\ Detached /\ holders' = {} /\ forked' = "repaired" /\ UNCHANGED stuck

\* What another thread of the parent may have locked when the process forks: a section
\* that is one step of the model, it may be in the middle of.
MayHold(t) ==
  {L \in SUBSET Locks :
     /\ t \in holders => "delivery" \in L
     /\ "delivery" \in L => t \in holders \/ (frame[t].pc = "lock" /\ LockFree(t))
     /\ "store" \in L => "delivery" \in L \/ frame[t].pc = "snapshot"
     /\ "lifecycle" \in L =>
          L = {"lifecycle"} /\ frame[t].pc \in {"idle", "settle", "drain"}}

\* A client that has left the registry is not repaired, and its locks stay so.
Inherited ==
  /\ \E held \in [Threads \ {Main} -> SUBSET Locks] :
       /\ \A t \in Threads \ {Main} : held[t] \in MayHold(t)
       /\ stuck' = UNION {held[t] : t \in Threads \ {Main}}
  /\ holders' = {} /\ forked' = "inherited"
  /\ UNCHANGED <<inflight, ids, store>>

Fork(t) ==
  /\ CanCall(t, "fork") /\ t = Main /\ forked = "no"
  /\ IF live THEN Repaired ELSE Inherited
  /\ frame' = [f \in Frames |-> Idle]
  /\ fate' = [e \in Event |-> IF fate[e] \in {"sending", "stored"} THEN "parent" ELSE fate[e]]
  /\ UNCHANGED <<closed, live, handling, alive, tracked>>

-----------------------------------------------------------------------------
Deliver(t) ==
  \/ SendLocked(t) \/ PutRaises(t) \/ Answered(t) \/ SendFails(t) \/ Settle(t)
Recover(f) ==
  \/ RecoverLocked(f) \/ SnapshotHangs(f) \/ LockTimesOut(f)
  \/ Replayed(f) \/ ReplayFails(f) \/ ReplayRaises(f) \/ ReplayDone(f)
Drain(t) == ShutdownWaits(t) \/ ShutdownDrained(t)

Next ==
  \/ \E t \in Threads :
       \/ AdmitRefused(t) \/ Admit(t) \/ Deliver(t) \/ Exits(t) \/ Drain(t)
       \/ \E bounded \in BOOLEAN : FlushCalled(t, bounded) \/ ShutdownCalled(t, bounded)
       \/ PendingCounts(t) \/ PendingReturns(t) \/ CallHangs(t) \/ Fork(t)
  \/ \E f \in Frames : Recover(f) \/ DeadlinePasses(f)
  \/ SignalArrives \/ Killed

Spec == Init /\ [][Next]_vars

\* A thread that can run runs, and deadlines pass; no request need ever end.
Deadlines ==
  /\ \A t \in Threads : WF_vars(Recover(t) \/ Drain(t) \/ PendingReturns(t))
  /\ WF_vars(Recover(Handler) \/ Killed)
  /\ \A f \in Frames : WF_vars(DeadlinePasses(f))

FairSpec == Spec /\ Deadlines
=============================================================================
