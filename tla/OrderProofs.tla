---------------------------- MODULE OrderProofs ----------------------------
(***************************************************************************)
(* The server receives events in the order in which add() took them, as    *)
(* long as one thread dispatches and no batch is split (SentInOrder): the  *)
(* log, the batch in hand and the queue then form one line.                *)
(***************************************************************************)
EXTENDS CustodyProofs

\* No batch is split, and at most one thread at a time dispatches: the worker, or
\* the one caller whose shutdown() has waited for the worker to exit.
OneDispatcher ==
  /\ "400" \notin Responses \/ FlushSize = 1
  /\ Calls \subseteq {"add", "shutdown"}
  /\ "shutdown" \in Calls => \A c, d \in Callers : c = d

-----------------------------------------------------------------------------
(* One thread at a time dispatches.                                        *)

\* Where the worker is not.
Away == {"off", "exited"}

\* A caller is idle, adds an event, or shuts the manager down: beyond join() the
\* worker is gone, and nobody starts another.
Turn(c) ==
  \/ call[c].op = "none" /\ pc[c] = "idle"
  \/ call[c].op = "add" /\ pc[c] = "ensure"
  \/ /\ call[c].op = "shutdown" /\ closed /\ "shutdown" \in Calls
     /\ pc[c] = "join" \/ pc[Worker] \in Away
Turns ==
  /\ \A t \in Threads : call[t].deadline = "none"
  /\ \A c \in Callers : Turn(c)

\* Who has events in hand, or has the log to itself.
Busy(t) == pc[t] \in Dispatching \cup {"persist", "confirm"}

\* There is only one.
LEMMA OneIsBusy ==
  ASSUME OneDispatcher, Turns, NEW t \in Threads, NEW u \in Threads, Busy(t), Busy(u)
  PROVE  t = u
<1>1. ASSUME NEW c \in Callers, Busy(c)
      PROVE  call[c].op = "shutdown" /\ "shutdown" \in Calls /\ ~Busy(Worker)
  BY <1>1 DEF Turns, Turn, Busy, Dispatching, Away
<1>2. CASE t \in Callers /\ u \in Callers
  BY <1>1, <1>2 DEF OneDispatcher
<1> QED
  BY <1>1, <1>2 DEF Threads

\* notify_all wakes others, and does not send them elsewhere.
LEMMA OthersPlaces ==
  ASSUME TypeOK, NEW t \in Threads, NEW place, Move(t, place) \/ MoveAndNotify(t, place)
  PROVE  /\ pc'[t] = place
         /\ \A u \in Threads \ {t} : pc'[u] = pc[u] \/ pc'[u] = Awake(pc[u])
<1>1. pc \in [Threads -> Places] /\ Notified(pc) \in [Threads -> Places]
  BY NotifiedTypes DEF TypeOK
<1>2. \A u \in Threads : Notified(pc)[u] = Awake(pc[u])
  BY DEF Notified
<1> QED
  BY <1>1, <1>2 DEF Move, MoveAndNotify

\* Being awake changes no turn.
LEMMA AwakePlaces ==
  \A p : /\ \A q \in {"idle", "ensure", "join", "off", "exited", "replay", "deliver", "post"} :
              Awake(p) = q <=> p = q
         /\ Awake(p) \in Away <=> p \in Away
  BY DEF Awake, Away

\* A caller moves, and the turns of the others are as before.
LEMMA OthersTurns ==
  ASSUME TypeOK, Turns, NEW c \in Callers, NEW place,
         Move(c, place) \/ MoveAndNotify(c, place), closed => closed',
         \A u \in Threads \ {c} : call'[u] = call[u], call'[c].deadline = "none"
  PROVE  /\ pc'[c] = place /\ (pc'[Worker] \in Away <=> pc[Worker] \in Away)
         /\ Turn(c)' => Turns'
<1>0. c \in Threads /\ Worker \in Threads /\ c # Worker /\ Callers \subseteq Threads
  BY ManagerAssumption DEF Threads
<1>1. /\ pc'[c] = place
      /\ \A u \in Threads \ {c} : pc'[u] = pc[u] \/ pc'[u] = Awake(pc[u])
  BY <1>0, OthersPlaces
<1>2. pc'[Worker] \in Away <=> pc[Worker] \in Away
  BY <1>0, <1>1, AwakePlaces
<1>3. ASSUME NEW d \in Callers \ {c} PROVE Turn(d)'
  <2>1. call'[d] = call[d] /\ Turn(d) /\ (pc'[d] = pc[d] \/ pc'[d] = Awake(pc[d]))
    BY <1>0, <1>1 DEF Turns
  <2> QED
    BY <1>2, <2>1, AwakePlaces DEF Turn
<1>4. \A t \in Threads : call'[t].deadline = "none"
  BY DEF Turns
<1> QED
  BY <1>1, <1>2, <1>3, <1>4 DEF Turns

\* The thread that moves is a caller in the middle of shutdown().
LEMMA CallerTurns ==
  ASSUME TypeOK, Turns, NEW c \in Callers, NEW place,
         Move(c, place) \/ MoveAndNotify(c, place), closed' = closed,
         pc[c] \notin {"idle", "join"}, call[c].op # "add",
         \A u \in Threads \ {c} : call'[u] = call[u],
         \/ call'[c].op = call[c].op /\ call'[c].deadline = call[c].deadline
         \/ call'[c] = NoCall /\ place = "idle"
  PROVE  Turns'
<1>1. call[c].op = "shutdown" /\ closed /\ "shutdown" \in Calls /\ pc[Worker] \in Away
      /\ call[c].deadline = "none"
  BY DEF Turns, Turn, Threads
<1>2. call'[c].deadline = "none"
  BY <1>1 DEF NoCall
<1>3. /\ pc'[c] = place /\ (pc'[Worker] \in Away <=> pc[Worker] \in Away)
      /\ Turn(c)' => Turns'
  BY <1>2, OthersTurns
<1>4. Turn(c)'
  BY <1>1, <1>3 DEF Turn, NoCall
<1> QED
  BY <1>3, <1>4

\* The thread that moves is the worker.
LEMMA WorkerTurns ==
  ASSUME TypeOK, Turns, NEW place, Move(Worker, place) \/ MoveAndNotify(Worker, place),
         closed' = closed, \A c \in Callers : call'[c] = call[c],
         call'[Worker].deadline = "none", pc[Worker] \notin Away
  PROVE  Turns'
<1>0. Worker \in Threads /\ Callers \subseteq Threads \ {Worker}
  BY ManagerAssumption DEF Threads
<1>1. \A u \in Threads \ {Worker} : pc'[u] = pc[u] \/ pc'[u] = Awake(pc[u])
  BY <1>0, OthersPlaces
<1>2. ASSUME NEW d \in Callers PROVE Turn(d)'
  <2>1. Turn(d) /\ (pc'[d] = pc[d] \/ pc'[d] = Awake(pc[d])) /\ call'[d] = call[d]
    BY <1>0, <1>1 DEF Turns
  <2> QED
    BY <2>1, AwakePlaces DEF Turn
<1>3. \A t \in Threads : call'[t].deadline = "none"
  BY DEF Turns, Threads
<1> QED
  BY <1>2, <1>3 DEF Turns

\* Either way, a thread that dispatches keeps its turn.
LEMMA DispatchTurns ==
  ASSUME TypeOK, Turns, NEW t \in Threads, NEW place,
         Move(t, place) \/ MoveAndNotify(t, place), closed' = closed,
         pc[t] \in Dispatching, \A u \in Threads \ {t} : call'[u] = call[u],
         \/ call'[t].op = call[t].op /\ call'[t].deadline = call[t].deadline
         \/ call'[t] = NoCall /\ place = "idle"
  PROVE  Turns'
<1>1. CASE t \in Callers
  <2>1. call[t].op # "add" /\ pc[t] \notin {"idle", "join"}
    BY <1>1 DEF Turns, Turn, Dispatching
  <2> QED
    BY <1>1, <2>1, CallerTurns
<1>2. CASE t = Worker
  <2>1. \A c \in Callers : c # Worker /\ c \in Threads
    BY ManagerAssumption DEF Threads
  <2>2. call'[Worker].deadline = "none" /\ pc[Worker] \notin Away
    BY <1>2 DEF Turns, NoCall, Dispatching, Away
  <2> QED
    BY <1>2, <2>1, <2>2, WorkerTurns
<1> QED
  BY <1>1, <1>2 DEF Threads

\* add() and _ensure_worker.
LEMMA AddTurns ==
  ASSUME IInv, Turns, NEW c \in Callers, AddAccepted(c) \/ EnsureWorker(c)
  PROVE  Turns'
<1>0. TypeOK /\ c \in Threads /\ Worker \in Threads /\ c # Worker /\ Callers \subseteq Threads
      /\ pc \in [Threads -> Places] /\ call \in [Threads -> CallStates]
  BY ManagerAssumption DEF IInv, TypeOK, Threads
<1>1. CASE AddAccepted(c)
  <2>1. /\ call' = [call EXCEPT ![c] = [NoCall EXCEPT !.op = "add"]]
        /\ MoveAndNotify(c, "ensure") /\ closed' = closed
    BY <1>1 DEF AddAccepted, flags
  <2>2. /\ call'[c].op = "add" /\ call'[c].deadline = "none"
        /\ \A u \in Threads \ {c} : call'[u] = call[u]
    BY <1>0, <2>1 DEF NoCall
  <2>3. pc'[c] = "ensure" /\ (Turn(c)' => Turns')
    BY <1>0, <2>1, <2>2, OthersTurns
  <2> QED
    BY <2>2, <2>3 DEF Turn
<1>2. CASE EnsureWorker(c)
  <2> DEFINE next == IF call[c].op = "add" THEN "idle" ELSE "loop"
  <2>1. /\ pc[c] = "ensure" /\ closed' = closed
        /\ IF ~closed /\ pc[Worker] \in {"off", "exited"}
             THEN pc' = [pc EXCEPT ![c] = next, ![Worker] = "take"]
             ELSE Move(c, next)
        /\ call' = IF call[c].op = "add" THEN [call EXCEPT ![c] = NoCall] ELSE call
    BY <1>2 DEF EnsureWorker, flags
  <2>2. /\ \A u \in Threads \ {c} : call'[u] = call[u]
        /\ IF call[c].op = "add" THEN call'[c] = NoCall ELSE call'[c] = call[c]
        /\ call'[c].deadline = "none"
    BY <1>0, <2>1 DEF Turns, NoCall
  <2>3. CASE ~closed /\ pc[Worker] \in {"off", "exited"}
    <3>1. \A d \in Callers : call[d].op # "shutdown"
      BY <2>3 DEF Turns, Turn
    <3>2. \A d \in Callers \ {c} : call'[d] = call[d] /\ pc'[d] = pc[d]
      <4>1. pc' = [pc EXCEPT ![c] = next, ![Worker] = "take"] /\ Worker \notin Callers
        BY <2>1, <2>3, ManagerAssumption
      <4> QED
        BY <1>0, <2>2, <4>1
    <3>3. call[c].op = "add" /\ pc'[c] = "idle" /\ call'[c].op = "none"
      BY <1>0, <2>1, <2>2, <2>3, <3>1 DEF Turns, Turn, NoCall
    <3>4. \A d \in Callers : Turn(d)'
      BY <3>1, <3>2, <3>3 DEF Turns, Turn
    <3> QED
      BY <2>2, <3>4 DEF Turns
  <2>4. CASE ~(~closed /\ pc[Worker] \in {"off", "exited"}) /\ call[c].op = "add"
    <3>1. Move(c, "idle") /\ call'[c].op = "none"
      BY <2>1, <2>2, <2>4 DEF NoCall
    <3>2. pc'[c] = "idle" /\ (Turn(c)' => Turns')
      BY <1>0, <2>1, <2>2, <3>1, OthersTurns
    <3> QED
      BY <3>1, <3>2 DEF Turn
  <2>5. CASE ~(~closed /\ pc[Worker] \in {"off", "exited"}) /\ call[c].op # "add"
    BY <1>0, <2>1, <2>2, <2>5, CallerTurns
  <2> QED
    BY <2>3, <2>4, <2>5
<1> QED
  BY <1>1, <1>2

\* shutdown() begins, and its thread waits for the worker to exit.
LEMMA ShutdownTurns ==
  ASSUME OneDispatcher, IInv, Turns, NEW c \in Callers, ShutdownBegins(c) \/ ShutdownJoins(c)
  PROVE  Turns'
<1>0. TypeOK /\ c \in Threads /\ c # Worker /\ Worker \in Threads
      /\ call \in [Threads -> CallStates]
  BY ManagerAssumption DEF IInv, TypeOK, Threads
<1>1. CASE ShutdownBegins(c)
  <2>1. /\ "shutdown" \in Calls /\ MoveAndNotify(c, "join") /\ closed'
        /\ call' = [call EXCEPT ![c] = [NoCall EXCEPT !.op = "shutdown", !.deadline = "none"]]
    BY <1>1 DEF ShutdownBegins, OneDispatcher, CanCall
  <2>2. /\ call'[c].op = "shutdown" /\ call'[c].deadline = "none"
        /\ \A u \in Threads \ {c} : call'[u] = call[u]
    BY <1>0, <2>1 DEF NoCall
  <2>3. pc'[c] = "join" /\ (Turn(c)' => Turns')
    BY <1>0, <2>1, <2>2, OthersTurns
  <2> QED
    BY <2>1, <2>2, <2>3 DEF Turn
<1>2. CASE ShutdownJoins(c)
  <2>1. /\ pc[c] = "join" /\ UNCHANGED <<call, closed>> /\ call[c].deadline = "none"
        /\ Move(c, "quiesce") /\ pc[Worker] \in Away
    BY <1>0, <1>2 DEF ShutdownJoins, flags, Turns, Away
  <2>2. /\ pc'[c] = "quiesce" /\ (pc'[Worker] \in Away <=> pc[Worker] \in Away)
        /\ Turn(c)' => Turns'
    BY <1>0, <2>1, OthersTurns
  <2>3. call[c].op = "shutdown" /\ closed /\ "shutdown" \in Calls
    BY <2>1 DEF Turns, Turn
  <2> QED
    BY <2>1, <2>2, <2>3 DEF Turn
<1> QED
  BY <1>1, <1>2

\* flush() returns to the shutdown() it is part of.
LEMMA ReturnTurns ==
  ASSUME TypeOK, NEW c \in Callers, call[c].op = "shutdown",
         FlushReturns(c, "true") \/ FlushReturns(c, "false") \/ ShutdownReturns(c)
  PROVE  /\ \A u \in Threads \ {c} : call'[u] = call[u]
         /\ \E place : Move(c, place) /\ (call'[c] = call[c]
                                          \/ (call'[c] = NoCall /\ place = "idle"))
  BY DEF FlushReturns, ShutdownReturns, TypeOK, Threads

\* The steps of shutdown() after join(), those of its flush() included.
LEMMA StepTurns ==
  ASSUME OneDispatcher, IInv, Turns, NEW c \in Callers, FlushStep(c) \/ ShutdownStep(c)
  PROVE  Turns'
<1>0. TypeOK /\ c \in Threads /\ call \in [Threads -> CallStates]
  BY DEF IInv, TypeOK, Threads
<1>1. CASE ShutdownJoins(c)
  BY <1>1, ShutdownTurns
<1>2. ASSUME ~ShutdownJoins(c) PROVE Turns'
  <2>1. closed' = closed /\ pc[c] \notin {"idle", "join", "ensure"}
    BY <1>2 DEF FlushStep, FlushStarts, FlushDone, FlushTakes, InflightDrained,
                WaitTimesOut, InflightWaits, ShutdownStep, ShutdownMarksFinite,
                ShutdownUnqueues, ShutdownLosesRest, ShutdownPersists, ShutdownConfirms, flags
  <2>2. call[c].op = "shutdown"
    BY <2>1 DEF Turns, Turn
  <2>3. ASSUME FlushReturns(c, "true") \/ FlushReturns(c, "false") \/ ShutdownReturns(c)
        PROVE  Turns'
    BY <1>0, <2>1, <2>2, <2>3, ReturnTurns, CallerTurns
  <2>4. ASSUME NEW place, Move(c, place), UNCHANGED call PROVE Turns'
    BY <1>0, <2>1, <2>2, <2>4, CallerTurns
  <2>5. ASSUME FlushStarts(c) \/ FlushTakes(c) PROVE Turns'
    <3>1. /\ \A u \in Threads \ {c} : call'[u] = call[u]
          /\ call'[c].op = call[c].op /\ call'[c].deadline = call[c].deadline
          /\ Move(c, "recover")
      BY <1>0, <2>5 DEF FlushStarts, FlushTakes, CallStates
    <3> QED
      BY <1>0, <2>1, <2>2, <3>1, CallerTurns
  <2>6. ASSUME FlushDone(c) \/ InflightDrained(c) \/ WaitTimesOut(c) \/ InflightWaits(c)
        PROVE  Turns'
    BY <2>3, <2>4, <2>6 DEF FlushDone, InflightDrained, WaitTimesOut, InflightWaits
  <2>7. ASSUME ShutdownStep(c) PROVE Turns'
    BY <1>2, <2>3, <2>4, <2>7
    DEF ShutdownStep, ShutdownMarksFinite, ShutdownUnqueues, ShutdownLosesRest,
        ShutdownPersists, ShutdownConfirms, LosesTaken
  <2> QED
    BY <2>5, <2>6, <2>7 DEF FlushStep
<1> QED
  BY <1>1, <1>2

\* The steps of the worker.
LEMMA WorkerStepTurns ==
  ASSUME IInv, Turns, WorkerStep \/ Tick \/ UNCHANGED vars
  PROVE  Turns'
<1>0. TypeOK /\ Worker \in Threads /\ Callers \subseteq Threads /\ Worker \notin Callers
      /\ pc \in [Threads -> Places]
  BY ManagerAssumption DEF IInv, TypeOK, Threads
<1>1. CASE WorkerSkipsTick \/ UNCHANGED vars
  BY <1>1 DEF WorkerSkipsTick, vars, flags, control, Turns, Turn
<1>2. CASE Tick
  <2>1. UNCHANGED <<closed, call>> /\ \A c \in Callers : pc'[c] = pc[c]
    BY <1>0, <1>2 DEF Tick
  <2>2. pc'[Worker] \in Away <=> pc[Worker] \in Away
    BY <1>0, <1>2 DEF Tick, Away
  <2> QED
    BY <2>1, <2>2 DEF Turns, Turn
<1>3. ASSUME WorkerStep, ~WorkerSkipsTick PROVE Turns'
  <2>1. /\ UNCHANGED <<closed, call>> /\ pc[Worker] \notin Away
        /\ \E place : Move(Worker, place) \/ MoveAndNotify(Worker, place)
    BY <1>3 DEF WorkerStep, WorkerTakes, WorkerWaits, WorkerStops, WorkerBacksOff,
                WorkerExits, flags, Away
  <2>2. call'[Worker].deadline = "none"
    BY <1>0, <2>1 DEF Turns
  <2> QED
    BY <1>0, <2>1, <2>2, WorkerTurns
<1> QED
  BY <1>1, <1>2, <1>3

\* The steps of a batch, and of the replay before it.
LEMMA DeliverTurns ==
  ASSUME IInv, Turns, NEW t \in Threads, Replay(t) \/ Deliver(t)
  PROVE  Turns'
<1>0. TypeOK /\ call \in [Threads -> CallStates] /\ closed' = closed /\ pc[t] \in Dispatching
  BY DEF IInv, TypeOK, Dispatching, flags, Replay, ReplayStarts, ReplayAnswered, ReplayFails,
         ReplayDone, Deliver, SplitLimitReached, SendRefused, SendStarts, Accepted,
         BatchRejected, Rejected, Failed, Finish
<1>1. ASSUME NEW place, Move(t, place) \/ MoveAndNotify(t, place), UNCHANGED call
      PROVE  Turns'
  BY <1>0, <1>1, DispatchTurns
<1>2. ASSUME RequeueAtHead(t) \/ DropSegment(t), UNCHANGED call PROVE Turns'
  BY <1>1, <1>2 DEF RequeueAtHead, DropSegment
<1>3. CASE ReplayAnswered(t)
  BY <1>0, <1>3 DEF ReplayAnswered, control, Turns, Turn
<1>4. CASE ReplayStarts(t) \/ ReplayDone(t)
  BY <1>1, <1>4 DEF ReplayStarts, ReplayDone, RecoverSucceeds
<1>5. CASE ReplayFails(t)
  <2>1. CASE RequeueAtHead(t) /\ UNCHANGED call
    BY <1>2, <2>1
  <2>2. CASE FlushReturns(t, "false")
    <3>1. CASE call[t].op # "flush"
      BY <1>1, <2>2, <3>1 DEF FlushReturns
    <3>2. CASE call[t].op = "flush"
      <4>1. /\ call' = [call EXCEPT ![t] = [NoCall EXCEPT !.result = "false"]]
            /\ Move(t, "idle")
        BY <2>2, <3>2 DEF FlushReturns
      <4>2. /\ \A u \in Threads \ {t} : call'[u] = call[u]
            /\ call'[t].deadline = "none"
        BY <1>0, <4>1 DEF NoCall
      <4>3. t = Worker
        BY <1>0, <3>2 DEF Turns, Turn, Threads
      <4>4. \A c \in Callers : c # Worker /\ c \in Threads
        BY ManagerAssumption DEF Threads
      <4> QED
        BY <1>0, <4>1, <4>2, <4>3, <4>4, WorkerTurns DEF Dispatching, Away
    <3> QED
      BY <3>1, <3>2
  <2> QED
    BY <1>5, <2>1, <2>2 DEF ReplayFails, RecoverFails
<1>6. CASE SplitLimitReached(t) \/ SendRefused(t) \/ Rejected(t)
  BY <1>2, <1>6 DEF SplitLimitReached, SendRefused, Rejected
<1>7. CASE SendStarts(t) \/ Accepted(t) \/ BatchRejected(t)
  BY <1>1, <1>7 DEF SendStarts, Accepted, BatchRejected
<1>8. CASE Failed(t)
  BY <1>1, <1>2, <1>8 DEF Failed
<1>9. CASE Finish(t)
  <2>1. /\ \A u \in Threads \ {t} : call'[u] = call[u]
        /\ call'[t].op = call[t].op /\ call'[t].deadline = call[t].deadline
    BY <1>0, <1>9 DEF Finish, CallStates
  <2>2. \E place : MoveAndNotify(t, place)
    BY <1>9 DEF Finish
  <2> QED
    BY <1>0, <2>1, <2>2, DispatchTurns
<1> QED
  BY <1>3, <1>4, <1>5, <1>6, <1>7, <1>8, <1>9 DEF Replay, Deliver

\* Every step leaves every thread its turn.
LEMMA TurnsStep ==
  ASSUME OneDispatcher, IInv, Turns, [Next]_vars
  PROVE  Turns'
<1>1. ASSUME NEW c \in Callers, AddRefused(c) \/ AddOverflows(c) PROVE Turns'
  BY <1>1 DEF AddRefused, AddOverflows, control, flags, Turns, Turn
<1>2. ASSUME NEW c \in Callers, FlushCalled(c) PROVE FALSE
  BY <1>2 DEF FlushCalled, CanCall, OneDispatcher
<1>3. ASSUME NEW c \in Callers, DeadlinePasses(c) PROVE FALSE
  BY <1>3 DEF DeadlinePasses, Turns, Threads
<1> QED
  BY <1>1, <1>2, <1>3, AddTurns, ShutdownTurns, StepTurns, WorkerStepTurns, DeliverTurns
  DEF Next, Add

-----------------------------------------------------------------------------
(* A batch is sent as a whole, and only when the log is empty.             *)

Whole == \A t \in Threads : job[t].ends # <<>> => job[t].done = 0 /\ Len(job[t].ends) = 1

\* What can become of the segments of a batch.
SameEnds(t) == job'[t].done = job[t].done /\ job'[t].ends = job[t].ends
OneSegment(t) == job'[t].done = 0 /\ Len(job'[t].ends) = 1
NoSegment(t) == job'[t].ends = <<>>

\* A segment is resolved, and it was the only one.
LEMMA ResolvedWhole ==
  ASSUME IInv, Whole, NEW t \in Threads, job[t].ends # <<>>,
         NEW o \in {"ok", "rejected", "transient"},
         job' = Resolved(t, o) \/ (job[t].budget > 0 /\ job' = Spent(Resolved(t, o), t))
  PROVE  NoSegment(t) /\ \A u \in Threads \ {t} : SameEnds(u)
<1>1. TypeOK /\ JobsWellFormed /\ job \in [Threads -> Jobs]
  BY DEF IInv, TypeOK
<1>2. Resolved(t, o) \in [Threads -> Jobs]
  BY <1>1, ResolvedTypes
<1>3. /\ Resolved(t, o)[t].ends = Tail(job[t].ends)
      /\ \A u \in Threads \ {t} : Resolved(t, o)[u] = job[u]
  BY <1>1 DEF Resolved, Jobs
<1>4. Tail(job[t].ends) = <<>>
  <2>1. job[t].ends \in Seq(Nat) /\ Len(job[t].ends) = 1
    BY <1>1 DEF Whole, Jobs
  <2>2. Tail(job[t].ends) \in Seq(Nat) /\ Len(Tail(job[t].ends)) = 0
    BY <2>1
  <2>3. \A q \in Seq(Nat) : Len(q) = 0 => q = <<>>
    OBVIOUS
  <2> QED
    BY <2>2, <2>3, Zenon
<1>5. /\ job'[t].ends = Resolved(t, o)[t].ends
      /\ \A u \in Threads \ {t} : job'[u] = Resolved(t, o)[u]
  BY <1>1, <1>2, SpentTypes
<1> QED
  BY <1>3, <1>4, <1>5 DEF NoSegment, SameEnds

\* _deliver never splits.
LEMMA NeverSplit ==
  ASSUME OneDispatcher, InflightInv, NEW t \in Threads
  PROVE  ~BatchRejected(t)
<1> SUFFICES ASSUME BatchRejected(t) PROVE FALSE
  OBVIOUS
<1>1. TypeOK /\ JobsWellFormed /\ pc[t] = "post" /\ SegmentLen(t) > 1 /\ "400" \in Responses
  BY DEF InflightInv, IInv, BatchRejected
<1>2. FlushSize = 1 /\ Len(job[t].batch) <= FlushSize
  BY <1>1 DEF OneDispatcher, InflightInv, BatchesBounded
<1>3. job[t].ends # <<>>
  BY <1>1 DEF JobsWellFormed, WellFormed
<1>4. /\ Head(job[t].ends) <= Len(job[t].batch) /\ Head(job[t].ends) \in Nat
      /\ job[t].done \in Nat /\ Len(job[t].batch) \in Nat
  BY <1>1, <1>3, HeadSegment DEF Jobs
<1> QED
  BY <1>1, <1>2, <1>4 DEF SegmentLen

\* Every step leaves the segments of a batch as they are, or ends it, or begins one
\* of a single segment.
LEMMA WholeSteps ==
  ASSUME OneDispatcher, InflightInv, Whole, [Next]_vars, NEW u \in Threads
  PROVE  SameEnds(u) \/ NoSegment(u) \/ OneSegment(u)
<1> USE DEF flags, counters, log, memory, history, control
<1>0. IInv /\ TypeOK /\ JobsWellFormed /\ Worker \in Threads /\ Callers \subseteq Threads
      /\ job \in [Threads -> Jobs]
  BY DEF InflightInv, IInv, TypeOK, Threads
<1>1. UNCHANGED job => SameEnds(u)
  BY DEF SameEnds
<1>2. ASSUME NEW t \in Threads, NEW n, Pop(t, n) PROVE SameEnds(u) \/ OneSegment(u)
  <2>1. /\ job'[t].done = 0 /\ job'[t].ends = <<n>>
        /\ \A v \in Threads \ {t} : job'[v] = job[v]
    BY <1>0, <1>2 DEF Pop
  <2> QED
    BY <2>1 DEF SameEnds, OneSegment
<1>3. ASSUME NEW t \in Threads, NEW o \in {"ok", "rejected", "transient"}, job[t].ends # <<>>,
             job' = Resolved(t, o) \/ (job[t].budget > 0 /\ job' = Spent(Resolved(t, o), t))
      PROVE  SameEnds(u) \/ NoSegment(u)
  BY <1>0, <1>3, ResolvedWhole
<1>4. ASSUME NEW t \in Threads,
             \/ SplitLimitReached(t) \/ SendRefused(t) \/ Accepted(t) \/ Rejected(t)
             \/ Failed(t)
      PROVE  SameEnds(u) \/ NoSegment(u)
  <2>1. /\ pc[t] \in {"deliver", "post"}
        /\ \E o \in {"ok", "rejected", "transient"} :
             job' = Resolved(t, o) \/ (job[t].budget > 0 /\ job' = Spent(Resolved(t, o), t))
    BY <1>4
    DEF SplitLimitReached, SendRefused, Accepted, Rejected, Failed, DropSegment, BudgetLeft
  <2>2. job[t].ends # <<>>
    BY <1>0, <2>1 DEF JobsWellFormed, WellFormed
  <2> QED
    BY <1>3, <2>1, <2>2
<1>5. ASSUME NEW t \in Threads, SendStarts(t) PROVE SameEnds(u)
  <2>1. job' = Spent(job, t) /\ job[t].budget > 0
    BY <1>5 DEF SendStarts, BudgetLeft
  <2> QED
    BY <1>0, <2>1, SpentTypes DEF SameEnds
<1>6. ASSUME NEW t \in Threads, Finish(t) PROVE SameEnds(u) \/ NoSegment(u)
  BY <1>0, <1>6 DEF Finish, SameEnds, NoSegment, NoJob
<1>7. ASSUME NEW t \in Threads, ReplayFails(t) PROVE SameEnds(u) \/ NoSegment(u)
  <2>1. CASE job' = job
    BY <1>1, <2>1
  <2>2. CASE job' = Resolved(t, "transient") /\ job[t].batch # <<>>
    <3>1. job[t].done = 0 /\ Len(job[t].batch) # 0
      BY <1>0, <1>7, <2>2 DEF ReplayFails, JobsWellFormed, WellFormed, Jobs
    <3>2. job[t].ends # <<>>
      BY <1>0, <3>1 DEF JobsWellFormed, WellFormed
    <3> QED
      BY <1>3, <2>2, <3>2
  <2> QED
    BY <1>7, <2>1, <2>2 DEF ReplayFails, RecoverFails
<1>8. ASSUME NEW c \in Callers,
             \/ Add(c) \/ FlushCalled(c) \/ ShutdownBegins(c) \/ EnsureWorker(c)
             \/ FlushStarts(c) \/ FlushDone(c) \/ InflightDrained(c) \/ WaitTimesOut(c)
             \/ InflightWaits(c) \/ ShutdownStep(c) \/ DeadlinePasses(c)
      PROVE  UNCHANGED job
  BY <1>8
  DEF Add, AddRefused, AddOverflows, AddAccepted, FlushCalled, ShutdownBegins, EnsureWorker,
      FlushStarts, FlushDone, InflightDrained, WaitTimesOut, InflightWaits, ShutdownStep,
      ShutdownJoins, ShutdownMarksFinite, ShutdownUnqueues, ShutdownLosesRest,
      ShutdownPersists, ShutdownConfirms, DeadlinePasses
<1>9. ASSUME NEW t \in Threads, ReplayStarts(t) \/ ReplayAnswered(t) \/ ReplayDone(t)
      PROVE  UNCHANGED job
  BY <1>9 DEF ReplayStarts, ReplayAnswered, ReplayDone, RecoverSucceeds
<1>10. ASSUME \/ WorkerSkipsTick \/ WorkerWaits \/ WorkerStops \/ WorkerBacksOff
              \/ WorkerExits \/ Tick \/ UNCHANGED vars
       PROVE  UNCHANGED job
  BY <1>10
  DEF WorkerSkipsTick, WorkerWaits, WorkerStops, WorkerBacksOff, WorkerExits, Tick, vars
<1>11. CASE \E c \in Callers : \/ Add(c) \/ FlushCalled(c) \/ ShutdownBegins(c)
                               \/ EnsureWorker(c) \/ FlushStep(c) \/ ShutdownStep(c)
                               \/ DeadlinePasses(c)
  BY <1>0, <1>1, <1>2, <1>8, <1>11 DEF FlushStep, FlushTakes
<1>12. CASE \E t \in Threads : Replay(t) \/ Deliver(t)
  BY <1>1, <1>4, <1>5, <1>6, <1>7, <1>9, <1>12, NeverSplit DEF Replay, Deliver
<1>13. CASE WorkerStep \/ Tick \/ UNCHANGED vars
  BY <1>0, <1>1, <1>2, <1>10, <1>13 DEF WorkerStep, WorkerTakes
<1> QED
  BY <1>11, <1>12, <1>13 DEF Next

LEMMA WholeStep ==
  ASSUME OneDispatcher, InflightInv, Whole, [Next]_vars
  PROVE  Whole'
  BY WholeSteps DEF Whole, SameEnds, NoSegment, OneSegment

\* The thread that replays has the log to itself, and the one that sends finds it
\* empty but for what it sends.
Sending == {"replay", "deliver", "post"}
LogEmptied ==
  \A t \in Threads :
    /\ pc[t] = "replay" => todo = Len(wal)
    /\ pc[t] = "deliver" => wal = <<>>
    /\ pc[t] = "post" => Len(wal) = IF enabled THEN 1 ELSE 0

NoneSends == \A u \in Threads : pc'[u] \in Sending => pc'[u] = pc[u]

\* Moving elsewhere sends nothing.
LEMMA MovesAside ==
  ASSUME TypeOK, NEW t, NEW place \in Places \ Sending,
         Move(t, place) \/ MoveAndNotify(t, place)
  PROVE  NoneSends
  BY NotifiedTypes DEF Move, MoveAndNotify, NoneSends, Sending, Dispatching, TypeOK

\* Only replaying the log leads to sending.
LEMMA SendingSteps ==
  ASSUME OneDispatcher, InflightInv, Whole, [Next]_vars
  PROVE  \/ NoneSends
         \/ \E t \in Threads : ReplayStarts(t) \/ ReplayDone(t) \/ SendStarts(t)
<1> USE DEF flags, counters, log, memory, history, control, Sending
<1>0. TypeOK /\ JobsWellFormed
  BY DEF InflightInv, IInv
<1>1. ASSUME NEW c, NEW r, FlushReturns(c, r) PROVE NoneSends
  BY <1>0, <1>1, MovesAside DEF FlushReturns, Places
<1>2. ASSUME NEW t \in Threads, job[t].ends # <<>>,
             \/ Move(t, AfterSegment(t)) \/ MoveAndNotify(t, AfterSegment(t))
      PROVE NoneSends
  BY <1>0, <1>2, MovesAside DEF AfterSegment, Whole, Places
<1>3. ASSUME NEW c, ShutdownReturns(c) PROVE NoneSends
  BY <1>0, <1>3, MovesAside DEF ShutdownReturns, Places
<1>4. UNCHANGED pc => NoneSends
  BY DEF NoneSends
<1>5. ASSUME NEW c \in Callers, Add(c) \/ FlushCalled(c) \/ ShutdownBegins(c) PROVE NoneSends
  BY <1>0, <1>4, <1>5, MovesAside
  DEF Add, AddRefused, AddOverflows, AddAccepted, FlushCalled, ShutdownBegins, Places
<1>6. ASSUME NEW c \in Callers, EnsureWorker(c) PROVE NoneSends
  BY <1>0, <1>6, MovesAside DEF EnsureWorker, Places, NoneSends, TypeOK
<1>7. ASSUME NEW c \in Callers, FlushStep(c) PROVE NoneSends
  BY <1>0, <1>1, <1>7, MovesAside
  DEF FlushStep, FlushStarts, FlushDone, FlushTakes, InflightDrained, WaitTimesOut,
      InflightWaits, Places
<1>8. ASSUME NEW c \in Callers, ShutdownStep(c) PROVE NoneSends
  BY <1>0, <1>3, <1>4, <1>8, MovesAside
  DEF ShutdownStep, ShutdownJoins, ShutdownMarksFinite, ShutdownUnqueues,
      ShutdownLosesRest, ShutdownPersists, ShutdownConfirms, LosesTaken, Places
<1>9. ASSUME NEW c \in Callers, DeadlinePasses(c) PROVE NoneSends
  BY <1>0, <1>9 DEF DeadlinePasses, NoneSends, Awake, TypeOK
<1>10. ASSUME NEW t \in Threads, ReplayAnswered(t) \/ ReplayFails(t) PROVE NoneSends
  <2>1. CASE ReplayAnswered(t)
    BY <1>4, <2>1 DEF ReplayAnswered
  <2>2. CASE ReplayFails(t) /\ job[t].batch = <<>>
    BY <1>1, <2>2 DEF ReplayFails, RecoverFails
  <2>3. CASE ReplayFails(t) /\ job[t].batch # <<>>
    <3>1. job[t].done = 0 /\ Len(job[t].batch) # 0
      BY <1>0, <2>3 DEF ReplayFails, JobsWellFormed, WellFormed, TypeOK, Jobs
    <3>2. job[t].ends # <<>>
      BY <1>0, <3>1 DEF JobsWellFormed, WellFormed
    <3> QED
      BY <1>2, <2>3, <3>2 DEF ReplayFails, RecoverFails, RequeueAtHead
  <2> QED
    BY <1>10, <2>1, <2>2, <2>3
<1>11. ASSUME NEW t \in Threads,
              \/ SplitLimitReached(t) \/ SendRefused(t) \/ Accepted(t)
              \/ Rejected(t) \/ Failed(t)
       PROVE  NoneSends
  <2>1. pc[t] \in {"deliver", "post"}
        /\ (Move(t, AfterSegment(t)) \/ MoveAndNotify(t, AfterSegment(t)))
    BY <1>11 DEF SplitLimitReached, SendRefused, Accepted, Rejected, Failed, RequeueAtHead,
                 DropSegment
  <2>2. job[t].ends # <<>>
    BY <1>0, <2>1 DEF JobsWellFormed, WellFormed
  <2> QED
    BY <1>2, <2>1, <2>2
<1>12. ASSUME NEW t \in Threads, Finish(t) PROVE NoneSends
  BY <1>0, <1>12, MovesAside DEF Finish, Places
<1>13. ASSUME WorkerStep PROVE NoneSends
  BY <1>0, <1>4, <1>13, MovesAside
  DEF WorkerStep, WorkerTakes, WorkerSkipsTick, WorkerWaits, WorkerStops, WorkerBacksOff,
      WorkerExits, Places
<1>14. ASSUME Tick PROVE NoneSends
  BY <1>0, <1>14 DEF Tick, NoneSends, TypeOK
<1>15. CASE UNCHANGED vars
  BY <1>4, <1>15 DEF vars
<1> QED
  BY <1>5, <1>6, <1>7, <1>8, <1>9, <1>10, <1>11, <1>12, <1>13, <1>14, <1>15, NeverSplit
  DEF Next, Replay, Deliver

\* Only a thread that is busy changes the log.
LEMMA LogChangers ==
  ASSUME [Next]_vars
  PROVE  \/ UNCHANGED log
         \/ \E t \in Threads : /\ Busy(t)
                               /\ \/ ReplayStarts(t) \/ ReplayAnswered(t)
                                  \/ /\ ReplayFails(t) \/ Accepted(t) \/ BatchRejected(t)
                                        \/ Rejected(t)
                                  \/ SendStarts(t)
                                  \/ t \in Callers /\ ShutdownPersists(t)
<1> USE DEF log, Busy, Dispatching
<1>1. ASSUME NEW c \in Callers,
             \/ Add(c) \/ FlushCalled(c) \/ ShutdownBegins(c) \/ EnsureWorker(c)
             \/ FlushStep(c) \/ DeadlinePasses(c) \/ ShutdownJoins(c)
             \/ ShutdownMarksFinite(c) \/ ShutdownUnqueues(c) \/ ShutdownLosesRest(c)
             \/ ShutdownConfirms(c)
      PROVE  UNCHANGED log
  BY <1>1
  DEF Add, AddRefused, AddOverflows, AddAccepted, FlushCalled, ShutdownBegins, EnsureWorker,
      FlushStep, FlushStarts, FlushDone, FlushTakes, InflightDrained, WaitTimesOut,
      InflightWaits, DeadlinePasses, ShutdownJoins, ShutdownMarksFinite, ShutdownUnqueues,
      ShutdownLosesRest, ShutdownConfirms
<1>2. ASSUME NEW c \in Callers, ShutdownPersists(c) PROVE c \in Threads /\ Busy(c)
  BY <1>2 DEF ShutdownPersists, Threads
<1>3. ASSUME NEW t \in Threads,
             \/ ReplayDone(t) \/ SplitLimitReached(t) \/ SendRefused(t) \/ Failed(t)
             \/ Finish(t)
      PROVE  UNCHANGED log
  BY <1>3 DEF ReplayDone, SplitLimitReached, SendRefused, Failed, Finish
<1>4. ASSUME NEW t \in Threads,
             \/ ReplayStarts(t) \/ ReplayAnswered(t) \/ ReplayFails(t) \/ Accepted(t)
             \/ BatchRejected(t) \/ Rejected(t) \/ SendStarts(t)
      PROVE  Busy(t)
  BY <1>4 DEF ReplayStarts, ReplayAnswered, ReplayFails, Accepted, BatchRejected, Rejected,
              SendStarts
<1>5. ASSUME WorkerStep \/ Tick \/ UNCHANGED vars PROVE UNCHANGED log
  BY <1>5
  DEF WorkerStep, WorkerTakes, WorkerSkipsTick, WorkerWaits, WorkerStops, WorkerBacksOff,
      WorkerExits, Tick, vars
<1> QED
  BY <1>1, <1>2, <1>3, <1>4, <1>5 DEF Next, Replay, Deliver, ShutdownStep

\* A thread that goes on sending has the log to itself.
LEMMA LogKeptFor ==
  ASSUME OneDispatcher, IInv, Turns, LogEmptied, [Next]_vars,
         NEW u \in Threads, pc[u] \in Sending, pc'[u] = pc[u]
  PROVE  \/ UNCHANGED log
         \/ ReplayAnswered(u)
<1>1. SUFFICES ASSUME NEW t \in Threads, Busy(t),
                      \/ ReplayStarts(t) \/ ReplayAnswered(t) \/ ReplayFails(t)
                      \/ Accepted(t) \/ BatchRejected(t) \/ Rejected(t) \/ SendStarts(t)
                      \/ t \in Callers /\ ShutdownPersists(t)
               PROVE  ReplayAnswered(u)
  BY LogChangers
<1>2. t = u
  BY <1>1, OneIsBusy DEF Busy, Sending, Dispatching
<1>3. TypeOK /\ Places \cap {"finish", "idle", "unqueue"} = {"finish", "idle", "unqueue"}
  BY DEF IInv, Places
<1>4. ASSUME NEW place, Move(u, place) \/ MoveAndNotify(u, place)
      PROVE  pc'[u] = place
  BY <1>3, <1>4, OthersPlaces
<1>5. ASSUME ReplayStarts(u) \/ SendStarts(u) \/ BatchRejected(u) PROVE FALSE
  BY <1>4, <1>5 DEF ReplayStarts, SendStarts, BatchRejected
<1>6. ASSUME ReplayFails(u) \/ Accepted(u) \/ Rejected(u) PROVE FALSE
  <2>1. pc[u] \in {"recover", "replay", "post"}
    BY <1>6 DEF ReplayFails, Accepted, Rejected
  <2>2. pc'[u] \in {"finish", "deliver", "idle", "unqueue"}
    BY <1>4, <1>6, AfterSegmentPlace
    DEF ReplayFails, RecoverFails, FlushReturns, RequeueAtHead, Accepted, Rejected, DropSegment
  <2> QED
    BY <2>1, <2>2
<1>7. ~ShutdownPersists(u)
  BY DEF ShutdownPersists, Sending
<1> QED
  BY <1>1, <1>2, <1>5, <1>6, <1>7

LEMMA LogEmptiedStep ==
  ASSUME OneDispatcher, InflightInv, Turns, Whole, LogEmptied, [Next]_vars
  PROVE  LogEmptied'
<1>0. IInv /\ TypeOK /\ wal \in Seq(Seq(Event)) /\ todo \in Nat
  BY DEF InflightInv, IInv, TypeOK
<1>1. SUFFICES ASSUME NEW u \in Threads
               PROVE  /\ pc'[u] = "replay" => todo' = Len(wal')
                      /\ pc'[u] = "deliver" => wal' = <<>>
                      /\ pc'[u] = "post" => Len(wal') = IF enabled THEN 1 ELSE 0
  BY EnabledStays DEF LogEmptied
<1>2. CASE pc[u] \in Sending /\ pc'[u] = pc[u]
  <2>1. CASE UNCHANGED log
    BY <1>2, <2>1 DEF LogEmptied, log
  <2>2. CASE ReplayAnswered(u)
    <3>1. /\ pc[u] = "replay" /\ todo > 0 /\ wal' = Tail(wal) /\ todo' = todo - 1
          /\ todo = Len(wal)
      BY <2>2 DEF ReplayAnswered, LogEmptied
    <3>2. Len(wal') = Len(wal) - 1
      BY <1>0, <3>1
    <3> QED
      BY <1>2, <3>1, <3>2
  <2> QED
    BY <1>0, <1>2, <2>1, <2>2, LogKeptFor
<1>3. ASSUME NEW t \in Threads, NEW place \in Sending, Move(t, place), pc'[u] \in Sending,
             ~(pc[u] \in Sending /\ pc'[u] = pc[u])
      PROVE  u = t /\ pc'[u] = place
  <2>1. /\ pc'[t] = place
        /\ \A v \in Threads \ {t} : pc'[v] = pc[v] \/ pc'[v] = Awake(pc[v])
    BY <1>0, <1>3, OthersPlaces
  <2> QED
    BY <1>3, <2>1, AwakePlaces DEF Sending
<1>4. ASSUME pc'[u] \in Sending, ~(pc[u] \in Sending /\ pc'[u] = pc[u])
      PROVE  /\ pc'[u] = "replay" => todo' = Len(wal')
             /\ pc'[u] = "deliver" => wal' = <<>>
             /\ pc'[u] = "post" => Len(wal') = IF enabled THEN 1 ELSE 0
  <2>1. PICK t \in Threads : ReplayStarts(t) \/ ReplayDone(t) \/ SendStarts(t)
    BY <1>4, SendingSteps DEF NoneSends
  <2>2. CASE ReplayStarts(t)
    <3>1. Move(t, "replay") /\ todo' = Len(wal) /\ wal' = wal
      BY <2>2 DEF ReplayStarts
    <3>2. pc'[u] = "replay"
      BY <1>3, <1>4, <3>1 DEF Sending
    <3> QED
      BY <3>1, <3>2
  <2>3. CASE ReplayDone(t)
    <3>1. /\ Move(t, IF job[t].batch = <<>> THEN "ensure" ELSE "deliver")
          /\ pc[t] = "replay" /\ todo = 0 /\ wal' = wal
      BY <2>3 DEF ReplayDone, RecoverSucceeds, log
    <3>2. wal = <<>>
      <4>1. Len(wal) = 0
        BY <3>1 DEF LogEmptied
      <4> QED
        BY <1>0, <4>1
    <3>3. job[t].batch # <<>>
      <4>1. SUFFICES ASSUME job[t].batch = <<>> PROVE FALSE
        OBVIOUS
      <4>2. NoneSends
        BY <1>0, <3>1, <4>1, MovesAside DEF Places, Sending
      <4> QED
        BY <1>4, <4>2 DEF NoneSends
    <3>4. pc'[u] = "deliver"
      BY <1>3, <1>4, <3>1, <3>3 DEF Sending
    <3> QED
      BY <3>1, <3>2, <3>4
  <2>4. CASE SendStarts(t)
    <3>1. /\ Move(t, "post") /\ wal = <<>>
          /\ wal' = IF enabled THEN Append(wal, Segment(t)) ELSE wal
      BY <2>4 DEF SendStarts, LogEmptied
    <3>2. pc'[u] = "post"
      BY <1>3, <1>4, <3>1 DEF Sending
    <3>3. Len(wal') = IF enabled THEN 1 ELSE 0
      BY <3>1
    <3> QED
      BY <3>2, <3>3
  <2> QED
    BY <2>1, <2>2, <2>3, <2>4
<1> QED
  BY <1>2, <1>4 DEF Sending

\* Beside the queue, at most one holder has events.
Handed == Holders \ {InQueue}

LEMMA OneHand ==
  ASSUME OneDispatcher, IInv, Turns, NEW g \in Handed, NEW h \in Handed,
         Holding[g] # <<>>, Holding[h] # <<>>
  PROVE  /\ g = h
         /\ \E t \in Threads : Busy(t) /\ \/ g = InBatch(t) /\ pc[t] \in Dispatching
                                          \/ g = InHands(t) /\ pc[t] \notin Dispatching
<1>0. Callers \subseteq Threads
  BY DEF Threads
<1>1. ASSUME NEW t \in Threads, Holding[InBatch(t)] # <<>> PROVE pc[t] \in Dispatching
  <2>1. Unresolved(t) # <<>> /\ job[t].batch \in Seq(Event)
    BY <1>1, HoldingIs DEF IInv, TypeOK, Jobs
  <2>2. job[t].batch # <<>>
    <3>1. job[t].done \in Nat /\ Len(Unresolved(t)) = Len(job[t].batch) - job[t].done
          /\ Unresolved(t) \in Seq(Event)
      BY HoldingTypes DEF IInv, TypeOK, Jobs
    <3>2. Len(Unresolved(t)) > 0
      BY <2>1, <3>1
    <3> QED
      BY <3>1, <3>2
  <2> QED
    BY <2>2 DEF IInv, JobsWellFormed, WellFormed
<1>2. ASSUME NEW c \in Callers, Holding[InHands(c)] # <<>>
      PROVE  pc[c] \in {"persist", "confirm"}
  <2>1. Unwritten(c) # <<>>
    BY <1>2, HoldingIs
  <2> QED
    BY <2>1 DEF Unwritten, IInv, NothingStranded
<1>3. \A k \in Handed : (\E t \in Threads : k = InBatch(t)) \/ (\E c \in Callers : k = InHands(c))
  BY HoldersAre DEF Handed
<1>4. \A k \in Handed : Holding[k] # <<>> =>
        \E t \in Threads : Busy(t) /\ \/ k = InBatch(t) /\ pc[t] \in Dispatching
                                      \/ k = InHands(t) /\ pc[t] \notin Dispatching
  BY <1>0, <1>1, <1>2, <1>3 DEF Busy, Dispatching
<1>5. PICK t \in Threads : Busy(t) /\ \/ g = InBatch(t) /\ pc[t] \in Dispatching
                                      \/ g = InHands(t) /\ pc[t] \notin Dispatching
  BY <1>4
<1>6. PICK u \in Threads : Busy(u) /\ \/ h = InBatch(u) /\ pc[u] \in Dispatching
                                      \/ h = InHands(u) /\ pc[u] \notin Dispatching
  BY <1>4
<1>7. t = u
  BY <1>5, <1>6, OneIsBusy
<1>8. g = h
  BY <1>5, <1>6, <1>7
<1> QED
  BY <1>5, <1>8

-----------------------------------------------------------------------------
(* Sequences of events that ascend.                                        *)

Ascends(s) == \A i, k \in DOMAIN s : i < k => s[i] < s[k]
Before(E, F) == \A e \in E, f \in F : e < f

\* What is before everything in a set is before everything in a part of it.
LEMMA BeforeParts ==
  ASSUME NEW E, NEW F, NEW D \in SUBSET E, NEW G \in SUBSET F, Before(E, F)
  PROVE  Before(D, G)
  BY DEF Before

\* The first part of what ascends is before the rest.
LEMMA AscendsParts ==
  ASSUME NEW S, NEW s \in Seq(S), Ascends(s), NEW n \in 0 .. Len(s)
  PROVE  /\ Ascends(SubSeq(s, 1, n)) /\ Ascends(SubSeq(s, n + 1, Len(s)))
         /\ Before(ToSet(SubSeq(s, 1, n)), ToSet(SubSeq(s, n + 1, Len(s))))
         /\ ToSet(SubSeq(s, 1, n)) \subseteq ToSet(s)
         /\ ToSet(SubSeq(s, n + 1, Len(s))) \subseteq ToSet(s)
<1> DEFINE v == SubSeq(s, 1, n)
           w == SubSeq(s, n + 1, Len(s))
<1>1. Len(s) \in Nat /\ n \in Nat /\ n <= Len(s) /\ DOMAIN s = 1 .. Len(s)
  OBVIOUS
<1>2. /\ DOMAIN v = 1 .. n /\ DOMAIN w = 1 .. (Len(s) - n)
      /\ \A i \in 1 .. n : v[i] = s[i]
      /\ \A i \in 1 .. (Len(s) - n) : w[i] = s[n + i]
  BY PartsOf
<1>3. /\ ToSet(v) = {s[i] : i \in 1 .. n}
      /\ ToSet(w) = {s[i] : i \in (n + 1) .. Len(s)}
      /\ ToSet(s) = {s[i] : i \in 1 .. Len(s)}
  BY PartsHold
<1> HIDE DEF v, w
<1>4. Ascends(v)
  BY <1>1, <1>2 DEF Ascends
<1>5. Ascends(w)
  <2>1. SUFFICES ASSUME NEW i \in DOMAIN w, NEW k \in DOMAIN w, i < k PROVE w[i] < w[k]
    BY DEF Ascends
  <2>2. n + i \in DOMAIN s /\ n + k \in DOMAIN s /\ n + i < n + k
    BY <1>1, <1>2, <2>1
  <2> QED
    BY <1>2, <2>2 DEF Ascends
<1>6. Before(ToSet(v), ToSet(w))
  <2>1. \A i \in 1 .. n, k \in (n + 1) .. Len(s) : s[i] < s[k]
    BY <1>1 DEF Ascends
  <2> QED
    BY <1>3, <2>1 DEF Before
<1>7. ToSet(v) \subseteq ToSet(s) /\ ToSet(w) \subseteq ToSet(s)
  BY <1>1, <1>3
<1> QED
  BY <1>4, <1>5, <1>6, <1>7 DEF v, w

\* Two sequences that ascend, one before the other, are one that does.
LEMMA AscendsConcat ==
  ASSUME NEW S, NEW v \in Seq(S), NEW w \in Seq(S), Ascends(v), Ascends(w),
         Before(ToSet(v), ToSet(w))
  PROVE  Ascends(v \o w) /\ ToSet(v \o w) = ToSet(v) \cup ToSet(w)
<1> DEFINE u == v \o w
<1>1. /\ DOMAIN u = 1 .. (Len(v) + Len(w))
      /\ \A k \in 1 .. Len(v) : u[k] = v[k]
      /\ \A k \in (Len(v) + 1) .. (Len(v) + Len(w)) : u[k] = w[k - Len(v)]
  BY ConcatOf, Zenon
<1>2. /\ Len(v) \in Nat /\ Len(w) \in Nat /\ DOMAIN v = 1 .. Len(v) /\ DOMAIN w = 1 .. Len(w)
  OBVIOUS
<1> HIDE DEF u
<1>3. \A k \in DOMAIN u : \/ k \in DOMAIN v /\ u[k] = v[k]
                          \/ k - Len(v) \in DOMAIN w /\ u[k] = w[k - Len(v)] /\ k > Len(v)
  BY <1>1, <1>2
<1>4. Ascends(u)
  <2>1. SUFFICES ASSUME NEW i \in DOMAIN u, NEW k \in DOMAIN u, i < k PROVE u[i] < u[k]
    BY DEF Ascends
  <2>2. i \in Nat /\ k \in Nat
    BY <1>1
  <2>3. CASE i \in DOMAIN v /\ u[i] = v[i] /\ k \in DOMAIN v /\ u[k] = v[k]
    BY <2>1, <2>3 DEF Ascends
  <2>4. CASE /\ i \in DOMAIN v /\ u[i] = v[i]
             /\ k - Len(v) \in DOMAIN w /\ u[k] = w[k - Len(v)]
    BY <2>4 DEF Before, ToSet
  <2>5. CASE /\ i - Len(v) \in DOMAIN w /\ u[i] = w[i - Len(v)]
             /\ k - Len(v) \in DOMAIN w /\ u[k] = w[k - Len(v)]
    <3>1. i - Len(v) < k - Len(v)
      BY <1>2, <2>1, <2>2
    <3> QED
      BY <2>5, <3>1 DEF Ascends
  <2>6. CASE i > Len(v) /\ k \in DOMAIN v
    BY <1>2, <2>1, <2>2, <2>6
  <2> QED
    BY <1>3, <2>3, <2>4, <2>5, <2>6
<1>5. ToSet(u) = ToSet(v) \cup ToSet(w)
  <2>1. ToSet(u) \subseteq ToSet(v) \cup ToSet(w)
    BY <1>3 DEF ToSet
  <2>2. ToSet(v) \subseteq ToSet(u)
    BY <1>1, <1>2 DEF ToSet
  <2>3. ASSUME NEW i \in DOMAIN w PROVE w[i] \in ToSet(u)
    <3>1. i + Len(v) \in DOMAIN u /\ u[i + Len(v)] = w[i]
      BY <1>1, <1>2
    <3> QED
      BY <3>1 DEF ToSet
  <2> QED
    BY <2>1, <2>2, <2>3 DEF ToSet
<1> QED
  BY <1>4, <1>5 DEF u

\* So is one with a larger event at its end.
LEMMA AscendsAppend ==
  ASSUME NEW S, NEW s \in Seq(S), NEW x \in S, Ascends(s), Before(ToSet(s), {x})
  PROVE  Ascends(Append(s, x)) /\ ToSet(Append(s, x)) = ToSet(s) \cup {x}
<1> DEFINE u == Append(s, x)
<1>1. /\ DOMAIN s = 1 .. Len(s) /\ DOMAIN u = DOMAIN s \cup {Len(s) + 1} /\ Len(s) \in Nat
      /\ u[Len(s) + 1] = x /\ \A i \in DOMAIN s : u[i] = s[i]
  OBVIOUS
<1> HIDE DEF u
<1>2. \A i \in DOMAIN s : s[i] < x
  BY DEF Before, ToSet
<1>3. Ascends(u)
  BY <1>1, <1>2 DEF Ascends
<1>4. ToSet(u) = ToSet(s) \cup {x}
  BY <1>1 DEF ToSet
<1> QED
  BY <1>3, <1>4 DEF u

\* The records of the log are in the order of their events.
Rises(w) == \A i, k \in DOMAIN w : i < k => Before(ToSet(w[i]), ToSet(w[k]))

\* They stay so when one is removed,
LEMMA RisesRemoved ==
  ASSUME NEW S, NEW w \in Seq(S), Rises(w), NEW i \in DOMAIN w
  PROVE  Rises(RemoveAt(w, i))
<1> DEFINE u == RemoveAt(w, i)
<1>1. /\ DOMAIN u = 1 .. (Len(w) - 1)
      /\ \A k \in 1 .. (Len(w) - 1) : RemainsAt(i, k) \in DOMAIN w
                                      /\ u[k] = w[RemainsAt(i, k)]
  BY RemovedAt
<1>2. i \in Nat
  OBVIOUS
<1> HIDE DEF u
<1>3. \A k, l \in DOMAIN u : k < l => RemainsAt(i, k) < RemainsAt(i, l)
  BY <1>1, <1>2 DEF RemainsAt
<1>4. Rises(u)
  BY <1>1, <1>3 DEF Rises
<1> QED
  BY <1>4 DEF u

\* and when one of larger events is appended.
LEMMA RisesAppended ==
  ASSUME NEW S, NEW w \in Seq(S), NEW r \in S, Rises(w), Before(EventsIn(w), ToSet(r))
  PROVE  Rises(Append(w, r))
<1> DEFINE u == Append(w, r)
<1>1. /\ DOMAIN w = 1 .. Len(w) /\ DOMAIN u = DOMAIN w \cup {Len(w) + 1} /\ Len(w) \in Nat
      /\ u[Len(w) + 1] = r /\ \A i \in DOMAIN w : u[i] = w[i]
  OBVIOUS
<1> HIDE DEF u
<1>2. \A i \in DOMAIN w : Before(ToSet(w[i]), ToSet(r))
  BY DEF Before, EventsIn
<1>3. Rises(u)
  BY <1>1, <1>2 DEF Rises
<1> QED
  BY <1>3 DEF u

-----------------------------------------------------------------------------
(* What is in hand comes before what is queued.                            *)

\* Each holder's events ascend, and are before those of the queue.
InLine(F) ==
  /\ \A h \in Holders : Ascends(F[h])
  /\ \A h \in Handed : Before(ToSet(F[h]), ToSet(F[InQueue]))

\* They do when some leave a hand,
LEMMA LineDropped ==
  ASSUME NEW F \in [Holders -> Seq(Event)], InLine(F), NEW g \in Handed,
         NEW n \in 0 .. Len(F[g])
  PROVE  InLine(Dropped(F, g, n))
<1> DEFINE r == SubSeq(F[g], n + 1, Len(F[g]))
           G == [F EXCEPT ![g] = r]
<1>1. Ascends(r) /\ ToSet(r) \subseteq ToSet(F[g])
  BY AscendsParts DEF InLine, Handed
<1>2. /\ G[g] = r /\ \A h \in Holders \ {g} : G[h] = F[h]
      /\ InQueue \in Holders \ {g} /\ Handed \subseteq Holders
  BY HoldersAre DEF Handed
<1> HIDE DEF G, r
<1>3. Before(ToSet(r), ToSet(F[InQueue]))
  BY <1>1, BeforeParts DEF InLine
<1>4. \A h \in Holders : Ascends(G[h])
  BY <1>1, <1>2 DEF InLine
<1>5. \A h \in Handed : Before(ToSet(G[h]), ToSet(G[InQueue]))
  <2>1. G[InQueue] = F[InQueue]
    BY <1>2
  <2>2. ASSUME NEW h \in Handed \ {g} PROVE Before(ToSet(G[h]), ToSet(F[InQueue]))
    BY <1>2 DEF InLine
  <2>3. Before(ToSet(G[g]), ToSet(F[InQueue]))
    BY <1>2, <1>3
  <2> QED
    BY <2>1, <2>2, <2>3
<1>6. InLine(G)
  BY <1>4, <1>5 DEF InLine
<1> QED
  BY <1>6 DEF Dropped, G, r

\* when the first of the queue go to an empty hand,
LEMMA LineTaken ==
  ASSUME NEW F \in [Holders -> Seq(Event)], InLine(F), NEW h \in Handed, F[h] = <<>>,
         NEW n \in 0 .. Len(F[InQueue])
  PROVE  InLine(Passed(F, InQueue, h, n))
<1> DEFINE q == F[InQueue]
           v == SubSeq(q, 1, n)
           w == SubSeq(q, n + 1, Len(q))
           G == [F EXCEPT ![InQueue] = w, ![h] = v \o F[h]]
<1>0. InQueue \in Holders /\ h \in Holders \ {InQueue} /\ q \in Seq(Event)
      /\ Handed \subseteq Holders
  BY HoldersAre DEF Handed
<1>1. /\ Ascends(v) /\ Ascends(w) /\ Before(ToSet(v), ToSet(w)) /\ ToSet(w) \subseteq ToSet(q)
  BY <1>0, AscendsParts DEF InLine
<1>2. v \o F[h] = v
  <2>1. v \in Seq(Event)
    BY <1>0, PartsOf
  <2>2. \A x \in Seq(Event) : x \o <<>> = x
    OBVIOUS
  <2> QED
    BY <2>1, <2>2, Zenon
<1>3. G[InQueue] = w /\ G[h] = v /\ \A k \in Holders \ {InQueue, h} : G[k] = F[k]
  BY <1>0, <1>2
<1> HIDE DEF G, v, w, q
<1>4. ASSUME NEW k \in Handed PROVE Before(ToSet(G[k]), ToSet(w))
  <2>1. CASE k = h
    BY <1>1, <1>3, <2>1
  <2>2. CASE k # h
    <3>1. G[k] = F[k] /\ Before(ToSet(F[k]), ToSet(q))
      BY <1>3, <2>2 DEF InLine, Handed, q
    <3> QED
      BY <1>1, <3>1, BeforeParts
  <2> QED
    BY <2>1, <2>2
<1>5. \A k \in Holders : Ascends(G[k])
  BY <1>1, <1>3 DEF InLine
<1>6. InLine(G)
  BY <1>3, <1>4, <1>5 DEF InLine
<1> QED
  BY <1>6 DEF Passed, G, v, w, q

\* when all that is in hand goes back to the head of the queue,
LEMMA LineRestored ==
  ASSUME NEW F \in [Holders -> Seq(Event)], InLine(F), NEW g \in Handed,
         \A h \in Handed \ {g} : F[h] = <<>>
  PROVE  InLine(Passed(F, g, InQueue, Len(F[g])))
<1> DEFINE q == F[InQueue]
           b == F[g]
           r == SubSeq(b, Len(b) + 1, Len(b))
           v == SubSeq(b, 1, Len(b))
           G == [F EXCEPT ![g] = r, ![InQueue] = v \o q]
<1>0. /\ InQueue \in Holders /\ g \in Holders \ {InQueue} /\ q \in Seq(Event)
      /\ b \in Seq(Event) /\ Handed = Holders \ {InQueue}
  BY HoldersAre DEF Handed
<1>1. r = <<>> /\ v = b
  <2>1. \A x \in Seq(Event) : SubSeq(x, Len(x) + 1, Len(x)) = <<>> /\ SubSeq(x, 1, Len(x)) = x
    OBVIOUS
  <2> QED
    BY <1>0, <2>1
<1>2. Ascends(b \o q)
  BY <1>0, AscendsConcat DEF InLine
<1>3. G[g] = <<>> /\ G[InQueue] = b \o q /\ \A k \in Holders \ {InQueue, g} : G[k] = F[k]
  BY <1>0, <1>1
<1> HIDE DEF G, r, v, b, q
<1>4. \A k \in Handed : G[k] = <<>>
  BY <1>0, <1>3
<1>5. ToSet(<<>>) = {} /\ Ascends(<<>>)
  BY DEF ToSet, Ascends
<1>6. \A h \in Holders : Ascends(G[h])
  BY <1>0, <1>2, <1>3, <1>4, <1>5
<1>7. \A h \in Handed : Before(ToSet(G[h]), ToSet(G[InQueue]))
  BY <1>4, <1>5 DEF Before
<1>8. InLine(G)
  BY <1>6, <1>7 DEF InLine
<1> QED
  BY <1>8 DEF Passed, G, r, v, b, q

\* and when a larger one joins the queue.
LEMMA LineJoined ==
  ASSUME NEW F \in [Holders -> Seq(Event)], InLine(F), NEW x \in Event,
         Before(EventsIn(F), {x})
  PROVE  InLine(Joined(F, InQueue, x))
<1> DEFINE q == F[InQueue]
           u == Append(q, x)
           G == [F EXCEPT ![InQueue] = u]
<1>0. InQueue \in Holders /\ q \in Seq(Event) /\ Handed = Holders \ {InQueue}
  BY HoldersAre DEF Handed
<1>1. \A h \in Holders : Before(ToSet(F[h]), {x})
  BY DEF EventsIn, Before
<1>2. Ascends(u) /\ ToSet(u) = ToSet(q) \cup {x}
  BY <1>0, <1>1, AscendsAppend DEF InLine
<1>3. G[InQueue] = u /\ \A k \in Handed : G[k] = F[k]
  BY <1>0
<1> HIDE DEF G, u
<1>4. \A k \in Handed : Before(ToSet(F[k]), ToSet(q) \cup {x})
  BY <1>0, <1>1 DEF InLine, Before
<1>5. InLine(G)
  BY <1>0, <1>2, <1>3, <1>4 DEF InLine
<1> QED
  BY <1>5 DEF Joined, G, u

\* The first events in the only hand are before all others.
LEMMA FirstInLine ==
  ASSUME NEW F \in [Holders -> Seq(Event)], InLine(F), NEW g \in Handed,
         \A h \in Handed \ {g} : F[h] = <<>>, NEW n \in 0 .. Len(F[g])
  PROVE  Before(ToSet(SubSeq(F[g], 1, n)), EventsIn(F) \ ToSet(SubSeq(F[g], 1, n)))
<1> DEFINE v == SubSeq(F[g], 1, n)
           r == SubSeq(F[g], n + 1, Len(F[g]))
<1>1. F[g] \in Seq(Event) /\ Ascends(F[g]) /\ g \in Holders /\ Handed = Holders \ {InQueue}
  BY DEF Handed, InLine
<1>2. Before(ToSet(v), ToSet(r)) /\ ToSet(v) \subseteq ToSet(F[g])
  BY <1>1, AscendsParts
<1>3. Before(ToSet(v), ToSet(F[InQueue]))
  BY <1>2, BeforeParts DEF InLine
<1>4. ToSet(F[g]) \subseteq ToSet(v) \cup ToSet(r)
  <2>1. \A s \in Seq(Event) : \A m \in 0 .. Len(s) :
          ToSet(s) \subseteq ToSet(SubSeq(s, 1, m)) \cup ToSet(SubSeq(s, m + 1, Len(s)))
    <3>1. SUFFICES ASSUME NEW s \in Seq(Event), NEW m \in 0 .. Len(s), NEW x \in ToSet(s)
                   PROVE  x \in ToSet(SubSeq(s, 1, m)) \cup ToSet(SubSeq(s, m + 1, Len(s)))
      OBVIOUS
    <3>2. /\ ToSet(SubSeq(s, 1, m)) = {s[i] : i \in 1 .. m}
          /\ ToSet(SubSeq(s, m + 1, Len(s))) = {s[i] : i \in (m + 1) .. Len(s)}
          /\ ToSet(s) = {s[i] : i \in 1 .. Len(s)}
      BY PartsHold
    <3>3. \A i \in 1 .. Len(s) : i \in 1 .. m \/ i \in (m + 1) .. Len(s)
      OBVIOUS
    <3> QED
      BY <3>2, <3>3
  <2> QED
    BY <1>1, <2>1
<1> HIDE DEF v, r
<1>5. ASSUME NEW e \in EventsIn(F) \ ToSet(v) PROVE e \in ToSet(r) \cup ToSet(F[InQueue])
  <2>1. PICK h \in Holders : e \in ToSet(F[h])
    BY DEF EventsIn
  <2>2. F[h] # <<>>
    BY <2>1 DEF ToSet
  <2> QED
    BY <1>1, <1>4, <2>1, <2>2
<1>6. Before(ToSet(v), EventsIn(F) \ ToSet(v))
  BY <1>2, <1>3, <1>5 DEF Before
<1> QED
  BY <1>6 DEF v

-----------------------------------------------------------------------------
(* What is older is with the log or in hand, and goes first.               *)

\* The log is older than what is in memory.
StoredFirst == \A e, f \in Event : fate[e] = "stored" /\ fate[f] = "held" => e < f

\* Everything the SDK owes is in one line, oldest first: the log, the only hand
\* that has events, and the queue; and the server has nothing newer.
OrderInv ==
  /\ Turns /\ Whole /\ LogEmptied
  /\ InLine(Holding) /\ Rises(wal) /\ StoredFirst /\ SentInOrder

\* The order of what a step moves.
Ordered == InLine(Holding') /\ Rises(wal') /\ StoredFirst' /\ SentInOrder'

\* While a batch is posted the log has nothing else.
LEMMA NoneStored ==
  ASSUME CustodyInv, LogEmptied, NEW t \in Threads, pc[t] = "post"
  PROVE  \A e \in Event : fate[e] # "stored"
<1>1. wal \in Seq(Seq(Event)) /\ Len(wal) = IF enabled THEN 1 ELSE 0
  BY CustodyFacts DEF LogEmptied
<1>2. CASE enabled
  <2>1. PICK i \in DOMAIN wal : wal[i] = Segment(t)
    BY <1>2 DEF CustodyInv, IInv, WriteAhead
  <2>2. DOMAIN wal = {i}
    BY <1>1, <1>2, <2>1
  <2>3. EventsIn(wal) = ToSet(Segment(t))
    BY <2>1, <2>2 DEF EventsIn
  <2>4. EventsIn(wal) \subseteq Wire
    BY <1>2, <2>3 DEF Wire, OnTheWire
  <2> QED
    BY <2>4, CustodyFacts
<1>3. CASE ~enabled
  <2>1. EventsIn(wal) = {}
    BY <1>1, <1>3 DEF EventsIn
  <2> QED
    BY <2>1, CustodyFacts
<1> QED
  BY <1>2, <1>3

\* What leaves a hand is before all that stays in memory.
LEMMA LeavingInLine ==
  ASSUME OneDispatcher, CustodyInv, Turns, InLine(Holding),
         NEW g \in Handed, NEW n, NEW f \in {"delivered", "lost", "stored"}, Leave(g, n, f)
  PROVE  /\ InLine(Holding')
         /\ Before(ToSet(First(g, n)), {e \in Event : fate'[e] = "held"})
<1>0. f \in Fates \ {"new", "held"} /\ IInv
  BY DEF Fates, CustodyInv
<1>1. /\ Holding \in [Holders -> Seq(Event)] /\ n \in 0 .. Len(Holding[g])
      /\ Holding' = Dropped(Holding, g, n) /\ First(g, n) = SubSeq(Holding[g], 1, n)
  BY CustodyFacts DEF Leave, After, First, Dropped
<1>2. {e \in Event : fate'[e] = "held"} = EventsIn(Holding) \ ToSet(First(g, n))
  <2>1. /\ EventsIn(Holding') = EventsIn(Holding) \ ToSet(First(g, n))
        /\ EventsIn(Holding') = {e \in Event : fate'[e] = "held"}
    BY <1>0, LeaveFacts
  <2> QED
    BY <2>1
<1>3. InLine(Holding')
  BY <1>1, LineDropped
<1>4. Before(ToSet(First(g, n)), EventsIn(Holding) \ ToSet(First(g, n)))
  <2>1. CASE Holding[g] = <<>>
    <3>1. n = 0
      BY <1>1, <2>1
    <3>2. First(g, n) = <<>>
      BY <1>1, <2>1, <3>1
    <3> QED
      BY <3>2 DEF Before, ToSet
  <2>2. CASE Holding[g] # <<>>
    <3>1. \A h \in Handed \ {g} : Holding[h] = <<>>
      BY <1>0, <2>2, OneHand
    <3> QED
      BY <1>1, <3>1, FirstInLine
  <2> QED
    BY <2>1, <2>2
<1> QED
  BY <1>2, <1>3, <1>4

\* What leaves a hand goes to the server, to the log or is lost in its turn.
LEMMA LeavingOrdered ==
  ASSUME OneDispatcher, CustodyInv, OrderInv,
         NEW g \in Handed, NEW n, NEW f \in {"delivered", "lost", "stored"}, Leave(g, n, f),
         f = "delivered" => \A e \in Event : fate[e] # "stored"
  PROVE  InLine(Holding') /\ StoredFirst' /\ SentInOrder'
<1> DEFINE E == ToSet(First(g, n))
<1>1. InLine(Holding') /\ Before(E, {e \in Event : fate'[e] = "held"})
  BY LeavingInLine DEF OrderInv
<1>2. /\ \A e \in Event : fate'[e] = IF e \in E THEN f ELSE fate[e]
      /\ \A e \in E : e \in Event /\ fate[e] = "held"
  <2>1. f \in Fates \ {"new", "held"}
    BY DEF Fates
  <2>2. /\ E \subseteq EventsIn(Holding)
        /\ \A e \in Event : fate'[e] = IF e \in E THEN f ELSE fate[e]
    BY <2>1, LeaveFacts
  <2> QED
    BY <2>2, CustodyFacts
<1>3. Event \subseteq Int
  BY DEF Event
<1> HIDE DEF E
<1>4. StoredFirst'
  BY <1>1, <1>2 DEF StoredFirst, OrderInv, Before
<1>5. SentInOrder'
  <2>1. SUFFICES ASSUME NEW e \in Event, NEW x \in Event, e < x,
                        fate'[x] \in {"delivered", "replayed"}, fate'[e] \in {"held", "stored"}
                 PROVE  FALSE
    BY DEF SentInOrder
  <2>2. CASE x \in E
    <3>1. f = "delivered" /\ fate'[e] = "held"
      BY <1>2, <2>1, <2>2
    <3>2. x < e
      BY <1>1, <2>2, <3>1 DEF Before
    <3> QED
      BY <1>3, <2>1, <3>2
  <2>3. CASE x \notin E
    <3>1. fate[x] \in {"delivered", "replayed"} /\ fate[e] \in {"held", "stored"}
      BY <1>2, <2>1, <2>3
    <3> QED
      BY <2>1, <3>1 DEF OrderInv, SentInOrder
  <2> QED
    BY <2>2, <2>3
<1> QED
  BY <1>1, <1>4, <1>5

\* An event that comes is the last of all.
LEMMA ComingOrdered ==
  ASSUME CustodyInv, OrderInv, Refuses \/ Accepts
  PROVE  Ordered
<1> DEFINE x == submitted'
<1>1. /\ x = submitted + 1 /\ x \in Event /\ wal' = wal
      /\ \E f \in {"refused", "lost", "held"} : fate' = SetFate({x}, f)
  BY DEF Refuses, Accepts, Comes, LogStays
<1>2. submitted \in Nat /\ \A e \in Event : fate[e] = "new" <=> e > submitted
  BY CustodyFacts
<1>3. Event \subseteq Int
  BY DEF Event
<1>4. \A e \in Event : fate[e] # "new" => e < x
  BY <1>1, <1>2, <1>3
<1>5. PICK f \in {"refused", "lost", "held"} :
        \A e \in Event : fate'[e] = IF e = x THEN f ELSE fate[e]
  BY <1>1 DEF SetFate
<1>6. InLine(Holding')
  <2>1. CASE Refuses
    BY <2>1 DEF Refuses, OrderInv
  <2>2. CASE Accepts
    <3>1. Holding' = Joined(Holding, InQueue, x)
      BY <2>2, HoldingIs DEF Accepts, Joined
    <3>2. Before(EventsIn(Holding), {x}) /\ Holding \in [Holders -> Seq(Event)]
      BY <1>4, CustodyFacts DEF Before
    <3> QED
      BY <1>1, <3>1, <3>2, LineJoined DEF OrderInv
  <2> QED
    BY <2>1, <2>2
<1> HIDE DEF x
<1>7. StoredFirst'
  <2>1. SUFFICES ASSUME NEW d \in Event, NEW e \in Event,
                        fate'[d] = "stored", fate'[e] = "held"
                 PROVE  d < e
    BY DEF StoredFirst
  <2>2. fate[d] = "stored"
    BY <1>5, <2>1
  <2> QED
    BY <1>4, <1>5, <2>1, <2>2 DEF OrderInv, StoredFirst
<1>8. SentInOrder'
  <2>1. SUFFICES ASSUME NEW d \in Event, NEW e \in Event, d < e,
                        fate'[e] \in {"delivered", "replayed"}
                 PROVE  fate'[d] \notin {"held", "stored"}
    BY DEF SentInOrder
  <2>2. fate[e] \in {"delivered", "replayed"} /\ e # x
    BY <1>5, <2>1
  <2>3. d # x
    BY <1>1, <1>3, <1>4, <2>1, <2>2
  <2> QED
    BY <1>5, <2>1, <2>2, <2>3 DEF OrderInv, SentInOrder
<1>9. Rises(wal')
  BY <1>1 DEF OrderInv
<1> QED
  BY <1>6, <1>7, <1>8, <1>9 DEF Ordered

\* A replay answers for the oldest events.
LEMMA ReplayOrdered ==
  ASSUME CustodyInv, OrderInv, Replays
  PROVE  Ordered
<1>1. /\ Holding' = Holding /\ 1 \in DOMAIN wal /\ wal' = RemoveAt(wal, 1) /\ Wire = {}
      /\ wal \in Seq(Seq(Event))
  BY CustodyFacts DEF Replays
<1>2. InLine(Holding') /\ Rises(wal')
  <2>1. Rises(RemoveAt(wal, 1))
    BY <1>1, RisesRemoved DEF OrderInv
  <2> QED
    BY <1>1, <2>1 DEF OrderInv
<1>3. PICK f \in {"replayed", "rejected"} :
        \A e \in Event : fate'[e] = IF e \in ToSet(wal[1]) THEN f ELSE fate[e]
  BY DEF Replays, SetFate
<1>4. \A e \in Event : e \in EventsIn(wal) <=> fate[e] = "stored"
  BY <1>1, CustodyFacts
<1>5. ToSet(wal[1]) \subseteq EventsIn(wal)
  BY <1>1 DEF EventsIn
<1>6. Event \subseteq Int
  BY DEF Event
<1>7. StoredFirst'
  BY <1>3 DEF OrderInv, StoredFirst
<1>8. SentInOrder'
  <2>1. SUFFICES ASSUME NEW e \in Event, NEW x \in Event, e < x,
                        fate'[x] \in {"delivered", "replayed"}, fate'[e] \in {"held", "stored"}
                 PROVE  FALSE
    BY DEF SentInOrder
  <2>2. fate[e] \in {"held", "stored"} /\ e \notin ToSet(wal[1])
    BY <1>3, <2>1
  <2>3. CASE x \notin ToSet(wal[1])
    BY <1>3, <2>1, <2>2, <2>3 DEF OrderInv, SentInOrder
  <2>4. CASE x \in ToSet(wal[1])
    <3>1. fate[x] = "stored"
      BY <1>4, <1>5, <2>4
    <3>2. CASE fate[e] = "held"
      <4>1. x < e
        BY <3>1, <3>2 DEF OrderInv, StoredFirst
      <4> QED
        BY <1>6, <2>1, <4>1
    <3>3. CASE fate[e] = "stored"
      <4>1. PICK k \in DOMAIN wal : e \in ToSet(wal[k])
        BY <1>4, <3>3 DEF EventsIn
      <4>2. 1 < k
        BY <1>1, <2>2, <4>1
      <4>3. x < e
        BY <1>1, <2>4, <4>1, <4>2 DEF OrderInv, Rises, Before
      <4> QED
        BY <1>6, <2>1, <4>3
    <3> QED
      BY <2>2, <3>2, <3>3
  <2> QED
    BY <2>3, <2>4
<1> QED
  BY <1>2, <1>7, <1>8 DEF Ordered

\* What is taken from the queue or put back keeps its place in the line.
LEMMA PassingOrdered ==
  ASSUME OneDispatcher, CustodyInv, OrderInv, Passes
  PROVE  Ordered
<1>0. IInv /\ Holding \in [Holders -> Seq(Event)] /\ InQueue \in Holders
      /\ Holding[InQueue] = queue
  BY CustodyFacts, HoldersAre, HoldingIs DEF CustodyInv
<1>1. Rises(wal') /\ StoredFirst' /\ SentInOrder'
  BY DEF Passes, LogStays, OrderInv, StoredFirst, SentInOrder
<1>2. ASSUME NEW h \in Holders, Dequeues(h) PROVE InLine(Holding')
  <2>1. PICK n \in 0 .. Len(Holding[InQueue]) : Holding' = Passed(Holding, InQueue, h, n)
    BY <1>0, <1>2 DEF Dequeues, PassesOn, After, First, Passed
  <2>2. h \in Handed /\ Holding[h] = <<>>
    BY <1>2 DEF Dequeues, Handed
  <2> QED
    BY <1>0, <2>1, <2>2, LineTaken DEF OrderInv
<1>3. ASSUME NEW t \in Threads, PutsBack(t) PROVE InLine(Holding')
  <2> DEFINE g == InBatch(t)
  <2>1. job[t].ends # <<>> /\ Holding' = Passed(Holding, g, InQueue, SegmentLen(t))
    BY <1>3 DEF PutsBack, PassesOn, After, First, Passed
  <2>2. g \in Handed /\ Holding[g] = Unresolved(t)
    BY HoldersAre, HoldingIs DEF Handed
  <2>3. SegmentLen(t) = Len(Holding[g]) /\ Holding[g] # <<>>
    <3>1. SegmentLen(t) \in 1 .. Len(Unresolved(t)) /\ Unresolved(t) \in Seq(Event)
          /\ Len(Unresolved(t)) = Len(job[t].batch) - job[t].done
      BY <1>0, <2>1, SegmentFirst, HoldingTypes
    <3>2. job[t].ends \in Seq(Nat) /\ Len(job[t].ends) = 1
      BY <1>0, <2>1 DEF OrderInv, Whole, IInv, TypeOK, Jobs
    <3>3. Head(job[t].ends) = Len(job[t].batch)
      <4>1. job[t].ends[Len(job[t].ends)] = Len(job[t].batch)
        BY <1>0, <2>1 DEF IInv, JobsWellFormed, WellFormed
      <4>2. Head(job[t].ends) = job[t].ends[1]
        BY <2>1, <3>2
      <4> QED
        BY <3>2, <4>1, <4>2
    <3>4. SegmentLen(t) = Len(Unresolved(t))
      BY <3>1, <3>3 DEF SegmentLen
    <3>5. Unresolved(t) # <<>>
      BY <3>1
    <3> QED
      BY <2>2, <3>4, <3>5
  <2> HIDE DEF g
  <2>4. \A h \in Handed \ {g} : Holding[h] = <<>>
    BY <1>0, <2>2, <2>3, OneHand DEF OrderInv
  <2>5. InLine(Passed(Holding, g, InQueue, Len(Holding[g])))
    BY <1>0, <2>2, <2>4, LineRestored DEF OrderInv
  <2> QED
    BY <2>1, <2>3, <2>5
<1> QED
  BY <1>1, <1>2, <1>3 DEF Passes, Ordered

\* The record of the batch in hand comes after all others, and goes as it came.
LEMMA LogOrdered ==
  ASSUME CustodyInv, OrderInv, Splits \/ Posts
  PROVE  Ordered
<1>1. InLine(Holding') /\ StoredFirst' /\ SentInOrder'
  BY DEF Splits, Posts, OrderInv, StoredFirst, SentInOrder
<1>2. wal \in Seq(Seq(Event))
  BY CustodyFacts
<1>3. CASE Splits
  <2>1. PICK i \in DOMAIN wal : wal' = RemoveAt(wal, i)
    BY <1>3 DEF Splits, Acknowledges
  <2>2. Rises(RemoveAt(wal, i))
    BY <1>2, RisesRemoved DEF OrderInv
  <2> QED
    BY <1>1, <2>1, <2>2 DEF Ordered
<1>4. CASE Posts
  <2>1. wal = <<>> /\ \E r : wal' = Append(wal, r)
    BY <1>4 DEF Posts, OrderInv, LogEmptied
  <2>2. DOMAIN wal' = {1}
    BY <2>1
  <2> QED
    BY <1>1, <2>2 DEF Ordered, Rises
<1> QED
  BY <1>3, <1>4

\* A batch is answered for, or stays in the log.
LEMMA BatchOrdered ==
  ASSUME OneDispatcher, CustodyInv, OrderInv, NEW g \in Holders, NEW n,
         Settles(g, n) \/ Retains(g, n)
  PROVE  Ordered
<1>0. g \in Handed /\ wal \in Seq(Seq(Event))
  BY CustodyFacts DEF Settles, Retains, Handed
<1>1. \E f \in {"delivered", "lost", "stored"} :
        Leave(g, n, f) /\ (f = "delivered" => \A e \in Event : fate[e] # "stored")
  BY NoneStored DEF Settles, Retains, OrderInv
<1>2. InLine(Holding') /\ StoredFirst' /\ SentInOrder'
  BY <1>0, <1>1, LeavingOrdered
<1>3. wal' = wal \/ \E i \in DOMAIN wal : wal' = RemoveAt(wal, i)
  BY DEF Settles, Retains, LogStays, Acknowledges
<1>4. \A i \in DOMAIN wal : Rises(RemoveAt(wal, i))
  BY <1>0, RisesRemoved DEF OrderInv
<1>5. Rises(wal')
  BY <1>3, <1>4 DEF OrderInv
<1> QED
  BY <1>2, <1>5 DEF Ordered

\* A shutdown writes the events it took, oldest first, or gives them up.
LEMMA HandsOrdered ==
  ASSUME OneDispatcher, CustodyInv, OrderInv, NEW c \in Callers, Persists(c) \/ Recounts(c)
  PROVE  Ordered
<1> DEFINE g == InHands(c)
<1>0. g \in Handed /\ wal \in Seq(Seq(Event)) /\ IInv /\ Holding \in [Holders -> Seq(Event)]
  BY HoldersAre, CustodyFacts DEF Handed, CustodyInv
<1>1. \E n : \E f \in {"lost", "stored"} : Leave(g, n, f)
  BY DEF Persists, Recounts
<1>2. InLine(Holding') /\ StoredFirst' /\ SentInOrder'
  BY <1>0, <1>1, LeavingOrdered
<1>3. CASE Recounts(c)
  BY <1>2, <1>3 DEF Recounts, LogStays, Ordered, OrderInv
<1>4. CASE Persists(c)
  <2> DEFINE r == <<Head(taken[c])>>
  <2>1. /\ Leave(g, 1, "stored") /\ First(g, 1) = r /\ wal' = Append(wal, r)
        /\ 1 \in 0 .. Len(Holding[g])
    BY <1>4 DEF Persists, Leave
  <2>2. ToSet(r) \subseteq EventsIn(Holding)
    BY <2>1, LeaveFacts DEF Fates
  <2>3. Wire = {}
    <3>1. Holding[g] # <<>>
      BY <1>0, <2>1
    <3>2. PICK t \in Threads : Busy(t) /\ \/ g = InBatch(t) /\ pc[t] \in Dispatching
                                          \/ g = InHands(t) /\ pc[t] \notin Dispatching
      <4>1. Turns
        BY DEF OrderInv
      <4> HIDE DEF g
      <4> QED
        BY <1>0, <3>1, <4>1, OneHand
    <3>3. pc[t] \notin Dispatching
      BY <3>2, HoldersAre
    <3>4. ASSUME NEW u \in Threads, pc[u] = "post" PROVE FALSE
      <4>1. Busy(u) /\ u # t
        BY <3>3, <3>4 DEF Busy, Dispatching
      <4> QED
        BY <3>2, <4>1, OneIsBusy DEF OrderInv
    <3> QED
      BY <3>4 DEF Wire, OnTheWire
  <2>4. Before(EventsIn(wal), ToSet(r))
    <3>1. /\ \A e \in EventsIn(wal) : e \in Event /\ fate[e] = "stored"
          /\ \A e \in ToSet(r) : e \in Event /\ fate[e] = "held"
      BY <2>2, <2>3, CustodyFacts
    <3> QED
      BY <3>1 DEF Before, OrderInv, StoredFirst
  <2>5. r \in Seq(Event)
    <3>1. Head(taken[c]) \in Event
      <4>1. Head(taken[c]) \in ToSet(r)
        BY DEF ToSet
      <4> QED
        BY <2>2, <4>1, CustodyFacts
    <3> QED
      BY <3>1
  <2> HIDE DEF r
  <2>6. Rises(Append(wal, r))
    BY <1>0, <2>4, <2>5, RisesAppended DEF OrderInv
  <2> QED
    BY <1>2, <2>1, <2>6 DEF Ordered
<1> QED
  BY <1>3, <1>4

\* Every step keeps the line.
LEMMA OrderStep ==
  ASSUME OneDispatcher, CustodyInv, InflightInv, OrderInv, [Next]_vars
  PROVE  OrderInv'
<1>1. Turns' /\ Whole' /\ LogEmptied'
  BY TurnsStep, WholeStep, LogEmptiedStep DEF OrderInv, InflightInv
<1>2. Moved
  BY EveryStepMoves
<1>3. Ordered
  <2>1. CASE Idles
    BY <2>1 DEF Idles, LogStays, Ordered, OrderInv, StoredFirst, SentInOrder
  <2> QED
    BY <1>2, <2>1, ComingOrdered, ReplayOrdered, PassingOrdered, LogOrdered, BatchOrdered,
       HandsOrdered DEF Moved
<1>4. InLine(Holding)' /\ Rises(wal)'
  BY <1>3 DEF Ordered, InLine, Rises
<1> QED
  BY <1>1, <1>3, <1>4 DEF Ordered, OrderInv

\* So it is where nothing is in hand.
LEMMA BlankOrder == Blank => OrderInv
<1>1. SUFFICES ASSUME Blank PROVE OrderInv
  OBVIOUS
<1>2. /\ wal = <<>> /\ \A e \in Event : fate[e] \notin {"held", "stored"}
      /\ \A t \in Threads : job[t] = NoJob /\ call[t] = NoCall /\ pc[t] \in {"off", "idle"}
      /\ \A c \in Callers : pc[c] = "idle"
  BY <1>1 DEF Blank
<1>3. Turns
  BY <1>2 DEF Turns, Turn, NoCall, Threads
<1>4. Whole /\ LogEmptied
  BY <1>2 DEF Whole, LogEmptied, NoJob
<1>5. EventsIn(Holding) = {} /\ Holding \in [Holders -> Seq(Event)]
  BY <1>1, <1>2, BlankCustody, CustodyFacts
<1>6. \A h \in Holders : Holding[h] = <<>>
  <2>1. SUFFICES ASSUME NEW h \in Holders PROVE Holding[h] = <<>>
    OBVIOUS
  <2>2. Holding[h] \in Seq(Event) /\ ToSet(Holding[h]) = {}
    BY <1>5 DEF EventsIn
  <2>3. \A s \in Seq(Event) : s # <<>> => 1 \in DOMAIN s
    OBVIOUS
  <2> QED
    BY <2>2, <2>3 DEF ToSet
<1>7. InLine(Holding)
  BY <1>6, HoldersAre DEF InLine, Handed, Ascends, Before, ToSet
<1>8. Rises(wal) /\ StoredFirst /\ SentInOrder
  BY <1>2 DEF Rises, StoredFirst, SentInOrder
<1> QED
  BY <1>3, <1>4, <1>7, <1>8 DEF OrderInv

\* Every state the manager reaches satisfies it, if one thread dispatches.
LEMMA OrderInvariant ==
  ASSUME OneDispatcher
  PROVE  SpecFork => []OrderInv
<1>1. Init => OrderInv
  BY BeginsBlank, BlankOrder
<1>2. Blank' => OrderInv'
  BY BlankOrder, PTL
<1>3. CustodyInv /\ InflightInv /\ OrderInv /\ [Next \/ \E c \in Callers : Fork(c)]_vars
        => OrderInv'
  BY <1>2, OrderStep, ForkStep DEF Forks
<1> QED
  BY <1>1, <1>3, CustodyInvariant, InflightInvariant, PTL DEF SpecFork

\* While one thread at a time dispatches and no batch is split, the server never
\* receives an event before an older one that the SDK still owes it: failed batches
\* return to the head of the queue (batch.py:15-16, 492-494), the log is replayed
\* before a batch is sent (batch.py:350), and shutdown() waits for the worker before
\* it sends or persists what is left (batch.py:229-236).  So it is of the child of
\* a fork, too.
THEOREM EventsSentInOrder ==
  ASSUME OneDispatcher
  PROVE  SpecFork => []SentInOrder
<1>1. OrderInv => SentInOrder
  BY DEF OrderInv
<1> QED
  BY <1>1, OrderInvariant, PTL
=============================================================================
