------------------------- MODULE BatchManagerProofs -------------------------
(***************************************************************************)
(* Invariants of BatchManager, for any number of callers and events, any   *)
(* queue limit, batch size and split budget, with and without a log.       *)
(***************************************************************************)
EXTENDS BatchProperties, TLAPS

\* The five parts that are inductive together.
IInv == TypeOK /\ JobsWellFormed /\ OneDelivery /\ WriteAhead /\ NothingStranded

-----------------------------------------------------------------------------
(* Lemmas about the operators of the model.                                *)

\* notify_all leaves every thread in a known place and moves only waiters.
LEMMA NotifiedTypes ==
  ASSUME pc \in [Threads -> Places]
  PROVE  /\ Notified(pc) \in [Threads -> Places]
         /\ \A t \in Threads :
              /\ Notified(pc)[t] \in {"replay", "post", "unqueue", "persist"}
                   \cup Dispatching => Notified(pc)[t] = pc[t]
              /\ pc[t] \in {"replay", "post", "unqueue", "persist"}
                   \cup Dispatching => Notified(pc)[t] = pc[t]
  BY DEF Notified, Awake, Places, Dispatching

\* Dropping the first n elements of a sequence leaves a sequence.
LEMMA SubSeqTypes ==
  ASSUME NEW S, NEW s \in Seq(S), NEW m \in Int, NEW n \in Int,
         m >= 1, n <= Len(s)
  PROVE  /\ SubSeq(s, m, n) \in Seq(S)
         /\ m <= n + 1 => Len(SubSeq(s, m, n)) = n - m + 1
         /\ \A i \in 1 .. (n - m + 1) : SubSeq(s, m, n)[i] = s[m + i - 1]
  OBVIOUS

\* acknowledge() removes one record and keeps the others.
LEMMA RemoveAtTypes ==
  ASSUME NEW S, NEW s \in Seq(S), NEW i \in DOMAIN s
  PROVE  RemoveAt(s, i) \in Seq(S)
  BY DEF RemoveAt

\* A thread with a batch on its way has a head segment, and it is not empty.
LEMMA HeadSegment ==
  ASSUME TypeOK, JobsWellFormed, NEW t \in Threads, job[t].ends # <<>>
  PROVE  /\ job[t] \in Jobs
         /\ Head(job[t].ends) \in Nat
         /\ job[t].done < Head(job[t].ends)
         /\ Head(job[t].ends) <= Len(job[t].batch)
         /\ Segment(t) \in Seq(Event)
         /\ SegmentLen(t) \in Nat
         /\ ToSet(Segment(t)) \subseteq Event
<1> DEFINE j == job[t]
<1>1. j \in Jobs
  BY DEF TypeOK
<1>2. j.batch \in Seq(Event) /\ j.done \in Nat /\ j.ends \in Seq(Nat) /\ j.ends # <<>>
  BY <1>1 DEF Jobs
<1>3. 1 \in DOMAIN j.ends /\ Head(j.ends) = j.ends[1] /\ j.ends[1] \in Nat
  BY <1>2
<1>4. j.done < Head(j.ends) /\ Head(j.ends) <= Len(j.batch)
  BY <1>3 DEF JobsWellFormed, WellFormed
<1>5. Segment(t) \in Seq(Event)
  BY <1>2, <1>3, <1>4, SubSeqTypes DEF Segment
<1>6. SegmentLen(t) \in Nat
  BY <1>2, <1>3, <1>4 DEF SegmentLen
<1>7. ToSet(Segment(t)) \subseteq Event
  BY <1>5 DEF ToSet
<1> QED
  BY <1>1, <1>3, <1>4, <1>5, <1>6, <1>7

\* Resolving the head segment leaves well-typed jobs.
LEMMA ResolvedTypes ==
  ASSUME TypeOK, JobsWellFormed, NEW t \in Threads, job[t].ends # <<>>,
         NEW outcome \in {"ok", "rejected", "transient"}
  PROVE  Resolved(t, outcome) \in [Threads -> Jobs]
<1>1. job[t] \in Jobs /\ Head(job[t].ends) \in Nat
  BY HeadSegment
<1>2. Tail(job[t].ends) \in Seq(Nat)
  BY <1>1 DEF Jobs
<1>3. Worse(job[t].out, outcome) \in {"ok", "rejected", "transient"}
  BY DEF Worse
<1> QED
  BY <1>1, <1>2, <1>3 DEF Resolved, TypeOK, Jobs

\* Using up a send changes nothing but the budget.
LEMMA SpentTypes ==
  ASSUME TypeOK, NEW t \in Threads, job[t].budget > 0, NEW jobs \in [Threads -> Jobs]
  PROVE  /\ Spent(jobs, t) \in [Threads -> Jobs]
         /\ \A u \in Threads \ {t} : Spent(jobs, t)[u] = jobs[u]
         /\ Spent(jobs, t)[t].batch = jobs[t].batch
         /\ Spent(jobs, t)[t].done = jobs[t].done
         /\ Spent(jobs, t)[t].ends = jobs[t].ends
<1> DEFINE j == [jobs[t] EXCEPT !.budget = job[t].budget - 1]
<1>1. job[t].budget \in 0 .. MaxSplitSends /\ MaxSplitSends \in Nat
  BY ManagerAssumption DEF TypeOK, Jobs
<1>2. job[t].budget - 1 \in 0 .. MaxSplitSends
  BY <1>1
<1>3. j \in Jobs /\ j.batch = jobs[t].batch /\ j.done = jobs[t].done /\ j.ends = jobs[t].ends
  BY <1>2 DEF Jobs
<1>4. Spent(jobs, t) = [jobs EXCEPT ![t] = j]
  BY DEF Spent
<1> QED
  BY <1>3, <1>4

-----------------------------------------------------------------------------
(* Type correctness.                                                       *)

\* Every answer is a known fate.
LEMMA FateTypes ==
  ASSUME fate \in [Event -> Fates], NEW events, NEW f \in Fates
  PROVE  SetFate(events, f) \in [Event -> Fates]
  BY DEF SetFate

\* Moving a thread to a known place.
LEMMA MoveTypes ==
  ASSUME pc \in [Threads -> Places], NEW t, NEW place \in Places
  PROVE  /\ Move(t, place) => pc' \in [Threads -> Places]
         /\ MoveAndNotify(t, place) => pc' \in [Threads -> Places]
  BY NotifiedTypes DEF Move, MoveAndNotify

\* The initial record of a call, and the outcome of the flush it made.
LEMMA CallTypes ==
  /\ NoCall \in CallStates
  /\ \A r \in {"none", "true", "false"} : [NoCall EXCEPT !.result = r] \in CallStates
  /\ [NoCall EXCEPT !.op = "add"] \in CallStates
  BY DEF NoCall, CallStates

\* However flush() returns, its thread and its call stay typed.
LEMMA FlushReturnsTypes ==
  ASSUME TypeOK, NEW c, NEW result \in {"true", "false"}, FlushReturns(c, result)
  PROVE  pc' \in [Threads -> Places] /\ call' \in [Threads -> CallStates]
  BY CallTypes, MoveTypes DEF FlushReturns, TypeOK, Places

\* So do those of a shutdown.
LEMMA ShutdownReturnsTypes ==
  ASSUME TypeOK, NEW c, ShutdownReturns(c)
  PROVE  pc' \in [Threads -> Places] /\ call' \in [Threads -> CallStates]
  BY CallTypes, MoveTypes DEF ShutdownReturns, TypeOK, Places

\* After a segment a thread goes on with the batch or finishes it.
LEMMA AfterSegmentPlace ==
  ASSUME NEW t PROVE AfterSegment(t) \in {"finish", "deliver"} /\ AfterSegment(t) \in Places
  BY DEF AfterSegment, Places

\* Putting the head segment back, or losing it, keeps the state typed.
LEMMA RequeueTypes ==
  ASSUME TypeOK, JobsWellFormed, NEW t \in Threads, job[t].ends # <<>>, RequeueAtHead(t)
  PROVE  /\ queue' \in Seq(Event) /\ lost' \in Nat
         /\ fate' \in [Event -> Fates]
         /\ pc' \in [Threads -> Places]
<1>1. queue' \in Seq(Event) /\ lost' \in Nat
  <2>1. /\ Segment(t) \in Seq(Event) /\ SegmentLen(t) \in Nat
        /\ queue \in Seq(Event) /\ lost \in Nat
    BY HeadSegment DEF TypeOK
  <2>2. Segment(t) \o queue \in Seq(Event) /\ lost + SegmentLen(t) \in Nat
    BY <2>1
  <2> QED
    BY <2>1, <2>2 DEF RequeueAtHead
<1>2. fate' \in [Event -> Fates]
  BY FateTypes DEF RequeueAtHead, TypeOK, Fates
<1>3. pc' \in [Threads -> Places]
  BY MoveTypes, AfterSegmentPlace DEF RequeueAtHead, TypeOK
<1> QED
  BY <1>1, <1>2, <1>3

\* The end of _recover_durable, with or without a batch.
LEMMA RecoverTypes ==
  ASSUME IInv, NEW t \in Threads, pc[t] \in {"recover", "replay"},
         RecoverFails(t) \/ RecoverSucceeds(t)
  PROVE  /\ queue' \in Seq(Event) /\ lost' \in Nat
         /\ fate' \in [Event -> Fates]
         /\ job' \in [Threads -> Jobs]
         /\ pc' \in [Threads -> Places]
         /\ call' \in [Threads -> CallStates]
<1>1. CASE RecoverSucceeds(t)
  BY <1>1, MoveTypes DEF RecoverSucceeds, IInv, TypeOK, Places
<1>2. CASE RecoverFails(t) /\ job[t].batch = <<>>
  BY <1>2, FlushReturnsTypes DEF RecoverFails, IInv, TypeOK
<1>3. CASE RecoverFails(t) /\ job[t].batch # <<>>
  <2>1. job[t].done = 0 /\ Len(job[t].batch) # 0
    BY <1>3 DEF IInv, JobsWellFormed, WellFormed, TypeOK, Jobs
  <2>2. job[t].ends # <<>>
    BY <2>1 DEF IInv, JobsWellFormed, WellFormed
  <2> QED
    BY <1>3, <2>2, RequeueTypes, ResolvedTypes DEF RecoverFails, IInv, TypeOK
<1> QED
  BY <1>1, <1>2, <1>3

\* _pop of a full or partial batch.
LEMMA PopTypes ==
  ASSUME TypeOK, NEW t \in Threads, queue # <<>>, Pop(t, AtMostFlushSize)
  PROVE  /\ AtMostFlushSize \in 1 .. Len(queue)
         /\ queue' \in Seq(Event) /\ inflight' \in Int
         /\ job' \in [Threads -> Jobs]
         /\ job'[t].batch \in Seq(Event)
<1> DEFINE n == AtMostFlushSize
           b == SubSeq(queue, 1, n)
<1>1. queue \in Seq(Event) /\ Len(queue) > 0 /\ inflight \in Int
  BY DEF TypeOK
<1>2. n \in 1 .. Len(queue)
  BY <1>1, ManagerAssumption DEF AtMostFlushSize
<1>3. b \in Seq(Event) /\ queue' \in Seq(Event) /\ inflight' \in Int
  BY <1>1, <1>2, SubSeqTypes DEF Pop
<1>4. [batch |-> b, done |-> 0, ends |-> <<n>>, budget |-> MaxSplitSends, out |-> "ok"]
        \in Jobs
  BY <1>2, <1>3, ManagerAssumption DEF Jobs
<1> QED
  BY <1>1, <1>2, <1>3, <1>4 DEF Pop, TypeOK

\* The record of a posted batch can be acknowledged.
LEMMA WalAcknowledgedTypes ==
  ASSUME TypeOK, WriteAhead, NEW t \in Threads, pc[t] = "post"
  PROVE  WalAcknowledged(t) \in Seq(Seq(Event))
<1>1. CASE enabled
  <2> DEFINE i == CHOOSE k \in DOMAIN wal : wal[k] = Segment(t)
  <2>1. i \in DOMAIN wal
    BY <1>1 DEF WriteAhead
  <2> QED
    BY <1>1, <2>1, RemoveAtTypes DEF WalAcknowledged, TypeOK
<1>2. CASE ~enabled
  BY <1>2 DEF WalAcknowledged, TypeOK
<1> QED
  BY <1>1, <1>2

\* Every step keeps the state typed.
LEMMA TypeStep == IInv /\ [Next]_vars => TypeOK'
<1> SUFFICES ASSUME IInv, [Next]_vars PROVE TypeOK'
  OBVIOUS
<1>0. /\ TypeOK /\ JobsWellFormed /\ OneDelivery /\ WriteAhead /\ NothingStranded
      /\ Callers \subseteq Threads /\ Worker \in Threads
  BY DEF IInv, Threads
<1> USE <1>0
<1> USE DEF flags, counters, log, memory, history, control
<1>1. ASSUME NEW c \in Callers, Add(c) PROVE TypeOK'
  <2>1. submitted' \in 0 .. MaxEvents
    BY <1>1, ManagerAssumption
    DEF Add, AddRefused, AddOverflows, AddAccepted, CanAdd, TypeOK
  <2>2. fate' \in [Event -> Fates]
    BY <1>1, FateTypes DEF Add, AddRefused, AddOverflows, AddAccepted, TypeOK, Fates
  <2>3. pc' \in [Threads -> Places]
    BY <1>1, MoveTypes DEF Add, AddRefused, AddOverflows, AddAccepted, TypeOK, Places
  <2>4. call' \in [Threads -> CallStates]
    BY <1>1, CallTypes DEF Add, AddRefused, AddOverflows, AddAccepted, TypeOK
  <2>5. queue' \in Seq(Event) /\ lost' \in Nat
    <3>1. CASE AddAccepted(c)
      <4>1. submitted' \in Event
        BY <3>1, ManagerAssumption DEF AddAccepted, CanAdd, TypeOK, Event
      <4> QED
        BY <3>1, <4>1 DEF AddAccepted, TypeOK
    <3> QED
      BY <1>1, <3>1 DEF Add, AddRefused, AddOverflows, TypeOK
  <2> QED
    BY <1>1, <2>1, <2>2, <2>3, <2>4, <2>5
    DEF Add, AddRefused, AddOverflows, AddAccepted, TypeOK
<1>2. ASSUME NEW c \in Callers, EnsureWorker(c) PROVE TypeOK'
  BY <1>2, CallTypes DEF EnsureWorker, TypeOK, Move, Places
<1>3. ASSUME NEW c \in Callers, FlushCalled(c) PROVE TypeOK'
  <2>1. \A d \in {"none", "running"} :
          [NoCall EXCEPT !.op = "flush", !.deadline = d] \in CallStates
    BY DEF NoCall, CallStates
  <2> QED
    BY <1>3, <2>1, MoveTypes DEF FlushCalled, TypeOK, Places
<1>4. ASSUME NEW c \in Callers, FlushStarts(c) PROVE TypeOK'
  <2>1. [call[c] EXCEPT !.ok = TRUE, !.owed = Outstanding, !.mine = {}] \in CallStates
    <3>1. Outstanding \subseteq Event /\ call[c] \in CallStates
      BY DEF TypeOK, Outstanding
    <3> QED
      BY <3>1 DEF CallStates
  <2>2. call' \in [Threads -> CallStates]
    BY <1>4, <2>1 DEF FlushStarts, TypeOK
  <2> QED
    BY <1>4, <2>2, MoveTypes DEF FlushStarts, TypeOK, Places
<1>5. ASSUME NEW c \in Callers, FlushDone(c) \/ WaitTimesOut(c) \/ InflightDrained(c)
      PROVE  TypeOK'
  <2>1. pc' \in [Threads -> Places] /\ call' \in [Threads -> CallStates]
    BY <1>5, FlushReturnsTypes, MoveTypes
    DEF FlushDone, WaitTimesOut, InflightDrained, TypeOK, Places
  <2> QED
    BY <1>5, <2>1 DEF FlushDone, WaitTimesOut, InflightDrained, TypeOK
<1>6. ASSUME NEW c \in Callers, FlushTakes(c) PROVE TypeOK'
  <2>1. queue' \in Seq(Event) /\ inflight' \in Int /\ job' \in [Threads -> Jobs]
        /\ job'[c].batch \in Seq(Event)
    BY <1>6, PopTypes DEF FlushTakes
  <2>2. ToSet(job'[c].batch) \subseteq Event
    BY <2>1 DEF ToSet
  <2>3. [call[c] EXCEPT !.mine = call[c].mine \cup ToSet(job'[c].batch)] \in CallStates
    <3>1. call[c].mine \cup ToSet(job'[c].batch) \subseteq Event /\ call[c] \in CallStates
      BY <2>2 DEF TypeOK, CallStates
    <3> QED
      BY <3>1 DEF CallStates
  <2>4. call' \in [Threads -> CallStates]
    BY <1>6, <2>3 DEF FlushTakes, TypeOK
  <2> QED
    BY <1>6, <2>1, <2>4, MoveTypes DEF FlushTakes, TypeOK, Places
<1>7. ASSUME NEW c \in Callers, InflightWaits(c) PROVE TypeOK'
  BY <1>7, MoveTypes DEF InflightWaits, TypeOK, Places
<1>8. ASSUME NEW t \in Threads, ReplayStarts(t) PROVE TypeOK'
  BY <1>8, MoveTypes DEF ReplayStarts, TypeOK, Places
<1>9. ASSUME NEW t \in Threads, ReplayAnswered(t) PROVE TypeOK'
  <2>1. wal # <<>> /\ todo' \in Nat
    BY <1>9 DEF ReplayAnswered, OneDelivery, TypeOK
  <2>2. wal' \in Seq(Seq(Event))
    BY <1>9, <2>1 DEF ReplayAnswered, TypeOK
  <2>3. fate' \in [Event -> Fates]
    BY <1>9, FateTypes DEF ReplayAnswered, TypeOK, Fates
  <2> QED
    BY <1>9, <2>1, <2>2, <2>3 DEF ReplayAnswered, TypeOK
<1>10. ASSUME NEW t \in Threads, ReplayFails(t) \/ ReplayDone(t) PROVE TypeOK'
  <2>1. pc[t] \in {"recover", "replay"} /\ (RecoverFails(t) \/ RecoverSucceeds(t))
    BY <1>10 DEF ReplayFails, ReplayDone
  <2>2. todo' \in Nat
    BY <1>10 DEF ReplayFails, ReplayDone, TypeOK
  <2> QED
    BY <1>10, <2>1, <2>2, RecoverTypes DEF ReplayFails, ReplayDone, TypeOK
<1>11. ASSUME NEW t \in Threads, pc[t] \in {"deliver", "post"},
              SplitLimitReached(t) \/ SendRefused(t) \/ SendStarts(t) \/ Accepted(t)
              \/ BatchRejected(t) \/ Rejected(t) \/ Failed(t)
       PROVE  TypeOK'
  <2>0. job[t].ends # <<>>
    BY <1>11 DEF JobsWellFormed, WellFormed
  <2>1. /\ job[t] \in Jobs /\ Segment(t) \in Seq(Event) /\ SegmentLen(t) \in Nat
        /\ \A o \in {"ok", "rejected", "transient"} : Resolved(t, o) \in [Threads -> Jobs]
    BY <2>0, HeadSegment, ResolvedTypes
  <2>2. wal' \in Seq(Seq(Event))
    <3>1. CASE SendStarts(t)
      BY <2>1, <3>1 DEF SendStarts, TypeOK
    <3>2. CASE Accepted(t) \/ BatchRejected(t) \/ Rejected(t)
      BY <3>2, WalAcknowledgedTypes DEF Accepted, BatchRejected, Rejected
    <3>3. CASE SplitLimitReached(t) \/ SendRefused(t) \/ Failed(t)
      BY <3>3 DEF SplitLimitReached, SendRefused, Failed, TypeOK
    <3> QED
      BY <1>11, <3>1, <3>2, <3>3
  <2>3. DropSegment(t) => /\ lost' \in Nat /\ fate' \in [Event -> Fates]
                          /\ job' \in [Threads -> Jobs] /\ pc' \in [Threads -> Places]
    BY <2>1, FateTypes, MoveTypes, AfterSegmentPlace DEF DropSegment, TypeOK, Fates
  <2>4. CASE SplitLimitReached(t) \/ Rejected(t)
    BY <2>2, <2>3, <2>4 DEF SplitLimitReached, Rejected, TypeOK
  <2>5. CASE SendRefused(t)
    <3>1. job' \in [Threads -> Jobs]
      BY <2>1, <2>5, SpentTypes DEF SendRefused, BudgetLeft
    <3> QED
      BY <2>0, <2>2, <2>5, <3>1, RequeueTypes DEF SendRefused, TypeOK
  <2>6. CASE SendStarts(t)
    <3>1. job' \in [Threads -> Jobs]
      BY <2>6, SpentTypes DEF SendStarts, BudgetLeft, TypeOK
    <3> QED
      BY <2>2, <2>6, <3>1, MoveTypes DEF SendStarts, TypeOK, Places
  <2>7. CASE Accepted(t)
    <3>1. delivered' \in Nat /\ fate' \in [Event -> Fates] /\ pc' \in [Threads -> Places]
      BY <2>1, <2>7, FateTypes, MoveTypes, AfterSegmentPlace DEF Accepted, TypeOK, Fates
    <3> QED
      BY <2>1, <2>2, <2>7, <3>1 DEF Accepted, TypeOK
  <2>8. CASE BatchRejected(t)
    <3> DEFINE mid == job[t].done + SegmentLen(t) \div 2
    <3>1. job[t].done \in Nat /\ job[t].ends \in Seq(Nat)
      BY <2>1 DEF Jobs
    <3>2. mid \in Nat
      BY <2>1, <3>1
    <3>3. <<mid>> \o job[t].ends \in Seq(Nat)
      BY <3>1, <3>2
    <3>4. [job[t] EXCEPT !.ends = <<mid>> \o job[t].ends] \in Jobs
      BY <2>1, <3>3 DEF Jobs
    <3>5. job' \in [Threads -> Jobs]
      BY <2>8, <3>4 DEF BatchRejected, TypeOK
    <3> QED
      BY <2>2, <2>8, <3>5, MoveTypes DEF BatchRejected, TypeOK, Places
  <2>9. CASE Failed(t)
    <3>1. /\ queue' \in Seq(Event) /\ lost' \in Nat /\ fate' \in [Event -> Fates]
          /\ job' \in [Threads -> Jobs] /\ pc' \in [Threads -> Places]
      BY <2>0, <2>1, <2>9, RequeueTypes, FateTypes, MoveTypes, AfterSegmentPlace
      DEF Failed, TypeOK, Fates
    <3> QED
      BY <2>2, <2>9, <3>1 DEF Failed, TypeOK
  <2> QED
    BY <1>11, <2>4, <2>5, <2>6, <2>7, <2>8, <2>9
<1>12. ASSUME NEW t \in Threads, Finish(t) PROVE TypeOK'
  <2>1. NoJob \in Jobs
    BY ManagerAssumption DEF NoJob, Jobs
  <2>2. Len(job[t].batch) \in Int
    BY DEF TypeOK, Jobs
  <2>3. inflight' \in Int /\ job' \in [Threads -> Jobs]
    BY <1>12, <2>1, <2>2 DEF Finish, TypeOK
  <2>4. [call[t] EXCEPT !.ok = FALSE] \in CallStates
    BY DEF TypeOK, CallStates
  <2>5. call' \in [Threads -> CallStates]
    BY <1>12, <2>4 DEF Finish, TypeOK
  <2>6. pc' \in [Threads -> Places]
    BY <1>12, MoveTypes DEF Finish, TypeOK, Places
  <2> QED
    BY <1>12, <2>3, <2>5, <2>6 DEF Finish, TypeOK
<1>13. ASSUME WorkerTakes PROVE TypeOK'
  <2>1. queue' \in Seq(Event) /\ inflight' \in Int /\ job' \in [Threads -> Jobs]
    BY <1>13, PopTypes DEF WorkerTakes
  <2> QED
    BY <1>13, <2>1, MoveTypes DEF WorkerTakes, TypeOK, Places
<1>14. ASSUME WorkerSkipsTick \/ WorkerWaits \/ WorkerStops \/ WorkerBacksOff \/ WorkerExits
       PROVE  TypeOK'
  BY <1>14, MoveTypes
  DEF WorkerSkipsTick, WorkerWaits, WorkerStops, WorkerBacksOff, WorkerExits, TypeOK, Places
<1>15. ASSUME Tick PROVE TypeOK'
  BY <1>15 DEF Tick, TypeOK, Places
<1>16. ASSUME NEW c \in Callers, DeadlinePasses(c) PROVE TypeOK'
  <2>1. Awake(pc[c]) \in Places
    BY DEF Awake, TypeOK, Places
  <2>2. call' \in [Threads -> CallStates]
    <3>1. c \in Threads /\ call[c] \in CallStates
      BY DEF TypeOK, Threads
    <3>2. [call[c] EXCEPT !.deadline = "passed"] \in CallStates
      BY <3>1 DEF CallStates
    <3>3. call' = [call EXCEPT ![c] = [call[c] EXCEPT !.deadline = "passed"]]
      BY <1>16 DEF DeadlinePasses
    <3> QED
      BY <3>2, <3>3 DEF TypeOK
  <2> QED
    BY <1>16, <2>1, <2>2 DEF DeadlinePasses, TypeOK
<1>17. ASSUME NEW c \in Callers, ShutdownBegins(c) PROVE TypeOK'
  <2>1. \A d \in {"none", "running"} :
          [NoCall EXCEPT !.op = "shutdown", !.deadline = d] \in CallStates
    BY DEF NoCall, CallStates
  <2> QED
    BY <1>17, <2>1, MoveTypes DEF ShutdownBegins, TypeOK, Places
<1>18. ASSUME NEW c \in Callers, ShutdownJoins(c) \/ ShutdownMarksFinite(c) PROVE TypeOK'
  BY <1>18, MoveTypes DEF ShutdownJoins, ShutdownMarksFinite, TypeOK, Places
<1>19. ASSUME NEW c \in Callers, ShutdownUnqueues(c) PROVE TypeOK'
  <2>1. pc' \in [Threads -> Places] /\ call' \in [Threads -> CallStates]
    BY <1>19, ShutdownReturnsTypes, MoveTypes DEF ShutdownUnqueues, TypeOK, Places
  <2>2. queue' \in Seq(Event) /\ taken' \in [Callers -> Seq(Event)]
    BY <1>19 DEF ShutdownUnqueues, TypeOK
  <2> QED
    BY <1>19, <2>1, <2>2 DEF ShutdownUnqueues, TypeOK
<1>20. ASSUME NEW c \in Callers, LosesTaken(c)
       PROVE  /\ pc' \in [Threads -> Places] /\ call' \in [Threads -> CallStates]
              /\ lost' \in Nat /\ taken' \in [Callers -> Seq(Event)]
              /\ fate' \in [Event -> Fates]
  <2>1. pc' \in [Threads -> Places] /\ call' \in [Threads -> CallStates]
    BY <1>20, ShutdownReturnsTypes DEF LosesTaken
  <2>2. lost' \in Nat /\ taken' \in [Callers -> Seq(Event)]
    BY <1>20 DEF LosesTaken, TypeOK
  <2>3. fate' \in [Event -> Fates]
    BY <1>20, FateTypes DEF LosesTaken, TypeOK, Fates
  <2> QED
    BY <2>1, <2>2, <2>3
<1>21. ASSUME NEW c \in Callers, ShutdownLosesRest(c) PROVE TypeOK'
  BY <1>20, <1>21 DEF ShutdownLosesRest, TypeOK
<1>22. ASSUME NEW c \in Callers, ShutdownPersists(c) PROVE TypeOK'
  <2>1. taken[c] \in Seq(Event) /\ taken[c] # <<>>
    BY <1>22 DEF ShutdownPersists, NothingStranded, TypeOK
  <2>2. wal' \in Seq(Seq(Event))
    BY <1>22, <2>1 DEF ShutdownPersists, TypeOK
  <2>3. fate' \in [Event -> Fates]
    BY <1>22, FateTypes DEF ShutdownPersists, TypeOK, Fates
  <2>4. pc' \in [Threads -> Places]
    BY <1>22, MoveTypes DEF ShutdownPersists, TypeOK, Places
  <2> QED
    BY <1>22, <2>2, <2>3, <2>4 DEF ShutdownPersists, TypeOK
<1>23. ASSUME NEW c \in Callers, ShutdownConfirms(c) PROVE TypeOK'
  <2>1. CASE LosesTaken(c)
    BY <1>20, <1>23, <2>1 DEF ShutdownConfirms, TypeOK
  <2>2. CASE ~LosesTaken(c)
    <3>1. taken[c] \in Seq(Event) /\ taken[c] # <<>>
      BY <1>23 DEF ShutdownConfirms, NothingStranded, TypeOK
    <3>2. taken' = [taken EXCEPT ![c] = Tail(taken[c])]
      BY <1>23, <2>2 DEF ShutdownConfirms
    <3>3. taken' \in [Callers -> Seq(Event)]
      BY <3>1, <3>2 DEF TypeOK
    <3>4. pc' \in [Threads -> Places] /\ call' \in [Threads -> CallStates]
      BY <1>23, <2>2, ShutdownReturnsTypes, MoveTypes DEF ShutdownConfirms, TypeOK, Places
    <3> QED
      BY <1>23, <2>2, <3>3, <3>4 DEF ShutdownConfirms, TypeOK
  <2> QED
    BY <2>1, <2>2
<1>24. CASE UNCHANGED vars
  BY <1>24 DEF TypeOK, vars
<1> QED
  BY <1>1, <1>2, <1>3, <1>4, <1>5, <1>6, <1>7, <1>8, <1>9, <1>10, <1>11, <1>12, <1>13,
     <1>14, <1>15, <1>16, <1>17, <1>18, <1>19, <1>21, <1>22, <1>23, <1>24
  DEF Next, FlushStep, ShutdownStep, WorkerStep, Replay, Deliver, SplitLimitReached,
      SendRefused, SendStarts, Accepted, BatchRejected, Rejected, Failed

-----------------------------------------------------------------------------
(* The delivery lock.                                                      *)

\* No thread comes to hold the delivery lock in this step.
NoneLocks == \A u \in Threads : pc'[u] \in {"replay", "post"} => pc'[u] = pc[u]

\* Moving to a place outside the lock takes no lock.
LEMMA MovesUnlocked ==
  ASSUME TypeOK, NEW t, NEW place \in Places \ {"replay", "post"},
         Move(t, place) \/ MoveAndNotify(t, place)
  PROVE  NoneLocks /\ (t \in Threads => pc'[t] = place)
  BY NotifiedTypes DEF Move, MoveAndNotify, NoneLocks, TypeOK

\* Only starting a replay or a request takes the lock.
LEMMA LocksOnlyToDeliver ==
  ASSUME TypeOK, [Next]_vars
  PROVE  \/ NoneLocks
         \/ \E t \in Threads : ReplayStarts(t) \/ SendStarts(t)
<1> USE DEF flags, counters, log, memory, history, control
<1>1. ASSUME NEW c, NEW r, FlushReturns(c, r) PROVE NoneLocks
  BY <1>1, MovesUnlocked DEF FlushReturns, Places
<1>2. ASSUME NEW t, RequeueAtHead(t) \/ DropSegment(t) PROVE NoneLocks
  BY <1>2, MovesUnlocked, AfterSegmentPlace DEF RequeueAtHead, DropSegment
<1>3. ASSUME NEW c, ShutdownReturns(c) PROVE NoneLocks
  BY <1>3, MovesUnlocked DEF ShutdownReturns, Places
<1>4. UNCHANGED pc => NoneLocks
  BY DEF NoneLocks
<1>5. ASSUME NEW c \in Callers, Add(c) \/ FlushCalled(c) \/ ShutdownBegins(c) PROVE NoneLocks
  BY <1>4, <1>5, MovesUnlocked
  DEF Add, AddRefused, AddOverflows, AddAccepted, FlushCalled, ShutdownBegins, Places
<1>6. ASSUME NEW c \in Callers, EnsureWorker(c) PROVE NoneLocks
  BY <1>6, MovesUnlocked DEF EnsureWorker, Places, NoneLocks, TypeOK
<1>7. ASSUME NEW c \in Callers, FlushStep(c) PROVE NoneLocks
  BY <1>1, <1>7, MovesUnlocked
  DEF FlushStep, FlushStarts, FlushDone, FlushTakes, InflightDrained, WaitTimesOut,
      InflightWaits, Places
<1>8. ASSUME NEW c \in Callers, ShutdownStep(c) PROVE NoneLocks
  BY <1>3, <1>4, <1>8, MovesUnlocked
  DEF ShutdownStep, ShutdownJoins, ShutdownMarksFinite, ShutdownUnqueues,
      ShutdownLosesRest, ShutdownPersists, ShutdownConfirms, LosesTaken, Places
<1>9. ASSUME NEW c \in Callers, DeadlinePasses(c) PROVE NoneLocks
  BY <1>9 DEF DeadlinePasses, NoneLocks, Awake, TypeOK
<1>10. ASSUME NEW t \in Threads, ReplayAnswered(t) \/ ReplayFails(t) \/ ReplayDone(t)
       PROVE  NoneLocks
  BY <1>1, <1>2, <1>4, <1>10, MovesUnlocked
  DEF ReplayAnswered, ReplayFails, ReplayDone, RecoverFails, RecoverSucceeds, Places
<1>11. ASSUME NEW t \in Threads,
              \/ SplitLimitReached(t) \/ SendRefused(t) \/ Accepted(t) \/ BatchRejected(t)
              \/ Rejected(t) \/ Failed(t) \/ Finish(t)
       PROVE  NoneLocks
  BY <1>2, <1>11, MovesUnlocked, AfterSegmentPlace
  DEF SplitLimitReached, SendRefused, Accepted, BatchRejected, Rejected, Failed, Finish,
      Places
<1>12. ASSUME WorkerStep PROVE NoneLocks
  BY <1>4, <1>12, MovesUnlocked
  DEF WorkerStep, WorkerTakes, WorkerSkipsTick, WorkerWaits, WorkerStops, WorkerBacksOff,
      WorkerExits, Places
<1>13. ASSUME Tick PROVE NoneLocks
  BY <1>13 DEF Tick, NoneLocks, TypeOK
<1>14. CASE UNCHANGED vars
  BY <1>4, <1>14 DEF vars
<1> QED
  BY <1>5, <1>6, <1>7, <1>8, <1>9, <1>10, <1>11, <1>12, <1>13, <1>14 DEF Next, Replay, Deliver

\* How a step changes the log and what is left to replay of it.
LEMMA LogSteps ==
  ASSUME IInv, [Next]_vars
  PROVE  \/ UNCHANGED log
         \/ \E t \in Threads : ReplayStarts(t) \/ ReplayAnswered(t) \/ ReplayFails(t)
         \/ \E t \in Threads : /\ pc[t] = "post" /\ pc'[t] # "post"
                              /\ wal' = WalAcknowledged(t) /\ UNCHANGED todo
         \/ /\ enabled
            /\ \E r \in Seq(Event) : wal' = Append(wal, r)
            /\ UNCHANGED todo
<1> USE DEF log
<1>1. ASSUME NEW t \in Threads, SendStarts(t)
      PROVE  /\ UNCHANGED <<enabled, todo>>
             /\ UNCHANGED wal \/ (enabled /\ \E r \in Seq(Event) : wal' = Append(wal, r))
  <2>1. Segment(t) \in Seq(Event)
    BY <1>1, HeadSegment DEF SendStarts, IInv, JobsWellFormed, WellFormed
  <2> QED
    BY <1>1, <2>1 DEF SendStarts
<1>2. ASSUME NEW c \in Callers, ShutdownPersists(c)
      PROVE  enabled /\ UNCHANGED todo /\ \E r \in Seq(Event) : wal' = Append(wal, r)
  <2>1. taken[c] \in Seq(Event) /\ taken[c] # <<>>
    BY <1>2 DEF ShutdownPersists, IInv, NothingStranded, TypeOK
  <2>2. <<Head(taken[c])>> \in Seq(Event)
    BY <2>1
  <2> QED
    BY <1>2, <2>2 DEF ShutdownPersists
<1>3. ASSUME NEW t \in Threads, Accepted(t) \/ BatchRejected(t) \/ Rejected(t)
      PROVE  pc[t] = "post" /\ pc'[t] # "post" /\ wal' = WalAcknowledged(t) /\ UNCHANGED todo
  <2>1. pc'[t] = "deliver" \/ pc'[t] = AfterSegment(t)
    BY <1>3 DEF IInv, TypeOK, Accepted, BatchRejected, Rejected, DropSegment, Move
  <2> QED
    BY <1>3, <2>1, AfterSegmentPlace DEF Accepted, BatchRejected, Rejected
<1>4. ASSUME NEW c \in Callers,
             \/ Add(c) \/ FlushCalled(c) \/ ShutdownBegins(c) \/ EnsureWorker(c)
             \/ FlushStep(c) \/ DeadlinePasses(c) \/ ShutdownJoins(c)
             \/ ShutdownMarksFinite(c) \/ ShutdownUnqueues(c) \/ ShutdownLosesRest(c)
             \/ ShutdownConfirms(c)
      PROVE  UNCHANGED log
  BY <1>4
  DEF Add, AddRefused, AddOverflows, AddAccepted, FlushCalled, ShutdownBegins, EnsureWorker,
      FlushStep, FlushStarts, FlushDone, FlushTakes, InflightDrained, WaitTimesOut,
      InflightWaits, DeadlinePasses, ShutdownJoins, ShutdownMarksFinite, ShutdownUnqueues,
      ShutdownLosesRest, ShutdownConfirms
<1>5. ASSUME NEW t \in Threads,
             \/ ReplayDone(t) \/ SplitLimitReached(t) \/ SendRefused(t) \/ Failed(t)
             \/ Finish(t)
      PROVE  UNCHANGED log
  BY <1>5 DEF ReplayDone, SplitLimitReached, SendRefused, Failed, Finish
<1>6. ASSUME WorkerStep \/ Tick PROVE UNCHANGED log
  BY <1>6
  DEF WorkerStep, WorkerTakes, WorkerSkipsTick, WorkerWaits, WorkerStops, WorkerBacksOff,
      WorkerExits, Tick
<1>7. CASE UNCHANGED vars
  BY <1>7 DEF vars
<1> QED
  BY <1>1, <1>2, <1>3, <1>4, <1>5, <1>6, <1>7 DEF Next, Replay, Deliver, ShutdownStep

\* No step of the manager itself starts or stops the keeping of a log.
LEMMA EnabledStays == [Next]_vars => enabled' = enabled
<1> SUFFICES ASSUME [Next]_vars PROVE enabled' = enabled
  OBVIOUS
<1> USE DEF log
<1>1. ASSUME NEW t \in Threads, Replay(t) \/ Deliver(t) PROVE enabled' = enabled
  BY <1>1
  DEF Replay, Deliver, ReplayStarts, ReplayAnswered, ReplayFails, ReplayDone,
      SplitLimitReached, SendRefused, SendStarts, Accepted, BatchRejected, Rejected, Failed,
      Finish
<1>2. ASSUME NEW c \in Callers,
             \/ Add(c) \/ FlushCalled(c) \/ ShutdownBegins(c) \/ EnsureWorker(c)
             \/ FlushStep(c) \/ ShutdownStep(c) \/ DeadlinePasses(c)
      PROVE  enabled' = enabled
  BY <1>2
  DEF Add, AddRefused, AddOverflows, AddAccepted, FlushCalled, ShutdownBegins, EnsureWorker,
      FlushStep, FlushStarts, FlushDone, FlushTakes, InflightDrained, WaitTimesOut,
      InflightWaits, DeadlinePasses, ShutdownStep, ShutdownJoins, ShutdownMarksFinite,
      ShutdownUnqueues, ShutdownLosesRest, ShutdownPersists, ShutdownConfirms
<1>3. ASSUME WorkerStep \/ Tick PROVE enabled' = enabled
  BY <1>3
  DEF WorkerStep, WorkerTakes, WorkerSkipsTick, WorkerWaits, WorkerStops, WorkerBacksOff,
      WorkerExits, Tick
<1>4. CASE UNCHANGED vars
  BY <1>4 DEF vars
<1> QED
  BY <1>1, <1>2, <1>3, <1>4 DEF Next

\* Every step keeps the delivery lock exclusive.
LEMMA OneDeliveryStep == IInv /\ [Next]_vars => OneDelivery'
<1> SUFFICES ASSUME IInv, [Next]_vars PROVE OneDelivery'
  OBVIOUS
<1>0. TypeOK /\ OneDelivery /\ WriteAhead
  BY DEF IInv
<1>1. ASSUME NEW t \in Threads, ReplayStarts(t) \/ SendStarts(t) PROVE OneDelivery'
  <2>1. \A u \in Threads : pc'[u] \in {"replay", "post"} => u = t
    BY <1>0, <1>1 DEF ReplayStarts, SendStarts, LockFree, Move, TypeOK
  <2>2. ReplayStarts(t) => todo' <= Len(wal')
    BY <1>0, <1>1 DEF ReplayStarts, log, TypeOK
  <2>3. SendStarts(t) => pc'[t] = "post"
    BY <1>0 DEF SendStarts, Move, TypeOK
  <2> QED
    BY <1>1, <2>1, <2>2, <2>3 DEF OneDelivery
<1>2. ASSUME NoneLocks PROVE OneDelivery'
  <2>1. \A t, u \in Threads :
          pc'[t] \in {"replay", "post"} /\ pc'[u] \in {"replay", "post"} => t = u
    BY <1>0, <1>2 DEF NoneLocks, OneDelivery
  <2>2. ASSUME NEW u \in Threads, pc'[u] = "replay" PROVE todo' <= Len(wal')
    <3>1. pc[u] = "replay" /\ todo <= Len(wal)
      BY <1>0, <1>2, <2>2 DEF NoneLocks, OneDelivery
    <3>2. wal \in Seq(Seq(Event)) /\ todo \in Nat
      BY <1>0 DEF TypeOK
    <3>3. ASSUME NEW t \in Threads, ReplayStarts(t) PROVE FALSE
      BY <3>1, <3>3 DEF ReplayStarts, LockFree
    <3>4. ASSUME NEW t \in Threads, ReplayAnswered(t) PROVE todo' <= Len(wal')
      <4>1. todo <= Len(wal) /\ todo > 0 /\ wal' = Tail(wal) /\ todo' = todo - 1
        BY <3>1, <3>4 DEF ReplayAnswered
      <4> QED
        BY <3>2, <4>1
    <3>5. ASSUME NEW t \in Threads, ReplayFails(t) PROVE todo' <= Len(wal')
      BY <3>1, <3>2, <3>5 DEF ReplayFails
    <3>6. ASSUME NEW t \in Threads, pc[t] = "post" PROVE FALSE
      BY <1>0, <3>1, <3>6 DEF OneDelivery
    <3>7. ASSUME NEW r \in Seq(Event), wal' = Append(wal, r), UNCHANGED todo
          PROVE  todo' <= Len(wal')
      BY <3>1, <3>2, <3>7
    <3> QED
      BY <3>1, <3>3, <3>4, <3>5, <3>6, <3>7, LogSteps DEF log
  <2> QED
    BY <2>1, <2>2 DEF OneDelivery
<1> QED
  BY <1>0, <1>1, <1>2, LocksOnlyToDeliver

-----------------------------------------------------------------------------
(* The batches being dispatched.                                           *)

\* An idle job is well formed wherever its thread is, except while sending.
LEMMA EmptyJob ==
  ASSUME NEW j \in Jobs, NEW p, NEW q, WellFormed(j, p), j.batch = <<>>,
         q \notin {"deliver", "post"}
  PROVE  WellFormed(j, q) /\ j.ends = <<>> /\ p \notin {"deliver", "post"}
<1>1. j.done \in Nat /\ j.ends \in Seq(Nat) /\ Len(j.batch) = 0
  BY DEF Jobs
<1>2. j.done = 0
  BY <1>1 DEF WellFormed
<1>3. ASSUME j.ends # <<>> PROVE FALSE
  <2>1. 1 \in DOMAIN j.ends
    BY <1>1, <1>3
  <2>2. j.done < j.ends[1] /\ j.ends[1] <= Len(j.batch) /\ j.ends[1] \in Nat
    BY <1>1, <2>1 DEF WellFormed
  <2> QED
    BY <1>1, <1>2, <2>2
<1> QED
  BY <1>1, <1>2, <1>3 DEF WellFormed, Dispatching

\* _pop hands over a whole batch as one segment.
LEMMA FreshJob ==
  ASSUME NEW b \in Seq(Event), NEW n \in Nat, Len(b) = n, n > 0
  PROVE  WellFormed([batch |-> b, done |-> 0, ends |-> <<n>>, budget |-> MaxSplitSends,
                     out |-> "ok"], "recover")
  BY DEF WellFormed, Dispatching

\* Resolving the first segment moves on to the next one, or to the end.
LEMMA ResolvedJob ==
  ASSUME TypeOK, NEW t \in Threads, NEW p, WellFormed(job[t], p), job[t].ends # <<>>,
         p \in Dispatching, NEW outcome
  PROVE  WellFormed(Resolved(t, outcome)[t], AfterSegment(t))
<1> DEFINE j == job[t]
           k == Resolved(t, outcome)[t]
<1>1. j.done \in Nat /\ j.ends \in Seq(Nat) /\ j.batch \in Seq(Event) /\ j \in Jobs
  BY DEF TypeOK, Jobs
<1>2. k.done = Head(j.ends) /\ k.ends = Tail(j.ends) /\ k.batch = j.batch
  BY <1>1 DEF Resolved, TypeOK, Jobs
<1>3. /\ Len(j.ends) > 0 /\ Head(j.ends) = j.ends[1] /\ j.ends[1] \in Nat
      /\ Len(Tail(j.ends)) = Len(j.ends) - 1
      /\ \A i \in DOMAIN Tail(j.ends) : /\ Tail(j.ends)[i] = j.ends[i + 1]
                                        /\ i + 1 \in DOMAIN j.ends /\ i + 1 > 1
  BY <1>1
<1>4. k.done <= Len(k.batch)
  BY <1>1, <1>2, <1>3 DEF WellFormed
<1>5. \A i \in DOMAIN k.ends : k.done < k.ends[i] /\ k.ends[i] <= Len(k.batch)
  <2>1. SUFFICES ASSUME NEW i \in DOMAIN k.ends
                 PROVE  k.done < k.ends[i] /\ k.ends[i] <= Len(k.batch)
    OBVIOUS
  <2>2. i \in DOMAIN Tail(j.ends) /\ i \in Nat /\ 1 \in DOMAIN j.ends
    <3>1. DOMAIN Tail(j.ends) \subseteq Nat
      BY <1>1, <1>3
    <3>2. 1 \in DOMAIN j.ends
      BY <1>1, <1>3
    <3> QED
      BY <1>2, <2>1, <3>1, <3>2
  <2>3. /\ k.ends[i] = j.ends[i + 1] /\ i + 1 \in DOMAIN j.ends /\ 1 < i + 1
        /\ k.done = j.ends[1]
    BY <1>2, <1>3, <2>2
  <2> QED
    BY <1>2, <2>2, <2>3 DEF WellFormed
<1>6. \A i, l \in DOMAIN k.ends : i < l => k.ends[i] < k.ends[l]
  <2>1. SUFFICES ASSUME NEW i \in DOMAIN k.ends, NEW l \in DOMAIN k.ends, i < l
                 PROVE  k.ends[i] < k.ends[l]
    OBVIOUS
  <2>2. /\ i \in Nat /\ k.ends[i] = j.ends[i + 1] /\ i + 1 \in DOMAIN j.ends
        /\ l \in Nat /\ k.ends[l] = j.ends[l + 1] /\ l + 1 \in DOMAIN j.ends
    <3>1. i \in DOMAIN Tail(j.ends) /\ l \in DOMAIN Tail(j.ends)
      BY <1>2
    <3>2. DOMAIN Tail(j.ends) \subseteq Nat
      BY <1>1, <1>3
    <3> QED
      BY <1>2, <1>3, <3>1, <3>2
  <2>3. i + 1 < l + 1
    BY <2>1, <2>2
  <2> QED
    BY <2>2, <2>3 DEF WellFormed
<1>7. Len(k.ends) = Len(j.ends) - 1 /\ (k.ends = <<>> <=> Len(j.ends) = 1)
  <2>1. Tail(j.ends) \in Seq(Nat)
    BY <1>1, <1>3
  <2>2. \A s \in Seq(Nat) : s = <<>> <=> Len(s) = 0
    OBVIOUS
  <2>3. Len(k.ends) = Len(j.ends) - 1 /\ (k.ends = <<>> <=> Len(k.ends) = 0)
    BY <1>2, <1>3, <2>1, <2>2
  <2>4. Len(j.ends) \in Nat
    BY <1>1
  <2> QED
    BY <2>3, <2>4
<1>10. k.ends = <<>> => k.done = Len(k.batch)
  <2>1. ASSUME k.ends = <<>> PROVE j.ends[Len(j.ends)] = Head(j.ends)
    BY <1>3, <1>7, <2>1
  <2>2. j.ends[Len(j.ends)] = Len(j.batch)
    BY DEF WellFormed
  <2> QED
    BY <1>2, <2>1, <2>2
<1>8. k.ends # <<>> => k.ends[Len(k.ends)] = Len(k.batch)
  <2>1. SUFFICES ASSUME k.ends # <<>> PROVE k.ends[Len(k.ends)] = Len(k.batch)
    OBVIOUS
  <2>2. Len(k.ends) \in DOMAIN Tail(j.ends)
    BY <1>1, <1>2, <1>3, <2>1
  <2>3. k.ends[Len(k.ends)] = j.ends[Len(j.ends)]
    BY <1>2, <1>3, <2>2
  <2> QED
    BY <1>2, <2>3 DEF WellFormed
<1>9. AfterSegment(t) = IF k.ends = <<>> THEN "finish" ELSE "deliver"
  BY <1>7 DEF AfterSegment
<1> QED
  BY <1>4, <1>5, <1>6, <1>8, <1>9, <1>10 DEF WellFormed, Dispatching

\* A 400 splits a segment of two events or more into two that are not empty.
LEMMA SplitJob ==
  ASSUME NEW j \in Jobs, WellFormed(j, "post"), NEW mid \in Nat,
         j.done < mid, mid < Head(j.ends)
  PROVE  WellFormed([j EXCEPT !.ends = <<mid>> \o j.ends], "deliver")
<1> DEFINE e == <<mid>> \o j.ends
<1>1. j.done \in Nat /\ j.ends \in Seq(Nat) /\ j.ends # <<>> /\ j.batch \in Seq(Event)
  BY DEF Jobs, WellFormed
<1>2. /\ e \in Seq(Nat) /\ Len(e) = Len(j.ends) + 1 /\ e[1] = mid
      /\ \A i \in DOMAIN e : i = 1 \/ (i - 1 \in DOMAIN j.ends /\ e[i] = j.ends[i - 1])
      /\ Len(j.ends) > 0 /\ Head(j.ends) = j.ends[1]
  BY <1>1
<1>3. \A i \in DOMAIN j.ends : mid < j.ends[i] /\ j.ends[i] <= Len(j.batch)
  <2>1. SUFFICES ASSUME NEW i \in DOMAIN j.ends
                 PROVE  mid < j.ends[i] /\ j.ends[i] <= Len(j.batch)
    OBVIOUS
  <2>2. j.ends[1] <= j.ends[i] /\ j.ends[i] <= Len(j.batch)
    BY <1>1, <1>2 DEF WellFormed
  <2> QED
    BY <1>1, <1>2, <2>2
<1>4. \A i \in DOMAIN e : j.done < e[i] /\ e[i] <= Len(j.batch)
  <2>1. mid <= Len(j.batch)
    BY <1>1, <1>2, <1>3
  <2> QED
    BY <1>1, <1>2, <2>1 DEF WellFormed
<1>5. \A i, k \in DOMAIN e : i < k => e[i] < e[k]
  <2>1. SUFFICES ASSUME NEW i \in DOMAIN e, NEW k \in DOMAIN e, i < k PROVE e[i] < e[k]
    OBVIOUS
  <2>2. k - 1 \in DOMAIN j.ends /\ e[k] = j.ends[k - 1]
    BY <1>1, <1>2, <2>1
  <2>3. CASE i = 1
    BY <1>2, <1>3, <2>2, <2>3
  <2>4. CASE i # 1
    BY <1>1, <1>2, <2>1, <2>2, <2>4 DEF WellFormed
  <2> QED
    BY <2>3, <2>4
<1>6. e[Len(e)] = Len(j.batch) /\ e # <<>>
  <2>1. j.ends[Len(j.ends)] = Len(j.batch)
    BY <1>1 DEF WellFormed
  <2> QED
    BY <1>1, <1>2, <2>1
<1>7. j.done <= Len(j.batch)
  BY DEF WellFormed
<1> QED
  BY <1>1, <1>4, <1>5, <1>6, <1>7 DEF WellFormed, Dispatching, Jobs

-----------------------------------------------------------------------------
(* Every step is a step of one thread, which leaves the others where they   *)
(* are or moves them from one place outside _send_batch to another.         *)

Undisturbed(t) ==
  \A u \in Threads \ {t} :
    /\ job'[u] = job[u]
    /\ pc'[u] = pc[u] \/ (pc[u] \notin Dispatching /\ pc'[u] \notin Dispatching)

StepOf(t) ==
  /\ Undisturbed(t)
  /\ WellFormed(job'[t], pc'[t])
  /\ pc'[t] = "post" => SendStarts(t) \/ job'[t] = job[t]

\* Moving a thread disturbs no other one, not even by waking it.
LEMMA MoveDisturbsNobody ==
  ASSUME TypeOK, NEW t \in Threads, NEW place,
         Move(t, place) \/ MoveAndNotify(t, place)
  PROVE  /\ pc'[t] = place
         /\ \A u \in Threads \ {t} :
              pc'[u] = pc[u] \/ (pc[u] \notin Dispatching /\ pc'[u] \notin Dispatching)
<1>1. pc \in [Threads -> Places] /\ Notified(pc) \in [Threads -> Places]
  BY NotifiedTypes DEF TypeOK
<1>2. \A u \in Threads : Notified(pc)[u] = pc[u]
                         \/ (pc[u] \notin Dispatching /\ Notified(pc)[u] \notin Dispatching)
  BY DEF Notified, Awake, Dispatching
<1>3. pc' = [pc EXCEPT ![t] = place] \/ pc' = [Notified(pc) EXCEPT ![t] = place]
  BY DEF Move, MoveAndNotify
<1> QED
  BY <1>1, <1>2, <1>3

\* A thread that does not dispatch, and moves without touching its batch.
LEMMA IdleStep ==
  ASSUME IInv, NEW t \in Threads, UNCHANGED job, NEW place,
         pc[t] \notin Dispatching, place \notin {"deliver", "post"},
         Move(t, place) \/ MoveAndNotify(t, place)
  PROVE  StepOf(t)
<1>1. TypeOK /\ job[t] \in Jobs /\ WellFormed(job[t], pc[t])
  BY DEF IInv, TypeOK, JobsWellFormed
<1>2. job[t].batch = <<>>
  BY <1>1 DEF WellFormed
<1>3. WellFormed(job[t], place)
  BY <1>1, <1>2, EmptyJob
<1> QED
  BY <1>1, <1>3, MoveDisturbsNobody DEF StepOf, Undisturbed

\* A thread that resolves the first segment of its batch.
LEMMA ResolvingStep ==
  ASSUME IInv, NEW t \in Threads, pc[t] \in Dispatching, job[t].ends # <<>>,
         NEW outcome \in {"ok", "rejected", "transient"},
         \/ job' = Resolved(t, outcome)
         \/ job[t].budget > 0 /\ job' = Spent(Resolved(t, outcome), t),
         Move(t, AfterSegment(t)) \/ MoveAndNotify(t, AfterSegment(t))
  PROVE  StepOf(t)
<1> DEFINE R == Resolved(t, outcome)
<1>1. TypeOK /\ WellFormed(job[t], pc[t])
  BY DEF IInv, JobsWellFormed
<1>2. R \in [Threads -> Jobs] /\ \A u \in Threads \ {t} : R[u] = job[u]
  BY <1>1, ResolvedTypes DEF Resolved, IInv, TypeOK
<1>3. /\ \A u \in Threads \ {t} : job'[u] = job[u]
      /\ job'[t].batch = R[t].batch /\ job'[t].done = R[t].done /\ job'[t].ends = R[t].ends
  BY <1>1, <1>2, SpentTypes
<1>4. WellFormed(R[t], AfterSegment(t))
  BY <1>1, ResolvedJob
<1>5. WellFormed(job'[t], AfterSegment(t))
  BY <1>3, <1>4 DEF WellFormed
<1> QED
  BY <1>1, <1>3, <1>5, MoveDisturbsNobody, AfterSegmentPlace DEF StepOf, Undisturbed

\* A thread that takes a batch from the queue.
LEMMA PoppingStep ==
  ASSUME IInv, NEW t \in Threads, queue # <<>>, Pop(t, AtMostFlushSize), Move(t, "recover")
  PROVE  StepOf(t)
<1> DEFINE n == AtMostFlushSize
<1>1. TypeOK /\ queue \in Seq(Event) /\ FlushSize \in Nat \ {0}
  BY ManagerAssumption DEF IInv, TypeOK
<1>2. n \in Nat /\ 0 < n /\ n <= Len(queue)
  BY <1>1 DEF AtMostFlushSize
<1>3. SubSeq(queue, 1, n) \in Seq(Event) /\ Len(SubSeq(queue, 1, n)) = n
  BY <1>1, <1>2
<1>4. WellFormed(job'[t], "recover")
  BY <1>1, <1>2, <1>3, FreshJob DEF Pop, TypeOK
<1>5. \A u \in Threads \ {t} : job'[u] = job[u]
  BY <1>1 DEF Pop, TypeOK
<1> QED
  BY <1>1, <1>4, <1>5, MoveDisturbsNobody DEF StepOf, Undisturbed

\* Every step is a step of one thread in the sense above.
LEMMA EveryStepIsOfAThread ==
  ASSUME IInv, [Next]_vars
  PROVE  \E t \in Threads : StepOf(t)
<1> USE DEF flags, counters, log, memory, history, control
<1>0. TypeOK /\ JobsWellFormed
  BY DEF IInv
<1>1. ASSUME NEW t \in Threads, UNCHANGED <<pc, job>> PROVE StepOf(t)
  BY <1>0, <1>1 DEF StepOf, Undisturbed, JobsWellFormed
<1>2. ASSUME NEW c \in Callers, pc[c] \notin Dispatching, UNCHANGED job,
             NEW r, FlushReturns(c, r)
      PROVE  StepOf(c)
  BY <1>2, IdleStep DEF FlushReturns, Threads
<1>3. ASSUME NEW c \in Callers, pc[c] \notin Dispatching, UNCHANGED job, ShutdownReturns(c)
      PROVE  StepOf(c)
  BY <1>3, IdleStep DEF ShutdownReturns, Threads
<1>4. ASSUME NEW t \in Threads, pc[t] \in Dispatching, job[t].ends # <<>>,
             \/ RequeueAtHead(t) /\ job' = Resolved(t, "transient")
             \/ DropSegment(t)
      PROVE  StepOf(t)
  BY <1>4, ResolvingStep DEF RequeueAtHead, DropSegment
<1>5. \A t \in Threads :
        /\ pc[t] \in {"deliver", "post"} => pc[t] \in Dispatching /\ job[t].ends # <<>>
        /\ pc[t] \in {"recover", "replay"} =>
             pc[t] \in Dispatching /\ (job[t].ends = <<>> <=> job[t].batch = <<>>)
  <2>1. SUFFICES ASSUME NEW t \in Threads, pc[t] \in {"recover", "replay"}
                 PROVE  job[t].ends = <<>> <=> job[t].batch = <<>>
    BY <1>0 DEF JobsWellFormed, WellFormed, Dispatching
  <2>2. WellFormed(job[t], pc[t]) /\ job[t] \in Jobs /\ job[t].done = 0
    BY <1>0, <2>1 DEF JobsWellFormed, WellFormed, TypeOK
  <2>3. job[t].ends = <<>> => job[t].batch = <<>>
    BY <2>2 DEF WellFormed, Jobs
  <2>4. job[t].batch = <<>> => job[t].ends = <<>>
    BY <2>1, <2>2, EmptyJob
  <2> QED
    BY <2>3, <2>4
<1>6. ASSUME NEW c \in Callers,
             \/ Add(c) \/ FlushCalled(c) \/ ShutdownBegins(c)
             \/ FlushStarts(c) \/ InflightWaits(c) \/ ShutdownJoins(c)
             \/ ShutdownMarksFinite(c)
      PROVE  StepOf(c)
  <2>1. UNCHANGED job /\ c \in Threads /\ pc[c] \notin Dispatching
    BY <1>6
    DEF Add, AddRefused, AddOverflows, AddAccepted, FlushCalled, ShutdownBegins, CanAdd,
        CanCall, FlushStarts, InflightWaits, ShutdownJoins, ShutdownMarksFinite, Dispatching,
        Threads
  <2> QED
    BY <1>1, <1>6, <2>1, IdleStep
    DEF Add, AddRefused, AddOverflows, AddAccepted, FlushCalled, ShutdownBegins,
        FlushStarts, InflightWaits, ShutdownJoins, ShutdownMarksFinite
<1>7. ASSUME NEW c \in Callers, EnsureWorker(c) PROVE StepOf(c)
  <2>1. CASE ~closed /\ pc[Worker] \in {"off", "exited"}
    <3> DEFINE next == IF call[c].op = "add" THEN "idle" ELSE "loop"
    <3>1. /\ pc' = [pc EXCEPT ![c] = next, ![Worker] = "take"] /\ UNCHANGED job
          /\ c \in Threads /\ Worker \in Threads /\ c # Worker
          /\ pc[c] = "ensure"
      BY <1>7, <2>1, ManagerAssumption DEF EnsureWorker, Threads
    <3>2. /\ pc'[c] = next /\ pc'[Worker] = "take"
          /\ \A u \in Threads \ {c, Worker} : pc'[u] = pc[u]
      BY <1>0, <3>1 DEF TypeOK
    <3>3. job[c] \in Jobs /\ WellFormed(job[c], "ensure") /\ job[c].batch = <<>>
      BY <1>0, <3>1 DEF TypeOK, JobsWellFormed, WellFormed, Dispatching
    <3>4. WellFormed(job[c], next)
      BY <3>3, EmptyJob
    <3> QED
      BY <2>1, <3>1, <3>2, <3>4 DEF StepOf, Undisturbed, Dispatching
  <2>2. CASE ~(~closed /\ pc[Worker] \in {"off", "exited"})
    BY <1>7, <2>2, IdleStep DEF EnsureWorker, Dispatching, Threads
  <2> QED
    BY <2>1, <2>2
<1>8. ASSUME NEW c \in Callers,
             \/ FlushDone(c) \/ InflightDrained(c) \/ WaitTimesOut(c)
             \/ ShutdownUnqueues(c) \/ ShutdownLosesRest(c) \/ ShutdownPersists(c)
              \/ ShutdownConfirms(c)
      PROVE  StepOf(c)
  <2>1. UNCHANGED job /\ c \in Threads /\ pc[c] \notin Dispatching
    BY <1>8
    DEF FlushDone, InflightDrained, WaitTimesOut, ShutdownUnqueues, ShutdownLosesRest,
        ShutdownPersists, ShutdownConfirms, LosesTaken, Dispatching, Threads
  <2> QED
    BY <1>1, <1>2, <1>3, <1>8, <2>1, IdleStep
    DEF FlushDone, InflightDrained, WaitTimesOut, ShutdownUnqueues, ShutdownLosesRest,
        ShutdownPersists, ShutdownConfirms, LosesTaken
<1>9. ASSUME NEW c \in Callers, FlushTakes(c) PROVE StepOf(c)
  BY <1>9, PoppingStep DEF FlushTakes, Threads
<1>10. ASSUME NEW c \in Callers, DeadlinePasses(c) PROVE StepOf(c)
  <2>1. /\ UNCHANGED job /\ c \in Threads /\ pc' = [pc EXCEPT ![c] = Awake(pc[c])]
        /\ job[c] \in Jobs /\ WellFormed(job[c], pc[c])
    BY <1>0, <1>10 DEF DeadlinePasses, Threads, TypeOK, JobsWellFormed
  <2>2. CASE Awake(pc[c]) = pc[c]
    BY <1>0, <1>1, <2>1, <2>2 DEF TypeOK
  <2>3. CASE Awake(pc[c]) # pc[c]
    <3>1. pc[c] \notin Dispatching /\ Awake(pc[c]) \notin {"deliver", "post"}
      BY <2>3 DEF Awake, Dispatching
    <3>2. Move(c, Awake(pc[c]))
      BY <2>1 DEF Move
    <3> QED
      BY <2>1, <3>1, <3>2, IdleStep
  <2> QED
    BY <2>2, <2>3
<1>11. ASSUME NEW t \in Threads, ReplayStarts(t) PROVE StepOf(t)
  <2>1. pc[t] = "recover" /\ UNCHANGED job /\ Move(t, "replay") /\ WellFormed(job[t], pc[t])
    BY <1>0, <1>11 DEF ReplayStarts, JobsWellFormed
  <2>2. WellFormed(job[t], "replay")
    BY <2>1 DEF WellFormed, Dispatching
  <2> QED
    BY <1>0, <2>1, <2>2, MoveDisturbsNobody DEF StepOf, Undisturbed
<1>12. ASSUME NEW t \in Threads, ReplayFails(t) PROVE StepOf(t)
  <2>1. pc[t] \in {"recover", "replay"}
    BY <1>12 DEF ReplayFails
  <2>2. CASE job[t].batch # <<>>
    BY <1>4, <1>5, <1>12, <2>1, <2>2 DEF ReplayFails, RecoverFails
  <2>3. CASE job[t].batch = <<>>
    <3>1. FlushReturns(t, "false") /\ UNCHANGED job
      BY <1>12, <2>3 DEF ReplayFails, RecoverFails
    <3>2. PICK place \in {"idle", "unqueue"} : Move(t, place)
      BY <3>1 DEF FlushReturns
    <3>3. WellFormed(job[t], place)
      BY <1>0, <2>3, EmptyJob DEF JobsWellFormed, TypeOK
    <3> QED
      BY <1>0, <3>1, <3>2, <3>3, MoveDisturbsNobody DEF StepOf, Undisturbed
  <2> QED
    BY <2>2, <2>3
<1>13. ASSUME NEW t \in Threads, ReplayDone(t) PROVE StepOf(t)
  <2>1. pc[t] = "replay" /\ UNCHANGED job /\ WellFormed(job[t], pc[t]) /\ job[t] \in Jobs
    BY <1>0, <1>13 DEF ReplayDone, RecoverSucceeds, JobsWellFormed, TypeOK
  <2>2. CASE job[t].batch = <<>>
    <3>1. WellFormed(job[t], "ensure")
      BY <2>1, <2>2, EmptyJob
    <3> QED
      BY <1>0, <1>13, <2>1, <2>2, <3>1, MoveDisturbsNobody
      DEF ReplayDone, RecoverSucceeds, StepOf, Undisturbed
  <2>3. CASE job[t].batch # <<>>
    <3>1. WellFormed(job[t], "deliver")
      BY <1>5, <2>1, <2>3 DEF WellFormed, Dispatching
    <3> QED
      BY <1>0, <1>13, <2>1, <2>3, <3>1, MoveDisturbsNobody
      DEF ReplayDone, RecoverSucceeds, StepOf, Undisturbed
  <2> QED
    BY <2>2, <2>3
<1>14. ASSUME NEW t \in Threads,
              \/ SplitLimitReached(t) \/ SendRefused(t) \/ Accepted(t) \/ Rejected(t)
              \/ Failed(t)
       PROVE  StepOf(t)
  <2>1. pc[t] \in Dispatching /\ job[t].ends # <<>>
    BY <1>5, <1>14
    DEF SplitLimitReached, SendRefused, Accepted, Rejected, Failed
  <2> QED
    BY <1>4, <1>14, <2>1, ResolvingStep
    DEF SplitLimitReached, SendRefused, BudgetLeft, RequeueAtHead, Accepted, Rejected, Failed
<1>15. ASSUME NEW t \in Threads, SendStarts(t) PROVE StepOf(t)
  <2>1. /\ pc[t] = "deliver" /\ Move(t, "post")
        /\ job' = Spent(job, t) /\ job[t].budget > 0
        /\ WellFormed(job[t], pc[t])
    BY <1>0, <1>15 DEF SendStarts, BudgetLeft, JobsWellFormed
  <2>2. /\ \A u \in Threads \ {t} : job'[u] = job[u]
        /\ job'[t].batch = job[t].batch /\ job'[t].done = job[t].done
        /\ job'[t].ends = job[t].ends
    BY <1>0, <2>1, SpentTypes DEF TypeOK
  <2>3. WellFormed(job'[t], "post")
    BY <2>1, <2>2 DEF WellFormed, Dispatching
  <2> QED
    BY <1>0, <1>15, <2>1, <2>2, <2>3, MoveDisturbsNobody DEF StepOf, Undisturbed
<1>16. ASSUME NEW t \in Threads, BatchRejected(t) PROVE StepOf(t)
  <2> DEFINE mid == job[t].done + SegmentLen(t) \div 2
  <2>1. /\ pc[t] = "post" /\ SegmentLen(t) > 1 /\ Move(t, "deliver")
        /\ job' = [job EXCEPT ![t] = [job[t] EXCEPT !.ends = <<mid>> \o job[t].ends]]
        /\ WellFormed(job[t], "post") /\ job[t] \in Jobs
    BY <1>0, <1>16 DEF BatchRejected, JobsWellFormed, TypeOK
  <2>2. job'[t] = [job[t] EXCEPT !.ends = <<mid>> \o job[t].ends]
        /\ \A u \in Threads \ {t} : job'[u] = job[u]
    BY <1>0, <2>1 DEF TypeOK
  <2>3. job[t].done \in Nat /\ Head(job[t].ends) \in Nat
    <3>1. job[t].ends # <<>>
      BY <1>5, <2>1
    <3> QED
      BY <1>0, <2>1, <3>1, HeadSegment DEF Jobs
  <2>4. mid \in Nat /\ job[t].done < mid /\ mid < Head(job[t].ends)
    <3>1. /\ SegmentLen(t) \in Nat /\ SegmentLen(t) > 1
          /\ job[t].done + SegmentLen(t) = Head(job[t].ends)
      BY <2>1, <2>3 DEF SegmentLen
    <3>2. \A m \in Nat : m > 1 => m \div 2 \in Nat /\ 0 < m \div 2 /\ m \div 2 < m
      OBVIOUS
    <3> QED
      BY <2>3, <3>1, <3>2
  <2>5. WellFormed(job'[t], "deliver")
    BY <2>1, <2>2, <2>4, SplitJob
  <2> QED
    BY <1>0, <2>1, <2>2, <2>5, MoveDisturbsNobody DEF StepOf, Undisturbed
<1>17. ASSUME NEW t \in Threads, Finish(t) PROVE StepOf(t)
  <2>1. PICK place \in {"check", "take", "drain", "loop"} : MoveAndNotify(t, place)
    BY <1>17 DEF Finish
  <2>2. WellFormed(NoJob, place)
    BY DEF WellFormed, NoJob, Dispatching
  <2>3. job'[t] = NoJob /\ \A u \in Threads \ {t} : job'[u] = job[u]
    BY <1>0, <1>17 DEF Finish, TypeOK
  <2> QED
    BY <1>0, <2>1, <2>2, <2>3, MoveDisturbsNobody DEF StepOf, Undisturbed
<1>18. ASSUME WorkerStep PROVE StepOf(Worker)
  BY <1>1, <1>18, IdleStep, PoppingStep
  DEF WorkerStep, WorkerTakes, WorkerSkipsTick, WorkerWaits, WorkerStops, WorkerBacksOff,
      WorkerExits, Dispatching, Threads
<1>19. ASSUME Tick PROVE StepOf(Worker)
  <2>1. UNCHANGED job /\ Worker \in Threads
        /\ pc' = [pc EXCEPT ![Worker] = IF pc[Worker] = "take_wait" THEN "take" ELSE pc[Worker]]
    BY <1>0, <1>19 DEF Tick, Threads
  <2>2. CASE pc[Worker] = "take_wait"
    <3>1. pc[Worker] \notin Dispatching /\ Move(Worker, "take")
      BY <2>1, <2>2 DEF Dispatching, Move
    <3> QED
      BY <2>1, <3>1, IdleStep
  <2>3. CASE pc[Worker] # "take_wait"
    BY <1>0, <1>1, <2>1, <2>3 DEF TypeOK
  <2> QED
    BY <2>2, <2>3
<1>20. ASSUME NEW t \in Threads, ReplayAnswered(t) PROVE StepOf(t)
  BY <1>1, <1>20 DEF ReplayAnswered
<1>21. CASE UNCHANGED vars
  BY <1>1, <1>21 DEF vars, Threads
<1> QED
  BY <1>6, <1>7, <1>8, <1>9, <1>10, <1>11, <1>12, <1>13, <1>14, <1>15, <1>16, <1>17, <1>18,
     <1>19, <1>20, <1>21
  DEF Next, FlushStep, ShutdownStep, Replay, Deliver, Threads

\* Every step keeps every batch well formed.
LEMMA JobsStep == IInv /\ [Next]_vars => JobsWellFormed'
<1> SUFFICES ASSUME IInv, [Next]_vars PROVE JobsWellFormed'
  OBVIOUS
<1>1. PICK t \in Threads : StepOf(t)
  BY EveryStepIsOfAThread
<1>2. ASSUME NEW u \in Threads \ {t} PROVE WellFormed(job'[u], pc'[u])
  <2>1. job'[u] = job[u] /\ WellFormed(job[u], pc[u]) /\ job[u] \in Jobs
    BY <1>1 DEF StepOf, Undisturbed, IInv, JobsWellFormed, TypeOK
  <2>2. CASE pc'[u] = pc[u]
    BY <2>1, <2>2
  <2>3. CASE pc[u] \notin Dispatching /\ pc'[u] \notin Dispatching
    <3>1. job[u].batch = <<>> /\ pc'[u] \notin {"deliver", "post"}
      BY <2>1, <2>3 DEF WellFormed, Dispatching
    <3> QED
      BY <2>1, <3>1, EmptyJob
  <2> QED
    BY <1>1, <2>2, <2>3 DEF StepOf, Undisturbed
<1> QED
  BY <1>1, <1>2 DEF StepOf, JobsWellFormed

\* A batch stays as it is while it is on the wire.
LEMMA PostedJobStays ==
  ASSUME IInv, [Next]_vars, NEW u \in Threads, pc'[u] = "post", ~SendStarts(u)
  PROVE  pc[u] = "post" /\ job'[u] = job[u]
<1>1. PICK t \in Threads : StepOf(t)
  BY EveryStepIsOfAThread
<1>2. job'[u] = job[u]
  BY <1>1 DEF StepOf, Undisturbed
<1>3. TypeOK
  BY DEF IInv
<1>4. pc[u] = "post"
  <2>1. CASE NoneLocks
    BY <2>1 DEF NoneLocks
  <2>2. ASSUME NEW v \in Threads, ReplayStarts(v) \/ SendStarts(v) PROVE pc[u] = "post"
    BY <1>3, <2>2 DEF ReplayStarts, SendStarts, Move, TypeOK
  <2> QED
    BY <1>3, <2>1, <2>2, LocksOnlyToDeliver
<1> QED
  BY <1>2, <1>4

-----------------------------------------------------------------------------
(* The record of a batch on the wire.                                      *)

\* Where no log is kept, nothing is written to one.
LEMMA DisabledLogStaysEmpty ==
  ASSUME IInv, [Next]_vars, ~enabled
  PROVE  wal' = <<>>
<1>1. wal = <<>> /\ OneDelivery
  BY DEF IInv, WriteAhead
<1>2. ASSUME NEW t \in Threads, ReplayStarts(t) \/ ReplayAnswered(t) \/ ReplayFails(t)
      PROVE  wal' = <<>>
  <2>1. ReplayAnswered(t) => pc[t] = "replay" /\ todo > 0
    BY DEF ReplayAnswered
  <2>2. pc[t] = "replay" => todo <= 0
    BY <1>1 DEF OneDelivery
  <2>3. todo \in Nat
    BY DEF IInv, TypeOK
  <2>4. ~ReplayAnswered(t)
    BY <2>1, <2>2, <2>3
  <2> QED
    BY <1>1, <1>2, <2>4 DEF ReplayStarts, ReplayFails
<1>3. ASSUME NEW t \in Threads, wal' = WalAcknowledged(t) PROVE wal' = <<>>
  BY <1>1, <1>3 DEF WalAcknowledged
<1> QED
  BY <1>1, <1>2, <1>3, LogSteps DEF log

\* Every step keeps the record of a batch on the wire in the log.
LEMMA WriteAheadStep == IInv /\ [Next]_vars => WriteAhead'
<1> SUFFICES ASSUME IInv, [Next]_vars, enabled, NEW u \in Threads, pc'[u] = "post"
             PROVE  \E i \in DOMAIN wal' : wal'[i] = Segment(u)'
  BY EnabledStays, DisabledLogStaysEmpty DEF WriteAhead
<1>0. TypeOK /\ OneDelivery /\ WriteAhead /\ wal \in Seq(Seq(Event))
  BY DEF IInv, TypeOK
<1>1. CASE SendStarts(u)
  <2>1. /\ wal' = Append(wal, Segment(u))
        /\ job' = Spent(job, u) /\ job[u].budget > 0
        /\ WellFormed(job[u], "deliver")
    BY <1>0, <1>1 DEF SendStarts, BudgetLeft, IInv, JobsWellFormed
  <2>2. /\ job'[u].batch = job[u].batch /\ job'[u].done = job[u].done
        /\ job'[u].ends = job[u].ends
    BY <1>0, <2>1, SpentTypes DEF TypeOK
  <2>3. Segment(u)' = Segment(u)
    BY <2>2 DEF Segment
  <2>4. Len(wal) + 1 \in DOMAIN wal' /\ wal'[Len(wal) + 1] = Segment(u)
    <3>1. Segment(u) \in Seq(Event)
      BY <1>0, <1>1, <2>1, HeadSegment DEF WellFormed, SendStarts, IInv, JobsWellFormed
    <3> QED
      BY <1>0, <2>1, <3>1
  <2> QED
    BY <2>3, <2>4
<1>2. CASE ~SendStarts(u)
  <2>1. pc[u] = "post" /\ job'[u] = job[u]
    BY <1>2, PostedJobStays
  <2>2. Segment(u)' = Segment(u)
    BY <2>1 DEF Segment
  <2>3. PICK i \in DOMAIN wal : wal[i] = Segment(u)
    BY <1>0, <2>1 DEF WriteAhead
  <2>4. ASSUME NEW t \in Threads, pc[t] \in {"replay", "post"} PROVE t = u
    BY <1>0, <2>1, <2>4 DEF OneDelivery
  <2>5. wal' = wal \/ \E r \in Seq(Event) : wal' = Append(wal, r)
    <3>1. ASSUME NEW t \in Threads, ReplayStarts(t) \/ ReplayFails(t) PROVE wal' = wal
      BY <3>1 DEF ReplayStarts, ReplayFails
    <3>2. ASSUME NEW t \in Threads, ReplayAnswered(t) PROVE FALSE
      BY <2>1, <2>4, <3>2 DEF ReplayAnswered
    <3>3. ASSUME NEW t \in Threads, pc[t] = "post", pc'[t] # "post" PROVE FALSE
      BY <2>4, <3>3
    <3> QED
      BY <3>1, <3>2, <3>3, LogSteps DEF log
  <2>6. i \in DOMAIN wal' /\ wal'[i] = wal[i]
    <3>1. CASE wal' = wal
      BY <3>1
    <3>2. ASSUME NEW r \in Seq(Event), wal' = Append(wal, r)
          PROVE  i \in DOMAIN wal' /\ wal'[i] = wal[i]
      BY <1>0, <3>2
    <3> QED
      BY <2>5, <3>1, <3>2
  <2> QED
    BY <2>2, <2>3, <2>6
<1> QED
  BY <1>1, <1>2

-----------------------------------------------------------------------------
(* The queue of a manager whose bounded shutdown is over.                  *)

Hands(c) == taken[c] # <<>> <=> pc[c] \in {"persist", "confirm"}
InHand(p) == p \in {"persist", "confirm", "unqueue"}

\* No shutdown takes events in hand, gets rid of them, or goes past "unqueue".
KeepsHands == \A c \in Callers : Hands(c)' /\ (pc[c] = "unqueue" => pc'[c] = "unqueue")

\* A thread outside the tail of a shutdown moves without disturbing any.
LEMMA MoveKeepsHands ==
  ASSUME IInv, UNCHANGED taken, NEW t \in Threads, ~InHand(pc[t]),
         NEW place, place \notin {"persist", "confirm"},
         Move(t, place) \/ MoveAndNotify(t, place)
  PROVE  KeepsHands
<1>0. TypeOK /\ NothingStranded
  BY DEF IInv
<1>1. pc \in [Threads -> Places] /\ Notified(pc) \in [Threads -> Places]
  BY <1>0, NotifiedTypes DEF TypeOK
<1>2. \A u \in Threads : InHand(pc[u]) \/ InHand(Notified(pc)[u]) => Notified(pc)[u] = pc[u]
  BY DEF Notified, Awake, InHand
<1>3. pc' = [pc EXCEPT ![t] = place] \/ pc' = [Notified(pc) EXCEPT ![t] = place]
  BY DEF Move, MoveAndNotify
<1>4. \A u \in Threads \ {t} : InHand(pc[u]) \/ InHand(pc'[u]) => pc'[u] = pc[u]
  BY <1>1, <1>2, <1>3
<1>5. pc'[t] = place
  BY <1>1, <1>3
<1> QED
  BY <1>0, <1>4, <1>5 DEF KeepsHands, Hands, InHand, NothingStranded, Threads

\* Only the tail of a shutdown handles the events it took off the queue.
LEMMA HandsSteps ==
  ASSUME IInv, [Next]_vars
  PROVE  \/ KeepsHands
         \/ \E c \in Callers :
              ShutdownUnqueues(c) \/ ShutdownLosesRest(c) \/ ShutdownPersists(c)
              \/ ShutdownConfirms(c)
<1> USE DEF flags, counters, log, memory, history, control
<1>0. TypeOK /\ NothingStranded
  BY DEF IInv
<1>1. ASSUME UNCHANGED <<pc, taken>> PROVE KeepsHands
  BY <1>0, <1>1 DEF KeepsHands, Hands, NothingStranded
<1>2. ASSUME NEW c \in Threads, ~InHand(pc[c]), UNCHANGED taken, NEW r, FlushReturns(c, r)
      PROVE  KeepsHands
  BY <1>2, MoveKeepsHands DEF FlushReturns
<1>3. ASSUME NEW t \in Threads, ~InHand(pc[t]), UNCHANGED taken,
             RequeueAtHead(t) \/ DropSegment(t)
      PROVE  KeepsHands
  BY <1>3, MoveKeepsHands, AfterSegmentPlace DEF RequeueAtHead, DropSegment
<1>4. ASSUME NEW c \in Callers,
             \/ Add(c) \/ FlushCalled(c) \/ ShutdownBegins(c) \/ FlushStep(c)
             \/ ShutdownJoins(c) \/ ShutdownMarksFinite(c)
      PROVE  KeepsHands
  <2>1. UNCHANGED taken /\ c \in Threads /\ ~InHand(pc[c])
    BY <1>4
    DEF Add, AddRefused, AddOverflows, AddAccepted, FlushCalled, ShutdownBegins, CanAdd,
        CanCall, FlushStep, FlushStarts, FlushDone, FlushTakes, InflightDrained,
        WaitTimesOut, InflightWaits, ShutdownJoins, ShutdownMarksFinite, InHand, Threads
  <2> QED
    BY <1>1, <1>2, <1>4, <2>1, MoveKeepsHands
    DEF Add, AddRefused, AddOverflows, AddAccepted, FlushCalled, ShutdownBegins, FlushStep,
        FlushStarts, FlushDone, FlushTakes, InflightDrained, WaitTimesOut, InflightWaits,
        ShutdownJoins, ShutdownMarksFinite
<1>5. ASSUME NEW c \in Callers, EnsureWorker(c) PROVE KeepsHands
  <2>1. \A d \in Callers : pc'[d] = pc[d] \/ (d = c /\ pc'[d] \in {"idle", "loop"})
    BY <1>0, <1>5, ManagerAssumption DEF EnsureWorker, Move, TypeOK, Threads
  <2>2. pc[c] = "ensure" /\ UNCHANGED taken
    BY <1>5 DEF EnsureWorker
  <2> QED
    BY <1>0, <2>1, <2>2 DEF KeepsHands, Hands, NothingStranded
<1>6. ASSUME NEW c \in Callers, DeadlinePasses(c) PROVE KeepsHands
  <2>1. /\ UNCHANGED taken /\ pc' = [pc EXCEPT ![c] = Awake(pc[c])]
        /\ pc \in [Threads -> Places]
    BY <1>0, <1>6 DEF DeadlinePasses, TypeOK
  <2>2. \A d \in Callers :
          pc'[d] = pc[d] \/ (~InHand(pc[d]) /\ ~InHand(pc'[d]))
    BY <2>1 DEF Awake, InHand, Threads
  <2> QED
    BY <1>0, <2>1, <2>2 DEF KeepsHands, Hands, NothingStranded, InHand
<1>7. ASSUME NEW t \in Threads, Replay(t) \/ Deliver(t) PROVE KeepsHands
  <2>1. UNCHANGED taken /\ ~InHand(pc[t])
    BY <1>7
    DEF Replay, ReplayStarts, ReplayAnswered, ReplayFails, ReplayDone, Deliver,
        SplitLimitReached, SendRefused, SendStarts, Accepted, BatchRejected, Rejected, Failed,
        Finish, InHand
  <2>2. CASE Replay(t)
    BY <1>1, <1>2, <1>3, <2>1, <2>2, MoveKeepsHands
    DEF Replay, ReplayStarts, ReplayAnswered, ReplayFails, ReplayDone, RecoverFails,
        RecoverSucceeds
  <2>3. CASE Deliver(t)
    BY <1>3, <2>1, <2>3, MoveKeepsHands, AfterSegmentPlace
    DEF Deliver, SplitLimitReached, SendRefused, SendStarts, Accepted, BatchRejected,
        Rejected, Failed, Finish
  <2> QED
    BY <1>7, <2>2, <2>3
<1>8. ASSUME WorkerStep PROVE KeepsHands
  BY <1>1, <1>8, MoveKeepsHands
  DEF WorkerStep, WorkerTakes, WorkerSkipsTick, WorkerWaits, WorkerStops, WorkerBacksOff,
      WorkerExits, InHand, Threads
<1>9. ASSUME Tick PROVE KeepsHands
  <2>1. \A c \in Callers : pc'[c] = pc[c]
    BY <1>0, <1>9, ManagerAssumption DEF Tick, TypeOK, Threads
  <2> QED
    BY <1>0, <1>9, <2>1 DEF Tick, KeepsHands, Hands, NothingStranded
<1>10. CASE UNCHANGED vars
  BY <1>1, <1>10 DEF vars
<1> QED
  BY <1>4, <1>5, <1>6, <1>7, <1>8, <1>9, <1>10 DEF Next, ShutdownStep

\* No flag or queue that a finished shutdown left is undone, but by a later flush().
LEMMA QueueSteps ==
  ASSUME IInv, [Next]_vars
  PROVE  /\ closed => closed'
         /\ finite' => closed'
         /\ finite' /\ queue' # <<>> =>
              \/ finite /\ queue # <<>>
              \/ \E c \in Callers : ShutdownMarksFinite(c)
<1> USE DEF flags, counters, log, memory, history, control
<1> DEFINE Kept == /\ closed => closed'
                   /\ finite' => closed'
                   /\ finite' /\ queue' # <<>> => finite /\ queue # <<>>
<1>0. TypeOK /\ NothingStranded /\ queue \in Seq(Event)
  BY DEF IInv, TypeOK
<1>1. UNCHANGED <<closed, finite, queue>> => Kept
  BY <1>0 DEF NothingStranded
<1>2. ASSUME NEW t, RequeueAtHead(t), UNCHANGED <<closed, finite>> PROVE Kept
  BY <1>0, <1>2 DEF RequeueAtHead, NothingStranded
<1>3. ASSUME NEW t, Pop(t, AtMostFlushSize), UNCHANGED <<closed, finite>>, queue # <<>> PROVE Kept
  BY <1>0, <1>3 DEF Pop, NothingStranded
<1>4. ASSUME NEW c \in Callers,
             \/ Add(c) \/ FlushCalled(c) \/ ShutdownBegins(c) \/ EnsureWorker(c)
             \/ FlushStep(c) \/ DeadlinePasses(c)
      PROVE  Kept
  <2>1. CASE Add(c)
    BY <1>0, <1>1, <2>1 DEF Add, AddRefused, AddOverflows, AddAccepted, NothingStranded
  <2>2. CASE ShutdownBegins(c)
    BY <1>0, <2>2 DEF ShutdownBegins, NothingStranded
  <2>3. CASE FlushStarts(c)
    BY <2>3 DEF FlushStarts
  <2>4. CASE FlushTakes(c)
    BY <1>3, <2>4 DEF FlushTakes
  <2>5. CASE \/ FlushCalled(c) \/ EnsureWorker(c) \/ FlushDone(c) \/ InflightDrained(c)
             \/ WaitTimesOut(c) \/ InflightWaits(c) \/ DeadlinePasses(c)
    BY <1>1, <2>5
    DEF FlushCalled, EnsureWorker, FlushDone, InflightDrained, WaitTimesOut, InflightWaits,
        DeadlinePasses
  <2> QED
    BY <1>4, <2>1, <2>2, <2>3, <2>4, <2>5 DEF FlushStep
<1>5. ASSUME NEW c \in Callers, ShutdownMarksFinite(c) PROVE closed /\ closed'
  BY <1>0, <1>5 DEF ShutdownMarksFinite, NothingStranded
<1>6. ASSUME NEW c \in Callers,
             \/ ShutdownJoins(c) \/ ShutdownUnqueues(c) \/ ShutdownLosesRest(c)
             \/ ShutdownPersists(c) \/ ShutdownConfirms(c)
      PROVE  Kept
  BY <1>0, <1>1, <1>6
  DEF ShutdownJoins, ShutdownUnqueues, ShutdownLosesRest, ShutdownPersists,
      ShutdownConfirms, LosesTaken, NothingStranded
<1>7. ASSUME NEW t \in Threads, Replay(t) PROVE Kept
  BY <1>1, <1>2, <1>7
  DEF Replay, ReplayStarts, ReplayAnswered, ReplayFails, ReplayDone, RecoverFails,
      RecoverSucceeds
<1>8. ASSUME NEW t \in Threads, Deliver(t) PROVE Kept
  BY <1>1, <1>2, <1>8
  DEF Deliver, SplitLimitReached, SendRefused, SendStarts, Accepted, BatchRejected, Rejected,
      Failed, Finish
<1>9. ASSUME WorkerStep \/ Tick PROVE Kept
  BY <1>1, <1>3, <1>9
  DEF WorkerStep, WorkerTakes, WorkerSkipsTick, WorkerWaits, WorkerStops, WorkerBacksOff,
      WorkerExits, Tick
<1>10. CASE UNCHANGED vars
  BY <1>1, <1>10 DEF vars
<1> QED
  BY <1>4, <1>5, <1>6, <1>7, <1>8, <1>9, <1>10 DEF Next, ShutdownStep

\* A thread comes to wait for the worker, or past it, only in a shutdown.
WaitersClosed == \A c \in Callers : pc'[c] \in {"join", "mark"} => closed'

\* Every step keeps the manager closed for those who wait for the worker.
LEMMA WaitersSteps ==
  ASSUME IInv, [Next]_vars
  PROVE  WaitersClosed
<1> USE DEF flags, counters, log, memory, history, control
<1>0. TypeOK /\ NothingStranded /\ (closed => closed')
  BY QueueSteps DEF IInv
<1>1. ASSUME NEW t, NEW place, Move(t, place) \/ MoveAndNotify(t, place),
             place \notin {"join", "mark"} \/ closed'
      PROVE  WaitersClosed
  <2>1. pc \in [Threads -> Places] /\ Notified(pc) \in [Threads -> Places]
    BY <1>0, NotifiedTypes DEF TypeOK
  <2>2. \A u \in Threads : Notified(pc)[u] \in {"join", "mark"} => Notified(pc)[u] = pc[u]
    BY DEF Notified, Awake
  <2>3. pc' = [pc EXCEPT ![t] = place] \/ pc' = [Notified(pc) EXCEPT ![t] = place]
    BY <1>1 DEF Move, MoveAndNotify
  <2>4. \A u \in Threads : pc'[u] = place \/ pc'[u] = pc[u] \/ pc'[u] \notin {"join", "mark"}
    BY <2>1, <2>2, <2>3
  <2> QED
    BY <1>0, <1>1, <2>4 DEF WaitersClosed, NothingStranded, Threads
<1>2. UNCHANGED pc => WaitersClosed
  BY <1>0 DEF WaitersClosed, NothingStranded
<1>3. ASSUME NEW c, NEW r, FlushReturns(c, r) \/ ShutdownReturns(c) PROVE WaitersClosed
  BY <1>1, <1>3 DEF FlushReturns, ShutdownReturns
<1>4. ASSUME NEW t, RequeueAtHead(t) \/ DropSegment(t) PROVE WaitersClosed
  BY <1>1, <1>4, AfterSegmentPlace DEF RequeueAtHead, DropSegment
<1>5. ASSUME NEW c \in Callers, Add(c) \/ FlushCalled(c) \/ ShutdownBegins(c) PROVE WaitersClosed
  BY <1>1, <1>2, <1>5
  DEF Add, AddRefused, AddOverflows, AddAccepted, FlushCalled, ShutdownBegins
<1>6. ASSUME NEW c \in Callers, EnsureWorker(c) PROVE WaitersClosed
  <2>1. \A d \in Callers : pc'[d] = pc[d] \/ pc'[d] \in {"idle", "loop"}
    BY <1>0, <1>6, ManagerAssumption DEF EnsureWorker, Move, TypeOK, Threads
  <2> QED
    BY <1>0, <2>1 DEF WaitersClosed, NothingStranded
<1>7. ASSUME NEW c \in Callers, FlushStep(c) PROVE WaitersClosed
  BY <1>1, <1>3, <1>7
  DEF FlushStep, FlushStarts, FlushDone, FlushTakes, InflightDrained, WaitTimesOut,
      InflightWaits
<1>8. ASSUME NEW c \in Callers, ShutdownJoins(c) PROVE WaitersClosed
  <2>1. closed
    BY <1>0, <1>8 DEF ShutdownJoins, NothingStranded
  <2> QED
    BY <1>0, <1>1, <1>8, <2>1 DEF ShutdownJoins
<1>9. ASSUME NEW c \in Callers,
             \/ ShutdownMarksFinite(c) \/ ShutdownUnqueues(c) \/ ShutdownLosesRest(c)
             \/ ShutdownPersists(c) \/ ShutdownConfirms(c)
      PROVE  WaitersClosed
  BY <1>1, <1>2, <1>3, <1>9
  DEF ShutdownMarksFinite, ShutdownUnqueues, ShutdownLosesRest, ShutdownPersists,
      ShutdownConfirms, LosesTaken
<1>10. ASSUME NEW c \in Callers, DeadlinePasses(c) PROVE WaitersClosed
  <2>1. \A d \in Callers : pc'[d] = pc[d] \/ pc'[d] \notin {"join", "mark"}
    BY <1>0, <1>10 DEF DeadlinePasses, Awake, TypeOK, Threads
  <2> QED
    BY <1>0, <2>1 DEF WaitersClosed, NothingStranded
<1>11. ASSUME NEW t \in Threads, Replay(t) PROVE WaitersClosed
  BY <1>1, <1>2, <1>3, <1>4, <1>11
  DEF Replay, ReplayStarts, ReplayAnswered, ReplayFails, ReplayDone, RecoverFails,
      RecoverSucceeds
<1>12. ASSUME NEW t \in Threads, Deliver(t) PROVE WaitersClosed
  BY <1>1, <1>4, <1>12, AfterSegmentPlace
  DEF Deliver, SplitLimitReached, SendRefused, SendStarts, Accepted, BatchRejected, Rejected,
      Failed, Finish
<1>13. ASSUME WorkerStep PROVE WaitersClosed
  BY <1>1, <1>2, <1>13
  DEF WorkerStep, WorkerTakes, WorkerSkipsTick, WorkerWaits, WorkerStops, WorkerBacksOff,
      WorkerExits
<1>14. ASSUME Tick PROVE WaitersClosed
  <2>1. \A d \in Callers : pc'[d] = pc[d]
    BY <1>0, <1>14, ManagerAssumption DEF Tick, TypeOK, Threads
  <2> QED
    BY <1>0, <2>1 DEF WaitersClosed, NothingStranded
<1>15. CASE UNCHANGED vars
  BY <1>2, <1>15 DEF vars
<1> QED
  BY <1>5, <1>6, <1>7, <1>8, <1>9, <1>10, <1>11, <1>12, <1>13, <1>14, <1>15
  DEF Next, ShutdownStep

\* Every step keeps the queue of a shut-down manager empty.
LEMMA NothingStrandedStep == IInv /\ [Next]_vars => NothingStranded'
<1> SUFFICES ASSUME IInv, [Next]_vars PROVE NothingStranded'
  OBVIOUS
<1> USE DEF flags, counters, log, memory, history, control
<1>0. TypeOK /\ NothingStranded
  BY DEF IInv
<1>1. \A c \in Callers : pc'[c] \in {"join", "mark"} => closed'
  BY WaitersSteps DEF WaitersClosed
<1>2. CASE KeepsHands
  <2>1. ASSUME NEW c \in Callers, ShutdownMarksFinite(c) PROVE pc'[c] = "unqueue"
    BY <1>0, <2>1 DEF ShutdownMarksFinite, Move, TypeOK, Threads
  <2>2. finite' /\ queue' # <<>> => \E c \in Callers : pc'[c] = "unqueue"
    BY <1>0, <1>2, <2>1, QueueSteps DEF KeepsHands, NothingStranded
  <2> QED
    BY <1>1, <1>2, <2>2, QueueSteps DEF KeepsHands, Hands, NothingStranded
<1>3. ASSUME NEW c \in Callers, ShutdownUnqueues(c) PROVE NothingStranded'
  <2>1. queue' = <<>> /\ taken' = [taken EXCEPT ![c] = queue] /\ UNCHANGED flags
    BY <1>3 DEF ShutdownUnqueues
  <2>2. /\ queue = <<>> => Move(c, "idle")
        /\ queue # <<>> => Move(c, "persist")
    BY <1>3 DEF ShutdownUnqueues, ShutdownReturns
  <2>3. /\ \A d \in Callers \ {c} : pc'[d] = pc[d] /\ taken'[d] = taken[d]
        /\ taken'[c] = queue
        /\ queue = <<>> => pc'[c] = "idle"
        /\ queue # <<>> => pc'[c] \in {"persist"}
    BY <1>0, <2>1, <2>2 DEF Move, TypeOK, Threads
  <2> QED
    BY <1>0, <1>1, <2>1, <2>3 DEF NothingStranded
<1>4. ASSUME NEW c \in Callers,
             ShutdownLosesRest(c) \/ ShutdownPersists(c) \/ ShutdownConfirms(c)
      PROVE  NothingStranded'
  <2>1. pc[c] \in {"persist", "confirm"} /\ taken[c] \in Seq(Event) /\ taken[c] # <<>>
    BY <1>0, <1>4
    DEF ShutdownLosesRest, ShutdownPersists, ShutdownConfirms, LosesTaken, NothingStranded,
        TypeOK
  <2>2. \/ taken' = [taken EXCEPT ![c] = <<>>] /\ Move(c, "idle")
        \/ taken' = [taken EXCEPT ![c] = Tail(taken[c])] /\ Len(taken[c]) = 1 /\ Move(c, "idle")
        \/ /\ taken' = [taken EXCEPT ![c] = Tail(taken[c])]
           /\ Len(taken[c]) # 1 /\ Move(c, "persist")
        \/ UNCHANGED taken /\ Move(c, "confirm")
    BY <1>4
    DEF ShutdownLosesRest, ShutdownPersists, ShutdownConfirms, LosesTaken, ShutdownReturns
  <2>3. Tail(taken[c]) \in Seq(Event) /\ Len(Tail(taken[c])) = Len(taken[c]) - 1
        /\ Len(taken[c]) \in Nat
    BY <2>1
  <2>4. Tail(taken[c]) = <<>> <=> Len(taken[c]) = 1
    <3>1. \A s \in Seq(Event) : s = <<>> <=> Len(s) = 0
      OBVIOUS
    <3>2. Tail(taken[c]) = <<>> <=> Len(Tail(taken[c])) = 0
      BY <2>3, <3>1, Zenon
    <3> QED
      BY <2>3, <3>2
  <2>5. /\ \A d \in Callers \ {c} : pc'[d] = pc[d] /\ taken'[d] = taken[d]
        /\ \/ pc'[c] = "idle" /\ taken'[c] = <<>>
           \/ pc'[c] \in {"persist", "confirm"} /\ taken'[c] # <<>>
    <3>1. /\ pc \in [Threads -> Places] /\ taken \in [Callers -> Seq(Event)]
          /\ c \in Threads /\ Callers \subseteq Threads
      BY <1>0 DEF TypeOK, Threads
    <3> QED
      BY <2>1, <2>2, <2>4, <3>1 DEF Move
  <2>6. UNCHANGED <<queue, finite, closed>>
    BY <1>4 DEF ShutdownLosesRest, ShutdownPersists, ShutdownConfirms, LosesTaken
  <2> QED
    BY <1>0, <1>1, <2>1, <2>5, <2>6 DEF NothingStranded
<1> QED
  BY <1>2, <1>3, <1>4, HandsSteps

-----------------------------------------------------------------------------
(* The theorems.                                                           *)

\* The manager starts in the invariant.
LEMMA IInvInit == Init => IInv
<1> SUFFICES ASSUME Init PROVE IInv
  OBVIOUS
<1>1. NoJob \in Jobs /\ NoCall \in CallStates
  BY ManagerAssumption DEF NoJob, Jobs, NoCall, CallStates
<1>2. TypeOK
  <2>1. 0 \in 0 .. MaxEvents
    BY ManagerAssumption
  <2> QED
    <3>1. /\ <<>> \in Seq(Event) /\ <<>> \in Seq(Seq(Event)) /\ 0 \in Nat /\ 0 \in Int
          /\ Durable \in BOOLEAN
      BY ManagerAssumption
    <3>2. /\ pc \in [Threads -> Places] /\ fate \in [Event -> Fates]
          /\ job \in [Threads -> Jobs] /\ call \in [Threads -> CallStates]
      BY <1>1 DEF Init, Places, Fates
    <3> QED
      BY <2>1, <3>1, <3>2 DEF Init, TypeOK
<1>3. \A t \in Threads : pc[t] \in {"off", "idle"} /\ job[t] = NoJob
  BY DEF Init
<1>4. JobsWellFormed
  BY <1>3 DEF JobsWellFormed, WellFormed, NoJob, Dispatching
<1>5. OneDelivery /\ WriteAhead
  BY <1>3 DEF Init, OneDelivery, WriteAhead
<1>6. NothingStranded
  BY <1>3 DEF Init, NothingStranded, Threads
<1> QED
  BY <1>2, <1>4, <1>5, <1>6 DEF IInv

\* The inductive invariant holds in every reachable state, whatever the number of
\* threads and events, the limits, the answers of the endpoint and of the disk.
THEOREM InductiveInvariant == Spec => []IInv
<1>1. IInv /\ [Next]_vars => IInv'
  BY TypeStep, JobsStep, OneDeliveryStep, WriteAheadStep, NothingStrandedStep DEF IInv
<1> QED
  BY <1>1, IInvInit, PTL DEF Spec

\* The state of the dispatcher (batch.py:88-100) is always of its types: no count
\* of delivered or lost events goes wrong by a non-number, no place is unknown.
THEOREM TypeCorrect == Spec => []TypeOK
<1>1. IInv => TypeOK
  BY DEF IInv
<1> QED
  BY <1>1, InductiveInvariant, PTL

\* The recursion of _deliver (batch.py:412-449) over the halves of a rejected batch
\* always has the rest of its batch before it, each event once, in order, and ends
\* only at the end of the batch.
THEOREM BatchesWellFormed == Spec => []JobsWellFormed
<1>1. IInv => JobsWellFormed
  BY DEF IInv
<1> QED
  BY <1>1, InductiveInvariant, PTL

\* The delivery lock (transport.py:111, 140) admits one replay or one request, and
\* the snapshot a replay works through stays a prefix of the log meanwhile.
THEOREM OneDeliveryAtATime == Spec => []OneDelivery
<1>1. IInv => OneDelivery
  BY DEF IInv
<1> QED
  BY <1>1, InductiveInvariant, PTL

\* A durable batch on the wire has its record in the log (transport.py:114),
\* whatever replays, acknowledgements and shutdowns other threads execute.
THEOREM LogWrittenAhead == Spec => []WriteAhead
<1>1. IInv => WriteAhead
  BY DEF IInv
<1> QED
  BY <1>1, InductiveInvariant, PTL

\* After a bounded shutdown no event stays in a queue that no thread will look
\* at again (batch.py:380-410, 487), and no shutdown returns with events in hand.
THEOREM ShutdownStrandsNothing == Spec => []NothingStranded
<1>1. IInv => NothingStranded
  BY DEF IInv
<1> QED
  BY <1>1, InductiveInvariant, PTL

=============================================================================
