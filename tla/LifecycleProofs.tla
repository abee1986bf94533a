-------------------------- MODULE LifecycleProofs --------------------------
(***************************************************************************)
(* What LifecycleProperties says of every reachable state and step, for    *)
(* any number of threads and events: the counters of inline sends are      *)
(* exact and a shutdown never waits for a send that does not exist (IInv); *)
(* no event accepted is lost, none is posted by two calls, pending lies    *)
(* between its bounds, and what flush and shutdown return is true (LInv,   *)
(* which says what each call has in hand and owes, place by place); and    *)
(* so the client implements EventCustody.                                  *)
(***************************************************************************)
EXTENDS LifecycleProperties, FiniteSetTheorems, SequenceTheorems, TLAPS

-----------------------------------------------------------------------------
(* Frames.                                                                 *)

\* A frame has its fields, whatever is in the last four.
Shaped(r) ==
  r = [op |-> r.op, pc |-> r.pc, event |-> r.event, bounded |-> r.bounded, late |-> r.late,
       todo |-> r.todo, owed |-> r.owed, seen |-> r.seen, count |-> r.count]

FramesShaped ==
  /\ frame = [f \in Frames |-> frame[f]]
  /\ \A f \in Frames : Shaped(frame[f])

\* A frame may be what it is, and say so of the sends.
Consistent(f, r) ==
  /\ r.op = "track" => /\ f \in Threads /\ r.pc \in {"lock", "post", "settle"}
                       /\ r.event \in 1 .. tracked
                       /\ r.bounded = FALSE /\ r.late = FALSE
  /\ r.pc \in {"post", "settle"} => r.op = "track"

FramesConsistent == \A f \in Frames : Consistent(f, frame[f])

\* Two sends have two events.
SendsDistinct ==
  \A f, g \in Sends : frame[f].event = frame[g].event => f = g

\* The first invariant: what the counters rest on.
IInv ==
  /\ tracked \in Nat /\ FramesShaped /\ FramesConsistent /\ SendsDistinct
  /\ InflightExact /\ Awaited

-----------------------------------------------------------------------------
(* Changing a field of a frame.                                            *)

LEMMA PcChanged ==
  ASSUME NEW r, Shaped(r), NEW p
  PROVE  LET m == [r EXCEPT !.pc = p] IN
           /\ Shaped(m) /\ m.pc = p /\ m.op = r.op /\ m.event = r.event
           /\ m.bounded = r.bounded /\ m.late = r.late
  BY DEF Shaped

LEMMA TodoChanged ==
  ASSUME NEW r, Shaped(r), NEW rest
  PROVE  LET m == [r EXCEPT !.todo = rest] IN
           Shaped(m) /\ m.pc = r.pc /\ m.op = r.op
  BY DEF Shaped

LEMMA LateChanged ==
  ASSUME NEW r, Shaped(r), NEW p, NEW late
  PROVE  LET m == [r EXCEPT !.late = late, !.pc = p] IN
           Shaped(m) /\ m.pc = p /\ m.op = r.op
<1> DEFINE n == [r EXCEPT !.late = late]
<1>1. Shaped(n) /\ n.op = r.op
  BY DEF Shaped
<1>2. [r EXCEPT !.late = late, !.pc = p] = [n EXCEPT !.pc = p]
  OBVIOUS
<1> HIDE DEF n
<1> QED
  BY <1>1, <1>2, PcChanged

-----------------------------------------------------------------------------
(* What a step may do.                                                     *)

LEMMA FramesFinite ==
  IsFiniteSet(Frames) /\ IsFiniteSet(Sends) /\ Cardinality(Sends) \in Nat
<1>1. IsFiniteSet(Threads \cup {Handler})
  BY LifecycleAssumption, FS_AddElement
<1>2. IsFiniteSet(Frames)
  BY <1>1 DEF Frames
<1>3. Sends \subseteq Frames
  BY DEF Sends
<1> QED
  BY <1>2, <1>3, FS_Subset, FS_CardinalityType

\* One frame becomes r.
LEMMA FrameSet ==
  ASSUME FramesShaped, NEW f \in Frames, NEW r, Shaped(r), frame' = [frame EXCEPT ![f] = r]
  PROVE  /\ FramesShaped'
         /\ \A g \in Frames : frame'[g] = IF g = f THEN r ELSE frame[g]
<1>1. \A g \in Frames : frame'[g] = IF g = f THEN r ELSE frame[g]
  BY DEF FramesShaped
<1>2. frame' = [g \in Frames |-> frame'[g]]
  BY DEF FramesShaped
<1> QED
  BY <1>1, <1>2 DEF FramesShaped

\* Steps of frames that neither begin nor end a send.
LEMMA SameSends ==
  ASSUME IInv, FramesShaped', UNCHANGED <<inflight, ids, forked>>,
         tracked' \in Nat, tracked <= tracked',
         \A g \in Frames :
           /\ Consistent(g, frame'[g])
           /\ (frame'[g].op = "track") = (frame[g].op = "track")
           /\ frame[g].op = "track" => frame'[g].event = frame[g].event
           /\ frame'[g].pc = "drain_wait" => frame[g].pc = "drain_wait" \/ inflight > 0
  PROVE  IInv'
<1> USE DEF IInv
<1>1. Sends' = Sends /\ \A f \in Sends : f \in Frames /\ frame'[f].event = frame[f].event
  BY DEF Sends, Sending
<1>2. FramesConsistent'
  BY DEF FramesConsistent, Consistent
<1>3. SendsDistinct'
  BY <1>1 DEF SendsDistinct
<1>4. InflightExact'
  BY <1>1 DEF InflightExact, Repairable
<1>5. Awaited'
  <2> SUFFICES ASSUME Repairable', NEW t \in Threads, frame'[t].pc = "drain_wait"
               PROVE  Sends' # {}
    BY DEF Awaited
  <2>1. t \in Frames /\ Repairable
    BY DEF Frames, Repairable
  <2>2. CASE frame[t].pc = "drain_wait"
    BY <1>1, <2>1, <2>2 DEF Awaited
  <2>3. CASE inflight > 0
    <3>1. inflight = Cardinality(Sends)
      BY <2>1 DEF InflightExact
    <3>2. Sends = {} => Cardinality(Sends) = 0
      BY FS_EmptySet, Zenon
    <3>3. Sends # {}
      BY <2>3, <3>1, <3>2
    <3> QED
      BY <1>1, <3>3
  <2> QED
    BY <2>1, <2>2, <2>3
<1> QED
  BY <1>2, <1>3, <1>4, <1>5

\* A frame that is not sending does something else.
LEMMA OtherFrame ==
  ASSUME IInv, NEW f \in Frames, NEW r, Shaped(r), frame' = [frame EXCEPT ![f] = r],
         UNCHANGED <<inflight, ids, forked, tracked>>,
         frame[f].op # "track", r.op # "track", r.pc \notin {"post", "settle"},
         r.pc = "drain_wait" => frame[f].pc = "drain_wait" \/ inflight > 0
  PROVE  IInv'
<1>1. FramesShaped' /\ \A g \in Frames : frame'[g] = IF g = f THEN r ELSE frame[g]
  BY FrameSet DEF IInv
<1>2. tracked \in Nat /\ \A g \in Frames : Consistent(g, frame[g])
  BY DEF IInv, FramesConsistent
<1>3. Consistent(f, r)
  BY DEF Consistent
<1>4. \A g \in Frames :
        /\ Consistent(g, frame'[g])
        /\ (frame'[g].op = "track") = (frame[g].op = "track")
        /\ frame[g].op = "track" => frame'[g].event = frame[g].event
        /\ frame'[g].pc = "drain_wait" => frame[g].pc = "drain_wait" \/ inflight > 0
  BY <1>1, <1>2, <1>3
<1>5. tracked <= tracked' /\ tracked' \in Nat
  BY <1>2
<1> QED
  BY <1>1, <1>4, <1>5, SameSends

\* A send goes on.
LEMMA SendGoes ==
  ASSUME IInv, NEW f \in Frames, NEW place \in {"lock", "post", "settle"},
         Goes(f, place), UNCHANGED <<inflight, ids, forked, tracked>>,
         frame[f].op = "track"
  PROVE  IInv'
<1> DEFINE r == [frame[f] EXCEPT !.pc = place]
<1>1. frame' = [frame EXCEPT ![f] = r]
  BY DEF Goes
<1>2. Shaped(frame[f]) /\ Consistent(f, frame[f]) /\ tracked \in Nat
  BY DEF IInv, FramesShaped, FramesConsistent
<1>3. /\ Shaped(r) /\ r.pc = place /\ r.op = frame[f].op /\ r.event = frame[f].event
      /\ r.bounded = frame[f].bounded /\ r.late = frame[f].late
  BY <1>2, PcChanged
<1> HIDE DEF r
<1>4. FramesShaped' /\ \A g \in Frames : frame'[g] = IF g = f THEN r ELSE frame[g]
  BY <1>1, <1>3, FrameSet DEF IInv
<1>5. \A g \in Frames : Consistent(g, frame[g])
  BY DEF IInv, FramesConsistent
<1>6. Consistent(f, r)
  BY <1>2, <1>3 DEF Consistent
<1> QED
  BY <1>2, <1>3, <1>4, <1>5, <1>6, SameSends

\* The idle frame, and one that is not sending.
LEMMA IdleShaped == Shaped(Idle) /\ Idle.op = "none" /\ Idle.pc = "idle"
  BY DEF Idle, Begun, Shaped

LEMMA NotSending ==
  ASSUME IInv, NEW f \in Frames, f = Handler \/ frame[f].pc \notin {"lock", "post", "settle"}
  PROVE  frame[f].op # "track"
  BY LifecycleAssumption DEF IInv, FramesConsistent, Consistent

-----------------------------------------------------------------------------
(* The sends.                                                              *)

LEMMA DeliverStep ==
  ASSUME IInv, NEW t \in Threads,
         SendLocked(t) \/ PutRaises(t) \/ Answered(t) \/ SendFails(t)
  PROVE  IInv'
<1>1. t \in Frames /\ UNCHANGED <<inflight, ids, forked, tracked>>
  BY DEF Frames, SendLocked, PutRaises, Answered, SendFails, client, store, process, history
<1>2. frame[t].op = "track"
  BY <1>1 DEF SendLocked, PutRaises, Answered, SendFails, At, Sending, IInv,
              FramesConsistent, Consistent
<1>3. Goes(t, "post") \/ Goes(t, "settle")
  BY DEF SendLocked, PutRaises, Answered, SendFails, SendOver
<1> QED
  BY <1>1, <1>2, <1>3, SendGoes

\* An event refused is only counted.
LEMMA RefusedStep ==
  ASSUME IInv, NEW t \in Threads, AdmitRefused(t) PROVE IInv'
<1>1. UNCHANGED <<inflight, ids, forked, frame>> /\ tracked' = tracked + 1
  BY DEF AdmitRefused, client, process
<1>2. /\ tracked \in Nat /\ FramesShaped'
      /\ \A g \in Frames : Consistent(g, frame[g])
  BY <1>1 DEF IInv, FramesShaped, FramesConsistent
<1> QED
  BY <1>1, <1>2, SameSends

\* An event admitted is one more send, with an event of its own.
LEMMA AdmitStep ==
  ASSUME IInv, NEW t \in Threads, Admit(t) PROVE IInv'
<1> DEFINE r == Begun("track", "lock", tracked + 1, FALSE, {})
<1>1. /\ t \in Frames /\ tracked \in Nat /\ FramesShaped
      /\ \A g \in Frames : Consistent(g, frame[g])
  BY DEF Frames, IInv, FramesConsistent
<1>2. /\ Shaped(r) /\ r.op = "track" /\ r.pc = "lock" /\ r.event = tracked + 1
      /\ r.bounded = FALSE /\ r.late = FALSE
  <2>1. Shaped(r) /\ r.op = "track" /\ r.pc = "lock" /\ r.event = tracked + 1
    BY DEF Begun, Shaped
  <2>2. r.bounded = FALSE /\ r.late = FALSE
    BY DEF Begun
  <2> QED
    BY <2>1, <2>2
<1>3. /\ frame' = [frame EXCEPT ![t] = r] /\ frame[t].pc = "idle"
      /\ tracked' = tracked + 1 /\ inflight' = inflight + 1 /\ ids' = ids \cup {tracked + 1}
      /\ UNCHANGED forked
  BY DEF Admit, CanCall, At, process
<1> HIDE DEF r
<1>4. FramesShaped' /\ \A g \in Frames : frame'[g] = IF g = t THEN r ELSE frame[g]
  BY <1>1, <1>2, <1>3, FrameSet
<1>5. frame[t].op # "track"
  BY <1>1, <1>3, NotSending
<1>6. t \in Frames /\ t \notin Sends /\ Sends' = Sends \cup {t}
  BY <1>1, <1>2, <1>4, <1>5 DEF Sends, Sending
<1>7. \A g \in Sends : g \in Frames /\ frame[g].event \in 1 .. tracked /\ frame'[g] = frame[g]
  BY <1>1, <1>4, <1>6 DEF Sends, Sending, Consistent
<1>8. FramesConsistent'
  BY <1>1, <1>2, <1>3, <1>4 DEF FramesConsistent, Consistent
<1>9. SendsDistinct'
  <2>1. \A g \in Sends : frame'[g].event # frame'[t].event
    BY <1>1, <1>2, <1>4, <1>7
  <2> QED
    BY <1>6, <1>7, <2>1 DEF SendsDistinct, IInv
<1>10. InflightExact'
  <2> SUFFICES ASSUME Repairable'
               PROVE  /\ inflight' = Cardinality(Sends')
                      /\ ids' = {frame'[f].event : f \in Sends'}
    BY DEF InflightExact
  <2>1. inflight = Cardinality(Sends) /\ ids = {frame[f].event : f \in Sends}
    BY <1>3 DEF IInv, InflightExact, Repairable
  <2>2. Cardinality(Sends') = Cardinality(Sends) + 1
    BY <1>6, FramesFinite, FS_AddElement
  <2>3. ids' = {frame'[f].event : f \in Sends'}
    BY <1>2, <1>3, <1>4, <1>6, <1>7, <2>1
  <2> QED
    BY <1>3, <2>1, <2>2, <2>3
<1>11. Awaited'
  BY <1>6 DEF Awaited
<1> QED
  BY <1>1, <1>3, <1>4, <1>8, <1>9, <1>10, <1>11 DEF IInv

\* A send settled is one less, and nobody waits any more.
LEMMA SettleStep ==
  ASSUME IInv, NEW t \in Threads, Settle(t) PROVE IInv'
<1>1. /\ t \in Frames /\ tracked \in Nat /\ FramesShaped
      /\ \A g \in Frames : Consistent(g, frame[g])
  BY DEF Frames, IInv, FramesConsistent
<1>2. /\ frame' = [Notified EXCEPT ![t] = Idle] /\ frame[t].pc = "settle"
      /\ inflight' = inflight - 1 /\ ids' = ids \ {frame[t].event}
      /\ UNCHANGED <<forked, tracked>>
  BY DEF Settle, SettledNotified, At, process, history
<1> DEFINE woken(g) == [frame[g] EXCEPT !.pc = "drain"]
<1>3. \A g \in Frames :
        /\ Shaped(woken(g)) /\ woken(g).pc = "drain" /\ woken(g).op = frame[g].op
        /\ woken(g).event = frame[g].event
        /\ woken(g).bounded = frame[g].bounded /\ woken(g).late = frame[g].late
  BY <1>1, PcChanged DEF FramesShaped
<1>4. Notified = [g \in Frames |-> IF frame[g].pc = "drain_wait" THEN woken(g) ELSE frame[g]]
  BY DEF Notified
<1> HIDE DEF woken
<1>5. \A g \in Frames :
        frame'[g] = IF g = t THEN Idle
                    ELSE IF frame[g].pc = "drain_wait" THEN woken(g) ELSE frame[g]
  BY <1>1, <1>2, <1>4
<1>6. frame' = [g \in Frames |-> frame'[g]]
  BY <1>1, <1>2, <1>4
<1>7. FramesShaped'
  BY <1>1, <1>3, <1>5, <1>6, IdleShaped DEF FramesShaped
<1>8. \A g \in Frames :
        /\ frame'[g].pc # "drain_wait"
        /\ frame'[g].op = "track" <=> frame[g].op = "track" /\ g # t
        /\ g # t => frame'[g].event = frame[g].event
        /\ Consistent(g, frame'[g])
  BY <1>1, <1>3, <1>5, IdleShaped DEF Consistent
<1>9. frame[t].op = "track"
  BY <1>1, <1>2 DEF Consistent
<1>10. t \in Sends /\ Sends' = Sends \ {t} /\ Sends \subseteq Frames
  BY <1>1, <1>8, <1>9 DEF Sends, Sending
<1>11. FramesConsistent' /\ Awaited'
  BY <1>2, <1>8 DEF FramesConsistent, Consistent, Awaited, Frames
<1>12. SendsDistinct'
  BY <1>8, <1>10 DEF IInv, SendsDistinct
<1>13. InflightExact'
  <2> SUFFICES ASSUME Repairable'
               PROVE  /\ inflight' = Cardinality(Sends')
                      /\ ids' = {frame'[f].event : f \in Sends'}
    BY DEF InflightExact
  <2>1. inflight = Cardinality(Sends) /\ ids = {frame[f].event : f \in Sends}
    BY <1>2 DEF IInv, InflightExact, Repairable
  <2>2. Cardinality(Sends') = Cardinality(Sends) - 1
    BY <1>10, FramesFinite, FS_RemoveElement
  <2>3. \A f \in Sends \ {t} : frame'[f].event = frame[f].event
                               /\ frame[f].event # frame[t].event
    BY <1>8, <1>10 DEF IInv, SendsDistinct
  <2>4. ids' = {frame'[f].event : f \in Sends'}
    BY <1>2, <1>10, <2>1, <2>3
  <2> QED
    BY <1>2, <2>1, <2>2, <2>4
<1> QED
  BY <1>1, <1>2, <1>7, <1>11, <1>12, <1>13 DEF IInv

-----------------------------------------------------------------------------
(* Everything else.                                                        *)

LEMMA FlushCalledStep ==
  ASSUME IInv, NEW t \in Threads, NEW bounded \in BOOLEAN, FlushCalled(t, bounded)
  PROVE  IInv'
<1> DEFINE r == Begun("flush", "lock", 0, bounded, ToSet(log))
<1>1. Shaped(r) /\ r.op = "flush" /\ r.pc = "lock"
  BY DEF Begun, Shaped
<1>2. /\ frame' = [frame EXCEPT ![t] = r] /\ frame[t].pc = "idle" /\ t \in Frames
      /\ UNCHANGED <<inflight, ids, forked, tracked>>
  BY DEF FlushCalled, CanCall, At, Frames, client, process, history
<1> HIDE DEF r
<1>3. frame[t].op # "track"
  BY <1>2, NotSending
<1> QED
  BY <1>1, <1>2, <1>3, OtherFrame

LEMMA ShutdownCalledStep ==
  ASSUME IInv, NEW t \in Threads, NEW bounded \in BOOLEAN, ShutdownCalled(t, bounded)
  PROVE  IInv'
<1> DEFINE r == Begun("shutdown", "drain", 0, bounded, {})
<1>1. Shaped(r) /\ r.op = "shutdown" /\ r.pc = "drain"
  BY DEF Begun, Shaped
<1>2. /\ frame' = [frame EXCEPT ![t] = r] /\ frame[t].pc = "idle" /\ t \in Frames
      /\ UNCHANGED <<inflight, ids, forked, tracked>>
  BY DEF ShutdownCalled, CanCall, At, Frames, process, history
<1> HIDE DEF r
<1>3. frame[t].op # "track"
  BY <1>2, NotSending
<1> QED
  BY <1>1, <1>2, <1>3, OtherFrame

LEMMA PendingCountsStep ==
  ASSUME IInv, NEW t \in Threads, PendingCounts(t) PROVE IInv'
<1> DEFINE b == Begun("pending", "snapshot", 0, FALSE, ids \cup ToSet(log))
           n == [b EXCEPT !.seen = ids]
           r == [b EXCEPT !.seen = ids, !.count = inflight]
<1>1. Shaped(r) /\ r.op = "pending" /\ r.pc = "snapshot"
  <2>1. Shaped(b) /\ b.op = "pending" /\ b.pc = "snapshot"
    BY DEF Begun, Shaped
  <2>2. r = [n EXCEPT !.count = inflight]
    OBVIOUS
  <2> HIDE DEF b
  <2>3. Shaped(n) /\ n.op = b.op /\ n.pc = b.pc
    BY <2>1 DEF Shaped
  <2> HIDE DEF n, r
  <2>4. Shaped(r) /\ r.op = n.op /\ r.pc = n.pc
    BY <2>2, <2>3 DEF Shaped
  <2> QED
    BY <2>1, <2>3, <2>4
<1>2. /\ frame' = [frame EXCEPT ![t] = r] /\ frame[t].pc = "idle" /\ t \in Frames
      /\ UNCHANGED <<inflight, ids, forked, tracked>>
  BY DEF PendingCounts, CanCall, At, Frames, client, process, history
<1> HIDE DEF b, r
<1>3. frame[t].op # "track"
  BY <1>2, NotSending
<1> QED
  BY <1>1, <1>2, <1>3, OtherFrame

\* No frame changes.
LEMMA FramesUnchanged ==
  ASSUME IInv, UNCHANGED <<frame, inflight, ids, forked, tracked>> PROVE IInv'
<1>1. /\ tracked \in Nat /\ FramesShaped'
      /\ \A g \in Frames : Consistent(g, frame[g])
  BY DEF IInv, FramesShaped, FramesConsistent
<1> QED
  BY <1>1, SameSends

LEMMA ExitsStep ==
  ASSUME IInv, NEW t \in Threads, Exits(t) PROVE IInv'
<1>1. UNCHANGED <<inflight, ids, forked, tracked>> /\ frame[t].pc = "idle" /\ t \in Frames
  BY DEF Exits, CanCall, At, Frames, history
<1>2. CASE live
  <2> DEFINE r == Begun("exit", "drain", 0, TRUE, {})
  <2>1. Shaped(r) /\ r.op = "exit" /\ r.pc = "drain"
    BY DEF Begun, Shaped
  <2>2. frame' = [frame EXCEPT ![t] = r]
    BY <1>2 DEF Exits
  <2> HIDE DEF r
  <2>3. frame[t].op # "track"
    BY <1>1, NotSending
  <2> QED
    BY <1>1, <2>1, <2>2, <2>3, OtherFrame
<1>3. CASE ~live
  <2>1. UNCHANGED frame
    BY <1>3 DEF Exits
  <2> QED
    BY <1>1, <2>1, FramesUnchanged
<1> QED
  BY <1>2, <1>3

LEMMA SignalStep ==
  ASSUME IInv, SignalArrives PROVE IInv'
<1>1. UNCHANGED <<inflight, ids, forked, tracked>> /\ Handler \in Frames
  BY DEF SignalArrives, Frames, client, history
<1>2. frame[Handler].op # "track"
  BY <1>1, NotSending
<1>3. CASE live
  <2> DEFINE r == Begun("flush", "lock", 0, TRUE, ToSet(log))
  <2>1. Shaped(r) /\ r.op = "flush" /\ r.pc = "lock"
    BY DEF Begun, Shaped
  <2>2. frame' = [frame EXCEPT ![Handler] = r]
    BY <1>3 DEF SignalArrives
  <2> HIDE DEF r
  <2> QED
    BY <1>1, <1>2, <2>1, <2>2, OtherFrame
<1>4. CASE ~live
  <2> DEFINE r == Begun("kill", "kill", 0, FALSE, {})
  <2>1. Shaped(r) /\ r.op = "kill" /\ r.pc = "kill"
    BY DEF Begun, Shaped
  <2>2. frame' = [frame EXCEPT ![Handler] = r]
    BY <1>4 DEF SignalArrives
  <2> HIDE DEF r
  <2> QED
    BY <1>1, <1>2, <2>1, <2>2, OtherFrame
<1> QED
  BY <1>3, <1>4

\* A frame that is not sending moves, or ends.
LEMMA OtherGoes ==
  ASSUME IInv, NEW f \in Frames, NEW place, Goes(f, place), frame[f].op # "track",
         place \notin {"post", "settle"}, place = "drain_wait" => inflight > 0,
         UNCHANGED <<inflight, ids, forked, tracked>>
  PROVE  IInv'
<1> DEFINE r == [frame[f] EXCEPT !.pc = place]
<1>1. Shaped(r) /\ r.op = frame[f].op /\ r.pc = place
  BY PcChanged DEF IInv, FramesShaped
<1>2. frame' = [frame EXCEPT ![f] = r]
  BY DEF Goes
<1> HIDE DEF r
<1> QED
  BY <1>1, <1>2, OtherFrame

LEMMA FrameEnds ==
  ASSUME IInv, NEW f \in Frames, frame' = [frame EXCEPT ![f] = Idle],
         frame[f].op # "track", UNCHANGED <<inflight, ids, forked, tracked>>
  PROVE  IInv'
  BY IdleShaped, OtherFrame

LEMMA RecoverStep ==
  ASSUME IInv, NEW f \in Frames, Recover(f) PROVE IInv'
<1>1. UNCHANGED <<inflight, ids, forked, tracked>>
  BY DEF Recover, RecoverLocked, SnapshotHangs, LockTimesOut, Replayed, ReplayFails,
         ReplayRaises, ReplayDone, client, process, history
<1>2. Consistent(f, frame[f]) /\ Shaped(frame[f])
  BY DEF IInv, FramesConsistent, FramesShaped
<1>3. frame[f].op # "track"
  <2>1. CASE RecoverLocked(f) \/ SnapshotHangs(f)
    BY <2>1 DEF RecoverLocked, SnapshotHangs, Sending
  <2>2. CASE LockTimesOut(f)
    BY <1>2, <2>2 DEF LockTimesOut, OutOfTime, Consistent
  <2>3. CASE Replayed(f) \/ ReplayFails(f) \/ ReplayRaises(f) \/ ReplayDone(f)
    BY <1>2, <2>3 DEF Replayed, ReplayFails, ReplayRaises, ReplayDone, At, Consistent
  <2> QED
    BY <2>1, <2>2, <2>3 DEF Recover
<1>4. CASE RecoverLocked(f)
  <2> DEFINE n == [frame[f] EXCEPT !.pc = "replay"]
             r == [n EXCEPT !.todo = log]
  <2>1. Shaped(n) /\ n.pc = "replay" /\ n.op = frame[f].op
    BY <1>2, PcChanged
  <2>2. [frame[f] EXCEPT !.pc = "replay", !.todo = log] = r
    OBVIOUS
  <2>3. frame' = [frame EXCEPT ![f] = r]
    BY <1>4, <2>2 DEF RecoverLocked
  <2> HIDE DEF n
  <2>4. Shaped(r) /\ r.pc = n.pc /\ r.op = n.op
    BY <2>1, TodoChanged
  <2> HIDE DEF r
  <2> QED
    BY <1>1, <1>3, <2>1, <2>3, <2>4, OtherFrame
<1>5. CASE Replayed(f)
  <2> DEFINE r == [frame[f] EXCEPT !.todo = Tail(frame[f].todo)]
  <2>1. Shaped(r) /\ r.pc = frame[f].pc /\ r.op = frame[f].op
    BY <1>2, TodoChanged
  <2>2. frame' = [frame EXCEPT ![f] = r] /\ frame[f].pc = "replay"
    BY <1>5 DEF Replayed, At
  <2> HIDE DEF r
  <2> QED
    BY <1>1, <1>3, <2>1, <2>2, OtherFrame
<1>6. CASE LockTimesOut(f) \/ ReplayFails(f) \/ ReplayRaises(f) \/ ReplayDone(f)
  <2>1. frame' = [frame EXCEPT ![f] = Idle]
    BY <1>6 DEF LockTimesOut, ReplayFails, ReplayRaises, ReplayDone, Leaves, Raises, EndsCall
  <2> QED
    BY <1>1, <1>3, <2>1, FrameEnds
<1>7. CASE SnapshotHangs(f)
  BY <1>1, <1>3, <1>7, OtherGoes DEF SnapshotHangs
<1> QED
  BY <1>4, <1>5, <1>6, <1>7 DEF Recover

LEMMA DeadlineStep ==
  ASSUME IInv, NEW f \in Frames, DeadlinePasses(f) PROVE IInv'
<1> DEFINE place == IF frame[f].pc = "drain_wait" THEN "drain" ELSE frame[f].pc
           r == [frame[f] EXCEPT !.late = TRUE, !.pc = place]
<1>1. Consistent(f, frame[f]) /\ Shaped(frame[f])
  BY DEF IInv, FramesConsistent, FramesShaped
<1>2. frame[f].op # "track"
  BY <1>1 DEF DeadlinePasses, Consistent
<1>3. Shaped(r) /\ r.pc = place /\ r.op = frame[f].op
  <2> HIDE DEF place
  <2> QED
    BY <1>1, LateChanged
<1>4. place \notin {"post", "settle", "drain_wait"}
  BY <1>1, <1>2 DEF Consistent
<1>5. frame' = [frame EXCEPT ![f] = r] /\ UNCHANGED <<inflight, ids, forked, tracked>>
  BY DEF DeadlinePasses, client, process, history
<1> HIDE DEF place, r
<1> QED
  BY <1>2, <1>3, <1>4, <1>5, OtherFrame

LEMMA DrainStep ==
  ASSUME IInv, NEW t \in Threads, Drain(t) PROVE IInv'
<1>1. /\ t \in Frames /\ frame[t].pc = "drain"
      /\ UNCHANGED <<inflight, ids, forked, tracked>>
  BY DEF Drain, ShutdownWaits, ShutdownDrained, At, Frames, client, process, history
<1>2. frame[t].op # "track"
  BY <1>1, NotSending
<1>3. CASE ShutdownWaits(t)
  BY <1>1, <1>2, <1>3, OtherGoes DEF ShutdownWaits
<1>4. CASE ShutdownDrained(t)
  <2>1. frame' = [frame EXCEPT ![t] = Idle] \/ Goes(t, "lock")
    BY <1>4 DEF ShutdownDrained, Leaves, EndsCall
  <2> QED
    BY <1>1, <1>2, <2>1, FrameEnds, OtherGoes
<1> QED
  BY <1>3, <1>4 DEF Drain

LEMMA PendingReturnsStep ==
  ASSUME IInv, NEW t \in Threads, PendingReturns(t) PROVE IInv'
<1>1. /\ t \in Frames /\ frame[t].pc = "snapshot" /\ frame' = [frame EXCEPT ![t] = Idle]
      /\ UNCHANGED <<inflight, ids, forked, tracked>>
  BY DEF PendingReturns, At, Frames, client, process, history
<1> QED
  BY <1>1, NotSending, FrameEnds

LEMMA CallHangsStep ==
  ASSUME IInv, NEW t \in Threads, CallHangs(t) PROVE IInv'
<1>1. PICK bounded \in BOOLEAN :
        /\ frame' = [frame EXCEPT ![t] = Begun("hung", "hung", 0, bounded, {})]
        /\ frame[t].pc = "idle"
  BY DEF CallHangs, CanCall, At
<1> DEFINE r == Begun("hung", "hung", 0, bounded, {})
<1>2. Shaped(r) /\ r.op = "hung" /\ r.pc = "hung"
  BY DEF Begun, Shaped
<1>3. t \in Frames /\ UNCHANGED <<inflight, ids, forked, tracked>>
  BY DEF CallHangs, Frames, client, process, history
<1>4. frame' = [frame EXCEPT ![t] = r]
  BY <1>1
<1> HIDE DEF r
<1>5. frame[t].op # "track"
  BY <1>1, <1>3, NotSending
<1> QED
  BY <1>2, <1>3, <1>4, <1>5, OtherFrame

\* The child of a live client starts from nothing; of another, nothing is claimed.
LEMMA ForkStep ==
  ASSUME IInv, NEW t \in Threads, Fork(t) PROVE IInv'
<1>1. /\ frame' = [f \in Frames |-> Idle] /\ tracked' = tracked /\ tracked \in Nat
      /\ forked' = "inherited" \/ (inflight' = 0 /\ ids' = {})
  BY DEF Fork, Repaired, Inherited, CountReset, IInv
<1>2. \A f \in Frames : frame'[f] = Idle
  BY <1>1
<1>3. frame' = [f \in Frames |-> frame'[f]]
  BY <1>1
<1>4. FramesShaped' /\ FramesConsistent'
  BY <1>2, <1>3, IdleShaped DEF FramesShaped, FramesConsistent, Consistent
<1>5. Sends' = {}
  BY <1>2, IdleShaped DEF Sends, Sending
<1>6. SendsDistinct' /\ Awaited'
  BY <1>2, <1>5, IdleShaped DEF SendsDistinct, Awaited, Frames
<1>7. InflightExact'
  <2>1. CASE forked' = "inherited"
    BY <2>1 DEF InflightExact, Repairable
  <2>2. CASE inflight' = 0 /\ ids' = {}
    <3>1. Cardinality(Sends') = 0
      BY <1>5, FS_EmptySet, Zenon
    <3>2. {frame'[f].event : f \in Sends'} = {}
      BY <1>5
    <3> QED
      BY <2>2, <3>1, <3>2 DEF InflightExact
  <2> QED
    BY <1>1, <2>1, <2>2
<1> QED
  BY <1>1, <1>4, <1>6, <1>7 DEF IInv

-----------------------------------------------------------------------------
\* The invariant holds in every reachable state.
LEMMA Inductive == Spec => []IInv
<1>1. Init => IInv
  <2> SUFFICES ASSUME Init PROVE IInv
    OBVIOUS
  <2>1. /\ frame = [f \in Frames |-> Idle] /\ tracked = 0 /\ inflight = 0 /\ ids = {}
    BY DEF Init
  <2>2. \A f \in Frames : frame[f] = Idle
    BY <2>1
  <2>3. frame = [f \in Frames |-> frame[f]]
    BY <2>1
  <2>4. FramesShaped /\ FramesConsistent
    BY <2>2, <2>3, IdleShaped DEF FramesShaped, FramesConsistent, Consistent
  <2>5. Sends = {}
    BY <2>2, IdleShaped DEF Sends, Sending
  <2>6. SendsDistinct /\ Awaited
    BY <2>2, <2>5, IdleShaped DEF SendsDistinct, Awaited, Frames
  <2>7. Cardinality(Sends) = 0
    BY <2>5, FS_EmptySet, Zenon
  <2>8. {frame[f].event : f \in Sends} = {}
    BY <2>5
  <2> QED
    BY <2>1, <2>4, <2>6, <2>7, <2>8 DEF IInv, InflightExact
<1>2. IInv /\ [Next]_vars => IInv'
  <2> SUFFICES ASSUME IInv, [Next]_vars PROVE IInv'
    OBVIOUS
  <2>1. CASE \E t \in Threads :
               AdmitRefused(t) \/ Admit(t) \/ Deliver(t) \/ Exits(t) \/ Drain(t)
    BY <2>1, RefusedStep, AdmitStep, DeliverStep, SettleStep, ExitsStep, DrainStep DEF Deliver
  <2>2. CASE \E t \in Threads, bounded \in BOOLEAN :
               FlushCalled(t, bounded) \/ ShutdownCalled(t, bounded)
    BY <2>2, FlushCalledStep, ShutdownCalledStep
  <2>3. CASE \E t \in Threads : PendingCounts(t) \/ PendingReturns(t) \/ CallHangs(t) \/ Fork(t)
    BY <2>3, PendingCountsStep, PendingReturnsStep, CallHangsStep, ForkStep
  <2>4. CASE \E f \in Frames : Recover(f) \/ DeadlinePasses(f)
    BY <2>4, RecoverStep, DeadlineStep
  <2>5. CASE SignalArrives
    BY <2>5, SignalStep
  <2>6. CASE Killed \/ UNCHANGED vars
    <3>1. UNCHANGED <<frame, inflight, ids, forked, tracked>>
      BY <2>6 DEF Killed, vars, client, process, history
    <3> QED
      BY <3>1, FramesUnchanged
  <2> QED
    BY <2>1, <2>2, <2>3, <2>4, <2>5, <2>6 DEF Next
<1> QED
  BY <1>1, <1>2, PTL DEF Spec

\* The count of inline sends and the set of their batches are exactly the threads
\* inside _enqueue, for any number of threads and events (client.py:315-328).
THEOREM InflightIsExact == Spec => []InflightExact
<1>1. IInv => InflightExact
  BY DEF IInv
<1> QED
  BY <1>1, Inductive, PTL

\* A shutdown sleeps only while a send is in progress, which will wake it
\* (client.py:243-249, 324-328).
THEOREM ShutdownIsAwaited == Spec => []Awaited
<1>1. IInv => Awaited
  BY DEF IInv
<1> QED
  BY <1>1, Inductive, PTL

-----------------------------------------------------------------------------
(* What is true of the calls, the log and the fates of events.             *)

\* What is true of a call at each place.
Placed(f, r) ==
  /\ r.op = "none" <=> r.pc = "idle"
  /\ r.op = "track" => /\ f \in Threads /\ r.pc \in {"lock", "post", "settle"}
                       /\ r.event \in 1 .. tracked /\ r.bounded = FALSE
  /\ r.op = "flush" => r.pc \in {"lock", "replay", "reading"}
  /\ r.op = "shutdown" =>
       /\ r.pc \in {"lock", "replay", "reading", "drain", "drain_wait"} /\ closed
       /\ r.pc \in {"lock", "replay", "reading"} => r.bounded = FALSE
  /\ r.op = "exit" => r.pc \in {"drain", "drain_wait"} /\ closed /\ r.bounded = TRUE
  /\ r.op = "pending" <=> r.pc = "snapshot"
  /\ r.op = "kill" <=> r.pc = "kill"
  /\ r.op = "hung" <=> r.pc = "hung"
  /\ r.late = TRUE => r.bounded = TRUE
  /\ f = Handler => r.op \in {"none", "flush", "kill"} /\ (~handling => r.pc = "idle")

CallsPlaced == \A f \in Frames : Placed(f, frame[f])

\* The frames inside the delivery lock are those that post or replay, or hang there.
Delivering == {"post", "replay", "reading"}
OneInside ==
  /\ \A f \in Frames : f \in holders <=> frame[f].pc \in Delivering
  /\ \A g, h \in holders : ThreadOf(g) = ThreadOf(h)

\* The frame of the main thread under the handler, which never goes on.
Suspended(f) == f = Main /\ handling

\* A replay has the log still to do.
ReplaysLog ==
  \A f \in Frames : frame[f].pc = "replay" /\ ~Suspended(f) => frame[f].todo = log

\* What a send has in hand is owed, and in the log once it is written there.
SendsOwed ==
  \A f \in Frames :
    /\ frame[f].pc = "post" =>
         /\ \/ fate[frame[f].event] = "sending"
            \/ Suspended(f) /\ fate[frame[f].event] = "answered"
         /\ durable /\ ~Suspended(f) => frame[f].event \in ToSet(log)
    /\ frame[f].op = "track" /\ frame[f].pc = "lock" =>
         fate[frame[f].event] = "sending" /\ frame[f].event \notin ToSet(log)

\* The log holds each event once, and only events that are owed.
LogOwed ==
  /\ \A i, j \in DOMAIN log : log[i] = log[j] => i = j
  /\ \A e \in ToSet(log) : \/ fate[e] \in {"sending", "stored"}
                           \/ fate[e] = "parent" /\ ~Repairable

\* An event that is owed has an owner.
FatesKept ==
  \A e \in Event :
    /\ e > tracked => fate[e] = "new"
    /\ fate[e] = "stored" => e \in ToSet(log)
    /\ fate[e] = "sending" =>
         \E f \in Sends : frame[f].event = e /\ frame[f].pc \in {"lock", "post"}

\* A client that is not live is closed; one that is inherited sends nothing.
Ended ==
  /\ ~live => closed
  /\ ~Repairable => closed /\ Sends = {}

\* What a reading of pending has counted.
Counted ==
  \A f \in Frames : frame[f].op = "pending" =>
    /\ frame[f].seen \subseteq frame[f].owed /\ frame[f].owed \subseteq 1 .. tracked
    /\ frame[f].owed \cap ids \subseteq frame[f].seen
    /\ Repairable => frame[f].count = Cardinality(frame[f].seen)

\* An unbounded shutdown replays when there are no sends left.
ShutdownQuiet ==
  \A f \in Frames :
    frame[f].op = "shutdown" /\ frame[f].pc \in {"lock", "replay"} /\ Repairable => Sends = {}

\* The second invariant: who has each event and what each call still owes.
LInv ==
  /\ TypeOK /\ ids \subseteq 1 .. tracked
  /\ CallsPlaced /\ OneInside /\ ReplaysLog /\ SendsOwed /\ LogOwed /\ FatesKept
  /\ Ended /\ Counted /\ ShutdownQuiet

-----------------------------------------------------------------------------
(* The records that stand for calls, and the log.                          *)

Operations == {"none", "track", "flush", "shutdown", "exit", "pending", "kill", "hung"}
Places == {"idle", "lock", "post", "settle", "replay", "drain", "drain_wait",
           "snapshot", "kill", "reading", "hung"}

\* The fields of a frame are typed.
Fields(r) ==
  /\ r.op \in Operations /\ r.pc \in Places /\ r.event \in Nat
  /\ r.bounded \in BOOLEAN /\ r.late \in BOOLEAN /\ r.todo \in Seq(Event)
  /\ r.owed \in SUBSET Event /\ r.seen \in SUBSET Event /\ r.count \in Nat

FrameType ==
  [op : Operations, pc : Places, event : Nat, bounded : BOOLEAN, late : BOOLEAN,
   todo : Seq(Event), owed : SUBSET Event, seen : SUBSET Event, count : Nat]

LEMMA FrameTyped == \A r : r \in FrameType <=> Shaped(r) /\ Fields(r)
<1>1. ASSUME NEW r \in FrameType PROVE Shaped(r) /\ Fields(r)
  BY DEF FrameType, Shaped, Fields
<1>2. ASSUME NEW r, Shaped(r), Fields(r) PROVE r \in FrameType
  BY <1>2 DEF FrameType, Shaped, Fields
<1> QED
  BY <1>1, <1>2

\* The frames are typed when their fields are.
FramesInType == frame \in [Frames -> FrameType]
FieldsInType == \A f \in Frames : Fields(frame[f])

LEMMA FramesTyped == FramesShaped => (FramesInType <=> FieldsInType)
<1> SUFFICES ASSUME FramesShaped PROVE FramesInType <=> FieldsInType
  OBVIOUS
<1>1. \A f \in Frames : Shaped(frame[f])
  BY DEF FramesShaped
<1>2. frame = [f \in Frames |-> frame[f]]
  BY DEF FramesShaped
<1>3. ASSUME FramesInType, NEW f \in Frames PROVE Fields(frame[f])
  BY <1>3, FrameTyped DEF FramesInType
<1>4. ASSUME FieldsInType PROVE FramesInType
  <2>1. \A f \in Frames : frame[f] \in FrameType
    BY <1>1, <1>4, FrameTyped DEF FieldsInType
  <2> HIDE DEF FrameType
  <2> QED
    BY <1>2, <2>1 DEF FramesInType
<1> QED
  BY <1>3, <1>4 DEF FieldsInType

\* A call that moves.
LEMMA PcFields ==
  ASSUME NEW r, Shaped(r), NEW place
  PROVE  LET m == [r EXCEPT !.pc = place] IN
           /\ m.op = r.op /\ m.pc = place /\ m.event = r.event
           /\ m.bounded = r.bounded /\ m.late = r.late /\ m.todo = r.todo
           /\ m.owed = r.owed /\ m.seen = r.seen /\ m.count = r.count
  BY DEF Shaped

LEMMA TodoFields ==
  ASSUME NEW r, Shaped(r), NEW todo
  PROVE  LET m == [r EXCEPT !.todo = todo] IN
           /\ m.op = r.op /\ m.pc = r.pc /\ m.event = r.event
           /\ m.bounded = r.bounded /\ m.late = r.late /\ m.todo = todo
           /\ m.owed = r.owed /\ m.seen = r.seen /\ m.count = r.count
  BY DEF Shaped

LEMMA LateFields ==
  ASSUME NEW r, Shaped(r), NEW late
  PROVE  LET m == [r EXCEPT !.late = late] IN
           /\ Shaped(m)
           /\ m.op = r.op /\ m.pc = r.pc /\ m.event = r.event
           /\ m.bounded = r.bounded /\ m.late = late /\ m.todo = r.todo
           /\ m.owed = r.owed /\ m.seen = r.seen /\ m.count = r.count
<1> DEFINE m == [r EXCEPT !.late = late]
<1>1. Shaped(m)
  BY DEF Shaped
<1>2. /\ m.op = r.op /\ m.pc = r.pc /\ m.event = r.event
      /\ m.bounded = r.bounded /\ m.late = late /\ m.todo = r.todo
      /\ m.owed = r.owed /\ m.seen = r.seen /\ m.count = r.count
  BY DEF Shaped
<1> QED
  BY <1>1, <1>2

\* The idle frame.
LEMMA IdleFields ==
  Fields(Idle) /\ Idle.op = "none" /\ Idle.pc = "idle" /\ Idle.late = FALSE
  BY DEF Idle, Begun, Fields, Operations, Places

\* Every frame is typed.
LEMMA TypeFacts ==
  ASSUME LInv, IInv
  PROVE  /\ \A f \in Frames : Fields(frame[f]) /\ Shaped(frame[f]) /\ Placed(f, frame[f])
         /\ frame = [f \in Frames |-> frame[f]]
         /\ log \in Seq(Event) /\ ToSet(log) \subseteq Event /\ ToSet(log) \subseteq 1 .. tracked
         /\ tracked \in 0 .. MaxEvents /\ MaxEvents \in Nat /\ Event = 1 .. MaxEvents
         /\ ids \subseteq 1 .. tracked
         /\ fate = [e \in Event |-> fate[e]]
<1>1. TypeOK /\ FramesShaped
  BY DEF LInv, IInv
<1>2. frame \in [Frames -> FrameType]
  BY <1>1 DEF TypeOK, FrameType, Operations, Places
<1> HIDE DEF FrameType
<1>3. \A f \in Frames : Fields(frame[f]) /\ Shaped(frame[f]) /\ Placed(f, frame[f])
  BY <1>1, <1>2, FramesTyped DEF FramesShaped, LInv, CallsPlaced, FramesInType, FieldsInType
<1>4. log \in Seq(Event) /\ tracked \in 0 .. MaxEvents /\ MaxEvents \in Nat
  BY <1>1, LifecycleAssumption DEF TypeOK
<1>5. ToSet(log) \subseteq Event
  BY <1>4 DEF ToSet
<1>6. ToSet(log) \subseteq 1 .. tracked
  <2>1. \A e \in ToSet(log) : fate[e] # "new"
    BY DEF LInv, LogOwed
  <2>2. \A e \in ToSet(log) : e \in Event /\ ~(e > tracked)
    BY <1>5, <2>1 DEF LInv, FatesKept
  <2> QED
    BY <1>4, <2>2 DEF Event
<1>7. frame = [f \in Frames |-> frame[f]] /\ ids \subseteq 1 .. tracked
  BY <1>1 DEF FramesShaped, LInv
<1>8. fate = [e \in Event |-> fate[e]]
  BY <1>1 DEF TypeOK
<1> QED
  BY <1>3, <1>4, <1>5, <1>6, <1>7, <1>8 DEF Event

\* Removing one element of a sequence moves the later ones up.
LEMMA RemoveAtShape ==
  ASSUME NEW S, NEW s \in Seq(S), NEW i \in DOMAIN s
  PROVE  /\ RemoveAt(s, i) \in Seq(S)
         /\ Len(RemoveAt(s, i)) = Len(s) - 1
         /\ \A k \in 1 .. Len(s) - 1 :
              RemoveAt(s, i)[k] = IF k < i THEN s[k] ELSE s[k + 1]
<1> DEFINE left == SubSeq(s, 1, i - 1)
           right == SubSeq(s, i + 1, Len(s))
<1>1. i \in 1 .. Len(s) /\ Len(s) \in Nat
  OBVIOUS
<1>2. left \in Seq(S) /\ Len(left) = i - 1 /\ \A j \in 1 .. i - 1 : left[j] = s[j]
  BY <1>1
<1>3. /\ right \in Seq(S) /\ Len(right) = Len(s) - i
      /\ \A j \in 1 .. Len(s) - i : right[j] = s[i + j]
  BY <1>1
<1>4. RemoveAt(s, i) = left \o right
  BY DEF RemoveAt
<1> HIDE DEF left, right
<1>5. /\ left \o right \in Seq(S)
      /\ Len(left \o right) = Len(left) + Len(right)
      /\ \A k \in 1 .. Len(left) + Len(right) :
           (left \o right)[k] = IF k <= Len(left) THEN left[k] ELSE right[k - Len(left)]
  BY <1>2, <1>3, ConcatProperties
<1>6. Len(left) + Len(right) = Len(s) - 1 /\ Len(left) = i - 1
  BY <1>1, <1>2, <1>3
<1>7. ASSUME NEW k \in 1 .. Len(s) - 1
      PROVE  (left \o right)[k] = IF k < i THEN s[k] ELSE s[k + 1]
  <2>1. (left \o right)[k] = IF k <= i - 1 THEN left[k] ELSE right[k - (i - 1)]
    BY <1>5, <1>6
  <2>2. CASE k < i
    BY <1>1, <1>2, <2>1, <2>2
  <2>3. CASE ~(k < i)
    <3>1. k - (i - 1) \in 1 .. Len(s) - i /\ i + (k - (i - 1)) = k + 1
      BY <1>1, <2>3
    <3>2. right[k - (i - 1)] = s[k + 1]
      BY <1>3, <3>1
    <3> QED
      BY <1>1, <2>1, <2>3, <3>2
  <2> QED
    BY <2>2, <2>3
<1> QED
  BY <1>4, <1>5, <1>6, <1>7

\* What is left of a sequence without one of its elements.
LEMMA RemoveAtHolds ==
  ASSUME NEW S, NEW s \in Seq(S), NEW i \in DOMAIN s,
         \A j, k \in DOMAIN s : s[j] = s[k] => j = k
  PROVE  LET u == RemoveAt(s, i) IN
           /\ u \in Seq(S) /\ ToSet(u) = ToSet(s) \ {s[i]}
           /\ \A j, k \in DOMAIN u : u[j] = u[k] => j = k
           /\ i = 1 => u = Tail(s)
<1> DEFINE u == RemoveAt(s, i)
           n == Len(s)
           From(k) == IF k < i THEN k ELSE k + 1
<1>1. n \in Nat /\ DOMAIN s = 1 .. n /\ i \in 1 .. n
  OBVIOUS
<1>2. u \in Seq(S) /\ Len(u) = n - 1 /\ \A k \in 1 .. (n - 1) : u[k] = s[From(k)]
  BY RemoveAtShape
<1>3. i = 1 => u = Tail(s)
  <2> SUFFICES ASSUME i = 1 PROVE u = Tail(s)
    OBVIOUS
  <2> HIDE DEF u
  <2>1. u \in Seq(S) /\ Len(u) = n - 1 /\ \A k \in 1 .. (n - 1) : u[k] = s[k + 1]
    <3>1. \A k \in 1 .. (n - 1) : From(k) = k + 1
      BY <1>1
    <3> QED
      BY <1>2, <3>1
  <2>2. /\ Tail(s) \in Seq(S) /\ Len(Tail(s)) = n - 1
        /\ \A k \in 1 .. (n - 1) : Tail(s)[k] = s[k + 1]
    BY <1>1
  <2> QED
    BY <2>1, <2>2, SeqEqual
<1>4. DOMAIN u = 1 .. (n - 1) /\ \A k \in DOMAIN u : u[k] = s[From(k)]
  BY <1>1, <1>2
<1> HIDE DEF u, n
<1>5. \A k \in DOMAIN u : From(k) \in DOMAIN s \ {i}
  BY <1>1, <1>4
<1>6. \A l \in DOMAIN s \ {i} : \E k \in DOMAIN u : l = From(k)
  <2>1. SUFFICES ASSUME NEW l \in DOMAIN s \ {i} PROVE \E k \in DOMAIN u : l = From(k)
    OBVIOUS
  <2>2. CASE l < i
    BY <1>1, <1>4, <2>2
  <2>3. CASE l > i
    <3>1. l - 1 \in DOMAIN u /\ l = From(l - 1)
      BY <1>1, <1>4, <2>3
    <3> QED
      BY <3>1
  <2> QED
    BY <1>1, <2>2, <2>3
<1>7. \A k, l \in DOMAIN u : From(k) = From(l) => k = l
  BY <1>1, <1>4
<1> HIDE DEF From
<1>8. \A j, k \in DOMAIN u : u[j] = u[k] => j = k
  BY <1>4, <1>5, <1>7
<1>9. ToSet(u) = {s[l] : l \in DOMAIN s \ {i}}
  BY <1>4, <1>5, <1>6 DEF ToSet
<1>10. ToSet(u) = ToSet(s) \ {s[i]}
  BY <1>9 DEF ToSet
<1> QED
  BY <1>2, <1>3, <1>8, <1>10 DEF u

-----------------------------------------------------------------------------
(* A call that sends nothing begins, moves or ends.                        *)

\* What is counted by a call, and what a shutdown finds.
CountedAt(f) ==
  frame[f].op = "pending" =>
    /\ frame[f].seen \subseteq frame[f].owed /\ frame[f].owed \subseteq 1 .. tracked
    /\ frame[f].owed \cap ids \subseteq frame[f].seen
    /\ Repairable => frame[f].count = Cardinality(frame[f].seen)
QuietAt(f) ==
  frame[f].op = "shutdown" /\ frame[f].pc \in {"lock", "replay"} /\ Repairable => Sends = {}

\* What such a step changes besides its frame.
CallMoves(f) ==
  /\ \A g \in Frames \ {f} : frame'[g] = frame[g]
  /\ UNCHANGED <<log, durable, fate, tracked, ids, inflight, forked, stuck>>
  /\ closed' \in BOOLEAN /\ (closed => closed')
  /\ live' \in BOOLEAN /\ (~live' => closed')
  /\ alive' \in BOOLEAN
  /\ handling' \in BOOLEAN /\ (handling => handling') /\ (handling' => handling \/ f = Handler)
  /\ holders' \in {holders, holders \cup {f}, holders \ {f}}
  /\ f \in holders' <=> frame'[f].pc \in Delivering
  /\ f \in holders' => \A h \in holders : ThreadOf(h) = ThreadOf(f)

LEMMA CallMovesStep ==
  ASSUME IInv, IInv', LInv, NEW f \in Frames, CallMoves(f),
         frame[f].op # "track", frame'[f].op # "track",
         Fields(frame[f])', Placed(f, frame[f])',
         frame'[f].pc = "replay" => Suspended(f)' \/ frame'[f].todo = log,
         CountedAt(f)', QuietAt(f)'
  PROVE  LInv'
<1> USE DEF CallMoves
<1>1. \A g \in Frames : Fields(frame[g]) /\ Placed(g, frame[g])
  BY TypeFacts
<1>2. FieldsInType'
  BY <1>1 DEF Fields, FieldsInType
<1>3. TypeOK'
  <2>1. FramesShaped' => (FramesInType' <=> FieldsInType')
    BY FramesTyped, PTL
  <2>2. frame' \in [Frames -> FrameType]
    BY <1>2, <2>1 DEF IInv, FramesInType
  <2>3. holders' \subseteq Frames
    BY DEF LInv, TypeOK
  <2> QED
    BY <2>2, <2>3 DEF Repairable, LInv, TypeOK, FrameType, Operations, Places
<1>4. CallsPlaced'
  BY <1>1 DEF CallsPlaced, Placed
<1>5. OneInside'
  BY DEF LInv, OneInside
<1>6. \A g \in Frames : ~Suspended(g)' => ~Suspended(g)
  BY DEF Suspended
<1>7. ReplaysLog' /\ SendsOwed'
  <2>1. frame'[f].pc # "post"
    BY DEF Placed, Fields, Operations
  <2>2. \A g \in Frames \ {f} : frame'[g] = frame[g] /\ (~Suspended(g)' => ~Suspended(g))
    BY <1>6
  <2>3. ReplaysLog'
    BY <2>2 DEF LInv, ReplaysLog
  <2>4. \A g \in Frames : Suspended(g) => Suspended(g)'
    BY <1>6
  <2>5. SendsOwed'
    BY <2>1, <2>2, <2>4 DEF LInv, SendsOwed
  <2> QED
    BY <2>3, <2>5
<1>8. Sends' = Sends /\ \A g \in Sends : frame'[g] = frame[g]
  BY DEF Sends, Sending
<1>9. LogOwed' /\ FatesKept'
  BY <1>8 DEF LInv, LogOwed, FatesKept, Repairable
<1>10. Ended'
  BY <1>8 DEF LInv, Ended, Repairable
<1>11. Counted' /\ ShutdownQuiet'
  BY <1>8 DEF LInv, Counted, ShutdownQuiet, Repairable, CountedAt, QuietAt
<1> QED
  BY <1>3, <1>4, <1>5, <1>7, <1>9, <1>10, <1>11 DEF LInv

\* The frame that changes, and the others.
LEMMA OneFrame ==
  ASSUME LInv, IInv, NEW f \in Frames, NEW r, frame' = [frame EXCEPT ![f] = r]
  PROVE  frame'[f] = r /\ \A g \in Frames \ {f} : frame'[g] = frame[g]
<1>1. frame = [g \in Frames |-> frame[g]]
  BY TypeFacts
<1> QED
  BY <1>1

\* Who is idle, or waits, is not inside the lock and sends nothing.
LEMMA OutsideFacts ==
  ASSUME LInv, IInv, NEW f \in Frames, frame[f].pc \notin Delivering
  PROVE  f \notin holders
  BY DEF LInv, OneInside

LEMMA IdleFacts ==
  ASSUME LInv, IInv, NEW f \in Frames, frame[f].pc = "idle"
  PROVE  f \notin holders /\ frame[f].op = "none"
<1>1. Placed(f, frame[f])
  BY TypeFacts
<1> QED
  BY <1>1, OutsideFacts DEF Placed, Delivering

LEMMA FlushCalledKeeps ==
  ASSUME IInv, IInv', LInv, NEW t \in Threads, NEW bounded \in BOOLEAN, FlushCalled(t, bounded)
  PROVE  LInv'
<1> DEFINE owes == ToSet(log)
           r == Begun("flush", "lock", 0, bounded, owes)
<1>1. /\ frame' = [frame EXCEPT ![t] = r] /\ t \in Frames /\ frame[t].pc = "idle"
      /\ UNCHANGED <<client, store, holders, process, history>>
  BY DEF FlushCalled, CanCall, At, Frames
<1>2. t \notin holders /\ frame[t].op = "none" /\ TypeOK
  BY <1>1, IdleFacts DEF LInv
<1>3. owes \in SUBSET Event /\ "flush" \in Operations /\ "lock" \in Places /\ 0 \in Nat
  BY TypeFacts DEF Operations, Places
<1> HIDE DEF owes
<1>4. /\ Fields(r) /\ r.op = "flush" /\ r.pc = "lock" /\ r.late = FALSE
  BY <1>3 DEF Begun, Fields, Operations, Places
<1> HIDE DEF r
<1>5. frame'[t] = r /\ \A g \in Frames \ {t} : frame'[g] = frame[g]
  BY <1>1, OneFrame
<1>6. CallMoves(t)
  BY <1>1, <1>2, <1>4, <1>5
  DEF CallMoves, TypeOK, LInv, Ended, client, store, process, history, Delivering
<1>7. Placed(t, frame[t])'
  BY <1>1, <1>4, <1>5, LifecycleAssumption DEF Placed
<1>8. Fields(frame[t])' /\ CountedAt(t)' /\ QuietAt(t)'
  BY <1>4, <1>5 DEF Fields, CountedAt, QuietAt
<1> QED
  BY <1>1, <1>2, <1>4, <1>5, <1>6, <1>7, <1>8, CallMovesStep

LEMMA ShutdownCalledKeeps ==
  ASSUME IInv, IInv', LInv, NEW t \in Threads, NEW bounded \in BOOLEAN, ShutdownCalled(t, bounded)
  PROVE  LInv'
<1> DEFINE r == Begun("shutdown", "drain", 0, bounded, {})
<1>1. /\ frame' = [frame EXCEPT ![t] = r] /\ t \in Frames /\ frame[t].pc = "idle"
      /\ closed' = TRUE
      /\ UNCHANGED <<inflight, ids, live, store, holders, process, history>>
  BY DEF ShutdownCalled, CanCall, At, Frames
<1>2. t \notin holders /\ frame[t].op = "none" /\ TypeOK
  BY <1>1, IdleFacts DEF LInv
<1>3. {} \in SUBSET Event /\ "shutdown" \in Operations /\ "drain" \in Places /\ 0 \in Nat
  BY DEF Operations, Places
<1>4. /\ Fields(r) /\ r.op = "shutdown" /\ r.pc = "drain" /\ r.late = FALSE
  BY <1>3 DEF Begun, Fields, Operations, Places
<1> HIDE DEF r
<1>5. frame'[t] = r /\ \A g \in Frames \ {t} : frame'[g] = frame[g]
  BY <1>1, OneFrame
<1>6. CallMoves(t)
  BY <1>1, <1>2, <1>4, <1>5
  DEF CallMoves, TypeOK, LInv, Ended, store, process, history, Delivering
<1>7. Placed(t, frame[t])'
  BY <1>1, <1>4, <1>5, LifecycleAssumption DEF Placed
<1>8. Fields(frame[t])' /\ CountedAt(t)' /\ QuietAt(t)'
  BY <1>4, <1>5 DEF Fields, CountedAt, QuietAt
<1> QED
  BY <1>1, <1>2, <1>4, <1>5, <1>6, <1>7, <1>8, CallMovesStep

\* Only whether the process is alive changes.
LEMMA NothingMoves ==
  ASSUME IInv, IInv', LInv, alive' \in BOOLEAN,
         UNCHANGED <<client, store, holders, frame, handling, forked, stuck, history>>
  PROVE  LInv'
<1> USE DEF client, store, history
<1>1. TypeOK'
  BY DEF Repairable, LInv, TypeOK
<1>2. CallsPlaced'
  BY DEF LInv, CallsPlaced, Placed
<1>3. OneInside' /\ ReplaysLog' /\ SendsOwed' /\ LogOwed' /\ FatesKept'
  BY DEF LInv, OneInside, ReplaysLog, SendsOwed, LogOwed, FatesKept, Suspended, Repairable,
         Sends, Sending
<1>4. Ended' /\ Counted' /\ ShutdownQuiet'
  BY DEF LInv, Ended, Counted, ShutdownQuiet, Repairable, Sends, Sending
<1> QED
  BY <1>1, <1>2, <1>3, <1>4 DEF LInv

LEMMA ExitsKeeps ==
  ASSUME IInv, IInv', LInv, NEW t \in Threads, Exits(t) PROVE LInv'
<1>1. /\ t \in Frames /\ frame[t].pc = "idle"
      /\ UNCHANGED <<inflight, ids, live, store, holders, handling, forked, stuck, history>>
  BY DEF Exits, CanCall, At, Frames
<1>2. CASE live
  <2> DEFINE bounded == TRUE
             r == Begun("exit", "drain", 0, TRUE, {})
  <2>1. /\ frame' = [frame EXCEPT ![t] = r] /\ closed' = TRUE /\ UNCHANGED alive
    BY <1>2 DEF Exits
  <2>2. t \notin holders /\ frame[t].op = "none" /\ TypeOK
    BY <1>1, IdleFacts DEF LInv
  <2>3. Fields(r) /\ r.op = "exit" /\ r.pc = "drain" /\ r.bounded = TRUE
    BY DEF Begun, Fields, Operations, Places
  <2> HIDE DEF r
  <2>4. frame'[t] = r /\ \A g \in Frames \ {t} : frame'[g] = frame[g]
    BY <1>1, <2>1, OneFrame
  <2>5. CallMoves(t)
    BY <1>1, <2>1, <2>2, <2>3, <2>4
    DEF CallMoves, TypeOK, LInv, Ended, store, history, Delivering
  <2>6. Placed(t, frame[t])'
    BY <1>1, <2>1, <2>3, <2>4, LifecycleAssumption DEF Placed
  <2>7. Fields(frame[t])' /\ CountedAt(t)' /\ QuietAt(t)'
    BY <2>3, <2>4 DEF Fields, CountedAt, QuietAt
  <2> QED
    BY <1>1, <2>2, <2>3, <2>4, <2>5, <2>6, <2>7, CallMovesStep
<1>3. CASE ~live
  <2>1. alive' = FALSE /\ UNCHANGED <<closed, frame>>
    BY <1>3 DEF Exits
  <2>2. UNCHANGED <<client, store, holders, frame, handling, forked, stuck, history>>
    BY <1>1, <2>1 DEF client
  <2> QED
    BY <2>1, <2>2, NothingMoves
<1> QED
  BY <1>2, <1>3

LEMMA SignalKeeps ==
  ASSUME IInv, IInv', LInv, SignalArrives PROVE LInv'
<1> DEFINE f == Handler
           owes == ToSet(log)
<1>1. /\ f \in Frames /\ ~handling /\ handling' = TRUE
      /\ UNCHANGED <<client, store, holders, alive, forked, stuck, history>>
  BY DEF SignalArrives, Frames
<1>2. frame[f].pc = "idle"
  <2>1. Placed(f, frame[f])
    BY <1>1, TypeFacts
  <2> QED
    BY <1>1, <2>1 DEF Placed
<1>3. f \notin holders /\ frame[f].op = "none" /\ TypeOK
  BY <1>1, <1>2, IdleFacts DEF LInv
<1>4. PICK r : /\ frame' = [frame EXCEPT ![f] = r]
               /\ Fields(r) /\ r.late = FALSE
               /\ <<r.op, r.pc>> \in {<<"flush", "lock">>, <<"kill", "kill">>}
  <2> DEFINE flush == Begun("flush", "lock", 0, TRUE, owes)
             kill == Begun("kill", "kill", 0, FALSE, {})
  <2>1. owes \in SUBSET Event
    BY TypeFacts
  <2> HIDE DEF owes
  <2>2. Fields(flush) /\ flush.late = FALSE /\ flush.op = "flush" /\ flush.pc = "lock"
    BY <2>1 DEF Begun, Fields, Operations, Places
  <2>3. Fields(kill) /\ kill.late = FALSE /\ kill.op = "kill" /\ kill.pc = "kill"
    BY DEF Begun, Fields, Operations, Places
  <2>4. frame' = [frame EXCEPT ![f] = flush] \/ frame' = [frame EXCEPT ![f] = kill]
    BY DEF SignalArrives, owes
  <2> HIDE DEF flush, kill
  <2> QED
    BY <2>2, <2>3, <2>4
<1>5. frame'[f] = r /\ \A g \in Frames \ {f} : frame'[g] = frame[g]
  BY <1>1, <1>4, OneFrame
<1>6. CallMoves(f)
  BY <1>1, <1>3, <1>4, <1>5
  DEF CallMoves, TypeOK, LInv, Ended, client, store, history, Delivering
<1>7. Placed(f, frame[f])'
  BY <1>1, <1>4, <1>5, LifecycleAssumption DEF Placed
<1>8. Fields(frame[f])' /\ CountedAt(f)' /\ QuietAt(f)'
  BY <1>4, <1>5 DEF Fields, CountedAt, QuietAt
<1> QED
  BY <1>1, <1>3, <1>4, <1>5, <1>6, <1>7, <1>8, CallMovesStep

\* Where a call that is not a send may be.
LEMMA PlaceFacts ==
  ASSUME LInv, IInv, NEW f \in Frames
  PROVE  /\ Fields(frame[f]) /\ Shaped(frame[f]) /\ Placed(f, frame[f])
         /\ frame[f].pc \in {"replay", "reading"} => frame[f].op \in {"flush", "shutdown"}
         /\ frame[f].pc = "lock" => frame[f].op \in {"track", "flush", "shutdown"}
         /\ frame[f].pc \in {"drain", "drain_wait"} => frame[f].op \in {"shutdown", "exit"}
         /\ frame[f].pc \in {"post", "settle"} => frame[f].op = "track" /\ f \in Threads
<1>1. Fields(frame[f]) /\ Shaped(frame[f]) /\ Placed(f, frame[f])
  BY TypeFacts
<1> QED
  BY <1>1 DEF Fields, Placed, Operations

\* A call ends, in or outside the lock.
LEMMA LeavesKeeps ==
  ASSUME IInv, IInv', LInv, NEW f \in Frames, Leaves(f) \/ Raises(f),
         \/ frame[f].op \in {"flush", "shutdown"}
         \/ frame[f].op = "exit" /\ f # Handler,
         holders' \in {holders, holders \ {f}}, f \notin holders',
         UNCHANGED <<closed, inflight, ids, store, handling, forked, stuck, history>>
  PROVE  LInv'
<1>1. frame' = [frame EXCEPT ![f] = Idle] /\ alive' \in BOOLEAN
  BY DEF Leaves, Raises, EndsCall
<1>2. /\ frame'[f] = Idle /\ \A g \in Frames \ {f} : frame'[g] = frame[g]
      /\ Placed(f, frame[f]) /\ TypeOK
  BY <1>1, OneFrame, PlaceFacts DEF LInv
<1>3. live' \in BOOLEAN /\ (~live' => closed)
  BY <1>2 DEF Leaves, Raises, LInv, TypeOK, Ended, Placed
<1>4. CallMoves(f)
  BY <1>1, <1>2, <1>3, IdleFields DEF CallMoves, TypeOK, store, history, Delivering
<1>5. Placed(f, frame[f])'
  BY <1>2, IdleFields DEF Placed
<1>6. Fields(frame[f])' /\ CountedAt(f)' /\ QuietAt(f)'
  BY <1>2, IdleFields DEF Fields, CountedAt, QuietAt
<1>7. frame[f].op # "track" /\ frame'[f].op # "track" /\ frame'[f].pc # "replay"
  BY <1>2, IdleFields
<1> QED
  BY <1>4, <1>5, <1>6, <1>7, CallMovesStep

\* A call moves to a place outside the lock.
LEMMA GoesKeeps ==
  ASSUME IInv, IInv', LInv, NEW f \in Frames, NEW place \in {"lock", "drain_wait"},
         Goes(f, place), frame[f].pc = "drain",
         place = "lock" => /\ frame[f].op = "shutdown" /\ frame[f].bounded = FALSE
                           /\ Repairable => Sends = {},
         UNCHANGED <<client, store, holders, process, history>>
  PROVE  LInv'
<1> DEFINE r == [frame[f] EXCEPT !.pc = place]
<1>1. frame' = [frame EXCEPT ![f] = r]
  BY DEF Goes
<1>2. /\ Fields(frame[f]) /\ Shaped(frame[f]) /\ Placed(f, frame[f])
      /\ frame[f].op \in {"shutdown", "exit"} /\ f \notin holders /\ TypeOK
  BY PlaceFacts, OutsideFacts DEF LInv, Delivering
<1>3. /\ r.op = frame[f].op /\ r.pc = place /\ r.event = frame[f].event
      /\ r.bounded = frame[f].bounded /\ r.late = frame[f].late /\ r.todo = frame[f].todo
      /\ r.owed = frame[f].owed /\ r.seen = frame[f].seen /\ r.count = frame[f].count
  BY <1>2, PcFields
<1> HIDE DEF r
<1>4. frame'[f] = r /\ \A g \in Frames \ {f} : frame'[g] = frame[g]
  BY <1>1, OneFrame
<1>5. CallMoves(f)
  BY <1>2, <1>3, <1>4
  DEF CallMoves, TypeOK, LInv, Ended, client, store, process, history, Delivering
<1>6. Placed(f, frame[f])' /\ Fields(frame[f])' /\ CountedAt(f)'
  BY <1>2, <1>3, <1>4 DEF Placed, Fields, CountedAt, Places, client, process, history
<1>7. Sends' = Sends
  BY <1>2, <1>3, <1>4 DEF Sends, Sending
<1>8. QuietAt(f)'
  BY <1>3, <1>4, <1>7 DEF QuietAt, Repairable, process
<1> QED
  BY <1>2, <1>3, <1>4, <1>5, <1>6, <1>8, CallMovesStep

LEMMA DrainKeeps ==
  ASSUME IInv, IInv', LInv, NEW t \in Threads, Drain(t) PROVE LInv'
<1>1. /\ t \in Frames /\ frame[t].pc = "drain" /\ t # Handler
  BY LifecycleAssumption DEF Drain, ShutdownWaits, ShutdownDrained, At, Frames
<1>2. /\ Fields(frame[t]) /\ Placed(t, frame[t]) /\ frame[t].op \in {"shutdown", "exit"}
      /\ t \notin holders
  BY <1>1, PlaceFacts, OutsideFacts DEF Delivering
<1>3. CASE ShutdownWaits(t)
  BY <1>1, <1>3, GoesKeeps DEF ShutdownWaits
<1>4. CASE ShutdownDrained(t) /\ Leaves(t)
  BY <1>1, <1>2, <1>4, LeavesKeeps DEF ShutdownDrained
<1>5. CASE ShutdownDrained(t) /\ ~Leaves(t)
  <2>1. /\ ~frame[t].bounded /\ Goes(t, "lock") /\ NothingToAwait(t)
        /\ UNCHANGED <<client, store, holders, process, history>>
    BY <1>5 DEF ShutdownDrained, client, process
  <2>2. frame[t].bounded = FALSE /\ frame[t].late = FALSE /\ frame[t].op = "shutdown"
    BY <1>2, <2>1 DEF Fields, Placed
  <2>3. Repairable => Sends = {}
    <3> SUFFICES ASSUME Repairable PROVE Sends = {}
      OBVIOUS
    <3>1. inflight = 0 /\ inflight = Cardinality(Sends)
      BY <2>1, <2>2 DEF NothingToAwait, IInv, InflightExact
    <3> QED
      BY <3>1, FramesFinite, FS_EmptySet
  <2> QED
    BY <1>1, <2>1, <2>2, <2>3, GoesKeeps
<1> QED
  BY <1>3, <1>4, <1>5 DEF Drain

LEMMA RecoverLockedKeeps ==
  ASSUME IInv, IInv', LInv, NEW f \in Frames, RecoverLocked(f) PROVE LInv'
<1> DEFINE n == [frame[f] EXCEPT !.pc = "replay"]
           r == [n EXCEPT !.todo = log]
<1>1. /\ [frame[f] EXCEPT !.pc = "replay", !.todo = log] = r
      /\ frame[f].pc = "lock" /\ frame[f].op # "track" /\ LockFree(f)
      /\ holders' = holders \cup {f}
      /\ UNCHANGED <<client, store, process, history>>
  BY DEF RecoverLocked, At, Sending
<1>2. frame' = [frame EXCEPT ![f] = r]
  BY <1>1 DEF RecoverLocked
<1>3. /\ Fields(frame[f]) /\ Shaped(frame[f]) /\ Placed(f, frame[f])
      /\ frame[f].op \in {"flush", "shutdown"} /\ TypeOK /\ log \in Seq(Event)
  BY <1>1, PlaceFacts DEF LInv, TypeOK
<1>4. Shaped(n) /\ n.pc = "replay"
  BY <1>3, PcChanged
<1>5. /\ n.op = frame[f].op /\ n.pc = "replay" /\ n.event = frame[f].event
      /\ n.bounded = frame[f].bounded /\ n.late = frame[f].late
      /\ n.owed = frame[f].owed /\ n.seen = frame[f].seen /\ n.count = frame[f].count
  BY <1>3, PcFields
<1> HIDE DEF n
<1>6. /\ r.op = n.op /\ r.pc = n.pc /\ r.event = n.event
      /\ r.bounded = n.bounded /\ r.late = n.late /\ r.todo = log
      /\ r.owed = n.owed /\ r.seen = n.seen /\ r.count = n.count
  BY <1>4, TodoFields
<1> HIDE DEF r
<1>7. frame'[f] = r /\ \A g \in Frames \ {f} : frame'[g] = frame[g]
  BY <1>2, OneFrame
<1>8. CallMoves(f)
  BY <1>1, <1>3, <1>5, <1>6, <1>7
  DEF CallMoves, TypeOK, LInv, Ended, client, store, process, history, Delivering, LockFree
<1>9. Placed(f, frame[f])' /\ CountedAt(f)'
  BY <1>1, <1>3, <1>5, <1>6, <1>7 DEF Placed, CountedAt, client, process, history
<1>10. Fields(frame[f])'
  BY <1>3, <1>5, <1>6, <1>7 DEF Fields, Places
<1>11. Sends' = Sends
  <2>1. \A g \in Frames : frame'[g].op = frame[g].op
    BY <1>5, <1>6, <1>7
  <2> QED
    BY <2>1 DEF Sends, Sending
<1>12. QuietAt(f)'
  BY <1>1, <1>3, <1>5, <1>6, <1>7, <1>11 DEF QuietAt, Repairable, process, LInv, ShutdownQuiet
<1> QED
  BY <1>1, <1>3, <1>5, <1>6, <1>7, <1>8, <1>9, <1>10, <1>12, CallMovesStep

\* A call hangs inside the lock.
LEMMA SnapshotHangsKeeps ==
  ASSUME IInv, IInv', LInv, NEW f \in Frames, SnapshotHangs(f) PROVE LInv'
<1> DEFINE r == [frame[f] EXCEPT !.pc = "reading"]
<1>1. /\ frame[f].pc = "lock" /\ frame[f].op # "track" /\ LockFree(f)
      /\ holders' = holders \cup {f} /\ frame' = [frame EXCEPT ![f] = r]
      /\ UNCHANGED <<client, store, process, history>>
  BY DEF SnapshotHangs, At, Sending, Goes
<1>2. /\ Fields(frame[f]) /\ Shaped(frame[f]) /\ Placed(f, frame[f])
      /\ frame[f].op \in {"flush", "shutdown"} /\ TypeOK
  BY <1>1, PlaceFacts DEF LInv
<1>3. /\ r.op = frame[f].op /\ r.pc = "reading" /\ r.event = frame[f].event
      /\ r.bounded = frame[f].bounded /\ r.late = frame[f].late /\ r.todo = frame[f].todo
      /\ r.owed = frame[f].owed /\ r.seen = frame[f].seen /\ r.count = frame[f].count
  BY <1>2, PcFields
<1> HIDE DEF r
<1>4. frame'[f] = r /\ \A g \in Frames \ {f} : frame'[g] = frame[g]
  BY <1>1, OneFrame
<1>5. CallMoves(f)
  BY <1>1, <1>2, <1>3, <1>4
  DEF CallMoves, TypeOK, LInv, Ended, client, store, process, history, Delivering, LockFree
<1>6. Placed(f, frame[f])' /\ Fields(frame[f])' /\ CountedAt(f)'
  BY <1>1, <1>2, <1>3, <1>4 DEF Placed, Fields, CountedAt, Places, client, process, history
<1>7. QuietAt(f)'
  BY <1>3, <1>4 DEF QuietAt
<1> QED
  BY <1>1, <1>2, <1>3, <1>4, <1>5, <1>6, <1>7, CallMovesStep

LEMMA CallHangsKeeps ==
  ASSUME IInv, IInv', LInv, NEW t \in Threads, CallHangs(t) PROVE LInv'
<1>1. PICK bounded \in BOOLEAN :
        /\ frame' = [frame EXCEPT ![t] = Begun("hung", "hung", 0, bounded, {})]
        /\ frame[t].pc = "idle"
  BY DEF CallHangs, CanCall, At
<1> DEFINE r == Begun("hung", "hung", 0, bounded, {})
<1>2. t \in Frames /\ UNCHANGED <<client, store, holders, process, history>>
  BY DEF CallHangs, Frames
<1>3. t \notin holders /\ frame[t].op = "none" /\ TypeOK
  BY <1>1, <1>2, IdleFacts DEF LInv
<1>4. {} \in SUBSET Event /\ "hung" \in Operations /\ "hung" \in Places /\ 0 \in Nat
  BY DEF Operations, Places
<1>5. Fields(r) /\ r.op = "hung" /\ r.pc = "hung" /\ r.late = FALSE
  BY <1>4 DEF Begun, Fields, Operations, Places
<1>6. frame' = [frame EXCEPT ![t] = r]
  BY <1>1
<1> HIDE DEF r
<1>7. frame'[t] = r /\ \A g \in Frames \ {t} : frame'[g] = frame[g]
  BY <1>2, <1>6, OneFrame
<1>8. CallMoves(t)
  BY <1>1, <1>2, <1>3, <1>5, <1>7
  DEF CallMoves, TypeOK, LInv, Ended, client, store, process, history, Delivering
<1>9. Placed(t, frame[t])'
  BY <1>2, <1>5, <1>7, LifecycleAssumption DEF Placed
<1>10. Fields(frame[t])' /\ CountedAt(t)' /\ QuietAt(t)'
  BY <1>5, <1>7 DEF Fields, CountedAt, QuietAt
<1> QED
  BY <1>2, <1>3, <1>5, <1>7, <1>8, <1>9, <1>10, CallMovesStep

LEMMA RecoverEndsKeeps ==
  ASSUME IInv, IInv', LInv, NEW f \in Frames,
         LockTimesOut(f) \/ ReplayFails(f) \/ ReplayRaises(f) \/ ReplayDone(f)
  PROVE  LInv'
<1>1. /\ Leaves(f) \/ Raises(f)
      /\ UNCHANGED <<closed, inflight, ids, store, handling, forked, stuck, history>>
  BY DEF LockTimesOut, ReplayFails, ReplayRaises, ReplayDone
<1>2. Fields(frame[f]) /\ Placed(f, frame[f])
  BY PlaceFacts
<1>3. CASE LockTimesOut(f)
  <2>1. frame[f].pc = "lock" /\ frame[f].late = TRUE /\ holders' = holders
    BY <1>2, <1>3 DEF LockTimesOut, At, OutOfTime, Fields
  <2>2. f \notin holders /\ frame[f].op = "flush"
    <3>1. frame[f].op \in {"track", "flush", "shutdown"}
      BY <2>1, PlaceFacts
    <3> QED
      BY <1>2, <2>1, <3>1, OutsideFacts DEF Placed, Delivering
  <2> QED
    BY <1>1, <2>1, <2>2, LeavesKeeps
<1>4. CASE ReplayFails(f) \/ ReplayRaises(f) \/ ReplayDone(f)
  <2>1. frame[f].pc = "replay" /\ holders' = holders \ {f}
    BY <1>4 DEF ReplayFails, ReplayRaises, ReplayDone, At
  <2>2. frame[f].op \in {"flush", "shutdown"}
    BY <2>1, PlaceFacts
  <2> QED
    BY <1>1, <2>1, <2>2, LeavesKeeps
<1> QED
  BY <1>3, <1>4

LEMMA DeadlineKeeps ==
  ASSUME IInv, IInv', LInv, NEW f \in Frames, DeadlinePasses(f) PROVE LInv'
<1> DEFINE place == IF frame[f].pc = "drain_wait" THEN "drain" ELSE frame[f].pc
           n == [frame[f] EXCEPT !.late = TRUE]
           r == [n EXCEPT !.pc = place]
<1>1. /\ [frame[f] EXCEPT !.late = TRUE,
                          !.pc = IF frame[f].pc = "drain_wait" THEN "drain" ELSE frame[f].pc] = r
      /\ UNCHANGED <<client, store, holders, process, history>>
  BY DEF DeadlinePasses
<1>2. frame' = [frame EXCEPT ![f] = r]
  BY <1>1 DEF DeadlinePasses
<1>3. /\ Fields(frame[f]) /\ Shaped(frame[f]) /\ Placed(f, frame[f]) /\ TypeOK
  BY PlaceFacts DEF LInv
<1>4. frame[f].bounded = TRUE
  BY <1>3 DEF DeadlinePasses, Fields
<1>5. /\ Shaped(n)
      /\ n.op = frame[f].op /\ n.pc = frame[f].pc /\ n.event = frame[f].event
      /\ n.bounded = frame[f].bounded /\ n.late = TRUE /\ n.todo = frame[f].todo
      /\ n.owed = frame[f].owed /\ n.seen = frame[f].seen /\ n.count = frame[f].count
  BY <1>3, LateFields
<1> HIDE DEF n, place
<1>6. /\ r.op = n.op /\ r.pc = place /\ r.event = n.event
      /\ r.bounded = n.bounded /\ r.late = n.late /\ r.todo = n.todo
      /\ r.owed = n.owed /\ r.seen = n.seen /\ r.count = n.count
  BY <1>5, PcFields
<1> HIDE DEF r
<1>7. frame'[f] = r /\ \A g \in Frames \ {f} : frame'[g] = frame[g]
  BY <1>2, OneFrame
<1>8. frame[f].op # "track"
  BY <1>3, <1>4 DEF Placed
<1>9. f \in holders <=> frame[f].pc \in Delivering
  BY DEF LInv, OneInside
<1>10. CallMoves(f)
  BY <1>1, <1>3, <1>5, <1>6, <1>7, <1>9
  DEF CallMoves, TypeOK, LInv, Ended, client, store, process, history, Delivering, OneInside,
      place
<1>11. Placed(f, frame[f])'
  BY <1>1, <1>3, <1>4, <1>5, <1>6, <1>7 DEF Placed, client, process, history, place
<1>12. Fields(frame[f])'
  BY <1>3, <1>5, <1>6, <1>7 DEF Fields, Places, place
<1>13. Sends' = Sends
  BY <1>5, <1>6, <1>7, <1>8 DEF Sends, Sending
<1>14. QuietAt(f)' /\ CountedAt(f)'
  BY <1>1, <1>5, <1>6, <1>7, <1>13
  DEF QuietAt, CountedAt, Repairable, process, client, history, LInv, ShutdownQuiet, Counted, place
<1>15. frame'[f].pc = "replay" => Suspended(f)' \/ frame'[f].todo = log
  BY <1>1, <1>5, <1>6, <1>7 DEF LInv, ReplaysLog, Suspended, process, place
<1> QED
  BY <1>5, <1>6, <1>7, <1>8, <1>10, <1>11, <1>12, <1>14, <1>15, CallMovesStep

\* As many events are being sent as there are sends.
LEMMA SendsCount ==
  ASSUME IInv, Repairable
  PROVE  inflight = Cardinality(ids) /\ inflight \in Nat
<1> DEFINE e == [f \in Sends |-> frame[f].event]
<1>1. inflight = Cardinality(Sends) /\ ids = {frame[f].event : f \in Sends}
  BY DEF IInv, InflightExact
<1>2. e \in Bijection(Sends, ids)
  <2>1. \A f \in Sends : e[f] = frame[f].event
    OBVIOUS
  <2>2. e \in [Sends -> ids]
    BY <1>1
  <2>3. \A f, g \in Sends : e[f] = e[g] => f = g
    BY <2>1 DEF IInv, SendsDistinct
  <2>4. \A x \in ids : \E f \in Sends : e[f] = x
    BY <1>1, <2>1
  <2> HIDE DEF e
  <2> QED
    BY <2>2, <2>3, <2>4 DEF Bijection, Injection, Surjection, IsInjective
<1> HIDE DEF e
<1>3. Cardinality(ids) = Cardinality(Sends)
  BY <1>2, FramesFinite, FS_Bijection DEF ExistsBijection
<1> QED
  BY <1>1, <1>3, FramesFinite

LEMMA PendingCountsKeeps ==
  ASSUME IInv, IInv', LInv, NEW t \in Threads, PendingCounts(t) PROVE LInv'
<1> DEFINE owes == ids \cup ToSet(log)
           b == Begun("pending", "snapshot", 0, FALSE, owes)
           r == [b EXCEPT !.seen = ids, !.count = inflight]
<1>1. /\ frame' = [frame EXCEPT ![t] = r] /\ t \in Frames /\ frame[t].pc = "idle"
      /\ UNCHANGED <<client, store, holders, process, history>>
  BY DEF PendingCounts, CanCall, At, Frames
<1>2. t \notin holders /\ frame[t].op = "none" /\ TypeOK
  BY <1>1, IdleFacts DEF LInv
<1>3. owes \in SUBSET Event /\ owes \subseteq 1 .. tracked /\ ids \subseteq owes
      /\ ids \in SUBSET Event /\ inflight \in Nat
  BY <1>2, TypeFacts DEF TypeOK
<1> HIDE DEF owes
<1>4. /\ Fields(b) /\ b.op = "pending" /\ b.pc = "snapshot" /\ b.late = FALSE /\ b.owed = owes
      /\ Shaped(b)
  BY <1>3 DEF Begun, Fields, Operations, Places, Shaped
<1> HIDE DEF b
<1>5. /\ r.op = "pending" /\ r.pc = "snapshot" /\ r.late = FALSE /\ r.owed = owes
      /\ r.seen = ids /\ r.count = inflight /\ r.event = b.event /\ r.bounded = b.bounded
      /\ r.todo = b.todo
  BY <1>4 DEF Shaped
<1> HIDE DEF r
<1>6. Fields(r)
  BY <1>3, <1>4, <1>5 DEF Fields, Operations, Places
<1>7. frame'[t] = r /\ \A g \in Frames \ {t} : frame'[g] = frame[g]
  BY <1>1, OneFrame
<1>8. CallMoves(t)
  BY <1>1, <1>2, <1>5, <1>7
  DEF CallMoves, TypeOK, LInv, Ended, client, store, process, history, Delivering
<1>9. Placed(t, frame[t])'
  BY <1>1, <1>5, <1>7, LifecycleAssumption DEF Placed
<1>10. CountedAt(t)'
  <2>1. Repairable => inflight = Cardinality(ids)
    BY SendsCount
  <2> QED
    BY <1>1, <1>3, <1>5, <1>7, <2>1 DEF CountedAt, Repairable, client, process, history
<1>11. Fields(frame[t])' /\ QuietAt(t)'
  BY <1>5, <1>6, <1>7 DEF Fields, QuietAt
<1> QED
  BY <1>1, <1>2, <1>5, <1>7, <1>8, <1>9, <1>10, <1>11, CallMovesStep

LEMMA PendingReturnsKeeps ==
  ASSUME IInv, IInv', LInv, NEW t \in Threads, PendingReturns(t) PROVE LInv'
<1>1. /\ frame' = [frame EXCEPT ![t] = Idle] /\ t \in Frames /\ frame[t].pc = "snapshot"
      /\ UNCHANGED <<client, store, holders, process, history>>
  BY DEF PendingReturns, At, Frames
<1>2. /\ frame'[t] = Idle /\ \A g \in Frames \ {t} : frame'[g] = frame[g]
      /\ Placed(t, frame[t]) /\ TypeOK /\ t \notin holders
  BY <1>1, OneFrame, PlaceFacts, OutsideFacts DEF LInv, Delivering
<1>3. frame[t].op = "pending"
  BY <1>1, <1>2 DEF Placed
<1>4. CallMoves(t)
  BY <1>1, <1>2, IdleFields
  DEF CallMoves, TypeOK, LInv, Ended, client, store, process, history, Delivering
<1>5. Placed(t, frame[t])'
  BY <1>2, IdleFields, LifecycleAssumption DEF Placed
<1>6. Fields(frame[t])' /\ CountedAt(t)' /\ QuietAt(t)'
  BY <1>2, IdleFields DEF Fields, CountedAt, QuietAt
<1> QED
  BY <1>1, <1>2, <1>3, <1>4, <1>5, <1>6, IdleFields, CallMovesStep

-----------------------------------------------------------------------------
(* The events.                                                             *)

\* The fate that changes, and the others.
LEMMA OneFate ==
  ASSUME LInv, IInv, NEW e \in Event, NEW what, Becomes(e, what)
  PROVE  fate'[e] = what /\ \A d \in Event \ {e} : fate'[d] = fate[d]
<1>1. fate = [d \in Event |-> fate[d]]
  BY TypeFacts
<1> QED
  BY <1>1 DEF Becomes

LEMMA RefusedKeeps ==
  ASSUME IInv, IInv', LInv, NEW t \in Threads, AdmitRefused(t) PROVE LInv'
<1> DEFINE e == tracked + 1
<1>1. /\ tracked' = e /\ Becomes(e, "refused") /\ tracked < MaxEvents
      /\ UNCHANGED <<client, store, holders, frame, process>>
  BY DEF AdmitRefused
<1>2. /\ e \in Event /\ e \in 0 .. MaxEvents /\ tracked \in Nat
      /\ e = tracked + 1 /\ MaxEvents \in Nat
      /\ \A d \in 1 .. tracked : d # e /\ d \in 1 .. e
      /\ \A d \in Event : d > e => d > tracked /\ d # e
  BY <1>1, TypeFacts DEF Event
<1>3. ToSet(log) \subseteq 1 .. tracked /\ ToSet(log) \subseteq Event
      /\ \A f \in Frames : Fields(frame[f])
  BY TypeFacts
<1> HIDE DEF e
<1>4. fate'[e] = "refused" /\ \A d \in Event \ {e} : fate'[d] = fate[d]
  BY <1>1, <1>2, OneFate
<1>5. fate[e] = "new"
  BY <1>2 DEF LInv, FatesKept
<1>6. TypeOK' /\ (ids \subseteq 1 .. tracked)'
  BY <1>1, <1>2 DEF Repairable, LInv, TypeOK, Becomes, client, store, process
<1>7. CallsPlaced'
  BY <1>1, <1>2 DEF LInv, CallsPlaced, Placed, client, process
<1>8. \A f \in Sends : frame[f].event \in Event \ {e}
  <2>1. \A f \in Sends : frame[f].event \in 1 .. tracked /\ f \in Frames
    BY DEF Sends, Sending, IInv, FramesConsistent, Consistent
  <2> QED
    BY <1>2, <2>1 DEF Event
<1>9. \A f \in Frames : frame[f].pc = "post" => f \in Sends
  BY DEF Sends, Sending, IInv, FramesConsistent, Consistent
<1>10. OneInside' /\ ReplaysLog' /\ Sends' = Sends
  BY <1>1 DEF LInv, OneInside, ReplaysLog, Suspended, Sends, Sending, client, store, process
<1>11. SendsOwed'
  BY <1>1, <1>4, <1>8, <1>9 DEF LInv, SendsOwed, Suspended, Sends, Sending, client, store, process
<1>12. LogOwed'
  BY <1>1, <1>2, <1>3, <1>4 DEF LInv, LogOwed, Repairable, store, process
<1>13. FatesKept'
  BY <1>1, <1>2, <1>4, <1>10 DEF LInv, FatesKept, store
<1>14. Ended' /\ Counted' /\ ShutdownQuiet'
  BY <1>1, <1>2, <1>10 DEF LInv, Ended, Counted, ShutdownQuiet, Repairable, client, process
<1> QED
  BY <1>6, <1>7, <1>10, <1>11, <1>12, <1>13, <1>14 DEF LInv

\* The facts every step of a send needs.
LEMMA SendFacts ==
  ASSUME LInv, IInv
  PROVE  /\ \A f \in Sends : /\ f \in Frames /\ f \in Threads /\ frame[f].op = "track"
                             /\ frame[f].event \in Event /\ frame[f].event \in 1 .. tracked
                             /\ frame[f].pc \in {"lock", "post", "settle"}
         /\ \A f \in Frames : frame[f].op = "track" => f \in Sends
         /\ \A f \in Frames : frame[f].pc \in {"post", "settle"} => f \in Sends
         /\ \A f, g \in Sends : f # g => frame[f].event # frame[g].event
<1>1. \A f \in Sends : f \in Frames /\ f \in Threads /\ frame[f].op = "track"
                       /\ frame[f].event \in 1 .. tracked
                       /\ frame[f].pc \in {"lock", "post", "settle"}
  BY DEF Sends, Sending, IInv, FramesConsistent, Consistent
<1>2. \A d \in 1 .. tracked : d \in Event
  BY TypeFacts DEF Event
<1>3. \A f, g \in Sends : f # g => frame[f].event # frame[g].event
  BY DEF IInv, SendsDistinct
<1>4. \A f \in Frames : /\ frame[f].op = "track" => f \in Sends
                        /\ frame[f].pc \in {"post", "settle"} => f \in Sends
  BY DEF Sends, Sending, IInv, FramesConsistent, Consistent
<1> QED
  BY <1>1, <1>2, <1>3, <1>4

LEMMA AdmitKeeps ==
  ASSUME IInv, IInv', LInv, NEW t \in Threads, Admit(t) PROVE LInv'
<1> DEFINE e == tracked + 1
           r == Begun("track", "lock", e, FALSE, {})
<1>1. /\ tracked' = e /\ Becomes(e, "sending") /\ tracked < MaxEvents /\ ~closed
      /\ inflight' = inflight + 1 /\ ids' = ids \cup {e}
      /\ frame' = [frame EXCEPT ![t] = r] /\ t \in Frames /\ frame[t].pc = "idle"
      /\ UNCHANGED <<closed, live, store, holders, process>>
  BY DEF Admit, CanCall, At, Frames
<1>2. e \in Event /\ e \in 0 .. MaxEvents /\ tracked \in Nat /\ e = tracked + 1 /\ MaxEvents \in Nat
      /\ (\A d \in 1 .. tracked : d # e /\ d \in 1 .. e) /\ e \in 1 .. e /\ e \in Nat
      /\ \A d \in Event : d > e => d > tracked /\ d # e
  BY <1>1, TypeFacts DEF Event
<1>3. /\ ToSet(log) \subseteq 1 .. tracked /\ ToSet(log) \subseteq Event
      /\ \A f \in Frames : Fields(frame[f]) /\ Placed(f, frame[f])
      /\ TypeOK /\ ids \subseteq 1 .. tracked
  BY TypeFacts DEF LInv
<1> HIDE DEF e
<1>4. Fields(r) /\ r.op = "track" /\ r.pc = "lock" /\ r.event = e /\ r.bounded = FALSE /\ r.late = FALSE
  BY <1>2 DEF Begun, Fields, Operations, Places
<1> HIDE DEF r
<1>5. frame'[t] = r /\ \A g \in Frames \ {t} : frame'[g] = frame[g]
  BY <1>1, OneFrame
<1>6. fate'[e] = "sending" /\ \A d \in Event \ {e} : fate'[d] = fate[d]
  BY <1>1, <1>2, OneFate
<1>7. t \notin holders /\ frame[t].op = "none"
  BY <1>1, IdleFacts
<1>8. t \in Sends' /\ t \notin Sends /\ Sends' = Sends \cup {t}
  BY <1>1, <1>4, <1>5, <1>7 DEF Sends, Sending
<1>9. FieldsInType'
  BY <1>3, <1>4, <1>5 DEF Fields, FieldsInType
<1>10. TypeOK' /\ (ids \subseteq 1 .. tracked)'
  <2>1. FramesShaped' => (FramesInType' <=> FieldsInType')
    BY FramesTyped, PTL
  <2>2. frame' \in [Frames -> FrameType]
    BY <1>9, <2>1 DEF IInv, FramesInType
  <2>3. inflight' \in Nat /\ ids' \subseteq 1 .. e /\ ids' \subseteq Event
        /\ fate' \in [Event -> {"new", "refused", "sending", "answered", "stored", "failed", "parent"}]
    BY <1>1, <1>2, <1>3 DEF TypeOK, Becomes
  <2> QED
    BY <1>1, <1>2, <1>3, <2>2, <2>3
    DEF TypeOK, FrameType, Operations, Places, store, process, Repairable
<1>11. CallsPlaced'
  BY <1>1, <1>2, <1>3, <1>4, <1>5, LifecycleAssumption DEF CallsPlaced, Placed, process
<1>12. OneInside' /\ ReplaysLog'
  BY <1>1, <1>4, <1>5, <1>7
  DEF LInv, OneInside, ReplaysLog, Suspended, Delivering, store, process
<1>13. SendsOwed'
  <2>1. e \notin ToSet(log)
    BY <1>2, <1>3
  <2>2. \A f \in Sends : frame[f].event \in Event \ {e}
    BY <1>2, SendFacts
  <2>3. \A f \in Frames : frame'[f].op = "track" => f = t \/ (f \in Sends /\ frame'[f] = frame[f])
    BY <1>5, SendFacts
  <2>4. \A f \in Frames : frame'[f].pc = "post" => f \in Sends /\ frame'[f] = frame[f]
    BY <1>4, <1>5, SendFacts
  <2> QED
    BY <1>1, <1>4, <1>5, <1>6, <2>1, <2>2, <2>3, <2>4, SendFacts
    DEF LInv, SendsOwed, Suspended, store, process
<1>14. LogOwed'
  BY <1>1, <1>2, <1>3, <1>6 DEF LInv, LogOwed, Repairable, store, process
<1>15. FatesKept'
  <2>1. \A f \in Sends : frame'[f] = frame[f]
    BY <1>5, <1>8, SendFacts
  <2> QED
    BY <1>1, <1>2, <1>4, <1>5, <1>6, <1>8, <2>1 DEF LInv, FatesKept, store
<1>16. Ended' /\ ShutdownQuiet'
  <2>1. \A f \in Frames : frame'[f].op # "shutdown"
    BY <1>1, <1>3, <1>4, <1>5 DEF Placed
  <2> QED
    BY <1>1, <2>1 DEF LInv, Ended, ShutdownQuiet, Repairable, process
<1>17. Counted'
  <2>1. \A f \in Frames : frame'[f].op = "pending" => frame'[f] = frame[f]
    BY <1>4, <1>5
  <2> QED
    BY <1>1, <1>2, <2>1 DEF LInv, Counted, Repairable, process
<1> QED
  BY <1>10, <1>11, <1>12, <1>13, <1>14, <1>15, <1>16, <1>17 DEF LInv

\* A send goes on: what holds of its place and of its event then.
SendMoves(t) ==
  /\ t \in Sends /\ ~Suspended(t) /\ frame[t].pc \in {"lock", "post"}
  /\ \A g \in Frames \ {t} : frame'[g] = frame[g]
  /\ Fields(frame[t])'
  /\ frame'[t].op = "track" /\ frame'[t].event = frame[t].event
  /\ frame'[t].bounded = FALSE /\ frame'[t].late = FALSE
  /\ UNCHANGED <<client, durable, process, tracked>>
  /\ holders' \subseteq Frames
  /\ log' \in Seq(Event)
  /\ fate' \in [Event -> {"new", "refused", "sending", "answered", "stored", "failed", "parent"}]
  /\ \A d \in Event \ {frame[t].event} :
       fate'[d] = fate[d] /\ (d \in ToSet(log') <=> d \in ToSet(log))
  /\ \A i, j \in DOMAIN log' : log'[i] = log'[j] => i = j
  /\ \/ /\ frame'[t].pc = "post" /\ fate'[frame[t].event] = "sending"
        /\ durable => frame[t].event \in ToSet(log')
     \/ /\ frame'[t].pc = "settle" /\ fate'[frame[t].event] \in {"answered", "stored", "failed"}
        /\ frame[t].event \in ToSet(log') <=> fate'[frame[t].event] = "stored"
  /\ ~durable => log' = <<>>

LEMMA SendMovesStep ==
  ASSUME IInv, IInv', LInv, NEW t, SendMoves(t), OneInside', ReplaysLog' PROVE LInv'
<1> USE DEF SendMoves
<1> DEFINE e == frame[t].event
<1>1. /\ t \in Frames /\ t \in Threads /\ e \in Event /\ e \in 1 .. tracked
      /\ \A f \in Sends \ {t} : frame[f].event \in Event \ {e}
  BY SendFacts
<1>2. /\ \A f \in Frames : Fields(frame[f]) /\ Placed(f, frame[f])
      /\ TypeOK /\ ids \subseteq 1 .. tracked
  BY TypeFacts DEF LInv
<1>3. FieldsInType'
  BY <1>1, <1>2 DEF Fields, FieldsInType
<1>4. TypeOK' /\ (ids \subseteq 1 .. tracked)'
  <2>1. FramesShaped' => (FramesInType' <=> FieldsInType')
    BY FramesTyped, PTL
  <2>2. frame' \in [Frames -> FrameType]
    BY <1>3, <2>1 DEF IInv, FramesInType
  <2> QED
    BY <1>2, <2>2 DEF Repairable, TypeOK, FrameType, Operations, Places, client, process
<1>5. CallsPlaced'
  BY <1>1, <1>2, LifecycleAssumption DEF CallsPlaced, Placed, client, process
<1>6. Sends' = Sends /\ \A f \in Sends \ {t} : frame'[f] = frame[f]
  BY <1>1, SendFacts DEF Sends, Sending
<1> HIDE DEF e
<1>7. SendsOwed'
  <2>1. \A f \in Frames : (frame'[f].op = "track" \/ frame'[f].pc = "post") => f \in Sends
    BY <1>1, SendFacts
  <2>2. ASSUME NEW f \in Sends \ {t}
        PROVE  /\ frame'[f].pc = "post" =>
                    /\ \/ fate'[frame'[f].event] = "sending"
                       \/ Suspended(f)' /\ fate'[frame'[f].event] = "answered"
                    /\ durable' /\ ~Suspended(f)' => frame'[f].event \in ToSet(log')
               /\ frame'[f].op = "track" /\ frame'[f].pc = "lock" =>
                    fate'[frame'[f].event] = "sending" /\ frame'[f].event \notin ToSet(log')
    <3>1. frame'[f] = frame[f] /\ frame[f].event \in Event \ {e} /\ f \in Frames
      BY <1>1, <1>6, SendFacts
    <3> QED
      BY <3>1 DEF LInv, SendsOwed, Suspended, process, e
  <2>3. /\ frame'[t].pc = "post" =>
             /\ fate'[frame'[t].event] = "sending"
             /\ durable' => frame'[t].event \in ToSet(log')
        /\ frame'[t].pc # "lock"
    OBVIOUS
  <2> QED
    BY <2>1, <2>2, <2>3 DEF SendsOwed
<1>8. LogOwed'
  <2>1. ASSUME NEW d \in ToSet(log')
        PROVE  fate'[d] \in {"sending", "stored"} \/ (fate'[d] = "parent" /\ ~Repairable')
    <3>1. d \in Event
      BY <2>1 DEF ToSet
    <3>2. CASE d = e
      BY <2>1, <3>2 DEF e
    <3>3. CASE d # e
      BY <2>1, <3>1, <3>3 DEF LInv, LogOwed, Repairable, process, e
    <3> QED
      BY <3>2, <3>3
  <2> QED
    BY <2>1 DEF LogOwed
<1>9. FatesKept'
  <2>1. ASSUME NEW d \in Event
        PROVE  /\ d > tracked' => fate'[d] = "new"
               /\ fate'[d] = "stored" => d \in ToSet(log')
               /\ fate'[d] = "sending" =>
                    \E f \in Sends' : frame'[f].event = d /\ frame'[f].pc \in {"lock", "post"}
    <3>1. CASE d = e
      <4>1. ~(d > tracked')
        BY <1>1, <1>2, <3>1 DEF TypeOK
      <4> QED
        BY <1>6, <3>1, <4>1 DEF e
    <3>2. CASE d # e
      <4>1. /\ d > tracked => fate[d] = "new"
            /\ fate[d] = "stored" => d \in ToSet(log)
            /\ fate[d] = "sending" =>
                 \E f \in Sends : frame[f].event = d /\ frame[f].pc \in {"lock", "post"}
        BY DEF LInv, FatesKept
      <4>2. \A f \in Sends : frame[f].event = d => frame'[f] = frame[f]
        BY <1>6, <3>2 DEF e
      <4>3. fate'[d] = fate[d] /\ (d \in ToSet(log') <=> d \in ToSet(log)) /\ tracked' = tracked
        BY <3>2 DEF e
      <4> QED
        BY <1>6, <4>1, <4>2, <4>3
    <3> QED
      BY <3>1, <3>2
  <2> QED
    BY <2>1 DEF FatesKept
<1>10. Ended' /\ Counted' /\ ShutdownQuiet'
  BY <1>1, <1>6 DEF LInv, Ended, Counted, ShutdownQuiet, Repairable, client, process
<1> QED
  BY <1>4, <1>5, <1>7, <1>8, <1>9, <1>10 DEF LInv

\* A thread that runs inside the lock is alone there.
LEMMA AloneInside ==
  ASSUME LInv, IInv, NEW t \in Threads, Runs(t), t \in holders \/ LockFree(t)
  PROVE  /\ holders \subseteq {t}
         /\ \A g \in Frames \ {t} : frame[g].pc \notin Delivering
<1>1. holders \subseteq Frames /\ t \in Frames
  BY DEF LInv, TypeOK, Frames
<1>2. \A h \in holders : ThreadOf(h) = t
  BY LifecycleAssumption DEF LInv, OneInside, LockFree, ThreadOf
<1>3. \A h \in holders : h = t \/ (h = Handler /\ t = Main)
  BY <1>1, <1>2, LifecycleAssumption DEF ThreadOf, Frames
<1>4. Handler \in holders /\ t = Main => FALSE
  <2>1. Handler \in Frames /\ Placed(Handler, frame[Handler])
    BY PlaceFacts DEF Frames
  <2> QED
    BY <2>1 DEF Runs, Placed, LInv, OneInside, Delivering
<1>5. holders \subseteq {t}
  BY <1>3, <1>4
<1> QED
  BY <1>5 DEF LInv, OneInside

\* What a place means to a send.
LEMMA SendAt ==
  ASSUME LInv, IInv, NEW t \in Threads, NEW place \in {"lock", "post"}, At(t, place),
         place = "lock" => Sending(t) /\ LockFree(t)
  PROVE  /\ t \in Sends /\ ~Suspended(t) /\ frame[t].pc = place
         /\ Fields(frame[t]) /\ Shaped(frame[t]) /\ Placed(t, frame[t])
         /\ frame[t].bounded = FALSE /\ frame[t].late = FALSE
         /\ fate[frame[t].event] = "sending" /\ frame[t].event \in Event
         /\ place = "post" => t \in holders /\ (durable => frame[t].event \in ToSet(log))
         /\ place = "lock" => frame[t].event \notin ToSet(log)
         /\ holders \subseteq {t}
         /\ \A g \in Frames \ {t} : frame[g].pc \notin Delivering
<1>1. t \in Frames /\ Runs(t) /\ frame[t].pc = place
  BY DEF Frames, At
<1>2. t \in Sends /\ frame[t].event \in Event /\ frame[t].op = "track"
  BY <1>1, SendFacts DEF Sends, Sending
<1>3. Fields(frame[t]) /\ Shaped(frame[t]) /\ Placed(t, frame[t]) /\ ~Suspended(t)
  BY <1>1, PlaceFacts DEF Runs, Suspended
<1>4. frame[t].bounded = FALSE /\ frame[t].late = FALSE
  BY <1>2, <1>3 DEF Placed, Fields
<1>5. place = "post" => t \in holders
  BY <1>1 DEF LInv, OneInside, Delivering
<1>6. holders \subseteq {t} /\ \A g \in Frames \ {t} : frame[g].pc \notin Delivering
  BY <1>1, <1>5, AloneInside
<1> QED
  BY <1>1, <1>2, <1>3, <1>4, <1>5, <1>6 DEF LInv, SendsOwed

\* A send that has moved, from its lock or its request.
LEMMA SendGoesOn ==
  ASSUME LInv, IInv, NEW t \in Frames, NEW place \in {"post", "settle"}, Goes(t, place),
         Fields(frame[t]), Shaped(frame[t])
  PROVE  /\ \A g \in Frames \ {t} : frame'[g] = frame[g]
         /\ Fields(frame[t])' /\ frame'[t].pc = place
         /\ frame'[t].op = frame[t].op /\ frame'[t].event = frame[t].event
         /\ frame'[t].bounded = frame[t].bounded /\ frame'[t].late = frame[t].late
<1> DEFINE r == [frame[t] EXCEPT !.pc = place]
<1>1. frame' = [frame EXCEPT ![t] = r]
  BY DEF Goes
<1>2. /\ r.op = frame[t].op /\ r.pc = place /\ r.event = frame[t].event
      /\ r.bounded = frame[t].bounded /\ r.late = frame[t].late /\ r.todo = frame[t].todo
      /\ r.owed = frame[t].owed /\ r.seen = frame[t].seen /\ r.count = frame[t].count
  BY PcFields
<1> HIDE DEF r
<1>3. frame'[t] = r /\ \A g \in Frames \ {t} : frame'[g] = frame[g]
  BY <1>1, OneFrame
<1> QED
  BY <1>2, <1>3 DEF Fields, Places

\* The lock and the replays around a send that has moved.
LEMMA SendInside ==
  ASSUME LInv, IInv, NEW t \in Frames, holders \subseteq {t},
         \A g \in Frames \ {t} : frame[g].pc \notin Delivering /\ frame'[g] = frame[g],
         \/ frame'[t].pc = "post" /\ holders' = holders \cup {t}
         \/ frame'[t].pc = "settle" /\ holders' = holders \ {t}
         \/ frame'[t].pc = "settle" /\ holders' = holders /\ t \notin holders
  PROVE  OneInside' /\ ReplaysLog' /\ holders' \subseteq Frames
<1>1. holders' \subseteq {t}
  OBVIOUS
<1>2. OneInside'
  BY <1>1 DEF OneInside, Delivering
<1>3. ReplaysLog'
  BY DEF ReplaysLog, Delivering
<1> QED
  BY <1>1, <1>2, <1>3

\* A log that is longer by one event, and one that is shorter.
LEMMA LogAppended ==
  ASSUME NEW s \in Seq(Event), NEW e \in Event, e \notin ToSet(s),
         \A i, j \in DOMAIN s : s[i] = s[j] => i = j
  PROVE  /\ Append(s, e) \in Seq(Event) /\ ToSet(Append(s, e)) = ToSet(s) \cup {e}
         /\ \A i, j \in DOMAIN Append(s, e) : Append(s, e)[i] = Append(s, e)[j] => i = j
<1> DEFINE u == Append(s, e)
<1>1. /\ u \in Seq(Event) /\ Len(s) \in Nat /\ DOMAIN s = 1 .. Len(s)
      /\ DOMAIN u = 1 .. (Len(s) + 1) /\ u[Len(s) + 1] = e
      /\ \A i \in 1 .. Len(s) : u[i] = s[i]
  OBVIOUS
<1> HIDE DEF u
<1>2. DOMAIN u = DOMAIN s \cup {Len(s) + 1} /\ Len(s) + 1 \notin DOMAIN s
  BY <1>1
<1>3. \A i \in DOMAIN s : u[i] # e
  BY <1>1 DEF ToSet
<1>4. ToSet(u) = ToSet(s) \cup {e}
  BY <1>1, <1>2 DEF ToSet
<1>5. \A i, j \in DOMAIN u : u[i] = u[j] => i = j
  BY <1>1, <1>2, <1>3
<1> QED
  BY <1>1, <1>4, <1>5 DEF u

LEMMA LogWithout ==
  ASSUME LInv, IInv, NEW e \in Event
  PROVE  /\ Without(e) \in Seq(Event) /\ ToSet(Without(e)) = ToSet(log) \ {e}
         /\ \A i, j \in DOMAIN Without(e) : Without(e)[i] = Without(e)[j] => i = j
         /\ log = <<>> => Without(e) = <<>>
         /\ log # <<>> /\ e = Head(log) => Without(e) = Tail(log)
<1>1. log \in Seq(Event) /\ \A i, j \in DOMAIN log : log[i] = log[j] => i = j
  BY TypeFacts DEF LInv, LogOwed
<1>2. CASE e \in ToSet(log)
  <2>1. PICK k \in DOMAIN log : log[k] = e
    BY <1>2 DEF ToSet
  <2>2. (CHOOSE i \in DOMAIN log : log[i] = e) = k
    BY <1>1, <2>1
  <2>3. Without(e) = RemoveAt(log, k)
    BY <1>2, <2>2 DEF Without
  <2>4. PICK s \in Seq(Event) : s = log
    BY <1>1
  <2>5. /\ RemoveAt(s, k) \in Seq(Event) /\ ToSet(RemoveAt(s, k)) = ToSet(s) \ {s[k]}
        /\ \A i, j \in DOMAIN RemoveAt(s, k) : RemoveAt(s, k)[i] = RemoveAt(s, k)[j] => i = j
        /\ k = 1 => RemoveAt(s, k) = Tail(s)
    BY <1>1, <2>1, <2>4, RemoveAtHolds
  <2>6. log # <<>> /\ e = Head(log) => k = 1
    BY <1>1, <2>1
  <2>7. log # <<>>
    BY <1>1, <2>1
  <2> QED
    BY <2>1, <2>3, <2>4, <2>5, <2>6, <2>7
<1>3. CASE e \notin ToSet(log)
  <2>1. Without(e) = log
    BY <1>3 DEF Without
  <2>2. log # <<>> => Head(log) \in ToSet(log)
    BY <1>1 DEF ToSet
  <2> QED
    BY <1>1, <1>3, <2>1, <2>2
<1> QED
  BY <1>2, <1>3

\* It moves so in each of its steps.
LEMMA DeliverMoves ==
  ASSUME IInv, LInv, NEW t \in Threads,
         SendLocked(t) \/ PutRaises(t) \/ Answered(t) \/ SendFails(t)
  PROVE  SendMoves(t) /\ OneInside' /\ ReplaysLog'
<1> DEFINE e == frame[t].event
<1>1. t \in Frames /\ TypeOK /\ log \in Seq(Event) /\ log' \in Seq(Event) \cup {log'}
      /\ \A i, j \in DOMAIN log : log[i] = log[j] => i = j
  BY DEF Frames, LInv, TypeOK, LogOwed
<1>2. CASE SendLocked(t)
  <2>1. /\ At(t, "lock") /\ Sending(t) /\ LockFree(t) /\ holders' = holders \cup {t}
        /\ log' = (IF durable THEN Append(log, e) ELSE log) /\ Goes(t, "post")
        /\ UNCHANGED <<client, durable, process, history>>
    BY <1>2 DEF SendLocked
  <2>2. /\ t \in Sends /\ ~Suspended(t) /\ frame[t].pc = "lock"
        /\ Fields(frame[t]) /\ Shaped(frame[t]) /\ frame[t].op = "track"
        /\ frame[t].bounded = FALSE /\ frame[t].late = FALSE
        /\ fate[e] = "sending" /\ e \in Event /\ e \notin ToSet(log)
        /\ holders \subseteq {t} /\ \A g \in Frames \ {t} : frame[g].pc \notin Delivering
    BY <2>1, SendAt DEF Sending
  <2>3. /\ \A g \in Frames \ {t} : frame'[g] = frame[g]
        /\ Fields(frame[t])' /\ frame'[t].pc = "post"
        /\ frame'[t].op = frame[t].op /\ frame'[t].event = e
        /\ frame'[t].bounded = FALSE /\ frame'[t].late = FALSE
    BY <1>1, <2>1, <2>2, SendGoesOn
  <2>4. OneInside' /\ ReplaysLog' /\ holders' \subseteq Frames
    BY <1>1, <2>1, <2>2, <2>3, SendInside
  <2> HIDE DEF e
  <2>5. /\ log' \in Seq(Event) /\ \A i, j \in DOMAIN log' : log'[i] = log'[j] => i = j
        /\ ToSet(log') = (IF durable THEN ToSet(log) \cup {e} ELSE ToSet(log))
        /\ ~durable => log' = <<>>
    <3>1. PICK s \in Seq(Event) : s = log
      BY <1>1
    <3>2. PICK d \in Event : d = e
      BY <2>2
    <3>3. /\ Append(s, d) \in Seq(Event) /\ ToSet(Append(s, d)) = ToSet(s) \cup {d}
          /\ \A i, j \in DOMAIN Append(s, d) : Append(s, d)[i] = Append(s, d)[j] => i = j
      BY <1>1, <2>2, <3>1, <3>2, LogAppended
    <3> QED
      BY <1>1, <2>1, <3>1, <3>2, <3>3 DEF TypeOK
  <2>6. SendMoves(t)
    BY <1>1, <2>1, <2>2, <2>3, <2>4, <2>5 DEF SendMoves, TypeOK, history, e
  <2> QED
    BY <2>4, <2>6
<1>3. CASE PutRaises(t)
  <2>1. /\ At(t, "lock") /\ Sending(t) /\ LockFree(t) /\ Goes(t, "settle") /\ Becomes(e, "failed")
        /\ durable
        /\ UNCHANGED <<client, store, holders, process, tracked>>
    BY <1>3 DEF PutRaises
  <2>2. /\ t \in Sends /\ ~Suspended(t) /\ frame[t].pc = "lock"
        /\ Fields(frame[t]) /\ Shaped(frame[t]) /\ frame[t].op = "track"
        /\ frame[t].bounded = FALSE /\ frame[t].late = FALSE
        /\ fate[e] = "sending" /\ e \in Event /\ e \notin ToSet(log)
        /\ holders \subseteq {t} /\ \A g \in Frames \ {t} : frame[g].pc \notin Delivering
    BY <2>1, SendAt DEF Sending
  <2>3. /\ \A g \in Frames \ {t} : frame'[g] = frame[g]
        /\ Fields(frame[t])' /\ frame'[t].pc = "settle"
        /\ frame'[t].op = frame[t].op /\ frame'[t].event = e
        /\ frame'[t].bounded = FALSE /\ frame'[t].late = FALSE
    BY <1>1, <2>1, <2>2, SendGoesOn
  <2>4. OneInside' /\ ReplaysLog' /\ holders' \subseteq Frames
    <3>1. t \notin holders
      BY <1>1, <2>2, OutsideFacts DEF Delivering
    <3> QED
      BY <1>1, <2>1, <2>2, <2>3, <3>1, SendInside
  <2> HIDE DEF e
  <2>5. fate'[e] = "failed" /\ \A d \in Event \ {e} : fate'[d] = fate[d]
    BY <2>1, <2>2, OneFate
  <2>6. fate' \in [Event -> {"new", "refused", "sending", "answered", "stored", "failed", "parent"}]
    BY <1>1, <2>1 DEF TypeOK, Becomes
  <2>7. SendMoves(t)
    BY <1>1, <2>1, <2>2, <2>3, <2>4, <2>5, <2>6 DEF SendMoves, TypeOK, store, e
  <2> QED
    BY <2>4, <2>7
<1>4. CASE Answered(t) \/ SendFails(t)
  <2> DEFINE what == IF Answered(t) THEN "answered" ELSE IF durable THEN "stored" ELSE "failed"
  <2>1. /\ At(t, "post") /\ Goes(t, "settle") /\ holders' = holders \ {t}
        /\ UNCHANGED <<client, durable, process, tracked>>
    BY <1>4 DEF Answered, SendFails, SendOver, store
  <2>2. /\ t \in Sends /\ ~Suspended(t) /\ frame[t].pc = "post"
        /\ Fields(frame[t]) /\ Shaped(frame[t]) /\ Placed(t, frame[t])
        /\ frame[t].bounded = FALSE /\ frame[t].late = FALSE
        /\ fate[e] = "sending" /\ e \in Event /\ (durable => e \in ToSet(log))
        /\ holders \subseteq {t} /\ \A g \in Frames \ {t} : frame[g].pc \notin Delivering
    BY <2>1, SendAt
  <2>3. frame[t].op = "track"
    BY <2>2 DEF Sends, Sending
  <2>4. /\ \A g \in Frames \ {t} : frame'[g] = frame[g]
        /\ Fields(frame[t])' /\ frame'[t].pc = "settle"
        /\ frame'[t].op = frame[t].op /\ frame'[t].event = e
        /\ frame'[t].bounded = FALSE /\ frame'[t].late = FALSE
    BY <1>1, <2>1, <2>2, SendGoesOn
  <2>5. OneInside' /\ ReplaysLog' /\ holders' \subseteq Frames
    BY <1>1, <2>1, <2>2, <2>4, SendInside
  <2>6. PICK kind \in {"answered", "stored", "failed"} :
          /\ Becomes(e, kind)
          /\ \/ kind = "answered" /\ log' = Without(e)
             \/ kind = (IF durable THEN "stored" ELSE "failed") /\ log' = log
    BY <1>4 DEF Answered, SendFails, store
  <2> HIDE DEF e
  <2>7. fate'[e] = kind /\ \A d \in Event \ {e} : fate'[d] = fate[d]
    BY <2>2, <2>6, OneFate
  <2>8. fate' \in [Event -> {"new", "refused", "sending", "answered", "stored", "failed", "parent"}]
    BY <1>1, <2>6 DEF TypeOK, Becomes
  <2>9. /\ log' \in Seq(Event) /\ \A i, j \in DOMAIN log' : log'[i] = log'[j] => i = j
        /\ \A d \in Event \ {e} : d \in ToSet(log') <=> d \in ToSet(log)
        /\ e \in ToSet(log') <=> kind = "stored"
        /\ ~durable => log' = <<>>
    <3>1. ~durable => log = <<>>
      BY <1>1 DEF TypeOK
    <3>2. CASE kind = "answered" /\ log' = Without(e)
      <4>1. /\ Without(e) \in Seq(Event) /\ ToSet(Without(e)) = ToSet(log) \ {e}
            /\ \A i, j \in DOMAIN Without(e) : Without(e)[i] = Without(e)[j] => i = j
            /\ log = <<>> => Without(e) = <<>>
        BY <2>2, LogWithout
      <4> QED
        BY <3>1, <3>2, <4>1
    <3>3. CASE kind = (IF durable THEN "stored" ELSE "failed") /\ log' = log
      <4>1. log = <<>> => e \notin ToSet(log)
        BY DEF ToSet
      <4> QED
        BY <1>1, <2>2, <3>1, <3>3, <4>1
    <3> QED
      BY <2>6, <3>2, <3>3
  <2>10. SendMoves(t)
    BY <1>1, <2>1, <2>2, <2>3, <2>4, <2>5, <2>6, <2>7, <2>8, <2>9 DEF SendMoves, e
  <2> QED
    BY <2>5, <2>10
<1> QED
  BY <1>2, <1>3, <1>4

LEMMA DeliverKeeps ==
  ASSUME IInv, IInv', LInv, NEW t \in Threads,
         SendLocked(t) \/ PutRaises(t) \/ Answered(t) \/ SendFails(t)
  PROVE  LInv'
  BY DeliverMoves, SendMovesStep DEF SendMoves

\* A send settled wakes the shutdowns that sleep.
LEMMA SettleKeeps ==
  ASSUME IInv, IInv', LInv, NEW t \in Threads, Settle(t) PROVE LInv'
<1> DEFINE woken(g) == [frame[g] EXCEPT !.pc = "drain"]
<1>1. /\ t \in Frames /\ frame[t].pc = "settle" /\ frame' = [Notified EXCEPT ![t] = Idle]
      /\ ids' = ids \ {frame[t].event} /\ inflight' = inflight - 1
      /\ UNCHANGED <<closed, live, store, holders, process, history>>
  BY DEF Settle, At, SettledNotified, Frames
<1>2. /\ \A g \in Frames : Fields(frame[g]) /\ Shaped(frame[g]) /\ Placed(g, frame[g])
      /\ TypeOK /\ ids \subseteq 1 .. tracked
  BY TypeFacts DEF LInv
<1>3. t \in Sends /\ frame[t].op = "track"
  BY <1>1, SendFacts
<1>4. \A g \in Frames :
        /\ woken(g).op = frame[g].op /\ woken(g).pc = "drain" /\ woken(g).event = frame[g].event
        /\ woken(g).bounded = frame[g].bounded /\ woken(g).late = frame[g].late
        /\ woken(g).todo = frame[g].todo /\ woken(g).owed = frame[g].owed
        /\ woken(g).seen = frame[g].seen /\ woken(g).count = frame[g].count
  BY <1>2, PcFields
<1>5. Notified = [g \in Frames |-> IF frame[g].pc = "drain_wait" THEN woken(g) ELSE frame[g]]
  BY DEF Notified
<1> HIDE DEF woken
<1>6. /\ frame'[t] = Idle
      /\ \A g \in Frames \ {t} :
           frame'[g] = IF frame[g].pc = "drain_wait" THEN woken(g) ELSE frame[g]
  BY <1>1, <1>5
<1>7. \A g \in Frames \ {t} :
        /\ frame[g].pc # "drain_wait" => frame'[g] = frame[g]
        /\ frame[g].pc = "drain_wait" => frame'[g].pc = "drain"
        /\ frame'[g].op = frame[g].op /\ frame'[g].event = frame[g].event
        /\ frame'[g].bounded = frame[g].bounded /\ frame'[g].late = frame[g].late
        /\ frame'[g].todo = frame[g].todo /\ frame'[g].owed = frame[g].owed
        /\ frame'[g].seen = frame[g].seen /\ frame'[g].count = frame[g].count
  BY <1>4, <1>6
<1>8. FieldsInType'
  BY <1>2, <1>6, <1>7, IdleFields DEF Fields, FieldsInType, Places
<1>9. inflight' \in Nat
  <2>1. Repairable
    BY <1>3 DEF LInv, Ended
  <2>2. inflight = Cardinality(Sends) /\ Cardinality(Sends) \in Nat /\ IsFiniteSet(Sends)
    BY <2>1, FramesFinite DEF IInv, InflightExact
  <2>3. Cardinality(Sends) # 0
    BY <1>3, <2>2, FS_EmptySet
  <2> QED
    BY <1>1, <2>2, <2>3
<1>10. TypeOK' /\ (ids \subseteq 1 .. tracked)'
  <2>1. FramesShaped' => (FramesInType' <=> FieldsInType')
    BY FramesTyped, PTL
  <2>2. frame' \in [Frames -> FrameType]
    BY <1>8, <2>1 DEF IInv, FramesInType
  <2> QED
    BY <1>1, <1>2, <1>9, <2>2
    DEF Repairable, TypeOK, FrameType, Operations, Places, store, process, history
<1>11. CallsPlaced'
  <2>1. ASSUME NEW g \in Frames \ {t} PROVE Placed(g, frame[g])'
    BY <1>1, <1>2, <1>7 DEF Placed, process, history
  <2>2. Placed(t, frame[t])'
    BY <1>3, <1>6, IdleFields, SendFacts, LifecycleAssumption DEF Placed
  <2> QED
    BY <2>1, <2>2 DEF CallsPlaced
<1>12. t \notin holders
  BY <1>1, OutsideFacts DEF Delivering
<1>13. \A g \in Frames \ {t} : frame'[g].pc \in Delivering \cup {"lock"} => frame'[g] = frame[g]
  BY <1>7 DEF Delivering
<1>14. \A g \in Frames \ {t} : frame[g].pc \in Delivering \cup {"lock"} => frame'[g] = frame[g]
  BY <1>7 DEF Delivering
<1>15. frame'[t].pc = "idle" /\ frame'[t].op = "none"
  BY <1>6, IdleFields
<1>16. OneInside' /\ ReplaysLog'
  BY <1>1, <1>12, <1>13, <1>14, <1>15
  DEF LInv, OneInside, ReplaysLog, Suspended, Delivering, store, process
<1>17. SendsOwed'
  BY <1>1, <1>13, <1>15 DEF LInv, SendsOwed, Suspended, Delivering, store, process, history
<1>18. Sends' \subseteq Sends
  BY <1>7, <1>15 DEF Sends, Sending
<1>19. LogOwed'
  BY <1>1 DEF LInv, LogOwed, Repairable, store, process, history
<1>20. FatesKept'
  <2>1. \A f \in Sends : frame[f].pc \in {"lock", "post"} => f \in Sends' /\ frame'[f] = frame[f]
    BY <1>1, <1>14, SendFacts DEF Sends, Sending, Delivering
  <2> QED
    BY <1>1, <2>1 DEF LInv, FatesKept, store, history
<1>21. Ended'
  BY <1>1, <1>18 DEF LInv, Ended, Repairable, process
<1>22. Counted'
  BY <1>1, <1>7, <1>15 DEF LInv, Counted, Repairable, process, history
<1>23. ShutdownQuiet'
  BY <1>1, <1>7, <1>13, <1>15, <1>18 DEF LInv, ShutdownQuiet, Repairable, Delivering, process
<1> QED
  BY <1>10, <1>11, <1>16, <1>17, <1>19, <1>20, <1>21, <1>22, <1>23 DEF LInv

\* A record is replayed: it leaves the log and what is left to do.
LEMMA ReplayedKeeps ==
  ASSUME IInv, IInv', LInv, NEW f \in Frames, Replayed(f) PROVE LInv'
<1> DEFINE rest == Tail(frame[f].todo)
           r == [frame[f] EXCEPT !.todo = rest]
<1>1. PICK e : e = Head(frame[f].todo)
  OBVIOUS
<1>2. /\ At(f, "replay") /\ frame[f].todo # <<>> /\ log' = Without(e) /\ Becomes(e, "answered")
      /\ frame' = [frame EXCEPT ![f] = r]
      /\ UNCHANGED <<client, durable, holders, process, tracked>>
  BY <1>1 DEF Replayed
<1>3. /\ \A g \in Frames : Fields(frame[g]) /\ Shaped(frame[g]) /\ Placed(g, frame[g])
      /\ TypeOK /\ ids \subseteq 1 .. tracked /\ log \in Seq(Event)
      /\ ToSet(log) \subseteq Event /\ ToSet(log) \subseteq 1 .. tracked
  BY TypeFacts DEF LInv
<1>4. frame[f].pc = "replay" /\ ~Suspended(f) /\ frame[f].todo = log /\ f \in holders
  BY <1>2 DEF At, Runs, Suspended, LInv, ReplaysLog, OneInside, Delivering
<1>5. e = Head(log) /\ log # <<>> /\ e \in Event /\ e \in 1 .. tracked /\ rest = Tail(log)
      /\ rest \in Seq(Event)
  <2>1. log # <<>> /\ e = log[1] /\ 1 \in DOMAIN log
    BY <1>1, <1>2, <1>3, <1>4
  <2> QED
    BY <1>1, <1>3, <1>4, <2>1 DEF ToSet
<1>6. /\ log' \in Seq(Event) /\ ToSet(log') = ToSet(log) \ {e} /\ log' = rest
      /\ \A i, j \in DOMAIN log' : log'[i] = log'[j] => i = j
      /\ log = <<>> => log' = <<>>
  <2>1. /\ Without(e) \in Seq(Event) /\ ToSet(Without(e)) = ToSet(log) \ {e}
        /\ \A i, j \in DOMAIN Without(e) : Without(e)[i] = Without(e)[j] => i = j
        /\ log # <<>> /\ e = Head(log) => Without(e) = Tail(log)
    BY <1>5, LogWithout
  <2> QED
    BY <1>2, <1>5, <2>1
<1>7. fate'[e] = "answered" /\ \A d \in Event \ {e} : fate'[d] = fate[d]
  BY <1>2, <1>5, OneFate
<1> HIDE DEF rest
<1>8. /\ r.op = frame[f].op /\ r.pc = frame[f].pc /\ r.event = frame[f].event
      /\ r.bounded = frame[f].bounded /\ r.late = frame[f].late /\ r.todo = rest
      /\ r.owed = frame[f].owed /\ r.seen = frame[f].seen /\ r.count = frame[f].count
  BY <1>3, TodoFields
<1> HIDE DEF r
<1>9. frame'[f] = r /\ \A g \in Frames \ {f} : frame'[g] = frame[g]
  BY <1>2, OneFrame
<1>10. \A g \in Frames :
         /\ frame'[g].op = frame[g].op /\ frame'[g].pc = frame[g].pc
         /\ frame'[g].event = frame[g].event
         /\ frame'[g].bounded = frame[g].bounded /\ frame'[g].late = frame[g].late
         /\ frame'[g].owed = frame[g].owed /\ frame'[g].seen = frame[g].seen
         /\ frame'[g].count = frame[g].count
  BY <1>8, <1>9
<1>11. \A g \in Frames : frame'[g].todo \in Seq(Event)
  BY <1>3, <1>5, <1>8, <1>9 DEF Fields
<1>12. FieldsInType'
  BY <1>3, <1>10, <1>11 DEF Fields, FieldsInType
<1>13. TypeOK' /\ (ids \subseteq 1 .. tracked)'
  <2>1. FramesShaped' => (FramesInType' <=> FieldsInType')
    BY FramesTyped, PTL
  <2>2. frame' \in [Frames -> FrameType]
    BY <1>12, <2>1 DEF IInv, FramesInType
  <2>3. fate' \in [Event -> {"new", "refused", "sending", "answered", "stored", "failed", "parent"}]
    BY <1>2, <1>3 DEF TypeOK, Becomes
  <2> QED
    BY <1>2, <1>3, <1>6, <2>2, <2>3
    DEF Repairable, TypeOK, FrameType, Operations, Places, client, process
<1>14. CallsPlaced'
  BY <1>2, <1>3, <1>10 DEF CallsPlaced, Placed, client, process
<1>15. Sends' = Sends /\ OneInside'
  BY <1>2, <1>10 DEF LInv, OneInside, Sends, Sending
<1>16. \A g \in Frames \ {f} : frame[g].pc \in Delivering => Suspended(g)
  <2> SUFFICES ASSUME NEW g \in Frames \ {f}, frame[g].pc \in Delivering PROVE Suspended(g)
    OBVIOUS
  <2>1. g \in holders /\ ThreadOf(g) = ThreadOf(f)
    BY <1>4 DEF LInv, OneInside
  <2>2. {f, g} = {Main, Handler} /\ f # g
    BY <2>1, LifecycleAssumption DEF ThreadOf, Frames
  <2>3. CASE g = Main /\ f = Handler
    BY <1>2, <2>3 DEF At, Runs, Suspended
  <2>4. CASE g = Handler /\ f = Main
    BY <1>2, <1>3, <2>4 DEF At, Runs, Placed, Delivering
  <2> QED
    BY <2>2, <2>3, <2>4
<1>17. \A g \in Frames : Suspended(g)' <=> Suspended(g)
  BY <1>2 DEF Suspended, process
<1>18. ReplaysLog'
  BY <1>6, <1>8, <1>9, <1>10, <1>16, <1>17 DEF ReplaysLog, Delivering
<1>19. SendsOwed'
  <2>1. ASSUME NEW g \in Frames, frame'[g].pc = "post"
        PROVE  /\ \/ fate'[frame'[g].event] = "sending"
                  \/ Suspended(g)' /\ fate'[frame'[g].event] = "answered"
               /\ durable' /\ ~Suspended(g)' => frame'[g].event \in ToSet(log')
    <3>1. frame[g].pc = "post" /\ g \in Sends /\ Suspended(g)
      BY <1>4, <1>10, <1>16, <2>1, SendFacts DEF Delivering
    <3>2. frame[g].event \in Event
      BY <3>1, SendFacts
    <3> QED
      BY <1>7, <1>10, <1>17, <3>1, <3>2 DEF LInv, SendsOwed
  <2>2. ASSUME NEW g \in Frames, frame'[g].op = "track", frame'[g].pc = "lock"
        PROVE  fate'[frame'[g].event] = "sending" /\ frame'[g].event \notin ToSet(log')
    <3>1. frame[g].pc = "lock" /\ frame[g].op = "track" /\ g \in Sends
      BY <1>10, <2>2, SendFacts
    <3>2. frame[g].event \in Event /\ frame[g].event \notin ToSet(log)
          /\ fate[frame[g].event] = "sending"
      BY <3>1, SendFacts DEF LInv, SendsOwed
    <3>3. e \in ToSet(log)
      BY <1>3, <1>5 DEF ToSet
    <3> QED
      BY <1>6, <1>7, <1>10, <3>2, <3>3
  <2> QED
    BY <2>1, <2>2 DEF SendsOwed
<1>20. LogOwed'
  BY <1>2, <1>3, <1>6, <1>7 DEF LInv, LogOwed, Repairable, process
<1>21. FatesKept'
  <2>1. \A d \in Event \ {e} : (d \in ToSet(log') <=> d \in ToSet(log)) /\ fate'[d] = fate[d]
    BY <1>6, <1>7
  <2>2. ~(e > tracked)
    BY <1>3, <1>5 DEF TypeOK
  <2>3. \A g \in Sends : frame'[g].event = frame[g].event /\ frame'[g].pc = frame[g].pc
    BY <1>10, SendFacts
  <2> QED
    BY <1>2, <1>7, <1>15, <2>1, <2>2, <2>3 DEF LInv, FatesKept
<1>22. Ended' /\ Counted' /\ ShutdownQuiet'
  BY <1>2, <1>10, <1>15 DEF LInv, Ended, Counted, ShutdownQuiet, Repairable, client, process
<1> QED
  BY <1>13, <1>14, <1>15, <1>18, <1>19, <1>20, <1>21, <1>22 DEF LInv

\* The child of a fork: nothing runs, and nothing that was the parent's is owed.
LEMMA ForkKeeps ==
  ASSUME IInv, IInv', LInv, NEW t \in Threads, Fork(t) PROVE LInv'
<1>1. /\ frame' = [f \in Frames |-> Idle]
      /\ fate' = [e \in Event |-> IF fate[e] \in {"sending", "stored"} THEN "parent" ELSE fate[e]]
      /\ UNCHANGED <<closed, live, handling, alive, tracked>>
      /\ CanCall(t, "fork") /\ t = Main /\ forked = "no"
  BY DEF Fork
<1>2. \A f \in Frames : frame'[f] = Idle
  BY <1>1
<1>3. /\ TypeOK /\ ids \subseteq 1 .. tracked /\ log \in Seq(Event)
      /\ ToSet(log) \subseteq Event /\ ToSet(log) \subseteq 1 .. tracked
      /\ tracked \in Nat
  BY TypeFacts DEF LInv
<1>4. \/ /\ live /\ inflight' = 0 /\ ids' = {} /\ durable' = FALSE /\ log' = <<>>
         /\ holders' = {} /\ forked' = "repaired" /\ stuck' = stuck
      \/ /\ ~live /\ holders' = {} /\ forked' = "inherited"
         /\ UNCHANGED <<inflight, ids, store>>
  BY DEF Fork, Repaired, Inherited, CountReset, Detached
<1>5. stuck' \subseteq Locks /\ (stuck' # {} => forked' = "inherited")
  <2>1. CASE live
    BY <1>1, <1>3, <1>4, <2>1 DEF TypeOK, Repairable
  <2>2. CASE ~live
    <3>1. PICK held \in [Threads \ {Main} -> SUBSET Locks] :
            stuck' = UNION {held[u] : u \in Threads \ {Main}}
      BY <2>2 DEF Fork, Inherited
    <3>2. \A u \in Threads \ {Main} : held[u] \subseteq Locks
      OBVIOUS
    <3> QED
      BY <1>4, <2>2, <3>1, <3>2
  <2> QED
    BY <2>1, <2>2
<1>6. /\ log' \in {log, <<>>} /\ ids' \in {ids, {}} /\ holders' = {}
      /\ forked' = "repaired" => log' = <<>>
      /\ forked' \in {"repaired", "inherited"}
      /\ forked' = "inherited" => ~live
  BY <1>4 DEF store
<1>7. TypeOK' /\ (ids \subseteq 1 .. tracked)'
  <2>1. FramesShaped' => (FramesInType' <=> FieldsInType')
    BY FramesTyped, PTL
  <2>2. FieldsInType'
    BY <1>2, IdleFields DEF FieldsInType, Fields
  <2>3. frame' \in [Frames -> FrameType]
    BY <2>1, <2>2 DEF IInv, FramesInType
  <2>4. fate' \in [Event -> {"new", "refused", "sending", "answered", "stored", "failed", "parent"}]
    BY <1>1, <1>3 DEF TypeOK
  <2>5. inflight' \in Nat /\ durable' \in BOOLEAN /\ log' \in Seq(Event)
        /\ (~durable' => log' = <<>>) /\ ids' \subseteq Event
    <3>1. CASE inflight' = 0 /\ ids' = {} /\ durable' = FALSE /\ log' = <<>>
      <4>1. inflight' \in Nat /\ ids' \subseteq Event /\ log' \in Seq(Event)
        BY <3>1
      <4>2. durable' \in BOOLEAN
        BY <3>1
      <4> QED
        BY <3>1, <4>1, <4>2
    <3>2. CASE UNCHANGED <<inflight, ids, store>>
      BY <1>3, <3>2 DEF TypeOK, store
    <3> QED
      BY <1>4, <3>1, <3>2
  <2> QED
    BY <1>1, <1>3, <1>6, <1>5, <2>3, <2>4, <2>5
    DEF TypeOK, FrameType, Operations, Places, Repairable
<1>8. ~handling
  BY <1>1 DEF CanCall, At, Runs
<1>9. CallsPlaced'
  BY <1>2, IdleFields DEF CallsPlaced, Placed
<1>10. OneInside' /\ ReplaysLog' /\ SendsOwed'
  BY <1>2, <1>6, IdleFields DEF OneInside, ReplaysLog, SendsOwed, Delivering
<1>11. \A e \in Event : /\ fate'[e] \notin {"sending", "stored"}
                        /\ fate[e] \in {"sending", "stored", "parent"} => fate'[e] = "parent"
                        /\ fate[e] = "new" => fate'[e] = "new"
  BY <1>1
<1>12. LogOwed'
  <2>1. \A e \in ToSet(log') : e \in Event /\ fate'[e] = "parent" /\ forked' = "inherited"
    <3>1. ToSet(<<>>) = {}
      BY DEF ToSet
    <3>2. \A e \in ToSet(log) : fate[e] \in {"sending", "stored", "parent"}
      BY DEF LInv, LogOwed
    <3> QED
      BY <1>3, <1>6, <1>11, <3>1, <3>2
  <2>2. \A i, j \in DOMAIN log' : log'[i] = log'[j] => i = j
    BY <1>6 DEF LInv, LogOwed
  <2> QED
    BY <2>1, <2>2 DEF LogOwed, Repairable
<1>13. FatesKept'
  BY <1>1, <1>11 DEF FatesKept, LInv
<1>14. Sends' = {}
  BY <1>2, IdleFields DEF Sends, Sending
<1>15. Ended' /\ Counted' /\ ShutdownQuiet'
  BY <1>1, <1>2, <1>6, <1>14, IdleFields DEF LInv, Ended, Counted, ShutdownQuiet, Repairable
<1> QED
  BY <1>7, <1>9, <1>10, <1>12, <1>13, <1>15 DEF LInv

-----------------------------------------------------------------------------
(* The invariant of the calls, and what follows from it.                   *)

LEMMA LInvInit == Init => LInv
<1> SUFFICES ASSUME Init PROVE LInv
  OBVIOUS
<1>1. /\ frame = [f \in Frames |-> Idle] /\ log = <<>> /\ holders = {} /\ ids = {} /\ inflight = 0
      /\ closed = FALSE /\ live = TRUE /\ handling = FALSE /\ alive = TRUE /\ forked = "no"
      /\ stuck = {}
      /\ tracked = 0 /\ fate = [e \in Event |-> "new"] /\ durable \in BOOLEAN
  BY LifecycleAssumption DEF Init
<1>2. \A f \in Frames : frame[f] = Idle
  BY <1>1
<1>3. frame \in [Frames -> FrameType]
  <2>1. Idle \in FrameType
    BY FrameTyped, IdleFields, IdleShaped
  <2> HIDE DEF FrameType
  <2> QED
    BY <1>1, <2>1
<1>4. TypeOK
  <2>1. fate \in [Event -> {"new", "refused", "sending", "answered", "stored", "failed", "parent"}]
    BY <1>1
  <2>2. log \in Seq(Event) /\ tracked \in 0 .. MaxEvents
    BY <1>1, LifecycleAssumption
  <2> QED
    BY <1>1, <1>3, <2>1, <2>2 DEF TypeOK, FrameType, Operations, Places
<1>5. ToSet(log) = {}
  BY <1>1 DEF ToSet
<1>6. CallsPlaced /\ OneInside /\ ReplaysLog /\ SendsOwed /\ Counted /\ ShutdownQuiet
  BY <1>1, <1>2, IdleFields
  DEF CallsPlaced, Placed, OneInside, ReplaysLog, SendsOwed, Counted, ShutdownQuiet, Delivering
<1>7. LogOwed /\ FatesKept /\ Ended
  BY <1>1, <1>5 DEF LogOwed, FatesKept, Ended, Repairable
<1> QED
  BY <1>1, <1>4, <1>6, <1>7 DEF LInv

\* Every step keeps it: one lemma for each kind of step.
LEMMA LInvNext == IInv /\ IInv' /\ LInv /\ [Next]_vars => LInv'
<1> SUFFICES ASSUME IInv, IInv', LInv, [Next]_vars PROVE LInv'
  OBVIOUS
<1>1. CASE \E t \in Threads : AdmitRefused(t) \/ Admit(t) \/ Deliver(t)
  BY <1>1, RefusedKeeps, AdmitKeeps, DeliverKeeps, SettleKeeps DEF Deliver
<1>2. CASE \E t \in Threads :
             \/ Exits(t) \/ Drain(t) \/ PendingCounts(t) \/ PendingReturns(t)
             \/ CallHangs(t) \/ Fork(t)
  BY <1>2, ExitsKeeps, DrainKeeps, PendingCountsKeeps, PendingReturnsKeeps, CallHangsKeeps,
     ForkKeeps
<1>3. CASE \E t \in Threads, bounded \in BOOLEAN :
             FlushCalled(t, bounded) \/ ShutdownCalled(t, bounded)
  BY <1>3, FlushCalledKeeps, ShutdownCalledKeeps
<1>4. CASE \E f \in Frames : Recover(f) \/ DeadlinePasses(f)
  BY <1>4, RecoverLockedKeeps, SnapshotHangsKeeps, RecoverEndsKeeps, ReplayedKeeps,
     DeadlineKeeps
  DEF Recover
<1>5. CASE SignalArrives
  BY <1>5, SignalKeeps
<1>6. CASE Killed \/ UNCHANGED vars
  <2>1. /\ alive' \in BOOLEAN
        /\ UNCHANGED <<client, store, holders, frame, handling, forked, stuck, history>>
    BY <1>6 DEF Killed, vars, client, store, process, history, LInv, TypeOK
  <2> QED
    BY <2>1, NothingMoves
<1> QED
  BY <1>1, <1>2, <1>3, <1>4, <1>5, <1>6 DEF Next

\* Both invariants hold in every reachable state.
LEMMA LifecycleInductive == Spec => [](IInv /\ LInv)
<1>1. Spec => []IInv
  BY Inductive
<1> QED
  BY <1>1, LInvInit, LInvNext, PTL DEF Spec

\* Every field of the client, its log and its calls is typed, for any number of
\* threads and events; in particular the count of sends never goes below zero, a
\* client without a path logs nothing, and a settled send leaves nothing behind
\* (client.py:102-110, 324-328).
THEOREM LifecycleTypeCorrect == Spec => []TypeOK
<1>1. LInv => TypeOK
  BY DEF LInv
<1> QED
  BY <1>1, LifecycleInductive, PTL

\* An event accepted is being sent, answered, in the log or failed, and the log holds
\* each once and only what is owed, for any number of threads that send, flush,
\* shut down, are interrupted and fork (client.py:234-236, 322-328).
THEOREM InlineConserved == Spec => []InlineConservation
<1>1. ASSUME IInv, LInv, Repairable PROVE InlineConservation
  <2>1. \A i, j \in DOMAIN log : log[i] = log[j] => i = j
    BY <1>1 DEF LInv, LogOwed
  <2>2. ASSUME NEW e \in Event, fate[e] = "sending"
        PROVE  \E f \in Sends : frame[f].event = e /\ frame[f].pc \in {"lock", "post"}
    BY <1>1, <2>2 DEF LInv, FatesKept
  <2>3. ASSUME NEW e \in Event, e \in ToSet(log)
        PROVE  fate[e] = "stored" \/ \E f \in Frames : frame[f].event = e /\ frame[f].pc = "post"
    <3>1. CASE fate[e] = "sending"
      <4>1. PICK f \in Sends : frame[f].event = e /\ frame[f].pc \in {"lock", "post"}
        BY <2>2, <3>1
      <4>2. f \in Frames /\ frame[f].op = "track"
        BY <1>1, SendFacts
      <4>3. frame[f].pc # "lock"
        BY <1>1, <2>3, <4>1, <4>2 DEF LInv, SendsOwed
      <4> QED
        BY <4>1, <4>2, <4>3
    <3>2. CASE fate[e] # "sending"
      BY <1>1, <2>3, <3>2 DEF LInv, LogOwed
    <3> QED
      BY <3>1, <3>2
  <2>4. \A e \in Event : fate[e] = "stored" => e \in ToSet(log)
    BY <1>1 DEF LInv, FatesKept
  <2>5. \A f \in Sends : f \in Frames
    BY DEF Sends
  <2> QED
    BY <2>1, <2>2, <2>3, <2>4, <2>5 DEF InlineConservation
<1>2. IInv /\ LInv => InlineConservation
  BY <1>1 DEF InlineConservation
<1> QED
  BY <1>2, LifecycleInductive, PTL

\* No two activations post the same event and none posts what was answered, but for
\* the handler over the main thread, however many threads there are and whatever
\* holds the re-entrant delivery lock (client.py:455-470, transport.py:102).
THEOREM EventsHaveOneSender == Spec => []OneSender
<1>1. ASSUME IInv, LInv PROVE OneSender
  <2>1. ASSUME NEW f \in Frames, NEW e \in Event, OnWire(f, e)
        PROVE  f \in holders
    BY <1>1, <2>1 DEF OnWire, LInv, OneInside, Delivering
  <2>2. ASSUME NEW f \in Frames, NEW g \in Frames, NEW e \in Event,
               OnWire(f, e), OnWire(g, e), f # g
        PROVE  {f, g} = {Main, Handler}
    <3>1. ThreadOf(f) = ThreadOf(g)
      BY <1>1, <2>1, <2>2 DEF LInv, OneInside
    <3> QED
      BY <2>2, <3>1, LifecycleAssumption DEF ThreadOf, Frames
  <2>3. ASSUME NEW f \in Frames, NEW e \in Event, OnWire(f, e), fate[e] = "answered"
        PROVE  Suspended(f)
    <3>1. CASE frame[f].pc = "post" /\ frame[f].event = e
      BY <1>1, <2>3, <3>1 DEF LInv, SendsOwed
    <3>2. CASE frame[f].pc = "replay" /\ frame[f].todo # <<>> /\ Head(frame[f].todo) = e
      <4> SUFFICES ASSUME ~Suspended(f) PROVE FALSE
        OBVIOUS
      <4>1. frame[f].todo = log /\ log \in Seq(Event)
        BY <1>1, <3>2, TypeFacts DEF LInv, ReplaysLog
      <4>2. e \in ToSet(log)
        <5>1. log # <<>> /\ e = log[1] /\ 1 \in DOMAIN log
          BY <3>2, <4>1
        <5> QED
          BY <5>1 DEF ToSet
      <4> QED
        BY <1>1, <2>3, <4>2 DEF LInv, LogOwed
    <3> QED
      BY <2>3, <3>1, <3>2 DEF OnWire
  <2> QED
    BY <2>2, <2>3 DEF OneSender, Suspended
<1> QED
  BY <1>1, LifecycleInductive, PTL

\* A log without repetitions is as long as it has events.
LEMMA LogCount ==
  ASSUME NEW s \in Seq(Event), \A i, j \in DOMAIN s : s[i] = s[j] => i = j
  PROVE  IsFiniteSet(ToSet(s)) /\ Cardinality(ToSet(s)) = Len(s) /\ Len(s) \in Nat
<1> DEFINE n == Len(s)
<1>1. n \in Nat /\ DOMAIN s = 1 .. n /\ s \in [1 .. n -> ToSet(s)]
      /\ \A x \in ToSet(s) : \E i \in 1 .. n : s[i] = x
  BY DEF ToSet
<1> HIDE DEF n
<1>2. s \in Bijection(1 .. n, ToSet(s))
  BY <1>1 DEF Bijection, Injection, Surjection, IsInjective
<1>3. IsFiniteSet(1 .. n) /\ Cardinality(1 .. n) = n
  <2>1. 1 \in Int /\ n \in Int
    BY <1>1
  <2>2. IsFiniteSet(1 .. n) /\ Cardinality(1 .. n) = IF 1 > n THEN 0 ELSE n - 1 + 1
    BY <2>1, FS_Interval
  <2> QED
    BY <1>1, <2>2
<1>4. IsFiniteSet(ToSet(s)) /\ Cardinality(ToSet(s)) = Cardinality(1 .. n)
  BY <1>2, <1>3, FS_Bijection DEF ExistsBijection
<1> QED
  BY <1>1, <1>3, <1>4 DEF n

\* pending is what was being sent when it read the count, or is in the log when it
\* reads that, and so lies between what was pending all the time and what was
\* pending at one end (client.py:123-132).
THEOREM PendingIsBracketed == Spec => []PendingBracket
<1>1. ASSUME IInv, LInv, NEW t \in Threads, At(t, "snapshot"), Repairable
      PROVE  LET pending == ids \cup ToSet(log) IN
               /\ Cardinality(frame[t].owed \cap pending) <= PendingValue(t)
               /\ PendingValue(t) <= Cardinality(frame[t].owed \cup pending)
  <2> DEFINE seen == frame[t].seen
             owed == frame[t].owed
             logged == ToSet(log)
             pending == ids \cup logged
  <2>1. t \in Frames /\ frame[t].pc = "snapshot" /\ Fields(frame[t]) /\ Placed(t, frame[t])
    BY <1>1, TypeFacts DEF Frames, At
  <2>2. frame[t].op = "pending"
    BY <2>1 DEF Placed
  <2>3. seen \subseteq owed /\ owed \subseteq 1 .. tracked /\ owed \cap ids \subseteq seen
        /\ frame[t].count = Cardinality(seen)
    BY <1>1, <2>1, <2>2 DEF LInv, Counted
  <2>4. log \in Seq(Event) /\ ids \subseteq Event /\ logged \subseteq Event /\ seen \subseteq Event
        /\ owed \subseteq Event /\ \A i, j \in DOMAIN log : log[i] = log[j] => i = j
    BY <1>1, <2>1, TypeFacts DEF LInv, TypeOK, LogOwed, Fields
  <2>5. IsFiniteSet(Event)
    <3>1. 1 \in Int /\ MaxEvents \in Int
      BY LifecycleAssumption
    <3> QED
      BY <3>1, FS_Interval DEF Event
  <2>6. IsFiniteSet(logged) /\ Cardinality(logged) = Len(log)
    <3>1. PICK s \in Seq(Event) : s = log
      BY <2>4
    <3> QED
      BY <2>4, <3>1, LogCount
  <2> HIDE DEF seen, owed, logged, pending
  <2>7. IsFiniteSet(seen) /\ IsFiniteSet(seen \cap logged) /\ IsFiniteSet(seen \cup logged)
        /\ IsFiniteSet(owed \cup pending) /\ IsFiniteSet(owed \cap pending)
    <3>1. pending \subseteq Event
      BY <2>4 DEF pending
    <3> QED
      BY <2>4, <2>5, <3>1, FS_Subset
  <2>8. /\ Cardinality(seen \cup logged)
             = Cardinality(seen) + Cardinality(logged) - Cardinality(seen \cap logged)
        /\ Cardinality(seen) \in Nat /\ Cardinality(logged) \in Nat
        /\ Cardinality(seen \cap logged) \in Nat /\ Cardinality(seen \cup logged) \in Nat
        /\ Cardinality(seen \cap logged) <= Cardinality(seen)
    <3>1. Cardinality(seen \cup logged)
            = Cardinality(seen) + Cardinality(logged) - Cardinality(seen \cap logged)
      BY <2>6, <2>7, FS_Union
    <3>2. Cardinality(seen \cap logged) <= Cardinality(seen)
      BY <2>7, FS_Subset
    <3> QED
      BY <2>6, <2>7, <3>1, <3>2, FS_CardinalityType
  <2>9. PendingValue(t) = Cardinality(seen \cup logged)
    <3>1. /\ Overlap(t) = Cardinality(seen \cap logged)
          /\ frame[t].count = Cardinality(seen) /\ Len(log) = Cardinality(logged)
      BY <2>3, <2>6 DEF Overlap, seen, logged
    <3>2. PendingValue(t) = frame[t].count + Len(log)
            - IF Overlap(t) < frame[t].count THEN Overlap(t) ELSE frame[t].count
      BY DEF PendingValue
    <3> QED
      BY <2>8, <3>1, <3>2
  <2>10. owed \cap pending \subseteq seen \cup logged
    BY <2>3 DEF pending, owed, seen
  <2>11. seen \cup logged \subseteq owed \cup pending
    BY <2>3 DEF pending, owed, seen
  <2>12. Cardinality(owed \cap pending) <= Cardinality(seen \cup logged)
    BY <2>7, <2>10, FS_Subset
  <2>13. Cardinality(seen \cup logged) <= Cardinality(owed \cup pending)
    BY <2>7, <2>11, FS_Subset
  <2> QED
    BY <2>9, <2>12, <2>13 DEF pending, owed, logged
<1>2. IInv /\ LInv => PendingBracket
  BY <1>1 DEF PendingBracket
<1> QED
  BY <1>2, LifecycleInductive, PTL

-----------------------------------------------------------------------------
(* Who begins to send, and who returns.                                    *)

\* The steps that end a call, but for a send that is settled and a fork.
Ends(f) ==
  \/ LockTimesOut(f) \/ ReplayFails(f) \/ ReplayRaises(f) \/ ReplayDone(f)
  \/ f \in Threads /\ ShutdownDrained(f)
  \/ PendingReturns(f)

\* The steps of a send, but for its end.
GoesOnSending(f) ==
  /\ f \in Threads
  /\ Admit(f) \/ SendLocked(f) \/ PutRaises(f) \/ Answered(f) \/ SendFails(f)

\* A step of one call.
OneMoves(f) ==
  /\ \A g \in Frames \ {f} : frame'[g] = frame[g]
  /\ frame[f].op = "track" \/ frame'[f].op = "track" => GoesOnSending(f)
  /\ frame'[f].op = "track" => frame[f].op = "track" \/ ~closed
  /\ frame'[f].pc = "idle" => frame[f].pc = "idle" \/ Ends(f)

LEMMA OneMovesStep ==
  ASSUME IInv, LInv, NEW f \in Frames, NEW r, frame' = [frame EXCEPT ![f] = r],
         frame[f].op = "track" \/ r.op = "track" => GoesOnSending(f),
         r.op = "track" => frame[f].op = "track" \/ ~closed,
         r.pc = "idle" => frame[f].pc = "idle" \/ Ends(f)
  PROVE  OneMoves(f)
BY OneFrame DEF OneMoves

LEMMA GoesMoves ==
  ASSUME IInv, LInv, NEW f \in Frames, NEW place, place # "idle", Goes(f, place),
         frame[f].op = "track" => GoesOnSending(f)
  PROVE  OneMoves(f)
<1> DEFINE r == [frame[f] EXCEPT !.pc = place]
<1>1. frame' = [frame EXCEPT ![f] = r]
  BY DEF Goes
<1>2. r.op = frame[f].op /\ r.pc = place
  BY TypeFacts, PcFields
<1> HIDE DEF r
<1> QED
  BY <1>1, <1>2, OneMovesStep

LEMMA StepsMove ==
  ASSUME IInv, LInv, Next
  PROVE  \/ UNCHANGED frame
         \/ \E f \in Frames : OneMoves(f)
         \/ \E t \in Threads : Settle(t)
         \/ forked' # forked /\ \A g \in Frames : frame'[g] = Idle
<1>1. CASE \E t \in Threads : AdmitRefused(t) \/ Killed
  BY <1>1 DEF AdmitRefused, Killed
<1>2. ASSUME NEW t \in Threads, Admit(t) PROVE OneMoves(t)
  <2> DEFINE r == Begun("track", "lock", tracked + 1, FALSE, {})
  <2>1. frame' = [frame EXCEPT ![t] = r] /\ ~closed /\ t \in Frames
    BY <1>2 DEF Admit, Frames
  <2>2. r.pc = "lock"
    BY DEF Begun
  <2> HIDE DEF r
  <2> QED
    BY <1>2, <2>1, <2>2, OneMovesStep DEF GoesOnSending
<1>3. ASSUME NEW t \in Threads, SendLocked(t) \/ PutRaises(t) \/ Answered(t) \/ SendFails(t)
      PROVE  OneMoves(t)
  <2>1. t \in Frames /\ \E place \in {"post", "settle"} : Goes(t, place)
    BY <1>3 DEF SendLocked, PutRaises, Answered, SendFails, SendOver, Frames
  <2> QED
    BY <1>3, <2>1, GoesMoves DEF GoesOnSending
<1>4. ASSUME NEW t \in Threads, Exits(t) PROVE UNCHANGED frame \/ OneMoves(t)
  <2> DEFINE r == Begun("exit", "drain", 0, TRUE, {})
  <2>1. t \in Frames /\ (UNCHANGED frame \/ frame' = [frame EXCEPT ![t] = r])
    BY <1>4 DEF Exits, Frames
  <2>2. r.op = "exit" /\ r.pc = "drain"
    BY DEF Begun
  <2>3. frame[t].op = "none"
    BY <1>4, <2>1, IdleFacts DEF Exits, CanCall, At
  <2> HIDE DEF r
  <2> QED
    BY <2>1, <2>2, <2>3, OneMovesStep
<1>5. ASSUME NEW t \in Threads, Drain(t) PROVE OneMoves(t)
  <2>1. t \in Frames /\ frame[t].op # "track"
    BY <1>5, PlaceFacts DEF Frames, Drain, ShutdownWaits, ShutdownDrained, At
  <2>2. CASE frame' = [frame EXCEPT ![t] = Idle] /\ ShutdownDrained(t)
    BY <2>1, <2>2, IdleFields, OneMovesStep DEF Ends
  <2>3. CASE \E place \in {"drain_wait", "lock"} : Goes(t, place)
    BY <2>1, <2>3, GoesMoves
  <2> QED
    BY <1>5, <2>2, <2>3 DEF Drain, ShutdownWaits, ShutdownDrained, Leaves, EndsCall
<1>6. ASSUME NEW t \in Threads, NEW bounded \in BOOLEAN,
             FlushCalled(t, bounded) \/ ShutdownCalled(t, bounded)
      PROVE  OneMoves(t)
  <2>1. t \in Frames /\ frame[t].op = "none"
    BY <1>6, IdleFacts DEF FlushCalled, ShutdownCalled, CanCall, At, Frames
  <2> DEFINE owes == ToSet(log)
             r == Begun("flush", "lock", 0, bounded, owes)
             s == Begun("shutdown", "drain", 0, bounded, {})
  <2>2. frame' = [frame EXCEPT ![t] = r] \/ frame' = [frame EXCEPT ![t] = s]
    BY <1>6 DEF FlushCalled, ShutdownCalled
  <2> HIDE DEF owes
  <2>3. r.op = "flush" /\ r.pc = "lock" /\ s.op = "shutdown" /\ s.pc = "drain"
    BY DEF Begun
  <2> HIDE DEF r, s
  <2> QED
    BY <2>1, <2>2, <2>3, OneMovesStep
<1>7. ASSUME NEW t \in Threads, PendingCounts(t) PROVE OneMoves(t)
  <2>1. t \in Frames /\ frame[t].op = "none"
    BY <1>7, IdleFacts DEF PendingCounts, CanCall, At, Frames
  <2> DEFINE owes == ids \cup ToSet(log)
             n == [Begun("pending", "snapshot", 0, FALSE, owes) EXCEPT !.seen = ids]
             r == [n EXCEPT !.count = inflight]
  <2>2. frame' = [frame EXCEPT ![t] = r]
    BY <1>7 DEF PendingCounts
  <2> HIDE DEF owes
  <2>3. r.op = "pending" /\ r.pc = "snapshot"
    BY DEF Begun
  <2> HIDE DEF r
  <2> QED
    BY <2>1, <2>2, <2>3, OneMovesStep
<1>8. ASSUME NEW t \in Threads, PendingReturns(t) PROVE OneMoves(t)
  <2>1. t \in Frames /\ frame' = [frame EXCEPT ![t] = Idle]
    BY <1>8 DEF PendingReturns, Frames
  <2>2. frame[t].op = "pending"
    BY <1>8, <2>1, PlaceFacts DEF PendingReturns, At, Placed
  <2> QED
    BY <1>8, <2>1, <2>2, IdleFields, OneMovesStep DEF Ends
<1>9. ASSUME NEW t \in Threads, CallHangs(t) PROVE OneMoves(t)
  <2>1. PICK bounded \in BOOLEAN :
          frame' = [frame EXCEPT ![t] = Begun("hung", "hung", 0, bounded, {})]
    BY <1>9 DEF CallHangs
  <2>2. t \in Frames /\ frame[t].op = "none"
    BY <1>9, IdleFacts DEF CallHangs, CanCall, At, Frames
  <2> DEFINE r == Begun("hung", "hung", 0, bounded, {})
  <2>3. r.op = "hung" /\ r.pc = "hung"
    BY DEF Begun
  <2>4. frame' = [frame EXCEPT ![t] = r]
    BY <2>1
  <2> HIDE DEF r
  <2> QED
    BY <2>2, <2>3, <2>4, OneMovesStep
<1>10. ASSUME NEW t \in Threads, Fork(t)
      PROVE  forked' # forked /\ \A g \in Frames : frame'[g] = Idle
  BY <1>10 DEF Fork, Repaired, Inherited
<1>11. ASSUME NEW f \in Frames, Recover(f) PROVE OneMoves(f)
  <2>0. frame[f].op # "track"
    <3>1. \/ ~Sending(f) \/ frame[f].pc = "replay"
          \/ frame[f].late
      BY <1>11
      DEF Recover, RecoverLocked, SnapshotHangs, LockTimesOut, OutOfTime, Replayed,
          ReplayFails, ReplayRaises, ReplayDone, At
    <3>2. Placed(f, frame[f]) /\ Fields(frame[f])
      BY PlaceFacts
    <3>3. CASE frame[f].late
      BY <3>2, <3>3 DEF Placed, Fields
    <3> QED
      BY <3>1, <3>2, <3>3 DEF Placed, Sending
  <2>1. CASE LockTimesOut(f) \/ ReplayFails(f) \/ ReplayRaises(f) \/ ReplayDone(f)
    <3>1. frame' = [frame EXCEPT ![f] = Idle]
      BY <2>1 DEF LockTimesOut, ReplayFails, ReplayRaises, ReplayDone, Leaves, Raises, EndsCall
    <3> QED
      BY <2>0, <2>1, <3>1, IdleFields, OneMovesStep DEF Ends
  <2>2. CASE RecoverLocked(f)
    <3> DEFINE m == [frame[f] EXCEPT !.pc = "replay"]
               r == [m EXCEPT !.todo = log]
    <3>1. frame' = [frame EXCEPT ![f] = r]
      BY <2>2 DEF RecoverLocked
    <3>2. Shaped(m) /\ m.op = frame[f].op /\ m.pc = "replay"
      BY TypeFacts, PcChanged
    <3> HIDE DEF m
    <3>3. r.op = m.op /\ r.pc = m.pc
      BY <3>2, TodoFields
    <3> HIDE DEF r
    <3> QED
      BY <2>0, <3>1, <3>2, <3>3, OneMovesStep
  <2>3. CASE Replayed(f)
    <3> DEFINE rest == Tail(frame[f].todo)
               r == [frame[f] EXCEPT !.todo = rest]
    <3>1. frame' = [frame EXCEPT ![f] = r] /\ frame[f].pc = "replay"
      BY <2>3 DEF Replayed, At
    <3> HIDE DEF rest
    <3>2. r.op = frame[f].op /\ r.pc = frame[f].pc
      BY TypeFacts, TodoFields
    <3> HIDE DEF r
    <3> QED
      BY <2>0, <3>1, <3>2, OneMovesStep
  <2>4. CASE SnapshotHangs(f)
    BY <2>0, <2>4, GoesMoves DEF SnapshotHangs
  <2> QED
    BY <1>11, <2>1, <2>2, <2>3, <2>4 DEF Recover
<1>12. ASSUME NEW f \in Frames, DeadlinePasses(f) PROVE OneMoves(f)
  <2> DEFINE place == IF frame[f].pc = "drain_wait" THEN "drain" ELSE frame[f].pc
             r == [frame[f] EXCEPT !.late = TRUE, !.pc = place]
  <2>1. frame' = [frame EXCEPT ![f] = r]
    BY <1>12 DEF DeadlinePasses
  <2>2. Shaped(frame[f]) /\ frame[f].op # "track"
    BY <1>12, TypeFacts DEF DeadlinePasses, Placed
  <2> HIDE DEF place
  <2>3. Shaped(r) /\ r.pc = place /\ r.op = frame[f].op
    BY <2>2, LateChanged
  <2> HIDE DEF r
  <2> QED
    BY <2>1, <2>2, <2>3, OneMovesStep DEF place
<1>13. CASE SignalArrives
  <2>1. Handler \in Frames /\ frame[Handler].op # "track"
    BY PlaceFacts DEF Frames, Placed
  <2> DEFINE owes == ToSet(log)
             r == Begun("flush", "lock", 0, TRUE, owes)
             s == Begun("kill", "kill", 0, FALSE, {})
  <2>2. frame' = [frame EXCEPT ![Handler] = r] \/ frame' = [frame EXCEPT ![Handler] = s]
    BY <1>13 DEF SignalArrives
  <2> HIDE DEF owes
  <2>3. r.op = "flush" /\ r.pc = "lock" /\ s.op = "kill" /\ s.pc = "kill"
    BY DEF Begun
  <2> HIDE DEF r, s
  <2> QED
    BY <2>1, <2>2, <2>3, OneMovesStep
<1> QED
  BY <1>1, <1>2, <1>3, <1>4, <1>5, <1>6, <1>7, <1>8, <1>10, <1>11, <1>12, <1>13, <1>9
  DEF Next, Deliver, Killed, Frames

\* What a settled send leaves of the other calls.
LEMMA SettledLeaves ==
  ASSUME IInv, LInv, NEW t \in Threads, Settle(t)
  PROVE  /\ t \in Sends /\ frame[t].pc = "settle"
         /\ \A g \in Frames \ {t} :
              /\ frame'[g].op = frame[g].op /\ (frame'[g].pc = "idle" => frame[g].pc = "idle")
              /\ g \in Sends => frame'[g] = frame[g]
         /\ frame'[t].op = "none"
<1> DEFINE woken(g) == [frame[g] EXCEPT !.pc = "drain"]
<1>1. t \in Frames /\ frame[t].pc = "settle" /\ frame' = [Notified EXCEPT ![t] = Idle]
  BY DEF Settle, At, SettledNotified, Frames
<1>2. \A g \in Frames : woken(g).op = frame[g].op /\ woken(g).pc = "drain"
  BY TypeFacts, PcFields
<1>3. Notified = [g \in Frames |-> IF frame[g].pc = "drain_wait" THEN woken(g) ELSE frame[g]]
  BY DEF Notified
<1> HIDE DEF woken
<1>4. /\ frame'[t] = Idle
      /\ \A g \in Frames \ {t} :
           frame'[g] = IF frame[g].pc = "drain_wait" THEN woken(g) ELSE frame[g]
  BY <1>1, <1>3
<1> QED
  BY <1>1, <1>2, <1>4, SendFacts, IdleFields

\* A closed client begins no send.
LEMMA NoNewSends ==
  ASSUME IInv, LInv, Next, closed
  PROVE  {f \in Frames : Sending(f)'} \subseteq Sends
<1> SUFFICES ASSUME NEW f \in Frames, frame'[f].op = "track" PROVE frame[f].op = "track"
  BY DEF Sends, Sending
<1>1. CASE UNCHANGED frame
  BY <1>1
<1>2. CASE \E g \in Frames : OneMoves(g)
  BY <1>2 DEF OneMoves
<1>3. ASSUME NEW t \in Threads, Settle(t) PROVE frame[f].op = "track"
  BY <1>3, SettledLeaves
<1>4. CASE \A g \in Frames : frame'[g] = Idle
  BY <1>4, IdleFields
<1> QED
  BY <1>1, <1>2, <1>3, <1>4, StepsMove

\* How a call that sends nothing returns.
LEMMA ReturnsBy ==
  ASSUME IInv, LInv, Next, NEW f \in Frames, forked' = forked,
         frame[f].op # "track", frame[f].pc # "idle", frame'[f].pc = "idle"
  PROVE  Ends(f)
<1>1. CASE \E g \in Frames : OneMoves(g)
  BY <1>1 DEF OneMoves
<1>2. ASSUME NEW t \in Threads, Settle(t) PROVE FALSE
  <2>1. f # t
    BY <1>2, SettledLeaves DEF Sends, Sending
  <2> QED
    BY <1>2, <2>1, SettledLeaves
<1> QED
  BY <1>1, <1>2, StepsMove

\* A replay that is over leaves the log empty.
LEMMA ReplayEmpties ==
  ASSUME IInv, LInv, NEW f \in Frames, Ends(f), ReplayedAll(f)
  PROVE  log' = <<>>
<1>1. Runs(f) /\ log' = log
  BY DEF Ends, ReplayedAll, LockTimesOut, ReplayFails, ReplayRaises, ReplayDone,
         ShutdownDrained, PendingReturns, At, store
<1>2. frame[f].todo = log
  BY <1>1 DEF LInv, ReplaysLog, ReplayedAll, Suspended, Runs
<1> QED
  BY <1>1, <1>2 DEF ReplayedAll

\* A shutdown that was not late returns when no send is left.
LEMMA ShutdownEndsQuiet ==
  ASSUME IInv, LInv, NEW f \in Frames, Ends(f), Repairable,
         frame[f].op = "shutdown", ~frame[f].late
  PROVE  Sends = {}
<1>1. CASE LockTimesOut(f)
  BY <1>1 DEF LockTimesOut, OutOfTime
<1>2. CASE ReplayFails(f) \/ ReplayRaises(f) \/ ReplayDone(f)
  BY <1>2 DEF ReplayFails, ReplayRaises, ReplayDone, At, LInv, ShutdownQuiet
<1>3. CASE ShutdownDrained(f)
  <2>1. inflight = 0
    BY <1>3 DEF ShutdownDrained, NothingToAwait
  <2>2. inflight = Cardinality(Sends) /\ IsFiniteSet(Sends)
    BY FramesFinite DEF IInv, InflightExact
  <2> QED
    BY <2>1, <2>2, FS_EmptySet
<1>4. CASE PendingReturns(f)
  <2>1. Placed(f, frame[f]) /\ frame[f].pc = "snapshot"
    BY <1>4, TypeFacts DEF PendingReturns, At
  <2> QED
    BY <2>1 DEF Placed
<1> QED
  BY <1>1, <1>2, <1>3, <1>4 DEF Ends

\* A shutdown in time returns when nothing is being sent and nothing will be, and
\* leaves the log empty if it replayed it; a flush that returns TRUE leaves nothing
\* of what was in the log when it was called: for any number of threads
\* (client.py:230-258, 315-328).
THEOREM ReturnsAreHonest == Spec => ReturnsHonest
<1> DEFINE SendsNext == {f \in Frames : Sending(f)'}
           Quiet == closed /\ Sends = {} => SendsNext = {}
           Shut(t) ==
             Repairable /\ Returns(t, "shutdown") /\ ~frame[t].late =>
               /\ SendsNext = {}
               /\ ReplayedAll(t) => log' = <<>>
           Flushed(t) ==
             Returns(t, "flush") /\ ReplayedAll(t) => frame[t].owed \cap ToSet(log') = {}
           Honest == Quiet /\ \A t \in Threads : forked' = forked => Shut(t) /\ Flushed(t)
<1>1. ASSUME IInv, LInv, Next PROVE Quiet
  <2> HIDE DEF SendsNext
  <2> SUFFICES ASSUME closed, Sends = {} PROVE SendsNext = {}
    OBVIOUS
  <2>1. SendsNext \subseteq Sends
    BY <1>1, NoNewSends DEF SendsNext
  <2> QED
    BY <2>1
<1>2. ASSUME IInv, LInv, Next, NEW t \in Threads, forked' = forked PROVE Shut(t)
  <2> SUFFICES ASSUME Repairable, Returns(t, "shutdown"), ~frame[t].late
               PROVE  SendsNext = {} /\ (ReplayedAll(t) => log' = <<>>)
    OBVIOUS
  <2> HIDE DEF SendsNext, Shut, Flushed
  <2>1. t \in Frames /\ frame[t].op = "shutdown" /\ frame[t].pc # "idle" /\ frame'[t].pc = "idle"
    BY DEF Frames, Returns
  <2>2. Ends(t)
    BY <1>2, <2>1, ReturnsBy
  <2>3. Sends = {}
    BY <1>2, <2>1, <2>2, ShutdownEndsQuiet
  <2>4. closed
    <3>1. Placed(t, frame[t])
      BY <1>2, <2>1, TypeFacts
    <3> QED
      BY <2>1, <3>1 DEF Placed
  <2> QED
    BY <1>1, <1>2, <2>1, <2>2, <2>3, <2>4, ReplayEmpties
<1>3. ASSUME IInv, LInv, Next, NEW t \in Threads, forked' = forked PROVE Flushed(t)
  <2> SUFFICES ASSUME Returns(t, "flush"), ReplayedAll(t)
               PROVE  frame[t].owed \cap ToSet(log') = {}
    OBVIOUS
  <2> HIDE DEF SendsNext, Shut, Flushed
  <2>1. t \in Frames /\ frame[t].op = "flush" /\ frame[t].pc # "idle" /\ frame'[t].pc = "idle"
    BY DEF Frames, Returns
  <2>2. Ends(t)
    BY <1>3, <2>1, ReturnsBy
  <2>3. log' = <<>>
    BY <1>3, <2>1, <2>2, ReplayEmpties
  <2> QED
    BY <2>3 DEF ToSet
<1> HIDE DEF SendsNext, Shut, Flushed
<1>4. ASSUME IInv, LInv, Next PROVE Honest
  BY <1>1, <1>2, <1>3, <1>4
<1>5. IInv /\ LInv /\ [Next]_vars => [Honest]_vars
  <2> HIDE DEF Honest
  <2> QED
    BY <1>4
<1>6. Honest =>
        /\ closed /\ Sends = {} => {f \in Frames : Sending(f)'} = {}
        /\ \A t \in Threads : forked' = forked =>
             /\ Repairable /\ Returns(t, "shutdown") /\ ~frame[t].late =>
                  /\ {f \in Frames : Sending(f)'} = {}
                  /\ ReplayedAll(t) => log' = <<>>
             /\ Returns(t, "flush") /\ ReplayedAll(t) =>
                  frame[t].owed \cap ToSet(log') = {}
  BY DEF SendsNext, Shut, Flushed
<1> HIDE DEF Honest
<1> QED
  BY <1>5, <1>6, LifecycleInductive, PTL DEF Spec, ReturnsHonest

-----------------------------------------------------------------------------
(* An inline client keeps the promise of EventCustody.                     *)

\* What a send has in hand, and the events that are in hand.
Has(f, e) == frame[f].op = "track" /\ frame[f].event = e /\ frame[f].pc \in {"lock", "post"}

LEMMA InHandIs == \A e : InHand(e) <=> \E f \in Frames : Has(f, e)
  BY DEF InHand, Has, Sends, Sending

LEMMA InHandIsNext == \A e : InHand(e)' <=> \E f \in Frames : Has(f, e)'
  BY DEF InHand, Has, Sends, Sending

\* A step that is not one of a send leaves it what it has.
LEMMA HandsKept ==
  ASSUME IInv, LInv, Next, forked' = forked, \A t \in Threads : ~GoesOnSending(t)
  PROVE  \A e : InHand(e)' <=> InHand(e)
<1>1. CASE UNCHANGED frame
  BY <1>1, InHandIs, InHandIsNext DEF Has
<1>2. ASSUME NEW f \in Frames, OneMoves(f) PROVE \A g \in Frames : \A e : Has(g, e)' <=> Has(g, e)
  BY <1>2 DEF OneMoves, Has, GoesOnSending
<1>3. ASSUME NEW t \in Threads, Settle(t)
      PROVE  \A g \in Frames : \A e : Has(g, e)' <=> Has(g, e)
  <2>1. /\ frame[t].pc = "settle" /\ frame'[t].op = "none"
        /\ \A g \in Frames \ {t} : /\ frame'[g].op = frame[g].op
                                   /\ frame[g].op = "track" => frame'[g] = frame[g]
    BY <1>3, SettledLeaves, SendFacts
  <2> QED
    BY <2>1 DEF Has
<1> QED
  BY <1>1, <1>2, <1>3, StepsMove, InHandIs, InHandIsNext

\* What custody depends on.
LEMMA CustodySame ==
  ASSUME NEW e, e > tracked' <=> e > tracked, InHand(e)' <=> InHand(e),
         e \in ToSet(log') <=> e \in ToSet(log), fate'[e] = "parent" <=> fate[e] = "parent"
  PROVE  Custody(e)' = Custody(e)
  BY DEF Custody

\* What changes for one event only is a move of the promise, or none.
LEMMA OneCustody ==
  ASSUME NEW e \in Event, \A d \in Event \ {e} : Custody(d)' = Custody(d)
  PROVE  \/ UNCHANGED Custodies
         \/ Promise!Moves({e}, Custody(e), Custody(e)')
<1>1. PICK from : from = Custody(e)
  OBVIOUS
<1>2. PICK to : to = Custody(e)'
  OBVIOUS
<1> HIDE DEF Custody
<1>3. Custodies' = [d \in Event |-> IF d \in {e} THEN to ELSE Custodies[d]]
  BY <1>2 DEF Custodies
<1>4. \A d \in {e} : Custodies[d] = from
  BY <1>1 DEF Custodies
<1> QED
  BY <1>1, <1>2, <1>3, <1>4 DEF Promise!Moves

Kept == [Promise!CustodyNext]_Custodies

\* The events in hand are owed, and those that are still to come are nowhere.
LEMMA HandFacts ==
  ASSUME IInv, LInv, NEW e \in Event
  PROVE  /\ InHand(e) => /\ ~(e > tracked)
                         /\ ~handling => fate[e] = "sending"
         /\ e > tracked => ~InHand(e) /\ e \notin ToSet(log) /\ fate[e] = "new"
         /\ e \in ToSet(log) => ~(e > tracked)
<1>1. /\ tracked \in Nat /\ ToSet(log) \subseteq 1 .. tracked
      /\ \A f \in Sends : frame[f].event \in 1 .. tracked
  BY SendFacts, TypeFacts
<1>2. \A d \in 1 .. tracked : ~(d > tracked)
  BY <1>1
<1>3. ASSUME NEW f \in Sends, frame[f].pc \in {"lock", "post"}, ~handling
      PROVE  fate[frame[f].event] = "sending"
  BY <1>3, SendFacts DEF LInv, SendsOwed, Suspended
<1> QED
  BY <1>1, <1>2, <1>3 DEF InHand, LInv, FatesKept

\* An event that is refused, or admitted.
LEMMA AdmitKeepsCustody ==
  ASSUME IInv, LInv, NEW t \in Threads, AdmitRefused(t) \/ Admit(t)
  PROVE  Kept
<1>0. PICK e : e = tracked + 1
  OBVIOUS
<1>1. /\ e \in Event /\ ~(e > tracked') /\ tracked \in Nat /\ e > tracked
      /\ \A d \in Event \ {e} : d > tracked' <=> d > tracked
  <2>1. tracked \in 0 .. MaxEvents /\ MaxEvents \in Nat
    BY TypeFacts
  <2>2. tracked < MaxEvents /\ tracked' = e
    BY <1>0 DEF AdmitRefused, Admit
  <2> QED
    BY <1>0, <2>1, <2>2 DEF Event
<1>2. log' = log /\ t \in Frames /\ frame[t].op = "none"
  BY IdleFacts DEF AdmitRefused, Admit, store, CanCall, At, Frames
<1>3. ~InHand(e) /\ e \notin ToSet(log) /\ Custody(e) = "outside"
  BY <1>1, HandFacts DEF Custody
<1>4. fate'[e] \in {"refused", "sending"} /\ \A d \in Event \ {e} : fate'[d] = fate[d]
  BY <1>0, <1>1, OneFate DEF AdmitRefused, Admit
<1>5. CASE AdmitRefused(t)
  <2>1. \A d : InHand(d)' <=> InHand(d)
    BY <1>5, InHandIs, InHandIsNext DEF AdmitRefused, Has
  <2>2. Custody(e)' = "settled"
    BY <1>1, <1>2, <1>3, <1>4, <2>1 DEF Custody
  <2>3. \A d \in Event \ {e} : Custody(d)' = Custody(d)
    BY <1>1, <1>2, <1>4, <2>1, CustodySame
  <2> HIDE DEF Custody
  <2> QED
    BY <1>1, <1>3, <2>2, <2>3, OneCustody DEF Kept, Promise!CustodyNext, Promise!Refused
<1>6. CASE Admit(t)
  <2>1. frame'[t] = Begun("track", "lock", e, FALSE, {})
        /\ \A g \in Frames \ {t} : frame'[g] = frame[g]
    BY <1>0, <1>2, <1>6, OneFrame DEF Admit
  <2>2. \A d : Has(t, d)' <=> d = e
    BY <2>1 DEF Has, Begun
  <2>3. \A d : InHand(d)' <=> InHand(d) \/ d = e
    BY <1>2, <2>1, <2>2, InHandIs, InHandIsNext DEF Has
  <2>4. Custody(e)' = "memory"
    BY <1>1, <2>3 DEF Custody
  <2>5. \A d \in Event \ {e} : Custody(d)' = Custody(d)
    BY <1>1, <1>2, <1>4, <2>3, CustodySame
  <2> HIDE DEF Custody
  <2> QED
    BY <1>1, <1>3, <2>4, <2>5, OneCustody DEF Kept, Promise!CustodyNext, Promise!Accepted
<1> QED
  BY <1>5, <1>6

\* A send that is written, answered, or given up.
LEMMA SendKeepsCustody ==
  ASSUME IInv, LInv, NEW t \in Threads,
         SendLocked(t) \/ PutRaises(t) \/ Answered(t) \/ SendFails(t)
  PROVE  Kept
<1>0. PICK e : e = frame[t].event
  OBVIOUS
<1>1. SendMoves(t)
  BY DeliverMoves
<1>2. /\ t \in Frames /\ e \in Event /\ Has(t, e) /\ tracked' = tracked
      /\ \A f \in Sends \ {t} : frame[f].event # e
  BY <1>0, <1>1, SendFacts DEF SendMoves, Has, Sends, Sending
<1>3. /\ \A d \in Event \ {e} : fate'[d] = fate[d] /\ (d \in ToSet(log') <=> d \in ToSet(log))
      /\ \A g \in Frames \ {t} : frame'[g] = frame[g]
      /\ frame'[t].op = "track" /\ frame'[t].event = e
      /\ \/ frame'[t].pc = "post"
         \/ /\ frame'[t].pc = "settle" /\ fate'[e] \in {"answered", "stored", "failed"}
            /\ e \in ToSet(log') <=> fate'[e] = "stored"
  BY <1>0, <1>1 DEF SendMoves
<1>4. \A d : d # e => (InHand(d)' <=> InHand(d))
  BY <1>2, <1>3, InHandIs, InHandIsNext DEF Has
<1>5. \A d \in Event \ {e} : Custody(d)' = Custody(d)
  BY <1>2, <1>3, <1>4, CustodySame
<1>6. InHand(e) /\ ~(e > tracked)
  BY <1>2, InHandIs, HandFacts
<1>7. Custody(e) = "memory"
  BY <1>6 DEF Custody
<1>8. Custody(e)' \in {"memory", "log", "settled"}
  <2>1. CASE frame'[t].pc = "post"
    <3>1. InHand(e)'
      BY <1>2, <1>3, <2>1, InHandIsNext DEF Has
    <3> QED
      BY <1>2, <1>6, <3>1 DEF Custody
  <2>2. CASE fate'[e] \in {"answered", "stored", "failed"}
    BY <1>2, <1>6, <2>2 DEF Custody
  <2> QED
    BY <1>3, <2>1, <2>2
<1> HIDE DEF Custody
<1>9. CASE Custody(e)' = "memory"
  BY <1>5, <1>7, <1>9 DEF Kept, Custodies
<1>10. {e} \in SUBSET Event
  BY <1>2
<1> QED
  BY <1>2, <1>5, <1>7, <1>8, <1>9, <1>10, OneCustody
  DEF Kept, Promise!CustodyNext, Promise!Retained, Promise!Settled

\* A record that is replayed, also the one that the main thread was sending when
\* the handler interrupted it.
LEMMA ReplayKeepsCustody ==
  ASSUME IInv, LInv, NEW f \in Frames, Replayed(f)
  PROVE  Kept
<1>1. PICK e : e = Head(frame[f].todo)
  OBVIOUS
<1>2. /\ frame[f].pc = "replay" /\ ~Suspended(f) /\ frame[f].todo # <<>>
      /\ log' = Without(e) /\ Becomes(e, "answered") /\ UNCHANGED <<tracked, forked>>
      /\ Next
  BY <1>1 DEF Replayed, At, Runs, Suspended, process, Next, Recover
<1>3. e \in Event /\ e \in ToSet(log)
  <2>1. frame[f].todo = log /\ log \in Seq(Event) /\ ToSet(log) \subseteq Event
    BY <1>2, TypeFacts DEF LInv, ReplaysLog
  <2>2. log # <<>> /\ e = log[1] /\ 1 \in DOMAIN log
    BY <1>1, <1>2, <2>1
  <2> QED
    BY <2>1, <2>2 DEF ToSet
<1>4. fate'[e] = "answered" /\ \A d \in Event \ {e} : fate'[d] = fate[d]
  BY <1>2, <1>3, OneFate
<1>5. ToSet(log') = ToSet(log) \ {e}
  BY <1>2, <1>3, LogWithout
<1>6. \A d : InHand(d)' <=> InHand(d)
  <2> DEFINE r == [frame[f] EXCEPT !.todo = Tail(frame[f].todo)]
  <2>1. r.pc = "replay"
    BY <1>2, TypeFacts, TodoFields
  <2> HIDE DEF r
  <2>2. frame'[f] = r /\ \A g \in Frames \ {f} : frame'[g] = frame[g]
    BY OneFrame DEF Replayed, r
  <2>3. \A g \in Frames : \A d : Has(g, d)' <=> Has(g, d)
    BY <1>2, <2>1, <2>2 DEF Has
  <2> QED
    BY <2>3, InHandIs, InHandIsNext
<1>7. \A d \in Event \ {e} : Custody(d)' = Custody(d)
  BY <1>2, <1>4, <1>5, <1>6, CustodySame
<1>8. ~(e > tracked)
  BY <1>3, HandFacts
<1>9. CASE InHand(e)
  <2>1. Custody(e)' = Custody(e)
    BY <1>2, <1>6, <1>8, <1>9 DEF Custody
  <2> HIDE DEF Custody
  <2> QED
    BY <1>7, <2>1 DEF Kept, Custodies
<1>10. CASE ~InHand(e)
  <2>1. Custody(e) = "log" /\ Custody(e)' = "settled"
    BY <1>2, <1>3, <1>4, <1>5, <1>6, <1>8, <1>10 DEF Custody
  <2>2. {e} \in SUBSET Event
    BY <1>3
  <2> HIDE DEF Custody
  <2> QED
    BY <1>3, <1>7, <2>1, <2>2, OneCustody DEF Kept, Promise!CustodyNext, Promise!Replayed
<1> QED
  BY <1>9, <1>10

\* A live client that is repaired owes nothing any more.
LEMMA ForkKeepsCustody ==
  ASSUME IInv, LInv, NEW t \in Threads, Fork(t), Repairable'
  PROVE  Kept
<1>1. /\ \A f \in Frames : frame'[f] = Idle
      /\ \A e \in Event : fate'[e] = IF fate[e] \in {"sending", "stored"} THEN "parent" ELSE fate[e]
      /\ tracked' = tracked /\ ~handling /\ Repairable /\ log' = <<>>
  BY DEF Fork, Repaired, Inherited, Detached, Repairable, CanCall, At, Runs
<1>2. \A e : ~InHand(e)'
  BY <1>1, InHandIsNext, IdleFields DEF Has
<1>3. ToSet(log') = {}
  BY <1>1 DEF ToSet
<1>4. ASSUME NEW e \in Event
      PROVE  Custody(e)' = IF Custody(e) \in {"memory", "log"} THEN "parent" ELSE Custody(e)
  <2>1. /\ InHand(e) => fate[e] = "sending" /\ ~(e > tracked)
        /\ e > tracked => ~InHand(e) /\ e \notin ToSet(log)
    BY <1>1, HandFacts
  <2>2. e \in ToSet(log) => fate[e] \in {"sending", "stored"}
    BY <1>1 DEF LInv, LogOwed
  <2>3. fate[e] \in {"sending", "stored"} => InHand(e) \/ e \in ToSet(log)
    BY DEF LInv, FatesKept, InHand
  <2> QED
    BY <1>1, <1>2, <1>3, <2>1, <2>2, <2>3 DEF Custody
<1> HIDE DEF Custody
<1>5. Custodies' = [e \in Event |-> IF Custodies[e] \in {"memory", "log"} THEN "parent"
                                                                     ELSE Custodies[e]]
  BY <1>4 DEF Custodies
<1> QED
  BY <1>5 DEF Kept, Promise!CustodyNext, Promise!Parted

\* Every other step leaves every event where it is.
LEMMA OthersKeepCustody ==
  ASSUME IInv, LInv, Next, \A t \in Threads : ~GoesOnSending(t) /\ ~AdmitRefused(t) /\ ~Fork(t),
         \A f \in Frames : ~Replayed(f)
  PROVE  Kept
<1>1. UNCHANGED <<log, fate, tracked, forked>>
  BY DEF Next, Deliver, GoesOnSending, Exits, Drain, ShutdownWaits, ShutdownDrained, FlushCalled,
         ShutdownCalled, PendingCounts, PendingReturns, CallHangs, Recover, RecoverLocked,
         SnapshotHangs, LockTimesOut, ReplayFails, ReplayRaises, ReplayDone, DeadlinePasses,
         SignalArrives, Killed, Settle, store, history, process
<1>2. \A e : InHand(e)' <=> InHand(e)
  BY <1>1, HandsKept
<1>3. \A e \in Event : Custody(e)' = Custody(e)
  BY <1>1, <1>2, CustodySame
<1> HIDE DEF Custody
<1> QED
  BY <1>3 DEF Kept, Custodies

\* An inline client implements EventCustody, for any number of threads and events:
\* whatever is interrupted, given up or replayed, an event is in one custody until
\* it is settled once and for all, and goes from a call to the log but never back
\* (client.py:276-328; transport.py:104-160).
THEOREM InlineKeepsCustody == Spec => KeepsCustody
<1>1. Init => Promise!CustodyInit
  <2>1. SUFFICES ASSUME Init PROVE \A e \in Event : Custody(e) = "outside"
    BY DEF Promise!CustodyInit, Custodies
  <2> QED
    BY <2>1, LifecycleAssumption DEF Init, Custody, Event
<1>2. IInv /\ LInv /\ [Next]_vars
        => [Promise!CustodyNext \/ (Repairable /\ ~Repairable')]_Custodies
  <2>1. SUFFICES ASSUME IInv, LInv, [Next]_vars, ~(Repairable /\ ~Repairable')
                 PROVE  Kept
    BY DEF Kept
  <2>2. CASE UNCHANGED vars
    BY <2>2 DEF vars, store, history, process, Kept, Custodies, Custody, InHand, Sends, Sending
  <2>3. ASSUME NEW t \in Threads, Fork(t) PROVE Repairable'
    BY <2>1, <2>3 DEF Fork, Repairable
  <2>4. CASE \E t \in Threads : GoesOnSending(t) \/ AdmitRefused(t) \/ Fork(t)
    BY <2>1, <2>3, <2>4, AdmitKeepsCustody, SendKeepsCustody, ForkKeepsCustody
    DEF GoesOnSending
  <2>5. CASE \E f \in Frames : Replayed(f)
    BY <2>1, <2>5, ReplayKeepsCustody
  <2> QED
    BY <2>1, <2>2, <2>4, <2>5, OthersKeepCustody
<1> QED
  BY <1>1, <1>2, LifecycleInductive, PTL DEF Spec, KeepsCustody
=============================================================================
