----------------------------- MODULE LogProofs -----------------------------
(***************************************************************************)
(* What the log and the calls on it promise: it can be loaded, the wire    *)
(* follows it, nothing acknowledged is sent again, calls tell the truth    *)
(* about it, the transport implements the queue on disk of DurableLog      *)
(* (KeepsLog), calls keep their deadlines, and the server is given the     *)
(* time it asked for.                                                      *)
(***************************************************************************)
EXTENDS TransportProofs, FiniteSetTheorems

-----------------------------------------------------------------------------
(* What the mutations make of the records.                                 *)

\* No batch has two records.
Distinct(contents) ==
  \A i, k \in DOMAIN contents : contents[i].batch = contents[k].batch => i = k

\* put() appends one record.
LEMMA PutShape ==
  ASSUME StoreTyped, NEW b \in Batch, PutBegins(b)
  PROVE  /\ b \notin Ids(records) /\ records' = Append(records, Record(b, 0))
         /\ Len(records') = Len(records) + 1 /\ DOMAIN records' = 1 .. Len(records) + 1
         /\ \A i \in DOMAIN records : i \in DOMAIN records' /\ records'[i] = records[i]
         /\ records'[Len(records) + 1].batch = b
         /\ Ids(records') = Ids(records) \cup {b}
<1>1. records' = Append(records, Record(b, 0)) /\ b \notin Ids(records)
  BY DEF PutBegins, Mutates
<1>2. /\ Len(records) \in Nat /\ DOMAIN records = 1 .. Len(records)
      /\ Record(b, 0) \in Records /\ records \in Seq(Records)
  BY RecordTypes DEF StoreTyped
<1>3. /\ Len(records') = Len(records) + 1 /\ DOMAIN records' = 1 .. Len(records) + 1
      /\ records'[Len(records) + 1] = Record(b, 0)
      /\ \A i \in DOMAIN records : i \in DOMAIN records' /\ records'[i] = records[i]
  BY <1>1, <1>2
<1>4. Record(b, 0).batch = b
  BY DEF Record
<1>5. DOMAIN records' = DOMAIN records \cup {Len(records) + 1}
  BY <1>2, <1>3
<1>6. Ids(records') = Ids(records) \cup {b}
  BY <1>3, <1>4, <1>5 DEF Ids
<1> QED
  BY <1>1, <1>3, <1>4, <1>6

\* acknowledge() removes the one record of its batch.
LEMMA AcknowledgeShape ==
  ASSUME StoreTyped, Distinct(records), NEW b, AcknowledgeBegins(b)
  PROVE  \E i \in DOMAIN records :
           /\ records[i].batch = b /\ records' = RemoveAt(records, i)
           /\ Len(records') = Len(records) - 1 /\ DOMAIN records' = 1 .. Len(records) - 1
           /\ \A k \in 1 .. Len(records) - 1 :
                records'[k] = IF k < i THEN records[k] ELSE records[k + 1]
           /\ Ids(records') \subseteq Ids(records) \ {b}
<1>1. PICK i \in DOMAIN records : records[i].batch = b /\ records' = RemoveAt(records, i)
  BY DEF AcknowledgeBegins, Mutates
<1>2. records \in Seq(Records) /\ Len(records) \in Nat /\ DOMAIN records = 1 .. Len(records)
  BY DEF StoreTyped
<1>3. /\ records' \in Seq(Records) /\ Len(records') = Len(records) - 1
      /\ \A k \in 1 .. Len(records) - 1 :
           records'[k] = IF k < i THEN records[k] ELSE records[k + 1]
  BY <1>1, <1>2, RemoveAtShape
<1>4. DOMAIN records' = 1 .. Len(records) - 1
  BY <1>3
<1>5. ASSUME NEW k \in 1 .. Len(records) - 1
      PROVE  \E j \in DOMAIN records \ {i} : records'[k] = records[j]
  <2>1. CASE k < i
    <3>1. k \in DOMAIN records \ {i}
      BY <1>2, <2>1
    <3> QED
      BY <1>3, <2>1, <3>1
  <2>2. CASE ~(k < i)
    <3>1. k + 1 \in DOMAIN records \ {i}
      BY <1>2, <2>2
    <3> QED
      BY <1>3, <2>2, <3>1
  <2> QED
    BY <2>1, <2>2
<1>6. Ids(records') \subseteq Ids(records) \ {b}
  BY <1>1, <1>4, <1>5 DEF Ids, Distinct
<1> QED
  BY <1>1, <1>3, <1>4, <1>6

\* pause() changes no batch.
LEMMA PauseShape ==
  ASSUME NEW b, NEW until, PauseBegins(b, until)
  PROVE  /\ DOMAIN records' = DOMAIN records
         /\ \A i \in DOMAIN records : records'[i].batch = records[i].batch
         /\ Ids(records') = Ids(records)
<1>1. records' = [i \in DOMAIN records |->
                    IF records[i].batch = b THEN Record(b, until) ELSE records[i]]
  BY DEF PauseBegins, Mutates
<1>2. DOMAIN records' = DOMAIN records
      /\ \A i \in DOMAIN records : records'[i].batch = records[i].batch
  BY <1>1 DEF Record
<1> QED
  BY <1>2 DEF Ids

-----------------------------------------------------------------------------
(* Whatever is on disk can be loaded again.                                *)

\* Contents that can be loaded; that they are finite is what makes them countable.
Fine(contents) == Loadable(contents) /\ IsFiniteSet(EventsOf(contents))

\* Everything that memory and the disk may show.
AllFine == Fine(records) /\ \A contents \in survivors : Fine(contents)

\* An empty log is fine.
LEMMA EmptyFine == Fine(<<>>)
<1>1. Ids(<<>>) = {}
  BY DEF Ids
<1>2. EventsOf(<<>>) = {}
  BY <1>1 DEF EventsOf
<1>3. Loadable(<<>>)
  <2>1. PendingEvents(<<>>) = 0
    BY <1>2, FS_EmptySet DEF PendingEvents
  <2>2. DOMAIN <<>> = {}
    OBVIOUS
  <2> QED
    BY <2>1, <2>2, StoreAssumption DEF Loadable
<1> QED
  BY <1>2, <1>3, FS_EmptySet DEF Fine

\* Contents with no other batches than fine contents are fine, if distinct.
LEMMA FewerFine ==
  ASSUME NEW more, NEW fewer, Fine(more), Ids(fewer) \subseteq Ids(more), Distinct(fewer)
  PROVE  Fine(fewer)
<1>1. EventsOf(fewer) \in SUBSET EventsOf(more)
  BY DEF EventsOf
<1>2. /\ IsFiniteSet(EventsOf(fewer))
      /\ Cardinality(EventsOf(fewer)) <= Cardinality(EventsOf(more))
  BY <1>1, FS_Subset DEF Fine
<1>3. /\ Cardinality(EventsOf(fewer)) \in Nat /\ Cardinality(EventsOf(more)) \in Nat
      /\ MaxPendingEvents \in Nat
  BY <1>2, FS_CardinalityType, StoreAssumption DEF Fine
<1>4. Cardinality(EventsOf(more)) <= MaxPendingEvents
  BY DEF Fine, Loadable, PendingEvents
<1>5. PendingEvents(fewer) <= MaxPendingEvents
  BY <1>2, <1>3, <1>4 DEF PendingEvents
<1> QED
  BY <1>2, <1>5 DEF Fine, Loadable, Distinct

\* A batch that fits leaves fine records fine.
LEMMA PutFine ==
  ASSUME StoreTyped, Fine(records), NEW b \in Batch, PutBegins(b)
  PROVE  Fine(records')
<1> DEFINE new == {b} \X (1 .. EventCount[b])
<1>1. EventCount[b] \in Nat /\ MaxPendingEvents \in Nat
  BY StoreAssumption
<1>2. IsFiniteSet(new) /\ Cardinality(new) = EventCount[b]
  <2>1. IsFiniteSet({b}) /\ Cardinality({b}) = 1
    BY FS_Singleton
  <2>2. IsFiniteSet(1 .. EventCount[b]) /\ Cardinality(1 .. EventCount[b]) = EventCount[b]
    BY <1>1, FS_Interval
  <2>3. IsFiniteSet(new) /\ Cardinality(new) = 1 * EventCount[b]
    BY <2>1, <2>2, FS_Product
  <2> QED
    BY <1>1, <2>3
<1>3. EventsOf(records') = EventsOf(records) \cup new
  BY PutShape DEF EventsOf
<1> HIDE DEF new
<1>4. /\ IsFiniteSet(EventsOf(records) \cup new)
      /\ Cardinality(EventsOf(records) \cup new) =
           Cardinality(EventsOf(records)) + Cardinality(new)
             - Cardinality(EventsOf(records) \cap new)
  BY <1>2, FS_Union DEF Fine
<1>5. /\ Cardinality(EventsOf(records)) \in Nat
      /\ Cardinality(EventsOf(records) \cap new) \in Nat
  <2>1. EventsOf(records) \cap new \in SUBSET new
    OBVIOUS
  <2> QED
    BY <1>2, <2>1, FS_Subset, FS_CardinalityType DEF Fine
<1>6. Cardinality(EventsOf(records)) + EventCount[b] <= MaxPendingEvents
  BY DEF PutBegins, Fits, PendingEvents
<1>7. PendingEvents(records') <= MaxPendingEvents
  BY <1>1, <1>2, <1>3, <1>4, <1>5, <1>6 DEF PendingEvents
<1>8. Distinct(records')
  <2>1. \A i \in DOMAIN records : records[i].batch # b
    BY PutShape DEF Ids
  <2>2. DOMAIN records' = DOMAIN records \cup {Len(records) + 1}
    <3>1. Len(records) \in Nat /\ DOMAIN records = 1 .. Len(records)
      BY DEF StoreTyped
    <3>2. DOMAIN records' = 1 .. Len(records) + 1
      BY PutShape
    <3> QED
      BY <3>1, <3>2
  <2>3. Distinct(records)
    BY DEF Fine, Loadable, Distinct
  <2> QED
    BY <2>1, <2>2, <2>3, PutShape DEF Distinct
<1> QED
  BY <1>3, <1>4, <1>7, <1>8 DEF Fine, Loadable, Distinct

\* So do an acknowledgement and a pause.
LEMMA LessFine ==
  ASSUME StoreTyped, Fine(records), NEW b, NEW until,
         AcknowledgeBegins(b) \/ PauseBegins(b, until)
  PROVE  Fine(records')
<1>1. Distinct(records) /\ Len(records) \in Nat /\ DOMAIN records = 1 .. Len(records)
  BY DEF Fine, Loadable, Distinct, StoreTyped
<1>2. CASE AcknowledgeBegins(b)
  <2>1. PICK i \in DOMAIN records :
          /\ DOMAIN records' = 1 .. Len(records) - 1
          /\ \A k \in 1 .. Len(records) - 1 :
               records'[k] = IF k < i THEN records[k] ELSE records[k + 1]
          /\ Ids(records') \subseteq Ids(records) \ {b}
    BY <1>1, <1>2, AcknowledgeShape
  <2>2. ASSUME NEW j \in DOMAIN records', NEW k \in DOMAIN records',
               records'[j].batch = records'[k].batch
        PROVE  j = k
    <3> DEFINE was(n) == IF n < i THEN n ELSE n + 1
    <3>1. /\ was(j) \in DOMAIN records /\ records'[j] = records[was(j)]
          /\ was(k) \in DOMAIN records /\ records'[k] = records[was(k)]
      BY <1>1, <2>1
    <3>2. was(j) = was(k)
      BY <1>1, <2>2, <3>1 DEF Distinct
    <3> QED
      BY <1>1, <2>1, <3>2
  <2>3. Distinct(records')
    BY <2>2 DEF Distinct
  <2> QED
    BY <2>1, <2>3, FewerFine
<1>3. CASE PauseBegins(b, until)
  <2>1. Distinct(records')
    BY <1>1, <1>3, PauseShape DEF Distinct
  <2> QED
    BY <1>3, <2>1, PauseShape, FewerFine
<1> QED
  BY <1>2, <1>3

\* Every step leaves memory and disk loadable.
LEMMA FineStep ==
  ASSUME AllFine, MemoryMatchesFile, TransportTyped, [Next]_vars
  PROVE  AllFine'
<1>1. StoreTyped /\ file \in survivors
  BY DEF TransportTyped, MemoryMatchesFile
<1>2. ASSUME NEW t \in Threads, PutStarts(t) PROVE AllFine'
  <2>1. call[t].batch \in Batch
    BY <1>2 DEF PutStarts, TransportTyped, CallsInPlace, InPlace
  <2>2. PutBegins(call[t].batch) /\ UNCHANGED survivors
    BY <1>2 DEF PutStarts, PutBegins, Mutates
  <2>3. Fine(records')
    BY <1>1, <2>1, <2>2, PutFine DEF AllFine
  <2> QED
    BY <2>2, <2>3 DEF AllFine, Fine, EventsOf, Loadable, PendingEvents, Ids
<1>3. ASSUME NEW t \in Threads, AcknowledgeStarts(t) \/ PauseStarts(t) PROVE AllFine'
  <2>1. /\ AcknowledgeBegins(call[t].batch) \/ PauseBegins(call[t].batch, call[t].until)
        /\ UNCHANGED survivors
    BY <1>3 DEF AcknowledgeStarts, PauseStarts, AcknowledgeBegins, PauseBegins, Mutates
  <2>2. Fine(records')
    BY <1>1, <2>1, LessFine DEF AllFine
  <2> QED
    BY <2>1, <2>2 DEF AllFine, Fine, EventsOf, Loadable, PendingEvents, Ids
<1>4. ASSUME \/ WriteFails \/ ReplaceFile \/ WriteReturns \/ ProcessDies \/ PowerFails
             \/ Opens \/ UNCHANGED storeVars
      PROVE  AllFine'
  <2>1. records' \in {records, file, <<>>} /\ survivors' \subseteq survivors \cup {records, file}
    BY <1>1, <1>4
    DEF WriteFails, ReplaceFile, WriteReturns, ProcessDies, PowerFails, Opens, Stops,
        storeVars, MemoryMatchesFile
  <2>2. Fine(file)
    BY <1>1 DEF AllFine
  <2> QED
    BY <2>1, <2>2, EmptyFine DEF AllFine
<1>5. ASSUME NEW t \in Threads, Calm(t) \/ MutationReturns(t) \/ MutationRaises(t)
      PROVE  AllFine'
  BY <1>4, <1>5, CalmStore DEF MutationReturns, MutationRaises
<1>6. CASE Replace \/ Crash \/ Restart \/ Tick \/ UNCHANGED vars
  BY <1>4, <1>6 DEF Replace, Crash, Restart, Tick, vars
<1> QED
  BY <1>2, <1>3, <1>5, <1>6 DEF Next, Step, Calm

\* Whatever is on disk can be loaded again (persistence.py:48-92): whatever the
\* threads do, and wherever writes fail and processes and the machine stop, even
\* on a platform that does not sync directories.
THEOREM LogCanBeLoaded == Spec => []LogLoads
<1> DEFINE Inv == TransportTyped /\ MemoryMatchesFile /\ AllFine
<1>1. Init => Inv
  BY TransportTypeInit, StoreInitMatches, EmptyFine DEF Init, StoreInit, AllFine
<1>2. Inv /\ [Next]_vars => Inv'
  BY TransportTypeStep, TransportStep, StoreStepMatches, FineStep
<1>3. Inv => LogLoads
  BY DEF AllFine, Fine, LogLoads, Kept, MemoryMatchesFile
<1> HIDE DEF Inv
<1> QED
  BY <1>1, <1>2, <1>3, PTL DEF Spec

-----------------------------------------------------------------------------
(* What the steps of a thread do to its place and its call.                *)

\* Where a thread is between the write of its record and the answer for it.
Trying == {"attempt", "backoff", "post", "ack", "giveup"}

\* The other threads stay where they are.
OthersStay(t) == \A u \in Threads \ {t} : pc'[u] = pc[u] /\ call'[u] = call[u]

\* A call is made, of send and persist with a batch nobody has seen.
Begins(t) ==
  /\ pc[t] = "idle"
  /\ \/ pc'[t] = "lock" /\ call'[t].op = "recover" /\ UNCHANGED used
     \/ /\ \/ pc'[t] = "lock" /\ call'[t].op = "send"
           \/ pc'[t] = "put" /\ call'[t].op = "persist"
        /\ call'[t].batch \notin used /\ used' = used \cup {call'[t].batch}
  /\ UNCHANGED <<promised, received, answered, gone>>

\* The delivery lock is taken, and by a replay the snapshot.
Locks(t) ==
  /\ pc[t] = "lock" /\ LockFree
  /\ \/ pc'[t] = "put" /\ call[t].op = "send" /\ call'[t] = call[t]
     \/ /\ pc'[t] = "next" /\ call[t].op = "recover" /\ call'[t].op = "recover"
        /\ Unlocked /\ call'[t].todo = records
  /\ UNCHANGED history

\* A replay turns to its next record.
Turns(t) ==
  /\ pc[t] = "next" /\ pc'[t] \in {"attempt", "paused"}
  /\ call[t].todo # <<>> /\ call'[t].todo = call[t].todo
  /\ call'[t].op = call[t].op /\ call'[t].batch = Head(call[t].todo).batch
  /\ UNCHANGED history

\* A record is waited for, sent, or answered for.
Tries(t) ==
  /\ pc[t] \in {"paused", "attempt", "backoff", "post"} /\ pc'[t] \in Trying
  /\ call'[t].op = call[t].op /\ call'[t].batch = call[t].batch
  /\ call'[t].todo = call[t].todo
  /\ received' \in {received, received \cup {call[t].batch}}
  /\ answered' \in {answered, answered \cup {call[t].batch}}
  /\ pc[t] # "post" => UNCHANGED <<received, answered>> /\ pc'[t] # "ack"
  /\ pc'[t] = "ack" => /\ call[t].batch \in answered'
                       /\ call'[t].success => call[t].batch \in received'
  /\ UNCHANGED <<used, promised, gone>>

\* A call returns.
Ends(t) ==
  /\ pc[t] # "idle" /\ pc'[t] = "idle"
  /\ call'[t].op = call[t].op /\ call'[t].batch = call[t].batch
  /\ UNCHANGED <<used, promised, received, answered>>

\* Going to a place changes this thread only.
LEMMA GoesShape ==
  ASSUME CallsTyped, NEW t \in Threads, NEW place, NEW c, Goes(t, place, c)
  PROVE  pc'[t] = place /\ call'[t] = c /\ OthersStay(t)
  BY DEF CallsTyped, Goes, Move, OthersStay

LEMMA MoveShape ==
  ASSUME CallsTyped, NEW t \in Threads, NEW place, Move(t, place), UNCHANGED call
  PROVE  pc'[t] = place /\ call'[t] = call[t] /\ OthersStay(t)
  BY DEF CallsTyped, Move, OthersStay

LEMMA ReturnsShape ==
  ASSUME CallsTyped, NEW t \in Threads, NEW outcome, Returns(t, outcome)
  PROVE  /\ pc'[t] = "idle" /\ call'[t].op = call[t].op /\ call'[t].batch = call[t].batch
         /\ call'[t].outcome = outcome /\ OthersStay(t)
<1> DEFINE c == [NoCall EXCEPT !.op = call[t].op, !.batch = call[t].batch,
                               !.outcome = outcome]
<1>1. pc'[t] = "idle" /\ call'[t] = c /\ OthersStay(t)
  BY GoesShape DEF Returns
<1>2. c.op = call[t].op /\ c.batch = call[t].batch /\ c.outcome = outcome
  BY DEF NoCall
<1> QED
  BY <1>1, <1>2

\* The outcome of a call that fails.
LEMMA FailsShape ==
  ASSUME CallsTyped, NEW t \in Threads, NEW contents, FailsWith(t, contents)
  PROVE  /\ pc'[t] = "idle" /\ call'[t].op = call[t].op /\ call'[t].batch = call[t].batch
         /\ OthersStay(t)
         /\ call'[t].outcome =
              IF call[t].op # "send" THEN "false"
              ELSE IF call[t].batch \in Ids(contents) THEN "retained" ELSE "failed"
  BY ReturnsShape DEF FailsWith

\* Every step that leaves the store alone is one of the five.
LEMMA CalmShape ==
  ASSUME CallsTyped, CallsInPlace, NEW t \in Threads, Calm(t)
  PROVE  /\ OthersStay(t)
         /\ Begins(t) \/ Locks(t) \/ Turns(t) \/ Tries(t) \/ (Ends(t) /\ UNCHANGED history)
<1>1. call[t] \in CallStates /\ InPlace(pc[t], call[t])
  BY DEF CallsTyped, CallsInPlace
<1>2. CASE SendCalled(t)
  <2>1. PICK b \in Batch \ used :
          /\ \E d : Goes(t, "lock", [NoCall EXCEPT !.op = "send", !.batch = b, !.deadline = d])
          /\ pc[t] = "idle" /\ used' = used \cup {b}
    BY <1>2 DEF SendCalled, CanCall
  <2> PICK d : Goes(t, "lock", [NoCall EXCEPT !.op = "send", !.batch = b, !.deadline = d])
    BY <2>1
  <2> DEFINE c == [NoCall EXCEPT !.op = "send", !.batch = b, !.deadline = d]
  <2>2. c.op = "send" /\ c.batch = b
    BY DEF NoCall
  <2>3. pc'[t] = "lock" /\ call'[t] = c /\ OthersStay(t)
    BY <2>1, GoesShape
  <2> HIDE DEF c
  <2> QED
    BY <1>2, <2>1, <2>2, <2>3 DEF SendCalled, Begins
<1>3. CASE RecoverCalled(t)
  <2>1. PICK d : Goes(t, "lock", [NoCall EXCEPT !.op = "recover", !.deadline = d])
                 /\ pc[t] = "idle"
    BY <1>3 DEF RecoverCalled, CanCall
  <2> DEFINE c == [NoCall EXCEPT !.op = "recover", !.deadline = d]
  <2>2. c.op = "recover"
    BY DEF NoCall
  <2>3. pc'[t] = "lock" /\ call'[t] = c /\ OthersStay(t)
    BY <2>1, GoesShape
  <2> HIDE DEF c
  <2> QED
    BY <1>3, <2>1, <2>2, <2>3 DEF RecoverCalled, Begins, history
<1>4. CASE PersistCalled(t)
  <2>1. PICK b \in Batch \ used :
          /\ Goes(t, "put", [NoCall EXCEPT !.op = "persist", !.batch = b])
          /\ pc[t] = "idle" /\ used' = used \cup {b}
    BY <1>4 DEF PersistCalled, CanCall
  <2> DEFINE c == [NoCall EXCEPT !.op = "persist", !.batch = b]
  <2>2. c.op = "persist" /\ c.batch = b
    BY DEF NoCall
  <2>3. pc'[t] = "put" /\ call'[t] = c /\ OthersStay(t)
    BY <2>1, GoesShape
  <2> HIDE DEF c
  <2> QED
    BY <1>4, <2>1, <2>2, <2>3 DEF PersistCalled, Begins
<1>5. CASE LockTaken(t)
  <2>1. pc[t] = "lock" /\ LockFree /\ UNCHANGED history /\ call[t].op \in {"send", "recover"}
    BY <1>1, <1>5 DEF LockTaken, InPlace
  <2>2. CASE call[t].op = "send"
    <3>1. pc'[t] = "put" /\ call'[t] = call[t] /\ OthersStay(t)
      BY <1>5, <2>2, GoesShape DEF LockTaken
    <3> QED
      BY <2>1, <2>2, <3>1 DEF Locks
  <2>3. CASE call[t].op = "recover"
    <3> DEFINE c == [call[t] EXCEPT !.todo = records]
    <3>1. Unlocked /\ pc'[t] = "next" /\ call'[t] = c /\ OthersStay(t)
      BY <1>5, <2>3, GoesShape DEF LockTaken
    <3>2. c.op = call[t].op /\ c.todo = records
      BY <1>1 DEF CallStates
    <3> HIDE DEF c
    <3> QED
      BY <2>1, <2>3, <3>1, <3>2 DEF Locks
  <2> QED
    BY <2>1, <2>2, <2>3
<1>6. CASE LockTimesOut(t) \/ PutRefused(t) \/ PersistConfirms(t) \/ RecoverDone(t)
  <2>1. /\ (\E outcome : Returns(t, outcome)) \/ FailsWith(t, records)
        /\ pc[t] # "idle" /\ UNCHANGED history
    BY <1>6 DEF LockTimesOut, PutRefused, PersistConfirms, RecoverDone
  <2> QED
    BY <2>1, ReturnsShape, FailsShape DEF Ends, history
<1>7. CASE NextRecord(t)
  <2> DEFINE record == Head(call[t].todo)
             c == [call[t] EXCEPT !.batch = record.batch, !.attempt = 0,
                                  !.after = NoHeader, !.until = 0, !.wake = record.until]
  <2>1. c.batch = record.batch /\ c.op = call[t].op /\ c.todo = call[t].todo
    BY <1>1 DEF CallStates
  <2>2. /\ Goes(t, "attempt", c) \/ Goes(t, "paused", c) \/ Returns(t, "false")
        /\ pc[t] = "next" /\ call[t].todo # <<>> /\ UNCHANGED history
    BY <1>7 DEF NextRecord
  <2>3. CASE Returns(t, "false")
    BY <2>2, <2>3, ReturnsShape DEF Ends, history
  <2>4. CASE Goes(t, "attempt", c) \/ Goes(t, "paused", c)
    <3>1. pc'[t] \in {"attempt", "paused"} /\ call'[t] = c /\ OthersStay(t)
      BY <2>4, GoesShape
    <3> HIDE DEF c
    <3> QED
      BY <2>1, <2>2, <3>1 DEF Turns
  <2> QED
    BY <2>2, <2>3, <2>4
<1>8. CASE PauseOver(t) \/ PostTooLate(t)
  <2>1. /\ pc[t] \in {"paused", "attempt", "backoff"} /\ UNCHANGED <<call, history>>
        /\ Move(t, "attempt") \/ Move(t, "giveup")
    BY <1>8 DEF PauseOver, PostTooLate, AttemptDue
  <2>2. pc'[t] \in {"attempt", "giveup"} /\ call'[t] = call[t] /\ OthersStay(t)
    BY <2>1, MoveShape
  <2> QED
    BY <2>1, <2>2 DEF Tries, Trying, history
<1>9. CASE RetryWaits(t) \/ PostStarts(t)
  <2> DEFINE Same(c) == c.op = call[t].op /\ c.batch = call[t].batch /\ c.todo = call[t].todo
  <2>1. \E c : \E place \in {"giveup", "backoff", "post"} : Goes(t, place, c) /\ Same(c)
    <3> DEFINE waits == [call[t] EXCEPT !.wake = now + Delay(t), !.after = NoHeader]
               posts == [call[t] EXCEPT !.wake = now + PostTimeout(t)]
    <3>1. Same(waits) /\ Same(posts) /\ Same(call[t])
      BY <1>1 DEF CallStates
    <3>2. Goes(t, "giveup", call[t]) \/ Goes(t, "backoff", waits) \/ Goes(t, "post", posts)
      BY <1>9 DEF RetryWaits, PostStarts
    <3> HIDE DEF waits, posts, Same
    <3> QED
      BY <3>1, <3>2
  <2>2. pc[t] \in {"attempt", "backoff"} /\ UNCHANGED history
    BY <1>9 DEF RetryWaits, PostStarts, AttemptDue
  <2> QED
    BY <2>1, <2>2, GoesShape DEF Tries, Trying, history
<1>10. CASE FinalAnswer(t)
  <2>1. PICK success \in BOOLEAN :
          /\ Goes(t, "ack", [call[t] EXCEPT !.success = success])
          /\ received' = IF success THEN received \cup {call[t].batch} ELSE received
    BY <1>10 DEF FinalAnswer
  <2> DEFINE c == [call[t] EXCEPT !.success = success]
  <2>2. /\ c.op = call[t].op /\ c.batch = call[t].batch /\ c.todo = call[t].todo
        /\ c.success = success
    BY <1>1 DEF CallStates
  <2>3. pc'[t] = "ack" /\ call'[t] = c /\ OthersStay(t)
    BY <2>1, GoesShape
  <2> HIDE DEF c
  <2>4. /\ pc[t] = "post" /\ answered' = answered \cup {call[t].batch}
        /\ UNCHANGED <<used, promised, gone>>
    BY <1>10 DEF FinalAnswer
  <2> QED
    BY <2>1, <2>2, <2>3, <2>4 DEF Tries, Trying
<1>11. CASE RetryableStatus(t) \/ NetworkError(t)
  <2> DEFINE c(after, until) ==
        [call[t] EXCEPT !.attempt = @ + 1, !.after = after, !.until = until]
  <2>1. PICK after, until : Goes(t, "attempt", c(after, until))
    BY <1>11 DEF RetryableStatus, NetworkError, Again
  <2>2. /\ c(after, until).op = call[t].op /\ c(after, until).batch = call[t].batch
        /\ c(after, until).todo = call[t].todo
    BY <1>1 DEF CallStates
  <2>3. pc'[t] = "attempt" /\ call'[t] = c(after, until) /\ OthersStay(t)
    BY <2>1, GoesShape
  <2> HIDE DEF c
  <2>4. /\ pc[t] = "post" /\ received' \in {received, received \cup {call[t].batch}}
        /\ UNCHANGED <<used, promised, gone, answered>>
    BY <1>11 DEF RetryableStatus, NetworkError
  <2> QED
    BY <2>2, <2>3, <2>4 DEF Tries, Trying
<1> QED
  BY <1>2, <1>3, <1>4, <1>5, <1>6, <1>7, <1>8, <1>9, <1>10, <1>11 DEF Calm

-----------------------------------------------------------------------------
(* The invariant.                                                          *)

\* Everything that memory shows, and that a restart may find.
Contents == Kept \cup {records}

\* The delivery lock is held by one thread, from when it has it to its return.
HoldsLock(t) == call[t].op \in {"send", "recover"} /\ pc[t] \notin {"idle", "lock"}
OneHolder == \A t, u \in Threads : HoldsLock(t) /\ HoldsLock(u) => t = u

\* A batch is given to one call of send or persist.
Putter(t) == pc[t] # "idle" /\ call[t].op # "recover"
OwnBatch ==
  \A t, u \in Threads :
    Putter(t) /\ Putter(u) /\ call[t].batch = call[u].batch => t = u

\* Only batches that were given to the transport are anywhere.
UsedFirst ==
  /\ gone \subseteq answered /\ received \cup answered \subseteq used
  /\ \A contents \in Contents : Ids(contents) \subseteq used
  /\ \A t \in Threads : Putter(t) => call[t].batch \in used

\* A batch whose record is not on disk yet was never seen.
Unput(t) ==
  /\ call[t].op # "recover"
  /\ pc[t] \in {"lock", "put"} \/ (pc[t] = "putting" /\ write.stage = "begun")
FreshPuts ==
  \A t \in Threads : Unput(t) =>
    /\ call[t].batch \notin received \cup answered
    /\ \A contents \in Kept : call[t].batch \notin Ids(contents)
    /\ pc[t] # "putting" => call[t].batch \notin Ids(records)

\* What send() has put stays until send() itself has it removed.
SendersKept ==
  \A t \in Threads : call[t].op = "send" =>
    /\ pc[t] # "paused"
    /\ pc[t] \in Trying \cup {"pausing"} =>
         \A contents \in Contents : call[t].batch \in Ids(contents)
    /\ pc[t] = "acking" /\ write.stage = "begun" =>
         \A contents \in Kept : call[t].batch \in Ids(contents)

\* What a replay has yet to send is the oldest part of the log, in order.
Oldest(rest, contents) ==
  /\ Len(rest) <= Len(contents)
  /\ \A i \in 1 .. Len(rest) : contents[i].batch = rest[i].batch
ReplaysOldest ==
  \A t \in Threads : call[t].op = "recover" =>
    /\ pc[t] \in Trying \cup {"next", "paused"} =>
         Oldest(call[t].todo, file) /\ Oldest(call[t].todo, records)
    /\ pc[t] \in Trying \cup {"paused", "acking"} =>
         call[t].batch = Head(call[t].todo).batch
    /\ pc[t] = "acking" => Oldest(Tail(call[t].todo), records)

\* What is acknowledged is no longer in memory, and what was is nowhere.
Removed == \A t \in Threads : pc[t] = "acking" => call[t].batch \notin Ids(records)
GoneForGood == \A contents \in Contents : Ids(contents) \cap gone = {}

\* What a call knows of its batch when it is about to return.
ToldTruly ==
  \A t \in Threads :
    /\ pc[t] \in {"ack", "acking"} /\ call[t].success => call[t].batch \in received
    /\ pc[t] = "confirm" => call[t].batch \in promised
    /\ pc[t] = "confirm" /\ write.stage # "replaced" /\ call[t].batch \notin Ids(file) =>
         \A contents \in Kept : call[t].batch \notin Ids(contents)

LogInv ==
  /\ OneHolder /\ OwnBatch /\ UsedFirst /\ FreshPuts /\ SendersKept /\ ReplaysOldest
  /\ Removed /\ GoneForGood /\ ToldTruly

\* With what was proved before.
Known == TransportTyped /\ MemoryMatchesFile /\ PromiseInv /\ AllFine /\ LogInv

-----------------------------------------------------------------------------
(* Steps that leave the store alone.                                       *)

\* Contents that do not change do not change any of their batches.
LEMMA CalmContents ==
  ASSUME UNCHANGED storeVars
  PROVE  /\ UNCHANGED <<open, records, file, survivors, write>>
         /\ UNCHANGED <<Kept, Contents>> /\ Ids(records)' = Ids(records)
         /\ Ids(file)' = Ids(file)
  BY DEF storeVars, Kept, Contents, Ids

\* Where the batch of a thread that posts, or has an answer, is.
LEMMA PostedOnDisk ==
  ASSUME Known, NEW t \in Threads, pc[t] \in Trying
  PROVE  /\ call[t].batch \in Ids(file) /\ call[t].batch \in Ids(records)
         /\ call[t].op = "recover" =>
              Head(file).batch = call[t].batch /\ Head(records).batch = call[t].batch
<1>1. InPlace(pc[t], call[t]) /\ call[t] \in CallStates
  BY DEF Known, TransportTyped, CallsInPlace, CallsTyped
<1>2. call[t].op \in {"send", "recover"} /\ file \in Kept /\ Kept \subseteq Contents
      /\ records \in Contents
  BY <1>1 DEF InPlace, Sending, Trying, Kept, Contents
<1>3. CASE call[t].op = "send"
  BY <1>2, <1>3 DEF Known, LogInv, SendersKept
<1>4. CASE call[t].op = "recover"
  <2>1. /\ Oldest(call[t].todo, file) /\ Oldest(call[t].todo, records)
        /\ call[t].batch = Head(call[t].todo).batch
    BY <1>4 DEF Known, LogInv, ReplaysOldest
  <2>2. call[t].todo # <<>> /\ call[t].todo \in Seq(Records)
    BY <1>1, <1>4 DEF InPlace, Sending, Trying, CallStates
  <2>3. 1 \in 1 .. Len(call[t].todo) /\ Head(call[t].todo) = call[t].todo[1]
    BY <2>2
  <2>4. file[1].batch = call[t].batch /\ records[1].batch = call[t].batch
    BY <2>1, <2>3 DEF Oldest
  <2>5. file \in Seq(Records) /\ records \in Seq(Records)
    BY DEF Known, TransportTyped, StoreTyped
  <2>6. 1 \in DOMAIN file /\ 1 \in DOMAIN records
    BY <2>1, <2>2, <2>3, <2>5 DEF Oldest
  <2> QED
    BY <2>4, <2>5, <2>6 DEF Ids
<1> QED
  BY <1>2, <1>3, <1>4

\* A call is made.
LEMMA BeginsLog ==
  ASSUME Known, NEW t \in Threads, Begins(t), OthersStay(t), UNCHANGED storeVars
  PROVE  LogInv'
<1> USE CalmContents
<1>1. OneHolder'
  BY DEF Known, LogInv, OneHolder, HoldsLock, Begins, OthersStay
<1>2. OwnBatch'
  BY DEF Known, LogInv, OwnBatch, UsedFirst, Putter, Begins, OthersStay
<1>3. UsedFirst'
  BY DEF Known, LogInv, UsedFirst, Putter, Begins, OthersStay, Ids
<1>4. FreshPuts'
  <2>1. ASSUME NEW u \in Threads, Unput(u)' PROVE
          /\ call'[u].batch \notin received \cup answered
          /\ \A contents \in Kept : call'[u].batch \notin Ids(contents)
          /\ pc'[u] # "putting" => call'[u].batch \notin Ids(records)
    <3>1. CASE u = t
      <4>1. call'[t].batch \notin used
        BY <2>1, <3>1 DEF Unput, Begins
      <4> QED
        BY <3>1, <4>1 DEF Known, LogInv, UsedFirst, Contents
    <3>2. CASE u # t
      BY <2>1, <3>2 DEF Known, LogInv, FreshPuts, Unput, OthersStay
    <3> QED
      BY <3>1, <3>2
  <2> QED
    BY <2>1 DEF FreshPuts, Ids, Begins
<1>5. SendersKept'
  BY DEF Known, LogInv, SendersKept, Trying, Begins, OthersStay, Ids
<1>6. ReplaysOldest'
  BY DEF Known, LogInv, ReplaysOldest, Trying, Begins, OthersStay, Oldest
<1>7. Removed' /\ GoneForGood'
  BY DEF Known, LogInv, Removed, GoneForGood, Begins, OthersStay, Ids
<1>8. ToldTruly'
  BY DEF Known, LogInv, ToldTruly, Begins, OthersStay, Ids
<1> QED
  BY <1>1, <1>2, <1>3, <1>4, <1>5, <1>6, <1>7, <1>8 DEF LogInv

\* The delivery lock is taken.
LEMMA LocksLog ==
  ASSUME Known, NEW t \in Threads, Locks(t), OthersStay(t), UNCHANGED storeVars
  PROVE  LogInv'
<1> USE CalmContents
<1>1. OneHolder'
  <2>1. \A u \in Threads : ~HoldsLock(u)
    BY DEF Locks, LockFree, HoldsLock
  <2> QED
    BY <2>1 DEF OneHolder, HoldsLock, OthersStay
<1>2. OwnBatch'
  BY DEF Known, LogInv, OwnBatch, Putter, Locks, OthersStay
<1>3. UsedFirst'
  BY DEF Known, LogInv, UsedFirst, Putter, Locks, OthersStay, Ids, history
<1>4. FreshPuts'
  BY DEF Known, LogInv, FreshPuts, Unput, Locks, OthersStay, Ids, history
<1>5. SendersKept'
  BY DEF Known, LogInv, SendersKept, Trying, Locks, OthersStay, Ids
<1>6. ReplaysOldest'
  <2>1. pc'[t] = "next" => call'[t].todo = records /\ records = file
    BY DEF Locks, Unlocked, Known, MemoryMatchesFile, NoWrite
  <2>2. \A contents \in Seq(Records) : Oldest(contents, contents)
    BY DEF Oldest
  <2>3. records \in Seq(Records)
    BY DEF Known, TransportTyped, StoreTyped
  <2>4. pc'[t] = "next" => Oldest(call'[t].todo, file) /\ Oldest(call'[t].todo, records)
    BY <2>1, <2>2, <2>3
  <2>5. pc'[t] \in {"put", "next"}
    BY DEF Locks
  <2> QED
    BY <2>4, <2>5 DEF Known, LogInv, ReplaysOldest, Trying, OthersStay
<1>7. Removed' /\ GoneForGood'
  BY DEF Known, LogInv, Removed, GoneForGood, Locks, OthersStay, Ids, history
<1>8. ToldTruly'
  BY DEF Known, LogInv, ToldTruly, Locks, OthersStay, Ids, history
<1> QED
  BY <1>1, <1>2, <1>3, <1>4, <1>5, <1>6, <1>7, <1>8 DEF LogInv

\* A replay turns to its next record.
LEMMA TurnsLog ==
  ASSUME Known, NEW t \in Threads, Turns(t), OthersStay(t), UNCHANGED storeVars
  PROVE  LogInv'
<1> USE CalmContents
<1>1. call[t].op = "recover"
  BY DEF Known, TransportTyped, CallsInPlace, InPlace, Turns
<1>2. OneHolder'
  BY <1>1 DEF Known, LogInv, OneHolder, HoldsLock, Turns, OthersStay
<1>3. OwnBatch'
  BY <1>1 DEF Known, LogInv, OwnBatch, Putter, Turns, OthersStay
<1>4. UsedFirst'
  BY <1>1 DEF Known, LogInv, UsedFirst, Putter, Turns, OthersStay, Ids, history
<1>5. FreshPuts'
  BY <1>1 DEF Known, LogInv, FreshPuts, Unput, Turns, OthersStay, Ids, history
<1>6. SendersKept'
  BY <1>1 DEF Known, LogInv, SendersKept, Turns, OthersStay, Ids
<1>7. ReplaysOldest'
  BY <1>1 DEF Known, LogInv, ReplaysOldest, Trying, Turns, OthersStay
<1>8. Removed' /\ GoneForGood'
  BY DEF Known, LogInv, Removed, GoneForGood, Turns, OthersStay, Ids, history
<1>9. ToldTruly'
  BY DEF Known, LogInv, ToldTruly, Turns, OthersStay, Ids, history
<1> QED
  BY <1>2, <1>3, <1>4, <1>5, <1>6, <1>7, <1>8, <1>9 DEF LogInv

\* A record is waited for, sent, or answered for.
LEMMA TriesLog ==
  ASSUME Known, NEW t \in Threads, Tries(t), OthersStay(t), UNCHANGED storeVars
  PROVE  LogInv'
<1> USE CalmContents
<1>1. call[t].op \in {"send", "recover"} /\ pc[t] # "idle"
  BY DEF Known, TransportTyped, CallsInPlace, InPlace, Sending, Tries
<1>2. received' # received \/ answered' # answered => call[t].batch \in Ids(file)
  BY PostedOnDisk DEF Tries, Trying
<1>3. OneHolder'
  BY <1>1 DEF Known, LogInv, OneHolder, HoldsLock, Tries, OthersStay, Trying
<1>4. OwnBatch'
  BY <1>1 DEF Known, LogInv, OwnBatch, Putter, Tries, OthersStay
<1>5. UsedFirst'
  <2>1. file \in Contents
    BY DEF Contents, Kept, Known, MemoryMatchesFile
  <2>2. Ids(file) \subseteq used
    BY <2>1 DEF Known, LogInv, UsedFirst
  <2>3. /\ gone' \subseteq answered' /\ received' \cup answered' \subseteq used'
    BY <1>2, <2>2 DEF Known, LogInv, UsedFirst, Tries
  <2> QED
    BY <1>1, <2>3 DEF Known, LogInv, UsedFirst, Putter, Tries, OthersStay, Ids
<1>6. FreshPuts'
  <2>1. file \in Kept
    BY DEF Kept, Known, MemoryMatchesFile
  <2>2. ASSUME NEW u \in Threads, Unput(u)'
        PROVE  /\ u # t /\ Unput(u) /\ pc'[u] = pc[u] /\ call'[u] = call[u]
               /\ call[u].batch \notin received' \cup answered'
    <3>1. u # t
      BY <2>2 DEF Unput, Tries, Trying
    <3>2. Unput(u) /\ pc'[u] = pc[u] /\ call'[u] = call[u]
      BY <2>2, <3>1 DEF Unput, OthersStay
    <3>3. call[u].batch \notin received \cup answered /\ call[u].batch \notin Ids(file)
      BY <2>1, <3>2 DEF Known, LogInv, FreshPuts
    <3> QED
      BY <1>2, <3>1, <3>2, <3>3 DEF Tries
  <2> QED
    BY <2>2 DEF Known, LogInv, FreshPuts, Ids
<1>7. SendersKept'
  <2>1. ASSUME call[t].op = "send"
        PROVE  \A contents \in Contents : call[t].batch \in Ids(contents)
    <3>1. pc[t] # "paused"
      BY <2>1 DEF Known, LogInv, SendersKept
    <3> QED
      BY <2>1, <3>1 DEF Known, LogInv, SendersKept, Tries, Trying
  <2> QED
    BY <2>1 DEF Known, LogInv, SendersKept, Tries, Trying, OthersStay, Ids
<1>8. ReplaysOldest'
  BY DEF Known, LogInv, ReplaysOldest, Trying, Tries, OthersStay
<1>9. Removed' /\ GoneForGood'
  BY DEF Known, LogInv, Removed, GoneForGood, Tries, Trying, OthersStay, Ids
<1>10. ToldTruly'
  BY DEF Known, LogInv, ToldTruly, Tries, Trying, OthersStay, Ids
<1> QED
  BY <1>3, <1>4, <1>5, <1>6, <1>7, <1>8, <1>9, <1>10 DEF LogInv

\* A call returns.
LEMMA EndsLog ==
  ASSUME Known, NEW t \in Threads, Ends(t), OthersStay(t), UNCHANGED <<storeVars, history>>
  PROVE  LogInv'
<1> USE CalmContents DEF history
<1>1. OneHolder' /\ OwnBatch'
  BY DEF Known, LogInv, OneHolder, HoldsLock, OwnBatch, Putter, Ends, OthersStay
<1>2. UsedFirst'
  BY DEF Known, LogInv, UsedFirst, Putter, Ends, OthersStay, Ids
<1>3. FreshPuts'
  BY DEF Known, LogInv, FreshPuts, Unput, Ends, OthersStay, Ids
<1>4. SendersKept'
  BY DEF Known, LogInv, SendersKept, Ends, OthersStay, Ids, Trying
<1>5. ReplaysOldest'
  BY DEF Known, LogInv, ReplaysOldest, Trying, Ends, OthersStay, Oldest
<1>6. Removed' /\ GoneForGood'
  BY DEF Known, LogInv, Removed, GoneForGood, Ends, OthersStay, Ids
<1>7. ToldTruly'
  BY DEF Known, LogInv, ToldTruly, Ends, OthersStay, Ids
<1> QED
  BY <1>1, <1>2, <1>3, <1>4, <1>5, <1>6, <1>7 DEF LogInv

-----------------------------------------------------------------------------
(* Steps that begin a mutation of the store.                               *)

\* A mutation begins when none is under way, in memory only.
LEMMA MutatesShape ==
  ASSUME Known, NEW contents, Mutates(contents)
  PROVE  /\ open /\ write.stage = "none" /\ write'.stage = "begun" /\ records = file
         /\ UNCHANGED <<open, file, survivors, Kept>> /\ Ids(file)' = Ids(file)
         /\ Contents' = Kept \cup {records'} /\ file \in Kept
         /\ \A u \in Threads : pc[u] \notin Busy
  BY DEF Mutates, Unlocked, NoWrite, Kept, Contents, Ids, Known, MemoryMatchesFile, PromiseInv,
         OneMutation

\* What is the oldest part of a log still is when a record is appended.
LEMMA AppendOldest ==
  ASSUME NEW rest \in Seq(Records), NEW contents \in Seq(Records), NEW longer,
         Oldest(rest, contents), Len(longer) = Len(contents) + 1,
         \A i \in DOMAIN contents : longer[i] = contents[i]
  PROVE  Oldest(rest, longer)
<1>1. Len(rest) \in Nat /\ Len(contents) \in Nat /\ DOMAIN contents = 1 .. Len(contents)
  OBVIOUS
<1>2. \A i \in 1 .. Len(rest) : i \in DOMAIN contents
  BY <1>1 DEF Oldest
<1> QED
  BY <1>1, <1>2 DEF Oldest

\* A put starts.
LEMMA PutStartsLog ==
  ASSUME Known, NEW t \in Threads, PutStarts(t)
  PROVE  LogInv'
<1> DEFINE b == call[t].batch
<1>1. /\ pc[t] = "put" /\ PutBegins(b) /\ Move(t, "putting") /\ UNCHANGED <<call, history>>
  BY DEF PutStarts
<1>2. b \in Batch /\ call[t].op \in {"send", "persist"}
  BY <1>1 DEF Known, TransportTyped, CallsInPlace, InPlace
<1>3. pc'[t] = "putting" /\ OthersStay(t) /\ call' = call
  BY <1>1, MoveShape DEF Known, TransportTyped
<1>4. /\ Len(records') = Len(records) + 1
      /\ \A i \in DOMAIN records : records'[i] = records[i]
      /\ Ids(records') = Ids(records) \cup {b}
  BY <1>1, <1>2, PutShape DEF Known, TransportTyped
<1>5. /\ write.stage = "none" /\ write'.stage = "begun" /\ Ids(file)' = Ids(file)
      /\ UNCHANGED <<file, Kept>> /\ Contents' = Kept \cup {records'}
      /\ \A u \in Threads : pc[u] \notin Busy
  BY <1>1, MutatesShape DEF PutBegins
<1>6. b \in used /\ b \notin answered
  BY <1>1, <1>2 DEF Known, LogInv, UsedFirst, FreshPuts, Unput, Putter
<1>7. OneHolder'
  BY <1>1, <1>3 DEF Known, LogInv, OneHolder, HoldsLock, OthersStay
<1>8. OwnBatch'
  BY <1>1, <1>3 DEF Known, LogInv, OwnBatch, Putter, OthersStay
<1>9. UsedFirst'
  <2>1. \A contents \in Kept \cup {records'} : Ids(contents) \subseteq used
    BY <1>4, <1>6 DEF Known, LogInv, UsedFirst, Contents
  <2>2. \A u \in Threads : Putter(u)' => call'[u].batch \in used
    BY <1>3, <1>6 DEF Known, LogInv, UsedFirst, Putter, OthersStay
  <2>3. gone \subseteq answered /\ received \cup answered \subseteq used
    BY DEF Known, LogInv, UsedFirst
  <2> QED
    BY <1>1, <1>5, <2>1, <2>2, <2>3 DEF UsedFirst, history
<1>10. FreshPuts'
  <2>1. ASSUME NEW u \in Threads \ {t}, Putter(u) PROVE call[u].batch # b
    BY <1>1, <1>2, <2>1 DEF Known, LogInv, OwnBatch, Putter
  <2>2. ASSUME NEW u \in Threads, Unput(u)'
        PROVE  /\ call[u].batch \notin received \cup answered
               /\ \A contents \in Kept : call[u].batch \notin Ids(contents)
               /\ pc'[u] # "putting" => call[u].batch \notin Ids(records')
    <3>1. CASE u = t
      BY <1>1, <1>2, <1>3, <3>1 DEF Known, LogInv, FreshPuts, Unput
    <3>2. CASE u # t
      <4>1. pc'[u] = pc[u] /\ pc[u] \in {"lock", "put"} /\ call[u].op # "recover"
        BY <1>3, <1>5, <2>2, <3>2 DEF Unput, OthersStay, Busy
      <4> QED
        BY <1>4, <2>1, <3>2, <4>1 DEF Known, LogInv, FreshPuts, Unput, Putter
    <3> QED
      BY <3>1, <3>2
  <2> QED
    BY <1>1, <1>3, <1>5, <2>2 DEF FreshPuts, Ids, history
<1>11. SendersKept'
  <2>1. ASSUME NEW u \in Threads, call[u].op = "send"
        PROVE  /\ pc'[u] \notin {"paused", "acking"}
               /\ pc'[u] \in Trying \cup {"pausing"} =>
                    \A contents \in Kept \cup {records'} : call[u].batch \in Ids(contents)
    BY <1>3, <1>4, <1>5, <2>1
    DEF Known, LogInv, SendersKept, Trying, Busy, OthersStay, Contents
  <2> QED
    BY <1>3, <1>5, <2>1 DEF SendersKept
<1>12. ReplaysOldest'
  <2>1. ASSUME NEW u \in Threads, Oldest(call[u].todo, records)
        PROVE  Oldest(call[u].todo, records')
    <3>1. call[u].todo \in Seq(Records) /\ records \in Seq(Records)
      BY DEF Known, TransportTyped, CallsTyped, CallStates, StoreTyped
    <3> QED
      BY <1>4, <2>1, <3>1, AppendOldest
  <2> QED
    BY <1>3, <1>5, <2>1 DEF Known, LogInv, ReplaysOldest, Trying, Busy, OthersStay
<1>13. Removed'
  BY <1>3, <1>5 DEF Removed, Busy, OthersStay
<1>14. GoneForGood'
  <2>1. \A contents \in Kept \cup {records'} : Ids(contents) \cap gone = {}
    BY <1>4, <1>6 DEF Known, LogInv, GoneForGood, UsedFirst, Contents
  <2> QED
    BY <1>1, <1>5, <2>1 DEF GoneForGood, history
<1>15. ToldTruly'
  BY <1>1, <1>3, <1>5 DEF Known, LogInv, ToldTruly, OthersStay, Ids, history
<1> QED
  BY <1>7, <1>8, <1>9, <1>10, <1>11, <1>12, <1>13, <1>14, <1>15 DEF LogInv

\* A thread that acknowledges or pauses has the delivery lock.
LEMMA AloneInside ==
  ASSUME Known, NEW t \in Threads, pc[t] \in Trying,
         NEW u \in Threads, u # t, call[u].op \in {"send", "recover"}
  PROVE  pc[u] \in {"idle", "lock"}
<1>1. HoldsLock(t)
  BY DEF Known, TransportTyped, CallsInPlace, InPlace, Sending, Trying, HoldsLock
<1> QED
  BY <1>1 DEF Known, LogInv, OneHolder, HoldsLock

\* An acknowledgement or a pause starts.
LEMMA EndingStartsLog ==
  ASSUME Known, NEW t \in Threads, AcknowledgeStarts(t) \/ PauseStarts(t)
  PROVE  LogInv'
<1> DEFINE b == call[t].batch
<1>1. /\ AcknowledgeBegins(b) \/ PauseBegins(b, call[t].until)
      /\ pc[t] \in {"ack", "giveup"} /\ UNCHANGED <<call, history>>
      /\ Move(t, "acking") \/ Move(t, "pausing")
  BY DEF AcknowledgeStarts, PauseStarts
<1>2. /\ OthersStay(t) /\ call' = call
      /\ \/ pc[t] = "ack" /\ pc'[t] = "acking" /\ AcknowledgeBegins(b)
         \/ pc[t] = "giveup" /\ pc'[t] = "pausing" /\ PauseBegins(b, call[t].until)
  BY MoveShape DEF Known, TransportTyped, AcknowledgeStarts, PauseStarts
<1>3. /\ write.stage = "none" /\ write'.stage = "begun" /\ Ids(file)' = Ids(file)
      /\ UNCHANGED <<file, Kept>> /\ Contents' = Kept \cup {records'}
      /\ \A u \in Threads : pc[u] \notin Busy
  <2>1. \E contents : Mutates(contents)
    BY <1>1 DEF AcknowledgeBegins, PauseBegins
  <2> QED
    BY <2>1, MutatesShape
<1>4. StoreTyped /\ Distinct(records)
  BY DEF Known, TransportTyped, AllFine, Fine, Loadable, Distinct
<1>5. /\ Ids(records') \subseteq Ids(records)
      /\ pc[t] = "ack" => b \notin Ids(records')
      /\ pc[t] = "giveup" => Ids(records') = Ids(records)
  BY <1>2, <1>4, AcknowledgeShape, PauseShape
<1>6. \A u \in Threads \ {t} : call[u].op \in {"send", "recover"} => pc[u] \in {"idle", "lock"}
  BY <1>1, AloneInside DEF Trying
<1>7. OneHolder' /\ OwnBatch'
  BY <1>2 DEF Known, LogInv, OneHolder, HoldsLock, OwnBatch, Putter, OthersStay
<1>8. UsedFirst'
  BY <1>1, <1>2, <1>3, <1>5
  DEF Known, LogInv, UsedFirst, Putter, OthersStay, Contents, Ids, history
<1>9. FreshPuts'
  <2>1. ASSUME NEW u \in Threads, Unput(u)' PROVE Unput(u) /\ pc'[u] = pc[u]
    BY <1>2, <1>3, <2>1 DEF Unput, OthersStay, Busy
  <2> QED
    BY <1>1, <1>2, <1>3, <1>5, <2>1 DEF Known, LogInv, FreshPuts, Ids, history
<1>10. SendersKept'
  <2>1. ASSUME NEW u \in Threads \ {t}, call[u].op = "send"
        PROVE  pc'[u] \in {"idle", "lock"}
    BY <1>2, <1>6, <2>1 DEF OthersStay
  <2>2. call[t].op = "send" =>
          /\ pc'[t] \in {"acking", "pausing"}
          /\ \A contents \in Kept : b \in Ids(contents)
          /\ pc'[t] = "pausing" => b \in Ids(records')
    BY <1>2, <1>5 DEF Known, LogInv, SendersKept, Trying, Contents
  <2> QED
    BY <1>2, <1>3, <2>1, <2>2 DEF SendersKept, Trying, Ids
<1>11. ReplaysOldest'
  <2>1. ASSUME NEW u \in Threads \ {t}, call[u].op = "recover"
        PROVE  pc'[u] \in {"idle", "lock"}
    BY <1>2, <1>6, <2>1 DEF OthersStay
  <2>2. ASSUME call[t].op = "recover", pc[t] = "ack"
        PROVE  Oldest(Tail(call[t].todo), records')
    <3>1. PICK i \in DOMAIN records :
            /\ records[i].batch = b /\ Len(records') = Len(records) - 1
            /\ \A k \in 1 .. Len(records) - 1 :
                 records'[k] = IF k < i THEN records[k] ELSE records[k + 1]
      BY <1>2, <1>4, <2>2, AcknowledgeShape
    <3>2. /\ records \in Seq(Records) /\ call[t].todo \in Seq(Records) /\ call[t].todo # <<>>
          /\ Oldest(call[t].todo, records) /\ b = Head(call[t].todo).batch
      BY <1>4, <2>2
      DEF Known, TransportTyped, CallsTyped, CallStates, CallsInPlace, InPlace, Sending,
          StoreTyped, LogInv, ReplaysOldest, Trying
    <3>3. /\ Len(call[t].todo) \in Nat \ {0} /\ Head(call[t].todo) = call[t].todo[1]
          /\ Len(records) \in Nat /\ DOMAIN records = 1 .. Len(records)
      BY <3>2
    <3>4. 1 \in DOMAIN records /\ records[1].batch = b
      BY <3>2, <3>3 DEF Oldest
    <3>5. i = 1
      BY <1>4, <3>1, <3>4 DEF Distinct
    <3>6. /\ Len(Tail(call[t].todo)) = Len(call[t].todo) - 1
          /\ \A k \in 1 .. Len(call[t].todo) - 1 : Tail(call[t].todo)[k] = call[t].todo[k + 1]
      BY <3>2
    <3>7. \A k \in 1 .. Len(call[t].todo) - 1 : records'[k].batch = call[t].todo[k + 1].batch
      <4>1. ASSUME NEW k \in 1 .. Len(call[t].todo) - 1
            PROVE  /\ k \in 1 .. Len(records) - 1 /\ ~(k < 1)
                   /\ k + 1 \in 1 .. Len(call[t].todo)
        BY <3>2, <3>3 DEF Oldest
      <4> QED
        BY <3>1, <3>2, <3>5, <4>1 DEF Oldest
    <3> QED
      BY <3>1, <3>2, <3>3, <3>6, <3>7 DEF Oldest
  <2>3. call[t].op = "recover" =>
          pc'[t] \in {"acking", "pausing"} /\ b = Head(call[t].todo).batch
    BY <1>2 DEF Known, LogInv, ReplaysOldest, Trying
  <2> QED
    BY <1>2, <2>1, <2>2, <2>3 DEF ReplaysOldest, Trying
<1>12. Removed'
  BY <1>2, <1>3, <1>5 DEF Removed, Busy, OthersStay, Ids
<1>13. GoneForGood'
  BY <1>1, <1>3, <1>5 DEF Known, LogInv, GoneForGood, Contents, Ids, history
<1>14. ToldTruly'
  BY <1>1, <1>2, <1>3 DEF Known, LogInv, ToldTruly, OthersStay, Ids, history
<1> QED
  BY <1>7, <1>8, <1>9, <1>10, <1>11, <1>12, <1>13, <1>14 DEF LogInv

-----------------------------------------------------------------------------
(* Steps that end a mutation of the store.                                 *)

\* A thread in a mutation is the only one.
LEMMA OneBusy ==
  ASSUME Known, NEW t \in Threads, pc[t] \in Busy
  PROVE  \A u \in Threads \ {t} : pc[u] \notin Busy
  BY DEF Known, PromiseInv, OneMutation

\* A mutation returns: memory, file and whatever a restart may find agree.
LEMMA ReturnedShape ==
  ASSUME Known, WriteReturns
  PROVE  /\ open /\ write.stage = "replaced" /\ write'.stage = "none" /\ records = file
         /\ UNCHANGED <<open, records, file>> /\ Kept' = {file} /\ Contents' = {file}
         /\ file \in Kept /\ file \in Contents /\ Kept \subseteq Contents
  BY DEF WriteReturns, NoWrite, Kept, Contents, Known, MemoryMatchesFile

\* Where the thread goes then.
LEMMA MutationReturnsShape ==
  ASSUME Known, NEW t \in Threads, MutationReturns(t)
  PROVE  /\ OthersStay(t) /\ pc[t] \in Busy /\ WriteReturns
         /\ call'[t].op = call[t].op /\ call'[t].batch = call[t].batch
         /\ UNCHANGED <<used, received, answered>>
         /\ \/ /\ pc[t] = "putting" /\ call[t].op \in {"send", "persist"}
               /\ pc'[t] = IF call[t].op = "send" THEN "attempt" ELSE "confirm"
               /\ promised' = promised \cup {call[t].batch} /\ gone' = gone
            \/ /\ pc[t] = "acking" /\ call[t].op \in {"send", "recover"}
               /\ pc'[t] = IF call[t].op = "send" THEN "idle" ELSE "next"
               /\ pc'[t] = "next" => call'[t].todo = Tail(call[t].todo)
               /\ gone' = gone \cup {call[t].batch} /\ promised' = promised
            \/ pc[t] = "pausing" /\ pc'[t] = "idle" /\ UNCHANGED <<promised, gone>>
<1>1. CallsTyped /\ call[t] \in CallStates /\ InPlace(pc[t], call[t])
  BY DEF Known, TransportTyped, CallsTyped, CallsInPlace
<1>2. pc[t] \in Busy /\ WriteReturns /\ UNCHANGED <<used, received, answered>>
  BY DEF MutationReturns, Busy
<1>3. CASE pc[t] = "putting"
  <2>1. /\ Move(t, IF call[t].op = "send" THEN "attempt" ELSE "confirm")
        /\ promised' = promised \cup {call[t].batch} /\ UNCHANGED <<call, gone>>
    BY <1>3 DEF MutationReturns
  <2>2. call[t].op \in {"send", "persist"}
    BY <1>1, <1>3 DEF InPlace
  <2> QED
    BY <1>1, <1>2, <1>3, <2>1, <2>2, MoveShape
<1>4. CASE pc[t] = "acking"
  <2>1. /\ IF call[t].op = "send"
             THEN Returns(t, IF call[t].success THEN "success" ELSE "rejected")
             ELSE Goes(t, "next", [call[t] EXCEPT !.todo = Tail(@)])
        /\ gone' = gone \cup {call[t].batch} /\ promised' = promised
    BY <1>4 DEF MutationReturns
  <2>2. call[t].op \in {"send", "recover"}
    BY <1>1, <1>4 DEF InPlace, Sending
  <2>3. CASE call[t].op = "send"
    BY <1>1, <1>2, <1>4, <2>1, <2>2, <2>3, ReturnsShape
  <2>4. CASE call[t].op = "recover"
    <3> DEFINE c == [call[t] EXCEPT !.todo = Tail(@)]
    <3>1. c.op = call[t].op /\ c.batch = call[t].batch /\ c.todo = Tail(call[t].todo)
      BY <1>1 DEF CallStates
    <3>2. pc'[t] = "next" /\ call'[t] = c /\ OthersStay(t)
      BY <1>1, <2>1, <2>4, GoesShape
    <3> HIDE DEF c
    <3> QED
      BY <1>2, <1>4, <2>1, <2>2, <2>4, <3>1, <3>2
  <2> QED
    BY <2>2, <2>3, <2>4
<1>5. CASE pc[t] = "pausing"
  <2>1. FailsWith(t, records) /\ UNCHANGED <<promised, gone>>
    BY <1>5 DEF MutationReturns
  <2> QED
    BY <1>1, <1>2, <1>5, <2>1, FailsShape
<1> QED
  BY <1>2, <1>3, <1>4, <1>5 DEF Busy

\* A mutation returns.
LEMMA MutationReturnsLog ==
  ASSUME Known, NEW t \in Threads, MutationReturns(t)
  PROVE  LogInv'
<1> USE ReturnedShape, MutationReturnsShape
<1>1. /\ \A u \in Threads \ {t} : pc'[u] \notin Busy /\ pc'[u] = pc[u] /\ call'[u] = call[u]
      /\ pc'[t] \in {"attempt", "confirm", "idle", "next"}
  BY OneBusy DEF OthersStay
<1>2. OneHolder'
  BY <1>1 DEF Known, LogInv, OneHolder, HoldsLock, Busy
<1>3. OwnBatch'
  BY <1>1 DEF Known, LogInv, OwnBatch, Putter, Busy
<1>4. UsedFirst'
  <2>1. gone' \subseteq answered /\ received \cup answered \subseteq used
    BY DEF Known, LogInv, UsedFirst, PromiseInv, AnsweredFirst
  <2>2. Ids(file) \subseteq used
    BY DEF Known, LogInv, UsedFirst
  <2>3. \A u \in Threads : Putter(u)' => call'[u].batch \in used
    BY <1>1 DEF Known, LogInv, UsedFirst, Putter, Busy
  <2> QED
    BY <2>1, <2>2, <2>3 DEF UsedFirst
<1>5. FreshPuts'
  <2>1. ASSUME NEW u \in Threads, Unput(u)' PROVE Unput(u) /\ call'[u] = call[u]
    BY <1>1, <2>1 DEF Unput, Busy
  <2>2. ASSUME NEW u \in Threads, Unput(u)'
        PROVE  call'[u].batch \notin received \cup answered /\ call'[u].batch \notin Ids(file)
    BY <2>1, <2>2 DEF Known, LogInv, FreshPuts
  <2> QED
    BY <2>2 DEF FreshPuts
<1>6. SendersKept'
  <2>1. ASSUME NEW u \in Threads, call'[u].op = "send"
        PROVE  /\ pc'[u] \notin {"paused", "acking"}
               /\ pc'[u] \in Trying \cup {"pausing"} => call'[u].batch \in Ids(file)
    <3>1. CASE u = t
      BY <1>1, <2>1, <3>1 DEF Known, PromiseInv, PutIsThere, Trying, Busy
    <3>2. CASE u # t
      BY <1>1, <2>1, <3>2 DEF Known, LogInv, SendersKept, Busy
    <3> QED
      BY <3>1, <3>2
  <2> QED
    BY <2>1 DEF SendersKept
<1>7. ReplaysOldest'
  <2>1. ASSUME NEW u \in Threads, call'[u].op = "recover"
        PROVE  /\ pc'[u] \in Trying \cup {"next", "paused"} => Oldest(call'[u].todo, file)
               /\ pc'[u] \in Trying \cup {"paused"} =>
                    call'[u].batch = Head(call'[u].todo).batch
               /\ pc'[u] # "acking"
    <3>1. CASE u = t
      BY <1>1, <2>1, <3>1 DEF Known, LogInv, ReplaysOldest, Trying, Busy
    <3>2. CASE u # t
      BY <1>1, <2>1, <3>2 DEF Known, LogInv, ReplaysOldest, Busy
    <3> QED
      BY <3>1, <3>2
  <2> QED
    BY <2>1 DEF ReplaysOldest
<1>8. Removed'
  BY <1>1 DEF Removed, Busy
<1>9. GoneForGood'
  <2>1. Ids(file) \cap gone' = {}
    BY DEF Known, LogInv, GoneForGood, Removed
  <2> QED
    BY <2>1 DEF GoneForGood
<1>10. ToldTruly'
  <2>1. ASSUME NEW u \in Threads
        PROVE  /\ pc'[u] # "acking"
               /\ pc'[u] = "ack" /\ call'[u].success => call'[u].batch \in received
               /\ pc'[u] = "confirm" => call'[u].batch \in promised'
    BY <1>1 DEF Known, LogInv, ToldTruly, Busy
  <2> QED
    BY <2>1 DEF ToldTruly
<1> QED
  BY <1>2, <1>3, <1>4, <1>5, <1>6, <1>7, <1>8, <1>9, <1>10 DEF LogInv

\* A mutation that raises leaves what was there before.
LEMMA RaisedShape ==
  ASSUME Known, NEW t \in Threads, MutationRaises(t)
  PROVE  /\ pc[t] \in Busy /\ pc'[t] = "idle" /\ OthersStay(t)
         /\ call'[t].op = call[t].op /\ call'[t].batch = call[t].batch
         /\ UNCHANGED <<used, promised, received, answered, gone>>
         /\ open' /\ write.stage = "begun" /\ write'.stage = "none" /\ records' = file
         /\ UNCHANGED <<file, survivors, Kept>> /\ Contents' = Kept
         /\ file \in Kept /\ Kept \subseteq Contents
<1>1. pc[t] \in Busy /\ WriteFails /\ FailsWith(t, records')
  BY DEF MutationRaises, Busy
<1>2. /\ pc'[t] = "idle" /\ OthersStay(t)
      /\ call'[t].op = call[t].op /\ call'[t].batch = call[t].batch
  BY <1>1, FailsShape DEF Known, TransportTyped
<1>3. UNCHANGED <<used, promised, received, answered, gone>>
  BY DEF MutationRaises
<1>4. /\ open' /\ write.stage = "begun" /\ write'.stage = "none" /\ records' = file
      /\ UNCHANGED <<file, survivors>> /\ file \in survivors
  BY <1>1 DEF WriteFails, NoWrite, Known, MemoryMatchesFile
<1>5. UNCHANGED Kept /\ Contents' = Kept /\ file \in Kept /\ Kept \subseteq Contents
  BY <1>4 DEF Kept, Contents
<1> QED
  BY <1>1, <1>2, <1>3, <1>4, <1>5

\* A mutation raises.
LEMMA MutationRaisesLog ==
  ASSUME Known, NEW t \in Threads, MutationRaises(t)
  PROVE  LogInv'
<1> USE RaisedShape
<1>1. /\ \A u \in Threads \ {t} : pc'[u] \notin Busy /\ pc'[u] = pc[u] /\ call'[u] = call[u]
      /\ pc'[t] = "idle"
  BY OneBusy DEF OthersStay
<1>2. OneHolder' /\ OwnBatch'
  BY <1>1 DEF Known, LogInv, OneHolder, HoldsLock, OwnBatch, Putter
<1>3. UsedFirst'
  <2>1. /\ gone \subseteq answered /\ received \cup answered \subseteq used
        /\ \A contents \in Kept : Ids(contents) \subseteq used
    BY DEF Known, LogInv, UsedFirst
  <2>2. \A u \in Threads : Putter(u)' => call'[u].batch \in used
    BY <1>1 DEF Known, LogInv, UsedFirst, Putter
  <2> QED
    BY <2>1, <2>2 DEF UsedFirst
<1>4. FreshPuts'
  <2>1. ASSUME NEW u \in Threads, Unput(u)' PROVE Unput(u) /\ call'[u] = call[u]
    BY <1>1, <2>1 DEF Unput, Busy
  <2>2. ASSUME NEW u \in Threads, Unput(u)'
        PROVE  /\ call'[u].batch \notin received \cup answered
               /\ \A contents \in Kept : call'[u].batch \notin Ids(contents)
    BY <2>1, <2>2 DEF Known, LogInv, FreshPuts
  <2> QED
    BY <2>2 DEF FreshPuts
<1>5. SendersKept'
  <2>1. ASSUME NEW u \in Threads, call'[u].op = "send"
        PROVE  /\ pc'[u] \notin {"paused", "acking"}
               /\ pc'[u] \in Trying \cup {"pausing"} =>
                    \A contents \in Kept : call'[u].batch \in Ids(contents)
    BY <1>1, <2>1 DEF Known, LogInv, SendersKept, Trying, Busy
  <2> QED
    BY <2>1 DEF SendersKept
<1>6. ReplaysOldest'
  <2>1. ASSUME NEW u \in Threads, call'[u].op = "recover"
        PROVE  /\ pc'[u] \in Trying \cup {"next", "paused"} => Oldest(call'[u].todo, file)
               /\ pc'[u] \in Trying \cup {"paused"} =>
                    call'[u].batch = Head(call'[u].todo).batch
               /\ pc'[u] # "acking"
    BY <1>1, <2>1 DEF Known, LogInv, ReplaysOldest, Trying, Busy
  <2> QED
    BY <2>1 DEF ReplaysOldest
<1>7. Removed'
  BY <1>1 DEF Removed, Busy
<1>8. GoneForGood'
  <2>1. \A contents \in Kept : Ids(contents) \cap gone = {}
    BY DEF Known, LogInv, GoneForGood
  <2> QED
    BY <2>1 DEF GoneForGood
<1>9. ToldTruly'
  <2>1. ASSUME NEW u \in Threads
        PROVE  /\ pc'[u] # "acking"
               /\ pc'[u] = "ack" /\ call'[u].success => call'[u].batch \in received
               /\ pc'[u] = "confirm" =>
                    /\ call'[u].batch \in promised
                    /\ call'[u].batch \notin Ids(file) =>
                         \A contents \in Kept : call'[u].batch \notin Ids(contents)
    BY <1>1 DEF Known, LogInv, ToldTruly, Busy
  <2> QED
    BY <2>1 DEF ToldTruly
<1> QED
  BY <1>2, <1>3, <1>4, <1>5, <1>6, <1>7, <1>8, <1>9 DEF LogInv

-----------------------------------------------------------------------------
(* The file, the process and the machine.                                  *)

\* The file is replaced.
LEMMA ReplaceLog == ASSUME Known, Replace PROVE LogInv'
<1>1. /\ write.stage = "begun" /\ write'.stage = "replaced" /\ file' = records
      /\ UNCHANGED <<open, records, now, pc, call, history>>
      /\ survivors' = survivors \cup {records}
  <2>1. write \in [stage : {"none", "begun", "replaced"}, previous : Seq(Records)]
    BY DEF Known, TransportTyped, StoreTyped
  <2> QED
    BY <2>1 DEF Replace, ReplaceFile
<1>2. Kept' \subseteq Contents /\ Contents' \subseteq Contents /\ records \in Contents
  BY <1>1 DEF Kept, Contents
<1> USE <1>1, <1>2 DEF history
<1>3. OneHolder' /\ OwnBatch'
  BY DEF Known, LogInv, OneHolder, HoldsLock, OwnBatch, Putter
<1>4. UsedFirst'
  BY DEF Known, LogInv, UsedFirst, Putter
<1>5. FreshPuts'
  <2>1. ASSUME NEW u \in Threads, Unput(u)' PROVE pc[u] \in {"lock", "put"} /\ Unput(u)
    BY <2>1 DEF Unput
  <2>2. ASSUME NEW u \in Threads, Unput(u)'
        PROVE  /\ call[u].batch \notin received \cup answered
               /\ \A contents \in Contents : call[u].batch \notin Ids(contents)
    BY <2>1, <2>2 DEF Known, LogInv, FreshPuts, Contents
  <2> QED
    BY <2>2 DEF FreshPuts
<1>6. SendersKept'
  BY DEF Known, LogInv, SendersKept
<1>7. ReplaysOldest'
  BY DEF Known, LogInv, ReplaysOldest
<1>8. Removed' /\ GoneForGood'
  BY DEF Known, LogInv, Removed, GoneForGood
<1>9. ToldTruly'
  BY DEF Known, LogInv, ToldTruly
<1> QED
  BY <1>3, <1>4, <1>5, <1>6, <1>7, <1>8, <1>9 DEF LogInv

\* The process or the machine stops.
LEMMA CrashLog == ASSUME PowerMayFail => DirectorySync, Known, Crash PROVE LogInv'
<1>1. /\ pc' = [t \in Threads |-> "idle"] /\ call' = [t \in Threads |-> NoCall]
      /\ records' = <<>> /\ UNCHANGED <<used, promised, received, answered, gone>>
  BY DEF Crash, ProcessDies, PowerFails, Stops
<1>2. Kept' \subseteq Kept
  <2>1. CASE ProcessDies
    BY <2>1 DEF ProcessDies, Kept
  <2>2. CASE PowerFails
    BY <2>2 DEF PowerFails, Kept
  <2> QED
    BY <2>1, <2>2 DEF Crash
<1>3. Ids(<<>>) = {}
  BY DEF Ids
<1>4. \A contents \in Contents' : contents \in Contents \/ Ids(contents) = {}
  BY <1>1, <1>2, <1>3 DEF Contents
<1>5. \A t \in Threads : pc'[t] = "idle"
  BY <1>1
<1>6. OneHolder' /\ OwnBatch'
  BY <1>5 DEF OneHolder, HoldsLock, OwnBatch, Putter
<1>7. UsedFirst'
  BY <1>1, <1>4, <1>5 DEF Known, LogInv, UsedFirst, Putter
<1>8. FreshPuts'
  BY <1>5 DEF FreshPuts, Unput
<1>9. SendersKept' /\ ReplaysOldest' /\ Removed' /\ ToldTruly'
  BY <1>5 DEF SendersKept, ReplaysOldest, Removed, ToldTruly, Trying
<1>10. GoneForGood'
  BY <1>1, <1>4 DEF Known, LogInv, GoneForGood
<1> QED
  BY <1>6, <1>7, <1>8, <1>9, <1>10 DEF LogInv

\* A client is made again.
LEMMA RestartLog == ASSUME Known, Restart PROVE LogInv'
<1>1. /\ write.stage = "none" /\ records' = file
      /\ UNCHANGED <<file, survivors, write, pc, call, used, promised, received, answered, gone>>
  BY DEF Restart, Opens, history, Known, TransportTyped, StoreTyped, MemoryMatchesFile
<1>2. Kept' = Kept /\ Contents' = Kept /\ Kept \subseteq Contents /\ file \in Kept
  BY <1>1 DEF Kept, Contents
<1>3. \A t \in Threads : pc[t] \notin Busy
  BY <1>1 DEF Known, PromiseInv, OneMutation
<1> USE <1>1, <1>2, <1>3
<1>4. OneHolder' /\ OwnBatch'
  BY DEF Known, LogInv, OneHolder, HoldsLock, OwnBatch, Putter
<1>5. UsedFirst'
  BY DEF Known, LogInv, UsedFirst, Putter
<1>6. FreshPuts'
  BY DEF Known, LogInv, FreshPuts, Unput
<1>7. SendersKept'
  BY DEF Known, LogInv, SendersKept, Busy
<1>8. ReplaysOldest'
  BY DEF Known, LogInv, ReplaysOldest, Busy
<1>9. Removed' /\ GoneForGood' /\ ToldTruly'
  BY DEF Known, LogInv, Removed, GoneForGood, ToldTruly, Busy
<1> QED
  BY <1>4, <1>5, <1>6, <1>7, <1>8, <1>9 DEF LogInv

\* Time passes, or nothing happens.
LEMMA TickLog == ASSUME Known, Tick \/ UNCHANGED vars PROVE LogInv'
<1>1. UNCHANGED <<records, file, survivors, write, pc, call, used, promised, received,
                  answered, gone, Kept, Contents>>
  BY DEF Tick, vars, storeVars, history, Kept, Contents
<1> QED
  BY <1>1
  DEF Known, LogInv, OneHolder, HoldsLock, OwnBatch, Putter, UsedFirst, FreshPuts, Unput,
      SendersKept, ReplaysOldest, Removed, GoneForGood, ToldTruly

\* Every step.
LEMMA KnownStep ==
  ASSUME PowerMayFail => DirectorySync, Known, [Next]_vars
  PROVE  Known'
<1>1. LogInv'
  <2>1. ASSUME NEW t \in Threads, Calm(t) PROVE LogInv'
    <3>1. OthersStay(t) /\ UNCHANGED storeVars
      BY <2>1, CalmShape, CalmStore DEF Known, TransportTyped
    <3>2. Begins(t) \/ Locks(t) \/ Turns(t) \/ Tries(t) \/ (Ends(t) /\ UNCHANGED history)
      BY <2>1, CalmShape DEF Known, TransportTyped
    <3> QED
      BY <3>1, <3>2, BeginsLog, LocksLog, TurnsLog, TriesLog, EndsLog
  <2>2. ASSUME NEW t \in Threads, Step(t), ~Calm(t) PROVE LogInv'
    BY <2>2, PutStartsLog, EndingStartsLog, MutationReturnsLog, MutationRaisesLog DEF Step, Calm
  <2> QED
    BY <2>1, <2>2, ReplaceLog, CrashLog, RestartLog, TickLog DEF Next
<1>2. TransportTyped' /\ MemoryMatchesFile' /\ PromiseInv' /\ AllFine'
  BY TransportTypeStep, TransportStep, StoreStepMatches, PromiseStep, FineStep DEF Known
<1> QED
  BY <1>1, <1>2 DEF Known

\* The first state.
LEMMA KnownInit == Init => Known
<1> SUFFICES ASSUME Init PROVE Known
  OBVIOUS
<1>1. /\ records = <<>> /\ file = <<>> /\ survivors = {<<>>} /\ write = NoWrite
      /\ \A t \in Threads : pc[t] = "idle"
      /\ used = {} /\ promised = {} /\ received = {} /\ answered = {} /\ gone = {}
  BY DEF Init, StoreInit
<1>2. \A contents \in Contents : contents = <<>> /\ Ids(contents) = {}
  BY <1>1 DEF Contents, Kept, Ids
<1>3. LogInv
  BY <1>1, <1>2
  DEF LogInv, OneHolder, HoldsLock, OwnBatch, Putter, UsedFirst, FreshPuts, Unput,
      SendersKept, ReplaysOldest, Removed, GoneForGood, ToldTruly, Trying
<1>4. TransportTyped /\ MemoryMatchesFile
  BY TransportTypeInit, StoreInitMatches DEF Init
<1>5. PromiseInv
  BY <1>1 DEF PromiseInv, OneMutation, PutIsThere, AnsweredFirst, MemoryKeepsPromises,
              LogKeepsPromises, Busy
<1>6. AllFine
  BY <1>1, EmptyFine DEF AllFine
<1> QED
  BY <1>3, <1>4, <1>5, <1>6 DEF Known

-----------------------------------------------------------------------------
(* What a thread on the wire, and a call that returns, may rely on.        *)

\* A batch on the wire is on disk, and a replay posts the oldest there is
\* (transport.py:114, 154): whatever the other threads do and wherever writes fail
\* and processes stop; and, where directories can be synced, the machine.
THEOREM WireFollows ==
  ASSUME PowerMayFail => DirectorySync
  PROVE  Spec => []WireFollowsLog
<1>1. Known => WireFollowsLog
  BY PostedOnDisk DEF WireFollowsLog, Trying
<1> QED
  BY <1>1, KnownInit, KnownStep, PTL DEF Spec

\* A step of a thread leaves the other threads where they are.
LEMMA StepOthers ==
  ASSUME CallsTyped, CallsInPlace, NEW t \in Threads, Step(t)
  PROVE  OthersStay(t)
<1>1. CASE Calm(t)
  BY <1>1, CalmShape
<1>2. CASE PutStarts(t) \/ AcknowledgeStarts(t) \/ PauseStarts(t)
  <2>1. (\E place : Move(t, place)) /\ UNCHANGED call
    BY <1>2 DEF PutStarts, AcknowledgeStarts, PauseStarts
  <2> QED
    BY <2>1, MoveShape
<1>3. CASE MutationReturns(t) \/ MutationRaises(t)
  <2>1. \/ \E place : \E c : Goes(t, place, c)
        \/ (\E place : Move(t, place)) /\ UNCHANGED call
        \/ \E outcome : Returns(t, outcome)
        \/ \E contents : FailsWith(t, contents)
    BY <1>3 DEF MutationReturns, MutationRaises
  <2> QED
    BY <2>1, GoesShape, MoveShape, ReturnsShape, FailsShape
<1> QED
  BY <1>1, <1>2, <1>3 DEF Step, Calm

\* Only PostStarts puts a batch on the wire.
LEMMA OnlyPostStarts ==
  ASSUME TransportTyped, [Next]_vars, NEW t \in Threads, Posts(t)
  PROVE  PostStarts(t)
<1> USE DEF TransportTyped
<1>1. ASSUME NEW u \in Threads, Step(u) PROVE PostStarts(t)
  <2>1. u = t
    BY <1>1, StepOthers DEF Posts, OthersStay
  <2>2. ASSUME ~PostStarts(t)
        PROVE  \/ \E place \in Places \ {"post"} :
                    (\E c : Goes(t, place, c)) \/ (Move(t, place) /\ UNCHANGED call)
               \/ \E outcome : Returns(t, outcome)
               \/ \E contents : FailsWith(t, contents)
    <3>1. CASE SendCalled(t) \/ RecoverCalled(t) \/ PersistCalled(t) \/ LockTaken(t)
               \/ LockTimesOut(t)
      BY <3>1 DEF SendCalled, RecoverCalled, PersistCalled, LockTaken, LockTimesOut, Places
    <3>2. CASE PutStarts(t) \/ PutRefused(t) \/ MutationReturns(t) \/ MutationRaises(t)
      BY <3>2 DEF PutStarts, PutRefused, MutationReturns, MutationRaises, Places
    <3>3. CASE PersistConfirms(t) \/ RecoverDone(t) \/ NextRecord(t) \/ PauseOver(t)
      BY <3>3 DEF PersistConfirms, RecoverDone, NextRecord, PauseOver, Places
    <3>4. CASE RetryWaits(t) \/ PostTooLate(t) \/ FinalAnswer(t)
      BY <3>4 DEF RetryWaits, PostTooLate, FinalAnswer, Places
    <3>5. CASE RetryableStatus(t) \/ NetworkError(t) \/ AcknowledgeStarts(t) \/ PauseStarts(t)
      BY <3>5 DEF RetryableStatus, NetworkError, Again, AcknowledgeStarts, PauseStarts, Places
    <3> QED
      BY <1>1, <2>1, <2>2, <3>1, <3>2, <3>3, <3>4, <3>5 DEF Step
  <2> QED
    BY <2>2, GoesShape, MoveShape, ReturnsShape, FailsShape DEF Posts
<1>2. CASE Replace \/ Restart \/ Tick \/ UNCHANGED vars
  BY <1>2 DEF Replace, Restart, Tick, vars, Posts
<1>3. CASE Crash
  BY <1>3 DEF Crash, Posts
<1> QED
  BY <1>1, <1>2, <1>3 DEF Next

\* A batch whose acknowledgement has returned is never sent again, not even after
\* a crash (persistence.py:125-137).
THEOREM NeverSentAgain ==
  ASSUME PowerMayFail => DirectorySync
  PROVE  Spec => NeverResent
<1>1. ASSUME Known, [Next]_vars, NEW t \in Threads, Posts(t)
      PROVE  call'[t].batch \notin gone
  <2>1. PostStarts(t)
    BY <1>1, OnlyPostStarts DEF Known
  <2>2. pc[t] \in Trying /\ call'[t].batch = call[t].batch
    BY <2>1 DEF PostStarts, AttemptDue, Trying, Goes, Known, TransportTyped, CallsTyped,
       CallStates
  <2>3. file \in Contents /\ call[t].batch \in Ids(file)
    BY <1>1, <2>2, PostedOnDisk DEF Contents, Kept
  <2> QED
    BY <2>2, <2>3, <1>1 DEF Known, LogInv, GoneForGood
<1>2. Known /\ [Next]_vars => [\A t \in Threads : Posts(t) => call'[t].batch \notin gone]_vars
  BY <1>1
<1> QED
  BY <1>2, KnownInit, KnownStep, PTL DEF Spec, NeverResent

\* What a call may say of its batch.
Honest(t, result) ==
  LET b == call[t].batch IN
  /\ result = "success" => b \in received
  /\ result = "rejected" => b \in answered
  /\ result = "retained" => \A contents \in Kept' : b \in Ids(contents)
  /\ result = "failed" => \A contents \in Kept' : b \notin Ids(contents)
  /\ call[t].op = "persist" /\ result = "true" => b \in promised
  /\ call[t].op = "persist" /\ result = "false" =>
       \A contents \in Kept' : b \notin Ids(contents)

\* A call that returns without a mutation of its own.
LEMMA CalmHonest ==
  ASSUME Known, NEW t \in Threads, Calm(t), pc[t] # "idle", pc'[t] = "idle"
  PROVE  Honest(t, call'[t].outcome)
<1>1. /\ CallsTyped /\ InPlace(pc[t], call[t])
      /\ call[t].op \in {"none", "send", "recover", "persist"}
  BY DEF Known, TransportTyped, CallsTyped, CallStates, CallsInPlace
<1>2. Kept' = Kept
  BY CalmStore, CalmContents
<1>3. CASE LockTimesOut(t)
  <2>1. /\ pc[t] = "lock"
        /\ call'[t].outcome = IF call[t].op = "send" THEN "failed" ELSE "false"
    BY <1>1, <1>3, ReturnsShape DEF LockTimesOut
  <2>2. call[t].op = "send" => \A contents \in Kept : call[t].batch \notin Ids(contents)
    BY <2>1 DEF Known, LogInv, FreshPuts, Unput
  <2>3. call[t].op # "persist"
    BY <1>1, <2>1 DEF InPlace
  <2> QED
    BY <1>2, <2>1, <2>2, <2>3 DEF Honest
<1>4. CASE PutRefused(t)
  <2>1. pc[t] = "put" /\ FailsWith(t, records)
    BY <1>4 DEF PutRefused
  <2>2. call[t].op \in {"send", "persist"}
    BY <1>1, <2>1 DEF InPlace
  <2>3. /\ \A contents \in Kept : call[t].batch \notin Ids(contents)
        /\ call[t].batch \notin Ids(records)
    BY <2>1, <2>2 DEF Known, LogInv, FreshPuts, Unput
  <2>4. call'[t].outcome \in {"false", "failed"}
    BY <1>1, <2>1, <2>3, FailsShape
  <2> QED
    BY <1>2, <2>3, <2>4 DEF Honest
<1>5. CASE PersistConfirms(t)
  <2>1. /\ pc[t] = "confirm" /\ Unlocked
        /\ call'[t].outcome = IF call[t].batch \in Ids(records) THEN "true" ELSE "false"
    BY <1>1, <1>5, ReturnsShape DEF PersistConfirms
  <2>2. records = file /\ write.stage = "none"
    BY <2>1 DEF Unlocked, NoWrite, Known, MemoryMatchesFile
  <2>3. /\ call[t].batch \in promised
        /\ call[t].batch \notin Ids(file) =>
             \A contents \in Kept : call[t].batch \notin Ids(contents)
    BY <2>1, <2>2 DEF Known, LogInv, ToldTruly
  <2> QED
    BY <1>2, <2>1, <2>2, <2>3 DEF Honest
<1>6. CASE RecoverDone(t) \/ NextRecord(t)
  <2>1. pc[t] = "next"
    BY <1>6 DEF RecoverDone, NextRecord
  <2>2. call[t].op = "recover"
    BY <1>1, <2>1 DEF InPlace
  <2>3. Returns(t, "true") \/ Returns(t, "false") \/ Turns(t)
    BY <1>1, <1>6, CalmShape DEF RecoverDone, NextRecord, Remaining, Goes, Move, CallsTyped
  <2>4. call'[t].outcome \in {"true", "false"}
    BY <1>1, <2>3, ReturnsShape DEF Turns
  <2> QED
    BY <2>2, <2>4 DEF Honest
<1>7. ASSUME ~LockTimesOut(t), ~PutRefused(t), ~PersistConfirms(t), ~RecoverDone(t),
             ~NextRecord(t)
      PROVE  FALSE
  <2>1. \/ \E place \in Places \ {"idle"} :
             (\E c : Goes(t, place, c)) \/ (Move(t, place) /\ UNCHANGED call)
    <3>1. CASE SendCalled(t) \/ RecoverCalled(t) \/ PersistCalled(t) \/ LockTaken(t)
      BY <3>1 DEF SendCalled, RecoverCalled, PersistCalled, LockTaken, Places
    <3>2. CASE PauseOver(t) \/ RetryWaits(t) \/ PostTooLate(t) \/ FinalAnswer(t)
               \/ RetryableStatus(t) \/ NetworkError(t) \/ PostStarts(t)
      BY <3>2 DEF PauseOver, RetryWaits, PostTooLate, FinalAnswer, RetryableStatus,
         NetworkError, Again, PostStarts, Places
    <3> QED
      BY <1>7, <3>1, <3>2 DEF Calm
  <2> QED
    BY <1>1, <2>1, GoesShape, MoveShape
<1> QED
  BY <1>3, <1>4, <1>5, <1>6, <1>7

\* A call that returns when its mutation does.
LEMMA MutationHonest ==
  ASSUME Known, NEW t \in Threads, MutationReturns(t) \/ MutationRaises(t), pc'[t] = "idle"
  PROVE  Honest(t, call'[t].outcome)
<1>1. /\ CallsTyped /\ InPlace(pc[t], call[t])
      /\ call[t].op \in {"none", "send", "recover", "persist"}
  BY DEF Known, TransportTyped, CallsTyped, CallStates, CallsInPlace
<1>2. CASE MutationReturns(t)
  <2>1. Kept' = {file} /\ records = file /\ records \in Contents
    BY <1>2, MutationReturnsShape, ReturnedShape
  <2>2. CASE pc[t] = "acking"
    <3>1. call[t].op = "send"
      BY <1>2, <2>2, MutationReturnsShape
    <3>2. call'[t].outcome = IF call[t].success THEN "success" ELSE "rejected"
      BY <1>1, <1>2, <2>2, <3>1, ReturnsShape DEF MutationReturns
    <3>3. call[t].batch \in answered /\ (call[t].success => call[t].batch \in received)
      BY <2>2 DEF Known, LogInv, ToldTruly, PromiseInv, AnsweredFirst
    <3> QED
      BY <3>1, <3>2, <3>3 DEF Honest
  <2>3. CASE pc[t] = "pausing"
    <3>1. /\ call'[t].outcome =
               IF call[t].op # "send" THEN "false"
               ELSE IF call[t].batch \in Ids(records) THEN "retained" ELSE "failed"
      BY <1>1, <1>2, <2>3, FailsShape DEF MutationReturns
    <3>2. call[t].op \in {"send", "recover"}
      BY <1>1, <2>3 DEF InPlace, Sending
    <3>3. call[t].op = "send" => call[t].batch \in Ids(file)
      BY <2>1, <2>3 DEF Known, LogInv, SendersKept
    <3> QED
      BY <2>1, <3>1, <3>2, <3>3 DEF Honest
  <2> QED
    BY <1>2, <2>2, <2>3, MutationReturnsShape
<1>3. CASE MutationRaises(t)
  <2>1. /\ Kept' = Kept /\ Kept \subseteq Contents /\ file \in Kept /\ records' = file
        /\ write.stage = "begun" /\ pc[t] \in Busy
    BY <1>3, RaisedShape
  <2>2. call'[t].outcome =
          IF call[t].op # "send" THEN "false"
          ELSE IF call[t].batch \in Ids(records') THEN "retained" ELSE "failed"
    BY <1>1, <1>3, FailsShape DEF MutationRaises
  <2>3. CASE pc[t] = "putting"
    <3>1. call[t].op \in {"send", "persist"}
      BY <1>1, <2>3 DEF InPlace
    <3>2. \A contents \in Kept : call[t].batch \notin Ids(contents)
      BY <2>1, <2>3, <3>1 DEF Known, LogInv, FreshPuts, Unput
    <3> QED
      BY <2>1, <2>2, <3>1, <3>2 DEF Honest
  <2>4. CASE pc[t] \in {"acking", "pausing"}
    <3>1. call[t].op \in {"send", "recover"}
      BY <1>1, <2>4 DEF InPlace, Sending
    <3>2. call[t].op = "send" => \A contents \in Kept : call[t].batch \in Ids(contents)
      BY <2>1, <2>4 DEF Known, LogInv, SendersKept
    <3> QED
      BY <2>1, <2>2, <3>1, <3>2 DEF Honest
  <2> QED
    BY <2>1, <2>3, <2>4 DEF Busy
<1> QED
  BY <1>2, <1>3

\* A call tells its caller where the batch is: what it reports "retained" is in
\* whatever a restart may find, what it reports "failed" is in nothing of it, and
\* what it reports delivered was (batch.py:469-475, transport.py:104-124).
THEOREM CallsAreHonest ==
  ASSUME PowerMayFail => DirectorySync
  PROVE  Spec => HonestOutcome
<1> DEFINE Truth == \A t \in Threads : CallReturns(t) => Honest(t, call'[t].outcome)
<1>1. ASSUME Known, [Next]_vars, NEW t \in Threads, CallReturns(t)
      PROVE  Honest(t, call'[t].outcome)
  <2>1. Step(t)
    <3>1. ASSUME NEW u \in Threads, Step(u) PROVE Step(t)
      BY <1>1, <3>1, StepOthers DEF Known, TransportTyped, OthersStay, CallReturns
    <3>2. ~Crash
      BY <1>1 DEF Crash, ProcessDies, PowerFails, Stops, CallReturns
    <3>3. ~(Replace \/ Restart \/ Tick \/ UNCHANGED vars)
      BY <1>1 DEF Replace, Restart, Tick, vars, CallReturns
    <3> QED
      BY <1>1, <3>1, <3>2, <3>3 DEF Next
  <2>2. CASE Calm(t)
    BY <1>1, <2>2, CalmHonest DEF CallReturns
  <2>3. CASE MutationReturns(t) \/ MutationRaises(t)
    BY <1>1, <2>3, MutationHonest DEF CallReturns
  <2>4. CASE PutStarts(t) \/ AcknowledgeStarts(t) \/ PauseStarts(t)
    BY <1>1, <2>4, MoveShape
    DEF Known, TransportTyped, PutStarts, AcknowledgeStarts, PauseStarts, CallReturns
  <2> QED
    BY <2>1, <2>2, <2>3, <2>4 DEF Step, Calm
<1>2. Known /\ [Next]_vars => [Truth]_vars
  BY <1>1
<1>3. Truth =>
        \A t \in Threads : CallReturns(t) =>
          LET b == call[t].batch  result == call'[t].outcome IN
          /\ result = "success" => b \in received
          /\ result = "rejected" => b \in answered
          /\ result = "retained" => \A contents \in Kept' : b \in Ids(contents)
          /\ result = "failed" => \A contents \in Kept' : b \notin Ids(contents)
          /\ call[t].op = "persist" /\ result = "true" => b \in promised
          /\ call[t].op = "persist" /\ result = "false" =>
               \A contents \in Kept' : b \notin Ids(contents)
  BY DEF Honest
<1> HIDE DEF Truth
<1> QED
  BY <1>2, <1>3, KnownInit, KnownStep, PTL DEF Spec, HonestOutcome

-----------------------------------------------------------------------------
(* The log on disk is a DurableLog as long as the machine does not stop.   *)

\* What DurableLog sees of the file.
Batches(contents) == [i \in DOMAIN contents |-> contents[i].batch]

\* The mutation that is about to replace the file is of the thread that waits for it.
Shaped ==
  write.stage = "begun" => \E t \in Threads :
    \/ pc[t] = "putting" /\ records = Append(file, Record(call[t].batch, 0))
    \/ /\ pc[t] = "acking"
       /\ \E i \in DOMAIN file : file[i].batch = call[t].batch /\ records = RemoveAt(file, i)
    \/ pc[t] = "pausing" /\ Batches(records) = Batches(file)

\* The batches of the file are a sequence of batches.
LEMMA BatchesSeq ==
  ASSUME NEW contents \in Seq(Records)
  PROVE  /\ Batches(contents) \in Seq(Batch) /\ Len(Batches(contents)) = Len(contents)
         /\ DOMAIN Batches(contents) = DOMAIN contents
         /\ ToSet(Batches(contents)) = Ids(contents)
<1>1. Len(contents) \in Nat /\ DOMAIN contents = 1 .. Len(contents)
  OBVIOUS
<1>2. \A i \in 1 .. Len(contents) : contents[i].batch \in Batch
  <2>1. \A i \in 1 .. Len(contents) : contents[i] \in Records
    OBVIOUS
  <2> QED
    BY <2>1 DEF Records
<1>3. Batches(contents) = [i \in 1 .. Len(contents) |-> contents[i].batch]
  BY <1>1 DEF Batches
<1>4. Batches(contents) \in Seq(Batch) /\ Len(Batches(contents)) = Len(contents)
  BY <1>1, <1>2, <1>3
<1>5. ToSet(Batches(contents)) = Ids(contents)
  BY <1>1, <1>3 DEF ToSet, Ids
<1> QED
  BY <1>1, <1>3, <1>4, <1>5

\* A record that is appended appends its batch.
LEMMA BatchesAppend ==
  ASSUME NEW contents \in Seq(Records), NEW r \in Records
  PROVE  Batches(Append(contents, r)) = Append(Batches(contents), r.batch)
<1> DEFINE longer == Append(contents, r)
<1>1. longer \in Seq(Records) /\ Len(longer) = Len(contents) + 1 /\ Len(contents) \in Nat
  OBVIOUS
<1>2. r.batch \in Batch
  BY DEF Records
<1>3. Batches(longer) \in Seq(Batch) /\ Len(Batches(longer)) = Len(contents) + 1
  BY <1>1, BatchesSeq
<1>4. /\ Append(Batches(contents), r.batch) \in Seq(Batch)
      /\ Len(Append(Batches(contents), r.batch)) = Len(contents) + 1
  BY <1>2, BatchesSeq
<1>5. ASSUME NEW i \in 1 .. Len(contents) + 1
      PROVE  Batches(longer)[i] = Append(Batches(contents), r.batch)[i]
  <2>1. Batches(longer)[i] = longer[i].batch
    BY <1>1 DEF Batches
  <2>2. CASE i = Len(contents) + 1
    BY <1>1, <2>1, <2>2, BatchesSeq
  <2>3. CASE i # Len(contents) + 1
    <3>1. i \in 1 .. Len(contents) /\ i \in DOMAIN contents /\ longer[i] = contents[i]
      BY <1>1, <2>3
    <3>2. Append(Batches(contents), r.batch)[i] = Batches(contents)[i]
      BY <1>2, <3>1, BatchesSeq
    <3> QED
      BY <2>1, <3>1, <3>2 DEF Batches
  <2> QED
    BY <2>2, <2>3
<1> QED
  BY <1>3, <1>4, <1>5, SeqEqual

\* A record that is removed removes its batch.
LEMMA BatchesRemove ==
  ASSUME NEW contents \in Seq(Records), NEW i \in DOMAIN contents
  PROVE  Batches(RemoveAt(contents, i)) = RemoveAt(Batches(contents), i)
<1> DEFINE shorter == RemoveAt(contents, i)
           n == Len(contents) - 1
<1>1. Len(contents) \in Nat /\ DOMAIN contents = 1 .. Len(contents)
  OBVIOUS
<1>2. /\ shorter \in Seq(Records) /\ Len(shorter) = n
      /\ \A k \in 1 .. n : shorter[k] = IF k < i THEN contents[k] ELSE contents[k + 1]
  BY RemoveAtShape
<1>3. i \in DOMAIN Batches(contents) /\ Batches(contents) \in Seq(Batch)
      /\ Len(Batches(contents)) = Len(contents)
  BY BatchesSeq
<1>4. /\ RemoveAt(Batches(contents), i) \in Seq(Batch)
      /\ Len(RemoveAt(Batches(contents), i)) = n
      /\ \A k \in 1 .. n : RemoveAt(Batches(contents), i)[k] =
           IF k < i THEN Batches(contents)[k] ELSE Batches(contents)[k + 1]
  BY <1>3, RemoveAtShape
<1> HIDE DEF shorter
<1>5. Batches(shorter) \in Seq(Batch) /\ Len(Batches(shorter)) = n
  BY <1>2, BatchesSeq
<1>6. ASSUME NEW k \in 1 .. n PROVE Batches(shorter)[k] = RemoveAt(Batches(contents), i)[k]
  <2>1. k \in DOMAIN contents /\ k + 1 \in DOMAIN contents /\ k \in DOMAIN shorter
    BY <1>1, <1>2
  <2>2. /\ Batches(shorter)[k] = shorter[k].batch /\ Batches(contents)[k] = contents[k].batch
        /\ Batches(contents)[k + 1] = contents[k + 1].batch
    BY <2>1 DEF Batches
  <2> QED
    BY <1>2, <1>4, <2>2
<1>7. Batches(shorter) = RemoveAt(Batches(contents), i)
  BY <1>4, <1>5, <1>6, SeqEqual
<1> QED
  BY <1>7 DEF shorter

\* A mutation starts with its shape.
LEMMA ShapedStarts ==
  ASSUME Known, NEW t \in Threads, PutStarts(t) \/ AcknowledgeStarts(t) \/ PauseStarts(t)
  PROVE  Shaped' /\ UNCHANGED <<file, used, received, answered>>
<1>1. CASE PutStarts(t)
  <2>1. /\ Mutates(Append(records, Record(call[t].batch, 0))) /\ Move(t, "putting")
        /\ UNCHANGED <<call, history>>
    BY <1>1 DEF PutStarts, PutBegins
  <2>2. records = file /\ UNCHANGED file
    BY <2>1, MutatesShape
  <2>3. records' = Append(file', Record(call'[t].batch, 0)) /\ pc'[t] = "putting"
    BY <2>1, <2>2, MoveShape DEF Mutates, Known, TransportTyped
  <2> QED
    BY <2>1, <2>2, <2>3 DEF Shaped, history
<1>2. CASE AcknowledgeStarts(t)
  <2>1. PICK i \in DOMAIN records :
          records[i].batch = call[t].batch /\ Mutates(RemoveAt(records, i))
    BY <1>2 DEF AcknowledgeStarts, AcknowledgeBegins
  <2>2. records = file /\ UNCHANGED <<file, call, history>> /\ Move(t, "acking")
    BY <1>2, <2>1, MutatesShape DEF AcknowledgeStarts
  <2>3. /\ i \in DOMAIN file' /\ file'[i].batch = call'[t].batch
        /\ records' = RemoveAt(file', i) /\ pc'[t] = "acking"
    BY <2>1, <2>2, MoveShape DEF Mutates, Known, TransportTyped
  <2> QED
    BY <2>2, <2>3 DEF Shaped, history
<1>3. CASE PauseStarts(t)
  <2>1. /\ PauseBegins(call[t].batch, call[t].until) /\ Move(t, "pausing")
        /\ UNCHANGED <<call, history>>
    BY <1>3 DEF PauseStarts
  <2>2. records = file /\ UNCHANGED file
    BY <2>1, MutatesShape DEF PauseBegins
  <2>3. pc'[t] = "pausing"
    BY <2>1, MoveShape DEF Known, TransportTyped
  <2>4. Batches(records') = Batches(file')
    BY <2>1, <2>2, PauseShape DEF Batches
  <2> QED
    BY <2>1, <2>2, <2>3, <2>4 DEF Shaped, history, Batches
<1> QED
  BY <1>1, <1>2, <1>3

\* It keeps it until the file is replaced.
LEMMA ShapedStep ==
  ASSUME Known, Shaped, [Next]_vars
  PROVE  Shaped'
<1>1. ASSUME NEW t \in Threads, Calm(t) PROVE Shaped'
  <2>1. OthersStay(t) /\ UNCHANGED <<records, file, write>>
    BY <1>1, CalmShape, CalmStore DEF Known, TransportTyped, storeVars
  <2>2. pc[t] \notin Busy
    <3>1. Begins(t) \/ Locks(t) \/ Turns(t) \/ Tries(t) \/ Ends(t)
      BY <1>1, CalmShape DEF Known, TransportTyped
    <3> QED
      BY <1>1
      DEF Calm, Busy, SendCalled, RecoverCalled, PersistCalled, CanCall, LockTaken,
          LockTimesOut, PutRefused, PersistConfirms, RecoverDone, NextRecord, PauseOver,
          RetryWaits, PostStarts, PostTooLate, AttemptDue, FinalAnswer, RetryableStatus,
          NetworkError
  <2>3. ASSUME write.stage = "begun" PROVE Shaped'
    <3>1. PICK u \in Threads :
            \/ pc[u] = "putting" /\ records = Append(file, Record(call[u].batch, 0))
            \/ /\ pc[u] = "acking"
               /\ \E i \in DOMAIN file :
                    file[i].batch = call[u].batch /\ records = RemoveAt(file, i)
            \/ pc[u] = "pausing" /\ Batches(records) = Batches(file)
      BY <2>3 DEF Shaped
    <3>2. pc'[u] = pc[u] /\ call'[u] = call[u]
      BY <2>1, <2>2, <3>1 DEF Busy, OthersStay
    <3> QED
      BY <2>1, <3>1, <3>2 DEF Shaped, Batches
  <2> QED
    BY <2>1, <2>3 DEF Shaped
<1>2. ASSUME NEW t \in Threads, MutationReturns(t) \/ MutationRaises(t) PROVE Shaped'
  <2>1. write'.stage = "none"
    BY <1>2, MutationReturnsShape, ReturnedShape, RaisedShape
  <2> QED
    BY <2>1 DEF Shaped
<1>3. CASE Replace
  <2>1. write'.stage = "replaced"
    BY <1>3 DEF Replace, ReplaceFile, Known, TransportTyped, StoreTyped
  <2> QED
    BY <2>1 DEF Shaped
<1>4. CASE Crash
  <2>1. write'.stage = "none"
    BY <1>4 DEF Crash, ProcessDies, PowerFails, Stops, NoWrite
  <2> QED
    BY <2>1 DEF Shaped
<1>5. CASE Restart
  <2>1. write'.stage = "none"
    BY <1>5 DEF Restart, Opens, Known, TransportTyped, StoreTyped, MemoryMatchesFile
  <2> QED
    BY <2>1 DEF Shaped
<1>6. CASE Tick \/ UNCHANGED vars
  BY <1>6 DEF Tick, vars, storeVars, Shaped, Batches
<1> QED
  BY <1>1, <1>2, <1>3, <1>4, <1>5, <1>6, ShapedStarts DEF Next, Step, Calm

\* A step of a thread gives a batch to the log, answers for one in it, or is not seen.
LEMMA ThreadRefines ==
  ASSUME Known, NEW t \in Threads, Step(t)
  PROVE  [Log!Next]_(Log!logVars)
<1>1. CASE Calm(t)
  <2>1. UNCHANGED file
    BY <1>1, CalmStore DEF storeVars
  <2>2. Begins(t) \/ Locks(t) \/ Turns(t) \/ Tries(t) \/ (Ends(t) /\ UNCHANGED history)
    BY <1>1, CalmShape DEF Known, TransportTyped
  <2>3. CASE Begins(t)
    <3>1. CASE UNCHANGED used
      BY <2>1, <2>3, <3>1 DEF Begins, Log!logVars
    <3>2. CASE call'[t].batch \notin used /\ used' = used \cup {call'[t].batch}
      <4>1. Log!Give(call'[t].batch)
        BY <2>1, <2>3, <3>2 DEF Begins, Log!Give
      <4>2. call'[t].batch \in Batch
        <5>1. used' \subseteq Batch
          BY <1>1, TransportTypeStep DEF Next, Step, Calm, Known, TransportTyped, HistoryTyped
        <5> QED
          BY <3>2, <5>1
      <4> QED
        BY <4>1, <4>2 DEF Log!Next
    <3> QED
      BY <2>3, <3>1, <3>2 DEF Begins
  <2>4. CASE Tries(t)
    <3>1. CASE pc[t] = "post"
      <4>1. call[t].batch \in Ids(file) /\ call[t].batch \in Batch
        BY <3>1, PostedOnDisk
        DEF Trying, Known, TransportTyped, CallsInPlace, InPlace, Sending
      <4>2. call[t].batch \in ToSet(Batches(file))
        BY <4>1, BatchesSeq DEF Known, TransportTyped, StoreTyped
      <4>3. Log!Answer(call[t].batch)
        BY <2>1, <2>4, <4>2 DEF Tries, Log!Answer, Batches, Log!ToSet, ToSet
      <4> QED
        BY <4>1, <4>3 DEF Log!Next
    <3>2. CASE pc[t] # "post"
      BY <2>1, <2>4, <3>2 DEF Tries, Log!logVars
    <3> QED
      BY <3>1, <3>2
  <2>5. CASE Locks(t) \/ Turns(t) \/ (Ends(t) /\ UNCHANGED history)
    BY <2>1, <2>5 DEF Locks, Turns, history, Log!logVars
  <2> QED
    BY <2>2, <2>3, <2>4, <2>5
<1>2. CASE PutStarts(t) \/ AcknowledgeStarts(t) \/ PauseStarts(t)
  BY <1>2, ShapedStarts DEF Log!logVars
<1>3. CASE MutationReturns(t) \/ MutationRaises(t)
  BY <1>3 DEF MutationReturns, MutationRaises, WriteReturns, WriteFails, Log!logVars
<1> QED
  BY <1>1, <1>2, <1>3 DEF Step, Calm

\* The replacement of the file is what enters a batch, or removes one.
LEMMA ReplaceRefines ==
  ASSUME Known, Shaped, Replace
  PROVE  [Log!Next]_(Log!logVars)
<1>1. /\ write.stage = "begun" /\ file' = records
      /\ UNCHANGED <<pc, call, used, received, answered>>
  BY DEF Replace, ReplaceFile, history
<1>2. PICK t \in Threads :
        \/ pc[t] = "putting" /\ records = Append(file, Record(call[t].batch, 0))
        \/ /\ pc[t] = "acking"
           /\ \E i \in DOMAIN file : file[i].batch = call[t].batch /\ records = RemoveAt(file, i)
        \/ pc[t] = "pausing" /\ Batches(records) = Batches(file)
  BY <1>1 DEF Shaped
<1>3. /\ file \in Seq(Records) /\ InPlace(pc[t], call[t]) /\ file \in Kept
      /\ ToSet(Batches(file)) = Ids(file)
  BY BatchesSeq DEF Known, TransportTyped, StoreTyped, CallsInPlace, Kept, MemoryMatchesFile
<1>4. PICK b \in Batch : b = call[t].batch
  BY <1>2, <1>3 DEF InPlace, Sending
<1>5. CASE pc[t] = "putting" /\ records = Append(file, Record(b, 0))
  <2>1. call[t].op \in {"send", "persist"}
    BY <1>3, <1>5 DEF InPlace
  <2>2. b \in used /\ b \notin received \cup answered /\ b \notin Ids(file)
    BY <1>1, <1>3, <1>4, <1>5, <2>1 DEF Known, LogInv, UsedFirst, Putter, FreshPuts, Unput
  <2>3. Record(b, 0) \in Records /\ Record(b, 0).batch = b
    BY <1>4, RecordTypes DEF Record
  <2>4. Batches(file') = Append(Batches(file), b)
    BY <1>1, <1>3, <1>5, <2>3, BatchesAppend
  <2>5. Log!Enter(b)
    BY <1>1, <1>3, <2>2, <2>4 DEF Log!Enter, Batches, Log!ToSet, ToSet
  <2> QED
    BY <2>5 DEF Log!Next
<1>6. CASE pc[t] = "acking" /\ \E i \in DOMAIN file :
             file[i].batch = b /\ records = RemoveAt(file, i)
  <2>1. PICK i \in DOMAIN file : file[i].batch = b /\ records = RemoveAt(file, i)
    BY <1>6
  <2>2. b \in answered
    BY <1>4, <1>6 DEF Known, PromiseInv, AnsweredFirst
  <2>3. /\ i \in DOMAIN Batches(file) /\ Batches(file)[i] = b
        /\ Batches(file') = RemoveAt(Batches(file), i)
    BY <1>1, <1>3, <2>1, BatchesRemove DEF Batches
  <2>4. Log!Leave(b)
    BY <1>1, <2>2, <2>3 DEF Log!Leave, Batches, Log!RemoveAt, RemoveAt
  <2> QED
    BY <2>4 DEF Log!Next
<1>7. CASE pc[t] = "pausing" /\ Batches(records) = Batches(file)
  BY <1>1, <1>7 DEF Log!logVars, Batches
<1> QED
  BY <1>2, <1>4, <1>5, <1>6, <1>7

\* The transport implements the queue on disk that DurableLog describes
\* (persistence.py:104-165, transport.py:104-258), whatever the threads do and
\* wherever writes fail and the process stops, as long as the machine does not.
THEOREM TransportKeepsLog ==
  ASSUME ~PowerMayFail
  PROVE  Spec => KeepsLog
<1>1. Init => Log!Init
  <2>1. Batches(<<>>) = <<>>
    BY DEF Batches
  <2> QED
    BY <2>1 DEF Init, StoreInit, Log!Init, Batches
<1>2. ASSUME Known, Shaped, [Next]_vars PROVE [Log!Next]_(Log!logVars)
  <2>1. CASE Crash
    BY <2>1 DEF Crash, ProcessDies, PowerFails, Log!logVars
  <2>2. CASE Restart \/ Tick \/ UNCHANGED vars
    BY <2>2 DEF Restart, Opens, Tick, vars, storeVars, history, Log!logVars
  <2> QED
    BY <1>2, <2>1, <2>2, ThreadRefines, ReplaceRefines DEF Next
<1>3. Init => Shaped
  BY DEF Init, StoreInit, NoWrite, Shaped
<1> QED
  BY <1>1, <1>2, <1>3, KnownInit, KnownStep, ShapedStep, PTL DEF Spec, KeepsLog, Log!Spec

-----------------------------------------------------------------------------
(* Deadlines.  Calls keep theirs.                                          *)

\* Where a thread waits until its call's wake.
Sleeping == {"paused", "backoff", "post"}

\* A call that is not over is in time, and what it waits for comes in time.
InTime(place, c) ==
  /\ place # "idle" => now <= c.deadline
  /\ place \in Sleeping => c.wake <= c.deadline
OnTime == \A t \in Threads : InTime(pc[t], call[t])

\* A call that is made has time left.
LEMMA CalledInTime ==
  ASSUME TransportTyped, NEW t \in Threads,
         SendCalled(t) \/ RecoverCalled(t) \/ PersistCalled(t)
  PROVE  InTime(pc'[t], call'[t])
<1>1. /\ now \in 0 .. MaxTime /\ Timeouts \subseteq Nat
      /\ {MaxBackoff, MaxRetryAfter, MaxTime, RequestTimeout} \subseteq Nat
  BY TransportAssumption DEF TransportTyped, ClockTyped
<1>2. now <= Never
  BY <1>1 DEF Never
<1>3. \A bounded \in BOOLEAN : \A d \in Deadlines(bounded) : now <= d
  BY <1>1, <1>2 DEF Deadlines
<1>4. \E c, d : /\ Goes(t, "lock", c) \/ Goes(t, "put", c)
                /\ c.deadline = d /\ now <= d
  <2>1. CASE SendCalled(t)
    <3>1. PICK b, d : Goes(t, "lock", [NoCall EXCEPT !.op = "send", !.batch = b, !.deadline = d])
                      /\ now <= d
      BY <1>3, <2>1 DEF SendCalled
    <3>2. [NoCall EXCEPT !.op = "send", !.batch = b, !.deadline = d].deadline = d
      BY DEF NoCall
    <3> QED
      BY <3>1, <3>2
  <2>2. CASE RecoverCalled(t)
    <3>1. PICK d : Goes(t, "lock", [NoCall EXCEPT !.op = "recover", !.deadline = d]) /\ now <= d
      BY <1>3, <2>2 DEF RecoverCalled
    <3>2. [NoCall EXCEPT !.op = "recover", !.deadline = d].deadline = d
      BY DEF NoCall
    <3> QED
      BY <3>1, <3>2
  <2>3. CASE PersistCalled(t)
    <3>1. PICK b : Goes(t, "put", [NoCall EXCEPT !.op = "persist", !.batch = b])
      BY <2>3 DEF PersistCalled
    <3>2. [NoCall EXCEPT !.op = "persist", !.batch = b].deadline = Never
      BY DEF NoCall
    <3> QED
      BY <1>2, <3>1, <3>2
  <2> QED
    BY <2>1, <2>2, <2>3
<1>5. PICK c, d : /\ Goes(t, "lock", c) \/ Goes(t, "put", c)
                  /\ c.deadline = d /\ now <= d
  BY <1>4
<1>6. pc'[t] \in {"lock", "put"} /\ call'[t] = c
  BY <1>5, GoesShape DEF TransportTyped
<1> QED
  BY <1>5, <1>6 DEF InTime, Sleeping

\* A wait begins only if it ends in time.
LEMMA SleepsInTime ==
  ASSUME TransportTyped, OnTime, NEW t \in Threads,
         NextRecord(t) \/ RetryWaits(t) \/ PostStarts(t)
  PROVE  InTime(pc'[t], call'[t])
<1>1. /\ call[t] \in CallStates /\ InPlace(pc[t], call[t]) /\ now \in Int
      /\ call[t].deadline \in Int /\ RequestTimeout \in Int
  BY TransportAssumption
  DEF TransportTyped, CallsTyped, CallsInPlace, ClockTyped, CallStates
<1>2. pc[t] # "idle" => now <= call[t].deadline
  BY DEF OnTime, InTime
<1>3. CASE NextRecord(t)
  <2> DEFINE record == Head(call[t].todo)
             c == [call[t] EXCEPT !.batch = record.batch, !.attempt = 0,
                                  !.after = NoHeader, !.until = 0, !.wake = record.until]
  <2>1. c.deadline = call[t].deadline /\ c.wake = record.until
    BY <1>1 DEF CallStates
  <2>2. record \in Records
    <3>1. call[t].todo \in Seq(Records) /\ call[t].todo # <<>>
      BY <1>1, <1>3 DEF CallStates, NextRecord
    <3> QED
      BY <3>1
  <2>3. record.until \in Int
    BY <2>2 DEF Records
  <2>4. /\ pc[t] = "next"
        /\ \/ Goes(t, "attempt", c) \/ Returns(t, "false")
           \/ Goes(t, "paused", c) /\ ~(now + (record.until - now) > call[t].deadline)
    BY <1>3 DEF NextRecord, Remaining, DelayExceedsDeadline
  <2>5. CASE Returns(t, "false")
    BY <2>5, ReturnsShape DEF InTime, Sleeping, TransportTyped
  <2>6. CASE Goes(t, "attempt", c)
    <3>1. pc'[t] = "attempt" /\ call'[t] = c
      BY <2>6, GoesShape DEF TransportTyped
    <3> HIDE DEF c
    <3> QED
      BY <1>2, <2>1, <2>4, <3>1 DEF InTime, Sleeping
  <2>7. CASE Goes(t, "paused", c) /\ ~(now + (record.until - now) > call[t].deadline)
    <3>1. pc'[t] = "paused" /\ call'[t] = c
      BY <2>7, GoesShape DEF TransportTyped
    <3> HIDE DEF c, record
    <3>2. record.until <= call[t].deadline
      BY <1>1, <2>3, <2>7
    <3> QED
      BY <1>2, <2>1, <2>4, <3>1, <3>2 DEF InTime, Sleeping
  <2> QED
    BY <2>4, <2>5, <2>6, <2>7
<1>4. CASE RetryWaits(t)
  <2> DEFINE c == [call[t] EXCEPT !.wake = now + Delay(t), !.after = NoHeader]
  <2>1. c.deadline = call[t].deadline /\ c.wake = now + Delay(t)
    BY <1>1 DEF CallStates
  <2>2. pc[t] = "attempt" /\ Delay(t) \in Int
    BY <1>1, <1>4, DelayTypes DEF RetryWaits
  <2>3. CASE Goes(t, "giveup", call[t])
    BY <1>2, <2>2, <2>3, GoesShape DEF InTime, Sleeping, TransportTyped
  <2>4. CASE Goes(t, "backoff", c) /\ ~DelayExceedsDeadline(t, Delay(t))
    <3>1. pc'[t] = "backoff" /\ call'[t] = c
      BY <2>4, GoesShape DEF TransportTyped
    <3> HIDE DEF c
    <3>2. now + Delay(t) <= call[t].deadline
      BY <1>1, <2>2, <2>4 DEF DelayExceedsDeadline
    <3> QED
      BY <1>2, <2>1, <2>2, <3>1, <3>2 DEF InTime, Sleeping
  <2> QED
    BY <1>4, <2>3, <2>4 DEF RetryWaits
<1>5. CASE PostStarts(t)
  <2> DEFINE c == [call[t] EXCEPT !.wake = now + PostTimeout(t)]
  <2>1. c.deadline = call[t].deadline /\ c.wake = now + PostTimeout(t)
    BY <1>1 DEF CallStates
  <2>2. now + PostTimeout(t) <= call[t].deadline
    BY <1>1 DEF PostTimeout, AtMost
  <2>3. pc'[t] = "post" /\ call'[t] = c /\ pc[t] # "idle"
    BY <1>5, GoesShape DEF TransportTyped, PostStarts, AttemptDue
  <2> HIDE DEF c
  <2> QED
    BY <1>2, <2>1, <2>2, <2>3 DEF InTime, Sleeping
<1> QED
  BY <1>3, <1>4, <1>5

\* Any other step of a thread ends the call, or goes on without a new wait.
LEMMA OthersInTime ==
  ASSUME TransportTyped, OnTime, NEW t \in Threads, Step(t),
         ~(SendCalled(t) \/ RecoverCalled(t) \/ PersistCalled(t)),
         ~(NextRecord(t) \/ RetryWaits(t) \/ PostStarts(t))
  PROVE  InTime(pc'[t], call'[t])
<1> DEFINE On(c) == c.deadline = call[t].deadline
           Awake == Places \ (Sleeping \cup {"idle"})
<1>1. call[t] \in CallStates /\ CallsTyped
  BY DEF TransportTyped, CallsTyped
<1>2. /\ pc[t] # "idle"
      /\ \/ \E place \in Awake : \E c : Goes(t, place, c) /\ On(c)
         \/ \E place \in Awake : Move(t, place) /\ UNCHANGED call
         \/ \E outcome : Returns(t, outcome)
         \/ \E contents : FailsWith(t, contents)
  <2>1. CASE LockTaken(t) \/ LockTimesOut(t)
    <3>1. On(call[t]) /\ On([call[t] EXCEPT !.todo = records])
      BY <1>1 DEF CallStates
    <3> HIDE DEF On
    <3> QED
      BY <2>1, <3>1 DEF LockTaken, LockTimesOut, Places, Sleeping
  <2>2. CASE PutStarts(t) \/ PutRefused(t) \/ PersistConfirms(t) \/ RecoverDone(t)
    BY <2>2 DEF PutStarts, PutRefused, PersistConfirms, RecoverDone, Places, Sleeping
  <2>3. CASE MutationReturns(t) \/ MutationRaises(t)
    <3>1. On([call[t] EXCEPT !.todo = Tail(@)])
      BY <1>1 DEF CallStates
    <3> HIDE DEF On
    <3> QED
      BY <2>3, <3>1 DEF MutationReturns, MutationRaises, Places, Sleeping
  <2>4. CASE PauseOver(t) \/ PostTooLate(t) \/ AcknowledgeStarts(t) \/ PauseStarts(t)
    BY <2>4
    DEF PauseOver, PostTooLate, AttemptDue, AcknowledgeStarts, PauseStarts, Places, Sleeping
  <2>5. CASE FinalAnswer(t) \/ RetryableStatus(t) \/ NetworkError(t)
    <3>1. /\ \A success \in BOOLEAN : On([call[t] EXCEPT !.success = success])
          /\ \A after, until : On([call[t] EXCEPT !.attempt = @ + 1, !.after = after,
                                                  !.until = until])
      BY <1>1 DEF CallStates
    <3> HIDE DEF On
    <3> QED
      BY <2>5, <3>1
      DEF FinalAnswer, RetryableStatus, NetworkError, Again, Places, Sleeping
  <2> QED
    BY <2>1, <2>2, <2>3, <2>4, <2>5 DEF Step
<1>3. now <= call[t].deadline
  BY <1>2 DEF OnTime, InTime
<1>4. \/ pc'[t] \in Awake /\ On(call'[t])
      \/ pc'[t] = "idle"
  BY <1>1, <1>2, GoesShape, MoveShape, ReturnsShape, FailsShape
<1> QED
  BY <1>3, <1>4 DEF InTime, Sleeping

\* Every step is in time.
LEMMA OnTimeStep == ASSUME TransportTyped, OnTime, [Next]_vars PROVE OnTime'
<1>1. ASSUME NEW t \in Threads, Step(t) PROVE OnTime'
  <2>1. OthersStay(t) /\ now' = now
    BY <1>1, StepOthers
    DEF TransportTyped, Step, SendCalled, RecoverCalled, PersistCalled, LockTaken,
        LockTimesOut, PutStarts, PutRefused, MutationReturns, MutationRaises,
        PersistConfirms, RecoverDone, NextRecord, PauseOver, RetryWaits, PostStarts,
        PostTooLate, FinalAnswer, RetryableStatus, NetworkError, AcknowledgeStarts, PauseStarts
  <2>2. InTime(pc'[t], call'[t])
    BY <1>1, CalledInTime, SleepsInTime, OthersInTime
  <2> QED
    BY <2>1, <2>2 DEF OnTime, InTime, OthersStay
<1>2. CASE Tick
  <2>1. now' = now + 1 /\ UNCHANGED <<pc, call>> /\ now \in Nat
    BY <1>2 DEF Tick, TransportTyped, ClockTyped
  <2>2. ASSUME NEW t \in Threads, pc[t] # "idle" PROVE now + 1 <= call[t].deadline
    <3>1. call[t].deadline \in Int /\ call[t].wake \in Int
      BY DEF TransportTyped, CallsTyped, CallStates
    <3>2. now < call[t].deadline
      BY <1>2, <2>1, <2>2, <3>1 DEF Tick, Waiting, OnTime, InTime, Sleeping
    <3> QED
      BY <2>1, <3>1, <3>2
  <2> QED
    BY <2>1, <2>2 DEF OnTime, InTime
<1>3. CASE Crash
  BY <1>3 DEF Crash, OnTime, InTime, Sleeping
<1>4. CASE Replace \/ Restart \/ UNCHANGED vars
  BY <1>4 DEF Replace, Restart, vars, OnTime, InTime
<1> QED
  BY <1>1, <1>2, <1>3, <1>4 DEF Next

\* No call with a deadline outlives it, whatever it waits for (transport.py:148,
\* 204, 217, 278): for every number of threads and batches, every timeout,
\* Retry-After, pause and backoff, and whatever fails and stops.
THEOREM DeadlinesKept == Spec => []DeadlineKept
<1>1. Init => OnTime
  BY DEF Init, OnTime, InTime, Sleeping
<1>2. OnTime => DeadlineKept
  BY DEF OnTime, InTime, DeadlineKept
<1> QED
  BY <1>1, <1>2, TransportTypeInit, TransportTypeStep, OnTimeStep, PTL DEF Spec

-----------------------------------------------------------------------------
(* Retry-After.                                                            *)

\* The server wants to see a batch no later than now, or than that time.
Due(b, time) == notBefore[b] <= now \/ notBefore[b] <= time

\* Where a thread has a batch of the log in hand, until it is written down again.
AtWork == {"paused", "attempt", "backoff", "post", "ack", "acking", "giveup"}

\* What a thread knows of the time the server wants to see its batch.
Patient(place, c) ==
  /\ \/ place \in {"lock", "put"} /\ c.op # "recover"
     \/ place = "putting" /\ c.op = "send"
     => notBefore[c.batch] = 0
  /\ place \in {"post", "ack", "acking"} => notBefore[c.batch] <= now
  /\ place = "attempt" =>
       /\ c.attempt = 0 \/ c.after = NoHeader => notBefore[c.batch] <= now
       /\ c.after # NoHeader => notBefore[c.batch] <= now + c.after
  /\ place \in {"attempt", "giveup"} => Due(c.batch, c.until)
  /\ place \in {"paused", "backoff"} => Due(c.batch, c.wake)

\* And of those that a replay comes to later.
RestDue(place, c) ==
  c.op = "recover" /\ place \in AtWork \cup {"next"} =>
    \A i \in 1 .. Len(c.todo) :
      place = "next" \/ i # 1 => Due(c.todo[i].batch, c.todo[i].until)

AllPatient == \A t \in Threads : Patient(pc[t], call[t]) /\ RestDue(pc[t], call[t])

\* The log says when every batch is due that no thread has in hand.
InHand(places, b) == \E t \in Threads : pc[t] \in places /\ call[t].batch = b
LogDue(contents, places) ==
  \A i \in DOMAIN contents :
    InHand(places, contents[i].batch) \/ Due(contents[i].batch, contents[i].until)
Writing == AtWork \cup {"pausing"}
UnusedDue == \A b \in Batch \ used : notBefore[b] = 0

PatienceInv ==
  AllPatient /\ LogDue(records, AtWork) /\ LogDue(file, Writing) /\ UnusedDue

\* Numbers are numbers.
LEMMA TimesTyped ==
  ASSUME Known
  PROVE  /\ now \in Nat /\ notBefore \in [Batch -> Nat]
         /\ \A t \in Threads :
              /\ call[t] \in CallStates /\ InPlace(pc[t], call[t])
              /\ call[t].after \in Nat \cup {NoHeader} /\ call[t].until \in Nat
              /\ call[t].wake \in Int /\ call[t].attempt \in Nat
              /\ call[t].todo \in Seq(Records)
<1>1. /\ now \in Nat /\ notBefore \in [Batch -> Nat]
      /\ \A t \in Threads : call[t] \in CallStates /\ InPlace(pc[t], call[t])
  BY TransportAssumption
  DEF Known, TransportTyped, ClockTyped, HistoryTyped, CallsTyped, CallsInPlace
<1>2. 0 .. MaxRetries + 1 \subseteq Nat
  BY TransportAssumption
<1> QED
  BY <1>1, <1>2 DEF CallStates

\* A call is made, with a batch the server has never seen.
LEMMA BeginsPatient ==
  ASSUME Known, PatienceInv, NEW t \in Threads, Begins(t), used' \subseteq Batch
  PROVE  Patient(pc'[t], call'[t]) /\ RestDue(pc'[t], call'[t])
<1>1. /\ pc'[t] \in {"lock", "put"}
      /\ call'[t].op # "recover" => call'[t].batch \in Batch \ used
  BY DEF Begins
<1>2. call'[t].op # "recover" => notBefore[call'[t].batch] = 0
  BY <1>1 DEF PatienceInv, UnusedDue
<1> QED
  BY <1>1, <1>2 DEF Patient, RestDue, AtWork

\* The lock is taken when nobody has a batch in hand, so that the snapshot is due.
LEMMA LocksPatient ==
  ASSUME Known, PatienceInv, NEW t \in Threads, Locks(t)
  PROVE  Patient(pc'[t], call'[t]) /\ RestDue(pc'[t], call'[t])
<1>1. CASE pc'[t] = "put" /\ call[t].op = "send" /\ call'[t] = call[t]
  <2>1. Patient(pc[t], call[t]) /\ pc[t] = "lock"
    BY DEF PatienceInv, AllPatient, Locks
  <2> QED
    BY <1>1, <2>1 DEF Patient, RestDue, AtWork
<1>2. CASE pc'[t] = "next" /\ call'[t].todo = records
  <2>1. \A b : ~InHand(AtWork, b)
    <3>1. \A u \in Threads : call[u].op \in {"send", "recover"} => pc[u] \in {"idle", "lock"}
      BY DEF Locks, LockFree
    <3>2. \A u \in Threads : pc[u] \in AtWork => call[u].op \in {"send", "recover"}
      BY TimesTyped DEF InPlace, Sending, AtWork
    <3> QED
      BY <3>1, <3>2 DEF InHand, AtWork
  <2>2. \A i \in DOMAIN records : Due(records[i].batch, records[i].until)
    BY <2>1 DEF PatienceInv, LogDue
  <2>3. DOMAIN records = 1 .. Len(records)
    BY DEF Known, TransportTyped, StoreTyped
  <2> QED
    BY <1>2, <2>2, <2>3 DEF Patient, RestDue
<1> QED
  BY <1>1, <1>2 DEF Locks

\* A replay waits until the next record is due.
LEMMA NextPatient ==
  ASSUME Known, PatienceInv, NEW t \in Threads, NextRecord(t)
  PROVE  Patient(pc'[t], call'[t]) /\ RestDue(pc'[t], call'[t])
<1> DEFINE record == Head(call[t].todo)
           c == [call[t] EXCEPT !.batch = record.batch, !.attempt = 0,
                                !.after = NoHeader, !.until = 0, !.wake = record.until]
<1>1. call[t] \in CallStates /\ pc[t] = "next" /\ call[t].op = "recover"
      /\ call[t].todo \in Seq(Records) /\ call[t].todo # <<>>
  BY TimesTyped DEF NextRecord, InPlace
<1>2. /\ c.op = call[t].op /\ c.batch = record.batch /\ c.attempt = 0 /\ c.after = NoHeader
      /\ c.until = 0 /\ c.wake = record.until /\ c.todo = call[t].todo
  BY <1>1 DEF CallStates
<1>3. record \in Records /\ record = call[t].todo[1] /\ 1 \in 1 .. Len(call[t].todo)
  BY <1>1
<1>4. record.until \in Nat /\ record.batch \in Batch
  BY <1>3 DEF Records
<1>5. /\ RestDue("next", call[t])
      /\ \A i \in 1 .. Len(call[t].todo) : Due(call[t].todo[i].batch, call[t].todo[i].until)
  BY <1>1 DEF PatienceInv, AllPatient, RestDue
<1>6. Due(record.batch, record.until)
  BY <1>3, <1>5
<1>7. \/ Goes(t, "attempt", c) /\ record.until - now <= 0
      \/ Goes(t, "paused", c) \/ Returns(t, "false")
  BY DEF NextRecord, Remaining
<1> HIDE DEF c, record
<1>8. CASE Returns(t, "false")
  BY <1>8, ReturnsShape DEF Known, TransportTyped, Patient, RestDue, AtWork
<1>9. CASE Goes(t, "attempt", c) /\ record.until - now <= 0
  <2>1. pc'[t] = "attempt" /\ call'[t] = c
    BY <1>9, GoesShape DEF Known, TransportTyped
  <2>2. notBefore[record.batch] <= now
    <3>1. notBefore[record.batch] \in Nat /\ now \in Nat
      BY <1>4, TimesTyped
    <3> QED
      BY <1>4, <1>6, <1>9, <3>1 DEF Due
  <2> QED
    BY <1>2, <1>5, <2>1, <2>2 DEF Patient, RestDue, Due
<1>10. CASE Goes(t, "paused", c)
  <2>1. pc'[t] = "paused" /\ call'[t] = c
    BY <1>10, GoesShape DEF Known, TransportTyped
  <2> QED
    BY <1>2, <1>5, <1>6, <2>1 DEF Patient, RestDue
<1> QED
  BY <1>7, <1>8, <1>9, <1>10

\* What a replay comes to later does not depend on what it does with its record.
LEMMA RestStays ==
  ASSUME Known, PatienceInv, NEW t \in Threads, pc[t] \in AtWork, NEW place \in AtWork,
         NEW c, c.op = call[t].op, c.todo = call[t].todo
  PROVE  RestDue(place, c)
<1>1. RestDue(pc[t], call[t])
  BY DEF PatienceInv, AllPatient
<1> QED
  BY <1>1 DEF RestDue, AtWork

\* A pause, or a wait, ends when the batch is due.
LEMMA WaitPatient ==
  ASSUME Known, PatienceInv, NEW t \in Threads, PauseOver(t) \/ AttemptDue(t)
  PROVE  notBefore[call[t].batch] <= now
<1>1. Patient(pc[t], call[t])
  BY DEF PatienceInv, AllPatient
<1>2. /\ now \in Nat /\ call[t].wake \in Int /\ notBefore \in [Batch -> Nat]
      /\ InPlace(pc[t], call[t])
  BY TimesTyped
<1>3. CASE pc[t] = "attempt" /\ call[t].attempt = 0
  BY <1>1, <1>3 DEF Patient
<1>4. CASE pc[t] \in {"paused", "backoff"} /\ now >= call[t].wake
  <2>1. notBefore[call[t].batch] \in Nat
    BY <1>2, <1>4 DEF InPlace, Sending
  <2> QED
    BY <1>1, <1>2, <1>4, <2>1 DEF Patient, Due
<1> QED
  BY <1>3, <1>4 DEF PauseOver, AttemptDue

\* A record is waited for, sent or given up, the server not having been heard.
LEMMA TriesPatient ==
  ASSUME Known, PatienceInv, NEW t \in Threads,
         PauseOver(t) \/ PostTooLate(t) \/ PostStarts(t) \/ RetryWaits(t)
  PROVE  Patient(pc'[t], call'[t]) /\ RestDue(pc'[t], call'[t])
<1>1. /\ call[t] \in CallStates /\ InPlace(pc[t], call[t]) /\ now \in Nat
      /\ call[t].after \in Nat \cup {NoHeader} /\ notBefore \in [Batch -> Nat]
      /\ call[t].wake \in Int
  BY TimesTyped
<1>2. pc[t] \in AtWork /\ call[t].batch \in Batch /\ notBefore[call[t].batch] \in Nat
  BY <1>1 DEF PauseOver, PostTooLate, PostStarts, RetryWaits, AttemptDue, AtWork, InPlace,
              Sending
<1>3. CASE PauseOver(t) \/ PostTooLate(t)
  <2>1. notBefore[call[t].batch] <= now
    BY <1>3, WaitPatient DEF PostTooLate
  <2>2. (Move(t, "attempt") \/ Move(t, "giveup")) /\ UNCHANGED call
    BY <1>3 DEF PauseOver, PostTooLate
  <2>3. pc'[t] \in {"attempt", "giveup"} /\ call'[t] = call[t]
    BY <2>2, MoveShape DEF Known, TransportTyped
  <2>4. RestDue(pc'[t], call'[t])
    BY <1>2, <2>3, RestStays DEF AtWork
  <2>5. call[t].after # NoHeader => notBefore[call[t].batch] <= now + call[t].after
    BY <1>1, <1>2, <2>1
  <2> QED
    BY <2>1, <2>3, <2>4, <2>5 DEF Patient, Due
<1>4. CASE PostStarts(t)
  <2> DEFINE c == [call[t] EXCEPT !.wake = now + PostTimeout(t)]
  <2>1. notBefore[call[t].batch] <= now
    BY <1>4, WaitPatient DEF PostStarts
  <2>2. c.op = call[t].op /\ c.batch = call[t].batch /\ c.todo = call[t].todo
    BY <1>1 DEF CallStates
  <2>3. pc'[t] = "post" /\ call'[t] = c
    BY <1>4, GoesShape DEF Known, TransportTyped, PostStarts
  <2> HIDE DEF c
  <2>4. RestDue(pc'[t], call'[t])
    BY <1>2, <2>2, <2>3, RestStays DEF AtWork
  <2> QED
    BY <2>1, <2>2, <2>3, <2>4 DEF Patient
<1>5. CASE RetryWaits(t)
  <2> DEFINE c == [call[t] EXCEPT !.wake = now + Delay(t), !.after = NoHeader]
  <2>1. /\ c.op = call[t].op /\ c.batch = call[t].batch /\ c.todo = call[t].todo
        /\ c.wake = now + Delay(t)
    BY <1>1 DEF CallStates
  <2>2. pc[t] = "attempt" /\ Patient("attempt", call[t])
    BY <1>5 DEF RetryWaits, PatienceInv, AllPatient
  <2>3. CASE Goes(t, "giveup", call[t])
    <3>1. pc'[t] = "giveup" /\ call'[t] = call[t]
      BY <2>3, GoesShape DEF Known, TransportTyped
    <3>2. RestDue(pc'[t], call'[t])
      BY <1>2, <3>1, RestStays DEF AtWork
    <3> QED
      BY <2>2, <3>1, <3>2 DEF Patient
  <2>4. CASE Goes(t, "backoff", c)
    <3>1. pc'[t] = "backoff" /\ call'[t] = c
      BY <2>4, GoesShape DEF Known, TransportTyped
    <3> HIDE DEF c
    <3>2. RestDue(pc'[t], call'[t])
      BY <1>2, <2>1, <3>1, RestStays DEF AtWork
    <3>3. Due(c.batch, c.wake)
      BY <2>1, <2>2 DEF Patient, Due, Delay
    <3> QED
      BY <3>1, <3>2, <3>3 DEF Patient
  <2> QED
    BY <1>5, <2>3, <2>4 DEF RetryWaits
<1> QED
  BY <1>3, <1>4, <1>5

\* An answer asks for no time, or for one.
LEMMA AnswerPatient ==
  ASSUME Known, PatienceInv, NEW t \in Threads,
         FinalAnswer(t) \/ RetryableStatus(t) \/ NetworkError(t)
  PROVE  \/ Patient(pc'[t], call'[t]) /\ RestDue(pc'[t], call'[t]) /\ UNCHANGED notBefore
         \/ \E seconds \in RetryAfters :
              LET after == AtMost(seconds, MaxRetryAfter) IN
              /\ Again(t, after, now + after)
              /\ notBefore' = [notBefore EXCEPT ![call[t].batch] = now + after]
<1>1. /\ call[t] \in CallStates /\ InPlace(pc[t], call[t]) /\ now \in Nat
      /\ notBefore \in [Batch -> Nat]
  BY TimesTyped
<1>2. pc[t] = "post" /\ pc[t] \in AtWork /\ notBefore[call[t].batch] <= now
  BY DEF FinalAnswer, RetryableStatus, NetworkError, AtWork, PatienceInv, AllPatient, Patient
<1>3. CASE FinalAnswer(t)
  <2>1. PICK success \in BOOLEAN : Goes(t, "ack", [call[t] EXCEPT !.success = success])
    BY <1>3 DEF FinalAnswer
  <2> DEFINE c == [call[t] EXCEPT !.success = success]
  <2>2. c.op = call[t].op /\ c.batch = call[t].batch /\ c.todo = call[t].todo
    BY <1>1 DEF CallStates
  <2>3. pc'[t] = "ack" /\ call'[t] = c
    BY <2>1, GoesShape DEF Known, TransportTyped
  <2> HIDE DEF c
  <2>4. RestDue(pc'[t], call'[t])
    BY <1>2, <2>2, <2>3, RestStays DEF AtWork
  <2> QED
    BY <1>2, <1>3, <2>2, <2>3, <2>4 DEF Patient, FinalAnswer
<1>4. CASE Again(t, NoHeader, call[t].until) /\ UNCHANGED notBefore
  <2> DEFINE c == [call[t] EXCEPT !.attempt = @ + 1, !.after = NoHeader,
                                  !.until = call[t].until]
  <2>1. /\ c.op = call[t].op /\ c.batch = call[t].batch /\ c.todo = call[t].todo
        /\ c.after = NoHeader
    BY <1>1 DEF CallStates
  <2>2. pc'[t] = "attempt" /\ call'[t] = c
    BY <1>4, GoesShape DEF Known, TransportTyped, Again
  <2> HIDE DEF c
  <2>3. RestDue(pc'[t], call'[t])
    BY <1>2, <2>1, <2>2, RestStays DEF AtWork
  <2> QED
    BY <1>2, <1>4, <2>1, <2>2, <2>3 DEF Patient, Due
<1> QED
  BY <1>3, <1>4 DEF RetryableStatus, NetworkError

\* A thread that has a batch in hand keeps it until it writes it down.
LEMMA CalmInHand ==
  ASSUME Known, NEW t \in Threads, Calm(t)
  PROVE  /\ pc[t] # "pausing" /\ pc[t] # "acking"
         /\ pc[t] \in AtWork => pc'[t] \in AtWork /\ call'[t].batch = call[t].batch
         /\ \A b : /\ InHand(AtWork, b) => InHand(AtWork, b)'
                   /\ InHand(Writing, b) => InHand(Writing, b)'
<1>1. /\ OthersStay(t)
      /\ Begins(t) \/ Locks(t) \/ Turns(t) \/ Tries(t) \/ Ends(t)
  BY CalmShape DEF Known, TransportTyped
<1>2. pc[t] # "pausing" /\ pc[t] # "acking"
  BY DEF Calm, SendCalled, RecoverCalled, PersistCalled, CanCall, LockTaken, LockTimesOut,
         PutRefused, PersistConfirms, RecoverDone, NextRecord, PauseOver, RetryWaits,
         PostStarts, PostTooLate, AttemptDue, FinalAnswer, RetryableStatus, NetworkError
<1>3. ASSUME pc[t] \in AtWork PROVE pc'[t] # "idle"
  <2>1. PauseOver(t) \/ RetryWaits(t) \/ PostTooLate(t) \/ FinalAnswer(t)
        \/ RetryableStatus(t) \/ NetworkError(t) \/ PostStarts(t)
    BY <1>3
    DEF Calm, AtWork, SendCalled, RecoverCalled, PersistCalled, CanCall, LockTaken,
        LockTimesOut, PutRefused, PersistConfirms, RecoverDone, NextRecord
  <2>2. \E place \in Places \ {"idle"} :
          (\E c : Goes(t, place, c)) \/ (Move(t, place) /\ UNCHANGED call)
    BY <2>1
    DEF PauseOver, RetryWaits, PostTooLate, FinalAnswer, RetryableStatus, NetworkError,
        Again, PostStarts, Places
  <2> QED
    BY <2>2, GoesShape, MoveShape DEF Known, TransportTyped
<1>4. pc[t] \in AtWork => pc'[t] \in AtWork /\ call'[t].batch = call[t].batch
  BY <1>1, <1>3 DEF Begins, Locks, Turns, Tries, Ends, AtWork, Trying
<1>5. ASSUME NEW b, NEW places \in {AtWork, Writing}, InHand(places, b)
      PROVE  \E u \in Threads : pc'[u] \in places /\ call'[u].batch = b
  BY <1>1, <1>2, <1>4, <1>5 DEF InHand, OthersStay, AtWork, Writing
<1> QED
  BY <1>2, <1>4, <1>5 DEF InHand

\* A step that leaves the store and all times alone.
LEMMA CalmPatient ==
  ASSUME Known, PatienceInv, NEW t \in Threads, Calm(t), UNCHANGED <<now, notBefore>>,
         used \subseteq used',
         Patient(pc'[t], call'[t]) /\ RestDue(pc'[t], call'[t])
  PROVE  PatienceInv'
<1>1. OthersStay(t) /\ UNCHANGED <<records, file>>
  BY CalmShape, CalmStore DEF Known, TransportTyped, storeVars
<1>2. AllPatient'
  <2>1. \A u \in Threads : Patient(pc'[u], call'[u]) /\ RestDue(pc'[u], call'[u])
    BY <1>1 DEF PatienceInv, AllPatient, OthersStay
  <2> QED
    BY <2>1 DEF AllPatient, Patient, RestDue, Due
<1>3. \A b : \A time : Due(b, time)' = Due(b, time)
  BY DEF Due
<1>4. LogDue(records, AtWork)' /\ LogDue(file, Writing)'
  BY <1>1, <1>3, CalmInHand DEF PatienceInv, LogDue
<1>5. UnusedDue'
  BY DEF PatienceInv, UnusedDue
<1> QED
  BY <1>2, <1>4, <1>5 DEF PatienceInv

\* The server asks for a time: the thread knows it, and nobody else has the batch.
LEMMA HeaderPatient ==
  ASSUME Known, PatienceInv, NEW t \in Threads, Calm(t), pc[t] = "post", now' = now,
         used' = used, NEW seconds \in RetryAfters, NEW after,
         after = AtMost(seconds, MaxRetryAfter), Again(t, after, now + after),
         notBefore' = [notBefore EXCEPT ![call[t].batch] = now + after]
  PROVE  PatienceInv'
<1>0. PICK b, c :
        /\ b = call[t].batch
        /\ c = [call[t] EXCEPT !.attempt = @ + 1, !.after = after, !.until = now + after]
  OBVIOUS
<1> USE <1>0
<1>1. /\ call[t] \in CallStates /\ InPlace(pc[t], call[t]) /\ now \in Nat
      /\ notBefore \in [Batch -> Nat] /\ call[t].attempt \in Nat
      /\ call[t].todo \in Seq(Records)
  BY TimesTyped
<1>2. after \in Nat
  BY TransportAssumption DEF AtMost
<1>3. /\ c.op = call[t].op /\ c.batch = call[t].batch /\ c.todo = call[t].todo
      /\ c.attempt = call[t].attempt + 1 /\ c.after = after /\ c.until = now + after
  BY <1>1 DEF CallStates
<1>4. b \in Batch /\ b \in Ids(file) /\ b \in used
  BY <1>1, PostedOnDisk
  DEF InPlace, Sending, Trying, Known, LogInv, UsedFirst, Contents, Kept
<1>5. /\ OthersStay(t) /\ UNCHANGED <<records, file>>
      /\ pc'[t] = "attempt" /\ call'[t] = c
  BY CalmShape, CalmStore, GoesShape DEF Known, TransportTyped, storeVars, Again
<1>6. /\ notBefore'[b] = now + after
      /\ \A x : x # b => notBefore'[x] = notBefore[x] /\ \A time : Due(x, time)' = Due(x, time)
  BY <1>1, <1>4 DEF Due
<1>7. (Patient(pc[t], call[t]) /\ RestDue(pc[t], call[t]))'
  <2>1. Patient(pc[t], call[t])'
    BY <1>1, <1>2, <1>3, <1>5, <1>6 DEF Patient, Due, NoHeader
  <2>2. RestDue(pc[t], call[t])'
    <3>1. ASSUME call[t].op = "recover", NEW i \in 1 .. Len(call[t].todo), i # 1
          PROVE  call[t].todo[i].batch # b
      <4>1. Oldest(call[t].todo, records) /\ b = Head(call[t].todo).batch
        BY <3>1 DEF Known, LogInv, ReplaysOldest, Trying
      <4>2. /\ call[t].todo # <<>> /\ 1 \in 1 .. Len(call[t].todo)
            /\ Head(call[t].todo) = call[t].todo[1] /\ Len(records) \in Nat
            /\ DOMAIN records = 1 .. Len(records) /\ Len(call[t].todo) \in Nat
        BY <1>1, <3>1 DEF Known, TransportTyped, StoreTyped
      <4>3. 1 \in DOMAIN records /\ i \in DOMAIN records
        BY <3>1, <4>1, <4>2 DEF Oldest
      <4> QED
        BY <3>1, <4>1, <4>2, <4>3 DEF Oldest, Known, AllFine, Fine, Loadable
    <3>2. RestDue("post", call[t])
      BY DEF PatienceInv, AllPatient
    <3>3. ASSUME c.op = "recover", NEW i \in 1 .. Len(c.todo), i # 1
          PROVE  Due(c.todo[i].batch, c.todo[i].until)'
      BY <1>3, <1>6, <3>1, <3>2, <3>3 DEF RestDue, AtWork
    <3> QED
      BY <1>5, <3>3 DEF RestDue
  <2> QED
    BY <2>1, <2>2
<1>8. ASSUME NEW u \in Threads, u # t
      PROVE  (Patient(pc[u], call[u]) /\ RestDue(pc[u], call[u]))'
  <2>1. call[u].op \in {"send", "recover"} => pc[u] \in {"idle", "lock"}
    BY <1>8, AloneInside DEF Trying
  <2>2. InPlace(pc[u], call[u])
    BY TimesTyped
  <2>3. pc[u] \in {"idle", "lock", "put", "putting", "confirm"}
    <3>1. pc[u] \in Places
      BY DEF Known, TransportTyped, CallsTyped
    <3> QED
      BY <2>1, <2>2, <3>1 DEF InPlace, Sending, Places
  <2>4. pc[u] = "putting" => call[u].op # "send"
    BY <2>1
  <2>5. pc[u] \in {"lock", "put"} /\ call[u].op # "recover" =>
          notBefore[call[u].batch] = 0 /\ call[u].batch # b
    <3>1. file \in Kept
      BY DEF Known, MemoryMatchesFile, Kept
    <3> QED
      BY <1>4, <3>1 DEF PatienceInv, AllPatient, Patient, Known, LogInv, FreshPuts, Unput
  <2>6. pc[u] \in {"lock", "put"} /\ call[u].op # "recover" =>
          notBefore'[call[u].batch] = 0
    BY <1>6, <2>5
  <2>7. pc'[u] = pc[u] /\ call'[u] = call[u]
    BY <1>5, <1>8 DEF OthersStay
  <2> QED
    BY <2>3, <2>4, <2>6, <2>7 DEF Patient, RestDue, AtWork
<1>9. AllPatient'
  BY <1>7, <1>8 DEF AllPatient
<1>10. LogDue(records, AtWork)' /\ LogDue(file, Writing)'
  <2>1. InHand(AtWork, b)' /\ InHand(Writing, b)'
    BY <1>3, <1>5 DEF InHand, AtWork, Writing
  <2> QED
    BY <1>5, <1>6, <2>1, CalmInHand DEF PatienceInv, LogDue
<1>11. UnusedDue'
  BY <1>4, <1>6 DEF PatienceInv, UnusedDue
<1> QED
  BY <1>9, <1>10, <1>11 DEF PatienceInv

\* A put starts, of a batch the server has never seen.
LEMMA PutPatient ==
  ASSUME Known, PatienceInv, NEW t \in Threads, PutStarts(t)
  PROVE  PatienceInv'
<1>1. /\ pc[t] = "put" /\ PutBegins(call[t].batch) /\ Move(t, "putting")
      /\ UNCHANGED <<now, call, used, notBefore>>
  BY DEF PutStarts, history
<1>2. /\ call[t].batch \in Batch /\ call[t].op \in {"send", "persist"} /\ now \in Nat
  BY <1>1, TimesTyped DEF InPlace
<1>3. OthersStay(t) /\ pc'[t] = "putting"
  BY <1>1, MoveShape DEF Known, TransportTyped
<1>4. notBefore[call[t].batch] = 0
  BY <1>1, <1>2 DEF PatienceInv, AllPatient, Patient
<1>5. AllPatient'
  <2>1. ASSUME NEW u \in Threads PROVE Patient(pc'[u], call[u]) /\ RestDue(pc'[u], call[u])
    <3>1. CASE u = t
      BY <1>3, <1>4, <3>1 DEF Patient, RestDue, AtWork
    <3>2. CASE u # t
      BY <1>3, <3>2 DEF PatienceInv, AllPatient, OthersStay
    <3> QED
      BY <3>1, <3>2
  <2> QED
    BY <1>1, <2>1 DEF AllPatient, Patient, RestDue, Due
<1>6. \A b : /\ InHand(AtWork, b) => InHand(AtWork, b)'
             /\ InHand(Writing, b) => InHand(Writing, b)'
  BY <1>1, <1>3 DEF InHand, OthersStay, AtWork, Writing
<1>7. \A b : \A time : Due(b, time)' = Due(b, time)
  BY <1>1 DEF Due
<1>8. LogDue(records, AtWork)'
  <2>1. /\ records' = Append(records, Record(call[t].batch, 0))
        /\ \A i \in DOMAIN records : records'[i] = records[i]
        /\ DOMAIN records' = 1 .. Len(records) + 1
    BY <1>1, <1>2, PutShape DEF Known, TransportTyped
  <2>2. /\ Len(records) \in Nat /\ DOMAIN records = 1 .. Len(records)
        /\ Record(call[t].batch, 0) \in Records /\ records \in Seq(Records)
    BY <1>2, RecordTypes DEF Known, TransportTyped, StoreTyped
  <2>3. records'[Len(records) + 1] = Record(call[t].batch, 0)
    BY <2>1, <2>2
  <2>4. ASSUME NEW i \in DOMAIN records'
        PROVE  InHand(AtWork, records[i].batch)' \/ Due(records'[i].batch, records'[i].until)
    <3>1. CASE i = Len(records) + 1
      BY <1>2, <1>4, <2>3, <3>1 DEF Due, Record
    <3>2. CASE i # Len(records) + 1
      <4>1. i \in DOMAIN records /\ records'[i] = records[i]
        BY <2>1, <2>2, <3>2
      <4> QED
        BY <1>6, <4>1 DEF PatienceInv, LogDue
    <3> QED
      BY <3>1, <3>2
  <2> QED
    BY <1>7, <2>4 DEF LogDue
<1>9. LogDue(file, Writing)'
  <2>1. UNCHANGED file
    BY <1>1 DEF PutBegins, Mutates
  <2> QED
    BY <1>6, <1>7, <2>1 DEF PatienceInv, LogDue
<1>10. UnusedDue'
  BY <1>1 DEF PatienceInv, UnusedDue
<1> QED
  BY <1>5, <1>8, <1>9, <1>10 DEF PatienceInv

\* An acknowledgement, or a pause until the server wants to see the batch, starts.
LEMMA EndingPatient ==
  ASSUME Known, PatienceInv, NEW t \in Threads, AcknowledgeStarts(t) \/ PauseStarts(t)
  PROVE  PatienceInv'
<1>1. PICK b : b = call[t].batch
  OBVIOUS
<1>2. /\ UNCHANGED <<now, call, used, notBefore, file>> /\ OthersStay(t)
      /\ \/ pc[t] = "ack" /\ pc'[t] = "acking" /\ AcknowledgeBegins(b)
         \/ pc[t] = "giveup" /\ pc'[t] = "pausing" /\ PauseBegins(b, call[t].until)
  BY <1>1, MoveShape
  DEF Known, TransportTyped, AcknowledgeStarts, PauseStarts, AcknowledgeBegins, PauseBegins,
      Mutates, history
<1>3. AllPatient'
  <2>1. ASSUME NEW u \in Threads PROVE Patient(pc'[u], call[u]) /\ RestDue(pc'[u], call[u])
    <3>1. CASE u = t
      BY <1>2, <3>1 DEF PatienceInv, AllPatient, Patient, RestDue, AtWork
    <3>2. CASE u # t
      BY <1>2, <3>2 DEF PatienceInv, AllPatient, OthersStay
    <3> QED
      BY <3>1, <3>2
  <2> QED
    BY <1>2, <2>1 DEF AllPatient, Patient, RestDue, Due
<1>4. \A x : /\ InHand(AtWork, x) => InHand(AtWork, x)' \/ (x = b /\ pc[t] = "giveup")
             /\ InHand(Writing, x) => InHand(Writing, x)'
  BY <1>1, <1>2 DEF InHand, OthersStay, AtWork, Writing
<1>5. \A x : \A time : Due(x, time)' = Due(x, time)
  BY <1>2 DEF Due
<1>6. LogDue(file, Writing)'
  BY <1>2, <1>4, <1>5 DEF PatienceInv, LogDue
<1>7. LogDue(records, AtWork)'
  <2>1. CASE pc[t] = "ack" /\ AcknowledgeBegins(b)
    <3>1. StoreTyped /\ Distinct(records)
      BY DEF Known, TransportTyped, AllFine, Fine, Loadable, Distinct
    <3>2. PICK i \in DOMAIN records :
            /\ DOMAIN records' = 1 .. Len(records) - 1
            /\ \A k \in 1 .. Len(records) - 1 :
                 records'[k] = IF k < i THEN records[k] ELSE records[k + 1]
      BY <2>1, <3>1, AcknowledgeShape
    <3>3. ASSUME NEW k \in DOMAIN records' PROVE \E j \in DOMAIN records : records'[k] = records[j]
      <4>1. /\ k \in 1 .. Len(records) - 1 /\ Len(records) \in Nat
            /\ DOMAIN records = 1 .. Len(records)
        BY <3>1, <3>2, <3>3 DEF StoreTyped
      <4>2. k \in DOMAIN records /\ k + 1 \in DOMAIN records
        BY <4>1
      <4> QED
        BY <3>2, <4>1, <4>2
    <3> QED
      BY <1>4, <1>5, <2>1, <3>3 DEF PatienceInv, LogDue
  <2>2. CASE pc[t] = "giveup" /\ PauseBegins(b, call[t].until)
    <3>1. Due(b, call[t].until)
      BY <1>1, <2>2 DEF PatienceInv, AllPatient, Patient
    <3>2. records' = [i \in DOMAIN records |->
                        IF records[i].batch = b THEN Record(b, call[t].until) ELSE records[i]]
      BY <2>2 DEF PauseBegins, Mutates
    <3>3. /\ DOMAIN records' = DOMAIN records
          /\ \A i \in DOMAIN records :
               \/ records'[i].batch = b /\ records'[i].until = call[t].until
               \/ records'[i] = records[i] /\ records[i].batch # b
      BY <3>2 DEF Record
    <3> QED
      BY <1>4, <1>5, <3>1, <3>3 DEF PatienceInv, LogDue
  <2> QED
    BY <1>2, <2>1, <2>2
<1>8. UnusedDue'
  BY <1>2 DEF PatienceInv, UnusedDue
<1> QED
  BY <1>3, <1>6, <1>7, <1>8 DEF PatienceInv

\* A mutation returns: what was written down is due, and nobody has it in hand.
LEMMA ReturnsPatient ==
  ASSUME Known, PatienceInv, NEW t \in Threads, MutationReturns(t)
  PROVE  PatienceInv'
<1> USE MutationReturnsShape, ReturnedShape
<1>1. UNCHANGED <<now, notBefore, used>>
  BY DEF MutationReturns
<1>2. /\ pc[t] \in Busy /\ \A u \in Threads \ {t} : pc[u] \notin Busy
      /\ pc[t] = "acking" => call[t].batch \notin Ids(records)
  BY OneBusy DEF Known, LogInv, Removed
<1>3. Patient(pc[t], call[t]) /\ RestDue(pc[t], call[t])
  BY DEF PatienceInv, AllPatient
<1>4. Patient(pc'[t], call'[t]) /\ RestDue(pc'[t], call'[t])
  <2>1. CASE pc[t] = "putting" /\ call[t].op = "send"
    <3>1. UNCHANGED call /\ pc'[t] = "attempt" /\ notBefore[call[t].batch] = 0
      BY <1>3, <2>1 DEF MutationReturns, Patient
    <3>2. now \in Nat /\ call[t].after \in Nat \cup {NoHeader}
      BY TimesTyped
    <3> QED
      BY <2>1, <3>1, <3>2 DEF Patient, RestDue, Due
  <2>2. CASE pc[t] = "putting" /\ call[t].op # "send"
    <3>1. pc'[t] = "confirm"
      BY <2>2
    <3> QED
      BY <3>1 DEF Patient, RestDue, AtWork
  <2>3. CASE pc'[t] = "idle"
    BY <2>3 DEF Patient, RestDue, AtWork
  <2>4. CASE pc[t] = "acking" /\ pc'[t] = "next"
    <3>1. /\ call'[t].op = call[t].op /\ call[t].op = "recover"
          /\ call'[t].todo = Tail(call[t].todo)
      BY <2>4
    <3>2. call[t].todo \in Seq(Records) /\ call[t].todo # <<>>
      BY <2>4, <3>1, TimesTyped DEF InPlace, Sending
    <3>3. ASSUME NEW i \in 1 .. Len(Tail(call[t].todo))
          PROVE  Due(Tail(call[t].todo)[i].batch, Tail(call[t].todo)[i].until)
      <4>1. /\ i + 1 \in 1 .. Len(call[t].todo) /\ i + 1 # 1
            /\ Tail(call[t].todo)[i] = call[t].todo[i + 1]
        BY <3>2
      <4> QED
        BY <1>3, <2>4, <3>1, <4>1 DEF RestDue, AtWork
    <3> QED
      BY <2>4, <3>1, <3>3 DEF Patient, RestDue
  <2> QED
    BY <1>2, <2>1, <2>2, <2>3, <2>4 DEF Busy
<1>5. AllPatient'
  <2>1. \A u \in Threads : Patient(pc'[u], call'[u]) /\ RestDue(pc'[u], call'[u])
    BY <1>4 DEF PatienceInv, AllPatient, OthersStay
  <2> QED
    BY <1>1, <2>1 DEF AllPatient, Patient, RestDue, Due
<1>6. ASSUME NEW i \in DOMAIN records
      PROVE  InHand(AtWork, records[i].batch)' \/ Due(records[i].batch, records[i].until)
  <2>1. CASE Due(records[i].batch, records[i].until)
    BY <2>1
  <2>2. CASE InHand(AtWork, records[i].batch)
    <3>1. PICK u \in Threads : pc[u] \in AtWork /\ call[u].batch = records[i].batch
      BY <2>2 DEF InHand
    <3>2. u # t
      BY <1>2, <3>1 DEF Ids, AtWork, Busy
    <3>3. pc'[u] \in AtWork /\ call'[u].batch = records[i].batch
      BY <3>1, <3>2 DEF OthersStay
    <3> QED
      BY <3>3 DEF InHand
  <2> QED
    BY <2>1, <2>2 DEF PatienceInv, LogDue
<1>7. LogDue(records, AtWork)' /\ LogDue(file, Writing)'
  BY <1>1, <1>6 DEF LogDue, InHand, Due, Writing
<1>8. UnusedDue'
  BY <1>1 DEF PatienceInv, UnusedDue
<1> QED
  BY <1>5, <1>7, <1>8 DEF PatienceInv

\* A mutation raises: what was there before is due, the pause forgotten.
LEMMA RaisesPatient ==
  ASSUME Known, PatienceInv, NEW t \in Threads, MutationRaises(t)
  PROVE  PatienceInv'
<1> USE RaisedShape
<1>1. PICK b : b = call[t].batch
  OBVIOUS
<1>2. /\ b \in Batch /\ now \in Nat /\ notBefore \in [Batch -> Nat]
      /\ \A u \in Threads \ {t} : pc[u] \notin Busy
  <2>1. InPlace(pc[t], call[t])
    BY TimesTyped
  <2> QED
    BY <1>1, <2>1, TimesTyped, OneBusy DEF InPlace, Sending, Busy
<1>3. /\ now' = now /\ used' = used
      /\ notBefore' = IF pc[t] = "pausing" THEN [notBefore EXCEPT ![b] = 0] ELSE notBefore
  BY <1>1 DEF MutationRaises
<1>4. \A x : notBefore'[x] = notBefore[x] \/ (x = b /\ notBefore'[x] = 0)
  BY <1>2, <1>3
<1>5. \A x : \A time : Due(x, time) => Due(x, time)'
  BY <1>2, <1>3, <1>4 DEF Due
<1>6. AllPatient'
  <2>1. ASSUME NEW u \in Threads PROVE (Patient(pc[u], call[u]) /\ RestDue(pc[u], call[u]))'
    <3>1. CASE u = t
      BY <3>1 DEF Patient, RestDue, AtWork
    <3>2. CASE u # t
      <4>1. pc'[u] = pc[u] /\ call'[u] = call[u] /\ call[u].after \in Nat \cup {NoHeader}
        BY <3>2, TimesTyped DEF OthersStay
      <4>2. Patient(pc[u], call[u]) /\ RestDue(pc[u], call[u])
        BY DEF PatienceInv, AllPatient
      <4>3. Patient(pc[u], call[u])'
        <5>1. /\ Due(call[u].batch, call[u].until) => Due(call[u].batch, call[u].until)'
              /\ Due(call[u].batch, call[u].wake) => Due(call[u].batch, call[u].wake)'
          BY <1>5, <4>1 DEF Due
        <5>2. CASE notBefore'[call[u].batch] = notBefore[call[u].batch]
          BY <1>3, <4>1, <4>2, <5>2 DEF Patient, Due
        <5>3. CASE notBefore'[call[u].batch] = 0
          BY <1>2, <1>3, <4>1, <5>3 DEF Patient, Due
        <5> QED
          BY <1>4, <5>2, <5>3
      <4>4. RestDue(pc[u], call[u])'
        BY <1>5, <4>1, <4>2 DEF RestDue
      <4> QED
        BY <4>3, <4>4
    <3> QED
      BY <3>1, <3>2
  <2> QED
    BY <2>1 DEF AllPatient
<1>7. ASSUME NEW i \in DOMAIN file
      PROVE  InHand(AtWork, file[i].batch)' \/ Due(file[i].batch, file[i].until)'
  <2>1. PICK x, time : x = file[i].batch /\ time = file[i].until
    OBVIOUS
  <2>2. InHand(AtWork, x)' \/ Due(x, time)'
    <3>1. CASE Due(x, time)
      BY <1>5, <3>1
    <3>2. CASE InHand(Writing, x)
      <4>1. PICK u \in Threads : pc[u] \in Writing /\ call[u].batch = x
        BY <3>2 DEF InHand
      <4>2. CASE u = t
        <5>1. notBefore'[x] <= now
          BY <1>1, <1>2, <1>3, <4>1, <4>2
          DEF PatienceInv, AllPatient, Patient, Writing, AtWork, Busy
        <5> QED
          BY <1>3, <5>1 DEF Due
      <4>3. CASE u # t
        <5>1. pc'[u] \in AtWork /\ call'[u].batch = x
          BY <1>2, <4>1, <4>3 DEF OthersStay, Writing, Busy
        <5> QED
          BY <5>1 DEF InHand
      <4> QED
        BY <4>2, <4>3
    <3> QED
      BY <2>1, <3>1, <3>2 DEF PatienceInv, LogDue
  <2> QED
    BY <2>1, <2>2
<1>8. LogDue(records, AtWork)' /\ LogDue(file, Writing)'
  BY <1>7 DEF LogDue, InHand, Writing
<1>9. UnusedDue'
  BY <1>3, <1>4 DEF PatienceInv, UnusedDue
<1> QED
  BY <1>6, <1>8, <1>9 DEF PatienceInv

\* The file, the process, the machine and the clock.
LEMMA EnvironmentPatient ==
  ASSUME Known, PatienceInv, Replace \/ Crash \/ Restart \/ Tick \/ UNCHANGED vars
  PROVE  PatienceInv'
<1>1. CASE Replace
  <2>1. /\ file' = records /\ UNCHANGED <<records, now, pc, call, used, notBefore>>
    BY <1>1 DEF Replace, ReplaceFile, history
  <2> QED
    BY <2>1
    DEF PatienceInv, AllPatient, Patient, RestDue, LogDue, InHand, Due, UnusedDue, Writing
<1>2. CASE Crash
  <2>1. /\ pc' = [t \in Threads |-> "idle"] /\ records' = <<>> /\ file' \in survivors \cup {file}
        /\ now' = now /\ used' = used /\ notBefore' = [b \in Batch |-> Written(b)]
    BY <1>2 DEF Crash, ProcessDies, PowerFails, Stops
  <2>2. AllPatient' /\ LogDue(records, AtWork)'
    BY <2>1 DEF AllPatient, Patient, RestDue, LogDue, AtWork
  <2>3. LogDue(file, Writing)'
    <3>1. file' \in Seq(Records)
      <4>1. file \in Seq(Records) /\ survivors \subseteq Seq(Records)
        BY DEF Known, TransportTyped, StoreTyped
      <4> QED
        BY <2>1, <4>1
    <3>2. Distinct(file')
      BY <2>1 DEF Known, AllFine, MemoryMatchesFile, Fine, Loadable, Distinct
    <3>3. ASSUME NEW i \in DOMAIN file' PROVE Due(file[i].batch, file[i].until)'
      <4>1. file'[i] \in Records /\ now \in Nat
        BY <3>1, <3>3, TimesTyped
      <4>2. /\ file'[i].batch \in Batch
            /\ notBefore'[file'[i].batch] = Written(file'[i].batch)
        BY <2>1, <4>1 DEF Records
      <4>3. CASE \E k \in DOMAIN file' :
                   file'[k] = Record(file'[i].batch, notBefore[file'[i].batch])
        <5>1. PICK k \in DOMAIN file' :
                file'[k] = Record(file'[i].batch, notBefore[file'[i].batch])
          BY <4>3
        <5>2. file'[k].batch = file'[i].batch /\ file'[k].until = notBefore[file'[i].batch]
          BY <5>1 DEF Record
        <5>3. k = i
          BY <3>2, <5>2 DEF Distinct
        <5>4. notBefore'[file'[i].batch] = file'[i].until
          BY <4>2, <4>3, <5>2, <5>3 DEF Written
        <5>5. file'[i].until \in Nat
          BY <4>1 DEF Records
        <5> QED
          BY <5>4, <5>5 DEF Due
      <4>4. CASE ~ \E k \in DOMAIN file' :
                     file'[k] = Record(file'[i].batch, notBefore[file'[i].batch])
        <5>1. notBefore'[file'[i].batch] = 0
          BY <4>2, <4>4 DEF Written
        <5> QED
          BY <2>1, <4>1, <5>1 DEF Due
      <4> QED
        BY <4>3, <4>4
    <3> QED
      BY <3>3 DEF LogDue
  <2>4. UnusedDue'
    BY <2>1 DEF PatienceInv, UnusedDue, Written
  <2> QED
    BY <2>2, <2>3, <2>4 DEF PatienceInv
<1>3. CASE Restart
  <2>1. /\ write.stage = "none" /\ records' = file
        /\ UNCHANGED <<file, now, pc, call, used, notBefore>>
    BY <1>3 DEF Restart, Opens, history, Known, TransportTyped, StoreTyped, MemoryMatchesFile
  <2>2. \A t \in Threads : pc[t] \notin Busy
    BY <2>1 DEF Known, PromiseInv, OneMutation
  <2>3. \A b : InHand(Writing, b) => InHand(AtWork, b)
    BY <2>2 DEF InHand, Writing, Busy
  <2> QED
    BY <2>1, <2>3
    DEF PatienceInv, AllPatient, Patient, RestDue, LogDue, InHand, Due, UnusedDue
<1>4. CASE Tick
  <2>1. now' = now + 1 /\ UNCHANGED <<records, file, pc, call, used, notBefore>>
    BY <1>4 DEF Tick, storeVars, history
  <2>2. now \in Nat /\ notBefore \in [Batch -> Nat]
    BY TimesTyped
  <2>3. \A b \in Batch : notBefore[b] \in Nat
    BY <2>2
  <2>4. \A b \in Batch : \A time : Due(b, time) => Due(b, time)'
    BY <2>1, <2>2, <2>3 DEF Due
  <2>5. AllPatient'
    <3>1. ASSUME NEW t \in Threads PROVE (Patient(pc[t], call[t]) /\ RestDue(pc[t], call[t]))'
      <4>1. /\ Patient(pc[t], call[t]) /\ RestDue(pc[t], call[t]) /\ InPlace(pc[t], call[t])
            /\ call[t].after \in Nat \cup {NoHeader} /\ call[t].todo \in Seq(Records)
        BY TimesTyped DEF PatienceInv, AllPatient
      <4>2. pc[t] \in Sending => call[t].batch \in Batch
        BY <4>1 DEF InPlace
      <4>3. Patient(pc[t], call[t])'
        BY <2>1, <2>2, <2>3, <2>4, <4>1, <4>2 DEF Patient, Sending
      <4>4. \A i \in 1 .. Len(call[t].todo) : call[t].todo[i].batch \in Batch
        <5>1. \A i \in 1 .. Len(call[t].todo) : call[t].todo[i] \in Records
          BY <4>1
        <5> QED
          BY <5>1 DEF Records
      <4>5. RestDue(pc[t], call[t])'
        BY <2>1, <2>4, <4>1, <4>4 DEF RestDue
      <4> QED
        BY <4>3, <4>5
    <3> QED
      BY <3>1 DEF AllPatient
  <2>6. LogDue(records, AtWork)' /\ LogDue(file, Writing)'
    <3>1. /\ \A i \in DOMAIN records : records[i] \in Records
          /\ \A i \in DOMAIN file : file[i] \in Records
      BY DEF Known, TransportTyped, StoreTyped
    <3>2. \A r \in Records : r.batch \in Batch
      BY DEF Records
    <3> QED
      BY <2>1, <2>4, <3>1, <3>2 DEF PatienceInv, LogDue, InHand
  <2>7. UnusedDue'
    BY <2>1 DEF PatienceInv, UnusedDue
  <2> QED
    BY <2>5, <2>6, <2>7 DEF PatienceInv
<1>5. CASE UNCHANGED vars
  BY <1>5
  DEF vars, storeVars, history, PatienceInv, AllPatient, Patient, RestDue, LogDue, InHand,
      Due, UnusedDue
<1> QED
  BY <1>1, <1>2, <1>3, <1>4, <1>5

\* Every step.
LEMMA PatienceStep ==
  ASSUME PowerMayFail => DirectorySync, Known, PatienceInv, [Next]_vars
  PROVE  PatienceInv'
<1>1. ASSUME NEW t \in Threads, Calm(t) PROVE PatienceInv'
  <2>1. /\ OthersStay(t) /\ now' = now
        /\ Begins(t) \/ Locks(t) \/ Turns(t) \/ Tries(t) \/ (Ends(t) /\ UNCHANGED history)
    BY <1>1, CalmShape
    DEF Known, TransportTyped, Calm, SendCalled, RecoverCalled, PersistCalled, LockTaken,
        LockTimesOut, PutRefused, PersistConfirms, RecoverDone, NextRecord, PauseOver,
        RetryWaits, PostStarts, PostTooLate, FinalAnswer, RetryableStatus, NetworkError
  <2>2. used \subseteq used' /\ used' \subseteq Batch
    <3>1. TransportTyped'
      BY <1>1, TransportTypeStep DEF Next, Step, Calm, Known
    <3> QED
      BY <2>1, <3>1 DEF Begins, Locks, Turns, Tries, history, TransportTyped, HistoryTyped
  <2>3. ~(FinalAnswer(t) \/ RetryableStatus(t) \/ NetworkError(t)) => UNCHANGED notBefore
    BY <1>1
    DEF Calm, SendCalled, RecoverCalled, PersistCalled, LockTaken, LockTimesOut, PutRefused,
        PersistConfirms, RecoverDone, NextRecord, PauseOver, RetryWaits, PostStarts,
        PostTooLate, history
  <2>4. CASE FinalAnswer(t) \/ RetryableStatus(t) \/ NetworkError(t)
    <3>1. CASE Patient(pc'[t], call'[t]) /\ RestDue(pc'[t], call'[t]) /\ UNCHANGED notBefore
      BY <1>1, <2>1, <2>2, <3>1, CalmPatient
    <3>2. ASSUME NEW seconds \in RetryAfters,
                 Again(t, AtMost(seconds, MaxRetryAfter), now + AtMost(seconds, MaxRetryAfter)),
                 notBefore' = [notBefore EXCEPT
                                 ![call[t].batch] = now + AtMost(seconds, MaxRetryAfter)]
          PROVE  PatienceInv'
      <4>1. pc[t] = "post" /\ used' = used
        BY <2>4 DEF FinalAnswer, RetryableStatus, NetworkError
      <4> QED
        BY <1>1, <2>1, <3>2, <4>1, HeaderPatient
    <3> QED
      BY <2>4, <3>1, <3>2, AnswerPatient
  <2>5. CASE Begins(t) \/ Locks(t) \/ Ends(t)
    <3>1. Patient(pc'[t], call'[t]) /\ RestDue(pc'[t], call'[t])
      BY <2>2, <2>5, BeginsPatient, LocksPatient DEF Ends, Patient, RestDue, AtWork
    <3> QED
      BY <1>1, <2>1, <2>2, <2>3, <2>4, <3>1, CalmPatient
  <2>6. CASE /\ Turns(t) \/ Tries(t)
             /\ ~(FinalAnswer(t) \/ RetryableStatus(t) \/ NetworkError(t))
    <3>1. NextRecord(t) \/ PauseOver(t) \/ PostTooLate(t) \/ PostStarts(t) \/ RetryWaits(t)
      <4>1. ~RecoverDone(t)
        BY <2>6, ReturnsShape DEF RecoverDone, Turns, Tries, Trying, Known, TransportTyped
      <4> QED
        BY <1>1, <2>6, <4>1
        DEF Calm, Turns, Tries, SendCalled, RecoverCalled, PersistCalled, CanCall, LockTaken,
            LockTimesOut, PutRefused, PersistConfirms
    <3> QED
      BY <1>1, <2>1, <2>2, <2>3, <2>6, <3>1, NextPatient, TriesPatient, CalmPatient
  <2> QED
    BY <2>1, <2>4, <2>5, <2>6
<1> QED
  BY <1>1, PutPatient, EndingPatient, ReturnsPatient, RaisesPatient, EnvironmentPatient
  DEF Next, Step, Calm

\* A Retry-After is obeyed as long as the code knows of it: by the call that heard it,
\* while its process lives, and by every later replay, of the same process or of another
\* one, once pause() has written it down.  No batch is sent before that time.  Nothing is
\* claimed of a time that was not written down when the call ended: one heard by a call
\* whose process stops before it, or whose pause could not be written, is forgotten
\* (transport.py:201-209, 237-242; notBefore goes back to what the log says then).
THEOREM ServersAreHeard ==
  ASSUME PowerMayFail => DirectorySync
  PROVE  Spec => RetryAfterHonoured
<1>1. ASSUME Known, PatienceInv, [Next]_vars, NEW t \in Threads, Posts(t)
      PROVE  now >= notBefore[call'[t].batch]
  <2>1. PostStarts(t)
    BY <1>1, OnlyPostStarts DEF Known
  <2>2. call'[t].batch = call[t].batch
    BY <2>1, TimesTyped, <1>1 DEF PostStarts, Goes, Known, TransportTyped, CallsTyped, CallStates
  <2>3. notBefore[call[t].batch] <= now
    BY <1>1, <2>1, WaitPatient DEF PostStarts
  <2>4. call[t].batch \in Batch
    BY <1>1, <2>1, TimesTyped DEF PostStarts, AttemptDue, InPlace, Sending
  <2>5. notBefore[call[t].batch] \in Nat /\ now \in Nat
    BY <1>1, <2>4, TimesTyped
  <2> QED
    BY <2>2, <2>3, <2>5
<1>2. Known /\ PatienceInv /\ [Next]_vars =>
        [\A t \in Threads : Posts(t) => now >= notBefore[call'[t].batch]]_vars
  BY <1>1
<1>3. Init => PatienceInv
  BY DEF Init, StoreInit, PatienceInv, AllPatient, Patient, RestDue, LogDue, UnusedDue, AtWork
<1> QED
  BY <1>2, <1>3, KnownInit, KnownStep, PatienceStep, PTL DEF Spec, RetryAfterHonoured
=============================================================================
